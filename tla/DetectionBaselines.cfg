SPECIFICATION Spec
CONSTANTS
    v = v  o = o  s = s
    None = None
    Cgroups = {v, o, s}
    Resolved = {v, o}
    RequestMilliCPU <- Requests
    Intervals <- AllIntervals
    Alpha = 50
    Warmup = 2
    PruneAfterMisses = 2
    MinSamples = 2
    RunqWarn = 20
    DeviationFactor = 300
    ConfidenceThreshold = 70
    TopN = 2
    MaxPeriods = 3
INVARIANTS TypeOK SteadyIsInnocent KeptWhileSeen
PROPERTIES SpikeStaysVisible AttributionIsStable ThrottleOfInterval
