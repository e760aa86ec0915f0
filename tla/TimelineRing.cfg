SPECIFICATION Spec
CONSTANTS
    c1 = c1  c2 = c2  g1 = g1  g2 = g2
    Idle = Idle
    CPUs = {c1}
    Cgroups = {g1, g2}
    Buckets = 2
    Capacity = 1
    MaxEpoch = 3
    Faults = {"iterate"}
SYMMETRY Symmetric
INVARIANTS TypeOK RingIsLog SettledIsRead MixedOnlyInReset
