SPECIFICATION Spec
CONSTANTS
    c1 = c1  c2 = c2  g1 = g1  g2 = g2  r1 = r1  r2 = r2
    None = None
    CPUs = {c1, c2}
    Cgroups = {g1, g2}
    Requests = {r1, r2}
    Inflight = 1
    Capacity = 1
    MaxEvents = 2
    MaxAgain = 1
    Faults = {"iterate", "delete"}
SYMMETRY Symmetric
INVARIANTS TypeOK NoneCountedTwice LostOnlyInRace HistogramMatchesCount
