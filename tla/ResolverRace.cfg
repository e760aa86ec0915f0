SPECIFICATION Spec
CONSTANTS
    c1 = c1  c2 = c2  c3 = c3
    Nobody = Nobody
    Ids = {c1, c2, c3}
    TTL = 1
    RingSize = 2
    Watching = FALSE
    Faults = {}
SYMMETRY Symmetric
INVARIANT LiveNeverExpires
