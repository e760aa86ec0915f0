SPECIFICATION FairSpec
CONSTANTS
    c1 = c1  c2 = c2  c3 = c3
    Nobody = Nobody
    Ids = {c1, c2}
    TTL = 1
    RingSize = 1
    Watching = TRUE
    Faults = {"cri", "inotify"}
INVARIANTS TypeOK ScansKeepNames
PROPERTIES RescanNames GoneForgotten
