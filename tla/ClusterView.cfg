SPECIFICATION FairSpec
CONSTANTS
    n1 = n1  n2 = n2
    None = None
    Nodes = {n1}
    NodeName <- Named
    ReadInterval = 2
    PostTimeout = 1
    HandlerTime = 1
    StaleAfter = 4
    MaxLag = 2
    MaxLate = 1
INVARIANTS TypeOK HeardNotStale
PROPERTIES OrderedWhileAwaited SilentGoesStale ViewHeals StoreFills
