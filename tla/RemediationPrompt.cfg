SPECIFICATION Spec
CONSTANTS
    p1 = p1  p2 = p2  a = a  b = b  h1 = h1  h2 = h2
    None = None
    Handlers = {h1, h2}
    Pods = {p1}
    Containers = {a, b}
    PodOf <- OnePod
    NamespaceOf <- NamespacesSystem
    Original <- Limits
    Request <- Requests
    Snapshots <- SnapshotsMixed
    Configs <- ConfigsAll
    Cooldown = 2
    RestoreAfter = 1
    Faults = {"error", "gone"}
    Prompt = TRUE
SYMMETRY Symmetric
INVARIANTS ThrottledIsRecorded OneActionPerCooldown
PROPERTY KeepsPromise
