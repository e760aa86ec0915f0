SPECIFICATION Spec
CONSTANTS
    p1 = p1  p2 = p2  a = a  b = b  h1 = h1  h2 = h2
    None = None
    Handlers = {h1, h2}
    Pods = {p1}
    Containers = {a, b}
    PodOf <- OnePod
    NamespaceOf <- Namespaces1
    Original <- Limits
    Request <- Requests
    Snapshots <- SnapshotsBoth
    Configs <- ConfigsEnforce
    Cooldown = 1
    RestoreAfter = 1
    Faults = {"crash"}
    Prompt = TRUE
INVARIANT RestartNeverOrphans
