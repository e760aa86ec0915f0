SPECIFICATION Spec
CONSTANTS
    None = None
    Absent = Absent
    Names = {1, 2, 3}
    Specs <- SomeSpecs
    Faults = {"error"}
    MaxEdits = 3
INVARIANTS TypeOK ResizesOnlyIfEnforced ScopeKept
