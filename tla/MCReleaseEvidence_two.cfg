SPECIFICATION Spec
CONSTANTS
    Procs = {p, q}
    Projects = {1, 2}
    Kinds = {"release"}
    Faults = {"publish", "crash"}
    Cleans = "never"
    MaxCommands = 2
    MaxEdits = 2
INVARIANT EvidenceWhole
INVARIANT LocksServe
PROPERTY ClearedExactly
SYMMETRY AnyProcess
CHECK_DEADLOCK FALSE
