SPECIFICATION Spec
CONSTANTS
    Procs = {p, q}
    Projects = {1}
    Kinds = {"release", "debug", "emit"}
    Faults = {"build", "publish", "crash"}
    Cleans = "alone"
    MaxCommands = 3
    MaxEdits = 2
INVARIANT EvidenceWhole
INVARIANT LocksServe
PROPERTY ClearedExactly
SYMMETRY AnyProcess
CHECK_DEADLOCK FALSE
