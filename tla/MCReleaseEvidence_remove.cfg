SPECIFICATION Spec
CONSTANTS
    Procs = {p}
    Projects = {1}
    Kinds = {"release"}
    Faults = {"remove"}
    Cleans = "never"
    MaxCommands = 2
    MaxEdits = 0
INVARIANT Committed
CHECK_DEADLOCK FALSE
