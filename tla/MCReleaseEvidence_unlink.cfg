SPECIFICATION Spec
CONSTANTS
    Procs = {p, q}
    Projects = {1}
    Kinds = {"release"}
    Faults = {}
    Cleans = "anytime"
    MaxCommands = 4
    MaxEdits = 0
INVARIANT OneBuilder
CHECK_DEADLOCK FALSE
