SPECIFICATION Spec
CONSTANTS
    Procs = {p, q}
    Files = {1, 2}
    Main = 1
    Contents = {a, b}
    Bad = bad
    Queries = {"test"}
    Maintains = FALSE
    EditedMidway = {1}
    Faults = {"crash"}
    MaxBytes = 1
    MaxCommands = 3
    MaxEdits = 3
INVARIANT AnswersClean
SYMMETRY AnyProcess
CHECK_DEADLOCK FALSE
