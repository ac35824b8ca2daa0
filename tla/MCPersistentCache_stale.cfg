SPECIFICATION Spec
CONSTANTS
    Procs = {p}
    Files = {1, 2}
    Main = 1
    Contents = {a}
    Bad = bad
    Queries = {"check"}
    Maintains = FALSE
    EditedMidway = {1}
    Faults = {}
    MaxBytes = 1
    MaxCommands = 2
    MaxEdits = 1
INVARIANT CleanSame
CHECK_DEADLOCK FALSE
