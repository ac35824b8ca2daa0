SPECIFICATION LiveSpec
CONSTANTS
    Procs = {p, q}
    Files = {1}
    Main = 1
    Contents = {a, b}
    Bad = bad
    Queries = {"check", "debug"}
    Maintains = TRUE
    EditedMidway = {}
    Faults = {"damage"}
    MaxBytes = 1
    MaxCommands = 3
    MaxEdits = 1
PROPERTY CommandsEnd
CHECK_DEADLOCK FALSE
