SPECIFICATION Spec
CONSTANTS
    Procs = {p, q}
    Files = {1, 2}
    Main = 1
    Contents = {a}
    Bad = bad
    Queries = {"check", "debug", "release"}
    Maintains = TRUE
    EditedMidway = {}
    Faults = {"crash", "damage", "write"}
    MaxBytes = 1
    MaxCommands = 3
    MaxEdits = 2
INVARIANT AnswersClean
INVARIANT CapacityKept
SYMMETRY AnyProcess
CHECK_DEADLOCK FALSE
