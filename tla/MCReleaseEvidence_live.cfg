SPECIFICATION LiveSpec
CONSTANTS
    Procs = {p, q}
    Projects = {1, 2}
    Kinds = {"release"}
    Faults = {}
    Cleans = "never"
    MaxCommands = 2
    MaxEdits = 1
PROPERTY CommandsEnd
CHECK_DEADLOCK FALSE
