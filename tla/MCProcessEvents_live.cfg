SPECIFICATION AskingSpec
CONSTANTS
    Scripts <- ShortScripts
    Chunks = {2}
    Timeouts = {1}
    PipeCapacity = 1
    PayloadSize = 1
    MaxPayloads = 1
    EdgeExit = TRUE
    Faults = {"watch"}
PROPERTY EventEnds
PROPERTY ExitTold
CHECK_DEADLOCK FALSE
