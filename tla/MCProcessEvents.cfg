SPECIFICATION AskingSpec
CONSTANTS
    Scripts <- BothStreams
    Chunks = {2}
    Timeouts = {1}
    PipeCapacity = 1
    PayloadSize = 2
    MaxPayloads = 1
    EdgeExit = TRUE
    Faults = {"timer", "register", "watch"}
INVARIANT OutputFaithful
INVARIANT WaitsExact
PROPERTY StdinDelivered
PROPERTY ExitTold
CHECK_DEADLOCK FALSE
