SPECIFICATION Spec
CONSTANTS
    Tasks = {a, b}
    HandleCapacity = 1
    JobCapacity = 2
    StartCapacity = 1
    MaxStarts = 2
    NoTask = NoTask
    Faults = {}
SYMMETRY Symmetry
INVARIANT ShutdownReaps
CHECK_DEADLOCK FALSE
