SPECIFICATION Spec
CONSTANTS
    Tasks = {a, b}
    HandleCapacity = 2
    JobCapacity = 6
    StartCapacity = 2
    MaxStarts = 3
    NoTask = NoTask
    Faults = {"fork", "pidfd"}
INVARIANT ChildrenReaped
INVARIANT ShutdownReaps
INVARIANT WakesExact
INVARIANT ReservationsExact
SYMMETRY Symmetry
CHECK_DEADLOCK FALSE
