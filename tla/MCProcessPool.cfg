SPECIFICATION LiveSpec
CONSTANTS
    Tasks = {a, b}
    HandleCapacity = 2
    JobCapacity = 3
    StartCapacity = 2
    MaxStarts = 2
    NoTask = NoTask
    Faults = {"fork", "timer", "register", "pidfd"}
INVARIANT ChildrenReaped
INVARIANT WakesExact
INVARIANT ReservationsExact
PROPERTY RequestsEnd
CHECK_DEADLOCK FALSE
