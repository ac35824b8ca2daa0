SPECIFICATION LiveSpec
CONSTANTS
    Tasks = {main, child}
    Root = main
    NoTask = NoTask
    HandleCapacity = 1
    TimerCapacity = 2
    Budget = 1
    Timeouts = {0, 1}
    Addresses = 2
    Lengths = {2}
    Buffers = {1}
    MaxRoom = 1
    MaxInbox = 1
    MaxConnects = 2
    MaxTime = 2
INVARIANT ResourcesExact
INVARIANT WaitsBounded
PROPERTY StreamKept
PROPERTY OperationEnds
