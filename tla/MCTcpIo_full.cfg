SPECIFICATION Spec
CONSTANTS
    Tasks = {main, child}
    Root = main
    NoTask = NoTask
    HandleCapacity = 1
    TimerCapacity = 2
    Budget = 1
    Timeouts = {0, 2}
    Addresses = 2
    Lengths = {0, 2}
    Buffers = {1}
    MaxRoom = 2
    MaxInbox = 1
    MaxConnects = 2
    MaxTime = 3
INVARIANT ResourcesExact
INVARIANT WaitsBounded
PROPERTY StreamKept
