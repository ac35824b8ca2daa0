SPECIFICATION Spec
CONSTANTS
    Tasks = {main, child}
    Root = main
    NoTask = NoTask
    HandleCapacity = 1
    TimerCapacity = 1
    Budget = 1
    Timeouts = {0, 1}
    Addresses = 2
    Lengths = {0, 2}
    Buffers = {1}
    MaxRoom = 2
    MaxInbox = 1
    MaxConnects = 2
    MaxTime = 2
INVARIANT ResourcesExact
INVARIANT WaitsBounded
