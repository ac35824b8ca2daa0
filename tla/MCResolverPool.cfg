SPECIFICATION Spec
CONSTANTS
    Connects = {a, b, c}
    Capacity = 2
    MaxGeneration = 2
    PipeCapacity = 2
    NoConnect = NoConnect
INVARIANT SlotsAccounted
INVARIANT NoLostWake
INVARIANT RightAnswer
PROPERTY LookupEnds
PROPERTY PoolDrains
CHECK_DEADLOCK FALSE
