SPECIFICATION Spec
CONSTANTS
    Frames <- TaskTree
    Called <- CalledInTask
    Timed <- FirstAndMain
    Durations = {0, 1, 2}
    MaxTime = 2
    TimerCapacity = 2
    MaxGeneration = 2
    ReadyCapacity = 1
    NoFrame = NoFrame
INVARIANT ScopesExact
INVARIANT NoLostWakeup
INVARIANT ResultsHonest
