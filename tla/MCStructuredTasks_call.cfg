SPECIFICATION Spec
CONSTANTS
    Frames <- CallTree
    Called <- CalledFirst
    Timed <- FirstOnly
    Durations = {0, 1, 2}
    MaxTime = 2
    TimerCapacity = 2
    MaxGeneration = 2
    ReadyCapacity = 3
    NoFrame = NoFrame
INVARIANT ScopesExact
INVARIANT NoLostWakeup
INVARIANT ResultsHonest
INVARIANT NoRuntimeFailure
PROPERTY DeadlinesRespected
