SPECIFICATION LiveSpec
CONSTANTS
    Frames <- TaskTree
    Called <- CalledInTask
    Timed <- FirstOnly
    Durations = {1, 2}
    MaxTime = 2
    TimerCapacity = 2
    MaxGeneration = 2
    ReadyCapacity = 2
    NoFrame = NoFrame
PROPERTY DeadlineAlwaysServed
