SPECIFICATION Spec
CONSTANTS
    MaxHandle = 2
    MaxLive = 2
INVARIANT JoinAnswers
CHECK_DEADLOCK FALSE
