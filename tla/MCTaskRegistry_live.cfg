SPECIFICATION Spec
CONSTANTS
    MaxHandle = 2
    MaxLive = 2
PROPERTY CancelEnds
PROPERTY CallsReturn
CHECK_DEADLOCK FALSE
