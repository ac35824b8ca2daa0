SPECIFICATION Spec
CONSTANTS
    MaxHandle = 3
    MaxLive = 2
INVARIANT NoUseAfterFree
INVARIANT CancelDecides
PROPERTY OutcomeStable
PROPERTY CallsReturn
CHECK_DEADLOCK FALSE
