SPECIFICATION Spec
CONSTANTS
    main = main
    child = child
    other = other
    c1 = c1
    c2 = c2
    v1 = v1
    v2 = v2
    v3 = v3
    None = None
    Frames = {main, child, other}
    Root = main
    Channels = {c1}
    Values = {v1, v3}
    MaxArms = 2
    Shapes <- SelfShapes
    Capacity <- OneSlot
    ReadyCapacity = 3
    InitHeld <- ChildrenHold
    DeadlineFrames = {}
    EarlyDrop = {}
INVARIANT FirstReadyArmWins
CHECK_DEADLOCK FALSE
