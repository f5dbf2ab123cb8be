\* The INVITE with credentials is lost once.
SPECIFICATION Spec
CONSTANTS
    TimerInitial = 1
    TimerCap = 8
    InviteRetransmitLimit = 7
    InviteTimeout = 18
    DrainLimit = 500
    FramesPerTick = 25
    LossLimit = 1
    StallLimit = 0
    Challenging = {TRUE}
INVARIANT RepairsLoss
