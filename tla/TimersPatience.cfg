\* Nothing is lost, and the far end rings; the INVITE timeout is the default.
SPECIFICATION Spec
CONSTANTS
    TimerInitial = 1
    TimerCap = 8
    InviteRetransmitLimit = 7
    InviteTimeout = 120
    DrainLimit = 500
    FramesPerTick = 25
    LossLimit = 0
    StallLimit = 0
    Challenging = {FALSE}
INVARIANT PatientSetup
