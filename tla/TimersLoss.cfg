\* Four losses, trunks with and without a challenge; the drain as in the code.
SPECIFICATION Spec
CONSTANTS
    TimerInitial = 1
    TimerCap = 8
    InviteRetransmitLimit = 4
    InviteTimeout = 18
    DrainLimit = 500
    FramesPerTick = 25
    LossLimit = 4
    StallLimit = 2
    Challenging = {TRUE, FALSE}
INVARIANTS TimersTypeOK RepairsFirstLoss DrainCoversSetup
