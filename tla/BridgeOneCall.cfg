\* One call through every branch, with sends that may fail.
SPECIFICATION FairSpec
CONSTANTS
    CallsLimit = 1
    ResponseLoopLimit = 4
    InviteRetransmitLimit = 1
    a1 = a1
    a2 = a2
    Addrs <- TwoAddrs
    Sdps <- TwoBodies
    Provisionals <- Ring
    Finals <- AllFinals
    RegisterResidue = TRUE
    SendErrors = TRUE
INVARIANTS BridgeTypeOK SessionNeverRejects PollOnlyInRelay
PROPERTIES SetupEnds CloseEnds
