SPECIFICATION Spec
CONSTANTS
    CallsLimit = 1
    ResponseLoopLimit = 3
    InviteRetransmitLimit = 1
    a1 = a1
    a2 = a2
    Addrs <- TwoAddrs
    Sdps <- TwoBodies
    Provisionals <- Ring
    Finals <- FewFinals
    RegisterResidue = FALSE
    SendErrors = FALSE
INVARIANT RelayFollowsAnswer
