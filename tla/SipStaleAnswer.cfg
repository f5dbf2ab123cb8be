\* A late answer to the first call arrives during the second.
SPECIFICATION SipSpec
CONSTANTS
    CallsLimit = 2
    ResponseLoopLimit = 3
    InviteRetransmitLimit = 1
    a1 = a1
    a2 = a2
    Addrs <- OneAddr
    Sdps <- FewBodies
    Provisionals <- Ring
    Finals <- FewFinals
    RegisterResidue = FALSE
    SendErrors = FALSE
INVARIANT AnsweredIsReal
CHECK_DEADLOCK FALSE
