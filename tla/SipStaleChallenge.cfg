\* The challenge of the first INVITE is delivered again in early media.
SPECIFICATION SipSpec
CONSTANTS
    CallsLimit = 1
    ResponseLoopLimit = 5
    InviteRetransmitLimit = 1
    a1 = a1
    a2 = a2
    Addrs <- TwoAddrs
    Sdps <- AllBodies
    Provisionals <- TryAndRing
    Finals <- AllFinals
    RegisterResidue = FALSE
    SendErrors = TRUE
INVARIANT PollFailureIsReal
\* The bridge exits, and then nothing happens any more.
CHECK_DEADLOCK FALSE
