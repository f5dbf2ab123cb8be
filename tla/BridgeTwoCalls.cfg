SPECIFICATION Spec
CONSTANTS
    CallsLimit = 2
    ResponseLoopLimit = 2
    InviteRetransmitLimit = 1
    a1 = a1
    a2 = a2
    Addrs <- OneAddr
    Sdps <- OneBody
    Provisionals <- Ring
    Finals <- FewFinals
    RegisterResidue = FALSE
    SendErrors = FALSE
INVARIANTS EstablishedTornDown AckedBeforeMedia ByeIsLast CredentialsOnce
PROPERTIES CallLifecycle CompletedCallIsLast PhasesOnly
