\* The timeouts of the code are 1 and 20 half seconds; 2 and 7 are of no common step.
SPECIFICATION FairSpec
CONSTANTS
    RecvTimeout = 2
    RegisterTimeout = 7
    Provisionals <- Trying
    Finals <- Answers
    Strays <- KeepAlive
INVARIANTS RegisteredIsReal RefusalIsReal WaitIsBounded
PROPERTY RegisterEnds
