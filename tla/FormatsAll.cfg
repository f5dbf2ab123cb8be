\* Every sample and code, and bounded packets, bodies and dial strings.
SPECIFICATION Spec
CONSTANTS
    a1 = a1
    a2 = a2
    Addrs <- TwoAddrs
    Payloads <- TwoPayloads
    CsrcCounts <- FewCsrcs
    Cuts <- UpToTwenty
    Sequences <- FiveNumbers
    Timestamps <- FiveTimes
    Realms <- TwoRealms
    Nonces <- TwoNonces
    Methods <- TwoMethods
    ExtensionWords <- FewWords
    Ports <- OnePort
    PayloadTypes <- TwoTypes
    SdpLimit = 4
    DialChars <- FewChars
    DialLength = 4
INVARIANTS QuantisesClosely QuantisesInOrder CodesSurvive ParsesPayload SentIsReadable AnswerNamesEndpoint DialKeepsNumber CredentialsVerify
