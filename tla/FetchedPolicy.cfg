SPECIFICATION MCTransportSpec
CONSTANTS
    Base = 6
    Certificate = 3
    CertificateRequest = 4
    CertificateVerify = 5
    ClientCertificateRequest = 1
    Finished = 2
    SignatureAlgorithms = 13
    CMWAttestation = 14
    CertificateAuthoritiesType = 15
    OIDFiltersType = 16
    ParsableOIDs <- MCParsableOIDs
    MaxFramePayloadLen = 10
    Launch = Launch
    NoReport = NoReport
    NoTee = NoTee
    OtherBytes = OtherBytes
    NoRequest = NoRequest
    NoSchemes = NoSchemes
    NoPolicy = NoPolicy
    NoKey = NoKey
    NoSession = NoSession
    NoVerifier = NoVerifier
    Unreadable = Unreadable
    NoPayload = NoPayload
    RandomContext = RandomContext
    TransportClients = {c1, c2}
    Middlebox = Middlebox
    NoLink = NoLink
    Machine <- MCServerMachine
    Reference <- MCReference
    MaxProviderFaults = 1
    Nothing = Nothing
    ZeroDigest = ZeroDigest
    MrTd = MrTd
    MrSeam = MrSeam
    Rtmr = Rtmr
    Rtmrs = {Rtmr}
INVARIANT FetchedPolicyFitsVM
CHECK_DEADLOCK FALSE
