SPECIFICATION ReplaySpec
CONSTANTS
    k1 = k1
    k2 = k2
    none = none
    Keys <- MCKeys
    NoKey = none
    Claims <- MCClaims
    Calls <- MCCalls
    MaxTime = 4
    StoreKeys = {k1}
    NoStoreKey = none
    Nodes = {"n1", "n2"}
    NodeOf <- MCNodeOf
    StoreClaims <- MCStoreClaims
    StoreCalls <- MCCalls
    MaxSkew = 1
    StoreMaxTime = 4
    RpcCalls <- MCCalls
    Signatures <- MCSignatures
    NoSignature = none
    Methods <- MCMethods
    ResultConsumers <- MCConsumers
    DatasetProviders <- MCProviders
    AlgorithmProvider = "alan"
    SignatureAge = 2
    FutureSkew = 1
    MaxNow = 5
    MaxServers = 2
INVARIANTS
    NonceOncePerServer
    AdmittedBySignerOfRole
PROPERTIES
    ImplementsOneShot
    StoreImplementsOneShot
CHECK_DEADLOCK FALSE
