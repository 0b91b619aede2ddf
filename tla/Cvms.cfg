SPECIFICATION CvmsFairSpec
CONSTANTS
    MaxMessages = 3
    QueueSize = 2
    MaxBreaks = 3
    MaxFaults = 1
    MaxCrashes = 1
    Torn = Torn
    Chunks = 2
    MaxCuts = 2
    MaxTimeouts = 2
    RunRequests = {"r1", "r2"}
    StopRequests = {"s1"}
    AnswerQueue = 1
    MaxRpcs = 1
    Jobs = {j1, j2}
    NoJob = NoJob
    Kinds = {"bin", "python", "wasm", "docker", "other"}
    MaxRunnerStops = 1
    BufferSize = 2
    MaxAlgorithm = 4
    MaxRequirements = 3
    MaxDataset = 5
    PcrSize = 1
    FileSizes = {0, 1, 2, 3, 4, 5, 6}
INVARIANTS
    SentInOrder
    RunHasItsServers
    RunsAreSeparate
    TransfersAreWhole
PROPERTIES
    
    HandlersFinish
CHECK_DEADLOCK FALSE
