SPECIFICATION FairSpec
CONSTANTS
    c1 = c1
    c2 = c2
    Callers = {c1, c2}
    MaxInits = 1
    New = New
    Nobody = Nobody
    Manifests <- AllManifests
    Uploads <- MCUploads
    Ops = {"init", "algo", "data", "result"}
    UploadsRemote = FALSE
    Faults = {"algo", "data", "fetch", "run"}
    MaxStops = 0
    NoState = NoState
    NilEvent = NilEvent
    NoSend = NoSend
    None = None
    Partial = Partial
INVARIANTS
    RunnerInputsComplete
    LoopSurvives
PROPERTY RunOutcomeReported
CHECK_DEADLOCK FALSE
