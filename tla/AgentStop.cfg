SPECIFICATION Spec
CONSTANTS
    c1 = c1
    c2 = c2
    Callers = {c1, c2}
    MaxInits = 1
    New = New
    Nobody = Nobody
    Manifests <- PlainManifests
    Uploads <- AlgoUploads
    Ops = {"init", "algo", "result", "stop", "disconnect"}
    UploadsRemote = FALSE
    Faults = {"algo", "run", "stop"}
    MaxStops = 1
    NoState = NoState
    NilEvent = NilEvent
    NoSend = NoSend
    None = None
    Partial = Partial
INVARIANT QuietStopIsClean
CHECK_DEADLOCK FALSE
