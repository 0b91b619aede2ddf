SPECIFICATION HostSpec
CONSTANTS
    VMs = {"v1", "v2"}
    MaxVMs = 1
    MaxStarts = 2
    Loopback = {"lo"}
    NoPort = 0
    NoTarget = NoTarget
    MaxEarly = 1
    MaxBytes = 2
    FileKinds <- MCFileKinds
    Outside = {"up.py"}
    ImageNames = {"image"}
    NoFile = NoFile
    MaxDownloads = 2
INVARIANTS
    RemovedIsDead
    LimitKept
    SavedVMIsManaged
    DialedIsAllowed
    FinishedIsDelivered
    
PROPERTY TTLEndsVM
CHECK_DEADLOCK FALSE
