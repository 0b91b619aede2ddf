SPECIFICATION MachineSpec
CONSTANTS
    States = {"idle", "running"}
    Events = {"go", "stop"}
    InitialState = "idle"
    Transitions <- MCTransitions
    NoState = NoState
    NilEvent = NilEvent
    Loops = {"l1", "l2"}
    Senders = {"c1"}
    NoSend = NoSend
    MaxGen = 2
INVARIANT ClosedChannelIsIgnored
CHECK_DEADLOCK FALSE
