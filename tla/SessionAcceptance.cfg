SPECIFICATION Spec
CONSTANTS
    Blank = {""}
    TooLong = {}
    Unsafe = {}
    References = {}
    MaxSetValues = 2
    Attempts = {"a1", "a2"}
    Evidence <- MCEvidence
    NoEvidence = NoEvidence
    NoKey <- MCNoKey
    MaxTime = 3
INVARIANTS
    AcceptedOnce
    LostNonceHasReason
CHECK_DEADLOCK FALSE
