SPECIFICATION RulesSpec
CONSTANTS
    Blank = {"", "blank"}
    TooLong = {"long"}
    Unsafe = {"<>", "x0", "0x"}
    References = {"n:r"}
    MaxSetValues = 3
    Services = {"", "a", "b"}
    Intents = {"", "a", "n:r"}
    ScopeLists <- MCScopeLists
    Modes = {"", "required", "typo"}
    SetModes = {"", "contains_all"}
    KeyLists <- MCKeyLists
    Signers = {"", "k1", "k2"}
    Texts = {"", "blank", "a", "b", "long", "<>"}
    Times = {0, 1, 2, 3}
    KeyTexts = {"x", "xx", "x0", "0x"}
    Bytes <- MCBytes
    Nothing = Nothing
    Padded <- MCPadded
    CallbackKeys <- MCCallbackKeys
    NoKey = NoKey
    Bracketed = {"<>"}
    NoProof = NoProof
    Respelled <- MCRespelled
    NoField = NoField
    Malformed = {" "}
INVARIANTS
    AcceptsExactlyConforming
    AcceptsExactlySameInteraction
    ReplayKeyIsInjective
    
    AdaptersAgree
    
    FirstRuleDecides
CHECK_DEADLOCK FALSE
