CONSTANTS
    MaxMentions = 2
SPECIFICATION StackSpec
INVARIANTS
    OneConfiguration
    SameDatabase
    ProdLikeIsExplicit
    NothingIsLeftBehind
PROPERTIES
    SignalEndsScript
CHECK_DEADLOCK FALSE
