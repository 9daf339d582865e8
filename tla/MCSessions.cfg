CONSTANTS
    Slots = {s1, s2}
    NoState = NoState
    MaxTokens = 2
SPECIFICATION FairSpec
INVARIANTS
    EachTokenWorksOnce
    OneLivePerFamily
PROPERTY
    GuardCatchesUp
