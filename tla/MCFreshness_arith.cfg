CONSTANTS
    SizeMod = 32
    IntMod = 16
    DefaultMaxAge = 2
    MaxAges = {1}
    NoMaxAge = NoMaxAge
    MissingDate <- MCMissingDate
    MaxTime = 4
SPECIFICATION Spec
INVARIANTS IInv RightWhenStoredSince
CHECK_DEADLOCK FALSE
