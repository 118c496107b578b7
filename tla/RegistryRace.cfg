SPECIFICATION Spec
CONSTANTS
    Keyset = {k1, k2}
    First = k1
    Writer = {w1, w2}
    NoKeyset = none
    MaxCrash = 1
INVARIANT NothingLost
CHECK_DEADLOCK FALSE
