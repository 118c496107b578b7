SPECIFICATION FairSpec
CONSTANTS
    MaxId = 3
    Page = 1
    Mine = {1}
    V2 = {1}
    Early = {1,2,3}
    Realtime = TRUE
    MaxFault = 1
INVARIANT NoGap
PROPERTY ArrivesUnlessPassed
CHECK_DEADLOCK FALSE
