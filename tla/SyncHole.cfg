SPECIFICATION FairSpec
CONSTANTS
    MaxId = 3
    Page = 1
    Mine = {}
    V2 = {}
    Early = {1, 2, 3}
    Realtime = TRUE
    MaxFault = 0
PROPERTY CommittedArrives
CHECK_DEADLOCK FALSE
