SPECIFICATION FairSpec
CONSTANTS
    MaxId = 3
    Page = 3
    Mine = {}
    V2 = {}
    Early = {1, 2, 3}
    Realtime = FALSE
    MaxFault = 0
PROPERTY CommittedArrives
CHECK_DEADLOCK FALSE
