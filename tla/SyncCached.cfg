SPECIFICATION FairSpec
CONSTANTS
    MaxId = 1
    Page = 1
    Mine = {}
    V2 = {1}
    Early = {}
    Realtime = FALSE
    MaxFault = 0
PROPERTY MarkersRepaired
CHECK_DEADLOCK FALSE
