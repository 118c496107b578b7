SPECIFICATION FairSpec
CONSTANTS
    MaxId = 2
    Page = 1
    Mine = {2}
    V2 = {1}
    Early = {}
    Realtime = TRUE
    MaxFault = 1
PROPERTY WindowRepaired
CHECK_DEADLOCK FALSE
