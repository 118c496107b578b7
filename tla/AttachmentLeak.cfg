SPECIFICATION FairSpec
CONSTANTS
    Session = {s1}
    Chunk = {c1, c2}
    Content = {1}
    Worker = {w1, w2}
    Reader = {}
    MaxFail = 0
    MaxCleanFail = 0
PROPERTY AbandonedRemoved
CHECK_DEADLOCK FALSE
