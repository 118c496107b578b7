SPECIFICATION MCSpec
CONSTANTS
    Session = {s1}
    Chunk = {c1, c2}
    Content = {1, 2}
    Worker = {w1, w2}
    Reader = {reader}
    MaxFail = 2
    MaxCleanFail = 1
    Opener = {"ann", "bob"}
    MaxConversation = 2
    Loader = {"hub", "chat"}
    MaxTime = 3
    PageSize = 1
    Drift <- MCDrift
    Recipient = {"bob"}
    SenderApp = {"phone", "tablet"}
    MaxEdit = 1
    MaxLoss = 2
INVARIANTS
    ReceiptsKept
    OnePrivateConversation
    ListMissesOnlyExposed
    DeletedStays
PROPERTIES
    ImplementsUpload
    TemporaryRemoved
    ReadRecorded
CHECK_DEADLOCK FALSE
