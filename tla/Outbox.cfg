SPECIFICATION StartSpec
CONSTANTS
    N = 1
    c1 = c1
    c2 = c2
    t1 = t1
    t2 = t2
    chat = chat
    tasks = tasks
    None = None
    Conversation = {chat}
    ConvOf <- MCConvOf
    Attachments = {1}
    Poison = {}
    Cipher = {c1, c2}
    Flusher = {t1, t2}
    MaxCrashes = 1
CHECK_DEADLOCK FALSE
SYMMETRY MCSymmetry
CONSTRAINT OneTaskBeforeCrash
INVARIANTS
    NoStrandedWaiter
    LocalMatchesServer
    OnlyQueuedTravels
PROPERTY ImplementsDelivery
