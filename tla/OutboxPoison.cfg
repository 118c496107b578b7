CONSTANTS
    N = 2
    c1 = c1
    c2 = c2
    t1 = t1
    t2 = t2
    chat = chat
    tasks = tasks
    None = None
    Conversation = {chat, tasks}
    ConvOf <- MCConvOf
    Attachments = {}
    Poison = {1}
    Cipher = {c1}
    Flusher = {t1}
    MaxCrashes = 0
CHECK_DEADLOCK FALSE
SPECIFICATION FairSpec
PROPERTY EventuallySettled
