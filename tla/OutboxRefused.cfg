CONSTANTS
    N = 1
    c1 = c1
    c2 = c2
    t1 = t1
    t2 = t2
    chat = chat
    tasks = tasks
    None = None
    Conversation = {chat}
    ConvOf <- MCConvOf
    Attachments = {}
    Poison = {}
    Cipher = {c1, c2}
    Flusher = {t1}
    MaxCrashes = 0
CHECK_DEADLOCK FALSE
SPECIFICATION Spec
INVARIANT FailedStaysQueued
