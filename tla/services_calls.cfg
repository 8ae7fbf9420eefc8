SPECIFICATION Spec
CONSTANTS
    c1 = c1  c2 = c2  s1 = s1  s2 = s2  t1 = t1  t2 = t2
    Address = {c1, s1, s2}
    Topic = {t1, t2}
    Callback = {f}
    NULL = NULL
    Request <- MCRequest
    Repliers <- CallRepliers
    Withdrawers = {}
    AsyncRequesters <- CallAsync
    SyncRequesters = {}
    Faults <- Repeated
    InboxCap = 1
    MaxRetries = 1
    MaxRequest = 2
INVARIANTS NoSecondCopy AsyncInOrder OnlyAdvertisersReply
CHECK_DEADLOCK FALSE
