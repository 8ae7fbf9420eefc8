SPECIFICATION Spec
CONSTANTS
    c1 = c1  c2 = c2  s1 = s1  s2 = s2  t1 = t1  t2 = t2
    Address = {c1, c2, s1}
    Topic = {t1}
    Callback = {f}
    NULL = NULL
    Request <- MCRequest
    Repliers <- ShareRepliers
    Withdrawers <- ShareRepliers
    AsyncRequesters <- ShareAsync
    SyncRequesters <- ShareSync
    Faults <- ShareFaults
    InboxCap = 1
    MaxRetries = 1
    MaxRequest = 2
INVARIANTS TypeOK ConnectedHasLink
PROPERTY ImplementsCalls
CHECK_DEADLOCK FALSE
