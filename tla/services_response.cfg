SPECIFICATION Spec
CONSTANTS
    c1 = c1  c2 = c2  s1 = s1  s2 = s2  t1 = t1  t2 = t2
    Address = {c1, s1}
    Topic = {t1}
    Callback = {f}
    NULL = NULL
    Request <- MCRequest
    Repliers <- MixedRepliers
    Withdrawers = {}
    AsyncRequesters <- MixedCalls
    SyncRequesters <- MixedCalls
    Faults <- NoFaults
    InboxCap = 2
    MaxRetries = 1
    MaxRequest = 2
INVARIANT ResponseMatchesRequest
CHECK_DEADLOCK FALSE
