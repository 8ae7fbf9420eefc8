SPECIFICATION FairSpec
CONSTANTS
    n1 = n1  n2 = n2  t = t
    Address = {n1, n2}
    Topic = {t}
    Callback = {f}
    Request <- MCRequest
    NULL = NULL
    Faults = {"exit"}
    InboxCap = 4
    Data = {d}
    CStr <- MCCStr
    PrefixOf <- MCPrefixOf
    SingleConnect = TRUE
    HWM = 1
    MaxFilters = 1
    MaxRetries = 1
    MaxRequest = 2
    Programs <- MCPrograms
INVARIANT NoSelfLink
PROPERTIES TopicsArePubSub DiscoverySettles AsyncRequestsAreAnswered ThreadsGoOn
CHECK_DEADLOCK FALSE
