SPECIFICATION Spec
CONSTANTS
    n1 = n1  n2 = n2  n3 = n3  short = short  long = long
    text = text  binary = binary
    Address = {n1, n2, n3}
    Topic = {short}
    Callback = {f}
    Request = {}
    NULL = NULL
    Data = {text}
    CStr <- MCCStr
    PrefixOf <- MCPrefixOf
    Publishers <- EveryPublisher
    Subscribers <- EverySubscriber
    Faults <- NoFaults
    SingleConnect = TRUE
    HWM = 0
    InboxCap = 6
    MaxFilters = 1
INVARIANT SubscriberReachesEveryPublisher
CHECK_DEADLOCK FALSE
