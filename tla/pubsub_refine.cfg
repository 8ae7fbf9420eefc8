SPECIFICATION Spec
CONSTANTS
    n1 = n1  n2 = n2  n3 = n3  short = short  long = long
    text = text  binary = binary
    Address = {n1, n2}
    Topic = {short, long}
    Callback = {f, g}
    Request = {}
    NULL = NULL
    Data = {text, binary}
    CStr <- MCCStr
    PrefixOf <- MCPrefixOf
    Publishers <- RefinePublishers
    Subscribers <- RefineSubscribers
    Faults <- AllFaults
    SingleConnect = TRUE
    HWM = 2
    InboxCap = 1
    MaxFilters = 2
INVARIANT SubscriptionIsServed
PROPERTY ImplementsBus
CHECK_DEADLOCK FALSE
