SPECIFICATION Spec
CONSTANTS
    n1 = n1  n2 = n2  n3 = n3  short = short  long = long
    text = text  binary = binary
    Address = {n1, n2}
    Topic = {short, long}
    Callback = {f}
    Request = {}
    NULL = NULL
    Data = {text}
    CStr <- MCCStr
    PrefixOf <- MCPrefixOf
    Publishers <- SafetyPublishers
    Subscribers <- SafetySubscribers
    Faults <- AllFaults
    SingleConnect = FALSE
    HWM = 0
    InboxCap = 1
    MaxFilters = 1
INVARIANTS TypeOK NoSelfLink ConnectedHasLink AddressesAreGenuine PipesAreAccounted
CHECK_DEADLOCK FALSE
