SPECIFICATION Spec
CONSTANTS
    n1 = n1  n2 = n2    t = t
    Node = {n1, n2}
    Topic = {t}
    Data = {d}
    Callback = {f}
    CPeers = {}
    Talkers = {n2}
    PrefixOf <- MCPrefixOf
    Publishers <- MCPublishers
    Subscribers <- MCSubscribers
    Faults = {}
    SingleConnect = FALSE
    HWM = 1
    InboxCap = 3
    MaxList = 1
INVARIANT SpinSurvives
CHECK_DEADLOCK FALSE
