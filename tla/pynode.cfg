SPECIFICATION FairSpec
CONSTANTS
    n1 = n1  n2 = n2    t = t
    Node = {n1, n2}
    Topic = {t}
    Data = {d}
    Callback = {f}
    CPeers = {n2}
    Talkers = {n2}
    PrefixOf <- MCPrefixOf
    Publishers <- MCPublishers
    Subscribers <- MCSubscribers
    Faults <- MCFaults
    SingleConnect = FALSE
    HWM = 1
    InboxCap = 3
    MaxList = 1
INVARIANTS TypeOK OnePerTopicAndPublisher OwnTopicsAreConnected
PROPERTY DiscoverySurvivesLoss
CHECK_DEADLOCK FALSE
