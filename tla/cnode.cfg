SPECIFICATION Spec
CONSTANTS
    n1 = n1  n2 = n2  short = short  long = long
    Node = {n1, n2}
    Topic = {short, long}
    Data = {d}
    Callback = {f}
    NULL = NULL
    Other = Other
    PrefixOf <- MCPrefixOf
    Publishers <- MCPublishers
    Subscribers <- MCSubscribers
    Timers <- MCTimers
    Mach <- MCMach
    Foreign <- MCForeign
    Faults <- MCFaults
    HWM = 1
    InboxCap = 1
INVARIANTS TypeOK OnePipePerConnection StopsOnLongerNameOnly TimerWaitsForOneEvent
PROPERTY ImplementsBus
CHECK_DEADLOCK FALSE
