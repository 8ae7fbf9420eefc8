SPECIFICATION DataSpec
CONSTANTS
    t1 = t1  t2 = t2  a1 = a1  a2 = a2
    Topic = {t1, t2}
    Address = {a1, a2}
    Callback = {}
    NULL = NULL
    MaxReq = 2
    Key = {t1, t2}
    MaxCells = 5
    Request <- MCRequest
    Message <- MCMessage
    Leftover <- MCLeftover
    Part <- MCPart
    MaxParts = 2
    Interfaces <- MCInterfaces
    HostNames <- MCHostNames
    Environment <- MCEnvironment
    BcastHosts <- MCBcastHosts
    BcastPorts <- MCBcastPorts
    Name <- MCName
    Fqdn <- MCFqdn
    Ip <- MCIp
    Mac <- MCMac
    Foreign <- MCForeign
    Pending = Pending  None = None  IPv6 = IPv6  NoAddress = NoAddress  Empty = Empty  Unset = Unset
INVARIANTS
    TypeOK AddressesAreThosePresent RequestsInOrder
    DialectIsRead DialectsNeverMix ListHoldsItsCells OnlyLostEndsAreMisused
    ChecksumFailsOnSecondCarryOnly QueryIsUnderstood PartsSurvive UnwrapUndoesWrap
    BestAddressIsChosen CAndPythonShareANetwork
CHECK_DEADLOCK FALSE
