----------------------------- MODULE TopicsInfo -----------------------------
(***************************************************************************)
(* The table a C++ node keeps about its topics (src/cpp/topicsInfo.cc): a  *)
(* std::map from topic names to TopicInfo objects.  A table is a function  *)
(* whose DOMAIN is the set of topics the map holds; every operator below   *)
(* has the name of the method it stands for and takes the table first.     *)
(* A node keeps two such tables, one for topics and one for services.      *)
(***************************************************************************)
EXTENDS SequencesExt

CONSTANTS Topic,     \* topic and service names
          Address,   \* ZeroMQ endpoints that nodes advertise
          Callback,  \* functions the application registers
          Request,   \* serialized parameters of service requests
          NULL       \* the empty std::function

ASSUME NullIsNoCallback == NULL \notin Callback

TopicInfo ==
    [addresses : Seq(Address),
     connected : BOOLEAN, advertisedByMe : BOOLEAN,
     subscribed : BOOLEAN, requested : BOOLEAN,
     cb : Callback \cup {NULL}, reqCb : Callback \cup {NULL},
     repCb : Callback \cup {NULL},
     pendingReqs : Seq(Request)]

NewTopicInfo ==
    [addresses |-> <<>>,
     connected |-> FALSE, advertisedByMe |-> FALSE,
     subscribed |-> FALSE, requested |-> FALSE,
     cb |-> NULL, reqCb |-> NULL, repCb |-> NULL,
     pendingReqs |-> <<>>]

\* The table right after the constructor.
EmptyTable == [topic \in {} |-> NewTopicInfo]

IsTable(table) == \E known \in SUBSET Topic : table \in [known -> TopicInfo]

-----------------------------------------------------------------------------
(* Readers.  A topic the map does not hold answers as a fresh TopicInfo.   *)

HasTopic(table, topic) == topic \in DOMAIN table

Info(table, topic) ==
    IF HasTopic(table, topic) THEN table[topic] ELSE NewTopicInfo

AdvAddresses(table, topic) == ToSet(Info(table, topic).addresses)

HasAdvAddress(table, topic, address) == address \in AdvAddresses(table, topic)

\* Mutant of AdvertisedByMe: any topic the map holds counts.
AdvertisedByMeIfKnown(table, topic) == HasTopic(table, topic)

Connected(table, topic)      == Info(table, topic).connected
Subscribed(table, topic)     == Info(table, topic).subscribed
AdvertisedByMe(table, topic) == Info(table, topic).advertisedByMe
Requested(table, topic)      == Info(table, topic).requested
GetCallback(table, topic)    == Info(table, topic).cb
GetReqCallback(table, topic) == Info(table, topic).reqCb
GetRepCallback(table, topic) == Info(table, topic).repCb
PendingReqs(table, topic)    == Info(table, topic).pendingReqs # <<>>

-----------------------------------------------------------------------------
(* Writers.  Each inserts a fresh TopicInfo first when the topic is new.   *)

Insert(table, topic, info) ==
    [known \in DOMAIN table \cup {topic} |->
        IF known = topic THEN info ELSE table[known]]

\* Mutant of AddAdvAddress: the newest address replaces the others.
AddAdvAddressReplacing(table, topic, address) ==
    Insert(table, topic, [Info(table, topic) EXCEPT !.addresses = <<address>>])

AddAdvAddress(table, topic, address) ==
    Insert(table, topic,
        [Info(table, topic) EXCEPT !.addresses =
            IF HasAdvAddress(table, topic, address) THEN @ ELSE Append(@, address)])

\* Mutant of RemoveAdvAddress: std::remove without resize leaves a moved-from
\* string in the list.
RemoveAdvAddressNoResize(table, topic, address) ==
    Insert(table, topic, [Info(table, topic) EXCEPT !.addresses =
        [i \in DOMAIN @ |-> IF @[i] = address THEN NULL ELSE @[i]]])

\* What std::remove has kept of a list after its first i elements.  (A recursive
\* function, not SelectSeq, so that it can be proved about.)
Kept(list, element) ==
    LET kept[i \in 0..Len(list)] ==
            IF i = 0 THEN <<>>
            ELSE IF list[i] = element THEN kept[i - 1]
            ELSE Append(kept[i - 1], list[i])
    IN  kept

\* std::remove and resize: the other elements, in their order.
Without(list, element) == Kept(list, element)[Len(list)]

\* Without an address left the whole entry of the topic goes.
RemoveAdvAddress(table, topic, address) ==
    LET rest == Without(Info(table, topic).addresses, address) IN
    IF rest = <<>>
    THEN [known \in DOMAIN table \ {topic} |-> table[known]]
    ELSE Insert(table, topic, [Info(table, topic) EXCEPT !.addresses = rest])

SetConnected(table, topic, value) ==
    Insert(table, topic, [Info(table, topic) EXCEPT !.connected = value])

SetSubscribed(table, topic, value) ==
    Insert(table, topic, [Info(table, topic) EXCEPT !.subscribed = value])

SetRequested(table, topic, value) ==
    Insert(table, topic, [Info(table, topic) EXCEPT !.requested = value])

SetAdvertisedByMe(table, topic, value) ==
    Insert(table, topic, [Info(table, topic) EXCEPT !.advertisedByMe = value])

SetCallback(table, topic, cb) ==
    Insert(table, topic, [Info(table, topic) EXCEPT !.cb = cb])

SetReqCallback(table, topic, cb) ==
    Insert(table, topic, [Info(table, topic) EXCEPT !.reqCb = cb])

SetRepCallback(table, topic, cb) ==
    Insert(table, topic, [Info(table, topic) EXCEPT !.repCb = cb])

\* Mutants of AddReq: the new request comes first; it is there twice.
AddReqFirst(table, topic, data) ==
    Insert(table, topic, [Info(table, topic) EXCEPT !.pendingReqs = <<data>> \o @])
AddReqTwice(table, topic, data) ==
    Insert(table, topic, [Info(table, topic) EXCEPT !.pendingReqs = @ \o <<data, data>>])

AddReq(table, topic, data) ==
    Insert(table, topic, [Info(table, topic) EXCEPT !.pendingReqs = Append(@, data)])

\* What DelReq hands out when it returns true, that is with PendingReqs.
OldestReq(table, topic) == Head(table[topic].pendingReqs)

\* Mutant of DelReq: the request is read and not erased.
DelReqKeeping(table, topic) == table

DelReq(table, topic) ==
    IF PendingReqs(table, topic)
    THEN Insert(table, topic, [Info(table, topic) EXCEPT !.pendingReqs = Tail(@)])
    ELSE table
=============================================================================
