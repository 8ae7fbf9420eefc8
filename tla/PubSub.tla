------------------------------- MODULE PubSub -------------------------------
(***************************************************************************)
(* Discovery and publish/subscribe between C++ nodes (src/cpp/discZmq.cc). *)
(* A node is one run of a process: its GUID and its TCP endpoint are fresh *)
(* in the constructor, so one value names the node, its GUID and the       *)
(* endpoint of its publisher socket.  A process that restarts comes back   *)
(* as another node.  Callbacks run at the very end of RecvTopicUpdates, so *)
(* what a callback does to its node is a later step of the application.    *)
(***************************************************************************)
EXTENDS TopicsInfo, UdpBroadcast, Integers

CONSTANTS Data,          \* payloads the application publishes
          CStr,          \* what is left of a payload after data.c_str()
          PrefixOf,      \* <<f, t>>: the 0MQ filter f matches the topic t
          Publishers,    \* <<n, t>>: the application on n advertises topic t
          Subscribers,   \* <<n, t>>: the application on n subscribes to t
          SingleConnect, \* libzmq ignores a second connect to an endpoint
          HWM,           \* bound: messages a 0MQ pipe holds, dropped beyond
          MaxFilters     \* bound: Subscribe calls outstanding per topic

Node == Address

\* "connect": a connect may throw; "exit": processes end.
ASSUME FaultsAssumption == Faults \subseteq {"loss", "dup", "connect", "exit"}
ASSUME ApplicationAssumption ==
    /\ Publishers \subseteq Node \X Topic
    /\ Subscribers \subseteq Node \X Topic
ASSUME CStrAssumption == CStr \in [Data -> Data]
ASSUME PrefixAssumption ==
    /\ PrefixOf \subseteq Topic \X Topic
    /\ \A topic \in Topic : <<topic, topic>> \in PrefixOf
ASSUME BoundsAssumption ==
    /\ SingleConnect \in BOOLEAN
    /\ HWM \in Nat /\ MaxFilters \in Nat

VARIABLES status,  \* status[n]: has the process n started, has it ended
          topics,  \* topics[n]: the table of node n
          filters, \* filters[n][t]: how often n's subscriber socket holds filter t
          conns,   \* conns[n][p]: pipes from n's subscriber to p's publisher
          inbox,   \* inbox[n]: datagrams waiting in n's broadcast socket
          pipe,    \* pipe[n][p]: publications from p that n has yet to read
          called   \* the callback the last step ran, if it ran one

vars == <<status, topics, filters, conns, inbox, pipe, called>>

AdvDatagram == [type : {"ADV"}, topic : Topic, guid : Node, address : Address]
SubDatagram == [type : {"SUB"}, topic : Topic, guid : Node]
Datagram    == AdvDatagram \cup SubDatagram

\* Mutant of Adv: the message type of a service.
AdvOfService(node, topic) ==
    [type |-> "ADV_SVC", topic |-> topic, guid |-> node, address |-> node]

Adv(node, topic) ==
    [type |-> "ADV", topic |-> topic, guid |-> node, address |-> node]
Sub(node, topic) == [type |-> "SUB", topic |-> topic, guid |-> node]

Message == [topic : Topic, data : Data]
NoCall  == [node |-> NULL]
Call    == [node : Node, from : Node, topic : Topic, data : Data, cb : Callback]

Up(node) == status[node] = "up"
Running  == {n \in Node : Up(n)}

\* What the constructor makes of the members, the sockets and the tables.
Fresh ==
    /\ topics = [n \in Node |-> EmptyTable]
    /\ filters = [n \in Node |-> [t \in Topic |-> 0]]
    /\ conns = [n \in Node |-> [p \in Node |-> 0]]
    /\ inbox = [n \in Node |-> {}]
    /\ pipe = [n \in Node |-> [p \in Node |-> <<>>]]
    /\ called = NoCall

Init == status = [n \in Node |-> "unborn"] /\ Fresh

-----------------------------------------------------------------------------
(* Life of a process                                                       *)

Start(node) ==
    /\ status[node] = "unborn"
    /\ status' = [status EXCEPT ![node] = "up"]
    /\ called' = NoCall
    /\ UNCHANGED <<topics, filters, conns, inbox, pipe>>

\* The destructor or a crash: sockets and tables go, peers are not told.
Exit(node) ==
    /\ Up(node)
    /\ "exit" \in Faults
    /\ status' = [status EXCEPT ![node] = "gone"]
    /\ topics' = [topics EXCEPT ![node] = EmptyTable]
    /\ filters' = [filters EXCEPT ![node] = [t \in Topic |-> 0]]
    /\ conns' = [conns EXCEPT ![node] = [p \in Node |-> 0]]
    /\ inbox' = [inbox EXCEPT ![node] = {}]
    /\ pipe' = [pipe EXCEPT ![node] = [p \in Node |-> <<>>]]
    /\ called' = NoCall

-----------------------------------------------------------------------------
(* Calls of the application                                                *)

Advertise(node, topic) ==
    /\ Up(node)
    /\ topics' = [topics EXCEPT ![node] = SetAdvertisedByMe(@, topic, TRUE)]
    /\ inbox' \in Sent(Adv(node, topic), Running, inbox)
    /\ called' = NoCall
    /\ UNCHANGED <<status, filters, conns, pipe>>

UnAdvertise(node, topic) ==
    /\ Up(node)
    /\ topics' = [topics EXCEPT ![node] = SetAdvertisedByMe(@, topic, FALSE)]
    /\ called' = NoCall
    /\ UNCHANGED <<status, filters, conns, inbox, pipe>>

Subscribe(node, topic, cb) ==
    /\ Up(node)
    /\ filters[node][topic] < MaxFilters
    /\ topics' = [topics EXCEPT ![node] =
                    SetCallback(SetSubscribed(@, topic, TRUE), topic, cb)]
    /\ filters' = [filters EXCEPT ![node][topic] = @ + 1]
    /\ inbox' \in Sent(Sub(node, topic), Running, inbox)
    /\ called' = NoCall
    /\ UNCHANGED <<status, conns, pipe>>

\* Mutant of UnSubscribe: the filter goes, the subscribed flag stays.
UnSubscribeFilterOnly(node, topic) ==
    /\ Up(node)
    /\ topics' = [topics EXCEPT ![node] = SetCallback(@, topic, NULL)]
    /\ filters' = [filters EXCEPT ![node][topic] = IF @ = 0 THEN 0 ELSE @ - 1]
    /\ called' = NoCall
    /\ UNCHANGED <<status, conns, inbox, pipe>>

\* ZMQ_UNSUBSCRIBE takes one instance of the filter away.
UnSubscribe(node, topic) ==
    /\ Up(node)
    /\ topics' = [topics EXCEPT ![node] =
                    SetCallback(SetSubscribed(@, topic, FALSE), topic, NULL)]
    /\ filters' = [filters EXCEPT ![node][topic] = IF @ = 0 THEN 0 ELSE @ - 1]
    /\ called' = NoCall
    /\ UNCHANGED <<status, conns, inbox, pipe>>

\* Pipes on which m hears p: its connects, and inproc to its own publisher.
Pipes(m, p) == conns[m][p] + IF m = p THEN 1 ELSE 0

Matches(node, topic) ==
    \E f \in Topic : filters[node][f] > 0 /\ <<f, topic>> \in PrefixOf

\* How many copies of a publication a subscriber may get: a pipe that is
\* still connecting or is full loses its copy.
MayGet(m, node, topic) ==
    {k \in 0..(1 + Cardinality(Topic)) :
        k > 0 => /\ Up(m) /\ Matches(m, topic)
                 /\ k <= Pipes(m, node)
                 /\ Len(pipe[m][node]) + k <= HWM}

Copies(k, msg) == [i \in 1..k |-> msg]

\* Mutant of Publish: it does not ask for the advertisement.
PublishUnadvertised(node, topic, data) ==
    /\ Up(node)
    /\ \E copies \in [Node -> 0..(1 + Cardinality(Topic))] :
        /\ \A m \in Node : copies[m] \in MayGet(m, node, topic)
        /\ pipe' = [m \in Node |-> [pipe[m] EXCEPT ![node] =
                      @ \o Copies(copies[m], [topic |-> topic, data |-> CStr[data]])]]
    /\ called' = NoCall
    /\ UNCHANGED <<status, topics, filters, conns, inbox>>

Publish(node, topic, data) ==
    /\ Up(node)
    /\ AdvertisedByMe(topics[node], topic)
    /\ \E copies \in [Node -> 0..(1 + Cardinality(Topic))] :
        /\ \A m \in Node : copies[m] \in MayGet(m, node, topic)
        /\ pipe' = [m \in Node |-> [pipe[m] EXCEPT ![node] =
                      @ \o Copies(copies[m], [topic |-> topic, data |-> CStr[data]])]]
    /\ called' = NoCall
    /\ UNCHANGED <<status, topics, filters, conns, inbox>>

-----------------------------------------------------------------------------
(* What SpinOnce dispatches to                                             *)

\* A filter also matches longer topics, and messages may arrive after
\* UnSubscribe: only a topic that is subscribed now reaches its callback.
RecvTopicUpdates(node, from) ==
    /\ Up(node)
    /\ pipe[node][from] # <<>>
    /\ pipe' = [pipe EXCEPT ![node][from] = Tail(@)]
    /\ LET msg == Head(pipe[node][from])
           cb  == GetCallback(topics[node], msg.topic)
       IN called' = IF Subscribed(topics[node], msg.topic) /\ cb # NULL
                    THEN [node |-> node, from |-> from, topic |-> msg.topic,
                          data |-> msg.data, cb |-> cb]
                    ELSE NoCall
    /\ UNCHANGED <<status, topics, filters, conns, inbox>>

\* An older libzmq opens one more pipe at every connect, a newer one only
\* at the first.
ZmqConnect(node, address) ==
    conns' = [conns EXCEPT ![node][address] =
                IF SingleConnect THEN 1 ELSE @ + 1]

\* Mutants of WantsConnection: the GUID, the connected flag is not looked at.
WantsAnyone(table, node, datagram) ==
    Subscribed(table, datagram.topic) /\ ~Connected(table, datagram.topic)
WantsAgain(table, node, datagram) ==
    Subscribed(table, datagram.topic) /\ datagram.guid # node

WantsConnection(table, node, datagram) ==
    /\ Subscribed(table, datagram.topic)
    /\ ~Connected(table, datagram.topic)
    /\ datagram.guid # node

\* Mutant of DispatchAdv: the flag is set before the connect that may throw.
DispatchAdvFlagFirst(node, datagram) ==
    LET known == AddAdvAddress(topics[node], datagram.topic, datagram.address)
        wants == WantsConnection(known, node, datagram)
    IN /\ topics' = [topics EXCEPT ![node] =
             IF wants THEN SetConnected(known, datagram.topic, TRUE) ELSE known]
       /\ \/ wants /\ ZmqConnect(node, datagram.address)
          \/ (wants => "connect" \in Faults) /\ UNCHANGED conns

DispatchAdv(node, datagram) ==
    LET known == AddAdvAddress(topics[node], datagram.topic, datagram.address) IN
    \/ /\ WantsConnection(known, node, datagram)
       /\ ZmqConnect(node, datagram.address)
       /\ topics' = [topics EXCEPT ![node] =
                       SetConnected(known, datagram.topic, TRUE)]
    \/ /\ WantsConnection(known, node, datagram) => "connect" \in Faults
       /\ topics' = [topics EXCEPT ![node] = known]
       /\ UNCHANGED conns

\* Mutants of DispatchSub: it answers for any topic; it answers for none.
DispatchSubAlways(node, datagram, box) ==
    inbox' \in Sent(Adv(node, datagram.topic), Running, box)
DispatchSubNever(node, datagram, box) == inbox' = box

DispatchSub(node, datagram, box) ==
    IF AdvertisedByMe(topics[node], datagram.topic)
    THEN inbox' \in Sent(Adv(node, datagram.topic), Running, box)
    ELSE inbox' = box

RecvDiscoveryUpdates(node, datagram) ==
    /\ Up(node)
    /\ datagram \in inbox[node]
    /\ \E box \in Received(datagram, node, inbox) :
        \/ datagram.type = "ADV" /\ DispatchAdv(node, datagram) /\ inbox' = box
        \/ /\ datagram.type = "SUB"
           /\ DispatchSub(node, datagram, box)
           /\ UNCHANGED <<topics, conns>>
    /\ called' = NoCall
    /\ UNCHANGED <<status, filters, pipe>>

-----------------------------------------------------------------------------
Application(node) ==
    \E topic \in Topic :
        \/ /\ <<node, topic>> \in Publishers
           /\ \/ Advertise(node, topic)
              \/ UnAdvertise(node, topic)
              \/ \E data \in Data : Publish(node, topic, data)
        \/ /\ <<node, topic>> \in Subscribers
           /\ \/ \E cb \in Callback : Subscribe(node, topic, cb)
              \/ UnSubscribe(node, topic)

\* A publication in a pipe may still be on its way when SpinOnce polls, so a
\* datagram may be served while a pipe holds something.
SpinOnce(node) ==
    \/ \E from \in Node : RecvTopicUpdates(node, from)
    \/ \E datagram \in inbox[node] : RecvDiscoveryUpdates(node, datagram)

Next ==
    \E node \in Node :
        Start(node) \/ Exit(node) \/ Application(node) \/ SpinOnce(node)

Spec == Init /\ [][Next]_vars

-----------------------------------------------------------------------------
(* Properties                                                              *)

TypeOK ==
    /\ status \in [Node -> {"unborn", "up", "gone"}]
    /\ DOMAIN topics = Node /\ \A n \in Node : IsTable(topics[n])
    /\ filters \in [Node -> [Topic -> Nat]]
    /\ conns \in [Node -> [Node -> Nat]]
    /\ inbox \in [Node -> SUBSET Datagram]
    /\ pipe \in [Node -> [Node -> Seq(Message)]]
    /\ called \in Call \cup {NoCall}

\* Every node hears its own ADVERTISE and SUBSCRIBE datagrams and records its
\* own endpoint among the addresses of the topic, yet it never connects its
\* subscriber to its own publisher: it already has the inproc pipe, and would
\* run its callback twice for each publication.
NoSelfLink == \A n \in Node : conns[n][n] = 0

\* The connected flag of a topic is never set without a pipe to another node
\* whose endpoint is known for that very topic: a connect that throws, a
\* datagram of the node itself or of another topic does not set it.
ConnectedHasLink ==
    \A n \in Node, t \in Topic :
        Connected(topics[n], t) =>
            \E p \in Node \ {n} :
                conns[n][p] > 0 /\ HasAdvAddress(topics[n], t, p)

\* However often datagrams are lost, repeated or late, an endpoint recorded for
\* a topic belongs to a process that did start and that, while it runs, has
\* this topic in its own table: nobody answers SUBSCRIBE for someone else's
\* topic or puts another endpoint than its own into an advertisement.
AddressesAreGenuine ==
    \A n, p \in Node, t \in Topic :
        HasAdvAddress(topics[n], t, p) =>
            /\ status[p] # "unborn"
            /\ Up(p) => HasTopic(topics[p], t)

\* The inductive form of the three invariants above: advertisements still on
\* their way are as genuine as the addresses they will become.
GenuineAdv(datagram) ==
    datagram.type = "ADV" =>
        /\ datagram.address = datagram.guid
        /\ status[datagram.guid] # "unborn"
        /\ Up(datagram.guid) => HasTopic(topics[datagram.guid], datagram.topic)

AdvertisementsAreGenuine ==
    \A n \in Node : \A datagram \in inbox[n] : GenuineAdv(datagram)

IInv ==
    /\ TypeOK
    /\ NoSelfLink
    /\ ConnectedHasLink
    /\ AddressesAreGenuine
    /\ AdvertisementsAreGenuine

\* Connections do not leak: a node has no more pipes to a publisher than it has
\* connected topics for which this publisher's endpoint is known.
PipesAreAccounted ==
    \A n, p \in Node :
        conns[n][p] <= Cardinality({t \in Topic :
            Connected(topics[n], t) /\ HasAdvAddress(topics[n], t, p)})

\* With a libzmq that ignores a second connect, also one pipe at most.
OnePipePerPublisher ==
    SingleConnect => \A n, p \in Node : conns[n][p] <= 1

\* While a topic is subscribed its callback is set and its filter is with the
\* subscriber socket, whatever Subscribe and UnSubscribe calls came before.
SubscriptionIsServed ==
    \A n \in Node, t \in Topic :
        Subscribed(topics[n], t) =>
            GetCallback(topics[n], t) # NULL /\ filters[n][t] > 0

\* The application sees a bus (module TopicBus) in which discovery, sockets and
\* filters are gone: publications of advertised topics only, at most once and
\* in the order of each publisher, to the callback registered last.
Bus == INSTANCE TopicBus WITH
    Payload <- {CStr[data] : data \in Data},
    subs <- [n \in Node |-> [t \in Topic |->
               IF Subscribed(topics[n], t) THEN GetCallback(topics[n], t) ELSE NULL]],
    adv  <- [n \in Node |-> {t \in Topic : AdvertisedByMe(topics[n], t)}],
    chan <- pipe
ImplementsBus == Bus!Spec

Advertising(p, t) == Up(p) /\ AdvertisedByMe(topics[p], t)
Subscribing(n, t) == Up(n) /\ Subscribed(topics[n], t)

\* Discovery has nothing left to do: no datagram, no publication waits.
Settled ==
    \A n \in Node : inbox[n] = {} /\ \A from \in Node : pipe[n][from] = <<>>

\* What src/cpp/discZmq.cc says of Subscribe ("Discover the list of nodes that
\* publish on the topic"): once discovery has settled on a network that loses
\* nothing, a subscriber has a pipe to each of these nodes.
SubscriberReachesEveryPublisher ==
    Settled =>
        \A n, p \in Node, t \in Topic :
            n # p /\ Subscribing(n, t) /\ Advertising(p, t) => conns[n][p] > 0

\* What src/cpp/topicsInfo.hh says of Connected ("Return true if we are
\* connected to a node advertising the topic"), once discovery has settled.
ConnectedToAdvertiser ==
    Settled =>
        \A n \in Node, t \in Topic :
            Connected(topics[n], t) =>
                \E p \in Node : conns[n][p] > 0 /\ Advertising(p, t)
=============================================================================
