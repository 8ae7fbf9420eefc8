---------------------------- MODULE PubSub_proofs ----------------------------
(***************************************************************************)
(* The invariant IInv of PubSub is inductive, for every set of nodes and   *)
(* topics, every combination of faults and every bound; NoSelfLink,        *)
(* ConnectedHasLink and AddressesAreGenuine follow.  On top of it:         *)
(* subscriptions are served, pipes do not leak and, where a second connect *)
(* is ignored, every step of PubSub is one of TopicBus.                    *)
(***************************************************************************)
EXTENDS PubSub, TopicsInfo_proofs, FiniteSetTheorems

-----------------------------------------------------------------------------
(* Datagrams: what UdpBroadcast does to the buffers of the nodes           *)

\* A broadcast adds at most its own datagram to a buffer.
LEMMA SentFacts ==
  ASSUME NEW Nodes, NEW Datagrams, NEW box \in [Nodes -> SUBSET Datagrams],
         NEW datagram \in Datagrams, NEW running,
         NEW after \in Sent(datagram, running, box)
  PROVE  /\ after \in [Nodes -> SUBSET Datagrams]
         /\ \A n \in Nodes : after[n] \subseteq box[n] \cup {datagram}
<1>1. PICK heard : after = [n \in Nodes |->
                     IF n \in heard THEN box[n] \cup {datagram} ELSE box[n]]
  BY DEF Sent
<1>2. QED
  BY <1>1

\* A receive takes at most its own datagram out of one buffer.
LEMMA ReceivedFacts ==
  ASSUME NEW Nodes, NEW Datagrams, NEW box \in [Nodes -> SUBSET Datagrams],
         NEW datagram, NEW node \in Nodes,
         NEW after \in Received(datagram, node, box)
  PROVE  /\ after \in [Nodes -> SUBSET Datagrams]
         /\ \A n \in Nodes : after[n] \subseteq box[n]
<1>1. after = [box EXCEPT ![node] = @ \ {datagram}] \/ after = box
  BY DEF Received
<1>2. QED
  BY <1>1

-----------------------------------------------------------------------------
(* Facts about the network and the sockets                                 *)

\* The datagrams that nodes send have their types.
LEMMA DatagramTypes ==
  ASSUME NEW n \in Node, NEW t \in Topic
  PROVE  /\ Adv(n, t) \in Datagram /\ Sub(n, t) \in Datagram
         /\ Adv(n, t).type = "ADV" /\ Adv(n, t).guid = n
         /\ Adv(n, t).address = n /\ Adv(n, t).topic = t
         /\ Sub(n, t).type = "SUB"
  BY DEF Adv, Sub, Datagram, AdvDatagram, SubDatagram, Node

\* A broadcast adds at most its own datagram to a buffer.
LEMMA BroadcastFacts ==
  ASSUME NEW datagram \in Datagram, NEW box \in [Node -> SUBSET Datagram],
         NEW running, NEW after \in Sent(datagram, running, box)
  PROVE  /\ after \in [Node -> SUBSET Datagram]
         /\ \A n \in Node : after[n] \subseteq box[n] \cup {datagram}
  BY SentFacts

\* A connect adds pipes to one publisher and takes none away.
LEMMA ZmqConnectFacts ==
  ASSUME conns \in [Node -> [Node -> Nat]], NEW n \in Node, NEW p \in Node,
         ZmqConnect(n, p)
  PROVE  /\ conns' \in [Node -> [Node -> Nat]]
         /\ conns'[n][p] > 0
         /\ \A m, q \in Node : <<m, q>> # <<n, p>> => conns'[m][q] = conns[m][q]
  BY DEF ZmqConnect

-----------------------------------------------------------------------------
(* What the conjuncts of IInv need of a step                               *)

\* The part of TypeOK that the other conjuncts speak about.
CoreType ==
  /\ status \in [Node -> {"unborn", "up", "gone"}]
  /\ DOMAIN topics = Node /\ \A n \in Node : IsTable(topics[n])
  /\ conns \in [Node -> [Node -> Nat]]
  /\ inbox \in [Node -> SUBSET Datagram]

LinkInv == NoSelfLink /\ ConnectedHasLink
GenuineInv == AddressesAreGenuine /\ AdvertisementsAreGenuine

\* A step that writes no connected flag and no address of any table and opens
\* no pipe keeps what is known about links.
LEMMA LinksUntouched ==
  ASSUME LinkInv, UNCHANGED conns,
         \A n \in Node, t \in Topic :
            /\ Connected(topics'[n], t) = Connected(topics[n], t)
            /\ AdvAddresses(topics'[n], t) = AdvAddresses(topics[n], t)
  PROVE  LinkInv'
  BY DEF LinkInv, NoSelfLink, ConnectedHasLink, HasAdvAddress

\* A step after which no process is less alive, no topic is forgotten and every
\* address and every advertisement is old or genuine keeps GenuineInv.
LEMMA GenuineStep ==
  ASSUME CoreType, GenuineInv, UNCHANGED status,
         CoreType',
         \A n \in Node, t \in Topic :
            HasTopic(topics[n], t) => HasTopic(topics'[n], t),
         \A n \in Node : \A datagram \in inbox'[n] :
            datagram \in inbox[n] \/ GenuineAdv(datagram)',
         \A n, p \in Node, t \in Topic :
            HasAdvAddress(topics'[n], t, p) =>
               \/ HasAdvAddress(topics[n], t, p)
               \/ status[p] # "unborn" /\ (Up(p) => HasTopic(topics'[p], t))
  PROVE  GenuineInv'
<1>1. AddressesAreGenuine'
  BY DEF GenuineInv, AddressesAreGenuine, Up
<1>2. ASSUME NEW n \in Node, NEW datagram \in inbox'[n]
      PROVE  GenuineAdv(datagram)'
  <2>1. CASE datagram \in inbox[n]
    <3>1. GenuineAdv(datagram) /\ datagram \in Datagram
      BY <2>1 DEF CoreType, GenuineInv, AdvertisementsAreGenuine
    <3>2. CASE datagram.type = "ADV"
      <4>1. datagram \in AdvDatagram
        BY <3>1, <3>2 DEF Datagram, SubDatagram
      <4>2. datagram.guid \in Node /\ datagram.topic \in Topic
        BY <4>1 DEF AdvDatagram
      <4>3. QED
        BY <3>1, <3>2, <4>2 DEF GenuineAdv, Up
    <3>3. CASE datagram.type # "ADV"
      BY <3>3 DEF GenuineAdv
    <3>4. QED
      BY <3>2, <3>3
  <2>2. CASE datagram \notin inbox[n]
    BY <2>2
  <2>3. QED
    BY <2>1, <2>2
<1>3. AdvertisementsAreGenuine'
  BY <1>2 DEF AdvertisementsAreGenuine
<1>4. QED
  BY <1>1, <1>3 DEF GenuineInv

\* The application's calls write one field of the table of their own node.
LEMMA OwnTableWrite ==
  ASSUME CoreType, LinkInv, GenuineInv, UNCHANGED <<status, conns>>,
         NEW node \in Node, NEW new, KeepsAddresses(topics[node], new),
         \A t \in Topic : Connected(new, t) = Connected(topics[node], t),
         topics' = [topics EXCEPT ![node] = new],
         inbox' \in [Node -> SUBSET Datagram],
         \A n \in Node : \A datagram \in inbox'[n] :
            datagram \in inbox[n] \/ GenuineAdv(datagram)'
  PROVE  CoreType' /\ LinkInv' /\ GenuineInv'
<1>1. /\ topics'[node] = new
      /\ \A n \in Node : n # node => topics'[n] = topics[n]
      /\ DOMAIN topics' = Node
  BY DEF CoreType
<1>2. /\ IsTable(new)
      /\ \A t \in Topic : /\ HasTopic(topics[node], t) => HasTopic(new, t)
                          /\ AdvAddresses(new, t) = AdvAddresses(topics[node], t)
  BY DEF KeepsAddresses
<1>3. CoreType'
  BY <1>1, <1>2 DEF CoreType
<1>4. \A n \in Node, t \in Topic :
         /\ HasTopic(topics[n], t) => HasTopic(topics'[n], t)
         /\ Connected(topics'[n], t) = Connected(topics[n], t)
         /\ AdvAddresses(topics'[n], t) = AdvAddresses(topics[n], t)
  BY <1>1, <1>2
<1>5. LinkInv'
  BY <1>4, LinksUntouched
<1>6. \A n, p \in Node, t \in Topic :
         HasAdvAddress(topics'[n], t, p) => HasAdvAddress(topics[n], t, p)
  BY <1>4 DEF HasAdvAddress
<1>7. GenuineInv'
  BY <1>3, <1>4, <1>6, GenuineStep
<1>8. QED
  BY <1>3, <1>5, <1>7

\* IInv falls into the part each step lemma is about and the plain rest.
RestType ==
  /\ filters \in [Node -> [Topic -> Nat]]
  /\ pipe \in [Node -> [Node -> Seq(Message)]]
  /\ called \in Call \cup {NoCall}

\* The parts of the invariant by what the steps can disturb.
LEMMA IInvParts == IInv <=> CoreType /\ RestType /\ LinkInv /\ GenuineInv
  BY DEF IInv, TypeOK, CoreType, RestType, LinkInv, GenuineInv

-----------------------------------------------------------------------------
(* One lemma per action                                                    *)

\* The constructor adds a process that knows nothing.
LEMMA StartStep ==
  ASSUME IInv, NEW node \in Node, Start(node)
  PROVE  IInv'
<1>1. CoreType /\ RestType /\ LinkInv /\ GenuineInv
  BY IInvParts
<1>2. CoreType' /\ RestType'
  BY <1>1 DEF Start, CoreType, RestType
<1>3. LinkInv'
  BY <1>1 DEF Start, LinkInv, NoSelfLink, ConnectedHasLink
<1>4. \A p \in Node : status[p] # "unborn" => status'[p] = status[p]
  BY <1>1 DEF Start, CoreType
<1>5. AddressesAreGenuine'
  BY <1>1, <1>4 DEF Start, GenuineInv, AddressesAreGenuine, Up
<1>6. AdvertisementsAreGenuine'
  <2>1. SUFFICES ASSUME NEW n \in Node, NEW datagram \in inbox[n],
                        datagram.type = "ADV"
                 PROVE  GenuineAdv(datagram)'
    BY DEF AdvertisementsAreGenuine, GenuineAdv, Start
  <2>2. GenuineAdv(datagram) /\ datagram \in Datagram
    BY <1>1 DEF GenuineInv, AdvertisementsAreGenuine, CoreType
  <2>3. datagram.guid \in Node
    BY <2>1, <2>2 DEF Datagram, SubDatagram, AdvDatagram
  <2>4. QED
    BY <1>4, <2>1, <2>2, <2>3 DEF Start, GenuineAdv, Up
<1>7. QED
  BY <1>2, <1>3, <1>5, <1>6, IInvParts DEF GenuineInv, IInv, TypeOK, CoreType,
     RestType, LinkInv

\* With a process go its table and its pipes together.
LEMMA ExitStep ==
  ASSUME IInv, NEW node \in Node, Exit(node)
  PROVE  IInv'
<1>1. CoreType /\ RestType /\ LinkInv /\ GenuineInv
  BY IInvParts
<1>2. /\ status'[node] = "gone" /\ topics'[node] = EmptyTable
      /\ inbox'[node] = {} /\ conns'[node] = [p \in Node |-> 0]
      /\ \A n \in Node : n # node => /\ status'[n] = status[n]
                                     /\ topics'[n] = topics[n]
                                     /\ inbox'[n] = inbox[n]
                                     /\ conns'[n] = conns[n]
  BY <1>1 DEF Exit, CoreType
<1>3. \A t : ~HasTopic(EmptyTable, t) /\ Info(EmptyTable, t) = NewTopicInfo
  BY EmptyTableFacts
<1>4. \A t : /\ ~Connected(topics'[node], t)
             /\ \A p : ~HasAdvAddress(topics'[node], t, p)
  BY <1>2, <1>3 DEF Connected, HasAdvAddress, AdvAddresses, NewTopicInfo, ToSet
<1>5. CoreType'
  BY <1>1, <1>2, EmptyTableFacts DEF Exit, CoreType
<1>6. RestType'
  BY <1>1 DEF Exit, RestType
<1>7. LinkInv'
  BY <1>1, <1>2, <1>4 DEF LinkInv, NoSelfLink, ConnectedHasLink
<1>8. AddressesAreGenuine'
  BY <1>1, <1>2, <1>4 DEF GenuineInv, AddressesAreGenuine, Up
<1>9. AdvertisementsAreGenuine'
  <2>1. SUFFICES ASSUME NEW n \in Node, NEW datagram \in inbox'[n],
                        datagram.type = "ADV"
                 PROVE  GenuineAdv(datagram)'
    BY DEF AdvertisementsAreGenuine, GenuineAdv
  <2>2. datagram \in inbox[n]
    BY <1>2
  <2>3. GenuineAdv(datagram) /\ datagram \in Datagram
    BY <1>1, <2>2 DEF GenuineInv, AdvertisementsAreGenuine, CoreType
  <2>4. datagram.guid \in Node
    BY <2>1, <2>3 DEF Datagram, SubDatagram, AdvDatagram
  <2>5. QED
    BY <1>2, <2>1, <2>3, <2>4 DEF GenuineAdv, Up
<1>10. QED
  BY <1>5, <1>6, <1>7, <1>8, <1>9 DEF IInv, TypeOK, CoreType, RestType, LinkInv

\* Advertise writes a flag and sends a genuine advertisement.
LEMMA AdvertiseStep ==
  ASSUME IInv, NEW node \in Node, NEW topic \in Topic, Advertise(node, topic)
  PROVE  IInv'
<1> DEFINE new == SetAdvertisedByMe(topics[node], topic, TRUE)
<1>1. CoreType /\ RestType /\ LinkInv /\ GenuineInv
  BY IInvParts
<1>2. RestType'
  BY <1>1 DEF Advertise, RestType
<1>3. topics' = [topics EXCEPT ![node] = new] /\ UNCHANGED <<status, conns>>
  BY DEF Advertise
<1>4. IsTable(topics[node]) /\ DOMAIN topics = Node
  BY <1>1 DEF CoreType
<1>5. /\ KeepsAddresses(topics[node], new) /\ HasTopic(new, topic)
      /\ \A t : Connected(new, t) = Connected(topics[node], t)
  BY <1>4, SetAdvertisedByMeFacts
<1>6. /\ inbox' \in [Node -> SUBSET Datagram]
      /\ \A n \in Node : inbox'[n] \subseteq inbox[n] \cup {Adv(node, topic)}
  BY <1>1, DatagramTypes, BroadcastFacts DEF Advertise, CoreType
<1> HIDE DEF new
<1>7. GenuineAdv(Adv(node, topic))'
  <2>1. status[node] = "up" /\ topics'[node] = new
    BY <1>3, <1>4 DEF Advertise, Up
  <2>2. QED
    BY <1>3, <1>5, <2>1, DatagramTypes DEF GenuineAdv, Up
<1>8. \A n \in Node : \A datagram \in inbox'[n] :
         datagram \in inbox[n] \/ GenuineAdv(datagram)'
  BY <1>6, <1>7
<1>9. CoreType' /\ LinkInv' /\ GenuineInv'
  BY <1>1, <1>3, <1>5, <1>6, <1>8, OwnTableWrite
<1>10. QED
  BY <1>2, <1>9 DEF IInv, TypeOK, CoreType, RestType, LinkInv, GenuineInv

\* UnAdvertise clears the flag; the table keeps the topic.
LEMMA UnAdvertiseStep ==
  ASSUME IInv, NEW node \in Node, NEW topic \in Topic, UnAdvertise(node, topic)
  PROVE  IInv'
<1> DEFINE new == SetAdvertisedByMe(topics[node], topic, FALSE)
<1>1. CoreType /\ RestType /\ LinkInv /\ GenuineInv
  BY IInvParts
<1>2. RestType'
  BY <1>1 DEF UnAdvertise, RestType
<1>3. /\ topics' = [topics EXCEPT ![node] = new]
      /\ UNCHANGED <<status, conns, inbox>>
  BY DEF UnAdvertise
<1>4. /\ KeepsAddresses(topics[node], new)
      /\ \A t : Connected(new, t) = Connected(topics[node], t)
  BY <1>1, SetAdvertisedByMeFacts DEF CoreType
<1> HIDE DEF new
<1>5. inbox' \in [Node -> SUBSET Datagram]
  BY <1>1, <1>3 DEF CoreType
<1>6. CoreType' /\ LinkInv' /\ GenuineInv'
  BY <1>1, <1>3, <1>4, <1>5, OwnTableWrite
<1>7. QED
  BY <1>2, <1>6 DEF IInv, TypeOK, CoreType, RestType, LinkInv, GenuineInv

\* Subscribe writes a flag and a callback and sends a SUB.
LEMMA SubscribeStep ==
  ASSUME IInv, NEW node \in Node, NEW topic \in Topic, NEW cb \in Callback,
         Subscribe(node, topic, cb)
  PROVE  IInv'
<1> DEFINE new == SetCallback(SetSubscribed(topics[node], topic, TRUE), topic, cb)
<1>1. CoreType /\ RestType /\ LinkInv /\ GenuineInv
  BY IInvParts
<1>2. RestType'
  BY <1>1 DEF Subscribe, RestType
<1>3. topics' = [topics EXCEPT ![node] = new] /\ UNCHANGED <<status, conns>>
  BY DEF Subscribe
<1>4. /\ KeepsAddresses(topics[node], new)
      /\ \A t : Connected(new, t) = Connected(topics[node], t)
  <2>1. IsTable(topics[node])
    BY <1>1 DEF CoreType
  <2>2. QED
    BY <2>1, SubscriptionFacts
<1> HIDE DEF new
<1>5. /\ inbox' \in [Node -> SUBSET Datagram]
      /\ \A n \in Node : inbox'[n] \subseteq inbox[n] \cup {Sub(node, topic)}
  BY <1>1, DatagramTypes, BroadcastFacts DEF Subscribe, CoreType
<1>6. GenuineAdv(Sub(node, topic))'
  BY DatagramTypes DEF GenuineAdv
<1>7. \A n \in Node : \A datagram \in inbox'[n] :
         datagram \in inbox[n] \/ GenuineAdv(datagram)'
  BY <1>5, <1>6
<1>8. CoreType' /\ LinkInv' /\ GenuineInv'
  BY <1>1, <1>3, <1>4, <1>5, <1>7, OwnTableWrite
<1>9. QED
  BY <1>2, <1>8 DEF IInv, TypeOK, CoreType, RestType, LinkInv, GenuineInv

\* UnSubscribe writes a flag and a callback.
LEMMA UnSubscribeStep ==
  ASSUME IInv, NEW node \in Node, NEW topic \in Topic, UnSubscribe(node, topic)
  PROVE  IInv'
<1> DEFINE new == SetCallback(SetSubscribed(topics[node], topic, FALSE), topic, NULL)
<1>1. CoreType /\ RestType /\ LinkInv /\ GenuineInv
  BY IInvParts
<1>2. RestType'
  BY <1>1 DEF UnSubscribe, RestType
<1>3. /\ topics' = [topics EXCEPT ![node] = new]
      /\ UNCHANGED <<status, conns, inbox>>
  BY DEF UnSubscribe
<1>4. /\ KeepsAddresses(topics[node], new)
      /\ \A t : Connected(new, t) = Connected(topics[node], t)
  <2>1. IsTable(topics[node])
    BY <1>1 DEF CoreType
  <2>2. QED
    BY <2>1, SubscriptionFacts
<1> HIDE DEF new
<1>5. inbox' \in [Node -> SUBSET Datagram]
  BY <1>1, <1>3 DEF CoreType
<1>6. CoreType' /\ LinkInv' /\ GenuineInv'
  BY <1>1, <1>3, <1>4, <1>5, OwnTableWrite
<1>7. QED
  BY <1>2, <1>6 DEF IInv, TypeOK, CoreType, RestType, LinkInv, GenuineInv

\* Publications and their delivery touch no table, no pipe's existence and no
\* datagram.
LEMMA PublishStep ==
  ASSUME IInv, NEW node \in Node, NEW topic \in Topic, NEW data \in Data,
         Publish(node, topic, data)
  PROVE  IInv'
<1> DEFINE msg == [topic |-> topic, data |-> CStr[data]]
<1>1. UNCHANGED <<status, topics, filters, conns, inbox>> /\ called' = NoCall
  BY DEF Publish
<1>2. PICK copies \in [Node -> 0..(1 + Cardinality(Topic))] :
        /\ \A m \in Node : copies[m] \in MayGet(m, node, topic)
        /\ pipe' = [m \in Node |-> [pipe[m] EXCEPT ![node] = @ \o Copies(copies[m], msg)]]
  BY DEF Publish
<1>3. msg \in Message
  BY CStrAssumption DEF Message
<1>4. ASSUME NEW m \in Node
      PROVE  Copies(copies[m], msg) \in Seq(Message)
  <2>1. copies[m] \in Nat
    BY <1>2 DEF MayGet
  <2>2. QED
    BY <1>3, <2>1 DEF Copies
<1>5. pipe \in [Node -> [Node -> Seq(Message)]]
  BY DEF IInv, TypeOK
<1>6. ASSUME NEW m \in Node
      PROVE  [pipe[m] EXCEPT ![node] = @ \o Copies(copies[m], msg)]
                \in [Node -> Seq(Message)]
  <2>1. pipe[m][node] \o Copies(copies[m], msg) \in Seq(Message)
    BY <1>4, <1>5
  <2>2. QED
    BY <1>5, <2>1
<1>7. pipe' \in [Node -> [Node -> Seq(Message)]]
  BY <1>2, <1>6
<1>8. QED
  BY <1>1, <1>7 DEF IInv, TypeOK, NoSelfLink, ConnectedHasLink,
     AddressesAreGenuine, AdvertisementsAreGenuine, GenuineAdv, Up

\* To read a publication touches a pipe and the observer.
LEMMA RecvTopicUpdatesStep ==
  ASSUME IInv, NEW node \in Node, NEW from \in Node, RecvTopicUpdates(node, from)
  PROVE  IInv'
<1> DEFINE msg == Head(pipe[node][from])
           cb  == GetCallback(topics[node], msg.topic)
<1>1. /\ UNCHANGED <<status, topics, filters, conns, inbox>>
      /\ pipe' = [pipe EXCEPT ![node][from] = Tail(@)]
      /\ pipe[node][from] # <<>>
  BY DEF RecvTopicUpdates
<1>2. pipe \in [Node -> [Node -> Seq(Message)]] /\ IsTable(topics[node])
  BY DEF IInv, TypeOK
<1>3. pipe' \in [Node -> [Node -> Seq(Message)]]
  BY <1>1, <1>2
<1>4. msg \in Message
  BY <1>1, <1>2
<1>5. cb \in Callback \cup {NULL}
  BY <1>2, InfoType DEF GetCallback, TopicInfo
<1>6. called' \in Call \cup {NoCall}
  <2>1. CASE Subscribed(topics[node], msg.topic) /\ cb # NULL
    <3>1. called' = [node |-> node, from |-> from, topic |-> msg.topic,
                     data |-> msg.data, cb |-> cb]
      BY <2>1 DEF RecvTopicUpdates
    <3>2. QED
      BY <1>4, <1>5, <2>1, <3>1 DEF Call, Message
  <2>2. CASE ~(Subscribed(topics[node], msg.topic) /\ cb # NULL)
    BY <2>2 DEF RecvTopicUpdates
  <2>3. QED
    BY <2>1, <2>2
<1>7. QED
  BY <1>1, <1>3, <1>6 DEF IInv, TypeOK, NoSelfLink, ConnectedHasLink,
     AddressesAreGenuine, AdvertisementsAreGenuine, GenuineAdv, Up

\* new is table with the sender of an advertisement recorded for its topic.
Recorded(table, new, datagram) ==
  /\ IsTable(new)
  /\ \A t \in Topic :
       /\ HasTopic(table, t) => HasTopic(new, t)
       /\ AdvAddresses(new, t) = AdvAddresses(table, t) \cup
             (IF t = datagram.topic THEN {datagram.guid} ELSE {})

\* Datagrams may leave the buffers, none enters.
BuffersDrain ==
  /\ inbox' \in [Node -> SUBSET Datagram]
  /\ \A n \in Node : inbox'[n] \subseteq inbox[n]

\* An advertisement is recorded, whether or not it leads to a connection: the
\* address is that of the sender, which is genuine.
LEMMA DispatchAdvTables ==
  ASSUME IInv, NEW node \in Node, NEW datagram \in inbox[node],
         datagram.type = "ADV"
  PROVE  LET known == AddAdvAddress(topics[node], datagram.topic, datagram.address) IN
         /\ datagram.topic \in Topic /\ datagram.guid \in Node
         /\ datagram.address = datagram.guid
         /\ status[datagram.guid] # "unborn"
         /\ Up(datagram.guid) => HasTopic(topics[datagram.guid], datagram.topic)
         /\ Recorded(topics[node], known, datagram)
         /\ \A t \in Topic : Connected(known, t) = Connected(topics[node], t)
<1>1. datagram \in Datagram /\ GenuineAdv(datagram) /\ IsTable(topics[node])
  BY DEF IInv, TypeOK, AdvertisementsAreGenuine
<1>2. datagram.topic \in Topic /\ datagram.guid \in Node
  BY <1>1 DEF Datagram, AdvDatagram, SubDatagram
<1>3. /\ datagram.address = datagram.guid
      /\ status[datagram.guid] # "unborn"
      /\ Up(datagram.guid) => HasTopic(topics[datagram.guid], datagram.topic)
  BY <1>1 DEF GenuineAdv
<1>4. datagram.address \in Address
  BY <1>2, <1>3 DEF Node
<1> DEFINE known == AddAdvAddress(topics[node], datagram.topic, datagram.address)
<1>5. \A t : /\ IsTable(known)
             /\ HasTopic(topics[node], t) => HasTopic(known, t)
             /\ Connected(known, t) = Connected(topics[node], t)
             /\ AdvAddresses(known, t) = AdvAddresses(topics[node], t) \cup
                  (IF t = datagram.topic THEN {datagram.address} ELSE {})
  BY <1>1, <1>2, <1>4, AddAdvAddressFacts
<1> HIDE DEF known
<1>6. /\ Recorded(topics[node], known, datagram)
      /\ \A t \in Topic : Connected(known, t) = Connected(topics[node], t)
  BY <1>3, <1>5 DEF Recorded
<1>7. QED
  BY <1>2, <1>3, <1>6 DEF known

\* A step in which a node records the sender of an advertisement in its table
\* keeps addresses and advertisements genuine, connected or not.
LEMMA RecordedAdv ==
  ASSUME IInv, NEW node \in Node, NEW datagram \in inbox[node],
         datagram.type = "ADV", UNCHANGED status,
         BuffersDrain, NEW new, Recorded(topics[node], new, datagram),
         topics' = [topics EXCEPT ![node] = new],
         conns' \in [Node -> [Node -> Nat]]
  PROVE  CoreType' /\ GenuineInv'
<1>1. CoreType /\ GenuineInv /\ DOMAIN topics = Node
  BY DEF IInv, TypeOK, CoreType, GenuineInv
<1>2. /\ topics'[node] = new
      /\ \A n \in Node : n # node => topics'[n] = topics[n]
  BY <1>1
<1>3. CoreType'
  BY <1>1, <1>2 DEF CoreType, Recorded, BuffersDrain
<1>4. \A n \in Node, t \in Topic : HasTopic(topics[n], t) => HasTopic(topics'[n], t)
  BY <1>2 DEF Recorded
<1>5. ASSUME NEW n \in Node, NEW p \in Node, NEW t \in Topic,
             HasAdvAddress(topics'[n], t, p), ~HasAdvAddress(topics[n], t, p)
      PROVE  status[p] # "unborn" /\ (Up(p) => HasTopic(topics'[p], t))
  <2>1. n = node /\ p = datagram.guid /\ t = datagram.topic
    BY <1>2, <1>5 DEF HasAdvAddress, Recorded
  <2>2. QED
    BY <1>4, <2>1, DispatchAdvTables
<1>6. GenuineInv'
  BY <1>1, <1>3, <1>4, <1>5, GenuineStep DEF BuffersDrain
<1>7. QED
  BY <1>3, <1>6

\* The connecting branch: the new pipe goes to another node, whose endpoint the
\* same step has recorded.
LEMMA ConnectingStep ==
  ASSUME IInv, NEW node \in Node, NEW datagram \in inbox[node],
         datagram.type = "ADV", UNCHANGED status,
         BuffersDrain,
         WantsConnection(AddAdvAddress(topics[node], datagram.topic, datagram.address),
                         node, datagram),
         ZmqConnect(node, datagram.address),
         topics' = [topics EXCEPT ![node] =
            SetConnected(AddAdvAddress(topics[node], datagram.topic, datagram.address),
                         datagram.topic, TRUE)]
  PROVE  CoreType' /\ GenuineInv' /\ LinkInv'
<1> DEFINE known == AddAdvAddress(topics[node], datagram.topic, datagram.address)
           new == SetConnected(known, datagram.topic, TRUE)
           topic == datagram.topic
           peer == datagram.guid
<1>1. /\ topic \in Topic /\ peer \in Node /\ datagram.address = peer
      /\ Recorded(topics[node], known, datagram)
      /\ \A t \in Topic : Connected(known, t) = Connected(topics[node], t)
  BY DispatchAdvTables
<1>2. peer # node
  BY DEF WantsConnection
<1> HIDE DEF known
<1>3. /\ KeepsAddresses(known, new)
      /\ \A t : Connected(new, t) = IF t = topic THEN TRUE ELSE Connected(known, t)
  BY <1>1, SetConnectedFacts DEF Recorded
<1>4. topics' = [topics EXCEPT ![node] = new] /\ DOMAIN topics = Node
  BY DEF known, IInv, TypeOK
<1> HIDE DEF new
<1>5. /\ Recorded(topics[node], new, datagram)
      /\ \A t \in Topic :
            /\ Connected(new, t) => t = topic \/ Connected(topics[node], t)
            /\ AdvAddresses(new, t) = AdvAddresses(topics[node], t) \cup
                  (IF t = topic THEN {peer} ELSE {})
  BY <1>1, <1>3 DEF KeepsAddresses, Recorded
<1>6. /\ conns' \in [Node -> [Node -> Nat]] /\ conns'[node][peer] > 0
      /\ \A m, q \in Node : <<m, q>> # <<node, peer>> => conns'[m][q] = conns[m][q]
  <2>1. conns \in [Node -> [Node -> Nat]] /\ ZmqConnect(node, peer)
    BY <1>1 DEF IInv, TypeOK
  <2>2. QED
    BY <1>1, <2>1, ZmqConnectFacts
<1>7. CoreType' /\ GenuineInv'
  BY <1>4, <1>5, <1>6, RecordedAdv
<1>8. NoSelfLink'
  BY <1>1, <1>2, <1>6 DEF IInv, NoSelfLink
<1>9. ConnectedHasLink'
  <2>1. SUFFICES ASSUME NEW n \in Node, NEW t \in Topic, Connected(topics'[n], t)
                 PROVE  \E p \in Node \ {n} :
                           conns'[n][p] > 0 /\ HasAdvAddress(topics'[n], t, p)
    BY DEF ConnectedHasLink
  <2>2. CASE n = node /\ t = topic
    <3>1. conns'[n][peer] > 0 /\ HasAdvAddress(topics'[n], t, peer)
      BY <1>1, <1>4, <1>5, <1>6, <2>2 DEF HasAdvAddress
    <3>2. QED
      BY <1>1, <1>2, <2>2, <3>1
  <2>3. CASE ~(n = node /\ t = topic)
    <3>1. Connected(topics[n], t)
      BY <1>4, <1>5, <2>1, <2>3
    <3>2. PICK p \in Node \ {n} : conns[n][p] > 0 /\ HasAdvAddress(topics[n], t, p)
      BY <3>1 DEF IInv, ConnectedHasLink
    <3>3. HasAdvAddress(topics'[n], t, p)
      BY <1>4, <1>5, <3>2 DEF HasAdvAddress
    <3>4. conns'[n][p] > 0
      BY <1>1, <1>6, <3>2
    <3>5. QED
      BY <3>2, <3>3, <3>4
  <2>4. QED
    BY <2>2, <2>3
<1>10. QED
  BY <1>7, <1>8, <1>9 DEF LinkInv

\* The recording branch: connected already, not subscribed, from the node
\* itself, or a connect that throws.
LEMMA RecordingStep ==
  ASSUME IInv, NEW node \in Node, NEW datagram \in inbox[node],
         datagram.type = "ADV", UNCHANGED <<status, conns>>,
         BuffersDrain,
         topics' = [topics EXCEPT ![node] =
            AddAdvAddress(topics[node], datagram.topic, datagram.address)]
  PROVE  CoreType' /\ GenuineInv' /\ LinkInv'
<1> DEFINE known == AddAdvAddress(topics[node], datagram.topic, datagram.address)
<1>1. /\ Recorded(topics[node], known, datagram)
      /\ \A t \in Topic : Connected(known, t) = Connected(topics[node], t)
  BY DispatchAdvTables
<1>2. topics' = [topics EXCEPT ![node] = known] /\ DOMAIN topics = Node
  BY DEF IInv, TypeOK
<1>3. conns \in [Node -> [Node -> Nat]]
  BY DEF IInv, TypeOK
<1> HIDE DEF known
<1>4. CoreType' /\ GenuineInv'
  BY <1>1, <1>2, <1>3, RecordedAdv
<1>5. NoSelfLink'
  BY DEF IInv, NoSelfLink
<1>6. ConnectedHasLink'
  <2>1. SUFFICES ASSUME NEW n \in Node, NEW t \in Topic, Connected(topics'[n], t)
                 PROVE  \E p \in Node \ {n} :
                           conns[n][p] > 0 /\ HasAdvAddress(topics'[n], t, p)
    BY DEF ConnectedHasLink
  <2>2. Connected(topics[n], t)
    BY <1>1, <1>2, <2>1
  <2>3. PICK p \in Node \ {n} : conns[n][p] > 0 /\ HasAdvAddress(topics[n], t, p)
    BY <2>2 DEF IInv, ConnectedHasLink
  <2>4. HasAdvAddress(topics'[n], t, p)
    BY <1>1, <1>2, <2>3 DEF HasAdvAddress, Recorded
  <2>5. QED
    BY <2>3, <2>4
<1>7. QED
  BY <1>4, <1>5, <1>6 DEF LinkInv

\* A datagram served, of either type.
LEMMA RecvDiscoveryUpdatesStep ==
  ASSUME IInv, NEW node \in Node, NEW datagram \in inbox[node],
         RecvDiscoveryUpdates(node, datagram)
  PROVE  IInv'
<1>1. CoreType /\ RestType /\ LinkInv /\ GenuineInv
  BY IInvParts
<1>2. PICK box \in Received(datagram, node, inbox) :
        \/ datagram.type = "ADV" /\ DispatchAdv(node, datagram) /\ inbox' = box
        \/ /\ datagram.type = "SUB"
           /\ DispatchSub(node, datagram, box)
           /\ UNCHANGED <<topics, conns>>
  BY DEF RecvDiscoveryUpdates
<1>3. UNCHANGED <<status, filters, pipe>> /\ called' = NoCall /\ Up(node)
  BY DEF RecvDiscoveryUpdates
<1>4. RestType'
  BY <1>1, <1>3 DEF RestType
<1> SUFFICES CoreType' /\ GenuineInv' /\ LinkInv'
  BY <1>4 DEF IInv, TypeOK, CoreType, RestType, LinkInv, GenuineInv
<1>5. /\ box \in [Node -> SUBSET Datagram]
      /\ \A n \in Node : box[n] \subseteq inbox[n]
  BY <1>1, ReceivedFacts DEF CoreType
<1>6. /\ datagram \in Datagram
      /\ datagram.topic \in Topic
  BY <1>1 DEF CoreType, Datagram, AdvDatagram, SubDatagram
<1>7. CASE datagram.type = "ADV" /\ DispatchAdv(node, datagram) /\ inbox' = box
  <2>1. BuffersDrain
    BY <1>5, <1>7 DEF BuffersDrain
  <2>2. CASE /\ WantsConnection(AddAdvAddress(topics[node], datagram.topic,
                                              datagram.address), node, datagram)
             /\ ZmqConnect(node, datagram.address)
             /\ topics' = [topics EXCEPT ![node] =
                  SetConnected(AddAdvAddress(topics[node], datagram.topic,
                               datagram.address), datagram.topic, TRUE)]
    BY <1>3, <1>7, <2>1, <2>2, ConnectingStep
  <2>3. CASE /\ topics' = [topics EXCEPT ![node] =
                  AddAdvAddress(topics[node], datagram.topic, datagram.address)]
             /\ UNCHANGED conns
    BY <1>3, <1>7, <2>1, <2>3, RecordingStep
  <2>4. QED
    BY <1>7, <2>2, <2>3 DEF DispatchAdv
<1>8. CASE /\ datagram.type = "SUB"
           /\ DispatchSub(node, datagram, box)
           /\ UNCHANGED <<topics, conns>>
  <2>1. LinkInv'
    BY <1>1, <1>8, LinksUntouched
  <2>2. /\ \A n \in Node, t \in Topic :
              HasTopic(topics[n], t) => HasTopic(topics'[n], t)
        /\ \A n, p \in Node, t \in Topic :
              HasAdvAddress(topics'[n], t, p) => HasAdvAddress(topics[n], t, p)
    BY <1>8
  <2>3. CASE AdvertisedByMe(topics[node], datagram.topic)
    <3>1. HasTopic(topics[node], datagram.topic)
      BY <2>3 DEF AdvertisedByMe, Info, NewTopicInfo
    <3>2. GenuineAdv(Adv(node, datagram.topic))'
      BY <1>3, <1>6, <1>8, <3>1, DatagramTypes DEF GenuineAdv, Up
    <3>3. /\ inbox' \in [Node -> SUBSET Datagram]
          /\ \A n \in Node : inbox'[n] \subseteq box[n] \cup {Adv(node, datagram.topic)}
      BY <1>5, <1>6, <1>8, <2>3, DatagramTypes, BroadcastFacts DEF DispatchSub
    <3>4. \A n \in Node : \A d \in inbox'[n] : d \in inbox[n] \/ GenuineAdv(d)'
      BY <1>5, <3>2, <3>3
    <3>5. CoreType'
      BY <1>1, <1>3, <1>8, <3>3 DEF CoreType
    <3>6. QED
      BY <1>1, <1>3, <2>1, <2>2, <3>4, <3>5, GenuineStep
  <2>4. CASE ~AdvertisedByMe(topics[node], datagram.topic)
    <3>1. inbox' = box
      BY <1>8, <2>4 DEF DispatchSub
    <3>2. CoreType'
      BY <1>1, <1>3, <1>5, <1>8, <3>1 DEF CoreType
    <3>3. \A n \in Node : \A d \in inbox'[n] : d \in inbox[n] \/ GenuineAdv(d)'
      BY <1>5, <3>1
    <3>4. QED
      BY <1>1, <1>3, <2>1, <2>2, <3>2, <3>3, GenuineStep
  <2>5. QED
    BY <2>3, <2>4
<1>9. QED
  BY <1>2, <1>7, <1>8

-----------------------------------------------------------------------------
(* The theorems                                                            *)

\* The constructors leave every node in a state that satisfies IInv.
THEOREM InitIInv == Init => IInv
<1> SUFFICES ASSUME Init PROVE IInv
  OBVIOUS
<1>1. \A t : /\ IsTable(EmptyTable) /\ ~HasTopic(EmptyTable, t)
             /\ Info(EmptyTable, t) = NewTopicInfo
  BY EmptyTableFacts
<1>2. TypeOK
  <2>1. /\ status \in [Node -> {"unborn", "up", "gone"}]
        /\ DOMAIN topics = Node /\ \A n \in Node : IsTable(topics[n])
        /\ inbox \in [Node -> SUBSET Datagram]
        /\ called \in Call \cup {NoCall}
    BY <1>1 DEF Init, Fresh
  <2>2. /\ filters \in [Node -> [Topic -> Nat]]
        /\ conns \in [Node -> [Node -> Nat]]
    BY DEF Init, Fresh
  <2>3. <<>> \in Seq(Message)
    OBVIOUS
  <2>4. pipe \in [Node -> [Node -> Seq(Message)]]
    BY <2>3 DEF Init, Fresh
  <2>5. QED
    BY <2>1, <2>2, <2>4 DEF TypeOK
<1>3. \A n \in Node, t \in Topic :
         ~Connected(topics[n], t) /\ \A p : ~HasAdvAddress(topics[n], t, p)
  BY <1>1 DEF Init, Fresh, Connected, HasAdvAddress, AdvAddresses, NewTopicInfo, ToSet
<1>4. NoSelfLink /\ ConnectedHasLink /\ AddressesAreGenuine
  BY <1>3 DEF Init, Fresh, NoSelfLink, ConnectedHasLink, AddressesAreGenuine
<1>5. AdvertisementsAreGenuine
  BY DEF Init, Fresh, AdvertisementsAreGenuine
<1>6. QED
  BY <1>2, <1>4, <1>5 DEF IInv

\* No step of a node, of its application or of the network breaks IInv.
THEOREM NextIInv == IInv /\ [Next]_vars => IInv'
<1> SUFFICES ASSUME IInv, [Next]_vars PROVE IInv'
  OBVIOUS
<1>1. CASE UNCHANGED vars
  BY <1>1 DEF vars, IInv, TypeOK, NoSelfLink, ConnectedHasLink,
     AddressesAreGenuine, AdvertisementsAreGenuine, GenuineAdv, Up
<1>2. CASE Next
  <2>1. PICK node \in Node :
          Start(node) \/ Exit(node) \/ Application(node) \/ SpinOnce(node)
    BY <1>2 DEF Next
  <2>2. CASE Start(node)
    BY <2>2, StartStep
  <2>3. CASE Exit(node)
    BY <2>3, ExitStep
  <2>4. CASE Application(node)
    <3>1. PICK topic \in Topic :
            \/ Advertise(node, topic)
            \/ UnAdvertise(node, topic)
            \/ \E data \in Data : Publish(node, topic, data)
            \/ \E cb \in Callback : Subscribe(node, topic, cb)
            \/ UnSubscribe(node, topic)
      BY <2>4 DEF Application
    <3>2. QED
      BY <3>1, AdvertiseStep, UnAdvertiseStep, PublishStep, SubscribeStep,
         UnSubscribeStep
  <2>5. CASE SpinOnce(node)
    BY <2>5, RecvTopicUpdatesStep, RecvDiscoveryUpdatesStep DEF SpinOnce
  <2>6. QED
    BY <2>1, <2>2, <2>3, <2>4, <2>5
<1>3. QED
  BY <1>1, <1>2

\* IInv holds in every reachable state.
THEOREM InductiveInvariant == Spec => []IInv
  BY InitIInv, NextIInv, PTL DEF Spec

\* The variables keep their types in every behaviour of the nodes.
THEOREM TypeCorrect == Spec => []TypeOK
<1>1. IInv => TypeOK
  BY DEF IInv
<1>2. QED
  BY <1>1, InductiveInvariant, PTL

\* DispatchDiscoveryMsg's comparison of GUIDs keeps every node, among any number
\* of them, from connecting to itself.
THEOREM NeverLinkedToItself == Spec => []NoSelfLink
<1>1. IInv => NoSelfLink
  BY DEF IInv
<1>2. QED
  BY <1>1, InductiveInvariant, PTL

\* SetConnected happens only together with a pipe to another node that
\* advertised the topic, and neither is ever taken back alone.
THEOREM ConnectedImpliesLink == Spec => []ConnectedHasLink
<1>1. IInv => ConnectedHasLink
  BY DEF IInv
<1>2. QED
  BY <1>1, InductiveInvariant, PTL

\* The addresses in every table are those of processes that have the topic,
\* whatever the network does with the datagrams.
THEOREM KnownAddressesAreGenuine == Spec => []AddressesAreGenuine
<1>1. IInv => AddressesAreGenuine
  BY DEF IInv
<1>2. QED
  BY <1>1, InductiveInvariant, PTL

-----------------------------------------------------------------------------
(* What a step changes of the application's view and of the links          *)

\* A step is the start or the end of a process, a call of the application, or
\* something SpinOnce serves.
LEMMA NextCases ==
  ASSUME [Next]_vars
  PROVE  \/ UNCHANGED vars
         \/ \E node \in Node :
              \/ Start(node)
              \/ Exit(node)
              \/ \E topic \in Topic :
                   \/ Advertise(node, topic)
                   \/ UnAdvertise(node, topic)
                   \/ \E data \in Data : Publish(node, topic, data)
                   \/ \E cb \in Callback : Subscribe(node, topic, cb)
                   \/ UnSubscribe(node, topic)
              \/ \E from \in Node : RecvTopicUpdates(node, from)
              \/ \E datagram \in inbox[node] : RecvDiscoveryUpdates(node, datagram)
<1>1. CASE Next
  <2>1. PICK node \in Node :
          Start(node) \/ Exit(node) \/ Application(node) \/ SpinOnce(node)
    BY <1>1 DEF Next
  <2>2. CASE Application(node)
    BY <2>2 DEF Application
  <2>3. CASE SpinOnce(node)
    BY <2>3 DEF SpinOnce
  <2>4. QED
    BY <2>1, <2>2, <2>3
<1>2. QED
  BY <1>1

\* DispatchDiscoveryMsg leaves what the application sees as it is.
LEMMA DiscoveryKeepsViews ==
  ASSUME IInv, NEW node \in Node, NEW datagram \in inbox[node],
         RecvDiscoveryUpdates(node, datagram)
  PROVE  \A n \in Node, t \in Topic : SameView(topics[n], topics'[n], t)
<1> DEFINE known == AddAdvAddress(topics[node], datagram.topic, datagram.address)
<1>1. CASE UNCHANGED topics
  BY <1>1 DEF SameView
<1>2. CASE datagram.type = "ADV" /\ DispatchAdv(node, datagram)
  <2>1. /\ datagram.topic \in Topic /\ IsTable(topics[node]) /\ IsTable(known)
        /\ DOMAIN topics = Node
    BY <1>2, DispatchAdvTables DEF Recorded, IInv, TypeOK
  <2>2. \A t : SameView(topics[node], known, t)
    BY <2>1, DiscoveryViews
  <2> HIDE DEF known
  <2>3. \A t : SameView(known, SetConnected(known, datagram.topic, TRUE), t)
    BY <2>1, DiscoveryViews
  <2>4. \A t : /\ SameView(topics[node], known, t)
               /\ SameView(topics[node], SetConnected(known, datagram.topic, TRUE), t)
    BY <2>2, <2>3 DEF SameView
  <2>5. \/ topics' = [topics EXCEPT ![node] = known]
        \/ topics' = [topics EXCEPT ![node] = SetConnected(known, datagram.topic, TRUE)]
    BY <1>2 DEF DispatchAdv, known
  <2>6. \A n \in Node : n # node => topics'[n] = topics[n]
    BY <2>1, <2>5
  <2>7. \A t : SameView(topics[node], topics'[node], t)
    BY <2>1, <2>4, <2>5
  <2>8. QED
    BY <2>6, <2>7 DEF SameView
<1>3. QED
  BY <1>1, <1>2 DEF RecvDiscoveryUpdates

\* Where a step leaves filters and what the application sees alone, a
\* subscription that was served still is.
LEMMA ServedUntouched ==
  ASSUME SubscriptionIsServed, UNCHANGED filters,
         \A n \in Node, t \in Topic :
            /\ Subscribed(topics'[n], t) = Subscribed(topics[n], t)
            /\ GetCallback(topics'[n], t) = GetCallback(topics[n], t)
  PROVE  SubscriptionIsServed'
  BY DEF SubscriptionIsServed

\* The calls write the view and the filters of their own topic only.
LEMMA ServedCalls ==
  ASSUME IInv, SubscriptionIsServed, NEW node \in Node, NEW topic \in Topic,
         \/ Advertise(node, topic)
         \/ UnAdvertise(node, topic)
         \/ \E cb \in Callback : Subscribe(node, topic, cb)
         \/ UnSubscribe(node, topic)
  PROVE  SubscriptionIsServed'
<1>1. /\ IsTable(topics[node]) /\ DOMAIN topics = Node
      /\ filters \in [Node -> [Topic -> Nat]]
  BY DEF IInv, TypeOK
<1>2. ASSUME NEW value \in BOOLEAN, UNCHANGED filters,
             topics' = [topics EXCEPT ![node] = SetAdvertisedByMe(@, topic, value)]
      PROVE  SubscriptionIsServed'
  <2>1. \A n \in Node : n # node => topics'[n] = topics[n]
    BY <1>2
  <2>2. topics'[node] = SetAdvertisedByMe(topics[node], topic, value)
    BY <1>1, <1>2
  <2>3. \A t : /\ Subscribed(topics'[node], t) = Subscribed(topics[node], t)
               /\ GetCallback(topics'[node], t) = GetCallback(topics[node], t)
    BY <1>1, <2>2, AdvertiseView
  <2>4. QED
    BY <1>2, <2>1, <2>3, ServedUntouched
<1>3. ASSUME NEW value \in BOOLEAN, NEW cb \in Callback \cup {NULL},
             topics' = [topics EXCEPT ![node] =
                          SetCallback(SetSubscribed(@, topic, value), topic, cb)],
             \A n \in Node, t \in Topic :
                n # node \/ t # topic => filters'[n][t] = filters[n][t],
             value => cb # NULL /\ filters'[node][topic] > 0
      PROVE  SubscriptionIsServed'
  <2>1. \A n \in Node : n # node => topics'[n] = topics[n]
    BY <1>3
  <2>2. topics'[node] = SetCallback(SetSubscribed(topics[node], topic, value), topic, cb)
    BY <1>1, <1>3
  <2>3. \A t :
          /\ Subscribed(topics'[node], t) =
               IF t = topic THEN value ELSE Subscribed(topics[node], t)
          /\ GetCallback(topics'[node], t) =
               IF t = topic THEN cb ELSE GetCallback(topics[node], t)
    BY <1>1, <2>2, SubscriptionView
  <2>4. SUFFICES ASSUME NEW n \in Node, NEW t \in Topic, Subscribed(topics'[n], t)
                 PROVE  GetCallback(topics'[n], t) # NULL /\ filters'[n][t] > 0
    BY DEF SubscriptionIsServed
  <2>5. CASE n = node /\ t = topic
    BY <1>3, <2>3, <2>4, <2>5
  <2>6. CASE n # node \/ t # topic
    <3>1. /\ Subscribed(topics[n], t)
          /\ GetCallback(topics'[n], t) = GetCallback(topics[n], t)
      BY <2>1, <2>3, <2>4, <2>6
    <3>2. QED
      BY <1>3, <2>6, <3>1 DEF SubscriptionIsServed
  <2>7. QED
    BY <2>5, <2>6
<1>4. Advertise(node, topic) \/ UnAdvertise(node, topic) => SubscriptionIsServed'
  BY <1>2 DEF Advertise, UnAdvertise
<1>5. ASSUME NEW cb \in Callback, Subscribe(node, topic, cb)
      PROVE  SubscriptionIsServed'
  <2>1. cb # NULL
    BY NullIsNoCallback
  <2>2. filters' = [filters EXCEPT ![node][topic] = @ + 1]
    BY <1>5 DEF Subscribe
  <2>3. /\ filters'[node][topic] > 0
        /\ \A n \in Node, t \in Topic :
              n # node \/ t # topic => filters'[n][t] = filters[n][t]
    BY <1>1, <2>2
  <2>4. topics' = [topics EXCEPT ![node] =
                     SetCallback(SetSubscribed(@, topic, TRUE), topic, cb)]
    BY <1>5 DEF Subscribe
  <2>5. QED
    BY <1>3, <2>1, <2>3, <2>4
<1>6. ASSUME UnSubscribe(node, topic)
      PROVE  SubscriptionIsServed'
  <2>1. filters' = [filters EXCEPT ![node][topic] = IF @ = 0 THEN 0 ELSE @ - 1]
    BY <1>6 DEF UnSubscribe
  <2>2. \A n \in Node, t \in Topic :
           n # node \/ t # topic => filters'[n][t] = filters[n][t]
    BY <1>1, <2>1
  <2>3. topics' = [topics EXCEPT ![node] =
                     SetCallback(SetSubscribed(@, topic, FALSE), topic, NULL)]
    BY <1>6 DEF UnSubscribe
  <2>4. QED
    BY <1>3, <2>2, <2>3
<1>7. QED
  BY <1>4, <1>5, <1>6

\* No step leaves a subscription without its callback or its filter.
LEMMA ServedStep == IInv /\ SubscriptionIsServed /\ [Next]_vars => SubscriptionIsServed'
<1> SUFFICES ASSUME IInv, SubscriptionIsServed, [Next]_vars
             PROVE  SubscriptionIsServed'
  OBVIOUS
<1>1. ASSUME UNCHANGED <<topics, filters>> PROVE SubscriptionIsServed'
  BY <1>1 DEF SubscriptionIsServed
<1>2. ASSUME NEW node \in Node, Exit(node) PROVE SubscriptionIsServed'
  <2>1. DOMAIN topics = Node /\ filters \in [Node -> [Topic -> Nat]]
    BY DEF IInv, TypeOK
  <2>2. /\ topics'[node] = EmptyTable
        /\ \A n \in Node : n # node => topics'[n] = topics[n] /\ filters'[n] = filters[n]
    BY <1>2, <2>1 DEF Exit
  <2>3. \A t : ~Subscribed(EmptyTable, t)
    BY EmptyTableFacts DEF Subscribed, NewTopicInfo
  <2>4. QED
    BY <2>2, <2>3 DEF SubscriptionIsServed
<1>3. ASSUME NEW node \in Node, NEW datagram \in inbox[node],
             RecvDiscoveryUpdates(node, datagram)
      PROVE  SubscriptionIsServed'
  <2>1. UNCHANGED filters
    BY <1>3 DEF RecvDiscoveryUpdates
  <2>2. QED
    BY <1>3, <2>1, DiscoveryKeepsViews, ServedUntouched DEF SameView
<1>4. QED
  BY <1>1, <1>2, <1>3, NextCases, ServedCalls
     DEF vars, Start, Publish, RecvTopicUpdates

\* However Subscribe and UnSubscribe calls follow each other (discZmq.cc), a
\* topic that is subscribed has its callback and a filter in the socket.
THEOREM ServedSubscriptions == Spec => []SubscriptionIsServed
<1>1. Init => SubscriptionIsServed
  <2>1. \A t : ~Subscribed(EmptyTable, t)
    BY EmptyTableFacts DEF Subscribed, NewTopicInfo
  <2>2. QED
    BY <2>1 DEF Init, Fresh, SubscriptionIsServed
<1>2. QED
  BY <1>1, ServedStep, InductiveInvariant, PTL DEF Spec

-----------------------------------------------------------------------------
(* Pipes do not leak                                                       *)

\* The connected topics for which n knows the endpoint of p.
Accounts(n, p) ==
  {t \in Topic : Connected(topics[n], t) /\ HasAdvAddress(topics[n], t, p)}

\* There are finitely many accounts, before a step and after it.
LEMMA AccountsSize ==
  ASSUME IsFiniteSet(Topic), NEW n, NEW p
  PROVE  /\ IsFiniteSet(Accounts(n, p)) /\ Cardinality(Accounts(n, p)) \in Nat
         /\ IsFiniteSet(Accounts(n, p)') /\ Cardinality(Accounts(n, p)') \in Nat
<1>1. Accounts(n, p) \subseteq Topic /\ Accounts(n, p)' \subseteq Topic
  BY DEF Accounts
<1>2. QED
  BY <1>1, FS_Subset, FS_CardinalityType

\* A step that opens no pipe and takes back neither a connected flag nor an
\* address keeps the pipes of its nodes accounted for.
LEMMA AccountsGrow ==
  ASSUME IInv, PipesAreAccounted, IsFiniteSet(Topic), NEW n \in Node, NEW p \in Node,
         conns'[n][p] = conns[n][p],
         \A t \in Topic :
            /\ Connected(topics[n], t) => Connected(topics'[n], t)
            /\ AdvAddresses(topics[n], t) \subseteq AdvAddresses(topics'[n], t)
  PROVE  conns'[n][p] <= Cardinality(Accounts(n, p)')
<1>1. Accounts(n, p) \subseteq Accounts(n, p)'
  BY DEF Accounts, HasAdvAddress
<1>2. Cardinality(Accounts(n, p)) <= Cardinality(Accounts(n, p)')
  BY <1>1, AccountsSize, FS_Subset
<1>3. conns[n][p] <= Cardinality(Accounts(n, p)) /\ conns[n][p] \in Nat
  BY DEF PipesAreAccounted, Accounts, IInv, TypeOK
<1>4. QED
  BY <1>2, <1>3, AccountsSize

\* A call of the application writes neither flag nor addresses.
LEMMA CallsKeepLinks ==
  ASSUME IInv, NEW node \in Node, NEW topic \in Topic,
         \/ Advertise(node, topic)
         \/ UnAdvertise(node, topic)
         \/ \E cb \in Callback : Subscribe(node, topic, cb)
         \/ UnSubscribe(node, topic)
  PROVE  \A n \in Node, t \in Topic :
            /\ Connected(topics'[n], t) = Connected(topics[n], t)
            /\ AdvAddresses(topics'[n], t) = AdvAddresses(topics[n], t)
<1>1. IsTable(topics[node]) /\ DOMAIN topics = Node
  BY DEF IInv, TypeOK
<1>2. ASSUME NEW new, KeepsAddresses(topics[node], new),
             \A t : Connected(new, t) = Connected(topics[node], t),
             topics' = [topics EXCEPT ![node] = new]
      PROVE  \A n \in Node, t \in Topic :
                /\ Connected(topics'[n], t) = Connected(topics[n], t)
                /\ AdvAddresses(topics'[n], t) = AdvAddresses(topics[n], t)
  <2>1. /\ topics'[node] = new
        /\ \A n \in Node : n # node => topics'[n] = topics[n]
    BY <1>1, <1>2
  <2>2. QED
    BY <1>2, <2>1 DEF KeepsAddresses
<1>3. ASSUME NEW value \in BOOLEAN
      PROVE  /\ KeepsAddresses(topics[node], SetAdvertisedByMe(topics[node], topic, value))
             /\ \A t : Connected(SetAdvertisedByMe(topics[node], topic, value), t) =
                         Connected(topics[node], t)
  BY <1>1, SetAdvertisedByMeFacts
<1>4. ASSUME NEW value \in BOOLEAN, NEW cb \in Callback \cup {NULL}
      PROVE  LET new == SetCallback(SetSubscribed(topics[node], topic, value), topic, cb) IN
             /\ KeepsAddresses(topics[node], new)
             /\ \A t : Connected(new, t) = Connected(topics[node], t)
  BY <1>1, SubscriptionFacts
<1>5. CASE Advertise(node, topic)
  BY <1>2, <1>3, <1>5 DEF Advertise
<1>6. CASE UnAdvertise(node, topic)
  BY <1>2, <1>3, <1>6 DEF UnAdvertise
<1>7. ASSUME NEW cb \in Callback, Subscribe(node, topic, cb)
      PROVE  \A n \in Node, t \in Topic :
                /\ Connected(topics'[n], t) = Connected(topics[n], t)
                /\ AdvAddresses(topics'[n], t) = AdvAddresses(topics[n], t)
  BY <1>2, <1>4, <1>7 DEF Subscribe
<1>8. CASE UnSubscribe(node, topic)
  BY <1>2, <1>4, <1>8 DEF UnSubscribe
<1>9. QED
  BY <1>5, <1>6, <1>7, <1>8

\* DispatchDiscoveryMsg opens a pipe only for a topic that had none, which it
\* adds to those the pipes to that publisher are accounted to.
LEMMA AccountedDiscovery ==
  ASSUME IInv, PipesAreAccounted, IsFiniteSet(Topic),
         NEW node \in Node, NEW datagram \in inbox[node],
         RecvDiscoveryUpdates(node, datagram),
         NEW n \in Node, NEW p \in Node
  PROVE  conns'[n][p] <= Cardinality(Accounts(n, p)')
<1> DEFINE known == AddAdvAddress(topics[node], datagram.topic, datagram.address)
           new == SetConnected(known, datagram.topic, TRUE)
<1>1. CASE UNCHANGED <<topics, conns>>
  BY <1>1, AccountsGrow
<1>2. CASE datagram.type = "ADV" /\ DispatchAdv(node, datagram)
  <2>1. /\ datagram.topic \in Topic /\ datagram.guid \in Node
        /\ datagram.address = datagram.guid
        /\ Recorded(topics[node], known, datagram)
        /\ \A t \in Topic : Connected(known, t) = Connected(topics[node], t)
        /\ DOMAIN topics = Node /\ conns \in [Node -> [Node -> Nat]]
    BY <1>2, DispatchAdvTables DEF IInv, TypeOK
  <2> HIDE DEF known
  <2>2. /\ KeepsAddresses(known, new)
        /\ \A t : Connected(new, t) = IF t = datagram.topic THEN TRUE ELSE Connected(known, t)
    BY <2>1, SetConnectedFacts DEF Recorded
  <2> HIDE DEF new
  <2>3. /\ \A t \in Topic : AdvAddresses(topics[node], t) \subseteq AdvAddresses(known, t)
        /\ \A t \in Topic : AdvAddresses(topics[node], t) \subseteq AdvAddresses(new, t)
        /\ \A t \in Topic : Connected(topics[node], t) => Connected(new, t)
        /\ HasAdvAddress(new, datagram.topic, datagram.address)
    BY <2>1, <2>2 DEF Recorded, KeepsAddresses, HasAdvAddress
  <2>4. CASE topics' = [topics EXCEPT ![node] = known] /\ UNCHANGED conns
    <3>1. /\ topics'[node] = known
          /\ \A m \in Node : m # node => topics'[m] = topics[m]
      BY <2>1, <2>4
    <3>2. QED
      BY <2>1, <2>3, <2>4, <3>1, AccountsGrow
  <2>5. CASE /\ topics' = [topics EXCEPT ![node] = new]
             /\ WantsConnection(known, node, datagram)
             /\ ZmqConnect(node, datagram.address)
    <3>1. /\ topics'[node] = new
          /\ \A m \in Node : m # node => topics'[m] = topics[m]
      BY <2>1, <2>5
    <3>2. CASE n # node \/ p # datagram.address
      <4>1. conns'[n][p] = conns[n][p]
        BY <2>1, <2>5, <3>2 DEF ZmqConnect
      <4>2. QED
        BY <2>3, <3>1, <4>1, AccountsGrow
    <3>3. CASE n = node /\ p = datagram.address
      <4>1. conns'[n][p] = (IF SingleConnect THEN 1 ELSE conns[n][p] + 1)
        BY <2>1, <2>5, <3>3 DEF ZmqConnect
      <4>2. conns[n][p] \in Nat /\ conns[n][p] <= Cardinality(Accounts(n, p))
        BY <2>1 DEF PipesAreAccounted, Accounts
      <4>3. datagram.topic \notin Accounts(n, p)
        BY <2>1, <2>5, <3>3 DEF WantsConnection, Accounts
      <4>4. Cardinality(Accounts(n, p) \cup {datagram.topic}) =
              Cardinality(Accounts(n, p)) + 1
        BY <4>3, AccountsSize, FS_AddElement
      <4>5. Accounts(n, p) \cup {datagram.topic} \subseteq Accounts(n, p)'
        <5>1. Accounts(n, p) \subseteq Accounts(n, p)'
          BY <2>3, <3>1, <3>3 DEF Accounts, HasAdvAddress
        <5>2. datagram.topic \in Accounts(n, p)'
          BY <2>1, <2>2, <2>3, <3>1, <3>3 DEF Accounts
        <5>3. QED
          BY <5>1, <5>2
      <4>6. Cardinality(Accounts(n, p)) + 1 <= Cardinality(Accounts(n, p)')
        BY <4>4, <4>5, AccountsSize, FS_Subset
      <4>7. QED
        BY <4>1, <4>2, <4>6, AccountsSize
    <3>4. QED
      BY <3>2, <3>3
  <2>6. QED
    BY <1>2, <2>4, <2>5 DEF DispatchAdv, known, new
<1>3. QED
  BY <1>1, <1>2 DEF RecvDiscoveryUpdates

\* No step of a node or of its application leaks a pipe.
LEMMA AccountedStep ==
  ASSUME IsFiniteSet(Topic)
  PROVE  IInv /\ PipesAreAccounted /\ [Next]_vars => PipesAreAccounted'
<1> SUFFICES ASSUME IInv, PipesAreAccounted, [Next]_vars,
                    NEW n \in Node, NEW p \in Node
             PROVE  conns'[n][p] <= Cardinality(Accounts(n, p)')
  BY DEF PipesAreAccounted, Accounts
<1>1. CASE UNCHANGED <<topics, conns>>
  BY <1>1, AccountsGrow
<1>2. ASSUME NEW node \in Node, Exit(node)
      PROVE  conns'[n][p] <= Cardinality(Accounts(n, p)')
  <2>1. DOMAIN topics = Node /\ conns \in [Node -> [Node -> Nat]]
    BY DEF IInv, TypeOK
  <2>2. CASE n = node
    <3>1. conns'[n][p] = 0
      BY <1>2, <2>1, <2>2 DEF Exit
    <3>2. QED
      BY <3>1, AccountsSize
  <2>3. CASE n # node
    <3>1. topics'[n] = topics[n] /\ conns'[n] = conns[n]
      BY <1>2, <2>1, <2>3 DEF Exit
    <3>2. QED
      BY <3>1, AccountsGrow
  <2>4. QED
    BY <2>2, <2>3
<1>3. ASSUME NEW node \in Node, NEW topic \in Topic,
             \/ Advertise(node, topic)
             \/ UnAdvertise(node, topic)
             \/ \E cb \in Callback : Subscribe(node, topic, cb)
             \/ UnSubscribe(node, topic)
      PROVE  conns'[n][p] <= Cardinality(Accounts(n, p)')
  <2>1. UNCHANGED conns
    BY <1>3 DEF Advertise, UnAdvertise, Subscribe, UnSubscribe
  <2>2. QED
    BY <1>3, <2>1, CallsKeepLinks, AccountsGrow
<1>4. QED
  BY <1>1, <1>2, <1>3, AccountedDiscovery, NextCases
     DEF vars, Start, Publish, RecvTopicUpdates

\* However often advertisements arrive and subscriptions come and go, and
\* whether or not libzmq ignores a second connect, a node keeps no more pipes
\* to a publisher than topics it is connected for (DispatchDiscoveryMsg).
THEOREM AccountedPipes ==
  ASSUME IsFiniteSet(Topic)
  PROVE  Spec => []PipesAreAccounted
<1>1. Init => PipesAreAccounted
  <2>1. SUFFICES ASSUME Init, NEW n \in Node, NEW p \in Node
                 PROVE  conns[n][p] <= Cardinality(Accounts(n, p))
    BY DEF PipesAreAccounted, Accounts
  <2>2. conns = [m \in Node |-> [q \in Node |-> 0]]
    BY <2>1 DEF Init, Fresh
  <2>3. QED
    BY <2>2, AccountsSize
<1>2. IInv /\ PipesAreAccounted /\ [Next]_vars => PipesAreAccounted'
  BY AccountedStep
<1>3. QED
  BY <1>1, <1>2, InductiveInvariant, PTL DEF Spec

-----------------------------------------------------------------------------
(* Nodes implement the bus                                                 *)

\* What the application sees: its callbacks and the topics it advertises.
Registered ==
  [n \in Node |-> [t \in Topic |->
     IF Subscribed(topics[n], t) THEN GetCallback(topics[n], t) ELSE NULL]]
Offered == [n \in Node |-> {t \in Topic : AdvertisedByMe(topics[n], t)}]

\* What the initial state and a stutter of the bus are in terms of the mapping.
LEMMA BusVariables ==
  /\ Bus!Init <=> /\ Registered = [n \in Node |-> [t \in Topic |-> NULL]]
                  /\ Offered = [n \in Node |-> {}]
                  /\ pipe = [n \in Node |-> [p \in Node |-> <<>>]]
                  /\ called = NoCall
  /\ UNCHANGED <<Registered, Offered, pipe, called>> => UNCHANGED Bus!vars
  BY DEF Bus!Init, Bus!NoCall, NoCall, Bus!vars, Registered, Offered

\* Tables that look the same to the application are the same to the bus.
LEMMA SameViews ==
  ASSUME \A n \in Node, t \in Topic : SameView(topics[n], topics'[n], t)
  PROVE  UNCHANGED <<Registered, Offered>>
  BY DEF SameView, Registered, Offered

\* A step that changes no view and no pipe is internal.
LEMMA BusInternal ==
  ASSUME UNCHANGED <<Registered, Offered, pipe>>, called' = NoCall
  PROVE  Bus!Next
<1>1. Bus!Internal
  BY DEF Bus!Internal, Bus!NoCall, NoCall, Registered, Offered
<1>2. QED
  BY <1>1 DEF Bus!Next

\* Discovery and the start of a process do not show.
LEMMA BusDiscovery ==
  ASSUME IInv, NEW node \in Node,
         Start(node) \/ \E datagram \in inbox[node] : RecvDiscoveryUpdates(node, datagram)
  PROVE  Bus!Next
<1>1. CASE Start(node)
  <2>1. UNCHANGED <<topics, pipe>> /\ called' = NoCall
    BY <1>1 DEF Start
  <2>2. QED
    BY <2>1, BusInternal DEF Registered, Offered
<1>2. ASSUME NEW datagram \in inbox[node], RecvDiscoveryUpdates(node, datagram)
      PROVE  Bus!Next
  <2>1. UNCHANGED pipe /\ called' = NoCall
    BY <1>2 DEF RecvDiscoveryUpdates
  <2>2. UNCHANGED <<Registered, Offered>>
    BY <1>2, DiscoveryKeepsViews, SameViews
  <2>3. QED
    BY <2>1, <2>2, BusInternal
<1>3. QED
  BY <1>1, <1>2

\* A process that ends leaves the bus with its callbacks and its topics.
LEMMA BusLeave ==
  ASSUME IInv, NEW node \in Node, Exit(node)
  PROVE  Bus!Next
<1>1. /\ topics'[node] = EmptyTable
      /\ \A n \in Node : n # node => topics'[n] = topics[n]
  BY DEF Exit, IInv, TypeOK
<1>2. \A t : ~Subscribed(EmptyTable, t) /\ ~AdvertisedByMe(EmptyTable, t)
  BY EmptyTableFacts DEF Subscribed, AdvertisedByMe, NewTopicInfo
<1>3. Registered' = [Registered EXCEPT ![node] = [t \in Topic |-> NULL]]
  BY <1>1, <1>2 DEF Registered
<1>4. Offered' = [Offered EXCEPT ![node] = {}]
  BY <1>1, <1>2 DEF Offered
<1>5. /\ pipe' = [pipe EXCEPT ![node] = [p \in Node |-> <<>>]]
      /\ called' = NoCall
  BY DEF Exit
<1>6. Bus!Leave(node)
  BY <1>3, <1>4, <1>5 DEF Bus!Leave, Bus!NoCall, NoCall, Registered, Offered
<1>7. QED
  BY <1>6 DEF Bus!Next

\* Advertise and UnAdvertise are the calls of the bus of these names.
LEMMA BusAdvertise ==
  ASSUME IInv, NEW node \in Node, NEW topic \in Topic,
         Advertise(node, topic) \/ UnAdvertise(node, topic)
  PROVE  Bus!Next
<1>1. IsTable(topics[node]) /\ DOMAIN topics = Node
  BY DEF IInv, TypeOK
<1>2. PICK value \in BOOLEAN :
        /\ topics' = [topics EXCEPT ![node] = SetAdvertisedByMe(@, topic, value)]
        /\ value <=> Advertise(node, topic)
        /\ UNCHANGED pipe /\ called' = NoCall
  BY DEF Advertise, UnAdvertise
<1>3. /\ topics'[node] = SetAdvertisedByMe(topics[node], topic, value)
      /\ \A n \in Node : n # node => topics'[n] = topics[n]
  BY <1>1, <1>2
<1>4. \A t : /\ Subscribed(topics'[node], t) = Subscribed(topics[node], t)
             /\ GetCallback(topics'[node], t) = GetCallback(topics[node], t)
             /\ AdvertisedByMe(topics'[node], t) =
                  IF t = topic THEN value ELSE AdvertisedByMe(topics[node], t)
  BY <1>1, <1>3, AdvertiseView
<1>5. UNCHANGED Registered
  BY <1>3, <1>4 DEF Registered
<1>6. CASE value = TRUE
  <2>1. Offered' = [Offered EXCEPT ![node] = @ \cup {topic}]
    BY <1>3, <1>4, <1>6 DEF Offered
  <2>2. Bus!Advertise(node, topic)
    BY <1>2, <1>5, <2>1 DEF Bus!Advertise, Bus!NoCall, NoCall, Registered, Offered
  <2>3. QED
    BY <2>2 DEF Bus!Next
<1>7. CASE value = FALSE
  <2>1. Offered' = [Offered EXCEPT ![node] = @ \ {topic}]
    BY <1>3, <1>4, <1>7 DEF Offered
  <2>2. Bus!UnAdvertise(node, topic)
    BY <1>2, <1>5, <2>1 DEF Bus!UnAdvertise, Bus!NoCall, NoCall, Registered, Offered
  <2>3. QED
    BY <2>2 DEF Bus!Next
<1>8. QED
  BY <1>6, <1>7

\* Subscribe and UnSubscribe set the callback of their topic or take it away.
LEMMA BusSubscribe ==
  ASSUME IInv, NEW node \in Node, NEW topic \in Topic,
         (\E cb \in Callback : Subscribe(node, topic, cb)) \/ UnSubscribe(node, topic)
  PROVE  Bus!Next
<1>1. IsTable(topics[node]) /\ DOMAIN topics = Node
  BY DEF IInv, TypeOK
<1>2. ASSUME NEW value \in BOOLEAN, NEW cb \in Callback \cup {NULL},
             value = FALSE => cb = NULL,
             topics' = [topics EXCEPT ![node] =
                          SetCallback(SetSubscribed(@, topic, value), topic, cb)],
             UNCHANGED pipe, called' = NoCall
      PROVE  Bus!Next
  <2>1. /\ topics'[node] = SetCallback(SetSubscribed(topics[node], topic, value), topic, cb)
        /\ \A n \in Node : n # node => topics'[n] = topics[n]
    BY <1>1, <1>2
  <2>2. \A t : /\ Subscribed(topics'[node], t) =
                    IF t = topic THEN value ELSE Subscribed(topics[node], t)
               /\ GetCallback(topics'[node], t) =
                    IF t = topic THEN cb ELSE GetCallback(topics[node], t)
               /\ AdvertisedByMe(topics'[node], t) = AdvertisedByMe(topics[node], t)
    BY <1>1, <2>1, SubscriptionView
  <2>3. UNCHANGED Offered
    BY <2>1, <2>2 DEF Offered
  <2>4. Registered' = [Registered EXCEPT ![node][topic] = cb]
    <3>1. \A n \in Node : n # node => Registered'[n] = Registered[n]
      BY <2>1 DEF Registered
    <3>2. Registered'[node] = [t \in Topic |->
                                IF t = topic THEN cb ELSE Registered[node][t]]
      BY <1>2, <2>2 DEF Registered
    <3>3. Registered'[node] = [Registered[node] EXCEPT ![topic] = cb]
      BY <3>2 DEF Registered
    <3>4. /\ Registered = [n \in Node |-> Registered[n]]
          /\ Registered' = [n \in Node |-> Registered'[n]]
      BY DEF Registered
    <3>5. QED
      BY <3>1, <3>3, <3>4
  <2>5. Bus!Subscribe(node, topic, cb)
    BY <1>2, <2>3, <2>4 DEF Bus!Subscribe, Bus!NoCall, NoCall, Registered, Offered
  <2>6. QED
    BY <2>5 DEF Bus!Next
<1>3. ASSUME NEW cb \in Callback, Subscribe(node, topic, cb)
      PROVE  Bus!Next
  <2>1. /\ topics' = [topics EXCEPT ![node] =
                        SetCallback(SetSubscribed(@, topic, TRUE), topic, cb)]
        /\ UNCHANGED pipe /\ called' = NoCall
    BY <1>3 DEF Subscribe
  <2>2. QED
    BY <1>2, <2>1
<1>4. CASE UnSubscribe(node, topic)
  <2>1. /\ topics' = [topics EXCEPT ![node] =
                        SetCallback(SetSubscribed(@, topic, FALSE), topic, NULL)]
        /\ UNCHANGED pipe /\ called' = NoCall
    BY <1>4 DEF UnSubscribe
  <2>2. QED
    BY <1>2, <2>1
<1>5. QED
  BY <1>3, <1>4

\* RecvTopicUpdates delivers the oldest publication of a pipe.
LEMMA BusDeliver ==
  ASSUME IInv, NEW node \in Node, NEW from \in Node, RecvTopicUpdates(node, from)
  PROVE  Bus!Next
<1> DEFINE msg == Head(pipe[node][from])
<1>1. /\ UNCHANGED topics /\ pipe[node][from] # <<>>
      /\ pipe' = [pipe EXCEPT ![node][from] = Tail(@)]
      /\ called' = IF Subscribed(topics[node], msg.topic)
                         /\ GetCallback(topics[node], msg.topic) # NULL
                   THEN [node |-> node, from |-> from, topic |-> msg.topic,
                         data |-> msg.data, cb |-> GetCallback(topics[node], msg.topic)]
                   ELSE NoCall
  BY DEF RecvTopicUpdates
<1>2. msg.topic \in Topic
  <2>1. pipe[node][from] \in Seq(Message)
    BY DEF IInv, TypeOK
  <2>2. msg \in Message
    BY <1>1, <2>1
  <2>3. QED
    BY <2>2 DEF Message
<1>3. Registered[node][msg.topic] =
        IF Subscribed(topics[node], msg.topic)
        THEN GetCallback(topics[node], msg.topic) ELSE NULL
  BY <1>2 DEF Registered
<1>4. called' = IF Registered[node][msg.topic] # NULL
                THEN [node |-> node, from |-> from, topic |-> msg.topic,
                      data |-> msg.data, cb |-> Registered[node][msg.topic]]
                ELSE NoCall
  BY <1>1, <1>3
<1>5. UNCHANGED <<Registered, Offered>>
  BY <1>1 DEF Registered, Offered
<1>6. Bus!Deliver(node, from)
  BY <1>1, <1>4, <1>5 DEF Bus!Deliver, Bus!NoCall, NoCall, Registered, Offered
<1>7. QED
  BY <1>6 DEF Bus!Next

\* Where a second connect is ignored, no pipe is doubled.
LEMMA OnePipeStep == IInv /\ OnePipePerPublisher /\ [Next]_vars => OnePipePerPublisher'
<1> SUFFICES ASSUME IInv, OnePipePerPublisher, [Next]_vars, SingleConnect,
                    NEW n \in Node, NEW p \in Node
             PROVE  conns'[n][p] <= 1
  BY DEF OnePipePerPublisher
<1>1. conns \in [Node -> [Node -> Nat]] /\ conns[n][p] <= 1
  BY DEF IInv, TypeOK, OnePipePerPublisher
<1>2. ASSUME NEW node \in Node, Exit(node)
      PROVE  conns'[n][p] <= 1
  <2>1. conns' = [conns EXCEPT ![node] = [q \in Node |-> 0]]
    BY <1>2 DEF Exit
  <2>2. conns'[n] = IF n = node THEN [q \in Node |-> 0] ELSE conns[n]
    BY <1>1, <2>1
  <2>3. QED
    BY <1>1, <2>2
<1>3. ASSUME NEW node \in Node, NEW address, ZmqConnect(node, address)
      PROVE  conns'[n][p] <= 1
  <2>1. conns' = [conns EXCEPT ![node][address] = 1]
    BY <1>3 DEF ZmqConnect
  <2>2. QED
    BY <1>1, <2>1
<1>4. ASSUME NEW node \in Node, NEW datagram \in inbox[node],
             RecvDiscoveryUpdates(node, datagram)
      PROVE  UNCHANGED conns \/ \E address : ZmqConnect(node, address)
  BY <1>4 DEF RecvDiscoveryUpdates, DispatchAdv
<1>5. ASSUME UNCHANGED conns PROVE conns'[n][p] <= 1
  BY <1>1, <1>5
<1>6. /\ \A node : Start(node) => UNCHANGED conns
      /\ \A node, topic : Advertise(node, topic) => UNCHANGED conns
      /\ \A node, topic : UnAdvertise(node, topic) => UNCHANGED conns
      /\ \A node, topic, cb : Subscribe(node, topic, cb) => UNCHANGED conns
      /\ \A node, topic : UnSubscribe(node, topic) => UNCHANGED conns
      /\ \A node, topic, data : Publish(node, topic, data) => UNCHANGED conns
      /\ \A node, from : RecvTopicUpdates(node, from) => UNCHANGED conns
      /\ UNCHANGED vars => UNCHANGED conns
  BY DEF vars, Start, Advertise, UnAdvertise, Subscribe, UnSubscribe, Publish,
         RecvTopicUpdates
<1>7. QED
  BY <1>2, <1>3, <1>4, <1>5, <1>6, NextCases

\* One pipe to each publisher, its own included, carries one copy at most.
LEMMA BusPublish ==
  ASSUME IInv, OnePipePerPublisher, SingleConnect,
         NEW node \in Node, NEW topic \in Topic, NEW data \in Data,
         Publish(node, topic, data)
  PROVE  Bus!Next
<1> DEFINE msg == [topic |-> topic, data |-> CStr[data]]
<1>1. UNCHANGED topics /\ called' = NoCall /\ AdvertisedByMe(topics[node], topic)
  BY DEF Publish
<1>2. PICK copies \in [Node -> 0..(1 + Cardinality(Topic))] :
        /\ \A m \in Node : copies[m] \in MayGet(m, node, topic)
        /\ pipe' = [m \in Node |-> [pipe[m] EXCEPT ![node] = @ \o Copies(copies[m], msg)]]
  BY DEF Publish
<1>3. ASSUME NEW m \in Node
      PROVE  copies[m] = 0 \/ copies[m] = 1
  <2>1. copies[m] \in Nat /\ (copies[m] > 0 => copies[m] <= Pipes(m, node))
    BY <1>2 DEF MayGet
  <2>2. conns[m][node] \in Nat /\ conns[m][node] <= 1 /\ conns[node][node] = 0
    BY DEF IInv, TypeOK, OnePipePerPublisher, NoSelfLink
  <2>3. Pipes(m, node) <= 1
    BY <2>2 DEF Pipes
  <2>4. Pipes(m, node) \in Nat
    BY <2>2 DEF Pipes
  <2>5. QED
    BY <2>1, <2>3, <2>4
<1> DEFINE readers == {m \in Node : copies[m] = 1}
<1>4. ASSUME NEW m \in Node
      PROVE  [pipe[m] EXCEPT ![node] = @ \o Copies(copies[m], msg)] =
                IF m \in readers THEN [pipe[m] EXCEPT ![node] = Append(@, msg)]
                ELSE pipe[m]
  <2>1. pipe[m] \in [Node -> Seq(Message)] /\ pipe[m][node] \in Seq(Message)
    BY DEF IInv, TypeOK
  <2>2. msg \in Message
    BY CStrAssumption DEF Message
  <2> HIDE DEF msg
  <2>3. CASE copies[m] = 1
    <3>1. Copies(1, msg) = <<msg>>
      BY DEF Copies
    <3>2. pipe[m][node] \o <<msg>> = Append(pipe[m][node], msg)
      BY <2>1, <2>2
    <3>3. QED
      BY <2>3, <3>1, <3>2
  <2>4. CASE copies[m] = 0
    <3>1. Copies(0, msg) = <<>>
      BY DEF Copies
    <3>2. pipe[m][node] \o <<>> = pipe[m][node]
      BY <2>1
    <3>3. [pipe[m] EXCEPT ![node] = pipe[m][node]] = pipe[m]
      BY <2>1
    <3>4. Copies(copies[m], msg) = <<>> /\ m \notin readers
      BY <2>4, <3>1
    <3> HIDE DEF readers
    <3>5. QED
      BY <3>2, <3>3, <3>4
  <2>5. QED
    BY <1>3, <2>3, <2>4
<1>5. pipe' = [m \in Node |-> IF m \in readers
                 THEN [pipe[m] EXCEPT ![node] = Append(@, msg)] ELSE pipe[m]]
  BY <1>2, <1>4
<1>6. topic \in Offered[node] /\ UNCHANGED <<Registered, Offered>>
  BY <1>1 DEF Registered, Offered
<1>7. Bus!Publish(node, topic, CStr[data])
  <2>1. readers \in SUBSET Node
    OBVIOUS
  <2> HIDE DEF readers
  <2>2. QED
    BY <1>1, <1>5, <1>6, <2>1 DEF Bus!Publish, Bus!NoCall, NoCall, Registered, Offered
<1>8. QED
  BY <1>7 DEF Bus!Next

\* Where libzmq ignores a second connect to an endpoint, what an application
\* sees of discZmq.cc is the bus: publications of advertised topics only, at
\* most once and in the order of each publisher, whatever discovery loses,
\* repeats or delays and whatever connects throw.
THEOREM NodesImplementBus ==
  ASSUME SingleConnect
  PROVE  Spec => ImplementsBus
<1>1. Init => Bus!Init /\ OnePipePerPublisher
  <2> SUFFICES ASSUME Init PROVE Bus!Init /\ OnePipePerPublisher
    OBVIOUS
  <2>1. \A t : ~Subscribed(EmptyTable, t) /\ ~AdvertisedByMe(EmptyTable, t)
    BY EmptyTableFacts DEF Subscribed, AdvertisedByMe, NewTopicInfo
  <2>2. /\ topics = [n \in Node |-> EmptyTable]
        /\ pipe = [n \in Node |-> [p \in Node |-> <<>>]] /\ called = NoCall
        /\ conns = [n \in Node |-> [p \in Node |-> 0]]
    BY DEF Init, Fresh
  <2>3. /\ Registered = [n \in Node |-> [t \in Topic |-> NULL]]
        /\ Offered = [n \in Node |-> {}]
    BY <2>1, <2>2 DEF Registered, Offered
  <2>4. OnePipePerPublisher
    BY <2>2 DEF OnePipePerPublisher
  <2>5. QED
    BY <2>2, <2>3, <2>4, BusVariables
<1>2. IInv /\ OnePipePerPublisher /\ [Next]_vars => [Bus!Next]_(Bus!vars)
  <2> SUFFICES ASSUME IInv, OnePipePerPublisher, [Next]_vars
               PROVE  [Bus!Next]_(Bus!vars)
    OBVIOUS
  <2>1. CASE UNCHANGED vars
    <3>1. UNCHANGED <<topics, pipe, called>>
      BY <2>1 DEF vars
    <3>2. UNCHANGED <<Registered, Offered>>
      BY <3>1 DEF Registered, Offered
    <3>3. QED
      BY <3>1, <3>2, BusVariables
  <2>2. CASE ~UNCHANGED vars
    BY <2>2, NextCases, BusDiscovery, BusLeave, BusAdvertise, BusSubscribe,
       BusPublish, BusDeliver
  <2>3. QED
    BY <2>1, <2>2
<1>3. QED
  BY <1>1, <1>2, OnePipeStep, InductiveInvariant, PTL
     DEF Spec, ImplementsBus, Bus!Spec
=============================================================================
