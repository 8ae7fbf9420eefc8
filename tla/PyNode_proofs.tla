---------------------------- MODULE PyNode_proofs ----------------------------
(***************************************************************************)
(* The invariant IInv of PyNode is inductive, for every set of nodes and   *)
(* topics, with both threads of every process and whatever the network     *)
(* loses or repeats.                                                       *)
(***************************************************************************)
EXTENDS PyNode, TLAPS, FiniteSetTheorems

-----------------------------------------------------------------------------
(* Datagrams: what UdpBroadcast does to the buffers of the nodes           *)

\* A broadcast adds at most its own datagram to a buffer.
LEMMA SentFacts ==
  ASSUME NEW Nodes, NEW Datagrams, NEW box \in [Nodes -> SUBSET Datagrams],
         NEW datagram \in Datagrams, NEW running,
         NEW after \in Sent(datagram, running, box)
  PROVE  /\ after \in [Nodes -> SUBSET Datagrams]
         /\ \A n \in Nodes : after[n] \subseteq box[n] \cup {datagram}
<1>1. PICK heard : after = [n \in Nodes |->
                     IF n \in heard THEN box[n] \cup {datagram} ELSE box[n]]
  BY DEF Sent
<1>2. QED
  BY <1>1

\* A receive takes at most its own datagram out of one buffer.
LEMMA ReceivedFacts ==
  ASSUME NEW Nodes, NEW Datagrams, NEW box \in [Nodes -> SUBSET Datagrams],
         NEW datagram, NEW node \in Nodes,
         NEW after \in Received(datagram, node, box)
  PROVE  /\ after \in [Nodes -> SUBSET Datagrams]
         /\ \A n \in Nodes : after[n] \subseteq box[n]
<1>1. after = [box EXCEPT ![node] = @ \ {datagram}] \/ after = box
  BY DEF Received
<1>2. QED
  BY <1>1

-----------------------------------------------------------------------------
(* Sequences and sets                                                      *)

\* What append adds to a list.
LEMMA AppendFacts ==
  ASSUME NEW S, NEW q \in Seq(S), NEW e \in S
  PROVE  /\ Append(q, e) \in Seq(S) /\ Len(Append(q, e)) = Len(q) + 1
         /\ DOMAIN Append(q, e) = DOMAIN q \cup {Len(q) + 1}
         /\ Len(q) + 1 \notin DOMAIN q
         /\ \A i \in DOMAIN q : Append(q, e)[i] = q[i]
         /\ Append(q, e)[Len(q) + 1] = e
         /\ ToSet(Append(q, e)) = ToSet(q) \cup {e}
<1>1. /\ Append(q, e) \in Seq(S) /\ Len(Append(q, e)) = Len(q) + 1
      /\ DOMAIN Append(q, e) = DOMAIN q \cup {Len(q) + 1}
      /\ Len(q) + 1 \notin DOMAIN q
      /\ \A i \in DOMAIN q : Append(q, e)[i] = q[i]
      /\ Append(q, e)[Len(q) + 1] = e
  OBVIOUS
<1>2. ToSet(Append(q, e)) = ToSet(q) \cup {e}
  BY <1>1 DEF ToSet
<1>3. QED
  BY <1>1, <1>2

\* The entries of a list are of its type.
LEMMA EntriesType ==
  ASSUME NEW S, NEW q \in Seq(S), NEW e \in ToSet(q)
  PROVE  e \in S
<1>1. PICK i \in DOMAIN q : e = q[i]
  BY DEF ToSet
<1>2. QED
  BY <1>1

\* Copies of one message at the end of a pipe.
LEMMA CopiesType ==
  ASSUME NEW S, NEW q \in Seq(S), NEW e \in S, NEW k \in Nat
  PROVE  q \o [i \in 1..k |-> e] \in Seq(S)
  OBVIOUS

-----------------------------------------------------------------------------
(* Broadcasts                                                              *)

\* The datagrams of a node carry its own GUID.
LEMMA OwnDatagrams ==
  ASSUME NEW n \in Node, NEW t \in Topic
  PROVE  Adv(n, t) \in Datagram /\ Sub(n, t) \in Datagram
  BY DEF Adv, Sub, Datagram

\* A broadcast leaves buffers of datagrams behind.
LEMMA Broadcasts ==
  ASSUME NEW box \in [Node -> SUBSET Datagram], NEW datagram \in Datagram,
         inbox' \in Sent(datagram, Listening, box)
  PROVE  inbox' \in [Node -> SUBSET Datagram]
  BY SentFacts

-----------------------------------------------------------------------------
(* _connect_subscriber                                                     *)

\* The lists and pipes of the connections, as the invariant has them.
LinksType ==
  /\ connections \in [Node -> Seq(Connection)]
  /\ links \in [Node -> [Node -> Nat]]

\* inproc within the process, tcp to others.
Suits(node, guid, address) == (address = "inproc") <=> (guid = node)

\* What _connect_subscriber does: nothing when the transport is the wrong one or
\* the connection is there; else the connection enters the list, and mostly the
\* socket, too.
Kept(node, topic, guid, address) ==
  /\ UNCHANGED <<connections, links>>
  /\ Suits(node, guid, address) => Connected(node, topic, guid)

Grown(node, topic, guid, address) ==
  /\ Suits(node, guid, address)
  /\ ~Connected(node, topic, guid)
  /\ connections' = [connections EXCEPT ![node] =
        Append(@, [topic |-> topic, guid |-> guid, address |-> address])]
  /\ \/ \E k \in {1, links[node][guid] + 1} :
           links' = [links EXCEPT ![node][guid] = k]
     \/ links' = links

ConnectOutcome(node, topic, guid, address) ==
  Kept(node, topic, guid, address) \/ Grown(node, topic, guid, address)

\* connect_subscriber leaves list and pipes alone, or adds an entry.
LEMMA ConnectOutcomes ==
  ASSUME NEW node, NEW topic, NEW guid, NEW address,
         ConnectSubscriber(node, topic, guid, address)
  PROVE  ConnectOutcome(node, topic, guid, address)
<1>1. CASE Wants(node, topic, guid, address)
  <2>1. PICK k : /\ k \in {1, links[node][guid] + 1}
                 /\ \/ links' = [links EXCEPT ![node][guid] = k]
                    \/ links' = links
    BY <1>1 DEF ConnectSubscriber
  <2>2. QED
    BY <1>1, <2>1 DEF ConnectSubscriber, Wants, ConnectOutcome, Grown, Suits
<1>2. CASE ~Wants(node, topic, guid, address)
  BY <1>2 DEF ConnectSubscriber, Wants, ConnectOutcome, Kept, Suits
<1>3. QED
  BY <1>1, <1>2

\* The list stays a list of connections, none of which is taken out.
LEMMA ConnectKeeps ==
  ASSUME LinksType, NEW node \in Node, NEW topic \in Topic, NEW guid \in Node,
         NEW address \in {"tcp", "inproc"},
         ConnectOutcome(node, topic, guid, address)
  PROVE  /\ LinksType'
         /\ \A n \in Node : ToSet(connections[n]) \subseteq ToSet(connections'[n])
         /\ Suits(node, guid, address) =>
               \E c \in ToSet(connections'[node]) : c.topic = topic /\ c.guid = guid
<1> DEFINE new == [topic |-> topic, guid |-> guid, address |-> address]
<1>1. CASE Kept(node, topic, guid, address)
  BY <1>1 DEF Kept, LinksType, Connected
<1>2. CASE Grown(node, topic, guid, address)
  <2> USE DEF Grown
  <2>1. connections[node] \in Seq(Connection) /\ new \in Connection
    BY DEF LinksType, Connection
  <2>2. /\ Append(connections[node], new) \in Seq(Connection)
        /\ ToSet(Append(connections[node], new)) = ToSet(connections[node]) \cup {new}
    BY <2>1, AppendFacts
  <2>3. connections' \in [Node -> Seq(Connection)]
    BY <1>2, <2>2 DEF LinksType
  <2>4. links' \in [Node -> [Node -> Nat]]
    <3>1. links[node][guid] \in Nat
      BY DEF LinksType
    <3>2. ASSUME NEW k \in Nat, links' = [links EXCEPT ![node][guid] = k]
          PROVE  links' \in [Node -> [Node -> Nat]]
      BY <3>2 DEF LinksType
    <3>3. links' = links \/ \E k \in Nat : links' = [links EXCEPT ![node][guid] = k]
      BY <1>2, <3>1
    <3>4. QED
      BY <3>2, <3>3 DEF LinksType
  <2>5. connections'[node] = Append(connections[node], new)
    BY <1>2 DEF LinksType
  <2>6. \A n \in Node : ToSet(connections[n]) \subseteq ToSet(connections'[n])
    BY <1>2, <2>2, <2>5 DEF LinksType
  <2>7. new \in ToSet(connections'[node]) /\ new.topic = topic /\ new.guid = guid
    BY <2>2, <2>5
  <2>8. QED
    BY <2>3, <2>4, <2>6, <2>7 DEF LinksType
<1>3. QED
  BY <1>1, <1>2 DEF ConnectOutcome

\* OnePerTopicAndPublisher at one subscriber and one publisher.
OneFor(n, p) ==
  /\ \A i, j \in ConnectionsTo(n, p) :
        connections[n][i].topic = connections[n][j].topic => i = j
  /\ \A i \in ConnectionsTo(n, p) :
        connections[n][i].address = IF n = p THEN "inproc" ELSE "tcp"
  /\ links[n][p] <= Cardinality(ConnectionsTo(n, p))

\* Where neither list nor pipes change, the property stays.
LEMMA OneStays ==
  ASSUME OnePerTopicAndPublisher, UNCHANGED <<connections, links>>
  PROVE  OnePerTopicAndPublisher'
<1> SUFFICES ASSUME NEW n \in Node, NEW p \in Node, OneFor(n, p)
             PROVE  OneFor(n, p)'
  BY DEF OnePerTopicAndPublisher, OneFor
<1>1. ConnectionsTo(n, p)' = ConnectionsTo(n, p)
  BY DEF ConnectionsTo
<1>2. QED
  BY <1>1 DEF OneFor

\* The connections to one publisher can be counted.
LEMMA ConnectionsToFinite ==
  ASSUME LinksType, NEW n \in Node, NEW p
  PROVE  /\ IsFiniteSet(ConnectionsTo(n, p))
         /\ Cardinality(ConnectionsTo(n, p)) \in Nat
<1>1. connections[n] \in Seq(Connection)
  BY DEF LinksType
<1>2. DOMAIN connections[n] = 1..Len(connections[n]) /\ Len(connections[n]) \in Nat
  BY <1>1
<1>3. IsFiniteSet(DOMAIN connections[n])
  BY <1>2, FS_Interval
<1>4. ConnectionsTo(n, p) \subseteq DOMAIN connections[n]
  BY DEF ConnectionsTo
<1>5. QED
  BY <1>3, <1>4, FS_Subset, FS_CardinalityType

\* A connection that is made is the first for its topic and publisher, over the
\* right transport, and the pipes to the publisher grow by one at most.
LEMMA GrownOne ==
  ASSUME LinksType, OnePerTopicAndPublisher, NEW node \in Node, NEW topic,
         NEW guid \in Node, NEW address \in {"tcp", "inproc"},
         topic \in Topic, Grown(node, topic, guid, address)
  PROVE  OnePerTopicAndPublisher'
<1> DEFINE new  == [topic |-> topic, guid |-> guid, address |-> address]
           list == connections[node]
           last == Len(list) + 1
<1>1. SUFFICES ASSUME NEW n \in Node, NEW p \in Node, OneFor(n, p)
               PROVE  OneFor(n, p)'
  BY DEF OnePerTopicAndPublisher, OneFor
<1>2. /\ connections' = [connections EXCEPT ![node] = Append(list, new)]
      /\ \/ \E k \in {1, links[node][guid] + 1} : links' = [links EXCEPT ![node][guid] = k]
         \/ links' = links
  BY DEF Grown
<1>3. list \in Seq(Connection) /\ new \in Connection
  BY DEF LinksType, Connection
<1>4. CASE n # node
  <2>1. connections'[n] = connections[n] /\ links'[n] = links[n]
    BY <1>2, <1>4 DEF LinksType
  <2>2. ConnectionsTo(n, p)' = ConnectionsTo(n, p)
    BY <2>1 DEF ConnectionsTo
  <2>3. QED
    BY <1>1, <2>1, <2>2 DEF OneFor
<1>5. CASE n = node
  <2>1. connections'[n] = Append(list, new)
    BY <1>2, <1>5 DEF LinksType
  <2>2. /\ DOMAIN connections'[n] = DOMAIN list \cup {last} /\ last \notin DOMAIN list
        /\ \A i \in DOMAIN list : connections'[n][i] = list[i]
        /\ connections'[n][last] = new
    BY <1>3, <2>1, AppendFacts
  <2>3. CASE p # guid
    <3>1. ConnectionsTo(n, p)' = ConnectionsTo(n, p)
      BY <1>5, <2>2, <2>3 DEF ConnectionsTo
    <3>2. links'[n][p] = links[n][p]
      <4>1. links' = links \/ \E k : links' = [links EXCEPT ![node][guid] = k]
        BY <1>2
      <4>2. ASSUME NEW k, links' = [links EXCEPT ![node][guid] = k]
            PROVE  links'[n][p] = links[n][p]
        BY <2>3, <4>2 DEF LinksType
      <4>3. QED
        BY <4>1, <4>2
    <3>3. \A i \in ConnectionsTo(n, p) : connections'[n][i] = connections[n][i]
      BY <1>5, <2>2 DEF ConnectionsTo
    <3>4. QED
      BY <1>1, <3>1, <3>2, <3>3 DEF OneFor
  <2>4. CASE p = guid
    <3>1. ConnectionsTo(n, p)' = ConnectionsTo(n, p) \cup {last}
      BY <1>5, <2>2, <2>4 DEF ConnectionsTo
    <3>2. last \notin ConnectionsTo(n, p)
      BY <1>5, <2>2 DEF ConnectionsTo
    <3>3. \A i \in ConnectionsTo(n, p) :
            connections'[n][i] = connections[n][i] /\ connections[n][i].topic # topic
      <4>1. \A i \in ConnectionsTo(n, p) : connections[n][i] \in ToSet(connections[n])
        BY DEF ConnectionsTo, ToSet
      <4>2. QED
        BY <1>5, <2>2, <2>4, <4>1 DEF ConnectionsTo, Connected, Grown
    <3>4. new.address = IF n = p THEN "inproc" ELSE "tcp"
      BY <1>5, <2>4 DEF Grown, Suits
    <3>5. links'[n][p] <= Cardinality(ConnectionsTo(n, p)')
      <4>1. /\ IsFiniteSet(ConnectionsTo(n, p)) /\ Cardinality(ConnectionsTo(n, p)) \in Nat
        BY ConnectionsToFinite
      <4>2. Cardinality(ConnectionsTo(n, p) \cup {last}) = Cardinality(ConnectionsTo(n, p)) + 1
        BY <3>2, <4>1, FS_AddElement
      <4>3. links[n][p] \in Nat /\ links[n][p] <= Cardinality(ConnectionsTo(n, p))
        BY <1>1 DEF OneFor, LinksType
      <4>4. links'[n][p] \in {links[n][p], 1, links[n][p] + 1}
        BY <1>2, <1>5, <2>4 DEF LinksType
      <4>5. QED
        BY <3>1, <4>1, <4>2, <4>3, <4>4
    <3>6. QED
      BY <1>1, <2>2, <3>1, <3>2, <3>3, <3>4, <3>5 DEF OneFor
  <2>5. QED
    BY <2>3, <2>4
<1>6. QED
  BY <1>4, <1>5

-----------------------------------------------------------------------------
(* The steps                                                               *)

\* One call of _connect_subscriber by a node, or none.
Connects(node) ==
  \/ UNCHANGED <<connections, links>>
  \/ \E topic \in Topic, guid \in Node, address \in {"tcp", "inproc"} :
        ConnectOutcome(node, topic, guid, address)

\* Whoever calls it, the list and the pipes stay as the invariant has them.
LEMMA ConnectsKeeps ==
  ASSUME LinksType, OnePerTopicAndPublisher, NEW node \in Node, Connects(node)
  PROVE  /\ LinksType' /\ OnePerTopicAndPublisher'
         /\ \A n \in Node : ToSet(connections[n]) \subseteq ToSet(connections'[n])
<1>1. ASSUME UNCHANGED <<connections, links>>
      PROVE  /\ LinksType' /\ OnePerTopicAndPublisher'
             /\ \A n \in Node : ToSet(connections[n]) \subseteq ToSet(connections'[n])
  BY <1>1, OneStays DEF LinksType
<1>2. ASSUME NEW topic \in Topic, NEW guid \in Node, NEW address \in {"tcp", "inproc"},
             ConnectOutcome(node, topic, guid, address)
      PROVE  /\ LinksType' /\ OnePerTopicAndPublisher'
             /\ \A n \in Node : ToSet(connections[n]) \subseteq ToSet(connections'[n])
  <2>1. CASE Kept(node, topic, guid, address)
    BY <1>1, <2>1 DEF Kept
  <2>2. CASE Grown(node, topic, guid, address)
    BY <1>2, <2>2, ConnectKeeps, GrownOne
  <2>3. QED
    BY <1>2, <2>1, <2>2 DEF ConnectOutcome
<1>3. QED
  BY <1>1, <1>2 DEF Connects

\* What is not about the lists and pipes of connections.
OtherTypes ==
  /\ library \in [Node -> {"Python", "C"}]
  /\ main \in [Node -> {"unborn", "up", "raised", "gone"}]
  /\ unsaid \in [Node -> Seq(Topic)]
  /\ repeater \in [Node -> {"none", "asleep", "walking", "dead"}]
  /\ walk \in [Node -> 0 .. MaxList + 1]
  /\ publishers \in [Node -> Seq(Topic)]
  /\ subscribers \in [Node -> Seq([topic : Topic, cb : Callback])]
  /\ inbox \in [Node -> SUBSET Datagram]
  /\ pipe \in [Node -> [Node -> Seq(Message)]]
  /\ called \subseteq Callback

\* The part of IInv that is about one's own topics survives whatever only adds
\* connections and ends threads.
LEMMA OwnTopicsStay ==
  ASSUME OwnTopicsAreConnectedOrUnsaid, UNCHANGED <<publishers, subscribers>>,
         \A n \in Node : ToSet(connections[n]) \subseteq ToSet(connections'[n]),
         \A n \in Node : main'[n] = "up" => main[n] = "up" /\ unsaid'[n] = unsaid[n]
  PROVE  OwnTopicsAreConnectedOrUnsaid'
<1> SUFFICES ASSUME NEW n \in Node, NEW t \in Topic,
                    main'[n] = "up", t \in ToSet(publishers[n]),
                    \E s \in ToSet(subscribers[n]) : s.topic = t
             PROVE  \/ \E c \in ToSet(connections'[n]) : c.topic = t /\ c.guid = n
                    \/ t \in ToSet(unsaid'[n])
  BY DEF OwnTopicsAreConnectedOrUnsaid, Lists, Subscribed, Connected
<1>1. QED
  BY DEF OwnTopicsAreConnectedOrUnsaid, Lists, Subscribed, Connected

\* A process starts with empty lists.
LEMMA StartStep ==
  ASSUME IInv, NEW node \in Node, Start(node)
  PROVE  IInv'
<1>1. /\ main[node] = "unborn" /\ main' = [main EXCEPT ![node] = "up"]
      /\ repeater' = [repeater EXCEPT ![node] =
                        IF library[node] = "C" THEN "none" ELSE "asleep"]
      /\ called' = {}
      /\ UNCHANGED <<library, unsaid, walk, lists, inbox, pipe>>
  BY DEF Start
<1>2. TypeOK'
  BY <1>1 DEF IInv, TypeOK, lists
<1>3. publishers[node] = <<>>
  BY <1>1 DEF IInv, ThreadsKeepToTheList
<1>4. ThreadsKeepToTheList'
  BY <1>1 DEF IInv, TypeOK, ThreadsKeepToTheList, lists
<1>5. OnePerTopicAndPublisher'
  BY <1>1, OneStays DEF IInv, lists
<1>6. OwnTopicsAreConnectedOrUnsaid'
  <2>1. \A t : ~Lists(node, t)
    BY <1>3 DEF Lists, ToSet
  <2>2. QED
    BY <1>1, <2>1
       DEF IInv, TypeOK, OwnTopicsAreConnectedOrUnsaid, Lists, Subscribed, Connected, lists
<1>7. QED
  BY <1>2, <1>4, <1>5, <1>6 DEF IInv

\* A process that is gone has no lists.
LEMMA ExitStep ==
  ASSUME IInv, NEW node \in Node, Exit(node)
  PROVE  IInv'
<1>1. /\ main' = [main EXCEPT ![node] = "gone"]
      /\ unsaid' = [unsaid EXCEPT ![node] = <<>>]
      /\ repeater' = [repeater EXCEPT ![node] = "none"]
      /\ walk' = [walk EXCEPT ![node] = 0]
      /\ publishers' = [publishers EXCEPT ![node] = <<>>]
      /\ subscribers' = [subscribers EXCEPT ![node] = <<>>]
      /\ connections' = [connections EXCEPT ![node] = <<>>]
      /\ links' = [links EXCEPT ![node] = [p \in Node |-> 0]]
      /\ inbox' = [inbox EXCEPT ![node] = {}]
      /\ pipe' = [pipe EXCEPT ![node] = [p \in Node |-> <<>>]]
      /\ called' = {} /\ library' = library
  BY DEF Exit, Cleared
<1>2. TypeOK'
  <2>1. /\ pipe' \in [Node -> [Node -> Seq(Message)]]
        /\ links' \in [Node -> [Node -> Nat]]
        /\ connections' \in [Node -> Seq(Connection)]
    BY <1>1 DEF IInv, TypeOK
  <2>2. /\ publishers' \in [Node -> Seq(Topic)] /\ unsaid' \in [Node -> Seq(Topic)]
        /\ subscribers' \in [Node -> Seq([topic : Topic, cb : Callback])]
    <3>1. \A S : \A f \in [Node -> Seq(S)] : [f EXCEPT ![node] = <<>>] \in [Node -> Seq(S)]
      OBVIOUS
    <3>2. /\ publishers \in [Node -> Seq(Topic)] /\ unsaid \in [Node -> Seq(Topic)]
          /\ subscribers \in [Node -> Seq([topic : Topic, cb : Callback])]
      BY DEF IInv, TypeOK
    <3>3. /\ publishers' = [publishers EXCEPT ![node] = <<>>]
          /\ unsaid' = [unsaid EXCEPT ![node] = <<>>]
          /\ subscribers' = [subscribers EXCEPT ![node] = <<>>]
      BY <1>1
    <3>4. QED
      BY <3>1, <3>2, <3>3
  <2>3. walk' \in [Node -> 0 .. MaxList + 1]
    <3>1. 0 \in 0 .. MaxList + 1
      BY BoundsAssumption
    <3>2. walk \in [Node -> 0 .. MaxList + 1]
      BY DEF IInv, TypeOK
    <3>3. QED
      BY <1>1, <3>1, <3>2
  <2>4. QED
    BY <1>1, <2>1, <2>2, <2>3 DEF IInv, TypeOK
<1>3. ThreadsKeepToTheList'
  BY <1>1, BoundsAssumption DEF IInv, TypeOK, ThreadsKeepToTheList
<1>4. OnePerTopicAndPublisher'
  <2> SUFFICES ASSUME NEW n \in Node, NEW p \in Node
               PROVE  OneFor(n, p)'
    BY DEF OnePerTopicAndPublisher, OneFor
  <2>1. CASE n = node
    <3>1. connections'[n] = <<>> /\ links'[n][p] = 0
      BY <1>1, <2>1 DEF IInv, TypeOK
    <3>2. ConnectionsTo(n, p)' = {}
      BY <3>1 DEF ConnectionsTo
    <3>3. QED
      BY <3>1, <3>2, FS_EmptySet DEF OneFor
  <2>2. CASE n # node
    <3>1. connections'[n] = connections[n] /\ links'[n] = links[n]
      BY <1>1, <2>2 DEF IInv, TypeOK
    <3>2. OneFor(n, p)
      BY DEF IInv, OnePerTopicAndPublisher, OneFor
    <3>3. QED
      BY <3>1, <3>2 DEF OneFor, ConnectionsTo
  <2>3. QED
    BY <2>1, <2>2
<1>5. OwnTopicsAreConnectedOrUnsaid'
  BY <1>1
     DEF IInv, TypeOK, OwnTopicsAreConnectedOrUnsaid, Lists, Subscribed, Connected
<1>6. QED
  BY <1>2, <1>3, <1>4, <1>5 DEF IInv

\* An exception ends the main thread; the repeater and the lists stay.
LEMMA RaisedKeeps ==
  ASSUME IInv, NEW node \in Node, main[node] = "up", Raised(node)
  PROVE  /\ main' \in [Node -> {"unborn", "up", "raised", "gone"}]
         /\ unsaid' \in [Node -> Seq(Topic)]
         /\ \A n \in Node : main'[n] = "unborn" => main[n] = "unborn"
         /\ \A n \in Node : unsaid'[n] = unsaid[n] \/ unsaid'[n] = <<>>
         /\ \A n \in Node : main'[n] = "up" => main[n] = "up" /\ unsaid'[n] = unsaid[n]
<1>1. /\ main' = [main EXCEPT ![node] = "raised"]
      /\ unsaid' = [unsaid EXCEPT ![node] = <<>>]
      /\ main \in [Node -> {"unborn", "up", "raised", "gone"}]
      /\ unsaid \in [Node -> Seq(Topic)]
  BY DEF Raised, IInv, TypeOK
<1>2. unsaid' \in [Node -> Seq(Topic)]
  BY <1>1
<1>3. QED
  BY <1>1, <1>2

\* A step that leaves the lists alone keeps IInv if it keeps the types, the
\* repeater within its list and the life of the threads in order.
LEMMA ListsStay ==
  ASSUME IInv, UNCHANGED lists, OtherTypes',
         \A n \in Node : main'[n] = "unborn" => main[n] = "unborn",
         \A n \in Node : unsaid'[n] = unsaid[n] \/ unsaid'[n] = <<>>,
         \A n \in Node : main'[n] = "up" => main[n] = "up" /\ unsaid'[n] = unsaid[n],
         \A n \in Node : repeater'[n] = "walking" => walk'[n] >= 1
  PROVE  IInv'
<1>1. UNCHANGED <<publishers, subscribers>> /\ UNCHANGED <<connections, links>>
  BY DEF lists
<1>2. TypeOK'
  BY <1>1 DEF IInv, TypeOK, OtherTypes
<1>3. ThreadsKeepToTheList'
  BY <1>1 DEF IInv, ThreadsKeepToTheList
<1>4. OnePerTopicAndPublisher'
  BY <1>1, OneStays DEF IInv
<1>5. OwnTopicsAreConnectedOrUnsaid'
  BY <1>1, OwnTopicsStay DEF IInv
<1>6. QED
  BY <1>2, <1>3, <1>4, <1>5 DEF IInv

\* The interrupt that reaches a process while its repeater walks.
LEMMA InterruptStep ==
  ASSUME IInv, NEW node \in Node, Interrupt(node)
  PROVE  IInv'
<1>1. /\ main[node] = "up" /\ Raised(node) /\ called' = {}
      /\ UNCHANGED <<library, rep, lists, inbox, pipe>>
  BY DEF Interrupt
<1>2. OtherTypes'
  BY <1>1, RaisedKeeps DEF IInv, TypeOK, OtherTypes, rep, lists
<1>3. \A n \in Node : repeater'[n] = "walking" => walk'[n] >= 1
  BY <1>1 DEF IInv, ThreadsKeepToTheList, rep
<1>4. QED
  BY <1>1, <1>2, <1>3, RaisedKeeps, ListsStay

\* publish fills pipes.
LEMMA PublishStep ==
  ASSUME IInv, NEW node \in Node, NEW topic \in Topic, NEW data \in Data,
         Publish(node, topic, data)
  PROVE  IInv'
<1> DEFINE msg == [topic |-> topic, data |-> data, parts |-> Parts(node)]
<1>1. UNCHANGED <<library, main, unsaid, rep, lists, inbox>> /\ called' = {}
  BY DEF Publish
<1>2. PICK copies \in [Node -> 0..HWM] :
        pipe' = [m \in Node |-> [pipe[m] EXCEPT ![node] =
                   @ \o [i \in 1..copies[m] |-> msg]]]
  BY DEF Publish
<1>3. msg \in Message
  BY DEF Message, Parts
<1>4. ASSUME NEW m \in Node
      PROVE  [pipe[m] EXCEPT ![node] = @ \o [i \in 1..copies[m] |-> msg]]
                \in [Node -> Seq(Message)]
  <2>1. copies[m] \in Nat /\ pipe[m] \in [Node -> Seq(Message)]
    <3>1. copies[m] \in 0..HWM
      OBVIOUS
    <3>2. QED
      BY <3>1, BoundsAssumption DEF IInv, TypeOK
  <2>2. pipe[m][node] \in Seq(Message)
    BY <2>1
  <2> HIDE DEF msg
  <2>3. pipe[m][node] \o [i \in 1..copies[m] |-> msg] \in Seq(Message)
    BY <1>3, <2>1, <2>2, CopiesType
  <2>4. QED
    BY <2>1, <2>3
<1>5. pipe' \in [Node -> [Node -> Seq(Message)]]
  BY <1>2, <1>4
<1>6. OtherTypes'
  BY <1>1, <1>5 DEF IInv, TypeOK, OtherTypes, rep, lists
<1>7. \A n \in Node : repeater'[n] = "walking" => walk'[n] >= 1
  BY <1>1 DEF IInv, ThreadsKeepToTheList, rep
<1>8. QED
  BY <1>1, <1>6, <1>7, ListsStay

\* A message runs the callbacks, or the exception that ends the thread.
LEMMA RecvMessageStep ==
  ASSUME IInv, NEW node \in Node, NEW from \in Node, RecvMessage(node, from)
  PROVE  IInv'
<1>1. /\ main[node] = "up" /\ UNCHANGED <<library, rep, lists, inbox>>
      /\ pipe' = [pipe EXCEPT ![node][from] = Tail(@)] /\ pipe[node][from] # <<>>
  BY DEF RecvMessage, Free
<1>2. pipe' \in [Node -> [Node -> Seq(Message)]]
  <2>1. pipe \in [Node -> [Node -> Seq(Message)]]
    BY DEF IInv, TypeOK
  <2>2. Tail(pipe[node][from]) \in Seq(Message)
    BY <1>1, <2>1
  <2>3. QED
    BY <1>1, <2>1, <2>2
<1>3. \A n \in Node : repeater'[n] = "walking" => walk'[n] >= 1
  BY <1>1 DEF IInv, ThreadsKeepToTheList, rep
<1>4. CASE Head(pipe[node][from]).parts = 3
  <2>1. /\ called' = {s.cb : s \in {r \in ToSet(subscribers[node]) :
                                      r.topic = Head(pipe[node][from]).topic}}
        /\ UNCHANGED <<main, unsaid>>
    BY <1>4 DEF RecvMessage
  <2>2. \A r \in ToSet(subscribers[node]) : r.cb \in Callback
    <3>1. subscribers[node] \in Seq([topic : Topic, cb : Callback])
      BY DEF IInv, TypeOK
    <3>2. \A r \in ToSet(subscribers[node]) : r \in [topic : Topic, cb : Callback]
      BY <3>1, EntriesType
    <3>3. QED
      BY <3>2
  <2>3. called' \subseteq Callback
    BY <2>1, <2>2
  <2>4. OtherTypes'
    BY <1>1, <1>2, <2>1, <2>3 DEF IInv, TypeOK, OtherTypes, rep, lists
  <2>5. QED
    BY <1>1, <1>3, <2>1, <2>4, ListsStay
<1>5. CASE Head(pipe[node][from]).parts # 3
  <2>1. called' = {} /\ Raised(node)
    BY <1>5 DEF RecvMessage
  <2>2. OtherTypes'
    BY <1>1, <1>2, <2>1, RaisedKeeps DEF IInv, TypeOK, OtherTypes, rep, lists
  <2>3. QED
    BY <1>1, <1>3, <2>1, <2>2, RaisedKeeps, ListsStay
<1>6. QED
  BY <1>4, <1>5

\* The repeater takes the publishers one by one, whatever is added meanwhile.
LEMMA RepeaterStep ==
  ASSUME IInv, NEW node \in Node, Repeater(node)
  PROVE  IInv'
<1>1. UNCHANGED <<library, main, unsaid, lists, pipe>> /\ called' = {}
  BY DEF Repeater, Wake, Repeat, Rearm
<1>2. /\ walk \in [Node -> 0 .. MaxList + 1]
      /\ repeater \in [Node -> {"none", "asleep", "walking", "dead"}]
      /\ inbox \in [Node -> SUBSET Datagram]
  BY DEF IInv, TypeOK
<1>3. SUFFICES /\ walk' \in [Node -> 0 .. MaxList + 1]
               /\ repeater' \in [Node -> {"none", "asleep", "walking", "dead"}]
               /\ inbox' \in [Node -> SUBSET Datagram]
               /\ \A n \in Node : repeater'[n] = "walking" => walk'[n] >= 1
  <2>1. ASSUME /\ walk' \in [Node -> 0 .. MaxList + 1]
               /\ repeater' \in [Node -> {"none", "asleep", "walking", "dead"}]
               /\ inbox' \in [Node -> SUBSET Datagram]
        PROVE  OtherTypes'
    BY <1>1, <2>1 DEF IInv, TypeOK, OtherTypes, lists
  <2>2. QED
    BY <1>1, <2>1, ListsStay
<1>4. \A n \in Node : repeater[n] = "walking" => walk[n] >= 1
  BY DEF IInv, ThreadsKeepToTheList
<1>5. 0 \in 0 .. MaxList + 1 /\ 1 \in 0 .. MaxList + 1
  BY BoundsAssumption
<1>6. CASE Wake(node)
  BY <1>2, <1>4, <1>5, <1>6 DEF Wake
<1>7. CASE Repeat(node)
  <2>1. /\ repeater[node] = "walking" /\ walk[node] <= Len(publishers[node])
        /\ publishers[node] \in Seq(Topic) /\ Len(publishers[node]) <= MaxList
    BY <1>7 DEF Repeat, IInv, TypeOK, ThreadsKeepToTheList
  <2>2. walk[node] >= 1 /\ walk[node] \in Nat /\ walk[node] + 1 \in 0 .. MaxList + 1
    BY <1>2, <1>4, <2>1, BoundsAssumption
  <2>3. CASE /\ inbox' \in Sent(Adv(node, publishers[node][walk[node]]), Listening, inbox)
             /\ walk' = [walk EXCEPT ![node] = @ + 1]
             /\ UNCHANGED repeater
    <3>1. publishers[node][walk[node]] \in Topic
      BY <2>1, <2>2
    <3>2. inbox' \in [Node -> SUBSET Datagram]
      BY <1>2, <2>3, <3>1, OwnDatagrams, Broadcasts
    <3>3. walk' \in [Node -> 0 .. MaxList + 1]
      BY <1>2, <2>2, <2>3
    <3>4. \A n \in Node : repeater'[n] = "walking" => walk'[n] >= 1
      BY <1>2, <1>4, <2>2, <2>3
    <3>5. QED
      BY <1>2, <2>3, <3>2, <3>3, <3>4
  <2>4. CASE /\ repeater' = [repeater EXCEPT ![node] = "dead"]
             /\ walk' = [walk EXCEPT ![node] = 0]
             /\ UNCHANGED inbox
    BY <1>2, <1>4, <1>5, <2>4
  <2>5. QED
    BY <1>7, <2>3, <2>4 DEF Repeat
<1>8. CASE Rearm(node)
  BY <1>2, <1>4, <1>5, <1>8 DEF Rearm, Rearmed
<1>9. QED
  BY <1>6, <1>7, <1>8 DEF Repeater

\* advertise: the topic is in the list before it is announced.
LEMMA AdvertiseStep ==
  ASSUME IInv, NEW node \in Node, NEW topic \in Topic, Advertise(node, topic)
  PROVE  IInv'
<1>1. /\ main[node] = "up" /\ unsaid[node] = <<>>
      /\ Len(publishers[node]) < MaxList
      /\ publishers' = [publishers EXCEPT ![node] = Append(@, topic)]
      /\ unsaid' = [unsaid EXCEPT ![node] = <<topic>>]
      /\ called' = {}
      /\ UNCHANGED <<library, main, rep, subscribers, connections, links, inbox, pipe>>
  BY DEF Advertise, Free
<1>2. /\ publishers \in [Node -> Seq(Topic)] /\ unsaid \in [Node -> Seq(Topic)]
      /\ main \in [Node -> {"unborn", "up", "raised", "gone"}]
  BY DEF IInv, TypeOK
<1>3. /\ Append(publishers[node], topic) \in Seq(Topic)
      /\ Len(Append(publishers[node], topic)) = Len(publishers[node]) + 1
      /\ ToSet(Append(publishers[node], topic)) = ToSet(publishers[node]) \cup {topic}
      /\ Len(publishers[node]) \in Nat
  BY <1>2, AppendFacts
<1>4. publishers' \in [Node -> Seq(Topic)] /\ unsaid' \in [Node -> Seq(Topic)]
  BY <1>1, <1>2, <1>3
<1>5. TypeOK'
  BY <1>1, <1>4 DEF IInv, TypeOK, rep
<1>6. ThreadsKeepToTheList'
  <2> SUFFICES ASSUME NEW n \in Node
               PROVE  /\ unsaid'[n] = <<>> \/ \E t \in Topic : unsaid'[n] = <<t>>
                      /\ main'[n] = "unborn" => publishers'[n] = <<>>
                      /\ Len(publishers'[n]) <= MaxList
                      /\ repeater'[n] = "walking" => walk'[n] >= 1
    BY DEF ThreadsKeepToTheList
  <2>1. CASE n = node
    <3>1. unsaid'[n] = <<topic>> /\ publishers'[n] = Append(publishers[n], topic)
      BY <1>1, <1>2, <2>1
    <3>2. QED
      BY <1>1, <1>3, <2>1, <3>1, BoundsAssumption DEF IInv, ThreadsKeepToTheList, rep
  <2>2. CASE n # node
    BY <1>1, <1>2, <2>2 DEF IInv, ThreadsKeepToTheList, rep
  <2>3. QED
    BY <2>1, <2>2
<1>7. OnePerTopicAndPublisher'
  BY <1>1, OneStays DEF IInv
<1>8. OwnTopicsAreConnectedOrUnsaid'
  <2> SUFFICES ASSUME NEW n \in Node, NEW t \in Topic,
                      main[n] = "up", t \in ToSet(publishers'[n]),
                      \E s \in ToSet(subscribers[n]) : s.topic = t
               PROVE  \/ \E c \in ToSet(connections[n]) : c.topic = t /\ c.guid = n
                      \/ t \in ToSet(unsaid'[n])
    BY <1>1 DEF OwnTopicsAreConnectedOrUnsaid, Lists, Subscribed, Connected
  <2>1. CASE n = node /\ t = topic
    <3>1. unsaid'[n] = <<t>>
      BY <1>1, <1>2, <2>1
    <3>2. QED
      BY <3>1 DEF ToSet
  <2>2. CASE ~(n = node /\ t = topic)
    <3>1. t \in ToSet(publishers[n])
      BY <1>1, <1>2, <1>3, <2>2
    <3>2. \/ \E c \in ToSet(connections[n]) : c.topic = t /\ c.guid = n
          \/ t \in ToSet(unsaid[n])
      BY <3>1 DEF IInv, OwnTopicsAreConnectedOrUnsaid, Lists, Subscribed, Connected
    <3>3. n = node => ToSet(unsaid[n]) = {}
      BY <1>1 DEF ToSet
    <3>4. n # node => unsaid'[n] = unsaid[n]
      BY <1>1, <1>2
    <3>5. QED
      BY <3>2, <3>3, <3>4
  <2>3. QED
    BY <2>1, <2>2
<1>9. QED
  BY <1>5, <1>6, <1>7, <1>8 DEF IInv

\* The transport of a node to itself suits.
LEMMA InprocOutcome ==
  ASSUME NEW node \in Node, NEW topic \in Topic, Inproc(node, topic)
  PROVE  ConnectOutcome(node, topic, node, "inproc") /\ Suits(node, node, "inproc")
  BY ConnectOutcomes DEF Inproc, Suits

\* _advertise: the broadcast, and the connection to oneself.
LEMMA AnnounceStep ==
  ASSUME IInv, NEW node \in Node, Announce(node)
  PROVE  IInv'
<1> DEFINE topic == Head(unsaid[node])
<1>1. /\ main[node] = "up" /\ unsaid[node] # <<>> /\ called' = {}
      /\ UNCHANGED <<library, rep, publishers, subscribers, pipe>>
  BY DEF Announce
<1>2. PICK t \in Topic : unsaid[node] = <<t>>
  BY <1>1 DEF IInv, ThreadsKeepToTheList
<1>3. topic = t /\ topic \in Topic /\ ToSet(unsaid[node]) = {topic}
  BY <1>2 DEF ToSet
<1> HIDE DEF topic
<1>4. LinksType /\ inbox \in [Node -> SUBSET Datagram] /\ unsaid \in [Node -> Seq(Topic)]
  BY DEF IInv, TypeOK, LinksType
<1>5. CASE /\ inbox' \in Sent(Adv(node, topic), Listening, inbox)
           /\ IF Subscribed(node, topic) THEN Inproc(node, topic)
              ELSE UNCHANGED <<connections, links>>
           /\ unsaid' = [unsaid EXCEPT ![node] = <<>>]
           /\ UNCHANGED main
  <2>1. Connects(node)
    BY <1>3, <1>5, InprocOutcome DEF Connects
  <2>2. /\ LinksType' /\ OnePerTopicAndPublisher'
        /\ \A n \in Node : ToSet(connections[n]) \subseteq ToSet(connections'[n])
    BY <1>4, <2>1, ConnectsKeeps DEF IInv
  <2>3. inbox' \in [Node -> SUBSET Datagram] /\ unsaid' \in [Node -> Seq(Topic)]
    BY <1>3, <1>4, <1>5, OwnDatagrams, Broadcasts
  <2>4. TypeOK'
    BY <1>1, <1>5, <2>2, <2>3 DEF IInv, TypeOK, LinksType, rep
  <2>5. ThreadsKeepToTheList'
    BY <1>1, <1>4, <1>5 DEF IInv, ThreadsKeepToTheList, rep
  <2>6. Subscribed(node, topic) =>
           \E c \in ToSet(connections'[node]) : c.topic = topic /\ c.guid = node
    BY <1>3, <1>4, <1>5, InprocOutcome, ConnectKeeps
  <2>7. OwnTopicsAreConnectedOrUnsaid'
    <3> SUFFICES ASSUME NEW n \in Node, NEW u \in Topic,
                        main[n] = "up", Lists(n, u), Subscribed(n, u)
                 PROVE  \/ \E c \in ToSet(connections'[n]) : c.topic = u /\ c.guid = n
                        \/ u \in ToSet(unsaid'[n])
      BY <1>1, <1>5 DEF OwnTopicsAreConnectedOrUnsaid, Lists, Subscribed, Connected
    <3>1. \/ \E c \in ToSet(connections'[n]) : c.topic = u /\ c.guid = n
          \/ u \in ToSet(unsaid[n])
      BY <2>2 DEF IInv, OwnTopicsAreConnectedOrUnsaid, Connected
    <3>2. n # node => unsaid'[n] = unsaid[n]
      BY <1>4, <1>5
    <3>3. QED
      BY <1>3, <2>6, <3>1, <3>2
  <2>8. QED
    BY <2>2, <2>4, <2>5, <2>7 DEF IInv
<1>6. CASE Raised(node) /\ UNCHANGED <<connections, links, inbox>>
  <2>1. OtherTypes'
    BY <1>1, <1>6, RaisedKeeps DEF IInv, TypeOK, OtherTypes, rep
  <2>2. \A n \in Node : repeater'[n] = "walking" => walk'[n] >= 1
    BY <1>1 DEF IInv, ThreadsKeepToTheList, rep
  <2>3. UNCHANGED lists
    BY <1>1, <1>6 DEF lists
  <2>4. QED
    BY <1>1, <1>6, <2>1, <2>2, <2>3, RaisedKeeps, ListsStay
<1>7. QED
  BY <1>5, <1>6 DEF Announce, topic

\* subscribe: the broadcast, and the connection to oneself; what the sendto may
\* raise comes before the connection, and ends the main thread.
LEMMA SubscribeStep ==
  ASSUME IInv, NEW node \in Node, NEW topic \in Topic, NEW cb \in Callback,
         Subscribe(node, topic, cb)
  PROVE  IInv'
<1> DEFINE new == [topic |-> topic, cb |-> cb]
<1>1. /\ main[node] = "up" /\ unsaid[node] = <<>> /\ called' = {}
      /\ subscribers' = [subscribers EXCEPT ![node] = Append(@, new)]
      /\ UNCHANGED <<library, rep, publishers, pipe>>
  BY DEF Subscribe, Free
<1>2. /\ LinksType /\ inbox \in [Node -> SUBSET Datagram]
      /\ main \in [Node -> {"unborn", "up", "raised", "gone"}]
      /\ subscribers \in [Node -> Seq([topic : Topic, cb : Callback])]
  BY DEF IInv, TypeOK, LinksType
<1>3. /\ Append(subscribers[node], new) \in Seq([topic : Topic, cb : Callback])
      /\ ToSet(Append(subscribers[node], new)) = ToSet(subscribers[node]) \cup {new}
  <2> DEFINE Entry == [topic : Topic, cb : Callback]
  <2>1. subscribers[node] \in Seq(Entry) /\ new \in Entry
    BY <1>2
  <2> HIDE DEF new, Entry
  <2>2. /\ Append(subscribers[node], new) \in Seq(Entry)
        /\ ToSet(Append(subscribers[node], new)) = ToSet(subscribers[node]) \cup {new}
    BY <2>1, AppendFacts
  <2>3. QED
    BY <2>2 DEF Entry
<1>4. /\ subscribers' \in [Node -> Seq([topic : Topic, cb : Callback])]
      /\ subscribers'[node] = Append(subscribers[node], new)
      /\ \A n \in Node \ {node} : subscribers'[n] = subscribers[n]
  <2> HIDE DEF new
  <2>1. QED
    BY <1>1, <1>2, <1>3
<1>5. CASE /\ inbox' \in Sent(Sub(node, topic), Listening, inbox)
           /\ IF Lists(node, topic) THEN Inproc(node, topic)
              ELSE UNCHANGED <<connections, links>>
           /\ UNCHANGED <<main, unsaid>>
  <2>1. Connects(node)
    BY <1>5, InprocOutcome DEF Connects
  <2>2. /\ LinksType' /\ OnePerTopicAndPublisher'
        /\ \A n \in Node : ToSet(connections[n]) \subseteq ToSet(connections'[n])
    BY <1>2, <2>1, ConnectsKeeps DEF IInv
  <2>3. inbox' \in [Node -> SUBSET Datagram]
    BY <1>2, <1>5, OwnDatagrams, Broadcasts
  <2>4. TypeOK'
    BY <1>1, <1>4, <1>5, <2>2, <2>3 DEF IInv, TypeOK, LinksType, rep
  <2>5. ThreadsKeepToTheList'
    BY <1>1, <1>5 DEF IInv, ThreadsKeepToTheList, rep
  <2>6. Lists(node, topic) =>
           \E c \in ToSet(connections'[node]) : c.topic = topic /\ c.guid = node
    BY <1>2, <1>5, InprocOutcome, ConnectKeeps
  <2>7. OwnTopicsAreConnectedOrUnsaid'
    <3> SUFFICES ASSUME NEW n \in Node, NEW u \in Topic,
                        main[n] = "up", Lists(n, u),
                        NEW s \in ToSet(subscribers'[n]), s.topic = u
                 PROVE  \/ \E c \in ToSet(connections'[n]) : c.topic = u /\ c.guid = n
                        \/ u \in ToSet(unsaid[n])
      BY <1>1, <1>5 DEF OwnTopicsAreConnectedOrUnsaid, Lists, Subscribed, Connected
    <3>1. CASE s \in ToSet(subscribers[n])
      BY <2>2, <3>1 DEF IInv, OwnTopicsAreConnectedOrUnsaid, Subscribed, Connected
    <3>2. CASE s \notin ToSet(subscribers[n])
      <4>1. n = node /\ s \in ToSet(Append(subscribers[node], new))
        BY <1>4, <3>2
      <4>2. s = new
        BY <1>3, <3>2, <4>1
      <4>3. QED
        BY <2>6, <4>1, <4>2
    <3>3. QED
      BY <3>1, <3>2
  <2>8. QED
    BY <2>2, <2>4, <2>5, <2>7 DEF IInv
<1>6. CASE Raised(node) /\ UNCHANGED <<connections, links, inbox>>
  <2>1. /\ main' \in [Node -> {"unborn", "up", "raised", "gone"}]
        /\ unsaid' \in [Node -> Seq(Topic)]
        /\ \A n \in Node : main'[n] = "unborn" => main[n] = "unborn"
        /\ \A n \in Node : unsaid'[n] = unsaid[n] \/ unsaid'[n] = <<>>
        /\ \A n \in Node : main'[n] = "up" => main[n] = "up" /\ unsaid'[n] = unsaid[n]
    BY <1>1, <1>6, RaisedKeeps
  <2>2. TypeOK'
    BY <1>1, <1>4, <1>6, <2>1 DEF IInv, TypeOK, rep
  <2>3. ThreadsKeepToTheList'
    BY <1>1, <2>1 DEF IInv, ThreadsKeepToTheList, rep
  <2>4. OnePerTopicAndPublisher'
    BY <1>6, OneStays DEF IInv
  <2>5. main'[node] = "raised"
    BY <1>2, <1>6 DEF Raised
  <2>6. OwnTopicsAreConnectedOrUnsaid'
    <3> SUFFICES ASSUME NEW n \in Node, NEW u \in Topic, main'[n] = "up",
                        Lists(n, u), \E s \in ToSet(subscribers'[n]) : s.topic = u
                 PROVE  Connected(n, u, n) \/ u \in ToSet(unsaid'[n])
      BY <1>1, <1>6 DEF OwnTopicsAreConnectedOrUnsaid, Lists, Subscribed, Connected
    <3>1. n # node /\ subscribers'[n] = subscribers[n]
      BY <1>4, <2>5
    <3>2. Subscribed(n, u)
      BY <3>1 DEF Subscribed
    <3>3. QED
      BY <2>1, <3>2 DEF IInv, OwnTopicsAreConnectedOrUnsaid
  <2>7. QED
    BY <2>2, <2>3, <2>4, <2>6 DEF IInv
<1>7. QED
  BY <1>5, <1>6 DEF Subscribe

\* _handle_adv_sub: a connection to the sender of an ADV, an answer to a SUB.
LEMMA HandleAdvSubStep ==
  ASSUME IInv, NEW node \in Node, NEW datagram \in inbox[node],
         HandleAdvSub(node, datagram)
  PROVE  IInv'
<1>1. called' = {} /\ UNCHANGED <<library, main, unsaid, rep, publishers, subscribers, pipe>>
  BY DEF HandleAdvSub
<1>2. LinksType /\ inbox \in [Node -> SUBSET Datagram]
  BY DEF IInv, TypeOK, LinksType
<1>3. datagram.topic \in Topic /\ datagram.guid \in Node
  BY <1>2 DEF Datagram
<1>4. PICK box \in Received(datagram, node, inbox) :
        IF datagram.type = "ADV"
        THEN /\ inbox' = box
             /\ IF Subscribed(node, datagram.topic)
                THEN ConnectSubscriber(node, datagram.topic, datagram.guid, "tcp")
                ELSE UNCHANGED <<connections, links>>
        ELSE /\ IF Lists(node, datagram.topic)
                THEN inbox' \in Sent(Adv(node, datagram.topic), Listening, box)
                ELSE inbox' = box
             /\ UNCHANGED <<connections, links>>
  BY DEF HandleAdvSub
<1>5. box \in [Node -> SUBSET Datagram]
  BY <1>2, ReceivedFacts
<1>6. inbox' \in [Node -> SUBSET Datagram]
  <2>1. \A t \in Topic : inbox' \in Sent(Adv(node, t), Listening, box)
                            => inbox' \in [Node -> SUBSET Datagram]
    BY <1>5, OwnDatagrams, Broadcasts
  <2>2. QED
    BY <1>3, <1>4, <1>5, <2>1
<1>7. Connects(node)
  <2>1. ConnectSubscriber(node, datagram.topic, datagram.guid, "tcp") => Connects(node)
    BY <1>3, ConnectOutcomes DEF Connects
  <2>2. QED
    BY <1>4, <2>1 DEF Connects
<1>8. /\ LinksType' /\ OnePerTopicAndPublisher'
      /\ \A n \in Node : ToSet(connections[n]) \subseteq ToSet(connections'[n])
  BY <1>2, <1>7, ConnectsKeeps DEF IInv
<1>9. TypeOK'
  BY <1>1, <1>6, <1>8 DEF IInv, TypeOK, LinksType, rep
<1>10. ThreadsKeepToTheList'
  BY <1>1 DEF IInv, ThreadsKeepToTheList, rep
<1>11. OwnTopicsAreConnectedOrUnsaid'
  BY <1>1, <1>8, OwnTopicsStay DEF IInv
<1>12. QED
  BY <1>8, <1>9, <1>10, <1>11 DEF IInv

-----------------------------------------------------------------------------
(* The theorems                                                            *)

\* Whatever library its nodes run, a system begins in a state of the invariant.
THEOREM InitIInv == Init => IInv
<1> SUFFICES ASSUME Init PROVE IInv
  OBVIOUS
<1>1. TypeOK
  <2>1. /\ links \in [Node -> [Node -> Nat]]
        /\ pipe \in [Node -> [Node -> Seq(Message)]]
        /\ connections \in [Node -> Seq(Connection)]
    BY DEF Init
  <2>2. /\ publishers \in [Node -> Seq(Topic)] /\ unsaid \in [Node -> Seq(Topic)]
        /\ subscribers \in [Node -> Seq([topic : Topic, cb : Callback])]
    BY DEF Init
  <2>3. walk \in [Node -> 0 .. MaxList + 1]
    <3>1. 0 \in 0 .. MaxList + 1
      BY BoundsAssumption
    <3>2. QED
      BY <3>1 DEF Init
  <2>4. QED
    BY <2>1, <2>2, <2>3 DEF Init, TypeOK
<1>2. ThreadsKeepToTheList
  BY BoundsAssumption DEF Init, ThreadsKeepToTheList
<1>3. OnePerTopicAndPublisher
  <2> SUFFICES ASSUME NEW n \in Node, NEW p \in Node PROVE OneFor(n, p)
    BY DEF OnePerTopicAndPublisher, OneFor
  <2>1. connections[n] = <<>> /\ links[n][p] = 0
    BY DEF Init
  <2>2. ConnectionsTo(n, p) = {}
    BY <2>1 DEF ConnectionsTo
  <2>3. QED
    BY <2>1, <2>2, FS_EmptySet DEF OneFor
<1>4. OwnTopicsAreConnectedOrUnsaid
  BY DEF Init, OwnTopicsAreConnectedOrUnsaid
<1>5. QED
  BY <1>1, <1>2, <1>3, <1>4 DEF IInv

\* Neither thread of a process, nor its peers, nor the network break it.
THEOREM NextIInv == IInv /\ [Next]_vars => IInv'
<1> SUFFICES ASSUME IInv, [Next]_vars PROVE IInv'
  OBVIOUS
<1>1. CASE UNCHANGED vars
  <2>1. OtherTypes' /\ UNCHANGED lists
    BY <1>1 DEF vars, rep, lists, IInv, TypeOK, OtherTypes
  <2>2. QED
    BY <1>1, <2>1, ListsStay DEF vars, rep, IInv, ThreadsKeepToTheList
<1>2. ASSUME NEW node \in Node, Application(node)
      PROVE  IInv'
  BY <1>2, AdvertiseStep, PublishStep, SubscribeStep DEF Application
<1>3. ASSUME NEW node \in Node, SpinOnce(node)
      PROVE  IInv'
  BY <1>3, HandleAdvSubStep, RecvMessageStep DEF SpinOnce
<1>4. QED
  BY <1>1, <1>2, <1>3, StartStep, ExitStep, InterruptStep, AnnounceStep, RepeaterStep
     DEF Next

\* The invariant holds in every reachable state.
THEOREM InductiveInvariant == Spec => []IInv
  BY InitIInv, NextIInv, PTL DEF Spec

\* Types; the repeater never reads beyond the end of a list that grows under it.
THEOREM TypeCorrect == Spec => []TypeOK
<1>1. IInv => TypeOK
  BY DEF IInv
<1>2. QED
  BY <1>1, InductiveInvariant, PTL

\* sub_connections has one entry for a topic and a publisher, of the right
\* transport, and the socket no more pipes than the list has entries.
THEOREM OneConnection == Spec => []OnePerTopicAndPublisher
<1>1. IInv => OnePerTopicAndPublisher
  BY DEF IInv
<1>2. QED
  BY <1>1, InductiveInvariant, PTL

\* advertise and subscribe in either order connect a node to itself, without
\* the network.
THEOREM HearsItself == Spec => []OwnTopicsAreConnected
<1>1. IInv => OwnTopicsAreConnected
  <2> SUFFICES ASSUME OwnTopicsAreConnectedOrUnsaid, NEW n \in Node, NEW t \in Topic,
                      Free(n), Lists(n, t), Subscribed(n, t)
               PROVE  Connected(n, t, n)
    BY DEF IInv, OwnTopicsAreConnected
  <2>1. ToSet(unsaid[n]) = {} /\ main[n] = "up"
    BY DEF Free, ToSet
  <2>2. QED
    BY <2>1 DEF OwnTopicsAreConnectedOrUnsaid
<1>2. QED
  BY <1>1, InductiveInvariant, PTL
=============================================================================
