----------------------------- MODULE CNode_proofs -----------------------------
(***************************************************************************)
(* The invariant IInv of CNode is inductive, for every set of nodes and    *)
(* topics, every set of faults and foreign datagrams; its four parts are   *)
(* shown one after the other.  Then every step of CNode is one of TopicBus. *)
(***************************************************************************)
EXTENDS CNode, TLAPS

-----------------------------------------------------------------------------
(* Datagrams: what UdpBroadcast does to the buffers of the nodes           *)

\* A broadcast adds at most its own datagram to a buffer.
LEMMA SentFacts ==
  ASSUME NEW Nodes, NEW Datagrams, NEW box \in [Nodes -> SUBSET Datagrams],
         NEW datagram \in Datagrams, NEW running,
         NEW after \in Sent(datagram, running, box)
  PROVE  /\ after \in [Nodes -> SUBSET Datagrams]
         /\ \A n \in Nodes : after[n] \subseteq box[n] \cup {datagram}
<1>1. PICK heard : after = [n \in Nodes |->
                     IF n \in heard THEN box[n] \cup {datagram} ELSE box[n]]
  BY DEF Sent
<1>2. QED
  BY <1>1

\* A receive takes at most its own datagram out of one buffer.
LEMMA ReceivedFacts ==
  ASSUME NEW Nodes, NEW Datagrams, NEW box \in [Nodes -> SUBSET Datagrams],
         NEW datagram, NEW node \in Nodes,
         NEW after \in Received(datagram, node, box)
  PROVE  /\ after \in [Nodes -> SUBSET Datagrams]
         /\ \A n \in Nodes : after[n] \subseteq box[n]
<1>1. after = [box EXCEPT ![node] = @ \ {datagram}] \/ after = box
  BY DEF Received
<1>2. QED
  BY <1>1

-----------------------------------------------------------------------------
(* Datagrams                                                               *)

\* What a C node broadcasts is a datagram, an advertisement with its own address.
LEMMA OwnDatagrams ==
  ASSUME NEW n \in Node, NEW t \in Topic
  PROVE  /\ Adv(n, t) \in Datagram /\ Sub(n, t) \in Datagram
         /\ Adv(n, t).type = "ADV" /\ Sub(n, t).type = "SUB"
         /\ Adv(n, t).guid = n /\ Adv(n, t).address = n
  BY DEF Adv, Sub, Datagram, AdvDatagram, SubDatagram

\* What handle_bcast_msg may rely on once it has looked at the type.
LEMMA DatagramKinds ==
  ASSUME NEW d \in Datagram
  PROVE  /\ d.type = "SUB" => d.topic \in Topic /\ d.guid \in Node
         /\ (d.type = "ADV" /\ d.address # Other) => d \in AdvDatagram
         /\ d.type = "truncated" => d \in Foreign
<1>1. CASE d \in AdvDatagram
  BY <1>1, ConstantsAssumption DEF AdvDatagram
<1>2. CASE d \in SubDatagram
  BY <1>2 DEF SubDatagram
<1>3. CASE d \in Foreign
  BY <1>3, ForeignAssumption DEF CppSub, CppAdv, NotTcp
<1>4. QED
  BY <1>1, <1>2, <1>3 DEF Datagram

\* No foreign datagram looks like one of a C node.
LEMMA OwnIsNotForeign ==
  ASSUME NEW n \in Node, NEW t \in Topic
  PROVE  Adv(n, t) \notin Foreign /\ Sub(n, t) \notin Foreign
<1>1. Adv(n, t) # NotTcp
  <2>1. Adv(n, t).address = n /\ NotTcp.address = Other
    BY DEF Adv, NotTcp
  <2>2. QED
    BY <2>1, ConstantsAssumption
<1>2. /\ Adv(n, t).type = "ADV" /\ Sub(n, t).type = "SUB"
      /\ CppSub.type = "truncated" /\ CppAdv.type = "unknown" /\ NotTcp.type = "ADV"
  BY DEF Adv, Sub, CppSub, CppAdv, NotTcp
<1>3. QED
  BY <1>1, <1>2, ForeignAssumption

-----------------------------------------------------------------------------
(* What the actions write                                                  *)

\* A broadcast: the buffers gain its datagram or nothing.
LEMMA Broadcasts ==
  ASSUME TypeOK, NEW datagram \in Datagram, inbox' \in Sent(datagram, Running, inbox)
  PROVE  /\ inbox' \in [Node -> SUBSET Datagram]
         /\ \A n \in Node : inbox'[n] \subseteq inbox[n] \cup {datagram}
<1>1. inbox \in [Node -> SUBSET Datagram]
  BY DEF TypeOK
<1>2. QED
  BY <1>1, SentFacts

\* The buffers after a datagram has been handled: the datagram may go, and one
\* answer for a topic of the node's own list may come.
HandledInbox(node, datagram) ==
  /\ inbox' \in [Node -> SUBSET Datagram]
  /\ \A n \in Node : \A d \in inbox'[n] :
        \/ d \in inbox[n]
        \/ \E t \in published[node] : d = Adv(node, t)

\* A SUB, as the stack happens to be read, yields one answer at most.
LEMMA HandleSubInbox ==
  ASSUME TypeOK, NEW node \in Node, NEW datagram \in inbox[node],
         NEW box \in Received(datagram, node, inbox), HandleSub(node, datagram, box)
  PROVE  HandledInbox(node, datagram)
<1>1. inbox \in [Node -> SUBSET Datagram] /\ published[node] \subseteq Topic
  BY DEF TypeOK
<1>2. box \in [Node -> SUBSET Datagram] /\ \A n \in Node : box[n] \subseteq inbox[n]
  BY <1>1, ReceivedFacts
<1>3. CASE inbox' = box
  BY <1>2, <1>3 DEF HandledInbox
<1>4. ASSUME NEW topic, Answers(node, topic),
             inbox' \in Sent(Adv(node, topic), Running, box)
      PROVE  HandledInbox(node, datagram)
  <2>1. topic \in published[node] /\ Adv(node, topic) \in Datagram
    BY <1>1, <1>4, OwnDatagrams DEF Answers
  <2>2. /\ inbox' \in [Node -> SUBSET Datagram]
        /\ \A n \in Node : inbox'[n] \subseteq box[n] \cup {Adv(node, topic)}
    BY <1>2, <1>4, <2>1, SentFacts
  <2>3. QED
    BY <1>2, <2>1, <2>2 DEF HandledInbox
<1>5. QED
  BY <1>3, <1>4 DEF HandleSub

\* A datagram that is handled: the connections of the node may grow by the
\* address in it, the thread goes back to the timer or out of dzmq_spin.
LEMMA HandleBcastMsgWrites ==
  ASSUME TypeOK, NEW node \in Node, NEW datagram \in inbox[node],
         HandleBcastMsg(node, datagram)
  PROVE  /\ HandledInbox(node, datagram)
         /\ Up(node) /\ pc[node] = "poll"
         /\ \/ Served(node, "timer") /\ UNCHANGED trouble
            \/ Served(node, "stopped") /\ trouble' = TRUE
         /\ \/ UNCHANGED <<connections, conns>>
            \/ /\ datagram.type = "ADV" /\ datagram.address # Other
               /\ WantsConnection(node, datagram)
               /\ connections' = [connections EXCEPT ![node] = @ \cup {datagram.address}]
               /\ conns' = [conns EXCEPT ![node][datagram.address] = @ + 1]
         /\ called' = NoCall /\ UNCHANGED <<leftover, pipe>>
<1>1. PICK box \in Received(datagram, node, inbox) :
        \/ datagram.type = "ADV" /\ HandleAdv(node, datagram) /\ inbox' = box
        \/ /\ datagram.type = "SUB"
           /\ HandleSub(node, datagram, box)
           /\ UNCHANGED <<connections, conns>>
        \/ /\ datagram.type = "unknown"
           /\ Served(node, "timer") /\ inbox' = box
           /\ UNCHANGED <<connections, conns, trouble>>
  BY DEF HandleBcastMsg
<1>2. box \in [Node -> SUBSET Datagram] /\ \A n \in Node : box[n] \subseteq inbox[n]
  BY ReceivedFacts DEF TypeOK
<1>3. inbox' = box => HandledInbox(node, datagram)
  BY <1>2 DEF HandledInbox
<1>4. /\ Up(node) /\ pc[node] = "poll"
      /\ called' = NoCall /\ UNCHANGED <<leftover, pipe>>
  BY DEF HandleBcastMsg
<1>5. CASE datagram.type = "ADV" /\ HandleAdv(node, datagram) /\ inbox' = box
  BY <1>3, <1>4, <1>5 DEF HandleAdv
<1>6. CASE /\ datagram.type = "SUB" /\ HandleSub(node, datagram, box)
           /\ UNCHANGED <<connections, conns>>
  BY <1>4, <1>6, HandleSubInbox DEF HandleSub
<1>7. CASE /\ Served(node, "timer") /\ inbox' = box
           /\ UNCHANGED <<connections, conns, trouble>>
  BY <1>3, <1>4, <1>7
<1>8. QED
  BY <1>1, <1>5, <1>6, <1>7

-----------------------------------------------------------------------------
(* The steps there are                                                     *)

\* A process ends by itself or by an assertion.
Ends(node) ==
  \E how \in {"ended", "aborted"} :
    /\ Up(node) /\ End(node, how)
    /\ how = "aborted" =>
          leftover[node] \/ \E d \in inbox[node] : d.type = "truncated"

\* The calls of the application.
Calls(node) ==
  \/ \E topic \in Topic : Advertise(node, topic)
  \/ \E topic \in Topic, data \in Data : Publish(node, topic, data)
  \/ \E topic \in Topic, cb \in Callback :
        <<node, topic>> \in Subscribers /\ Subscribe(node, topic, cb)
  \/ \E set \in BOOLEAN : DzmqTimer(node, set)
  \/ SpinAgain(node)

Spins(node) ==
  \/ TimerCheck(node) \/ PollEnds(node)
  \/ \E datagram \in inbox[node] : HandleBcastMsg(node, datagram)
  \/ \E from \in Node : RecvMessage(node, from)

\* Next by who acts: a process that starts or ends, the clock, the application,
\* the spin loop, a foreign node.
LEMMA NextCases ==
  Next => \/ \E node \in Node :
               \/ DzmqInit(node) \/ Ends(node) \/ Tick(node)
               \/ Calls(node) \/ Spins(node)
          \/ \E datagram \in Foreign : SendForeign(datagram)
<1> SUFFICES ASSUME Next, ~\E datagram \in Foreign : SendForeign(datagram)
             PROVE  \E node \in Node :
                       \/ DzmqInit(node) \/ Ends(node) \/ Tick(node)
                       \/ Calls(node) \/ Spins(node)
  OBVIOUS
<1>1. PICK node \in Node :
        DzmqInit(node) \/ Exit(node) \/ Tick(node) \/ Application(node) \/ SpinOnce(node)
  BY DEF Next
<1>2. Application(node) => Calls(node)
  BY DEF Application, Calls
<1>3. Exit(node) => Ends(node)
  BY DEF Exit, Ends
<1>4. ASSUME NEW d \in inbox[node], AbortOnDatagram(node, d)
      PROVE  Ends(node)
  BY <1>4 DEF AbortOnDatagram, Ends
<1>5. AbortOnMessage(node) => Ends(node)
  BY DEF AbortOnMessage, Ends
<1>6. SpinOnce(node) => Spins(node) \/ Ends(node)
  BY <1>4, <1>5 DEF SpinOnce, Spins
<1>7. QED
  BY <1>1, <1>2, <1>3, <1>6

-----------------------------------------------------------------------------
(* Types                                                                   *)

\* The calls of the application keep the types,
LEMMA CallsType ==
  ASSUME TypeOK, NEW node \in Node, Calls(node)
  PROVE  TypeOK'
<1>1. ASSUME NEW topic \in Topic, Advertise(node, topic)
      PROVE  TypeOK'
  <2>1. inbox' \in [Node -> SUBSET Datagram]
    BY <1>1, OwnDatagrams, Broadcasts DEF Advertise
  <2>2. QED
    BY <1>1, <2>1 DEF TypeOK, Advertise, timer_vars
<1>2. ASSUME NEW topic \in Topic, NEW data \in Data, Publish(node, topic, data)
      PROVE  TypeOK'
  <2>1. PICK heard : pipe' = [m \in Node |-> IF m \in heard
                   THEN [pipe[m] EXCEPT ![node] =
                           Append(@, [topic |-> topic, data |-> data])]
                   ELSE pipe[m]]
    BY <1>2 DEF Publish
  <2>2. [topic |-> topic, data |-> data] \in Message
    BY DEF Message
  <2>3. pipe' \in [Node -> [Node -> Seq(Message)]]
    <3>1. ASSUME NEW m \in Node
          PROVE  [pipe[m] EXCEPT ![node] = Append(@, [topic |-> topic, data |-> data])]
                    \in [Node -> Seq(Message)]
      BY <2>2 DEF TypeOK
    <3>2. QED
      BY <2>1, <3>1 DEF TypeOK
  <2>4. QED
    BY <1>2, <2>3 DEF TypeOK, Publish, node_vars, timer_vars
<1>3. ASSUME NEW topic \in Topic, NEW cb \in Callback, Subscribe(node, topic, cb)
      PROVE  TypeOK'
  <2>1. inbox' \in [Node -> SUBSET Datagram]
    BY <1>3, OwnDatagrams, Broadcasts DEF Subscribe
  <2>2. QED
    BY <1>3, <2>1 DEF TypeOK, Subscribe, timer_vars
<1>4. ASSUME NEW set \in BOOLEAN, DzmqTimer(node, set)
      PROVE  TypeOK'
  BY <1>4 DEF TypeOK, DzmqTimer, node_vars
<1>5. SpinAgain(node) => TypeOK'
  BY DEF TypeOK, SpinAgain, node_vars, timer_vars
<1>6. QED
  BY <1>1, <1>2, <1>3, <1>4, <1>5 DEF Calls

\* a served event keeps those of the thread,
LEMMA ServedType ==
  ASSUME TypeOK, NEW node \in Node, NEW point \in {"timer", "stopped"},
         Served(node, point)
  PROVE  /\ pc' \in [Node -> {"timer", "poll", "stopped"}]
         /\ late' \in [Node -> 0..2]
         /\ UNCHANGED <<status, published, subscribed, timer, elapsed>>
  BY DEF TypeOK, Served

\* and so do the steps of dzmq_spin_once
LEMMA SpinsType ==
  ASSUME TypeOK, NEW node \in Node, Spins(node)
  PROVE  TypeOK'
<1>1. ASSUME TimerCheck(node)
      PROVE  TypeOK'
  <2>1. /\ elapsed' \in [Node -> BOOLEAN] /\ late' \in [Node -> 0..2]
        /\ pc' \in [Node -> {"timer", "poll", "stopped"}]
    <3>1. PICK due \in TimeIsUp(node) :
            IF Fires(node, due)
            THEN /\ elapsed' = [elapsed EXCEPT ![node] = FALSE]
                 /\ late' = [late EXCEPT ![node] = 0]
                 /\ UNCHANGED pc
            ELSE /\ pc' = [pc EXCEPT ![node] = "poll"]
                 /\ UNCHANGED <<elapsed, late>>
      BY <1>1 DEF TimerCheck
    <3>2. CASE Fires(node, due)
      <4>1. elapsed' = [elapsed EXCEPT ![node] = FALSE] /\ elapsed \in [Node -> BOOLEAN]
        BY <3>1, <3>2 DEF TypeOK
      <4>2. late' = [late EXCEPT ![node] = 0] /\ late \in [Node -> 0..2]
        BY <3>1, <3>2 DEF TypeOK
      <4>3. pc' = pc /\ pc \in [Node -> {"timer", "poll", "stopped"}]
        BY <3>1, <3>2 DEF TypeOK
      <4>4. elapsed' \in [Node -> BOOLEAN]
        BY <4>1
      <4>5. late' \in [Node -> 0..2]
        BY <4>2
      <4>6. QED
        BY <4>3, <4>4, <4>5
    <3>3. CASE ~Fires(node, due)
      BY <3>1, <3>3 DEF TypeOK
    <3>4. QED
      BY <3>2, <3>3
  <2>2. UNCHANGED <<status, node_vars, inbox, pipe, timer, trouble>> /\ called' = NoCall
    BY <1>1 DEF TimerCheck
  <2>3. QED
    BY <2>1, <2>2 DEF TypeOK, node_vars
<1>2. PollEnds(node) => TypeOK'
  BY DEF TypeOK, PollEnds, node_vars, timer_vars
<1>3. ASSUME NEW datagram \in inbox[node], HandleBcastMsg(node, datagram)
      PROVE  TypeOK'
  <2>1. /\ HandledInbox(node, datagram)
        /\ \/ Served(node, "timer") /\ UNCHANGED trouble
           \/ Served(node, "stopped") /\ trouble' = TRUE
        /\ \/ UNCHANGED <<connections, conns>>
           \/ /\ datagram.type = "ADV" /\ datagram.address # Other
              /\ connections' = [connections EXCEPT ![node] = @ \cup {datagram.address}]
              /\ conns' = [conns EXCEPT ![node][datagram.address] = @ + 1]
        /\ called' = NoCall /\ UNCHANGED <<leftover, pipe>>
    BY <1>3, HandleBcastMsgWrites
  <2>2. /\ pc' \in [Node -> {"timer", "poll", "stopped"}]
        /\ late' \in [Node -> 0..2]
        /\ UNCHANGED <<status, published, subscribed, timer, elapsed>>
    BY <2>1, ServedType
  <2>3. datagram.type = "ADV" /\ datagram.address # Other => datagram.address \in Node
    BY DatagramKinds DEF TypeOK, AdvDatagram
  <2>4. connections' \in [Node -> SUBSET Node] /\ conns' \in [Node -> [Node -> Nat]]
    <3>1. connections \in [Node -> SUBSET Node] /\ conns \in [Node -> [Node -> Nat]]
      BY DEF TypeOK
    <3>2. CASE UNCHANGED <<connections, conns>>
      BY <3>1, <3>2
    <3>3. ASSUME NEW p \in Node,
                 connections' = [connections EXCEPT ![node] = @ \cup {p}],
                 conns' = [conns EXCEPT ![node][p] = @ + 1]
          PROVE  connections' \in [Node -> SUBSET Node] /\ conns' \in [Node -> [Node -> Nat]]
      BY <3>1, <3>3
    <3>4. QED
      BY <2>1, <2>3, <3>2, <3>3
  <2>5. QED
    BY <2>1, <2>2, <2>4 DEF TypeOK, HandledInbox
<1>4. ASSUME NEW from \in Node, RecvMessage(node, from)
      PROVE  TypeOK'
  <2> DEFINE msg == Head(pipe[node][from])
             cb  == subscribed[node][msg.topic]
  <2>1. pipe[node][from] \in Seq(Message) /\ pipe[node][from] # <<>>
    BY <1>4 DEF TypeOK, RecvMessage
  <2>2. msg \in Message /\ pipe' \in [Node -> [Node -> Seq(Message)]]
    BY <1>4, <2>1 DEF TypeOK, RecvMessage
  <2>3. cb \in Callback \cup {NULL}
    BY <2>2 DEF TypeOK, Message
  <2>4. called' \in Call \cup {NoCall}
    <3>1. CASE cb = NULL
      BY <1>4, <3>1 DEF RecvMessage
    <3>2. CASE cb # NULL
      <4>1. called' = [node |-> node, from |-> from, topic |-> msg.topic,
                       data |-> msg.data, cb |-> cb]
        BY <1>4, <3>2 DEF RecvMessage
      <4>2. QED
        BY <2>2, <2>3, <3>2, <4>1 DEF Call, Message
    <3>3. QED
      BY <3>1, <3>2
  <2>5. /\ pc' \in [Node -> {"timer", "poll", "stopped"}]
        /\ late' \in [Node -> 0..2]
        /\ UNCHANGED <<status, published, subscribed, timer, elapsed>>
    <3>1. Served(node, "timer") \/ Served(node, "stopped")
      BY <1>4 DEF RecvMessage
    <3>2. QED
      BY <3>1, ServedType
  <2>6. leftover' \in [Node -> BOOLEAN]
    BY <1>4 DEF TypeOK, RecvMessage, Unread
  <2>7. UNCHANGED <<connections, conns, inbox, trouble>>
    BY <1>4 DEF RecvMessage
  <2>8. QED
    BY <2>2, <2>4, <2>5, <2>6, <2>7 DEF TypeOK
<1>5. QED
  BY <1>1, <1>2, <1>3, <1>4 DEF Spins

\* and the end of a process.
LEMMA EndsType ==
  ASSUME TypeOK, NEW node \in Node, Ends(node)
  PROVE  TypeOK'
<1>1. PICK how \in {"ended", "aborted"} : End(node, how)
  BY DEF Ends
<1>2. pipe' \in [Node -> [Node -> Seq(Message)]] /\ conns' \in [Node -> [Node -> Nat]]
  BY <1>1 DEF TypeOK, End
<1>3. QED
  BY <1>1, <1>2 DEF TypeOK, End

\* Every step keeps the types.
LEMMA TypeStep == TypeOK /\ [Next]_vars => TypeOK'
<1> SUFFICES ASSUME TypeOK, [Next]_vars PROVE TypeOK'
  OBVIOUS
<1>1. CASE UNCHANGED vars
  BY <1>1 DEF vars, node_vars, timer_vars, TypeOK
<1>2. ASSUME NEW node \in Node, DzmqInit(node)
      PROVE  TypeOK'
  BY <1>2 DEF TypeOK, DzmqInit, node_vars, timer_vars
<1>3. ASSUME NEW node \in Node, Tick(node)
      PROVE  TypeOK'
  BY <1>3 DEF TypeOK, Tick, node_vars
<1>4. ASSUME NEW datagram \in Foreign, SendForeign(datagram)
      PROVE  TypeOK'
  <2>1. datagram \in Datagram
    BY DEF Datagram
  <2>2. inbox' \in [Node -> SUBSET Datagram]
    BY <1>4, <2>1, Broadcasts DEF SendForeign
  <2>3. QED
    BY <1>4, <2>2 DEF TypeOK, SendForeign, node_vars, timer_vars
<1>5. QED
  BY <1>1, <1>2, <1>3, <1>4, NextCases, EndsType, CallsType, SpinsType

-----------------------------------------------------------------------------
(* Links: pipes, and the advertisements they are made for                  *)

Links == OnePipePerConnection /\ AdvertisementsAreGenuine

\* What a step must be for Links to survive it when no pipe comes or goes:
\* a node forgets no publication, and only publishers send advertisements.
LEMMA LinksStay ==
  ASSUME TypeOK, Links, UNCHANGED <<connections, conns>>,
         \A p \in Node : published[p] \subseteq published'[p],
         \A n \in Node : \A d \in inbox'[n] :
            \/ d \in inbox[n] \/ d.type = "SUB" \/ d \in Foreign
            \/ \E m \in Node : \E t \in published'[m] : d = Adv(m, t)
  PROVE  Links'
<1>1. OnePipePerConnection'
  <2> SUFFICES ASSUME NEW n \in Node, NEW p \in Node
               PROVE  /\ conns[n][p] = IF p \in connections[n] THEN 1 ELSE 0
                      /\ p \in connections[n] => p # n /\ published'[p] # {}
    BY DEF OnePipePerConnection
  <2>1. QED
    BY DEF Links, OnePipePerConnection
<1>2. AdvertisementsAreGenuine'
  <2> SUFFICES ASSUME NEW n \in Node, NEW d \in inbox'[n],
                      d.type = "ADV", d.address # Other
               PROVE  d.address = d.guid /\ published'[d.guid] # {}
    BY DEF AdvertisementsAreGenuine
  <2>1. CASE d \in inbox[n]
    <3>1. d.address = d.guid /\ published[d.guid] # {}
      BY <2>1 DEF Links, AdvertisementsAreGenuine
    <3>2. d.guid \in Node
      BY <2>1, DatagramKinds DEF TypeOK, AdvDatagram
    <3>3. QED
      BY <3>1, <3>2
  <2>2. d \notin Foreign
    BY ForeignAssumption DEF CppSub, CppAdv, NotTcp
  <2>3. ASSUME NEW m \in Node, NEW t \in published'[m], d = Adv(m, t)
        PROVE  d.address = d.guid /\ published'[d.guid] # {}
    BY <2>3 DEF Adv
  <2>4. QED
    BY <2>1, <2>2, <2>3
<1>3. QED
  BY <1>1, <1>2 DEF Links

\* The node connects once, to another node, because that node published.
LEMMA LinksGrow ==
  ASSUME TypeOK, Links, NEW node \in Node, NEW datagram \in inbox[node],
         HandleBcastMsg(node, datagram), ~UNCHANGED <<connections, conns>>
  PROVE  OnePipePerConnection'
<1> DEFINE address == datagram.address
<1>1. /\ datagram.type = "ADV" /\ address # Other
      /\ datagram.guid # node /\ address \notin connections[node]
      /\ connections' = [connections EXCEPT ![node] = @ \cup {address}]
      /\ conns' = [conns EXCEPT ![node][address] = @ + 1]
  BY HandleBcastMsgWrites DEF WantsConnection
<1>2. address \in Node /\ address # node /\ published[address] # {}
  BY <1>1, DatagramKinds DEF TypeOK, AdvDatagram, Links, AdvertisementsAreGenuine
<1>3. published' = published
  BY HandleBcastMsgWrites DEF Served
<1>4. conns[node][address] = 0
  BY <1>1, <1>2 DEF Links, OnePipePerConnection
<1> HIDE DEF address
<1>5. SUFFICES ASSUME NEW n \in Node, NEW p \in Node
               PROVE  /\ conns'[n][p] = IF p \in connections'[n] THEN 1 ELSE 0
                      /\ p \in connections'[n] => p # n /\ published'[p] # {}
  BY DEF OnePipePerConnection
<1>6. CASE n = node /\ p = address
  BY <1>1, <1>2, <1>3, <1>4, <1>6 DEF TypeOK
<1>7. CASE ~(n = node /\ p = address)
  <2>1. conns'[n][p] = conns[n][p] /\ (p \in connections'[n] <=> p \in connections[n])
    BY <1>1, <1>2, <1>7 DEF TypeOK
  <2>2. QED
    BY <1>3, <2>1 DEF Links, OnePipePerConnection
<1>8. QED
  BY <1>6, <1>7

\* A process that ends closes its own pipes; those of others still lead to a node
\* that did publish.
LEMMA LinksEnd ==
  ASSUME TypeOK, Links, NEW node \in Node, Ends(node)
  PROVE  Links'
<1>1. PICK how : End(node, how)
  BY DEF Ends
<1>2. /\ published' = published
      /\ connections' = [connections EXCEPT ![node] = {}]
      /\ conns' = [conns EXCEPT ![node] = [p \in Node |-> 0]]
      /\ inbox' = [inbox EXCEPT ![node] = {}]
  BY <1>1 DEF End
<1>3. OnePipePerConnection'
  <2> SUFFICES ASSUME NEW n \in Node, NEW p \in Node
               PROVE  /\ conns'[n][p] = IF p \in connections'[n] THEN 1 ELSE 0
                      /\ p \in connections'[n] => p # n /\ published'[p] # {}
    BY DEF OnePipePerConnection
  <2>1. QED
    BY <1>2 DEF TypeOK, Links, OnePipePerConnection
<1>4. AdvertisementsAreGenuine'
  <2>1. \A n \in Node : inbox'[n] \subseteq inbox[n]
    BY <1>2 DEF TypeOK
  <2>2. QED
    BY <1>2, <2>1 DEF Links, AdvertisementsAreGenuine
<1>5. QED
  BY <1>3, <1>4 DEF Links

\* Every step keeps the pipes and the lists of connections in agreement.
LEMMA LinkStep == TypeOK /\ Links /\ [Next]_vars => Links'
<1> SUFFICES ASSUME TypeOK, Links, [Next]_vars PROVE Links'
  OBVIOUS
<1>1. ASSUME UNCHANGED <<published, connections, conns, inbox>>
      PROVE  Links'
  BY <1>1 DEF Links, OnePipePerConnection, AdvertisementsAreGenuine
<1>2. ASSUME NEW node \in Node, NEW topic \in Topic, Advertise(node, topic)
      PROVE  Links'
  <2>1. /\ UNCHANGED <<connections, conns>>
        /\ published' = [published EXCEPT ![node] = @ \cup {topic}]
        /\ inbox' \in Sent(Adv(node, topic), Running, inbox)
    BY <1>2 DEF Advertise
  <2>2. \A n \in Node : inbox'[n] \subseteq inbox[n] \cup {Adv(node, topic)}
    BY <2>1, OwnDatagrams, Broadcasts
  <2>3. topic \in published'[node] /\ \A p \in Node : published[p] \subseteq published'[p]
    BY <2>1 DEF TypeOK
  <2>4. QED
    BY <2>1, <2>2, <2>3, LinksStay
<1>3. ASSUME NEW node \in Node, NEW topic \in Topic, NEW cb, Subscribe(node, topic, cb)
      PROVE  Links'
  <2>1. /\ UNCHANGED <<connections, conns, published>>
        /\ inbox' \in Sent(Sub(node, topic), Running, inbox)
    BY <1>3 DEF Subscribe
  <2>2. \A n \in Node : inbox'[n] \subseteq inbox[n] \cup {Sub(node, topic)}
    BY <2>1, OwnDatagrams, Broadcasts
  <2>3. QED
    BY <2>1, <2>2, OwnDatagrams, LinksStay
<1>4. ASSUME NEW datagram \in Foreign, SendForeign(datagram)
      PROVE  Links'
  <2>1. /\ UNCHANGED <<connections, conns, published>>
        /\ inbox' \in Sent(datagram, Running, inbox)
    BY <1>4 DEF SendForeign, node_vars
  <2>2. \A n \in Node : inbox'[n] \subseteq inbox[n] \cup {datagram}
    BY <2>1, Broadcasts DEF Datagram
  <2>3. QED
    BY <2>1, <2>2, LinksStay
<1>5. ASSUME NEW node \in Node, NEW datagram \in inbox[node], HandleBcastMsg(node, datagram)
      PROVE  Links'
  <2>1. HandledInbox(node, datagram) /\ published' = published
    BY <1>5, HandleBcastMsgWrites DEF Served
  <2>2. CASE UNCHANGED <<connections, conns>>
    BY <2>1, <2>2, LinksStay DEF HandledInbox
  <2>3. CASE ~UNCHANGED <<connections, conns>>
    <3>1. OnePipePerConnection'
      BY <1>5, <2>3, LinksGrow
    <3>2. AdvertisementsAreGenuine'
      <4> SUFFICES ASSUME NEW n \in Node, NEW d \in inbox'[n],
                          d.type = "ADV", d.address # Other
                   PROVE  d.address = d.guid /\ published[d.guid] # {}
        BY <2>1 DEF AdvertisementsAreGenuine
      <4>1. CASE d \in inbox[n]
        BY <4>1 DEF Links, AdvertisementsAreGenuine
      <4>2. ASSUME NEW t \in published[node], d = Adv(node, t)
            PROVE  d.address = d.guid /\ published[d.guid] # {}
        BY <4>2 DEF Adv
      <4>3. QED
        BY <2>1, <4>1, <4>2 DEF HandledInbox
    <3>3. QED
      BY <3>1, <3>2 DEF Links
  <2>4. QED
    BY <2>2, <2>3
<1>6. ASSUME NEW node \in Node, Calls(node)
      PROVE  Links'
  <2>1. ASSUME NEW topic \in Topic, NEW data \in Data, Publish(node, topic, data)
        PROVE  Links'
    BY <1>1, <2>1 DEF Publish, node_vars
  <2>2. ASSUME NEW set, DzmqTimer(node, set)
        PROVE  Links'
    BY <1>1, <2>2 DEF DzmqTimer, node_vars
  <2>3. SpinAgain(node) => Links'
    BY <1>1 DEF SpinAgain, node_vars
  <2>4. QED
    BY <1>2, <1>3, <1>6, <2>1, <2>2, <2>3 DEF Calls
<1>7. ASSUME NEW node \in Node, Spins(node)
      PROVE  Links'
  <2>1. TimerCheck(node) => Links'
    BY <1>1 DEF TimerCheck, node_vars
  <2>2. PollEnds(node) => Links'
    BY <1>1 DEF PollEnds, node_vars
  <2>3. ASSUME NEW from \in Node, RecvMessage(node, from)
        PROVE  Links'
    BY <1>1, <2>3 DEF RecvMessage, Served
  <2>4. QED
    BY <1>5, <1>7, <2>1, <2>2, <2>3 DEF Spins
<1>8. ASSUME NEW node \in Node, DzmqInit(node) \/ Tick(node)
      PROVE  Links'
  BY <1>1, <1>8 DEF DzmqInit, Tick, node_vars
<1>9. CASE UNCHANGED vars
  BY <1>1, <1>9 DEF vars, node_vars
<1>10. QED
  BY <1>4, <1>6, <1>7, <1>8, <1>9, NextCases, LinksEnd

-----------------------------------------------------------------------------
(* What ends dzmq_spin                                                     *)

\* A node forgets neither what it advertised nor that a call has failed.
LEMMA GrowsOnly ==
  TypeOK /\ [Next]_vars =>
    /\ trouble => trouble'
    /\ \A n \in Node : published[n] \subseteq published'[n]
<1> SUFFICES ASSUME TypeOK, [Next]_vars
             PROVE  /\ trouble => trouble'
                    /\ \A n \in Node : published[n] \subseteq published'[n]
  OBVIOUS
<1>1. ASSUME NEW node \in Node, Calls(node)
      PROVE  trouble' = trouble /\ \A n \in Node : published[n] \subseteq published'[n]
  <2>1. ASSUME NEW topic \in Topic, Advertise(node, topic)
        PROVE  trouble' = trouble /\ \A n \in Node : published[n] \subseteq published'[n]
    BY <2>1 DEF Advertise, TypeOK
  <2>2. (\E topic \in Topic : Advertise(node, topic)) \/ UNCHANGED <<trouble, published>>
    BY <1>1 DEF Calls, Publish, Subscribe, DzmqTimer, SpinAgain, node_vars
  <2>3. QED
    BY <2>1, <2>2
<1>2. ASSUME NEW node \in Node, Spins(node)
      PROVE  (trouble => trouble') /\ published' = published
  <2>1. TimerCheck(node) => UNCHANGED <<trouble, published>>
    BY DEF TimerCheck, node_vars
  <2>2. PollEnds(node) => (trouble => trouble') /\ published' = published
    BY DEF PollEnds, node_vars
  <2>3. ASSUME NEW datagram \in inbox[node], HandleBcastMsg(node, datagram)
        PROVE  (trouble => trouble') /\ published' = published
    BY <2>3, HandleBcastMsgWrites DEF Served
  <2>4. ASSUME NEW from \in Node, RecvMessage(node, from)
        PROVE  UNCHANGED <<trouble, published>>
    BY <2>4 DEF RecvMessage, Served
  <2>5. QED
    BY <1>2, <2>1, <2>2, <2>3, <2>4 DEF Spins
<1>3. ASSUME NEW node \in Node, DzmqInit(node) \/ Ends(node) \/ Tick(node)
      PROVE  UNCHANGED <<trouble, published>>
  BY <1>3 DEF DzmqInit, Ends, End, Tick, node_vars
<1>4. ASSUME NEW datagram \in Foreign, SendForeign(datagram)
      PROVE  trouble' /\ published' = published
  BY <1>4 DEF SendForeign, node_vars
<1>5. CASE UNCHANGED vars
  BY <1>5 DEF vars, node_vars
<1>6. QED
  BY <1>1, <1>2, <1>3, <1>4, <1>5, NextCases

\* The applications' calls and the foreign datagrams.
LEMMA CallsStep == TypeOK /\ CallsAreTheApplications /\ [Next]_vars
                      => CallsAreTheApplications'
<1> SUFFICES ASSUME TypeOK, CallsAreTheApplications, [Next]_vars
             PROVE  CallsAreTheApplications'
  OBVIOUS
<1> USE GrowsOnly
<1>1. \A n \in Node : status'[n] = "unborn" => published'[n] = {}
  <2>1. ASSUME NEW node \in Node, NEW topic \in Topic, Advertise(node, topic)
        PROVE  \A n \in Node : status'[n] = "unborn" => published'[n] = {}
    BY <2>1 DEF Advertise, Up, TypeOK, CallsAreTheApplications
  <2>2. ASSUME NEW node \in Node, DzmqInit(node) \/ Ends(node)
        PROVE  \A n \in Node : status'[n] = "unborn" => published'[n] = {}
    <3>1. published' = published
      BY <2>2 DEF DzmqInit, Ends, End, node_vars
    <3>2. \A n \in Node : status'[n] = "unborn" => status[n] = "unborn"
      BY <2>2 DEF DzmqInit, Ends, End, TypeOK
    <3>3. QED
      BY <3>1, <3>2 DEF CallsAreTheApplications
  <2>3. \/ \E node \in Node : (\E topic \in Topic : Advertise(node, topic))
                              \/ DzmqInit(node) \/ Ends(node)
        \/ UNCHANGED <<status, published>>
    <3>1. ASSUME NEW node \in Node, Calls(node)
          PROVE  \/ \E topic \in Topic : Advertise(node, topic)
                 \/ UNCHANGED <<status, published>>
      BY <3>1 DEF Calls, Publish, Subscribe, DzmqTimer, SpinAgain, node_vars
    <3>2. ASSUME NEW node \in Node, Spins(node)
          PROVE  UNCHANGED <<status, published>>
      <4>1. ASSUME NEW datagram \in inbox[node], HandleBcastMsg(node, datagram)
            PROVE  UNCHANGED <<status, published>>
        BY <4>1, HandleBcastMsgWrites DEF Served
      <4>2. QED
        BY <3>2, <4>1 DEF Spins, TimerCheck, PollEnds, RecvMessage, Served, node_vars
    <3>3. QED
      BY <3>1, <3>2, NextCases DEF Tick, SendForeign, vars, node_vars
  <2>4. QED
    BY <2>1, <2>2, <2>3 DEF CallsAreTheApplications
<1>2. \A n \in Node, t \in Topic : subscribed'[n][t] # NULL => <<n, t>> \in Subscribers
  <2>1. ASSUME NEW node \in Node, NEW topic \in Topic, NEW cb \in Callback,
               <<node, topic>> \in Subscribers, Subscribe(node, topic, cb)
        PROVE  \A n \in Node, t \in Topic : subscribed'[n][t] # NULL => <<n, t>> \in Subscribers
    BY <2>1 DEF Subscribe, TypeOK, CallsAreTheApplications
  <2>2. ASSUME NEW node \in Node, Ends(node)
        PROVE  \A n \in Node, t \in Topic : subscribed'[n][t] # NULL => <<n, t>> \in Subscribers
    BY <2>2 DEF Ends, End, TypeOK, CallsAreTheApplications
  <2>3. \/ \E node \in Node :
             \/ Ends(node)
             \/ \E topic \in Topic, cb \in Callback :
                   <<node, topic>> \in Subscribers /\ Subscribe(node, topic, cb)
        \/ subscribed' = subscribed
    <3>1. ASSUME NEW node \in Node, Calls(node)
          PROVE  \/ \E topic \in Topic, cb \in Callback :
                       <<node, topic>> \in Subscribers /\ Subscribe(node, topic, cb)
                 \/ subscribed' = subscribed
      BY <3>1 DEF Calls, Advertise, Publish, DzmqTimer, SpinAgain, node_vars
    <3>2. ASSUME NEW node \in Node, Spins(node)
          PROVE  subscribed' = subscribed
      <4>1. ASSUME NEW datagram \in inbox[node], HandleBcastMsg(node, datagram)
            PROVE  subscribed' = subscribed
        BY <4>1, HandleBcastMsgWrites DEF Served
      <4>2. QED
        BY <3>2, <4>1 DEF Spins, TimerCheck, PollEnds, RecvMessage, Served, node_vars
    <3>3. QED
      BY <3>1, <3>2, NextCases DEF DzmqInit, Tick, SendForeign, vars, node_vars
  <2>4. QED
    BY <2>1, <2>2, <2>3 DEF CallsAreTheApplications
<1>3. \A n \in Node : inbox'[n] \cap Foreign # {} => trouble'
  <2>1. ASSUME NEW node \in Node, NEW topic \in Topic, Advertise(node, topic)
        PROVE  \A n \in Node : inbox'[n] \subseteq inbox[n] \cup {Adv(node, topic)}
    BY <2>1, OwnDatagrams, Broadcasts DEF Advertise
  <2>2. ASSUME NEW node \in Node, NEW topic \in Topic, NEW cb, Subscribe(node, topic, cb)
        PROVE  \A n \in Node : inbox'[n] \subseteq inbox[n] \cup {Sub(node, topic)}
    BY <2>2, OwnDatagrams, Broadcasts DEF Subscribe
  <2>3. ASSUME NEW node \in Node, NEW datagram \in inbox[node], HandleBcastMsg(node, datagram)
        PROVE  \A n \in Node : \A d \in inbox'[n] :
                  d \in inbox[n] \/ \E t \in Topic : d = Adv(node, t)
    <3>1. HandledInbox(node, datagram)
      BY <2>3, HandleBcastMsgWrites
    <3>2. published[node] \subseteq Topic
      BY DEF TypeOK
    <3>3. QED
      BY <3>1, <3>2 DEF HandledInbox
  <2>4. ASSUME NEW node \in Node, Ends(node)
        PROVE  \A n \in Node : inbox'[n] \subseteq inbox[n]
    BY <2>4 DEF Ends, End, TypeOK
  <2>5. \/ \A n \in Node : \A d \in inbox'[n] :
              d \in inbox[n] \/ \E m \in Node, t \in Topic : d = Adv(m, t) \/ d = Sub(m, t)
        \/ trouble'
    <3>1. ASSUME NEW node \in Node, Calls(node)
          PROVE  \A n \in Node : \A d \in inbox'[n] :
                    d \in inbox[n] \/ \E t \in Topic : d = Adv(node, t) \/ d = Sub(node, t)
      <4>1. \/ \E topic \in Topic : Advertise(node, topic)
            \/ \E topic \in Topic, cb \in Callback : Subscribe(node, topic, cb)
            \/ inbox' = inbox
        BY <3>1 DEF Calls, Publish, DzmqTimer, SpinAgain
      <4>2. QED
        BY <2>1, <2>2, <4>1
    <3>2. ASSUME NEW node \in Node, Spins(node)
          PROVE  \A n \in Node : \A d \in inbox'[n] :
                    d \in inbox[n] \/ \E t \in Topic : d = Adv(node, t)
      <4>1. (\E datagram \in inbox[node] : HandleBcastMsg(node, datagram)) \/ inbox' = inbox
        BY <3>2 DEF Spins, TimerCheck, PollEnds, RecvMessage
      <4>2. QED
        BY <2>3, <4>1
    <3>3. CASE \E node \in Node : DzmqInit(node) \/ Tick(node)
      BY <3>3 DEF DzmqInit, Tick
    <3>4. CASE \E datagram \in Foreign : SendForeign(datagram)
      BY <3>4 DEF SendForeign
    <3>5. CASE UNCHANGED vars
      BY <3>5 DEF vars
    <3>6. QED
      BY <2>4, <3>1, <3>2, <3>3, <3>4, <3>5, NextCases
  <2>6. QED
    BY <2>5, OwnIsNotForeign DEF CallsAreTheApplications
<1>4. QED
  BY <1>1, <1>2, <1>3 DEF CallsAreTheApplications

\* A message leaves a pipe at its head.
LEMMA TailElements ==
  ASSUME NEW S, NEW q \in Seq(S), q # <<>>
  PROVE  /\ 1 \in DOMAIN q /\ Head(q) = q[1]
         /\ \A i \in DOMAIN Tail(q) : i + 1 \in DOMAIN q /\ Tail(q)[i] = q[i + 1]
  OBVIOUS

\* The messages in the pipes after a step: those from before and what is
\* published now, as the reader's filters have it.
LEMMA FiltersStep ==
  TypeOK /\ MessagesWereFiltered /\ [Next]_vars => MessagesWereFiltered'
<1> SUFFICES ASSUME TypeOK, MessagesWereFiltered, [Next]_vars
             PROVE  MessagesWereFiltered'
  OBVIOUS
<1>1. ASSUME UNCHANGED <<pipe, subscribed>>
      PROVE  MessagesWereFiltered'
  BY <1>1, GrowsOnly DEF MessagesWereFiltered, Matches
<1>2. ASSUME NEW node \in Node, NEW topic \in Topic, NEW cb \in Callback,
             Subscribe(node, topic, cb)
      PROVE  MessagesWereFiltered'
  <2>1. pipe' = pipe /\ published' = published
    BY <1>2 DEF Subscribe
  <2>2. \A n \in Node, t \in Topic : subscribed[n][t] # NULL => subscribed'[n][t] # NULL
    BY <1>2, ConstantsAssumption DEF Subscribe, TypeOK
  <2>3. QED
    BY <2>1, <2>2 DEF MessagesWereFiltered, Matches
<1>3. ASSUME NEW node \in Node, NEW topic \in Topic, NEW data \in Data,
             Publish(node, topic, data)
      PROVE  MessagesWereFiltered'
  <2>1. topic \in published[node] /\ UNCHANGED <<published, subscribed>>
    BY <1>3 DEF Publish, Advertised, node_vars
  <2>2. PICK heard \in SUBSET {m \in Running : Matches(m, topic)} :
          pipe' = [m \in Node |-> IF m \in heard
                     THEN [pipe[m] EXCEPT ![node] =
                             Append(@, [topic |-> topic, data |-> data])]
                     ELSE pipe[m]]
    BY <1>3 DEF Publish
  <2>3. SUFFICES ASSUME NEW n \in Node, NEW p \in Node, NEW i \in DOMAIN pipe'[n][p]
                 PROVE  /\ pipe'[n][p][i].topic \in published[p]
                        /\ Matches(n, pipe'[n][p][i].topic)
    BY <2>1 DEF MessagesWereFiltered, Matches
  <2>4. CASE n \in heard /\ p = node
    <3>1. /\ pipe'[n][p] = Append(pipe[n][p], [topic |-> topic, data |-> data])
          /\ pipe[n][p] \in Seq(Message)
      BY <2>2, <2>4 DEF TypeOK
    <3>2. \/ i \in DOMAIN pipe[n][p] /\ pipe'[n][p][i] = pipe[n][p][i]
          \/ pipe'[n][p][i] = [topic |-> topic, data |-> data]
      BY <3>1
    <3>3. Matches(n, topic)
      BY <2>4
    <3>4. QED
      BY <2>1, <2>4, <3>2, <3>3 DEF MessagesWereFiltered
  <2>5. CASE ~(n \in heard /\ p = node)
    <3>1. pipe'[n][p] = pipe[n][p]
      BY <2>2, <2>5 DEF TypeOK
    <3>2. QED
      BY <3>1 DEF MessagesWereFiltered
  <2>6. QED
    BY <2>4, <2>5
<1>4. ASSUME NEW node \in Node, NEW from \in Node, RecvMessage(node, from)
      PROVE  MessagesWereFiltered'
  <2>1. /\ UNCHANGED <<published, subscribed>>
        /\ pipe' = [pipe EXCEPT ![node][from] = Tail(@)]
        /\ pipe[node][from] \in Seq(Message) /\ pipe[node][from] # <<>>
    BY <1>4 DEF RecvMessage, Served, TypeOK
  <2>2. SUFFICES ASSUME NEW n \in Node, NEW p \in Node, NEW i \in DOMAIN pipe'[n][p]
                 PROVE  /\ pipe'[n][p][i].topic \in published[p]
                        /\ Matches(n, pipe'[n][p][i].topic)
    BY <2>1 DEF MessagesWereFiltered, Matches
  <2>3. CASE n = node /\ p = from
    <3>1. pipe'[n][p] = Tail(pipe[node][from])
      BY <2>1, <2>3 DEF TypeOK
    <3>2. \A q \in Seq(Message) : q # <<>> =>
            \A j \in DOMAIN Tail(q) : j + 1 \in DOMAIN q /\ Tail(q)[j] = q[j + 1]
      BY TailElements
    <3>3. i + 1 \in DOMAIN pipe[n][p] /\ pipe'[n][p][i] = pipe[n][p][i + 1]
      <4> DEFINE q == pipe[n][p]
                 rest == pipe'[n][p]
      <4>1. q \in Seq(Message) /\ q # <<>> /\ rest = Tail(q) /\ i \in DOMAIN rest
        BY <2>1, <2>3, <3>1
      <4> HIDE DEF q, rest
      <4>2. i + 1 \in DOMAIN q /\ rest[i] = q[i + 1]
        BY <3>2, <4>1
      <4>3. QED
        BY <4>2 DEF q, rest
    <3>4. QED
      BY <3>3 DEF MessagesWereFiltered
  <2>4. CASE ~(n = node /\ p = from)
    <3>1. pipe'[n][p] = pipe[n][p]
      BY <2>1, <2>4 DEF TypeOK
    <3>2. QED
      BY <3>1 DEF MessagesWereFiltered
  <2>5. QED
    BY <2>3, <2>4
<1>5. ASSUME NEW node \in Node, Ends(node)
      PROVE  MessagesWereFiltered'
  <2>1. /\ published' = published
        /\ pipe' = [pipe EXCEPT ![node] = [p \in Node |-> <<>>]]
        /\ subscribed' = [subscribed EXCEPT ![node] = [t \in Topic |-> NULL]]
    BY <1>5 DEF Ends, End
  <2>2. SUFFICES ASSUME NEW n \in Node, NEW p \in Node, NEW i \in DOMAIN pipe'[n][p]
                 PROVE  /\ pipe'[n][p][i].topic \in published[p]
                        /\ \E f \in Topic : /\ subscribed'[n][f] # NULL
                                            /\ <<f, pipe'[n][p][i].topic>> \in PrefixOf
    BY <2>1 DEF MessagesWereFiltered, Matches
  <2>3. n # node
    <3>1. pipe'[node][p] = <<>>
      BY <2>1 DEF TypeOK
    <3>2. DOMAIN <<>> = {}
      OBVIOUS
    <3>3. QED
      BY <3>1, <3>2
  <2>4. pipe'[n] = pipe[n] /\ subscribed'[n] = subscribed[n]
    BY <2>1, <2>3 DEF TypeOK
  <2>5. pipe[n][p][i].topic \in published[p] /\ Matches(n, pipe[n][p][i].topic)
    BY <2>4 DEF MessagesWereFiltered
  <2>6. QED
    BY <2>4, <2>5 DEF Matches
<1>6. ASSUME NEW node \in Node, Calls(node)
      PROVE  MessagesWereFiltered'
  <2>1. ASSUME NEW topic \in Topic, Advertise(node, topic)
        PROVE  UNCHANGED <<pipe, subscribed>>
    BY <2>1 DEF Advertise
  <2>2. ASSUME NEW set, DzmqTimer(node, set)
        PROVE  UNCHANGED <<pipe, subscribed>>
    BY <2>2 DEF DzmqTimer, node_vars
  <2>3. SpinAgain(node) => UNCHANGED <<pipe, subscribed>>
    BY DEF SpinAgain, node_vars
  <2>4. QED
    BY <1>1, <1>2, <1>3, <1>6, <2>1, <2>2, <2>3 DEF Calls
<1>7. ASSUME NEW node \in Node, Spins(node)
      PROVE  MessagesWereFiltered'
  <2>1. ASSUME NEW datagram \in inbox[node], HandleBcastMsg(node, datagram)
        PROVE  UNCHANGED <<pipe, subscribed>>
    BY <2>1, HandleBcastMsgWrites DEF Served
  <2>2. TimerCheck(node) \/ PollEnds(node) => UNCHANGED <<pipe, subscribed>>
    BY DEF TimerCheck, PollEnds, node_vars
  <2>3. QED
    BY <1>1, <1>4, <1>7, <2>1, <2>2 DEF Spins
<1>8. CASE \E node \in Node : DzmqInit(node) \/ Tick(node)
  BY <1>1, <1>8 DEF DzmqInit, Tick, node_vars
<1>9. CASE UNCHANGED vars \/ \E datagram \in Foreign : SendForeign(datagram)
  BY <1>1, <1>9 DEF vars, SendForeign, node_vars
<1>10. QED
  BY <1>5, <1>6, <1>7, <1>8, <1>9, NextCases

\* What excuses a node that stopped.
Excuse(node) == trouble \/ \E p \in Node : published[p] \cap Longer(node) # {}

\* A message nobody takes: a shorter name let it through the filters.
LEMMA UnreadIsLonger ==
  ASSUME TypeOK, MessagesWereFiltered, CallsAreTheApplications,
         NEW node \in Node, NEW from \in Node, pipe[node][from] # <<>>,
         subscribed[node][Head(pipe[node][from]).topic] = NULL
  PROVE  Excuse(node)
<1> DEFINE topic == Head(pipe[node][from]).topic
<1>1. topic \in published[from] /\ Matches(node, topic) /\ topic \in Topic
  <2>1. pipe[node][from] \in Seq(Message)
    BY DEF TypeOK
  <2>2. 1 \in DOMAIN pipe[node][from] /\ Head(pipe[node][from]) = pipe[node][from][1]
    BY <2>1, TailElements
  <2>3. topic \in published[from] /\ Matches(node, topic)
    BY <2>2 DEF MessagesWereFiltered
  <2>4. published[from] \subseteq Topic
    BY DEF TypeOK
  <2>5. QED
    BY <2>3, <2>4
<1>2. PICK f \in Topic : subscribed[node][f] # NULL /\ <<f, topic>> \in PrefixOf
  BY <1>1 DEF Matches
<1>3. f # topic /\ <<node, f>> \in Subscribers
  BY <1>2 DEF CallsAreTheApplications
<1>4. topic \in Longer(node)
  BY <1>1, <1>2, <1>3 DEF Longer
<1>5. QED
  BY <1>1, <1>4 DEF Excuse

\* Every step that stops dzmq_spin or aborts has an excuse.
LEMMA StopsStep ==
  TypeOK /\ StopsOnLongerNameOnly /\ MessagesWereFiltered /\ CallsAreTheApplications
    /\ [Next]_vars => StopsOnLongerNameOnly'
<1> SUFFICES ASSUME TypeOK, MessagesWereFiltered, CallsAreTheApplications,
                    StopsOnLongerNameOnly, [Next]_vars,
                    NEW n \in Node, ~Excuse(n)'
             PROVE  pc'[n] # "stopped" /\ ~leftover'[n] /\ status'[n] # "aborted"
  BY DEF StopsOnLongerNameOnly, Excuse, Longer
<1>1. ~Excuse(n) /\ ~trouble'
  BY GrowsOnly DEF Excuse, Longer
<1>2. pc[n] # "stopped" /\ ~leftover[n] /\ status[n] # "aborted" /\ ~trouble
  BY <1>1 DEF StopsOnLongerNameOnly, Excuse
<1>3. ASSUME UNCHANGED <<pc, leftover, status>>
      PROVE  pc'[n] # "stopped" /\ ~leftover'[n] /\ status'[n] # "aborted"
  BY <1>2, <1>3
<1>4. ASSUME NEW node \in Node, Calls(node)
      PROVE  pc'[n] # "stopped" /\ ~leftover'[n] /\ status'[n] # "aborted"
  <2>1. CASE SpinAgain(node)
    BY <1>2, <2>1 DEF SpinAgain, node_vars, TypeOK
  <2>2. CASE ~SpinAgain(node)
    BY <1>3, <1>4, <2>2 DEF Calls, Advertise, Publish, Subscribe, DzmqTimer, node_vars
  <2>3. QED
    BY <2>1, <2>2
<1>5. ASSUME NEW node \in Node, Spins(node)
      PROVE  pc'[n] # "stopped" /\ ~leftover'[n] /\ status'[n] # "aborted"
  <2>1. CASE TimerCheck(node)
    BY <1>2, <2>1 DEF TimerCheck, node_vars, TypeOK
  <2>2. CASE PollEnds(node)
    BY <1>1, <1>2, <2>2 DEF PollEnds, node_vars, TypeOK
  <2>3. ASSUME NEW datagram \in inbox[node], HandleBcastMsg(node, datagram)
        PROVE  pc'[n] # "stopped" /\ ~leftover'[n] /\ status'[n] # "aborted"
    <3>1. Served(node, "timer") /\ leftover' = leftover
      BY <1>1, <2>3, HandleBcastMsgWrites
    <3>2. QED
      BY <1>2, <3>1 DEF Served, TypeOK
  <2>4. ASSUME NEW from \in Node, RecvMessage(node, from)
        PROVE  pc'[n] # "stopped" /\ ~leftover'[n] /\ status'[n] # "aborted"
    <3> DEFINE cb == subscribed[node][Head(pipe[node][from]).topic]
    <3>1. /\ pipe[node][from] # <<>>
          /\ leftover' = [leftover EXCEPT ![node] = Unread(cb)]
          /\ pc' = [pc EXCEPT ![node] = IF cb = NULL THEN "stopped" ELSE "timer"]
          /\ status' = status
      BY <2>4 DEF RecvMessage, Served
    <3>2. n = node => cb # NULL
      BY <1>1, <3>1, UnreadIsLonger
    <3> HIDE DEF cb
    <3>3. QED
      BY <1>2, <3>1, <3>2 DEF Unread, TypeOK
  <2>5. QED
    BY <1>5, <2>1, <2>2, <2>3, <2>4 DEF Spins
<1>6. ASSUME NEW node \in Node, DzmqInit(node)
      PROVE  pc'[n] # "stopped" /\ ~leftover'[n] /\ status'[n] # "aborted"
  BY <1>2, <1>6 DEF DzmqInit, node_vars, TypeOK
<1>7. ASSUME NEW node \in Node, Ends(node)
      PROVE  pc'[n] # "stopped" /\ ~leftover'[n] /\ status'[n] # "aborted"
  <2>1. PICK how \in {"ended", "aborted"} :
          /\ End(node, how)
          /\ how = "aborted" =>
                leftover[node] \/ \E d \in inbox[node] : d.type = "truncated"
    BY <1>7 DEF Ends
  <2>2. ~\E d \in inbox[node] : d.type = "truncated"
    BY <1>2, DatagramKinds DEF TypeOK, CallsAreTheApplications
  <2>3. n = node => how = "ended"
    BY <1>2, <2>1, <2>2
  <2>4. QED
    BY <1>2, <2>1, <2>3 DEF End, TypeOK
<1>8. CASE \E node \in Node : Tick(node)
  BY <1>3, <1>8 DEF Tick, node_vars
<1>9. CASE UNCHANGED vars \/ \E datagram \in Foreign : SendForeign(datagram)
  BY <1>3, <1>9 DEF vars, SendForeign, node_vars
<1>10. QED
  BY <1>4, <1>5, <1>6, <1>7, <1>8, <1>9, NextCases

-----------------------------------------------------------------------------
(* The timer                                                               *)

Timely == TimerWaitsForOneEvent /\ TimerIsCheckedFirst

\* Timely at one node.
TimelyAt(n) ==
  /\ timer[n] => late[n] <= 1
  /\ ~elapsed[n] => late[n] = 0
  /\ timer[n] /\ pc[n] = "poll" => late[n] = 0

\* Every step at a node whose clock works keeps its timer checked in time.
LEMMA TimerStep == TypeOK /\ Timely /\ [Next]_vars => Timely'
<1> SUFFICES ASSUME TypeOK, [Next]_vars, NEW n \in Mach, n \in Node, TimelyAt(n)
             PROVE  TimelyAt(n)'
  BY ApplicationAssumption
     DEF Timely, TimelyAt, TimerWaitsForOneEvent, TimerIsCheckedFirst
<1>1. ASSUME UNCHANGED <<pc, timer_vars>>
      PROVE  TimelyAt(n)'
  BY <1>1 DEF TimelyAt, timer_vars
<1>2. late[n] \in Nat
  <2>1. late[n] \in 0..2
    BY DEF TypeOK
  <2>2. QED
    BY <2>1
<1>3. ASSUME NEW node \in Node, Calls(node)
      PROVE  TimelyAt(n)'
  <2>1. CASE SpinAgain(node)
    BY <2>1 DEF SpinAgain, timer_vars, TimelyAt, TypeOK
  <2>2. ASSUME NEW set \in BOOLEAN, DzmqTimer(node, set)
        PROVE  TimelyAt(n)'
    <3>1. CASE n = node
      BY <2>2, <3>1 DEF DzmqTimer, TimelyAt, TypeOK
    <3>2. CASE n # node
      BY <2>2, <3>2 DEF DzmqTimer, TimelyAt, TypeOK
    <3>3. QED
      BY <3>1, <3>2
  <2>3. CASE ~SpinAgain(node) /\ ~\E set \in BOOLEAN : DzmqTimer(node, set)
    BY <1>1, <1>3, <2>3 DEF Calls, Advertise, Publish, Subscribe
  <2>4. QED
    BY <2>1, <2>2, <2>3
<1>4. ASSUME NEW node \in Node, NEW point \in {"timer", "stopped"},
             pc[node] = "poll", Served(node, point)
      PROVE  TimelyAt(n)'
  <2>1. CASE n # node
    BY <1>4, <2>1 DEF Served, TimelyAt, TypeOK
  <2>2. CASE n = node
    <3>1. /\ pc'[n] # "poll" /\ UNCHANGED <<timer, elapsed>>
          /\ late'[n] = IF elapsed[n] /\ late[n] < 2 THEN late[n] + 1 ELSE late[n]
      BY <1>4, <2>2 DEF Served, TypeOK
    <3>2. timer[n] => late[n] = 0
      BY <1>4, <2>2 DEF TimelyAt
    <3>3. QED
      BY <1>2, <3>1, <3>2 DEF TimelyAt
  <2>3. QED
    BY <2>1, <2>2
<1>5. ASSUME NEW node \in Node, TimerCheck(node)
      PROVE  TimelyAt(n)'
  <2>1. CASE n # node
    BY <1>5, <2>1 DEF TimerCheck, TimelyAt, TypeOK
  <2>2. CASE n = node
    <3>1. /\ pc[n] = "timer" /\ timer' = timer
          /\ IF timer[n] /\ elapsed[n]
             THEN ~elapsed'[n] /\ late'[n] = 0 /\ UNCHANGED pc
             ELSE pc'[n] = "poll" /\ UNCHANGED <<elapsed, late>>
      BY <1>5, <2>2 DEF TimerCheck, TimeIsUp, Fires, TypeOK
    <3>2. QED
      BY <3>1 DEF TimelyAt
  <2>3. QED
    BY <2>1, <2>2
<1>6. ASSUME NEW node \in Node, Spins(node)
      PROVE  TimelyAt(n)'
  <2>1. PollEnds(node) => TimelyAt(n)'
    BY DEF PollEnds, timer_vars, TimelyAt, TypeOK
  <2>2. ASSUME NEW datagram \in inbox[node], HandleBcastMsg(node, datagram)
        PROVE  TimelyAt(n)'
    BY <1>4, <2>2, HandleBcastMsgWrites
  <2>3. ASSUME NEW from \in Node, RecvMessage(node, from)
        PROVE  TimelyAt(n)'
    <3>1. pc[node] = "poll" /\ (Served(node, "timer") \/ Served(node, "stopped"))
      BY <2>3 DEF RecvMessage
    <3>2. QED
      BY <1>4, <3>1
  <2>4. QED
    BY <1>5, <1>6, <2>1, <2>2, <2>3 DEF Spins
<1>7. ASSUME NEW node \in Node, Tick(node)
      PROVE  TimelyAt(n)'
  BY <1>7 DEF Tick, TimelyAt, TypeOK
<1>8. ASSUME NEW node \in Node, Ends(node)
      PROVE  TimelyAt(n)'
  <2>1. PICK how : End(node, how)
    BY <1>8 DEF Ends
  <2>2. CASE n # node
    BY <2>1, <2>2 DEF End, TimelyAt, TypeOK
  <2>3. CASE n = node
    <3>1. late'[n] = 0 /\ pc'[n] = "timer"
      BY <2>1, <2>3 DEF End, TypeOK
    <3>2. QED
      BY <3>1 DEF TimelyAt
  <2>4. QED
    BY <2>2, <2>3
<1>9. CASE \E node \in Node : DzmqInit(node)
  BY <1>1, <1>9 DEF DzmqInit
<1>10. CASE UNCHANGED vars \/ \E datagram \in Foreign : SendForeign(datagram)
  BY <1>1, <1>10 DEF vars, SendForeign
<1>11. QED
  BY <1>3, <1>6, <1>7, <1>8, <1>9, <1>10, NextCases

-----------------------------------------------------------------------------
(* The theorems                                                            *)

\* Every program begins in a state of the invariant.
THEOREM InitIInv == Init => IInv
<1> SUFFICES ASSUME Init PROVE IInv
  OBVIOUS
<1> USE DEF Init
<1>1. TypeOK
  <2>1. conns \in [Node -> [Node -> Nat]] /\ pipe \in [Node -> [Node -> Seq(Message)]]
    OBVIOUS
  <2>2. late \in [Node -> 0..2] /\ subscribed \in [Node -> [Topic -> Callback \cup {NULL}]]
    OBVIOUS
  <2>3. QED
    BY <2>1, <2>2 DEF TypeOK
<1>2. OnePipePerConnection /\ AdvertisementsAreGenuine
  BY DEF OnePipePerConnection, AdvertisementsAreGenuine
<1>3. StopsOnLongerNameOnly /\ CallsAreTheApplications
  BY DEF StopsOnLongerNameOnly, CallsAreTheApplications
<1>4. MessagesWereFiltered
  <2>1. \A n, p \in Node : DOMAIN pipe[n][p] = {}
    OBVIOUS
  <2>2. QED
    BY <2>1 DEF MessagesWereFiltered
<1>5. TimerWaitsForOneEvent /\ TimerIsCheckedFirst
  BY ApplicationAssumption DEF TimerWaitsForOneEvent, TimerIsCheckedFirst
<1>6. QED
  BY <1>1, <1>2, <1>3, <1>4, <1>5 DEF IInv

\* Every step of every node keeps it: links, filters, stops and timer.
THEOREM NextIInv == IInv /\ [Next]_vars => IInv'
  BY TypeStep, LinkStep, CallsStep, FiltersStep, StopsStep, TimerStep
     DEF IInv, Links, Timely

\* The invariant holds in every state of every behaviour.
THEOREM InductiveInvariant == Spec => []IInv
  BY InitIInv, NextIInv, PTL DEF Spec

\* Type correctness of the C nodes (dzmq.c and its lists).
THEOREM TypeCorrect == Spec => []TypeOK
<1>1. IInv => TypeOK
  BY DEF IInv
<1>2. QED
  BY <1>1, InductiveInvariant, PTL

\* However often advertisements come (handle_bcast_msg), a node has one pipe to
\* each address in its list, none to itself, and only to nodes that published.
THEOREM OnePipe == Spec => []OnePipePerConnection
<1>1. IInv => OnePipePerConnection
  BY DEF IInv
<1>2. QED
  BY <1>1, InductiveInvariant, PTL

\* While the system's calls work and only C nodes broadcast, dzmq_spin returns,
\* and the process aborts, for a longer published name only (dzmq_spin_once).
THEOREM StopsForLongerName == Spec => []StopsOnLongerNameOnly
<1>1. IInv => StopsOnLongerNameOnly
  BY DEF IInv
<1>2. QED
  BY <1>1, InductiveInvariant, PTL

\* Where the clock works, a timer that is due waits for one event at most.
THEOREM TimerWaits == Spec => []TimerWaitsForOneEvent
<1>1. IInv => TimerWaitsForOneEvent
  BY DEF IInv
<1>2. QED
  BY <1>1, InductiveInvariant, PTL

-----------------------------------------------------------------------------
(* C nodes implement the bus                                               *)

\* The topics that running nodes may publish: adv of the bus.
Advertising == [n \in Node |-> IF Up(n) THEN published[n] ELSE {}]

\* A step that leaves topics, pipes and the life of processes alone is internal.
LEMMA BusInternal ==
  ASSUME UNCHANGED <<subscribed, published, status, pipe>>, called' = NoCall
  PROVE  Bus!Next
<1>1. Advertising' = Advertising
  BY DEF Advertising, Up
<1>2. Bus!Internal
  BY <1>1 DEF Bus!Internal, Bus!NoCall, NoCall, Advertising
<1>3. QED
  BY <1>2 DEF Bus!Next

\* Calls of the application are the calls of the bus.
LEMMA BusCalls ==
  ASSUME TypeOK, NEW node \in Node, Calls(node)
  PROVE  Bus!Next
<1>1. ASSUME NEW topic \in Topic, Advertise(node, topic)
      PROVE  Bus!Next
  <2>1. /\ Up(node) /\ status' = status
        /\ published' = [published EXCEPT ![node] = @ \cup {topic}]
        /\ called' = NoCall /\ UNCHANGED <<subscribed, pipe>>
    BY <1>1 DEF Advertise
  <2>2. Advertising' = [Advertising EXCEPT ![node] = @ \cup {topic}]
    BY <2>1 DEF Advertising, Up, TypeOK
  <2>3. Bus!Advertise(node, topic)
    BY <2>1, <2>2 DEF Bus!Advertise, Bus!NoCall, NoCall, Advertising
  <2>4. QED
    BY <2>3 DEF Bus!Next
<1>2. ASSUME NEW topic \in Topic, NEW cb \in Callback, Subscribe(node, topic, cb)
      PROVE  Bus!Next
  <2>1. /\ UNCHANGED <<published, status, pipe>> /\ called' = NoCall
        /\ subscribed' = [subscribed EXCEPT ![node][topic] = cb]
    BY <1>2 DEF Subscribe
  <2>2. Advertising' = Advertising
    BY <2>1 DEF Advertising, Up
  <2>3. Bus!Subscribe(node, topic, cb)
    BY <2>1, <2>2 DEF Bus!Subscribe, Bus!NoCall, NoCall, Advertising
  <2>4. QED
    BY <2>3 DEF Bus!Next
<1>3. ASSUME NEW topic \in Topic, NEW data \in Data, Publish(node, topic, data)
      PROVE  Bus!Next
  <2>1. /\ Up(node) /\ topic \in published[node]
        /\ UNCHANGED <<published, status, subscribed>> /\ called' = NoCall
    BY <1>3 DEF Publish, Advertised, node_vars
  <2>2. topic \in Advertising[node] /\ Advertising' = Advertising
    BY <2>1 DEF Advertising, Up
  <2>3. PICK heard \in SUBSET Node :
          pipe' = [m \in Node |-> IF m \in heard
                     THEN [pipe[m] EXCEPT ![node] =
                             Append(@, [topic |-> topic, data |-> data])]
                     ELSE pipe[m]]
    BY <1>3 DEF Publish, Running
  <2>4. Bus!Publish(node, topic, data)
    BY <2>1, <2>2, <2>3 DEF Bus!Publish, Bus!NoCall, NoCall, Advertising
  <2>5. QED
    BY <2>4 DEF Bus!Next
<1>4. ASSUME NEW set, DzmqTimer(node, set)
      PROVE  Bus!Next
  BY <1>4, BusInternal DEF DzmqTimer, node_vars
<1>5. SpinAgain(node) => Bus!Next
  BY BusInternal DEF SpinAgain, node_vars
<1>6. QED
  BY <1>1, <1>2, <1>3, <1>4, <1>5 DEF Calls

\* The spin loop delivers or does nothing that the bus shows.
LEMMA BusSpins ==
  ASSUME TypeOK, NEW node \in Node, Spins(node)
  PROVE  Bus!Next
<1>1. TimerCheck(node) => Bus!Next
  BY BusInternal DEF TimerCheck, node_vars
<1>2. PollEnds(node) => Bus!Next
  BY BusInternal DEF PollEnds, node_vars
<1>3. ASSUME NEW datagram \in inbox[node], HandleBcastMsg(node, datagram)
      PROVE  Bus!Next
  BY <1>3, HandleBcastMsgWrites, BusInternal DEF Served
<1>4. ASSUME NEW from \in Node, RecvMessage(node, from)
      PROVE  Bus!Next
  <2>1. UNCHANGED <<published, subscribed, status>>
    BY <1>4 DEF RecvMessage, Served
  <2>2. Advertising' = Advertising
    BY <2>1 DEF Advertising, Up
  <2>3. Bus!Deliver(node, from)
    BY <1>4, <2>1, <2>2 DEF RecvMessage, Bus!Deliver, Bus!NoCall, NoCall, Advertising
  <2>4. QED
    BY <2>3 DEF Bus!Next
<1>5. QED
  BY <1>1, <1>2, <1>3, <1>4 DEF Spins

\* A process joins without topics and leaves with all of them.
LEMMA BusLifeAndNetwork ==
  ASSUME TypeOK, CallsAreTheApplications
  PROVE  /\ \A node \in Node : DzmqInit(node) \/ Ends(node) \/ Tick(node) => Bus!Next
         /\ \A datagram \in Foreign : SendForeign(datagram) => Bus!Next
<1>1. ASSUME NEW node \in Node, DzmqInit(node)
      PROVE  Bus!Next
  <2>1. /\ status[node] = "unborn" /\ UNCHANGED <<published, subscribed, pipe>>
        /\ \A n \in Node \ {node} : status'[n] = status[n]
        /\ called' = NoCall
    BY <1>1 DEF DzmqInit, node_vars, TypeOK
  <2>2. published[node] = {}
    BY <2>1 DEF CallsAreTheApplications
  <2>3. Advertising' = Advertising
    BY <2>1, <2>2 DEF Advertising, Up
  <2>4. Bus!Internal
    BY <2>1, <2>3 DEF Bus!Internal, Bus!NoCall, NoCall, Advertising
  <2>5. QED
    BY <2>4 DEF Bus!Next
<1>2. ASSUME NEW node \in Node, Ends(node)
      PROVE  Bus!Next
  <2>1. PICK how \in {"ended", "aborted"} : End(node, how)
    BY <1>2 DEF Ends
  <2>2. /\ status' = [status EXCEPT ![node] = how] /\ published' = published
        /\ subscribed' = [subscribed EXCEPT ![node] = [t \in Topic |-> NULL]]
        /\ pipe' = [pipe EXCEPT ![node] = [p \in Node |-> <<>>]]
        /\ called' = NoCall
    BY <2>1 DEF End
  <2>3. Advertising' = [Advertising EXCEPT ![node] = {}]
    BY <2>2 DEF Advertising, Up, TypeOK
  <2>4. Bus!Leave(node)
    BY <2>2, <2>3 DEF Bus!Leave, Bus!NoCall, NoCall, Advertising
  <2>5. QED
    BY <2>4 DEF Bus!Next
<1>3. ASSUME NEW node \in Node, Tick(node)
      PROVE  Bus!Next
  BY <1>3, BusInternal DEF Tick, node_vars
<1>4. ASSUME NEW datagram \in Foreign, SendForeign(datagram)
      PROVE  Bus!Next
  BY <1>4, BusInternal DEF SendForeign, node_vars
<1>5. QED
  BY <1>1, <1>2, <1>3, <1>4

\* What dzmq_publish, dzmq_spin_once and the end of a process do to pipes and
\* callbacks is what the bus promises: no message of a C publisher reaches a
\* callback twice, out of order, or after the subscription has gone.
THEOREM CNodesImplementBus == Spec => ImplementsBus
<1>1. Init => Bus!Init
  <2>1. Init => Advertising = [n \in Node |-> {}]
    BY DEF Init, Advertising
  <2>2. QED
    BY <2>1 DEF Init, Bus!Init, Bus!NoCall, NoCall, Advertising
<1>2. IInv /\ [Next]_vars => [Bus!Next]_(Bus!vars)
  <2>1. CASE UNCHANGED vars
    <3>1. UNCHANGED <<subscribed, published, status, pipe, called>>
      BY <2>1 DEF vars, node_vars
    <3>2. Advertising' = Advertising
      BY <3>1 DEF Advertising, Up
    <3>3. QED
      BY <3>1, <3>2 DEF Bus!vars, Advertising
  <2>2. QED
    BY <2>1, NextCases, BusCalls, BusSpins, BusLifeAndNetwork DEF IInv
<1>3. QED
  BY <1>1, <1>2, InductiveInvariant, PTL DEF Spec, ImplementsBus, Bus!Spec
=============================================================================
