------------------------------- MODULE PyNode -------------------------------
(***************************************************************************)
(* Nodes of the Python module (src/python/disc_zmq.py).  The main thread   *)
(* calls advertise, subscribe, publish and spinOnce; a second thread, the  *)
(* repeater, walks the list of publishers each second and advertises them  *)
(* again.  One value names a process, its GUID and its TCP endpoint.       *)
(***************************************************************************)
EXTENDS UdpBroadcast, Integers, Sequences, SequencesExt

CONSTANTS Node, Topic, Data, Callback,
          CPeers,        \* nodes that may run the C library; they only publish
          PrefixOf,      \* <<f, t>>: the 0MQ filter f matches the topic t
          Publishers,    \* <<n, t>>: the application on n advertises topic t
          Talkers,       \* the nodes whose application publishes
          Subscribers,   \* <<n, t, cb>>: it subscribes cb to t
          SingleConnect, \* libzmq ignores a second connect to a tcp endpoint
          HWM,           \* bound: messages a 0MQ pipe holds, dropped beyond
          MaxList        \* bound: entries of a list of publishers, subscribers

\* "send": a sendto may raise; "connect": a connect may; "exit": processes end.
ASSUME FaultsAssumption ==
    Faults \subseteq {"loss", "dup", "send", "connect", "exit"}
ASSUME ApplicationAssumption ==
    /\ CPeers \subseteq Node /\ Talkers \subseteq Node
    /\ Publishers \subseteq Node \X Topic
    /\ Subscribers \subseteq (Node \ CPeers) \X Topic \X Callback
ASSUME PrefixAssumption ==
    PrefixOf \subseteq Topic \X Topic /\ \A t \in Topic : <<t, t>> \in PrefixOf
ASSUME BoundsAssumption ==
    SingleConnect \in BOOLEAN /\ HWM \in Nat /\ MaxList \in Nat

VARIABLES
    library,     \* library[n]: "Python" or "C", does not change
    main,        \* main[n]: running, dead of an exception, or the process is gone
    unsaid,      \* unsaid[n]: the topic of an advertise that has yet to announce it
    repeater,    \* repeater[n]: what the second thread does
    walk,        \* walk[n]: the publisher the repeater is at
    publishers,  \* publishers[n]: the topics in the list, one for each call
    subscribers, \* subscribers[n]: the topics and callbacks in the list
    connections, \* connections[n]: the list sub_connections
    links,       \* links[n][p]: pipes from n's subscriber to p's publisher
    inbox,       \* inbox[n]: datagrams waiting in n's broadcast socket
    pipe,        \* pipe[n][p]: publications from p that n has yet to read
    called       \* the callbacks the last step ran

lists == <<publishers, subscribers, connections, links>>
rep   == <<repeater, walk>>
vars  == <<library, main, unsaid, rep, lists, inbox, pipe, called>>

Adv(node, topic) == [type |-> "ADV", topic |-> topic, guid |-> node]
Sub(node, topic) == [type |-> "SUB", topic |-> topic, guid |-> node]
Datagram   == [type : {"ADV", "SUB"}, topic : Topic, guid : Node]
Connection == [topic : Topic, guid : Node, address : {"tcp", "inproc"}]
Message    == [topic : Topic, data : Data, parts : {2, 3}]

\* A process that has died in spin still runs its repeater and has its sockets.
Gone(node)    == main[node] \in {"unborn", "gone"}
Listening     == {n \in Node : ~Gone(n)}
Free(node)    == main[node] = "up" /\ unsaid[node] = <<>>

Init ==
    /\ library \in [Node -> {"Python", "C"}]
    /\ \A n \in Node : library[n] = "C" => n \in CPeers
    /\ main = [n \in Node |-> "unborn"]
    /\ unsaid = [n \in Node |-> <<>>]
    /\ repeater = [n \in Node |-> "none"]
    /\ walk = [n \in Node |-> 0]
    /\ publishers = [n \in Node |-> <<>>]
    /\ subscribers = [n \in Node |-> <<>>]
    /\ connections = [n \in Node |-> <<>>]
    /\ links = [n \in Node |-> [p \in Node |-> 0]]
    /\ inbox = [n \in Node |-> {}]
    /\ pipe = [n \in Node |-> [p \in Node |-> <<>>]]
    /\ called = {}

-----------------------------------------------------------------------------
(* Life of a process                                                       *)

\* The constructor's own call of the repeater finds no publisher and arms the
\* timer.
Start(node) ==
    /\ main[node] = "unborn"
    /\ main' = [main EXCEPT ![node] = "up"]
    /\ repeater' = [repeater EXCEPT ![node] =
                      IF library[node] = "C" THEN "none" ELSE "asleep"]
    /\ called' = {}
    /\ UNCHANGED <<library, unsaid, walk, lists, inbox, pipe>>

\* An exception that nobody catches ends the main thread, not the repeater.
Raised(node) ==
    /\ main' = [main EXCEPT ![node] = "raised"]
    /\ unsaid' = [unsaid EXCEPT ![node] = <<>>]

Cleared(node) ==
    /\ publishers' = [publishers EXCEPT ![node] = <<>>]
    /\ subscribers' = [subscribers EXCEPT ![node] = <<>>]
    /\ connections' = [connections EXCEPT ![node] = <<>>]
    /\ links' = [links EXCEPT ![node] = [p \in Node |-> 0]]
    /\ inbox' = [inbox EXCEPT ![node] = {}]
    /\ pipe' = [pipe EXCEPT ![node] = [p \in Node |-> <<>>]]

\* A crash, or an interrupt while the timer is armed, which the handler cancels.
Exit(node) ==
    /\ ~Gone(node)
    /\ "exit" \in Faults
    /\ main' = [main EXCEPT ![node] = "gone"]
    /\ unsaid' = [unsaid EXCEPT ![node] = <<>>]
    /\ repeater' = [repeater EXCEPT ![node] = "none"]
    /\ walk' = [walk EXCEPT ![node] = 0]
    /\ Cleared(node)
    /\ called' = {}
    /\ UNCHANGED library

\* An interrupt while the repeater walks: there is no timer to cancel, the
\* repeater arms the next one, and the process goes on for its sake.
Interrupt(node) ==
    /\ main[node] = "up"
    /\ "exit" \in Faults
    /\ repeater[node] = "walking"
    /\ Raised(node)
    /\ called' = {}
    /\ UNCHANGED <<library, rep, lists, inbox, pipe>>

-----------------------------------------------------------------------------
(* _connect_subscriber                                                     *)

Connected(node, topic, guid) ==
    \E c \in ToSet(connections[node]) : c.topic = topic /\ c.guid = guid

\* Mutant of Wants: the list of connections is not looked at.
WantsAgain(node, topic, guid, address) == (address = "inproc") <=> (guid = node)

\* inproc within the process, tcp to others, once for a topic and a publisher.
Wants(node, topic, guid, address) ==
    /\ (address = "inproc") <=> (guid = node)
    /\ ~Connected(node, topic, guid)

\* The connection is in the list before the connect that may raise.  Every
\* inproc name of a publisher is an endpoint of its own.
ConnectSubscriber(node, topic, guid, address) ==
    IF Wants(node, topic, guid, address)
    THEN /\ connections' = [connections EXCEPT ![node] =
              Append(@, [topic |-> topic, guid |-> guid, address |-> address])]
         /\ \/ links' = [links EXCEPT ![node][guid] =
                           IF SingleConnect /\ address = "tcp" THEN 1 ELSE @ + 1]
            \/ "connect" \in Faults /\ address = "tcp" /\ UNCHANGED links
    ELSE UNCHANGED <<connections, links>>

Lists(node, topic)      == topic \in ToSet(publishers[node])
Subscribed(node, topic) == \E s \in ToSet(subscribers[node]) : s.topic = topic
-----------------------------------------------------------------------------
(* Calls of the application                                                *)

\* Mutant of Inproc: a topic of one's own is left to the broadcast.
InprocNever(node, topic) == UNCHANGED <<connections, links>>

Inproc(node, topic) == ConnectSubscriber(node, topic, node, "inproc")

\* advertise binds and appends; the repeater may see the publisher before the
\* main thread goes on with _advertise.
Advertise(node, topic) ==
    /\ Free(node)
    /\ Len(publishers[node]) < MaxList
    /\ publishers' = [publishers EXCEPT ![node] = Append(@, topic)]
    /\ unsaid' = [unsaid EXCEPT ![node] = <<topic>>]
    /\ called' = {}
    /\ UNCHANGED <<library, main, rep, subscribers, connections, links, inbox, pipe>>

Announce(node) ==
    /\ main[node] = "up" /\ unsaid[node] # <<>>
    /\ LET topic == Head(unsaid[node]) IN
       \/ /\ inbox' \in Sent(Adv(node, topic), Listening, inbox)
          /\ IF Subscribed(node, topic) THEN Inproc(node, topic)
             ELSE UNCHANGED <<connections, links>>
          /\ unsaid' = [unsaid EXCEPT ![node] = <<>>]
          /\ UNCHANGED main
       \/ /\ "send" \in Faults
          /\ Raised(node)
          /\ UNCHANGED <<connections, links, inbox>>
    /\ called' = {}
    /\ UNCHANGED <<library, rep, publishers, subscribers, pipe>>

Subscribe(node, topic, cb) ==
    /\ Free(node)
    /\ Len(subscribers[node]) < MaxList
    /\ subscribers' = [subscribers EXCEPT ![node] = Append(@, [topic |-> topic, cb |-> cb])]
    /\ \/ /\ inbox' \in Sent(Sub(node, topic), Listening, inbox)
          /\ IF Lists(node, topic) THEN Inproc(node, topic)
             ELSE UNCHANGED <<connections, links>>
          /\ UNCHANGED <<main, unsaid>>
       \/ /\ "send" \in Faults
          /\ Raised(node)
          /\ UNCHANGED <<connections, links, inbox>>
    /\ called' = {}
    /\ UNCHANGED <<library, rep, publishers, pipe>>

\* The filters of a subscriber are the topics it connected for.
Filters(node) == {c.topic : c \in ToSet(connections[node])}
Hears(node, from, topic) ==
    ~Gone(node) /\ \E f \in Filters(node) : <<f, topic>> \in PrefixOf

\* Mutant of Parts: the topic is not sent.
PartsWithoutTopic(node) == IF library[node] = "C" THEN 2 ELSE 1

\* dzmq_publish puts a header between the topic and the data.
Parts(node) == IF library[node] = "C" THEN 3 ELSE 2

\* A message goes through every pipe once, if the pipe has room.
Publish(node, topic, data) ==
    /\ Free(node)
    /\ node \in Talkers
    /\ Lists(node, topic)
    /\ \E copies \in [Node -> 0..HWM] :
        /\ \A m \in Node :
            /\ copies[m] <= IF Hears(m, node, topic) THEN links[m][node] ELSE 0
            /\ Len(pipe[m][node]) + copies[m] <= HWM
        /\ LET msg == [topic |-> topic, data |-> data, parts |-> Parts(node)]
           IN  pipe' = [m \in Node |-> [pipe[m] EXCEPT ![node] =
                          @ \o [i \in 1..copies[m] |-> msg]]]
    /\ called' = {}
    /\ UNCHANGED <<library, main, unsaid, rep, lists, inbox>>

-----------------------------------------------------------------------------
(* spinOnce: one event of the poll                                         *)

\* An exception in here is printed and spinOnce goes on; what _advertise has
\* not sent is lost.
HandleAdvSub(node, datagram) ==
    /\ Free(node)
    /\ datagram \in inbox[node]
    /\ \E box \in Received(datagram, node, inbox) :
        IF datagram.type = "ADV"
        THEN /\ inbox' = box
             /\ IF Subscribed(node, datagram.topic)
                THEN ConnectSubscriber(node, datagram.topic, datagram.guid, "tcp")
                ELSE UNCHANGED <<connections, links>>
        ELSE /\ IF Lists(node, datagram.topic)
                THEN inbox' \in Sent(Adv(node, datagram.topic), Listening, box)
                ELSE inbox' = box
             /\ UNCHANGED <<connections, links>>
    /\ called' = {}
    /\ UNCHANGED <<library, main, unsaid, rep, publishers, subscribers, pipe>>

\* Every callback of the topic runs; two parts do not unpack into three.
RecvMessage(node, from) ==
    /\ Free(node)
    /\ pipe[node][from] # <<>>
    /\ pipe' = [pipe EXCEPT ![node][from] = Tail(@)]
    /\ LET msg == Head(pipe[node][from]) IN
       IF msg.parts = 3
       THEN /\ called' = {s.cb : s \in {r \in ToSet(subscribers[node]) : r.topic = msg.topic}}
            /\ UNCHANGED <<main, unsaid>>
       ELSE /\ called' = {}
            /\ Raised(node)
    /\ UNCHANGED <<library, rep, lists, inbox>>

-----------------------------------------------------------------------------
(* _advertisement_repeater, in a thread of its own each time               *)

Wake(node) ==
    /\ repeater[node] = "asleep"
    /\ repeater' = [repeater EXCEPT ![node] = "walking"]
    /\ walk' = [walk EXCEPT ![node] = 1]
    /\ called' = {}
    /\ UNCHANGED <<library, main, unsaid, lists, inbox, pipe>>

\* A sendto that raises ends the thread before it arms the next timer.
Repeat(node) ==
    /\ repeater[node] = "walking" /\ walk[node] <= Len(publishers[node])
    /\ \/ /\ inbox' \in Sent(Adv(node, publishers[node][walk[node]]), Listening, inbox)
          /\ walk' = [walk EXCEPT ![node] = @ + 1]
          /\ UNCHANGED repeater
       \/ /\ "send" \in Faults
          /\ repeater' = [repeater EXCEPT ![node] = "dead"]
          /\ walk' = [walk EXCEPT ![node] = 0]
          /\ UNCHANGED inbox
    /\ called' = {}
    /\ UNCHANGED <<library, main, unsaid, lists, pipe>>

\* Mutant of Rearmed: no further timer.
RearmedNever(node) == "none"

Rearmed(node) == "asleep"

Rearm(node) ==
    /\ repeater[node] = "walking" /\ walk[node] > Len(publishers[node])
    /\ repeater' = [repeater EXCEPT ![node] = Rearmed(node)]
    /\ walk' = [walk EXCEPT ![node] = 0]
    /\ called' = {}
    /\ UNCHANGED <<library, main, unsaid, lists, inbox, pipe>>

-----------------------------------------------------------------------------
Application(node) ==
    \/ \E topic \in Topic :
        /\ <<node, topic>> \in Publishers
        /\ Advertise(node, topic) \/ \E data \in Data : Publish(node, topic, data)
    \/ \E topic \in Topic, cb \in Callback :
        <<node, topic, cb>> \in Subscribers /\ Subscribe(node, topic, cb)

SpinOnce(node) ==
    \/ \E datagram \in inbox[node] : HandleAdvSub(node, datagram)
    \/ \E from \in Node : RecvMessage(node, from)

Repeater(node) == Wake(node) \/ Repeat(node) \/ Rearm(node)

Next ==
    \E node \in Node :
        \/ Start(node) \/ Exit(node) \/ Interrupt(node)
        \/ Application(node) \/ Announce(node)
        \/ SpinOnce(node) \/ Repeater(node)

Spec == Init /\ [][Next]_vars

\* Both threads run, spin serves the broadcast socket, and an advertisement
\* repeated for ever is heard some time.
Fairness ==
    \A n \in Node :
        /\ WF_vars(Announce(n)) /\ WF_vars(Repeater(n))
        /\ \A p \in Node \ {n}, t \in Topic :
            /\ WF_vars(HandleAdvSub(n, Adv(p, t)))
            /\ SF_vars(Repeat(n) /\ Adv(n, t) \in inbox'[p])

FairSpec == Spec /\ Fairness

-----------------------------------------------------------------------------
(* Properties                                                              *)

TypeOK ==
    /\ library \in [Node -> {"Python", "C"}]
    /\ main \in [Node -> {"unborn", "up", "raised", "gone"}]
    /\ unsaid \in [Node -> Seq(Topic)]
    /\ repeater \in [Node -> {"none", "asleep", "walking", "dead"}]
    /\ walk \in [Node -> 0 .. MaxList + 1]
    /\ publishers \in [Node -> Seq(Topic)]
    /\ subscribers \in [Node -> Seq([topic : Topic, cb : Callback])]
    /\ connections \in [Node -> Seq(Connection)]
    /\ links \in [Node -> [Node -> Nat]]
    /\ inbox \in [Node -> SUBSET Datagram]
    /\ pipe \in [Node -> [Node -> Seq(Message)]]
    /\ called \subseteq Callback

ConnectionsTo(node, guid) ==
    {i \in DOMAIN connections[node] : connections[node][i].guid = guid}

\* Two threads, repeated advertise and subscribe calls, and datagrams that come
\* twice ask for the same connection; a node has it once, by inproc to itself
\* and by tcp to others, and no pipe without an entry in sub_connections.
OnePerTopicAndPublisher ==
    \A n, p \in Node :
        /\ \A i, j \in ConnectionsTo(n, p) :
              connections[n][i].topic = connections[n][j].topic => i = j
        /\ \A i \in ConnectionsTo(n, p) :
              connections[n][i].address = IF n = p THEN "inproc" ELSE "tcp"
        /\ links[n][p] <= Cardinality(ConnectionsTo(n, p))

\* A node hears its own topics whichever of advertise and subscribe came first,
\* and whatever the broadcast loses.
OwnTopicsAreConnected ==
    \A n \in Node, t \in Topic :
        Free(n) /\ Lists(n, t) /\ Subscribed(n, t) => Connected(n, t, n)

\* The inductive form of the two: until _advertise has announced it, a topic of
\* one's own may wait for its connection,
OwnTopicsAreConnectedOrUnsaid ==
    \A n \in Node, t \in Topic :
        main[n] = "up" /\ Lists(n, t) /\ Subscribed(n, t) =>
            Connected(n, t, n) \/ t \in ToSet(unsaid[n])

\* and the main thread announces one topic before it does anything else, while
\* the repeater stays within the list.
ThreadsKeepToTheList ==
    \A n \in Node :
        /\ unsaid[n] = <<>> \/ \E t \in Topic : unsaid[n] = <<t>>
        /\ main[n] = "unborn" => publishers[n] = <<>>
        /\ Len(publishers[n]) <= MaxList
        /\ repeater[n] = "walking" => walk[n] >= 1

IInv ==
    /\ TypeOK /\ ThreadsKeepToTheList
    /\ OnePerTopicAndPublisher
    /\ OwnTopicsAreConnectedOrUnsaid

\* The repeater makes up for lost datagrams: a subscriber finds every publisher
\* in the end, unless one of them dies, and with it the thread.
DiscoverySurvivesLoss ==
    \A n, p \in Node, t \in Topic :
        (Subscribed(n, t) /\ Lists(p, t) /\ library[p] = "Python") ~>
            \/ Connected(n, t, p)
            \/ main[n] # "up" \/ Gone(p) \/ repeater[p] = "dead"

\* A program that advertises, subscribes and spins goes on until it is ended.
SpinSurvives == \A n \in Node : main[n] # "raised"
=============================================================================
