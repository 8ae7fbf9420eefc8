-------------------------------- MODULE CNode --------------------------------
(***************************************************************************)
(* Nodes of the C library (src/c/src/dzmq/dzmq.c): discovery, publications *)
(* and the timer, in one thread that calls dzmq_spin_once in a loop.  One  *)
(* value names a node, its GUID and its TCP endpoint.  The lists of topics *)
(* and connections are sets here; module CLists has their cells.           *)
(***************************************************************************)
EXTENDS UdpBroadcast, Integers, Sequences, SequencesExt

CONSTANTS Node, Topic, Data, Callback, NULL,
          PrefixOf,    \* <<f, t>>: the name f is a prefix of the name t
          Publishers,  \* <<n, t>>: the application on n advertises topic t
          Subscribers, \* <<n, t>>: the application on n subscribes to t
          Timers,      \* the nodes whose application sets a timer
          Mach,        \* the nodes on Mac OS, where timing.c reads the clock
          Foreign,     \* datagrams from nodes that are not C nodes
          Other,       \* an address that is not a tcp:// one
          HWM          \* bound: messages a 0MQ pipe holds, dropped beyond

\* "connect": zmq_connect may fail; "os": zmq_poll, recvfrom and sendto may;
\* "init": dzmq_init may; "exit": processes end.
ASSUME FaultsAssumption ==
    Faults \subseteq {"loss", "dup", "connect", "os", "init", "exit"}
ASSUME ApplicationAssumption ==
    /\ Publishers \subseteq Node \X Topic /\ Subscribers \subseteq Node \X Topic
    /\ Timers \subseteq Node /\ Mach \subseteq Node
ASSUME ConstantsAssumption ==
    /\ PrefixOf \subseteq Topic \X Topic /\ \A t \in Topic : <<t, t>> \in PrefixOf
    /\ NULL \notin Callback /\ Other \notin Node /\ HWM \in Nat

\* Mutant of Adv: the endpoint is asked for before the bind.
AdvWithoutEndpoint(node, topic) ==
    [type |-> "ADV", topic |-> topic, guid |-> node, address |-> NULL]

Adv(node, topic) ==
    [type |-> "ADV", topic |-> topic, guid |-> node, address |-> node]
Sub(node, topic) == [type |-> "SUB", topic |-> topic, guid |-> node]

\* What deserialize_msg_header makes of datagrams of other origin.  A C++ SUB
\* is too short for the flags, which fails an assertion; a C++ ADV has a type
\* that is a letter of its topic.
CppSub == [type |-> "truncated", topic |-> NULL, guid |-> NULL]
CppAdv == [type |-> "unknown", topic |-> NULL, guid |-> NULL]
NotTcp == [type |-> "ADV", topic |-> NULL, guid |-> NULL, address |-> Other]

ASSUME ForeignAssumption == Foreign \subseteq {CppSub, CppAdv, NotTcp}

AdvDatagram == [type : {"ADV"}, topic : Topic, guid : Node, address : Node]
SubDatagram == [type : {"SUB"}, topic : Topic, guid : Node]
Datagram    == AdvDatagram \cup SubDatagram \cup Foreign
Message     == [topic : Topic, data : Data]
NoCall      == [node |-> NULL]
Call        == [node : Node, from : Node, topic : Topic, data : Data, cb : Callback]

VARIABLES
    status,      \* status[n]: has the process started, how has it ended
    published,   \* published[n]: published_topics, kept when the process ends
    subscribed,  \* subscribed[n][t]: the callback in subscribed_topics, or NULL
    connections, \* connections[n]: the addresses in the list of connections
    conns,       \* conns[n][p]: pipes from n's subscriber to p's publisher
    inbox,       \* inbox[n]: datagrams waiting in n's broadcast socket
    pipe,        \* pipe[n][p]: publications from p that n has yet to read
    leftover,    \* leftover[n]: the data part of a message has not been read
    pc,          \* pc[n]: before the timer check, in the poll, or out of dzmq_spin
    timer,       \* timer[n]: a timer callback is set
    elapsed,     \* elapsed[n]: the period of the timer has passed
    late,        \* late[n]: events served since then
    trouble,     \* a call of the system has failed, a foreign datagram was sent
    called       \* the callback the last step ran, if it ran one

node_vars == <<published, subscribed, connections, conns, leftover>>
timer_vars == <<timer, elapsed, late>>
vars == <<status, node_vars, inbox, pipe, pc, timer_vars, trouble, called>>

Up(node) == status[node] = "up"
Running  == {n \in Node : Up(n)}

Init ==
    /\ status = [n \in Node |-> "unborn"]
    /\ published = [n \in Node |-> {}]
    /\ subscribed = [n \in Node |-> [t \in Topic |-> NULL]]
    /\ connections = [n \in Node |-> {}]
    /\ conns = [n \in Node |-> [p \in Node |-> 0]]
    /\ inbox = [n \in Node |-> {}]
    /\ pipe = [n \in Node |-> [p \in Node |-> <<>>]]
    /\ leftover = [n \in Node |-> FALSE]
    /\ pc = [n \in Node |-> "timer"]
    /\ timer = [n \in Node |-> FALSE]
    /\ elapsed = [n \in Node |-> FALSE]
    /\ late = [n \in Node |-> 0]
    /\ trouble = FALSE
    /\ called = NoCall

-----------------------------------------------------------------------------
(* Life of a process.  Every program of the repository returns when         *)
(* dzmq_init fails.                                                         *)

DzmqInit(node) ==
    /\ status[node] = "unborn"
    /\ \/ status' = [status EXCEPT ![node] = "up"]
       \/ "init" \in Faults /\ status' = [status EXCEPT ![node] = "ended"]
    /\ called' = NoCall
    /\ UNCHANGED <<node_vars, inbox, pipe, pc, timer_vars, trouble>>

\* The process is gone with its sockets; nobody is told.
End(node, how) ==
    /\ status' = [status EXCEPT ![node] = how]
    /\ subscribed' = [subscribed EXCEPT ![node] = [t \in Topic |-> NULL]]
    /\ connections' = [connections EXCEPT ![node] = {}]
    /\ conns' = [conns EXCEPT ![node] = [p \in Node |-> 0]]
    /\ inbox' = [inbox EXCEPT ![node] = {}]
    /\ pipe' = [pipe EXCEPT ![node] = [p \in Node |-> <<>>]]
    /\ leftover' = [leftover EXCEPT ![node] = FALSE]
    /\ timer' = [timer EXCEPT ![node] = FALSE]
    /\ elapsed' = [elapsed EXCEPT ![node] = FALSE]
    /\ late' = [late EXCEPT ![node] = 0]
    /\ pc' = [pc EXCEPT ![node] = "timer"]
    /\ called' = NoCall
    /\ UNCHANGED <<published, trouble>>

\* The program ends because dzmq_spin returned, or because it is told to.
Exit(node) ==
    /\ Up(node)
    /\ pc[node] = "stopped" \/ "exit" \in Faults
    /\ End(node, "ended")

-----------------------------------------------------------------------------
(* Calls of the application, also from its callbacks.  A broadcast that     *)
(* fails is lost: the topic stays in its list.                              *)

Advertise(node, topic) ==
    /\ Up(node)
    /\ topic \notin published[node]
    /\ published' = [published EXCEPT ![node] = @ \cup {topic}]
    /\ inbox' \in Sent(Adv(node, topic), Running, inbox)
    /\ called' = NoCall
    /\ UNCHANGED <<status, subscribed, connections, conns, leftover, pipe, pc,
                   timer_vars, trouble>>

Subscribe(node, topic, cb) ==
    /\ Up(node)
    /\ subscribed[node][topic] = NULL
    /\ subscribed' = [subscribed EXCEPT ![node][topic] = cb]
    /\ inbox' \in Sent(Sub(node, topic), Running, inbox)
    /\ called' = NoCall
    /\ UNCHANGED <<status, published, connections, conns, leftover, pipe, pc,
                   timer_vars, trouble>>

\* The filters of the subscriber socket are the names in subscribed_topics.
Matches(node, topic) ==
    \E f \in Topic : subscribed[node][f] # NULL /\ <<f, topic>> \in PrefixOf

\* Every subscriber has an inproc pipe to the publisher of its own node.
Hears(m, p) == m = p \/ conns[m][p] > 0

\* Mutant of Advertised: any name will do.
AdvertisedOrNot(node, topic) == TRUE

Advertised(node, topic) == topic \in published[node]

\* The three parts of a message enter or miss a pipe together.
Publish(node, topic, data) ==
    /\ Up(node)
    /\ Advertised(node, topic)
    /\ \E heard \in SUBSET {m \in Running :
          /\ Matches(m, topic) /\ Hears(m, node) /\ Len(pipe[m][node]) < HWM} :
        pipe' = [m \in Node |-> IF m \in heard
                   THEN [pipe[m] EXCEPT ![node] =
                           Append(@, [topic |-> topic, data |-> data])]
                   ELSE pipe[m]]
    /\ called' = NoCall
    /\ UNCHANGED <<status, node_vars, inbox, pc, timer_vars, trouble>>

\* dzmq_timer with a callback, or dzmq_clear_timer.
DzmqTimer(node, set) ==
    /\ Up(node)
    /\ timer' = [timer EXCEPT ![node] = set]
    /\ elapsed' = [elapsed EXCEPT ![node] = FALSE]
    /\ late' = [late EXCEPT ![node] = 0]
    /\ called' = NoCall
    /\ UNCHANGED <<status, node_vars, inbox, pipe, pc, trouble>>

\* Time passes.
Tick(node) ==
    /\ timer[node] /\ ~elapsed[node]
    /\ elapsed' = [elapsed EXCEPT ![node] = TRUE]
    /\ called' = NoCall
    /\ UNCHANGED <<status, node_vars, inbox, pipe, pc, timer, late, trouble>>

-----------------------------------------------------------------------------
(* dzmq_spin_once: the timer, then one event of the poll                    *)

\* Elsewhere than on Mac OS timing.c hands clock_gettime the address of its
\* own parameter, the time stays undefined and so does what is left of the
\* period.
TimeIsUp(node) == IF node \in Mach THEN {elapsed[node]} ELSE BOOLEAN

\* Mutant of Fires: publications that wait go first.
FiresIfIdle(node, due) ==
    timer[node] /\ due /\ \A p \in Node : pipe[node][p] = <<>>

Fires(node, due) == timer[node] /\ due

\* The timer callback runs and ends this spin_once, or the poll begins.
TimerCheck(node) ==
    /\ Up(node)
    /\ pc[node] = "timer"
    /\ \E due \in TimeIsUp(node) :
        IF Fires(node, due)
        THEN /\ elapsed' = [elapsed EXCEPT ![node] = FALSE]
             /\ late' = [late EXCEPT ![node] = 0]
             /\ UNCHANGED pc
        ELSE /\ pc' = [pc EXCEPT ![node] = "poll"]
             /\ UNCHANGED <<elapsed, late>>
    /\ called' = NoCall
    /\ UNCHANGED <<status, node_vars, inbox, pipe, timer, trouble>>

\* What a served event does to the loop: spin_once returns 1 and dzmq_spin
\* goes on, or it returns 0 and dzmq_spin returns.
Served(node, point) ==
    /\ pc' = [pc EXCEPT ![node] = point]
    /\ late' = [late EXCEPT ![node] = IF elapsed[node] /\ @ < 2 THEN @ + 1 ELSE @]
    /\ UNCHANGED <<status, published, subscribed, timer, elapsed>>

\* The timeout of the poll, EINTR, or an error of poll or recvfrom.
PollEnds(node) ==
    /\ Up(node) /\ pc[node] = "poll"
    /\ \/ pc' = [pc EXCEPT ![node] = "timer"] /\ UNCHANGED trouble
       \/ "os" \in Faults /\ pc' = [pc EXCEPT ![node] = "stopped"] /\ trouble' = TRUE
    /\ called' = NoCall
    /\ UNCHANGED <<status, node_vars, inbox, pipe, timer_vars>>

\* Mutant of WantsConnection: the GUID is not looked at.
WantsAnyone(node, datagram) == datagram.address \notin connections[node]

WantsConnection(node, datagram) ==
    datagram.guid # node /\ datagram.address \notin connections[node]

\* A node connects to whoever advertises, whatever the topic.
HandleAdv(node, datagram) ==
    \/ /\ datagram.address # Other
       /\ ~WantsConnection(node, datagram)
       /\ Served(node, "timer")
       /\ UNCHANGED <<connections, conns, trouble>>
    \/ /\ datagram.address # Other
       /\ WantsConnection(node, datagram)
       /\ connections' = [connections EXCEPT ![node] = @ \cup {datagram.address}]
       /\ conns' = [conns EXCEPT ![node][datagram.address] = @ + 1]
       /\ Served(node, "timer")
       /\ UNCHANGED trouble
    \/ /\ datagram.address = Other \/ WantsConnection(node, datagram)
       /\ datagram.address # Other => "connect" \in Faults
       /\ trouble' = TRUE
       /\ Served(node, "stopped")
       /\ UNCHANGED <<connections, conns>>

\* deserialize_msg_header copies the name without a NUL after it, so what the
\* node reads is the name and whatever the stack holds behind it.
ReadAs(topic) == {t \in Topic : <<topic, t>> \in PrefixOf} \cup {NULL}

Answers(node, topic) == topic \in published[node]

HandleSub(node, datagram, box) ==
    \E topic \in ReadAs(datagram.topic) :
        \/ /\ Answers(node, topic)
           /\ inbox' \in Sent(Adv(node, topic), Running, box)
           /\ Served(node, "timer")
           /\ UNCHANGED trouble
        \/ /\ Answers(node, topic) /\ "os" \in Faults
           /\ inbox' = box /\ trouble' = TRUE
           /\ Served(node, "stopped")
        \/ /\ ~Answers(node, topic)
           /\ inbox' = box
           /\ Served(node, "timer")
           /\ UNCHANGED trouble

HandleBcastMsg(node, datagram) ==
    /\ Up(node) /\ pc[node] = "poll"
    /\ datagram \in inbox[node]
    /\ \E box \in Received(datagram, node, inbox) :
        \/ datagram.type = "ADV" /\ HandleAdv(node, datagram) /\ inbox' = box
        \/ /\ datagram.type = "SUB"
           /\ HandleSub(node, datagram, box)
           /\ UNCHANGED <<connections, conns>>
        \/ /\ datagram.type = "unknown"
           /\ Served(node, "timer") /\ inbox' = box
           /\ UNCHANGED <<connections, conns, trouble>>
    /\ called' = NoCall
    /\ UNCHANGED <<leftover, pipe>>

\* The assertion in deserialize_msg_header.
AbortOnDatagram(node, datagram) ==
    /\ Up(node) /\ pc[node] = "poll"
    /\ datagram \in inbox[node] /\ datagram.type = "truncated"
    /\ End(node, "aborted")

\* Mutant of Unread: the callback path does not read it either.
UnreadAlways(cb) == TRUE

\* Without a subscriber dzmq_spin_once returns before it reads the data part.
Unread(cb) == cb = NULL

RecvMessage(node, from) ==
    /\ Up(node) /\ pc[node] = "poll"
    /\ ~leftover[node]
    /\ pipe[node][from] # <<>>
    /\ pipe' = [pipe EXCEPT ![node][from] = Tail(@)]
    /\ LET msg == Head(pipe[node][from])
           cb  == subscribed[node][msg.topic]
       IN /\ called' = IF cb # NULL
                       THEN [node |-> node, from |-> from, topic |-> msg.topic,
                             data |-> msg.data, cb |-> cb]
                       ELSE NoCall
          /\ leftover' = [leftover EXCEPT ![node] = Unread(cb)]
          /\ Served(node, IF cb = NULL THEN "stopped" ELSE "timer")
    /\ UNCHANGED <<connections, conns, inbox, trouble>>

\* A data part read for a topic: the assertion that more parts follow.
AbortOnMessage(node) ==
    /\ Up(node) /\ pc[node] = "poll"
    /\ leftover[node]
    /\ End(node, "aborted")

\* A program that calls dzmq_spin again, or loops over dzmq_spin_once itself.
SpinAgain(node) ==
    /\ Up(node) /\ pc[node] = "stopped"
    /\ pc' = [pc EXCEPT ![node] = "timer"]
    /\ called' = NoCall
    /\ UNCHANGED <<status, node_vars, inbox, pipe, timer_vars, trouble>>

-----------------------------------------------------------------------------
\* Another kind of node broadcasts on the same port.
SendForeign(datagram) ==
    /\ inbox' \in Sent(datagram, Running, inbox)
    /\ trouble' = TRUE
    /\ called' = NoCall
    /\ UNCHANGED <<status, node_vars, pipe, pc, timer_vars>>

Application(node) ==
    \/ \E topic \in Topic :
        \/ /\ <<node, topic>> \in Publishers
           /\ \/ Advertise(node, topic)
              \/ \E data \in Data : Publish(node, topic, data)
        \/ /\ <<node, topic>> \in Subscribers
           /\ \E cb \in Callback : Subscribe(node, topic, cb)
    \/ node \in Timers /\ \E set \in BOOLEAN : DzmqTimer(node, set)
    \/ SpinAgain(node)

SpinOnce(node) ==
    \/ TimerCheck(node)
    \/ PollEnds(node)
    \/ \E datagram \in inbox[node] :
          HandleBcastMsg(node, datagram) \/ AbortOnDatagram(node, datagram)
    \/ \E from \in Node : RecvMessage(node, from)
    \/ AbortOnMessage(node)

Next ==
    \/ \E node \in Node :
        DzmqInit(node) \/ Exit(node) \/ Tick(node) \/ Application(node) \/ SpinOnce(node)
    \/ \E datagram \in Foreign : SendForeign(datagram)

Spec == Init /\ [][Next]_vars

-----------------------------------------------------------------------------
(* Properties                                                              *)

TypeOK ==
    /\ status \in [Node -> {"unborn", "up", "ended", "aborted"}]
    /\ published \in [Node -> SUBSET Topic]
    /\ subscribed \in [Node -> [Topic -> Callback \cup {NULL}]]
    /\ connections \in [Node -> SUBSET Node]
    /\ conns \in [Node -> [Node -> Nat]]
    /\ inbox \in [Node -> SUBSET Datagram]
    /\ pipe \in [Node -> [Node -> Seq(Message)]]
    /\ leftover \in [Node -> BOOLEAN]
    /\ pc \in [Node -> {"timer", "poll", "stopped"}]
    /\ timer \in [Node -> BOOLEAN] /\ elapsed \in [Node -> BOOLEAN]
    /\ late \in [Node -> 0..2]
    /\ trouble \in BOOLEAN
    /\ called \in Call \cup {NoCall}

\* Advertisements come repeatedly, for several topics, and from the node
\* itself; whichever come, a node has exactly one pipe to each address in its
\* list of connections, none to its own publisher beside the inproc one, and
\* the address belongs to a node that did advertise.
OnePipePerConnection ==
    \A n, p \in Node :
        /\ conns[n][p] = IF p \in connections[n] THEN 1 ELSE 0
        /\ p \in connections[n] => p # n /\ published[p] # {}

\* Names that extend a name some node subscribes to.
Longer(node) ==
    {t \in Topic : \E f \in Topic \ {t} :
        <<node, f>> \in Subscribers /\ <<f, t>> \in PrefixOf}

\* What ends dzmq_spin, or the process: as long as the calls of the system
\* work and only C nodes broadcast, the one cause is a publisher of a topic
\* whose name extends a subscribed one.  Repeated, late, misread and own
\* datagrams never do.
StopsOnLongerNameOnly ==
    \A n \in Node :
        (pc[n] = "stopped" \/ leftover[n] \/ status[n] = "aborted") =>
            trouble \/ \E p \in Node : published[p] \cap Longer(n) # {}

\* The timer is looked at once in a spin, before the poll, so a period that
\* ends during the poll is noticed one event later: never more, however many
\* datagrams and publications wait.
TimerWaitsForOneEvent ==
    \A n \in Mach : timer[n] => late[n] <= 1

-----------------------------------------------------------------------------
(* The inductive form of the three invariants above                        *)

\* An advertisement carries the address of its sender, which published.
AdvertisementsAreGenuine ==
    \A n \in Node : \A datagram \in inbox[n] :
        (datagram.type = "ADV" /\ datagram.address # Other) =>
            datagram.address = datagram.guid /\ published[datagram.guid] # {}

\* What waits in a pipe was published, and the reader's filters let it through.
MessagesWereFiltered ==
    \A n, p \in Node : \A i \in DOMAIN pipe[n][p] :
        /\ pipe[n][p][i].topic \in published[p]
        /\ Matches(n, pipe[n][p][i].topic)

\* Calls come from the application, after dzmq_init; foreign datagrams do not.
CallsAreTheApplications ==
    /\ \A n \in Node : status[n] = "unborn" => published[n] = {}
    /\ \A n \in Node, t \in Topic : subscribed[n][t] # NULL => <<n, t>> \in Subscribers
    /\ \A n \in Node : inbox[n] \cap Foreign # {} => trouble

\* Events count from the end of the period, and a poll begins before it.
TimerIsCheckedFirst ==
    \A n \in Mach :
        /\ ~elapsed[n] => late[n] = 0
        /\ timer[n] /\ pc[n] = "poll" => late[n] = 0

IInv ==
    /\ TypeOK
    /\ OnePipePerConnection /\ AdvertisementsAreGenuine
    /\ StopsOnLongerNameOnly /\ MessagesWereFiltered /\ CallsAreTheApplications
    /\ TimerWaitsForOneEvent /\ TimerIsCheckedFirst

\* C nodes implement the same bus as the C++ nodes do.
Bus == INSTANCE TopicBus WITH
    Payload <- Data,
    subs <- subscribed,
    adv  <- [n \in Node |-> IF Up(n) THEN published[n] ELSE {}],
    chan <- pipe
ImplementsBus == Bus!Spec
=============================================================================
