------------------------------ MODULE Services ------------------------------
(***************************************************************************)
(* Service calls between C++ nodes (src/cpp/discZmq.cc).  A node keeps a   *)
(* second table, topicsSrvs, for services; it sends requests through one   *)
(* DEALER socket (srvRequester) and answers them through another           *)
(* (srvReplier).  DEALER sockets do not pair requests with replies: a send *)
(* goes to any peer, a receive takes from any peer.  As in PubSub a node,  *)
(* its GUID and its replier endpoint are one value.  One thread runs the   *)
(* application and SpinOnce, so a node is at one point of its code, pc.    *)
(***************************************************************************)
EXTENDS TopicsInfo, UdpBroadcast, Integers

CONSTANTS Repliers,        \* <<n, t>>: the application on n advertises service t
          Withdrawers,     \* <<n, t>>: ... and may take it back
          AsyncRequesters, \* <<n, t>>: it calls t with SrvRequestAsync
          SyncRequesters,  \* <<n, t>>: it calls t with SrvRequest
          MaxRetries,      \* 25 in SrvRequest
          MaxRequest       \* bound: requests made in a behaviour

Node == Address

\* "connect": a connect may throw; "exit": processes end.
ASSUME FaultsAssumption == Faults \subseteq {"loss", "dup", "connect", "exit"}
ASSUME RequestAssumption == MaxRequest \in Nat /\ Request = 1..MaxRequest
ASSUME RetriesAssumption == MaxRetries \in Nat
ASSUME ApplicationAssumption ==
    /\ Repliers \subseteq Node \X Topic /\ Withdrawers \subseteq Repliers
    /\ AsyncRequesters \subseteq Node \X Topic
    /\ SyncRequesters \subseteq Node \X Topic

VARIABLES
    running,    \* the processes that have not ended
    topicsSrvs, \* topicsSrvs[n]: the table of services of n
    links,      \* links[c]: the repliers c's srvRequester is connected to
    inbox,      \* inbox[n]: datagrams waiting in n's broadcast socket
    requests,   \* requests[s][c]: requests from c on their way to s
    replies,    \* replies[c][s]: replies from s on their way to c
    pc,         \* pc[n]: what the thread of n is doing
    call,       \* call[n]: the SrvRequest n is in
    reply,      \* reply[n]: the reply n is sending
    made,       \* number of requests made so far; it names the newest one
    outcome     \* the callback run, or the value returned, by the last step

vars == <<running, topicsSrvs, links, inbox, requests, replies,
          pc, call, reply, made, outcome>>
channels == <<requests, replies>>

\* Two requests are told apart by their number, and so are the responses: the
\* response that belongs to a request carries the request's number.
Message == [topic : Topic, data : Request]

\* Mutant of AdvSvc: the message type of a topic.
AdvOfTopic(node, topic) ==
    [type |-> "ADV", topic |-> topic, guid |-> node, address |-> node]

AdvSvc(node, topic) ==
    [type |-> "ADV_SVC", topic |-> topic, guid |-> node, address |-> node]
SubSvc(node, topic) == [type |-> "SUB_SVC", topic |-> topic, guid |-> node]
AdvDatagram == [type : {"ADV_SVC"}, topic : Topic, guid : Node, address : Address]
SubDatagram == [type : {"SUB_SVC"}, topic : Topic, guid : Node]
Datagram    == AdvDatagram \cup SubDatagram

None == [kind |-> NULL]
SrvCall == [topic : Topic, data : Request, retries : 0..MaxRetries]

\* What the constructor makes of the members, the sockets and the table.
Fresh ==
    /\ topicsSrvs = [n \in Node |-> EmptyTable]
    /\ links = [n \in Node |-> {}]
    /\ inbox = [n \in Node |-> {}]
    /\ requests = [n \in Node |-> [p \in Node |-> <<>>]]
    /\ replies = requests
    /\ pc = [n \in Node |-> "app"]
    /\ call = [n \in Node |-> None]
    /\ reply = call
    /\ made = 0
    /\ outcome = None

Init == running = Node /\ Fresh

At(node, point) == node \in running /\ pc[node] = point
Goto(node, point) == pc' = [pc EXCEPT ![node] = point]
Push(queue, to, from, msg) == [queue EXCEPT ![to][from] = Append(@, msg)]
Pop(queue, to, from) == [queue EXCEPT ![to][from] = Tail(@)]

-----------------------------------------------------------------------------
(* Calls of the application that return at once                            *)

SrvAdvertise(node, topic, cb) ==
    /\ At(node, "app")
    /\ topicsSrvs' = [topicsSrvs EXCEPT ![node] =
          SetRepCallback(SetAdvertisedByMe(@, topic, TRUE), topic, cb)]
    /\ inbox' \in Sent(AdvSvc(node, topic), running, inbox)
    /\ outcome' = None
    /\ UNCHANGED <<running, links, channels, pc, call, reply, made>>

SrvUnAdvertise(node, topic) ==
    /\ At(node, "app")
    /\ topicsSrvs' = [topicsSrvs EXCEPT ![node] =
          SetRepCallback(SetAdvertisedByMe(@, topic, FALSE), topic, NULL)]
    /\ outcome' = None
    /\ UNCHANGED <<running, links, inbox, channels, pc, call, reply, made>>

SrvRequestAsync(node, topic, cb) ==
    /\ At(node, "app")
    /\ made < MaxRequest
    /\ made' = made + 1
    /\ topicsSrvs' = [topicsSrvs EXCEPT ![node] =
          AddReq(SetReqCallback(SetRequested(@, topic, TRUE), topic, cb),
                 topic, made')]
    /\ inbox' \in Sent(SubSvc(node, topic), running, inbox)
    /\ outcome' = None
    /\ UNCHANGED <<running, links, channels, pc, call, reply>>

-----------------------------------------------------------------------------
(* SrvRequest, which blocks: it looks for a replier, spinning once for each *)
(* retry, then sends its request and waits for a message, any message.      *)

SrvRequest(node, topic) ==
    /\ At(node, "app")
    /\ made < MaxRequest
    /\ made' = made + 1
    /\ topicsSrvs' = [topicsSrvs EXCEPT ![node] = SetRequested(@, topic, TRUE)]
    /\ call' = [call EXCEPT ![node] =
          [topic |-> topic, data |-> made', retries |-> MaxRetries]]
    /\ Goto(node, "find")
    /\ outcome' = None
    /\ UNCHANGED <<running, links, inbox, channels, reply>>

Found(node) == Connected(topicsSrvs[node], call[node].topic)

\* Mutant of Countdown: retries are not counted.
CountdownNever(node) == call

Countdown(node) == [call EXCEPT ![node].retries = @ - 1]

\* Ask again, then SpinOnce, whose last step comes back to "find".
Retry(node) ==
    /\ At(node, "find") /\ ~Found(node) /\ call[node].retries > 0
    /\ inbox' \in Sent(SubSvc(node, call[node].topic), running, inbox)
    /\ call' = Countdown(node)
    /\ Goto(node, "spin")
    /\ outcome' = None
    /\ UNCHANGED <<running, topicsSrvs, links, channels, reply, made>>

Return(node, rc, response) ==
    /\ outcome' = [kind |-> "return", node |-> node, topic |-> call[node].topic,
                   data |-> call[node].data, rc |-> rc, response |-> response]
    /\ call' = [call EXCEPT ![node] = None]
    /\ Goto(node, "app")

GiveUp(node) ==
    /\ At(node, "find") /\ ~Found(node) /\ call[node].retries = 0
    /\ Return(node, -1, 0)
    /\ UNCHANGED <<running, topicsSrvs, links, inbox, channels, reply, made>>

SendRequest(node, peer) ==
    /\ At(node, "find") /\ Found(node)
    /\ peer \in links[node]
    /\ requests' = Push(requests, peer, node,
                        [topic |-> call[node].topic, data |-> call[node].data])
    /\ Goto(node, "await")
    /\ outcome' = None
    /\ UNCHANGED <<running, topicsSrvs, links, inbox, replies, call, reply, made>>

\* The next message of srvRequester is taken for the response.
TakeResponse(node, peer) ==
    /\ At(node, "await")
    /\ replies[node][peer] # <<>>
    /\ replies' = Pop(replies, node, peer)
    /\ Return(node, 0, Head(replies[node][peer]).data)
    /\ UNCHANGED <<running, topicsSrvs, links, inbox, requests, reply, made>>

\* 250 ms may be too short for an answer that is on its way.
Timeout(node) ==
    /\ At(node, "await")
    /\ Return(node, -1, 0)
    /\ UNCHANGED <<running, topicsSrvs, links, inbox, channels, reply, made>>

-----------------------------------------------------------------------------
(* SpinOnce: pending requests are sent first, then one socket is served or  *)
(* the poll times out.  A call that finds nothing to send and nothing to    *)
(* receive changes nothing; one made by the application shows as a step     *)
(* from "app".                                                              *)

Unsent(node) ==
    {t \in Topic : Connected(topicsSrvs[node], t) /\ PendingReqs(topicsSrvs[node], t)}

Spins(node) == At(node, "app") \/ At(node, "spin")
Polls(node) == Spins(node) /\ Unsent(node) = {}
EndSpin(node) == Goto(node, IF call[node] = None THEN "app" ELSE "find")

\* One round of the inner loop of SendPendingAsyncSrvCalls.
SendPendingReq(node, topic, peer) ==
    /\ Spins(node)
    /\ topic \in Unsent(node)
    /\ peer \in links[node]
    /\ topicsSrvs' = [topicsSrvs EXCEPT ![node] = DelReq(@, topic)]
    /\ requests' = Push(requests, peer, node,
          [topic |-> topic, data |-> OldestReq(topicsSrvs[node], topic)])
    /\ Goto(node, "spin")
    /\ outcome' = None
    /\ UNCHANGED <<running, links, inbox, replies, call, reply, made>>

PollTimeout(node) ==
    /\ At(node, "spin") /\ Unsent(node) = {}
    /\ EndSpin(node)
    /\ outcome' = None
    /\ UNCHANGED <<running, topicsSrvs, links, inbox, channels, call, reply, made>>

\* The callback of an advertised service computes the response.
RecvSrvRequest(node, peer) ==
    /\ Polls(node)
    /\ requests[node][peer] # <<>>
    /\ requests' = Pop(requests, node, peer)
    /\ LET msg == Head(requests[node][peer]) IN
        IF AdvertisedByMe(topicsSrvs[node], msg.topic)
        THEN reply' = [reply EXCEPT ![node] = msg] /\ Goto(node, "reply")
        ELSE UNCHANGED reply /\ EndSpin(node)
    /\ outcome' = None
    /\ UNCHANGED <<running, topicsSrvs, links, inbox, replies, call, made>>

\* The reply goes to any requester that is connected; without one, it waits.
SendReply(node, peer) ==
    /\ At(node, "reply")
    /\ peer \in running /\ node \in links[peer]
    /\ replies' = Push(replies, peer, node, reply[node])
    /\ reply' = [reply EXCEPT ![node] = None]
    /\ EndSpin(node)
    /\ outcome' = None
    /\ UNCHANGED <<running, topicsSrvs, links, inbox, requests, call, made>>

RecvSrvReply(node, peer) ==
    /\ Polls(node)
    /\ replies[node][peer] # <<>>
    /\ replies' = Pop(replies, node, peer)
    /\ LET msg == Head(replies[node][peer])
           cb  == GetReqCallback(topicsSrvs[node], msg.topic)
       IN outcome' = IF cb # NULL
                     THEN [kind |-> "callback", node |-> node, topic |-> msg.topic,
                           cb |-> cb, response |-> msg.data]
                     ELSE None
    /\ EndSpin(node)
    /\ UNCHANGED <<running, topicsSrvs, links, inbox, requests, call, reply, made>>

\* Mutant of WantsConnection: the GUID is not looked at.
WantsAnyone(table, node, datagram) ==
    Requested(table, datagram.topic) /\ ~Connected(table, datagram.topic)

WantsConnection(table, node, datagram) ==
    /\ Requested(table, datagram.topic)
    /\ ~Connected(table, datagram.topic)
    /\ datagram.guid # node

\* Mutant of DispatchAdvSvc: the flag is set before the connect that may throw.
DispatchAdvSvcFlagFirst(node, datagram) ==
    LET known == AddAdvAddress(topicsSrvs[node], datagram.topic, datagram.address)
        wants == WantsConnection(known, node, datagram)
    IN /\ topicsSrvs' = [topicsSrvs EXCEPT ![node] =
             IF wants THEN SetConnected(known, datagram.topic, TRUE) ELSE known]
       /\ \/ wants /\ links' = [links EXCEPT ![node] = @ \cup {datagram.address}]
          \/ (wants => "connect" \in Faults) /\ UNCHANGED links

DispatchAdvSvc(node, datagram) ==
    LET known == AddAdvAddress(topicsSrvs[node], datagram.topic, datagram.address) IN
    \/ /\ WantsConnection(known, node, datagram)
       /\ links' = [links EXCEPT ![node] = @ \cup {datagram.address}]
       /\ topicsSrvs' = [topicsSrvs EXCEPT ![node] =
                           SetConnected(known, datagram.topic, TRUE)]
    \/ /\ WantsConnection(known, node, datagram) => "connect" \in Faults
       /\ topicsSrvs' = [topicsSrvs EXCEPT ![node] = known]
       /\ UNCHANGED links

\* Mutant of DispatchSubSvc: nobody answers.
DispatchSubSvcNever(node, datagram, box) == inbox' = box

DispatchSubSvc(node, datagram, box) ==
    IF AdvertisedByMe(topicsSrvs[node], datagram.topic)
    THEN inbox' \in Sent(AdvSvc(node, datagram.topic), running, box)
    ELSE inbox' = box

RecvDiscoveryUpdates(node, datagram) ==
    /\ Polls(node)
    /\ datagram \in inbox[node]
    /\ \E box \in Received(datagram, node, inbox) :
        \/ datagram.type = "ADV_SVC" /\ DispatchAdvSvc(node, datagram) /\ inbox' = box
        \/ /\ datagram.type = "SUB_SVC"
           /\ DispatchSubSvc(node, datagram, box)
           /\ UNCHANGED <<topicsSrvs, links>>
    /\ EndSpin(node)
    /\ outcome' = None
    /\ UNCHANGED <<running, channels, call, reply, made>>

-----------------------------------------------------------------------------
\* A process ends, with its sockets.  What it sent may still arrive.
Exit(node) ==
    /\ "exit" \in Faults
    /\ node \in running
    /\ running' = running \ {node}
    /\ topicsSrvs' = [topicsSrvs EXCEPT ![node] = EmptyTable]
    /\ links' = [links EXCEPT ![node] = {}]
    /\ inbox' = [inbox EXCEPT ![node] = {}]
    /\ requests' = [requests EXCEPT ![node] = [p \in Node |-> <<>>]]
    /\ replies' = [replies EXCEPT ![node] = [p \in Node |-> <<>>]]
    /\ pc' = [pc EXCEPT ![node] = "app"]
    /\ call' = [call EXCEPT ![node] = None]
    /\ reply' = [reply EXCEPT ![node] = None]
    /\ outcome' = None
    /\ UNCHANGED made

Application(node) ==
    \E topic \in Topic :
        \/ /\ <<node, topic>> \in Repliers
           /\ \E cb \in Callback : SrvAdvertise(node, topic, cb)
        \/ <<node, topic>> \in Withdrawers /\ SrvUnAdvertise(node, topic)
        \/ /\ <<node, topic>> \in AsyncRequesters
           /\ \E cb \in Callback : SrvRequestAsync(node, topic, cb)
        \/ <<node, topic>> \in SyncRequesters /\ SrvRequest(node, topic)

BlockingCall(node) ==
    \/ Retry(node) \/ GiveUp(node) \/ Timeout(node)
    \/ \E peer \in Node : SendRequest(node, peer) \/ TakeResponse(node, peer)

SpinOnce(node) ==
    \/ \E topic \in Topic, peer \in Node : SendPendingReq(node, topic, peer)
    \/ PollTimeout(node)
    \/ \E peer \in Node : \/ RecvSrvRequest(node, peer)
                          \/ SendReply(node, peer)
                          \/ RecvSrvReply(node, peer)
    \/ \E datagram \in inbox[node] : RecvDiscoveryUpdates(node, datagram)

\* A reply may still be on its way when SpinOnce polls, so sockets are served in
\* any order.
Next ==
    \E node \in Node :
        Application(node) \/ BlockingCall(node) \/ SpinOnce(node) \/ Exit(node)

Spec == Init /\ [][Next]_vars

-----------------------------------------------------------------------------
(* Properties                                                              *)

TypeOK ==
    /\ running \subseteq Node
    /\ DOMAIN topicsSrvs = Node /\ \A n \in Node : IsTable(topicsSrvs[n])
    /\ links \in [Node -> SUBSET Node]
    /\ inbox \in [Node -> SUBSET Datagram]
    /\ requests \in [Node -> [Node -> Seq(Message)]]
    /\ replies \in [Node -> [Node -> Seq(Message)]]
    /\ pc \in [Node -> {"app", "find", "await", "spin", "reply"}]
    /\ call \in [Node -> SrvCall \cup {None}]
    /\ reply \in [Node -> Message \cup {None}]
    /\ made \in 0..MaxRequest

\* The socket that sends requests is never connected to the replier of its own
\* node, although the node records its own advertisements.
NoSelfLink == \A n \in Node : n \notin links[n]

\* A send on a DEALER socket without a peer blocks the only thread of the node
\* for good.  SendPendingAsyncSrvCalls and SrvRequest look at the connected
\* flag alone before they send, and that is enough.
ConnectedHasLink ==
    \A n \in Node, t \in Topic :
        Connected(topicsSrvs[n], t) =>
            \E p \in links[n] : p # n /\ HasAdvAddress(topicsSrvs[n], t, p)

\* What the three invariants above rest on: an endpoint always travels with the
\* GUID of the node it belongs to, and a node is in a call, or has a reply to
\* send, whenever it is at a point of its code that uses one.
AdvertisedBySender ==
    \A n \in Node : \A datagram \in inbox[n] :
        datagram.type = "ADV_SVC" => datagram.address = datagram.guid

ControlInv ==
    \A n \in Node :
        /\ pc[n] \in {"find", "await"} => call[n] # None
        /\ pc[n] = "reply" => reply[n] # None

IInv ==
    /\ TypeOK
    /\ NoSelfLink
    /\ ConnectedHasLink
    /\ AdvertisedBySender
    /\ ControlInv

Pending(node, topic) == Info(topicsSrvs[node], topic).pendingReqs
Holding(queue, id) == {i \in DOMAIN queue : queue[i].data = id}

\* Every place that holds request id, or the response to it.
Copies(id) ==
    (UNION {{<<"pending", n, t, i>> : i \in {j \in DOMAIN Pending(n, t) :
                Pending(n, t)[j] = id}} : n \in Node, t \in Topic})
    \cup {<<"call", n>> : n \in {m \in Node :
            call[m] # None /\ pc[m] # "await" /\ call[m].data = id}}
    \cup (UNION {{<<"request", n, p, i>> : i \in Holding(requests[n][p], id)} :
                n \in Node, p \in Node})
    \cup {<<"reply", n>> : n \in {m \in Node : reply[m] # None /\ reply[m].data = id}}
    \cup (UNION {{<<"response", n, p, i>> : i \in Holding(replies[n][p], id)} :
                n \in Node, p \in Node})

\* Retries, repeated datagrams and several repliers for one service never make
\* a second copy of a request or of a response: a service callback runs at most
\* once for each request.
NoSecondCopy == \A id \in 1..made : Cardinality(Copies(id)) <= 1

\* Asynchronous requests for a service leave their node in the order in which
\* they were made: whatever still waits is younger than what has been sent.
AsyncInOrder ==
    \A n \in Node, t \in Topic : <<n, t>> \notin SyncRequesters =>
        LET waiting == Pending(n, t) IN
        /\ \A i, j \in DOMAIN waiting : i < j => waiting[i] < waiting[j]
        /\ \A p \in Node, i \in DOMAIN waiting :
              \A msg \in ToSet(requests[p][n]) :
                  msg.topic = t => msg.data < waiting[i]

\* A DEALER socket hands requests to repliers of other services, too; a reply
\* comes from a node whose application advertised the service nevertheless.
OnlyAdvertisersReply ==
    \A n \in Node :
        /\ reply[n] # None => <<n, reply[n].topic>> \in Repliers
        /\ \A p \in Node : \A msg \in ToSet(replies[p][n]) :
              <<n, msg.topic>> \in Repliers

\* Each request runs through the phases of module ServiceCalls once, and each
\* response is handed to the application at most once.
IdsIn(queues) ==
    UNION {{msg.data : msg \in ToSet(queues[n][p])} : n \in Node, p \in Node}
Queued == (UNION {ToSet(Pending(n, t)) : n \in Node, t \in Topic}) \cup
          {call[n].data : n \in {m \in Node : call[m] # None /\ pc[m] # "await"}}
Served == {reply[n].data : n \in {m \in Node : reply[m] # None}} \cup IdsIn(replies)

Calls == INSTANCE ServiceCalls WITH
    phase <- [id \in 1..MaxRequest |->
        IF id > made THEN "new"
        ELSE IF id \in Queued THEN "queued"
        ELSE IF id \in IdsIn(requests) THEN "sent"
        ELSE IF id \in Served THEN "served"
        ELSE "over"],
    answer <- IF outcome = None THEN 0 ELSE outcome.response
ImplementsCalls == Calls!Spec

\* What src/cpp/discZmq.hh says of SrvRequest ("_response Response of the
\* request"): a call that returns 0 returns the response to its own request.
ResponseMatchesRequest ==
    outcome # None /\ outcome.kind = "return" /\ outcome.rc = 0
        => outcome.response = outcome.data
=============================================================================
