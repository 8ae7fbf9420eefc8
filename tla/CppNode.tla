------------------------------ MODULE CppNode ------------------------------
(***************************************************************************)
(* A C++ node as a whole (src/cpp/discZmq.cc): topics (module PubSub) and  *)
(* services (module Services) behind one SpinOnce, in one thread that runs *)
(* a program such as those of src/cpp/tools.  The broadcast socket is one  *)
(* for both; its datagrams are kept by kind, topicInbox and srvInbox.      *)
(***************************************************************************)
EXTENDS Integers, Sequences, FiniteSets, SequencesExt

CONSTANTS Address, Topic, Callback, Request, NULL, Faults, InboxCap,
          Data, CStr, PrefixOf, SingleConnect, HWM, MaxFilters,
          MaxRetries, MaxRequest,
          Programs \* the assignments of a program to each node to be looked at

Node == Address

\* What the assumptions of PubSub and Services come to here.
ASSUME NetworkAssumption ==
    Faults \subseteq {"loss", "dup", "connect", "exit"} /\ InboxCap \in Nat
ASSUME ValuesAssumption ==
    /\ NULL \notin Callback
    /\ CStr \in [Data -> Data]
    /\ MaxRequest \in Nat /\ Request = 1..MaxRequest
    /\ PrefixOf \subseteq Topic \X Topic
    /\ \A topic \in Topic : <<topic, topic>> \in PrefixOf
ASSUME BoundsAssumption ==
    /\ SingleConnect \in BOOLEAN
    /\ HWM \in Nat /\ MaxFilters \in Nat /\ MaxRetries \in Nat

\* A program is a sequence of calls, the constructor first; "Spin" and "getchar"
\* are where it ends.
Step ==
    [op : {"Node", "SpinOnce", "Spin", "getchar"}, topic : {NULL}] \cup
    [op : {"Advertise", "Subscribe", "Publish", "SrvAdvertise", "SrvRequest",
           "SrvRequestAsync"}, topic : Topic]
ASSUME ProgramsAssumption ==
    \A program \in Programs :
        /\ program \in [Node -> Seq(Step)]
        /\ \A n \in Node : program[n] # <<>> /\ Head(program[n]).op = "Node"

VARIABLES
    script,         \* what is left of n's program
    running, pc,    \* shared
    topics, filters, conns, topicInbox, pipe, called,    \* of PubSub
    topicsSrvs, links, srvInbox, requests, replies, call, \* of Services
    reply, made, outcome

topic_vars   == <<topics, filters, conns, topicInbox, pipe>>
service_vars == <<topicsSrvs, links, srvInbox, requests, replies, call, reply, made>>
vars == <<script, running, pc, topic_vars, called, service_vars, outcome>>

NextIs(node, op) == script[node] # <<>> /\ Head(script[node]).op = op

PS == INSTANCE PubSub WITH
    status <- [n \in Node |-> IF n \in running THEN "up"
                              ELSE IF NextIs(n, "Node") THEN "unborn" ELSE "gone"],
    inbox <- topicInbox,
    Publishers <- Node \X Topic, Subscribers <- Node \X Topic

SV == INSTANCE Services WITH
    inbox <- srvInbox, Repliers <- Node \X Topic, Withdrawers <- {},
    AsyncRequesters <- Node \X Topic, SyncRequesters <- Node \X Topic

-----------------------------------------------------------------------------
(* Programs                                                                *)

Do(op)         == [op |-> op, topic |-> NULL]
On(op, topic)  == [op |-> op, topic |-> topic]
Times(num, steps) == FlattenSeq([i \in 1..num |-> steps])

publisher(topic, num, selfSubscribe) ==
    <<Do("Node"), On("Advertise", topic)>>
    \o (IF selfSubscribe THEN <<On("Subscribe", topic)>> ELSE <<>>)
    \o Times(num, <<On("Publish", topic), Do("SpinOnce")>>)
    \o <<Do("getchar")>>

subscriber(topic) == <<Do("Node"), On("Subscribe", topic), Do("Spin")>>

replier(topic, selfCall) ==
    <<Do("Node"), On("SrvAdvertise", topic)>>
    \o (IF selfCall THEN <<On("SrvRequest", topic)>> ELSE <<>>)
    \o <<Do("Spin")>>

requester(topic, num, async) ==
    <<Do("Node")>>
    \o Times(num, <<On(IF async THEN "SrvRequestAsync" ELSE "SrvRequest", topic)>>)
    \o <<Do("Spin")>>

Init == script \in Programs /\ running = {} /\ PS!Fresh /\ SV!Fresh

\* called is what the last step of PubSub did, outcome what the last step did.
TopicsRest   == UNCHANGED <<topic_vars, called>>
ServicesRest == outcome' = SV!None /\ UNCHANGED <<running, service_vars>>

\* The constructor: from now on the node hears the broadcasts.
Start(node) ==
    /\ node \notin running /\ NextIs(node, "Node")
    /\ script' = [script EXCEPT ![node] = Tail(@)]
    /\ running' = running \cup {node}
    /\ called' = PS!NoCall /\ outcome' = SV!None
    /\ UNCHANGED <<pc, topic_vars, service_vars>>

\* The next call of the program.  SrvRequest goes on in BlockingCall, SpinOnce
\* at "spin".
Call(node) ==
    /\ SV!At(node, "app")
    /\ script' = [script EXCEPT ![node] = Tail(@)]
    /\ LET topic == Head(script[node]).topic IN
        \/ /\ ServicesRest /\ UNCHANGED pc
           /\ \/ NextIs(node, "Advertise") /\ PS!Advertise(node, topic)
              \/ /\ NextIs(node, "Subscribe")
                 /\ \E cb \in Callback : PS!Subscribe(node, topic, cb)
              \/ /\ NextIs(node, "Publish")
                 /\ \E data \in Data : PS!Publish(node, topic, data)
        \/ /\ TopicsRest
           /\ \/ /\ NextIs(node, "SrvAdvertise")
                 /\ \E cb \in Callback : SV!SrvAdvertise(node, topic, cb)
              \/ /\ NextIs(node, "SrvRequestAsync")
                 /\ \E cb \in Callback : SV!SrvRequestAsync(node, topic, cb)
              \/ NextIs(node, "SrvRequest") /\ SV!SrvRequest(node, topic)
        \/ /\ NextIs(node, "SpinOnce")
           /\ SV!Goto(node, "spin")
           /\ TopicsRest /\ ServicesRest

BlockingCall(node) == SV!BlockingCall(node) /\ TopicsRest /\ UNCHANGED script

-----------------------------------------------------------------------------
(* SpinOnce                                                                *)

Spins(node) == SV!At(node, "spin") \/ (SV!At(node, "app") /\ NextIs(node, "Spin"))

\* The four sockets of the poll, in the order in which SpinOnce looks at them.
Sockets == <<"subscriber", "srvReplier", "bcastSock", "srvRequester">>

Waiting(node) ==
    {i \in DOMAIN Sockets :
        CASE Sockets[i] = "subscriber"   -> \E p \in Node : pipe[node][p] # <<>>
          [] Sockets[i] = "srvReplier"   -> \E p \in Node : requests[node][p] # <<>>
          [] Sockets[i] = "bcastSock"    -> topicInbox[node] \cup srvInbox[node] # {}
          [] Sockets[i] = "srvRequester" -> \E p \in Node : replies[node][p] # <<>>}

\* A socket is served, one message of it.
Serve(node, i) ==
    /\ Spins(node) /\ SV!Unsent(node) = {}
    /\ UNCHANGED script
    /\ \/ /\ Sockets[i] = "subscriber"
          /\ SV!EndSpin(node) /\ ServicesRest
          /\ \E p \in Node : PS!RecvTopicUpdates(node, p)
       \/ /\ Sockets[i] = "srvReplier"
          /\ \E p \in Node : SV!RecvSrvRequest(node, p)
          /\ TopicsRest
       \/ /\ Sockets[i] = "bcastSock"
          /\ SV!EndSpin(node) /\ ServicesRest
          /\ \E datagram \in topicInbox[node] : PS!RecvDiscoveryUpdates(node, datagram)
       \/ /\ Sockets[i] = "bcastSock"
          /\ \E datagram \in srvInbox[node] : SV!RecvDiscoveryUpdates(node, datagram)
          /\ TopicsRest
       \/ /\ Sockets[i] = "srvRequester"
          /\ \E p \in Node : SV!RecvSrvReply(node, p)
          /\ TopicsRest

\* What comes before the poll, what ends it without a message, and the send in
\* the middle of RecvSrvRequest.
SpinAlone(node) ==
    /\ \/ /\ Spins(node)
          /\ \E t \in Topic, p \in Node : SV!SendPendingReq(node, t, p)
       \/ SV!PollTimeout(node)
       \/ \E p \in Node : SV!SendReply(node, p)
    /\ TopicsRest /\ UNCHANGED script

\* The socket whose turn it is.
First(waiting) == CHOOSE i \in waiting : \A j \in waiting : i <= j

-----------------------------------------------------------------------------
\* Mutant of Exit: the sockets for topics stay open.
ExitServicesOnly(node) ==
    /\ NextIs(node, "getchar")
    /\ script' = [script EXCEPT ![node] = <<>>]
    /\ SV!Exit(node) /\ TopicsRest

\* A key is pressed.  Crashes are in PubSub and Services.
Exit(node) ==
    /\ NextIs(node, "getchar")
    /\ script' = [script EXCEPT ![node] = <<>>]
    /\ SV!Exit(node) /\ PS!Exit(node)

\* A message on its way is not ready: any socket may be the first that is.
Next ==
    \E node \in Node :
        \/ Start(node) \/ Call(node) \/ BlockingCall(node) \/ SpinAlone(node)
        \/ \E i \in Waiting(node) : Serve(node, i)
        \/ Exit(node)

Spec == Init /\ [][Next]_vars

\* What a thread does when all that waits is ready.
Thread(node) ==
    \/ Start(node) \/ Call(node) \/ BlockingCall(node) \/ SpinAlone(node)
    \/ Waiting(node) # {} /\ Serve(node, First(Waiting(node)))

\* Every process gets the processor; nothing else is assumed.
FairSpec == Spec /\ \A node \in Node : WF_vars(Thread(node))

-----------------------------------------------------------------------------
(* Properties                                                              *)

NoSelfLink == SV!NoSelfLink /\ PS!NoSelfLink

\* Services leave topics alone: what a node does with its socket of publications
\* and its table of topics is what PubSub lets it do, the process started once.
TopicsArePubSub == PS!Spec

\* The program of a node goes on, or will, in Spin for ever.
Spinner(node) == node \in running /\ script[node] # <<>> /\ Last(script[node]).op = "Spin"

\* Publications have the first turn in every SpinOnce, and SrvRequest spins on
\* its own account; yet a subscriber that comes to spin learns the endpoint of
\* each node that spins and advertises the topic, and is connected if some node
\* besides it does.
DiscoverySettles ==
    \A n, p \in Node, t \in Topic :
        (Spinner(n) /\ PS!Subscribing(n, t) /\ Spinner(p) /\ PS!Advertising(p, t))
            ~> \/ /\ PS!HasAdvAddress(topics[n], t, p)
                  /\ n # p => PS!Connected(topics[n], t)
               \/ n \notin running \/ p \notin running

\* A service that another node offers answers each asynchronous request, whether
\* the request was made before the replier was known or after.
AsyncRequestsAreAnswered ==
    \A n \in Node, t \in Topic, id \in 1..MaxRequest :
        (/\ Spinner(n) /\ id \in ToSet(SV!Pending(n, t))
         /\ \E p \in Node \ {n} : Spinner(p) /\ SV!AdvertisedByMe(topicsSrvs[p], t))
            ~> \/ outcome # SV!None /\ outcome.node = n /\ outcome.response = id
               \/ running # Node

\* No call blocks for good while all processes live: a thread always comes back
\* to its program.
ThreadsGoOn ==
    \A n \in Node : []<>(pc[n] = "app" \/ running # Node)
=============================================================================
