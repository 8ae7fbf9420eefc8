---------------------------- MODULE CppNode_proofs ----------------------------
(***************************************************************************)
(* Theorems about module CppNode, for every set of nodes, topics and       *)
(* programs: behind one SpinOnce, topics still are what module PubSub says *)
(* they are and services keep what Services_proofs proves of them.  Each   *)
(* step of a node is a step of one of the two modules and, seen from the   *)
(* other, a step in which nothing happens.                                 *)
(***************************************************************************)
EXTENDS CppNode, SequenceTheorems, TLAPS

\* PubSub and Services once more, with their theorems.
PSP == INSTANCE PubSub_proofs WITH
    status <- [n \in Node |-> IF n \in running THEN "up"
                              ELSE IF NextIs(n, "Node") THEN "unborn" ELSE "gone"],
    inbox <- topicInbox,
    Publishers <- Node \X Topic, Subscribers <- Node \X Topic

SVP == INSTANCE Services_proofs WITH
    inbox <- srvInbox, Repliers <- Node \X Topic, Withdrawers <- {},
    AsyncRequesters <- Node \X Topic, SyncRequesters <- Node \X Topic

-----------------------------------------------------------------------------
(* What the theorems of the two modules rest on                            *)

\* The assumptions of PubSub, and of what it extends, hold here.
LEMMA TopicsAssumptions ==
  /\ PSP!NullIsNoCallback /\ PSP!InboxCapAssumption /\ PSP!FaultsAssumption
  /\ PSP!ApplicationAssumption /\ PSP!CStrAssumption /\ PSP!PrefixAssumption
  /\ PSP!BoundsAssumption
  BY NetworkAssumption, ValuesAssumption, BoundsAssumption
     DEF PSP!NullIsNoCallback, PSP!InboxCapAssumption, PSP!FaultsAssumption,
         PSP!ApplicationAssumption, PSP!CStrAssumption, PSP!PrefixAssumption,
         PSP!BoundsAssumption, PSP!Node, Node

\* The assumptions of Services, and of what it extends, hold here.
LEMMA ServicesAssumptions ==
  /\ SVP!NullIsNoCallback /\ SVP!InboxCapAssumption /\ SVP!FaultsAssumption
  /\ SVP!RequestAssumption /\ SVP!RetriesAssumption /\ SVP!ApplicationAssumption
  BY NetworkAssumption, ValuesAssumption, BoundsAssumption
     DEF SVP!NullIsNoCallback, SVP!InboxCapAssumption, SVP!FaultsAssumption,
         SVP!RequestAssumption, SVP!RetriesAssumption, SVP!ApplicationAssumption,
         SVP!Node, Node

\* PS and PSP name the same definitions.
LEMMA SameTopics ==
  /\ PS!Init => PSP!Init
  /\ PS!Next => PSP!Next
  /\ UNCHANGED PS!vars => UNCHANGED PSP!vars
  BY DEF
      PS!Next, PSP!Next, PS!Init, PSP!Init, PS!vars, PSP!vars, PS!Node,
      PSP!Node, PS!Start, PSP!Start, PS!Exit, PSP!Exit, PS!Application,
      PSP!Application, PS!SpinOnce, PSP!SpinOnce, PS!Fresh, PSP!Fresh,
      PS!NoCall, PSP!NoCall, PS!Up, PSP!Up, PS!EmptyTable, PSP!EmptyTable,
      PS!Advertise, PSP!Advertise, PS!UnAdvertise, PSP!UnAdvertise, PS!Publish,
      PSP!Publish, PS!Subscribe, PSP!Subscribe, PS!UnSubscribe,
      PSP!UnSubscribe, PS!RecvTopicUpdates, PSP!RecvTopicUpdates,
      PS!RecvDiscoveryUpdates, PSP!RecvDiscoveryUpdates, PS!NewTopicInfo,
      PSP!NewTopicInfo, PS!SetAdvertisedByMe, PSP!SetAdvertisedByMe, PS!Sent,
      PSP!Sent, PS!Adv, PSP!Adv, PS!Running, PSP!Running, PS!AdvertisedByMe,
      PSP!AdvertisedByMe, PS!Cardinality, PSP!Cardinality, PS!MayGet,
      PSP!MayGet, PS!Copies, PSP!Copies, PS!SetCallback, PSP!SetCallback,
      PS!SetSubscribed, PSP!SetSubscribed, PS!Sub, PSP!Sub, PS!GetCallback,
      PSP!GetCallback, PS!Subscribed, PSP!Subscribed, PS!Received,
      PSP!Received, PS!DispatchAdv, PSP!DispatchAdv, PS!DispatchSub,
      PSP!DispatchSub, PS!Insert, PSP!Insert, PS!Info, PSP!Info, PS!Matches,
      PSP!Matches, PS!Pipes, PSP!Pipes, PS!AddAdvAddress, PSP!AddAdvAddress,
      PS!WantsConnection, PSP!WantsConnection, PS!ZmqConnect, PSP!ZmqConnect,
      PS!SetConnected, PSP!SetConnected, PS!HasTopic, PSP!HasTopic,
      PS!HasAdvAddress, PSP!HasAdvAddress, PS!Connected, PSP!Connected,
      PS!AdvAddresses, PSP!AdvAddresses, PS!ToSet, PSP!ToSet

\* SV and SVP name the same definitions.
LEMMA SameServices ==
  /\ SV!Fresh => SVP!Fresh
  /\ SV!Next => SVP!Next
  /\ \A node : /\ SV!Spins(node) => SVP!Spins(node)
               /\ SV!EndSpin(node) => SVP!EndSpin(node)
               /\ \A point : SV!Goto(node, point) => SVP!Goto(node, point)
  /\ SV!None = SVP!None
  BY DEF
      SV!Next, SVP!Next, SV!Fresh, SVP!Fresh, SV!Spins, SVP!Spins, SV!Goto,
      SVP!Goto, SV!EndSpin, SVP!EndSpin, SV!None, SVP!None, SV!Node, SVP!Node,
      SV!Application, SVP!Application, SV!BlockingCall, SVP!BlockingCall,
      SV!SpinOnce, SVP!SpinOnce, SV!Exit, SVP!Exit, SV!EmptyTable,
      SVP!EmptyTable, SV!At, SVP!At, SV!SrvAdvertise, SVP!SrvAdvertise,
      SV!SrvUnAdvertise, SVP!SrvUnAdvertise, SV!SrvRequestAsync,
      SVP!SrvRequestAsync, SV!SrvRequest, SVP!SrvRequest, SV!Retry, SVP!Retry,
      SV!GiveUp, SVP!GiveUp, SV!Timeout, SVP!Timeout, SV!SendRequest,
      SVP!SendRequest, SV!TakeResponse, SVP!TakeResponse, SV!SendPendingReq,
      SVP!SendPendingReq, SV!PollTimeout, SVP!PollTimeout, SV!RecvSrvRequest,
      SVP!RecvSrvRequest, SV!SendReply, SVP!SendReply, SV!RecvSrvReply,
      SVP!RecvSrvReply, SV!RecvDiscoveryUpdates, SVP!RecvDiscoveryUpdates,
      SV!NewTopicInfo, SVP!NewTopicInfo, SV!SetRepCallback, SVP!SetRepCallback,
      SV!SetAdvertisedByMe, SVP!SetAdvertisedByMe, SV!Sent, SVP!Sent,
      SV!AdvSvc, SVP!AdvSvc, SV!channels, SVP!channels, SV!AddReq, SVP!AddReq,
      SV!SetReqCallback, SVP!SetReqCallback, SV!SetRequested, SVP!SetRequested,
      SV!SubSvc, SVP!SubSvc, SV!Found, SVP!Found, SV!Countdown, SVP!Countdown,
      SV!Return, SVP!Return, SV!Push, SVP!Push, SV!Pop, SVP!Pop, SV!Unsent,
      SVP!Unsent, SV!DelReq, SVP!DelReq, SV!OldestReq, SVP!OldestReq, SV!Polls,
      SVP!Polls, SV!AdvertisedByMe, SVP!AdvertisedByMe, SV!GetReqCallback,
      SVP!GetReqCallback, SV!Received, SVP!Received, SV!DispatchAdvSvc,
      SVP!DispatchAdvSvc, SV!DispatchSubSvc, SVP!DispatchSubSvc, SV!Insert,
      SVP!Insert, SV!Info, SVP!Info, SV!Cardinality, SVP!Cardinality,
      SV!Connected, SVP!Connected, SV!PendingReqs, SVP!PendingReqs,
      SV!AddAdvAddress, SVP!AddAdvAddress, SV!WantsConnection,
      SVP!WantsConnection, SV!SetConnected, SVP!SetConnected, SV!HasTopic,
      SVP!HasTopic, SV!HasAdvAddress, SVP!HasAdvAddress, SV!Requested,
      SVP!Requested, SV!AdvAddresses, SVP!AdvAddresses, SV!ToSet, SVP!ToSet

-----------------------------------------------------------------------------
(* Programs                                                                *)

\* What is left of a program is a program, and only nodes run.
ProgramsOK == script \in [Node -> Seq(Step)] /\ running \subseteq Node

\* A call of the program that is about a topic names one.
LEMMA TopicOfCall ==
  ASSUME ProgramsOK, NEW node \in Node, NEW op, NextIs(node, op),
         op \notin {"Node", "SpinOnce", "Spin", "getchar"}
  PROVE  Head(script[node]).topic \in Topic
<1>1. Head(script[node]) \in Step /\ Head(script[node]).op = op
  BY DEF ProgramsOK, NextIs
<1>2. QED
  BY <1>1 DEF Step

\* A step that leaves the program alone, takes its first call or ends it.
LEMMA ProgramsStep ==
  ASSUME ProgramsOK, NEW node \in Node, running' \subseteq Node,
         \/ UNCHANGED script
         \/ script' = [script EXCEPT ![node] = <<>>]
         \/ \E op : NextIs(node, op) /\ script' = [script EXCEPT ![node] = Tail(@)]
  PROVE  ProgramsOK'
<1>1. script[node] \in Seq(Step) /\ <<>> \in Seq(Step)
  BY DEF ProgramsOK
<1>2. script[node] # <<>> => Tail(script[node]) \in Seq(Step)
  BY <1>1
<1>3. script' \in [Node -> Seq(Step)]
  BY <1>1, <1>2 DEF ProgramsOK, NextIs
<1>4. QED
  BY <1>3 DEF ProgramsOK

\* While a node runs or has yet to start, and its program stays, PubSub sees no
\* change in it.
LEMMA StatusStays ==
  ASSUME NEW node \in running, UNCHANGED running,
         \A n \in Node : n # node => script'[n] = script[n], TopicsRest
  PROVE  UNCHANGED PS!vars
  BY DEF TopicsRest, topic_vars, PS!vars, PS!Node, NextIs, Node

-----------------------------------------------------------------------------
(* What a step of a node is to PubSub and to Services                      *)

\* The constructor is Start in PubSub and nothing in Services.
LEMMA StartIs ==
  ASSUME ProgramsOK, NEW node \in Node, Start(node)
  PROVE  PS!Next /\ SVP!Aside /\ ProgramsOK'
<1>1. ProgramsOK'
  BY ProgramsStep DEF Start, ProgramsOK
<1>2. SVP!Aside
  BY <1>1, SameServices DEF Start, ProgramsOK, service_vars, SVP!Aside, SVP!channels,
     SVP!Node, Node
<1>3. /\ script \in [Node -> Seq(Step)]
      /\ script' = [script EXCEPT ![node] = Tail(@)]
      /\ running' = running \cup {node} /\ node \notin running /\ NextIs(node, "Node")
  BY DEF Start, ProgramsOK
<1>4. \A n \in Node : n # node => script'[n] = script[n]
  BY <1>3
<1>5. PS!Start(node)
  BY <1>3, <1>4 DEF Start, topic_vars, PS!Start, PS!Node, Node, NextIs
<1>6. QED
  BY <1>1, <1>2, <1>5 DEF PS!Next, PS!Node, Node

\* Rests of a step that concerns topics alone.
LEMMA ServicesRestIs ==
  ASSUME ProgramsOK, ServicesRest, NEW node \in Node,
         UNCHANGED pc \/ (SV!Spins(node) /\ (SV!Goto(node, "spin") \/ SV!EndSpin(node)))
  PROVE  SVP!Aside
  BY SameServices DEF ServicesRest, ProgramsOK, service_vars, SVP!Aside, SVP!channels,
     SVP!Node, Node

\* A call of the program is a call of one of the two, or begins to spin.
LEMMA CallIs ==
  ASSUME ProgramsOK, NEW node \in Node, Call(node)
  PROVE  (PS!Next \/ UNCHANGED PS!vars) /\ (SV!Next \/ SVP!Aside) /\ ProgramsOK'
<1> DEFINE topic == Head(script[node]).topic
<1>1. /\ node \in running /\ SV!At(node, "app")
      /\ script' = [script EXCEPT ![node] = Tail(@)]
      /\ \A n \in Node : n # node => script'[n] = script[n]
  BY DEF Call, SV!At, ProgramsOK
<1>2. CASE /\ ServicesRest /\ UNCHANGED pc
           /\ \/ NextIs(node, "Advertise") /\ PS!Advertise(node, topic)
              \/ /\ NextIs(node, "Subscribe")
                 /\ \E cb \in Callback : PS!Subscribe(node, topic, cb)
              \/ /\ NextIs(node, "Publish")
                 /\ \E data \in Data : PS!Publish(node, topic, data)
  <2>1. topic \in Topic
    BY <1>2, TopicOfCall
  <2> HIDE DEF topic
  <2>2. PS!Application(node)
    BY <1>2, <2>1 DEF PS!Application, Node
  <2>3. ProgramsOK'
    BY <1>1, <1>2, ProgramsStep DEF ServicesRest, ProgramsOK
  <2>4. QED
    BY <1>2, <2>2, <2>3, ServicesRestIs DEF PS!Next, PS!Node, Node
<1>3. CASE /\ TopicsRest
           /\ \/ /\ NextIs(node, "SrvAdvertise")
                 /\ \E cb \in Callback : SV!SrvAdvertise(node, topic, cb)
              \/ /\ NextIs(node, "SrvRequestAsync")
                 /\ \E cb \in Callback : SV!SrvRequestAsync(node, topic, cb)
              \/ NextIs(node, "SrvRequest") /\ SV!SrvRequest(node, topic)
  <2>1. topic \in Topic
    BY <1>3, TopicOfCall
  <2> HIDE DEF topic
  <2>2. SV!Application(node)
    BY <1>3, <2>1 DEF SV!Application, Node
  <2>3. UNCHANGED running
    BY <1>3 DEF SV!SrvAdvertise, SV!SrvRequestAsync, SV!SrvRequest
  <2>4. ProgramsOK'
    BY <1>1, <1>3, <2>3, ProgramsStep DEF ProgramsOK
  <2>5. UNCHANGED PS!vars
    BY <1>1, <1>3, <2>3, StatusStays
  <2>6. QED
    BY <2>2, <2>4, <2>5 DEF SV!Next, SV!Node, Node
<1>4. CASE /\ NextIs(node, "SpinOnce")
           /\ SV!Goto(node, "spin")
           /\ TopicsRest /\ ServicesRest
  <2>1. UNCHANGED running
    BY <1>4 DEF ServicesRest
  <2>2. SVP!Aside
    BY <1>1, <1>4, ServicesRestIs DEF SV!Spins
  <2>3. ProgramsOK'
    BY <1>1, <1>4, <2>1, ProgramsStep DEF ProgramsOK
  <2>4. QED
    BY <1>1, <1>4, <2>1, <2>2, <2>3, StatusStays
<1>5. QED
  BY <1>2, <1>3, <1>4 DEF Call

\* SrvRequest blocks on its own, and SpinOnce sends requests and replies: steps
\* of Services during which topics rest.
LEMMA AloneIs ==
  ASSUME ProgramsOK, NEW node \in Node, BlockingCall(node) \/ SpinAlone(node)
  PROVE  UNCHANGED PS!vars /\ SV!Next /\ ProgramsOK'
<1>1. TopicsRest /\ UNCHANGED script
  BY DEF BlockingCall, SpinAlone
<1>2. SV!BlockingCall(node) \/ SV!SpinOnce(node)
  BY DEF BlockingCall, SpinAlone, SV!SpinOnce, SV!Node, Node
<1>3. node \in running /\ UNCHANGED running
  BY <1>2 DEF SV!BlockingCall, SV!SpinOnce, SV!Retry, SV!GiveUp, SV!Timeout,
     SV!SendRequest, SV!TakeResponse, SV!SendPendingReq, SV!PollTimeout,
     SV!RecvSrvRequest, SV!SendReply, SV!RecvSrvReply, SV!RecvDiscoveryUpdates,
     SV!At, SV!Spins, SV!Polls
<1>4. ProgramsOK'
  BY <1>1, <1>3, ProgramsStep DEF ProgramsOK
<1>5. UNCHANGED PS!vars
  BY <1>1, <1>3, StatusStays
<1>6. QED
  BY <1>2, <1>4, <1>5 DEF SV!Next, SV!Node, Node

\* A socket that is served belongs to one of the two; the broadcast socket, to
\* the one its datagram is for.
LEMMA ServeIs ==
  ASSUME ProgramsOK, NEW node \in Node, NEW i, Serve(node, i)
  PROVE  (PS!Next \/ UNCHANGED PS!vars) /\ (SV!Next \/ SVP!Aside) /\ ProgramsOK'
<1>1. UNCHANGED script /\ SV!Spins(node) /\ node \in running
  BY DEF Serve, Spins, SV!Spins, SV!At
<1>2. CASE /\ SV!EndSpin(node) /\ ServicesRest
           /\ \/ \E p \in Node : PS!RecvTopicUpdates(node, p)
              \/ \E datagram \in topicInbox[node] : PS!RecvDiscoveryUpdates(node, datagram)
  <2>1. PS!SpinOnce(node)
    BY <1>2 DEF PS!SpinOnce, PS!Node, Node
  <2>2. ProgramsOK'
    BY <1>1, <1>2, ProgramsStep DEF ServicesRest, ProgramsOK
  <2>3. QED
    BY <1>1, <1>2, <2>1, <2>2, ServicesRestIs DEF PS!Next, PS!Node, Node
<1>3. CASE /\ TopicsRest
           /\ \/ \E p \in Node : SV!RecvSrvRequest(node, p)
              \/ \E datagram \in srvInbox[node] : SV!RecvDiscoveryUpdates(node, datagram)
              \/ \E p \in Node : SV!RecvSrvReply(node, p)
  <2>1. SV!SpinOnce(node)
    BY <1>3 DEF SV!SpinOnce, SV!Node, Node
  <2>2. UNCHANGED running
    BY <1>3 DEF SV!RecvSrvRequest, SV!RecvDiscoveryUpdates, SV!RecvSrvReply
  <2>3. ProgramsOK'
    BY <1>1, <2>2, ProgramsStep DEF ProgramsOK
  <2>4. UNCHANGED PS!vars
    BY <1>1, <1>3, <2>2, StatusStays
  <2>5. QED
    BY <2>1, <2>3, <2>4 DEF SV!Next, SV!Node, Node
<1>4. QED
  BY <1>2, <1>3 DEF Serve

\* The end of a process is the end of both.
LEMMA ExitIs ==
  ASSUME ProgramsOK, NEW node \in Node, Exit(node)
  PROVE  PS!Next /\ SV!Next /\ ProgramsOK'
<1>1. script' = [script EXCEPT ![node] = <<>>] /\ running' \subseteq Node
  BY DEF Exit, SV!Exit, ProgramsOK
<1>2. ProgramsOK'
  BY <1>1, ProgramsStep
<1>3. QED
  BY <1>2 DEF Exit, PS!Next, PS!Node, SV!Next, SV!Node, Node

\* Every step is one of PubSub or leaves it alone, and one of Services or leaves
\* it aside.
LEMMA EveryStep ==
  ASSUME ProgramsOK, Next
  PROVE  (PS!Next \/ UNCHANGED PS!vars) /\ (SV!Next \/ SVP!Aside) /\ ProgramsOK'
  BY StartIs, CallIs, AloneIs, ServeIs, ExitIs DEF Next

\* Nothing happens to either when no variable of the node changes.
LEMMA NoStep ==
  ASSUME ProgramsOK, UNCHANGED vars
  PROVE  UNCHANGED PS!vars /\ UNCHANGED SVP!vars /\ ProgramsOK'
  BY DEF vars, topic_vars, service_vars, PS!vars, PS!Node, NextIs, Node, SVP!vars,
     SVP!channels, ProgramsOK

-----------------------------------------------------------------------------
(* Topics                                                                  *)

\* The programs keep their shape.
LEMMA ProgramsAreOK == Spec => []ProgramsOK
<1>1. Init => ProgramsOK
  BY ProgramsAssumption DEF Init, ProgramsOK
<1>2. ProgramsOK /\ [Next]_vars => ProgramsOK'
  BY EveryStep, NoStep
<1>3. QED
  BY <1>1, <1>2, PTL DEF Spec

\* What a node does for topics is what PubSub lets it do, whatever its program
\* and whatever it does for services at the same time: no step for services,
\* the blocking ones included, touches a variable of PubSub, and each process
\* starts once and ends once.
THEOREM TopicsAreOfPubSub == Spec => TopicsArePubSub
<1>1. Init => PS!Init
  BY ProgramsAssumption DEF Init, PS!Init, PS!Node, Node, NextIs
<1>2. ProgramsOK /\ [Next]_vars => [PS!Next]_(PS!vars)
  BY EveryStep, NoStep
<1>3. QED
  BY <1>1, <1>2, ProgramsAreOK, PTL DEF Spec, TopicsArePubSub, PS!Spec

\* The same by the name that the theorems of PubSub have here.
LEMMA TopicsSpec == Spec => PSP!Spec
<1>1. PS!Init => PSP!Init
  BY SameTopics
<1>2. [PS!Next]_(PS!vars) => [PSP!Next]_(PSP!vars)
  BY SameTopics
<1>3. QED
  BY <1>1, <1>2, TopicsAreOfPubSub, PTL DEF TopicsArePubSub, PS!Spec, PSP!Spec

\* So all that is proved of PubSub is true of a node: no pipe to its own
\* publisher, no connected flag without a pipe, no address that is not genuine,
\* no subscribed topic without its callback and its filter.
THEOREM TopicsStaySafe ==
  Spec => [](/\ PS!NoSelfLink /\ PS!ConnectedHasLink /\ PS!AddressesAreGenuine
             /\ PS!SubscriptionIsServed)
<1>1. Spec => [](PSP!IInv /\ PSP!SubscriptionIsServed)
  BY TopicsSpec, TopicsAssumptions, PSP!InductiveInvariant, PSP!ServedSubscriptions, PTL
<1>2. PSP!IInv /\ PSP!SubscriptionIsServed =>
        /\ PS!NoSelfLink /\ PS!ConnectedHasLink /\ PS!AddressesAreGenuine
        /\ PS!SubscriptionIsServed
  BY DEF PSP!IInv, PS!NoSelfLink, PSP!NoSelfLink, PS!ConnectedHasLink,
     PSP!ConnectedHasLink, PS!AddressesAreGenuine, PSP!AddressesAreGenuine,
     PS!SubscriptionIsServed, PSP!SubscriptionIsServed, PS!Node, PSP!Node,
     PS!Up, PSP!Up, PS!Subscribed, PSP!Subscribed, PS!GetCallback,
     PSP!GetCallback, PS!Connected, PSP!Connected, PS!HasAdvAddress,
     PSP!HasAdvAddress, PS!AdvAddresses, PSP!AdvAddresses, PS!HasTopic,
     PSP!HasTopic, PS!Info, PSP!Info, PS!NewTopicInfo, PSP!NewTopicInfo,
     PS!ToSet, PSP!ToSet
<1>3. QED
  BY <1>1, <1>2, PTL

\* And with a libzmq that keeps one pipe for each endpoint the topics of whole
\* nodes are the bus of TopicBus.
THEOREM TopicsImplementBus ==
  ASSUME SingleConnect
  PROVE  Spec => PS!ImplementsBus
<1>1. PSP!Spec => PSP!ImplementsBus
  BY TopicsAssumptions, PSP!NodesImplementBus
<1>2. /\ PSP!Bus!Init => PS!Bus!Init
      /\ [PSP!Bus!Next]_(PSP!Bus!vars) => [PS!Bus!Next]_(PS!Bus!vars)
    BY DEF PS!Bus!Init, PSP!Bus!Init, PS!Bus!Next, PSP!Bus!Next, PS!Bus!vars,
     PSP!Bus!vars, PS!Bus!NoCall, PSP!Bus!NoCall, PS!Bus!Subscribe,
     PSP!Bus!Subscribe, PS!Bus!Advertise, PSP!Bus!Advertise,
     PS!Bus!UnAdvertise, PSP!Bus!UnAdvertise, PS!Bus!Publish, PSP!Bus!Publish,
     PS!Bus!Deliver, PSP!Bus!Deliver, PS!Bus!Leave, PSP!Bus!Leave,
     PS!Bus!Internal, PSP!Bus!Internal, PS!Node, PSP!Node, PS!Subscribed,
     PSP!Subscribed, PS!GetCallback, PSP!GetCallback, PS!AdvertisedByMe,
     PSP!AdvertisedByMe, PS!Info, PSP!Info, PS!NewTopicInfo, PSP!NewTopicInfo,
     PS!HasTopic, PSP!HasTopic
<1>3. QED
  BY <1>1, <1>2, TopicsSpec, PTL DEF PSP!ImplementsBus, PS!ImplementsBus,
     PSP!Bus!Spec, PS!Bus!Spec

-----------------------------------------------------------------------------
(* Services                                                                *)

\* What is proved of Services, for nodes that start when they like and that
\* serve topics between two steps for services.
ServicesInv == SVP!IInv /\ SVP!HeldInv

\* A step of a node keeps it, and is one of ServiceCalls.
LEMMA ServicesStep ==
  ASSUME ProgramsOK, ServicesInv, [Next]_vars
  PROVE  ServicesInv'
<1>1. CASE SVP!Next \/ UNCHANGED SVP!vars
  BY <1>1, ServicesAssumptions, SVP!NextHeld DEF ServicesInv
<1>2. CASE SVP!Aside
  BY <1>2, ServicesAssumptions, SVP!AsideStep DEF ServicesInv
<1>3. QED
  BY <1>1, <1>2, EveryStep, NoStep, SameServices

\* So it holds in every reachable state.
LEMMA ServicesInductive == Spec => [](ProgramsOK /\ ServicesInv)
<1>1. Init => ServicesInv
  BY ServicesAssumptions, SameServices, SVP!FreshHeld DEF Init, ServicesInv
<1>2. ProgramsOK /\ ServicesInv /\ [Next]_vars => ServicesInv'
  BY ServicesStep
<1>3. QED
  BY <1>1, <1>2, ProgramsAreOK, PTL DEF Spec

\* A node that also serves topics, that starts late and that runs any program
\* of calls, blocking ones and asynchronous ones: its requester has no link to
\* its own replier and, where the connected flag is set, one to a replier that
\* advertised the service; no request or response is ever in two places.
THEOREM ServicesStaySafe ==
  Spec => [](SV!NoSelfLink /\ SV!ConnectedHasLink /\ SV!NoSecondCopy)
<1>1. ServicesInv => SVP!NoSelfLink /\ SVP!ConnectedHasLink /\ SVP!NoSecondCopy
  BY ServicesAssumptions, SVP!HeldOnceIsOneCopy DEF ServicesInv, SVP!IInv
<1>2. SVP!NoSelfLink /\ SVP!ConnectedHasLink => SV!NoSelfLink /\ SV!ConnectedHasLink
  BY DEF
     SV!NoSelfLink, SVP!NoSelfLink, SV!ConnectedHasLink, SVP!ConnectedHasLink,
     SV!Node, SVP!Node, SV!Connected, SVP!Connected, SV!HasAdvAddress,
     SVP!HasAdvAddress, SV!AdvAddresses, SVP!AdvAddresses, SV!HasTopic,
     SVP!HasTopic, SV!Info, SVP!Info, SV!NewTopicInfo, SVP!NewTopicInfo,
     SV!ToSet, SVP!ToSet
<1>3. SVP!NoSecondCopy => SV!NoSecondCopy
  <2>1. \A id : SV!Copies(id) = SVP!Copies(id)
    BY DEF
       SV!Copies, SVP!Copies, SV!Pending, SVP!Pending, SV!Holding, SVP!Holding,
       SV!None, SVP!None, SV!Node, SVP!Node, SV!Info, SVP!Info, SV!HasTopic,
       SVP!HasTopic, SV!NewTopicInfo, SVP!NewTopicInfo
  <2>2. \A S : SV!Cardinality(S) = SVP!Cardinality(S)
    BY DEF SV!Cardinality, SVP!Cardinality
  <2>3. QED
    BY <2>1, <2>2 DEF SV!NoSecondCopy, SVP!NoSecondCopy
<1>4. QED
  BY <1>1, <1>2, <1>3, ServicesInductive, PTL

\* The run's invariant: neither socket of a node is ever connected to the node
\* itself, although the one broadcast socket brings it all its own datagrams.
THEOREM NeverLinkedToItself == Spec => []NoSelfLink
<1>1. (SV!NoSelfLink /\ SV!ConnectedHasLink /\ SV!NoSecondCopy)
      /\ (/\ PS!NoSelfLink /\ PS!ConnectedHasLink /\ PS!AddressesAreGenuine
          /\ PS!SubscriptionIsServed)
      => NoSelfLink
  BY DEF NoSelfLink
<1>2. QED
  BY <1>1, TopicsStaySafe, ServicesStaySafe, PTL

\* The two instances of ServiceCalls, under SV and under SVP, are one.
LEMMA SameCalls ==
  /\ SVP!Calls!Init => SV!Calls!Init
  /\ [SVP!Calls!Next]_(SVP!Calls!vars) => [SV!Calls!Next]_(SV!Calls!vars)
<1>1. /\ SV!Queued = SVP!Queued /\ SV!Served = SVP!Served
      /\ SV!IdsIn(requests) = SVP!IdsIn(requests) /\ SV!None = SVP!None
  BY DEF
     SV!Queued, SVP!Queued, SV!Served, SVP!Served, SV!IdsIn, SVP!IdsIn,
     SV!Pending, SVP!Pending, SV!None, SVP!None, SV!Node, SVP!Node, SV!Info,
     SVP!Info, SV!HasTopic, SVP!HasTopic, SV!NewTopicInfo, SVP!NewTopicInfo,
     SV!ToSet, SVP!ToSet
<1>2. /\ SV!Queued' = SVP!Queued' /\ SV!Served' = SVP!Served'
      /\ SV!IdsIn(requests)' = SVP!IdsIn(requests)'
  BY DEF
     SV!Queued, SVP!Queued, SV!Served, SVP!Served, SV!IdsIn, SVP!IdsIn,
     SV!Pending, SVP!Pending, SV!None, SVP!None, SV!Node, SVP!Node, SV!Info,
     SVP!Info, SV!HasTopic, SVP!HasTopic, SV!NewTopicInfo, SVP!NewTopicInfo,
     SV!ToSet, SVP!ToSet
<1>3. SVP!Calls!Init => SV!Calls!Init
  BY <1>1 DEF SV!Calls!Init, SVP!Calls!Init
<1>4. UNCHANGED SVP!Calls!vars => UNCHANGED SV!Calls!vars
  BY <1>1, <1>2 DEF SV!Calls!vars, SVP!Calls!vars
<1>5. \A id, from, to : SVP!Calls!Advance(id, from, to) => SV!Calls!Advance(id, from, to)
  BY <1>1, <1>2 DEF SV!Calls!Advance, SVP!Calls!Advance
<1>6. ASSUME NEW ids, SVP!Calls!Drop(ids) PROVE SV!Calls!Drop(ids)
  BY <1>1, <1>2, <1>6 DEF SV!Calls!Drop, SVP!Calls!Drop
<1>7. ASSUME NEW id, SVP!Calls!Make(id) PROVE SV!Calls!Make(id)
  BY <1>1, <1>2, <1>5, <1>7 DEF SV!Calls!Make, SVP!Calls!Make
<1>8. ASSUME NEW id PROVE /\ SVP!Calls!Send(id) => SV!Calls!Send(id)
                          /\ SVP!Calls!Serve(id) => SV!Calls!Serve(id)
                          /\ SVP!Calls!Reply(id) => SV!Calls!Reply(id)
  BY <1>1, <1>5 DEF
     SV!Calls!Send, SVP!Calls!Send, SV!Calls!Serve, SVP!Calls!Serve,
     SV!Calls!Reply, SVP!Calls!Reply
<1>9. SVP!Calls!Next => SV!Calls!Next
  BY <1>6, <1>7, <1>8 DEF SV!Calls!Next, SVP!Calls!Next
<1>10. QED
  BY <1>3, <1>4, <1>9

\* Each request of a node goes through the phases of ServiceCalls once, however
\* the services share the thread with the topics.
THEOREM ServicesImplementCalls == Spec => SV!ImplementsCalls
<1>1. Init => SVP!Calls!Init
  BY ServicesAssumptions, SameServices, SVP!FreshCalls DEF Init
<1>2. ServicesInv => SVP!Sound
  BY ServicesAssumptions, SVP!PhaseHeld DEF ServicesInv, SVP!Sound
<1>3. ASSUME ProgramsOK, ServicesInv, SVP!Sound, SVP!Sound', [Next]_vars
      PROVE  [SVP!Calls!Next]_(SVP!Calls!vars)
  <2>1. CASE UNCHANGED SVP!vars
    BY <2>1, ServicesAssumptions, SVP!StutterImplements
  <2>2. CASE SVP!Next
    BY <2>2, <1>3, ServicesAssumptions, SVP!StepEffect, SVP!EffectImplements
       DEF ServicesInv, SVP!HeldInv
  <2>3. CASE SVP!Aside
    BY <2>3, <1>3, ServicesAssumptions, SVP!AsideStep, SVP!EffectImplements
       DEF ServicesInv
  <2>4. QED
    BY <1>3, <2>1, <2>2, <2>3, EveryStep, NoStep, SameServices
<1>4. QED
  BY <1>1, <1>2, <1>3, SameCalls, ServicesInductive, PTL DEF Spec, SV!ImplementsCalls,
     SV!Calls!Spec
=============================================================================
