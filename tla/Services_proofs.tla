--------------------------- MODULE Services_proofs ---------------------------
(***************************************************************************)
(* Theorems about module Services, for every set of nodes and services,    *)
(* every assignment of repliers and requesters, every combination of       *)
(* faults and every bound.  First the invariant IInv, which is inductive   *)
(* and implies TypeOK, NoSelfLink and ConnectedHasLink.  Then, from        *)
(* "Places that hold numbers" on, that requests and responses are neither  *)
(* doubled nor reordered on their way through the nodes, and that every    *)
(* behaviour is one of ServiceCalls: those proofs look at a state as a     *)
(* function from the places that hold requests to the sequences of what    *)
(* they hold.                                                              *)
(***************************************************************************)
EXTENDS Services, TopicsInfo_proofs, FiniteSetTheorems

-----------------------------------------------------------------------------
(* The parts of IInv                                                       *)

\* The part of TypeOK that discovery writes, and the part that calls write.
CoreType ==
  /\ DOMAIN topicsSrvs = Node /\ \A n \in Node : IsTable(topicsSrvs[n])
  /\ links \in [Node -> SUBSET Node]
  /\ inbox \in [Node -> SUBSET Datagram]

QueueType ==
  /\ requests \in [Node -> [Node -> Seq(Message)]]
  /\ replies \in [Node -> [Node -> Seq(Message)]]

ControlType ==
  /\ running \subseteq Node
  /\ pc \in [Node -> {"app", "find", "await", "spin", "reply"}]
  /\ call \in [Node -> SrvCall \cup {None}]
  /\ reply \in [Node -> Message \cup {None}]
  /\ made \in 0..MaxRequest
  /\ ControlInv

LinkInv == NoSelfLink /\ ConnectedHasLink /\ AdvertisedBySender

\* The parts of the invariant by what the steps can disturb.
LEMMA IInvParts == IInv <=> CoreType /\ QueueType /\ ControlType /\ LinkInv
  BY DEF IInv, TypeOK, CoreType, QueueType, ControlType, LinkInv

\* The same of the next state.
LEMMA IInvPartsPrime ==
  ASSUME CoreType', QueueType', ControlType', LinkInv'
  PROVE  IInv'
  BY DEF IInv, TypeOK, CoreType, QueueType, ControlType, LinkInv

-----------------------------------------------------------------------------
(* Facts about messages, queues and the network                            *)

\* The datagrams that nodes send have their types.
LEMMA DatagramTypes ==
  ASSUME NEW n \in Node, NEW t \in Topic
  PROVE  /\ AdvSvc(n, t) \in Datagram /\ SubSvc(n, t) \in Datagram
         /\ AdvSvc(n, t).guid = n /\ AdvSvc(n, t).address = n
         /\ SubSvc(n, t).type = "SUB_SVC"
  BY DEF AdvSvc, SubSvc, Datagram, AdvDatagram, SubDatagram, Node

\* A datagram names a service; an advertisement also names a node and its
\* endpoint.
LEMMA DatagramFields ==
  ASSUME NEW datagram \in Datagram
  PROVE  /\ datagram.topic \in Topic /\ datagram.guid \in Node
         /\ datagram.type = "ADV_SVC" => datagram.address \in Node
  BY DEF Datagram, AdvDatagram, SubDatagram, Node

\* A call and a message are never mistaken for None.
LEMMA NoneIsNoRecord ==
  /\ \A m \in Message : m # None
  /\ \A c \in SrvCall : c # None
<1>1. DOMAIN None = {"kind"}
  BY DEF None
<1>2. \A m \in Message : DOMAIN m = {"topic", "data"}
  BY DEF Message
<1>3. \A c \in SrvCall : DOMAIN c = {"topic", "data", "retries"}
  BY DEF SrvCall
<1>4. QED
  BY <1>1, <1>2, <1>3

\* A message sent keeps the pipes typed.
LEMMA PushType ==
  ASSUME NEW queue \in [Node -> [Node -> Seq(Message)]],
         NEW to \in Node, NEW from \in Node, NEW msg \in Message
  PROVE  Push(queue, to, from, msg) \in [Node -> [Node -> Seq(Message)]]
<1>1. Append(queue[to][from], msg) \in Seq(Message)
  OBVIOUS
<1>2. [queue[to] EXCEPT ![from] = Append(@, msg)] \in [Node -> Seq(Message)]
  BY <1>1
<1>3. QED
  BY <1>2 DEF Push

\* A message read keeps the pipes typed.
LEMMA PopType ==
  ASSUME NEW queue \in [Node -> [Node -> Seq(Message)]],
         NEW to \in Node, NEW from \in Node, queue[to][from] # <<>>
  PROVE  /\ Pop(queue, to, from) \in [Node -> [Node -> Seq(Message)]]
         /\ Head(queue[to][from]) \in Message
<1>1. queue[to][from] \in Seq(Message)
  OBVIOUS
<1>2. Tail(queue[to][from]) \in Seq(Message) /\ Head(queue[to][from]) \in Message
  BY <1>1
<1>3. [queue[to] EXCEPT ![from] = Tail(@)] \in [Node -> Seq(Message)]
  BY <1>2
<1>4. QED
  BY <1>2, <1>3 DEF Pop

\* A broadcast adds at most its own datagram to a buffer.
LEMMA BroadcastFacts ==
  ASSUME NEW datagram \in Datagram, NEW box \in [Node -> SUBSET Datagram],
         NEW up, NEW after \in Sent(datagram, up, box)
  PROVE  /\ after \in [Node -> SUBSET Datagram]
         /\ \A n \in Node : after[n] \subseteq box[n] \cup {datagram}
<1>1. PICK heard : after = [n \in Node |->
                     IF n \in heard THEN box[n] \cup {datagram} ELSE box[n]]
  BY DEF Sent
<1>2. QED
  BY <1>1

\* A receive takes at most its own datagram out of one buffer.
LEMMA ReceiveFacts ==
  ASSUME NEW datagram, NEW box \in [Node -> SUBSET Datagram],
         NEW node \in Node, NEW after \in Received(datagram, node, box)
  PROVE  /\ after \in [Node -> SUBSET Datagram]
         /\ \A n \in Node : after[n] \subseteq box[n]
<1>1. after = [box EXCEPT ![node] = @ \ {datagram}] \/ after = box
  BY DEF Received
<1>2. QED
  BY <1>1

-----------------------------------------------------------------------------
(* What steps do to the parts                                              *)

\* What an honest step may put into the buffers.
HonestInbox ==
  /\ inbox' \in [Node -> SUBSET Datagram]
  /\ \A n \in Node : \A datagram \in inbox'[n] :
        \/ datagram \in inbox[n]
        \/ datagram.type = "ADV_SVC" => datagram.address = datagram.guid

\* What a node broadcasts, on top of what is left in the buffers, is honest.
LEMMA HonestBroadcast ==
  ASSUME NEW datagram \in Datagram,
         datagram.type = "ADV_SVC" => datagram.address = datagram.guid,
         NEW box \in [Node -> SUBSET Datagram],
         \A n \in Node : box[n] \subseteq inbox[n],
         inbox' \in Sent(datagram, running, box)
  PROVE  HonestInbox
<1>1. /\ inbox' \in [Node -> SUBSET Datagram]
      /\ \A n \in Node : inbox'[n] \subseteq box[n] \cup {datagram}
  BY BroadcastFacts
<1>2. QED
  BY <1>1 DEF HonestInbox

\* Buffers that only shrink stay honest.
LEMMA HonestDrain ==
  ASSUME inbox' \in [Node -> SUBSET Datagram],
         \A n \in Node : inbox'[n] \subseteq inbox[n]
  PROVE  HonestInbox
  BY DEF HonestInbox

\* A step that leaves tables, links and buffers alone.
LEMMA CoreUntouched ==
  ASSUME CoreType, LinkInv, UNCHANGED <<topicsSrvs, links, inbox>>
  PROVE  CoreType' /\ LinkInv'
  BY DEF CoreType, LinkInv, NoSelfLink, ConnectedHasLink, AdvertisedBySender

\* A step that leaves tables and links alone and broadcasts.
LEMMA CoreBroadcast ==
  ASSUME CoreType, LinkInv, UNCHANGED <<topicsSrvs, links>>, HonestInbox
  PROVE  CoreType' /\ LinkInv'
<1>1. CoreType'
  BY DEF CoreType, HonestInbox
<1>2. NoSelfLink' /\ ConnectedHasLink'
  BY DEF LinkInv, NoSelfLink, ConnectedHasLink
<1>3. AdvertisedBySender'
  BY DEF LinkInv, AdvertisedBySender, HonestInbox
<1>4. QED
  BY <1>1, <1>2, <1>3 DEF LinkInv

\* A step that writes one node's table, but no connected flag and no address.
LEMMA OwnTableWrite ==
  ASSUME CoreType, LinkInv, UNCHANGED links, HonestInbox,
         NEW node \in Node, NEW new, KeepsLinkState(topicsSrvs[node], new),
         topicsSrvs' = [topicsSrvs EXCEPT ![node] = new]
  PROVE  CoreType' /\ LinkInv'
<1>1. /\ topicsSrvs'[node] = new
      /\ \A n \in Node : n # node => topicsSrvs'[n] = topicsSrvs[n]
      /\ DOMAIN topicsSrvs' = Node
  BY DEF CoreType
<1>2. CoreType'
  BY <1>1 DEF CoreType, KeepsLinkState, HonestInbox
<1>3. \A n \in Node, t \in Topic :
         /\ Connected(topicsSrvs'[n], t) = Connected(topicsSrvs[n], t)
         /\ AdvAddresses(topicsSrvs'[n], t) = AdvAddresses(topicsSrvs[n], t)
  BY <1>1 DEF KeepsLinkState
<1>4. NoSelfLink'
  BY DEF LinkInv, NoSelfLink
<1>5. ConnectedHasLink'
  BY <1>3 DEF LinkInv, ConnectedHasLink, HasAdvAddress
<1>6. AdvertisedBySender'
  BY DEF LinkInv, AdvertisedBySender, HonestInbox
<1>7. QED
  BY <1>2, <1>4, <1>5, <1>6 DEF LinkInv

\* The queues stay as they are.
LEMMA QueuesUntouched ==
  ASSUME QueueType, UNCHANGED channels
  PROVE  QueueType'
  BY DEF QueueType, channels

\* A step that only moves a node to a point where it needs no call or reply,
\* or to "find" with a call.
LEMMA Moves ==
  ASSUME ControlType, UNCHANGED <<running, call, reply, made>>,
         NEW node \in Node, NEW point \in {"app", "find", "await", "spin", "reply"},
         Goto(node, point),
         point \in {"find", "await"} => call[node] # None,
         point # "reply"
  PROVE  ControlType'
<1>1. /\ pc' \in [Node -> {"app", "find", "await", "spin", "reply"}]
      /\ pc'[node] = point
      /\ \A n \in Node : n # node => pc'[n] = pc[n]
  BY DEF ControlType, Goto
<1>2. ControlInv'
  BY <1>1 DEF ControlType, ControlInv
<1>3. QED
  BY <1>1, <1>2 DEF ControlType

\* The end of a SpinOnce leads back to a call only if there is one.
LEMMA EndsSpin ==
  ASSUME ControlType, UNCHANGED <<running, call, reply, made>>,
         NEW node \in Node, EndSpin(node)
  PROVE  ControlType'
<1> DEFINE point == IF call[node] = None THEN "app" ELSE "find"
<1>1. Goto(node, point)
  BY DEF EndSpin
<1>2. /\ point \in {"app", "find", "await", "spin", "reply"} /\ point # "reply"
      /\ point \in {"find", "await"} => call[node] # None
  OBVIOUS
<1> HIDE DEF point
<1>3. QED
  BY <1>1, <1>2, Moves

\* The end of a call.
LEMMA Returns ==
  ASSUME ControlType, UNCHANGED <<running, reply, made>>,
         NEW node \in Node, NEW rc, NEW response, Return(node, rc, response)
  PROVE  ControlType'
<1>1. /\ pc' = [pc EXCEPT ![node] = "app"]
      /\ call' = [call EXCEPT ![node] = None]
  BY DEF Return, Goto
<1>2. /\ pc' \in [Node -> {"app", "find", "await", "spin", "reply"}]
      /\ call' \in [Node -> SrvCall \cup {None}]
      /\ pc'[node] = "app"
      /\ \A n \in Node : n # node => pc'[n] = pc[n] /\ call'[n] = call[n]
  BY <1>1 DEF ControlType
<1>3. ControlInv'
  BY <1>2 DEF ControlType, ControlInv
<1>4. QED
  BY <1>2, <1>3 DEF ControlType

-----------------------------------------------------------------------------
(* One lemma per action of the application and of a blocking call          *)

\* SrvAdvertise writes a flag and a callback and sends its own endpoint.
LEMMA SrvAdvertiseStep ==
  ASSUME IInv, NEW node \in Node, NEW topic \in Topic, NEW cb \in Callback,
         SrvAdvertise(node, topic, cb)
  PROVE  IInv'
<1> DEFINE new == SetRepCallback(SetAdvertisedByMe(topicsSrvs[node], topic, TRUE),
                                 topic, cb)
<1>1. CoreType /\ QueueType /\ ControlType /\ LinkInv
  BY IInvParts
<1>2. KeepsLinkState(topicsSrvs[node], new)
  BY <1>1, ReplierFacts DEF CoreType
<1> HIDE DEF new
<1>3. /\ topicsSrvs' = [topicsSrvs EXCEPT ![node] = new]
      /\ inbox' \in Sent(AdvSvc(node, topic), running, inbox)
      /\ UNCHANGED <<running, links, channels, pc, call, reply, made>>
  BY DEF SrvAdvertise, new
<1>4. HonestInbox
  BY <1>1, <1>3, DatagramTypes, HonestBroadcast DEF CoreType
<1>5. CoreType' /\ LinkInv'
  BY <1>1, <1>2, <1>3, <1>4, OwnTableWrite
<1>6. QueueType' /\ ControlType'
  BY <1>1, <1>3, QueuesUntouched DEF ControlType, ControlInv
<1>7. QED
  BY <1>5, <1>6, IInvPartsPrime

\* SrvUnAdvertise writes a flag and a callback.
LEMMA SrvUnAdvertiseStep ==
  ASSUME IInv, NEW node \in Node, NEW topic \in Topic, SrvUnAdvertise(node, topic)
  PROVE  IInv'
<1> DEFINE new == SetRepCallback(SetAdvertisedByMe(topicsSrvs[node], topic, FALSE),
                                 topic, NULL)
<1>1. CoreType /\ QueueType /\ ControlType /\ LinkInv
  BY IInvParts
<1>2. KeepsLinkState(topicsSrvs[node], new)
  BY <1>1, ReplierFacts DEF CoreType
<1> HIDE DEF new
<1>3. /\ topicsSrvs' = [topicsSrvs EXCEPT ![node] = new]
      /\ UNCHANGED <<running, links, inbox, channels, pc, call, reply, made>>
  BY DEF SrvUnAdvertise, new
<1>4. HonestInbox
  BY <1>1, <1>3, HonestDrain DEF CoreType
<1>5. CoreType' /\ LinkInv'
  BY <1>1, <1>2, <1>3, <1>4, OwnTableWrite
<1>6. QueueType' /\ ControlType'
  BY <1>1, <1>3, QueuesUntouched DEF ControlType, ControlInv
<1>7. QED
  BY <1>5, <1>6, IInvPartsPrime

\* The number of a new request is one of Request.
LEMMA NewRequest ==
  ASSUME made \in 0..MaxRequest, made < MaxRequest, made' = made + 1
  PROVE  made' \in 0..MaxRequest /\ made' \in Request
  BY RequestAssumption

\* SrvRequestAsync queues a request and sends a SUB_SVC.
LEMMA SrvRequestAsyncStep ==
  ASSUME IInv, NEW node \in Node, NEW topic \in Topic, NEW cb \in Callback,
         SrvRequestAsync(node, topic, cb)
  PROVE  IInv'
<1> DEFINE new == AddReq(SetReqCallback(SetRequested(topicsSrvs[node], topic, TRUE),
                                        topic, cb), topic, made')
<1>1. CoreType /\ QueueType /\ ControlType /\ LinkInv
  BY IInvParts
<1>2. made' \in 0..MaxRequest /\ made' \in Request
  BY <1>1, NewRequest DEF SrvRequestAsync, ControlType
<1>3. KeepsLinkState(topicsSrvs[node], new)
  BY <1>1, <1>2, AsyncRequestFacts DEF CoreType
<1> HIDE DEF new
<1>4. /\ topicsSrvs' = [topicsSrvs EXCEPT ![node] = new]
      /\ inbox' \in Sent(SubSvc(node, topic), running, inbox)
      /\ UNCHANGED <<running, links, channels, pc, call, reply>>
  BY DEF SrvRequestAsync, new
<1>5. HonestInbox
  BY <1>1, <1>4, DatagramTypes, HonestBroadcast DEF CoreType
<1>6. CoreType' /\ LinkInv'
  BY <1>1, <1>3, <1>4, <1>5, OwnTableWrite
<1>7. QueueType' /\ ControlType'
  BY <1>1, <1>2, <1>4, QueuesUntouched DEF ControlType, ControlInv
<1>8. QED
  BY <1>6, <1>7, IInvPartsPrime

\* SrvRequest begins a call.
LEMMA SrvRequestStep ==
  ASSUME IInv, NEW node \in Node, NEW topic \in Topic, SrvRequest(node, topic)
  PROVE  IInv'
<1> DEFINE new == SetRequested(topicsSrvs[node], topic, TRUE)
           newCall == [topic |-> topic, data |-> made', retries |-> MaxRetries]
<1>1. CoreType /\ QueueType /\ ControlType /\ LinkInv
  BY IInvParts
<1>2. made' \in 0..MaxRequest /\ made' \in Request
  BY <1>1, NewRequest DEF SrvRequest, ControlType
<1>3. KeepsLinkState(topicsSrvs[node], new)
  BY <1>1, SetRequestedFacts DEF CoreType
<1>4. newCall \in SrvCall /\ newCall # None
  <2>1. newCall \in SrvCall
    BY <1>2, RetriesAssumption DEF SrvCall
  <2>2. QED
    BY <2>1, NoneIsNoRecord
<1> HIDE DEF new, newCall
<1>5. /\ topicsSrvs' = [topicsSrvs EXCEPT ![node] = new]
      /\ call' = [call EXCEPT ![node] = newCall]
      /\ pc' = [pc EXCEPT ![node] = "find"]
      /\ UNCHANGED <<running, links, inbox, channels, reply>>
  BY DEF SrvRequest, Goto, new, newCall
<1>6. HonestInbox
  BY <1>1, <1>5, HonestDrain DEF CoreType
<1>7. CoreType' /\ LinkInv'
  BY <1>1, <1>3, <1>5, <1>6, OwnTableWrite
<1>8. ControlType'
  <2>1. /\ pc' \in [Node -> {"app", "find", "await", "spin", "reply"}]
        /\ call' \in [Node -> SrvCall \cup {None}]
        /\ pc'[node] = "find" /\ call'[node] # None
        /\ \A n \in Node : n # node => pc'[n] = pc[n] /\ call'[n] = call[n]
    BY <1>1, <1>4, <1>5 DEF ControlType
  <2>2. ControlInv'
    BY <1>1, <1>5, <2>1 DEF ControlType, ControlInv
  <2>3. QED
    BY <1>1, <1>2, <1>5, <2>1, <2>2 DEF ControlType
<1>9. QED
  BY <1>1, <1>5, <1>7, <1>8, QueuesUntouched, IInvPartsPrime

\* Wherever the code uses its call, it is in one.
LEMMA InCall ==
  ASSUME ControlType, NEW node \in Node, pc[node] \in {"find", "await"}
  PROVE  call[node] \in SrvCall /\ call[node] # None
  BY DEF ControlType, ControlInv

\* A retry counts down and spins with its call.
LEMMA RetryStep ==
  ASSUME IInv, NEW node \in Node, Retry(node)
  PROVE  IInv'
<1>1. CoreType /\ QueueType /\ ControlType /\ LinkInv
  BY IInvParts
<1>2. call[node] \in SrvCall /\ call[node].retries > 0
  BY <1>1, InCall DEF Retry, At
<1>3. call[node].topic \in Topic /\ call[node].retries - 1 \in 0..MaxRetries
  BY <1>2, RetriesAssumption DEF SrvCall
<1> DEFINE newCall == [call[node] EXCEPT !.retries = @ - 1]
<1>4. newCall \in SrvCall /\ newCall # None
  <2>1. newCall \in SrvCall
    BY <1>2, <1>3 DEF SrvCall
  <2>2. QED
    BY <2>1, NoneIsNoRecord
<1>5. /\ inbox' \in Sent(SubSvc(node, call[node].topic), running, inbox)
      /\ call' = [call EXCEPT ![node] = newCall]
      /\ pc' = [pc EXCEPT ![node] = "spin"]
      /\ UNCHANGED <<running, topicsSrvs, links, channels, reply, made>>
  BY DEF Retry, Countdown, Goto
<1> HIDE DEF newCall
<1>6. HonestInbox
  BY <1>1, <1>3, <1>5, DatagramTypes, HonestBroadcast DEF CoreType
<1>7. CoreType' /\ LinkInv'
  BY <1>1, <1>5, <1>6, CoreBroadcast
<1>8. ControlType'
  <2>1. /\ pc' \in [Node -> {"app", "find", "await", "spin", "reply"}]
        /\ call' \in [Node -> SrvCall \cup {None}]
        /\ pc'[node] = "spin"
        /\ \A n \in Node : n # node => pc'[n] = pc[n] /\ call'[n] = call[n]
    BY <1>1, <1>4, <1>5 DEF ControlType
  <2>2. ControlInv'
    BY <1>1, <1>5, <2>1 DEF ControlType, ControlInv
  <2>3. QED
    BY <1>1, <1>5, <2>1, <2>2 DEF ControlType
<1>9. QED
  BY <1>1, <1>5, <1>7, <1>8, QueuesUntouched, IInvPartsPrime

\* Without retries the call returns.
LEMMA GiveUpStep ==
  ASSUME IInv, NEW node \in Node, GiveUp(node) \/ Timeout(node)
  PROVE  IInv'
<1>1. CoreType /\ QueueType /\ ControlType /\ LinkInv
  BY IInvParts
<1>2. /\ Return(node, -1, 0)
      /\ UNCHANGED <<running, topicsSrvs, links, inbox, channels, reply, made>>
  BY DEF GiveUp, Timeout
<1>3. ControlType'
  BY <1>1, <1>2, Returns
<1>4. QED
  BY <1>1, <1>2, <1>3, CoreUntouched, QueuesUntouched, IInvPartsPrime

\* The request goes out and the call waits.
LEMMA SendRequestStep ==
  ASSUME IInv, NEW node \in Node, NEW peer \in Node, SendRequest(node, peer)
  PROVE  IInv'
<1> DEFINE msg == [topic |-> call[node].topic, data |-> call[node].data]
<1>1. CoreType /\ QueueType /\ ControlType /\ LinkInv
  BY IInvParts
<1>2. call[node] \in SrvCall /\ call[node] # None
  BY <1>1, InCall DEF SendRequest, At
<1>3. msg \in Message
  BY <1>2 DEF SrvCall, Message
<1>4. /\ requests' = Push(requests, peer, node, msg)
      /\ Goto(node, "await")
      /\ UNCHANGED <<running, topicsSrvs, links, inbox, replies, call, reply, made>>
  BY DEF SendRequest
<1> HIDE DEF msg
<1>5. QueueType'
  BY <1>1, <1>3, <1>4, PushType DEF QueueType
<1>6. ControlType'
  BY <1>1, <1>2, <1>4, Moves
<1>7. QED
  BY <1>1, <1>4, <1>5, <1>6, CoreUntouched, IInvPartsPrime

\* A message ends the call.
LEMMA TakeResponseStep ==
  ASSUME IInv, NEW node \in Node, NEW peer \in Node, TakeResponse(node, peer)
  PROVE  IInv'
<1>1. CoreType /\ QueueType /\ ControlType /\ LinkInv
  BY IInvParts
<1>2. /\ replies[node][peer] # <<>> /\ replies' = Pop(replies, node, peer)
      /\ Return(node, 0, Head(replies[node][peer]).data)
      /\ UNCHANGED <<running, topicsSrvs, links, inbox, requests, reply, made>>
  BY DEF TakeResponse
<1>3. QueueType'
  BY <1>1, <1>2, PopType DEF QueueType
<1>4. ControlType'
  BY <1>1, <1>2, Returns
<1>5. QED
  BY <1>1, <1>2, <1>3, <1>4, CoreUntouched, IInvPartsPrime

-----------------------------------------------------------------------------
(* One lemma per step of SpinOnce                                          *)

\* A pending request moves from the table to a pipe.
LEMMA SendPendingReqStep ==
  ASSUME IInv, NEW node \in Node, NEW topic \in Topic, NEW peer \in Node,
         SendPendingReq(node, topic, peer)
  PROVE  IInv'
<1> DEFINE new == DelReq(topicsSrvs[node], topic)
           msg == [topic |-> topic, data |-> OldestReq(topicsSrvs[node], topic)]
<1>1. CoreType /\ QueueType /\ ControlType /\ LinkInv
  BY IInvParts
<1>2. PendingReqs(topicsSrvs[node], topic)
  BY DEF SendPendingReq, Unsent
<1>3. /\ KeepsLinkState(topicsSrvs[node], new)
      /\ OldestReq(topicsSrvs[node], topic) \in Request
  BY <1>1, <1>2, DelReqFacts DEF CoreType
<1>4. msg \in Message
  BY <1>3 DEF Message
<1> HIDE DEF new, msg
<1>5. /\ topicsSrvs' = [topicsSrvs EXCEPT ![node] = new]
      /\ requests' = Push(requests, peer, node, msg)
      /\ Goto(node, "spin")
      /\ UNCHANGED <<running, links, inbox, replies, call, reply, made>>
  BY DEF SendPendingReq, new, msg
<1>6. HonestInbox
  BY <1>1, <1>5, HonestDrain DEF CoreType
<1>7. CoreType' /\ LinkInv'
  BY <1>1, <1>3, <1>5, <1>6, OwnTableWrite
<1>8. QueueType'
  BY <1>1, <1>4, <1>5, PushType DEF QueueType
<1>9. ControlType'
  BY <1>1, <1>5, Moves
<1>10. QED
  BY <1>7, <1>8, <1>9, IInvPartsPrime

\* A poll that times out ends the spin.
LEMMA PollTimeoutStep ==
  ASSUME IInv, NEW node \in Node, PollTimeout(node)
  PROVE  IInv'
<1>1. CoreType /\ QueueType /\ ControlType /\ LinkInv
  BY IInvParts
<1>2. /\ EndSpin(node)
      /\ UNCHANGED <<running, topicsSrvs, links, inbox, channels, call, reply, made>>
  BY DEF PollTimeout
<1>3. ControlType'
  BY <1>1, <1>2, EndsSpin
<1>4. QED
  BY <1>1, <1>2, <1>3, CoreUntouched, QueuesUntouched, IInvPartsPrime

\* A request read leaves a reply to send, or ends the spin.
LEMMA RecvSrvRequestStep ==
  ASSUME IInv, NEW node \in Node, NEW peer \in Node, RecvSrvRequest(node, peer)
  PROVE  IInv'
<1> DEFINE msg == Head(requests[node][peer])
<1>1. CoreType /\ QueueType /\ ControlType /\ LinkInv
  BY IInvParts
<1>2. /\ requests[node][peer] # <<>> /\ requests' = Pop(requests, node, peer)
      /\ UNCHANGED <<running, topicsSrvs, links, inbox, replies, call, made>>
      /\ \/ reply' = [reply EXCEPT ![node] = msg] /\ Goto(node, "reply")
         \/ UNCHANGED reply /\ EndSpin(node)
  BY DEF RecvSrvRequest
<1>3. QueueType' /\ msg \in Message
  BY <1>1, <1>2, PopType DEF QueueType
<1>4. msg # None
  BY <1>3, NoneIsNoRecord
<1> HIDE DEF msg
<1>5. ControlType'
  <2>1. CASE UNCHANGED reply /\ EndSpin(node)
    BY <1>1, <1>2, <2>1, EndsSpin
  <2>2. CASE reply' = [reply EXCEPT ![node] = msg] /\ Goto(node, "reply")
    <3>1. pc' = [pc EXCEPT ![node] = "reply"]
      BY <2>2 DEF Goto
    <3>2. /\ pc' \in [Node -> {"app", "find", "await", "spin", "reply"}]
          /\ reply' \in [Node -> Message \cup {None}]
          /\ pc'[node] = "reply" /\ reply'[node] # None
          /\ \A n \in Node : n # node => pc'[n] = pc[n] /\ reply'[n] = reply[n]
      BY <1>1, <1>3, <1>4, <2>2, <3>1 DEF ControlType
    <3>3. ControlInv'
      BY <1>1, <1>2, <3>2 DEF ControlType, ControlInv
    <3>4. QED
      BY <1>1, <1>2, <3>2, <3>3 DEF ControlType
  <2>3. QED
    BY <1>2, <2>1, <2>2
<1>6. QED
  BY <1>1, <1>2, <1>3, <1>5, CoreUntouched, IInvPartsPrime

\* The reply goes to a peer.
LEMMA SendReplyStep ==
  ASSUME IInv, NEW node \in Node, NEW peer \in Node, SendReply(node, peer)
  PROVE  IInv'
<1> DEFINE point == IF call[node] = None THEN "app" ELSE "find"
<1>1. CoreType /\ QueueType /\ ControlType /\ LinkInv
  BY IInvParts
<1>2. reply[node] \in Message
  BY <1>1 DEF SendReply, At, ControlType, ControlInv
<1>3. /\ replies' = Push(replies, peer, node, reply[node])
      /\ reply' = [reply EXCEPT ![node] = None]
      /\ pc' = [pc EXCEPT ![node] = point]
      /\ UNCHANGED <<running, topicsSrvs, links, inbox, requests, call, made>>
  BY DEF SendReply, EndSpin, Goto
<1>4. point \in {"app", "find"} /\ (point = "find" => call[node] # None)
  OBVIOUS
<1> HIDE DEF point
<1>5. QueueType'
  BY <1>1, <1>2, <1>3, PushType DEF QueueType
<1>6. /\ pc' \in [Node -> {"app", "find", "await", "spin", "reply"}]
      /\ reply' \in [Node -> Message \cup {None}]
      /\ pc'[node] = point
      /\ \A n \in Node : n # node => pc'[n] = pc[n] /\ reply'[n] = reply[n]
  BY <1>1, <1>3, <1>4 DEF ControlType
<1>7. ControlInv'
  BY <1>1, <1>3, <1>4, <1>6 DEF ControlType, ControlInv
<1>8. ControlType'
  BY <1>1, <1>3, <1>6, <1>7 DEF ControlType
<1>9. QED
  BY <1>1, <1>3, <1>5, <1>8, CoreUntouched, IInvPartsPrime

\* A reply read runs a callback or none.
LEMMA RecvSrvReplyStep ==
  ASSUME IInv, NEW node \in Node, NEW peer \in Node, RecvSrvReply(node, peer)
  PROVE  IInv'
<1>1. CoreType /\ QueueType /\ ControlType /\ LinkInv
  BY IInvParts
<1>2. /\ replies[node][peer] # <<>> /\ replies' = Pop(replies, node, peer)
      /\ EndSpin(node)
      /\ UNCHANGED <<running, topicsSrvs, links, inbox, requests, call, reply, made>>
  BY DEF RecvSrvReply
<1>3. QueueType'
  BY <1>1, <1>2, PopType DEF QueueType
<1>4. ControlType'
  BY <1>1, <1>2, EndsSpin
<1>5. QED
  BY <1>1, <1>2, <1>3, <1>4, CoreUntouched, IInvPartsPrime

\* Recording an address alone keeps every link's witness.
LEMMA RecordingStep ==
  ASSUME CoreType, LinkInv, NEW node \in Node, NEW datagram \in inbox[node],
         datagram.type = "ADV_SVC", HonestInbox, UNCHANGED links,
         topicsSrvs' = [topicsSrvs EXCEPT ![node] =
            AddAdvAddress(topicsSrvs[node], datagram.topic, datagram.address)]
  PROVE  CoreType' /\ LinkInv'
<1> DEFINE known == AddAdvAddress(topicsSrvs[node], datagram.topic, datagram.address)
<1>1. datagram.topic \in Topic /\ datagram.address \in Address
  BY DatagramFields DEF CoreType, Node
<1>2. /\ IsTable(known)
      /\ \A t : /\ Connected(known, t) = Connected(topicsSrvs[node], t)
                /\ AdvAddresses(topicsSrvs[node], t) \subseteq AdvAddresses(known, t)
  BY <1>1, AddAdvAddressFacts DEF CoreType
<1> HIDE DEF known
<1>3. /\ topicsSrvs'[node] = known /\ DOMAIN topicsSrvs' = Node
      /\ \A n \in Node : n # node => topicsSrvs'[n] = topicsSrvs[n]
  BY DEF CoreType, known
<1>4. CoreType'
  BY <1>2, <1>3 DEF CoreType, HonestInbox
<1>5. NoSelfLink' /\ AdvertisedBySender'
  BY DEF LinkInv, NoSelfLink, AdvertisedBySender, HonestInbox
<1>6. \A n \in Node, t \in Topic :
         /\ Connected(topicsSrvs'[n], t) = Connected(topicsSrvs[n], t)
         /\ AdvAddresses(topicsSrvs[n], t) \subseteq AdvAddresses(topicsSrvs'[n], t)
  BY <1>2, <1>3
<1>7. ConnectedHasLink'
  BY <1>6 DEF LinkInv, ConnectedHasLink, HasAdvAddress
<1>8. QED
  BY <1>4, <1>5, <1>7 DEF LinkInv

\* A connect goes to the node that advertised, which is another one, and the
\* same step records its endpoint.
LEMMA ConnectingStep ==
  ASSUME CoreType, LinkInv, NEW node \in Node, NEW datagram \in inbox[node],
         datagram.type = "ADV_SVC", HonestInbox,
         WantsConnection(AddAdvAddress(topicsSrvs[node], datagram.topic,
                                       datagram.address), node, datagram),
         links' = [links EXCEPT ![node] = @ \cup {datagram.address}],
         topicsSrvs' = [topicsSrvs EXCEPT ![node] =
            SetConnected(AddAdvAddress(topicsSrvs[node], datagram.topic,
                                       datagram.address), datagram.topic, TRUE)]
  PROVE  CoreType' /\ LinkInv'
<1> DEFINE known == AddAdvAddress(topicsSrvs[node], datagram.topic, datagram.address)
           new == SetConnected(known, datagram.topic, TRUE)
           topic == datagram.topic
           peer == datagram.address
<1>1. topic \in Topic /\ peer \in Node /\ peer \in Address
  BY DatagramFields DEF CoreType, Node
<1>2. peer # node
  BY DEF LinkInv, AdvertisedBySender, WantsConnection
<1>3. /\ IsTable(known) /\ peer \in AdvAddresses(known, topic)
      /\ \A t : /\ Connected(known, t) = Connected(topicsSrvs[node], t)
                /\ AdvAddresses(topicsSrvs[node], t) \subseteq AdvAddresses(known, t)
  BY <1>1, AddAdvAddressFacts DEF CoreType
<1> HIDE DEF known
<1>4. /\ KeepsAddresses(known, new)
      /\ \A t : Connected(new, t) = IF t = topic THEN TRUE ELSE Connected(known, t)
  BY <1>1, <1>3, SetConnectedFacts
<1>5. topicsSrvs' = [topicsSrvs EXCEPT ![node] = new]
  BY DEF known
<1> HIDE DEF new
<1>6. /\ IsTable(new) /\ peer \in AdvAddresses(new, topic)
      /\ \A t \in Topic :
            /\ Connected(new, t) => t = topic \/ Connected(topicsSrvs[node], t)
            /\ AdvAddresses(topicsSrvs[node], t) \subseteq AdvAddresses(new, t)
  BY <1>1, <1>3, <1>4 DEF KeepsAddresses
<1>7. /\ topicsSrvs'[node] = new /\ DOMAIN topicsSrvs' = Node
      /\ \A n \in Node : n # node => topicsSrvs'[n] = topicsSrvs[n]
  BY <1>5 DEF CoreType
<1>8. /\ links' \in [Node -> SUBSET Node]
      /\ links'[node] = links[node] \cup {peer}
      /\ \A n \in Node : links[n] \subseteq links'[n]
      /\ \A n \in Node : n # node => links'[n] = links[n]
  BY <1>1 DEF CoreType
<1>9. CoreType'
  BY <1>6, <1>7, <1>8 DEF CoreType, HonestInbox
<1>10. NoSelfLink' /\ AdvertisedBySender'
  BY <1>2, <1>8 DEF LinkInv, NoSelfLink, AdvertisedBySender, HonestInbox
<1>11. ConnectedHasLink'
  <2>1. SUFFICES ASSUME NEW n \in Node, NEW t \in Topic, Connected(topicsSrvs'[n], t)
                 PROVE  \E p \in links'[n] :
                           p # n /\ HasAdvAddress(topicsSrvs'[n], t, p)
    BY DEF ConnectedHasLink
  <2>2. CASE n = node /\ t = topic
    BY <1>2, <1>6, <1>7, <1>8, <2>2 DEF HasAdvAddress
  <2>3. CASE ~(n = node /\ t = topic)
    <3>1. Connected(topicsSrvs[n], t)
      BY <1>6, <1>7, <2>1, <2>3
    <3>2. PICK p \in links[n] : p # n /\ HasAdvAddress(topicsSrvs[n], t, p)
      BY <3>1 DEF LinkInv, ConnectedHasLink
    <3>3. HasAdvAddress(topicsSrvs'[n], t, p)
      BY <1>6, <1>7, <3>2 DEF HasAdvAddress
    <3>4. QED
      BY <1>8, <3>2, <3>3
  <2>4. QED
    BY <2>2, <2>3
<1>12. QED
  BY <1>9, <1>10, <1>11 DEF LinkInv

\* A datagram served, of either type.
LEMMA RecvDiscoveryUpdatesStep ==
  ASSUME IInv, NEW node \in Node, NEW datagram \in inbox[node],
         RecvDiscoveryUpdates(node, datagram)
  PROVE  IInv'
<1>1. CoreType /\ QueueType /\ ControlType /\ LinkInv
  BY IInvParts
<1>2. PICK box \in Received(datagram, node, inbox) :
        \/ datagram.type = "ADV_SVC" /\ DispatchAdvSvc(node, datagram) /\ inbox' = box
        \/ /\ datagram.type = "SUB_SVC"
           /\ DispatchSubSvc(node, datagram, box)
           /\ UNCHANGED <<topicsSrvs, links>>
  BY DEF RecvDiscoveryUpdates
<1>3. EndSpin(node) /\ UNCHANGED <<running, channels, call, reply, made>>
  BY DEF RecvDiscoveryUpdates
<1>4. QueueType' /\ ControlType'
  BY <1>1, <1>3, EndsSpin, QueuesUntouched
<1>5. /\ box \in [Node -> SUBSET Datagram]
      /\ \A n \in Node : box[n] \subseteq inbox[n]
  BY <1>1, ReceiveFacts DEF CoreType
<1>6. datagram \in Datagram /\ datagram.topic \in Topic
  BY <1>1, DatagramFields DEF CoreType
<1>7. CASE datagram.type = "ADV_SVC" /\ DispatchAdvSvc(node, datagram) /\ inbox' = box
  <2>1. HonestInbox
    BY <1>5, <1>7, HonestDrain
  <2>2. CoreType' /\ LinkInv'
    BY <1>1, <1>7, <2>1, ConnectingStep, RecordingStep DEF DispatchAdvSvc
  <2>3. QED
    BY <1>4, <2>2, IInvPartsPrime
<1>8. CASE /\ datagram.type = "SUB_SVC"
           /\ DispatchSubSvc(node, datagram, box)
           /\ UNCHANGED <<topicsSrvs, links>>
  <2>1. \/ inbox' \in Sent(AdvSvc(node, datagram.topic), running, box)
        \/ inbox' = box
    BY <1>8 DEF DispatchSubSvc
  <2>2. HonestInbox
    BY <1>5, <1>6, <2>1, DatagramTypes, HonestBroadcast, HonestDrain
  <2>3. CoreType' /\ LinkInv'
    BY <1>1, <1>8, <2>2, CoreBroadcast
  <2>4. QED
    BY <1>4, <2>3, IInvPartsPrime
<1>9. QED
  BY <1>2, <1>7, <1>8

\* A process that ends leaves an empty table and no link behind.
LEMMA ExitStep ==
  ASSUME IInv, NEW node \in Node, Exit(node)
  PROVE  IInv'
<1>1. CoreType /\ QueueType /\ ControlType /\ LinkInv
  BY IInvParts
<1>2. /\ topicsSrvs'[node] = EmptyTable /\ DOMAIN topicsSrvs' = Node
      /\ links'[node] = {} /\ inbox'[node] = {}
      /\ \A n \in Node : n # node => /\ topicsSrvs'[n] = topicsSrvs[n]
                                     /\ links'[n] = links[n]
                                     /\ inbox'[n] = inbox[n]
      /\ links' \in [Node -> SUBSET Node] /\ inbox' \in [Node -> SUBSET Datagram]
  BY <1>1 DEF Exit, CoreType
<1>3. IsTable(EmptyTable) /\ \A t : ~Connected(EmptyTable, t)
  BY EmptyTableFacts DEF Connected, NewTopicInfo
<1>4. CoreType'
  BY <1>1, <1>2, <1>3 DEF CoreType
<1>5. NoSelfLink' /\ AdvertisedBySender'
  BY <1>1, <1>2 DEF LinkInv, NoSelfLink, AdvertisedBySender
<1>6. ConnectedHasLink'
  BY <1>1, <1>2, <1>3 DEF LinkInv, ConnectedHasLink
<1>7. QueueType'
  BY <1>1 DEF Exit, QueueType
<1>8. ControlType'
  <2>1. /\ pc' = [pc EXCEPT ![node] = "app"]
        /\ call' = [call EXCEPT ![node] = None]
        /\ reply' = [reply EXCEPT ![node] = None]
        /\ running' = running \ {node} /\ made' = made
    BY DEF Exit
  <2>2. /\ pc' \in [Node -> {"app", "find", "await", "spin", "reply"}]
        /\ call' \in [Node -> SrvCall \cup {None}]
        /\ reply' \in [Node -> Message \cup {None}]
        /\ pc'[node] = "app"
        /\ \A n \in Node : n # node =>
              pc'[n] = pc[n] /\ call'[n] = call[n] /\ reply'[n] = reply[n]
    BY <1>1, <2>1 DEF ControlType
  <2>3. ControlInv'
    BY <1>1, <2>2 DEF ControlType, ControlInv
  <2>4. QED
    BY <1>1, <2>1, <2>2, <2>3 DEF ControlType
<1>9. QED
  BY <1>4, <1>5, <1>6, <1>7, <1>8, IInvPartsPrime DEF LinkInv

-----------------------------------------------------------------------------
(* The theorems                                                            *)

\* The constructors leave every node in a state that satisfies IInv, whichever
\* of them run.
LEMMA FreshIInv == running \subseteq Node /\ Fresh => IInv
<1> SUFFICES ASSUME running \subseteq Node, Fresh PROVE IInv
  OBVIOUS
<1>1. IsTable(EmptyTable) /\ \A t : ~Connected(EmptyTable, t)
  BY EmptyTableFacts DEF Connected, NewTopicInfo
<1>2. CoreType
  BY <1>1 DEF Fresh, CoreType
<1>3. LinkInv
  BY <1>1 DEF Fresh, LinkInv, NoSelfLink, ConnectedHasLink, AdvertisedBySender
<1>4. QueueType
  <2>1. <<>> \in Seq(Message)
    OBVIOUS
  <2>2. [p \in Node |-> <<>>] \in [Node -> Seq(Message)]
    BY <2>1
  <2>3. QED
    BY <2>2 DEF Fresh, QueueType
<1>5. ControlType
  BY RequestAssumption DEF Fresh, ControlType, ControlInv
<1>6. QED
  BY <1>2, <1>3, <1>4, <1>5, IInvParts

\* And so they do when all of them run.
THEOREM InitIInv == Init => IInv
  BY FreshIInv DEF Init

\* No step of an application, of a blocking call, of SpinOnce or of the network
\* breaks IInv.
THEOREM NextIInv == IInv /\ [Next]_vars => IInv'
<1> SUFFICES ASSUME IInv, [Next]_vars PROVE IInv'
  OBVIOUS
<1>1. CASE UNCHANGED vars
  <2>1. CoreType /\ QueueType /\ ControlType /\ LinkInv
    BY IInvParts
  <2>2. /\ UNCHANGED <<topicsSrvs, links, inbox, channels>>
        /\ UNCHANGED <<running, pc, call, reply, made>>
    BY <1>1 DEF vars, channels
  <2>3. ControlType'
    BY <2>1, <2>2 DEF ControlType, ControlInv
  <2>4. QED
    BY <2>1, <2>2, <2>3, CoreUntouched, QueuesUntouched, IInvPartsPrime
<1>2. CASE Next
  <2>1. PICK node \in Node :
          Application(node) \/ BlockingCall(node) \/ SpinOnce(node) \/ Exit(node)
    BY <1>2 DEF Next
  <2>2. CASE Application(node)
    BY <2>2, SrvAdvertiseStep, SrvUnAdvertiseStep, SrvRequestAsyncStep,
       SrvRequestStep DEF Application
  <2>3. CASE BlockingCall(node)
    BY <2>3, RetryStep, GiveUpStep, SendRequestStep, TakeResponseStep
       DEF BlockingCall
  <2>4. CASE SpinOnce(node)
    BY <2>4, SendPendingReqStep, PollTimeoutStep, RecvSrvRequestStep,
       SendReplyStep, RecvSrvReplyStep, RecvDiscoveryUpdatesStep DEF SpinOnce
  <2>5. CASE Exit(node)
    BY <2>5, ExitStep
  <2>6. QED
    BY <2>1, <2>2, <2>3, <2>4, <2>5
<1>3. QED
  BY <1>1, <1>2

\* IInv holds in every reachable state.
THEOREM InductiveInvariant == Spec => []IInv
  BY InitIInv, NextIInv, PTL DEF Spec

\* The variables keep their types in every behaviour: queues hold messages, and
\* the retries of SrvRequest never run below zero.
THEOREM TypeCorrect == Spec => []TypeOK
<1>1. IInv => TypeOK
  BY DEF IInv
<1>2. QED
  BY <1>1, InductiveInvariant, PTL

\* No node ever connects its requester to its own replier, although it receives
\* every advertisement it broadcasts.
THEOREM NeverCallsItself == Spec => []NoSelfLink
<1>1. IInv => NoSelfLink
  BY DEF IInv
<1>2. QED
  BY <1>1, InductiveInvariant, PTL

\* The connected flag that SrvRequest and SendPendingAsyncSrvCalls test before
\* they send implies a peer that advertised the service, so neither blocks.
THEOREM ConnectedHasPeer == Spec => []ConnectedHasLink
<1>1. IInv => ConnectedHasLink
  BY DEF IInv
<1>2. QED
  BY <1>1, InductiveInvariant, PTL

-----------------------------------------------------------------------------
(* Places that hold numbers                                                *)

\* No number is held twice, in one place or in two.
Single(held) ==
  \A a, b \in DOMAIN held : \A i \in DOMAIN held[a], j \in DOMAIN held[b] :
     held[a][i] = held[b][j] => a = b /\ i = j

\* The numbers held are those of requests that have been made.
UpTo(held, m) ==
  \A a \in DOMAIN held : \A i \in DOMAIN held[a] : held[a][i] \in 1..m

\* The places hold numbers of requests, in sequences.
Queues(held) == \A a \in DOMAIN held : held[a] \in Seq(Request)

\* No place holds x.
Nowhere(held, x) == \A a \in DOMAIN held : \A i \in DOMAIN held[a] : held[a][i] # x

\* What is left of a sequence whose first elements went away.
Suffix(old, new) ==
  \E k \in Nat : \A i \in DOMAIN new :
     i \in Nat /\ i + k \in DOMAIN old /\ new[i] = old[i + k]

\* A sequence that stays or that is emptied is a suffix.
LEMMA SuffixStays ==
  ASSUME NEW S, NEW q \in Seq(S)
  PROVE  Suffix(q, q) /\ Suffix(q, <<>>)
<1>1. \A i \in DOMAIN q : i \in Nat /\ i + 0 = i
  OBVIOUS
<1>2. Suffix(q, q)
  BY <1>1 DEF Suffix
<1>3. Suffix(q, <<>>)
  BY DEF Suffix
<1>4. QED
  BY <1>2, <1>3

\* And so is one that loses its head.
LEMMA SuffixTail ==
  ASSUME NEW S, NEW q \in Seq(S), q # <<>>
  PROVE  Suffix(q, Tail(q))
<1>1. \A i \in DOMAIN Tail(q) :
         i \in Nat /\ i + 1 \in DOMAIN q /\ Tail(q)[i] = q[i + 1]
  OBVIOUS
<1>2. QED
  BY <1>1 DEF Suffix

\* Places that only lose what comes first hold nothing twice.
LEMMA LosingKeepsSingle ==
  ASSUME NEW held, NEW new, DOMAIN new = DOMAIN held, NEW m, UpTo(held, m),
         \A a \in DOMAIN held : Suffix(held[a], new[a]), Single(held)
  PROVE  Single(new) /\ UpTo(new, m)
<1>1. SUFFICES ASSUME NEW a \in DOMAIN new, NEW b \in DOMAIN new,
                      NEW i \in DOMAIN new[a], NEW j \in DOMAIN new[b]
               PROVE  /\ new[a][i] \in 1..m
                      /\ new[a][i] = new[b][j] => a = b /\ i = j
  BY DEF Single, UpTo
<1>2. PICK k \in Nat : \A x \in DOMAIN new[a] :
         x \in Nat /\ x + k \in DOMAIN held[a] /\ new[a][x] = held[a][x + k]
  BY DEF Suffix
<1>3. PICK l \in Nat : \A x \in DOMAIN new[b] :
         x \in Nat /\ x + l \in DOMAIN held[b] /\ new[b][x] = held[b][x + l]
  BY DEF Suffix
<1>4. new[a][i] \in 1..m
  BY <1>2 DEF UpTo
<1>5. ASSUME new[a][i] = new[b][j] PROVE a = b /\ i = j
  <2>1. a = b /\ i + k = j + l
    BY <1>2, <1>3, <1>5 DEF Single
  <2>2. j + k \in DOMAIN held[a] /\ new[a][j] = held[a][j + k]
    BY <1>2, <2>1
  <2>3. j + k = j + l
    BY <1>2, <1>3, <2>1, <2>2 DEF Single
  <2>4. QED
    BY <1>2, <1>3, <2>1, <2>3
<1>6. QED
  BY <1>4, <1>5

\* The head that a place lost is nowhere any more.
LEMMA LostIsGone ==
  ASSUME NEW held, NEW new, DOMAIN new = DOMAIN held, Queues(held),
         Single(held), NEW a \in DOMAIN held, held[a] # <<>>,
         new[a] = Tail(held[a]), \A c \in DOMAIN held \ {a} : new[c] = held[c]
  PROVE  Nowhere(new, Head(held[a]))
<1>1. SUFFICES ASSUME NEW c \in DOMAIN new, NEW i \in DOMAIN new[c],
                      new[c][i] = Head(held[a])
               PROVE  FALSE
  BY DEF Nowhere
<1>2. /\ held[a] \in Seq(Request) /\ 1 \in DOMAIN held[a]
      /\ Head(held[a]) = held[a][1]
  BY DEF Queues
<1>3. CASE c = a
  <2>1. i \in Nat \ {0} /\ i + 1 \in DOMAIN held[a] /\ new[c][i] = held[a][i + 1]
    BY <1>2, <1>3
  <2>2. i + 1 = 1
    BY <1>1, <1>2, <2>1 DEF Single
  <2>3. QED
    BY <2>1, <2>2
<1>4. CASE c # a
  BY <1>1, <1>2, <1>4 DEF Single
<1>5. QED
  BY <1>3, <1>4

\* A place may gain a number that no place holds.
LEMMA GainingKeepsSingle ==
  ASSUME NEW held, NEW new, DOMAIN new = DOMAIN held, Queues(held),
         NEW x \in Request, NEW m \in Nat,
         NEW more \in Nat, m <= more, x \in 1..more, UpTo(held, m),
         Single(held), Nowhere(held, x),
         NEW b \in DOMAIN held,
         new[b] = Append(held[b], x), \A c \in DOMAIN held \ {b} : new[c] = held[c]
  PROVE  Single(new) /\ UpTo(new, more)
<1>1. ASSUME NEW c \in DOMAIN new, NEW i \in DOMAIN new[c]
      PROVE  \/ c = b /\ i = Len(held[b]) + 1 /\ new[c][i] = x
             \/ i \in DOMAIN held[c] /\ new[c][i] = held[c][i] /\ held[c][i] # x
  <2> USE DEF Nowhere
  <2>1. CASE c = b
    <3>1. held[b] \in Seq(Request)
      BY DEF Queues
    <3>2. i \in 1..(Len(held[b]) + 1) /\ Len(held[b]) \in Nat
      BY <2>1, <3>1
    <3>3. CASE i = Len(held[b]) + 1
      BY <2>1, <3>1, <3>3
    <3>4. CASE i # Len(held[b]) + 1
      <4>1. i \in 1..Len(held[b])
        BY <3>2, <3>4
      <4>2. i \in DOMAIN held[c] /\ new[c][i] = held[c][i]
        BY <2>1, <3>1, <4>1
      <4>3. QED
        BY <4>2
    <3>5. QED
      BY <3>3, <3>4
  <2>2. CASE c # b
    BY <2>2
  <2>3. QED
    BY <2>1, <2>2
<1>2. Single(new)
  BY <1>1 DEF Single
<1>3. UpTo(new, more)
  <2>1. SUFFICES ASSUME NEW c \in DOMAIN new, NEW i \in DOMAIN new[c]
                 PROVE  new[c][i] \in 1..more
    BY DEF UpTo
  <2>2. CASE new[c][i] = x
    BY <2>2
  <2>3. CASE i \in DOMAIN held[c] /\ new[c][i] = held[c][i]
    BY <2>3 DEF UpTo
  <2>4. QED
    BY <1>1, <2>2, <2>3
<1>4. QED
  BY <1>2, <1>3

-----------------------------------------------------------------------------
(* The places of Services                                                  *)

\* The number of a queue's messages.
Ids(queue) == [i \in DOMAIN queue |-> queue[i].data]

\* A call holds its request until it has sent it.
CallIds(n)  == IF call[n] # None /\ pc[n] # "await" THEN <<call[n].data>> ELSE <<>>
ReplyIds(n) == IF reply[n] # None THEN <<reply[n].data>> ELSE <<>>

PendingAt(n, t)  == <<"pending", n, t>>
CallAt(n)        == <<"call", n, NULL>>
RequestAt(n, p)  == <<"request", n, p>>
ReplyAt(n)       == <<"reply", n, NULL>>
ResponseAt(n, p) == <<"response", n, p>>

Place ==
  ({"pending"} \X Node \X Topic) \cup
  ({"call", "reply"} \X Node \X {NULL}) \cup
  ({"request", "response"} \X Node \X Node)

Held ==
  [a \in Place |->
     IF a[1] = "pending" THEN Pending(a[2], a[3])
     ELSE IF a[1] = "call" THEN CallIds(a[2])
     ELSE IF a[1] = "request" THEN Ids(requests[a[2]][a[3]])
     ELSE IF a[1] = "reply" THEN ReplyIds(a[2])
     ELSE Ids(replies[a[2]][a[3]])]

\* A place is one of five kinds.
LEMMA PlaceCases ==
  ASSUME NEW a \in Place
  PROVE  \/ \E n \in Node, t \in Topic : a = PendingAt(n, t)
         \/ \E n \in Node : a = CallAt(n)
         \/ \E n, p \in Node : a = RequestAt(n, p)
         \/ \E n \in Node : a = ReplyAt(n)
         \/ \E n, p \in Node : a = ResponseAt(n, p)
  BY DEF Place, PendingAt, CallAt, RequestAt, ReplyAt, ResponseAt

\* Places of different kinds, nodes or topics are different places.
LEMMA PlacesDiffer ==
  ASSUME NEW n, NEW p, NEW m, NEW q
  PROVE  /\ PendingAt(n, p) = PendingAt(m, q) <=> n = m /\ p = q
         /\ RequestAt(n, p) = RequestAt(m, q) <=> n = m /\ p = q
         /\ ResponseAt(n, p) = ResponseAt(m, q) <=> n = m /\ p = q
         /\ CallAt(n) = CallAt(m) <=> n = m
         /\ ReplyAt(n) = ReplyAt(m) <=> n = m
         /\ PendingAt(n, p) # CallAt(m) /\ PendingAt(n, p) # RequestAt(m, q)
         /\ PendingAt(n, p) # ReplyAt(m) /\ PendingAt(n, p) # ResponseAt(m, q)
         /\ CallAt(n) # RequestAt(m, q) /\ CallAt(n) # ReplyAt(m)
         /\ CallAt(n) # ResponseAt(m, q) /\ RequestAt(n, p) # ReplyAt(m)
         /\ RequestAt(n, p) # ResponseAt(m, q) /\ ReplyAt(n) # ResponseAt(m, q)
  BY DEF PendingAt, CallAt, RequestAt, ReplyAt, ResponseAt

\* What the places hold, before a step and after it.
LEMMA HeldAt ==
  /\ DOMAIN Held = Place /\ DOMAIN Held' = Place
  /\ \A n \in Node, t \in Topic :
       /\ PendingAt(n, t) \in Place
       /\ Held[PendingAt(n, t)] = Waiting(topicsSrvs[n], t)
       /\ Held'[PendingAt(n, t)] = Waiting(topicsSrvs'[n], t)
  /\ \A n \in Node :
       /\ CallAt(n) \in Place /\ ReplyAt(n) \in Place
       /\ Held[CallAt(n)] = CallIds(n) /\ Held'[CallAt(n)] = CallIds(n)'
       /\ Held[ReplyAt(n)] = ReplyIds(n) /\ Held'[ReplyAt(n)] = ReplyIds(n)'
  /\ \A n, p \in Node :
       /\ RequestAt(n, p) \in Place /\ ResponseAt(n, p) \in Place
       /\ Held[RequestAt(n, p)] = Ids(requests[n][p])
       /\ Held'[RequestAt(n, p)] = Ids(requests'[n][p])
       /\ Held[ResponseAt(n, p)] = Ids(replies[n][p])
       /\ Held'[ResponseAt(n, p)] = Ids(replies'[n][p])
<1>1. DOMAIN Held = Place /\ DOMAIN Held' = Place
  BY DEF Held
<1>2. \A n \in Node, t \in Topic :
       /\ PendingAt(n, t) \in Place
       /\ Held[PendingAt(n, t)] = Waiting(topicsSrvs[n], t)
       /\ Held'[PendingAt(n, t)] = Waiting(topicsSrvs'[n], t)
  BY DEF Held, Place, PendingAt, Pending, Waiting
<1>3. \A n \in Node :
       /\ CallAt(n) \in Place
       /\ Held[CallAt(n)] = CallIds(n) /\ Held'[CallAt(n)] = CallIds(n)'
  BY DEF Held, Place, CallAt, CallIds
<1>4. \A n \in Node :
       /\ ReplyAt(n) \in Place
       /\ Held[ReplyAt(n)] = ReplyIds(n) /\ Held'[ReplyAt(n)] = ReplyIds(n)'
  BY DEF Held, Place, ReplyAt, ReplyIds
<1>5. \A n, p \in Node :
       /\ RequestAt(n, p) \in Place
       /\ Held[RequestAt(n, p)] = Ids(requests[n][p])
       /\ Held'[RequestAt(n, p)] = Ids(requests'[n][p])
  <2>1. SUFFICES ASSUME NEW n \in Node, NEW p \in Node
                 PROVE  /\ RequestAt(n, p) \in Place
                        /\ Held[RequestAt(n, p)] = Ids(requests[n][p])
                        /\ Held'[RequestAt(n, p)] = Ids(requests'[n][p])
    OBVIOUS
  <2> DEFINE a == RequestAt(n, p)
  <2>2. /\ a \in Place
        /\ a[1] = "request" /\ a[2] = n /\ a[3] = p
    BY DEF Place, RequestAt
  <2> HIDE DEF a
  <2>3. Held[a] = Ids(requests[n][p])
    BY <2>2 DEF Held
  <2>4. Held'[a] = Ids(requests'[n][p])
    BY <2>2 DEF Held, Ids
  <2>5. QED
    BY <2>2, <2>3, <2>4 DEF a
<1>6. \A n, p \in Node :
       /\ ResponseAt(n, p) \in Place
       /\ Held[ResponseAt(n, p)] = Ids(replies[n][p])
       /\ Held'[ResponseAt(n, p)] = Ids(replies'[n][p])
  <2>1. SUFFICES ASSUME NEW n \in Node, NEW p \in Node
                 PROVE  /\ ResponseAt(n, p) \in Place
                        /\ Held[ResponseAt(n, p)] = Ids(replies[n][p])
                        /\ Held'[ResponseAt(n, p)] = Ids(replies'[n][p])
    OBVIOUS
  <2> DEFINE a == ResponseAt(n, p)
  <2>2. /\ a \in Place
        /\ a[1] = "response" /\ a[2] = n /\ a[3] = p
    BY DEF Place, ResponseAt
  <2> HIDE DEF a
  <2>3. Held[a] = Ids(replies[n][p])
    BY <2>2 DEF Held
  <2>4. Held'[a] = Ids(replies'[n][p])
    BY <2>2 DEF Held, Ids
  <2>5. QED
    BY <2>2, <2>3, <2>4 DEF a
<1>7. QED
  BY <1>1, <1>2, <1>3, <1>4, <1>5, <1>6

\* The numbers of a queue follow its messages.
LEMMA IdsFacts ==
  ASSUME NEW q \in Seq(Message)
  PROVE  /\ Ids(q) \in Seq(Request) /\ DOMAIN Ids(q) = DOMAIN q
         /\ Ids(<<>>) = <<>>
         /\ \A msg \in Message : Ids(Append(q, msg)) = Append(Ids(q), msg.data)
         /\ q # <<>> => /\ Ids(q) # <<>> /\ Ids(Tail(q)) = Tail(Ids(q))
                        /\ Head(Ids(q)) = Head(q).data
<1>1. DOMAIN q = 1..Len(q) /\ Len(q) \in Nat
  OBVIOUS
<1>2. \A i \in 1..Len(q) : q[i].data \in Request
  <2>1. \A i \in 1..Len(q) : q[i] \in Message
    OBVIOUS
  <2>2. \A msg \in Message : msg.data \in Request
    BY DEF Message
  <2>3. QED
    BY <2>1, <2>2
<1>3. /\ Ids(q) \in [1..Len(q) -> Request] /\ DOMAIN Ids(q) = 1..Len(q)
      /\ \A i \in 1..Len(q) : Ids(q)[i] = q[i].data
  BY <1>1, <1>2 DEF Ids
<1>4. Ids(q) \in Seq(Request) /\ Len(Ids(q)) = Len(q)
  BY <1>1, <1>3
<1>5. Ids(<<>>) = <<>>
  BY DEF Ids
<1>6. ASSUME NEW msg \in Message
      PROVE  Ids(Append(q, msg)) = Append(Ids(q), msg.data)
  <2>1. msg.data \in Request
    BY DEF Message
  <2>2. /\ DOMAIN Append(q, msg) = 1..(Len(q) + 1)
        /\ \A i \in 1..(Len(q) + 1) :
              Append(q, msg)[i] = IF i = Len(q) + 1 THEN msg ELSE q[i]
    BY <1>1
  <2>3. /\ DOMAIN Append(Ids(q), msg.data) = 1..(Len(q) + 1)
        /\ \A i \in 1..(Len(q) + 1) :
              Append(Ids(q), msg.data)[i] = IF i = Len(q) + 1 THEN msg.data ELSE Ids(q)[i]
    BY <1>1, <1>4, <2>1
  <2>4. /\ DOMAIN Ids(Append(q, msg)) = 1..(Len(q) + 1)
        /\ \A i \in 1..(Len(q) + 1) :
              Ids(Append(q, msg))[i] = Append(Ids(q), msg.data)[i]
    <3>1. /\ DOMAIN Ids(Append(q, msg)) = 1..(Len(q) + 1)
          /\ \A i \in 1..(Len(q) + 1) : Ids(Append(q, msg))[i] = Append(q, msg)[i].data
      BY <2>2 DEF Ids
    <3>2. \A i \in 1..(Len(q) + 1) : i = Len(q) + 1 \/ i \in 1..Len(q)
      BY <1>1
    <3>3. QED
      BY <1>3, <2>2, <2>3, <3>1, <3>2
  <2>5. Append(Ids(q), msg.data) \in Seq(Request) /\ Append(q, msg) \in Seq(Message)
    BY <1>4, <2>1
  <2>6. /\ Ids(Append(q, msg)) = [i \in 1..(Len(q) + 1) |-> Ids(Append(q, msg))[i]]
        /\ Append(Ids(q), msg.data) = [i \in 1..(Len(q) + 1) |-> Append(Ids(q), msg.data)[i]]
    BY <2>3, <2>4, <2>5 DEF Ids
  <2>7. QED
    BY <2>4, <2>6
<1>7. ASSUME q # <<>>
      PROVE  /\ Ids(q) # <<>> /\ Ids(Tail(q)) = Tail(Ids(q))
             /\ Head(Ids(q)) = Head(q).data
  <2>1. /\ 1 \in 1..Len(q) /\ Head(q) = q[1] /\ Ids(q) # <<>> /\ Head(Ids(q)) = Ids(q)[1]
        /\ Len(q) - 1 \in Nat
    BY <1>1, <1>3, <1>4, <1>7
  <2>2. /\ DOMAIN Tail(q) = 1..(Len(q) - 1)
        /\ \A i \in 1..(Len(q) - 1) : Tail(q)[i] = q[i + 1] /\ i + 1 \in 1..Len(q)
    BY <1>1, <1>7
  <2>3. /\ DOMAIN Tail(Ids(q)) = 1..(Len(q) - 1)
        /\ \A i \in 1..(Len(q) - 1) : Tail(Ids(q))[i] = Ids(q)[i + 1]
    BY <1>1, <1>4, <2>1
  <2>4. /\ DOMAIN Ids(Tail(q)) = 1..(Len(q) - 1)
        /\ \A i \in 1..(Len(q) - 1) : Ids(Tail(q))[i] = Tail(Ids(q))[i]
    BY <1>3, <2>2, <2>3 DEF Ids
  <2>5. Tail(Ids(q)) \in Seq(Request)
    BY <1>4, <2>1
  <2>6. /\ Ids(Tail(q)) = [i \in 1..(Len(q) - 1) |-> Ids(Tail(q))[i]]
        /\ Tail(Ids(q)) = [i \in 1..(Len(q) - 1) |-> Tail(Ids(q))[i]]
    BY <2>3, <2>4, <2>5 DEF Ids
  <2>7. QED
    BY <1>3, <2>1, <2>4, <2>6
<1>8. QED
  BY <1>1, <1>3, <1>4, <1>5, <1>6, <1>7

-----------------------------------------------------------------------------
(* What a step may do to the places                                        *)

\* Every place outside S holds what it held.
Elsewhere(S) == \A c \in Place \ S : Held'[c] = Held[c]

\* The oldest number of a goes behind those of b.
MovesHead(a, b) ==
  /\ a \in Place /\ b \in Place /\ a # b /\ Held[a] # <<>>
  /\ Held'[a] = Tail(Held[a])
  /\ Held'[b] = Append(Held[b], Head(Held[a]))
  /\ Elsewhere({a, b})
  /\ made' = made

\* The oldest number of a goes away.
LosesHead(a) ==
  /\ a \in Place /\ Held[a] # <<>>
  /\ Held'[a] = Tail(Held[a])
  /\ Elsewhere({a})
  /\ made' = made

\* A new number goes behind those of a.
Makes(a) ==
  /\ a \in Place
  /\ made' = made + 1
  /\ Held'[a] = Append(Held[a], made')
  /\ Elsewhere({a})

\* Some places, or none, are emptied.
Empties ==
  /\ \A c \in Place : Held'[c] = Held[c] \/ Held'[c] = <<>>
  /\ made' = made

\* Between its calls a node is in no SrvRequest, and it has a reply only while
\* it sends it.
Tidy ==
  \A n \in Node :
    /\ pc[n] = "app" => call[n] = None
    /\ pc[n] # "reply" => reply[n] = None

\* Each kind of place holds numbers of requests.
LEMMA HeldType ==
  ASSUME IInv
  PROVE  \A a \in Place : Held[a] \in Seq(Request)
<1>1. SUFFICES ASSUME NEW a \in Place PROVE Held[a] \in Seq(Request)
  OBVIOUS
<1>2. ASSUME NEW n \in Node, NEW t \in Topic, a = PendingAt(n, t)
      PROVE  Held[a] \in Seq(Request)
  <2>1. Info(topicsSrvs[n], t) \in TopicInfo
    BY InfoType DEF IInv, TypeOK
  <2>2. QED
    BY <1>2, <2>1, HeldAt DEF TopicInfo, Waiting
<1>3. ASSUME NEW n \in Node, a = CallAt(n)
      PROVE  Held[a] \in Seq(Request)
  <2>1. call[n] # None => call[n].data \in Request
    <3>1. call[n] \in SrvCall \cup {None}
      BY DEF IInv, TypeOK
    <3>2. \A c \in SrvCall : c.data \in Request
      BY DEF SrvCall
    <3>3. QED
      BY <3>1, <3>2
  <2>2. CallIds(n) \in Seq(Request)
    BY <2>1 DEF CallIds
  <2>3. QED
    BY <1>3, <2>2, HeldAt
<1>4. ASSUME NEW n \in Node, a = ReplyAt(n)
      PROVE  Held[a] \in Seq(Request)
  <2>1. reply[n] # None => reply[n].data \in Request
    <3>1. reply[n] \in Message \cup {None}
      BY DEF IInv, TypeOK
    <3>2. \A msg \in Message : msg.data \in Request
      BY DEF Message
    <3>3. QED
      BY <3>1, <3>2
  <2>2. ReplyIds(n) \in Seq(Request)
    BY <2>1 DEF ReplyIds
  <2>3. QED
    BY <1>4, <2>2, HeldAt
<1>5. ASSUME NEW n \in Node, NEW p \in Node, a = RequestAt(n, p) \/ a = ResponseAt(n, p)
      PROVE  Held[a] \in Seq(Request)
  <2>1. requests[n][p] \in Seq(Message) /\ replies[n][p] \in Seq(Message)
    BY DEF IInv, TypeOK
  <2>2. Ids(requests[n][p]) \in Seq(Request) /\ Ids(replies[n][p]) \in Seq(Request)
    BY <2>1, IdsFacts
  <2>3. QED
    BY <1>5, <2>2, HeldAt
<1>6. QED
  BY <1>2, <1>3, <1>4, <1>5, PlaceCases

\* What a step must leave alone for a place to stay as it is.
LEMMA StaysElsewhere ==
  ASSUME NEW S,
         \A n \in Node, t \in Topic : PendingAt(n, t) \notin S =>
            Waiting(topicsSrvs'[n], t) = Waiting(topicsSrvs[n], t),
         \A n \in Node : CallAt(n) \notin S => CallIds(n)' = CallIds(n),
         \A n \in Node : ReplyAt(n) \notin S => ReplyIds(n)' = ReplyIds(n),
         \A n, p \in Node : RequestAt(n, p) \notin S => requests'[n][p] = requests[n][p],
         \A n, p \in Node : ResponseAt(n, p) \notin S => replies'[n][p] = replies[n][p]
  PROVE  Elsewhere(S)
<1>1. SUFFICES ASSUME NEW a \in Place, a \notin S PROVE Held'[a] = Held[a]
  BY DEF Elsewhere
<1>2. \A n \in Node, t \in Topic : a = PendingAt(n, t) => Held'[a] = Held[a]
  BY <1>1, HeldAt
<1>3. \A n \in Node : a = CallAt(n) => Held'[a] = Held[a]
  BY <1>1, HeldAt
<1>4. \A n \in Node : a = ReplyAt(n) => Held'[a] = Held[a]
  BY <1>1, HeldAt
<1>5. \A n, p \in Node : a = RequestAt(n, p) => Held'[a] = Held[a]
  BY <1>1, HeldAt
<1>6. \A n, p \in Node : a = ResponseAt(n, p) => Held'[a] = Held[a]
  BY <1>1, HeldAt
<1>7. QED
  BY <1>2, <1>3, <1>4, <1>5, <1>6, PlaceCases

-----------------------------------------------------------------------------
(* What the actions do to control, tables and queues                       *)

\* No place changes.
Quiet == Elsewhere({}) /\ made' = made

\* What the last step handed to the application.
Answer == IF outcome = None THEN 0 ELSE outcome.response

\* A node that goes from one point to another, neither of them "await", keeps
\* the request its call holds.
LEMMA CallsStay ==
  ASSUME IInv, NEW node \in Node, NEW point, Goto(node, point),
         pc[node] # "await", point # "await", call' = call
  PROVE  \A n \in Node : CallIds(n)' = CallIds(n)
<1>1. pc'[node] = point /\ \A n \in Node : n # node => pc'[n] = pc[n]
  BY DEF IInv, TypeOK, Goto
<1>2. QED
  BY <1>1 DEF CallIds

\* The end of SpinOnce leaves a tidy node behind.
LEMMA SpinEnds ==
  ASSUME IInv, Tidy, NEW node \in Node, pc[node] # "await", EndSpin(node),
         call' = call, reply'[node] = None,
         \A n \in Node : n # node => reply'[n] = reply[n]
  PROVE  Tidy' /\ \A n \in Node : CallIds(n)' = CallIds(n)
<1> DEFINE point == IF call[node] = None THEN "app" ELSE "find"
<1>1. Goto(node, point)
  BY DEF EndSpin
<1>2. point # "await" /\ point # "reply" /\ (point = "app" => call[node] = None)
  OBVIOUS
<1> HIDE DEF point
<1>3. pc'[node] = point /\ \A n \in Node : n # node => pc'[n] = pc[n]
  BY <1>1 DEF IInv, TypeOK, Goto
<1>4. Tidy'
  BY <1>2, <1>3 DEF Tidy
<1>5. QED
  BY <1>1, <1>2, <1>4, CallsStay

\* A node that polls its sockets holds no reply.
LEMMA PollingIsTidy ==
  ASSUME Tidy, NEW node \in Node, Spins(node)
  PROVE  pc[node] # "await" /\ reply[node] = None
  BY DEF Tidy, Spins, At

\* A step that writes one table.
LEMMA OneTable ==
  ASSUME IInv, NEW node \in Node, NEW new,
         topicsSrvs' = [topicsSrvs EXCEPT ![node] = new]
  PROVE  /\ IsTable(topicsSrvs[node]) /\ topicsSrvs'[node] = new
         /\ \A n \in Node : n # node => topicsSrvs'[n] = topicsSrvs[n]
  BY DEF IInv, TypeOK

\* Steps of tables that neither requests nor advertisements are part of.
SameTables ==
  \A n \in Node, t \in Topic : SameCalls(topicsSrvs[n], topicsSrvs'[n], t)

\* A table that is replaced by one with the same calls.
LEMMA WritesSameTables ==
  ASSUME IInv, NEW node \in Node, NEW new,
         topicsSrvs' = [topicsSrvs EXCEPT ![node] = new],
         \A t \in Topic : SameCalls(topicsSrvs[node], new, t)
  PROVE  SameTables
  BY OneTable DEF SameTables, SameCalls

\* Discovery, and the first step of a request, leave the calls of all tables
\* alone.
LEMMA DiscoverySameTables ==
  ASSUME IInv, NEW node \in Node, NEW datagram \in inbox[node],
         RecvDiscoveryUpdates(node, datagram)
  PROVE  SameTables
<1> DEFINE known == AddAdvAddress(topicsSrvs[node], datagram.topic, datagram.address)
<1>1. CASE UNCHANGED topicsSrvs
  BY <1>1 DEF SameTables, SameCalls
<1>2. ASSUME datagram.type = "ADV_SVC", DispatchAdvSvc(node, datagram)
      PROVE  SameTables
  <2>1. datagram.topic \in Topic /\ datagram.address \in Address
    BY <1>2, DatagramFields DEF IInv, TypeOK, Node
  <2>2. IsTable(topicsSrvs[node])
    BY DEF IInv, TypeOK
  <2>3. IsTable(known) /\ \A t \in Topic : SameCalls(topicsSrvs[node], known, t)
    BY <2>1, <2>2, AddAdvAddressFacts, DiscoverySameCalls
  <2>4. \A t \in Topic : SameCalls(known, SetConnected(known, datagram.topic, TRUE), t)
    BY <2>1, <2>3, DiscoverySameCalls
  <2>5. \A t \in Topic :
           SameCalls(topicsSrvs[node], SetConnected(known, datagram.topic, TRUE), t)
    BY <2>3, <2>4 DEF SameCalls
  <2>6. \/ topicsSrvs' = [topicsSrvs EXCEPT ![node] = known]
        \/ topicsSrvs' = [topicsSrvs EXCEPT ![node] =
                            SetConnected(known, datagram.topic, TRUE)]
    BY <1>2 DEF DispatchAdvSvc
  <2>7. QED
    BY <2>3, <2>5, <2>6, WritesSameTables
<1>3. QED
  BY <1>1, <1>2 DEF RecvDiscoveryUpdates

\* A step that leaves requests, calls, queues and replies alone.
LEMMA QuietStep ==
  ASSUME SameTables, \A n \in Node : CallIds(n)' = CallIds(n),
         UNCHANGED <<requests, replies, reply, made>>
  PROVE  Quiet
<1>1. Elsewhere({})
  BY StaysElsewhere DEF SameTables, SameCalls, ReplyIds
<1>2. QED
  BY <1>1 DEF Quiet

-----------------------------------------------------------------------------
(* One lemma per action: what it moves                                     *)

\* SrvAdvertise and SrvUnAdvertise move no number.
LEMMA AdvertiseEffect ==
  ASSUME IInv, Tidy, NEW node \in Node, NEW topic \in Topic,
         \/ \E cb \in Callback : SrvAdvertise(node, topic, cb)
         \/ SrvUnAdvertise(node, topic)
  PROVE  Tidy' /\ Quiet /\ Answer' = 0
<1>1. PICK value \in BOOLEAN, cb \in Callback \cup {NULL} :
        topicsSrvs' = [topicsSrvs EXCEPT ![node] =
          SetRepCallback(SetAdvertisedByMe(@, topic, value), topic, cb)]
  BY DEF SrvAdvertise, SrvUnAdvertise
<1>2. UNCHANGED <<requests, replies, pc, call, reply, made>> /\ outcome' = None
  BY DEF SrvAdvertise, SrvUnAdvertise, channels
<1> DEFINE new == SetRepCallback(SetAdvertisedByMe(topicsSrvs[node], topic, value), topic, cb)
<1>3. topicsSrvs' = [topicsSrvs EXCEPT ![node] = new]
  BY <1>1
<1>4. \A t \in Topic : Waiting(new, t) = Waiting(topicsSrvs[node], t)
  <2>1. IsTable(topicsSrvs[node])
    BY DEF IInv, TypeOK
  <2>2. QED
    BY <2>1, ReplierCalls
<1> HIDE DEF new
<1>5. \A n \in Node, t \in Topic :
         Waiting(topicsSrvs'[n], t) = Waiting(topicsSrvs[n], t)
  BY <1>3, <1>4, OneTable
<1>6. Quiet
  BY <1>2, <1>5, StaysElsewhere DEF Quiet, CallIds, ReplyIds
<1>7. QED
  BY <1>2, <1>6 DEF Tidy, Answer

\* SrvRequestAsync leaves a new request behind those that wait.
LEMMA RequestAsyncEffect ==
  ASSUME IInv, Tidy, NEW node \in Node, NEW topic \in Topic, NEW cb \in Callback,
         SrvRequestAsync(node, topic, cb)
  PROVE  Tidy' /\ Makes(PendingAt(node, topic)) /\ Answer' = 0
<1> DEFINE new == AddReq(SetReqCallback(SetRequested(topicsSrvs[node], topic, TRUE),
                                        topic, cb), topic, made')
<1>1. /\ topicsSrvs' = [topicsSrvs EXCEPT ![node] = new]
      /\ UNCHANGED <<requests, replies, pc, call, reply>> /\ outcome' = None
      /\ made' = made + 1 /\ made < MaxRequest
  BY DEF SrvRequestAsync, channels
<1>2. made' \in Request
  BY <1>1, NewRequest DEF IInv, TypeOK
<1>3. \A t \in Topic : Waiting(new, t) =
         IF t = topic THEN Append(Waiting(topicsSrvs[node], topic), made')
         ELSE Waiting(topicsSrvs[node], t)
  <2>1. IsTable(topicsSrvs[node])
    BY DEF IInv, TypeOK
  <2>2. QED
    <3> DEFINE data == made'
               table == topicsSrvs[node]
    <3>1. data \in Request /\ IsTable(table)
      BY <1>2, <2>1
    <3> HIDE DEF data, table
    <3>2. \A t : LET next == AddReq(SetReqCallback(SetRequested(table, topic, TRUE),
                                                 topic, cb), topic, data) IN
            /\ Waiting(next, t) = IF t = topic THEN Append(Waiting(table, topic), data)
                                  ELSE Waiting(table, t)
            /\ AdvertisedByMe(next, t) = AdvertisedByMe(table, t)
      BY <3>1, AsyncCalls
    <3>3. QED
      BY <3>2 DEF data, table
<1> HIDE DEF new
<1>4. /\ Waiting(topicsSrvs'[node], topic) = Append(Waiting(topicsSrvs[node], topic), made')
      /\ \A n \in Node, t \in Topic : n # node \/ t # topic =>
            Waiting(topicsSrvs'[n], t) = Waiting(topicsSrvs[n], t)
  BY <1>1, <1>3, OneTable
<1>5. Elsewhere({PendingAt(node, topic)})
  BY <1>1, <1>4, StaysElsewhere DEF CallIds, ReplyIds
<1>6. /\ PendingAt(node, topic) \in Place
      /\ Held'[PendingAt(node, topic)] = Append(Held[PendingAt(node, topic)], made')
  BY <1>4, HeldAt
<1>7. QED
  BY <1>1, <1>5, <1>6 DEF Makes, Tidy, Answer

\* SrvRequest starts a call with a new request.
LEMMA RequestEffect ==
  ASSUME IInv, Tidy, NEW node \in Node, NEW topic \in Topic, SrvRequest(node, topic)
  PROVE  Tidy' /\ Makes(CallAt(node)) /\ Answer' = 0
<1> DEFINE new == SetRequested(topicsSrvs[node], topic, TRUE)
           newCall == [topic |-> topic, data |-> made', retries |-> MaxRetries]
<1>1. /\ topicsSrvs' = [topicsSrvs EXCEPT ![node] = new]
      /\ call' = [call EXCEPT ![node] = newCall]
      /\ pc' = [pc EXCEPT ![node] = "find"] /\ pc[node] = "app"
      /\ UNCHANGED <<requests, replies, reply>> /\ outcome' = None
      /\ made' = made + 1 /\ made < MaxRequest
  BY DEF SrvRequest, channels, Goto, At
<1>2. newCall \in SrvCall /\ newCall # None /\ newCall.data = made'
  <2>1. made' \in Request
    BY <1>1, NewRequest DEF IInv, TypeOK
  <2>2. newCall \in SrvCall
    BY <2>1, RetriesAssumption DEF SrvCall
  <2>3. QED
    BY <2>2, NoneIsNoRecord
<1>3. SameTables
  <2>1. IsTable(topicsSrvs[node])
    BY DEF IInv, TypeOK
  <2>2. \A t \in Topic : SameCalls(topicsSrvs[node], new, t)
    BY <2>1, DiscoverySameCalls
  <2>3. QED
    BY <1>1, <2>2, WritesSameTables
<1> HIDE DEF new, newCall
<1>4. /\ pc'[node] = "find" /\ call'[node] = newCall /\ call[node] = None
      /\ \A n \in Node : n # node => pc'[n] = pc[n] /\ call'[n] = call[n]
  BY <1>1 DEF IInv, TypeOK, Tidy
<1>5. CallIds(node) = <<>> /\ CallIds(node)' = <<made'>>
  BY <1>2, <1>4 DEF CallIds
<1>6. \A n \in Node : n # node => CallIds(n)' = CallIds(n)
  BY <1>4 DEF CallIds
<1>7. Elsewhere({CallAt(node)})
  BY <1>1, <1>3, <1>6, StaysElsewhere DEF SameTables, SameCalls, ReplyIds
<1>8. /\ CallAt(node) \in Place
      /\ Held'[CallAt(node)] = Append(Held[CallAt(node)], made')
  <2>1. <<made'>> = Append(<<>>, made')
    OBVIOUS
  <2>2. QED
    BY <1>5, <2>1, HeldAt
<1>9. Tidy'
  BY <1>1, <1>4 DEF Tidy
<1>10. QED
  BY <1>1, <1>7, <1>8, <1>9 DEF Makes, Answer

\* Asking again does not touch the request.
LEMMA RetryEffect ==
  ASSUME IInv, Tidy, NEW node \in Node, Retry(node)
  PROVE  Tidy' /\ Quiet /\ Answer' = 0
<1>1. /\ pc[node] = "find" /\ pc' = [pc EXCEPT ![node] = "spin"]
      /\ call' = [call EXCEPT ![node] = [call[node] EXCEPT !.retries = @ - 1]]
      /\ UNCHANGED <<topicsSrvs, requests, replies, reply, made>> /\ outcome' = None
  BY DEF Retry, At, Countdown, Goto, channels
<1>2. call[node] \in SrvCall /\ call[node] # None
  BY <1>1, IInvParts, InCall
<1> DEFINE newCall == [call[node] EXCEPT !.retries = @ - 1]
<1>3. newCall.data = call[node].data /\ newCall # None
  <2>1. newCall.data = call[node].data /\ DOMAIN newCall = {"topic", "data", "retries"}
    BY <1>2 DEF SrvCall
  <2>2. DOMAIN None = {"kind"}
    BY DEF None
  <2>3. QED
    BY <2>1, <2>2
<1> HIDE DEF newCall
<1>4. /\ pc'[node] = "spin" /\ call'[node] = newCall
      /\ \A n \in Node : n # node => pc'[n] = pc[n] /\ call'[n] = call[n]
  BY <1>1 DEF IInv, TypeOK, newCall
<1>5. \A n \in Node : CallIds(n)' = CallIds(n)
  BY <1>1, <1>2, <1>3, <1>4 DEF CallIds
<1>6. SameTables
  BY <1>1 DEF SameTables, SameCalls
<1>7. Quiet
  BY <1>1, <1>5, <1>6, QuietStep
<1>8. Tidy'
  BY <1>1, <1>4 DEF Tidy
<1>9. QED
  BY <1>1, <1>7, <1>8 DEF Answer

\* GiveUp drops the request of its call; Timeout has sent it.
LEMMA ReturnEffect ==
  ASSUME IInv, Tidy, NEW node \in Node, GiveUp(node) \/ Timeout(node)
  PROVE  Tidy' /\ Empties /\ Answer' = 0
<1>1. /\ pc' = [pc EXCEPT ![node] = "app"] /\ call' = [call EXCEPT ![node] = None]
      /\ UNCHANGED <<topicsSrvs, requests, replies, reply, made>>
      /\ pc[node] \in {"find", "await"}
  BY DEF GiveUp, Timeout, Return, Goto, At, channels
<1>2. Answer' = 0
  <2>1. outcome'.response = 0
    BY DEF GiveUp, Timeout, Return
  <2>2. QED
    BY <2>1 DEF Answer
<1>3. /\ pc'[node] = "app" /\ call'[node] = None
      /\ \A n \in Node : n # node => pc'[n] = pc[n] /\ call'[n] = call[n]
  BY <1>1 DEF IInv, TypeOK
<1>4. Tidy'
  BY <1>1, <1>3 DEF Tidy
<1>5. CallIds(node)' = <<>> /\ \A n \in Node : n # node => CallIds(n)' = CallIds(n)
  BY <1>3 DEF CallIds
<1>6. Elsewhere({CallAt(node)})
  BY <1>1, <1>5, StaysElsewhere DEF ReplyIds
<1>7. Held'[CallAt(node)] = <<>>
  BY <1>5, HeldAt
<1>8. QED
  BY <1>1, <1>2, <1>4, <1>6, <1>7 DEF Empties, Elsewhere

\* SendRequest moves the request of the call to a connected replier.
LEMMA SendRequestEffect ==
  ASSUME IInv, Tidy, NEW node \in Node, NEW peer \in Node, SendRequest(node, peer)
  PROVE  /\ Tidy' /\ MovesHead(CallAt(node), RequestAt(peer, node)) /\ Answer' = 0
<1> DEFINE msg == [topic |-> call[node].topic, data |-> call[node].data]
<1>1. /\ requests' = Push(requests, peer, node, msg)
      /\ pc' = [pc EXCEPT ![node] = "await"] /\ pc[node] = "find"
      /\ UNCHANGED <<topicsSrvs, replies, call, reply, made>> /\ outcome' = None
  BY DEF SendRequest, Goto, At
<1>2. call[node] \in SrvCall /\ call[node] # None
  BY <1>1, IInvParts, InCall
<1>3. msg \in Message /\ msg.data = call[node].data
  BY <1>2 DEF SrvCall, Message
<1> HIDE DEF msg
<1>4. /\ requests \in [Node -> [Node -> Seq(Message)]]
      /\ requests[peer][node] \in Seq(Message)
  BY DEF IInv, TypeOK
<1>5. pc'[node] = "await" /\ \A n \in Node : n # node => pc'[n] = pc[n]
  BY <1>1 DEF IInv, TypeOK
<1>6. /\ CallIds(node) = <<msg.data>> /\ CallIds(node)' = <<>>
      /\ \A n \in Node : n # node => CallIds(n)' = CallIds(n)
  BY <1>1, <1>2, <1>3, <1>5 DEF CallIds
<1>7. /\ requests'[peer][node] = Append(requests[peer][node], msg)
      /\ \A n, p \in Node : n # peer \/ p # node => requests'[n][p] = requests[n][p]
  BY <1>1, <1>4 DEF Push
<1>8. Ids(requests'[peer][node]) = Append(Ids(requests[peer][node]), msg.data)
  BY <1>3, <1>4, <1>7, IdsFacts
<1>9. Elsewhere({CallAt(node), RequestAt(peer, node)})
  BY <1>1, <1>6, <1>7, StaysElsewhere DEF ReplyIds
<1>10. /\ CallIds(node) # <<>> /\ Head(CallIds(node)) = msg.data
       /\ Tail(CallIds(node)) = <<>>
  BY <1>6
<1>11. MovesHead(CallAt(node), RequestAt(peer, node))
  <2>1. /\ CallAt(node) \in Place /\ RequestAt(peer, node) \in Place
        /\ CallAt(node) # RequestAt(peer, node)
    BY HeldAt, PlacesDiffer
  <2>2. /\ Held[CallAt(node)] = CallIds(node) /\ Held'[CallAt(node)] = CallIds(node)'
        /\ Held[RequestAt(peer, node)] = Ids(requests[peer][node])
        /\ Held'[RequestAt(peer, node)] = Ids(requests'[peer][node])
    BY HeldAt
  <2>3. QED
    BY <1>1, <1>6, <1>8, <1>9, <1>10, <2>1, <2>2 DEF MovesHead
<1>12. Tidy'
  BY <1>1, <1>5 DEF Tidy
<1>13. QED
  BY <1>1, <1>11, <1>12 DEF Answer

\* SrvRequest takes the oldest response of any peer.
LEMMA TakeResponseEffect ==
  ASSUME IInv, Tidy, NEW node \in Node, NEW peer \in Node, TakeResponse(node, peer)
  PROVE  /\ Tidy' /\ LosesHead(ResponseAt(node, peer))
         /\ Answer' = Head(Held[ResponseAt(node, peer)])
<1>1. /\ pc' = [pc EXCEPT ![node] = "app"] /\ pc[node] = "await"
      /\ call' = [call EXCEPT ![node] = None]
      /\ UNCHANGED <<topicsSrvs, requests, reply, made>>
      /\ replies[node][peer] # <<>> /\ replies' = Pop(replies, node, peer)
  BY DEF TakeResponse, Return, Goto, At
<1>2. /\ replies \in [Node -> [Node -> Seq(Message)]]
      /\ replies[node][peer] \in Seq(Message)
  BY DEF IInv, TypeOK
<1>3. /\ pc'[node] = "app" /\ call'[node] = None
      /\ \A n \in Node : n # node => pc'[n] = pc[n] /\ call'[n] = call[n]
  BY <1>1 DEF IInv, TypeOK
<1>4. \A n \in Node : CallIds(n)' = CallIds(n)
  BY <1>1, <1>3 DEF CallIds
<1>5. /\ replies'[node][peer] = Tail(replies[node][peer])
      /\ \A n, p \in Node : n # node \/ p # peer => replies'[n][p] = replies[n][p]
  BY <1>1, <1>2 DEF Pop
<1>6. /\ Ids(replies[node][peer]) # <<>>
      /\ Ids(replies'[node][peer]) = Tail(Ids(replies[node][peer]))
      /\ Head(Ids(replies[node][peer])) = Head(replies[node][peer]).data
  BY <1>1, <1>2, <1>5, IdsFacts
<1>7. Elsewhere({ResponseAt(node, peer)})
  BY <1>1, <1>4, <1>5, StaysElsewhere DEF ReplyIds
<1>8. LosesHead(ResponseAt(node, peer))
  BY <1>1, <1>6, <1>7, HeldAt DEF LosesHead
<1>9. Answer' = Head(replies[node][peer]).data
  <2>1. /\ outcome'.response = Head(replies[node][peer]).data
        /\ "rc" \in DOMAIN outcome'
    BY DEF TakeResponse, Return
  <2>2. outcome' # None
    BY <2>1 DEF None
  <2>3. QED
    BY <2>1, <2>2 DEF Answer
<1>10. Tidy'
  BY <1>1, <1>3 DEF Tidy
<1>11. QED
  BY <1>6, <1>8, <1>9, <1>10, HeldAt

\* SendPendingAsyncSrvCalls moves the oldest request that waits for a service.
LEMMA SendPendingEffect ==
  ASSUME IInv, Tidy, NEW node \in Node, NEW topic \in Topic, NEW peer \in Node,
         SendPendingReq(node, topic, peer)
  PROVE  /\ Tidy' /\ MovesHead(PendingAt(node, topic), RequestAt(peer, node))
         /\ Answer' = 0
<1> DEFINE table == topicsSrvs[node]
           new == DelReq(table, topic)
           msg == [topic |-> topic, data |-> OldestReq(table, topic)]
<1>1. /\ topicsSrvs' = [topicsSrvs EXCEPT ![node] = new]
      /\ requests' = Push(requests, peer, node, msg)
      /\ Goto(node, "spin") /\ Spins(node)
      /\ PendingReqs(table, topic)
      /\ UNCHANGED <<replies, call, reply, made>> /\ outcome' = None
  BY DEF SendPendingReq, Unsent
<1>2. IsTable(table)
  BY DEF IInv, TypeOK
<1>3. OldestReq(table, topic) \in Request
  BY <1>1, <1>2, DelReqFacts
<1>4. msg \in Message /\ msg.data = OldestReq(table, topic)
  BY <1>3 DEF Message
<1> HIDE DEF table, new, msg
<1>5. /\ \A t \in Topic : Waiting(new, t) =
            IF t = topic THEN Tail(Waiting(table, topic)) ELSE Waiting(table, t)
      /\ OldestReq(table, topic) = Head(Waiting(table, topic))
      /\ Waiting(table, topic) # <<>>
  BY <1>1, <1>2, DelReqCalls DEF new
<1>6. /\ Waiting(topicsSrvs'[node], topic) = Tail(Waiting(topicsSrvs[node], topic))
      /\ \A n \in Node, t \in Topic : n # node \/ t # topic =>
            Waiting(topicsSrvs'[n], t) = Waiting(topicsSrvs[n], t)
  BY <1>1, <1>5, OneTable DEF table
<1>7. /\ requests \in [Node -> [Node -> Seq(Message)]]
      /\ requests[peer][node] \in Seq(Message)
  BY DEF IInv, TypeOK
<1>8. /\ requests'[peer][node] = Append(requests[peer][node], msg)
      /\ \A n, p \in Node : n # peer \/ p # node => requests'[n][p] = requests[n][p]
  BY <1>1, <1>7 DEF Push
<1>9. Ids(requests'[peer][node]) = Append(Ids(requests[peer][node]), msg.data)
  BY <1>4, <1>7, <1>8, IdsFacts
<1>10. pc[node] # "await" /\ reply[node] = None
  BY <1>1, PollingIsTidy
<1>11. \A n \in Node : CallIds(n)' = CallIds(n)
  BY <1>1, <1>10, CallsStay
<1>12. Elsewhere({PendingAt(node, topic), RequestAt(peer, node)})
  BY <1>1, <1>6, <1>8, <1>11, StaysElsewhere DEF ReplyIds
<1>13. MovesHead(PendingAt(node, topic), RequestAt(peer, node))
  <2>1. /\ PendingAt(node, topic) \in Place /\ RequestAt(peer, node) \in Place
        /\ PendingAt(node, topic) # RequestAt(peer, node)
    BY HeldAt, PlacesDiffer
  <2>2. /\ Held[PendingAt(node, topic)] = Waiting(topicsSrvs[node], topic)
        /\ Held'[PendingAt(node, topic)] = Waiting(topicsSrvs'[node], topic)
        /\ Held[RequestAt(peer, node)] = Ids(requests[peer][node])
        /\ Held'[RequestAt(peer, node)] = Ids(requests'[peer][node])
    BY HeldAt
  <2>3. msg.data = Head(Waiting(topicsSrvs[node], topic))
    BY <1>4, <1>5 DEF table
  <2>4. Waiting(topicsSrvs[node], topic) # <<>>
    BY <1>5 DEF table
  <2>5. QED
    BY <1>1, <1>6, <1>9, <1>12, <2>1, <2>2, <2>3, <2>4 DEF MovesHead
<1>14. Tidy'
  <2>1. pc'[node] = "spin" /\ \A n \in Node : n # node => pc'[n] = pc[n]
    BY <1>1 DEF IInv, TypeOK, Goto
  <2>2. QED
    BY <1>1, <1>10, <2>1 DEF Tidy
<1>15. QED
  BY <1>1, <1>13, <1>14 DEF Answer

\* A poll that times out and one that finds a datagram move nothing.
LEMMA PollEffect ==
  ASSUME IInv, Tidy, NEW node \in Node,
         \/ PollTimeout(node)
         \/ \E datagram \in inbox[node] : RecvDiscoveryUpdates(node, datagram)
  PROVE  Tidy' /\ Quiet /\ Answer' = 0
<1>1. /\ Spins(node) /\ EndSpin(node)
      /\ UNCHANGED <<requests, replies, call, reply, made>> /\ outcome' = None
  BY DEF PollTimeout, RecvDiscoveryUpdates, Polls, Spins, channels
<1>2. SameTables
  <2>1. CASE PollTimeout(node)
    BY <2>1 DEF PollTimeout, SameTables, SameCalls
  <2>2. QED
    BY <2>1, DiscoverySameTables
<1>3. pc[node] # "await" /\ reply[node] = None
  BY <1>1, PollingIsTidy
<1>4. Tidy' /\ \A n \in Node : CallIds(n)' = CallIds(n)
  BY <1>1, <1>3, SpinEnds
<1>5. QED
  BY <1>1, <1>2, <1>4, QuietStep DEF Answer

\* RecvSrvRequest takes a request into its reply, or drops it.
LEMMA RecvSrvRequestEffect ==
  ASSUME IInv, Tidy, NEW node \in Node, NEW peer \in Node, RecvSrvRequest(node, peer)
  PROVE  /\ Tidy' /\ Answer' = 0
         /\ \/ MovesHead(RequestAt(node, peer), ReplyAt(node))
            \/ LosesHead(RequestAt(node, peer))
<1> DEFINE msg == Head(requests[node][peer])
<1>1. /\ requests[node][peer] # <<>> /\ requests' = Pop(requests, node, peer)
      /\ Spins(node)
      /\ UNCHANGED <<topicsSrvs, replies, call, made>> /\ outcome' = None
      /\ \/ reply' = [reply EXCEPT ![node] = msg] /\ Goto(node, "reply")
         \/ UNCHANGED reply /\ EndSpin(node)
  BY DEF RecvSrvRequest, Polls
<1>2. /\ requests \in [Node -> [Node -> Seq(Message)]]
      /\ requests[node][peer] \in Seq(Message)
  BY DEF IInv, TypeOK
<1>3. /\ requests'[node][peer] = Tail(requests[node][peer])
      /\ \A n, p \in Node : n # node \/ p # peer => requests'[n][p] = requests[n][p]
  BY <1>1, <1>2 DEF Pop
<1>4. /\ Ids(requests[node][peer]) # <<>>
      /\ Ids(requests'[node][peer]) = Tail(Ids(requests[node][peer]))
      /\ Head(Ids(requests[node][peer])) = msg.data
  BY <1>1, <1>2, <1>3, IdsFacts
<1>5. msg # None
  <2>1. msg \in Message
    BY <1>1, <1>2
  <2>2. QED
    BY <2>1, NoneIsNoRecord
<1> HIDE DEF msg
<1>6. pc[node] # "await" /\ reply[node] = None
  BY <1>1, PollingIsTidy
<1>7. /\ RequestAt(node, peer) \in Place
      /\ Held[RequestAt(node, peer)] = Ids(requests[node][peer])
      /\ Held'[RequestAt(node, peer)] = Ids(requests'[node][peer])
  BY HeldAt
<1>8. CASE UNCHANGED reply /\ EndSpin(node)
  <2>1. Tidy' /\ \A n \in Node : CallIds(n)' = CallIds(n)
    BY <1>1, <1>6, <1>8, SpinEnds
  <2>2. Elsewhere({RequestAt(node, peer)})
    BY <1>1, <1>3, <1>8, <2>1, StaysElsewhere DEF ReplyIds
  <2>3. QED
    BY <1>1, <1>4, <1>7, <2>1, <2>2 DEF LosesHead, Answer
<1>9. CASE reply' = [reply EXCEPT ![node] = msg] /\ Goto(node, "reply")
  <2>1. \A n \in Node : CallIds(n)' = CallIds(n)
    BY <1>1, <1>6, <1>9, CallsStay
  <2>2. /\ pc'[node] = "reply" /\ reply'[node] = msg
        /\ \A n \in Node : n # node => pc'[n] = pc[n] /\ reply'[n] = reply[n]
    BY <1>9 DEF IInv, TypeOK, Goto
  <2>3. /\ ReplyIds(node) = <<>> /\ ReplyIds(node)' = <<msg.data>>
        /\ \A n \in Node : n # node => ReplyIds(n)' = ReplyIds(n)
    BY <1>5, <1>6, <2>2 DEF ReplyIds
  <2>4. Elsewhere({RequestAt(node, peer), ReplyAt(node)})
    BY <1>1, <1>3, <2>1, <2>3, StaysElsewhere
  <2>5. /\ ReplyAt(node) \in Place /\ RequestAt(node, peer) # ReplyAt(node)
        /\ Held[ReplyAt(node)] = <<>> /\ Held'[ReplyAt(node)] = <<msg.data>>
    BY <2>3, HeldAt, PlacesDiffer
  <2>6. <<msg.data>> = Append(<<>>, msg.data)
    OBVIOUS
  <2>7. MovesHead(RequestAt(node, peer), ReplyAt(node))
    BY <1>1, <1>4, <1>7, <2>4, <2>5, <2>6 DEF MovesHead
  <2>8. Tidy'
    BY <1>1, <2>2 DEF Tidy
  <2>9. QED
    BY <1>1, <2>7, <2>8 DEF Answer
<1>10. QED
  BY <1>1, <1>8, <1>9

\* SendReply moves the reply to the queue of any connected requester.
LEMMA SendReplyEffect ==
  ASSUME IInv, Tidy, NEW node \in Node, NEW peer \in Node, SendReply(node, peer)
  PROVE  /\ Tidy' /\ MovesHead(ReplyAt(node), ResponseAt(peer, node)) /\ Answer' = 0
<1> DEFINE msg == reply[node]
<1>1. /\ replies' = Push(replies, peer, node, msg)
      /\ reply' = [reply EXCEPT ![node] = None]
      /\ EndSpin(node) /\ pc[node] = "reply"
      /\ UNCHANGED <<topicsSrvs, requests, call, made>> /\ outcome' = None
  BY DEF SendReply, At
<1>2. /\ replies \in [Node -> [Node -> Seq(Message)]]
      /\ replies[peer][node] \in Seq(Message)
      /\ msg \in Message /\ msg # None
      /\ reply \in [Node -> Message \cup {None}]
  BY <1>1 DEF IInv, TypeOK, ControlInv
<1>3. reply'[node] = None /\ \A n \in Node : n # node => reply'[n] = reply[n]
  BY <1>1, <1>2
<1>4. /\ ReplyIds(node) = <<msg.data>> /\ ReplyIds(node)' = <<>>
      /\ \A n \in Node : n # node => ReplyIds(n)' = ReplyIds(n)
  BY <1>2, <1>3 DEF ReplyIds
<1> HIDE DEF msg
<1>5. /\ replies'[peer][node] = Append(replies[peer][node], msg)
      /\ \A n, p \in Node : n # peer \/ p # node => replies'[n][p] = replies[n][p]
  BY <1>1, <1>2 DEF Push
<1>6. Ids(replies'[peer][node]) = Append(Ids(replies[peer][node]), msg.data)
  BY <1>2, <1>5, IdsFacts
<1>7. Tidy' /\ \A n \in Node : CallIds(n)' = CallIds(n)
  BY <1>1, <1>3, SpinEnds
<1>8. Elsewhere({ReplyAt(node), ResponseAt(peer, node)})
  BY <1>1, <1>4, <1>5, <1>7, StaysElsewhere
<1>9. MovesHead(ReplyAt(node), ResponseAt(peer, node))
  <2>1. /\ ReplyAt(node) \in Place /\ ResponseAt(peer, node) \in Place
        /\ ReplyAt(node) # ResponseAt(peer, node)
    BY HeldAt, PlacesDiffer
  <2>2. /\ Held[ReplyAt(node)] = <<msg.data>> /\ Held'[ReplyAt(node)] = <<>>
        /\ Held[ResponseAt(peer, node)] = Ids(replies[peer][node])
        /\ Held'[ResponseAt(peer, node)] = Ids(replies'[peer][node])
    BY <1>4, HeldAt
  <2>3. /\ <<msg.data>> # <<>> /\ Tail(<<msg.data>>) = <<>>
        /\ Head(<<msg.data>>) = msg.data
    OBVIOUS
  <2>4. QED
    BY <1>1, <1>6, <1>8, <2>1, <2>2, <2>3 DEF MovesHead
<1>10. QED
  BY <1>1, <1>7, <1>9 DEF Answer

\* RecvSrvReply hands the oldest response of a replier to the callback that is
\* registered for its service, if there is one.
LEMMA RecvSrvReplyEffect ==
  ASSUME IInv, Tidy, NEW node \in Node, NEW peer \in Node, RecvSrvReply(node, peer)
  PROVE  /\ Tidy' /\ LosesHead(ResponseAt(node, peer))
         /\ Answer' \in {0, Head(Held[ResponseAt(node, peer)])}
<1>1. /\ replies[node][peer] # <<>> /\ replies' = Pop(replies, node, peer)
      /\ EndSpin(node) /\ Spins(node)
      /\ UNCHANGED <<topicsSrvs, requests, call, reply, made>>
  BY DEF RecvSrvReply, Polls
<1>2. /\ replies \in [Node -> [Node -> Seq(Message)]]
      /\ replies[node][peer] \in Seq(Message)
  BY DEF IInv, TypeOK
<1>3. /\ replies'[node][peer] = Tail(replies[node][peer])
      /\ \A n, p \in Node : n # node \/ p # peer => replies'[n][p] = replies[n][p]
  BY <1>1, <1>2 DEF Pop
<1>4. /\ Ids(replies[node][peer]) # <<>>
      /\ Ids(replies'[node][peer]) = Tail(Ids(replies[node][peer]))
      /\ Head(Ids(replies[node][peer])) = Head(replies[node][peer]).data
  BY <1>1, <1>2, <1>3, IdsFacts
<1>5. pc[node] # "await" /\ reply[node] = None
  BY <1>1, PollingIsTidy
<1>6. Tidy' /\ \A n \in Node : CallIds(n)' = CallIds(n)
  BY <1>1, <1>5, SpinEnds
<1>7. Elsewhere({ResponseAt(node, peer)})
  BY <1>1, <1>3, <1>6, StaysElsewhere DEF ReplyIds
<1>8. /\ ResponseAt(node, peer) \in Place
      /\ Held[ResponseAt(node, peer)] = Ids(replies[node][peer])
      /\ Held'[ResponseAt(node, peer)] = Ids(replies'[node][peer])
  BY HeldAt
<1>9. LosesHead(ResponseAt(node, peer))
  BY <1>1, <1>4, <1>7, <1>8 DEF LosesHead
<1>10. outcome' = None \/ outcome'.response = Head(replies[node][peer]).data
  BY DEF RecvSrvReply
<1>11. QED
  BY <1>4, <1>6, <1>8, <1>9, <1>10 DEF Answer

\* What a process held is gone with it.
LEMMA ExitEffect ==
  ASSUME IInv, Tidy, NEW node \in Node, Exit(node)
  PROVE  Tidy' /\ Empties /\ Answer' = 0
<1>1. /\ topicsSrvs' = [topicsSrvs EXCEPT ![node] = EmptyTable]
      /\ requests' = [requests EXCEPT ![node] = [p \in Node |-> <<>>]]
      /\ replies' = [replies EXCEPT ![node] = [p \in Node |-> <<>>]]
      /\ pc' = [pc EXCEPT ![node] = "app"]
      /\ call' = [call EXCEPT ![node] = None]
      /\ reply' = [reply EXCEPT ![node] = None]
      /\ made' = made /\ outcome' = None
  BY DEF Exit
<1>2. /\ pc'[node] = "app" /\ call'[node] = None /\ reply'[node] = None
      /\ \A n \in Node : n # node =>
            pc'[n] = pc[n] /\ call'[n] = call[n] /\ reply'[n] = reply[n]
  BY <1>1 DEF IInv, TypeOK
<1>3. Tidy'
  BY <1>2 DEF Tidy
<1>4. \A n \in Node, t \in Topic :
         \/ Waiting(topicsSrvs'[n], t) = Waiting(topicsSrvs[n], t)
         \/ Waiting(topicsSrvs'[n], t) = <<>>
  <2>1. \A t : Waiting(EmptyTable, t) = <<>>
    BY EmptyTableFacts DEF Waiting, NewTopicInfo
  <2>2. QED
    BY <1>1, <2>1, OneTable
<1>5. \A n \in Node : /\ CallIds(n)' = CallIds(n) \/ CallIds(n)' = <<>>
                      /\ ReplyIds(n)' = ReplyIds(n) \/ ReplyIds(n)' = <<>>
  BY <1>2 DEF CallIds, ReplyIds
<1>6. \A n, p \in Node : /\ requests'[n][p] = requests[n][p] \/ requests'[n][p] = <<>>
                         /\ replies'[n][p] = replies[n][p] \/ replies'[n][p] = <<>>
  BY <1>1 DEF IInv, TypeOK
<1>7. Ids(<<>>) = <<>>
  BY DEF Ids
<1>8. ASSUME NEW a \in Place PROVE Held'[a] = Held[a] \/ Held'[a] = <<>>
  <2>1. \A n \in Node, t \in Topic :
           a = PendingAt(n, t) => Held'[a] = Held[a] \/ Held'[a] = <<>>
    BY <1>4, HeldAt
  <2>2. \A n \in Node :
           a = CallAt(n) \/ a = ReplyAt(n) => Held'[a] = Held[a] \/ Held'[a] = <<>>
    BY <1>5, HeldAt
  <2>3. \A n, p \in Node :
           a = RequestAt(n, p) \/ a = ResponseAt(n, p) =>
              Held'[a] = Held[a] \/ Held'[a] = <<>>
    BY <1>6, <1>7, HeldAt
  <2>4. QED
    BY <2>1, <2>2, <2>3, PlaceCases
<1>9. QED
  BY <1>1, <1>3, <1>8 DEF Empties, Answer

-----------------------------------------------------------------------------
(* What any step does                                                      *)

\* How far a request has come at a place.
Level(a) ==
  IF a[1] \in {"pending", "call"} THEN "queued"
  ELSE IF a[1] = "request" THEN "sent"
  ELSE "served"

Onward == {<<"queued", "sent">>, <<"sent", "served">>, <<"served", "served">>}

\* The effects of steps, and the answer each comes with.
Drops     == Empties \/ \E a \in Place : LosesHead(a)
Begins    == \E a \in Place : Level(a) = "queued" /\ Makes(a)
Advances  == \E a, b \in Place : <<Level(a), Level(b)>> \in Onward /\ MovesHead(a, b)
HandsOver == \E a \in Place : /\ Level(a) = "served" /\ LosesHead(a)
                              /\ Answer' = Head(Held[a])

Effect == HandsOver \/ (Answer' = 0 /\ (Drops \/ Begins \/ Advances))

\* The level of each kind of place.
LEMMA Levels ==
  \A n, p : /\ Level(PendingAt(n, p)) = "queued" /\ Level(CallAt(n)) = "queued"
            /\ Level(RequestAt(n, p)) = "sent" /\ Level(ReplyAt(n)) = "served"
            /\ Level(ResponseAt(n, p)) = "served"
  BY DEF Level, PendingAt, CallAt, RequestAt, ReplyAt, ResponseAt

\* A step in which no place changes empties none of them.
LEMMA QuietDrops == Quiet => Drops
  BY DEF Quiet, Drops, Empties, Elsewhere

\* A request moves on by one level.
LEMMA MovesAdvance ==
  ASSUME NEW a, NEW b, <<Level(a), Level(b)>> \in Onward, MovesHead(a, b)
  PROVE  Advances
<1>1. a \in Place /\ b \in Place
  BY DEF MovesHead
<1>2. QED
  BY <1>1 DEF Advances

\* Every step makes a request, moves one on, hands a response over or drops
\* some of what is held.
LEMMA StepEffect ==
  ASSUME IInv, Tidy, Next
  PROVE  Tidy' /\ Effect
<1>1. PICK node \in Node :
        Application(node) \/ BlockingCall(node) \/ SpinOnce(node) \/ Exit(node)
  BY DEF Next
<1>2. ASSUME NEW topic \in Topic,
             \/ \E cb \in Callback : SrvAdvertise(node, topic, cb)
             \/ SrvUnAdvertise(node, topic)
      PROVE  Tidy' /\ Effect
  BY <1>2, AdvertiseEffect, QuietDrops DEF Effect
<1>3. ASSUME NEW topic \in Topic, NEW cb \in Callback, SrvRequestAsync(node, topic, cb)
      PROVE  Tidy' /\ Effect
  <2>1. PendingAt(node, topic) \in Place /\ Level(PendingAt(node, topic)) = "queued"
    BY HeldAt, Levels
  <2>2. QED
    BY <1>3, <2>1, RequestAsyncEffect DEF Effect, Begins
<1>4. ASSUME NEW topic \in Topic, SrvRequest(node, topic)
      PROVE  Tidy' /\ Effect
  <2>1. CallAt(node) \in Place /\ Level(CallAt(node)) = "queued"
    BY HeldAt, Levels
  <2>2. QED
    BY <1>4, <2>1, RequestEffect DEF Effect, Begins
<1>5. CASE Application(node)
  BY <1>2, <1>3, <1>4, <1>5 DEF Application
<1>6. ASSUME NEW peer \in Node, SendRequest(node, peer)
      PROVE  Tidy' /\ Effect
  <2>1. <<Level(CallAt(node)), Level(RequestAt(peer, node))>> \in Onward
    BY Levels DEF Onward
  <2>2. QED
    BY <1>6, <2>1, SendRequestEffect, MovesAdvance DEF Effect
<1>7. ASSUME NEW peer \in Node, TakeResponse(node, peer)
      PROVE  Tidy' /\ Effect
  <2>1. /\ ResponseAt(node, peer) \in Place
        /\ Level(ResponseAt(node, peer)) = "served"
    BY HeldAt, Levels
  <2>2. QED
    BY <1>7, <2>1, TakeResponseEffect DEF Effect, HandsOver
<1>8. CASE BlockingCall(node)
  <2>1. CASE Retry(node)
    BY <2>1, RetryEffect, QuietDrops DEF Effect
  <2>2. CASE GiveUp(node) \/ Timeout(node)
    BY <2>2, ReturnEffect DEF Effect, Drops
  <2>3. QED
    BY <1>6, <1>7, <1>8, <2>1, <2>2 DEF BlockingCall
<1>9. ASSUME NEW topic \in Topic, NEW peer \in Node, SendPendingReq(node, topic, peer)
      PROVE  Tidy' /\ Effect
  <2>1. <<Level(PendingAt(node, topic)), Level(RequestAt(peer, node))>> \in Onward
    BY Levels DEF Onward
  <2>2. QED
    BY <1>9, <2>1, SendPendingEffect, MovesAdvance DEF Effect
<1>10. ASSUME \/ PollTimeout(node)
              \/ \E datagram \in inbox[node] : RecvDiscoveryUpdates(node, datagram)
       PROVE  Tidy' /\ Effect
  BY <1>10, PollEffect, QuietDrops DEF Effect
<1>11. ASSUME NEW peer \in Node, RecvSrvRequest(node, peer)
       PROVE  Tidy' /\ Effect
  <2>1. /\ <<Level(RequestAt(node, peer)), Level(ReplyAt(node))>> \in Onward
        /\ RequestAt(node, peer) \in Place
    BY Levels, HeldAt DEF Onward
  <2>2. QED
    BY <1>11, <2>1, RecvSrvRequestEffect, MovesAdvance DEF Effect, Drops
<1>12. ASSUME NEW peer \in Node, SendReply(node, peer)
       PROVE  Tidy' /\ Effect
  <2>1. <<Level(ReplyAt(node)), Level(ResponseAt(peer, node))>> \in Onward
    BY Levels DEF Onward
  <2>2. QED
    BY <1>12, <2>1, SendReplyEffect, MovesAdvance DEF Effect
<1>13. ASSUME NEW peer \in Node, RecvSrvReply(node, peer)
       PROVE  Tidy' /\ Effect
  <2>1. /\ ResponseAt(node, peer) \in Place
        /\ Level(ResponseAt(node, peer)) = "served"
    BY HeldAt, Levels
  <2>2. QED
    BY <1>13, <2>1, RecvSrvReplyEffect DEF Effect, HandsOver, Drops
<1>14. CASE SpinOnce(node)
  BY <1>9, <1>10, <1>11, <1>12, <1>13, <1>14 DEF SpinOnce
<1>15. CASE Exit(node)
  BY <1>15, ExitEffect DEF Effect, Drops
<1>16. QED
  BY <1>1, <1>5, <1>8, <1>14, <1>15

-----------------------------------------------------------------------------
(* No number is ever held twice                                            *)

Numbered  == Single(Held) /\ UpTo(Held, made)
HeldInv   == Tidy /\ Numbered

\* A move is a loss followed by a gain.
LEMMA MoveKeepsNumbers ==
  ASSUME IInv, Numbered, NEW a, NEW b, MovesHead(a, b)
  PROVE  Numbered'
<1> DEFINE mid == [c \in Place |-> IF c = a THEN Tail(Held[a]) ELSE Held[c]]
           x == Head(Held[a])
           new == Held'
<1>1. /\ DOMAIN Held = Place /\ DOMAIN new = Place
      /\ \A c \in Place : Held[c] \in Seq(Request)
  BY HeldAt, HeldType
<1>2. /\ a \in Place /\ b \in Place /\ a # b /\ Held[a] # <<>>
      /\ new[a] = Tail(Held[a]) /\ new[b] = Append(Held[b], x)
      /\ \A c \in Place \ {a, b} : new[c] = Held[c]
      /\ made' = made
  BY DEF MovesHead, Elsewhere
<1>3. Single(Held) /\ UpTo(Held, made)
  BY DEF Numbered
<1>4. made \in Nat
  BY RequestAssumption DEF IInv, TypeOK
<1>5. /\ DOMAIN mid = Place /\ mid[a] = Tail(Held[a])
      /\ \A c \in Place \ {a} : mid[c] = Held[c]
      /\ \A c \in Place : mid[c] \in Seq(Request)
  BY <1>1, <1>2
<1> HIDE DEF mid
<1>6. \A c \in Place : Suffix(Held[c], mid[c])
  <2>1. Suffix(Held[a], Tail(Held[a]))
    BY <1>1, <1>2, SuffixTail
  <2>2. \A c \in Place : Suffix(Held[c], Held[c])
    BY <1>1, SuffixStays
  <2>3. QED
    BY <1>5, <2>1, <2>2
<1>7. Single(mid) /\ UpTo(mid, made)
  BY <1>1, <1>3, <1>5, <1>6, LosingKeepsSingle
<1>8. Nowhere(mid, x)
  <2>1. a \in DOMAIN Held /\ DOMAIN mid = DOMAIN Held
    BY <1>1, <1>2, <1>5
  <2>2. Queues(Held)
    BY <1>1 DEF Queues
  <2>3. \A c \in DOMAIN Held \ {a} : mid[c] = Held[c]
    BY <1>1, <1>5
  <2>4. QED
    BY <1>2, <1>3, <1>5, <2>1, <2>2, <2>3, LostIsGone
<1>9. x \in Request /\ x \in 1..made
  <2>1. Held[a] \in Seq(Request) /\ Held[a] # <<>>
    BY <1>1, <1>2
  <2>2. 1 \in DOMAIN Held[a] /\ x = Held[a][1]
    BY <2>1
  <2>3. QED
    BY <1>1, <1>2, <1>3, <2>1, <2>2 DEF UpTo
<1>10. new[b] = Append(mid[b], x) /\ \A c \in Place \ {b} : new[c] = mid[c]
  BY <1>2, <1>5
<1> HIDE DEF x, new
<1>11. Single(new) /\ UpTo(new, made)
  <2>1. Queues(mid) /\ DOMAIN new = DOMAIN mid /\ b \in DOMAIN mid /\ made <= made
    BY <1>1, <1>2, <1>4, <1>5 DEF Queues
  <2>2. \A c \in DOMAIN mid \ {b} : new[c] = mid[c]
    BY <1>5, <1>10
  <2>3. QED
    BY <1>4, <1>7, <1>8, <1>9, <1>10, <2>1, <2>2, GainingKeepsSingle
<1>12. QED
  BY <1>2, <1>11 DEF Numbered, new

\* Places that only lose their first numbers.
LEMMA LossKeepsNumbers ==
  ASSUME IInv, Numbered, made' = made, \A c \in Place : Suffix(Held[c], Held'[c])
  PROVE  Numbered'
<1> DEFINE new == Held'
<1>1. DOMAIN new = DOMAIN Held /\ \A c \in DOMAIN Held : Suffix(Held[c], new[c])
  BY HeldAt
<1> HIDE DEF new
<1>2. Single(new) /\ UpTo(new, made)
  BY <1>1, LosingKeepsSingle DEF Numbered
<1>3. QED
  BY <1>2 DEF Numbered, new

\* Numbers that are held once, and were made, stay so when some are dropped.
LEMMA DropKeepsNumbers ==
  ASSUME IInv, Numbered, Drops
  PROVE  Numbered'
<1>1. \A c \in Place : Held[c] \in Seq(Request)
  BY HeldType
<1>2. \A c \in Place : Suffix(Held[c], Held[c]) /\ Suffix(Held[c], <<>>)
  BY <1>1, SuffixStays
<1>3. CASE Empties
  <2>1. made' = made /\ \A c \in Place : Suffix(Held[c], Held'[c])
    BY <1>2, <1>3 DEF Empties
  <2>2. QED
    BY <2>1, LossKeepsNumbers
<1>4. ASSUME NEW a \in Place, LosesHead(a)
      PROVE  Numbered'
  <2>1. Suffix(Held[a], Tail(Held[a]))
    BY <1>1, <1>4, SuffixTail DEF LosesHead
  <2>2. made' = made /\ \A c \in Place : Suffix(Held[c], Held'[c])
    BY <1>2, <1>4, <2>1 DEF LosesHead, Elsewhere
  <2>3. QED
    BY <2>2, LossKeepsNumbers
<1>5. QED
  BY <1>3, <1>4 DEF Drops

\* A new request has a new number.
LEMMA MakeKeepsNumbers ==
  ASSUME IInv, IInv', Numbered, NEW a \in Place, Makes(a)
  PROVE  Numbered'
<1> DEFINE new == Held'
           x == made'
<1>1. /\ DOMAIN Held = Place /\ DOMAIN new = Place
      /\ Queues(Held)
  BY HeldAt, HeldType DEF Queues
<1>2. made \in Nat /\ x = made + 1 /\ x \in Request /\ made <= x /\ x \in 1..x /\ x \in Nat
  BY RequestAssumption DEF IInv, TypeOK, Makes
<1>3. new[a] = Append(Held[a], x) /\ \A c \in DOMAIN Held \ {a} : new[c] = Held[c]
  BY <1>1 DEF Makes, Elsewhere
<1>4. Single(Held) /\ UpTo(Held, made)
  BY DEF Numbered
<1> HIDE DEF new, x
<1>5. Nowhere(Held, x)
  BY <1>2, <1>4 DEF UpTo, Nowhere
<1>6. Single(new) /\ UpTo(new, x)
  BY <1>1, <1>2, <1>3, <1>4, <1>5, GainingKeepsSingle
<1>7. QED
  BY <1>6 DEF Numbered, new, x

\* Handing a response to the application drops its number.
LEMMA HandsOverDrops == HandsOver => Drops
  BY DEF HandsOver, Drops

\* Before the first step no place holds anything.
LEMMA FreshHeld == running \subseteq Node /\ Fresh => IInv /\ HeldInv
<1> SUFFICES ASSUME running \subseteq Node, Fresh PROVE IInv /\ HeldInv
  OBVIOUS
<1>1. IInv
  BY FreshIInv
<1>2. Tidy
  BY DEF Fresh, Tidy
<1>3. \A n \in Node, t \in Topic : Waiting(topicsSrvs[n], t) = <<>>
  BY EmptyTableFacts DEF Fresh, Waiting, NewTopicInfo
<1>4. \A n \in Node : CallIds(n) = <<>> /\ ReplyIds(n) = <<>>
  BY DEF Fresh, CallIds, ReplyIds
<1>5. \A n, p \in Node : Ids(requests[n][p]) = <<>> /\ Ids(replies[n][p]) = <<>>
  BY DEF Fresh, Ids
<1>6. \A a \in Place : Held[a] = <<>>
  BY <1>3, <1>4, <1>5, HeldAt, PlaceCases
<1>7. Numbered
  BY <1>6, HeldAt DEF Numbered, Single, UpTo
<1>8. QED
  BY <1>1, <1>2, <1>7 DEF HeldInv

\* No step doubles a number.
LEMMA NextHeld == IInv /\ HeldInv /\ [Next]_vars => (IInv /\ HeldInv)'
<1> SUFFICES ASSUME IInv, HeldInv, [Next]_vars PROVE (IInv /\ HeldInv)'
  OBVIOUS
<1>1. IInv'
  BY NextIInv
<1>2. Tidy /\ Numbered
  BY DEF HeldInv
<1>3. CASE UNCHANGED vars
  <2>1. Tidy'
    BY <1>2, <1>3 DEF vars, Tidy
  <2>2. Held' = Held /\ made' = made
    BY <1>3 DEF vars, Held, Pending, CallIds, ReplyIds
  <2>3. QED
    BY <1>1, <1>2, <2>1, <2>2 DEF HeldInv, Numbered
<1>4. CASE Next
  <2>1. Tidy' /\ Effect
    BY <1>2, <1>4, StepEffect
  <2>2. ASSUME Drops \/ HandsOver PROVE Numbered'
    BY <1>2, <2>2, HandsOverDrops, DropKeepsNumbers
  <2>3. ASSUME Begins PROVE Numbered'
    BY <1>1, <1>2, <2>3, MakeKeepsNumbers DEF Begins
  <2>4. ASSUME Advances PROVE Numbered'
    BY <1>2, <2>4, MoveKeepsNumbers DEF Advances
  <2>5. QED
    BY <1>1, <2>1, <2>2, <2>3, <2>4 DEF HeldInv, Effect
<1>5. QED
  BY <1>3, <1>4

\* In every reachable state each number is held at most once, and only the
\* numbers of requests that were made are held.
THEOREM HeldOnce == Spec => [](IInv /\ HeldInv)
<1>1. Init => IInv /\ HeldInv
  BY FreshHeld DEF Init
<1>2. QED
  BY <1>1, NextHeld, PTL DEF Spec

-----------------------------------------------------------------------------
(* The first theorem: no second copy                                       *)

\* The name that Copies gives to what a place holds at an index.
Copy(a, i) ==
  IF a[1] \in {"call", "reply"} THEN <<a[1], a[2]>> ELSE <<a[1], a[2], a[3], i>>

\* Each copy of a request is held at some index of some place.
LEMMA CopiesAreHeld ==
  ASSUME IInv, NEW id, NEW e \in Copies(id)
  PROVE  \E a \in Place : \E i \in DOMAIN Held[a] : Held[a][i] = id /\ e = Copy(a, i)
<1>1. ASSUME NEW n \in Node, NEW t \in Topic, NEW i \in DOMAIN Pending(n, t),
             Pending(n, t)[i] = id, e = <<"pending", n, t, i>>
      PROVE  \E a \in Place : \E j \in DOMAIN Held[a] : Held[a][j] = id /\ e = Copy(a, j)
  <2>1. PendingAt(n, t) \in Place /\ Held[PendingAt(n, t)] = Pending(n, t)
    BY HeldAt DEF Pending, Waiting
  <2>2. Copy(PendingAt(n, t), i) = <<"pending", n, t, i>>
    BY DEF Copy, PendingAt
  <2>3. QED
    BY <1>1, <2>1, <2>2
<1>2. ASSUME NEW n \in Node, call[n] # None, pc[n] # "await", call[n].data = id,
             e = <<"call", n>>
      PROVE  \E a \in Place : \E j \in DOMAIN Held[a] : Held[a][j] = id /\ e = Copy(a, j)
  <2>1. CallAt(n) \in Place /\ Held[CallAt(n)] = <<id>>
    BY <1>2, HeldAt DEF CallIds
  <2>2. Copy(CallAt(n), 1) = <<"call", n>>
    BY DEF Copy, CallAt
  <2>3. 1 \in DOMAIN <<id>> /\ <<id>>[1] = id
    OBVIOUS
  <2>4. QED
    BY <1>2, <2>1, <2>2, <2>3
<1>3. ASSUME NEW n \in Node, reply[n] # None, reply[n].data = id, e = <<"reply", n>>
      PROVE  \E a \in Place : \E j \in DOMAIN Held[a] : Held[a][j] = id /\ e = Copy(a, j)
  <2>1. ReplyAt(n) \in Place /\ Held[ReplyAt(n)] = <<id>>
    BY <1>3, HeldAt DEF ReplyIds
  <2>2. Copy(ReplyAt(n), 1) = <<"reply", n>>
    BY DEF Copy, ReplyAt
  <2>3. 1 \in DOMAIN <<id>> /\ <<id>>[1] = id
    OBVIOUS
  <2>4. QED
    BY <1>3, <2>1, <2>2, <2>3
<1>4. ASSUME NEW n \in Node, NEW p \in Node, NEW i \in Holding(requests[n][p], id),
             e = <<"request", n, p, i>>
      PROVE  \E a \in Place : \E j \in DOMAIN Held[a] : Held[a][j] = id /\ e = Copy(a, j)
  <2>1. RequestAt(n, p) \in Place /\ Held[RequestAt(n, p)] = Ids(requests[n][p])
    BY HeldAt
  <2>2. i \in DOMAIN Ids(requests[n][p]) /\ Ids(requests[n][p])[i] = id
    BY <1>4 DEF Holding, Ids
  <2>3. Copy(RequestAt(n, p), i) = <<"request", n, p, i>>
    BY DEF Copy, RequestAt
  <2>4. QED
    BY <1>4, <2>1, <2>2, <2>3
<1>5. ASSUME NEW n \in Node, NEW p \in Node, NEW i \in Holding(replies[n][p], id),
             e = <<"response", n, p, i>>
      PROVE  \E a \in Place : \E j \in DOMAIN Held[a] : Held[a][j] = id /\ e = Copy(a, j)
  <2>1. ResponseAt(n, p) \in Place /\ Held[ResponseAt(n, p)] = Ids(replies[n][p])
    BY HeldAt
  <2>2. i \in DOMAIN Ids(replies[n][p]) /\ Ids(replies[n][p])[i] = id
    BY <1>5 DEF Holding, Ids
  <2>3. Copy(ResponseAt(n, p), i) = <<"response", n, p, i>>
    BY DEF Copy, ResponseAt
  <2>4. QED
    BY <1>5, <2>1, <2>2, <2>3
<1>6. QED
  <2>1. \/ \E n \in Node, t \in Topic : \E i \in DOMAIN Pending(n, t) :
             Pending(n, t)[i] = id /\ e = <<"pending", n, t, i>>
        \/ \E n \in Node : /\ call[n] # None /\ pc[n] # "await" /\ call[n].data = id
                           /\ e = <<"call", n>>
        \/ \E n, p \in Node : \E i \in Holding(requests[n][p], id) :
             e = <<"request", n, p, i>>
        \/ \E n \in Node : reply[n] # None /\ reply[n].data = id /\ e = <<"reply", n>>
        \/ \E n, p \in Node : \E i \in Holding(replies[n][p], id) :
             e = <<"response", n, p, i>>
    <3> DEFINE pendings == UNION {{<<"pending", n, t, i>> :
                 i \in {j \in DOMAIN Pending(n, t) : Pending(n, t)[j] = id}} :
                 n \in Node, t \in Topic}
               calls == {<<"call", n>> : n \in {m \in Node :
                 call[m] # None /\ pc[m] # "await" /\ call[m].data = id}}
               sent == UNION {{<<"request", n, p, i>> :
                 i \in Holding(requests[n][p], id)} : n \in Node, p \in Node}
               served == {<<"reply", n>> : n \in {m \in Node :
                 reply[m] # None /\ reply[m].data = id}}
               responses == UNION {{<<"response", n, p, i>> :
                 i \in Holding(replies[n][p], id)} : n \in Node, p \in Node}
    <3>1. e \in pendings => \E n \in Node, t \in Topic : \E i \in DOMAIN Pending(n, t) :
             Pending(n, t)[i] = id /\ e = <<"pending", n, t, i>>
      OBVIOUS
    <3>2. e \in calls => \E n \in Node : /\ call[n] # None /\ pc[n] # "await"
                                         /\ call[n].data = id /\ e = <<"call", n>>
      OBVIOUS
    <3>3. e \in sent => \E n, p \in Node : \E i \in Holding(requests[n][p], id) :
             e = <<"request", n, p, i>>
      OBVIOUS
    <3>4. e \in served => \E n \in Node : reply[n] # None /\ reply[n].data = id
                                          /\ e = <<"reply", n>>
      OBVIOUS
    <3>5. e \in responses => \E n, p \in Node : \E i \in Holding(replies[n][p], id) :
             e = <<"response", n, p, i>>
      OBVIOUS
    <3>6. e \in pendings \cup calls \cup sent \cup served \cup responses
      BY DEF Copies
    <3> HIDE DEF pendings, calls, sent, served, responses
    <3>7. QED
      BY <3>1, <3>2, <3>3, <3>4, <3>5, <3>6
  <2>2. QED
    BY <1>1, <1>2, <1>3, <1>4, <1>5, <2>1

\* Where no number is held twice there is no second copy.
LEMMA HeldOnceIsOneCopy == IInv /\ HeldInv => NoSecondCopy
<1> SUFFICES ASSUME IInv, HeldInv, NEW id \in 1..made
             PROVE  Cardinality(Copies(id)) <= 1
  BY DEF NoSecondCopy
<1>1. \A a, b \in Place : \A i \in DOMAIN Held[a], j \in DOMAIN Held[b] :
         Held[a][i] = Held[b][j] => a = b /\ i = j
  BY HeldAt DEF HeldInv, Numbered, Single
<1>2. \A e, f \in Copies(id) : e = f
  BY <1>1, CopiesAreHeld
<1>3. CASE Copies(id) = {}
  BY <1>3, FS_EmptySet
<1>4. ASSUME NEW e \in Copies(id) PROVE Cardinality(Copies(id)) <= 1
  <2>1. Copies(id) = {e}
    BY <1>2
  <2>2. Cardinality({e}) = 1
    BY FS_Singleton
  <2>3. QED
    BY <2>1, <2>2
<1>5. QED
  BY <1>3, <1>4

\* Whatever a service request goes through, there is never a second copy of it
\* or of its response, so its callback runs at most once.
THEOREM NeverTwice == Spec => []NoSecondCopy
  BY HeldOnceIsOneCopy, HeldOnce, PTL

-----------------------------------------------------------------------------
(* Asynchronous requests leave in order                                    *)

\* Only the applications that call a service with SrvRequest are in a call of
\* it.
CallsAreSync ==
  \A n \in Node : call[n] # None => <<n, call[n].topic>> \in SyncRequesters

\* What is on its way from n and for service t was on its way before.
NothingSent(n, t) ==
  \A p \in Node : \A msg \in ToSet(requests'[p][n]) :
     msg.topic = t => msg \in ToSet(requests[p][n])

\* The four things that can happen to the requests of a service at a node.
WaitsOrEnds(n, t) ==
  /\ Waiting(topicsSrvs'[n], t) \in {Waiting(topicsSrvs[n], t), <<>>}
  /\ NothingSent(n, t)

Joins(n, t) ==
  /\ made' = made + 1
  /\ Waiting(topicsSrvs'[n], t) = Append(Waiting(topicsSrvs[n], t), made')
  /\ UNCHANGED requests

Leaves(n, t) ==
  /\ Waiting(topicsSrvs[n], t) # <<>>
  /\ Waiting(topicsSrvs'[n], t) = Tail(Waiting(topicsSrvs[n], t))
  /\ \A p \in Node : \A msg \in ToSet(requests'[p][n]) :
        \/ msg \in ToSet(requests[p][n])
        \/ msg.data = Head(Waiting(topicsSrvs[n], t))

AsyncStep(n, t) ==
  WaitsOrEnds(n, t) \/ Joins(n, t) \/ Leaves(n, t) \/ <<n, t>> \in SyncRequesters

\* A queue that loses its head holds no message that it did not hold.
LEMMA ToSetTail ==
  ASSUME NEW S, NEW q \in Seq(S), q # <<>>
  PROVE  ToSet(Tail(q)) \subseteq ToSet(q)
<1>1. \A i \in DOMAIN Tail(q) : i + 1 \in DOMAIN q /\ Tail(q)[i] = q[i + 1]
  OBVIOUS
<1>2. QED
  BY <1>1 DEF ToSet

\* The requests that wait, by the places that change.
LEMMA WaitsElsewhere ==
  ASSUME NEW S, Elsewhere(S), NEW n \in Node, NEW t \in Topic, PendingAt(n, t) \notin S
  PROVE  Waiting(topicsSrvs'[n], t) = Waiting(topicsSrvs[n], t)
  BY HeldAt DEF Elsewhere

\* Steps that neither touch a waiting request nor send one.
LEMMA OtherAsyncStep ==
  ASSUME NEW S, Elsewhere(S), UNCHANGED requests,
         NEW n \in Node, NEW t \in Topic, PendingAt(n, t) \notin S
  PROVE  AsyncStep(n, t)
  BY WaitsElsewhere DEF AsyncStep, WaitsOrEnds, NothingSent

\* SrvRequestAsync puts the youngest number last.
LEMMA SrvRequestAsyncOrder ==
  ASSUME IInv, Tidy, NEW node \in Node, NEW topic \in Topic, NEW cb \in Callback,
         SrvRequestAsync(node, topic, cb), NEW n \in Node, NEW t \in Topic
  PROVE  AsyncStep(n, t)
<1>1. Makes(PendingAt(node, topic)) /\ UNCHANGED requests
  BY RequestAsyncEffect DEF SrvRequestAsync, channels
<1>2. CASE n = node /\ t = topic
  BY <1>1, <1>2, HeldAt DEF Makes, AsyncStep, Joins
<1>3. CASE ~(n = node /\ t = topic)
  <2>1. PendingAt(n, t) \notin {PendingAt(node, topic)}
    BY <1>3, PlacesDiffer
  <2>2. QED
    BY <1>1, <2>1, OtherAsyncStep DEF Makes
<1>4. QED
  BY <1>2, <1>3

\* A message pushed into a queue is the only one that is new in any of them.
LEMMA PushSends ==
  ASSUME IInv, NEW node \in Node, NEW peer \in Node, NEW msg \in Message,
         requests' = Push(requests, peer, node, msg)
  PROVE  \A n, p \in Node : \A other \in ToSet(requests'[p][n]) :
            other \in ToSet(requests[p][n]) \/ (n = node /\ other = msg)
<1>1. requests \in [Node -> [Node -> Seq(Message)]]
  BY DEF IInv, TypeOK
<1>2. /\ requests'[peer][node] = Append(requests[peer][node], msg)
      /\ \A n, p \in Node : n # node \/ p # peer => requests'[p][n] = requests[p][n]
  BY <1>1 DEF Push
<1>3. requests[peer][node] \in Seq(Message)
  BY <1>1
<1>4. ToSet(requests'[peer][node]) = ToSet(requests[peer][node]) \cup {msg}
  BY <1>2, <1>3, ToSetAppend
<1>5. QED
  BY <1>2, <1>4

\* SendPendingAsyncSrvCalls sends the oldest number that waits.
LEMMA SendPendingOrder ==
  ASSUME IInv, Tidy, NEW node \in Node, NEW topic \in Topic, NEW peer \in Node,
         SendPendingReq(node, topic, peer), NEW n \in Node, NEW t \in Topic
  PROVE  AsyncStep(n, t)
<1> DEFINE oldest == OldestReq(topicsSrvs[node], topic)
           msg == [topic |-> topic, data |-> oldest]
<1>1. /\ MovesHead(PendingAt(node, topic), RequestAt(peer, node))
      /\ requests' = Push(requests, peer, node, msg)
  BY SendPendingEffect DEF SendPendingReq
<1>2. oldest \in Request /\ oldest = Head(Waiting(topicsSrvs[node], topic))
  <2>1. IsTable(topicsSrvs[node]) /\ PendingReqs(topicsSrvs[node], topic)
    BY DEF IInv, TypeOK, SendPendingReq, Unsent
  <2>2. QED
    BY <2>1, DelReqFacts, DelReqCalls
<1>3. msg \in Message /\ msg.topic = topic /\ msg.data = oldest
  BY <1>2 DEF Message
<1> HIDE DEF msg, oldest
<1>4. \A m, p \in Node : \A other \in ToSet(requests'[p][m]) :
         other \in ToSet(requests[p][m]) \/ (m = node /\ other = msg)
  BY <1>1, <1>3, PushSends
<1>5. CASE n = node /\ t = topic
  <2>1. /\ Held[PendingAt(node, topic)] = Waiting(topicsSrvs[node], topic)
        /\ Held'[PendingAt(node, topic)] = Waiting(topicsSrvs'[node], topic)
    BY HeldAt
  <2>2. /\ Waiting(topicsSrvs[node], topic) # <<>>
        /\ Waiting(topicsSrvs'[node], topic) = Tail(Waiting(topicsSrvs[node], topic))
    BY <1>1, <2>1 DEF MovesHead
  <2>3. Leaves(n, t)
    BY <1>2, <1>3, <1>4, <1>5, <2>2 DEF Leaves
  <2>4. QED
    BY <2>3 DEF AsyncStep
<1>6. CASE ~(n = node /\ t = topic)
  <2>1. PendingAt(n, t) \notin {PendingAt(node, topic), RequestAt(peer, node)}
    BY <1>6, PlacesDiffer
  <2>2. Waiting(topicsSrvs'[n], t) = Waiting(topicsSrvs[n], t)
    BY <1>1, <2>1, WaitsElsewhere DEF MovesHead
  <2>3. NothingSent(n, t)
    BY <1>3, <1>4, <1>6 DEF NothingSent
  <2>4. QED
    BY <2>2, <2>3 DEF AsyncStep, WaitsOrEnds
<1>7. QED
  BY <1>5, <1>6

\* SrvRequest sends only for a service that is not called asynchronously alone.
LEMMA SendRequestOrder ==
  ASSUME IInv, Tidy, CallsAreSync, NEW node \in Node, NEW peer \in Node,
         SendRequest(node, peer), NEW n \in Node, NEW t \in Topic
  PROVE  AsyncStep(n, t)
<1> DEFINE msg == [topic |-> call[node].topic, data |-> call[node].data]
<1>1. /\ MovesHead(CallAt(node), RequestAt(peer, node))
      /\ requests' = Push(requests, peer, node, msg)
  BY SendRequestEffect DEF SendRequest
<1>2. call[node] \in SrvCall /\ call[node] # None
  BY IInvParts, InCall DEF SendRequest, At
<1>3. msg \in Message /\ msg.topic = call[node].topic
  BY <1>2 DEF SrvCall, Message
<1> HIDE DEF msg
<1>4. \A m, p \in Node : \A other \in ToSet(requests'[p][m]) :
         other \in ToSet(requests[p][m]) \/ (m = node /\ other = msg)
  BY <1>1, <1>3, PushSends
<1>5. Waiting(topicsSrvs'[n], t) = Waiting(topicsSrvs[n], t)
  <2>1. PendingAt(n, t) \notin {CallAt(node), RequestAt(peer, node)}
    BY PlacesDiffer
  <2>2. QED
    BY <1>1, <2>1, WaitsElsewhere DEF MovesHead
<1>6. CASE n = node /\ t = call[node].topic
  BY <1>2, <1>6 DEF CallsAreSync, AsyncStep
<1>7. CASE ~(n = node /\ t = call[node].topic)
  <2>1. NothingSent(n, t)
    BY <1>3, <1>4, <1>7 DEF NothingSent
  <2>2. QED
    BY <1>5, <2>1 DEF AsyncStep, WaitsOrEnds
<1>8. QED
  BY <1>6, <1>7

\* A request that is read leaves its pipe.
LEMMA RecvSrvRequestOrder ==
  ASSUME IInv, Tidy, NEW node \in Node, NEW peer \in Node,
         RecvSrvRequest(node, peer), NEW n \in Node, NEW t \in Topic
  PROVE  AsyncStep(n, t)
<1>1. /\ requests[node][peer] # <<>> /\ requests' = Pop(requests, node, peer)
      /\ \/ MovesHead(RequestAt(node, peer), ReplyAt(node))
         \/ LosesHead(RequestAt(node, peer))
  BY RecvSrvRequestEffect DEF RecvSrvRequest
<1>2. /\ requests \in [Node -> [Node -> Seq(Message)]]
      /\ requests[node][peer] \in Seq(Message)
  BY DEF IInv, TypeOK
<1>3. \A p \in Node : p # node \/ n # peer => requests'[p][n] = requests[p][n]
  BY <1>1, <1>2 DEF Pop
<1>4. requests'[node][peer] = Tail(requests[node][peer])
  BY <1>1, <1>2 DEF Pop
<1>5. ToSet(requests'[node][peer]) \subseteq ToSet(requests[node][peer])
  BY <1>1, <1>2, <1>4, ToSetTail
<1>6. NothingSent(n, t)
  BY <1>3, <1>5 DEF NothingSent
<1>7. Waiting(topicsSrvs'[n], t) = Waiting(topicsSrvs[n], t)
  <2>1. PendingAt(n, t) \notin {RequestAt(node, peer), ReplyAt(node)}
    BY PlacesDiffer
  <2>2. QED
    BY <1>1, <2>1, WaitsElsewhere DEF MovesHead, LosesHead
<1>8. QED
  BY <1>6, <1>7 DEF AsyncStep, WaitsOrEnds

\* A process that ends takes its queues with it.
LEMMA ExitOrder ==
  ASSUME IInv, Tidy, NEW node \in Node, Exit(node), NEW n \in Node, NEW t \in Topic
  PROVE  AsyncStep(n, t)
<1>1. Waiting(topicsSrvs'[n], t) \in {Waiting(topicsSrvs[n], t), <<>>}
  BY ExitEffect, HeldAt DEF Empties
<1>2. \A p \in Node : requests'[p][n] = requests[p][n] \/ requests'[p][n] = <<>>
  BY DEF Exit, IInv, TypeOK
<1>3. ToSet(<<>>) = {}
  BY DEF ToSet
<1>4. NothingSent(n, t)
  BY <1>2, <1>3 DEF NothingSent
<1>5. QED
  BY <1>1, <1>4 DEF AsyncStep, WaitsOrEnds

\* Every step is one of the four for every service and node.
LEMMA EveryAsyncStep ==
  ASSUME IInv, Tidy, CallsAreSync, Next, NEW n \in Node, NEW t \in Topic
  PROVE  AsyncStep(n, t)
<1>1. PICK node \in Node :
        Application(node) \/ BlockingCall(node) \/ SpinOnce(node) \/ Exit(node)
  BY DEF Next
<1>2. ASSUME Quiet, UNCHANGED requests PROVE AsyncStep(n, t)
  BY <1>2, OtherAsyncStep DEF Quiet
<1>3. ASSUME NEW topic \in Topic,
             \/ \E cb \in Callback : SrvAdvertise(node, topic, cb)
             \/ SrvUnAdvertise(node, topic)
      PROVE  AsyncStep(n, t)
  BY <1>2, <1>3, AdvertiseEffect DEF SrvAdvertise, SrvUnAdvertise, channels
<1>4. ASSUME NEW topic \in Topic, SrvRequest(node, topic)
      PROVE  AsyncStep(n, t)
  <2>1. Elsewhere({CallAt(node)}) /\ UNCHANGED requests
    BY <1>4, RequestEffect DEF SrvRequest, channels, Makes
  <2>2. PendingAt(n, t) \notin {CallAt(node)}
    BY PlacesDiffer
  <2>3. QED
    BY <2>1, <2>2, OtherAsyncStep
<1>5. CASE Application(node)
  BY <1>3, <1>4, <1>5, SrvRequestAsyncOrder DEF Application
<1>6. CASE Retry(node)
  BY <1>2, <1>6, RetryEffect DEF Retry, channels
<1>7. CASE GiveUp(node) \/ Timeout(node)
  <2>1. UNCHANGED <<topicsSrvs, requests>>
    BY <1>7 DEF GiveUp, Timeout, channels
  <2>2. QED
    BY <2>1 DEF AsyncStep, WaitsOrEnds, NothingSent
<1>8. ASSUME NEW peer \in Node, TakeResponse(node, peer) \/ RecvSrvReply(node, peer)
      PROVE  AsyncStep(n, t)
  <2>1. UNCHANGED <<topicsSrvs, requests>>
    BY <1>8 DEF TakeResponse, RecvSrvReply
  <2>2. QED
    BY <2>1 DEF AsyncStep, WaitsOrEnds, NothingSent
<1>9. CASE BlockingCall(node)
  BY <1>6, <1>7, <1>8, <1>9, SendRequestOrder DEF BlockingCall
<1>10. ASSUME NEW peer \in Node, SendReply(node, peer)
       PROVE  AsyncStep(n, t)
  <2>1. UNCHANGED <<topicsSrvs, requests>>
    BY <1>10 DEF SendReply
  <2>2. QED
    BY <2>1 DEF AsyncStep, WaitsOrEnds, NothingSent
<1>11. ASSUME \/ PollTimeout(node)
              \/ \E datagram \in inbox[node] : RecvDiscoveryUpdates(node, datagram)
       PROVE  AsyncStep(n, t)
  BY <1>2, <1>11, PollEffect DEF PollTimeout, RecvDiscoveryUpdates, channels
<1>12. CASE SpinOnce(node)
  BY <1>8, <1>10, <1>11, <1>12, SendPendingOrder, RecvSrvRequestOrder DEF SpinOnce
<1>13. QED
  BY <1>1, <1>5, <1>9, <1>12, ExitOrder

\* Calls start only where the application calls, and keep their service.
LEMMA CallsStaySync ==
  ASSUME IInv, CallsAreSync, Next
  PROVE  CallsAreSync'
<1>1. PICK node \in Node :
        Application(node) \/ BlockingCall(node) \/ SpinOnce(node) \/ Exit(node)
  BY DEF Next
<1>2. ASSUME UNCHANGED call PROVE CallsAreSync'
  BY <1>2 DEF CallsAreSync
<1>3. ASSUME call' = [call EXCEPT ![node] = None] PROVE CallsAreSync'
  BY <1>3 DEF CallsAreSync, IInv, TypeOK
<1>4. ASSUME NEW topic \in Topic, <<node, topic>> \in SyncRequesters,
             SrvRequest(node, topic)
      PROVE  CallsAreSync'
  <2>1. call' = [call EXCEPT ![node] =
                   [topic |-> topic, data |-> made', retries |-> MaxRetries]]
    BY <1>4 DEF SrvRequest
  <2>2. /\ call'[node].topic = topic
        /\ \A n \in Node : n # node => call'[n] = call[n]
    BY <2>1 DEF IInv, TypeOK
  <2>3. QED
    BY <1>4, <2>2 DEF CallsAreSync
<1>5. CASE Application(node)
  BY <1>2, <1>4, <1>5
     DEF Application, SrvAdvertise, SrvUnAdvertise, SrvRequestAsync
<1>6. CASE Retry(node)
  <2>1. call' = [call EXCEPT ![node] = [call[node] EXCEPT !.retries = @ - 1]]
    BY <1>6 DEF Retry, Countdown
  <2>2. call[node] \in SrvCall /\ call[node] # None
    BY <1>6, IInvParts, InCall DEF Retry, At
  <2> DEFINE newCall == [call[node] EXCEPT !.retries = @ - 1]
  <2>3. newCall.topic = call[node].topic
    BY <2>2 DEF SrvCall
  <2> HIDE DEF newCall
  <2>4. /\ call'[node].topic = call[node].topic
        /\ \A n \in Node : n # node => call'[n] = call[n]
    BY <2>1, <2>3 DEF IInv, TypeOK, newCall
  <2>5. QED
    BY <2>2, <2>4 DEF CallsAreSync
<1>7. CASE BlockingCall(node)
  BY <1>2, <1>3, <1>6, <1>7
     DEF BlockingCall, GiveUp, Timeout, SendRequest, TakeResponse, Return
<1>8. CASE SpinOnce(node)
  BY <1>2, <1>8 DEF SpinOnce, SendPendingReq, PollTimeout, RecvSrvRequest, SendReply,
                    RecvSrvReply, RecvDiscoveryUpdates
<1>9. CASE Exit(node)
  BY <1>3, <1>9 DEF Exit
<1>10. QED
  BY <1>1, <1>5, <1>7, <1>8, <1>9

\* Requests wait in the order in which they were made, and none of those on
\* their way to repliers was made later.
InOrder(n, t) ==
  LET waiting == Waiting(topicsSrvs[n], t) IN
  /\ \A i, j \in DOMAIN waiting : i < j => waiting[i] < waiting[j]
  /\ \A p \in Node, i \in DOMAIN waiting : \A msg \in ToSet(requests[p][n]) :
        msg.topic = t => msg.data < waiting[i]

\* AsyncInOrder, in terms of the places.
LEMMA AsyncInOrderIs ==
  AsyncInOrder <=> \A n \in Node, t \in Topic :
                      <<n, t>> \notin SyncRequesters => InOrder(n, t)
  BY DEF AsyncInOrder, InOrder, Pending, Waiting

\* What waits and what is on its way has been made.
LEMMA OnlyMade ==
  ASSUME IInv, Numbered, NEW n \in Node
  PROVE  /\ \A t \in Topic : \A i \in DOMAIN Waiting(topicsSrvs[n], t) :
              Waiting(topicsSrvs[n], t)[i] \in 1..made
         /\ \A p \in Node : \A msg \in ToSet(requests[p][n]) : msg.data \in 1..made
<1>1. \A a \in Place : \A i \in DOMAIN Held[a] : Held[a][i] \in 1..made
  BY HeldAt DEF Numbered, UpTo
<1>2. ASSUME NEW t \in Topic, NEW i \in DOMAIN Waiting(topicsSrvs[n], t)
      PROVE  Waiting(topicsSrvs[n], t)[i] \in 1..made
  BY <1>1, HeldAt
<1>3. ASSUME NEW p \in Node, NEW msg \in ToSet(requests[p][n])
      PROVE  msg.data \in 1..made
  <2>1. PICK i \in DOMAIN requests[p][n] : requests[p][n][i] = msg
    BY DEF ToSet
  <2>2. i \in DOMAIN Ids(requests[p][n]) /\ Ids(requests[p][n])[i] = msg.data
    BY <2>1 DEF Ids
  <2>3. RequestAt(p, n) \in Place /\ Held[RequestAt(p, n)] = Ids(requests[p][n])
    BY HeldAt
  <2>4. QED
    BY <1>1, <2>2, <2>3
<1>4. QED
  BY <1>2, <1>3

\* What each step does to waiting and sent numbers keeps their order.
LEMMA StepKeepsOrder ==
  ASSUME IInv, Numbered, NEW n \in Node, NEW t \in Topic, InOrder(n, t),
         WaitsOrEnds(n, t) \/ Joins(n, t) \/ Leaves(n, t)
  PROVE  InOrder(n, t)'
<1> DEFINE old == Waiting(topicsSrvs[n], t)
           new == Waiting(topicsSrvs'[n], t)
<1>1. /\ \A i, j \in DOMAIN old : i < j => old[i] < old[j]
      /\ \A p \in Node, i \in DOMAIN old : \A msg \in ToSet(requests[p][n]) :
            msg.topic = t => msg.data < old[i]
  BY DEF InOrder
<1>2. /\ \A i \in DOMAIN old : old[i] \in 1..made
      /\ \A p \in Node : \A msg \in ToSet(requests[p][n]) : msg.data \in 1..made
  BY OnlyMade
<1>3. old \in Seq(Request) /\ made \in Nat
  <2>1. PendingAt(n, t) \in Place /\ Held[PendingAt(n, t)] = old
    BY HeldAt
  <2>2. QED
    BY <2>1, HeldType, RequestAssumption DEF IInv, TypeOK
<1>4. SUFFICES
        /\ \A i, j \in DOMAIN new : i < j => new[i] < new[j]
        /\ \A p \in Node, i \in DOMAIN new : \A msg \in ToSet(requests'[p][n]) :
              msg.topic = t => msg.data < new[i]
  BY DEF InOrder
<1>5. CASE WaitsOrEnds(n, t)
  <2>1. /\ new \in {old, <<>>}
        /\ \A p \in Node : \A msg \in ToSet(requests'[p][n]) :
              msg.topic = t => msg \in ToSet(requests[p][n])
    BY <1>5 DEF WaitsOrEnds, NothingSent
  <2> HIDE DEF old, new
  <2>2. QED
    BY <1>1, <2>1
<1>6. CASE Joins(n, t)
  <2>1. new = Append(old, made + 1) /\ requests' = requests
    BY <1>6 DEF Joins
  <2> HIDE DEF old, new
  <2>2. ASSUME NEW i \in DOMAIN new
        PROVE  \/ i \in DOMAIN old /\ new[i] = old[i]
               \/ i = Len(old) + 1 /\ new[i] = made + 1
    BY <1>3, <2>1
  <2>3. \A i \in DOMAIN old : i \in Nat /\ i <= Len(old) /\ Len(old) \in Nat
    BY <1>3
  <2>4. \A i, j \in DOMAIN new : i < j => new[i] < new[j]
    BY <1>1, <1>2, <1>3, <2>2, <2>3
  <2>5. \A p \in Node, i \in DOMAIN new : \A msg \in ToSet(requests'[p][n]) :
           msg.topic = t => msg.data < new[i]
    BY <1>1, <1>2, <1>3, <2>1, <2>2
  <2>6. QED
    BY <2>4, <2>5
<1>7. CASE Leaves(n, t)
  <2>1. /\ old # <<>> /\ new = Tail(old)
        /\ \A p \in Node : \A msg \in ToSet(requests'[p][n]) :
              msg \in ToSet(requests[p][n]) \/ msg.data = Head(old)
    BY <1>7 DEF Leaves
  <2> HIDE DEF old, new
  <2>2. \A i \in DOMAIN new :
           i \in Nat /\ 1 < i + 1 /\ i + 1 \in DOMAIN old /\ new[i] = old[i + 1]
    BY <1>3, <2>1
  <2>3. 1 \in DOMAIN old /\ Head(old) = old[1]
    BY <1>3, <2>1
  <2>4. \A i, j \in DOMAIN new : i < j => new[i] < new[j]
    BY <1>1, <2>2
  <2>5. \A p \in Node, i \in DOMAIN new : \A msg \in ToSet(requests'[p][n]) :
           msg.topic = t => msg.data < new[i]
    BY <1>1, <2>1, <2>2, <2>3
  <2>6. QED
    BY <2>4, <2>5
<1>8. QED
  BY <1>5, <1>6, <1>7

\* Asynchronous requests for a service leave their node in the order in which
\* they were made, unless the application also calls it with SrvRequest.
THEOREM AsyncLeaveInOrder == Spec => []AsyncInOrder
<1> DEFINE Inv == IInv /\ HeldInv
           Order == CallsAreSync /\ AsyncInOrder
<1>1. Init => Order
  <2> SUFFICES ASSUME Init PROVE Order
    OBVIOUS
  <2>1. CallsAreSync
    BY DEF Init, Fresh, CallsAreSync
  <2>2. \A n \in Node, t \in Topic : Waiting(topicsSrvs[n], t) = <<>>
    BY EmptyTableFacts DEF Init, Fresh, Waiting, NewTopicInfo
  <2>3. AsyncInOrder
    BY <2>2, AsyncInOrderIs DEF InOrder
  <2>4. QED
    BY <2>1, <2>3
<1>2. Inv /\ Order /\ [Next]_vars => Order'
  <2> SUFFICES ASSUME Inv, Order, [Next]_vars PROVE Order'
    OBVIOUS
  <2>1. IInv /\ Tidy /\ Numbered /\ CallsAreSync /\ AsyncInOrder
    BY DEF HeldInv
  <2>2. CASE UNCHANGED vars
    BY <2>1, <2>2 DEF vars, CallsAreSync, AsyncInOrder, Pending
  <2>3. CASE Next
    <3>1. CallsAreSync'
      BY <2>1, <2>3, CallsStaySync
    <3>2. ASSUME NEW n \in Node, NEW t \in Topic, <<n, t>> \notin SyncRequesters
          PROVE  InOrder(n, t)'
      <4>1. WaitsOrEnds(n, t) \/ Joins(n, t) \/ Leaves(n, t)
        BY <2>1, <2>3, <3>2, EveryAsyncStep DEF AsyncStep
      <4>2. InOrder(n, t)
        BY <2>1, <3>2, AsyncInOrderIs
      <4>3. QED
        BY <2>1, <4>1, <4>2, StepKeepsOrder
    <3>3. AsyncInOrder'
      BY <3>2 DEF AsyncInOrder, InOrder, Pending, Waiting
    <3>4. QED
      BY <3>1, <3>3
  <2>4. QED
    BY <2>2, <2>3
<1>3. QED
  BY <1>1, <1>2, HeldOnce, PTL DEF Spec

-----------------------------------------------------------------------------
(* Replies come from nodes that advertised                                 *)

\* A node advertises only services that its application advertises.
OnlyRepliersAdvertise ==
  \A n \in Node, t \in Topic :
     AdvertisedByMe(topicsSrvs[n], t) => <<n, t>> \in Repliers

\* What no step does: advertise for another application, take a request for a
\* service that the node does not advertise, or send anything but its reply.
HonestTables ==
  \A n \in Node, t \in Topic : AdvertisedByMe(topicsSrvs'[n], t) =>
     AdvertisedByMe(topicsSrvs[n], t) \/ <<n, t>> \in Repliers
HonestReply ==
  \A n \in Node : reply'[n] # None =>
     reply'[n] = reply[n] \/ AdvertisedByMe(topicsSrvs[n], reply'[n].topic)
HonestReplies ==
  \A n, p \in Node : \A msg \in ToSet(replies'[p][n]) :
     msg \in ToSet(replies[p][n]) \/ (reply[n] # None /\ msg = reply[n])

\* Tables with the same calls advertise the same services.
LEMMA SameTablesAreHonest == SameTables => HonestTables
  BY DEF SameTables, SameCalls, HonestTables

\* A queue of replies that loses its head.
LEMMA PoppedAreHonest ==
  ASSUME IInv, NEW node \in Node, NEW peer \in Node, replies[node][peer] # <<>>,
         replies' = Pop(replies, node, peer)
  PROVE  HonestReplies
<1>1. /\ replies \in [Node -> [Node -> Seq(Message)]]
      /\ replies[node][peer] \in Seq(Message)
  BY DEF IInv, TypeOK
<1>2. /\ replies'[node][peer] = Tail(replies[node][peer])
      /\ \A n, p \in Node : p # node \/ n # peer => replies'[p][n] = replies[p][n]
  BY <1>1 DEF Pop
<1>3. ToSet(replies'[node][peer]) \subseteq ToSet(replies[node][peer])
  BY <1>1, <1>2, ToSetTail
<1>4. QED
  BY <1>2, <1>3 DEF HonestReplies

\* A reply moves from its node into a pipe from its node.
LEMMA SendReplyIsHonest ==
  ASSUME IInv, NEW node \in Node, NEW peer \in Node, SendReply(node, peer)
  PROVE  HonestTables /\ HonestReply /\ HonestReplies
<1>1. /\ replies' = Push(replies, peer, node, reply[node])
      /\ reply' = [reply EXCEPT ![node] = None]
      /\ UNCHANGED topicsSrvs /\ pc[node] = "reply"
  BY DEF SendReply, At
<1>2. /\ replies \in [Node -> [Node -> Seq(Message)]]
      /\ replies[peer][node] \in Seq(Message)
      /\ reply[node] \in Message /\ reply[node] # None
  BY <1>1 DEF IInv, TypeOK, ControlInv
<1>3. HonestReply
  BY <1>1 DEF HonestReply, IInv, TypeOK
<1>4. HonestReplies
  <2>1. /\ replies'[peer][node] = Append(replies[peer][node], reply[node])
        /\ \A n, p \in Node : p # peer \/ n # node => replies'[p][n] = replies[p][n]
    BY <1>1, <1>2 DEF Push
  <2>2. ToSet(replies'[peer][node]) = ToSet(replies[peer][node]) \cup {reply[node]}
    BY <1>2, <2>1, ToSetAppend
  <2>3. SUFFICES ASSUME NEW n \in Node, NEW p \in Node, NEW msg \in ToSet(replies'[p][n])
                 PROVE  msg \in ToSet(replies[p][n]) \/ (reply[n] # None /\ msg = reply[n])
    BY DEF HonestReplies
  <2>4. CASE p = peer /\ n = node
    BY <1>2, <2>2, <2>3, <2>4
  <2>5. CASE p # peer \/ n # node
    <3>1. replies'[p][n] = replies[p][n]
      BY <2>1, <2>5
    <3>2. QED
      BY <2>3, <3>1
  <2>6. QED
    BY <2>4, <2>5
<1>5. QED
  BY <1>1, <1>3, <1>4 DEF HonestTables

\* No step makes a table advertise what the application does not.
LEMMA TablesAreHonest ==
  ASSUME IInv, Next
  PROVE  HonestTables
<1>1. PICK node \in Node :
        Application(node) \/ BlockingCall(node) \/ SpinOnce(node) \/ Exit(node)
  BY DEF Next
<1>2. IsTable(topicsSrvs[node])
  BY DEF IInv, TypeOK
<1>3. ASSUME UNCHANGED topicsSrvs PROVE HonestTables
  BY <1>3 DEF HonestTables
<1>4. ASSUME NEW topic \in Topic, NEW cb, NEW value \in BOOLEAN,
             value => <<node, topic>> \in Repliers,
             topicsSrvs' = [topicsSrvs EXCEPT ![node] =
               SetRepCallback(SetAdvertisedByMe(@, topic, value), topic, cb)]
      PROVE  HonestTables
  <2> DEFINE new == SetRepCallback(SetAdvertisedByMe(topicsSrvs[node], topic, value), topic, cb)
  <2>1. \A t : AdvertisedByMe(new, t) =
                  IF t = topic THEN value ELSE AdvertisedByMe(topicsSrvs[node], t)
    BY <1>2, ReplierCalls
  <2>2. topicsSrvs' = [topicsSrvs EXCEPT ![node] = new]
    BY <1>4
  <2> HIDE DEF new
  <2>3. QED
    BY <1>4, <2>1, <2>2, OneTable DEF HonestTables
<1>5. ASSUME NEW topic \in Topic, NEW cb \in Callback, SrvRequestAsync(node, topic, cb)
      PROVE  HonestTables
  <2> DEFINE table == topicsSrvs[node]
             data == made'
             new == AddReq(SetReqCallback(SetRequested(table, topic, TRUE), topic, cb),
                           topic, data)
  <2>1. data \in Request /\ topicsSrvs' = [topicsSrvs EXCEPT ![node] = new]
    BY <1>5, NewRequest DEF SrvRequestAsync, IInv, TypeOK
  <2>2. IsTable(table)
    BY <1>2
  <2> HIDE DEF table, data
  <2>3. \A t : /\ Waiting(new, t) = IF t = topic THEN Append(Waiting(table, topic), data)
                                     ELSE Waiting(table, t)
              /\ AdvertisedByMe(new, t) = AdvertisedByMe(table, t)
    BY <2>1, <2>2, AsyncCalls
  <2> HIDE DEF new
  <2>4. QED
    BY <2>1, <2>3, OneTable DEF HonestTables, table
<1>6. ASSUME NEW topic \in Topic, SrvRequest(node, topic) PROVE HonestTables
  <2> DEFINE new == SetRequested(topicsSrvs[node], topic, TRUE)
  <2>1. topicsSrvs' = [topicsSrvs EXCEPT ![node] = new]
    BY <1>6 DEF SrvRequest
  <2>2. \A t \in Topic : SameCalls(topicsSrvs[node], new, t)
    BY <1>2, DiscoverySameCalls
  <2>3. QED
    BY <2>1, <2>2, WritesSameTables, SameTablesAreHonest
<1>7. ASSUME NEW topic \in Topic, NEW peer \in Node, SendPendingReq(node, topic, peer)
      PROVE  HonestTables
  <2> DEFINE new == DelReq(topicsSrvs[node], topic)
  <2>1. /\ topicsSrvs' = [topicsSrvs EXCEPT ![node] = new]
        /\ PendingReqs(topicsSrvs[node], topic)
    BY <1>7 DEF SendPendingReq, Unsent
  <2>2. \A t : AdvertisedByMe(new, t) = AdvertisedByMe(topicsSrvs[node], t)
    BY <1>2, <2>1, DelReqCalls
  <2> HIDE DEF new
  <2>3. QED
    BY <2>1, <2>2, OneTable DEF HonestTables
<1>8. CASE Application(node)
  <2>1. ASSUME NEW topic \in Topic, <<node, topic>> \in Repliers, NEW cb \in Callback,
               SrvAdvertise(node, topic, cb)
        PROVE  HonestTables
    BY <1>4, <2>1 DEF SrvAdvertise
  <2>2. ASSUME NEW topic \in Topic, SrvUnAdvertise(node, topic) PROVE HonestTables
    BY <1>4, <2>2 DEF SrvUnAdvertise
  <2>3. QED
    BY <1>5, <1>6, <1>8, <2>1, <2>2 DEF Application
<1>9. CASE BlockingCall(node)
  BY <1>3, <1>9 DEF BlockingCall, Retry, GiveUp, Timeout, SendRequest, TakeResponse
<1>10. CASE SpinOnce(node)
  BY <1>3, <1>7, <1>10, DiscoverySameTables, SameTablesAreHonest
     DEF SpinOnce, PollTimeout, RecvSrvRequest, SendReply, RecvSrvReply
<1>11. CASE Exit(node)
  <2>1. \A t : ~AdvertisedByMe(EmptyTable, t)
    BY EmptyTableFacts DEF AdvertisedByMe, NewTopicInfo
  <2>2. topicsSrvs' = [topicsSrvs EXCEPT ![node] = EmptyTable]
    BY <1>11 DEF Exit
  <2>3. QED
    BY <2>1, <2>2, OneTable DEF HonestTables
<1>12. QED
  BY <1>1, <1>8, <1>9, <1>10, <1>11

\* No step makes a reply for a service the node does not advertise.
LEMMA RepliesAreHonest ==
  ASSUME IInv, Next
  PROVE  HonestReply /\ HonestReplies
<1>1. PICK node \in Node :
        Application(node) \/ BlockingCall(node) \/ SpinOnce(node) \/ Exit(node)
  BY DEF Next
<1>2. ASSUME UNCHANGED reply PROVE HonestReply
  BY <1>2 DEF HonestReply
<1>3. ASSUME UNCHANGED replies PROVE HonestReplies
  BY <1>3 DEF HonestReplies
<1>4. CASE Application(node)
  BY <1>2, <1>3, <1>4
     DEF Application, SrvAdvertise, SrvUnAdvertise, SrvRequestAsync, SrvRequest, channels
<1>5. CASE BlockingCall(node)
  <2>1. UNCHANGED reply
    BY <1>5 DEF BlockingCall, Retry, GiveUp, Timeout, SendRequest, TakeResponse
  <2>2. ASSUME NEW peer \in Node, TakeResponse(node, peer) PROVE HonestReplies
    BY <2>2, PoppedAreHonest DEF TakeResponse
  <2>3. QED
    BY <1>2, <1>3, <1>5, <2>1, <2>2
       DEF BlockingCall, Retry, GiveUp, Timeout, SendRequest, channels
<1>6. ASSUME NEW peer \in Node, RecvSrvRequest(node, peer)
      PROVE  HonestReply /\ HonestReplies
  <2> DEFINE msg == Head(requests[node][peer])
  <2>1. /\ UNCHANGED replies
        /\ \/ UNCHANGED reply
           \/ /\ AdvertisedByMe(topicsSrvs[node], msg.topic)
              /\ reply' = [reply EXCEPT ![node] = msg]
    BY <1>6 DEF RecvSrvRequest
  <2> HIDE DEF msg
  <2>2. CASE /\ AdvertisedByMe(topicsSrvs[node], msg.topic)
             /\ reply' = [reply EXCEPT ![node] = msg]
    BY <1>3, <2>1, <2>2 DEF HonestReply, IInv, TypeOK
  <2>3. QED
    BY <1>2, <1>3, <2>1, <2>2
<1>7. ASSUME NEW peer \in Node, RecvSrvReply(node, peer)
      PROVE  HonestReply /\ HonestReplies
  BY <1>2, <1>7, PoppedAreHonest DEF RecvSrvReply
<1>8. CASE SpinOnce(node)
  BY <1>2, <1>3, <1>6, <1>7, <1>8, SendReplyIsHonest
     DEF SpinOnce, SendPendingReq, PollTimeout, RecvDiscoveryUpdates, channels
<1>9. CASE Exit(node)
  <2>1. HonestReply
    BY <1>9 DEF Exit, HonestReply, IInv, TypeOK
  <2>2. \A n, p \in Node : replies'[p][n] = replies[p][n] \/ replies'[p][n] = <<>>
    BY <1>9 DEF Exit, IInv, TypeOK
  <2>3. ToSet(<<>>) = {}
    BY DEF ToSet
  <2>4. QED
    BY <2>1, <2>2, <2>3 DEF HonestReplies
<1>10. QED
  BY <1>1, <1>4, <1>5, <1>8, <1>9

\* A reply comes from a node whose application advertised the service, although
\* DEALER sockets hand requests to repliers of other services, too.
THEOREM OnlyRepliersReply == Spec => []OnlyAdvertisersReply
<1> DEFINE Inv == OnlyRepliersAdvertise /\ OnlyAdvertisersReply
<1>1. Init => Inv
  <2> SUFFICES ASSUME Init PROVE Inv
    OBVIOUS
  <2>1. \A t : ~AdvertisedByMe(EmptyTable, t)
    BY EmptyTableFacts DEF AdvertisedByMe, NewTopicInfo
  <2>2. OnlyRepliersAdvertise
    BY <2>1 DEF Init, Fresh, OnlyRepliersAdvertise
  <2>3. ToSet(<<>>) = {}
    BY DEF ToSet
  <2>4. OnlyAdvertisersReply
    BY <2>3 DEF Init, Fresh, OnlyAdvertisersReply
  <2>5. QED
    BY <2>2, <2>4
<1>2. IInv /\ IInv' /\ Inv /\ [Next]_vars => Inv'
  <2> SUFFICES ASSUME IInv, IInv', Inv, [Next]_vars PROVE Inv'
    OBVIOUS
  <2>1. CASE UNCHANGED vars
    BY <2>1 DEF vars, OnlyRepliersAdvertise, OnlyAdvertisersReply
  <2>2. CASE Next
    <3>1. HonestTables /\ HonestReply /\ HonestReplies
      BY <2>2, TablesAreHonest, RepliesAreHonest
    <3>2. OnlyRepliersAdvertise'
      BY <3>1 DEF OnlyRepliersAdvertise, HonestTables
    <3>3. \A n \in Node : reply'[n] # None => <<n, reply'[n].topic>> \in Repliers
      <4>1. SUFFICES ASSUME NEW n \in Node, reply'[n] # None
                     PROVE  <<n, reply'[n].topic>> \in Repliers
        OBVIOUS
      <4>2. reply'[n].topic \in Topic
        BY <4>1 DEF IInv, TypeOK, Message
      <4>3. QED
        BY <3>1, <4>1, <4>2
           DEF HonestReply, OnlyRepliersAdvertise, OnlyAdvertisersReply
    <3>4. \A n, p \in Node : \A msg \in ToSet(replies'[p][n]) :
             <<n, msg.topic>> \in Repliers
      BY <3>1 DEF HonestReplies, OnlyAdvertisersReply
    <3>5. QED
      BY <3>2, <3>3, <3>4 DEF OnlyAdvertisersReply
  <2>3. QED
    BY <2>1, <2>2
<1>3. QED
  BY <1>1, <1>2, InductiveInvariant, PTL DEF Spec

-----------------------------------------------------------------------------
(* The phases of requests, by the places that hold them                    *)

Phase ==
  [id \in 1..MaxRequest |->
     IF id > made THEN "new"
     ELSE IF id \in Queued THEN "queued"
     ELSE IF id \in IdsIn(requests) THEN "sent"
     ELSE IF id \in Served THEN "served"
     ELSE "over"]

\* The numbers that places of one level hold.
HeldAtLevel(level) ==
  {id \in Request : \E a \in Place : Level(a) = level /\ id \in ToSet(Held[a])}

\* A held request is in the phase of its place, and one that was made and is
\* held nowhere is over.
PhaseIs ==
  /\ DOMAIN Phase = 1..MaxRequest
  /\ \A id \in 1..MaxRequest : id > made => Phase[id] = "new"
  /\ \A a \in Place : \A id \in ToSet(Held[a]) :
        id \in 1..made /\ id \in 1..MaxRequest /\ Phase[id] = Level(a)
  /\ \A id \in 1..MaxRequest :
        id <= made /\ (\A a \in Place : id \notin ToSet(Held[a])) => Phase[id] = "over"

\* The numbers in a pipe are those of its messages.
LEMMA ToSetIds ==
  ASSUME NEW q \in Seq(Message)
  PROVE  ToSet(Ids(q)) = {msg.data : msg \in ToSet(q)}
  BY DEF ToSet, Ids

\* The elements of sequences of no and of one element.
LEMMA ToSetSmall ==
  ToSet(<<>>) = {} /\ \A x : ToSet(<<x>>) = {x}
<1>1. ToSet(<<>>) = {}
  BY DEF ToSet
<1>2. ASSUME NEW x PROVE ToSet(<<x>>) = {x}
  <2>1. DOMAIN <<x>> = {1} /\ <<x>>[1] = x
    OBVIOUS
  <2>2. QED
    BY <2>1 DEF ToSet
<1>3. QED
  BY <1>1, <1>2

\* The numbers of the messages in any of the queues.
LEMMA IdsInIs ==
  ASSUME NEW queues, NEW id
  PROVE  id \in IdsIn(queues) <=>
            \E n, p \in Node : id \in {msg.data : msg \in ToSet(queues[n][p])}
<1> DEFINE ids(n, p) == {msg.data : msg \in ToSet(queues[n][p])}
<1>1. IdsIn(queues) = UNION {ids(n, p) : n \in Node, p \in Node}
  BY DEF IdsIn
<1> HIDE DEF ids
<1>2. id \in UNION {ids(n, p) : n \in Node, p \in Node} <=>
         \E n, p \in Node : id \in ids(n, p)
  OBVIOUS
<1>3. QED
  BY <1>1, <1>2 DEF ids

\* Each level has places of its own kinds.
LEMMA PlacesOfLevel ==
  ASSUME NEW a \in Place
  PROVE  /\ Level(a) = "queued" => \/ \E n \in Node, t \in Topic : a = PendingAt(n, t)
                                   \/ \E n \in Node : a = CallAt(n)
         /\ Level(a) = "sent" => \E n, p \in Node : a = RequestAt(n, p)
         /\ Level(a) = "served" => \/ \E n \in Node : a = ReplyAt(n)
                                   \/ \E n, p \in Node : a = ResponseAt(n, p)
         /\ Level(a) \in {"queued", "sent", "served"}
  BY PlaceCases, Levels

\* Queued: the numbers held at a place of level queued.
LEMMA QueuedIs ==
  ASSUME IInv
  PROVE  \A id \in Request : id \in Queued <=> id \in HeldAtLevel("queued")
<1>1. \A n \in Node, t \in Topic :
         ToSet(Held[PendingAt(n, t)]) = ToSet(Pending(n, t))
  BY HeldAt DEF Pending, Waiting
<1>2. \A n \in Node : \A id : id \in ToSet(Held[CallAt(n)]) <=>
         call[n] # None /\ pc[n] # "await" /\ id = call[n].data
  <2>1. SUFFICES ASSUME NEW n \in Node
                 PROVE  \A id : id \in ToSet(CallIds(n)) <=>
                           call[n] # None /\ pc[n] # "await" /\ id = call[n].data
    BY HeldAt
  <2>2. CASE call[n] # None /\ pc[n] # "await"
    <3>1. CallIds(n) = <<call[n].data>>
      BY <2>2 DEF CallIds
    <3>2. ToSet(CallIds(n)) = {call[n].data}
      BY <3>1, ToSetSmall
    <3>3. QED
      BY <2>2, <3>2
  <2>3. CASE ~(call[n] # None /\ pc[n] # "await")
    BY <2>3, ToSetSmall DEF CallIds
  <2>4. QED
    BY <2>2, <2>3
<1>3. \A id : id \in Queued <=>
         \/ \E n \in Node, t \in Topic : id \in ToSet(Pending(n, t))
         \/ \E n \in Node : call[n] # None /\ pc[n] # "await" /\ id = call[n].data
  BY DEF Queued
<1>4. \A id : id \in Queued <=>
         \/ \E n \in Node, t \in Topic : id \in ToSet(Held[PendingAt(n, t)])
         \/ \E n \in Node : id \in ToSet(Held[CallAt(n)])
  BY <1>1, <1>2, <1>3
<1>5. /\ \A n \in Node, t \in Topic :
            PendingAt(n, t) \in Place /\ Level(PendingAt(n, t)) = "queued"
      /\ \A n \in Node : CallAt(n) \in Place /\ Level(CallAt(n)) = "queued"
  BY HeldAt, Levels
<1>6. QED
  BY <1>4, <1>5, PlacesOfLevel DEF HeldAtLevel

\* IdsIn(requests): the numbers held at a place of level sent.
LEMMA SentIs ==
  ASSUME IInv
  PROVE  \A id \in Request : id \in IdsIn(requests) <=> id \in HeldAtLevel("sent")
<1>1. \A n, p \in Node :
         ToSet(Held[RequestAt(n, p)]) = {msg.data : msg \in ToSet(requests[n][p])}
  BY HeldAt, ToSetIds DEF IInv, TypeOK
<1>2. \A id : id \in IdsIn(requests) <=>
         \E n, p \in Node : id \in {msg.data : msg \in ToSet(requests[n][p])}
  BY IdsInIs
<1>3. \A n, p \in Node :
         RequestAt(n, p) \in Place /\ Level(RequestAt(n, p)) = "sent"
  BY HeldAt, Levels
<1>4. \A id : id \in IdsIn(requests) <=>
         \E n, p \in Node : id \in ToSet(Held[RequestAt(n, p)])
  <2>1. SUFFICES ASSUME NEW id
                 PROVE  id \in IdsIn(requests) <=>
                          \E n, p \in Node : id \in ToSet(Held[RequestAt(n, p)])
    OBVIOUS
  <2>2. \A n, p \in Node : id \in ToSet(Held[RequestAt(n, p)]) <=>
           id \in {msg.data : msg \in ToSet(requests[n][p])}
    BY <1>1, Zenon
  <2>3. id \in IdsIn(requests) <=>
           \E n, p \in Node : id \in {msg.data : msg \in ToSet(requests[n][p])}
    BY <1>2, Zenon
  <2>4. QED
    BY <2>2, <2>3, Zenon
<1>5. SUFFICES ASSUME NEW id \in Request
               PROVE  id \in IdsIn(requests) <=> id \in HeldAtLevel("sent")
  OBVIOUS
<1>6. ASSUME id \in IdsIn(requests)
      PROVE  id \in HeldAtLevel("sent")
  <2>1. PICK n \in Node : \E p \in Node : id \in ToSet(Held[RequestAt(n, p)])
    BY <1>4, <1>6
  <2>2. PICK p \in Node : id \in ToSet(Held[RequestAt(n, p)])
    BY <2>1
  <2>3. QED
    BY <1>3, <2>2 DEF HeldAtLevel
<1>7. ASSUME id \in HeldAtLevel("sent")
      PROVE  id \in IdsIn(requests)
  <2>1. PICK a \in Place : Level(a) = "sent" /\ id \in ToSet(Held[a])
    BY <1>7 DEF HeldAtLevel
  <2>2. \E n, p \in Node : a = RequestAt(n, p)
    BY <2>1, PlacesOfLevel
  <2>3. QED
    BY <1>4, <2>1, <2>2
<1>8. QED
  BY <1>6, <1>7

\* Served: the numbers held at a place of level served.
LEMMA ServedIs ==
  ASSUME IInv
  PROVE  \A id \in Request : id \in Served <=> id \in HeldAtLevel("served")
<1>1. \A n, p \in Node :
         ToSet(Held[ResponseAt(n, p)]) = {msg.data : msg \in ToSet(replies[n][p])}
  BY HeldAt, ToSetIds DEF IInv, TypeOK
<1>2. \A n \in Node : \A id : id \in ToSet(Held[ReplyAt(n)]) <=>
         reply[n] # None /\ id = reply[n].data
  <2>1. SUFFICES ASSUME NEW n \in Node
                 PROVE  \A id : id \in ToSet(ReplyIds(n)) <=>
                           reply[n] # None /\ id = reply[n].data
    BY HeldAt
  <2>2. CASE reply[n] # None
    <3>1. ReplyIds(n) = <<reply[n].data>>
      BY <2>2 DEF ReplyIds
    <3>2. ToSet(ReplyIds(n)) = {reply[n].data}
      BY <3>1, ToSetSmall
    <3>3. QED
      BY <2>2, <3>2
  <2>3. CASE reply[n] = None
    BY <2>3, ToSetSmall DEF ReplyIds
  <2>4. QED
    BY <2>2, <2>3
<1>3. \A id : id \in Served <=>
         \/ \E n \in Node : reply[n] # None /\ id = reply[n].data
         \/ id \in IdsIn(replies)
  BY DEF Served
<1>4. \A id : id \in IdsIn(replies) <=>
         \E n, p \in Node : id \in {msg.data : msg \in ToSet(replies[n][p])}
  BY IdsInIs
<1>5. \A id : id \in Served <=>
         \/ \E n \in Node : id \in ToSet(Held[ReplyAt(n)])
         \/ \E n, p \in Node : id \in ToSet(Held[ResponseAt(n, p)])
  <2>1. \A id : id \in IdsIn(replies) <=>
           \E n, p \in Node : id \in ToSet(Held[ResponseAt(n, p)])
    <3>1. SUFFICES ASSUME NEW id
                   PROVE  id \in IdsIn(replies) <=>
                            \E n, p \in Node : id \in ToSet(Held[ResponseAt(n, p)])
      OBVIOUS
    <3>2. \A n, p \in Node : id \in ToSet(Held[ResponseAt(n, p)]) <=>
             id \in {msg.data : msg \in ToSet(replies[n][p])}
      BY <1>1, Zenon
    <3>3. id \in IdsIn(replies) <=>
             \E n, p \in Node : id \in {msg.data : msg \in ToSet(replies[n][p])}
      BY <1>4, Zenon
    <3>4. QED
      BY <3>2, <3>3, Zenon
  <2>2. \A id : (\E n \in Node : reply[n] # None /\ id = reply[n].data) <=>
           \E n \in Node : id \in ToSet(Held[ReplyAt(n)])
    BY <1>2
  <2>3. QED
    BY <1>3, <2>1, <2>2
<1>6. /\ \A n \in Node : ReplyAt(n) \in Place /\ Level(ReplyAt(n)) = "served"
      /\ \A n, p \in Node :
            ResponseAt(n, p) \in Place /\ Level(ResponseAt(n, p)) = "served"
  BY HeldAt, Levels
<1>7. QED
  BY <1>5, <1>6, PlacesOfLevel DEF HeldAtLevel

\* The refinement mapping, in terms of the places.
LEMMA PhaseHeld == IInv /\ HeldInv => PhaseIs
<1> SUFFICES ASSUME IInv, HeldInv PROVE PhaseIs
  OBVIOUS
<1>1. /\ Request = 1..MaxRequest /\ MaxRequest \in Nat
      /\ made \in 0..MaxRequest /\ Single(Held) /\ UpTo(Held, made)
      /\ DOMAIN Held = Place
  BY RequestAssumption, HeldAt DEF IInv, TypeOK, HeldInv, Numbered
<1>2. ASSUME NEW a \in Place, NEW id \in ToSet(Held[a])
      PROVE  id \in 1..made /\ id \in Request
  BY <1>1, <1>2 DEF ToSet, UpTo
<1>3. ASSUME NEW a \in Place, NEW b \in Place, NEW id \in ToSet(Held[a]),
             id \in ToSet(Held[b])
      PROVE  a = b
  BY <1>1, <1>3 DEF ToSet, Single
<1>4. ASSUME NEW id \in Request
      PROVE  Phase[id] = IF id > made THEN "new"
                         ELSE IF id \in HeldAtLevel("queued") THEN "queued"
                         ELSE IF id \in HeldAtLevel("sent") THEN "sent"
                         ELSE IF id \in HeldAtLevel("served") THEN "served"
                         ELSE "over"
  BY <1>1, QueuedIs, SentIs, ServedIs DEF Phase
<1>5. DOMAIN Phase = 1..MaxRequest
  BY DEF Phase
<1>6. ASSUME NEW a \in Place, NEW id \in ToSet(Held[a]) PROVE Phase[id] = Level(a)
  <2>1. id \in Request /\ ~(id > made)
    BY <1>1, <1>2
  <2>2. \A level : id \in HeldAtLevel(level) <=> level = Level(a)
    BY <1>3, <2>1 DEF HeldAtLevel
  <2>3. Level(a) \in {"queued", "sent", "served"}
    BY PlacesOfLevel
  <2>4. QED
    BY <1>4, <2>1, <2>2, <2>3
<1>7. ASSUME NEW id \in Request, id <= made, \A a \in Place : id \notin ToSet(Held[a])
      PROVE  Phase[id] = "over"
  <2>1. \A level : id \notin HeldAtLevel(level)
    BY <1>7 DEF HeldAtLevel
  <2>2. ~(id > made)
    BY <1>1, <1>7
  <2>3. QED
    BY <1>4, <2>1, <2>2
<1>8. QED
  BY <1>1, <1>2, <1>4, <1>5, <1>6, <1>7 DEF PhaseIs

-----------------------------------------------------------------------------
(* What effects do to phases                                               *)

\* The variables of ServiceCalls, as the instance Calls fills them in.
LEMMA CallsVariables ==
  /\ Calls!Init <=> Phase = [id \in 1..MaxRequest |-> "new"] /\ Answer = 0
  /\ UNCHANGED <<Phase, Answer>> => UNCHANGED Calls!vars
  BY DEF Calls!Init, Calls!vars, Phase, Answer

\* A request that the same places hold before and after stays in its phase.
LEMMA SamePhase ==
  ASSUME PhaseIs, PhaseIs', NEW id \in 1..MaxRequest,
         id > made <=> id > made', MaxRequest \in Nat, made \in Nat, made' \in Nat,
         \A a \in Place : id \in ToSet(Held[a]) <=> id \in ToSet(Held'[a])
  PROVE  Phase'[id] = Phase[id]
<1>1. CASE id > made
  BY <1>1 DEF PhaseIs
<1>2. CASE \E a \in Place : id \in ToSet(Held[a])
  BY <1>2 DEF PhaseIs
<1>3. CASE id <= made /\ \A a \in Place : id \notin ToSet(Held[a])
  <2>1. id <= made' /\ \A a \in Place : id \notin ToSet(Held'[a])
    BY <1>3
  <2>2. Phase[id] = "over"
    BY <1>3 DEF PhaseIs
  <2>3. Phase'[id] = "over"
    BY <2>1 DEF PhaseIs
  <2>4. QED
    BY <2>2, <2>3
<1>4. QED
  BY <1>1, <1>2, <1>3

\* If that holds for all requests but one, the phase of one changes.
LEMMA OnePhase ==
  ASSUME PhaseIs, PhaseIs', NEW x \in 1..MaxRequest, NEW to, Phase'[x] = to,
         \A id \in 1..MaxRequest : id # x => Phase'[id] = Phase[id]
  PROVE  Phase' = [Phase EXCEPT ![x] = to]
<1>1. DOMAIN Phase = 1..MaxRequest /\ DOMAIN Phase' = 1..MaxRequest
  BY DEF PhaseIs
<1>2. Phase = [id \in 1..MaxRequest |-> Phase[id]]
  BY DEF Phase
<1>3. Phase' = [id \in 1..MaxRequest |-> Phase'[id]]
  BY DEF Phase
<1> DEFINE old == Phase
           new == Phase'
<1>4. /\ old = [id \in 1..MaxRequest |-> old[id]]
      /\ new = [id \in 1..MaxRequest |-> new[id]]
      /\ new[x] = to /\ \A id \in 1..MaxRequest : id # x => new[id] = old[id]
  BY <1>2, <1>3
<1> HIDE DEF old, new
<1>5. new = [old EXCEPT ![x] = to]
  BY <1>4
<1>6. QED
  BY <1>5 DEF old, new

\* The elements of a queue that loses its head and of one that is pushed to.
LEMMA OthersStay ==
  ASSUME NEW q \in Seq(Request)
  PROVE  /\ q # <<>> => /\ Head(q) \in ToSet(q)
                        /\ \A id : id # Head(q) => (id \in ToSet(q) <=> id \in ToSet(Tail(q)))
         /\ \A x \in Request : ToSet(Append(q, x)) = ToSet(q) \cup {x}
<1>1. ASSUME q # <<>>
      PROVE  /\ Head(q) \in ToSet(q)
             /\ \A id : id # Head(q) => (id \in ToSet(q) <=> id \in ToSet(Tail(q)))
  <2>1. ToSet(Tail(q)) \subseteq ToSet(q)
    BY <1>1, ToSetTail
  <2>2. Head(q) = q[1] /\ 1 \in DOMAIN q
    BY <1>1
  <2>3. ASSUME NEW id \in ToSet(q), id # Head(q) PROVE id \in ToSet(Tail(q))
    <3>1. PICK i \in DOMAIN q : q[i] = id
      BY DEF ToSet
    <3>2. i # 1
      BY <2>2, <2>3, <3>1
    <3>3. i - 1 \in DOMAIN Tail(q) /\ Tail(q)[i - 1] = q[i]
      BY <1>1, <3>2
    <3>4. QED
      BY <3>1, <3>3 DEF ToSet
  <2>4. Head(q) \in ToSet(q)
    BY <2>2 DEF ToSet
  <2>5. QED
    BY <2>1, <2>3, <2>4
<1>2. QED
  BY <1>1, ToSetAppend

\* The steps of ServiceCalls, in terms of Phase and Answer.
LEMMA MakeIs ==
  ASSUME NEW id \in 1..MaxRequest, Phase[id] = "new",
         Phase' = [Phase EXCEPT ![id] = "queued"],
         \A earlier \in 1..(id - 1) : Phase[earlier] # "new", Answer' = 0
  PROVE  Calls!Next
<1>1. Calls!Make(id)
  BY DEF Calls!Make, Calls!Advance, Phase, Answer
<1>2. QED
  BY <1>1 DEF Calls!Next

\* A request that goes from a phase to the next.
LEMMA AdvanceIs ==
  ASSUME NEW id \in 1..MaxRequest, NEW from, NEW to, Phase[id] = from,
         <<from, to>> \in {<<"queued", "sent">>, <<"sent", "served">>},
         Phase' = [Phase EXCEPT ![id] = to], Answer' = 0
  PROVE  Calls!Next
<1>1. CASE from = "queued" /\ to = "sent"
  <2>1. Calls!Send(id)
    BY <1>1 DEF Calls!Send, Calls!Advance, Phase, Answer
  <2>2. QED
    BY <2>1 DEF Calls!Next
<1>2. CASE from = "sent" /\ to = "served"
  <2>1. Calls!Serve(id)
    BY <1>2 DEF Calls!Serve, Calls!Advance, Phase, Answer
  <2>2. QED
    BY <2>1 DEF Calls!Next
<1>3. QED
  BY <1>1, <1>2

\* A response that reaches the application.
LEMMA ReplyIs ==
  ASSUME NEW id \in 1..MaxRequest, Phase[id] = "served",
         Phase' = [Phase EXCEPT ![id] = "over"], Answer' = id
  PROVE  Calls!Next
<1>1. Calls!Reply(id)
  BY DEF Calls!Reply, Calls!Advance, Phase, Answer
<1>2. QED
  BY <1>1 DEF Calls!Next

\* Requests that are lost.
LEMMA DropIs ==
  ASSUME NEW ids \in SUBSET (1..MaxRequest), \A id \in ids : Phase[id] # "new",
         Phase' = [id \in 1..MaxRequest |-> IF id \in ids THEN "over" ELSE Phase[id]],
         Answer' = 0
  PROVE  Calls!Next
<1>1. Calls!Drop(ids)
  BY DEF Calls!Drop, Phase, Answer
<1>2. QED
  BY <1>1 DEF Calls!Next

\* What the proofs below know of a state and of the next one.
Sound == IInv /\ HeldInv /\ PhaseIs

\* What the invariants give the steps of the refinement.
LEMMA SoundFacts ==
  ASSUME Sound
  PROVE  /\ MaxRequest \in Nat /\ made \in Nat /\ made <= MaxRequest
         /\ Request = 1..MaxRequest /\ DOMAIN Phase = 1..MaxRequest
         /\ Single(Held) /\ UpTo(Held, made) /\ Queues(Held) /\ DOMAIN Held = Place
<1>1. made \in 0..MaxRequest
  BY DEF Sound, IInv, TypeOK
<1>2. Queues(Held) /\ DOMAIN Held = Place
  BY HeldType, HeldAt DEF Sound, Queues
<1>3. QED
  BY <1>1, <1>2, RequestAssumption DEF Sound, HeldInv, Numbered, PhaseIs

\* A step after which places hold no more than before drops what is gone.
LEMMA LossImplementsDrop ==
  ASSUME Sound, Sound', made' = made, Answer' = 0,
         \A c \in Place : ToSet(Held'[c]) \subseteq ToSet(Held[c])
  PROVE  Calls!Next
<1> DEFINE ids == {id \in 1..MaxRequest :
                     id <= made /\ \A c \in Place : id \notin ToSet(Held'[c])}
<1>1. MaxRequest \in Nat /\ made \in Nat /\ PhaseIs /\ PhaseIs'
  BY SoundFacts DEF Sound
<1>2. \A id \in ids : Phase[id] # "new"
  <2>1. SUFFICES ASSUME NEW id \in ids PROVE Phase[id] # "new"
    OBVIOUS
  <2>2. CASE \E c \in Place : id \in ToSet(Held[c])
    BY <1>1, <2>2, PlacesOfLevel DEF PhaseIs
  <2>3. CASE \A c \in Place : id \notin ToSet(Held[c])
    BY <1>1, <2>3 DEF PhaseIs
  <2>4. QED
    BY <2>2, <2>3
<1>3. ASSUME NEW id \in 1..MaxRequest
      PROVE  Phase'[id] = IF id \in ids THEN "over" ELSE Phase[id]
  <2>1. CASE id \in ids
    BY <1>1, <2>1 DEF PhaseIs
  <2>2. CASE id > made
    BY <1>1, <2>2 DEF PhaseIs
  <2>3. CASE \E c \in Place : id \in ToSet(Held'[c])
    <3>1. PICK c \in Place : id \in ToSet(Held'[c])
      BY <2>3
    <3>2. Phase'[id] = Level(c)
      BY <1>1, <3>1 DEF PhaseIs
    <3>3. Phase[id] = Level(c)
      BY <1>1, <3>1 DEF PhaseIs
    <3>4. QED
      BY <3>1, <3>2, <3>3
  <2>4. QED
    BY <1>1, <2>1, <2>2, <2>3
<1> HIDE DEF ids
<1>4. Phase' = [id \in 1..MaxRequest |-> IF id \in ids THEN "over" ELSE Phase[id]]
  <2>1. Phase' = [id \in 1..MaxRequest |-> Phase'[id]]
    BY DEF Phase
  <2>2. QED
    BY <1>3, <2>1
<1>5. ids \in SUBSET (1..MaxRequest)
  BY DEF ids
<1>6. QED
  BY <1>2, <1>4, <1>5, DropIs

\* A step that only empties places drops requests.
LEMMA DropsImplementDrop ==
  ASSUME Sound, Sound', Drops, Answer' = 0
  PROVE  Calls!Next
<1>1. \A c \in Place : Held[c] \in Seq(Request)
  BY SoundFacts DEF Queues
<1>2. CASE Empties
  BY <1>2, ToSetSmall, LossImplementsDrop DEF Empties
<1>3. ASSUME NEW a \in Place, LosesHead(a) PROVE Calls!Next
  <2>1. ToSet(Held'[a]) \subseteq ToSet(Held[a])
    BY <1>1, <1>3, ToSetTail DEF LosesHead
  <2>2. \A c \in Place : ToSet(Held'[c]) \subseteq ToSet(Held[c])
    BY <1>3, <2>1 DEF LosesHead, Elsewhere
  <2>3. made' = made
    BY <1>3 DEF LosesHead
  <2>4. QED
    BY <2>2, <2>3, LossImplementsDrop
<1>4. QED
  BY <1>2, <1>3 DEF Drops

\* A step that takes the oldest number of a served place away and hands it over.
LEMMA HandsOverImplementsReply ==
  ASSUME Sound, Sound', HandsOver
  PROVE  Calls!Next
<1>1. PICK a \in Place : Level(a) = "served" /\ LosesHead(a) /\ Answer' = Head(Held[a])
  BY DEF HandsOver
<1> DEFINE x == Head(Held[a])
           new == Held'
<1>2. /\ Held[a] \in Seq(Request) /\ Held[a] # <<>> /\ new[a] = Tail(Held[a])
      /\ \A c \in Place \ {a} : new[c] = Held[c]
      /\ made' = made
  BY <1>1, SoundFacts DEF LosesHead, Elsewhere, Queues
<1>3. MaxRequest \in Nat /\ made \in Nat /\ PhaseIs /\ PhaseIs'
  BY SoundFacts DEF Sound
<1>4. x \in ToSet(Held[a]) /\ x \in 1..made /\ x \in 1..MaxRequest /\ Phase[x] = "served"
  <2>1. x \in ToSet(Held[a])
    BY <1>2, OthersStay
  <2>2. QED
    BY <1>1, <1>3, <2>1 DEF PhaseIs
<1>5. \A id \in 1..MaxRequest : id # x => Phase'[id] = Phase[id]
  <2>1. SUFFICES ASSUME NEW id \in 1..MaxRequest, id # x
                 PROVE  Phase'[id] = Phase[id]
    OBVIOUS
  <2>2. id \in ToSet(Held[a]) <=> id \in ToSet(Held'[a])
    BY <1>2, <2>1, OthersStay
  <2>3. \A c \in Place : id \in ToSet(Held[c]) <=> id \in ToSet(Held'[c])
    BY <1>2, <2>2
  <2>4. QED
    BY <1>2, <1>3, <2>3, SamePhase
<1>6. Phase'[x] = "over"
  <2>1. DOMAIN new = DOMAIN Held /\ a \in DOMAIN Held
    BY SoundFacts, HeldAt
  <2>2. \A c \in DOMAIN Held \ {a} : new[c] = Held[c]
    BY <1>2, SoundFacts
  <2>3. Single(Held) /\ Queues(Held)
    BY SoundFacts
  <2> HIDE DEF new
  <2>4. Nowhere(new, Head(Held[a]))
    BY <1>2, <2>1, <2>2, <2>3, LostIsGone
  <2>5. \A c \in Place : x \notin ToSet(Held'[c])
    BY <2>1, <2>4, SoundFacts DEF Nowhere, ToSet, new
  <2>6. x <= made'
    BY <1>2, <1>3, <1>4
  <2>7. QED
    BY <1>3, <1>4, <2>5, <2>6 DEF PhaseIs
<1>7. Answer' = x
  BY <1>1
<1> HIDE DEF x
<1>8. Phase' = [Phase EXCEPT ![x] = "over"]
  BY <1>3, <1>4, <1>5, <1>6, OnePhase
<1>9. QED
  BY <1>4, <1>7, <1>8, ReplyIs

\* A new request is the first one that has not been made.
LEMMA BeginsImplementsMake ==
  ASSUME Sound, Sound', Begins, Answer' = 0
  PROVE  Calls!Next
<1>1. PICK a \in Place : Level(a) = "queued" /\ Makes(a)
  BY DEF Begins
<1> DEFINE x == made'
<1>2. /\ MaxRequest \in Nat /\ made \in Nat /\ PhaseIs /\ PhaseIs'
      /\ x = made + 1 /\ x \in 1..MaxRequest /\ x \in Request
  <2>1. MaxRequest \in Nat /\ made \in Nat /\ Request = 1..MaxRequest
    BY SoundFacts
  <2>2. made' \in 0..MaxRequest /\ made' = made + 1
    BY <1>1 DEF Sound, IInv, TypeOK, Makes
  <2>3. QED
    BY <2>1, <2>2 DEF Sound
<1>3. /\ Held[a] \in Seq(Request) /\ Held'[a] = Append(Held[a], x)
      /\ \A c \in Place \ {a} : Held'[c] = Held[c]
  BY <1>1, SoundFacts DEF Makes, Elsewhere, Queues
<1>4. Phase[x] = "new"
  BY <1>2 DEF PhaseIs
<1>5. ToSet(Held'[a]) = ToSet(Held[a]) \cup {x}
  BY <1>2, <1>3, OthersStay
<1>6. Phase'[x] = "queued"
  BY <1>1, <1>2, <1>5 DEF PhaseIs
<1>7. ASSUME NEW id \in 1..MaxRequest, id # x PROVE Phase'[id] = Phase[id]
  <2>1. \A c \in Place : id \in ToSet(Held[c]) <=> id \in ToSet(Held'[c])
    BY <1>3, <1>5, <1>7
  <2>2. id > made <=> id > made'
    BY <1>2, <1>7
  <2>3. made' \in Nat
    BY <1>2
  <2>4. QED
    BY <1>2, <2>1, <2>2, <2>3, SamePhase
<1>8. \A earlier \in 1..(x - 1) : Phase[earlier] # "new"
  <2>1. SUFFICES ASSUME NEW id \in 1..(x - 1) PROVE Phase[id] # "new"
    OBVIOUS
  <2>2. id \in 1..MaxRequest /\ id <= made
    BY <1>2
  <2>3. CASE \E c \in Place : id \in ToSet(Held[c])
    BY <1>2, <2>3, PlacesOfLevel DEF PhaseIs
  <2>4. CASE \A c \in Place : id \notin ToSet(Held[c])
    BY <1>2, <2>2, <2>4 DEF PhaseIs
  <2>5. QED
    BY <2>3, <2>4
<1> HIDE DEF x
<1>9. Phase' = [Phase EXCEPT ![x] = "queued"]
  BY <1>2, <1>6, <1>7, OnePhase
<1>10. QED
  BY <1>2, <1>4, <1>8, <1>9, MakeIs

\* A number that moves to a place of the next level, or of the same.
LEMMA AdvancesImplement ==
  ASSUME Sound, Sound', Advances, Answer' = 0
  PROVE  Calls!Next
<1>1. PICK a \in Place, b \in Place :
        <<Level(a), Level(b)>> \in Onward /\ MovesHead(a, b)
  BY DEF Advances
<1> DEFINE x == Head(Held[a])
<1>2. /\ Held[a] \in Seq(Request) /\ Held[b] \in Seq(Request) /\ Held[a] # <<>>
      /\ Held'[a] = Tail(Held[a]) /\ Held'[b] = Append(Held[b], x)
      /\ \A c \in Place \ {a, b} : Held'[c] = Held[c]
      /\ made' = made
  BY <1>1, SoundFacts DEF MovesHead, Elsewhere, Queues
<1>3. MaxRequest \in Nat /\ made \in Nat /\ PhaseIs /\ PhaseIs' /\ Request = 1..MaxRequest
  BY SoundFacts DEF Sound
<1>4. x \in ToSet(Held[a]) /\ x \in 1..MaxRequest /\ Phase[x] = Level(a)
  <2>1. x \in ToSet(Held[a])
    BY <1>2, OthersStay
  <2>2. QED
    BY <1>3, <2>1 DEF PhaseIs
<1>5. ToSet(Held'[b]) = ToSet(Held[b]) \cup {x}
  BY <1>2, <1>3, <1>4, OthersStay
<1>6. Phase'[x] = Level(b)
  BY <1>3, <1>5 DEF PhaseIs
<1>7. ASSUME NEW id \in 1..MaxRequest, id # x PROVE Phase'[id] = Phase[id]
  <2>1. id \in ToSet(Held[a]) <=> id \in ToSet(Held'[a])
    BY <1>2, <1>7, OthersStay
  <2>2. \A c \in Place : id \in ToSet(Held[c]) <=> id \in ToSet(Held'[c])
    BY <1>2, <1>5, <1>7, <2>1
  <2>3. QED
    BY <1>2, <1>3, <2>2, SamePhase
<1> HIDE DEF x
<1>8. CASE <<Level(a), Level(b)>> \in {<<"queued", "sent">>, <<"sent", "served">>}
  <2>1. Phase' = [Phase EXCEPT ![x] = Level(b)]
    BY <1>3, <1>4, <1>6, <1>7, OnePhase
  <2>2. QED
    BY <1>4, <1>8, <2>1, AdvanceIs
<1>9. CASE Level(a) = "served" /\ Level(b) = "served"
  <2>1. \A id \in 1..MaxRequest : Phase'[id] = Phase[id]
    BY <1>4, <1>6, <1>7, <1>9
  <2>2. Phase' = [id \in 1..MaxRequest |-> Phase'[id]]
    BY DEF Phase
  <2>3. Phase' = [id \in 1..MaxRequest |-> IF id \in {} THEN "over" ELSE Phase[id]]
    BY <2>1, <2>2
  <2>4. QED
    BY <2>3, DropIs
<1>10. QED
  BY <1>1, <1>8, <1>9 DEF Onward

\* With the constructors all requests are new.
LEMMA FreshCalls == running \subseteq Node /\ Fresh => Calls!Init
<1> SUFFICES ASSUME running \subseteq Node, Fresh PROVE Calls!Init
  OBVIOUS
<1>1. PhaseIs /\ made = 0 /\ outcome = None
  BY FreshHeld, PhaseHeld DEF Fresh
<1>2. \A id \in 1..MaxRequest : Phase[id] = "new"
  BY <1>1 DEF PhaseIs
<1>3. Phase = [id \in 1..MaxRequest |-> Phase[id]]
  BY DEF Phase
<1>4. Phase = [id \in 1..MaxRequest |-> "new"] /\ Answer = 0
  BY <1>1, <1>2, <1>3 DEF Answer
<1>5. QED
  BY <1>4, CallsVariables

\* Whatever a step does to the places is a step of ServiceCalls.
LEMMA EffectImplements ==
  ASSUME Sound, Sound', Effect
  PROVE  Calls!Next
  BY HandsOverImplementsReply, DropsImplementDrop, BeginsImplementsMake,
     AdvancesImplement DEF Effect

\* No variable of ServiceCalls changes when no variable of Services does.
LEMMA StutterImplements ==
  ASSUME UNCHANGED vars
  PROVE  UNCHANGED Calls!vars
<1>1. UNCHANGED <<Phase, Answer>>
  BY DEF vars, Phase, Answer, Queued, Served, IdsIn, Pending
<1>2. QED
  BY <1>1, CallsVariables

\* Every behaviour of the nodes is one of ServiceCalls: each request runs
\* through its phases once, and a response that is handed to the application is
\* one that a service gave and that nobody got before.
THEOREM NodesImplementCalls == Spec => ImplementsCalls
<1>1. Init => Calls!Init
  BY FreshCalls DEF Init
<1>2. Sound /\ Sound' /\ [Next]_vars => [Calls!Next]_(Calls!vars)
  BY StutterImplements, StepEffect, EffectImplements DEF Sound, HeldInv
<1>3. IInv /\ HeldInv => Sound
  BY PhaseHeld DEF Sound
<1>4. QED
  BY <1>1, <1>2, <1>3, HeldOnce, PTL DEF Spec, ImplementsCalls, Calls!Spec

-----------------------------------------------------------------------------
(* Threads with something else to do                                       *)

\* A step in which a thread starts, starts to spin, or spins without a message
\* of services: it belongs to the topics (module CppNode).
Aside ==
  /\ UNCHANGED <<topicsSrvs, links, inbox, channels, call, reply, made>>
  /\ outcome' = None /\ running' \subseteq Node
  /\ \/ UNCHANGED pc
     \/ \E node \in Node : Spins(node) /\ (Goto(node, "spin") \/ EndSpin(node))

\* Such a step leaves the control of all threads in order.
LEMMA AsideControl ==
  ASSUME IInv, Tidy, Aside
  PROVE  ControlType' /\ Tidy' /\ \A n \in Node : CallIds(n)' = CallIds(n)
<1>1. ControlType /\ UNCHANGED <<call, reply, made>> /\ running' \subseteq Node
  BY IInvParts DEF Aside
<1>2. CASE UNCHANGED pc
  BY <1>1, <1>2 DEF ControlType, ControlInv, Tidy, CallIds
<1>3. ASSUME NEW node \in Node, NEW point \in {"app", "find", "spin"}, Spins(node),
             Goto(node, point), point = "find" => call[node] # None,
             point = "app" => call[node] = None
      PROVE  ControlType' /\ Tidy' /\ \A n \in Node : CallIds(n)' = CallIds(n)
  <2>1. pc'[node] = point /\ \A n \in Node : n # node => pc'[n] = pc[n]
    BY <1>3 DEF IInv, TypeOK, Goto
  <2>2. pc' \in [Node -> {"app", "find", "await", "spin", "reply"}]
    BY <1>3, <1>1 DEF ControlType, Goto
  <2>3. ControlType'
    BY <1>1, <1>3, <2>1, <2>2 DEF ControlType, ControlInv
  <2>4. pc[node] # "await" /\ reply[node] = None
    BY <1>3, PollingIsTidy
  <2>5. Tidy'
    BY <1>1, <1>3, <2>1, <2>4 DEF Tidy
  <2>6. QED
    BY <1>1, <1>3, <2>3, <2>4, <2>5, CallsStay
<1>4. QED
  BY <1>2, <1>3 DEF Aside, EndSpin

\* It keeps every invariant, and to ServiceCalls nothing happens in it.
LEMMA AsideStep ==
  ASSUME IInv, HeldInv, Aside
  PROVE  (IInv /\ HeldInv)' /\ Effect
<1>1. CoreType /\ QueueType /\ LinkInv /\ Tidy /\ Numbered
  BY IInvParts DEF HeldInv
<1>2. ControlType' /\ Tidy' /\ \A n \in Node : CallIds(n)' = CallIds(n)
  BY <1>1, AsideControl
<1>3. UNCHANGED <<topicsSrvs, links, inbox, channels, requests, replies, reply, made>>
  BY DEF Aside, channels
<1>4. IInv'
  BY <1>1, <1>2, <1>3, CoreUntouched, QueuesUntouched, IInvPartsPrime
<1>5. SameTables
  BY <1>3 DEF SameTables, SameCalls
<1>6. Quiet
  BY <1>2, <1>3, <1>5, QuietStep
<1>7. Drops /\ Answer' = 0
  BY <1>6, QuietDrops DEF Aside, Answer
<1>8. Numbered'
  BY <1>1, <1>7, DropKeepsNumbers
<1>9. QED
  BY <1>2, <1>4, <1>7, <1>8 DEF HeldInv, Effect
=============================================================================
