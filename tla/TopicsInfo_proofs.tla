-------------------------- MODULE TopicsInfo_proofs --------------------------
(* What the operators of TopicsInfo return and preserve, for every table.   *)
EXTENDS TopicsInfo, TLAPS

\* The TopicInfo the constructor builds is a TopicInfo.
LEMMA NewInfoType == NewTopicInfo \in TopicInfo
  BY DEF NewTopicInfo, TopicInfo

\* Any topic of any table, known to it or not, answers as a TopicInfo.
LEMMA InfoType ==
  ASSUME NEW table, IsTable(table), NEW topic
  PROVE  Info(table, topic) \in TopicInfo
  BY NewInfoType DEF IsTable, Info, HasTopic

\* Writing one entry keeps the table a table.
LEMMA InsertType ==
  ASSUME NEW table, IsTable(table), NEW topic \in Topic, NEW info \in TopicInfo
  PROVE  IsTable(Insert(table, topic, info))
<1>1. PICK known \in SUBSET Topic : table \in [known -> TopicInfo]
  BY DEF IsTable
<1>2. Insert(table, topic, info) \in [known \cup {topic} -> TopicInfo]
  BY <1>1 DEF Insert
<1>3. QED
  BY <1>2 DEF IsTable

\* Writing one entry changes what is known of that topic and of no other.
LEMMA InsertInfo ==
  ASSUME NEW table, NEW topic, NEW info, NEW other
  PROVE  /\ Info(Insert(table, topic, info), other) =
              IF other = topic THEN info ELSE Info(table, other)
         /\ HasTopic(Insert(table, topic, info), other)
              <=> other = topic \/ HasTopic(table, other)
  BY DEF Insert, Info, HasTopic

\* An empty table knows nothing.
LEMMA EmptyTableFacts ==
  ASSUME NEW topic
  PROVE  /\ IsTable(EmptyTable)
         /\ ~HasTopic(EmptyTable, topic)
         /\ Info(EmptyTable, topic) = NewTopicInfo
<1>1. EmptyTable \in [{} -> TopicInfo]
  BY DEF EmptyTable
<1>2. IsTable(EmptyTable)
  BY <1>1 DEF IsTable
<1>3. QED
  BY <1>2 DEF EmptyTable, HasTopic, Info

\* Appending to a sequence adds one element to the set of its elements.
LEMMA ToSetAppend ==
  ASSUME NEW S, NEW s \in Seq(S), NEW e \in S
  PROVE  ToSet(Append(s, e)) = ToSet(s) \cup {e}
<1>1. /\ DOMAIN s = 1..Len(s) /\ DOMAIN Append(s, e) = 1..(Len(s) + 1)
      /\ Len(s) \in Nat
  OBVIOUS
<1>2. /\ \A i \in 1..Len(s) : Append(s, e)[i] = s[i]
      /\ Append(s, e)[Len(s) + 1] = e
  OBVIOUS
<1>3. \A i \in 1..(Len(s) + 1) : i \in 1..Len(s) \/ i = Len(s) + 1
  BY <1>1
<1>4. ToSet(Append(s, e)) \subseteq ToSet(s) \cup {e}
  BY <1>1, <1>2, <1>3 DEF ToSet
<1>5. e \in ToSet(Append(s, e))
  BY <1>1, <1>2 DEF ToSet
<1>6. ASSUME NEW i \in 1..Len(s) PROVE s[i] \in ToSet(Append(s, e))
  BY <1>1, <1>2 DEF ToSet
<1>7. QED
  BY <1>1, <1>4, <1>5, <1>6 DEF ToSet

\* AddAdvAddress adds the address to those of the topic and changes nothing
\* else: no flag, no callback, no other topic.
LEMMA AddAdvAddressFacts ==
  ASSUME NEW table, IsTable(table), NEW topic \in Topic, NEW address \in Address,
         NEW other
  PROVE  LET new == AddAdvAddress(table, topic, address) IN
         /\ IsTable(new)
         /\ HasTopic(new, other) <=> other = topic \/ HasTopic(table, other)
         /\ AdvAddresses(new, other) =
              AdvAddresses(table, other) \cup (IF other = topic THEN {address} ELSE {})
         /\ Connected(new, other) = Connected(table, other)
         /\ Subscribed(new, other) = Subscribed(table, other)
         /\ AdvertisedByMe(new, other) = AdvertisedByMe(table, other)
         /\ GetCallback(new, other) = GetCallback(table, other)
<1> DEFINE old == Info(table, topic)
           list == IF HasAdvAddress(table, topic, address)
                   THEN old.addresses ELSE Append(old.addresses, address)
           info == [old EXCEPT !.addresses = list]
           new == AddAdvAddress(table, topic, address)
<1>1. old \in TopicInfo
  BY InfoType
<1>2. list \in Seq(Address)
  BY <1>1 DEF TopicInfo
<1>3. info \in TopicInfo
  BY <1>1, <1>2 DEF TopicInfo
<1>4. new = Insert(table, topic, info)
  BY DEF AddAdvAddress
<1>5. IsTable(new)
  BY <1>3, <1>4, InsertType
<1>6. ToSet(list) = ToSet(old.addresses) \cup {address}
  <2>1. CASE HasAdvAddress(table, topic, address)
    BY <2>1 DEF HasAdvAddress, AdvAddresses
  <2>2. CASE ~HasAdvAddress(table, topic, address)
    BY <2>2, <1>1, ToSetAppend DEF TopicInfo
  <2>3. QED
    BY <2>1, <2>2
<1>7. /\ info.addresses = list /\ info.connected = old.connected
      /\ info.subscribed = old.subscribed /\ info.cb = old.cb
      /\ info.advertisedByMe = old.advertisedByMe
  BY <1>1 DEF TopicInfo
<1>8. /\ Info(new, other) = IF other = topic THEN info ELSE Info(table, other)
      /\ HasTopic(new, other) <=> other = topic \/ HasTopic(table, other)
  BY <1>4, InsertInfo
<1> HIDE DEF info, list, new
<1>9. AdvAddresses(new, other) =
        AdvAddresses(table, other) \cup (IF other = topic THEN {address} ELSE {})
  BY <1>6, <1>7, <1>8 DEF AdvAddresses
<1>10. QED
  BY <1>5, <1>7, <1>8, <1>9
     DEF Connected, Subscribed, AdvertisedByMe, GetCallback, new

\* The writers PubSub uses on a topic touch one field each: the addresses stay,
\* no topic is forgotten, and the table stays a table.
KeepsAddresses(table, new) ==
  /\ IsTable(new)
  /\ \A t \in Topic : /\ HasTopic(table, t) => HasTopic(new, t)
                      /\ AdvAddresses(new, t) = AdvAddresses(table, t)

\* An entry written with the addresses it had.
LEMMA FieldWriteKeepsAddresses ==
  ASSUME NEW table, IsTable(table), NEW topic \in Topic, NEW info \in TopicInfo,
         info.addresses = Info(table, topic).addresses
  PROVE  KeepsAddresses(table, Insert(table, topic, info))
  BY InsertType, InsertInfo DEF KeepsAddresses, AdvAddresses

\* SetConnected writes one flag and no address.
LEMMA SetConnectedFacts ==
  ASSUME NEW table, IsTable(table), NEW topic \in Topic, NEW value \in BOOLEAN
  PROVE  LET new == SetConnected(table, topic, value) IN
         /\ KeepsAddresses(table, new)
         /\ HasTopic(new, topic)
         /\ \A t : Connected(new, t) =
                     IF t = topic THEN value ELSE Connected(table, t)
<1> DEFINE info == [Info(table, topic) EXCEPT !.connected = value]
<1>1. /\ info \in TopicInfo /\ info.connected = value
      /\ info.addresses = Info(table, topic).addresses
  BY InfoType DEF TopicInfo
<1>2. SetConnected(table, topic, value) = Insert(table, topic, info)
  BY DEF SetConnected
<1> HIDE DEF info
<1>3. QED
  BY <1>1, <1>2, FieldWriteKeepsAddresses, InsertInfo DEF Connected

\* SetAdvertisedByMe writes neither address nor connected flag.
LEMMA SetAdvertisedByMeFacts ==
  ASSUME NEW table, IsTable(table), NEW topic \in Topic, NEW value \in BOOLEAN
  PROVE  LET new == SetAdvertisedByMe(table, topic, value) IN
         /\ KeepsAddresses(table, new)
         /\ HasTopic(new, topic)
         /\ \A t : Connected(new, t) = Connected(table, t)
<1> DEFINE info == [Info(table, topic) EXCEPT !.advertisedByMe = value]
<1>1. /\ info \in TopicInfo /\ info.connected = Info(table, topic).connected
      /\ info.addresses = Info(table, topic).addresses
  BY InfoType DEF TopicInfo
<1>2. SetAdvertisedByMe(table, topic, value) = Insert(table, topic, info)
  BY DEF SetAdvertisedByMe
<1> HIDE DEF info
<1>3. QED
  BY <1>1, <1>2, FieldWriteKeepsAddresses, InsertInfo DEF Connected

\* SetSubscribed writes neither address nor connected flag.
LEMMA SetSubscribedFacts ==
  ASSUME NEW table, IsTable(table), NEW topic \in Topic, NEW value \in BOOLEAN
  PROVE  LET new == SetSubscribed(table, topic, value) IN
         /\ KeepsAddresses(table, new)
         /\ \A t : Connected(new, t) = Connected(table, t)
<1> DEFINE info == [Info(table, topic) EXCEPT !.subscribed = value]
<1>1. /\ info \in TopicInfo /\ info.connected = Info(table, topic).connected
      /\ info.addresses = Info(table, topic).addresses
  BY InfoType DEF TopicInfo
<1>2. SetSubscribed(table, topic, value) = Insert(table, topic, info)
  BY DEF SetSubscribed
<1> HIDE DEF info
<1>3. QED
  BY <1>1, <1>2, FieldWriteKeepsAddresses, InsertInfo DEF Connected

\* SetCallback writes neither address nor connected flag.
LEMMA SetCallbackFacts ==
  ASSUME NEW table, IsTable(table), NEW topic \in Topic,
         NEW cb \in Callback \cup {NULL}
  PROVE  LET new == SetCallback(table, topic, cb) IN
         /\ KeepsAddresses(table, new)
         /\ \A t : Connected(new, t) = Connected(table, t)
<1> DEFINE info == [Info(table, topic) EXCEPT !.cb = cb]
<1>1. /\ info \in TopicInfo /\ info.connected = Info(table, topic).connected
      /\ info.addresses = Info(table, topic).addresses
  BY InfoType DEF TopicInfo
<1>2. SetCallback(table, topic, cb) = Insert(table, topic, info)
  BY DEF SetCallback
<1> HIDE DEF info
<1>3. QED
  BY <1>1, <1>2, FieldWriteKeepsAddresses, InsertInfo DEF Connected

\* Subscribe and UnSubscribe write the flag and the callback in turn.
LEMMA SubscriptionFacts ==
  ASSUME NEW table, IsTable(table), NEW topic \in Topic, NEW value \in BOOLEAN,
         NEW cb \in Callback \cup {NULL}
  PROVE  LET new == SetCallback(SetSubscribed(table, topic, value), topic, cb) IN
         /\ KeepsAddresses(table, new)
         /\ \A t : Connected(new, t) = Connected(table, t)
<1> DEFINE mid == SetSubscribed(table, topic, value)
           new == SetCallback(mid, topic, cb)
<1>1. KeepsAddresses(table, mid) /\ \A t : Connected(mid, t) = Connected(table, t)
  BY SetSubscribedFacts
<1>2. IsTable(mid)
  BY <1>1 DEF KeepsAddresses
<1> HIDE DEF mid
<1>3. KeepsAddresses(mid, new) /\ \A t : Connected(new, t) = Connected(mid, t)
  BY <1>2, SetCallbackFacts
<1> HIDE DEF new
<1>4. KeepsAddresses(table, new) /\ \A t : Connected(new, t) = Connected(table, t)
  BY <1>1, <1>3 DEF KeepsAddresses
<1>5. QED
  BY <1>4 DEF mid, new

-----------------------------------------------------------------------------
(* What the application sees of a table                                    *)

\* The subscription and the advertisement of a topic, callback included.
SameView(table, new, t) ==
  /\ Subscribed(new, t) = Subscribed(table, t)
  /\ GetCallback(new, t) = GetCallback(table, t)
  /\ AdvertisedByMe(new, t) = AdvertisedByMe(table, t)

\* Discovery writes addresses and connected flags, which the application does
\* not see.
LEMMA DiscoveryViews ==
  ASSUME NEW table, IsTable(table), NEW topic \in Topic, NEW t
  PROVE  /\ \A value : SameView(table, SetConnected(table, topic, value), t)
         /\ \A address : SameView(table, AddAdvAddress(table, topic, address), t)
<1>1. Info(table, topic) \in TopicInfo
  BY InfoType
<1>2. ASSUME NEW info, info.subscribed = Info(table, topic).subscribed,
             info.cb = Info(table, topic).cb,
             info.advertisedByMe = Info(table, topic).advertisedByMe
      PROVE  SameView(table, Insert(table, topic, info), t)
  BY <1>2, InsertInfo DEF SameView, Subscribed, GetCallback, AdvertisedByMe
<1>3. ASSUME NEW value
      PROVE  SameView(table, SetConnected(table, topic, value), t)
  <2> DEFINE info == [Info(table, topic) EXCEPT !.connected = value]
  <2>1. /\ info.subscribed = Info(table, topic).subscribed
        /\ info.cb = Info(table, topic).cb
        /\ info.advertisedByMe = Info(table, topic).advertisedByMe
    BY <1>1 DEF TopicInfo
  <2> HIDE DEF info
  <2>2. QED
    BY <1>2, <2>1 DEF SetConnected, info
<1>4. ASSUME NEW address
      PROVE  SameView(table, AddAdvAddress(table, topic, address), t)
  <2> DEFINE more == IF HasAdvAddress(table, topic, address)
                     THEN Info(table, topic).addresses
                     ELSE Append(Info(table, topic).addresses, address)
             info == [Info(table, topic) EXCEPT !.addresses = more]
  <2>1. /\ info.subscribed = Info(table, topic).subscribed
        /\ info.cb = Info(table, topic).cb
        /\ info.advertisedByMe = Info(table, topic).advertisedByMe
    BY <1>1 DEF TopicInfo
  <2> HIDE DEF info
  <2>2. QED
    BY <1>2, <2>1 DEF AddAdvAddress, info
<1>5. QED
  BY <1>3, <1>4

\* Advertise and UnAdvertise change the advertisement of their topic only.
LEMMA AdvertiseView ==
  ASSUME NEW table, IsTable(table), NEW topic \in Topic, NEW value \in BOOLEAN, NEW t
  PROVE  LET new == SetAdvertisedByMe(table, topic, value) IN
         /\ Subscribed(new, t) = Subscribed(table, t)
         /\ GetCallback(new, t) = GetCallback(table, t)
         /\ AdvertisedByMe(new, t) =
              IF t = topic THEN value ELSE AdvertisedByMe(table, t)
<1> DEFINE info == [Info(table, topic) EXCEPT !.advertisedByMe = value]
<1>1. /\ info.subscribed = Info(table, topic).subscribed
      /\ info.cb = Info(table, topic).cb
      /\ info.advertisedByMe = value
  BY InfoType DEF TopicInfo
<1>2. SetAdvertisedByMe(table, topic, value) = Insert(table, topic, info)
  BY DEF SetAdvertisedByMe
<1> HIDE DEF info
<1>3. QED
  BY <1>1, <1>2, InsertInfo DEF Subscribed, GetCallback, AdvertisedByMe

\* Subscribe and UnSubscribe change the subscription of their topic only.
LEMMA SubscriptionView ==
  ASSUME NEW table, IsTable(table), NEW topic \in Topic, NEW value \in BOOLEAN,
         NEW cb \in Callback \cup {NULL}, NEW t
  PROVE  LET new == SetCallback(SetSubscribed(table, topic, value), topic, cb) IN
         /\ Subscribed(new, t) = IF t = topic THEN value ELSE Subscribed(table, t)
         /\ GetCallback(new, t) = IF t = topic THEN cb ELSE GetCallback(table, t)
         /\ AdvertisedByMe(new, t) = AdvertisedByMe(table, t)
<1> DEFINE mid    == SetSubscribed(table, topic, value)
           first  == [Info(table, topic) EXCEPT !.subscribed = value]
           second == [Info(mid, topic) EXCEPT !.cb = cb]
<1>1. IsTable(mid)
  BY SetSubscribedFacts DEF KeepsAddresses
<1>2. /\ first.subscribed = value /\ first.cb = Info(table, topic).cb
      /\ first.advertisedByMe = Info(table, topic).advertisedByMe
  BY InfoType DEF TopicInfo
<1>3. mid = Insert(table, topic, first)
  BY DEF SetSubscribed
<1> HIDE DEF mid, first
<1>4. /\ second.subscribed = Info(mid, topic).subscribed /\ second.cb = cb
      /\ second.advertisedByMe = Info(mid, topic).advertisedByMe
  BY <1>1, InfoType DEF TopicInfo
<1>5. SetCallback(mid, topic, cb) = Insert(mid, topic, second)
  BY DEF SetCallback
<1> HIDE DEF second
<1>6. /\ Info(mid, topic) = first
      /\ Info(mid, t) = IF t = topic THEN first ELSE Info(table, t)
      /\ Info(Insert(mid, topic, second), t) = IF t = topic THEN second ELSE Info(mid, t)
  BY <1>3, InsertInfo
<1>7. QED
  BY <1>2, <1>4, <1>5, <1>6 DEF Subscribed, GetCallback, AdvertisedByMe, mid

-----------------------------------------------------------------------------
(* The writers the service calls use                                       *)

\* What the links of a node depend on stays as it is: the connected flag and
\* the addresses of every topic.
KeepsLinkState(table, new) ==
  /\ IsTable(new)
  /\ \A t : /\ Connected(new, t) = Connected(table, t)
            /\ AdvAddresses(new, t) = AdvAddresses(table, t)

\* An entry written with the addresses and the connected flag it had.
LEMMA FieldWriteKeepsLinkState ==
  ASSUME NEW table, IsTable(table), NEW topic \in Topic, NEW info \in TopicInfo,
         info.addresses = Info(table, topic).addresses,
         info.connected = Info(table, topic).connected
  PROVE  KeepsLinkState(table, Insert(table, topic, info))
  BY InsertType, InsertInfo DEF KeepsLinkState, AdvAddresses, Connected

\* SrvAdvertise and SrvUnAdvertise write the flag and the callback in turn.
LEMMA ReplierFacts ==
  ASSUME NEW table, IsTable(table), NEW topic \in Topic, NEW value \in BOOLEAN,
         NEW cb \in Callback \cup {NULL}
  PROVE  KeepsLinkState(table,
            SetRepCallback(SetAdvertisedByMe(table, topic, value), topic, cb))
<1> DEFINE first == [Info(table, topic) EXCEPT !.advertisedByMe = value]
           mid == SetAdvertisedByMe(table, topic, value)
           second == [Info(mid, topic) EXCEPT !.repCb = cb]
<1>1. /\ first \in TopicInfo /\ first.addresses = Info(table, topic).addresses
      /\ first.connected = Info(table, topic).connected
  BY InfoType DEF TopicInfo
<1>2. KeepsLinkState(table, mid)
  BY <1>1, FieldWriteKeepsLinkState DEF SetAdvertisedByMe
<1>3. IsTable(mid)
  BY <1>2 DEF KeepsLinkState
<1>4. /\ second \in TopicInfo /\ second.addresses = Info(mid, topic).addresses
      /\ second.connected = Info(mid, topic).connected
  BY <1>3, InfoType DEF TopicInfo
<1>5. KeepsLinkState(mid, SetRepCallback(mid, topic, cb))
  BY <1>3, <1>4, FieldWriteKeepsLinkState DEF SetRepCallback
<1>6. QED
  BY <1>2, <1>5 DEF KeepsLinkState

\* SrvRequest marks the service as requested.
LEMMA SetRequestedFacts ==
  ASSUME NEW table, IsTable(table), NEW topic \in Topic, NEW value \in BOOLEAN
  PROVE  KeepsLinkState(table, SetRequested(table, topic, value))
<1> DEFINE info == [Info(table, topic) EXCEPT !.requested = value]
<1>1. /\ info \in TopicInfo /\ info.addresses = Info(table, topic).addresses
      /\ info.connected = Info(table, topic).connected
  BY InfoType DEF TopicInfo
<1>2. QED
  BY <1>1, FieldWriteKeepsLinkState DEF SetRequested

\* SrvRequestAsync also registers the callback and queues the request.
LEMMA AsyncRequestFacts ==
  ASSUME NEW table, IsTable(table), NEW topic \in Topic, NEW cb \in Callback,
         NEW data \in Request
  PROVE  KeepsLinkState(table,
            AddReq(SetReqCallback(SetRequested(table, topic, TRUE), topic, cb),
                   topic, data))
<1> DEFINE one == SetRequested(table, topic, TRUE)
           two == SetReqCallback(one, topic, cb)
           second == [Info(one, topic) EXCEPT !.reqCb = cb]
           third == [Info(two, topic) EXCEPT !.pendingReqs = Append(@, data)]
<1>1. KeepsLinkState(table, one)
  BY SetRequestedFacts
<1>2. IsTable(one)
  BY <1>1 DEF KeepsLinkState
<1> HIDE DEF one
<1>3. /\ second \in TopicInfo /\ second.addresses = Info(one, topic).addresses
      /\ second.connected = Info(one, topic).connected
  BY <1>2, InfoType DEF TopicInfo
<1>4. KeepsLinkState(one, two)
  BY <1>2, <1>3, FieldWriteKeepsLinkState DEF SetReqCallback
<1>5. IsTable(two)
  BY <1>4 DEF KeepsLinkState
<1> HIDE DEF two
<1>6. /\ third \in TopicInfo /\ third.addresses = Info(two, topic).addresses
      /\ third.connected = Info(two, topic).connected
  <2>1. Info(two, topic) \in TopicInfo
    BY <1>5, InfoType
  <2>2. Append(Info(two, topic).pendingReqs, data) \in Seq(Request)
    BY <2>1 DEF TopicInfo
  <2>3. QED
    BY <2>1, <2>2 DEF TopicInfo
<1>7. KeepsLinkState(two, AddReq(two, topic, data))
  BY <1>5, <1>6, FieldWriteKeepsLinkState DEF AddReq
<1>8. KeepsLinkState(table, AddReq(two, topic, data))
  BY <1>1, <1>4, <1>7 DEF KeepsLinkState
<1>9. QED
  BY <1>8 DEF one, two

\* DelReq takes a request off the list of a topic that has one.
LEMMA DelReqFacts ==
  ASSUME NEW table, IsTable(table), NEW topic \in Topic, PendingReqs(table, topic)
  PROVE  /\ KeepsLinkState(table, DelReq(table, topic))
         /\ OldestReq(table, topic) \in Request
<1> DEFINE old == Info(table, topic)
           info == [old EXCEPT !.pendingReqs = Tail(@)]
<1>1. old \in TopicInfo /\ old.pendingReqs # <<>>
  BY InfoType DEF PendingReqs
<1>2. old.pendingReqs \in Seq(Request)
  BY <1>1 DEF TopicInfo
<1>3. Tail(old.pendingReqs) \in Seq(Request) /\ Head(old.pendingReqs) \in Request
  BY <1>1, <1>2
<1>4. /\ info \in TopicInfo /\ info.addresses = old.addresses
      /\ info.connected = old.connected
  BY <1>1, <1>3 DEF TopicInfo
<1>5. old = table[topic]
  BY <1>1 DEF Info, NewTopicInfo
<1>6. KeepsLinkState(table, DelReq(table, topic))
  BY <1>4, FieldWriteKeepsLinkState DEF DelReq
<1>7. QED
  BY <1>3, <1>5, <1>6 DEF OldestReq

-----------------------------------------------------------------------------
(* What service calls see of a table                                       *)

\* The requests that wait for a service, and whether it is advertised.
Waiting(table, t) == Info(table, t).pendingReqs

SameCalls(table, new, t) ==
  /\ Waiting(new, t) = Waiting(table, t)
  /\ AdvertisedByMe(new, t) = AdvertisedByMe(table, t)

\* An entry written with the requests and the advertisement it had.
LEMMA FieldWriteSameCalls ==
  ASSUME NEW table, NEW topic, NEW info, NEW t,
         info.pendingReqs = Info(table, topic).pendingReqs,
         info.advertisedByMe = Info(table, topic).advertisedByMe
  PROVE  SameCalls(table, Insert(table, topic, info), t)
  BY InsertInfo DEF SameCalls, Waiting, AdvertisedByMe

\* Discovery and the first step of a request write neither.
LEMMA DiscoverySameCalls ==
  ASSUME NEW table, IsTable(table), NEW topic \in Topic, NEW t
  PROVE  /\ \A value : SameCalls(table, SetConnected(table, topic, value), t)
         /\ \A value : SameCalls(table, SetRequested(table, topic, value), t)
         /\ \A cb : SameCalls(table, SetReqCallback(table, topic, cb), t)
         /\ \A cb : SameCalls(table, SetRepCallback(table, topic, cb), t)
         /\ \A address : SameCalls(table, AddAdvAddress(table, topic, address), t)
<1>1. Info(table, topic) \in TopicInfo
  BY InfoType
<1>2. ASSUME NEW value
      PROVE  /\ SameCalls(table, SetConnected(table, topic, value), t)
             /\ SameCalls(table, SetRequested(table, topic, value), t)
             /\ SameCalls(table, SetReqCallback(table, topic, value), t)
             /\ SameCalls(table, SetRepCallback(table, topic, value), t)
  <2>1. SameCalls(table, SetConnected(table, topic, value), t)
    BY <1>1, FieldWriteSameCalls DEF SetConnected, TopicInfo
  <2>2. SameCalls(table, SetRequested(table, topic, value), t)
    BY <1>1, FieldWriteSameCalls DEF SetRequested, TopicInfo
  <2>3. SameCalls(table, SetReqCallback(table, topic, value), t)
    BY <1>1, FieldWriteSameCalls DEF SetReqCallback, TopicInfo
  <2>4. SameCalls(table, SetRepCallback(table, topic, value), t)
    BY <1>1, FieldWriteSameCalls DEF SetRepCallback, TopicInfo
  <2>5. QED
    BY <2>1, <2>2, <2>3, <2>4
<1>3. ASSUME NEW address
      PROVE  SameCalls(table, AddAdvAddress(table, topic, address), t)
  <2> DEFINE more == IF HasAdvAddress(table, topic, address)
                     THEN Info(table, topic).addresses
                     ELSE Append(Info(table, topic).addresses, address)
             info == [Info(table, topic) EXCEPT !.addresses = more]
  <2>1. /\ info.pendingReqs = Info(table, topic).pendingReqs
        /\ info.advertisedByMe = Info(table, topic).advertisedByMe
    BY <1>1 DEF TopicInfo
  <2>2. AddAdvAddress(table, topic, address) = Insert(table, topic, info)
    BY DEF AddAdvAddress
  <2> HIDE DEF info
  <2>3. QED
    BY <2>1, <2>2, FieldWriteSameCalls
<1>4. QED
  BY <1>2, <1>3

\* SrvAdvertise and SrvUnAdvertise leave the requests alone.
LEMMA ReplierCalls ==
  ASSUME NEW table, IsTable(table), NEW topic \in Topic, NEW value \in BOOLEAN,
         NEW cb, NEW t
  PROVE  LET new == SetRepCallback(SetAdvertisedByMe(table, topic, value), topic, cb) IN
         /\ Waiting(new, t) = Waiting(table, t)
         /\ AdvertisedByMe(new, t) =
              IF t = topic THEN value ELSE AdvertisedByMe(table, t)
<1> DEFINE info == [Info(table, topic) EXCEPT !.advertisedByMe = value]
           mid == SetAdvertisedByMe(table, topic, value)
<1>1. /\ info.advertisedByMe = value
      /\ info.pendingReqs = Info(table, topic).pendingReqs
  BY InfoType DEF TopicInfo
<1>2. mid = Insert(table, topic, info)
  BY DEF SetAdvertisedByMe
<1>3. IsTable(mid)
  BY SetAdvertisedByMeFacts DEF KeepsAddresses
<1> HIDE DEF info, mid
<1>4. /\ Waiting(mid, t) = Waiting(table, t)
      /\ AdvertisedByMe(mid, t) = IF t = topic THEN value ELSE AdvertisedByMe(table, t)
  BY <1>1, <1>2, InsertInfo DEF Waiting, AdvertisedByMe
<1>5. SameCalls(mid, SetRepCallback(mid, topic, cb), t)
  BY <1>3, DiscoverySameCalls
<1>6. QED
  BY <1>4, <1>5 DEF SameCalls, mid

\* SrvRequestAsync puts its request behind those that wait.
LEMMA AsyncCalls ==
  ASSUME NEW table, IsTable(table), NEW topic \in Topic, NEW cb \in Callback,
         NEW data \in Request, NEW t
  PROVE  LET new == AddReq(SetReqCallback(SetRequested(table, topic, TRUE), topic, cb),
                           topic, data) IN
         /\ Waiting(new, t) = IF t = topic THEN Append(Waiting(table, topic), data)
                              ELSE Waiting(table, t)
         /\ AdvertisedByMe(new, t) = AdvertisedByMe(table, t)
<1> DEFINE one == SetRequested(table, topic, TRUE)
           second == [Info(one, topic) EXCEPT !.reqCb = cb]
           two == SetReqCallback(one, topic, cb)
           third == [Info(two, topic) EXCEPT !.pendingReqs = Append(@, data)]
<1>1. IsTable(one) /\ \A k : SameCalls(table, one, k)
  BY SetRequestedFacts, DiscoverySameCalls DEF KeepsLinkState
<1> HIDE DEF one
<1>2. second \in TopicInfo
  BY <1>1, InfoType DEF TopicInfo
<1>3. IsTable(two) /\ \A k : SameCalls(one, two, k)
  BY <1>1, <1>2, InsertType, DiscoverySameCalls DEF SetReqCallback
<1> HIDE DEF two
<1>4. /\ third.pendingReqs = Append(Waiting(two, topic), data)
      /\ third.advertisedByMe = Info(two, topic).advertisedByMe
  BY <1>3, InfoType DEF TopicInfo, Waiting
<1>5. AddReq(two, topic, data) = Insert(two, topic, third)
  BY DEF AddReq
<1> HIDE DEF third
<1>6. /\ Waiting(AddReq(two, topic, data), t) =
           IF t = topic THEN Append(Waiting(two, topic), data) ELSE Waiting(two, t)
      /\ AdvertisedByMe(AddReq(two, topic, data), t) = AdvertisedByMe(two, t)
  <2>1. Info(AddReq(two, topic, data), t) = IF t = topic THEN third ELSE Info(two, t)
    BY <1>5, InsertInfo
  <2>2. CASE t = topic
    BY <1>4, <2>1, <2>2 DEF Waiting, AdvertisedByMe
  <2>3. CASE t # topic
    BY <2>1, <2>3 DEF Waiting, AdvertisedByMe
  <2>4. QED
    BY <2>2, <2>3
<1>7. /\ Waiting(two, topic) = Waiting(table, topic)
      /\ Waiting(two, t) = Waiting(table, t)
      /\ AdvertisedByMe(two, t) = AdvertisedByMe(table, t)
  BY <1>1, <1>3 DEF SameCalls
<1>8. QED
  BY <1>6, <1>7 DEF one, two

\* DelReq takes the oldest request, which OldestReq names.
LEMMA DelReqCalls ==
  ASSUME NEW table, IsTable(table), NEW topic \in Topic, PendingReqs(table, topic),
         NEW t
  PROVE  /\ Waiting(DelReq(table, topic), t) =
              IF t = topic THEN Tail(Waiting(table, topic)) ELSE Waiting(table, t)
         /\ AdvertisedByMe(DelReq(table, topic), t) = AdvertisedByMe(table, t)
         /\ OldestReq(table, topic) = Head(Waiting(table, topic))
         /\ Waiting(table, topic) # <<>>
<1> DEFINE info == [Info(table, topic) EXCEPT !.pendingReqs = Tail(@)]
<1>1. /\ info.pendingReqs = Tail(Waiting(table, topic))
      /\ info.advertisedByMe = Info(table, topic).advertisedByMe
  BY InfoType DEF TopicInfo, Waiting
<1>2. DelReq(table, topic) = Insert(table, topic, info)
  BY DEF DelReq
<1> HIDE DEF info
<1>3. Waiting(table, topic) # <<>> /\ Info(table, topic) = table[topic]
  BY DEF PendingReqs, Waiting, Info, NewTopicInfo
<1>4. QED
  BY <1>1, <1>2, <1>3, InsertInfo DEF Waiting, AdvertisedByMe, OldestReq

-----------------------------------------------------------------------------
\* No address is listed twice for a topic: what HasAdvAddress guards in
\* AddAdvAddress.
Distinct(list) == \A i, j \in DOMAIN list : list[i] = list[j] => i = j

\* AddAdvAddress keeps every list of addresses free of repetitions.
THEOREM AddAdvAddressKeepsDistinct ==
  ASSUME NEW table, IsTable(table), NEW topic \in Topic, NEW address \in Address,
         \A t \in Topic : Distinct(Info(table, t).addresses)
  PROVE  \A t \in Topic :
            Distinct(Info(AddAdvAddress(table, topic, address), t).addresses)
<1> DEFINE old == Info(table, topic)
           list == IF HasAdvAddress(table, topic, address)
                   THEN old.addresses ELSE Append(old.addresses, address)
<1>1. old \in TopicInfo /\ old.addresses \in Seq(Address)
  BY InfoType DEF TopicInfo
<1>2. Distinct(list)
  <2>1. CASE HasAdvAddress(table, topic, address)
    BY <2>1
  <2>2. CASE ~HasAdvAddress(table, topic, address)
    <3>1. \A i \in DOMAIN old.addresses : old.addresses[i] # address
      BY <2>2 DEF HasAdvAddress, AdvAddresses, ToSet
    <3>2. list = Append(old.addresses, address)
      BY <2>2
    <3>3. Distinct(old.addresses)
      OBVIOUS
    <3>4. QED
      BY <1>1, <3>1, <3>2, <3>3 DEF Distinct
  <2>3. QED
    BY <2>1, <2>2
<1> DEFINE info == [old EXCEPT !.addresses = list]
           new == AddAdvAddress(table, topic, address)
<1>3. info.addresses = list
  BY <1>1 DEF TopicInfo
<1>4. new = Insert(table, topic, info)
  BY DEF AddAdvAddress
<1> HIDE DEF info, list
<1>5. \A t \in Topic : Info(new, t) = IF t = topic THEN info ELSE Info(table, t)
  BY <1>4, InsertInfo
<1>6. QED
  BY <1>2, <1>3, <1>5
=============================================================================
