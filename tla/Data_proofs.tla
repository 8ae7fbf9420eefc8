----------------------------- MODULE Data_proofs -----------------------------
(***************************************************************************)
(* Theorems about what the programs keep and send: the methods of a        *)
(* TopicsInfo object called in any order, for all topics, addresses and    *)
(* callbacks and any number of requests; the linked lists of the C node,   *)
(* for all keys and any number of cells; multipart messages of any parts;  *)
(* and discovery datagrams, for any topics and addresses that fit.         *)
(***************************************************************************)
EXTENDS TopicsInfoApi, CLists, WireParts, TopicsInfo_proofs, FiniteSetTheorems,
        SequenceTheorems, WellFoundedInduction

-----------------------------------------------------------------------------
(* Lists without an element                                                *)

\* Induction on the natural numbers, for a set: the least number that is not in
\* S has a predecessor, which is.
LEMMA AllNumbers ==
  ASSUME NEW S, 0 \in S, \A n \in Nat : n \in S => n + 1 \in S
  PROVE  Nat \subseteq S
<1>1. SUFFICES ASSUME Nat \ S # {} PROVE FALSE
  OBVIOUS
<1> DEFINE below == OpToRel(<, Nat)
<1>2. \A x, y \in Nat : x < y => <<x, y>> \in below
  BY DEF OpToRel
<1>3. IsWellFoundedOn(below, Nat)
  BY NatLessThanWellFounded
<1> HIDE DEF below
<1>4. PICK least \in Nat \ S : \A y \in Nat \ S : <<y, least>> \notin below
  <2>1. Nat \ S \subseteq Nat
    OBVIOUS
  <2>2. QED
    BY ONLY <1>1, <1>3, <2>1, WFMin
<1>5. least \in Nat /\ least # 0
  OBVIOUS
<1>6. least - 1 \in Nat /\ least - 1 < least /\ (least - 1) + 1 = least
  BY <1>5
<1>7. QED
  BY <1>2, <1>4, <1>5, <1>6

\* What one more element of the list makes of what is kept.
Keeps(list, element, i, before) ==
  IF list[i] = element THEN before ELSE Append(before, list[i])

\* The functions that do what Kept does, as far as element n of the list.
Prefix(list, element, n) ==
  {f \in [0..n -> UNION {[1..k -> ToSet(list)] : k \in Nat}] :
     /\ f[0] = <<>>
     /\ \A i \in 1..n : f[i] = Keeps(list, element, i, f[i - 1])}

\* There is such a function for each n: induction on n.
LEMMA PrefixExists ==
  ASSUME NEW S, NEW list \in Seq(S), NEW element, NEW n \in 0..Len(list)
  PROVE  Prefix(list, element, n) # {}
<1> DEFINE T == ToSet(list)
           good == {m \in Nat : m <= Len(list) => Prefix(list, element, m) # {}}
<1>1. UNION {[1..k -> T] : k \in Nat} = Seq(T)
  BY SeqDef
<1>2. Len(list) \in Nat /\ \A i \in 1..Len(list) : list[i] \in T
  BY DEF ToSet
<1> HIDE DEF T
<1>3. 0 \in good
  <2> DEFINE f == [i \in 0..0 |-> <<>>]
  <2>1. <<>> \in Seq(T)
    OBVIOUS
  <2>2. f \in [0..0 -> Seq(T)] /\ f[0] = <<>> /\ \A i \in 1..0 : FALSE
    BY <2>1
  <2> HIDE DEF f
  <2>3. f \in Prefix(list, element, 0)
    BY <1>1, <2>2 DEF Prefix, T
  <2>4. QED
    BY <2>3
<1>4. ASSUME NEW m \in Nat, m \in good PROVE m + 1 \in good
  <2>1. SUFFICES ASSUME m + 1 <= Len(list) PROVE Prefix(list, element, m + 1) # {}
    OBVIOUS
  <2>2. Prefix(list, element, m) # {}
    BY <1>2, <1>4, <2>1
  <2>3. PICK f \in [0..m -> Seq(T)] :
           f[0] = <<>> /\ \A i \in 1..m : f[i] = Keeps(list, element, i, f[i - 1])
    BY <1>1, <2>2 DEF Prefix, T
  <2> DEFINE tail == Keeps(list, element, m + 1, f[m])
             g == [i \in 0..(m + 1) |-> IF i = m + 1 THEN tail ELSE f[i]]
  <2>4. tail \in Seq(T)
    <3>1. f[m] \in Seq(T) /\ list[m + 1] \in T
      BY <1>2, <2>1, <2>3
    <3>2. QED
      BY <3>1 DEF Keeps
  <2> HIDE DEF tail
  <2>5. g \in [0..(m + 1) -> Seq(T)]
    BY <2>3, <2>4
  <2>6. g[0] = <<>> /\ g[m + 1] = tail /\ \A i \in 0..m : g[i] = f[i]
    BY <2>3
  <2> HIDE DEF g
  <2>7. ASSUME NEW i \in 1..(m + 1) PROVE g[i] = Keeps(list, element, i, g[i - 1])
    <3>1. CASE i = m + 1
      BY <2>6, <3>1 DEF tail
    <3>2. CASE i # m + 1
      <4>1. i \in 1..m /\ i \in 0..m /\ i - 1 \in 0..m
        BY <3>2
      <4>2. QED
        BY <2>3, <2>6, <4>1
    <3>3. QED
      BY <3>1, <3>2
  <2>8. g \in Prefix(list, element, m + 1)
    BY <1>1, <2>5, <2>6, <2>7 DEF Prefix, T
  <2>9. QED
    BY <2>8
<1>5. Nat \subseteq good
  <2> HIDE DEF good
  <2>1. QED
    BY <1>3, <1>4, AllNumbers
<1>6. QED
  BY <1>2, <1>5

\* What Kept returns, element by element.
LEMMA KeptIs ==
  ASSUME NEW S, NEW list \in Seq(S), NEW element
  PROVE  LET kept == Kept(list, element) IN
         /\ kept[0] = <<>>
         /\ \A i \in 1..Len(list) : kept[i] = Keeps(list, element, i, kept[i - 1])
<1> DEFINE n == Len(list)
           Body(f) == [i \in 0..n |-> IF i = 0 THEN <<>>
                                      ELSE IF list[i] = element THEN f[i - 1]
                                      ELSE Append(f[i - 1], list[i])]
<1>1. n \in Nat /\ n \in 0..n
  OBVIOUS
<1>2. PICK f \in Prefix(list, element, n) : TRUE
  BY <1>1, PrefixExists
<1>3. f = Body(f)
  <2>1. DOMAIN f = 0..n /\ f = [i \in 0..n |-> f[i]]
    BY DEF Prefix
  <2>2. ASSUME NEW i \in 0..n PROVE f[i] = Body(f)[i]
    <3>1. CASE i = 0
      BY <1>1, <3>1 DEF Prefix
    <3>2. CASE i # 0
      <4>1. i \in 1..n
        BY <1>1, <3>2
      <4>2. QED
        BY <3>2, <4>1 DEF Prefix, Keeps
    <3>3. QED
      BY <3>1, <3>2
  <2>3. QED
    BY <2>1, <2>2
<1> DEFINE kept == Kept(list, element)
<1>4. kept = Body(kept)
  <2>1. kept = CHOOSE g : g = Body(g)
    BY DEF Kept
  <2> HIDE DEF Body, kept
  <2>2. QED
    BY <1>3, <2>1
<1> HIDE DEF kept
<1>5. \A i \in 0..n : kept[i] = Body(kept)[i]
  BY <1>4
<1>6. kept[0] = <<>>
  BY <1>1, <1>5
<1>7. ASSUME NEW i \in 1..n PROVE kept[i] = Keeps(list, element, i, kept[i - 1])
  <2>1. i \in 0..n /\ i # 0
    BY <1>1
  <2>2. QED
    BY <1>5, <2>1 DEF Keeps
<1>8. QED
  BY <1>6, <1>7 DEF kept

\* What is left of a list: all but the element, nothing twice that was there
\* once.
LEMMA WithoutFacts ==
  ASSUME NEW S, NEW list \in Seq(S), NEW element
  PROVE  /\ Without(list, element) \in Seq(S)
         /\ ToSet(Without(list, element)) = ToSet(list) \ {element}
         /\ Distinct(list) => Distinct(Without(list, element))
<1> DEFINE kept == Kept(list, element)
           Seen(m) == {list[j] : j \in 1..m}
           Good(m) == /\ kept[m] \in Seq(S)
                      /\ ToSet(kept[m]) = Seen(m) \ {element}
                      /\ Distinct(list) => Distinct(kept[m])
           good == {m \in Nat : m <= Len(list) => Good(m)}
<1>1. Len(list) \in Nat /\ DOMAIN list = 1..Len(list)
      /\ \A i \in 1..Len(list) : list[i] \in S
  OBVIOUS
<1>2. /\ kept[0] = <<>>
      /\ \A i \in 1..Len(list) : kept[i] = Keeps(list, element, i, kept[i - 1])
  BY KeptIs
<1> HIDE DEF kept
<1>3. 0 \in good
  <2>1. kept[0] \in Seq(S) /\ Distinct(kept[0]) /\ ToSet(kept[0]) = {}
    BY <1>2 DEF ToSet, Distinct
  <2>2. Seen(0) = {}
    OBVIOUS
  <2> HIDE DEF Seen
  <2>3. Good(0)
    BY <2>1, <2>2
  <2>4. QED
    BY <2>3
<1>4. ASSUME NEW m \in Nat, m \in good PROVE m + 1 \in good
  <2>1. SUFFICES ASSUME m + 1 <= Len(list) PROVE Good(m + 1)
    OBVIOUS
  <2> DEFINE old == kept[m]
             x == list[m + 1]
             new == kept[m + 1]
  <2>2. m + 1 \in 1..Len(list) /\ (m + 1) - 1 = m /\ m <= Len(list)
    BY <1>1, <2>1
  <2>3. /\ old \in Seq(S) /\ ToSet(old) = Seen(m) \ {element}
        /\ Distinct(list) => Distinct(old)
    BY <1>4, <2>2
  <2>4. x \in S /\ new = IF x = element THEN old ELSE Append(old, x)
    BY <1>1, <1>2, <2>2 DEF Keeps
  <2>5. Seen(m + 1) = Seen(m) \cup {x}
    <3>1. \A j \in 1..(m + 1) : j \in 1..m \/ j = m + 1
      OBVIOUS
    <3>2. 1..m \subseteq 1..(m + 1) /\ m + 1 \in 1..(m + 1)
      OBVIOUS
    <3>3. QED
      BY <3>1, <3>2
  <2>6. Distinct(list) => x \notin Seen(m)
    <3>1. \A j \in 1..m : j \in DOMAIN list /\ m + 1 \in DOMAIN list /\ j # m + 1
      BY <1>1, <2>1
    <3>2. QED
      BY <3>1 DEF Distinct
  <2> HIDE DEF x, new, old, Seen
  <2>7. CASE x = element
    BY <2>3, <2>4, <2>5, <2>7 DEF new
  <2>8. CASE x # element
    <3>1. new = Append(old, x) /\ new \in Seq(S) /\ ToSet(new) = ToSet(old) \cup {x}
      BY <2>3, <2>4, <2>8, ToSetAppend
    <3>2. ToSet(new) = Seen(m + 1) \ {element}
      BY <2>3, <2>5, <2>8, <3>1
    <3>3. ASSUME Distinct(list) PROVE Distinct(new)
      <4>1. x \notin ToSet(old) /\ Distinct(old)
        BY <2>3, <2>6, <3>3
      <4>2. \A i \in 1..Len(old) : old[i] # x
        BY <2>3, <4>1 DEF ToSet
      <4>3. QED
        BY <2>3, <2>4, <3>1, <4>1, <4>2 DEF Distinct
    <3>4. QED
      BY <3>1, <3>2, <3>3 DEF new
  <2>9. QED
    BY <2>7, <2>8
<1>5. Nat \subseteq good
  <2> HIDE DEF good
  <2>1. QED
    BY <1>3, <1>4, AllNumbers
<1>6. Good(Len(list))
  <2>1. Len(list) \in good
    BY <1>1, <1>5
  <2> HIDE DEF Good
  <2>2. QED
    BY <1>1, <2>1
<1>7. Seen(Len(list)) = ToSet(list)
  BY <1>1 DEF ToSet
<1>8. Without(list, element) = kept[Len(list)]
  BY DEF Without, kept
<1>9. QED
  BY <1>6, <1>7, <1>8

-----------------------------------------------------------------------------
(* Effects of the methods on what is listed and what waits                 *)

Listed(tab, t) == Info(tab, t).addresses

\* The table has this list and this queue for the topic, and what it had for
\* the others.
Becomes(topic, list, queue) ==
  /\ IsTable(table')
  /\ \A t \in Topic :
       /\ Listed(table', t)  = IF t = topic THEN list ELSE Listed(table, t)
       /\ Waiting(table', t) = IF t = topic THEN queue ELSE Waiting(table, t)

\* What a table holds for a topic has its type.
LEMMA HeldForTopic ==
  ASSUME IsTable(table), NEW t
  PROVE  /\ Info(table, t) \in TopicInfo
         /\ Listed(table, t) \in Seq(Address) /\ Waiting(table, t) \in Seq(Request)
BY InfoType DEF TopicInfo, Listed, Waiting

\* A method that writes one entry does nothing else.
LEMMA EntryWritten ==
  ASSUME IsTable(table), NEW topic \in Topic, NEW info \in TopicInfo,
         table' = Insert(table, topic, info)
  PROVE  Becomes(topic, info.addresses, info.pendingReqs)
BY InsertType, InsertInfo DEF Becomes, Listed, Waiting

\* A setter of a flag or a callback changes neither list nor queue.
LEMMA SetEffect ==
  ASSUME IsTable(table), NEW topic \in Topic, Set(topic)
  PROVE  Becomes(topic, Listed(table, topic), Waiting(table, topic))
<1> DEFINE old == Info(table, topic)
<1>1. old \in TopicInfo
  BY InfoType
<1> DEFINE Rewritten == \E info \in TopicInfo :
              /\ table' = Insert(table, topic, info)
              /\ info.addresses = old.addresses /\ info.pendingReqs = old.pendingReqs
<1>2. SUFFICES Rewritten
  BY <1>2, EntryWritten DEF Listed, Waiting
<1>3. ASSUME NEW value \in BOOLEAN, table' = SetConnected(table, topic, value)
      PROVE  Rewritten
  <2> DEFINE info == [old EXCEPT !.connected = value]
  <2>1. info \in TopicInfo /\ info.addresses = old.addresses
        /\ info.pendingReqs = old.pendingReqs
    BY <1>1 DEF TopicInfo
  <2>2. QED
    BY <1>3, <2>1 DEF SetConnected
<1>4. ASSUME NEW value \in BOOLEAN, table' = SetSubscribed(table, topic, value)
      PROVE  Rewritten
  <2> DEFINE info == [old EXCEPT !.subscribed = value]
  <2>1. info \in TopicInfo /\ info.addresses = old.addresses
        /\ info.pendingReqs = old.pendingReqs
    BY <1>1 DEF TopicInfo
  <2>2. QED
    BY <1>4, <2>1 DEF SetSubscribed
<1>5. ASSUME NEW value \in BOOLEAN, table' = SetRequested(table, topic, value)
      PROVE  Rewritten
  <2> DEFINE info == [old EXCEPT !.requested = value]
  <2>1. info \in TopicInfo /\ info.addresses = old.addresses
        /\ info.pendingReqs = old.pendingReqs
    BY <1>1 DEF TopicInfo
  <2>2. QED
    BY <1>5, <2>1 DEF SetRequested
<1>6. ASSUME NEW value \in BOOLEAN, table' = SetAdvertisedByMe(table, topic, value)
      PROVE  Rewritten
  <2> DEFINE info == [old EXCEPT !.advertisedByMe = value]
  <2>1. info \in TopicInfo /\ info.addresses = old.addresses
        /\ info.pendingReqs = old.pendingReqs
    BY <1>1 DEF TopicInfo
  <2>2. QED
    BY <1>6, <2>1 DEF SetAdvertisedByMe
<1>7. ASSUME NEW cb \in Callback \cup {NULL}, table' = SetCallback(table, topic, cb)
      PROVE  Rewritten
  <2> DEFINE info == [old EXCEPT !.cb = cb]
  <2>1. info \in TopicInfo /\ info.addresses = old.addresses
        /\ info.pendingReqs = old.pendingReqs
    BY <1>1 DEF TopicInfo
  <2>2. QED
    BY <1>7, <2>1 DEF SetCallback
<1>8. ASSUME NEW cb \in Callback \cup {NULL}, table' = SetReqCallback(table, topic, cb)
      PROVE  Rewritten
  <2> DEFINE info == [old EXCEPT !.reqCb = cb]
  <2>1. info \in TopicInfo /\ info.addresses = old.addresses
        /\ info.pendingReqs = old.pendingReqs
    BY <1>1 DEF TopicInfo
  <2>2. QED
    BY <1>8, <2>1 DEF SetReqCallback
<1>9. ASSUME NEW cb \in Callback \cup {NULL}, table' = SetRepCallback(table, topic, cb)
      PROVE  Rewritten
  <2> DEFINE info == [old EXCEPT !.repCb = cb]
  <2>1. info \in TopicInfo /\ info.addresses = old.addresses
        /\ info.pendingReqs = old.pendingReqs
    BY <1>1 DEF TopicInfo
  <2>2. QED
    BY <1>9, <2>1 DEF SetRepCallback
<1>10. QED
  BY <1>3, <1>4, <1>5, <1>6, <1>7, <1>8, <1>9 DEF Set

\* AddAdvAddress lists the address last, unless it is listed.
LEMMA AddAddressEffect ==
  ASSUME IsTable(table), NEW topic \in Topic, NEW address \in Address,
         AddAddress(topic, address)
  PROVE  Becomes(topic,
                 IF address \in ToSet(Listed(table, topic)) THEN Listed(table, topic)
                 ELSE Append(Listed(table, topic), address),
                 Waiting(table, topic))
<1> DEFINE old == Info(table, topic)
           list == IF HasAdvAddress(table, topic, address) THEN old.addresses
                   ELSE Append(old.addresses, address)
           info == [old EXCEPT !.addresses = list]
<1>1. list \in Seq(Address) /\ old \in TopicInfo
  BY HeldForTopic DEF Listed
<1>2. list = IF address \in ToSet(Listed(table, topic)) THEN Listed(table, topic)
             ELSE Append(Listed(table, topic), address)
  BY DEF HasAdvAddress, AdvAddresses, Listed
<1>3. table' = Insert(table, topic, info)
  BY DEF AddAddress, AddAdvAddress
<1> HIDE DEF list
<1>4. info \in TopicInfo /\ info.addresses = list /\ info.pendingReqs = old.pendingReqs
  BY <1>1 DEF TopicInfo
<1> HIDE DEF info
<1>5. QED
  BY <1>2, <1>3, <1>4, EntryWritten DEF Waiting

\* RemoveAdvAddress leaves the other addresses; when there is none the queue
\* goes with the entry.
LEMMA RemoveAddressEffect ==
  ASSUME IsTable(table), NEW topic \in Topic, NEW address \in Address,
         RemoveAddress(topic, address)
  PROVE  LET rest == Without(Listed(table, topic), address) IN
         Becomes(topic, rest, IF rest = <<>> THEN <<>> ELSE Waiting(table, topic))
<1> DEFINE old == Info(table, topic)
           rest == Without(Listed(table, topic), address)
           info == [old EXCEPT !.addresses = rest]
<1>1. rest \in Seq(Address) /\ old \in TopicInfo
  BY HeldForTopic, WithoutFacts
<1>2. table' = IF rest = <<>> THEN [known \in DOMAIN table \ {topic} |-> table[known]]
               ELSE Insert(table, topic, info)
  BY DEF RemoveAddress, RemoveAdvAddress, Listed
<1>3. CASE rest = <<>>
  <2>1. PICK known \in SUBSET Topic : table \in [known -> TopicInfo]
    BY DEF IsTable
  <2>2. table' = [k \in known \ {topic} |-> table[k]] /\ DOMAIN table = known
    BY <1>2, <1>3, <2>1
  <2>3. IsTable(table')
    BY <2>1, <2>2 DEF IsTable
  <2>4. \A t \in Topic : Info(table', t) = IF t = topic THEN NewTopicInfo ELSE Info(table, t)
    BY <2>2 DEF Info, HasTopic
  <2>5. NewTopicInfo.addresses = <<>> /\ NewTopicInfo.pendingReqs = <<>>
    BY DEF NewTopicInfo
  <2> HIDE DEF rest
  <2>6. QED
    BY <1>3, <2>3, <2>4, <2>5 DEF Becomes, Listed, Waiting, rest
<1>4. CASE rest # <<>>
  <2> HIDE DEF rest
  <2>1. info \in TopicInfo /\ info.addresses = rest /\ info.pendingReqs = old.pendingReqs
    BY <1>1 DEF TopicInfo
  <2>2. table' = Insert(table, topic, info)
    BY <1>2, <1>4
  <2> HIDE DEF info
  <2>3. Becomes(topic, rest, Waiting(table, topic))
    BY <2>1, <2>2, EntryWritten DEF Waiting
  <2>4. QED
    BY <1>4, <2>3 DEF rest
<1>5. QED
  BY <1>3, <1>4

\* AddReq puts the request at the end of the queue.
LEMMA AddEffect ==
  ASSUME IsTable(table), NEW topic \in Topic, Add(topic), added' \in Request
  PROVE  Becomes(topic, Listed(table, topic), Append(Waiting(table, topic), added'))
<1> DEFINE old == Info(table, topic)
           queue == Append(old.pendingReqs, added')
           info == [old EXCEPT !.pendingReqs = queue]
<1>1. queue \in Seq(Request) /\ old \in TopicInfo
  BY HeldForTopic DEF Waiting
<1>2. table' = Insert(table, topic, info)
  BY DEF Add, AddReq
<1>3. queue = Append(Waiting(table, topic), added')
  BY DEF Waiting
<1> HIDE DEF queue
<1>4. info \in TopicInfo /\ info.pendingReqs = queue /\ info.addresses = old.addresses
  BY <1>1 DEF TopicInfo
<1> HIDE DEF info
<1>5. QED
  BY <1>2, <1>3, <1>4, EntryWritten DEF Listed

\* DelReq takes the request at the head of the queue.
LEMMA DelEffect ==
  ASSUME IsTable(table), NEW topic \in Topic, Del(topic)
  PROVE  /\ Waiting(table, topic) # <<>>
         /\ OldestReq(table, topic) = Head(Waiting(table, topic))
         /\ Becomes(topic, Listed(table, topic), Tail(Waiting(table, topic)))
<1> DEFINE old == Info(table, topic)
           queue == Tail(old.pendingReqs)
           info == [old EXCEPT !.pendingReqs = queue]
<1>1. PendingReqs(table, topic)
  BY DEF Del
<1>2. old.pendingReqs # <<>> /\ old = table[topic]
  BY <1>1 DEF PendingReqs, Info, NewTopicInfo
<1>3. queue \in Seq(Request) /\ old \in TopicInfo
  BY <1>2, HeldForTopic DEF Waiting
<1>4. table' = Insert(table, topic, info)
  BY <1>1 DEF Del, DelReq
<1>5. queue = Tail(Waiting(table, topic))
  BY DEF Waiting
<1> HIDE DEF queue
<1>6. info \in TopicInfo /\ info.pendingReqs = queue /\ info.addresses = old.addresses
  BY <1>3 DEF TopicInfo
<1> HIDE DEF info
<1>7. Becomes(topic, Listed(table, topic), Tail(Waiting(table, topic)))
  BY <1>4, <1>5, <1>6, EntryWritten DEF Listed
<1>8. QED
  BY <1>2, <1>7 DEF OldestReq, Waiting

-----------------------------------------------------------------------------
(* The inductive invariant                                                 *)

\* The addresses of a topic are those present, none of them twice.
ListsAreExact ==
  \A t \in Topic : Distinct(Listed(table, t)) /\ ToSet(Listed(table, t)) = present[t]

\* What was handed out of a topic and what waits, in this order.
History(t) == handed[t] \o Waiting(table, t)

Sorted(seq) == \A i, j \in DOMAIN seq : i < j => seq[i] < seq[j]
Bounded(seq, n) == \A i \in DOMAIN seq : seq[i] <= n

\* No request is handed out or waits that was not added.
QueuesAreSorted ==
  \A t \in Topic : Sorted(History(t)) /\ Bounded(History(t), added)

IInv == TypeOK /\ ListsAreExact /\ QueuesAreSorted

\* The lists of a table that becomes another.
LEMMA ListsStep ==
  ASSUME IInv, NEW topic \in Topic, NEW list \in Seq(Address), NEW queue,
         Becomes(topic, list, queue), Distinct(list),
         \A t \in Topic : present'[t] = IF t = topic THEN ToSet(list) ELSE present[t]
  PROVE  ListsAreExact'
BY DEF IInv, ListsAreExact, Becomes

\* A history that loses its end, grows by a new number, or moves a number from
\* the queue to what was handed out.
LEMMA Histories ==
  ASSUME NEW S \in SUBSET Nat, NEW a \in Seq(S), NEW b \in Seq(S), NEW n \in Nat,
         Sorted(a \o b), Bounded(a \o b, n)
  PROVE  /\ Sorted(a \o <<>>) /\ Bounded(a \o <<>>, n)
         /\ n + 1 \in S =>
              Sorted(a \o Append(b, n + 1)) /\ Bounded(a \o Append(b, n + 1), n + 1)
         /\ b # <<>> => Append(a, Head(b)) \o Tail(b) = a \o b
<1>1. Sorted(a \o <<>>) /\ Bounded(a \o <<>>, n)
  <2>1. a \o <<>> = a
    OBVIOUS
  <2>2. \A i \in DOMAIN a : i \in DOMAIN (a \o b) /\ (a \o b)[i] = a[i]
    OBVIOUS
  <2>3. QED
    BY <2>1, <2>2 DEF Sorted, Bounded
<1>2. ASSUME n + 1 \in S
      PROVE  Sorted(a \o Append(b, n + 1)) /\ Bounded(a \o Append(b, n + 1), n + 1)
  <2> DEFINE old == a \o b
             new == Append(old, n + 1)
  <2>1. a \o Append(b, n + 1) = new
    BY <1>2
  <2>2. old \in Seq(S)
    OBVIOUS
  <2> HIDE DEF old
  <2>3. /\ DOMAIN new = 1..(Len(old) + 1) /\ DOMAIN old = 1..Len(old) /\ Len(old) \in Nat
        /\ \A i \in 1..Len(old) : new[i] = old[i]
        /\ new[Len(old) + 1] = n + 1
    BY <2>2
  <2>4. \A i \in DOMAIN old : old[i] <= n /\ old[i] \in Nat
    <3>1. \A i \in DOMAIN old : old[i] <= n
      BY DEF Bounded, old
    <3>2. \A i \in DOMAIN old : old[i] \in S
      BY <2>2
    <3>3. QED
      BY <3>1, <3>2
  <2>5. \A i, j \in 1..Len(old) : i < j => old[i] < old[j]
    BY <2>3 DEF Sorted, old
  <2> HIDE DEF new
  <2>6. Sorted(new)
    <3>1. SUFFICES ASSUME NEW i \in DOMAIN new, NEW j \in DOMAIN new, i < j
                   PROVE  new[i] < new[j]
      BY DEF Sorted
    <3>2. i \in 1..Len(old)
      BY <2>3, <3>1
    <3>3. CASE j = Len(old) + 1
      BY <2>3, <2>4, <3>2, <3>3
    <3>4. CASE j # Len(old) + 1
      BY <2>3, <2>5, <3>1, <3>2, <3>4
    <3>5. QED
      BY <3>3, <3>4
  <2>7. Bounded(new, n + 1)
    <3>1. SUFFICES ASSUME NEW i \in DOMAIN new PROVE new[i] <= n + 1
      BY DEF Bounded
    <3>2. QED
      BY <2>3, <2>4
  <2>8. QED
    BY <2>1, <2>6, <2>7
<1>3. ASSUME b # <<>> PROVE Append(a, Head(b)) \o Tail(b) = a \o b
  <2>1. Head(b) \in S /\ Tail(b) \in Seq(S) /\ Len(Tail(b)) = Len(b) - 1
        /\ Len(a) \in Nat /\ Len(b) \in Nat /\ Len(b) # 0
    BY <1>3
  <2> DEFINE left == Append(a, Head(b)) \o Tail(b)
             right == a \o b
  <2>2. left \in Seq(S) /\ right \in Seq(S) /\ Len(left) = Len(right)
        /\ Len(right) = Len(a) + Len(b)
    BY <2>1
  <2>3. ASSUME NEW i \in 1..Len(right) PROVE left[i] = right[i]
    BY <1>3, <2>1, <2>2
  <2> HIDE DEF left, right
  <2>4. left = right
    BY <2>2, <2>3, SeqEqual
  <2>5. QED
    BY <2>4 DEF left, right
<1>4. QED
  BY <1>1, <1>2, <1>3

\* The initial table lists nothing and owes nothing.
LEMMA InitIInv == Init => IInv
<1>1. SUFFICES ASSUME Init PROVE IInv
  OBVIOUS
<1>2. IsTable(table) /\ \A t : Info(table, t) = NewTopicInfo
  BY <1>1, EmptyTableFacts DEF Init
<1>3. \A t : Listed(table, t) = <<>> /\ Waiting(table, t) = <<>>
  BY <1>2 DEF Listed, Waiting, NewTopicInfo
<1>4. TypeOK
  BY <1>1, <1>2, RequestAssumption DEF Init, TypeOK
<1>5. ListsAreExact
  <2>1. Distinct(<<>>) /\ ToSet(<<>>) = {}
    BY DEF Distinct, ToSet
  <2>2. \A t \in Topic : present[t] = {}
    BY <1>1 DEF Init
  <2>3. QED
    BY <1>3, <2>1, <2>2 DEF ListsAreExact
<1>6. QueuesAreSorted
  <2>1. \A t \in Topic : History(t) = <<>> \o <<>>
    BY <1>1, <1>3 DEF Init, History
  <2>2. <<>> \o <<>> = <<>>
    OBVIOUS
  <2>3. QED
    BY <2>1, <2>2 DEF QueuesAreSorted, Sorted, Bounded
<1>7. QED
  BY <1>4, <1>5, <1>6 DEF IInv

\* Where neither hands out nor adds, histories lose their end at most.
LEMMA QueuesShrink ==
  ASSUME IInv, NEW topic \in Topic, NEW list,
         NEW queue \in {Waiting(table, topic), <<>>},
         Becomes(topic, list, queue), UNCHANGED <<handed, added>>
  PROVE  QueuesAreSorted'
<1>1. ASSUME NEW t \in Topic
      PROVE  Sorted(History(t)') /\ Bounded(History(t)', added)
  <2>1. /\ handed[t] \in Seq(Request) /\ Waiting(table, t) \in Seq(Request)
        /\ Request \in SUBSET Nat /\ added \in Nat
    BY HeldForTopic, RequestAssumption DEF IInv, TypeOK
  <2>2. Sorted(handed[t] \o Waiting(table, t)) /\ Bounded(handed[t] \o Waiting(table, t), added)
    BY DEF IInv, QueuesAreSorted, History
  <2>3. Sorted(handed[t] \o <<>>) /\ Bounded(handed[t] \o <<>>, added)
    BY <2>1, <2>2, Histories
  <2>4. History(t)' = handed[t] \o Waiting(table', t)
    BY DEF History
  <2>5. Waiting(table', t) = Waiting(table, t) \/ Waiting(table', t) = <<>>
    BY DEF Becomes
  <2>6. QED
    BY <2>2, <2>3, <2>4, <2>5
<1>2. QED
  BY <1>1 DEF QueuesAreSorted

\* AddAdvAddress lists the address once.
LEMMA AddAddressKeeps ==
  ASSUME IInv, NEW topic \in Topic, NEW address \in Address, AddAddress(topic, address)
  PROVE  IInv'
<1> DEFINE old == Listed(table, topic)
           list == IF address \in ToSet(old) THEN old ELSE Append(old, address)
           queue == Waiting(table, topic)
<1>1. IsTable(table) /\ present \in [Topic -> SUBSET Address]
      /\ added \in 0..MaxReq /\ handed \in [Topic -> Seq(Request)]
      /\ old \in Seq(Address) /\ queue \in Seq(Request)
  BY HeldForTopic DEF IInv, TypeOK
<1>2. Becomes(topic, list, queue)
  BY <1>1, AddAddressEffect
<1>3. /\ present' = [present EXCEPT ![topic] = @ \cup {address}]
      /\ UNCHANGED <<handed, added>>
  BY DEF AddAddress
<1>4. Distinct(old) /\ ToSet(old) = present[topic]
  BY DEF IInv, ListsAreExact
<1>5. list \in Seq(Address) /\ Distinct(list) /\ ToSet(list) = present[topic] \cup {address}
  <2>1. CASE address \in ToSet(old)
    BY <1>1, <1>4, <2>1
  <2>2. CASE address \notin ToSet(old)
    <3> HIDE DEF old
    <3>1. list = Append(old, address)
      BY <2>2
    <3>2. ToSet(list) = ToSet(old) \cup {address}
      BY <1>1, <3>1, ToSetAppend
    <3>3. \A i \in 1..Len(old) : old[i] # address
      BY <1>1, <2>2 DEF ToSet
    <3>4. Distinct(list)
      BY <1>1, <1>4, <3>1, <3>3 DEF Distinct
    <3>5. QED
      BY <1>1, <1>4, <3>1, <3>2, <3>4
  <2>3. QED
    BY <2>1, <2>2
<1> HIDE DEF list, queue
<1>6. TypeOK'
  BY <1>1, <1>2, <1>3 DEF TypeOK, Becomes
<1>7. ListsAreExact'
  <2>1. \A t \in Topic : present'[t] = IF t = topic THEN ToSet(list) ELSE present[t]
    BY <1>1, <1>3, <1>5
  <2>2. QED
    BY <1>2, <1>5, <2>1, ListsStep
<1>8. QueuesAreSorted'
  BY <1>2, <1>3, QueuesShrink DEF queue
<1>9. QED
  BY <1>6, <1>7, <1>8 DEF IInv

\* RemoveAdvAddress leaves no copy of the address.
LEMMA RemoveAddressKeeps ==
  ASSUME IInv, NEW topic \in Topic, NEW address \in Address, RemoveAddress(topic, address)
  PROVE  IInv'
<1> DEFINE old == Listed(table, topic)
           list == Without(old, address)
           queue == IF list = <<>> THEN <<>> ELSE Waiting(table, topic)
<1>1. IsTable(table) /\ present \in [Topic -> SUBSET Address]
      /\ added \in 0..MaxReq /\ handed \in [Topic -> Seq(Request)]
      /\ old \in Seq(Address)
  BY HeldForTopic DEF IInv, TypeOK
<1>2. Becomes(topic, list, queue)
  BY <1>1, RemoveAddressEffect
<1>3. /\ present' = [present EXCEPT ![topic] = @ \ {address}]
      /\ UNCHANGED <<handed, added>>
  BY DEF RemoveAddress
<1>4. Distinct(old) /\ ToSet(old) = present[topic]
  BY DEF IInv, ListsAreExact
<1>5. list \in Seq(Address) /\ Distinct(list) /\ ToSet(list) = present[topic] \ {address}
  BY <1>1, <1>4, WithoutFacts
<1>6. queue \in {Waiting(table, topic), <<>>}
  OBVIOUS
<1> HIDE DEF list, queue
<1>7. TypeOK'
  BY <1>1, <1>2, <1>3 DEF TypeOK, Becomes
<1>8. ListsAreExact'
  <2>1. \A t \in Topic : present'[t] = IF t = topic THEN ToSet(list) ELSE present[t]
    BY <1>1, <1>3, <1>5
  <2>2. QED
    BY <1>2, <1>5, <2>1, ListsStep
<1>9. QueuesAreSorted'
  BY <1>2, <1>3, <1>6, QueuesShrink
<1>10. QED
  BY <1>7, <1>8, <1>9 DEF IInv

\* The setters disturb neither lists nor queues.
LEMMA SetKeeps ==
  ASSUME IInv, NEW topic \in Topic, Set(topic)
  PROVE  IInv'
<1>1. IsTable(table) /\ ListsAreExact
      /\ Listed(table, topic) \in Seq(Address)
  BY HeldForTopic DEF IInv, TypeOK
<1>2. Becomes(topic, Listed(table, topic), Waiting(table, topic))
  BY <1>1, SetEffect
<1>3. UNCHANGED <<present, added, handed>>
  BY DEF Set
<1>4. TypeOK'
  BY <1>2, <1>3 DEF IInv, TypeOK, Becomes
<1>5. ListsAreExact'
  BY <1>1, <1>2, <1>3 DEF ListsAreExact, Becomes
<1>6. QueuesAreSorted'
  BY <1>2, <1>3, QueuesShrink
<1>7. QED
  BY <1>4, <1>5, <1>6 DEF IInv

\* AddReq adds a number above all that were added before.
LEMMA AddKeeps ==
  ASSUME IInv, NEW topic \in Topic, Add(topic)
  PROVE  IInv'
<1> DEFINE new == added + 1
<1>1. /\ IsTable(table) /\ ListsAreExact /\ added \in Nat /\ Request \in SUBSET Nat
      /\ added' = new /\ new \in Request /\ new \in 0..MaxReq /\ new \in Nat
  BY RequestAssumption DEF IInv, TypeOK, Add
<1>2. Becomes(topic, Listed(table, topic), Append(Waiting(table, topic), new))
  BY <1>1, AddEffect
<1>3. UNCHANGED <<present, handed>>
  BY DEF Add
<1> HIDE DEF new
<1>4. TypeOK'
  BY <1>1, <1>2, <1>3 DEF IInv, TypeOK, Becomes
<1>5. ListsAreExact'
  BY <1>1, <1>2, <1>3 DEF ListsAreExact, Becomes
<1>6. ASSUME NEW t \in Topic
      PROVE  Sorted(History(t)') /\ Bounded(History(t)', new)
  <2> DEFINE a == handed[t]
             b == Waiting(table, t)
  <2>1. a \in Seq(Request) /\ b \in Seq(Request) /\ Sorted(a \o b) /\ Bounded(a \o b, added)
    BY <1>1, HeldForTopic DEF IInv, TypeOK, QueuesAreSorted, History
  <2>2. Sorted(a \o Append(b, new)) /\ Bounded(a \o Append(b, new), new)
    BY <1>1, <2>1, Histories DEF new
  <2>3. CASE t = topic
    <3>1. History(t)' = a \o Append(b, new)
      BY <1>2, <1>3, <2>3 DEF History, Becomes
    <3>2. QED
      BY <2>2, <3>1
  <2>4. CASE t # topic
    <3>1. History(t)' = a \o b
      BY <1>2, <1>3, <2>4 DEF History, Becomes
    <3>2. Bounded(a \o b, new)
      <4> DEFINE c == a \o b
      <4>1. c \in Seq(Request)
        BY <2>1
      <4> HIDE DEF c
      <4>2. \A i \in DOMAIN c : c[i] <= added /\ c[i] \in Nat
        <5>1. \A i \in DOMAIN c : c[i] <= added
          BY <2>1 DEF Bounded, c
        <5>2. \A i \in DOMAIN c : c[i] \in Request
          BY <4>1
        <5>3. QED
          BY <1>1, <5>1, <5>2
      <4>3. \A i \in DOMAIN c : c[i] <= new
        BY <1>1, <4>2 DEF new
      <4>4. QED
        BY <4>3 DEF Bounded, c
    <3>3. QED
      BY <2>1, <3>1, <3>2
  <2>5. QED
    BY <2>3, <2>4
<1>7. QueuesAreSorted'
  BY <1>1, <1>6 DEF QueuesAreSorted
<1>8. QED
  BY <1>4, <1>5, <1>7 DEF IInv

\* DelReq moves a request from what waits to what was handed out.
LEMMA DelKeeps ==
  ASSUME IInv, NEW topic \in Topic, Del(topic)
  PROVE  IInv'
<1> DEFINE b == Waiting(table, topic)
<1>1. /\ IsTable(table) /\ ListsAreExact /\ b \in Seq(Request)
      /\ handed \in [Topic -> Seq(Request)] /\ Request \in SUBSET Nat /\ added \in Nat
  BY HeldForTopic, RequestAssumption DEF IInv, TypeOK
<1>2. /\ b # <<>> /\ OldestReq(table, topic) = Head(b)
      /\ Becomes(topic, Listed(table, topic), Tail(b))
  BY <1>1, DelEffect
<1>3. /\ UNCHANGED <<present, added>>
      /\ handed' = [handed EXCEPT ![topic] = Append(@, Head(b))]
  BY <1>2 DEF Del
<1>4. Head(b) \in Request
  BY <1>1, <1>2
<1>5. TypeOK'
  <2>1. handed' \in [Topic -> Seq(Request)]
    BY <1>1, <1>3, <1>4
  <2>2. QED
    BY <1>2, <1>3, <2>1 DEF IInv, TypeOK, Becomes
<1>6. ListsAreExact'
  BY <1>1, <1>2, <1>3 DEF ListsAreExact, Becomes
<1>7. ASSUME NEW t \in Topic PROVE History(t)' = History(t)
  <2>1. CASE t = topic
    <3>1. handed[t] \in Seq(Request) /\ Sorted(handed[t] \o b) /\ Bounded(handed[t] \o b, added)
      BY <1>1, <2>1 DEF IInv, QueuesAreSorted, History
    <3>2. Append(handed[t], Head(b)) \o Tail(b) = handed[t] \o b
      BY <1>1, <1>2, <3>1, Histories
    <3>3. handed'[t] = Append(handed[t], Head(b)) /\ Waiting(table', t) = Tail(b)
      BY <1>1, <1>2, <1>3, <2>1 DEF Becomes
    <3>4. QED
      BY <2>1, <3>2, <3>3 DEF History
  <2>2. CASE t # topic
    BY <1>1, <1>2, <1>3, <2>2 DEF History, Becomes
  <2>3. QED
    BY <2>1, <2>2
<1>8. QueuesAreSorted'
  BY <1>3, <1>7 DEF IInv, QueuesAreSorted
<1>9. QED
  BY <1>5, <1>6, <1>8 DEF IInv

\* Every call keeps the invariant, and so does none.
LEMMA NextIInv == IInv /\ [Next]_vars => IInv'
<1>1. SUFFICES ASSUME IInv, [Next]_vars PROVE IInv'
  OBVIOUS
<1>2. CASE UNCHANGED vars
  BY <1>1, <1>2 DEF vars, IInv, TypeOK, ListsAreExact, QueuesAreSorted, History
<1>3. ASSUME NEW topic \in Topic, DelNothing(topic) PROVE IInv'
  <2>1. UNCHANGED vars
    BY <1>3 DEF DelNothing, DelReq, vars
  <2>2. QED
    BY <1>1, <2>1 DEF vars, IInv, TypeOK, ListsAreExact, QueuesAreSorted, History
<1>4. QED
  BY <1>1, <1>2, <1>3, AddAddressKeeps, RemoveAddressKeeps, SetKeeps, AddKeeps,
     DelKeeps DEF Next

-----------------------------------------------------------------------------
(* Theorems                                                                *)

\* The inductive invariant holds in every state.
THEOREM InductiveInvariant == Spec => []IInv
BY InitIInv, NextIInv, PTL DEF Spec

\* The object stays a table of TopicInfo, whatever is called.
THEOREM TypeCorrect == Spec => []TypeOK
<1>1. IInv => TypeOK
  BY DEF IInv
<1>2. QED
  BY <1>1, InductiveInvariant, PTL

\* Whatever was added, removed and added again, the addresses of a topic are
\* those added last and not removed, each once.
THEOREM AddressesExact == Spec => []AddressesAreThosePresent
<1>1. ASSUME IInv PROVE AddressesAreThosePresent
  <2>1. SUFFICES ASSUME NEW t \in Topic
                 PROVE  /\ AdvAddresses(table, t) = present[t]
                        /\ Len(Info(table, t).addresses) = Cardinality(present[t])
    BY DEF AddressesAreThosePresent
  <2> DEFINE list == Listed(table, t)
  <2>2. list \in Seq(Address) /\ Distinct(list) /\ ToSet(list) = present[t]
    BY <1>1, HeldForTopic DEF IInv, TypeOK, ListsAreExact
  <2>3. list = Info(table, t).addresses
    BY DEF Listed
  <2> HIDE DEF list
  <2>4. Len(list) \in Nat /\ DOMAIN list = 1..Len(list)
    BY <2>2
  <2>5. list \in Bijection(1..Len(list), ToSet(list))
    <3>1. list \in [1..Len(list) -> ToSet(list)]
      BY <2>2, <2>4 DEF ToSet
    <3>2. \A x \in ToSet(list) : \E i \in 1..Len(list) : list[i] = x
      BY <2>4 DEF ToSet
    <3>3. \A i, j \in 1..Len(list) : list[i] = list[j] => i = j
      BY <2>2, <2>4 DEF Distinct
    <3>4. QED
      BY <3>1, <3>2, <3>3 DEF Bijection, Injection, Surjection, IsInjective
  <2>6. Cardinality(ToSet(list)) = Len(list)
    BY <2>4, <2>5, FS_CountingElements DEF ExistsBijection
  <2>7. QED
    BY <2>2, <2>3, <2>6 DEF AdvAddresses
<1>2. QED
  BY <1>1, InductiveInvariant, PTL

\* What DelReq hands out of a topic is older than what waits, and nothing is
\* handed out twice.
THEOREM QueuesInOrder == Spec => []RequestsInOrder
<1>1. IInv => RequestsInOrder
  BY DEF IInv, QueuesAreSorted, History, Waiting, Sorted, RequestsInOrder
<1>2. QED
  BY <1>1, InductiveInvariant, PTL

-----------------------------------------------------------------------------
(* The linked lists                                                        *)

\* A set of natural numbers has a least one.
LEMMA Least ==
  ASSUME NEW S, S \subseteq Nat, S # {}
  PROVE  \E x \in S : \A y \in S : x <= y
<1> DEFINE below == OpToRel(<, Nat)
<1>1. \A x, y \in Nat : x < y => <<x, y>> \in below
  BY DEF OpToRel
<1>2. IsWellFoundedOn(below, Nat)
  BY NatLessThanWellFounded
<1> HIDE DEF below
<1>3. PICK x \in S : \A y \in S : <<y, x>> \notin below
  BY ONLY S \subseteq Nat, S # {}, <1>2, WFMin
<1>4. ASSUME NEW y \in S PROVE x <= y
  <2>1. x \in Nat /\ y \in Nat /\ ~(y < x)
    BY <1>1, <1>3
  <2>2. QED
    BY <2>1
<1>5. QED
  BY <1>4

\* The least number of a set, as module FiniteSetsExt defines it.
LEMMA MinFacts ==
  ASSUME NEW S, S \subseteq Nat, S # {}
  PROVE  Min(S) \in S /\ \A y \in S : Min(S) <= y
<1>1. \E x \in S : \A y \in S : x <= y
  BY Least
<1>2. QED
  BY <1>1 DEF Min

\* What a sequence is without the element at index k.
LEMMA RemoveAtFacts ==
  ASSUME NEW S, NEW list \in Seq(S), NEW k \in 1..Len(list)
  PROVE  /\ RemoveAt(list, k) \in Seq(S)
         /\ Len(RemoveAt(list, k)) = Len(list) - 1
         /\ \A i \in 1..(Len(list) - 1) :
               RemoveAt(list, k)[i] = IF i < k THEN list[i] ELSE list[i + 1]
<1> DEFINE front == SubSeq(list, 1, k - 1)
           back == SubSeq(list, k + 1, Len(list))
<1>1. Len(list) \in Nat /\ k \in Nat /\ 1 <= k /\ k <= Len(list)
  OBVIOUS
<1>2. /\ front \in Seq(S) /\ Len(front) = k - 1
      /\ \A i \in 1..(k - 1) : front[i] = list[i]
  BY <1>1
<1>3. /\ back \in Seq(S) /\ Len(back) = Len(list) - k
      /\ \A i \in 1..(Len(list) - k) : back[i] = list[k + i]
  BY <1>1
<1> HIDE DEF front, back
<1>4. RemoveAt(list, k) = front \o back
  BY DEF RemoveAt, front, back
<1>5. front \o back \in Seq(S) /\ Len(front \o back) = Len(list) - 1
  <2>1. /\ front \o back \in Seq(S)
        /\ Len(front \o back) = Len(front) + Len(back)
    BY <1>2, <1>3, ConcatProperties
  <2>2. QED
    BY <1>1, <1>2, <1>3, <2>1
<1>6. ASSUME NEW i \in 1..(Len(list) - 1)
      PROVE  (front \o back)[i] = IF i < k THEN list[i] ELSE list[i + 1]
  <2>1. CASE i < k
    BY <1>1, <1>2, <1>3, <2>1
  <2>2. CASE ~(i < k)
    <3>1. i - (k - 1) \in 1..(Len(list) - k) /\ k + (i - (k - 1)) = i + 1
      BY <1>1, <2>2
    <3>2. (front \o back)[i] = back[i - (k - 1)]
      BY <1>1, <1>2, <1>3, <2>2, <3>1
    <3>3. QED
      BY <1>3, <2>2, <3>1, <3>2
  <2>3. QED
    BY <2>1, <2>2
<1>7. QED
  BY <1>4, <1>5, <1>6

-----------------------------------------------------------------------------
(* The walk                                                                *)

\* The cells in order, as numbers.
LEMMA CellFacts ==
  ASSUME ListTypeOK, InOrder
  PROVE  /\ Len(in_order) \in Nat /\ Len(name) \in Nat /\ Len(name) <= MaxCells
         /\ Len(in_order) <= Len(name) /\ 0 \notin live
         /\ \A i \in 1..Len(in_order) :
               in_order[i] \in live /\ in_order[i] \in 1..Len(name)
         /\ \A cell \in live : \E i \in 1..Len(in_order) : cell = in_order[i]
         /\ \A i, j \in 1..Len(in_order) : in_order[i] = in_order[j] => i = j
<1>1. /\ in_order \in Seq(1..Len(name)) /\ Len(name) \in Nat /\ Len(name) <= MaxCells
      /\ DOMAIN name = 1..Len(name)
  BY DEF ListTypeOK
<1>2. /\ Len(in_order) \in Nat /\ DOMAIN in_order = 1..Len(in_order)
      /\ \A i \in 1..Len(in_order) : in_order[i] \in 1..Len(name)
  BY <1>1
<1>3. live = {in_order[i] : i \in 1..Len(in_order)}
  BY <1>2 DEF InOrder, ToSet
<1>4. ASSUME NEW i \in 1..Len(in_order), NEW j \in 1..Len(in_order),
             in_order[i] = in_order[j]
      PROVE  i = j
  <2>1. ~(i < j) /\ ~(j < i)
    BY <1>2, <1>4 DEF InOrder
  <2>2. QED
    BY <1>2, <2>1
<1>5. 0 \notin live
  BY <1>1, <1>2, <1>3
<1>6. QED
  BY <1>1, <1>2, <1>3, <1>4, <1>5 DEF InOrder

\* What a walk has met after k steps: the cells, then the null pointer.
Met(k) ==
  [i \in 1..(IF k < Len(in_order) THEN k + 1 ELSE Len(in_order) + 1) |->
     IF i <= Len(in_order) THEN in_order[i] ELSE 0]

\* One step of a walk, from what it has met.
Onward(met) == IF Last(met) \in live THEN Append(met, next[Last(met)]) ELSE met

\* A step meets the next cell, and none behind the null pointer.
LEMMA MetStep ==
  ASSUME ListTypeOK, InOrder, Linked, NEW k \in 1..MaxCells
  PROVE  Met(k) = Onward(Met(k - 1))
<1> DEFINE size == Len(in_order)
           met == Met(k - 1)
           m == IF k <= size THEN k ELSE size + 1
<1>1. size \in Nat /\ k \in Nat /\ k >= 1 /\ m \in Nat
  BY CellFacts, MaxCellsAssumption
<1>2. met = [i \in 1..m |-> IF i <= size THEN in_order[i] ELSE 0]
  <2>1. m = IF k - 1 < size THEN (k - 1) + 1 ELSE size + 1
    BY <1>1
  <2>2. QED
    BY <2>1 DEF Met
<1>3. \A i \in 1..m : met[i] \in Nat
  BY <1>1, <1>2, CellFacts
<1>4. met \in Seq(Nat) /\ Len(met) = m
  <2>1. met \in [1..m -> Nat]
    BY <1>2, <1>3
  <2>2. QED
    BY <1>1, <2>1
<1>5. Last(met) = IF m <= size THEN in_order[m] ELSE 0
  BY <1>1, <1>2, <1>4 DEF Last
<1> HIDE DEF met
<1>6. CASE k <= size
  <2>1. m = k /\ Last(met) = in_order[k] /\ k \in 1..size
    BY <1>1, <1>5, <1>6
  <2>2. Last(met) \in live /\ next[Last(met)] = IF k = size THEN 0 ELSE in_order[k + 1]
    BY <2>1, CellFacts DEF Linked
  <2> DEFINE x == next[Last(met)]
  <2>3. Onward(met) = Append(met, x)
    BY <2>2 DEF Onward
  <2>4. Append(met, x) = [i \in 1..(k + 1) |-> IF i = k + 1 THEN x ELSE met[i]]
    <3>1. x \in Nat /\ Len(met) = k
      BY <1>1, <1>4, <2>1, <2>2, CellFacts
    <3> HIDE DEF x
    <3>2. /\ Append(met, x) \in Seq(Nat) /\ Len(Append(met, x)) = k + 1
          /\ \A i \in 1..k : Append(met, x)[i] = met[i]
          /\ Append(met, x)[k + 1] = x
      BY <1>1, <1>4, <3>1, AppendProperties
    <3>3. \A i \in 1..(k + 1) : i = k + 1 \/ (i \in 1..k /\ i # k + 1)
      BY <1>1
    <3>4. Append(met, x) = [i \in 1..(k + 1) |-> Append(met, x)[i]]
      <4> DEFINE longer == Append(met, x)
      <4>1. longer \in Seq(Nat) /\ Len(longer) = k + 1
        BY <3>2
      <4> HIDE DEF longer
      <4>2. longer \in [1..(k + 1) -> Nat]
        BY <4>1
      <4>3. longer = [i \in 1..(k + 1) |-> longer[i]]
        BY <4>2
      <4>4. QED
        BY <4>3 DEF longer
    <3>5. QED
      BY <3>2, <3>3, <3>4
  <2> HIDE DEF x
  <2>5. Met(k) = [i \in 1..(k + 1) |-> IF i <= size THEN in_order[i] ELSE 0]
    BY <1>1, <1>6 DEF Met
  <2>6. ASSUME NEW i \in 1..(k + 1)
        PROVE  (IF i = k + 1 THEN x ELSE met[i]) = IF i <= size THEN in_order[i] ELSE 0
    BY <1>1, <1>2, <1>6, <2>1, <2>2 DEF x
  <2>7. QED
    BY <2>3, <2>4, <2>5, <2>6 DEF met
<1>7. CASE ~(k <= size)
  <2>1. Last(met) \notin live /\ Onward(met) = met
    BY <1>1, <1>5, <1>7, CellFacts DEF Onward
  <2>2. Met(k) = met
    BY <1>1, <1>2, <1>7 DEF Met
  <2>3. QED
    BY <2>1, <2>2 DEF met
<1>8. QED
  BY <1>1, <1>6, <1>7

\* What Visited computes: induction on the steps, by the first one that is not
\* as Met has it.
LEMMA VisitedIs ==
  ASSUME ListTypeOK, InOrder, Linked, live # {}
  PROVE  \A k \in 0..MaxCells : Visited[k] = Met(k)
<1> DEFINE Body(f) == [n \in 0..MaxCells |->
                         IF n = 0 THEN <<first>> ELSE Onward(f[n - 1])]
           met == [k \in 0..MaxCells |-> Met(k)]
<1>1. Met(0) = <<first>>
  <2>1. Len(in_order) \in Nat /\ Len(in_order) # 0
    BY CellFacts
  <2>2. first = in_order[1]
    BY <2>1 DEF Linked
  <2>3. Met(0) = [i \in 1..1 |-> in_order[1]]
    BY <2>1 DEF Met
  <2>4. QED
    BY <2>2, <2>3
<1>2. met = Body(met)
  <2>1. ASSUME NEW k \in 0..MaxCells PROVE met[k] = Body(met)[k]
    <3>1. CASE k = 0
      BY <1>1, <3>1
    <3>2. CASE k # 0
      <4>1. k \in 1..MaxCells /\ k - 1 \in 0..MaxCells
        BY <3>2, MaxCellsAssumption
      <4>2. QED
        BY <3>2, <4>1, MetStep
    <3>3. QED
      BY <3>1, <3>2
  <2>2. QED
    BY <2>1
<1>3. Visited = CHOOSE f : f = Body(f)
  BY DEF Visited, Onward
<1>4. Visited = Body(Visited)
  <2> HIDE DEF Body, met
  <2>1. QED
    BY <1>2, <1>3
<1>5. ASSUME NEW k \in 0..MaxCells
      PROVE  Visited[k] = IF k = 0 THEN <<first>> ELSE Onward(Visited[k - 1])
  BY <1>4
<1> DEFINE wrong == {k \in 0..MaxCells : Visited[k] # Met(k)}
<1>6. wrong = {}
  <2> SUFFICES ASSUME wrong # {} PROVE FALSE
    OBVIOUS
  <2>1. wrong \subseteq Nat
    BY MaxCellsAssumption
  <2>2. PICK k \in wrong : \A j \in wrong : k <= j
    <3> HIDE DEF wrong
    <3>1. QED
      BY <2>1, Least
  <2>3. k \in 1..MaxCells /\ k - 1 \in 0..MaxCells /\ ~(k <= k - 1)
    BY <1>1, <1>5, <2>2, MaxCellsAssumption
  <2>4. Visited[k - 1] = Met(k - 1)
    BY <2>2, <2>3
  <2>5. QED
    BY <1>5, <2>2, <2>3, <2>4, MetStep
<1>7. QED
  BY <1>6

\* A walk meets the cells in order and then the null pointer.
LEMMA WalkIs ==
  ASSUME ListTypeOK, InOrder, Linked, live # {}
  PROVE  Walk = in_order \o <<0>> /\ Cells = in_order
<1> DEFINE size == Len(in_order)
<1>1. size \in Nat /\ size <= MaxCells /\ size >= 1 /\ MaxCells \in 0..MaxCells
  BY CellFacts, MaxCellsAssumption
<1>2. Walk = [i \in 1..(size + 1) |-> IF i <= size THEN in_order[i] ELSE 0]
  <2>1. Walk = Met(MaxCells)
    BY <1>1, VisitedIs DEF Walk
  <2>2. QED
    BY <1>1, <2>1, MaxCellsAssumption DEF Met
<1>3. in_order \in Seq(Nat)
  <2>1. in_order \in Seq(DOMAIN name) /\ DOMAIN name \subseteq Nat
    BY DEF ListTypeOK
  <2>2. QED
    BY <2>1
<1>4. in_order \o <<0>> = Walk
  BY <1>1, <1>2, <1>3
<1>5. Walk \in Seq(Nat) /\ Len(Walk) = size + 1 /\ Walk[size + 1] = 0
  BY <1>1, <1>2, <1>3, <1>4
<1>6. Cells = SubSeq(Walk, 1, size)
  BY <1>1, <1>5, CellFacts DEF Cells, Last, Front
<1>7. \A i \in 1..size : Walk[i] = in_order[i]
  BY <1>1, <1>2
<1>8. SubSeq(Walk, 1, size) = in_order
  BY <1>1, <1>3, <1>5, <1>7
<1>9. QED
  BY <1>4, <1>6, <1>8

-----------------------------------------------------------------------------
(* What the invariant implies                                              *)

\* A search finds a cell that is no younger than any with its key.
LEMMA OldestIsFound ==
  ASSUME ListTypeOK, InOrder, Linked, NEW cell \in live
  PROVE  in_list(name[cell]) \in 1..cell
<1> DEFINE found == {i \in DOMAIN Cells : name[Cells[i]] = name[cell]}
<1>1. Cells = in_order /\ DOMAIN in_order = 1..Len(in_order)
  BY WalkIs DEF ListTypeOK
<1>2. PICK k \in 1..Len(in_order) : cell = in_order[k]
  BY CellFacts
<1>3. found \subseteq 1..Len(in_order) /\ found \subseteq Nat /\ k \in found
  BY <1>1, <1>2
<1>4. in_list(name[cell]) = in_order[Min(found)]
  BY <1>1, <1>3 DEF in_list
<1> HIDE DEF found
<1>5. Min(found) \in 1..Len(in_order) /\ Min(found) <= k
  BY <1>3, MinFacts
<1>6. in_order[Min(found)] \in Nat /\ in_order[Min(found)] >= 1 /\ cell \in Nat
  BY <1>2, <1>5, CellFacts
<1>7. Min(found) = k \/ Min(found) < k
  BY <1>5
<1>8. in_order[Min(found)] <= cell
  BY <1>2, <1>5, <1>6, <1>7 DEF InOrder
<1>9. QED
  BY <1>4, <1>6, <1>8

\* A list that no end was removed from is in use as long as it has a cell.
LEMMA LiveInUse ==
  ASSUME ListInv, ~lost, live # {}
  PROVE  fate = "used"
<1>1. live \subseteq DOMAIN name /\ fate \in {"used", "destroyed", "append", "destroy"}
  BY DEF ListInv, ListTypeOK
<1>2. name # <<>>
  BY <1>1
<1>3. QED
  BY <1>1, <1>2 DEF ListInv, OnlyLostEndsAreMisused

\* The invariant implies what the runs check.
LEMMA ListIsRight == ListInv => ListHoldsItsCells
<1> SUFFICES ASSUME ListInv, ~lost, live # {}
             PROVE  /\ Walk = in_order \o <<0>>
                    /\ last = Last(in_order)
                    /\ \A i \in DOMAIN in_order :
                          prev[in_order[i]] = (<<0>> \o in_order)[i]
                    /\ \A cell \in live : in_list(name[cell]) \in 1..cell
  BY DEF ListHoldsItsCells
<1>1. ListTypeOK /\ InOrder /\ Linked
  BY LiveInUse DEF ListInv
<1> DEFINE size == Len(in_order)
<1>2. size \in Nat /\ size # 0 /\ in_order \in Seq(Nat) /\ DOMAIN in_order = 1..size
  BY <1>1, CellFacts DEF ListTypeOK
<1>3. last = Last(in_order)
  BY <1>1, <1>2 DEF Linked, Last
<1>4. ASSUME NEW i \in 1..size PROVE prev[in_order[i]] = (<<0>> \o in_order)[i]
  <2>1. prev[in_order[i]] = IF i = 1 THEN 0 ELSE in_order[i - 1]
    BY <1>1 DEF Linked
  <2>2. <<0>> \in Seq(Nat) /\ Len(<<0>>) = 1 /\ <<0>>[1] = 0
    OBVIOUS
  <2>3. (<<0>> \o in_order)[i] = IF i <= 1 THEN <<0>>[i] ELSE in_order[i - 1]
    BY <1>2, <2>2, ConcatProperties
  <2>4. QED
    BY <2>1, <2>2, <2>3
<1>5. QED
  BY <1>1, <1>2, <1>3, <1>4, WalkIs, OldestIsFound

-----------------------------------------------------------------------------
(* The operations                                                          *)

\* A new cell: InOrder and Linked after an append, for any list in use.
LEMMA AppendStep ==
  ASSUME ListInv, fate = "used", NEW key \in Key, append(key)
  PROVE  ListInv'
<1> DEFINE size == Len(in_order)
           n == Len(name)
<1>1. ListTypeOK /\ InOrder /\ (lost \/ Linked)
  BY DEF ListInv
<1>0. size \in Nat /\ n \in Nat /\ size <= n
  BY <1>1, CellFacts
<1>2. /\ n \in Nat /\ size \in Nat /\ size <= n /\ New = n + 1 /\ New <= MaxCells
      /\ in_order \in Seq(1..n) /\ DOMAIN name = 1..n /\ MaxCells \in Nat
      /\ name \in Seq(Key) /\ next \in Seq(0..MaxCells) /\ prev \in Seq(0..MaxCells)
      /\ Len(next) = n /\ Len(prev) = n
      /\ first \in 0..n /\ last \in 0..n
  BY <1>1, MaxCellsAssumption DEF append, New, ListTypeOK, InOrder
<1>3. /\ name' \in Seq(Key) /\ Len(name') = n + 1 /\ DOMAIN name' = 1..(n + 1)
  BY <1>2 DEF append
<1>4. /\ in_order' = Append(in_order, n + 1) /\ in_order' \in Seq(1..(n + 1))
      /\ Len(in_order') = size + 1 /\ in_order'[size + 1] = n + 1
      /\ \A i \in 1..size : in_order'[i] = in_order[i] /\ in_order[i] \in 1..n
  <2>1. in_order \in Seq(1..(n + 1)) /\ n + 1 \in 1..(n + 1)
    BY <1>2
  <2>2. in_order' = Append(in_order, n + 1)
    BY <1>2 DEF append
  <2>3. \A i \in 1..size : in_order[i] \in 1..n
    BY <1>2, ElementOfSeq
  <2> HIDE DEF n
  <2>4. QED
    BY <2>1, <2>2, <2>3, AppendProperties
<1>5. live' = live \cup {n + 1} /\ lost' = lost /\ last' = n + 1
  BY <1>2 DEF append
<1>6. InOrder'
  <2>1. live' = ToSet(in_order')
    <3>1. DOMAIN in_order = 1..size /\ DOMAIN in_order' = 1..(size + 1)
      BY <1>2, <1>4
    <3>2. live = {in_order[i] : i \in 1..size}
      BY <1>1, <3>1 DEF InOrder, ToSet
    <3>3. \A i : i \in 1..(size + 1) <=> i \in 1..size \/ i = size + 1
      <4> HIDE DEF size, n
      <4>1. QED
        BY <1>0
    <3>4. QED
      BY <1>4, <1>5, <3>1, <3>2, <3>3 DEF ToSet
  <2>2. ASSUME NEW i \in 1..(size + 1), NEW j \in 1..(size + 1), i < j
        PROVE  in_order'[i] < in_order'[j]
    <3> HIDE DEF size, n
    <3>1. i \in 1..size /\ (j = size + 1 \/ j \in 1..size)
      BY <1>0, <2>2
    <3>2. CASE j = size + 1
      <4>1. in_order'[i] \in 1..n /\ in_order'[j] = n + 1
        BY <1>4, <3>1, <3>2
      <4>2. QED
        BY <1>0, <4>1
    <3>3. CASE j \in 1..size
      BY <1>1, <1>4, <2>2, <3>1, <3>3 DEF InOrder, size
    <3>4. QED
      BY <3>1, <3>2, <3>3
  <2>3. size + 1 <= n + 1
    BY <1>0
  <2> HIDE DEF size, n
  <2>4. QED
    BY <1>3, <1>4, <2>1, <2>2, <2>3 DEF InOrder
<1>7. CASE last = 0 /\ first = 0
  <2>1. /\ prev' = Append(prev, 0) /\ next' = Append(next, 0)
        /\ first' = n + 1 /\ fate' = fate
    BY <1>2, <1>7 DEF append
  <2>2. ListTypeOK'
    BY <1>1, <1>2, <1>3, <1>4, <1>5, <2>1 DEF ListTypeOK
  <2>3. ASSUME ~lost PROVE Linked'
    <3>1. size = 0 /\ name = <<>>
      BY <1>1, <1>2, <1>4, <1>7, <2>3 DEF Linked
    <3>2. n = 0 /\ next'[1] = 0 /\ prev'[1] = 0
      BY <1>2, <2>1, <3>1
    <3>3. QED
      BY <1>3, <1>4, <1>5, <2>1, <3>1, <3>2 DEF Linked
  <2>4. QED
    BY <1>1, <1>5, <1>6, <2>1, <2>2, <2>3 DEF ListInv, OnlyLostEndsAreMisused
<1>8. CASE ~(last = 0 /\ first = 0)
  <2>1. /\ prev' = Append(prev, last) /\ next' = Append([next EXCEPT ![last] = n + 1], 0)
        /\ fate' = (IF last \in live THEN fate ELSE "append") /\ first' = first
    BY <1>2, <1>8 DEF append
  <2> DEFINE linked == [next EXCEPT ![last] = n + 1]
  <2>2. linked \in Seq(0..MaxCells) /\ Len(linked) = n
        /\ \A i \in 1..n : linked[i] = IF i = last THEN n + 1 ELSE next[i]
    <3>1. n + 1 \in 0..MaxCells /\ next \in Seq(0..MaxCells) /\ Len(next) = n
          /\ DOMAIN next = 1..n
      BY <1>2
    <3> HIDE DEF n
    <3>2. DOMAIN linked = 1..n
          /\ \A i \in 1..n : linked[i] = IF i = last THEN n + 1 ELSE next[i]
      BY <3>1
    <3>3. \A i \in 1..n : next[i] \in 0..MaxCells
      BY <3>1, ElementOfSeq
    <3>4. linked \in [1..n -> 0..MaxCells]
      BY <3>1, <3>2, <3>3
    <3> HIDE DEF linked
    <3>5. linked \in Seq(0..MaxCells)
      BY <1>0, <3>4, SeqDef
    <3>6. Len(linked) = n
      BY <1>0, <3>2, <3>5, LenProperties
    <3>7. QED
      BY <3>2, <3>5, <3>6
  <2> HIDE DEF linked
  <2>3. /\ next' \in Seq(0..MaxCells) /\ Len(next') = n + 1 /\ next'[n + 1] = 0
        /\ \A i \in 1..n : next'[i] = linked[i]
    <3>1. next' = Append(linked, 0) /\ 0 \in 0..MaxCells
      BY <1>2, <2>1 DEF linked
    <3>2. QED
      BY <2>2, <3>1, AppendProperties
  <2>4. /\ prev' \in Seq(0..MaxCells) /\ Len(prev') = n + 1 /\ prev'[n + 1] = last
        /\ \A i \in 1..n : prev'[i] = prev[i]
    <3>1. last \in 0..MaxCells
      BY <1>2
    <3>2. QED
      BY <1>2, <2>1, <3>1, AppendProperties
  <2>5. ListTypeOK'
    <3>1. live' \subseteq 1..(n + 1)
      BY <1>0, <1>1, <1>2, <1>5 DEF ListTypeOK
    <3>2. first' \in 0..(n + 1) /\ last' \in 0..(n + 1) /\ n + 1 <= MaxCells
      BY <1>0, <1>2, <1>5, <2>1
    <3>3. lost' \in BOOLEAN /\ fate' \in {"used", "append"}
      BY <1>1, <1>5, <2>1 DEF ListTypeOK
    <3> HIDE DEF n
    <3>4. QED
      BY <1>3, <1>4, <2>3, <2>4, <3>1, <3>2, <3>3 DEF ListTypeOK
  <2>6. ASSUME ~lost PROVE Linked' /\ fate' = fate
    <3>1. size # 0 /\ last = in_order[size] /\ first = in_order[1]
      BY <1>1, <1>2, <1>8, <2>6 DEF Linked
    <3>2. last \in live
      <4>1. size \in 1..size
        BY <1>0, <3>1
      <4>2. in_order[size] \in live
        BY <1>1, <4>1, CellFacts
      <4>3. QED
        BY <3>1, <4>2
    <3>3. ASSUME NEW i \in 1..(size + 1)
          PROVE  next'[in_order'[i]] = IF i = size + 1 THEN 0 ELSE in_order'[i + 1]
      <4>1. CASE i = size + 1
        BY <1>4, <2>3, <4>1
      <4>2. CASE i = size
        <5>1. /\ size \in 1..size /\ last \in 1..n /\ in_order'[i] = last
              /\ i # size + 1
          BY <1>0, <1>4, <3>1, <4>2
        <5>2. next'[last] = n + 1
          BY <2>2, <2>3, <5>1
        <5>3. QED
          BY <1>4, <4>2, <5>1, <5>2
      <4>3. CASE i # size + 1 /\ i # size
        <5>1. i \in 1..size /\ i + 1 \in 1..size /\ size \in 1..size
          BY <1>0, <4>3
        <5>2. in_order[i] # last
          BY <1>1, <3>1, <4>3, <5>1, CellFacts
        <5>3. next'[in_order'[i]] = next[in_order[i]]
          BY <1>4, <2>2, <2>3, <5>1, <5>2
        <5>4. next[in_order[i]] = in_order[i + 1]
          BY <1>1, <2>6, <4>3, <5>1 DEF Linked
        <5>5. QED
          BY <1>4, <4>3, <5>1, <5>3, <5>4
      <4>4. QED
        BY <4>1, <4>2, <4>3
    <3>4. ASSUME NEW i \in 1..(size + 1)
          PROVE  prev'[in_order'[i]] = IF i = 1 THEN 0 ELSE in_order'[i - 1]
      <4>1. CASE i = size + 1
        <5> HIDE DEF size, n
        <5>1. size \in 1..size /\ i # 1 /\ i - 1 = size
          BY <1>0, <3>1, <4>1
        <5>2. QED
          BY <1>4, <2>4, <3>1, <4>1, <5>1
      <4>2. CASE i # size + 1
        <5>1. i \in 1..size /\ (i # 1 => i - 1 \in 1..size)
          BY <1>0, <4>2
        <5>2. prev'[in_order'[i]] = prev[in_order[i]]
          BY <1>4, <2>4, <5>1
        <5>3. QED
          BY <1>1, <1>4, <2>6, <5>1, <5>2 DEF Linked
      <4>3. QED
        BY <4>1, <4>2
    <3>5. 1 \in 1..size /\ Len(name') # 0 /\ size + 1 # 0
      BY <1>0, <1>3, <3>1
    <3>6. \A i \in 1..Len(in_order') :
            /\ next'[in_order'[i]] = IF i = Len(in_order') THEN 0 ELSE in_order'[i + 1]
            /\ prev'[in_order'[i]] = IF i = 1 THEN 0 ELSE in_order'[i - 1]
      BY <1>4, <3>3, <3>4
    <3>7. /\ first' = in_order'[1] /\ last' = in_order'[Len(in_order')]
          /\ Len(in_order') # 0
      BY <1>4, <1>5, <2>1, <3>1, <3>5
    <3>8. Linked'
      BY <3>6, <3>7 DEF Linked
    <3>9. QED
      BY <2>1, <3>2, <3>8
  <2>7. fate' \in {"used", "append"} /\ (fate' = "append" => lost)
    BY <2>1, <2>6
  <2>8. QED
    BY <1>5, <1>6, <2>5, <2>6, <2>7 DEF ListInv, OnlyLostEndsAreMisused
<1>9. QED
  BY <1>7, <1>8

\* A function on the cells, with one value changed, is one again.
LEMMA Rewritten ==
  ASSUME NEW n \in Nat, NEW S, NEW link \in Seq(S), Len(link) = n, NEW at, NEW x \in S,
         NEW new, new = [c \in DOMAIN link |-> IF c = at THEN x ELSE link[c]]
  PROVE  /\ new \in Seq(S) /\ Len(new) = n
         /\ \A c \in 1..n : new[c] = IF c = at THEN x ELSE link[c]
<1>1. DOMAIN link = 1..n /\ \A c \in 1..n : link[c] \in S
  BY LenProperties, ElementOfSeq
<1>2. new \in [1..n -> S]
  BY <1>1
<1>3. new \in Seq(S)
  BY <1>2, SeqDef
<1>4. Len(new) = n
  BY <1>2, <1>3, LenProperties
<1>5. QED
  BY <1>1, <1>3, <1>4

\* What remove leaves of the cells in order.
LEMMA RemovedCells ==
  ASSUME ListInv, fate = "used", NEW cell \in live, remove(cell)
  PROVE  \E k \in 1..Len(in_order) :
           /\ cell = in_order[k]
           /\ in_order' \in Seq(1..Len(name)) /\ Len(in_order') = Len(in_order) - 1
           /\ \A i \in 1..(Len(in_order) - 1) :
                 in_order'[i] = IF i < k THEN in_order[i] ELSE in_order[i + 1]
<1>1. in_order \in Seq(1..Len(name))
  BY DEF ListInv, ListTypeOK
<1>2. DOMAIN in_order = 1..Len(in_order)
  BY <1>1
<1>3. PICK k \in 1..Len(in_order) : cell = in_order[k] /\ in_order' = RemoveAt(in_order, k)
  BY <1>2 DEF remove
<1>4. QED
  BY <1>1, <1>3, RemoveAtFacts

\* What is left is in order again.
LEMMA RemoveKeepsOrder ==
  ASSUME ListInv, fate = "used", NEW cell \in live, remove(cell)
  PROVE  InOrder'
<1> DEFINE size == Len(in_order)
<1>1. ListTypeOK /\ InOrder
  BY DEF ListInv
<1>2. size \in Nat /\ size <= Len(name) /\ Len(name) \in Nat
  BY <1>1, CellFacts
<1>3. PICK k \in 1..size :
        /\ cell = in_order[k]
        /\ in_order' \in Seq(1..Len(name)) /\ Len(in_order') = size - 1
        /\ \A i \in 1..(size - 1) :
              in_order'[i] = IF i < k THEN in_order[i] ELSE in_order[i + 1]
  BY RemovedCells
<1>4. live' = live \ {cell} /\ name' = name
  BY DEF remove
<1>5. DOMAIN in_order' = 1..(size - 1) /\ ToSet(in_order') = {in_order'[i] : i \in 1..(size - 1)}
  BY <1>3, LenProperties DEF ToSet
<1>6. /\ \A i \in 1..size : in_order[i] \in live
      /\ \A c \in live : \E i \in 1..size : c = in_order[i]
      /\ \A i, j \in 1..size : in_order[i] = in_order[j] => i = j
      /\ \A i, j \in 1..size : i < j => in_order[i] < in_order[j]
  BY <1>1, CellFacts DEF InOrder
<1> HIDE DEF size
<1>7. ASSUME NEW c \in ToSet(in_order') PROVE c \in live \ {cell}
  <2>1. PICK i \in 1..(size - 1) : c = in_order'[i]
    BY <1>5
  <2> DEFINE at == IF i < k THEN i ELSE i + 1
  <2>2. at \in 1..size /\ at # k /\ c = in_order[at]
    BY <1>2, <1>3, <2>1
  <2>3. QED
    BY <1>3, <1>6, <2>2
<1>8. ASSUME NEW c \in live \ {cell} PROVE c \in ToSet(in_order')
  <2>1. PICK i \in 1..size : c = in_order[i] /\ i # k
    BY <1>3, <1>6
  <2> DEFINE at == IF i < k THEN i ELSE i - 1
  <2>2. at \in 1..(size - 1) /\ (IF at < k THEN at ELSE at + 1) = i
    BY <1>2, <1>3, <2>1
  <2>3. in_order'[at] = c
    BY <1>3, <2>1, <2>2
  <2>4. QED
    BY <1>5, <2>2, <2>3
<1>9. ASSUME NEW i \in 1..(size - 1), NEW j \in 1..(size - 1), i < j
      PROVE  in_order'[i] < in_order'[j]
  <2> DEFINE ati == IF i < k THEN i ELSE i + 1
             atj == IF j < k THEN j ELSE j + 1
  <2>1. ati \in 1..size /\ atj \in 1..size /\ ati < atj
    BY <1>2, <1>3, <1>9
  <2>2. in_order'[i] = in_order[ati] /\ in_order'[j] = in_order[atj]
    BY <1>3
  <2>3. QED
    BY <1>6, <2>1, <2>2
<1>10. live' = ToSet(in_order')
  BY <1>4, <1>7, <1>8
<1>11. QED
  BY <1>2, <1>3, <1>4, <1>9, <1>10 DEF InOrder

\* The neighbours of a cell between two others are linked to each other.
LEMMA RemoveKeepsLinks ==
  ASSUME ListInv, fate = "used", NEW cell \in live, remove(cell), ~lost'
  PROVE  Linked'
<1> DEFINE size == Len(in_order)
           n == Len(name)
<1>1. ListTypeOK /\ InOrder /\ Linked /\ cell \notin {first, last}
  BY DEF ListInv, remove
<1>2. size \in Nat /\ size <= n /\ n \in Nat
  BY <1>1, CellFacts
<1>3. PICK k \in 1..size :
        /\ cell = in_order[k]
        /\ in_order' \in Seq(1..n) /\ Len(in_order') = size - 1
        /\ \A i \in 1..(size - 1) :
              in_order'[i] = IF i < k THEN in_order[i] ELSE in_order[i + 1]
  BY RemovedCells
<1>4. k # 1 /\ k # size
  BY <1>1, <1>2, <1>3 DEF Linked
<1>5. /\ \A i \in 1..size : in_order[i] \in 1..n
      /\ \A i, j \in 1..size : in_order[i] = in_order[j] => i = j
      /\ \A i \in 1..size :
           /\ next[in_order[i]] = IF i = size THEN 0 ELSE in_order[i + 1]
           /\ prev[in_order[i]] = IF i = 1 THEN 0 ELSE in_order[i - 1]
  BY <1>1, CellFacts DEF Linked
<1>6. /\ UNCHANGED <<first, last, name>>
      /\ next' = [c \in DOMAIN next |-> IF c = prev[cell] THEN next[cell] ELSE next[c]]
      /\ prev' = [c \in DOMAIN prev |-> IF c = next[cell] THEN prev[cell] ELSE prev[c]]
  BY DEF remove
<1>7. next[cell] = in_order[k + 1] /\ prev[cell] = in_order[k - 1]
  BY <1>2, <1>3, <1>4, <1>5
<1>8. \A c \in 1..n : /\ next'[c] = IF c = prev[cell] THEN next[cell] ELSE next[c]
                      /\ prev'[c] = IF c = next[cell] THEN prev[cell] ELSE prev[c]
  <2>1. DOMAIN next = 1..n /\ DOMAIN prev = 1..n
    BY <1>1 DEF ListTypeOK
  <2>2. QED
    BY <1>6, <2>1
<1>9. first = in_order[1] /\ last = in_order[size] /\ size # 0
  <2>1. size # 0
    BY <1>2
  <2>2. QED
    BY <1>1, <2>1 DEF Linked
<1> HIDE DEF size, n
<1>10. k - 1 \in 1..size /\ k + 1 \in 1..size
  BY <1>2, <1>3, <1>4
<1>11. ASSUME NEW i \in 1..(size - 1)
       PROVE  next'[in_order'[i]] = IF i = size - 1 THEN 0 ELSE in_order'[i + 1]
  <2>1. CASE i < k - 1
    <3>1. /\ i \in 1..size /\ i + 1 \in 1..(size - 1) /\ i # k - 1 /\ i < k /\ i + 1 < k
          /\ i # size - 1 /\ i # size
      BY <1>2, <1>3, <1>4, <2>1
    <3>2. in_order'[i] = in_order[i] /\ in_order'[i + 1] = in_order[i + 1]
      BY <1>3, <3>1
    <3>3. in_order[i] # prev[cell]
      BY <1>5, <1>7, <1>10, <3>1
    <3>4. next'[in_order[i]] = next[in_order[i]]
      BY <1>5, <1>8, <3>1, <3>3
    <3>5. QED
      BY <1>5, <3>1, <3>2, <3>4
  <2>2. CASE i = k - 1
    <3>1. i < k /\ i + 1 = k /\ k \in 1..(size - 1) /\ i # size - 1
      BY <1>2, <1>3, <1>4, <2>2
    <3>2. in_order'[i] = prev[cell] /\ in_order'[i + 1] = in_order[k + 1]
      BY <1>3, <1>7, <2>2, <3>1
    <3>3. next'[prev[cell]] = next[cell]
      BY <1>5, <1>7, <1>8, <1>10
    <3>4. QED
      BY <1>7, <3>1, <3>2, <3>3
  <2>3. CASE i > k - 1
    <3>1. /\ i + 1 \in 1..size /\ i + 1 # k - 1 /\ ~(i < k) /\ ~(i + 1 < k)
          /\ (i # size - 1 => i + 1 \in 1..(size - 1) /\ i + 1 # size)
          /\ (i = size - 1 => i + 1 = size)
      BY <1>2, <1>3, <2>3
    <3>2. /\ in_order'[i] = in_order[i + 1]
          /\ i # size - 1 => in_order'[i + 1] = in_order[i + 1 + 1]
      BY <1>3, <3>1
    <3>3. in_order[i + 1] # prev[cell]
      BY <1>5, <1>7, <1>10, <3>1
    <3>4. next'[in_order[i + 1]] = next[in_order[i + 1]]
      BY <1>5, <1>8, <3>1, <3>3
    <3>5. QED
      BY <1>5, <3>1, <3>2, <3>4
  <2>4. i < k - 1 \/ i = k - 1 \/ i > k - 1
    BY <1>2, <1>3
  <2>5. QED
    BY <2>1, <2>2, <2>3, <2>4
<1>12. ASSUME NEW i \in 1..(size - 1)
       PROVE  prev'[in_order'[i]] = IF i = 1 THEN 0 ELSE in_order'[i - 1]
  <2>1. CASE i < k
    <3>1. /\ i \in 1..size /\ i # k + 1
          /\ i # 1 => i - 1 \in 1..(size - 1) /\ i - 1 < k
      BY <1>2, <1>3, <2>1
    <3>2. in_order'[i] = in_order[i] /\ (i # 1 => in_order'[i - 1] = in_order[i - 1])
      BY <1>3, <2>1, <3>1
    <3>3. in_order[i] # next[cell]
      BY <1>5, <1>7, <1>10, <3>1
    <3>4. prev'[in_order[i]] = prev[in_order[i]]
      BY <1>5, <1>8, <3>1, <3>3
    <3>5. QED
      BY <1>5, <3>1, <3>2, <3>4
  <2>2. CASE i = k
    <3>1. ~(i < k) /\ i - 1 \in 1..(size - 1) /\ i - 1 < k
      BY <1>2, <1>3, <1>4, <2>2
    <3>2. in_order'[i] = next[cell] /\ in_order'[i - 1] = prev[cell]
      BY <1>3, <1>7, <2>2, <3>1
    <3>3. prev'[next[cell]] = prev[cell]
      BY <1>5, <1>7, <1>8, <1>10
    <3>4. QED
      BY <1>4, <2>2, <3>2, <3>3
  <2>3. CASE i > k
    <3>1. /\ i + 1 \in 1..size /\ i + 1 # k + 1 /\ i + 1 # 1 /\ i # 1 /\ (i + 1) - 1 = i
          /\ ~(i < k) /\ i - 1 \in 1..(size - 1) /\ ~(i - 1 < k) /\ (i - 1) + 1 = i
      <4>1. size \in Nat /\ k \in 1..size /\ i \in 1..(size - 1) /\ i > k
        BY <1>2, <1>3, <2>3
      <4> HIDE DEF size
      <4>2. QED
        BY ONLY <4>1
    <3>2. in_order'[i] = in_order[i + 1] /\ in_order'[i - 1] = in_order[i]
      BY <1>3, <3>1
    <3>3. in_order[i + 1] # next[cell]
      BY <1>5, <1>7, <1>10, <3>1
    <3>4. prev'[in_order[i + 1]] = prev[in_order[i + 1]]
      BY <1>5, <1>8, <3>1, <3>3
    <3>5. QED
      BY <1>5, <3>1, <3>2, <3>4
  <2>4. i < k \/ i = k \/ i > k
    BY <1>2, <1>3
  <2>5. QED
    BY <2>1, <2>2, <2>3, <2>4
<1>13. in_order'[1] = in_order[1] /\ in_order'[size - 1] = in_order[size]
  <2>1. 1 \in 1..(size - 1) /\ 1 < k /\ size - 1 \in 1..(size - 1) /\ ~(size - 1 < k)
        /\ (size - 1) + 1 = size
    BY <1>2, <1>3, <1>4
  <2>2. QED
    BY <1>3, <2>1
<1>14. \A i \in 1..Len(in_order') :
        /\ next'[in_order'[i]] = IF i = Len(in_order') THEN 0 ELSE in_order'[i + 1]
        /\ prev'[in_order'[i]] = IF i = 1 THEN 0 ELSE in_order'[i - 1]
  BY <1>3, <1>11, <1>12
<1>15. Len(in_order') # 0
  BY <1>2, <1>3, <1>4
<1>16. first' = in_order'[1] /\ last' = in_order'[Len(in_order')]
  BY <1>3, <1>6, <1>9, <1>13
<1>17. QED
  BY <1>14, <1>15, <1>16 DEF Linked

\* The invariant after a remove.
LEMMA RemoveStep ==
  ASSUME ListInv, fate = "used", NEW cell \in live, remove(cell)
  PROVE  ListInv'
<1> DEFINE n == Len(name)
<1>1. ListTypeOK
  BY DEF ListInv
<1>2. /\ n \in Nat /\ cell \in 1..n /\ in_order' \in Seq(1..n)
      /\ next \in Seq(0..MaxCells) /\ prev \in Seq(0..MaxCells)
      /\ Len(next) = n /\ Len(prev) = n /\ DOMAIN name = 1..n
  BY <1>1, RemovedCells DEF ListTypeOK
<1>3. next[cell] \in 0..MaxCells /\ prev[cell] \in 0..MaxCells
  BY <1>2, ElementOfSeq
<1>4. /\ next' = [c \in DOMAIN next |-> IF c = prev[cell] THEN next[cell] ELSE next[c]]
      /\ prev' = [c \in DOMAIN prev |-> IF c = next[cell] THEN prev[cell] ELSE prev[c]]
      /\ live' = live \ {cell} /\ lost' = (lost \/ cell \in {first, last})
      /\ UNCHANGED <<first, last, name, fate>>
  BY DEF remove
<1>5. next' \in Seq(0..MaxCells) /\ Len(next') = n
  <2> DEFINE at == prev[cell]
             x == next[cell]
             S == 0..MaxCells
             new == next'
  <2>1. new = [c \in DOMAIN next |-> IF c = at THEN x ELSE next[c]]
    BY <1>4
  <2>2. n \in Nat /\ next \in Seq(S) /\ Len(next) = n /\ x \in S
    BY <1>2, <1>3
  <2> HIDE DEF at, x, S, new, n
  <2>3. new \in Seq(S) /\ Len(new) = n
    BY <2>1, <2>2, Rewritten
  <2>4. QED
    BY <2>3 DEF new, S
<1>6. prev' \in Seq(0..MaxCells) /\ Len(prev') = n
  <2> DEFINE at == next[cell]
             x == prev[cell]
             S == 0..MaxCells
             new == prev'
  <2>1. new = [c \in DOMAIN prev |-> IF c = at THEN x ELSE prev[c]]
    BY <1>4
  <2>2. n \in Nat /\ prev \in Seq(S) /\ Len(prev) = n /\ x \in S
    BY <1>2, <1>3
  <2> HIDE DEF at, x, S, new, n
  <2>3. new \in Seq(S) /\ Len(new) = n
    BY <2>1, <2>2, Rewritten
  <2>4. QED
    BY <2>3 DEF new, S
<1>7. ListTypeOK'
  BY <1>1, <1>2, <1>4, <1>5, <1>6 DEF ListTypeOK
<1>8. InOrder' /\ (lost' \/ Linked')
  BY RemoveKeepsOrder, RemoveKeepsLinks
<1>9. OnlyLostEndsAreMisused'
  BY <1>4 DEF OnlyLostEndsAreMisused
<1>10. QED
  BY <1>7, <1>8, <1>9 DEF ListInv

\* The invariant after a destroy, which frees each cell.
LEMMA DestroyStep ==
  ASSUME ListInv, fate = "used", destroy
  PROVE  ListInv'
<1> DEFINE size == Len(in_order)
           freed == {prev[Cells[i]] : i \in 2..Len(Cells)} \cup {Last(Cells)}
<1>1. ListTypeOK /\ InOrder /\ (lost \/ Linked)
  BY DEF ListInv
<1>2. /\ \/ first \notin live /\ fate' = "destroy" /\ live' = live
         \/ first \in live /\ live' = live \ freed /\ fate' = "destroyed"
      /\ in_order' = <<>>
      /\ UNCHANGED <<first, last, next, prev, name, lost>>
  BY DEF destroy
<1>3. ListTypeOK'
  BY <1>1, <1>2 DEF ListTypeOK
<1>4. size \in Nat
  BY <1>1, CellFacts
<1>5. ASSUME ~lost, first \notin live PROVE name = <<>>
  <2>1. size = 0
    BY <1>1, <1>4, <1>5, CellFacts DEF Linked
  <2>2. QED
    BY <1>1, <1>5, <2>1 DEF Linked
<1>6. ASSUME ~lost, first \in live PROVE live \subseteq freed
  <2>1. Cells = in_order
    BY <1>1, <1>6, WalkIs
  <2>2. ASSUME NEW cell \in live PROVE cell \in freed
    <3>1. PICK i \in 1..size : cell = in_order[i]
      BY <1>1, CellFacts
    <3>2. CASE i = size
      BY <2>1, <3>1, <3>2 DEF Last
    <3>3. CASE i # size
      <4>1. i + 1 \in 2..size /\ i + 1 \in 1..size /\ i + 1 # 1 /\ (i + 1) - 1 = i
        BY <1>4, <3>1, <3>3
      <4>2. prev[in_order[i + 1]] = in_order[i]
        BY <1>1, <1>6, <4>1 DEF Linked
      <4>3. QED
        BY <2>1, <3>1, <4>1, <4>2
    <3>4. QED
      BY <3>2, <3>3
  <2>3. QED
    BY <2>2
<1> HIDE DEF freed
<1>7. OnlyLostEndsAreMisused'
  BY <1>2, <1>5, <1>6 DEF OnlyLostEndsAreMisused
<1>8. QED
  BY <1>2, <1>3, <1>7 DEF ListInv

-----------------------------------------------------------------------------
(* The theorems                                                            *)

\* An empty list satisfies the invariant.
LEMMA InitListInv == ListInit => ListInv
<1> SUFFICES ASSUME ListInit PROVE ListInv
  OBVIOUS
<1> USE DEF ListInit
<1>1. ListTypeOK
  <2>1. name \in Seq(Key) /\ Len(name) = 0 /\ DOMAIN name = {}
    OBVIOUS
  <2>2. 0 \in 0..0 /\ 0 <= MaxCells
    BY MaxCellsAssumption
  <2>3. \A S : <<>> \in Seq(S)
    BY EmptySeq
  <2>4. QED
    BY <2>1, <2>2, <2>3 DEF ListTypeOK
<1>2. InOrder /\ Linked
  BY DEF InOrder, Linked, ToSet
<1>3. QED
  BY <1>1, <1>2 DEF ListInv, OnlyLostEndsAreMisused

\* Each operation keeps the invariant.
LEMMA NextListInv == ListInv /\ [ListNext]_list_vars => ListInv'
<1>1. ASSUME ListInv, UNCHANGED list_vars PROVE ListInv'
  <2>1. /\ ListTypeOK' /\ InOrder' = InOrder /\ Linked' = Linked
        /\ OnlyLostEndsAreMisused' /\ fate' = fate /\ lost' = lost
    BY <1>1 DEF list_vars, ListInv, ListTypeOK, InOrder, Linked, OnlyLostEndsAreMisused
  <2>2. QED
    BY <1>1, <2>1 DEF ListInv
<1>2. QED
  BY <1>1, AppendStep, RemoveStep, DestroyStep DEF ListNext

\* The invariant holds in every state of every behaviour.
THEOREM ListInvariant == ListSpec => []ListInv
  BY InitListInv, NextListInv, PTL DEF ListSpec

\* While nobody removed an end, dzmq_topic_in_list and its like walk through
\* exactly the cells appended and not removed, in order, at any length.
THEOREM ListsAreRight == ListSpec => []ListHoldsItsCells
  BY ListInvariant, ListIsRight, PTL

\* Freed memory is used only after an end was removed, and no memory only when
\* an empty list is destroyed (dzmq_topic_list_append, dzmq_topic_list_destroy).
THEOREM MisuseOnlyOfLostEnds == ListSpec => []OnlyLostEndsAreMisused
<1>1. ListInv => OnlyLostEndsAreMisused
  BY DEF ListInv
<1>2. QED
  BY <1>1, ListInvariant, PTL

-----------------------------------------------------------------------------
(* The multipart messages                                                  *)

\* A hexadecimal digit as toupper leaves it.
Capital(c) == IF c \in 97..102 THEN c - 32 ELSE c

\* The byte of two digits, and the two digits of a byte.
ByteOf(c, d) == (Msg!HexToBin(c) * 16 + Msg!HexToBin(d)) % 256
High(byte) == Msg!HexChar(byte \div 16)
Low(byte) == Msg!HexChar(byte % 16)

\* What becomes of a part when it is sent, and when it is received.
OnTheWire(part) == IF Msg!IsUuid(part) THEN Msg!decode_uuid(part) ELSE part
OffTheWire(part) == IF Len(part) = 17 /\ part[1] = 0 THEN Msg!encode_uuid(part) ELSE part

\* What a part is when it arrives.
SurvivedAs(part, arrived) ==
  IF ~Msg!IsUuid(part) THEN arrived = part
  ELSE /\ Msg!IsHex(part) => arrived = Msg!Upper(part)
       /\ Msg!IsUuid(arrived) /\ Msg!IsHex(arrived)

\* The two digits of a byte come back from it, in capitals; of characters that
\* are no digits comes a byte all the same.
LEMMA ByteOfDigits ==
  ASSUME NEW c \in 1..255, NEW d \in 1..255
  PROVE  /\ ByteOf(c, d) \in 0..255
         /\ Msg!HexToBin(High(ByteOf(c, d))) # -1
         /\ Msg!HexToBin(Low(ByteOf(c, d))) # -1
         /\ (Msg!HexToBin(c) # -1 /\ Msg!HexToBin(d) # -1) =>
               High(ByteOf(c, d)) = Capital(c) /\ Low(ByteOf(c, d)) = Capital(d)
<1> DEFINE x == Msg!HexToBin(c)
           y == Msg!HexToBin(d)
           byte == ByteOf(c, d)
<1>1. x \in -1..15 /\ y \in -1..15 /\ byte = (x * 16 + y) % 256
  BY DEF Msg!HexToBin, ByteOf
<1>2. x # -1 => Msg!HexChar(x) = Capital(c)
  BY DEF Capital, Msg!HexChar, Msg!HexToBin
<1>3. y # -1 => Msg!HexChar(y) = Capital(d)
  BY DEF Capital, Msg!HexChar, Msg!HexToBin
<1>4. \A digit \in 0..15 : Msg!HexToBin(Msg!HexChar(digit)) = digit
  BY DEF Msg!HexChar, Msg!HexToBin
<1> HIDE DEF x, y, byte
<1>5. byte \in 0..255
  <2>1. x * 16 + y \in Int
    BY <1>1
  <2>2. QED
    BY <1>1, <2>1
<1>6. byte \div 16 \in 0..15 /\ byte % 16 \in 0..15
  BY <1>5
<1>7. (x # -1 /\ y # -1) => byte \div 16 = x /\ byte % 16 = y
  BY <1>1
<1>8. /\ Msg!HexToBin(High(byte)) # -1
      /\ Msg!HexToBin(Low(byte)) # -1
  BY <1>4, <1>6 DEF High, Low
<1>9. (x # -1 /\ y # -1) => High(byte) = Msg!HexChar(x) /\ Low(byte) = Msg!HexChar(y)
  BY <1>7 DEF High, Low
<1>10. QED
  BY <1>2, <1>3, <1>5, <1>8, <1>9 DEF x, y, byte

\* A part of 33 bytes that begins with @ arrives as one, with hexadecimal digits.
LEMMA UuidArrives ==
  ASSUME NEW part \in Seq(1..255), Msg!IsUuid(part)
  PROVE  SurvivedAs(part, OffTheWire(Msg!decode_uuid(part)))
<1> DEFINE data == Msg!decode_uuid(part)
           text == Msg!encode_uuid(data)
           digits(k) == ByteOf(part[2 * k - 2], part[2 * k - 1])
<1>1. Len(part) = 33 /\ part[1] = 64 /\ \A i \in 1..33 : part[i] \in 1..255
  <2>1. Len(part) = 33 /\ part[1] = 64
    BY DEF Msg!IsUuid, Msg!At
  <2>2. \A i \in 1..Len(part) : part[i] \in 1..255
    BY ElementOfSeq
  <2>3. QED
    BY <2>1, <2>2
<1>2. ASSUME NEW k \in 2..17 PROVE data[k] = digits(k)
  <2>1. k \in 1..17 /\ k # 1
    OBVIOUS
  <2> HIDE DEF digits
  <2>2. data = [i \in 1..17 |-> IF i = 1 THEN 0 ELSE digits(i)]
    BY DEF Msg!decode_uuid, digits, ByteOf
  <2> HIDE DEF data
  <2>3. QED
    BY <2>1, <2>2
<1>3. Len(data) = 17 /\ data[1] = 0
  <2>1. DOMAIN data = 1..17 /\ data[1] = 0
    BY DEF Msg!decode_uuid
  <2>2. data = [i \in 1..17 |-> data[i]]
    BY DEF Msg!decode_uuid
  <2> HIDE DEF data
  <2>3. QED
    BY <2>1, <2>2
<1> HIDE DEF data
<1>4. /\ text[1] = 64
      /\ \A i \in 2..33 :
            text[i] = IF i % 2 = 0 THEN High(data[i \div 2 + 1]) ELSE Low(data[i \div 2 + 1])
  BY DEF Msg!encode_uuid, Msg!At, High, Low
<1>5. text = [i \in 1..33 |-> text[i]] /\ Len(text) = 33
  <2>1. text = [i \in 1..33 |-> text[i]]
    BY DEF Msg!encode_uuid
  <2> HIDE DEF text
  <2>2. QED
    BY <2>1
<1> HIDE DEF text
<1>6. ASSUME NEW i \in 2..33
      PROVE  /\ Msg!HexToBin(text[i]) # -1
             /\ Msg!IsHex(part) => text[i] = Capital(part[i])
  <2> DEFINE k == i \div 2 + 1
  <2>1. k \in 2..17 /\ (i = 2 * k - 2 \/ i = 2 * k - 1) /\ (i % 2 = 0 <=> i = 2 * k - 2)
    OBVIOUS
  <2> HIDE DEF k
  <2>2. part[2 * k - 2] \in 1..255 /\ part[2 * k - 1] \in 1..255
    <3>1. 2 * k - 2 \in 1..33 /\ 2 * k - 1 \in 1..33
      BY <2>1
    <3>2. QED
      BY <1>1, <3>1
  <2>3. Msg!IsHex(part) => /\ Msg!HexToBin(part[2 * k - 2]) # -1
                           /\ Msg!HexToBin(part[2 * k - 1]) # -1
    <3>1. 2 * k - 2 \in 2..33 /\ 2 * k - 1 \in 2..33
      BY <2>1
    <3>2. QED
      BY <1>1, <3>1 DEF Msg!IsHex
  <2>4. data[k] = digits(k)
    BY <1>2, <2>1
  <2>5. text[i] = IF i = 2 * k - 2 THEN High(data[k]) ELSE Low(data[k])
    BY <1>4, <2>1 DEF k
  <2>6. /\ Msg!HexToBin(High(data[k])) # -1 /\ Msg!HexToBin(Low(data[k])) # -1
        /\ Msg!IsHex(part) => /\ High(data[k]) = Capital(part[2 * k - 2])
                              /\ Low(data[k]) = Capital(part[2 * k - 1])
    <3> DEFINE c == part[2 * k - 2]
               d == part[2 * k - 1]
    <3>1. c \in 1..255 /\ d \in 1..255 /\ data[k] = ByteOf(c, d)
      BY <2>2, <2>4
    <3>2. Msg!IsHex(part) => Msg!HexToBin(c) # -1 /\ Msg!HexToBin(d) # -1
      BY <2>3
    <3> HIDE DEF c, d
    <3>3. /\ Msg!HexToBin(High(ByteOf(c, d))) # -1
          /\ Msg!HexToBin(Low(ByteOf(c, d))) # -1
          /\ (Msg!HexToBin(c) # -1 /\ Msg!HexToBin(d) # -1) =>
               High(ByteOf(c, d)) = Capital(c) /\ Low(ByteOf(c, d)) = Capital(d)
      BY <3>1, ByteOfDigits
    <3>4. QED
      BY <3>1, <3>2, <3>3 DEF c, d
  <2>7. CASE i = 2 * k - 2
    BY <2>5, <2>6, <2>7
  <2>8. CASE i = 2 * k - 1
    <3>1. i # 2 * k - 2
      BY <2>1, <2>8
    <3>2. QED
      BY <2>5, <2>6, <2>8, <3>1
  <2>9. QED
    BY <2>1, <2>7, <2>8
<1>7. Msg!IsUuid(text) /\ Msg!IsHex(text)
  BY <1>4, <1>5, <1>6 DEF Msg!IsUuid, Msg!IsHex, Msg!At
<1>8. Msg!IsHex(part) => text = Msg!Upper(part)
  <2>1. Msg!Upper(part) = [i \in 1..33 |-> Capital(part[i])]
    BY <1>1 DEF Capital, Msg!Upper
  <2>2. Msg!IsHex(part) =>
        \A i \in 1..33 : text[i] = Capital(part[i])
    <3>1. text[1] = Capital(part[1])
      BY <1>1, <1>4 DEF Capital
    <3>2. \A i \in 1..33 : i = 1 \/ i \in 2..33
      OBVIOUS
    <3>3. QED
      BY <1>6, <3>1, <3>2
  <2>3. QED
    BY <1>5, <2>1, <2>2
<1>9. OffTheWire(data) = text
  BY <1>3 DEF OffTheWire, text
<1>10. QED
  BY <1>7, <1>8, <1>9 DEF SurvivedAs, data

\* A part arrives as PartsSurvive has it.
LEMMA PartArrives ==
  ASSUME NEW part \in Seq(1..255)
  PROVE  SurvivedAs(part, OffTheWire(OnTheWire(part)))
<1>1. CASE Msg!IsUuid(part)
  BY <1>1, UuidArrives DEF OnTheWire
<1>2. CASE ~Msg!IsUuid(part)
  <2>1. ~(Len(part) = 17 /\ part[1] = 0)
    <3>1. \A i \in 1..Len(part) : part[i] \in 1..255
      BY ElementOfSeq
    <3>2. Len(part) = 17 => part[1] \in 1..255
      BY <3>1
    <3>3. 0 \notin 1..255
      OBVIOUS
    <3>4. QED
      BY <3>2, <3>3
  <2>2. QED
    BY <1>2, <2>1 DEF OnTheWire, OffTheWire, SurvivedAs
<1>3. QED
  BY <1>1, <1>2

\* The message of the sender, and what is on its way of the one that was sent.
MsgInv ==
  /\ m_part_data \in Seq(Part) /\ sent \in Seq(Part)
  /\ received # <<>> => frames = <<>>
  /\ frames \notin {Pending, <<>>} => frames = [i \in 1..Len(sent) |-> OnTheWire(sent[i])]
  /\ Msg!PartsSurvive

\* Every step for messages keeps MsgInv.
LEMMA MsgStep ==
  ASSUME Msg!PartsAreCStrings, MsgInv, [Msg!Next]_(Msg!vars)
  PROVE  MsgInv'
<1>1. Part \subseteq Seq(1..255) /\ Pending # <<>>
  BY DEF Msg!PartsAreCStrings
<1>2. CASE Msg!Build
  <2>1. ASSUME NEW part \in Part
        PROVE  /\ Append(m_part_data, part) \in Seq(Part)
               /\ <<part>> \o m_part_data \in Seq(Part)
               /\ m_part_data # <<>> =>
                     Append(SubSeq(m_part_data, 1, Len(m_part_data) - 1), part) \in Seq(Part)
    BY DEF MsgInv
  <2>2. m_part_data' \in Seq(Part)
    <3>1. PICK part \in Part : \/ m_part_data' = Append(m_part_data, part)
                               \/ m_part_data' = <<part>> \o m_part_data
                               \/ m_part_data' = Append(IF m_part_data = <<>> THEN m_part_data
                                                        ELSE Front(m_part_data), part)
      BY <1>2 DEF Msg!Build, Msg!push_back, Msg!push_front, Msg!body_set, Msg!Front, Front
    <3>2. QED
      BY <2>1, <3>1 DEF Front, MsgInv
  <2>3. QED
    BY <1>2, <2>2 DEF Msg!Build, MsgInv, Msg!PartsSurvive
<1>3. CASE Msg!send
  <2>1. received' = <<>> /\ sent' = m_part_data /\ m_part_data' = <<>>
    BY <1>1, <1>3 DEF Msg!send, MsgInv
  <2>2. frames' = [i \in 1..Len(sent') |-> OnTheWire(sent'[i])]
    BY <1>3 DEF Msg!send, MsgInv, OnTheWire
  <2>3. m_part_data' \in Seq(Part) /\ sent' \in Seq(Part)
    BY <2>1 DEF MsgInv
  <2>4. Msg!PartsSurvive'
    BY <2>1 DEF Msg!PartsSurvive
  <2>5. QED
    BY <2>1, <2>2, <2>3, <2>4 DEF MsgInv
<1>4. CASE Msg!recv
  <2>1. frames = [i \in 1..Len(sent) |-> OnTheWire(sent[i])] /\ frames' = <<>>
    BY <1>4 DEF Msg!recv, MsgInv
  <2>2. received' = [i \in DOMAIN frames |-> OffTheWire(frames[i])]
    BY <1>4 DEF Msg!recv, OffTheWire
  <2>3. /\ received' = [i \in 1..Len(sent) |-> OffTheWire(OnTheWire(sent[i]))]
        /\ sent' = sent /\ m_part_data' = m_part_data
    BY <1>4, <2>1, <2>2 DEF Msg!recv
  <2>4. Len(sent) \in Nat /\ DOMAIN sent = 1..Len(sent)
    BY DEF MsgInv
  <2>5. Len(received') = Len(sent)
    BY <2>3, <2>4
  <2>6. ASSUME NEW i \in 1..Len(sent) PROVE SurvivedAs(sent[i], received'[i])
    <3>1. sent[i] \in Seq(1..255)
      BY <1>1 DEF MsgInv
    <3>2. QED
      BY <2>3, <3>1, PartArrives
  <2>7. Msg!PartsSurvive'
    BY <2>3, <2>4, <2>5, <2>6 DEF Msg!PartsSurvive, SurvivedAs
  <2>8. QED
    BY <1>1, <2>1, <2>3, <2>7 DEF MsgInv
<1>5. CASE Msg!Unwrap
  <2>1. sent' = <<>> /\ m_part_data' = m_part_data /\ frames' = frames /\ received # <<>>
    BY <1>5 DEF Msg!Unwrap
  <2>2. frames' = <<>>
    BY <2>1 DEF MsgInv
  <2>3. QED
    BY <2>1, <2>2 DEF MsgInv, Msg!PartsSurvive
<1>6. CASE UNCHANGED Msg!vars
  BY <1>6 DEF Msg!vars, MsgInv, Msg!PartsSurvive
<1>7. QED
  BY <1>2, <1>3, <1>4, <1>5, <1>6 DEF Msg!Next

\* Taking the envelope off what wrap returned gives the message back, except
\* that without a delimiter an empty first part goes with it.
LEMMA EnvelopeComesOff ==
  ASSUME NEW S, NEW parts \in Seq(S), NEW address,
         NEW delim \in {Pending, <<>>}, Pending # <<>>
  PROVE  LET restored == Msg!unwrap(Msg!wrap(parts, address, delim)) IN
         IF delim = Pending /\ parts # <<>> /\ Head(parts) = <<>>
         THEN restored = Tail(parts) ELSE restored = parts
<1>1. CASE delim = Pending
  <2> DEFINE wrapped == <<address>> \o parts
  <2>1. Msg!wrap(parts, address, delim) = wrapped
    BY <1>1 DEF Msg!wrap, Msg!push_front
  <2>2. wrapped # <<>> /\ Tail(wrapped) = parts /\ Len(wrapped) = Len(parts) + 1
    OBVIOUS
  <2>3. parts # <<>> => wrapped[2] = Head(parts) /\ Len(wrapped) > 1
    OBVIOUS
  <2>4. parts = <<>> => ~(Len(wrapped) > 1)
    OBVIOUS
  <2> HIDE DEF wrapped
  <2>5. Msg!unwrap(wrapped) = IF parts # <<>> /\ Head(parts) = <<>>
                              THEN Tail(parts) ELSE parts
    BY <2>2, <2>3, <2>4 DEF Msg!unwrap
  <2>6. QED
    BY <1>1, <2>1, <2>5
<1>2. CASE delim = <<>>
  <2> DEFINE wrapped == <<address>> \o (<<delim>> \o parts)
  <2>1. Msg!wrap(parts, address, delim) = wrapped
    BY <1>2 DEF Msg!wrap, Msg!push_front
  <2>2. wrapped # <<>> /\ Tail(Tail(wrapped)) = parts /\ wrapped[2] = <<>> /\ Len(wrapped) > 1
    <3> DEFINE inner == <<delim>> \o parts
    <3>1. /\ Tail(inner) = parts /\ inner[1] = <<>> /\ Len(inner) = Len(parts) + 1
          /\ inner = [i \in 1..Len(inner) |-> inner[i]] /\ inner \in Seq(S \cup {delim})
      BY <1>2
    <3> HIDE DEF inner
    <3>2. <<address>> \o inner # <<>> /\ Tail(<<address>> \o inner) = inner
      BY <3>1
    <3>3. (<<address>> \o inner)[2] = inner[1] /\ Len(<<address>> \o inner) = Len(inner) + 1
      BY <3>1
    <3>4. QED
      BY <3>1, <3>2, <3>3 DEF inner
  <2> HIDE DEF wrapped
  <2>3. Msg!unwrap(wrapped) = parts
    BY <2>2 DEF Msg!unwrap
  <2>4. QED
    BY <1>2, <2>1, <2>3
<1>3. QED
  BY <1>1, <1>2

\* MsgInv holds in every reachable state, and with it PartsSurvive: whatever parts of
\* whatever length an application sends, zmsg delivers them.
THEOREM PartsArrive == Msg!Spec => []PartsSurvive
<1>. Msg!PartsAreCStrings
  BY WireAssumption
<1>1. Msg!Init => MsgInv
  BY DEF Msg!Init, MsgInv, Msg!PartsSurvive
<1>2. MsgInv /\ [Msg!Next]_(Msg!vars) => MsgInv'
  BY MsgStep
<1>3. MsgInv => Msg!PartsSurvive
  BY DEF MsgInv
<1>4. QED
  BY <1>1, <1>2, <1>3, PTL DEF Msg!Spec, PartsSurvive

\* unwrap takes off what wrap put around a message, in every reachable state.
THEOREM EnvelopesComeOff == Msg!Spec => []UnwrapUndoesWrap
<1>. Msg!PartsAreCStrings
  BY WireAssumption
<1>1. Msg!Init => MsgInv
  BY DEF Msg!Init, MsgInv, Msg!PartsSurvive
<1>2. MsgInv /\ [Msg!Next]_(Msg!vars) => MsgInv'
  BY MsgStep
<1>3. MsgInv => Msg!UnwrapUndoesWrap
  <2>1. Pending # <<>>
    BY DEF Msg!PartsAreCStrings
  <2>2. QED
    BY <2>1, EnvelopeComesOff DEF MsgInv, Msg!UnwrapUndoesWrap
<1>4. QED
  BY <1>1, <1>2, <1>3, PTL DEF Msg!Spec, UnwrapUndoesWrap

-----------------------------------------------------------------------------
(* The datagrams                                                           *)

\* A function on the first m numbers is a sequence.
LEMMA FunctionIsSeq ==
  ASSUME NEW S, NEW m \in Nat, NEW f \in [1..m -> S]
  PROVE  f \in Seq(S) /\ Len(f) = m
<1>1. f \in Seq(S)
  BY SeqDef
<1>2. QED
  BY <1>1, LenProperties

\* A datagram as each of the programs writes it: the version, a GUID, the length
\* of the topic, the topic, the type, flags, a body.
Datagram(guid, length, topic, type, flags, body) ==
  (((((Codec!TwoBytes(1) \o guid) \o length) \o topic) \o <<type>>) \o flags) \o body

\* Where the parts of a concatenation are.
LEMMA PartsOfBoth ==
  ASSUME NEW x \in Seq(Nat), NEW y \in Seq(Nat)
  PROVE  /\ x \o y \in Seq(Nat)
         /\ Len(x \o y) = Len(x) + Len(y)
         /\ \A i \in 1..Len(x) : (x \o y)[i] = x[i]
         /\ \A i \in 1..Len(y) : (x \o y)[Len(x) + i] = y[i]
<1>1. Len(x) \in Nat /\ Len(y) \in Nat
  BY LenProperties
<1>2. QED
  BY <1>1, ConcatProperties

\* A number of 16 bits is read as it was written.
LEMMA TwoBytesFacts ==
  ASSUME NEW n \in Nat, n < 256 * 256
  PROVE  /\ Codec!TwoBytes(n) \in Seq(Nat) /\ Len(Codec!TwoBytes(n)) = 2
         /\ Codec!TwoBytes(n)[1] + 256 * Codec!TwoBytes(n)[2] = n
         /\ n < 256 => Codec!TwoBytes(n)[1] = n /\ Codec!TwoBytes(n)[2] = 0
         /\ Codec!TwoBytes(n)[1] \in 0..255 /\ Codec!TwoBytes(n)[2] \in 0..255
<1> DEFINE low == n % 256
           high == n \div 256
<1>1. low \in 0..255 /\ high \in 0..255 /\ n = low + 256 * high
  BY SMT
<1>2. n < 256 => low = n /\ high = 0
  BY <1>1, SMT
<1>3. high % 256 = high
  BY <1>1, SMT
<1>4. Codec!TwoBytes(n) = <<low, high>>
  BY <1>3 DEF Codec!TwoBytes, Codec!Low
<1> HIDE DEF low, high
<1>5. /\ <<low, high>> \in Seq(Nat) /\ Len(<<low, high>>) = 2
      /\ <<low, high>>[1] = low /\ <<low, high>>[2] = high
  BY <1>1
<1> DEFINE both == <<low, high>>
<1>6. both \in Seq(Nat) /\ Len(both) = 2 /\ both[1] = low /\ both[2] = high
  BY <1>5
<1> HIDE DEF both
<1>7. both[1] + 256 * both[2] = n
  BY ONLY <1>1, <1>6
<1>8. Codec!TwoBytes(n) = both
  BY <1>4 DEF both
<1>9. QED
  BY <1>1, <1>2, <1>6, <1>7, <1>8

\* Where the fields of a datagram are.
IsLaidOut(data, guid, length, topic, type, flags, body) ==
  /\ data \in Seq(Nat)
  /\ Len(data) = 19 + Len(length) + Len(topic) + Len(flags) + Len(body)
  /\ \A i \in 1..16 : data[2 + i] = guid[i]
  /\ \A i \in 1..Len(length) : data[18 + i] = length[i]
  /\ \A i \in 1..Len(topic) : data[18 + Len(length) + i] = topic[i]
  /\ data[19 + Len(length) + Len(topic)] = type
  /\ \A i \in 1..Len(flags) : data[19 + Len(length) + Len(topic) + i] = flags[i]
  /\ \A i \in 1..Len(body) : data[19 + Len(length) + Len(topic) + Len(flags) + i] = body[i]

\* They are there, whatever they hold.
LEMMA Layout ==
  ASSUME NEW guid \in Seq(Nat), Len(guid) = 16, NEW length \in Seq(Nat), NEW topic \in Seq(Nat),
         NEW type \in Nat, NEW flags \in Seq(Nat), NEW body \in Seq(Nat),
         NEW data, data = Datagram(guid, length, topic, type, flags, body)
  PROVE  IsLaidOut(data, guid, length, topic, type, flags, body)
<1> DEFINE s1 == Codec!TwoBytes(1)
           s2 == s1 \o guid
           s3 == s2 \o length
           s4 == s3 \o topic
           one == <<type>>
           s5 == s4 \o one
           s6 == s5 \o flags
           s7 == s6 \o body
<1>1. data = s7
  BY DEF Datagram
<1>2. s1 \in Seq(Nat) /\ Len(s1) = 2
  BY TwoBytesFacts
<1>3. one \in Seq(Nat) /\ Len(one) = 1 /\ one[1] = type
  OBVIOUS
<1> HIDE DEF s1, one
<1>4. /\ s2 \in Seq(Nat) /\ Len(s2) = Len(s1) + Len(guid)
      /\ \A i \in 1..Len(guid) : s2[Len(s1) + i] = guid[i]
  BY ONLY <1>2, guid \in Seq(Nat), PartsOfBoth
<1> HIDE DEF s2
<1>5. /\ s3 \in Seq(Nat) /\ Len(s3) = Len(s2) + Len(length)
      /\ \A i \in 1..Len(s2) : s3[i] = s2[i]
      /\ \A i \in 1..Len(length) : s3[Len(s2) + i] = length[i]
  BY ONLY <1>4, length \in Seq(Nat), PartsOfBoth
<1> HIDE DEF s3
<1>6. /\ s4 \in Seq(Nat) /\ Len(s4) = Len(s3) + Len(topic)
      /\ \A i \in 1..Len(s3) : s4[i] = s3[i]
      /\ \A i \in 1..Len(topic) : s4[Len(s3) + i] = topic[i]
  BY ONLY <1>5, topic \in Seq(Nat), PartsOfBoth
<1> HIDE DEF s4
<1>7. /\ s5 \in Seq(Nat) /\ Len(s5) = Len(s4) + Len(one)
      /\ \A i \in 1..Len(s4) : s5[i] = s4[i]
      /\ \A i \in 1..Len(one) : s5[Len(s4) + i] = one[i]
  BY ONLY <1>6, <1>3, PartsOfBoth
<1> HIDE DEF s5
<1>8. /\ s6 \in Seq(Nat) /\ Len(s6) = Len(s5) + Len(flags)
      /\ \A i \in 1..Len(s5) : s6[i] = s5[i]
      /\ \A i \in 1..Len(flags) : s6[Len(s5) + i] = flags[i]
  BY ONLY <1>7, flags \in Seq(Nat), PartsOfBoth
<1> HIDE DEF s6
<1>9. /\ data \in Seq(Nat) /\ Len(data) = Len(s6) + Len(body)
      /\ \A i \in 1..Len(s6) : data[i] = s6[i]
      /\ \A i \in 1..Len(body) : data[Len(s6) + i] = body[i]
  <2>1. /\ s7 \in Seq(Nat) /\ Len(s7) = Len(s6) + Len(body)
        /\ \A i \in 1..Len(s6) : s7[i] = s6[i]
        /\ \A i \in 1..Len(body) : s7[Len(s6) + i] = body[i]
    BY ONLY <1>8, body \in Seq(Nat), PartsOfBoth
  <2> HIDE DEF s7
  <2>2. QED
    BY ONLY <1>1, <2>1
<1>10. Len(length) \in Nat /\ Len(topic) \in Nat /\ Len(flags) \in Nat /\ Len(body) \in Nat
  BY LenProperties
<1>11. /\ Len(s2) = 18 /\ Len(s3) = 18 + Len(length)
       /\ Len(s4) = 18 + Len(length) + Len(topic)
       /\ Len(s5) = 19 + Len(length) + Len(topic)
       /\ Len(s6) = 19 + Len(length) + Len(topic) + Len(flags)
       /\ Len(data) = 19 + Len(length) + Len(topic) + Len(flags) + Len(body)
  BY ONLY <1>2, <1>3, <1>4, <1>5, <1>6, <1>7, <1>8, <1>9, <1>10, Len(guid) = 16
<1>12. /\ 1..18 \subseteq 1..Len(s3) /\ 1..Len(s3) \subseteq 1..Len(s4)
       /\ 1..Len(s4) \subseteq 1..Len(s5) /\ 1..Len(s5) \subseteq 1..Len(s6)
  BY ONLY <1>10, <1>11
<1>13. \A i \in 1..Len(s5) : data[i] = s5[i]
  BY ONLY <1>8, <1>9, <1>12
<1>14. \A i \in 1..Len(s4) : data[i] = s4[i]
  BY ONLY <1>13, <1>7, <1>12
<1>15. \A i \in 1..Len(s3) : data[i] = s3[i]
  BY ONLY <1>14, <1>6, <1>12
<1>16. \A i \in 1..18 : data[i] = s2[i]
  BY ONLY <1>15, <1>5, <1>11, <1>12
<1>17. ASSUME NEW i \in 1..16 PROVE data[2 + i] = guid[i]
  <2>1. 2 + i \in 1..18
    OBVIOUS
  <2>2. s2[Len(s1) + i] = guid[i]
    BY <1>4
  <2>3. data[2 + i] = s2[2 + i]
    BY <1>16, <2>1
  <2>4. QED
    BY <1>2, <2>2, <2>3
<1>18. ASSUME NEW i \in 1..Len(length) PROVE data[18 + i] = length[i]
  <2>1. 18 + i \in 1..Len(s3)
    BY ONLY <1>10, <1>11, i \in 1..Len(length)
  <2>2. QED
    BY ONLY <1>15, <1>5, <1>11, <2>1, i \in 1..Len(length)
<1>19. ASSUME NEW i \in 1..Len(topic) PROVE data[18 + Len(length) + i] = topic[i]
  <2>1. 18 + Len(length) + i \in 1..Len(s4)
    BY ONLY <1>10, <1>11, i \in 1..Len(topic)
  <2>2. QED
    BY ONLY <1>14, <1>6, <1>11, <2>1, i \in 1..Len(topic)
<1>20. data[19 + Len(length) + Len(topic)] = type
  <2>1. Len(s4) + 1 = 19 + Len(length) + Len(topic) /\ Len(s4) + 1 \in 1..Len(s5)
    BY ONLY <1>10, <1>11
  <2>2. s5[Len(s4) + 1] = type
    BY ONLY <1>3, <1>7
  <2>3. QED
    BY ONLY <1>13, <2>1, <2>2
<1>21. \A i \in 1..Len(body) :
         data[19 + Len(length) + Len(topic) + Len(flags) + i] = body[i]
  BY ONLY <1>9, <1>11
<1>22. ASSUME NEW i \in 1..Len(flags) PROVE data[19 + Len(length) + Len(topic) + i] = flags[i]
  <2>1. 19 + Len(length) + Len(topic) + i \in 1..Len(s6)
    BY ONLY <1>10, <1>11, i \in 1..Len(flags)
  <2>2. QED
    BY ONLY <1>8, <1>9, <1>11, <2>1, i \in 1..Len(flags)
<1>23. QED
  BY <1>9, <1>11, <1>17, <1>18, <1>19, <1>20, <1>21, <1>22 DEF IsLaidOut

\* A slice at the place of a part is the part.
LEMMA SliceIs ==
  ASSUME NEW data \in Seq(Nat), NEW s \in Seq(Nat), NEW at \in Nat, at + Len(s) <= Len(data),
         \A i \in 1..Len(s) : data[at + i] = s[i]
  PROVE  SubSeq(data, at + 1, at + Len(s)) = s
<1>1. Len(s) \in Nat /\ Len(data) \in Nat
  BY LenProperties
<1>2. \A i \in (at + 1)..(at + Len(s)) : data[i] \in Nat
  BY <1>1, ElementOfSeq
<1> DEFINE p == SubSeq(data, at + 1, at + Len(s))
<1>3. /\ p \in Seq(Nat)
      /\ Len(p) = IF at + 1 <= at + Len(s) THEN at + Len(s) - (at + 1) + 1 ELSE 0
      /\ \A i \in 1..(at + Len(s) - (at + 1) + 1) : p[i] = data[at + 1 + i - 1]
  BY <1>1, <1>2, SubSeqProperties, SMT
<1> HIDE DEF p
<1>4. Len(p) = Len(s)
  BY <1>1, <1>3
<1>5. \A i \in 1..Len(p) : p[i] = s[i]
  BY <1>1, <1>3, <1>4
<1>6. p = s
  BY <1>3, <1>4, <1>5, SeqEqual
<1>7. QED
  BY <1>6 DEF p

\* The bytes of a slice that the datagram has.
LEMMA SliceFacts ==
  ASSUME NEW data \in Seq(Nat), NEW at \in Nat, NEW len \in Nat, at + len <= Len(data)
  PROVE  /\ SubSeq(data, at + 1, at + len) \in Seq(Nat)
         /\ Len(SubSeq(data, at + 1, at + len)) = len
         /\ \A i \in 1..len : SubSeq(data, at + 1, at + len)[i] = data[at + i]
<1>1. Len(data) \in Nat
  BY LenProperties
<1>2. \A i \in (at + 1)..(at + len) : data[i] \in Nat
  BY <1>1, ElementOfSeq
<1> DEFINE p == SubSeq(data, at + 1, at + len)
<1>3. /\ p \in Seq(Nat)
      /\ Len(p) = IF at + 1 <= at + len THEN at + len - (at + 1) + 1 ELSE 0
      /\ \A i \in 1..(at + len - (at + 1) + 1) : p[i] = data[at + 1 + i - 1]
  BY <1>1, <1>2, SubSeqProperties, SMT
<1> HIDE DEF p
<1>4. Len(p) = len
  BY ONLY <1>3, at \in Nat, len \in Nat
<1>5. \A i \in 1..len : p[i] = data[at + i]
  BY ONLY <1>3, at \in Nat, len \in Nat
<1>6. QED
  BY <1>3, <1>4, <1>5 DEF p

\* What a C or Python node takes of a datagram: all of a short one, and the same bytes
\* in the same places.
LEMMA ReceivedFacts ==
  ASSUME NEW data \in Seq(Nat)
  PROVE  /\ Codec!Received(data) \in Seq(Nat)
         /\ Len(Codec!Received(data)) = IF Len(data) <= 512 THEN Len(data) ELSE 512
         /\ \A i \in 1..Len(Codec!Received(data)) : Codec!Received(data)[i] = data[i]
         /\ Len(data) <= 512 => Codec!Received(data) = data
<1> DEFINE size == Len(data)
           len == IF size <= 512 THEN size ELSE 512
           cut == Codec!Received(data)
<1>1. size \in Nat
  BY LenProperties
<1>2. len \in Nat /\ len <= size
  <2> HIDE DEF size
  <2>1. QED
    BY <1>1
<1>3. Codec!Min({Codec!UDP_MAX_SIZE, size}) = len
  <2> HIDE DEF size
  <2>1. QED
    BY <1>1 DEF Codec!Min, Codec!UDP_MAX_SIZE
<1>4. cut = SubSeq(data, 0 + 1, 0 + len)
  <2>1. 0 + 1 = 1 /\ 0 + len = len
    BY <1>2
  <2> HIDE DEF len
  <2>2. QED
    BY <1>3, <2>1 DEF Codec!Received
<1> HIDE DEF cut, len
<1>5. /\ cut \in Seq(Nat) /\ Len(cut) = len
      /\ \A i \in 1..len : cut[i] = data[0 + i]
  <2> DEFINE none == 0
  <2>1. none \in Nat /\ none + len <= Len(data)
    BY <1>2
  <2>2. cut = SubSeq(data, none + 1, none + len)
    BY <1>4
  <2> HIDE DEF none
  <2>3. /\ cut \in Seq(Nat) /\ Len(cut) = len
        /\ \A i \in 1..len : cut[i] = data[none + i]
    BY ONLY <1>2, <2>1, <2>2, SliceFacts, data \in Seq(Nat)
  <2>4. QED
    BY <2>3 DEF none
<1>6. \A i \in 1..len : cut[i] = data[i]
  <2>1. \A i \in 1..len : 0 + i = i
    BY <1>2
  <2>2. QED
    BY <1>5, <2>1
<1>7. ASSUME size <= 512 PROVE cut = data
  <2>1. len = size
    BY <1>7 DEF len
  <2>2. Len(cut) = Len(data) /\ \A i \in 1..Len(cut) : cut[i] = data[i]
    BY <1>5, <1>6, <2>1
  <2>3. QED
    BY <1>5, <2>2, SeqEqual
<1>8. QED
  BY <1>5, <1>6, <1>7 DEF cut, len

\* A char pointer shows bytes without a null as they are, and not those behind a
\* null.
LEMMA CStringIs ==
  ASSUME NEW s \in Seq(Nat)
  PROVE  /\ 0 \notin ToSet(s) => Codec!CString(s) = s
         /\ 0 \in ToSet(s) => Codec!CString(s) # s
         /\ Len(Codec!CString(s)) \in 0..Len(s)
         /\ \A i \in 1..Len(s) : s[i] = 0 => Len(Codec!CString(s)) < i
<1> DEFINE n == Len(s)
           ended == s \o <<0>>
           nulls == {i \in 1..Len(ended) : ended[i] = 0}
<1>1. n \in Nat /\ (\A i \in 1..n : s[i] \in Nat) /\ ToSet(s) = {s[i] : i \in 1..n}
  BY LenProperties, ElementOfSeq DEF ToSet
<1>2. /\ Len(ended) = n + 1 /\ ended[n + 1] = 0
      /\ \A i \in 1..n : ended[i] = s[i]
  <2>1. <<0>> \in Seq(Nat) /\ Len(<<0>>) = 1 /\ <<0>>[1] = 0
    OBVIOUS
  <2>2. QED
    BY <1>1, <2>1, PartsOfBoth
<1> HIDE DEF ended
<1>3. nulls \subseteq Nat /\ n + 1 \in nulls
  BY <1>1, <1>2
<1>4. Min(nulls) \in nulls /\ \A i \in nulls : Min(nulls) <= i
  BY <1>3, MinFacts
<1>5. Codec!CString(s) = SubSeq(s, 1, Min(nulls) - 1)
  BY <1>3 DEF Codec!CString, Codec!SelectInSeq, Codec!Min, Min, ended
<1> DEFINE end == Min(nulls)
<1>6. end \in 1..(n + 1) /\ ended[end] = 0 /\ end <= n + 1
  BY <1>2, <1>3, <1>4
<1>7. Codec!CString(s) = SubSeq(s, 1, end - 1)
  BY <1>5
<1>8. \A i \in 1..n : s[i] = 0 => end <= i
  BY <1>1, <1>2, <1>4
<1> HIDE DEF nulls, end
<1>9. ASSUME 0 \notin ToSet(s) PROVE Codec!CString(s) = s
  <2>1. end = n + 1
    BY <1>1, <1>2, <1>6, <1>9
  <2>2. SubSeq(s, 0 + 1, 0 + Len(s)) = s
    BY <1>1, SliceIs
  <2>3. QED
    BY <1>1, <1>7, <2>1, <2>2
<1>10. Len(Codec!CString(s)) = end - 1
  <2>1. \A j \in 1..(end - 1) : s[j] \in Nat
    BY <1>1, <1>6
  <2>2. Len(SubSeq(s, 1, end - 1)) = IF 1 <= end - 1 THEN end - 1 - 1 + 1 ELSE 0
    BY <1>6, <2>1, SubSeqProperties, SMT
  <2>3. QED
    BY <1>6, <1>7, <2>2
<1>11. ASSUME 0 \in ToSet(s) PROVE Codec!CString(s) # s
  <2>1. PICK i \in 1..n : s[i] = 0
    BY <1>1, <1>11
  <2>2. Len(Codec!CString(s)) < Len(s) /\ Len(s) \in Nat
    BY <1>1, <1>6, <1>8, <1>10, <2>1
  <2> SUFFICES ASSUME Codec!CString(s) = s PROVE FALSE
    OBVIOUS
  <2>3. Len(s) < Len(s) /\ Len(s) \in Nat
    BY <2>2
  <2>4. QED
    BY ONLY <2>3
<1>12. Len(Codec!CString(s)) \in 0..n /\ \A i \in 1..n : s[i] = 0 => Len(Codec!CString(s)) < i
  BY <1>1, <1>6, <1>8, <1>10
<1>13. QED
  BY <1>9, <1>11, <1>12

\* Bytes without a null behind bytes without a null are shown as well.
LEMMA BothAreShown ==
  ASSUME NEW x \in Seq(Nat), 0 \notin ToSet(x), NEW y \in Seq(Nat), 0 \notin ToSet(y)
  PROVE  Codec!CString(x \o y) = x \o y
<1> DEFINE both == x \o y
           n == Len(x)
           k == Len(y)
<1>1. /\ n \in Nat /\ k \in Nat /\ ToSet(x) = {x[i] : i \in 1..n} /\ ToSet(y) = {y[i] : i \in 1..k}
  BY LenProperties DEF ToSet
<1>2. /\ both \in Seq(Nat) /\ Len(both) = n + k
      /\ \A i \in 1..n : both[i] = x[i]
      /\ \A i \in 1..k : both[n + i] = y[i]
  BY PartsOfBoth
<1> HIDE DEF both, n, k
<1>3. DOMAIN both = 1..(n + k)
  BY <1>2, LenProperties
<1>4. ASSUME NEW i \in 1..(n + k) PROVE both[i] # 0
  <2>1. CASE i <= n
    <3>1. i \in 1..n
      BY <1>1, <2>1
    <3>2. QED
      BY <1>1, <1>2, <3>1
  <2>2. CASE n < i
    <3> DEFINE j == i - n
    <3>1. j \in 1..k /\ n + j = i
      BY <1>1, <2>2
    <3> HIDE DEF j
    <3>2. QED
      BY <1>1, <1>2, <3>1
  <2>3. QED
    BY <1>1, <2>1, <2>2
<1>5. 0 \notin ToSet(both)
  BY <1>3, <1>4 DEF ToSet
<1>6. Codec!CString(both) = both
  BY <1>2, <1>5, CStringIs
<1>7. QED
  BY <1>6 DEF both

\* What the stack shows behind a topic has no null byte.
LEMMA RestFacts ==
  ASSUME NEW rest \in Leftover
  PROVE  rest \in Seq(Nat) /\ 0 \notin ToSet(rest) /\ Codec!CString(rest) = rest
<1> DEFINE letters == 1..255
<1>1. rest \in Seq(letters)
  BY WireAssumption DEF Codec!MessagesFit
<1>2. letters \subseteq Nat /\ 0 \notin letters
  OBVIOUS
<1> HIDE DEF letters
<1>3. rest \in Seq(Nat)
  BY ONLY <1>1, <1>2, SeqMonotonic
<1>4. \A i \in 1..Len(rest) : rest[i] \in letters
  BY ONLY <1>1, ElementOfSeq
<1>5. 0 \notin ToSet(rest)
  BY <1>2, <1>4 DEF ToSet
<1>6. QED
  BY <1>3, <1>5, CStringIs

\* What a message is, as MessagesFit has it.
LEMMA MessageFacts ==
  ASSUME NEW m \in Message
  PROVE  /\ m # Pending /\ m.from \in {"cpp", "c", "python"} /\ m.type \in {1, 2}
         /\ m.topic \in Seq(Nat) /\ Len(m.topic) \in Nat /\ Len(m.topic) > 0
         /\ m.address \in Seq(Nat) /\ Len(m.address) \in 1..267 /\ 0 \notin ToSet(m.address)
         /\ m.from = "cpp" => Len(m.topic) < 256 * 256
         /\ m.from # "cpp" => /\ Len(m.topic) < 256 /\ Len(m.topic) <= 193
                              /\ \A i \in 1..Len(m.topic) : m.topic[i] >= 2
                              /\ 0 \notin ToSet(m.topic)
<1>1. /\ m # Pending
      /\ m \in [from : {"cpp", "c", "python"}, type : {1, 2},
                topic : Seq(0..255), address : Seq(1..255)]
      /\ m.topic # <<>> /\ m.address # <<>> /\ Len(m.address) <= 267
      /\ m.from = "cpp" => Len(m.topic) < 256 * 256
      /\ m.from # "cpp" => /\ m.topic \in Seq(2..255)
                           /\ Len(m.topic) <= IF m.from = "c" THEN 193 ELSE 192
  BY WireAssumption DEF Codec!MessagesFit, Codec!Readers, Codec!ADV, Codec!SUB
<1>2. /\ m.from \in {"cpp", "c", "python"} /\ m.type \in {1, 2}
      /\ m.topic \in Seq(0..255) /\ m.address \in Seq(1..255)
  BY <1>1
<1> DEFINE bytes == 0..255
           letters == 1..255
           others == 2..255
<1>3. bytes \subseteq Nat /\ letters \subseteq Nat /\ 0 \notin letters
      /\ 0 \notin others /\ \A b \in others : b >= 2
  OBVIOUS
<1>4. /\ m.topic \in Seq(bytes) /\ m.address \in Seq(letters)
      /\ m.from # "cpp" => m.topic \in Seq(others)
  BY <1>1, <1>2
<1> HIDE DEF bytes, letters, others
<1>5. m.topic \in Seq(Nat) /\ m.address \in Seq(Nat)
  BY ONLY <1>3, <1>4, SeqMonotonic
<1>6. /\ \A i \in 1..Len(m.address) : m.address[i] \in letters
      /\ m.from # "cpp" => \A i \in 1..Len(m.topic) : m.topic[i] \in others
  BY ONLY <1>4, ElementOfSeq
<1>7. /\ ToSet(m.address) = {m.address[i] : i \in 1..Len(m.address)}
      /\ ToSet(m.topic) = {m.topic[i] : i \in 1..Len(m.topic)}
  BY <1>5 DEF ToSet
<1>8. 0 \notin ToSet(m.address)
  BY ONLY <1>3, <1>6, <1>7
<1>9. m.from # "cpp" => /\ 0 \notin ToSet(m.topic)
                        /\ \A i \in 1..Len(m.topic) : m.topic[i] >= 2
  BY ONLY <1>3, <1>6, <1>7
<1>10. Len(m.topic) \in Nat /\ Len(m.address) \in Nat
  BY <1>5, LenProperties
<1>11. Len(m.topic) # 0 /\ Len(m.address) # 0
  BY <1>1, <1>5, EmptySeq
<1>12. Len(m.topic) > 0 /\ Len(m.address) \in 1..267
  <2>1. Len(m.address) <= 267
    BY <1>1
  <2> DEFINE size == Len(m.address)
             length == Len(m.topic)
  <2>2. size \in Nat /\ size <= 267 /\ size # 0 /\ length \in Nat /\ length # 0
    BY <1>10, <1>11, <2>1
  <2> HIDE DEF size, length
  <2>3. length > 0 /\ size \in 1..267
    BY ONLY <2>2
  <2>4. QED
    BY <2>3 DEF size, length
<1>13. m.from # "cpp" => Len(m.topic) <= 193 /\ Len(m.topic) < 256
  <2> DEFINE length == Len(m.topic)
             most == IF m.from = "c" THEN 193 ELSE 192
  <2>1. length \in Nat /\ (m.from # "cpp" => length <= most) /\ most \in {192, 193}
    BY <1>1, <1>10
  <2> HIDE DEF length, most
  <2>2. m.from # "cpp" => length <= 193 /\ length < 256
    BY ONLY <2>1
  <2>3. QED
    BY <2>2 DEF length
<1>14. QED
  BY <1>1, <1>2, <1>5, <1>8, <1>9, <1>10, <1>12, <1>13

\* The body of a message.
Body(m) == IF m.type = 1 THEN Codec!TwoBytes(Len(m.address)) \o m.address ELSE <<>>

\* It is the address with its length, or nothing.
LEMMA BodyFacts ==
  ASSUME NEW m \in Message
  PROVE  /\ Body(m) \in Seq(Nat)
         /\ Len(Body(m)) = IF m.type = 1 THEN 2 + Len(m.address) ELSE 0
         /\ m.type = 1 => /\ Body(m)[1] \in 0..255 /\ Body(m)[2] \in 0..255
                          /\ Body(m)[1] + 256 * Body(m)[2] = Len(m.address)
                          /\ \A i \in 1..Len(m.address) : Body(m)[2 + i] = m.address[i]
<1> DEFINE n == Len(m.address)
           size == Codec!TwoBytes(n)
           body == size \o m.address
<1>1. m.address \in Seq(Nat) /\ Len(m.address) \in 1..267
  BY MessageFacts
<1> HIDE DEF n
<1>2. n \in Nat /\ n < 256 * 256 /\ Len(m.address) = n
  <2>1. n \in 1..267 /\ Len(m.address) = n
    BY <1>1 DEF n
  <2>2. QED
    BY ONLY <2>1
<1>3. /\ size \in Seq(Nat) /\ Len(size) = 2 /\ size[1] + 256 * size[2] = n
      /\ size[1] \in 0..255 /\ size[2] \in 0..255
  BY <1>2, TwoBytesFacts
<1> HIDE DEF size
<1>4. /\ body \in Seq(Nat) /\ Len(body) = Len(size) + Len(m.address)
      /\ \A i \in 1..Len(size) : body[i] = size[i]
      /\ \A i \in 1..Len(m.address) : body[Len(size) + i] = m.address[i]
  BY <1>1, <1>3, PartsOfBoth
<1> HIDE DEF body
<1>5. /\ body \in Seq(Nat) /\ Len(body) = 2 + n /\ body[1] + 256 * body[2] = n
      /\ body[1] \in 0..255 /\ body[2] \in 0..255
      /\ \A i \in 1..n : body[2 + i] = m.address[i]
  <2>1. Len(body) = 2 + n /\ body[1] = size[1] /\ body[2] = size[2]
    BY ONLY <1>2, <1>3, <1>4
  <2>2. body[1] + 256 * body[2] = n /\ body[1] \in 0..255 /\ body[2] \in 0..255
    BY ONLY <1>3, <2>1
  <2>3. \A i \in 1..n : body[2 + i] = m.address[i]
    BY ONLY <1>2, <1>3, <1>4
  <2>4. QED
    BY ONLY <1>4, <2>1, <2>2, <2>3
<1>6. CASE m.type = 1
  <2>1. Body(m) = body
    BY <1>6 DEF Body, body, size, n
  <2>2. QED
    BY <1>5, <1>6, <2>1 DEF n
<1>7. CASE m.type # 1
  BY <1>7, EmptySeq DEF Body
<1>8. QED
  BY <1>6, <1>7

\* The GUID of the model, and the same from behind.
LEMMA GuidFacts ==
  /\ Codec!Guid \in Seq(Nat) /\ Len(Codec!Guid) = 16
  /\ Codec!Reverse(Codec!Guid) \in Seq(Nat) /\ Len(Codec!Reverse(Codec!Guid)) = 16
  /\ Codec!Reverse(Codec!Reverse(Codec!Guid)) = Codec!Guid
  /\ Codec!Reverse(Codec!Guid) # Codec!Guid
<1> DEFINE guid == Codec!Guid
           turned == Codec!Reverse(guid)
<1>1. guid \in [1..16 -> Nat] /\ \A i \in 1..16 : guid[i] = 100 + i
  BY DEF Codec!Guid
<1>2. guid \in Seq(Nat) /\ Len(guid) = 16
  <2> DEFINE width == 16
  <2>1. width \in Nat /\ guid \in [1..width -> Nat]
    BY <1>1
  <2> HIDE DEF width, guid
  <2>2. guid \in Seq(Nat) /\ Len(guid) = width
    BY ONLY <2>1, FunctionIsSeq
  <2>3. QED
    BY <2>2 DEF width
<1> HIDE DEF guid
<1>3. turned = [i \in 1..16 |-> guid[(16 - i) + 1]]
  BY <1>2 DEF Codec!Reverse
<1>4. turned \in [1..16 -> Nat] /\ \A i \in 1..16 : turned[i] = guid[(16 - i) + 1]
  BY <1>1, <1>3
<1>5. turned \in Seq(Nat) /\ Len(turned) = 16
  <2> DEFINE width == 16
  <2>1. width \in Nat /\ turned \in [1..width -> Nat]
    BY <1>4
  <2> HIDE DEF width, turned
  <2>2. turned \in Seq(Nat) /\ Len(turned) = width
    BY ONLY <2>1, FunctionIsSeq
  <2>3. QED
    BY <2>2 DEF width
<1> HIDE DEF turned
<1>6. Codec!Reverse(turned) = [i \in 1..16 |-> turned[(16 - i) + 1]]
  BY <1>5 DEF Codec!Reverse
<1>7. \A i \in 1..16 : turned[(16 - i) + 1] = guid[i]
  BY <1>4
<1>8. Codec!Reverse(turned) = guid
  BY <1>1, <1>6, <1>7
<1>9. turned[1] = 116 /\ guid[1] = 101
  BY <1>1, <1>4
<1>10. QED
  BY <1>2, <1>5, <1>8, <1>9 DEF guid, turned

\* Flags that are not set.
NoFlags == [i \in 1..16 |-> 0]

\* What C and Python nodes write.
LEMMA ShortIsWritten ==
  ASSUME NEW m \in Message, m.from # "cpp"
  PROVE  /\ Codec!serialize_adv_msg(m) =
              Datagram(Codec!Guid, <<Len(m.topic)>>, m.topic, m.type, NoFlags, Body(m))
         /\ Codec!PyPack(m) =
              Datagram(Codec!Reverse(Codec!Guid), <<Len(m.topic)>>, m.topic, m.type, NoFlags,
                       Body(m))
<1>1. m.topic \in Seq(Nat) /\ Len(m.topic) \in Nat /\ Len(m.topic) < 256
  BY MessageFacts
<1>2. Codec!Low(Len(m.topic)) = Len(m.topic)
  <2> DEFINE n == Len(m.topic)
  <2>1. n \in Nat /\ n < 256
    BY <1>1
  <2> HIDE DEF n
  <2>2. n % 256 = n
    BY ONLY <2>1
  <2>3. QED
    BY <2>2 DEF Codec!Low, n
<1>3. SubSeq(m.topic, 0 + 1, 0 + Len(m.topic)) = m.topic
  BY <1>1, SliceIs
<1>4. SubSeq(m.topic, 1, Len(m.topic)) = m.topic
  BY <1>1, <1>3
<1>5. QED
  BY <1>2, <1>4 DEF Codec!serialize_adv_msg, Codec!serialize_msg_header, Codec!PyPack, Codec!ADV,
     Datagram, Body, NoFlags

\* What C++ nodes write.
LEMMA LongIsWritten ==
  ASSUME NEW m \in Message, m.from = "cpp"
  PROVE  Codec!CppPack(m) =
           Datagram(Codec!Guid, Codec!TwoBytes(Len(m.topic)), m.topic, m.type,
                    Codec!TwoBytes(0), Body(m))
<1>1. m.topic \in Seq(Nat) /\ Len(m.topic) \in Nat /\ Len(m.topic) < 256 * 256
  BY MessageFacts
<1>2. Len(m.topic) % (256 * 256) = Len(m.topic)
  <2> DEFINE n == Len(m.topic)
  <2>1. n \in Nat /\ n < 256 * 256
    BY <1>1
  <2> HIDE DEF n
  <2>2. n % (256 * 256) = n
    BY ONLY <2>1, SMT
  <2>3. QED
    BY <2>2 DEF n
<1>3. SubSeq(m.topic, 0 + 1, 0 + Len(m.topic)) = m.topic
  BY <1>1, SliceIs
<1>4. SubSeq(m.topic, 1, Len(m.topic)) = m.topic
  BY <1>1, <1>3
<1>5. QED
  BY <1>2, <1>4 DEF Codec!CppPack, Codec!CppHeader, Codec!ADV, Datagram, Body

\* A datagram of a C or Python node, by what is where in it.
IsShort(data, guid, topic, type, body) ==
  /\ data \in Seq(Nat) /\ Len(data) = (36 + Len(topic)) + Len(body)
  /\ SubSeq(data, 3, 18) = guid
  /\ data[19] = Len(topic)
  /\ SubSeq(data, 20, 19 + Len(topic)) = topic
  /\ \A i \in 1..Len(topic) : data[19 + i] = topic[i]
  /\ data[20 + Len(topic)] = type
  /\ \A i \in 1..Len(body) : data[(36 + Len(topic)) + i] = body[i]

\* What C and Python nodes write is one.
LEMMA ShortFields ==
  ASSUME NEW guid \in Seq(Nat), Len(guid) = 16, NEW topic \in Seq(Nat), NEW type \in Nat,
         NEW body \in Seq(Nat), NEW data,
         data = Datagram(guid, <<Len(topic)>>, topic, type, NoFlags, body)
  PROVE  IsShort(data, guid, topic, type, body)
<1> DEFINE n == Len(topic)
           e == Len(body)
           one == <<n>>
<1>1. n \in Nat /\ e \in Nat
  BY LenProperties
<1>2. NoFlags \in Seq(Nat) /\ Len(NoFlags) = 16
  <2> DEFINE width == 16
  <2>1. width \in Nat /\ NoFlags \in [1..width -> Nat]
    BY DEF NoFlags
  <2> HIDE DEF width
  <2>2. NoFlags \in Seq(Nat) /\ Len(NoFlags) = width
    BY ONLY <2>1, FunctionIsSeq
  <2>3. QED
    BY <2>2 DEF width
<1>3. one \in Seq(Nat) /\ Len(one) = 1 /\ one[1] = n
  BY <1>1
<1>4. data = Datagram(guid, one, topic, type, NoFlags, body)
  OBVIOUS
<1> HIDE DEF one
<1>5. Len(topic) = n /\ Len(body) = e
  OBVIOUS
<1> HIDE DEF n, e
<1>6. /\ data \in Seq(Nat)
      /\ Len(data) = 19 + Len(one) + Len(topic) + Len(NoFlags) + Len(body)
      /\ \A i \in 1..16 : data[2 + i] = guid[i]
      /\ \A i \in 1..Len(one) : data[18 + i] = one[i]
      /\ \A i \in 1..Len(topic) : data[18 + Len(one) + i] = topic[i]
      /\ data[19 + Len(one) + Len(topic)] = type
      /\ \A i \in 1..Len(body) :
             data[19 + Len(one) + Len(topic) + Len(NoFlags) + i] = body[i]
  <2>1. IsLaidOut(data, guid, one, topic, type, NoFlags, body)
    BY ONLY <1>2, <1>3, <1>4, guid \in Seq(Nat), Len(guid) = 16, topic \in Seq(Nat), type \in Nat,
            body \in Seq(Nat), Layout
  <2>2. QED
    BY ONLY <2>1 DEF IsLaidOut
<1>7. Len(data) = (36 + n) + e
  BY ONLY <1>1, <1>2, <1>3, <1>6, <1>5
<1>8. data[19] = n
  BY ONLY <1>3, <1>6
<1>9. \A i \in 1..n : data[19 + i] = topic[i]
  BY ONLY <1>3, <1>6, <1>5
<1>10. data[20 + n] = type
  <2>1. data[19 + 1 + n] = type
    BY ONLY <1>3, <1>6, <1>5
  <2>2. QED
    BY ONLY <1>1, <2>1
<1>11. \A i \in 1..e : data[(36 + n) + i] = body[i]
  <2>1. \A i \in 1..e : data[19 + 1 + n + 16 + i] = body[i]
    BY ONLY <1>2, <1>3, <1>6, <1>5
  <2>2. \A i \in 1..e : 19 + 1 + n + 16 + i = (36 + n) + i
    BY ONLY <1>1
  <2>3. QED
    BY ONLY <2>1, <2>2
<1>12. SubSeq(data, 3, 18) = guid
  <2> DEFINE two == 2
  <2>1. two \in Nat /\ two + Len(guid) <= Len(data) /\ two + 1 = 3 /\ two + Len(guid) = 18
    BY <1>1, <1>7
  <2>2. \A i \in 1..Len(guid) : data[two + i] = guid[i]
    BY <1>6
  <2> HIDE DEF two
  <2>3. SubSeq(data, two + 1, two + Len(guid)) = guid
    BY ONLY <1>6, <2>1, <2>2, guid \in Seq(Nat), SliceIs
  <2>4. QED
    BY <2>1, <2>3
<1>13. SubSeq(data, 20, 19 + n) = topic
  <2> DEFINE front == 19
  <2>1. front \in Nat /\ front + Len(topic) <= Len(data) /\ front + 1 = 20
    BY <1>1, <1>5, <1>7
  <2>2. \A i \in 1..Len(topic) : data[front + i] = topic[i]
    BY <1>5, <1>9
  <2>3. front + Len(topic) = 19 + n
    BY <1>5
  <2> HIDE DEF front
  <2>4. SubSeq(data, front + 1, front + Len(topic)) = topic
    BY ONLY <1>6, <2>1, <2>2, topic \in Seq(Nat), SliceIs
  <2>5. QED
    BY <2>1, <2>3, <2>4
<1>14. QED
  BY <1>6, <1>5, <1>7, <1>8, <1>9, <1>10, <1>11, <1>12, <1>13 DEF IsShort

\* What is read behind the header of a message of type ADV.
LEMMA AddressIsRead ==
  ASSUME NEW m \in Message, m.type = 1, NEW data \in Seq(Nat), NEW at \in Nat,
         Len(data) = at + Len(Body(m)),
         \A i \in 1..Len(Body(m)) : data[at + i] = Body(m)[i]
  PROVE  /\ Codec!ValueAt(data, at) = Len(m.address)
         /\ Len(data) = at + (2 + Len(m.address))
         /\ SubSeq(data, at + 3, (at + 2) + Len(m.address)) = m.address
<1> DEFINE k == Len(m.address)
           address == m.address
           body == Body(m)
<1>1. k \in 1..267 /\ address \in Seq(Nat)
  BY MessageFacts
<1>2. /\ Len(body) = 2 + k /\ body[1] + 256 * body[2] = k
      /\ \A i \in 1..k : body[2 + i] = address[i]
  BY BodyFacts
<1>3. Len(data) = at + Len(body) /\ \A i \in 1..Len(body) : data[at + i] = body[i]
  OBVIOUS
<1>4. Len(address) = k
  OBVIOUS
<1> HIDE DEF k, address, body
<1>5. k \in Nat
  BY ONLY <1>1
<1>6. data[at + 1] = body[1] /\ data[at + 2] = body[2]
  BY ONLY <1>2, <1>3, <1>5
<1>7. ASSUME NEW i \in 1..k PROVE data[(at + 2) + i] = address[i]
  <2>1. 2 + i \in 1..(2 + k) /\ at + (2 + i) = (at + 2) + i
    BY <1>5
  <2>2. data[at + (2 + i)] = body[2 + i]
    BY ONLY <1>2, <1>3, <2>1
  <2>3. QED
    BY <1>2, <2>1, <2>2
<1>8. at + 2 \in Nat /\ (at + 2) + k <= Len(data) /\ (at + 2) + 1 = at + 3
  BY <1>2, <1>3, <1>5
<1>9. SubSeq(data, (at + 2) + 1, (at + 2) + Len(address)) = address
  BY ONLY <1>1, <1>4, <1>7, <1>8, data \in Seq(Nat), SliceIs
<1>10. Codec!ValueAt(data, at) = k
  BY <1>2, <1>6 DEF Codec!ValueAt
<1>11. SubSeq(data, at + 3, (at + 2) + k) = address
  BY <1>4, <1>8, <1>9
<1>12. QED
  BY <1>2, <1>3, <1>10, <1>11 DEF k, address

\* The address a message of type ADV carries; others carry none.
Carried(m) == IF m.type = 1 THEN m.address ELSE <<>>

\* The records that C nodes make of a header and of a body.
LEMMA HeaderFacts ==
  /\ \A guid, topic, type, size :
       LET header == [guid |-> guid, topic |-> topic, type |-> type, size |-> size] IN
       /\ ~Codec!Failure(header)
       /\ header.guid = guid /\ header.topic = topic /\ header.type = type
       /\ header.size = size
  /\ \A addr : ~Codec!Failure([addr |-> addr]) /\ [addr |-> addr].addr = addr
  /\ \A how : Codec!Failure(Codec!Failed(how))
  BY DEF Codec!Failure, Codec!Failed

\* What C, Python and C++ nodes make of a datagram of a C or Python node, which they
\* receive as it was sent.
LEMMA ShortIsRead ==
  ASSUME NEW m \in Message, m.from # "cpp", NEW guid \in Seq(Nat), Len(guid) = 16, NEW data,
         data = Datagram(guid, <<Len(m.topic)>>, m.topic, m.type, NoFlags, Body(m))
  PROVE  /\ data # <<>>
         /\ Codec!Received(data) = data /\ ~Codec!Overruns(data)
         /\ \A rest \in Leftover :
              Codec!deserialize(data, rest) =
                Codec!Understood(guid, m.topic \o rest, m.type, Carried(m))
         /\ Codec!PyUnpack(data) =
              Codec!Understood(Codec!Reverse(guid), m.topic, m.type, Carried(m))
         /\ Codec!CppUnpack(data) = Codec!Failed("past_end")
<1> DEFINE n == Len(m.topic)
           k == Len(m.address)
           e == Len(Body(m))
           topic == m.topic
           address == m.address
           body == Body(m)
           at == 36 + n
<1>1. /\ topic \in Seq(Nat) /\ n \in Nat /\ 0 < n /\ n <= 193 /\ m.type \in {1, 2}
      /\ address \in Seq(Nat) /\ k \in 1..267
      /\ 0 \notin ToSet(topic) /\ 0 \notin ToSet(address) /\ topic[1] >= 2
  <2>1. /\ m.topic \in Seq(Nat) /\ Len(m.topic) \in Nat /\ Len(m.topic) > 0
        /\ m.type \in {1, 2}
        /\ m.address \in Seq(Nat) /\ Len(m.address) \in 1..267 /\ 0 \notin ToSet(m.address)
    BY MessageFacts
  <2>2. /\ Len(m.topic) <= 193 /\ 0 \notin ToSet(m.topic)
        /\ \A i \in 1..Len(m.topic) : m.topic[i] >= 2
    BY MessageFacts
  <2>3. 1 \in 1..Len(m.topic)
    BY <2>1
  <2>4. m.topic[1] >= 2
    BY <2>2, <2>3
  <2>5. QED
    BY <2>1, <2>2, <2>4
<1>2. body \in Seq(Nat) /\ e = IF m.type = 1 THEN 2 + k ELSE 0
  BY BodyFacts
<1>3. /\ data \in Seq(Nat) /\ Len(data) = at + e
      /\ SubSeq(data, 3, 18) = guid
      /\ data[19] = n
      /\ SubSeq(data, 20, 19 + n) = topic
      /\ \A i \in 1..n : data[19 + i] = topic[i]
      /\ data[20 + n] = m.type
      /\ \A i \in 1..e : data[at + i] = body[i]
  <2>1. data = Datagram(guid, <<Len(topic)>>, topic, m.type, NoFlags, body) /\ m.type \in Nat
    BY <1>1
  <2>2. n = Len(topic) /\ e = Len(body)
    OBVIOUS
  <2> HIDE DEF n, e, topic, body
  <2>3. IsShort(data, guid, topic, m.type, body)
    BY ONLY <1>1, <1>2, <2>1, guid \in Seq(Nat), Len(guid) = 16, ShortFields
  <2>4. QED
    BY ONLY <2>2, <2>3 DEF IsShort, at
<1>4. e \in Nat /\ e <= 269
  <2> HIDE DEF e, k, n, topic, address, body
  <2>1. CASE m.type = 1
    BY <1>1, <1>2, <2>1
  <2>2. CASE m.type # 1
    BY <1>2, <2>2
  <2>3. QED
    BY <2>1, <2>2
<1>5. at \in Nat /\ at > 36
  BY <1>1
<1>6. m.type = 1 => /\ Codec!ValueAt(data, at) = k
                    /\ Len(data) = at + (2 + k)
                    /\ SubSeq(data, at + 3, (at + 2) + k) = address
  BY <1>3, <1>5, AddressIsRead
<1> HIDE DEF n, k, e, topic, address, body
<1>7. topic[1] \in Nat
  BY ONLY <1>1, ElementOfSeq, n = Len(topic) DEF n, topic
<1>8. Codec!CString(topic) = topic /\ Codec!CString(address) = address
  BY <1>1, CStringIs
<1>9. data # <<>>
  BY <1>3, <1>4, <1>5, EmptySeq
<1>10. 36 + data[19] = at /\ 20 + data[19] = 20 + n /\ 19 + data[19] = 19 + n
  BY <1>3
<1> HIDE DEF at
<1>11. m.type = 1 => Carried(m) = address
  BY DEF Carried, address
<1>12. m.type # 1 => Carried(m) = <<>>
  BY DEF Carried
<1>13. /\ Codec!HasBytes(data, 0, 20) /\ Codec!HasBytes(data, 0, at) /\ Codec!HasBytes(data, 0, 19)
       /\ m.type = 1 => /\ Codec!HasBytes(data, at, 3) /\ Codec!HasBytes(data, at, 2)
                        /\ Codec!HasBytes(data, at + 2, k)
  <2>1. Len(data) = at + e /\ k \in Nat /\ k >= 1
    <3>1. k \in 1..267
      BY <1>1
    <3>2. k \in Nat /\ k >= 1
      BY ONLY <3>1
    <3>3. QED
      BY <1>3, <3>2
  <2>2. m.type = 1 => Len(data) = at + (2 + k)
    BY <1>6
  <2>3. 0 + 20 <= Len(data) /\ 0 + at <= Len(data) /\ 0 + 19 <= Len(data)
    BY ONLY <1>4, <1>5, <2>1
  <2>4. m.type = 1 => /\ at + 3 <= Len(data) /\ at + 2 <= Len(data)
                      /\ (at + 2) + k <= Len(data)
    BY ONLY <1>5, <2>1, <2>2
  <2>5. QED
    BY <2>3, <2>4 DEF Codec!HasBytes
<1>14. /\ Codec!Slice(data, 2, 16) = guid /\ Codec!Slice(data, 19, n) = topic
       /\ m.type = 1 => Codec!Slice(data, at + 2, k) = address
  <2>1. 2 + 1 = 3 /\ 2 + 16 = 18 /\ 19 + 1 = 20 /\ (at + 2) + 1 = at + 3
    BY <1>5
  <2>2. QED
    BY <1>3, <1>6, <2>1 DEF Codec!Slice
<1>15. ASSUME NEW rest \in Leftover
       PROVE  Codec!deserialize(data, rest) =
                Codec!Understood(guid, topic \o rest, m.type, Carried(m))
  <2> DEFINE shown == topic \o rest
             header == [guid |-> guid, topic |-> shown, type |-> m.type, size |-> at]
  <2>1. Codec!CString(shown) = shown
    BY <1>1, <1>15, RestFacts, BothAreShown
  <2> HIDE DEF shown
  <2>2. Codec!Min({n, Codec!DZMQ_MAX_TOPIC_LENGTH}) = n /\ n < Codec!DZMQ_MAX_TOPIC_LENGTH
    <3>1. n \in Nat /\ n <= 193
      BY <1>1
    <3>2. QED
      BY ONLY <3>1 DEF Codec!Min, Codec!DZMQ_MAX_TOPIC_LENGTH
  <2>3. Codec!deserialize_msg_header(data, rest) = header
    <3>1. data[19] = n /\ data[20 + n] = m.type
      BY <1>3
    <3> DEFINE max == Codec!DZMQ_MAX_TOPIC_LENGTH
    <3>2. Codec!CString(Codec!Slice(data, 19, Codec!Min({n, max})) \o rest) = shown
      BY <1>14, <2>1, <2>2 DEF shown
    <3>3. n < max
      BY <2>2
    <3> HIDE DEF max
    <3>4. Codec!deserialize_msg_header(data, rest) =
            [guid |-> Codec!Slice(data, 2, 16),
             topic |-> Codec!CString(Codec!Slice(data, 19, Codec!Min({n, max})) \o rest),
             type |-> data[20 + n], size |-> at]
      BY <1>10, <1>13, <3>1, <3>3 DEF Codec!deserialize_msg_header, max
    <3>5. QED
      BY <1>14, <3>1, <3>2, <3>4
  <2>4. /\ ~Codec!Failure(header) /\ header.guid = guid /\ header.topic = shown
        /\ header.type = m.type /\ header.size = at
    BY HeaderFacts
  <2> HIDE DEF header
  <2>5. CASE m.type = 1
    <3>1. Codec!deserialize_adv_msg(data, at) = [addr |-> address]
      BY <1>6, <1>8, <1>13, <1>14, <2>5 DEF Codec!deserialize_adv_msg
    <3>2. Codec!deserialize(data, rest) = Codec!Understood(guid, shown, m.type, address)
      BY <2>3, <2>4, <2>5, <3>1, HeaderFacts DEF Codec!deserialize, Codec!ADV
    <3>3. QED
      BY <1>11, <2>5, <3>2 DEF shown
  <2>6. CASE m.type # 1
    <3>1. Codec!deserialize(data, rest) = Codec!Understood(guid, shown, m.type, <<>>)
      BY <2>3, <2>4, <2>6 DEF Codec!deserialize, Codec!ADV
    <3>2. QED
      BY <1>12, <2>6, <3>1 DEF shown
  <2>7. QED
    BY <2>5, <2>6
<1>16. ~Codec!Overruns(data)
  <2>1. n \in Nat /\ n <= 193 /\ k \in 1..267 /\ data[19] = n /\ data[20 + n] = m.type
    BY <1>1, <1>3
  <2>2. ~(n > Codec!DZMQ_MAX_TOPIC_LENGTH)
    BY ONLY <2>1 DEF Codec!DZMQ_MAX_TOPIC_LENGTH
  <2>3. m.type = 1 => ~(Codec!ValueAt(data, at) >= Codec!DZMQ_MAX_ADDR_LENGTH)
    <3>1. m.type = 1 => Codec!ValueAt(data, at) = k
      BY <1>6
    <3>2. ~(k >= Codec!DZMQ_MAX_ADDR_LENGTH)
      BY ONLY <2>1 DEF Codec!DZMQ_MAX_ADDR_LENGTH
    <3>3. QED
      BY <3>1, <3>2
  <2>4. QED
    BY <1>10, <2>1, <2>2, <2>3 DEF Codec!Overruns, Codec!ADV
<1>17. Codec!Received(data) = data
  <2>1. n \in Nat /\ n <= 193 /\ Len(data) = (36 + n) + e /\ data \in Seq(Nat)
    BY <1>1, <1>3 DEF at
  <2>2. Len(data) <= 512
    BY ONLY <1>4, <2>1
  <2>3. QED
    BY <2>1, <2>2, ReceivedFacts
<1>18. Codec!PyUnpack(data) =
         Codec!Understood(Codec!Reverse(guid), topic, m.type, Carried(m))
  <2>1. Codec!Min({19 + n, Len(data)}) = 19 + n
    <3>1. 19 + n \in Nat /\ Len(data) \in Nat /\ 19 + n <= Len(data)
      <4>1. n \in Nat /\ Len(data) = (36 + n) + e
        BY <1>1, <1>3 DEF at
      <4>2. QED
        BY ONLY <4>1, <1>4
    <3>2. QED
      BY ONLY <3>1 DEF Codec!Min
  <2>2. CASE m.type = 1
    <3>1. Codec!Min({(at + 2) + k, Len(data)}) = (at + 2) + k
      <4>1. (at + 2) + k = Len(data) /\ Len(data) \in Nat
        BY <1>1, <1>3, <1>5, <1>6, <2>2
      <4>2. QED
        BY ONLY <4>1 DEF Codec!Min
    <3>2. QED
      BY <2>1, <2>2, <3>1, <1>3, <1>6, <1>10, <1>11, <1>13, <1>14 DEF Codec!PyUnpack, Codec!ADV
  <2>3. CASE m.type # 1
    BY <2>1, <2>3, <1>3, <1>10, <1>12, <1>13, <1>14 DEF Codec!PyUnpack, Codec!ADV
  <2>4. QED
    BY <2>2, <2>3
<1>19. Codec!CppUnpack(data) = Codec!Failed("past_end")
  <2> DEFINE length == data[19] + 256 * data[20]
  <2>1. data[20] = topic[1]
    <3>1. data[19 + 1] = topic[1]
      <4>1. 1 \in 1..n
        BY <1>1
      <4>2. QED
        BY <1>3, <4>1
    <3>2. QED
      BY <3>1
  <2>2. length >= n + 512 /\ length \in Nat
    <3>1. data[19] = n /\ n \in Nat /\ topic[1] >= 2
      BY <1>1, <1>3
    <3>2. QED
      BY ONLY <2>1, <3>1, <1>7 DEF length
  <2>3. Codec!ValueAt(data, 18) = length
    BY DEF Codec!ValueAt
  <2> HIDE DEF length
  <2>4. ~Codec!HasBytes(data, 20, length + 3)
    <3>1. n \in Nat /\ Len(data) = (36 + n) + e
      BY <1>1, <1>3 DEF at
    <3>2. ~(20 + (length + 3) <= Len(data))
      BY ONLY <3>1, <2>2, <1>4
    <3>3. QED
      BY <3>2 DEF Codec!HasBytes
  <2>5. QED
    BY <2>3, <2>4 DEF Codec!CppUnpack
<1>20. QED
  BY <1>9, <1>15, <1>18, <1>19, <1>16, <1>17 DEF topic

\* A datagram of a C++ node, by what is where in it.
IsLong(data, guid, topic, type, body) ==
  /\ data \in Seq(Nat) /\ Len(data) = (23 + Len(topic)) + Len(body)
  /\ SubSeq(data, 3, 18) = guid
  /\ data[19] \in 0..255 /\ data[20] \in 0..255 /\ data[19] + 256 * data[20] = Len(topic)
  /\ SubSeq(data, 21, 20 + Len(topic)) = topic
  /\ \A i \in 1..Len(topic) : data[20 + i] = topic[i]
  /\ data[21 + Len(topic)] = type /\ data[22 + Len(topic)] = 0 /\ data[23 + Len(topic)] = 0
  /\ \A i \in 1..Len(body) : data[(23 + Len(topic)) + i] = body[i]

\* What C++ nodes write is one.
LEMMA LongFields ==
  ASSUME NEW guid \in Seq(Nat), Len(guid) = 16, NEW topic \in Seq(Nat),
         Len(topic) < 256 * 256, NEW type \in Nat, NEW body \in Seq(Nat), NEW data,
         data = Datagram(guid, Codec!TwoBytes(Len(topic)), topic, type, Codec!TwoBytes(0), body)
  PROVE  IsLong(data, guid, topic, type, body)
<1> DEFINE n == Len(topic)
           e == Len(body)
           size == Codec!TwoBytes(n)
           flags == Codec!TwoBytes(0)
<1>1. n \in Nat /\ e \in Nat
  BY LenProperties
<1>2. flags \in Seq(Nat) /\ Len(flags) = 2 /\ flags[1] = 0 /\ flags[2] = 0
  BY TwoBytesFacts
<1>3. n < 256 * 256
  OBVIOUS
<1>4. data = Datagram(guid, size, topic, type, flags, body)
  OBVIOUS
<1>5. Len(topic) = n /\ Len(body) = e
  OBVIOUS
<1> HIDE DEF flags, n, e
<1>6. /\ size \in Seq(Nat) /\ Len(size) = 2 /\ size[1] + 256 * size[2] = n
      /\ size[1] \in 0..255 /\ size[2] \in 0..255
  BY ONLY <1>1, <1>3, TwoBytesFacts
<1> HIDE DEF size
<1>7. /\ data \in Seq(Nat)
      /\ Len(data) = 19 + Len(size) + Len(topic) + Len(flags) + Len(body)
      /\ \A i \in 1..16 : data[2 + i] = guid[i]
      /\ \A i \in 1..Len(size) : data[18 + i] = size[i]
      /\ \A i \in 1..Len(topic) : data[18 + Len(size) + i] = topic[i]
      /\ data[19 + Len(size) + Len(topic)] = type
      /\ \A i \in 1..Len(flags) : data[19 + Len(size) + Len(topic) + i] = flags[i]
      /\ \A i \in 1..Len(body) :
             data[19 + Len(size) + Len(topic) + Len(flags) + i] = body[i]
  <2>1. IsLaidOut(data, guid, size, topic, type, flags, body)
    BY ONLY <1>2, <1>4, <1>6, guid \in Seq(Nat), Len(guid) = 16, topic \in Seq(Nat), type \in Nat,
            body \in Seq(Nat), Layout
  <2>2. QED
    BY ONLY <2>1 DEF IsLaidOut
<1>8. Len(data) = (23 + n) + e
  BY ONLY <1>1, <1>2, <1>5, <1>6, <1>7
<1>9. data[19] = size[1] /\ data[20] = size[2]
  <2>1. data[18 + 1] = size[1] /\ data[18 + 2] = size[2]
    BY ONLY <1>6, <1>7
  <2>2. QED
    BY ONLY <2>1
<1>10. \A i \in 1..n : data[20 + i] = topic[i]
  <2>1. \A i \in 1..n : data[18 + 2 + i] = topic[i]
    BY ONLY <1>5, <1>6, <1>7
  <2>2. QED
    BY ONLY <2>1
<1>11. data[21 + n] = type
  <2>1. data[19 + 2 + n] = type
    BY ONLY <1>5, <1>6, <1>7
  <2>2. QED
    BY ONLY <1>1, <2>1
<1>12. \A i \in 1..e : data[(23 + n) + i] = body[i]
  <2>1. \A i \in 1..e : data[19 + 2 + n + 2 + i] = body[i]
    BY ONLY <1>2, <1>5, <1>6, <1>7
  <2>2. \A i \in 1..e : 19 + 2 + n + 2 + i = (23 + n) + i
    BY ONLY <1>1
  <2>3. QED
    BY ONLY <2>1, <2>2
<1>13. SubSeq(data, 3, 18) = guid
  <2> DEFINE two == 2
  <2>1. two \in Nat /\ two + Len(guid) <= Len(data) /\ two + 1 = 3 /\ two + Len(guid) = 18
    BY <1>1, <1>8
  <2>2. \A i \in 1..Len(guid) : data[two + i] = guid[i]
    BY <1>7
  <2> HIDE DEF two
  <2>3. SubSeq(data, two + 1, two + Len(guid)) = guid
    BY ONLY <1>7, <2>1, <2>2, guid \in Seq(Nat), SliceIs
  <2>4. QED
    BY <2>1, <2>3
<1>14. SubSeq(data, 21, 20 + n) = topic
  <2> DEFINE front == 20
  <2>1. front \in Nat /\ front + Len(topic) <= Len(data) /\ front + 1 = 21
    BY <1>1, <1>5, <1>8
  <2>2. \A i \in 1..Len(topic) : data[front + i] = topic[i]
    BY <1>5, <1>10
  <2>3. front + Len(topic) = 20 + n
    BY <1>5
  <2> HIDE DEF front
  <2>4. SubSeq(data, front + 1, front + Len(topic)) = topic
    BY ONLY <1>7, <2>1, <2>2, topic \in Seq(Nat), SliceIs
  <2>5. QED
    BY <2>1, <2>3, <2>4
<1>15. data[22 + n] = 0 /\ data[23 + n] = 0
  <2>1. data[19 + 2 + n + 1] = 0 /\ data[19 + 2 + n + 2] = 0
    BY ONLY <1>2, <1>5, <1>6, <1>7
  <2>2. 19 + 2 + n + 1 = 22 + n /\ 19 + 2 + n + 2 = 23 + n
    BY ONLY <1>1
  <2>3. QED
    BY ONLY <2>1, <2>2
<1>16. QED
  BY <1>5, <1>6, <1>7, <1>8, <1>9, <1>10, <1>11, <1>12, <1>13, <1>14, <1>15 DEF IsLong

\* What C++ nodes make of a datagram of a C++ node.  After a null byte in the topic
\* nothing is said of the address.
LEMMA LongIsRead ==
  ASSUME NEW m \in Message, m.from = "cpp", NEW data,
         data = Datagram(Codec!Guid, Codec!TwoBytes(Len(m.topic)), m.topic, m.type,
                         Codec!TwoBytes(0), Body(m))
  PROVE  /\ data # <<>>
         /\ 0 \notin ToSet(m.topic) =>
              Codec!CppUnpack(data) =
                Codec!Understood(Codec!Guid, m.topic, m.type, Carried(m))
         /\ \/ Codec!CppUnpack(data) = Codec!Failed("past_end")
            \/ \E address : Codec!CppUnpack(data) =
                 Codec!Understood(Codec!Guid, Codec!CString(m.topic), m.type, address)
<1> DEFINE guid == Codec!Guid
           n == Len(m.topic)
           k == Len(m.address)
           e == Len(Body(m))
           topic == m.topic
           address == m.address
           body == Body(m)
           at == 23 + n
<1>1. /\ topic \in Seq(Nat) /\ n \in Nat /\ n < 256 * 256 /\ m.type \in {1, 2}
      /\ address \in Seq(Nat) /\ k \in 1..267 /\ 0 \notin ToSet(address)
  BY MessageFacts
<1>2. body \in Seq(Nat) /\ e = IF m.type = 1 THEN 2 + k ELSE 0
  BY BodyFacts
<1>3. /\ data \in Seq(Nat) /\ Len(data) = at + e
      /\ SubSeq(data, 3, 18) = guid
      /\ data[19] + 256 * data[20] = n
      /\ SubSeq(data, 21, 20 + n) = topic
      /\ data[21 + n] = m.type
      /\ \A i \in 1..e : data[at + i] = body[i]
  <2>1. /\ data = Datagram(guid, Codec!TwoBytes(Len(topic)), topic, m.type,
                           Codec!TwoBytes(0), body)
        /\ m.type \in Nat /\ guid \in Seq(Nat) /\ Len(guid) = 16
    BY <1>1, GuidFacts
  <2>2. n = Len(topic) /\ e = Len(body)
    OBVIOUS
  <2> HIDE DEF n, e, topic, body, guid
  <2>3. IsLong(data, guid, topic, m.type, body)
    BY ONLY <1>1, <1>2, <2>1, <2>2, LongFields
  <2>4. QED
    BY ONLY <2>2, <2>3 DEF IsLong, at
<1>4. at \in Nat /\ at >= 23 /\ e \in Nat
  BY <1>1, <1>2
<1>5. m.type = 1 => /\ Codec!ValueAt(data, at) = k
                    /\ Len(data) = at + (2 + k)
                    /\ SubSeq(data, at + 3, (at + 2) + k) = address
  BY <1>3, <1>4, AddressIsRead
<1> HIDE DEF n, k, e, topic, address, body, guid
<1>6. Codec!CString(address) = address /\ (0 \notin ToSet(topic) => Codec!CString(topic) = topic)
  BY <1>1, CStringIs
<1>7. data # <<>>
  BY <1>3, <1>4, EmptySeq
<1>8. Codec!ValueAt(data, 18) = n
  BY <1>3 DEF Codec!ValueAt
<1>9. Codec!Slice(data, 2, 16) = guid /\ Codec!Slice(data, 20, n) = topic
  <2>1. 2 + 1 = 3 /\ 2 + 16 = 18 /\ 20 + 1 = 21
    OBVIOUS
  <2>2. QED
    BY <1>3, <2>1 DEF Codec!Slice
<1>10. data[20 + n + 1] = m.type
  <2>1. 20 + n + 1 = 21 + n
    BY <1>1
  <2>2. QED
    BY <1>3, <2>1
<1>11. Codec!HasBytes(data, 0, 20) /\ Codec!HasBytes(data, 20, n + 3)
  <2>1. Len(data) = (23 + n) + e /\ n \in Nat
    BY <1>1, <1>3 DEF at
  <2>2. 0 + 20 <= Len(data) /\ 20 + (n + 3) <= Len(data)
    BY ONLY <2>1, <1>4
  <2>3. QED
    BY <2>2 DEF Codec!HasBytes
<1>12. ASSUME 0 \notin ToSet(topic)
       PROVE  Codec!CppUnpack(data) = Codec!Understood(guid, topic, m.type, Carried(m))
  <2>1. 20 + Len(topic) + 3 = at
    BY <1>1 DEF at, topic, n
  <2> HIDE DEF at
  <2>2. CASE m.type = 1
    <3>1. Codec!HasBytes(data, at, 2) /\ Codec!HasBytes(data, at + 2, k)
      <4>1. Len(data) = at + (2 + k) /\ k \in 1..267
        BY <1>1, <1>5, <2>2
      <4>2. at + 2 <= Len(data) /\ (at + 2) + k <= Len(data)
        BY ONLY <1>4, <4>1
      <4>3. QED
        BY <4>2 DEF Codec!HasBytes
    <3>2. Codec!Slice(data, at + 2, k) = address
      <4>1. (at + 2) + 1 = at + 3
        BY <1>4
      <4>2. QED
        BY <1>5, <2>2, <4>1 DEF Codec!Slice
    <3>3. Carried(m) = address
      BY <2>2 DEF Carried, address
    <3>4. QED
      BY <1>5, <1>6, <1>8, <1>9, <1>10, <1>11, <1>12, <2>1, <2>2, <3>1, <3>2, <3>3
         DEF Codec!CppUnpack, Codec!ADV
  <2>3. CASE m.type # 1
    <3>1. Carried(m) = <<>>
      BY <2>3 DEF Carried
    <3>2. QED
      BY <1>6, <1>8, <1>9, <1>10, <1>11, <1>12, <2>3, <3>1 DEF Codec!CppUnpack, Codec!ADV
  <2>4. QED
    BY <2>2, <2>3
<1>13. \/ Codec!CppUnpack(data) = Codec!Failed("past_end")
       \/ \E a : Codec!CppUnpack(data) =
            Codec!Understood(guid, Codec!CString(topic), m.type, a)
  BY <1>8, <1>9, <1>10 DEF Codec!CppUnpack
<1>14. QED
  BY <1>7, <1>12, <1>13 DEF topic, guid

\* What C and Python nodes receive of a datagram of a C++ node: the length of the topic
\* is read as its low byte, and the type is where the topic of that length ends.
LEMMA LongIsReceived ==
  ASSUME NEW m \in Message, m.from = "cpp", NEW data,
         data = Datagram(Codec!Guid, Codec!TwoBytes(Len(m.topic)), m.topic, m.type,
                         Codec!TwoBytes(0), Body(m)),
         NEW cut, cut = Codec!Received(data)
  PROVE  /\ data # <<>>
         /\ cut \in Seq(Nat) /\ cut[19] \in 0..255 /\ Len(cut) >= 19
         /\ cut[19] = 0 => Len(m.topic) = 256 * cut[20]
         /\ cut[19] # 0 => cut[20 + cut[19]] \in ToSet(m.topic)
         /\ (m.type = 2 /\ Len(m.topic) < 256) => ~Codec!HasBytes(cut, 0, 36 + cut[19])
<1> DEFINE n == Len(m.topic)
           e == Len(Body(m))
           label == m.topic
           body == Body(m)
           low == data[19]
           high == data[20]
           size == Len(cut)
<1>1. label \in Seq(Nat) /\ n \in Nat /\ 0 < n /\ m.type \in Nat
  BY MessageFacts
<1>2. body \in Seq(Nat) /\ (m.type = 2 => e = 0)
  BY BodyFacts
<1>3. /\ data \in Seq(Nat) /\ Len(data) = (23 + n) + e
      /\ low \in 0..255 /\ high \in 0..255 /\ low + 256 * high = n
      /\ \A i \in 1..n : data[20 + i] = label[i]
  <2>1. /\ data = Datagram(Codec!Guid, Codec!TwoBytes(Len(label)), label, m.type,
                           Codec!TwoBytes(0), body)
        /\ Codec!Guid \in Seq(Nat) /\ Len(Codec!Guid) = 16 /\ Len(label) < 256 * 256
    BY GuidFacts, MessageFacts
  <2>2. n = Len(label) /\ e = Len(body)
    OBVIOUS
  <2> HIDE DEF n, e, label, body
  <2>3. IsLong(data, Codec!Guid, label, m.type, body)
    BY ONLY <1>1, <1>2, <2>1, <2>2, LongFields
  <2>4. QED
    BY ONLY <2>2, <2>3 DEF IsLong, low, high
<1>4. e \in Nat
  BY <1>2, LenProperties
<1> DEFINE whole == Len(data)
<1>5. /\ cut \in Seq(Nat) /\ size = IF whole <= 512 THEN whole ELSE 512
      /\ \A i \in 1..size : cut[i] = data[i]
  <2>1. data \in Seq(Nat) /\ cut = Codec!Received(data)
    BY <1>3
  <2>2. /\ cut \in Seq(Nat) /\ Len(cut) = IF Len(data) <= 512 THEN Len(data) ELSE 512
        /\ \A i \in 1..Len(cut) : cut[i] = data[i]
    BY ONLY <2>1, ReceivedFacts
  <2>3. QED
    BY ONLY <2>2
<1>6. n = Len(label) /\ whole = (23 + n) + e
  BY <1>3
<1> HIDE DEF n, e, label, body, low, high, size, whole
<1>7. /\ size \in Nat /\ size >= 20 /\ 20 + low <= size
      /\ low \in Nat /\ low <= n /\ (n < 256 => low = n)
      /\ (n < 256 /\ e = 0) => size = 23 + n
  <2>1. /\ n \in Nat /\ 0 < n /\ e \in Nat /\ whole = (23 + n) + e
        /\ low \in 0..255 /\ high \in 0..255 /\ low + 256 * high = n
    BY ONLY <1>1, <1>3, <1>4, <1>6
  <2>2. size = IF whole <= 512 THEN whole ELSE 512
    BY ONLY <1>5
  <2>3. low \in Nat /\ low <= 255 /\ low <= n /\ (n < 256 => low = n)
    BY ONLY <2>1
  <2>4. size \in Nat /\ size >= 20 /\ (size = 512 \/ size = (23 + n) + e)
    BY ONLY <2>1, <2>2
  <2>5. 20 + low <= size
    BY ONLY <2>1, <2>3, <2>4
  <2>6. (n < 256 /\ e = 0) => size = 23 + n
    BY ONLY <2>1, <2>2
  <2>7. QED
    BY ONLY <2>3, <2>4, <2>5, <2>6
<1>8. 19 \in 1..size /\ 20 \in 1..size /\ 20 + low \in 1..size
  BY ONLY <1>7
<1>9. cut[19] = low /\ cut[20] = high /\ cut[20 + low] = data[20 + low]
  BY <1>5, <1>8 DEF low, high
<1>10. low = 0 => n = 256 * high
  BY ONLY <1>3
<1>11. low # 0 => data[20 + low] \in ToSet(label)
  <2> SUFFICES ASSUME low # 0 PROVE data[20 + low] \in ToSet(label)
    OBVIOUS
  <2>1. low \in 1..n
    BY ONLY <1>1, <1>7, low # 0
  <2>2. data[20 + low] = label[low]
    BY <1>3, <2>1
  <2>3. DOMAIN label = 1..n
    BY <1>1, <1>6, LenProperties
  <2>4. QED
    BY <2>1, <2>2, <2>3 DEF ToSet
<1>12. (m.type = 2 /\ n < 256) => ~Codec!HasBytes(cut, 0, 36 + low)
  <2> SUFFICES ASSUME m.type = 2, n < 256 PROVE ~Codec!HasBytes(cut, 0, 36 + low)
    OBVIOUS
  <2>1. ~(0 + (36 + low) <= size)
    BY ONLY <1>1, <1>2, <1>7, m.type = 2, n < 256
  <2>2. QED
    BY <2>1 DEF Codec!HasBytes, size
<1>13. data # <<>>
  <2>1. Len(data) > 0
    BY ONLY <1>1, <1>3, <1>4
  <2>2. Len(<<>>) = 0
    BY EmptySeq
  <2> SUFFICES ASSUME data = <<>> PROVE FALSE
    OBVIOUS
  <2>3. QED
    BY <2>1, <2>2
<1>14. size >= 19
  BY ONLY <1>7
<1>15. low \in 0..255
  BY <1>3
<1>16. QED
  BY <1>5, <1>9, <1>10, <1>11, <1>12, <1>13, <1>14, <1>15 DEF n, label, size

\* What they make of it: they fail on each subscription with a short topic, and
\* otherwise fail, or take a byte of the topic for the type, or the high byte of the
\* length if the low one is zero.  Then a C node shows what is on its stack.
LEMMA LongIsMisread ==
  ASSUME NEW m \in Message, m.from = "cpp", NEW data,
         data = Datagram(Codec!Guid, Codec!TwoBytes(Len(m.topic)), m.topic, m.type,
                         Codec!TwoBytes(0), Body(m)),
         NEW cut, cut = Codec!Received(data)
  PROVE  /\ (m.type = 2 /\ Len(m.topic) < 256) =>
              /\ \A rest \in Leftover : Codec!deserialize(cut, rest) = Codec!Failed("abort")
              /\ Codec!PyUnpack(cut) = Codec!Failed("raise")
         /\ \A rest \in Leftover :
              \/ Codec!deserialize(cut, rest) = Codec!Failed("abort")
              \/ \E guid, topic, type, address :
                   /\ Codec!deserialize(cut, rest) =
                        Codec!Understood(guid, topic, type, address)
                   /\ type \in ToSet(m.topic) \/ (Len(m.topic) = 256 * type /\ topic = rest)
         /\ \/ Codec!PyUnpack(cut) = Codec!Failed("raise")
            \/ \E guid, topic, type, address :
                 /\ Codec!PyUnpack(cut) = Codec!Understood(guid, topic, type, address)
                 /\ type \in ToSet(m.topic) \/ (Len(m.topic) = 256 * type /\ topic = <<>>)
<1> DEFINE n == Len(m.topic)
           low == cut[19]
           type == cut[20 + low]
<1>1. /\ cut \in Seq(Nat) /\ low \in 0..255 /\ Len(cut) >= 19
      /\ low = 0 => n = 256 * cut[20]
      /\ low # 0 => type \in ToSet(m.topic)
      /\ (m.type = 2 /\ n < 256) => ~Codec!HasBytes(cut, 0, 36 + low)
  BY LongIsReceived
<1>2. low = cut[19] /\ n = Len(m.topic) /\ Len(cut) \in Nat
  BY <1>1, LenProperties
<1>3. low = 0 => type = cut[20]
  <2>1. 20 + 0 = 20
    OBVIOUS
  <2>2. QED
    BY <2>1
<1> HIDE DEF n, low, type
<1>4. SubSeq(cut, 20, 19) = <<>>
  BY SubSeqEmpty
<1>5. Codec!Slice(cut, 19, 0) = <<>>
  <2>1. 19 + 1 = 20 /\ 19 + 0 = 19
    OBVIOUS
  <2>2. QED
    BY <1>4, <2>1 DEF Codec!Slice
<1>6. ASSUME NEW rest \in Leftover
      PROVE  /\ (m.type = 2 /\ n < 256) =>
                   Codec!deserialize(cut, rest) = Codec!Failed("abort")
             /\ \/ Codec!deserialize(cut, rest) = Codec!Failed("abort")
                \/ \E guid, topic, kind, address :
                     /\ Codec!deserialize(cut, rest) =
                          Codec!Understood(guid, topic, kind, address)
                     /\ kind \in ToSet(m.topic) \/ (n = 256 * kind /\ topic = rest)
  <2> DEFINE max == Codec!DZMQ_MAX_TOPIC_LENGTH
             behind == IF low < max THEN rest ELSE Codec!Slice(cut, 19 + low, 17) \o rest
             topic == Codec!CString(Codec!Slice(cut, 19, Codec!Min({low, max})) \o behind)
             header == [guid |-> Codec!Slice(cut, 2, 16), topic |-> topic, type |-> type,
                        size |-> 36 + low]
  <2>1. /\ \/ Codec!deserialize_msg_header(cut, rest) = Codec!Failed("abort")
           \/ Codec!deserialize_msg_header(cut, rest) = header
        /\ ~Codec!HasBytes(cut, 0, 36 + low) =>
             Codec!deserialize_msg_header(cut, rest) = Codec!Failed("abort")
    BY <1>2 DEF Codec!deserialize_msg_header, type
  <2>2. low = 0 => topic = rest
    <3> SUFFICES ASSUME low = 0 PROVE topic = rest
      OBVIOUS
    <3>1. low < max /\ Codec!Min({low, max}) = 0
      <4>1. low = 0
        OBVIOUS
      <4>2. QED
        BY ONLY <4>1 DEF Codec!DZMQ_MAX_TOPIC_LENGTH, Codec!Min
    <3>2. Codec!Slice(cut, 19, Codec!Min({low, max})) \o behind = <<>> \o rest
      <4> HIDE DEF max
      <4>1. QED
        BY <1>5, <3>1
    <3>3. <<>> \o rest = rest /\ Codec!CString(rest) = rest
      BY RestFacts, ConcatEmptySeq
    <3> HIDE DEF behind, max
    <3>4. QED
      BY <3>2, <3>3
  <2> HIDE DEF topic, behind, max
  <2>3. ~Codec!Failure(header) /\ header.guid = Codec!Slice(cut, 2, 16)
        /\ header.topic = topic /\ header.type = type
    BY HeaderFacts
  <2> HIDE DEF header
  <2>4. CASE Codec!deserialize_msg_header(cut, rest) = Codec!Failed("abort")
    BY <2>4, HeaderFacts DEF Codec!deserialize
  <2>5. CASE /\ Codec!deserialize_msg_header(cut, rest) = header
             /\ Codec!HasBytes(cut, 0, 36 + low)
    <3>1. \/ Codec!deserialize(cut, rest) = Codec!Failed("abort")
          \/ \E guid, address :
               Codec!deserialize(cut, rest) = Codec!Understood(guid, topic, type, address)
      <4> DEFINE adv_msg == Codec!deserialize_adv_msg(cut, header.size)
      <4>1. Codec!Failure(adv_msg) => adv_msg = Codec!Failed("abort")
        BY HeaderFacts DEF Codec!deserialize_adv_msg
      <4> HIDE DEF adv_msg
      <4>2. QED
        BY <2>3, <2>5, <4>1 DEF Codec!deserialize, adv_msg
    <3>2. type \in ToSet(m.topic) \/ (n = 256 * type /\ topic = rest)
      BY <1>1, <1>3, <2>2
    <3>3. QED
      BY <1>1, <2>5, <3>1, <3>2
  <2>6. QED
    BY <2>1, <2>4, <2>5
<1>7. (m.type = 2 /\ n < 256) => Codec!PyUnpack(cut) = Codec!Failed("raise")
  BY <1>1, <1>2 DEF Codec!PyUnpack
<1>8. \/ Codec!PyUnpack(cut) = Codec!Failed("raise")
      \/ \E guid, topic, kind, address :
           /\ Codec!PyUnpack(cut) = Codec!Understood(guid, topic, kind, address)
           /\ kind \in ToSet(m.topic) \/ (n = 256 * kind /\ topic = <<>>)
  <2> DEFINE topic == SubSeq(cut, 20, Codec!Min({19 + low, Len(cut)}))
  <2>1. \/ Codec!PyUnpack(cut) = Codec!Failed("raise")
        \/ \E guid, address :
             Codec!PyUnpack(cut) = Codec!Understood(guid, topic, type, address)
    BY <1>2 DEF Codec!PyUnpack, type
  <2>2. low = 0 => topic = <<>>
    <3>1. Codec!Min({19, Len(cut)}) = 19
      <4> DEFINE size == Len(cut)
      <4>1. size \in Nat /\ size >= 19
        BY <1>1, <1>2
      <4> HIDE DEF size
      <4>2. Codec!Min({19, size}) = 19
        BY ONLY <4>1 DEF Codec!Min
      <4>3. QED
        BY <4>2 DEF size
    <3>2. low = 0 => 19 + low = 19
      OBVIOUS
    <3>3. QED
      BY <1>4, <3>1, <3>2
  <2> HIDE DEF topic
  <2>3. QED
    BY <1>1, <1>3, <2>1, <2>2
<1>9. QED
  BY <1>6, <1>7, <1>8 DEF n

\* After a null byte in the topic of a datagram of a C++ node, the bytes read for the
\* address are not as many as were sent, or have a null of the header among them.
LEMMA TakenIsShorter ==
  ASSUME NEW n \in Nat, NEW k \in 1..267, n <= k, NEW len \in Nat, len < n,
         NEW data \in Seq(Nat), Len(data) = (23 + n) + (2 + k),
         data[22 + n] = 0, data[23 + n] = 0,
         data[24 + n] \in 0..255, data[25 + n] \in 0..255,
         data[24 + n] + 256 * data[25 + n] = k,
         (25 + len) + Codec!ValueAt(data, 23 + len) <= Len(data)
  PROVE  Len(Codec!CString(Codec!Slice(data, 25 + len, Codec!ValueAt(data, 23 + len)))) < k
<1> DEFINE value == Codec!ValueAt(data, 23 + len)
           taken == Codec!Slice(data, 25 + len, value)
           shown == Len(Codec!CString(taken))
           size == Len(data)
           low == data[24 + n]
           high == data[25 + n]
<1>1. /\ k \in Nat /\ k > 0 /\ k <= 267 /\ size \in Nat
      /\ size = (23 + n) + (2 + k) /\ (25 + len) + value <= size
      /\ low \in 0..255 /\ high \in 0..255 /\ low + 256 * high = k
  OBVIOUS
<1>2. value = data[24 + len] + 256 * data[25 + len]
  <2>1. (23 + len) + 1 = 24 + len /\ (23 + len) + 2 = 25 + len
    OBVIOUS
  <2>2. QED
    BY <2>1 DEF Codec!ValueAt
<1>3. value \in Nat
  <2>1. 24 + len \in 1..size /\ 25 + len \in 1..size
    <3> HIDE DEF size, value, low, high
    <3>1. QED
      BY ONLY <1>1, n \in Nat, len \in Nat, len < n
  <2>2. data[24 + len] \in Nat /\ data[25 + len] \in Nat
    BY <2>1, ElementOfSeq
  <2> DEFINE here == data[24 + len]
             there == data[25 + len]
  <2>3. value = here + 256 * there /\ here \in Nat /\ there \in Nat
    BY <1>2, <2>2
  <2> HIDE DEF value, here, there
  <2>4. QED
    BY ONLY <2>3
<1>4. n \in Nat /\ len \in Nat /\ len < n /\ n <= k /\ data \in Seq(Nat) /\ size = Len(data)
  OBVIOUS
<1>5. taken = SubSeq(data, (25 + len) + 1, (25 + len) + value)
  BY DEF Codec!Slice
<1>6. data[22 + n] = 0 /\ data[23 + n] = 0 /\ low = data[24 + n]
  OBVIOUS
<1> HIDE DEF value, size, low, high, taken
<1>7. /\ taken \in Seq(Nat) /\ Len(taken) = value
      /\ \A i \in 1..value : taken[i] = data[(25 + len) + i]
  <2> DEFINE from == 25 + len
  <2>1. from \in Nat /\ from + value <= Len(data) /\ taken = SubSeq(data, from + 1, from + value)
    BY <1>1, <1>4, <1>5
  <2> HIDE DEF from
  <2>2. /\ taken \in Seq(Nat) /\ Len(taken) = value
        /\ \A i \in 1..value : taken[i] = data[from + i]
    BY ONLY <1>3, <1>4, <2>1, SliceFacts
  <2>3. QED
    BY <2>2 DEF from
<1>8. /\ shown \in 0..value
      /\ \A i \in 1..value : taken[i] = 0 => shown < i
  BY <1>7, CStringIs
<1>9. shown \in Nat /\ shown <= value
  <2> HIDE DEF shown
  <2>1. QED
    BY ONLY <1>3, <1>8
<1> HIDE DEF shown
<1>10. ASSUME len = n - 1 PROVE shown < k
  <2>1. 24 + len = 23 + n /\ 25 + len = 24 + n
    BY ONLY <1>4, <1>10
  <2>2. value = 256 * low
    <3>1. data[24 + len] = 0 /\ data[25 + len] = low
      BY ONLY <1>6, <2>1
    <3>2. value = 0 + 256 * low
      BY ONLY <1>2, <3>1
    <3>3. QED
      BY ONLY <1>1, <3>2
  <2>3. (24 + n) + 256 * low <= (23 + n) + (2 + k)
    BY ONLY <1>1, <2>1, <2>2
  <2>4. low \in {0, 1}
    BY ONLY <1>1, <1>4, <2>3
  <2>5. low = 1 => k = 257
    BY ONLY <1>1, <1>4, <2>3
  <2>6. value < k
    BY ONLY <1>1, <2>2, <2>4, <2>5
  <2>7. QED
    BY ONLY <1>1, <1>3, <1>9, <2>6
<1>11. ASSUME len = n - 2 PROVE shown < k
  <2>1. 24 + len = 22 + n /\ 25 + len = 23 + n
    BY ONLY <1>4, <1>11
  <2>2. value = 0
    BY ONLY <1>2, <1>6, <2>1
  <2>3. QED
    BY ONLY <1>1, <1>9, <2>2
<1>12. ASSUME len < n - 2 PROVE shown < k
  <2> DEFINE j == (n - len) - 2
  <2>1. j \in Nat /\ j >= 1 /\ j < n /\ (25 + len) + j = 23 + n
    BY ONLY <1>4, <1>12
  <2> HIDE DEF j
  <2>2. CASE value < j
    BY ONLY <1>1, <1>3, <1>4, <1>9, <2>1, <2>2
  <2>3. CASE j <= value
    <3>1. j \in 1..value
      BY ONLY <1>3, <2>1, <2>3
    <3>2. taken[j] = 0
      BY ONLY <1>6, <1>7, <2>1, <3>1
    <3>3. shown < j
      BY ONLY <1>8, <3>1, <3>2
    <3>4. QED
      BY ONLY <1>1, <1>4, <1>9, <2>1, <3>3
  <2>4. QED
    BY ONLY <1>3, <2>1, <2>2, <2>3
<1>13. len = n - 1 \/ len = n - 2 \/ len < n - 2
  BY ONLY <1>4
<1>14. shown < k
  BY ONLY <1>10, <1>11, <1>12, <1>13
<1>15. QED
  BY <1>14 DEF shown, taken, value

\* So a null byte in the topic of an advertisement spoils the address, if the topic is
\* no longer than it.
LEMMA NullSpoilsAddress ==
  ASSUME NEW m \in Message, m.from = "cpp", m.type = 1, 0 \in ToSet(m.topic),
         Len(m.topic) <= Len(m.address), NEW data,
         data = Datagram(Codec!Guid, Codec!TwoBytes(Len(m.topic)), m.topic, m.type,
                         Codec!TwoBytes(0), Body(m))
  PROVE  \/ Codec!CppUnpack(data) = Codec!Failed("past_end")
         \/ \E address :
              /\ Codec!CppUnpack(data) =
                   Codec!Understood(Codec!Guid, Codec!CString(m.topic), m.type, address)
              /\ address # m.address
<1> DEFINE n == Len(m.topic)
           k == Len(m.address)
           e == Len(Body(m))
           topic == m.topic
           body == Body(m)
           len == Len(Codec!CString(topic))
           value == Codec!ValueAt(data, 23 + len)
           taken == Codec!Slice(data, 25 + len, value)
           address == Codec!CString(taken)
<1>1. /\ topic \in Seq(Nat) /\ n \in Nat /\ n < 256 * 256
      /\ m.address \in Seq(Nat) /\ k \in 1..267 /\ n <= k /\ m.type \in Nat
  BY MessageFacts
<1>2. /\ body \in Seq(Nat) /\ e = 2 + k
      /\ body[1] \in 0..255 /\ body[2] \in 0..255 /\ body[1] + 256 * body[2] = k
  BY BodyFacts
<1>3. n = Len(topic) /\ e = Len(body) /\ k = Len(m.address)
  OBVIOUS
<1>4. IsLong(data, Codec!Guid, topic, m.type, body)
  <2>1. /\ data = Datagram(Codec!Guid, Codec!TwoBytes(Len(topic)), topic, m.type,
                           Codec!TwoBytes(0), body)
        /\ Codec!Guid \in Seq(Nat) /\ Len(Codec!Guid) = 16
    BY GuidFacts
  <2> HIDE DEF n, e, topic, body
  <2>2. QED
    BY ONLY <1>1, <1>2, <1>3, <2>1, LongFields
<1>5. len \in Nat /\ len < n
  <2>1. \E i \in 1..n : topic[i] = 0
    <3>1. DOMAIN topic = 1..n
      BY <1>1, LenProperties
    <3>2. 0 \in ToSet(topic)
      OBVIOUS
    <3> HIDE DEF n, topic
    <3>3. QED
      BY ONLY <3>1, <3>2 DEF ToSet
  <2>2. len \in 0..n /\ \A i \in 1..n : topic[i] = 0 => len < i
    BY <1>1, CStringIs
  <2> HIDE DEF len, n, topic
  <2>3. QED
    BY ONLY <1>1, <2>1, <2>2
<1> HIDE DEF n, k, e, topic, body
<1>6. /\ data \in Seq(Nat) /\ Len(data) = (23 + n) + e
      /\ SubSeq(data, 3, 18) = Codec!Guid /\ data[19] + 256 * data[20] = n
      /\ SubSeq(data, 21, 20 + n) = topic
      /\ data[21 + n] = m.type /\ data[22 + n] = 0 /\ data[23 + n] = 0
      /\ \A i \in 1..e : data[(23 + n) + i] = body[i]
  BY ONLY <1>3, <1>4 DEF IsLong
<1>7. data[24 + n] = body[1] /\ data[25 + n] = body[2]
  <2>1. data[(23 + n) + 1] = body[1] /\ data[(23 + n) + 2] = body[2]
    BY ONLY <1>1, <1>2, <1>6
  <2>2. (23 + n) + 1 = 24 + n /\ (23 + n) + 2 = 25 + n
    BY ONLY <1>1
  <2>3. QED
    BY ONLY <2>1, <2>2
<1>8. Codec!ValueAt(data, 18) = n
  BY <1>6 DEF Codec!ValueAt
<1>9. Codec!Slice(data, 2, 16) = Codec!Guid /\ Codec!Slice(data, 20, n) = topic
  <2>1. 2 + 1 = 3 /\ 2 + 16 = 18 /\ 20 + 1 = 21
    OBVIOUS
  <2>2. QED
    BY <1>6, <2>1 DEF Codec!Slice
<1>10. data[20 + n + 1] = 1 /\ m.type = 1
  <2>1. 20 + n + 1 = 21 + n
    BY <1>1
  <2>2. QED
    BY <1>6, <2>1
<1>11. 20 + len + 3 = 23 + len /\ (23 + len) + 2 = 25 + len
  BY <1>5
<1>12. \/ Codec!CppUnpack(data) = Codec!Failed("past_end")
       \/ /\ Codec!CppUnpack(data) =
               Codec!Understood(Codec!Guid, Codec!CString(topic), m.type, address)
          /\ Codec!HasBytes(data, 25 + len, value)
  <2> HIDE DEF address
  <2>1. \/ Codec!CppUnpack(data) = Codec!Failed("past_end")
        \/ /\ Codec!CppUnpack(data) =
                Codec!Understood(Codec!Guid, Codec!CString(topic), m.type,
                  Codec!CString(Codec!Slice(data, 25 + len, value)))
           /\ Codec!HasBytes(data, 25 + len, value)
    BY <1>8, <1>9, <1>10, <1>11 DEF Codec!CppUnpack, Codec!ADV
  <2>2. QED
    BY <2>1 DEF address
<1>13. ASSUME Codec!HasBytes(data, 25 + len, value) PROVE address # m.address
  <2>1. (25 + len) + value <= Len(data)
    BY <1>13 DEF Codec!HasBytes
  <2>2. Len(address) < k
    <3> HIDE DEF len
    <3>1. /\ n \in Nat /\ k \in 1..267 /\ n <= k /\ len \in Nat /\ len < n
          /\ data \in Seq(Nat) /\ Len(data) = (23 + n) + (2 + k)
          /\ data[22 + n] = 0 /\ data[23 + n] = 0
          /\ data[24 + n] \in 0..255 /\ data[25 + n] \in 0..255
          /\ data[24 + n] + 256 * data[25 + n] = k
      BY ONLY <1>1, <1>2, <1>5, <1>6, <1>7
    <3>2. Len(Codec!CString(Codec!Slice(data, 25 + len, Codec!ValueAt(data, 23 + len)))) < k
      BY ONLY <2>1, <3>1, TakenIsShorter
    <3>3. QED
      BY ONLY <3>2
  <2>3. SUFFICES ASSUME address = m.address PROVE FALSE
    OBVIOUS
  <2> HIDE DEF address
  <2>4. k < k /\ k \in 1..267
    BY <1>1, <1>3, <2>2, <2>3
  <2>5. QED
    BY ONLY <2>4
<1>14. QED
  BY <1>12, <1>13 DEF topic

\* What is written is what was sent, and what is made of it is one of what can be.
CodecInv ==
  /\ msg = Pending => wire = <<>>
  /\ msg # Pending => msg \in Message /\ wire = Codec!Written(msg)
  /\ \A reader \in Codec!Readers :
        read[reader] # Pending =>
          msg # Pending /\ read[reader] \in Codec!Readings(reader, wire)
  /\ DOMAIN read = Codec!Readers

\* It stays so, whoever sends and reads.
LEMMA CodecStep ==
  ASSUME CodecInv, [Codec!Next]_(Codec!vars)
  PROVE  CodecInv'
<1>1. ASSUME NEW m \in Message, Codec!Send(m) PROVE CodecInv'
  <2>1. m # Pending
    BY MessageFacts
  <2>2. wire' = Codec!Written(m) /\ msg' = m /\ msg = Pending /\ UNCHANGED read
    BY <1>1 DEF Codec!Send
  <2>3. QED
    BY <2>1, <2>2 DEF CodecInv
<1>2. ASSUME NEW reader \in Codec!Readers, Codec!Read(reader) PROVE CodecInv'
  <2>1. UNCHANGED <<msg, wire>> /\ wire # <<>>
    BY <1>2 DEF Codec!Read
  <2>2. msg # Pending
    BY <2>1 DEF CodecInv
  <2>3. PICK result \in Codec!Readings(reader, wire) :
           read' = [read EXCEPT ![reader] = result]
    BY <1>2 DEF Codec!Read
  <2>4. DOMAIN read' = Codec!Readers
    BY <2>3 DEF CodecInv
  <2>5. ASSUME NEW other \in Codec!Readers, read'[other] # Pending
        PROVE  read'[other] \in Codec!Readings(other, wire)
    BY <2>3, <2>5 DEF CodecInv
  <2>6. QED
    BY <2>1, <2>2, <2>4, <2>5 DEF CodecInv
<1>3. CASE UNCHANGED Codec!vars
  BY <1>3 DEF Codec!vars, CodecInv
<1>4. QED
  BY <1>1, <1>2, <1>3 DEF Codec!Next

\* It holds in every reachable state.
LEMMA CodecIsInvariant == Codec!Spec => []CodecInv
<1>1. Codec!Init => CodecInv
  BY DEF Codec!Init, CodecInv, Codec!Readers
<1>2. CodecInv /\ [Codec!Next]_(Codec!vars) => CodecInv'
  BY CodecStep
<1>3. QED
  BY <1>1, <1>2, PTL DEF Codec!Spec

\* The records that nodes make of datagrams.
LEMMA ResultFacts ==
  /\ \A how : Codec!Failure(Codec!Failed(how))
  /\ \A guid, topic, type, address :
       LET result == Codec!Understood(guid, topic, type, address) IN
       /\ ~Codec!Failure(result)
       /\ result.guid = guid /\ result.topic = topic /\ result.type = type
       /\ Codec!Taken(result) = [topic |-> topic, type |-> type, address |-> address]
  BY DEF Codec!Failure, Codec!Failed, Codec!Understood, Codec!Taken

\* What the readers make of the datagram of a C or Python node.
LEMMA ReadingsOfShort ==
  ASSUME CodecInv, msg # Pending, msg.from # "cpp"
  PROVE  /\ Codec!Readings("cpp", wire) = {Codec!Failed("past_end")}
         /\ \A reader \in {"c", "python"} : \A result \in Codec!Readings(reader, wire) :
              \E rest \in Codec!Rests(reader) :
                result = Codec!Understood(
                  IF reader = msg.from THEN Codec!Guid ELSE Codec!Reverse(Codec!Guid),
                  msg.topic \o rest, msg.type, Carried(msg))
<1> DEFINE guid == IF msg.from = "c" THEN Codec!Guid ELSE Codec!Reverse(Codec!Guid)
<1>1. msg \in Message /\ wire = Codec!Written(msg)
  BY DEF CodecInv
<1>2. msg.from \in {"c", "python"} /\ msg.topic \in Seq(Nat)
  BY <1>1, MessageFacts
<1>3. wire = Datagram(guid, <<Len(msg.topic)>>, msg.topic, msg.type, NoFlags, Body(msg))
  BY <1>1, <1>2, ShortIsWritten DEF Codec!Written
<1>4. guid \in Seq(Nat) /\ Len(guid) = 16
  BY GuidFacts
<1>5. Codec!Reverse(guid) = IF msg.from = "python" THEN Codec!Guid ELSE Codec!Reverse(Codec!Guid)
  BY <1>2, GuidFacts
<1> HIDE DEF guid
<1>6. /\ Codec!Received(wire) = wire /\ ~Codec!Overruns(wire)
      /\ \A rest \in Leftover :
           Codec!deserialize(wire, rest) =
             Codec!Understood(guid, msg.topic \o rest, msg.type, Carried(msg))
      /\ Codec!PyUnpack(wire) =
           Codec!Understood(Codec!Reverse(guid), msg.topic, msg.type, Carried(msg))
      /\ Codec!CppUnpack(wire) = Codec!Failed("past_end")
  BY <1>1, <1>3, <1>4, ShortIsRead
<1>7. Codec!Readings("cpp", wire) = {Codec!Failed("past_end")}
  BY <1>6 DEF Codec!Readings
<1>8. ASSUME NEW result \in Codec!Readings("c", wire)
      PROVE  \E rest \in Codec!Rests("c") :
               result = Codec!Understood(
                 IF "c" = msg.from THEN Codec!Guid ELSE Codec!Reverse(Codec!Guid),
                 msg.topic \o rest, msg.type, Carried(msg))
  <2>1. PICK rest \in Leftover : result = Codec!deserialize(wire, rest)
    BY <1>6 DEF Codec!Readings, Codec!handle_bcast_msg
  <2>2. result = Codec!Understood(guid, msg.topic \o rest, msg.type, Carried(msg))
    BY <1>6, <2>1
  <2>3. QED
    BY <2>2 DEF Codec!Rests, guid
<1>9. ASSUME NEW result \in Codec!Readings("python", wire)
      PROVE  \E rest \in Codec!Rests("python") :
               result = Codec!Understood(
                 IF "python" = msg.from THEN Codec!Guid ELSE Codec!Reverse(Codec!Guid),
                 msg.topic \o rest, msg.type, Carried(msg))
  <2>1. result = Codec!Understood(Codec!Reverse(guid), msg.topic, msg.type, Carried(msg))
    BY <1>6 DEF Codec!Readings
  <2>2. msg.topic \o <<>> = msg.topic /\ <<>> \in Codec!Rests("python")
    BY <1>2, ConcatEmptySeq DEF Codec!Rests
  <2>3. QED
    BY <1>5, <2>1, <2>2
<1>10. QED
  BY <1>7, <1>8, <1>9

\* Each reader of the writer's dialect gets what was sent, of any length; a C node adds
\* what its stack shows to the topic, and the GUID comes out from behind between C and
\* Python nodes.
THEOREM MessagesAreRead == Codec!Spec => []DialectIsRead
<1>1. ASSUME CodecInv PROVE DialectIsRead
  <2> SUFFICES ASSUME NEW reader \in Codec!Readers, Codec!Done(reader),
                      Codec!Dialect(reader) = Codec!Dialect(msg.from)
               PROVE  LET result == read[reader] IN
                      IF 0 \in ToSet(msg.topic)
                      THEN \/ Codec!Failure(result)
                           \/ /\ result.topic # msg.topic
                              /\ (msg.type = 1 /\ Len(msg.topic) <= Len(msg.address)) =>
                                   result.address # msg.address
                      ELSE /\ ~Codec!Failure(result)
                           /\ \E rest \in Codec!Rests(reader) :
                                Codec!Taken(result) = Codec!Meant(rest)
                           /\ (result.guid = Codec!Guid) <=>
                                ("python" \in {reader, msg.from} => reader = msg.from)
    BY DEF DialectIsRead, Codec!DialectIsRead, Codec!ToSet, ToSet, Codec!ADV
  <2>1. /\ msg # Pending /\ msg \in Message /\ wire = Codec!Written(msg)
        /\ read[reader] \in Codec!Readings(reader, wire)
    BY <1>1 DEF CodecInv, Codec!Done
  <2>2. msg.topic \in Seq(Nat) /\ msg.from \in {"cpp", "c", "python"}
        /\ reader \in {"cpp", "c", "python"}
    BY <2>1, MessageFacts DEF Codec!Readers
  <2>3. CASE msg.from = "cpp"
    <3>1. reader = "cpp"
      BY <2>2, <2>3 DEF Codec!Dialect
    <3>2. wire = Datagram(Codec!Guid, Codec!TwoBytes(Len(msg.topic)), msg.topic, msg.type,
                          Codec!TwoBytes(0), Body(msg))
      BY <2>1, <2>3, LongIsWritten DEF Codec!Written
    <3>3. read[reader] = Codec!CppUnpack(wire)
      BY <2>1, <3>1 DEF Codec!Readings
    <3>4. CASE 0 \in ToSet(msg.topic)
      <4>1. Codec!CString(msg.topic) # msg.topic
        BY <2>2, <3>4, CStringIs
      <4>2. \/ read[reader] = Codec!Failed("past_end")
            \/ \E address :
                 /\ read[reader] =
                      Codec!Understood(Codec!Guid, Codec!CString(msg.topic), msg.type, address)
                 /\ (msg.type = 1 /\ Len(msg.topic) <= Len(msg.address)) =>
                      address # msg.address
        <5>1. CASE msg.type = 1 /\ Len(msg.topic) <= Len(msg.address)
          BY <2>1, <2>3, <3>2, <3>3, <3>4, <5>1, NullSpoilsAddress
        <5>2. CASE ~(msg.type = 1 /\ Len(msg.topic) <= Len(msg.address))
          BY <2>1, <2>3, <3>2, <3>3, <5>2, LongIsRead
        <5>3. QED
          BY <5>1, <5>2
      <4>3. CASE read[reader] = Codec!Failed("past_end")
        BY <3>4, <4>3, ResultFacts
      <4>4. CASE \E address :
                   /\ read[reader] =
                        Codec!Understood(Codec!Guid, Codec!CString(msg.topic), msg.type, address)
                   /\ (msg.type = 1 /\ Len(msg.topic) <= Len(msg.address)) =>
                        address # msg.address
        <5>1. PICK address :
                /\ read[reader] =
                     Codec!Understood(Codec!Guid, Codec!CString(msg.topic), msg.type, address)
                /\ (msg.type = 1 /\ Len(msg.topic) <= Len(msg.address)) =>
                     address # msg.address
          BY <4>4
        <5>2. read[reader].topic = Codec!CString(msg.topic) /\ read[reader].address = address
          BY <5>1 DEF Codec!Understood
        <5>3. QED
          BY <3>4, <4>1, <5>1, <5>2
      <4>5. QED
        BY <4>2, <4>3, <4>4
    <3>5. CASE 0 \notin ToSet(msg.topic)
      <4>1. read[reader] = Codec!Understood(Codec!Guid, msg.topic, msg.type, Carried(msg))
        BY <2>1, <2>3, <3>2, <3>3, <3>5, LongIsRead
      <4>2. msg.topic \o <<>> = msg.topic /\ <<>> \in Codec!Rests(reader)
        BY <2>2, <3>1, ConcatEmptySeq DEF Codec!Rests
      <4>3. /\ ~Codec!Failure(read[reader]) /\ read[reader].guid = Codec!Guid
            /\ Codec!Taken(read[reader]) =
                 [topic |-> msg.topic, type |-> msg.type, address |-> Carried(msg)]
        BY <4>1, ResultFacts
      <4>4. Codec!Meant(<<>>) =
              [topic |-> msg.topic, type |-> msg.type, address |-> Carried(msg)]
        BY <4>2 DEF Codec!Meant, Carried, Codec!ADV
      <4>5. QED
        BY <2>3, <3>1, <3>5, <4>2, <4>3, <4>4
    <3>6. QED
      BY <3>4, <3>5
  <2>4. CASE msg.from # "cpp"
    <3>1. reader \in {"c", "python"}
      BY <2>2, <2>4 DEF Codec!Dialect
    <3>2. 0 \notin ToSet(msg.topic)
      BY <2>1, <2>4, MessageFacts
    <3>3. PICK rest \in Codec!Rests(reader) : read[reader] = Codec!Understood(
            IF reader = msg.from THEN Codec!Guid ELSE Codec!Reverse(Codec!Guid),
            msg.topic \o rest, msg.type, Carried(msg))
      BY <1>1, <2>1, <2>4, <3>1, ReadingsOfShort
    <3> DEFINE shown == msg.topic \o rest
               guid == IF reader = msg.from THEN Codec!Guid ELSE Codec!Reverse(Codec!Guid)
    <3>4. Codec!Meant(rest) = [topic |-> shown, type |-> msg.type, address |-> Carried(msg)]
      BY DEF Codec!Meant, Carried, Codec!ADV
    <3>5. read[reader] = Codec!Understood(guid, shown, msg.type, Carried(msg))
      BY <3>3
    <3> HIDE DEF shown, guid
    <3>6. /\ ~Codec!Failure(read[reader]) /\ read[reader].guid = guid
          /\ Codec!Taken(read[reader]) =
               [topic |-> shown, type |-> msg.type, address |-> Carried(msg)]
      BY <3>5, ResultFacts
    <3>7. ("python" \in {reader, msg.from} => reader = msg.from) <=> reader = msg.from
      BY <2>2, <2>4, <3>1
    <3>8. QED
      BY <3>2, <3>4, <3>6, <3>7, GuidFacts DEF guid
  <2>5. QED
    BY <2>3, <2>4
<1>2. CodecInv => DialectIsRead
  BY <1>1
<1>3. QED
  BY <1>2, CodecIsInvariant, PTL

\* A reader of the other dialect fails, or takes a letter of the topic for the type, or
\* has nothing of the topic: its name is empty, or what was on the stack.
THEOREM DialectsStayApart == Codec!Spec => []DialectsNeverMix
<1>1. ASSUME CodecInv PROVE DialectsNeverMix
  <2> SUFFICES ASSUME NEW reader \in Codec!Readers, Codec!Done(reader),
                      Codec!Dialect(reader) # Codec!Dialect(msg.from)
               PROVE  LET result == read[reader] IN
                      /\ (reader = "cpp" \/ (msg.type = 2 /\ Len(msg.topic) < 256))
                           => Codec!Failure(result)
                      /\ \/ Codec!Failure(result)
                         \/ result.type \in ToSet(msg.topic)
                         \/ /\ Len(msg.topic) = 256 * result.type
                            /\ result.topic \in Codec!Rests(reader)
    BY DEF DialectsNeverMix, Codec!DialectsNeverMix, Codec!ToSet, ToSet, Codec!SUB
  <2>1. /\ msg # Pending /\ msg \in Message /\ wire = Codec!Written(msg)
        /\ read[reader] \in Codec!Readings(reader, wire)
    BY <1>1 DEF CodecInv, Codec!Done
  <2>2. msg.from \in {"cpp", "c", "python"} /\ reader \in {"cpp", "c", "python"}
    BY <2>1, MessageFacts DEF Codec!Readers
  <2>3. CASE msg.from # "cpp"
    <3>1. reader = "cpp"
      BY <2>2, <2>3 DEF Codec!Dialect
    <3>2. read[reader] = Codec!Failed("past_end")
      BY <1>1, <2>1, <2>3, <3>1, ReadingsOfShort
    <3>3. QED
      BY <3>2, ResultFacts
  <2>4. CASE msg.from = "cpp"
    <3> DEFINE cut == Codec!Received(wire)
               short == msg.type = 2 /\ Len(msg.topic) < 256
    <3>1. reader \in {"c", "python"}
      BY <2>2, <2>4 DEF Codec!Dialect
    <3>2. wire = Datagram(Codec!Guid, Codec!TwoBytes(Len(msg.topic)), msg.topic, msg.type,
                          Codec!TwoBytes(0), Body(msg))
      BY <2>1, <2>4, LongIsWritten DEF Codec!Written
    <3>3. \/ reader = "c" /\ \E rest \in Leftover : read[reader] = Codec!deserialize(cut, rest)
          \/ read[reader] = Codec!Failed("overrun")
          \/ reader = "python" /\ read[reader] = Codec!PyUnpack(cut)
      <4>1. CASE reader = "c"
        BY <2>1, <4>1 DEF Codec!Readings, Codec!handle_bcast_msg
      <4>2. CASE reader = "python"
        BY <2>1, <4>2 DEF Codec!Readings
      <4>3. QED
        BY <3>1, <4>1, <4>2
    <3>4. /\ short => /\ \A rest \in Leftover :
                           Codec!deserialize(cut, rest) = Codec!Failed("abort")
                      /\ Codec!PyUnpack(cut) = Codec!Failed("raise")
          /\ \A rest \in Leftover :
               \/ Codec!deserialize(cut, rest) = Codec!Failed("abort")
               \/ \E guid, topic, type, address :
                    /\ Codec!deserialize(cut, rest) =
                         Codec!Understood(guid, topic, type, address)
                    /\ \/ type \in ToSet(msg.topic)
                       \/ Len(msg.topic) = 256 * type /\ topic = rest
          /\ \/ Codec!PyUnpack(cut) = Codec!Failed("raise")
             \/ \E guid, topic, type, address :
                  /\ Codec!PyUnpack(cut) = Codec!Understood(guid, topic, type, address)
                  /\ \/ type \in ToSet(msg.topic)
                     \/ Len(msg.topic) = 256 * type /\ topic = <<>>
      BY <2>1, <2>4, <3>2, LongIsMisread
    <3> HIDE DEF cut, short
    <3>5. short => Codec!Failure(read[reader])
      BY <3>3, <3>4, ResultFacts
    <3>6. \/ Codec!Failure(read[reader])
          \/ \E guid, topic, type, address :
               /\ read[reader] = Codec!Understood(guid, topic, type, address)
               /\ \/ type \in ToSet(msg.topic)
                  \/ Len(msg.topic) = 256 * type /\ topic \in Codec!Rests(reader)
      <4>1. CASE reader = "c" /\ \E rest \in Leftover : read[reader] = Codec!deserialize(cut, rest)
        <5>1. PICK rest \in Leftover : read[reader] = Codec!deserialize(cut, rest)
          BY <4>1
        <5>2. rest \in Codec!Rests(reader)
          BY <4>1 DEF Codec!Rests
        <5>3. QED
          BY <3>4, <5>1, <5>2, ResultFacts
      <4>2. CASE read[reader] = Codec!Failed("overrun")
        BY <4>2, ResultFacts
      <4>3. CASE reader = "python" /\ read[reader] = Codec!PyUnpack(cut)
        <5>1. <<>> \in Codec!Rests(reader)
          BY <4>3 DEF Codec!Rests
        <5>2. QED
          BY <3>4, <4>3, <5>1, ResultFacts
      <4>4. QED
        BY <3>3, <4>1, <4>2, <4>3
    <3>7. reader # "cpp"
      BY <3>1
    <3>8. QED
      BY <3>5, <3>6, <3>7, ResultFacts DEF short
  <2>5. QED
    BY <2>3, <2>4
<1>2. CodecInv => DialectsNeverMix
  BY <1>1
<1>3. QED
  BY <1>2, CodecIsInvariant, PTL
=============================================================================
