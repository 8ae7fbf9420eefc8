--------------------------- MODULE TopicsInfoApi ---------------------------
(***************************************************************************)
(* One TopicsInfo object (src/cpp/topicsInfo.cc) under any sequence of     *)
(* calls of its methods.  Beside the table stand what its user did with    *)
(* it: the addresses that are in, and the requests that are still owed.    *)
(***************************************************************************)
EXTENDS TopicsInfo

CONSTANT MaxReq  \* bound: requests added, numbered in the order of AddReq

ASSUME RequestAssumption == MaxReq \in Nat /\ Request = 1..MaxReq

VARIABLES table,   \* the object
          present, \* present[t]: the addresses added last and not removed since
          added,   \* number of requests added so far
          handed   \* handed[t]: the requests of t that DelReq gave back, in order

vars == <<table, present, added, handed>>

Init ==
    /\ table = EmptyTable
    /\ present = [t \in Topic |-> {}]
    /\ added = 0
    /\ handed = [t \in Topic |-> <<>>]

AddAddress(topic, address) ==
    /\ table' = AddAdvAddress(table, topic, address)
    /\ present' = [present EXCEPT ![topic] = @ \cup {address}]
    /\ UNCHANGED <<added, handed>>

RemoveAddress(topic, address) ==
    /\ table' = RemoveAdvAddress(table, topic, address)
    /\ present' = [present EXCEPT ![topic] = @ \ {address}]
    /\ UNCHANGED <<added, handed>>

\* Any of the setters of a flag or of a callback.
Set(topic) ==
    /\ \/ \E value \in BOOLEAN :
            \/ table' = SetConnected(table, topic, value)
            \/ table' = SetSubscribed(table, topic, value)
            \/ table' = SetRequested(table, topic, value)
            \/ table' = SetAdvertisedByMe(table, topic, value)
       \/ \E cb \in Callback \cup {NULL} :
            \/ table' = SetCallback(table, topic, cb)
            \/ table' = SetReqCallback(table, topic, cb)
            \/ table' = SetRepCallback(table, topic, cb)
    /\ UNCHANGED <<present, added, handed>>

Add(topic) ==
    /\ added < MaxReq
    /\ added' = added + 1
    /\ table' = AddReq(table, topic, added')
    /\ UNCHANGED <<present, handed>>

Del(topic) ==
    /\ PendingReqs(table, topic)
    /\ handed' = [handed EXCEPT ![topic] = Append(@, OldestReq(table, topic))]
    /\ table' = DelReq(table, topic)
    /\ UNCHANGED <<present, added>>

\* DelReq that returns false.
DelNothing(topic) ==
    /\ ~PendingReqs(table, topic)
    /\ table' = DelReq(table, topic)
    /\ UNCHANGED <<present, added, handed>>

Next ==
    \E topic \in Topic :
        \/ \E address \in Address :
            AddAddress(topic, address) \/ RemoveAddress(topic, address)
        \/ Set(topic) \/ Add(topic) \/ Del(topic) \/ DelNothing(topic)

Spec == Init /\ [][Next]_vars

-----------------------------------------------------------------------------
(* Properties                                                              *)

TypeOK ==
    /\ IsTable(table)
    /\ present \in [Topic -> SUBSET Address]
    /\ added \in 0..MaxReq
    /\ handed \in [Topic -> Seq(Request)]

\* Whatever was set, erased and added again in between, the addresses of a
\* topic are those added last and not removed, and each is there once:
\* RemoveAdvAddress cannot leave a second copy behind.
AddressesAreThosePresent ==
    \A t \in Topic :
        /\ AdvAddresses(table, t) = present[t]
        /\ Len(Info(table, t).addresses) = Cardinality(present[t])

\* AddReq and DelReq make a queue for each topic, which other topics, setters
\* and even the erasure of the entry do not disturb: what DelReq hands out is
\* older than what waits, and nothing is handed out twice.
RequestsInOrder ==
    \A t \in Topic :
        LET all == handed[t] \o Info(table, t).pendingReqs IN
        \A i, j \in DOMAIN all : i < j => all[i] < all[j]
=============================================================================
