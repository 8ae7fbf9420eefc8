------------------------------ MODULE TopicBus ------------------------------
(***************************************************************************)
(* What publish/subscribe promises an application: nodes publish payloads  *)
(* on the topics they advertise, and a payload reaches the callback of a   *)
(* node at most once, only while that node subscribes to the topic, and    *)
(* behind the earlier payloads of the same publisher.  Nothing is promised *)
(* about a payload that does not arrive.                                   *)
(***************************************************************************)
EXTENDS Naturals, Sequences

CONSTANTS Node, Topic, Payload, Callback, NULL

VARIABLES subs,   \* subs[n][t]: the callback of n for t, NULL without one
          adv,    \* adv[n]: the topics n may publish
          chan,   \* chan[n][p]: payloads on their way from p to n
          called  \* the callback the last step ran, if it ran one

vars == <<subs, adv, chan, called>>

NoCall == [node |-> NULL]

Init ==
    /\ subs = [n \in Node |-> [t \in Topic |-> NULL]]
    /\ adv = [n \in Node |-> {}]
    /\ chan = [n \in Node |-> [p \in Node |-> <<>>]]
    /\ called = NoCall

Subscribe(n, t, cb) ==
    /\ subs' = [subs EXCEPT ![n][t] = cb]
    /\ called' = NoCall
    /\ UNCHANGED <<adv, chan>>

\* adv[n] may change by one topic at a time.
Advertise(n, t) ==
    /\ adv' = [adv EXCEPT ![n] = @ \cup {t}]
    /\ called' = NoCall
    /\ UNCHANGED <<subs, chan>>

UnAdvertise(n, t) ==
    /\ adv' = [adv EXCEPT ![n] = @ \ {t}]
    /\ called' = NoCall
    /\ UNCHANGED <<subs, chan>>

\* A publication enters the channels of some of the nodes.
Publish(p, t, payload) ==
    /\ t \in adv[p]
    /\ \E readers \in SUBSET Node :
        chan' = [n \in Node |->
            IF n \in readers
            THEN [chan[n] EXCEPT ![p] = Append(@, [topic |-> t, data |-> payload])]
            ELSE chan[n]]
    /\ called' = NoCall
    /\ UNCHANGED <<subs, adv>>

\* The oldest payload of a channel runs the callback of its topic, if any.
Deliver(n, p) ==
    /\ chan[n][p] # <<>>
    /\ chan' = [chan EXCEPT ![n][p] = Tail(@)]
    /\ LET msg == Head(chan[n][p]) IN
       called' = IF subs[n][msg.topic] # NULL
                 THEN [node |-> n, from |-> p, topic |-> msg.topic,
                       data |-> msg.data, cb |-> subs[n][msg.topic]]
                 ELSE NoCall
    /\ UNCHANGED <<subs, adv>>

\* A process ends; what it already sent may still arrive.
Leave(n) ==
    /\ subs' = [subs EXCEPT ![n] = [t \in Topic |-> NULL]]
    /\ adv' = [adv EXCEPT ![n] = {}]
    /\ chan' = [chan EXCEPT ![n] = [p \in Node |-> <<>>]]
    /\ called' = NoCall

Internal == called' = NoCall /\ UNCHANGED <<subs, adv, chan>>

Next ==
    \/ \E n \in Node :
        \/ \E t \in Topic :
            \/ \E cb \in Callback \cup {NULL} : Subscribe(n, t, cb)
            \/ Advertise(n, t)
            \/ UnAdvertise(n, t)
            \/ \E payload \in Payload : Publish(n, t, payload)
        \/ \E p \in Node : Deliver(n, p)
        \/ Leave(n)
    \/ Internal

Spec == Init /\ [][Next]_vars
=============================================================================
