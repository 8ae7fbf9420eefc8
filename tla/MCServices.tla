----------------------------- MODULE MCServices -----------------------------
(* Instances of Services for TLC. *)
EXTENDS Services

CONSTANTS c1, c2, s1, s2, t1, t2

NoFaults    == {}
Repeated    == {"dup"}
ShareFaults == {"connect", "exit"}

MCRequest == 1..MaxRequest

\* c1 calls two services, each at a replier of its own, so that requests go
\* astray.
CallRepliers == {<<s1, t1>>, <<s2, t2>>}
CallAsync    == {<<c1, t1>>, <<c1, t2>>}

\* Two nodes that call one replier, so that responses go astray.
ShareRepliers == {<<s1, t1>>}
ShareAsync    == {<<c1, t1>>}
ShareSync     == {<<c2, t1>>}

\* c1 calls the same service in both ways.
MixedRepliers == {<<s1, t1>>}
MixedCalls    == {<<c1, t1>>}
=============================================================================
