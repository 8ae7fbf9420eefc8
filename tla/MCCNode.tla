------------------------------ MODULE MCCNode ------------------------------
(* Instances of CNode for TLC. *)
EXTENDS CNode

CONSTANTS n1, n2, short, long

MCFaults  == {"dup", "connect", "os", "init", "exit"}
MCForeign == {CppSub, CppAdv, NotTcp}

\* The name of one topic is a prefix of the other's.
MCPrefixOf == {<<t, t>> : t \in Topic} \cup {<<short, long>>}

\* n1 subscribes to what it publishes itself; n2 publishes the longer name, too.
\* Only n1 has a clock that works.
MCPublishers  == {<<n1, short>>, <<n2, long>>}
MCSubscribers == {<<n1, short>>}
MCTimers == {n1, n2}
MCMach == {n1}
=============================================================================
