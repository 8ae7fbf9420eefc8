------------------------------ MODULE MCPyNode ------------------------------
(* Instances of PyNode for TLC. *)
EXTENDS PyNode

CONSTANTS n1, n2, t

MCFaults == {"loss", "send", "connect", "exit"}

\* n1 subscribes to what it advertises itself, n2 advertises it, too.
MCPublishers  == {<<n1, t>>, <<n2, t>>}
MCSubscribers == {<<n1, t, cb>> : cb \in Callback}
MCPrefixOf    == {<<topic, topic>> : topic \in Topic}
=============================================================================
