------------------------------ MODULE MCPubSub ------------------------------
(* Instances of PubSub for TLC. *)
EXTENDS PubSub

CONSTANTS n1, n2, n3, short, long, text, binary

AllFaults == {"loss", "dup", "connect", "exit"}
NoFaults  == {}

\* One payload with a NUL byte, which c_str() cuts down to the other.
MCCStr == [d \in Data |-> IF d = binary THEN text ELSE d]

\* The name of one topic is a prefix of the other's.
MCPrefixOf == {<<t, t>> : t \in Topic} \cup ({<<short, long>>} \cap (Topic \X Topic))

\* n1 publishes what it subscribes to, so it hears itself; n2 publishes both
\* topics n1 subscribes to, so one endpoint serves two topics.
SafetyPublishers  == {<<n1, short>>, <<n2, short>>, <<n2, long>>}
SafetySubscribers == {<<n1, short>>, <<n1, long>>}

RefinePublishers  == {<<n1, short>>, <<n2, long>>}
RefineSubscribers == {<<n1, short>>}

\* A third node advertises as well.
EveryPublisher  == {<<n2, short>>, <<n3, short>>}
EverySubscriber == {<<n1, short>>}
=============================================================================
