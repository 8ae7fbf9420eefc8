----------------------------- MODULE MCCppNode -----------------------------
(* Instances of CppNode for TLC. *)
EXTENDS CppNode, TLC

CONSTANTS n1, n2, t

MCRequest == 1..MaxRequest
MCCStr == [d \in Data |-> d]
MCPrefixOf == {<<t, t>>}

\* The tools side by side, and programs that use topics and services at once.
Asks   == InsertAt(requester(t, 1, TRUE), 2, On("Subscribe", t))
Offers == InsertAt(replier(t, FALSE), 2, On("Advertise", t))
Hears  == InsertAt(subscriber(t), 2, On("Advertise", t))

MCPrograms ==
    {(n1 :> p[1] @@ n2 :> p[2]) : p \in
        {<<subscriber(t), publisher(t, 1, TRUE)>>,
         <<subscriber(t), Hears>>,
         <<requester(t, 1, FALSE), replier(t, TRUE)>>,
         <<Asks, InsertAt(Offers, 3, On("Publish", t))>>}}
=============================================================================
