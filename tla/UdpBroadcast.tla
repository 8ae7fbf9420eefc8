---------------------------- MODULE UdpBroadcast ----------------------------
(***************************************************************************)
(* The UDP broadcast socket every node opens on port 11312                 *)
(* (src/cpp/sockets/socket.cc): what sendTo does to the buffers of the     *)
(* nodes that run, the sender's included, and what recvFrom takes out.  A  *)
(* buffer is a set: datagrams may overtake each other, and equal ones that *)
(* wait together merge, which a duplicate makes up for.                    *)
(***************************************************************************)
EXTENDS Naturals, FiniteSets

CONSTANTS Faults,    \* "loss", "dup": what the network may do to datagrams
          InboxCap   \* bound: datagrams a receive buffer holds, lost beyond

ASSUME InboxCapAssumption == InboxCap \in Nat

\* What the buffers may hold after a send.  Loss stands for a sendTo that
\* throws (its caller goes on all the same), a datagram that the network drops
\* and a buffer that is full.
Sent(datagram, running, box) ==
    LET room == {n \in running : Cardinality(box[n]) < InboxCap} IN
    {[n \in DOMAIN box |-> IF n \in heard THEN box[n] \cup {datagram} ELSE box[n]] :
        heard \in IF "loss" \in Faults THEN SUBSET room ELSE {room}}

\* What they may hold after a receive: a duplicate stays to be received again.
Received(datagram, node, box) ==
    {[box EXCEPT ![node] = @ \ {datagram}]} \cup
    (IF "dup" \in Faults THEN {box} ELSE {})
=============================================================================
