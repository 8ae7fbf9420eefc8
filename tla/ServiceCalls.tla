---------------------------- MODULE ServiceCalls ----------------------------
(***************************************************************************)
(* The life of a service request as applications may rely on it: it waits, *)
(* is sent once, served at most once, and its response is handed over at   *)
(* most once.  At any point it may be dropped for good.                    *)
(***************************************************************************)
EXTENDS Naturals

CONSTANT MaxRequest

VARIABLES phase,  \* phase[id]: how far request id has come
          answer  \* the request whose response the last step handed over, or 0

vars == <<phase, answer>>

Init ==
    /\ phase = [id \in 1..MaxRequest |-> "new"]
    /\ answer = 0

Advance(id, from, to) ==
    /\ phase[id] = from
    /\ phase' = [phase EXCEPT ![id] = to]

\* Requests are made one after the other.
Make(id) ==
    /\ Advance(id, "new", "queued")
    /\ \A earlier \in 1..(id - 1) : phase[earlier] # "new"
    /\ answer' = 0

Send(id)  == Advance(id, "queued", "sent") /\ answer' = 0
Serve(id) == Advance(id, "sent", "served") /\ answer' = 0
Reply(id) == Advance(id, "served", "over") /\ answer' = id

Drop(ids) ==
    /\ \A id \in ids : phase[id] # "new"
    /\ phase' = [id \in 1..MaxRequest |-> IF id \in ids THEN "over" ELSE phase[id]]
    /\ answer' = 0

Next ==
    \/ \E id \in 1..MaxRequest : Make(id) \/ Send(id) \/ Serve(id) \/ Reply(id)
    \/ \E ids \in SUBSET (1..MaxRequest) : Drop(ids)

Spec == Init /\ [][Next]_vars
=============================================================================
