------------------------------- MODULE CLists -------------------------------
(***************************************************************************)
(* The linked lists of the C node: of topics (src/c/src/dzmq/impl/topic.c) *)
(* and of connections (connection.c), which are one list with other names. *)
(* A cell that is not in live is freed memory: what a use of it does is    *)
(* not defined by the code, and nothing is modelled behind such a use.     *)
(* List begins the names that MCData, which extends this module and that   *)
(* of the topic table, would have twice.                                   *)
(***************************************************************************)
EXTENDS Integers, SequencesExt

CONSTANTS Key,     \* the names of topics, the addresses of connections
          MaxCells \* bound: how many cells a run allocates

ASSUME MaxCellsAssumption == MaxCells \in Nat

VARIABLES first, last,      \* the list; 0 is the null pointer
          next, prev, name, \* of each cell allocated so far: 1, 2, ...
          live,             \* the cells that were not freed
          in_order,         \* the cells appended and not removed, oldest first
          lost,             \* whether a cell that was first or last was removed
          fate              \* "used" and then "destroyed", or the operation,
                            \* "append" or "destroy", that used no live cell

list_vars == <<first, last, next, prev, name, live, in_order, lost, fate>>

ListInit ==
    /\ first = 0 /\ last = 0
    /\ next = <<>> /\ prev = <<>> /\ name = <<>>
    /\ live = {} /\ in_order = <<>>
    /\ lost = FALSE /\ fate = "used"

\* The pointers a walk goes through: first, its next, and so on.
Visited[n \in 0..MaxCells] ==
    IF n = 0 THEN <<first>>
    ELSE LET cell == Last(Visited[n - 1]) IN
         IF cell \in live THEN Append(Visited[n - 1], next[cell]) ELSE Visited[n - 1]

Walk == Visited[MaxCells]

Cells == IF Last(Walk) \in live THEN Walk ELSE Front(Walk)

\* dzmq_topic_in_list and dzmq_addr_in_list: the first cell with the key, or 0.
in_list(key) ==
    LET found == {i \in DOMAIN Cells : name[Cells[i]] = key} IN
    IF found = {} THEN 0 ELSE Cells[Min(found)]

New == Len(name) + 1

\* Mutant of append: the cell before does not learn of the new one.
append_unlinked(key) ==
    /\ New <= MaxCells
    /\ name' = Append(name, key)
    /\ prev' = Append(prev, last) /\ next' = Append(next, 0)
    /\ first' = IF first = 0 THEN New ELSE first
    /\ last' = New
    /\ live' = live \cup {New} /\ in_order' = Append(in_order, New)
    /\ UNCHANGED <<lost, fate>>

append(key) ==
    /\ New <= MaxCells
    /\ name' = Append(name, key)
    /\ live' = live \cup {New}
    /\ in_order' = Append(in_order, New)
    /\ last' = New
    /\ \/ /\ last = 0 /\ first = 0
          /\ prev' = Append(prev, 0) /\ next' = Append(next, 0)
          /\ first' = New
          /\ UNCHANGED fate
       \/ /\ last # 0 \/ first # 0
          /\ prev' = Append(prev, last)
          /\ next' = Append([next EXCEPT ![last] = New], 0)
          /\ fate' = IF last \in live THEN fate ELSE "append"
          /\ UNCHANGED first
    /\ UNCHANGED lost

\* Mutant of remove: the cell behind keeps its way back to the freed one.
remove_forward(cell) ==
    /\ next' = [c \in DOMAIN next |-> IF c = prev[cell] THEN next[cell] ELSE next[c]]
    /\ live' = live \ {cell}
    /\ \E i \in DOMAIN in_order :
          in_order[i] = cell /\ in_order' = RemoveAt(in_order, i)
    /\ lost' = (lost \/ cell \in {first, last})
    /\ UNCHANGED <<first, last, prev, name, fate>>

\* The neighbours get linked to each other; first and last stay as they are.
remove(cell) ==
    /\ prev' = [c \in DOMAIN prev |-> IF c = next[cell] THEN prev[cell] ELSE prev[c]]
    /\ next' = [c \in DOMAIN next |-> IF c = prev[cell] THEN next[cell] ELSE next[c]]
    /\ live' = live \ {cell}
    /\ \E i \in DOMAIN in_order :
          in_order[i] = cell /\ in_order' = RemoveAt(in_order, i)
    /\ lost' = (lost \/ cell \in {first, last})
    /\ UNCHANGED <<first, last, name, fate>>

\* The loop frees what the prev of each cell says, and the last cell.  It reads
\* first->next before anything tells that there is a first.
destroy ==
    LET freed == {prev[Cells[i]] : i \in 2..Len(Cells)} \cup {Last(Cells)} IN
    /\ \/ first \notin live /\ fate' = "destroy" /\ UNCHANGED live
       \/ first \in live /\ live' = live \ freed /\ fate' = "destroyed"
    /\ in_order' = <<>>
    /\ UNCHANGED <<first, last, next, prev, name, lost>>

\* What a user of the list may do, who does not use it again after destroy.
ListNext ==
    /\ fate = "used"
    /\ \/ \E key \in Key : append(key)
       \/ \E cell \in live : remove(cell)
       \/ destroy

ListSpec == ListInit /\ [][ListNext]_list_vars

-----------------------------------------------------------------------------
(* Properties                                                              *)

ListTypeOK ==
    /\ first \in 0..Len(name) /\ last \in 0..Len(name)
    /\ name \in Seq(Key) /\ Len(name) <= MaxCells
    /\ next \in Seq(0..MaxCells) /\ prev \in Seq(0..MaxCells)
    /\ Len(next) = Len(name) /\ Len(prev) = Len(name)
    /\ live \subseteq DOMAIN name
    /\ in_order \in Seq(DOMAIN name)
    /\ lost \in BOOLEAN
    /\ fate \in {"used", "destroyed", "append", "destroy"}

\* As long as nobody removed an end, the list holds what was appended and not
\* removed, in that order, and finds the oldest cell of a key; at both ends it
\* ends with a null pointer.
ListHoldsItsCells ==
    (~lost /\ live # {}) =>
        /\ Walk = in_order \o <<0>>
        /\ last = Last(in_order)
        /\ \A i \in DOMAIN in_order : prev[in_order[i]] = (<<0>> \o in_order)[i]
        /\ \A cell \in live : in_list(name[cell]) \in 1..cell

\* An operation uses freed memory only after somebody removed an end of the
\* list, and no memory only when an empty list is destroyed; else destroy frees
\* each cell.
OnlyLostEndsAreMisused ==
    /\ fate \in {"append", "destroy"} => lost \/ (fate = "destroy" /\ name = <<>>)
    /\ (fate = "destroyed" /\ ~lost) => live = {}

\* The inductive form: as long as nobody removed an end, the cells of the list
\* in order are linked to their neighbours,
Linked ==
    LET size == Len(in_order) IN
    /\ \A i \in 1..size :
        /\ next[in_order[i]] = IF i = size THEN 0 ELSE in_order[i + 1]
        /\ prev[in_order[i]] = IF i = 1 THEN 0 ELSE in_order[i - 1]
    /\ first = IF size = 0 THEN 0 ELSE in_order[1]
    /\ last = IF size = 0 THEN 0 ELSE in_order[size]
    /\ size = 0 => name = <<>>

\* and they are the cells that were not freed, the oldest first.
InOrder ==
    /\ live = ToSet(in_order)
    /\ Len(in_order) <= Len(name)
    /\ \A i, j \in 1..Len(in_order) : i < j => in_order[i] < in_order[j]

ListInv ==
    /\ ListTypeOK /\ OnlyLostEndsAreMisused
    /\ fate = "used" => InOrder /\ (lost \/ Linked)
=============================================================================
