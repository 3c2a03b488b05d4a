-------------------------------- MODULE Records --------------------------------
(***************************************************************************)
(* What the users of the linked list want of it: records kept in order,    *)
(* forgotten from the oldest on, and shown all together or not at all.     *)
(***************************************************************************)
EXTENDS Sequences

CONSTANTS Items, Viewers

VARIABLES
  records,   \* the records, oldest first
  page       \* viewer -> what it was last shown

vars == <<records, page>>

Init ==
  /\ records = <<>>
  /\ page = [v \in Viewers |-> <<>>]

Add(d) == records' = Append(records, d) /\ UNCHANGED page

Forget == records # <<>> /\ records' = Tail(records) /\ UNCHANGED page

Show(v) == page' = [page EXCEPT ![v] = records] /\ UNCHANGED records

Next ==
  \/ \E d \in Items : Add(d)
  \/ Forget
  \/ \E v \in Viewers : Show(v)

Spec == Init /\ [][Next]_vars
=============================================================================
