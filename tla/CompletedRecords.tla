---------------------------- MODULE CompletedRecords ----------------------------
(***************************************************************************)
(* What mond promises of its completed threads: every thread that ends is  *)
(* recorded once, the records stay in their order until exit takes them    *)
(* away, exit does so only when all threads are recorded, and whoever asks *)
(* before is shown all records there are.                                  *)
(***************************************************************************)
EXTENDS Naturals, Sequences

CONSTANTS Items, Viewers

VARIABLES
  records,   \* the records, oldest first
  page,      \* viewer -> what it was last shown
  closed     \* exit has begun to take the records away

vars == <<records, page, closed>>

Recorded == {records[k] : k \in 1..Len(records)}

Init ==
  /\ records = <<>>
  /\ page = [v \in Viewers |-> <<>>]
  /\ closed = FALSE

Add(d) ==
  /\ ~closed /\ d \notin Recorded
  /\ records' = Append(records, d)
  /\ UNCHANGED <<page, closed>>

Show(v) ==
  /\ ~closed
  /\ page' = [page EXCEPT ![v] = records]
  /\ UNCHANGED <<records, closed>>

Close ==
  /\ ~closed /\ Recorded = Items
  /\ closed' = TRUE
  /\ UNCHANGED <<records, page>>

(* Nothing is promised of what exit is taking away. *)
TakeAway == closed /\ closed' = TRUE

Next ==
  \/ \E d \in Items : Add(d)
  \/ \E v \in Viewers : Show(v)
  \/ Close \/ TakeAway

Spec == Init /\ [][Next]_vars
=============================================================================
