------------------------------ MODULE Monitoring ------------------------------
(***************************************************************************)
(* What mond promises of the threads it starts, without its tables, locks  *)
(* and semaphore: each one monitors until it has a reason to end, ends, is *)
(* recorded once with that reason, and gives its slot back.  At most Slots *)
(* monitors live at a time, and one system thread.                         *)
(*                                                                         *)
(* MondRefinement shows that Mond implements this specification.           *)
(***************************************************************************)
EXTENDS Integers, Sequences, FiniteSets

CONSTANTS
  Tids,    \* the threads that can be started
  Slots    \* how many of them may monitor a process at a time

Kinds   == {"monitor", "system"}
Reasons == {"KILLED", "STOPPED", "EXITED"}

VARIABLES
  life,      \* thread -> where it is in its life
  kind,      \* thread -> what it monitors; "none" unless it lives
  reason,    \* thread -> why it is to end; "RUNNING" while it is not
  history,   \* the ends recorded so far
  up,        \* the program runs
  closing    \* the history has been given up: no thread starts any more

vars == <<life, kind, reason, history, up, closing>>

Living(k) == {t \in Tids : kind[t] = k}

Init ==
  /\ life = [t \in Tids |-> "unborn"]
  /\ kind = [t \in Tids |-> "none"]
  /\ reason = [t \in Tids |-> "RUNNING"]
  /\ history = <<>>
  /\ up = TRUE
  /\ closing = FALSE

(* A thread starts with no reason to end. *)
Start(t, k) ==
  /\ up /\ ~closing
  /\ life[t] = "unborn"
  /\ IF k = "system" THEN Living(k) = {} ELSE Cardinality(Living(k)) < Slots
  /\ life' = [life EXCEPT ![t] = "monitoring"]
  /\ kind' = [kind EXCEPT ![t] = k]
  /\ UNCHANGED <<reason, history, up, closing>>

(* The user asks it to end, for the first time or again. *)
Ask(t, why) ==
  /\ up
  /\ life[t] = "monitoring"
  /\ why \in {"KILLED", "STOPPED"}
  /\ reason' = [reason EXCEPT ![t] = why]
  /\ UNCHANGED <<life, kind, history, up, closing>>

(* A monitor's process has ended; what the user asked before goes first. *)
LoseProcess(t) ==
  /\ up
  /\ life[t] = "monitoring" /\ kind[t] = "monitor"
  /\ reason[t] = "RUNNING"
  /\ reason' = [reason EXCEPT ![t] = "EXITED"]
  /\ UNCHANGED <<life, kind, history, up, closing>>

Leave(t) ==
  /\ up
  /\ life[t] = "monitoring"
  /\ reason[t] # "RUNNING"
  /\ life' = [life EXCEPT ![t] = "leaving"]
  /\ UNCHANGED <<kind, reason, history, up, closing>>

Record(t) ==
  /\ up
  /\ life[t] = "leaving"
  /\ history' = Append(history, [tid |-> t, reason |-> reason[t]])
  /\ life' = [life EXCEPT ![t] = "recorded"]
  /\ UNCHANGED <<kind, reason, up, closing>>

(* It gives its slot back and is no more. *)
End(t) ==
  /\ up
  /\ life[t] = "recorded"
  /\ life' = [life EXCEPT ![t] = "ended"]
  /\ kind' = [kind EXCEPT ![t] = "none"]
  /\ reason' = [reason EXCEPT ![t] = "RUNNING"]
  /\ UNCHANGED <<history, up, closing>>

(* The history is given up only when no thread lives. *)
Close ==
  /\ up
  /\ \A t \in Tids : kind[t] = "none"
  /\ closing' = TRUE
  /\ history' = <<>>
  /\ UNCHANGED <<life, kind, reason, up>>

(* The program ends, in good order or not. *)
Down ==
  /\ up
  /\ up' = FALSE
  /\ UNCHANGED <<life, kind, reason, history, closing>>

Next ==
  \/ \E t \in Tids :
       \/ \E k \in Kinds : Start(t, k)
       \/ \E why \in Reasons : Ask(t, why)
       \/ LoseProcess(t) \/ Leave(t) \/ Record(t) \/ End(t)
  \/ Close \/ Down

Spec == Init /\ [][Next]_vars

(* A thread that has a reason to end does end, unless the program does. *)
Fairness == \A t \in Tids : WF_vars(Leave(t)) /\ WF_vars(Record(t)) /\ WF_vars(End(t))

FairSpec == Spec /\ Fairness
=============================================================================
