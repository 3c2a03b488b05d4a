------------------------------- MODULE MCRounds -------------------------------
(* Rounds for TLC: the intervals to choose from. *)
EXTENDS Rounds

(* Shorter than a second (MAX_USEC_SLEEP), whole seconds, and seconds and a
   rest. *)
SomeIntervals ==
  {1, MAX_USEC_SLEEP, 2 * MAX_USEC_SLEEP + 1}
=============================================================================
