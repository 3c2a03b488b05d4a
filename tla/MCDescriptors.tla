----------------------------- MODULE MCDescriptors -----------------------------
(* Descriptors for TLC: a monitor and the system thread share a log file. *)
EXTENDS Descriptors, TLC

CONSTANTS m1, f1

OneLog == m1 :> f1 @@ System :> f1
=============================================================================
