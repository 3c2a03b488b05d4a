------------------------------ MODULE MCCompletedList ------------------------------
(* CompletedList for TLC: three threads end, the command thread and webmon list. *)
EXTENDS CompletedList

CONSTANTS t1, t2, t3, cmd, web

AllThreads == {t1, t2, t3}
CommandAndWebmon == {cmd, web}
AllCallers == AllThreads \cup Viewers
=============================================================================
