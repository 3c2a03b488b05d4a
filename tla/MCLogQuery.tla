------------------------------ MODULE MCLogQuery ------------------------------
(* LogQuery for TLC: who logs to which file. *)
EXTENDS LogQuery, TLC

CONSTANTS t1, t2, t3, f1, f2

(* The items asked for: the last of its row, one past the end of the row, and one
   past the end of the file. *)
SomeLocations == {<<0, COLUMNS - 1>>, <<0, COLUMNS>>, <<ROWS, 0>>}

(* Two monitors share a log file, and webmon holds no mutex. *)
BesideWebmon == t1 :> f1 @@ t2 :> f1 @@ t3 :> NoFile

(* Two monitors log to files of their own. *)
TwoLogFiles == t1 :> f1 @@ t2 :> f2

TheReaders == {t1, t2, t3}
TwoReaders == {t1, t2}

=============================================================================
