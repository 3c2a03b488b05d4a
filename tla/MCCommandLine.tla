----------------------------- MODULE MCCommandLine -----------------------------
(* CommandLine for TLC: an int is -8..7, a long -32..31. *)
EXTENDS CommandLine, TLC

(* A small number, one too long for an int that is negative as one, one too long
   for a long, and one whose last digit strncpy cuts off, with what it leaves;
   others begin with no number. *)
Values == "5" :> 5 @@ "9" :> 9 @@ "99" :> 99 @@ "00..05" :> 5 @@ "00..0" :> 0

Cut == "00..05" :> "00..0"

(* Nothing runs, or all that can. *)
NothingOrAll ==
  {[webmon |-> b, system |-> b, full |-> b, threads |-> b, others |-> b] : b \in BOOLEAN}

Numbers == DOMAIN Values

Options == {"-s", "-p", "-e", "-t", "-i", "-f"}

Verbs ==
  {"add", "set", "listactive", "remove", "kill", "exit",
   "webmon", "interval", "logfile"}

TheWords == Numbers \cup Options \cup Verbs \cup {"log"}

TheCopies == [w \in TheWords |-> IF w \in DOMAIN Cut THEN Cut[w] ELSE w]

TheValues == [w \in TheWords |-> IF w \in Numbers THEN Values[w] ELSE 0]
=============================================================================
