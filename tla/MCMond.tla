-------------------------------- MODULE MCMond --------------------------------
(* Mond for TLC: the names of the model values and their symmetry.          *)
EXTENDS MondRefinement, TLC

CONSTANTS f1, f2, p1, p2, c1, c2

OneFile == {f1}
TwoFiles == {f1, f2}
OneProcess == {p1}
TwoProcesses == {p1, p2}
OneChild == {c1}
TwoChildren == {c1, c2}

(* The files, the outer processes and the children are interchangeable; row
   numbers, entry numbers and thread ids are not (loops go through them). *)
Symmetry == Permutations({f1, f2}) \cup Permutations({p1, p2}) \cup Permutations({c1, c2})
Nobody == {}
=============================================================================
