---------------------------- MODULE MCLoadHistory ----------------------------
(* LoadHistory for TLC: webmon alone calls the list.                         *)
EXTENDS LoadHistory

CONSTANT webmon

OneCaller == {webmon}
==============================================================================
