------------------------------- MODULE MCHodoLog -------------------------------
(* Instances of HodoLog for TLC. *)
EXTENDS HodoLog, TLC

CONSTANTS d1, d2

MCData == {d1, d2}

Sym == Permutations(MCData)

================================================================================
