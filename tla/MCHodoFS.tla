-------------------------------- MODULE MCHodoFS -------------------------------
(* Instances of HodoFS for TLC. *)
EXTENDS HodoFS

CONSTANTS name1, name2

Sym == Permutations(Names)

================================================================================
