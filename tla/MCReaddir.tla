------------------------------- MODULE MCReaddir -------------------------------
(* Instances of Readdir for TLC. *)
EXTENDS Readdir

CONSTANTS name1, name2, name3

Sym == Permutations(Names)

================================================================================
