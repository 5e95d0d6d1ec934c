------------------------------- MODULE MCHodoMount -----------------------------
(* Instances of HodoMount for TLC. *)
EXTENDS HodoMount

CONSTANTS name1, name2, name3

================================================================================
