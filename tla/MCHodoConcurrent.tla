---------------------------- MODULE MCHodoConcurrent ---------------------------
(* Instances of HodoConcurrent for TLC. *)
EXTENDS HodoConcurrent, TLC

CONSTANTS writer1, writer2, reader1, d1, d2

Sym == Permutations(Data) \cup Permutations(Writers)

================================================================================
