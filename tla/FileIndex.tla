------------------------------- MODULE FileIndex -------------------------------
(***************************************************************************)
(* Where block n of a file hangs under its hodo_inode: the level of the    *)
(* pointer and the slot in every indirect block on the way, as the write   *)
(* path and, apart from it, the read path compute them (trans.c).          *)
(***************************************************************************)
EXTENDS Integers

CONSTANTS NDirect,        \* direct pointers of an inode (10)
          PtrsPerBlock    \* HODO_DATA_SIZE / BLOCK_PTR_SZ (1022)

ASSUME IndexAssumption == NDirect \in Nat \ {0} /\ PtrsPerBlock \in Nat \ {0}

P == PtrsPerBlock

(* The first block index of each level: 0 direct, then the three indirect  *)
(* pointers; 4 is past the largest file.                                   *)
Base(k) ==
    CASE k = 0 -> 0
      [] k = 1 -> NDirect
      [] k = 2 -> NDirect + P
      [] k = 3 -> NDirect + P + P * P
      [] k = 4 -> NDirect + P + P * P + P * P * P

Level(n) ==
    IF n < Base(1) THEN 0
    ELSE IF n < Base(2) THEN 1
    ELSE IF n < Base(3) THEN 2
    ELSE IF n < Base(4) THEN 3
    ELSE 4

(* The slot that write_one_block_by_indirect_block uses in a block of      *)
(* level k on the way to block n.                                          *)
WriteSlot(n, k) ==
    LET L == Level(n)
        x == n - Base(L)
    IN  IF L = 1 THEN x
        ELSE IF k = 1 THEN x % P
        ELSE IF k = L THEN (IF L = 2 THEN x \div P ELSE (x \div P) \div P)
        ELSE (x \div P) % P

(* The same in hodo_read_nth_block, which has no largest file. *)
ReadLevel(n) == IF n < Base(3) THEN Level(n) ELSE 3

(* Mutant: the upper slot of a double indirect block is a remainder too. *)
ReadSlot_Remainder(n, k) == (n - Base(ReadLevel(n))) % P

ReadSlot(n, k) ==
    LET L == ReadLevel(n)
        x == n - Base(L)
    IN  IF L = 1 THEN x
        ELSE IF L = 2 THEN (IF k = 2 THEN x \div P ELSE x % P)
        ELSE IF k = 3 THEN x \div (P * P)
        ELSE IF k = 2 THEN (x % (P * P)) \div P
        ELSE (x % (P * P)) % P

--------------------------------------------------------------------------------
(* Properties *)

Path(n) == [k \in 1 .. Level(n) |-> WriteSlot(n, k)]

(* For every block of the largest file, hodo_read_nth_block goes through   *)
(* the same pointer and the same slots as write_one_block and              *)
(* write_one_block_by_indirect_block, and stays inside each block.         *)
SlotsAgree ==
    \A n \in 0 .. Base(4) - 1 :
        /\ ReadLevel(n) = Level(n)
        /\ \A k \in 1 .. Level(n) :
              ReadSlot(n, k) = WriteSlot(n, k) /\ WriteSlot(n, k) \in 0 .. P - 1

(* No two blocks of a file behind an indirect pointer have the same path,  *)
(* so that a write never lands on another block of the file.               *)
PathsDistinct ==
    \A m, n \in Base(1) .. Base(4) - 1 :
        Level(m) = Level(n) /\ Path(m) = Path(n) => m = n

================================================================================
