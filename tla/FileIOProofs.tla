------------------------------ MODULE FileIOProofs -----------------------------
(***************************************************************************)
(* Theorems about FileIndex and FileIO.                                    *)
(*                                                                         *)
(* The read path and the write path compute the slots of a block with      *)
(* different arithmetic; they agree, and no two blocks share a place, for  *)
(* every geometry (ReadFollowsWrite, WritesApart). A write goes down from  *)
(* the inode, and on the way up gives every block that was missing a new   *)
(* number: what it leaves of the blocks and of the inode is Effect. Effect *)
(* keeps the shape of the tree (Shape): each pointer leads to a block of   *)
(* the level its place asks for, no number has two places and none in use  *)
(* has none. That there is always a number left is counted level by level  *)
(* (NumbersLeft). On the tree stands the content: FileInv has byte i of    *)
(* the file at the place that a walk to it finds, with the bytes that the  *)
(* call under way has written over it.                                     *)
(***************************************************************************)
EXTENDS FileIO, FiniteSetTheorems, SequenceTheorems, WellFoundedInduction, TLAPS

--------------------------------------------------------------------------------
(* The arithmetic of the slots *)

(* Quotient and remainder are determined by their equation. *)
LEMMA DivModUnique ==
    ASSUME NEW m \in Nat \ {0}, NEW q \in Nat, NEW r \in 0 .. m - 1, NEW x \in Nat,
           x = q * m + r
    PROVE  x \div m = q /\ x % m = r
<1> DEFINE d == x \div m
<1> DEFINE e == x % m
<1>1. d \in Int /\ e \in 0 .. m - 1 /\ x = m * d + e
  OBVIOUS
<1>2. ~(d > q)
  <2> SUFFICES ASSUME d > q PROVE FALSE
    OBVIOUS
  <2> DEFINE t == d - q - 1
  <2>1. t \in Nat /\ d = q + 1 + t
    BY <1>1
  <2>2. m * t >= 0
    BY <2>1
  <2>3. m * d = m * q + m + m * t
    BY <2>1
  <2> QED
    BY <1>1, <2>2, <2>3
<1>3. ~(d < q)
  <2> SUFFICES ASSUME d < q PROVE FALSE
    OBVIOUS
  <2> DEFINE t == q - d - 1
  <2>1. t \in Nat /\ q = d + 1 + t
    BY <1>1
  <2>2. m * t >= 0
    BY <2>1
  <2>3. m * q = m * d + m + m * t
    BY <2>1
  <2> QED
    BY <1>1, <2>2, <2>3
<1>4. d = q
  BY <1>1, <1>2, <1>3
<1> QED
  BY <1>1, <1>4

(* The number x in base P, three digits. *)
LEMMA Digits ==
    ASSUME NEW x \in Nat
    PROVE  LET q == (x \div P) \div P
               b == (x \div P) % P
               c == x % P
           IN  /\ q \in Nat /\ b \in 0 .. P - 1 /\ c \in 0 .. P - 1
               /\ x = q * (P * P) + (b * P + c)
               /\ b * P + c \in 0 .. P * P - 1
<1> DEFINE a == x \div P
<1> DEFINE q == a \div P
<1> DEFINE b == a % P
<1> DEFINE c == x % P
<1>0. P \in Nat \ {0}
  BY IndexAssumption DEF P
<1>1. a \in Nat /\ c \in 0 .. P - 1 /\ x = P * a + c
  BY <1>0
<1>2. q \in Nat /\ b \in 0 .. P - 1 /\ a = P * q + b
  BY <1>0, <1>1
<1> HIDE DEF a, q, b, c
<1>3. P * a = q * (P * P) + b * P
  BY <1>0, <1>1, <1>2
<1>4. b * P + c \in 0 .. P * P - 1
  <2> DEFINE t == P - 1 - b
  <2>1. t \in Nat /\ P = b + 1 + t
    BY <1>0, <1>2
  <2>2. t * P >= 0 /\ b * P >= 0 /\ b * P \in Int /\ t * P \in Int /\ P * P \in Int
    BY <1>0, <1>2, <2>1
  <2>3. P * P = b * P + P + t * P
    BY <1>0, <1>2, <2>1
  <2> QED
    BY <1>0, <1>1, <2>2, <2>3
<1>5. x = q * (P * P) + (b * P + c)
  <2>1. b * P \in Int /\ q * (P * P) \in Int
    BY <1>0, <1>2
  <2> QED
    BY <1>1, <1>3, <2>1
<1> QED
  BY <1>1, <1>2, <1>4, <1>5 DEF a, q, b, c

(* The bases of the levels grow. *)
LEMMA Bases ==
    /\ P \in Nat \ {0}
    /\ Base(0) = 0 /\ Base(1) = NDirect /\ Base(2) = NDirect + P
    /\ Base(3) = NDirect + P + P * P /\ Base(4) = NDirect + P + P * P + P * P * P
    /\ Base(1) \in Nat /\ Base(2) \in Nat /\ Base(3) \in Nat /\ Base(4) \in Nat
    /\ Base(1) < Base(2) /\ Base(2) < Base(3) /\ Base(3) < Base(4)
    /\ P * P \in Nat \ {0} /\ P * P * P \in Nat \ {0}
<1>1. P \in Nat \ {0} /\ NDirect \in Nat
  BY IndexAssumption DEF P
<1>2. P * P \in Nat /\ P * P > 0
  BY <1>1
<1> DEFINE PP == P * P
<1>3. PP * P \in Nat /\ PP * P > 0
  <2> HIDE DEF PP
  <2>1. PP \in Nat /\ PP > 0
    BY <1>2 DEF PP
  <2> QED
    BY <1>1, <2>1
<1>4. /\ Base(0) = 0 /\ Base(1) = NDirect /\ Base(2) = NDirect + P
      /\ Base(3) = NDirect + P + P * P /\ Base(4) = NDirect + P + P * P + P * P * P
  BY DEF Base
<1> QED
  BY <1>1, <1>2, <1>3, <1>4

(* The level of a block, and where it lies above the level's base. *)
LEMMA Levels ==
    ASSUME NEW n \in 0 .. Base(4) - 1
    PROVE  /\ Level(n) \in 0 .. 3
           /\ ReadLevel(n) = Level(n)
           /\ Base(Level(n)) \in Nat
           /\ n - Base(Level(n)) \in Nat
           /\ Level(n) = 1 => n - Base(1) < P
           /\ Level(n) = 2 => n - Base(2) < P * P
           /\ Level(n) = 3 => n - Base(3) < P * P * P
<1>1. CASE n < Base(1)
  BY <1>1, Bases DEF Level, ReadLevel
<1>2. CASE n >= Base(1) /\ n < Base(2)
  BY <1>2, Bases DEF Level, ReadLevel
<1>3. CASE n >= Base(2) /\ n < Base(3)
  BY <1>3, Bases DEF Level, ReadLevel
<1>4. CASE n >= Base(3)
  BY <1>4, Bases DEF Level, ReadLevel
<1> QED
  BY <1>1, <1>2, <1>3, <1>4, Bases

(* A quotient is below the bound that its product is below. *)
LEMMA QuotientBound ==
    ASSUME NEW m \in Nat \ {0}, NEW q \in Nat, NEW r \in Nat, NEW b \in Nat,
           q * m + r < b * m
    PROVE  q < b
<1> SUFFICES ASSUME q >= b PROVE FALSE
  OBVIOUS
<1> DEFINE t == q - b
<1>1. t \in Nat /\ q = b + t
  OBVIOUS
<1>2. t * m >= 0 /\ b * m \in Int /\ t * m \in Int
  BY <1>1
<1>3. q * m = b * m + t * m
  BY <1>1
<1> QED
  BY <1>2, <1>3

(* The slots of a block by level, in the digits of its place. *)
LEMMA Slots ==
    ASSUME NEW n \in 0 .. Base(4) - 1, NEW k \in 1 .. Level(n)
    PROVE  LET x == n - Base(Level(n))
               q == (x \div P) \div P
               b == (x \div P) % P
               c == x % P
               s == IF k = 1 THEN c ELSE IF k = 2 THEN b ELSE q
           IN  /\ WriteSlot(n, k) = s /\ ReadSlot(n, k) = s
               /\ s \in 0 .. P - 1
               /\ Level(n) = 1 => b = 0 /\ q = 0
               /\ Level(n) = 2 => q = 0
<1> DEFINE L == Level(n)
<1> DEFINE x == n - Base(L)
<1> DEFINE q == (x \div P) \div P
<1> DEFINE b == (x \div P) % P
<1> DEFINE c == x % P
<1>0. /\ P \in Nat \ {0} /\ P * P \in Nat \ {0}
      /\ L \in 1 .. 3 /\ ReadLevel(n) = L /\ x \in Nat
      /\ L = 1 => x < P
      /\ L = 2 => x < P * P
      /\ L = 3 => x < P * P * P
      /\ k \in 1 .. 3 /\ k <= L
  BY Bases, Levels
<1>1. /\ q \in Nat /\ b \in 0 .. P - 1 /\ c \in 0 .. P - 1
      /\ x = q * (P * P) + (b * P + c)
      /\ b * P + c \in 0 .. P * P - 1
  BY <1>0, Digits
<1> DEFINE a == x \div P
<1>2. a \in Nat /\ x = a * P + c
  <2>1. \A y \in Nat : y \div P \in Nat /\ y = (y \div P) * P + (y % P)
    BY <1>0
  <2> QED
    BY <1>0, <2>1
<1> DEFINE s == IF k = 1 THEN c ELSE IF k = 2 THEN b ELSE q
<1> DEFINE Goal == /\ WriteSlot(n, k) = s /\ ReadSlot(n, k) = s
                   /\ s \in 0 .. P - 1
                   /\ L = 1 => b = 0 /\ q = 0
                   /\ L = 2 => q = 0
<1> SUFFICES Goal
  OBVIOUS
<1>3. CASE L = 1
  <2>1. x = 0 * P + x
    BY <1>0
  <2>2. a = 0 /\ c = x
    BY <1>0, <1>3, <2>1, DivModUnique
  <2>3. 0 \div P = 0 /\ 0 % P = 0
    <3>1. 0 = 0 * P + 0
      BY <1>0
    <3> QED
      BY <1>0, <3>1, DivModUnique
  <2>4. k = 1 /\ WriteSlot(n, k) = x /\ ReadSlot(n, k) = x
    BY <1>0, <1>3 DEF WriteSlot, ReadSlot
  <2>5. b = 0 /\ q = 0
    BY <2>2, <2>3
  <2> QED
    BY <1>0, <1>1, <1>3, <2>2, <2>4, <2>5
<1>4. CASE L = 2
  <2>1. a < P
    <3> HIDE DEF a, x, c
    <3> QED
      BY <1>0, <1>2, <1>4, <1>1, QuotientBound
  <2>2. a = 0 * P + a /\ a \in 0 .. P - 1
    BY <1>0, <1>2, <2>1
  <2>3. q = 0 /\ b = a
    <3>1. q = a \div P /\ b = a % P
      OBVIOUS
    <3> HIDE DEF a, b, q
    <3>2. P \in Nat \ {0} /\ a \in Nat /\ a \in 0 .. P - 1 /\ a = 0 * P + a
      BY <1>0, <1>2, <2>2
    <3>3. a \div P = 0 /\ a % P = a
      BY <3>2, DivModUnique
    <3> QED
      BY <3>1, <3>3
  <2>4. /\ k \in 1 .. 2
        /\ WriteSlot(n, k) = IF k = 1 THEN c ELSE a
        /\ ReadSlot(n, k) = IF k = 1 THEN c ELSE a
    BY <1>0, <1>4 DEF WriteSlot, ReadSlot
  <2> HIDE DEF a, b, c, q, x, L
  <2> QED
    BY <1>0, <1>1, <1>4, <2>2, <2>3, <2>4
<1>5. CASE L = 3
  <2> DEFINE r == b * P + c
  <2>1. x \div (P * P) = q /\ x % (P * P) = r
    <3> DEFINE m == P * P
    <3>1. m \in Nat \ {0} /\ x = q * m + r /\ r \in 0 .. m - 1
      BY <1>0, <1>1
    <3> HIDE DEF m, q, r, x
    <3>2. q \in Nat
      BY <1>1
    <3> QED
      BY <1>0, <3>1, <3>2, DivModUnique DEF m
  <2>2. r \div P = b /\ r % P = c
    <3> HIDE DEF b, c, q, x
    <3>1. r \in Nat
      BY <1>0, <1>1
    <3> HIDE DEF r
    <3>2. r = b * P + c
      BY DEF r
    <3> QED
      BY <1>0, <1>1, <3>1, <3>2, DivModUnique
  <2>3. q < P
    <3> DEFINE m == P * P
    <3>1. m \in Nat \ {0} /\ q * m + r < P * m /\ r \in Nat
      <4>1. P * P * P = P * (P * P)
        BY <1>0
      <4> QED
        BY <1>0, <1>1, <1>5, <4>1
    <3> HIDE DEF m, q, r
    <3> QED
      BY <1>0, <1>1, <3>1, QuotientBound
  <2>4. /\ WriteSlot(n, k) = IF k = 1 THEN c ELSE IF k = 3 THEN q ELSE b
        /\ ReadSlot(n, k) = IF k = 3 THEN x \div (P * P)
                            ELSE IF k = 2 THEN (x % (P * P)) \div P
                            ELSE (x % (P * P)) % P
    BY <1>0, <1>5 DEF WriteSlot, ReadSlot
  <2>5. ReadSlot(n, k) = IF k = 3 THEN q ELSE IF k = 2 THEN b ELSE c
    <3> HIDE DEF b, c, q, x, r
    <3> QED
      BY <2>1, <2>2, <2>4
  <2> HIDE DEF b, c, q, x, L
  <2> QED
    BY <1>0, <1>1, <1>5, <2>3, <2>4, <2>5
<1> QED
  BY <1>0, <1>3, <1>4, <1>5

(* The read path and the write path agree on the slots of every block, for *)
(* any number of direct pointers and any number of pointers in a block     *)
(* (trans.c:207-284 against 494-580).                                      *)
THEOREM ReadFollowsWrite == SlotsAgree
<1> SUFFICES ASSUME NEW n \in 0 .. Base(4) - 1
             PROVE  /\ ReadLevel(n) = Level(n)
                    /\ \A k \in 1 .. Level(n) :
                          ReadSlot(n, k) = WriteSlot(n, k) /\ WriteSlot(n, k) \in 0 .. P - 1
  BY DEF SlotsAgree
<1>1. ReadLevel(n) = Level(n)
  BY Levels
<1>2. ASSUME NEW k \in 1 .. Level(n)
      PROVE  ReadSlot(n, k) = WriteSlot(n, k) /\ WriteSlot(n, k) \in 0 .. P - 1
  BY Slots
<1> QED
  BY <1>1, <1>2

(* Two blocks of a file never share a path, for any geometry. *)
THEOREM WritesApart == PathsDistinct
<1> SUFFICES ASSUME NEW m \in Base(1) .. Base(4) - 1, NEW n \in Base(1) .. Base(4) - 1,
                    Level(m) = Level(n), Path(m) = Path(n)
             PROVE  m = n
  BY DEF PathsDistinct
<1> DEFINE L == Level(n)
<1> DEFINE x == m - Base(L)
<1> DEFINE y == n - Base(L)
<1>0. /\ m \in 0 .. Base(4) - 1 /\ n \in 0 .. Base(4) - 1
      /\ Level(n) # 0
  BY Bases DEF Level
<1>1. /\ L \in 1 .. 3 /\ Base(L) \in Nat /\ x \in Nat /\ y \in Nat
  BY <1>0, Levels
<1>2. \A k \in 1 .. L : WriteSlot(m, k) = WriteSlot(n, k)
  <2>1. \A k \in 1 .. L : Path(m)[k] = WriteSlot(m, k) /\ Path(n)[k] = WriteSlot(n, k)
    BY DEF Path
  <2> QED
    BY <2>1
<1>3. /\ x % P = y % P
      /\ (x \div P) % P = (y \div P) % P
      /\ (x \div P) \div P = (y \div P) \div P
  <2>1. x % P = y % P
    BY <1>0, <1>1, <1>2, Slots
  <2>2. (x \div P) % P = (y \div P) % P
    <3>1. CASE L = 1
      <4>1. 1 \in 1 .. Level(m) /\ 1 \in 1 .. Level(n)
        BY <3>1
      <4> QED
        BY <1>0, <1>1, <3>1, <4>1, Slots
    <3>2. CASE L # 1
      BY <1>0, <1>1, <1>2, <3>2, Slots
    <3> QED
      BY <3>1, <3>2
  <2>3. (x \div P) \div P = (y \div P) \div P
    <3>1. CASE L = 3
      BY <1>0, <1>1, <1>2, <3>1, Slots
    <3>2. CASE L # 3
      <4>1. 1 \in 1 .. Level(m) /\ 1 \in 1 .. Level(n)
        BY <1>1
      <4> QED
        BY <1>0, <1>1, <3>2, <4>1, Slots
    <3> QED
      BY <3>1, <3>2
  <2> QED
    BY <2>1, <2>2, <2>3
<1>4. x = y
  BY <1>1, <1>3, Digits
<1> QED
  BY <1>0, <1>1, <1>4

--------------------------------------------------------------------------------
(* The way down to a block *)

(* f has the numbers on the way down to block n, from blocks b and inode   *)
(* ino.                                                                    *)
IsWalk(f, n, b, ino) ==
    f = [k \in 0 .. Level(n) |->
            IF k = Level(n) THEN TopPointer(ino, n, Level(n))
            ELSE IF f[k + 1] = 0 THEN 0 ELSE b[f[k + 1]].data[WriteSlot(n, k + 1)]]

FileBlock == 0 .. Base(4) - 1

LEMMA LevelRange ==
    ASSUME NEW n \in FileBlock
    PROVE  /\ Level(n) \in 0 .. 3 /\ Level(n) \in Nat
           /\ Level(n) = 0 \/ Level(n) = 1 \/ Level(n) = 2 \/ Level(n) = 3
           /\ ReadLevel(n) = Level(n)
           /\ \A k \in 1 .. Level(n) : WriteSlot(n, k) \in Slot /\ ReadSlot(n, k) = WriteSlot(n, k)
<1>1. Level(n) \in 0 .. 3 /\ ReadLevel(n) = Level(n)
  BY Levels DEF FileBlock
<1>2. \A k \in 1 .. Level(n) : WriteSlot(n, k) \in Slot /\ ReadSlot(n, k) = WriteSlot(n, k)
  BY ReadFollowsWrite DEF FileBlock, SlotsAgree, Slot
<1> QED
  BY <1>1, <1>2

LEMMA WalkExists ==
    ASSUME NEW n \in FileBlock, NEW b, NEW ino
    PROVE  \E f : IsWalk(f, n, b, ino)
<1> DEFINE L == Level(n)
           Down(u, k) == IF u = 0 THEN 0 ELSE b[u].data[WriteSlot(n, k)]
           a3 == TopPointer(ino, n, L)
           a2 == Down(a3, L)
           a1 == Down(a2, L - 1)
           a0 == Down(a1, L - 2)
           f == [k \in 0 .. L |-> IF k = L THEN a3 ELSE IF k = L - 1 THEN a2
                                  ELSE IF k = L - 2 THEN a1 ELSE a0]
<1>1. L \in 0 .. 3
  BY LevelRange
<1> HIDE DEF L, a3
<1>2. ASSUME NEW k \in 0 .. L
      PROVE  f[k] = IF k = L THEN a3 ELSE Down(f[k + 1], k + 1)
  <2>1. CASE k = L
    BY <2>1
  <2>2. CASE k = L - 1
    <3>1. k # L /\ k + 1 \in 0 .. L /\ k + 1 = L
      BY <1>1, <2>2
    <3>2. f[k] = a2 /\ f[k + 1] = a3
      BY <1>1, <2>2, <3>1
    <3> HIDE DEF f
    <3> QED
      BY <3>1, <3>2
  <2>3. CASE k = L - 2
    <3>1. k # L /\ k # L - 1 /\ k + 1 \in 0 .. L /\ k + 1 = L - 1 /\ L - 1 # L
      BY <1>1, <2>3
    <3>2. f[k] = a1 /\ f[k + 1] = a2
      BY <1>1, <2>3, <3>1
    <3> HIDE DEF f
    <3> QED
      BY <3>1, <3>2
  <2>4. CASE k = L - 3
    <3>1. k # L /\ k # L - 1 /\ k # L - 2 /\ k + 1 \in 0 .. L /\ k + 1 = L - 2
          /\ k + 1 # L /\ k + 1 # L - 1
      BY <1>1, <2>4
    <3>2. f[k] = a0 /\ f[k + 1] = a1
      BY <1>1, <2>4, <3>1
    <3> HIDE DEF f
    <3> QED
      BY <3>1, <3>2
  <2>5. k = L \/ k = L - 1 \/ k = L - 2 \/ k = L - 3
    BY <1>1
  <2> HIDE DEF f, Down
  <2> QED
    BY <2>1, <2>2, <2>3, <2>4, <2>5
<1>3. f = [k \in 0 .. L |-> f[k]]
  OBVIOUS
<1> HIDE DEF f
<1>4. f = [k \in 0 .. L |-> IF k = L THEN a3 ELSE Down(f[k + 1], k + 1)]
  BY <1>2, <1>3
<1> QED
  BY <1>4 DEF IsWalk, L, a3

LEMMA WalkAt ==
    ASSUME NEW n \in FileBlock, NEW b, NEW ino, NEW f, IsWalk(f, n, b, ino)
    PROVE  /\ DOMAIN f = 0 .. Level(n)
           /\ f[Level(n)] = TopPointer(ino, n, Level(n))
           /\ \A k \in 0 .. Level(n) : k < Level(n) =>
                 f[k] = IF f[k + 1] = 0 THEN 0 ELSE b[f[k + 1]].data[WriteSlot(n, k + 1)]
<1>1. Level(n) \in Nat
  BY LevelRange
<1>2. f = [k \in 0 .. Level(n) |->
              IF k = Level(n) THEN TopPointer(ino, n, Level(n))
              ELSE IF f[k + 1] = 0 THEN 0 ELSE b[f[k + 1]].data[WriteSlot(n, k + 1)]]
  BY DEF IsWalk
<1>3. DOMAIN f = 0 .. Level(n)
  BY <1>2
<1>4. \A k \in 0 .. Level(n) :
         f[k] = IF k = Level(n) THEN TopPointer(ino, n, Level(n))
                ELSE IF f[k + 1] = 0 THEN 0 ELSE b[f[k + 1]].data[WriteSlot(n, k + 1)]
  BY <1>2
<1> QED
  BY <1>1, <1>3, <1>4

(* What WriteNumbers computes, in a state and in the next one. *)
LEMMA WalkNow ==
    ASSUME NEW n \in FileBlock
    PROVE  IsWalk(WriteNumbers(n), n, blocks, inode)
<1>1. \E f : IsWalk(f, n, blocks, inode)
  BY WalkExists
<1>2. WriteNumbers(n) = CHOOSE f : IsWalk(f, n, blocks, inode)
  BY DEF WriteNumbers, IsWalk
<1> QED
  BY <1>1, <1>2

LEMMA WalkNext ==
    ASSUME NEW n \in FileBlock
    PROVE  IsWalk(WriteNumbers(n)', n, blocks', inode')
<1>1. \E f : IsWalk(f, n, blocks', inode')
  BY WalkExists
<1>2. WriteNumbers(n)' = CHOOSE f : IsWalk(f, n, blocks', inode')
  BY DEF WriteNumbers, IsWalk
<1> QED
  BY <1>1, <1>2

(* The reader's way down. *)
IsReadWalk(f, n) ==
    f = [k \in 0 .. ReadLevel(n) |->
            IF k = ReadLevel(n) THEN TopPointer(inode, n, ReadLevel(n))
            ELSE IF f[k + 1] = 0 \/ ReadSlot(n, k + 1) \notin Slot THEN 0
            ELSE blocks[f[k + 1]].data[ReadSlot(n, k + 1)]]

LEMMA ReadWalksTheSame ==
    ASSUME NEW n \in FileBlock, NEW f
    PROVE  IsReadWalk(f, n) <=> IsWalk(f, n, blocks, inode)
<1> DEFINE L == Level(n)
<1>1. L \in Nat /\ ReadLevel(n) = L
  BY LevelRange
<1>2. ASSUME NEW k \in 0 .. L, k # L
      PROVE  k + 1 \in 1 .. L /\ ReadSlot(n, k + 1) \in Slot
             /\ ReadSlot(n, k + 1) = WriteSlot(n, k + 1)
  <2>1. k + 1 \in 1 .. L
    BY <1>1, <1>2
  <2> QED
    BY <2>1, LevelRange
<1> HIDE DEF L
<1>3. [k \in 0 .. L |-> IF k = L THEN TopPointer(inode, n, L)
                        ELSE IF f[k + 1] = 0 \/ ReadSlot(n, k + 1) \notin Slot THEN 0
                        ELSE blocks[f[k + 1]].data[ReadSlot(n, k + 1)]]
      = [k \in 0 .. L |-> IF k = L THEN TopPointer(inode, n, L)
                          ELSE IF f[k + 1] = 0 THEN 0
                          ELSE blocks[f[k + 1]].data[WriteSlot(n, k + 1)]]
  BY <1>2
<1> QED
  BY <1>1, <1>3 DEF IsReadWalk, IsWalk, L

LEMMA WalkUnique ==
    ASSUME NEW n \in FileBlock, NEW b, NEW ino, NEW f, NEW g,
           IsWalk(f, n, b, ino), IsWalk(g, n, b, ino)
    PROVE  \A k \in 0 .. Level(n) : f[k] = g[k]
<1> DEFINE L == Level(n)
<1>1. L \in 0 .. 3
  BY LevelRange
<1>2. f[L] = g[L]
  BY WalkAt
<1>3. ASSUME NEW k \in 0 .. L, k < L, f[k + 1] = g[k + 1] PROVE f[k] = g[k]
  BY <1>3, WalkAt
<1>4. ASSUME NEW k \in 0 .. L, k = L - 1 PROVE f[k] = g[k]
  BY <1>1, <1>2, <1>3, <1>4
<1>5. ASSUME NEW k \in 0 .. L, k = L - 2 PROVE f[k] = g[k]
  <2>1. k + 1 \in 0 .. L /\ k + 1 = L - 1 /\ k < L
    BY <1>1, <1>5
  <2> QED
    BY <2>1, <1>3, <1>4
<1>6. ASSUME NEW k \in 0 .. L, k = L - 3 PROVE f[k] = g[k]
  <2>1. k + 1 \in 0 .. L /\ k + 1 = L - 2 /\ k < L
    BY <1>1, <1>6
  <2> QED
    BY <2>1, <1>3, <1>5
<1>7. \A k \in 0 .. L : k = L \/ k = L - 1 \/ k = L - 2 \/ k = L - 3
  BY <1>1
<1> QED
  BY <1>2, <1>4, <1>5, <1>6, <1>7

(* hodo_read_nth_block comes to the number that a write would replace. *)
LEMMA ReaderFinds ==
    ASSUME NEW n \in FileBlock
    PROVE  ReadNumber(n) = WriteNumbers(n)[0]
<1> DEFINE f == CHOOSE f : IsReadWalk(f, n)
<1>1. ReadNumber(n) = f[0]
  BY DEF ReadNumber, IsReadWalk
<1>2. IsReadWalk(f, n)
  BY WalkNow, ReadWalksTheSame
<1> HIDE DEF f
<1>3. IsWalk(f, n, blocks, inode)
  BY <1>2, ReadWalksTheSame
<1>4. 0 \in 0 .. Level(n)
  BY LevelRange
<1> QED
  BY <1>1, <1>3, <1>4, WalkNow, WalkUnique

--------------------------------------------------------------------------------
(* The shape of the tree *)

(* Induction over the levels, with a set for the predicate. *)
LEMMA DownLevels ==
    ASSUME NEW L \in 0 .. 3, NEW S, L \in S,
           \A k \in 0 .. L : k < L /\ k + 1 \in S => k \in S
    PROVE  \A k \in 0 .. L : k \in S
<1>1. \A k \in 0 .. L : k = L - 1 => k \in S
  <2> SUFFICES ASSUME NEW k \in 0 .. L, k = L - 1 PROVE k \in S
    OBVIOUS
  <2>1. k < L /\ k + 1 = L
    OBVIOUS
  <2> QED
    BY <2>1
<1>2. \A k \in 0 .. L : k = L - 2 => k \in S
  <2> SUFFICES ASSUME NEW k \in 0 .. L, k = L - 2 PROVE k \in S
    OBVIOUS
  <2>1. k < L /\ k + 1 = L - 1 /\ k + 1 \in 0 .. L
    OBVIOUS
  <2> QED
    BY <1>1, <2>1
<1>3. \A k \in 0 .. L : k = L - 3 => k \in S
  <2> SUFFICES ASSUME NEW k \in 0 .. L, k = L - 3 PROVE k \in S
    OBVIOUS
  <2>1. k < L /\ k + 1 = L - 2 /\ k + 1 \in 0 .. L
    OBVIOUS
  <2> QED
    BY <1>2, <2>1
<1>4. \A k \in 0 .. L : k = L \/ k = L - 1 \/ k = L - 2 \/ k = L - 3
  OBVIOUS
<1> QED
  BY <1>1, <1>2, <1>3, <1>4

LEMMA UpLevels ==
    ASSUME NEW L \in 0 .. 3, NEW S, 0 \in S,
           \A k \in 0 .. L : k > 0 /\ k - 1 \in S => k \in S
    PROVE  \A k \in 0 .. L : k \in S
<1>1. 1 \in 0 .. L => 1 \in S
  <2>1. 1 - 1 = 0 /\ 1 > 0
    OBVIOUS
  <2> QED
    BY <2>1
<1>2. 2 \in 0 .. L => 2 \in S
  <2>1. 2 - 1 = 1 /\ 2 > 0 /\ (2 \in 0 .. L => 1 \in 0 .. L)
    OBVIOUS
  <2> QED
    BY <2>1, <1>1
<1>3. 3 \in 0 .. L => 3 \in S
  <2>1. 3 - 1 = 2 /\ 3 > 0 /\ (3 \in 0 .. L => 2 \in 0 .. L)
    OBVIOUS
  <2> QED
    BY <2>1, <1>2
<1>4. \A k \in 0 .. L : k = 0 \/ k = 1 \/ k = 2 \/ k = 3
  OBVIOUS
<1> QED
  BY <1>1, <1>2, <1>3, <1>4

Byte == Nat \X Nat

Pointer == Number \cup {0}

IsBlock(x) ==
    /\ x = [magic |-> x.magic, data |-> x.data]
    /\ x.magic \in -1 .. 3
    /\ x.magic = -1 => x = Unused
    /\ x.magic = 0 => x.data \in [Offset -> Byte]
    /\ x.magic > 0 => x.data \in [Slot -> Pointer]

InodeType ==
    [file_len : Nat, direct : [0 .. NDirect - 1 -> Pointer], indirect : [1 .. 3 -> Pointer]]

(* Places of a number: <<0, i>> the direct pointer i, <<-1, k>> the         *)
(* indirect pointer k, <<x, i>> slot i of the indirect block x.            *)
IsPlace(b, x, i) ==
    \/ x = 0 /\ i \in 0 .. NDirect - 1
    \/ x = -1 /\ i \in 1 .. 3
    \/ x \in Number /\ i \in Slot /\ b[x].magic > 0

Value(b, ino, x, i) ==
    IF x = 0 THEN ino.direct[i] ELSE IF x = -1 THEN ino.indirect[i] ELSE b[x].data[i]

(* The level a place asks for. *)
LevelAt(b, x, i) == IF x = 0 THEN 0 ELSE IF x = -1 THEN i ELSE b[x].magic - 1

(* Every pointer leads to a block of its level. *)
Typed(b, ino) ==
    \A x, i : IsPlace(b, x, i) /\ Value(b, ino, x, i) # 0 =>
        b[Value(b, ino, x, i)].magic = LevelAt(b, x, i)

(* No number has two places. *)
Unshared(b, ino) ==
    \A x, i, y, j : /\ IsPlace(b, x, i) /\ IsPlace(b, y, j)
                    /\ Value(b, ino, x, i) # 0
                    /\ Value(b, ino, x, i) = Value(b, ino, y, j)
                    => x = y /\ i = j

(* Every block in use has a place. *)
Hung(b, ino) ==
    \A m \in Number : b[m].magic # -1 =>
        \E x, i : IsPlace(b, x, i) /\ Value(b, ino, x, i) = m

Shape(b, ino) ==
    /\ b = [m \in Number |-> b[m]] /\ \A m \in Number : IsBlock(b[m])
    /\ ino \in InodeType
    /\ Typed(b, ino) /\ Unshared(b, ino) /\ Hung(b, ino)

LEMMA Constants ==
    /\ P \in Nat \ {0} /\ NDirect \in Nat \ {0} /\ DataSize \in Nat \ {0}
    /\ Base(4) \in Nat /\ Base(1) = NDirect
    /\ 0 \notin Number /\ -1 \notin Number /\ Number \subseteq Nat
BY Bases, IndexAssumption, FileAssumption DEF Number, P

(* The pointer of the inode under which block n hangs, as a place. *)
TopX(n) == IF Level(n) = 0 THEN 0 ELSE -1

TopI(n) == IF Level(n) = 0 THEN n ELSE Level(n)

LEMMA TopPlace ==
    ASSUME NEW n \in FileBlock, NEW b, NEW ino
    PROVE  /\ IsPlace(b, TopX(n), TopI(n))
           /\ Value(b, ino, TopX(n), TopI(n)) = TopPointer(ino, n, Level(n))
           /\ LevelAt(b, TopX(n), TopI(n)) = Level(n)
<1>1. Level(n) \in 0 .. 3
  BY LevelRange
<1>2. CASE Level(n) = 0
  <2>1. n \in 0 .. NDirect - 1
    BY <1>2, Constants, Bases DEF Level, FileBlock
  <2> QED
    BY <1>2, <2>1 DEF IsPlace, TopX, TopI, Value, TopPointer, LevelAt
<1>3. CASE Level(n) # 0
  BY <1>1, <1>3 DEF IsPlace, TopX, TopI, Value, TopPointer, LevelAt
<1> QED
  BY <1>2, <1>3

LEMMA PlaceType ==
    ASSUME NEW b, NEW ino, Shape(b, ino), NEW x, NEW i, IsPlace(b, x, i)
    PROVE  Value(b, ino, x, i) \in Pointer
<1>1. CASE x = 0 /\ i \in 0 .. NDirect - 1
  BY <1>1 DEF Shape, Value, InodeType
<1>2. CASE x = -1 /\ i \in 1 .. 3
  BY <1>2 DEF Shape, Value, InodeType
<1>3. CASE x \in Number /\ i \in Slot /\ b[x].magic > 0
  <2>1. IsBlock(b[x]) /\ x # 0 /\ x # -1
    BY <1>3, Constants DEF Shape
  <2> QED
    BY <1>3, <2>1 DEF IsBlock, Value
<1> QED
  BY <1>1, <1>2, <1>3 DEF IsPlace

(* On the way down every number has the level of its place. *)
LEMMA WalkTyped ==
    ASSUME NEW n \in FileBlock, NEW b, NEW ino, NEW f, Shape(b, ino), IsWalk(f, n, b, ino),
           NEW k \in 0 .. Level(n)
    PROVE  f[k] \in Pointer /\ (f[k] # 0 => b[f[k]].magic = k)
<1> DEFINE L == Level(n)
           S == {j \in 0 .. L : f[j] \in Pointer /\ (f[j] # 0 => b[f[j]].magic = j)}
<1>1. L \in 0 .. 3
  BY LevelRange
<1>2. L \in S
  <2>1. f[L] = Value(b, ino, TopX(n), TopI(n))
    BY WalkAt, TopPlace
  <2>2. f[L] \in Pointer
    BY <2>1, TopPlace, PlaceType
  <2>3. f[L] # 0 => b[f[L]].magic = L
    BY <2>1, TopPlace DEF Shape, Typed
  <2> QED
    BY <1>1, <2>2, <2>3
<1>3. ASSUME NEW j \in 0 .. L, j < L, j + 1 \in S PROVE j \in S
  <2>1. f[j] = IF f[j + 1] = 0 THEN 0 ELSE b[f[j + 1]].data[WriteSlot(n, j + 1)]
    BY <1>3, WalkAt
  <2>2. CASE f[j + 1] = 0
    BY <2>1, <2>2 DEF Pointer
  <2>3. CASE f[j + 1] # 0
    <3>1. f[j + 1] \in Number /\ b[f[j + 1]].magic = j + 1 /\ j + 1 \in 1 .. L
      BY <1>1, <1>3, <2>3 DEF Pointer
    <3>2. WriteSlot(n, j + 1) \in Slot
      BY <3>1, LevelRange
    <3> DEFINE x == f[j + 1]
               i == WriteSlot(n, j + 1)
    <3>3. IsPlace(b, x, i)
      BY <3>1, <3>2 DEF IsPlace
    <3>4. Value(b, ino, x, i) = f[j] /\ LevelAt(b, x, i) = j
      BY <2>1, <2>3, <3>1, Constants DEF Value, LevelAt
    <3> QED
      BY <3>3, <3>4, PlaceType DEF Shape, Typed
  <2> QED
    BY <2>2, <2>3
<1> HIDE DEF S
<1>4. \A j \in 0 .. L : j \in S
  BY <1>1, <1>2, <1>3, DownLevels
<1> QED
  BY <1>4 DEF S

(* The place of level k on the way down to block n. *)
PathX(f, n, k) == IF k = Level(n) THEN TopX(n) ELSE f[k + 1]

PathI(f, n, k) == IF k = Level(n) THEN TopI(n) ELSE WriteSlot(n, k + 1)

(* A number that the way down meets is in the place where it looked. *)
LEMMA WalkPlaces ==
    ASSUME NEW n \in FileBlock, NEW b, NEW ino, NEW f, Shape(b, ino), IsWalk(f, n, b, ino),
           NEW k \in 0 .. Level(n), k < Level(n) => f[k + 1] # 0
    PROVE  /\ IsPlace(b, PathX(f, n, k), PathI(f, n, k))
           /\ Value(b, ino, PathX(f, n, k), PathI(f, n, k)) = f[k]
           /\ LevelAt(b, PathX(f, n, k), PathI(f, n, k)) = k
<1>1. Level(n) \in 0 .. 3
  BY LevelRange
<1>2. CASE k = Level(n)
  BY <1>2, WalkAt, TopPlace DEF PathX, PathI
<1>3. CASE k < Level(n)
  <2>1. k + 1 \in 0 .. Level(n) /\ k + 1 \in 1 .. Level(n) /\ k + 1 > 0
    BY <1>1, <1>3
  <2>2. f[k + 1] \in Number /\ b[f[k + 1]].magic = k + 1 /\ f[k + 1] # 0
    BY <1>3, <2>1, WalkTyped DEF Pointer
  <2>3. WriteSlot(n, k + 1) \in Slot
    BY <2>1, LevelRange
  <2>4. f[k] = b[f[k + 1]].data[WriteSlot(n, k + 1)]
    BY <1>3, <2>2, WalkAt
  <2>5. PathX(f, n, k) = f[k + 1] /\ PathI(f, n, k) = WriteSlot(n, k + 1)
    BY <1>1, <1>3 DEF PathX, PathI
  <2>6. f[k + 1] # -1
    BY <2>2, Constants
  <2> QED
    BY <2>1, <2>2, <2>3, <2>4, <2>5, <2>6 DEF IsPlace, Value, LevelAt
<1> QED
  BY <1>1, <1>2, <1>3

(* Below a missing block everything is missing. *)
LEMMA WalkZeros ==
    ASSUME NEW n \in FileBlock, NEW b, NEW ino, NEW f, IsWalk(f, n, b, ino),
           NEW k \in 0 .. Level(n), k < Level(n), f[k] # 0
    PROVE  f[k + 1] # 0
BY WalkAt

--------------------------------------------------------------------------------
(* What writing a block does to the tree *)

(* The pointers a block of level k on the way down had. *)
OldSlots(b, f, k) == IF f[k] = 0 THEN [i \in Slot |-> 0] ELSE b[f[k]].data

(* Block n is written with data d: r has the numbers on the way down       *)
(* afterwards, f those before.                                             *)
Effect(b, ino, c, jno, n, f, r, d) ==
    LET L == Level(n)
    IN  /\ r \in [0 .. L -> Number]
        /\ \A j, k \in 0 .. L : r[j] = r[k] => j = k
        /\ \A k \in 0 .. L : f[k] # 0 => r[k] = f[k]
        /\ \A k \in 0 .. L : f[k] = 0 => b[r[k]] = Unused
        /\ c = [m \in Number |-> c[m]]
        /\ \A m \in Number : (\A k \in 0 .. L : m # r[k]) => c[m] = b[m]
        /\ c[r[0]] = [magic |-> 0, data |-> d]
        /\ \A k \in 1 .. L :
              /\ c[r[k]] = [magic |-> k, data |-> c[r[k]].data]
              /\ c[r[k]].data = [OldSlots(b, f, k) EXCEPT ![WriteSlot(n, k)] = r[k - 1]]
        /\ jno \in InodeType
        /\ jno.direct = SetTop(ino, n, L, r[L]).direct
        /\ jno.indirect = SetTop(ino, n, L, r[L]).indirect

Before(b, ino, c, jno, n, f, r, d) ==
    /\ Shape(b, ino) /\ IsWalk(f, n, b, ino) /\ n \in FileBlock
    /\ d \in [Offset -> Byte]
    /\ Effect(b, ino, c, jno, n, f, r, d)

LEMMA EffectFacts ==
    ASSUME NEW b, NEW ino, NEW c, NEW jno, NEW n, NEW f, NEW r, NEW d,
           Before(b, ino, c, jno, n, f, r, d)
    PROVE  /\ n \in FileBlock /\ Level(n) \in 0 .. 3
           /\ \A k \in 0 .. Level(n) :
                 /\ r[k] \in Number /\ c[r[k]].magic = k
                 /\ f[k] \in Pointer
                 /\ f[k] # 0 => b[f[k]].magic = k
                 /\ b[r[k]].magic # -1 => f[k] = r[k]
           /\ \A k \in 1 .. Level(n) :
                 /\ OldSlots(b, f, k) \in [Slot -> Pointer]
                 /\ WriteSlot(n, k) \in Slot
                 /\ c[r[k]].data = [OldSlots(b, f, k) EXCEPT ![WriteSlot(n, k)] = r[k - 1]]
           /\ \A m \in Number : b[m].magic # -1 => c[m].magic = b[m].magic
<1> DEFINE L == Level(n)
<1>1. n \in FileBlock /\ L \in 0 .. 3
  BY LevelRange DEF Before
<1>2. ASSUME NEW k \in 0 .. L
      PROVE  r[k] \in Number /\ c[r[k]].magic = k
  <2>1. r[k] \in Number
    BY DEF Before, Effect
  <2>2. CASE k = 0
    BY <2>2 DEF Before, Effect
  <2>3. CASE k # 0
    <3>1. k \in 1 .. L
      BY <2>3
    <3>2. c[r[k]] = [magic |-> k, data |-> c[r[k]].data]
      BY <3>1 DEF Before, Effect
    <3> QED
      BY <3>2, <2>1
  <2> QED
    BY <2>1, <2>2, <2>3
<1>3. ASSUME NEW k \in 0 .. L
      PROVE  f[k] \in Pointer /\ (f[k] # 0 => b[f[k]].magic = k)
  BY <1>1, WalkTyped DEF Before
<1>4. ASSUME NEW k \in 0 .. L, b[r[k]].magic # -1 PROVE f[k] = r[k]
  <2>1. b[r[k]] # Unused
    BY <1>4 DEF Unused
  <2> QED
    BY <2>1 DEF Before, Effect
<1>5. ASSUME NEW k \in 1 .. L PROVE OldSlots(b, f, k) \in [Slot -> Pointer]
  <2>1. CASE f[k] = 0
    BY <2>1 DEF OldSlots, Pointer
  <2>2. CASE f[k] # 0
    <3>1. f[k] \in Number /\ b[f[k]].magic = k /\ k > 0
      BY <1>1, <1>3, <2>2 DEF Pointer
    <3>2. IsBlock(b[f[k]])
      BY <3>1 DEF Before, Shape
    <3> QED
      BY <2>2, <3>1, <3>2 DEF OldSlots, IsBlock
  <2> QED
    BY <2>1, <2>2
<1>6. ASSUME NEW k \in 1 .. L
      PROVE  c[r[k]].data = [OldSlots(b, f, k) EXCEPT ![WriteSlot(n, k)] = r[k - 1]]
  BY DEF Before, Effect
<1>7. ASSUME NEW m \in Number, b[m].magic # -1 PROVE c[m].magic = b[m].magic
  <2>1. CASE \A k \in 0 .. L : m # r[k]
    BY <2>1 DEF Before, Effect
  <2>2. ASSUME NEW k \in 0 .. L, m = r[k] PROVE c[m].magic = b[m].magic
    <3>1. f[k] = m
      BY <1>4, <1>7, <2>2
    <3>2. m # 0
      BY Constants
    <3> QED
      BY <1>2, <1>3, <2>2, <3>1, <3>2
  <2> QED
    BY <2>1, <2>2
<1>8. \A k \in 1 .. L : WriteSlot(n, k) \in Slot
  BY <1>1, LevelRange
<1> QED
  BY <1>1, <1>2, <1>3, <1>4, <1>5, <1>6, <1>7, <1>8

(* A place stays one, of the same level. *)
LEMMA PlacesStay ==
    ASSUME NEW b, NEW ino, NEW c, NEW jno, NEW n, NEW f, NEW r, NEW d,
           Before(b, ino, c, jno, n, f, r, d), NEW x, NEW i, IsPlace(b, x, i)
    PROVE  IsPlace(c, x, i) /\ LevelAt(c, x, i) = LevelAt(b, x, i)
<1>1. CASE x = 0 \/ x = -1
  BY <1>1, Constants DEF IsPlace, LevelAt
<1>2. CASE x \in Number /\ i \in Slot /\ b[x].magic > 0
  <2>1. x # 0 /\ x # -1
    BY <1>2, Constants
  <2>2. IsBlock(b[x])
    BY <1>2 DEF Before, Shape
  <2>3. b[x].magic # -1
    BY <1>2, <2>2 DEF IsBlock
  <2>4. c[x].magic = b[x].magic
    BY <1>2, <2>3, EffectFacts
  <2> QED
    BY <1>2, <2>1, <2>4 DEF IsPlace, LevelAt
<1> QED
  BY <1>1, <1>2 DEF IsPlace

(* The places on the way down hold the new numbers. *)
LEMMA PathAfter ==
    ASSUME NEW b, NEW ino, NEW c, NEW jno, NEW n, NEW f, NEW r, NEW d,
           Before(b, ino, c, jno, n, f, r, d), NEW k \in 0 .. Level(n)
    PROVE  /\ IsPlace(c, PathX(r, n, k), PathI(r, n, k))
           /\ Value(c, jno, PathX(r, n, k), PathI(r, n, k)) = r[k]
           /\ LevelAt(c, PathX(r, n, k), PathI(r, n, k)) = k
<1> DEFINE L == Level(n)
<1>1. n \in FileBlock /\ L \in 0 .. 3
  BY EffectFacts
<1>2. CASE k = L
  <2>1. TopPointer(jno, n, L) = r[L]
    <3>1. CASE L = 0
      <4>1. n \in 0 .. NDirect - 1
        BY <1>1, <3>1, Constants, Bases DEF Level, FileBlock
      <4>2. jno.direct = [ino.direct EXCEPT ![n] = r[L]] /\ ino.direct \in [0 .. NDirect - 1 -> Pointer]
        BY <3>1 DEF Before, Effect, SetTop, Shape, InodeType
      <4> QED
        BY <3>1, <4>1, <4>2 DEF TopPointer
    <3>2. CASE L # 0
      <4>1. L \in 1 .. 3
        BY <1>1, <3>2
      <4>2. jno.indirect = [ino.indirect EXCEPT ![L] = r[L]] /\ ino.indirect \in [1 .. 3 -> Pointer]
        BY <3>2 DEF Before, Effect, SetTop, Shape, InodeType
      <4> QED
        BY <3>2, <4>1, <4>2 DEF TopPointer
    <3> QED
      BY <3>1, <3>2
  <2> QED
    BY <1>1, <1>2, <2>1, TopPlace DEF PathX, PathI
<1>3. CASE k < L
  <2>1. k + 1 \in 0 .. L /\ k + 1 \in 1 .. L /\ (k + 1) - 1 = k /\ k # L /\ k + 1 > 0
    BY <1>1, <1>3
  <2>2. /\ r[k + 1] \in Number /\ c[r[k + 1]].magic = k + 1
        /\ OldSlots(b, f, k + 1) \in [Slot -> Pointer] /\ WriteSlot(n, k + 1) \in Slot
        /\ c[r[k + 1]].data = [OldSlots(b, f, k + 1) EXCEPT ![WriteSlot(n, k + 1)] = r[(k + 1) - 1]]
    BY <2>1, EffectFacts
  <2>3. c[r[k + 1]].data[WriteSlot(n, k + 1)] = r[k]
    BY <2>1, <2>2
  <2>4. r[k + 1] # 0 /\ r[k + 1] # -1
    BY <2>2, Constants
  <2> QED
    BY <2>1, <2>2, <2>3, <2>4 DEF IsPlace, Value, LevelAt, PathX, PathI
<1> QED
  BY <1>1, <1>2, <1>3

(* Any other place keeps its number, or is empty in a new block. *)
LEMMA OthersAfter ==
    ASSUME NEW b, NEW ino, NEW c, NEW jno, NEW n, NEW f, NEW r, NEW d,
           Before(b, ino, c, jno, n, f, r, d), NEW x, NEW i, IsPlace(c, x, i)
    PROVE  \/ \E k \in 0 .. Level(n) : x = PathX(r, n, k) /\ i = PathI(r, n, k)
           \/ IsPlace(b, x, i) /\ Value(c, jno, x, i) = Value(b, ino, x, i)
           \/ Value(c, jno, x, i) = 0
<1> DEFINE L == Level(n)
<1>1. n \in FileBlock /\ L \in 0 .. 3 /\ L \in 0 .. L
  BY EffectFacts
<1>2. CASE x = 0 /\ i \in 0 .. NDirect - 1
  <2>1. CASE L = 0 /\ i = n
    BY <1>1, <1>2, <2>1 DEF PathX, PathI, TopX, TopI
  <2>2. CASE ~(L = 0 /\ i = n)
    <3>1. jno.direct[i] = ino.direct[i]
      <4>1. CASE L = 0
        <5>1. jno.direct = [ino.direct EXCEPT ![n] = r[L]] /\ ino.direct \in [0 .. NDirect - 1 -> Pointer]
          BY <4>1 DEF Before, Effect, SetTop, Shape, InodeType
        <5> QED
          BY <1>2, <2>2, <4>1, <5>1
      <4>2. CASE L # 0
        BY <4>2 DEF Before, Effect, SetTop, Shape, InodeType
      <4> QED
        BY <4>1, <4>2
    <3> QED
      BY <1>2, <3>1 DEF IsPlace, Value
  <2> QED
    BY <2>1, <2>2
<1>3. CASE x = -1 /\ i \in 1 .. 3
  <2>1. CASE L = i
    <3>1. L # 0
      BY <1>3, <2>1
    <3> QED
      BY <1>1, <1>3, <2>1, <3>1 DEF PathX, PathI, TopX, TopI
  <2>2. CASE L # i
    <3>1. jno.indirect[i] = ino.indirect[i]
      <4>1. CASE L = 0
        BY <4>1 DEF Before, Effect, SetTop, Shape, InodeType
      <4>2. CASE L # 0
        <5>1. jno.indirect = [ino.indirect EXCEPT ![L] = r[L]] /\ ino.indirect \in [1 .. 3 -> Pointer]
          BY <4>2 DEF Before, Effect, SetTop, Shape, InodeType
        <5> QED
          BY <1>3, <2>2, <5>1
      <4> QED
        BY <4>1, <4>2
    <3> QED
      BY <1>3, <3>1 DEF IsPlace, Value
  <2> QED
    BY <2>1, <2>2
<1>4. CASE x \in Number /\ i \in Slot /\ c[x].magic > 0
  <2>0. x # 0 /\ x # -1
    BY <1>4, Constants
  <2>1. CASE \A k \in 0 .. L : x # r[k]
    <3>1. c[x] = b[x]
      BY <1>4, <2>1 DEF Before, Effect
    <3> QED
      BY <1>4, <2>0, <3>1 DEF IsPlace, Value
  <2>2. ASSUME NEW k \in 0 .. L, x = r[k]
        PROVE  \/ \E j \in 0 .. L : x = PathX(r, n, j) /\ i = PathI(r, n, j)
               \/ IsPlace(b, x, i) /\ Value(c, jno, x, i) = Value(b, ino, x, i)
               \/ Value(c, jno, x, i) = 0
    <3>1. c[x].magic = k
      BY <2>2, EffectFacts
    <3>2. k \in 1 .. L /\ k - 1 \in 0 .. L /\ (k - 1) + 1 = k /\ k - 1 # L /\ k > 0
      BY <1>1, <1>4, <3>1
    <3>3. /\ OldSlots(b, f, k) \in [Slot -> Pointer] /\ WriteSlot(n, k) \in Slot
          /\ c[x].data = [OldSlots(b, f, k) EXCEPT ![WriteSlot(n, k)] = r[k - 1]]
      <4>1. \A h \in 1 .. L :
               /\ OldSlots(b, f, h) \in [Slot -> Pointer] /\ WriteSlot(n, h) \in Slot
               /\ c[r[h]].data = [OldSlots(b, f, h) EXCEPT ![WriteSlot(n, h)] = r[h - 1]]
        BY EffectFacts
      <4> QED
        BY <2>2, <3>2, <4>1, Zenon
    <3>4. CASE i = WriteSlot(n, k)
      <4>1. x = PathX(r, n, k - 1) /\ i = PathI(r, n, k - 1)
        BY <2>2, <3>2, <3>4 DEF PathX, PathI
      <4> QED
        BY <4>1, <3>2
    <3>5. CASE i # WriteSlot(n, k)
      <4>1. c[x].data[i] = OldSlots(b, f, k)[i]
        BY <1>4, <3>3, <3>5
      <4>2. Value(c, jno, x, i) = OldSlots(b, f, k)[i]
        BY <2>0, <4>1 DEF Value
      <4>3. CASE f[k] = 0
        BY <1>4, <4>2, <4>3 DEF OldSlots
      <4>4. CASE f[k] # 0
        <5>1. x = f[k] /\ b[x].magic = k
          <6>1. r[k] = f[k]
            BY <4>4 DEF Before, Effect
          <6>2. b[f[k]].magic = k
            BY <4>4, EffectFacts
          <6> QED
            BY <2>2, <6>1, <6>2
        <5>2. IsPlace(b, x, i) /\ Value(b, ino, x, i) = b[x].data[i]
          BY <1>4, <2>0, <3>2, <5>1 DEF IsPlace, Value
        <5> QED
          BY <4>2, <4>4, <5>1, <5>2 DEF OldSlots
      <4> QED
        BY <4>3, <4>4
    <3> QED
      BY <3>4, <3>5
  <2> QED
    BY <2>1, <2>2
<1> QED
  BY <1>2, <1>3, <1>4 DEF IsPlace

(* A path place that was a place before held the number it was walked to. *)
LEMMA PathBefore ==
    ASSUME NEW b, NEW ino, NEW c, NEW jno, NEW n, NEW f, NEW r, NEW d,
           Before(b, ino, c, jno, n, f, r, d), NEW k \in 0 .. Level(n),
           IsPlace(b, PathX(r, n, k), PathI(r, n, k))
    PROVE  /\ Value(b, ino, PathX(r, n, k), PathI(r, n, k)) = f[k]
           /\ PathX(r, n, k) = PathX(f, n, k) /\ PathI(r, n, k) = PathI(f, n, k)
<1>1. n \in FileBlock /\ Level(n) \in 0 .. 3 /\ Shape(b, ino) /\ IsWalk(f, n, b, ino)
  BY EffectFacts DEF Before
<1>2. PathI(r, n, k) = PathI(f, n, k)
  BY DEF PathI
<1>3. CASE k = Level(n)
  <2>1. PathX(r, n, k) = PathX(f, n, k)
    BY <1>3 DEF PathX
  <2>2. k < Level(n) => f[k + 1] # 0
    BY <1>1, <1>3
  <2>3. Value(b, ino, PathX(f, n, k), PathI(f, n, k)) = f[k]
    BY <1>1, <2>2, WalkPlaces
  <2> QED
    BY <1>2, <2>1, <2>3
<1>4. CASE k # Level(n)
  <2>1. k + 1 \in 0 .. Level(n) /\ k < Level(n)
    BY <1>1, <1>4
  <2>2. r[k + 1] \in Number /\ r[k + 1] # 0 /\ r[k + 1] # -1
    BY <2>1, EffectFacts, Constants
  <2>3. b[r[k + 1]].magic > 0
    BY <1>4, <2>2 DEF IsPlace, PathX
  <2>4. b[r[k + 1]].magic # -1
    <3>1. IsBlock(b[r[k + 1]])
      BY <1>1, <2>2 DEF Shape
    <3> QED
      BY <2>3, <3>1 DEF IsBlock
  <2>5. f[k + 1] = r[k + 1]
    BY <2>1, <2>4, EffectFacts
  <2>6. PathX(r, n, k) = PathX(f, n, k)
    BY <1>4, <2>5 DEF PathX
  <2>7. Value(b, ino, PathX(f, n, k), PathI(f, n, k)) = f[k]
    BY <1>1, <2>2, <2>5, WalkPlaces
  <2> QED
    BY <1>2, <2>6, <2>7
<1> QED
  BY <1>3, <1>4

(* A pointer that was set stays as it is. *)
LEMMA PointersPersist ==
    ASSUME NEW b, NEW ino, NEW c, NEW jno, NEW n, NEW f, NEW r, NEW d,
           Before(b, ino, c, jno, n, f, r, d), NEW x, NEW i, IsPlace(b, x, i),
           Value(b, ino, x, i) # 0
    PROVE  Value(c, jno, x, i) = Value(b, ino, x, i)
<1>1. CASE \E k \in 0 .. Level(n) : x = PathX(r, n, k) /\ i = PathI(r, n, k)
  <2>1. PICK k \in 0 .. Level(n) : x = PathX(r, n, k) /\ i = PathI(r, n, k)
    BY <1>1
  <2>2. Value(b, ino, x, i) = f[k]
    BY <2>1, PathBefore
  <2>3. Value(c, jno, x, i) = r[k]
    BY <2>1, PathAfter
  <2>4. f[k] # 0 => r[k] = f[k]
    BY DEF Before, Effect
  <2> QED
    BY <2>2, <2>3, <2>4
<1>2. CASE ~ \E k \in 0 .. Level(n) : x = PathX(r, n, k) /\ i = PathI(r, n, k)
  <2>1. IsPlace(c, x, i)
    BY PlacesStay
  <2>2. CASE Value(c, jno, x, i) = Value(b, ino, x, i)
    BY <2>2
  <2>3. CASE Value(c, jno, x, i) = 0 /\ ~(Value(c, jno, x, i) = Value(b, ino, x, i))
    (* the block of the place would be a new one *)
    <3>1. CASE x = 0
      <4>1. i \in 0 .. NDirect - 1 /\ n \in FileBlock /\ Level(n) \in 0 .. Level(n)
        BY <3>1, Constants, EffectFacts DEF IsPlace
      <4>2. ~(Level(n) = 0 /\ i = n)
        BY <1>2, <3>1, <4>1 DEF PathX, PathI, TopX, TopI
      <4>3. jno.direct[i] = ino.direct[i]
        <5>1. CASE Level(n) = 0
          <6>1. /\ jno.direct = [ino.direct EXCEPT ![n] = r[Level(n)]]
                /\ ino.direct \in [0 .. NDirect - 1 -> Pointer]
            BY <5>1 DEF Before, Effect, SetTop, Shape, InodeType
          <6> QED
            BY <4>1, <4>2, <5>1, <6>1
        <5>2. CASE Level(n) # 0
          BY <5>2 DEF Before, Effect, SetTop, Shape, InodeType
        <5> QED
          BY <5>1, <5>2
      <4> QED
        BY <2>3, <3>1, <4>3 DEF Value
    <3>2. CASE x = -1
      <4>1. i \in 1 .. 3 /\ n \in FileBlock /\ Level(n) \in 0 .. Level(n)
        BY <3>2, Constants, EffectFacts DEF IsPlace
      <4>2. Level(n) # i
        BY <1>2, <3>2, <4>1 DEF PathX, PathI, TopX, TopI
      <4>3. jno.indirect[i] = ino.indirect[i]
        <5>1. CASE Level(n) = 0
          BY <5>1 DEF Before, Effect, SetTop, Shape, InodeType
        <5>2. CASE Level(n) # 0
          <6>1. /\ jno.indirect = [ino.indirect EXCEPT ![Level(n)] = r[Level(n)]]
                /\ ino.indirect \in [1 .. 3 -> Pointer]
            BY <5>2 DEF Before, Effect, SetTop, Shape, InodeType
          <6> QED
            BY <4>1, <4>2, <6>1
        <5> QED
          BY <5>1, <5>2
      <4> QED
        BY <2>3, <3>2, <4>3 DEF Value
    <3>3. CASE x # 0 /\ x # -1
      <4>1. x \in Number /\ i \in Slot /\ b[x].magic > 0
        BY <3>3 DEF IsPlace
      <4>2. Value(c, jno, x, i) = c[x].data[i] /\ Value(b, ino, x, i) = b[x].data[i]
        BY <3>3 DEF Value
      <4>3. PICK k \in 0 .. Level(n) : x = r[k]
        BY <2>3, <4>1, <4>2 DEF Before, Effect
      <4>4. b[x].magic # -1
        <5>1. IsBlock(b[x])
          BY <4>1 DEF Before, Shape
        <5> QED
          BY <4>1, <5>1 DEF IsBlock
      <4>5. f[k] = x /\ f[k] # 0 /\ b[x].magic = k /\ Level(n) \in 0 .. 3
        BY <4>3, <4>4, <3>3, EffectFacts
      <4>6. k \in 1 .. Level(n) /\ k - 1 \in 0 .. Level(n) /\ (k - 1) + 1 = k /\ k - 1 # Level(n)
        BY <4>1, <4>5
      <4>7. /\ OldSlots(b, f, k) \in [Slot -> Pointer] /\ WriteSlot(n, k) \in Slot
            /\ c[x].data = [OldSlots(b, f, k) EXCEPT ![WriteSlot(n, k)] = r[k - 1]]
        BY <4>3, <4>6, EffectFacts
      <4>8. i # WriteSlot(n, k)
        BY <1>2, <4>3, <4>6 DEF PathX, PathI
      <4>9. c[x].data[i] = OldSlots(b, f, k)[i]
        BY <4>1, <4>7, <4>8
      <4> QED
        BY <4>2, <4>5, <4>9 DEF OldSlots
    <3> QED
      BY <3>1, <3>2, <3>3
  <2> QED
    BY <2>1, <2>2, <2>3, <1>2, OthersAfter
<1> QED
  BY <1>1, <1>2

(* Writing a block keeps the shape of the tree. *)
LEMMA EffectKeepsShape ==
    ASSUME NEW b, NEW ino, NEW c, NEW jno, NEW n, NEW f, NEW r, NEW d,
           Before(b, ino, c, jno, n, f, r, d)
    PROVE  Shape(c, jno)
<1> DEFINE L == Level(n)
<1>0. n \in FileBlock /\ L \in 0 .. 3
  BY EffectFacts
<1>1. c = [m \in Number |-> c[m]] /\ jno \in InodeType
  BY DEF Before, Effect
<1>2. ASSUME NEW m \in Number PROVE IsBlock(c[m])
  <2>1. CASE \A k \in 0 .. L : m # r[k]
    BY <2>1 DEF Before, Effect, Shape
  <2>2. CASE m = r[0]
    <3>1. c[m] = [magic |-> 0, data |-> d] /\ d \in [Offset -> Byte]
      BY <2>2 DEF Before, Effect
    <3> QED
      BY <3>1 DEF IsBlock
  <2>3. ASSUME NEW k \in 0 .. L, m = r[k], k # 0 PROVE IsBlock(c[m])
    <3>1. k \in 1 .. L /\ k - 1 \in 0 .. L /\ k \in 1 .. 3
      BY <1>0, <2>3
    <3>2. c[m] = [magic |-> k, data |-> c[m].data]
      BY <2>3, <3>1 DEF Before, Effect
    <3>3. c[m].data \in [Slot -> Pointer]
      <4>1. /\ OldSlots(b, f, k) \in [Slot -> Pointer] /\ WriteSlot(n, k) \in Slot
            /\ c[m].data = [OldSlots(b, f, k) EXCEPT ![WriteSlot(n, k)] = r[k - 1]]
            /\ r[k - 1] \in Number
        BY <2>3, <3>1, EffectFacts
      <4> QED
        BY <4>1 DEF Pointer
    <3>4. c[m].magic = k
      BY <3>2
    <3> QED
      BY <3>1, <3>2, <3>3, <3>4 DEF IsBlock
  <2> QED
    BY <2>1, <2>2, <2>3
<1>3. Typed(c, jno)
  <2> SUFFICES ASSUME NEW x, NEW i, IsPlace(c, x, i), Value(c, jno, x, i) # 0
               PROVE  c[Value(c, jno, x, i)].magic = LevelAt(c, x, i)
    BY DEF Typed
  <2>1. ASSUME NEW k \in 0 .. L, x = PathX(r, n, k), i = PathI(r, n, k)
        PROVE  c[Value(c, jno, x, i)].magic = LevelAt(c, x, i)
    BY <2>1, PathAfter, EffectFacts
  <2>2. CASE IsPlace(b, x, i) /\ Value(c, jno, x, i) = Value(b, ino, x, i)
    <3> DEFINE v == Value(b, ino, x, i)
    <3>1. v \in Pointer /\ v # 0 /\ b[v].magic = LevelAt(b, x, i)
      BY <2>2, PlaceType DEF Before, Shape, Typed
    <3>2. v \in Number
      BY <3>1 DEF Pointer
    <3>3. LevelAt(c, x, i) = LevelAt(b, x, i)
      BY <2>2, PlacesStay
    <3>4. LevelAt(b, x, i) # -1
      BY <2>2, Constants DEF IsPlace, LevelAt
    <3>5. c[v].magic = b[v].magic
      BY <3>1, <3>2, <3>4, EffectFacts
    <3> QED
      BY <2>2, <3>1, <3>3, <3>5
  <2> QED
    BY <2>1, <2>2, OthersAfter
<1>4. ASSUME NEW k \in 0 .. L, NEW y, NEW j, IsPlace(b, y, j), Value(b, ino, y, j) = r[k]
      PROVE  y = PathX(r, n, k) /\ j = PathI(r, n, k)
  <2>1. r[k] \in Number /\ r[k] # 0
    BY EffectFacts, Constants
  <2>2. b[r[k]].magic = LevelAt(b, y, j) /\ LevelAt(b, y, j) # -1
    BY <1>4, <2>1, Constants DEF Before, Shape, Typed, IsPlace, LevelAt
  <2>3. f[k] = r[k]
    BY <2>2, EffectFacts
  <2>4. k < L => f[k + 1] # 0
    BY <2>1, <2>3, <1>0, WalkZeros DEF Before
  <2>5. /\ IsPlace(b, PathX(f, n, k), PathI(f, n, k))
        /\ Value(b, ino, PathX(f, n, k), PathI(f, n, k)) = f[k]
    BY <1>0, <2>4, WalkPlaces DEF Before
  <2>6. y = PathX(f, n, k) /\ j = PathI(f, n, k)
    BY <1>4, <2>1, <2>3, <2>5 DEF Before, Shape, Unshared
  <2>7. PathX(f, n, k) = PathX(r, n, k) /\ PathI(f, n, k) = PathI(r, n, k)
    <3>1. CASE k = L
      BY <3>1 DEF PathX, PathI
    <3>2. CASE k # L
      <4>1. k + 1 \in 0 .. L /\ k < L
        BY <1>0, <3>2
      <4>2. f[k + 1] = r[k + 1]
        BY <2>4, <4>1 DEF Before, Effect
      <4> QED
        BY <3>2, <4>2 DEF PathX, PathI
    <3> QED
      BY <3>1, <3>2
  <2> QED
    BY <2>6, <2>7
<1>5. Unshared(c, jno)
  <2> SUFFICES ASSUME NEW x, NEW i, NEW y, NEW j, IsPlace(c, x, i), IsPlace(c, y, j),
                      Value(c, jno, x, i) # 0, Value(c, jno, x, i) = Value(c, jno, y, j)
               PROVE  x = y /\ i = j
    BY DEF Unshared
  <2>1. \/ \E k \in 0 .. L : x = PathX(r, n, k) /\ i = PathI(r, n, k)
        \/ IsPlace(b, x, i) /\ Value(c, jno, x, i) = Value(b, ino, x, i)
    BY OthersAfter
  <2>2. \/ \E k \in 0 .. L : y = PathX(r, n, k) /\ j = PathI(r, n, k)
        \/ IsPlace(b, y, j) /\ Value(c, jno, y, j) = Value(b, ino, y, j)
    BY OthersAfter
  <2>3. ASSUME NEW k \in 0 .. L, x = PathX(r, n, k), i = PathI(r, n, k)
        PROVE  x = y /\ i = j
    <3>1. Value(c, jno, x, i) = r[k]
      BY <2>3, PathAfter
    <3>2. CASE IsPlace(b, y, j) /\ Value(c, jno, y, j) = Value(b, ino, y, j)
      BY <1>4, <2>3, <3>1, <3>2
    <3>3. ASSUME NEW l \in 0 .. L, y = PathX(r, n, l), j = PathI(r, n, l) PROVE x = y /\ i = j
      <4>1. Value(c, jno, y, j) = r[l]
        BY <3>3, PathAfter
      <4>2. r[k] = r[l]
        BY <3>1, <4>1
      <4>3. k = l
        BY <4>2 DEF Before, Effect
      <4> QED
        BY <2>3, <3>3, <4>3
    <3> QED
      BY <2>2, <3>2, <3>3
  <2>4. CASE IsPlace(b, x, i) /\ Value(c, jno, x, i) = Value(b, ino, x, i)
    <3>1. CASE IsPlace(b, y, j) /\ Value(c, jno, y, j) = Value(b, ino, y, j)
      BY <2>4, <3>1 DEF Before, Shape, Unshared
    <3>2. ASSUME NEW l \in 0 .. L, y = PathX(r, n, l), j = PathI(r, n, l) PROVE x = y /\ i = j
      <4>1. Value(c, jno, y, j) = r[l]
        BY <3>2, PathAfter
      <4> QED
        BY <1>4, <2>4, <3>2, <4>1
    <3> QED
      BY <2>2, <3>1, <3>2
  <2> QED
    BY <2>1, <2>3, <2>4
<1>6. Hung(c, jno)
  <2> SUFFICES ASSUME NEW m \in Number, c[m].magic # -1
               PROVE  \E x, i : IsPlace(c, x, i) /\ Value(c, jno, x, i) = m
    BY DEF Hung
  <2>1. ASSUME NEW k \in 0 .. L, m = r[k]
        PROVE  \E x, i : IsPlace(c, x, i) /\ Value(c, jno, x, i) = m
    BY <2>1, PathAfter
  <2>2. CASE \A k \in 0 .. L : m # r[k]
    <3>1. b[m].magic # -1
      BY <2>2 DEF Before, Effect
    <3>2. PICK x, i : IsPlace(b, x, i) /\ Value(b, ino, x, i) = m
      BY <3>1 DEF Before, Shape, Hung
    <3>3. IsPlace(c, x, i)
      BY <3>2, PlacesStay
    <3>4. Value(c, jno, x, i) = m
      BY <3>2, Constants, PointersPersist
    <3> QED
      BY <3>3, <3>4
  <2> QED
    BY <2>1, <2>2
<1> QED
  BY <1>1, <1>2, <1>3, <1>5, <1>6 DEF Shape

(* After the write the way down to block n meets the new numbers. *)
LEMMA WalkAfter ==
    ASSUME NEW b, NEW ino, NEW c, NEW jno, NEW n, NEW f, NEW r, NEW d, NEW g,
           Before(b, ino, c, jno, n, f, r, d), IsWalk(g, n, c, jno)
    PROVE  \A k \in 0 .. Level(n) : g[k] = r[k]
<1> DEFINE L == Level(n)
           S == {k \in 0 .. L : g[k] = r[k]}
<1>0. n \in FileBlock /\ L \in 0 .. 3
  BY EffectFacts
<1>1. L \in S
  <2>1. g[L] = Value(c, jno, TopX(n), TopI(n))
    BY <1>0, WalkAt, TopPlace
  <2>2. L \in 0 .. Level(n)
    BY <1>0
  <2>3. PathX(r, n, L) = TopX(n) /\ PathI(r, n, L) = TopI(n)
    BY DEF PathX, PathI
  <2>4. Value(c, jno, TopX(n), TopI(n)) = r[L]
    BY <2>2, <2>3, PathAfter
  <2> QED
    BY <2>1, <2>2, <2>4
<1>2. ASSUME NEW k \in 0 .. L, k < L, k + 1 \in S PROVE k \in S
  <2>1. g[k + 1] = r[k + 1] /\ k + 1 \in 0 .. L /\ k # L
    BY <1>0, <1>2
  <2>2. r[k + 1] \in Number /\ r[k + 1] # 0 /\ r[k + 1] # -1
    BY <2>1, EffectFacts, Constants
  <2>3. g[k] = c[r[k + 1]].data[WriteSlot(n, k + 1)]
    BY <1>0, <1>2, <2>1, <2>2, WalkAt
  <2>4. Value(c, jno, PathX(r, n, k), PathI(r, n, k)) = r[k]
    BY PathAfter
  <2>5. PathX(r, n, k) = r[k + 1] /\ PathI(r, n, k) = WriteSlot(n, k + 1)
    BY <2>1 DEF PathX, PathI
  <2> QED
    BY <2>2, <2>3, <2>4, <2>5 DEF Value
<1> HIDE DEF S
<1>3. \A k \in 0 .. L : k \in S
  BY <1>0, <1>1, <1>2, DownLevels
<1> QED
  BY <1>3 DEF S

(* The way down to a block that was there stays. *)
LEMMA WalksStay ==
    ASSUME NEW b, NEW ino, NEW c, NEW jno, NEW n, NEW f, NEW r, NEW d,
           Before(b, ino, c, jno, n, f, r, d),
           NEW q \in FileBlock, NEW h, NEW g, IsWalk(h, q, b, ino), IsWalk(g, q, c, jno),
           h[0] # 0
    PROVE  \A k \in 0 .. Level(q) : g[k] = h[k] /\ h[k] # 0
<1> DEFINE L == Level(q)
           U == {k \in 0 .. L : h[k] # 0}
           S == {k \in 0 .. L : g[k] = h[k]}
<1>0. L \in 0 .. 3 /\ Shape(b, ino)
  BY LevelRange DEF Before
<1>1. \A k \in 0 .. L : k \in U
  <2>1. 0 \in U
    BY <1>0
  <2>2. ASSUME NEW k \in 0 .. L, k > 0, k - 1 \in U PROVE k \in U
    <3>1. k - 1 \in 0 .. L /\ k - 1 < L /\ h[k - 1] # 0 /\ (k - 1) + 1 = k
      BY <1>0, <2>2
    <3>2. h[(k - 1) + 1] # 0
      BY <3>1, WalkZeros
    <3> QED
      BY <3>1, <3>2
  <2> HIDE DEF U
  <2> QED
    BY <1>0, <2>1, <2>2, UpLevels
<1>2. ASSUME NEW k \in 0 .. L
      PROVE  /\ IsPlace(b, PathX(h, q, k), PathI(h, q, k))
             /\ Value(b, ino, PathX(h, q, k), PathI(h, q, k)) = h[k]
             /\ h[k] # 0
  <2>1. k < L => k + 1 \in 0 .. L
    BY <1>0
  <2>2. k < L => h[k + 1] # 0
    BY <1>1, <2>1
  <2>3. h[k] # 0
    BY <1>1
  <2> QED
    BY <1>0, <2>2, <2>3, WalkPlaces
<1>3. ASSUME NEW k \in 0 .. L
      PROVE  Value(c, jno, PathX(h, q, k), PathI(h, q, k)) = h[k]
  BY <1>2, PointersPersist
<1>4. L \in S
  <2>1. g[L] = Value(c, jno, TopX(q), TopI(q)) /\ L \in 0 .. L
    BY <1>0, WalkAt, TopPlace
  <2>2. PathX(h, q, L) = TopX(q) /\ PathI(h, q, L) = TopI(q)
    BY DEF PathX, PathI
  <2> QED
    BY <1>3, <2>1, <2>2
<1>5. ASSUME NEW k \in 0 .. L, k < L, k + 1 \in S PROVE k \in S
  <2>1. g[k + 1] = h[k + 1] /\ k + 1 \in 0 .. L /\ k # L /\ k + 1 > 0
    BY <1>0, <1>5
  <2>2. h[k + 1] # 0 /\ h[k + 1] \in Number /\ h[k + 1] # -1
    <3>1. h[k + 1] # 0
      BY <1>1, <2>1
    <3>2. h[k + 1] \in Pointer
      BY <1>0, <2>1, WalkTyped
    <3> QED
      BY <3>1, <3>2, Constants DEF Pointer
  <2>3. g[k] = c[h[k + 1]].data[WriteSlot(q, k + 1)]
    BY <1>5, <2>1, <2>2, WalkAt
  <2>4. PathX(h, q, k) = h[k + 1] /\ PathI(h, q, k) = WriteSlot(q, k + 1)
    BY <2>1 DEF PathX, PathI
  <2>5. Value(c, jno, h[k + 1], WriteSlot(q, k + 1)) = h[k]
    BY <1>3, <2>4
  <2> QED
    BY <2>2, <2>3, <2>5 DEF Value
<1> HIDE DEF S
<1>6. \A k \in 0 .. L : k \in S
  BY <1>0, <1>4, <1>5, DownLevels
<1> QED
  BY <1>1, <1>6 DEF S

(* Two blocks of a file have two numbers. *)
LEMMA NumbersApart ==
    ASSUME NEW b, NEW ino, Shape(b, ino), NEW p \in FileBlock, NEW q \in FileBlock,
           NEW f, NEW h, IsWalk(f, p, b, ino), IsWalk(h, q, b, ino),
           f[0] # 0, f[0] = h[0]
    PROVE  p = q
<1> DEFINE L == Level(p)
           M == Level(q)
           S == {k \in Nat : k <= L /\ k <= M /\ f[k] = h[k] /\ f[k] # 0}
<1>0. L \in 0 .. 3 /\ M \in 0 .. 3
  BY LevelRange
<1>1. 0 \in S
  BY <1>0
(* one level up, from the same number to the same place *)
<1>2. ASSUME NEW k \in S
      PROVE  /\ k = L <=> k = M
             /\ k = L => TopI(p) = TopI(q)
             /\ k < L => k + 1 \in S /\ WriteSlot(p, k + 1) = WriteSlot(q, k + 1)
  <2>1. k \in 0 .. L /\ k \in 0 .. M /\ f[k] = h[k] /\ f[k] # 0
    BY <1>0
  <2>2. (k < L => f[k + 1] # 0) /\ (k < M => h[k + 1] # 0)
    BY <2>1, WalkZeros
  <2>3. /\ IsPlace(b, PathX(f, p, k), PathI(f, p, k))
        /\ Value(b, ino, PathX(f, p, k), PathI(f, p, k)) = f[k]
    BY <2>1, <2>2, WalkPlaces
  <2>4. /\ IsPlace(b, PathX(h, q, k), PathI(h, q, k))
        /\ Value(b, ino, PathX(h, q, k), PathI(h, q, k)) = h[k]
    BY <2>1, <2>2, WalkPlaces
  <2>5. PathX(f, p, k) = PathX(h, q, k) /\ PathI(f, p, k) = PathI(h, q, k)
    BY <2>1, <2>3, <2>4 DEF Shape, Unshared
  <2>6. k < L => PathX(f, p, k) = f[k + 1] /\ f[k + 1] \in Number /\ PathI(f, p, k) = WriteSlot(p, k + 1)
    <3> SUFFICES ASSUME k < L PROVE PathX(f, p, k) = f[k + 1] /\ f[k + 1] \in Number
                                    /\ PathI(f, p, k) = WriteSlot(p, k + 1)
      OBVIOUS
    <3>1. k + 1 \in 0 .. L /\ k # L
      BY <1>0, <2>1
    <3>2. f[k + 1] \in Pointer
      BY <3>1, WalkTyped
    <3> QED
      BY <2>2, <3>1, <3>2 DEF PathX, PathI, Pointer
  <2>7. k < M => PathX(h, q, k) = h[k + 1] /\ h[k + 1] \in Number /\ PathI(h, q, k) = WriteSlot(q, k + 1)
    <3> SUFFICES ASSUME k < M PROVE PathX(h, q, k) = h[k + 1] /\ h[k + 1] \in Number
                                    /\ PathI(h, q, k) = WriteSlot(q, k + 1)
      OBVIOUS
    <3>1. k + 1 \in 0 .. M /\ k # M
      BY <1>0, <2>1
    <3>2. h[k + 1] \in Pointer
      BY <3>1, WalkTyped
    <3> QED
      BY <2>2, <3>1, <3>2 DEF PathX, PathI, Pointer
  <2>8. (k = L => PathX(f, p, k) \notin Number /\ PathI(f, p, k) = TopI(p))
        /\ (k = M => PathX(h, q, k) \notin Number /\ PathI(h, q, k) = TopI(q))
    BY Constants DEF PathX, PathI, TopX
  <2>9. k <= L /\ k <= M /\ (k < L \/ k = L) /\ (k < M \/ k = M)
    BY <1>0, <2>1
  <2>10. k = L <=> k = M
    BY <2>5, <2>6, <2>7, <2>8, <2>9, <1>0
  <2>11. k = L => TopI(p) = TopI(q)
    BY <2>5, <2>8, <2>10
  <2>12. ASSUME k < L PROVE k + 1 \in S /\ WriteSlot(p, k + 1) = WriteSlot(q, k + 1)
    <3>1. k < M /\ k + 1 \in Nat /\ k + 1 <= L /\ k + 1 <= M
      BY <1>0, <2>1, <2>9, <2>10, <2>12
    <3> QED
      BY <2>2, <2>5, <2>6, <2>7, <2>12, <3>1
  <2> QED
    BY <2>10, <2>11, <2>12
<1> HIDE DEF S
<1>3. \A k \in 0 .. L : k \in S
  <2>1. ASSUME NEW k \in 0 .. L, k > 0, k - 1 \in S PROVE k \in S
    <3>1. k - 1 < L /\ (k - 1) + 1 = k
      BY <1>0, <2>1
    <3> QED
      BY <1>2, <2>1, <3>1
  <2> QED
    BY <1>0, <1>1, <2>1, UpLevels
<1>4. L = M /\ TopI(p) = TopI(q)
  BY <1>0, <1>2, <1>3
<1>5. CASE L = 0
  BY <1>4, <1>5 DEF TopI
<1>6. CASE L # 0
  <2>1. ASSUME NEW k \in 1 .. L PROVE WriteSlot(p, k) = WriteSlot(q, k)
    <3>1. k - 1 \in 0 .. L /\ k - 1 < L /\ (k - 1) + 1 = k
      BY <1>0
    <3>2. k - 1 \in S
      BY <1>3, <3>1
    <3>3. WriteSlot(p, (k - 1) + 1) = WriteSlot(q, (k - 1) + 1)
      BY <1>2, <3>1, <3>2
    <3> QED
      BY <3>1, <3>3
  <2>2. Path(p) = Path(q)
    BY <1>4, <2>1 DEF Path
  <2>3. p \in Base(1) .. Base(4) - 1 /\ q \in Base(1) .. Base(4) - 1
    BY <1>4, <1>6, Bases DEF Level, FileBlock
  <2> QED
    BY <1>4, <2>2, <2>3, WritesApart DEF PathsDistinct
<1> QED
  BY <1>5, <1>6

--------------------------------------------------------------------------------
(* There are numbers enough *)

(* A set of numbers has a least one. *)
LEMMA LeastNat ==
    ASSUME NEW S \in SUBSET Nat, S # {}
    PROVE  \E m \in S : \A k \in S : m <= k
<1>1. PICK m \in S : \A k \in S : ~(<<k, m>> \in OpToRel(<, Nat))
  BY WFMin, NatLessThanWellFounded
<1>2. \A k \in S : ~(k < m)
  BY <1>1 DEF OpToRel
<1> QED
  BY <1>2

(* A set of values that a finite set takes is no larger than it. *)
LEMMA CountImage ==
    ASSUME NEW A, IsFiniteSet(A), NEW v, NEW V, \A u \in V : \E a \in A : v[a] = u
    PROVE  IsFiniteSet(V) /\ Cardinality(V) \in Nat /\ Cardinality(V) <= Cardinality(A)
<1> DEFINE B == {a \in A : v[a] \in V}
           g == [a \in B |-> v[a]]
<1>1. B \in SUBSET A
  OBVIOUS
<1>2. IsFiniteSet(B) /\ Cardinality(B) <= Cardinality(A)
  <2> HIDE DEF B
  <2> QED
    BY <1>1, FS_Subset
<1>3. g \in [B -> V] /\ \A u \in V : \E a \in B : g[a] = u
  OBVIOUS
<1>4. g \in Surjection(B, V)
  BY <1>3 DEF Surjection
<1> HIDE DEF g, B
<1>5. IsFiniteSet(V) /\ Cardinality(V) <= Cardinality(B)
  BY <1>2, <1>4, FS_Surjection
<1>6. Cardinality(V) \in Nat /\ Cardinality(B) \in Nat /\ Cardinality(A) \in Nat
  BY <1>2, <1>5, FS_CardinalityType
<1> QED
  BY <1>2, <1>5, <1>6

(* The blocks of level j in use. *)
OfLevel(b, j) == {m \in Number : b[m].magic = j}

(* The pointers of the inode that ask for level j. *)
Heads(j) == IF j = 0 THEN {0} \X (0 .. NDirect - 1) ELSE {-1} \X {j}

First(j) == IF j = 0 THEN NDirect ELSE 1

LEMMA HeadsCount ==
    ASSUME NEW j \in 0 .. 3
    PROVE  IsFiniteSet(Heads(j)) /\ Cardinality(Heads(j)) = First(j)
<1>1. \A x : IsFiniteSet({x}) /\ Cardinality({x}) = 1
  BY FS_Singleton
<1>2. CASE j = 0
  <2>1. NDirect \in Nat \ {0}
    BY Constants
  <2>2. 0 \in Int /\ NDirect - 1 \in Int
    BY <2>1
  <2>3. IsFiniteSet(0 .. NDirect - 1) /\ Cardinality(0 .. NDirect - 1) = NDirect
    <3>1. /\ IsFiniteSet(0 .. NDirect - 1)
          /\ Cardinality(0 .. NDirect - 1)
               = IF 0 > NDirect - 1 THEN 0 ELSE (NDirect - 1) - 0 + 1
      BY <2>2, FS_Interval
    <3> QED
      BY <2>1, <3>1
  <2>4. /\ IsFiniteSet({0} \X (0 .. NDirect - 1))
        /\ Cardinality({0} \X (0 .. NDirect - 1)) = Cardinality({0}) * Cardinality(0 .. NDirect - 1)
    BY <1>1, <2>3, FS_Product
  <2>5. Cardinality({0}) = 1
    BY <1>1
  <2> QED
    BY <1>2, <2>1, <2>3, <2>4, <2>5 DEF Heads, First
<1>3. CASE j # 0
  <2>1. /\ IsFiniteSet({-1} \X {j})
        /\ Cardinality({-1} \X {j}) = Cardinality({-1}) * Cardinality({j})
    BY <1>1, FS_Product
  <2>2. Cardinality({-1}) = 1 /\ Cardinality({j}) = 1
    BY <1>1
  <2> QED
    BY <1>3, <2>1, <2>2 DEF Heads, First
<1> QED
  BY <1>2, <1>3

LEMMA LevelFinite ==
    ASSUME NEW b, NEW j
    PROVE  IsFiniteSet(OfLevel(b, j)) /\ Cardinality(OfLevel(b, j)) \in Nat
<1> DEFINE t == Base(4) + 1 + (1 + P) + (1 + P + P * P)
<1>1. 1 \in Int /\ t \in Int
  BY Bases
<1>2. IsFiniteSet(1 .. t)
  <2> HIDE DEF t
  <2> QED
    BY <1>1, FS_Interval
<1>3. OfLevel(b, j) \in SUBSET (1 .. t)
  BY DEF OfLevel, Number
<1>4. IsFiniteSet(OfLevel(b, j))
  <2> HIDE DEF t
  <2> QED
    BY <1>2, <1>3, FS_Subset
<1> QED
  BY <1>4, FS_CardinalityType

(* There are no more blocks of a level than pointers that ask for it, and  *)
(* fewer when one of those is empty.                                       *)
LEMMA LevelCount ==
    ASSUME NEW b, NEW ino, Shape(b, ino), NEW j \in 0 .. 3
    PROVE  /\ Cardinality(OfLevel(b, j)) <= First(j) + P * Cardinality(OfLevel(b, j + 1))
           /\ (\E x, i : IsPlace(b, x, i) /\ LevelAt(b, x, i) = j /\ Value(b, ino, x, i) = 0)
                 => Cardinality(OfLevel(b, j)) + 1 <= First(j) + P * Cardinality(OfLevel(b, j + 1))
<1> DEFINE V == OfLevel(b, j)
           W == OfLevel(b, j + 1)
           A == Heads(j) \cup (W \X Slot)
           v == [a \in A |-> Value(b, ino, a[1], a[2])]
<1>0. P \in Nat \ {0} /\ First(j) \in Nat
  BY Constants DEF First
<1>1. IsFiniteSet(Slot) /\ Cardinality(Slot) = P
  <2>1. 0 \in Int /\ P - 1 \in Int
    BY <1>0
  <2>2. /\ IsFiniteSet(0 .. P - 1)
        /\ Cardinality(0 .. P - 1) = IF 0 > P - 1 THEN 0 ELSE (P - 1) - 0 + 1
    BY <2>1, FS_Interval
  <2> QED
    BY <1>0, <2>2 DEF Slot
<1>2. IsFiniteSet(W) /\ Cardinality(W) \in Nat /\ Cardinality(V) \in Nat
  BY LevelFinite
<1>3. IsFiniteSet(W \X Slot) /\ Cardinality(W \X Slot) = Cardinality(W) * P
  <2> HIDE DEF W
  <2> QED
    BY <1>1, <1>2, FS_Product
<1>4. IsFiniteSet(A) /\ Cardinality(A) \in Nat /\ Cardinality(A) <= First(j) + P * Cardinality(W)
  <2>1. IsFiniteSet(Heads(j)) /\ Cardinality(Heads(j)) = First(j)
    BY HeadsCount
  <2> DEFINE T == W \X Slot
  <2>2. IsFiniteSet(T) /\ Cardinality(T) = Cardinality(W) * P
    BY <1>3
  <2> HIDE DEF T, W
  <2>3. /\ IsFiniteSet(Heads(j) \cup T)
        /\ Cardinality(Heads(j) \cup T)
             = Cardinality(Heads(j)) + Cardinality(T) - Cardinality(Heads(j) \cap T)
    BY <2>1, <2>2, FS_Union
  <2>4. IsFiniteSet(Heads(j) \cap T)
    BY <2>1, FS_Intersection
  <2>5. Cardinality(Heads(j) \cap T) \in Nat /\ Cardinality(Heads(j) \cup T) \in Nat
        /\ Cardinality(T) \in Nat
    BY <2>2, <2>3, <2>4, FS_CardinalityType
  <2>6. Cardinality(W) * P = P * Cardinality(W) /\ P * Cardinality(W) \in Nat
    BY <1>0, <1>2
  <2> QED
    BY <1>0, <2>1, <2>2, <2>3, <2>5, <2>6 DEF T
<1>5. ASSUME NEW x, NEW i, IsPlace(b, x, i), LevelAt(b, x, i) = j
      PROVE  <<x, i>> \in A
  <2>1. CASE x = 0 /\ i \in 0 .. NDirect - 1
    BY <1>5, <2>1 DEF LevelAt, Heads
  <2>2. CASE x = -1 /\ i \in 1 .. 3
    BY <1>5, <2>2 DEF LevelAt, Heads
  <2>3. CASE x \in Number /\ i \in Slot /\ b[x].magic > 0
    <3>1. x # 0 /\ x # -1
      BY <2>3, Constants
    <3>2. b[x].magic - 1 = j
      BY <1>5, <3>1 DEF LevelAt
    <3>3. b[x].magic \in Int
      BY <2>3 DEF Shape, IsBlock
    <3>4. b[x].magic = j + 1
      BY <3>2, <3>3
    <3> QED
      BY <2>3, <3>4 DEF OfLevel
  <2> QED
    BY <1>5, <2>1, <2>2, <2>3 DEF IsPlace
<1>6. ASSUME NEW m \in V
      PROVE  \E x, i : /\ IsPlace(b, x, i) /\ LevelAt(b, x, i) = j /\ Value(b, ino, x, i) = m
                       /\ m # 0
  <2>1. m \in Number /\ b[m].magic = j /\ m # 0 /\ b[m].magic # -1
    BY Constants DEF OfLevel
  <2>2. PICK x, i : IsPlace(b, x, i) /\ Value(b, ino, x, i) = m
    BY <2>1 DEF Shape, Hung
  <2>3. LevelAt(b, x, i) = j
    BY <2>1, <2>2 DEF Shape, Typed
  <2> QED
    BY <2>1, <2>2, <2>3
<1> HIDE DEF A, V
<1>7. \A m \in V : \E a \in A : v[a] = m /\ m # 0
  <2> SUFFICES ASSUME NEW m \in V PROVE \E a \in A : v[a] = m /\ m # 0
    OBVIOUS
  <2>1. PICK x, i : /\ IsPlace(b, x, i) /\ LevelAt(b, x, i) = j /\ Value(b, ino, x, i) = m
                    /\ m # 0
    BY <1>6
  <2>2. <<x, i>> \in A
    BY <1>5, <2>1
  <2>3. v[<<x, i>>] = m
    BY <2>1, <2>2
  <2> QED
    BY <2>1, <2>2, <2>3
<1>8. Cardinality(V) <= Cardinality(A)
  <2> HIDE DEF v
  <2> QED
    BY <1>4, <1>7, CountImage
<1>9. ASSUME NEW x, NEW i, IsPlace(b, x, i), LevelAt(b, x, i) = j, Value(b, ino, x, i) = 0
      PROVE  Cardinality(V) + 1 <= Cardinality(A)
  <2> DEFINE a0 == <<x, i>>
             B == A \ {a0}
  <2>1. a0 \in A /\ v[a0] = 0
    BY <1>5, <1>9
  <2>2. IsFiniteSet(B) /\ Cardinality(B) = Cardinality(A) - 1
    <3> HIDE DEF a0, v
    <3> QED
      BY <1>4, <2>1, FS_RemoveElement
  <2>3. \A m \in V : \E a \in B : v[a] = m
    <3> HIDE DEF v
    <3> QED
      BY <1>7, <2>1
  <2> HIDE DEF B, v
  <2>4. Cardinality(V) <= Cardinality(B)
    BY <2>2, <2>3, CountImage
  <2> QED
    BY <1>2, <1>4, <2>2, <2>4
<1>10. P * Cardinality(W) \in Nat
  BY <1>0, <1>2
<1> QED
  BY <1>0, <1>2, <1>4, <1>8, <1>9, <1>10 DEF V

(* The blocks of level j in the largest file. *)
Most(j) ==
    IF j = 3 THEN 1 ELSE IF j = 2 THEN 1 + P ELSE IF j = 1 THEN 1 + P + P * P
    ELSE IF j = 0 THEN Base(4) ELSE 0

LEMMA MostGrows ==
    /\ \A j \in 0 .. 3 : Most(j) \in Nat /\ First(j) + P * Most(j + 1) = Most(j)
    /\ Most(4) = 0
    /\ Number = 1 .. Most(0) + Most(3) + Most(2) + Most(1)
<1>0. P \in Nat \ {0} /\ NDirect \in Nat /\ P * P \in Nat
      /\ Base(4) = NDirect + P + P * P + P * P * P /\ Base(4) \in Nat
  BY Bases, Constants
<1>1. Most(4) = 0 /\ Most(3) = 1 /\ Most(2) = 1 + P /\ Most(1) = 1 + P + P * P
      /\ Most(0) = Base(4)
  BY DEF Most
<1>2. First(3) + P * Most(3 + 1) = Most(3)
  BY <1>0, <1>1 DEF First
<1>3. First(2) + P * Most(2 + 1) = Most(2)
  BY <1>0, <1>1 DEF First
<1>4. First(1) + P * Most(1 + 1) = Most(1)
  <2>1. P * (1 + P) = P + P * P
    BY <1>0
  <2> QED
    BY <1>0, <1>1, <2>1 DEF First
<1>5. First(0) + P * Most(0 + 1) = Most(0)
  <2>1. P * (1 + P + P * P) = P + P * P + P * P * P
    BY <1>0
  <2> QED
    BY <1>0, <1>1, <2>1 DEF First
<1>6. \A j \in 0 .. 3 : j = 0 \/ j = 1 \/ j = 2 \/ j = 3
  OBVIOUS
<1>7. \A j \in 0 .. 3 : Most(j) \in Nat
  BY <1>0, <1>1, <1>6
<1>8. \A j \in 0 .. 3 : First(j) + P * Most(j + 1) = Most(j)
  BY <1>2, <1>3, <1>4, <1>5, <1>6
<1>9. Number = 1 .. Most(0) + Most(3) + Most(2) + Most(1)
  BY <1>1 DEF Number
<1> QED
  BY <1>1, <1>7, <1>8, <1>9

LEMMA TimesGrows ==
    ASSUME NEW x \in Nat, NEW y \in Nat
    PROVE  /\ P * x \in Nat /\ P * y \in Nat
           /\ x <= y => P * x <= P * y
           /\ x + 1 <= y => P * x + 1 <= P * y
<1>0. P \in Nat \ {0}
  BY Constants
<1>1. P * x \in Nat /\ P * y \in Nat
  BY <1>0
<1>2. ASSUME x <= y PROVE P * x <= P * y /\ (x + 1 <= y => P * x + 1 <= P * y)
  <2> DEFINE t == y - x
  <2>1. t \in Nat /\ y = x + t
    BY <1>2
  <2> HIDE DEF t
  <2>2. P * y = P * x + P * t /\ P * t \in Nat
    BY <1>0, <2>1
  <2>3. t >= 1 => P * t >= 1
    BY <1>0, <2>1
  <2>4. x + 1 <= y => t >= 1
    BY <2>1
  <2> QED
    BY <1>0, <1>1, <2>1, <2>2, <2>3, <2>4
<1> QED
  BY <1>1, <1>2

LEMMA LevelBound ==
    ASSUME NEW b, NEW ino, Shape(b, ino)
    PROVE  \A j \in 0 .. 3 : Cardinality(OfLevel(b, j)) <= Most(j)
<1> DEFINE a(j) == Cardinality(OfLevel(b, j))
           S == {j \in 0 .. 3 : a(j) <= Most(j)}
<1>0. \A j : a(j) \in Nat
  BY LevelFinite
<1>1. a(4) = 0
  <2>1. OfLevel(b, 4) = {}
    BY DEF OfLevel, Shape, IsBlock
  <2> QED
    BY <2>1, FS_EmptySet
<1>2. \A j \in 0 .. 3 : a(j) <= First(j) + P * a(j + 1)
  BY LevelCount
<1>3. P \in Nat \ {0} /\ \A j \in 0 .. 3 : First(j) \in Nat
  BY Constants DEF First
<1> HIDE DEF a
<1>4. 3 \in S
  <2>1. a(3) <= First(3) + P * a(3 + 1) /\ First(3) + P * Most(3 + 1) = Most(3)
    BY <1>2, MostGrows
  <2>2. a(3 + 1) = 0 /\ Most(3 + 1) = 0
    BY <1>1, MostGrows
  <2> QED
    BY <2>1, <2>2
<1>5. ASSUME NEW j \in 0 .. 3, j < 3, j + 1 \in S PROVE j \in S
  <2>1. j + 1 \in 0 .. 3 /\ a(j + 1) <= Most(j + 1)
    BY <1>5
  <2>2. a(j + 1) \in Nat /\ Most(j + 1) \in Nat /\ a(j) \in Nat /\ Most(j) \in Nat
    BY <1>0, <2>1, MostGrows
  <2>3. P * a(j + 1) <= P * Most(j + 1) /\ P * a(j + 1) \in Nat /\ P * Most(j + 1) \in Nat
    BY <2>1, <2>2, TimesGrows
  <2>4. a(j) <= First(j) + P * a(j + 1) /\ First(j) + P * Most(j + 1) = Most(j)
    BY <1>2, MostGrows
  <2> QED
    BY <1>3, <2>2, <2>3, <2>4
<1> HIDE DEF S
<1>6. \A j \in 0 .. 3 : j \in S
  BY <1>4, <1>5, DownLevels
<1> QED
  BY <1>6 DEF S, a

(* On the way to a block that is missing, every level has room. *)
LEMMA LevelShort ==
    ASSUME NEW b, NEW ino, Shape(b, ino), NEW n \in FileBlock, NEW f, IsWalk(f, n, b, ino)
    PROVE  \A j \in 0 .. Level(n) : f[j] = 0 => Cardinality(OfLevel(b, j)) + 1 <= Most(j)
<1> DEFINE L == Level(n)
           a(j) == Cardinality(OfLevel(b, j))
           S == {j \in 0 .. L : f[j] = 0 => a(j) + 1 <= Most(j)}
<1>0. L \in 0 .. 3 /\ \A j : a(j) \in Nat
  BY LevelRange, LevelFinite
<1>1. \A j \in 0 .. 3 : a(j) <= Most(j) /\ a(j) <= First(j) + P * a(j + 1)
  BY LevelBound, LevelCount
<1>2. a(4) = 0 /\ Most(4) = 0
  <2>1. OfLevel(b, 4) = {}
    BY DEF OfLevel, Shape, IsBlock
  <2> QED
    BY <2>1, FS_EmptySet, MostGrows
<1>3. ASSUME NEW j \in 0 .. L
      PROVE  /\ j \in 0 .. 3 /\ a(j + 1) \in Nat /\ Most(j + 1) \in Nat
             /\ a(j) \in Nat /\ Most(j) \in Nat /\ First(j) \in Nat
             /\ P * a(j + 1) <= P * Most(j + 1) /\ P * a(j + 1) \in Nat /\ P * Most(j + 1) \in Nat
             /\ First(j) + P * Most(j + 1) = Most(j)
             /\ a(j) <= First(j) + P * a(j + 1)
  <2>1. j \in 0 .. 3 /\ (j = 3 \/ j + 1 \in 0 .. 3)
    BY <1>0
  <2> HIDE DEF a
  <2>2. /\ a(j + 1) \in Nat /\ Most(j + 1) \in Nat /\ a(j + 1) <= Most(j + 1)
        /\ a(j) \in Nat /\ Most(j) \in Nat /\ First(j) \in Nat
    <3>1. First(j) \in Nat
      BY Constants DEF First
    <3>2. CASE j = 3
      <4>1. j + 1 = 4
        BY <3>2
      <4> QED
        BY <1>0, <1>2, <2>1, <3>1, <4>1, MostGrows
    <3>3. CASE j + 1 \in 0 .. 3
      BY <1>0, <1>1, <2>1, <3>1, <3>3, MostGrows
    <3> QED
      BY <2>1, <3>2, <3>3
  <2>3. P * a(j + 1) <= P * Most(j + 1) /\ P * a(j + 1) \in Nat /\ P * Most(j + 1) \in Nat
    BY <2>2, TimesGrows
  <2> QED
    BY <1>1, <2>1, <2>2, <2>3, MostGrows
(* an empty pointer that asks for the level *)
<1>4. ASSUME NEW j \in 0 .. L, f[j] = 0, j < L => f[j + 1] # 0 PROVE j \in S
  <2>1. /\ IsPlace(b, PathX(f, n, j), PathI(f, n, j))
        /\ Value(b, ino, PathX(f, n, j), PathI(f, n, j)) = 0
        /\ LevelAt(b, PathX(f, n, j), PathI(f, n, j)) = j
    BY <1>4, WalkPlaces
  <2>2. j \in 0 .. 3
    BY <1>3
  <2>3. a(j) + 1 <= First(j) + P * a(j + 1)
    BY <2>1, <2>2, LevelCount
  <2> HIDE DEF a
  <2> QED
    BY <1>3, <2>3
<1>5. L \in S
  <2>1. L \in 0 .. L /\ ~(L < L)
    BY <1>0
  <2> QED
    BY <1>4, <2>1
<1>6. ASSUME NEW j \in 0 .. L, j < L, j + 1 \in S PROVE j \in S
  <2>1. CASE f[j] # 0
    BY <2>1
  <2>2. CASE f[j] = 0 /\ f[j + 1] # 0
    BY <1>4, <2>2
  <2>3. CASE f[j] = 0 /\ f[j + 1] = 0
    <3>1. a(j + 1) + 1 <= Most(j + 1)
      BY <1>6, <2>3
    <3> HIDE DEF a
    <3>2. P * a(j + 1) + 1 <= P * Most(j + 1)
      BY <1>3, <3>1, TimesGrows
    <3> QED
      BY <1>3, <3>2
  <2> QED
    BY <2>1, <2>2, <2>3
<1> HIDE DEF S
<1>7. \A j \in 0 .. L : j \in S
  BY <1>0, <1>5, <1>6, DownLevels
<1> QED
  BY <1>7 DEF S

(* When block n and those above it up to level k are missing, there are     *)
(* numbers for all of them.                                                *)
LEMMA NumbersLeft ==
    ASSUME NEW b, NEW ino, Shape(b, ino), NEW n \in FileBlock, NEW f, IsWalk(f, n, b, ino),
           NEW k \in 0 .. Level(n), f[k] = 0
    PROVE  IsFiniteSet(Free(b)) /\ Cardinality(Free(b)) \in Nat /\ Cardinality(Free(b)) >= k + 1
<1> DEFINE L == Level(n)
           a(j) == Cardinality(OfLevel(b, j))
           Z == {j \in 0 .. k : f[j] = 0}
<1>0. L \in 0 .. 3 /\ k \in 0 .. 3
  BY LevelRange
<1>1. \A j \in 0 .. k : j \in Z
  <2>1. k \in Z
    BY <1>0
  <2>2. ASSUME NEW j \in 0 .. k, j < k, j + 1 \in Z PROVE j \in Z
    <3>1. j \in 0 .. L /\ j < L /\ f[j + 1] = 0
      BY <1>0, <2>2
    <3> QED
      BY <3>1, WalkZeros
  <2> HIDE DEF Z
  <2> QED
    BY <1>0, <2>1, <2>2, DownLevels
<1>2. \A j \in 0 .. k : a(j) + 1 <= Most(j)
  <2> SUFFICES ASSUME NEW j \in 0 .. k PROVE a(j) + 1 <= Most(j)
    OBVIOUS
  <2>1. j \in 0 .. L /\ f[j] = 0
    BY <1>0, <1>1
  <2> QED
    BY <2>1, LevelShort
<1>3. \A j \in 0 .. 3 : a(j) <= Most(j) /\ a(j) \in Nat /\ Most(j) \in Nat
  BY LevelBound, LevelFinite, MostGrows
<1>4. (a(0) + a(1) + a(2) + a(3)) + (k + 1) <= Most(0) + Most(3) + Most(2) + Most(1)
  <2> HIDE DEF a
  <2>1. a(0) + 1 <= Most(0)
    BY <1>0, <1>2
  <2>2. k >= 1 => a(1) + 1 <= Most(1)
    BY <1>0, <1>2
  <2>3. k >= 2 => a(2) + 1 <= Most(2)
    BY <1>0, <1>2
  <2>4. k >= 3 => a(3) + 1 <= Most(3)
    BY <1>0, <1>2
  <2>5. /\ a(0) \in Nat /\ a(1) \in Nat /\ a(2) \in Nat /\ a(3) \in Nat
        /\ Most(0) \in Nat /\ Most(1) \in Nat /\ Most(2) \in Nat /\ Most(3) \in Nat
        /\ a(1) <= Most(1) /\ a(2) <= Most(2) /\ a(3) <= Most(3)
    BY <1>3
  <2>6. k = 0 \/ k = 1 \/ k = 2 \/ k = 3
    BY <1>0
  <2> QED
    BY <2>1, <2>2, <2>3, <2>4, <2>5, <2>6
<1> DEFINE V(j) == OfLevel(b, j)
           X1 == V(0) \cup V(1)
           X2 == X1 \cup V(2)
           X3 == X2 \cup V(3)
<1>5. IsFiniteSet(X3) /\ Cardinality(X3) \in Nat /\ Cardinality(X3) <= a(0) + a(1) + a(2) + a(3)
  <2>1. \A j : IsFiniteSet(V(j)) /\ Cardinality(V(j)) = a(j) /\ a(j) \in Nat
    BY LevelFinite
  <2>2. ASSUME NEW A, NEW B, IsFiniteSet(A), IsFiniteSet(B)
        PROVE  IsFiniteSet(A \cup B) /\ Cardinality(A \cup B) \in Nat
               /\ Cardinality(A \cup B) <= Cardinality(A) + Cardinality(B)
    <3>1. /\ IsFiniteSet(A \cup B)
          /\ Cardinality(A \cup B) = Cardinality(A) + Cardinality(B) - Cardinality(A \cap B)
      BY <2>2, FS_Union
    <3>2. IsFiniteSet(A \cap B)
      BY <2>2, FS_Intersection
    <3>3. Cardinality(A \cap B) \in Nat /\ Cardinality(A \cup B) \in Nat
          /\ Cardinality(A) \in Nat /\ Cardinality(B) \in Nat
      BY <2>2, <3>1, <3>2, FS_CardinalityType
    <3> QED
      BY <3>1, <3>3
  <2> HIDE DEF V, a
  <2>3. IsFiniteSet(X1) /\ Cardinality(X1) \in Nat /\ Cardinality(X1) <= a(0) + a(1)
    BY <2>1, <2>2
  <2> HIDE DEF X1
  <2>4. IsFiniteSet(X2) /\ Cardinality(X2) \in Nat /\ Cardinality(X2) <= Cardinality(X1) + a(2)
    BY <2>1, <2>2, <2>3
  <2> HIDE DEF X2
  <2>5. IsFiniteSet(X3) /\ Cardinality(X3) \in Nat /\ Cardinality(X3) <= Cardinality(X2) + a(3)
    BY <2>1, <2>2, <2>4
  <2> HIDE DEF X3
  <2>6. a(0) \in Nat /\ a(1) \in Nat /\ a(2) \in Nat /\ a(3) \in Nat
    BY <2>1
  <2> QED
    BY <2>3, <2>4, <2>5, <2>6
<1>6. Free(b) = Number \ X3
  <2>1. \A m \in Number : b[m] = Unused <=> b[m].magic = -1
    BY DEF Shape, IsBlock, Unused
  <2>2. \A m \in Number : b[m].magic = -1 \/ b[m].magic = 0 \/ b[m].magic = 1
                          \/ b[m].magic = 2 \/ b[m].magic = 3
    BY DEF Shape, IsBlock
  <2> QED
    BY <2>1, <2>2 DEF Free, OfLevel
<1>7. IsFiniteSet(Number) /\ Cardinality(Number) = Most(0) + Most(3) + Most(2) + Most(1)
  <2> DEFINE t == Most(0) + Most(3) + Most(2) + Most(1)
  <2>1. t \in Nat /\ 1 \in Int /\ t \in Int
    BY <1>3
  <2>2. Number = 1 .. t
    BY MostGrows
  <2> HIDE DEF t
  <2>3. IsFiniteSet(1 .. t) /\ Cardinality(1 .. t) = IF 1 > t THEN 0 ELSE t - 1 + 1
    BY <2>1, FS_Interval
  <2>4. Cardinality(1 .. t) = t
    BY <2>1, <2>3
  <2> QED
    BY <2>2, <2>3, <2>4 DEF t
<1> HIDE DEF a, X3
<1>8. IsFiniteSet(Free(b)) /\ Cardinality(Free(b)) = Cardinality(Number) - Cardinality(Number \cap X3)
  BY <1>6, <1>7, FS_Difference
<1>9. Cardinality(Free(b)) \in Nat
  BY <1>8, FS_CardinalityType
<1>10. IsFiniteSet(Number \cap X3) /\ Cardinality(Number \cap X3) <= Cardinality(X3)
  BY <1>5, FS_Intersection
<1>11. Cardinality(Number \cap X3) \in Nat
  BY <1>10, FS_CardinalityType
<1>12. /\ a(0) \in Nat /\ a(1) \in Nat /\ a(2) \in Nat /\ a(3) \in Nat
       /\ Most(0) \in Nat /\ Most(1) \in Nat /\ Most(2) \in Nat /\ Most(3) \in Nat
  BY <1>3
<1> QED
  BY <1>0, <1>4, <1>5, <1>7, <1>8, <1>9, <1>10, <1>11, <1>12

--------------------------------------------------------------------------------
(* What Written computes *)

(* The equation of Written: g[k] is what is there once level k is written. *)
Rise(u, n, num, k) ==
    hodo_write_struct(u.blocks, [BlockAt(num, k) EXCEPT !.data[WriteSlot(n, k)] = u.number], num[k])

IsRise(g, n, num, d) ==
    g = [k \in DOMAIN num |->
            IF k = 0 THEN hodo_write_struct(blocks, [magic |-> 0, data |-> d], num[0])
            ELSE Rise(g[k - 1], n, num, k)]

LEMMA RiseExists ==
    ASSUME NEW n \in FileBlock, NEW num, DOMAIN num = 0 .. Level(n), NEW d
    PROVE  \E g : IsRise(g, n, num, d)
<1> DEFINE L == Level(n)
           u0 == hodo_write_struct(blocks, [magic |-> 0, data |-> d], num[0])
           u1 == Rise(u0, n, num, 1)
           u2 == Rise(u1, n, num, 2)
           u3 == Rise(u2, n, num, 3)
           g == [k \in 0 .. L |-> IF k = 0 THEN u0 ELSE IF k = 1 THEN u1
                                  ELSE IF k = 2 THEN u2 ELSE u3]
<1>1. L \in 0 .. 3
  BY LevelRange
<1> HIDE DEF L, u0
<1>2. ASSUME NEW k \in 0 .. L
      PROVE  g[k] = IF k = 0 THEN u0 ELSE Rise(g[k - 1], n, num, k)
  <2>1. CASE k = 0
    BY <2>1
  <2>2. CASE k = 1
    <3>1. k - 1 = 0 /\ k # 0 /\ 0 \in 0 .. L
      BY <1>1, <2>2
    <3>2. g[k] = u1 /\ g[k - 1] = u0
      BY <2>2, <3>1
    <3> HIDE DEF g
    <3> QED
      BY <2>2, <3>1, <3>2
  <2>3. CASE k = 2
    <3>1. k - 1 = 1 /\ k # 0 /\ k # 1 /\ 1 \in 0 .. L
      BY <1>1, <2>3
    <3> HIDE DEF u1
    <3>2. g[k] = u2 /\ g[k - 1] = u1
      BY <2>3, <3>1
    <3> HIDE DEF g
    <3> QED
      BY <2>3, <3>1, <3>2
  <2>4. CASE k = 3
    <3>1. k - 1 = 2 /\ k # 0 /\ k # 1 /\ k # 2 /\ 2 \in 0 .. L
      BY <1>1, <2>4
    <3> HIDE DEF u1, u2
    <3>2. g[k] = u3 /\ g[k - 1] = u2
      BY <2>4, <3>1
    <3> HIDE DEF g
    <3> QED
      BY <2>4, <3>1, <3>2
  <2>5. k = 0 \/ k = 1 \/ k = 2 \/ k = 3
    BY <1>1
  <2> HIDE DEF g
  <2> QED
    BY <2>1, <2>2, <2>3, <2>4, <2>5
<1>3. g = [k \in 0 .. L |-> g[k]]
  OBVIOUS
<1> HIDE DEF g
<1>4. g = [k \in 0 .. L |-> IF k = 0 THEN u0 ELSE Rise(g[k - 1], n, num, k)]
  BY <1>2, <1>3
<1> QED
  BY <1>4 DEF IsRise, L, u0

LEMMA RiseNow ==
    ASSUME NEW n \in FileBlock, NEW d
    PROVE  \E g : IsRise(g, n, WriteNumbers(n), d) /\ Written(n, d) = g[Level(n)]
<1> DEFINE num == WriteNumbers(n)
<1>1. DOMAIN num = 0 .. Level(n)
  BY WalkNow, WalkAt
<1>2. \E g : IsRise(g, n, num, d)
  BY <1>1, RiseExists
<1>3. Written(n, d) = (CHOOSE g : IsRise(g, n, num, d))[Level(n)]
  BY DEF Written, IsRise, Rise
<1> QED
  BY <1>2, <1>3

(* Writing one block: under its number, or under one that was free. *)
LEMMA WriteStruct ==
    ASSUME NEW bs, bs = [m \in Number |-> bs[m]], NEW x, NEW m \in Pointer,
           m = 0 => Free(bs) # {}
    PROVE  LET h == hodo_write_struct(bs, x, m)
           IN  /\ h.number \in Number
               /\ m # 0 => h.number = m
               /\ m = 0 => bs[h.number] = Unused
               /\ h.blocks = [i \in Number |-> h.blocks[i]]
               /\ h.blocks[h.number] = x
               /\ \A i \in Number : i # h.number => h.blocks[i] = bs[i]
<1> DEFINE h == hodo_write_struct(bs, x, m)
           num == h.number
<1>1. num \in Number /\ (m # 0 => num = m) /\ (m = 0 => bs[num] = Unused)
  <2>1. CASE m # 0
    <3>1. num = m /\ m \in Number
      BY <2>1 DEF hodo_write_struct, NEW_DATABLOCK, Pointer
    <3> QED
      BY <2>1, <3>1
  <2>2. CASE m = 0
    <3>1. num = CHOOSE i \in Free(bs) : \A j \in Free(bs) : i <= j
      BY <2>2 DEF hodo_write_struct, NEW_DATABLOCK
    <3>2. Free(bs) \in SUBSET Nat /\ Free(bs) # {}
      BY <2>2, Constants DEF Free
    <3>3. \E i \in Free(bs) : \A j \in Free(bs) : i <= j
      BY <3>2, LeastNat
    <3>4. num \in Free(bs)
      BY <3>1, <3>3
    <3> QED
      BY <2>2, <3>4 DEF Free
  <2> QED
    BY <2>1, <2>2
<1>2. h.blocks = [bs EXCEPT ![num] = x]
  BY DEF hodo_write_struct
<1> HIDE DEF h
<1>3. DOMAIN bs = Number
  OBVIOUS
<1>4. h.blocks = [i \in Number |-> h.blocks[i]]
  BY <1>2, <1>3
<1>5. h.blocks[num] = x /\ \A i \in Number : i # num => h.blocks[i] = bs[i]
  BY <1>1, <1>2, <1>3
<1> QED
  BY <1>1, <1>4, <1>5 DEF h

(* Effect, of the levels up to k. *)
Partly(b, c, n, f, r, d, k) ==
    /\ \A j \in 0 .. k : r[j] \in Number
    /\ \A i, j \in 0 .. k : r[i] = r[j] => i = j
    /\ \A j \in 0 .. k : f[j] # 0 => r[j] = f[j]
    /\ \A j \in 0 .. k : f[j] = 0 => b[r[j]] = Unused
    /\ c = [m \in Number |-> c[m]]
    /\ \A m \in Number : (\A j \in 0 .. k : m # r[j]) => c[m] = b[m]
    /\ c[r[0]] = [magic |-> 0, data |-> d]
    /\ \A j \in 1 .. k :
          /\ c[r[j]] = [magic |-> j, data |-> c[r[j]].data]
          /\ c[r[j]].data = [OldSlots(b, f, j) EXCEPT ![WriteSlot(n, j)] = r[j - 1]]

(* The block of level k that is written back. *)
LEMMA BlockBack ==
    ASSUME Shape(blocks, inode), NEW n \in FileBlock, NEW f, IsWalk(f, n, blocks, inode),
           NEW k \in 1 .. Level(n), NEW v
    PROVE  [BlockAt(f, k) EXCEPT !.data[WriteSlot(n, k)] = v]
             = [magic |-> k, data |-> [OldSlots(blocks, f, k) EXCEPT ![WriteSlot(n, k)] = v]]
<1>1. k \in 0 .. Level(n) /\ k # 0 /\ k > 0
  BY LevelRange
<1>2. BlockAt(f, k) = [magic |-> k, data |-> OldSlots(blocks, f, k)]
  <2>1. CASE f[k] = 0
    BY <1>1, <2>1 DEF BlockAt, NewBlock, OldSlots, NEW_DATABLOCK
  <2>2. CASE f[k] # 0
    <3>1. f[k] \in Number /\ blocks[f[k]].magic = k
      BY <1>1, <2>2, WalkTyped DEF Pointer
    <3>2. blocks[f[k]] = [magic |-> blocks[f[k]].magic, data |-> blocks[f[k]].data]
      BY <3>1 DEF Shape, IsBlock
    <3> QED
      BY <2>2, <3>1, <3>2 DEF BlockAt, OldSlots
  <2> QED
    BY <2>1, <2>2
<1> QED
  BY <1>2

(* A level is written on top of those below. *)
LEMMA RiseStep ==
    ASSUME Shape(blocks, inode), NEW n \in FileBlock, NEW f, IsWalk(f, n, blocks, inode),
           NEW d, NEW r, NEW u, NEW k \in 1 .. Level(n),
           Partly(blocks, u.blocks, n, f, r, d, k - 1), u.number = r[k - 1],
           Rise(u, n, f, k).number = r[k]
    PROVE  Partly(blocks, Rise(u, n, f, k).blocks, n, f, r, d, k)
<1> DEFINE c == u.blocks
           x == [BlockAt(f, k) EXCEPT !.data[WriteSlot(n, k)] = u.number]
           h == hodo_write_struct(c, x, f[k])
<1>0. /\ k \in 1 .. 3 /\ k \in 0 .. Level(n) /\ k - 1 \in Nat
      /\ \A j \in 0 .. k : j = k \/ j \in 0 .. k - 1
      /\ \A j \in 1 .. k : j = k \/ j \in 1 .. k - 1
      /\ \A j \in 0 .. k - 1 : j \in 0 .. Level(n) /\ j # k
      /\ \A j \in 0 .. k - 1 : j = 0 \/ j \in 1 .. k - 1
  BY LevelRange
<1>1. f[k] \in Pointer /\ (f[k] # 0 => blocks[f[k]].magic = k)
  BY <1>0, WalkTyped
<1>2. c = [m \in Number |-> c[m]]
  BY DEF Partly
<1>3. ASSUME NEW j \in 0 .. k - 1
      PROVE  r[j] \in Number /\ c[r[j]].magic = j /\ (blocks[r[j]].magic = j \/ blocks[r[j]].magic = -1)
  <2>1. r[j] \in Number
    BY DEF Partly
  <2>2. c[r[j]].magic = j
    <3>1. CASE j = 0
      BY <3>1 DEF Partly
    <3>2. CASE j \in 1 .. k - 1
      <4>1. c[r[j]] = [magic |-> j, data |-> c[r[j]].data]
        BY <3>2 DEF Partly
      <4> QED
        BY <4>1
    <3> QED
      BY <1>0, <3>1, <3>2
  <2>3. CASE f[j] = 0
    BY <2>1, <2>2, <2>3 DEF Partly, Unused
  <2>4. CASE f[j] # 0
    <3>1. r[j] = f[j] /\ j \in 0 .. Level(n)
      BY <1>0, <2>4 DEF Partly
    <3>2. blocks[f[j]].magic = j
      BY <2>4, <3>1, WalkTyped
    <3> QED
      BY <2>1, <2>2, <3>1, <3>2
  <2> QED
    BY <2>3, <2>4
<1>4. ASSUME f[k] = 0 PROVE Free(c) # {}
  <2> SUFFICES ASSUME Free(c) = {} PROVE FALSE
    OBVIOUS
  <2> DEFINE A == 0 .. k - 1
  <2>1. \A m \in Free(blocks) : \E j \in A : r[j] = m
    <3> SUFFICES ASSUME NEW m \in Free(blocks), \A j \in A : m # r[j] PROVE FALSE
      OBVIOUS
    <3>1. m \in Number /\ blocks[m] = Unused
      BY DEF Free
    <3>2. c[m] = blocks[m]
      BY <3>1 DEF Partly
    <3> QED
      BY <3>1, <3>2 DEF Free
  <2>2. 0 \in Int /\ k - 1 \in Int
    BY <1>0
  <2>3. IsFiniteSet(A) /\ Cardinality(A) = IF 0 > k - 1 THEN 0 ELSE (k - 1) - 0 + 1
    BY <2>2, FS_Interval
  <2>4. Cardinality(A) = k
    BY <1>0, <2>3
  <2> HIDE DEF A
  <2>5. Cardinality(Free(blocks)) <= k
    BY <2>1, <2>3, <2>4, CountImage
  <2>6. Cardinality(Free(blocks)) \in Nat /\ Cardinality(Free(blocks)) >= k + 1
    BY <1>0, <1>4, NumbersLeft
  <2> QED
    BY <1>0, <2>5, <2>6
<1>5. /\ h.number \in Number
      /\ f[k] # 0 => h.number = f[k]
      /\ f[k] = 0 => c[h.number] = Unused
      /\ h.blocks = [i \in Number |-> h.blocks[i]]
      /\ h.blocks[h.number] = x
      /\ \A i \in Number : i # h.number => h.blocks[i] = c[i]
  <2> HIDE DEF c, x
  <2> QED
    BY <1>1, <1>2, <1>4, WriteStruct
<1>6. h = Rise(u, n, f, k) /\ h.number = r[k]
  BY DEF Rise
<1>7. x = [magic |-> k, data |-> [OldSlots(blocks, f, k) EXCEPT ![WriteSlot(n, k)] = r[k - 1]]]
  BY BlockBack
<1> HIDE DEF h, x, c
<1>8. ASSUME NEW j \in 0 .. k - 1 PROVE r[k] # r[j]
  <2> SUFFICES ASSUME r[k] = r[j] PROVE FALSE
    OBVIOUS
  <2>1. j # k /\ j # -1 /\ k # -1
    BY <1>0
  <2>2. CASE f[k] = 0
    BY <1>3, <1>5, <1>6, <2>1, <2>2 DEF Unused
  <2>3. CASE f[k] # 0
    BY <1>1, <1>3, <1>5, <1>6, <2>1, <2>3
  <2> QED
    BY <2>2, <2>3
<1>9. f[k] = 0 => blocks[r[k]] = Unused
  <2>1. c[r[k]] = blocks[r[k]]
    BY <1>5, <1>6, <1>8 DEF Partly, c
  <2> QED
    BY <1>5, <1>6, <2>1
<1>10. \A j \in 0 .. k : r[j] \in Number
  BY <1>0, <1>3, <1>5, <1>6
<1>11. \A i, j \in 0 .. k : r[i] = r[j] => i = j
  <2> SUFFICES ASSUME NEW i \in 0 .. k, NEW j \in 0 .. k, r[i] = r[j] PROVE i = j
    OBVIOUS
  <2>1. CASE i \in 0 .. k - 1 /\ j \in 0 .. k - 1
    BY <2>1 DEF Partly
  <2> QED
    BY <1>0, <1>8, <2>1
<1>12. \A j \in 0 .. k : f[j] # 0 => r[j] = f[j]
  BY <1>0, <1>5, <1>6 DEF Partly
<1>13. \A j \in 0 .. k : f[j] = 0 => blocks[r[j]] = Unused
  BY <1>0, <1>9 DEF Partly
<1>14. \A m \in Number : (\A j \in 0 .. k : m # r[j]) => h.blocks[m] = blocks[m]
  <2> SUFFICES ASSUME NEW m \in Number, \A j \in 0 .. k : m # r[j]
               PROVE  h.blocks[m] = blocks[m]
    OBVIOUS
  <2>1. m # r[k] /\ \A j \in 0 .. k - 1 : m # r[j]
    BY <1>0
  <2>2. c[m] = blocks[m]
    BY <2>1 DEF Partly, c
  <2> QED
    BY <1>5, <1>6, <2>1, <2>2
<1>15. \A j \in 0 .. k - 1 : h.blocks[r[j]] = c[r[j]]
  BY <1>3, <1>5, <1>6, <1>8
<1>16. h.blocks[r[0]] = [magic |-> 0, data |-> d]
  <2>1. 0 \in 0 .. k - 1
    BY <1>0
  <2> QED
    BY <1>15, <2>1 DEF Partly, c
<1>17. ASSUME NEW j \in 1 .. k
       PROVE  /\ h.blocks[r[j]] = [magic |-> j, data |-> h.blocks[r[j]].data]
              /\ h.blocks[r[j]].data = [OldSlots(blocks, f, j) EXCEPT ![WriteSlot(n, j)] = r[j - 1]]
  <2>1. CASE j = k
    <3>1. h.blocks[r[j]] = [magic |-> j, data |-> [OldSlots(blocks, f, j) EXCEPT ![WriteSlot(n, j)] = r[j - 1]]]
      BY <1>5, <1>6, <1>7, <2>1
    <3> QED
      BY <3>1
  <2>2. CASE j \in 1 .. k - 1
    <3>1. j \in 0 .. k - 1
      BY <2>2
    <3>2. h.blocks[r[j]] = c[r[j]]
      BY <1>15, <3>1
    <3>3. /\ c[r[j]] = [magic |-> j, data |-> c[r[j]].data]
          /\ c[r[j]].data = [OldSlots(blocks, f, j) EXCEPT ![WriteSlot(n, j)] = r[j - 1]]
      BY <2>2 DEF Partly, c
    <3> QED
      BY <3>2, <3>3
  <2> QED
    BY <1>0, <2>1, <2>2
<1>18. Partly(blocks, h.blocks, n, f, r, d, k)
  BY <1>5, <1>10, <1>11, <1>12, <1>13, <1>14, <1>16, <1>17 DEF Partly
<1> QED
  BY <1>6, <1>18

(* Writing block n has the effect that the proofs are about. *)
LEMMA WriteEffect ==
    ASSUME Shape(blocks, inode), NEW n \in FileBlock, NEW d \in [Offset -> Byte], NEW len \in Nat
    PROVE  LET top == Written(n, d)
               jno == [SetTop(inode, n, Level(n), top.number) EXCEPT !.file_len = len]
           IN  \E r : Before(blocks, inode, top.blocks, jno, n, WriteNumbers(n), r, d)
<1> DEFINE L == Level(n)
           f == WriteNumbers(n)
           top == Written(n, d)
           jno == [SetTop(inode, n, L, top.number) EXCEPT !.file_len = len]
<1>0. L \in 0 .. 3 /\ L \in 0 .. L /\ 0 \in 0 .. L
  BY LevelRange
<1>1. IsWalk(f, n, blocks, inode) /\ DOMAIN f = 0 .. L
  BY WalkNow, WalkAt
<1>2. PICK g : IsRise(g, n, f, d) /\ top = g[L]
  BY RiseNow
<1> HIDE DEF f, top
<1> DEFINE r == [k \in 0 .. L |-> g[k].number]
           S == {k \in 0 .. L : Partly(blocks, g[k].blocks, n, f, r, d, k)}
<1>3. g[0] = hodo_write_struct(blocks, [magic |-> 0, data |-> d], f[0])
      /\ \A k \in 1 .. L : g[k] = Rise(g[k - 1], n, f, k)
  <2>1. g = [k \in 0 .. L |->
                IF k = 0 THEN hodo_write_struct(blocks, [magic |-> 0, data |-> d], f[0])
                ELSE Rise(g[k - 1], n, f, k)]
    BY <1>1, <1>2 DEF IsRise
  <2>2. \A k \in 0 .. L : g[k] = IF k = 0 THEN hodo_write_struct(blocks, [magic |-> 0, data |-> d], f[0])
                                 ELSE Rise(g[k - 1], n, f, k)
    BY <2>1
  <2>3. g[0] = hodo_write_struct(blocks, [magic |-> 0, data |-> d], f[0])
    BY <1>0, <2>2
  <2>4. \A k \in 1 .. L : k \in 0 .. L /\ k # 0
    BY <1>0
  <2> QED
    BY <2>2, <2>3, <2>4
<1>4. 0 \in S
  <2> DEFINE x == [magic |-> 0, data |-> d]
             h == hodo_write_struct(blocks, x, f[0])
  <2>1. f[0] \in Pointer /\ blocks = [m \in Number |-> blocks[m]]
    BY <1>0, <1>1, WalkTyped DEF Shape
  <2>2. f[0] = 0 => Free(blocks) # {}
    <3> SUFFICES ASSUME f[0] = 0 PROVE Free(blocks) # {}
      OBVIOUS
    <3>1. Cardinality(Free(blocks)) >= 0 + 1
      BY <1>0, <1>1, NumbersLeft
    <3>2. Cardinality({}) = 0
      BY FS_EmptySet
    <3> QED
      BY <3>1, <3>2
  <2> HIDE DEF x
  <2>3. /\ h.number \in Number
        /\ f[0] # 0 => h.number = f[0]
        /\ f[0] = 0 => blocks[h.number] = Unused
        /\ h.blocks = [i \in Number |-> h.blocks[i]]
        /\ h.blocks[h.number] = x
        /\ \A i \in Number : i # h.number => h.blocks[i] = blocks[i]
    BY <2>1, <2>2, WriteStruct
  <2>4. g[0] = h /\ r[0] = h.number
    BY <1>0, <1>3 DEF x
  <2> HIDE DEF h, r
  <2>5. \A j \in 0 .. 0 : j = 0
    OBVIOUS
  <2>6. 1 .. 0 = {}
    OBVIOUS
  <2>7. 0 \in 0 .. 0
    OBVIOUS
  <2>8. Partly(blocks, g[0].blocks, n, f, r, d, 0)
    BY <2>3, <2>4, <2>5, <2>6, <2>7 DEF Partly, x
  <2> QED
    BY <1>0, <2>8
<1>5. ASSUME NEW k \in 0 .. L, k > 0, k - 1 \in S PROVE k \in S
  <2>1. k \in 1 .. L /\ k - 1 \in 0 .. L
    BY <1>0, <1>5
  <2>2. Partly(blocks, g[k - 1].blocks, n, f, r, d, k - 1)
    BY <1>5
  <2>3. g[k - 1].number = r[k - 1] /\ g[k] = Rise(g[k - 1], n, f, k) /\ r[k] = g[k].number
    BY <1>3, <2>1
  <2> HIDE DEF r
  <2>4. Partly(blocks, Rise(g[k - 1], n, f, k).blocks, n, f, r, d, k)
    BY <1>1, <2>1, <2>2, <2>3, RiseStep
  <2> QED
    BY <2>3, <2>4
<1>6. Partly(blocks, top.blocks, n, f, r, d, L) /\ r[L] = top.number
  <2>1. r[L] = top.number
    BY <1>0, <1>2
  <2> HIDE DEF S, r
  <2>2. L \in S
    BY <1>0, <1>4, <1>5, UpLevels
  <2> QED
    BY <1>2, <2>1, <2>2 DEF S
<1>7. r \in [0 .. L -> Number]
  <2>1. \A k \in 0 .. L : r[k] \in Number
    BY <1>6 DEF Partly
  <2> QED
    BY <2>1
<1> HIDE DEF r
<1>8. r[L] \in Pointer
  BY <1>0, <1>7 DEF Pointer
<1>9. /\ jno \in InodeType
      /\ jno.direct = SetTop(inode, n, L, r[L]).direct
      /\ jno.indirect = SetTop(inode, n, L, r[L]).indirect
  <2>1. inode \in InodeType
    BY DEF Shape
  <2>2. CASE L = 0
    <3>1. n \in 0 .. NDirect - 1
      BY <2>2, Constants, Bases DEF Level, FileBlock
    <3> QED
      BY <1>6, <1>8, <2>1, <2>2, <3>1 DEF SetTop, InodeType
  <2>3. CASE L # 0
    <3>1. L \in 1 .. 3
      BY <1>0, <2>3
    <3> QED
      BY <1>6, <1>8, <2>1, <2>3, <3>1 DEF SetTop, InodeType
  <2> QED
    BY <2>2, <2>3
<1> HIDE DEF jno
<1>10. Effect(blocks, inode, top.blocks, jno, n, f, r, d)
  BY <1>6, <1>7, <1>9 DEF Effect, Partly
<1>11. Before(blocks, inode, top.blocks, jno, n, f, r, d)
  BY <1>1, <1>10 DEF Before
<1> QED
  BY <1>11 DEF jno, top, f

--------------------------------------------------------------------------------
(* The steps of the program keep the tree *)

CallType ==
    [c : Nat, start : Nat, ki_pos : Nat, len : Nat, done : Nat, append : BOOLEAN]

(* The types, and the shape of the tree. *)
TreeInv ==
    /\ Shape(blocks, inode)
    /\ call \in [Writers -> CallType]
    /\ \A w \in Writers : call[w].done <= call[w].len
    /\ i_size \in Nat /\ calls \in Nat

(* One round of a write: its block, the offset in it, the bytes it takes   *)
(* and the new content of the block.                                       *)
BlockNo(w) == WritePos(w) \div DataSize

Left(w) == WritePos(w) % DataSize

Taken(w) ==
    LET rest == call[w].len - call[w].done
    IN  IF rest + Left(w) >= DataSize THEN DataSize - Left(w) ELSE rest

NewBytes(w) ==
    NewData(BlockAt(WriteNumbers(BlockNo(w)), 0).data, Left(w), call[w].c, call[w].done, Taken(w))

LEMMA Split ==
    ASSUME NEW x \in Nat
    PROVE  /\ x \div DataSize \in Nat /\ x % DataSize \in Offset
           /\ x = DataSize * (x \div DataSize) + (x % DataSize)
<1>1. DataSize \in Nat \ {0}
  BY Constants
<1> QED
  BY <1>1 DEF Offset

LEMMA PosType ==
    ASSUME TreeInv, NEW w \in Writers
    PROVE  WritePos(w) \in Nat
<1>1. call[w] \in CallType /\ i_size \in Nat
  BY DEF TreeInv
<1> QED
  BY <1>1 DEF WritePos, CallType

LEMMA InFile ==
    ASSUME NEW n \in Nat, Level(n) < 4
    PROVE  n \in FileBlock
<1>1. n < Base(4)
  <2> SUFFICES ASSUME ~(n < Base(4)) PROVE FALSE
    OBVIOUS
  <2>1. ~(n < Base(1)) /\ ~(n < Base(2)) /\ ~(n < Base(3))
    BY Bases
  <2>2. Level(n) = 4
    BY <2>1 DEF Level
  <2> QED
    BY <2>2
<1> QED
  BY <1>1, Bases DEF FileBlock

(* What a round of a write does. *)
LEMMA WriteStep ==
    ASSUME TreeInv, NEW w \in Writers, WriteOneBlock(w)
    PROVE  /\ BlockNo(w) \in FileBlock /\ BlockNo(w) \in Nat /\ Left(w) \in Offset
           /\ WritePos(w) \in Nat
           /\ WritePos(w) = DataSize * BlockNo(w) + Left(w)
           /\ Taken(w) \in Nat /\ Taken(w) > 0 /\ Left(w) + Taken(w) <= DataSize
           /\ call[w].done + Taken(w) <= call[w].len
           /\ NewBytes(w) \in [Offset -> Byte]
           /\ inode'.file_len = WritePos(w) + Taken(w)
           /\ i_size' = WritePos(w) + Taken(w)
           /\ call' = [call EXCEPT ![w].ki_pos = WritePos(w) + Taken(w), ![w].done = @ + Taken(w)]
           /\ UNCHANGED <<fault, file, calls>> /\ InCall(w)
           /\ \E r : Before(blocks, inode, blocks', inode', BlockNo(w),
                            WriteNumbers(BlockNo(w)), r, NewBytes(w))
<1> DEFINE pos == WritePos(w)
           n == BlockNo(w)
           f == WriteNumbers(n)
           q == call[w]
<1>1. pos \in Nat /\ DataSize \in Nat \ {0} /\ q \in CallType /\ q.done <= q.len
  BY PosType, Constants DEF TreeInv
<1>2. n \in Nat /\ Left(w) \in Offset /\ pos = DataSize * n + Left(w)
  BY <1>1, Split DEF BlockNo, Left
<1>3. /\ InCall(w) /\ q.done < q.len /\ Level(n) < 4
      /\ blocks' = Written(n, NewBytes(w)).blocks
      /\ inode' = [SetTop(inode, n, Level(n), Written(n, NewBytes(w)).number)
                     EXCEPT !.file_len = pos + Taken(w)]
      /\ i_size' = pos + Taken(w)
      /\ call' = [call EXCEPT ![w].ki_pos = pos + Taken(w), ![w].done = @ + Taken(w)]
      /\ UNCHANGED <<fault, file, calls>>
  BY DEF WriteOneBlock, BlockNo, NewBytes, Taken, Left
<1>4. n \in FileBlock
  BY <1>2, <1>3, InFile
<1>5. /\ q.c \in Nat /\ q.done \in Nat /\ q.len \in Nat /\ Left(w) \in Nat /\ Left(w) < DataSize
      /\ Left(w) \in 0 .. DataSize - 1
  BY <1>1, <1>2 DEF CallType, Offset
<1> HIDE DEF q
<1>6. /\ Taken(w) \in Nat /\ Taken(w) > 0 /\ Left(w) + Taken(w) <= DataSize
      /\ q.done + Taken(w) <= q.len
  <2> DEFINE rest == q.len - q.done
  <2>1. Taken(w) = IF rest + Left(w) >= DataSize THEN DataSize - Left(w) ELSE rest
    BY DEF Taken, q
  <2>2. rest \in Nat /\ rest > 0 /\ q.len = q.done + rest
    BY <1>3, <1>5
  <2> HIDE DEF rest
  <2>3. CASE rest + Left(w) >= DataSize
    BY <1>1, <1>5, <2>1, <2>2, <2>3
  <2>4. CASE ~(rest + Left(w) >= DataSize)
    BY <1>1, <1>5, <2>1, <2>2, <2>4
  <2> QED
    BY <2>3, <2>4
<1>7. BlockAt(f, 0).data \in [Offset -> Byte]
  <2>1. CASE f[0] = 0
    <3>1. BlockAt(f, 0).data = [i \in Offset |-> Nil]
      BY <2>1 DEF BlockAt, NewBlock
    <3> QED
      BY <3>1 DEF Nil, Byte
  <2>2. CASE f[0] # 0
    <3>1. 0 \in 0 .. Level(n) /\ IsWalk(f, n, blocks, inode) /\ Shape(blocks, inode)
      BY <1>4, LevelRange, WalkNow DEF TreeInv
    <3>2. f[0] \in Number /\ blocks[f[0]].magic = 0
      BY <1>4, <2>2, <3>1, WalkTyped DEF Pointer
    <3>3. IsBlock(blocks[f[0]])
      BY <3>1, <3>2 DEF Shape
    <3> QED
      BY <2>2, <3>2, <3>3 DEF BlockAt, IsBlock
  <2> QED
    BY <2>1, <2>2
<1> HIDE DEF f, n, pos
<1>8. NewBytes(w) \in [Offset -> Byte]
  <2> DEFINE old == BlockAt(f, 0).data
  <2>1. NewBytes(w) = [i \in Offset |-> IF i < Left(w) THEN old[i]
                         ELSE IF i < Left(w) + Taken(w) THEN <<q.c, q.done + i - Left(w)>>
                         ELSE Nil]
    BY DEF NewBytes, NewData, f, n, q
  <2> HIDE DEF old
  <2>2. old \in [Offset -> Byte]
    BY <1>7 DEF old
  <2>3. ASSUME NEW i \in Offset, ~(i < Left(w)) PROVE <<q.c, q.done + i - Left(w)>> \in Byte
    <3>1. i \in Int /\ q.done + i - Left(w) \in Nat
      BY <1>1, <1>5, <2>3 DEF Offset
    <3> QED
      BY <1>5, <3>1 DEF Byte
  <2>4. Nil \in Byte
    BY DEF Nil, Byte
  <2> QED
    BY <2>1, <2>2, <2>3, <2>4
<1>9. pos + Taken(w) \in Nat
  BY <1>1, <1>6
<1>10. inode'.file_len = pos + Taken(w)
  <2>1. inode \in InodeType
    BY DEF TreeInv, Shape
  <2> QED
    BY <1>3, <2>1 DEF SetTop, InodeType
<1>11. \E r : Before(blocks, inode, blocks', inode', n, WriteNumbers(n), r, NewBytes(w))
  BY <1>3, <1>4, <1>8, <1>9, WriteEffect DEF TreeInv
<1> QED
  BY <1>1, <1>2, <1>3, <1>4, <1>6, <1>8, <1>10, <1>11 DEF n, pos, q

(* A call after a round. *)
Advance(q, a, t) == [q EXCEPT !.ki_pos = a, !.done = @ + t]

LEMMA CallAdvances ==
    ASSUME NEW q \in CallType, NEW a \in Nat, NEW t \in Nat
    PROVE  LET p == Advance(q, a, t)
           IN  /\ p \in CallType /\ p.ki_pos = a /\ p.done = q.done + t
               /\ p.c = q.c /\ p.start = q.start /\ p.len = q.len /\ p.append = q.append
<1> DEFINE e == q.done + t
<1>1. e \in Nat
  BY DEF CallType
<1> HIDE DEF e
<1>2. Advance(q, a, t) = [q EXCEPT !.ki_pos = a, !.done = e]
  BY DEF e, CallType, Advance
<1>3. LET p == [q EXCEPT !.ki_pos = a, !.done = e]
      IN  /\ p \in CallType /\ p.ki_pos = a /\ p.done = e
          /\ p.c = q.c /\ p.start = q.start /\ p.len = q.len /\ p.append = q.append
  BY <1>1 DEF CallType
<1> QED
  BY <1>2, <1>3 DEF e

LEMMA IdleType == Idle \in CallType
BY DEF Idle, CallType

(* The steps of Next but those of a bad buffer. *)
CleanNext ==
    \/ \E w \in Writers :
          \/ \E len \in Lens, a \in BOOLEAN : \E pos \in StartPositions(a) :
                hodo_file_write_iter(w, pos, len, a)
          \/ WriteOneBlock(w)
          \/ WriteFollowsStale(w)
          \/ WriteTooBig(w)
          \/ WriteReturn(w)
    \/ \E pos \in Positions, count \in Lens : hodo_file_read_iter(pos, count)
    \/ \E size \in Sizes : hodo_setattr(size)
    \/ hodo_sub_lookup

(* Every one of them keeps the tree. *)
LEMMA TreeStep ==
    ASSUME TreeInv, CleanNext
    PROVE  TreeInv'
<1>0. /\ Shape(blocks, inode) /\ i_size \in Nat /\ calls \in Nat
      /\ call \in [Writers -> CallType] /\ \A w \in Writers : call[w].done <= call[w].len
  BY DEF TreeInv
<1>1. ASSUME NEW w \in Writers, NEW len \in Lens, NEW a \in BOOLEAN,
             NEW pos \in StartPositions(a), hodo_file_write_iter(w, pos, len, a)
      PROVE  TreeInv'
  <2> DEFINE q == [c |-> calls + 1, ki_pos |-> pos, len |-> len,
                   start |-> IF a THEN inode.file_len ELSE pos, done |-> 0, append |-> a]
  <2>1. call' = [call EXCEPT ![w] = q] /\ calls' = calls + 1
        /\ UNCHANGED <<blocks, inode, i_size, fault, file>>
    BY <1>1 DEF hodo_file_write_iter
  <2>2. pos \in Nat /\ len \in Nat /\ inode.file_len \in Nat
    BY <1>0, FileAssumption DEF StartPositions, Positions, Shape, InodeType
  <2>3. q \in CallType /\ q.done <= q.len
    BY <1>0, <2>2 DEF CallType
  <2> HIDE DEF q
  <2>4. call' \in [Writers -> CallType] /\ \A v \in Writers : call'[v].done <= call'[v].len
    BY <1>0, <2>1, <2>3
  <2>5. Shape(blocks', inode') /\ i_size' \in Nat /\ calls' \in Nat
    BY <1>0, <2>1
  <2> QED
    BY <2>4, <2>5 DEF TreeInv
<1>2. ASSUME NEW w \in Writers, WriteOneBlock(w) PROVE TreeInv'
  <2>1. PICK r : Before(blocks, inode, blocks', inode', BlockNo(w),
                        WriteNumbers(BlockNo(w)), r, NewBytes(w))
    BY <1>2, WriteStep
  <2>2. Shape(blocks', inode')
    BY <2>1, EffectKeepsShape
  <2>3. /\ WritePos(w) \in Nat /\ Taken(w) \in Nat /\ call[w].done + Taken(w) <= call[w].len
        /\ i_size' = WritePos(w) + Taken(w) /\ calls' = calls
        /\ call' = [call EXCEPT ![w].ki_pos = WritePos(w) + Taken(w), ![w].done = @ + Taken(w)]
    BY <1>2, WriteStep
  <2>4. i_size' \in Nat /\ calls' \in Nat
    BY <1>0, <2>3
  <2>5. call' \in [Writers -> CallType] /\ \A v \in Writers : call'[v].done <= call'[v].len
    <3> DEFINE A == WritePos(w) + Taken(w)
               q == Advance(call[w], A, Taken(w))
    <3>1. call[w] \in CallType /\ A \in Nat /\ Taken(w) \in Nat
      BY <1>0, <2>3
    <3> HIDE DEF A
    <3>2. call' = [call EXCEPT ![w] = q]
      BY <1>0, <2>3 DEF A, Advance
    <3>3. q \in CallType /\ q.done = call[w].done + Taken(w) /\ q.len = call[w].len
      BY <3>1, CallAdvances
    <3> HIDE DEF q
    <3> QED
      BY <1>0, <2>3, <3>2, <3>3
  <2> QED
    BY <2>2, <2>4, <2>5 DEF TreeInv
<1>3. ASSUME NEW w \in Writers, WriteTooBig(w) \/ WriteReturn(w) PROVE TreeInv'
  <2>1. call' = [call EXCEPT ![w] = Idle] /\ UNCHANGED <<blocks, inode, i_size, calls>>
    BY <1>3 DEF WriteTooBig, WriteReturn
  <2>2. Idle.done <= Idle.len
    BY DEF Idle
  <2>3. call' \in [Writers -> CallType] /\ \A v \in Writers : call'[v].done <= call'[v].len
    BY <1>0, <2>1, <2>2, IdleType
  <2> QED
    BY <1>0, <2>1, <2>3 DEF TreeInv
<1>4. ASSUME UNCHANGED <<blocks, inode, i_size, call, calls>> PROVE TreeInv'
  BY <1>0, <1>4 DEF TreeInv
<1>5. ASSUME NEW w \in Writers, WriteFollowsStale(w) PROVE TreeInv'
  BY <1>4, <1>5 DEF WriteFollowsStale
<1>6. ASSUME NEW pos \in Positions, NEW count \in Lens, hodo_file_read_iter(pos, count) PROVE TreeInv'
  BY <1>4, <1>6 DEF hodo_file_read_iter
<1>7. ASSUME NEW size \in Sizes, hodo_setattr(size) PROVE TreeInv'
  <2>1. size \in Nat
    BY FileAssumption
  <2>2. i_size' = size /\ calls' = calls + 1 /\ UNCHANGED <<blocks, inode, call>>
    BY <1>7 DEF hodo_setattr
  <2> QED
    BY <1>0, <2>1, <2>2 DEF TreeInv
<1>8. ASSUME hodo_sub_lookup PROVE TreeInv'
  <2>1. i_size' = 0 /\ UNCHANGED <<blocks, inode, call, calls>>
    BY <1>8 DEF hodo_sub_lookup
  <2> QED
    BY <1>0, <2>1 DEF TreeInv
<1> QED
  BY <1>1, <1>2, <1>3, <1>5, <1>6, <1>7, <1>8 DEF CleanNext

(* A new file has no blocks. *)
LEMMA TreeInit ==
    ASSUME Init
    PROVE  TreeInv
<1>1. /\ blocks = [m \in Number |-> Unused]
      /\ inode = [file_len |-> 0, direct |-> [i \in 0 .. NDirect - 1 |-> 0],
                  indirect |-> [k \in 1 .. 3 |-> 0]]
      /\ i_size = 0 /\ call = [w \in Writers |-> Idle] /\ calls = 0
  BY DEF Init
<1>2. \A m \in Number : blocks[m] = Unused
  BY <1>1
<1>3. Unused.magic = -1 /\ IsBlock(Unused)
  BY DEF Unused, IsBlock
<1>4. blocks = [m \in Number |-> blocks[m]] /\ \A m \in Number : IsBlock(blocks[m])
  BY <1>1, <1>2, <1>3
<1>5. inode \in InodeType
  BY <1>1 DEF InodeType, Pointer
<1>6. ASSUME NEW x, NEW i, IsPlace(blocks, x, i) PROVE Value(blocks, inode, x, i) = 0
  <2>1. ~(x \in Number /\ blocks[x].magic > 0)
    BY <1>2, <1>3
  <2> QED
    BY <1>1, <1>6, <2>1 DEF IsPlace, Value
<1>7. Typed(blocks, inode) /\ Unshared(blocks, inode)
  BY <1>6 DEF Typed, Unshared
<1>8. Hung(blocks, inode)
  BY <1>2, <1>3 DEF Hung
<1>9. call \in [Writers -> CallType] /\ \A w \in Writers : call[w].done <= call[w].len
  <2>1. Idle.done <= Idle.len
    BY DEF Idle
  <2> QED
    BY <1>1, <2>1, IdleType
<1> QED
  BY <1>1, <1>4, <1>5, <1>7, <1>8, <1>9 DEF TreeInv, Shape

--------------------------------------------------------------------------------
(* The tree that Below and Tree collect *)

(* The equation of Below: s[j] has the blocks j levels under number m. *)
Under(x) == (UNION {{blocks[y].data[i] : i \in Slot} : y \in x}) \ {0}

IsSub(s, m, k) == s = [j \in 0 .. k |-> IF j = 0 THEN {m} \ {0} ELSE Under(s[j - 1])]

SubOf(m, k) == CHOOSE s : IsSub(s, m, k)

LEMMA SubAt ==
    ASSUME NEW m, NEW k \in 0 .. 3
    PROVE  /\ SubOf(m, k)[0] = {m} \ {0}
           /\ \A j \in 1 .. k : SubOf(m, k)[j] = Under(SubOf(m, k)[j - 1])
           /\ Below(m, k) = UNION {{<<x, k - j>> : x \in SubOf(m, k)[j]} : j \in 0 .. k}
<1> DEFINE s0 == {m} \ {0}
           s1 == Under(s0)
           s2 == Under(s1)
           s3 == Under(s2)
           g == [j \in 0 .. k |-> IF j = 0 THEN s0 ELSE IF j = 1 THEN s1
                                  ELSE IF j = 2 THEN s2 ELSE s3]
<1>1. \A j \in 0 .. k : j = 0 \/ j = 1 \/ j = 2 \/ j = 3
  OBVIOUS
<1> HIDE DEF s0
<1>2. ASSUME NEW j \in 0 .. k PROVE g[j] = IF j = 0 THEN s0 ELSE Under(g[j - 1])
  <2>1. CASE j = 0
    BY <2>1
  <2>2. CASE j = 1
    <3>1. j - 1 = 0 /\ j # 0 /\ 0 \in 0 .. k
      BY <2>2
    <3>2. g[j] = s1 /\ g[j - 1] = s0
      BY <2>2, <3>1
    <3> HIDE DEF g
    <3> QED
      BY <3>1, <3>2
  <2>3. CASE j = 2
    <3>1. j - 1 = 1 /\ j # 0 /\ j # 1 /\ 1 \in 0 .. k
      BY <2>3
    <3> HIDE DEF s1
    <3>2. g[j] = s2 /\ g[j - 1] = s1
      BY <2>3, <3>1
    <3> HIDE DEF g
    <3> QED
      BY <3>1, <3>2
  <2>4. CASE j = 3
    <3>1. j - 1 = 2 /\ j # 0 /\ j # 1 /\ j # 2 /\ 2 \in 0 .. k
      BY <2>4
    <3> HIDE DEF s1, s2
    <3>2. g[j] = s3 /\ g[j - 1] = s2
      BY <2>4, <3>1
    <3> HIDE DEF g
    <3> QED
      BY <3>1, <3>2
  <2> HIDE DEF g
  <2> QED
    BY <1>1, <2>1, <2>2, <2>3, <2>4
<1>3. g = [j \in 0 .. k |-> g[j]]
  OBVIOUS
<1> HIDE DEF g
<1>4. g = [j \in 0 .. k |-> IF j = 0 THEN s0 ELSE Under(g[j - 1])]
  BY <1>2, <1>3
<1>5. IsSub(g, m, k)
  BY <1>4 DEF IsSub, s0
<1> DEFINE s == SubOf(m, k)
<1>6. IsSub(s, m, k)
  BY <1>5 DEF SubOf
<1>7. Below(m, k) = UNION {{<<x, k - j>> : x \in s[j]} : j \in 0 .. k}
  BY DEF Below, SubOf, IsSub, Under
<1> HIDE DEF s
<1>8. s = [j \in 0 .. k |-> IF j = 0 THEN s0 ELSE Under(s[j - 1])]
  BY <1>6 DEF IsSub, s0
<1>9. \A j \in 0 .. k : s[j] = IF j = 0 THEN s0 ELSE Under(s[j - 1])
  BY <1>8
<1>10. s[0] = s0 /\ \A j \in 1 .. k : s[j] = Under(s[j - 1])
  <2>1. 0 \in 0 .. k /\ \A j \in 1 .. k : j \in 0 .. k /\ j # 0
    OBVIOUS
  <2> QED
    BY <1>9, <2>1
<1> QED
  BY <1>7, <1>10 DEF s, s0

(* Every block under a pointer of level k has the level its depth asks for. *)
LEMMA SubLevels ==
    ASSUME Shape(blocks, inode), NEW m \in Pointer, NEW k \in 0 .. 3,
           m # 0 => blocks[m].magic = k
    PROVE  \A j \in 0 .. k : \A x \in SubOf(m, k)[j] : x \in Number /\ blocks[x].magic = k - j
<1> DEFINE s == SubOf(m, k)
           S == {j \in 0 .. k : \A x \in s[j] : x \in Number /\ blocks[x].magic = k - j}
<1>1. s[0] = {m} \ {0} /\ \A j \in 1 .. k : s[j] = Under(s[j - 1])
  BY SubAt
<1> HIDE DEF s
<1>2. 0 \in S
  BY <1>1 DEF Pointer
<1>3. ASSUME NEW j \in 0 .. k, j > 0, j - 1 \in S PROVE j \in S
  <2> SUFFICES ASSUME NEW x \in s[j] PROVE x \in Number /\ blocks[x].magic = k - j
    OBVIOUS
  <2>1. j \in 1 .. k /\ j - 1 \in 0 .. k /\ k - (j - 1) > 0
    BY <1>3
  <2>2. PICK y \in s[j - 1], i \in Slot : x = blocks[y].data[i] /\ x # 0
    BY <1>1, <2>1 DEF Under
  <2>3. y \in Number /\ blocks[y].magic = k - (j - 1)
    BY <1>3, <2>1, <2>2
  <2>4. y # 0 /\ y # -1
    BY <2>3, Constants
  <2>5. IsPlace(blocks, y, i) /\ Value(blocks, inode, y, i) = x
        /\ LevelAt(blocks, y, i) = blocks[y].magic - 1
    BY <2>1, <2>2, <2>3, <2>4 DEF IsPlace, Value, LevelAt
  <2>6. x \in Number
    BY <2>2, <2>5, PlaceType DEF Pointer
  <2>7. blocks[x].magic = blocks[y].magic - 1
    BY <2>2, <2>5 DEF Shape, Typed
  <2> QED
    BY <2>1, <2>3, <2>6, <2>7
<1> HIDE DEF S
<1>4. \A j \in 0 .. k : j \in S
  BY <1>2, <1>3, UpLevels
<1> QED
  BY <1>4 DEF S, s

(* The pointers of the inode lead to blocks of their level. *)
LEMMA HeadLevels ==
    ASSUME Shape(blocks, inode)
    PROVE  /\ \A i \in 0 .. NDirect - 1 :
                 inode.direct[i] \in Pointer
                 /\ (inode.direct[i] # 0 => blocks[inode.direct[i]].magic = 0)
           /\ \A k \in 1 .. 3 :
                 inode.indirect[k] \in Pointer
                 /\ (inode.indirect[k] # 0 => blocks[inode.indirect[k]].magic = k)
<1>1. ASSUME NEW i \in 0 .. NDirect - 1
      PROVE  inode.direct[i] \in Pointer
             /\ (inode.direct[i] # 0 => blocks[inode.direct[i]].magic = 0)
  <2>1. IsPlace(blocks, 0, i) /\ Value(blocks, inode, 0, i) = inode.direct[i]
        /\ LevelAt(blocks, 0, i) = 0
    BY DEF IsPlace, Value, LevelAt
  <2> QED
    BY <2>1, PlaceType DEF Shape, Typed
<1>2. ASSUME NEW k \in 1 .. 3
      PROVE  inode.indirect[k] \in Pointer
             /\ (inode.indirect[k] # 0 => blocks[inode.indirect[k]].magic = k)
  <2>1. IsPlace(blocks, -1, k) /\ Value(blocks, inode, -1, k) = inode.indirect[k]
        /\ LevelAt(blocks, -1, k) = k
    BY DEF IsPlace, Value, LevelAt
  <2> QED
    BY <2>1, PlaceType DEF Shape, Typed
<1> QED
  BY <1>1, <1>2

LEMMA TreeDown ==
    ASSUME Shape(blocks, inode), NEW t \in Tree
    PROVE  t[1] \in Number /\ blocks[t[1]].magic = t[2] /\ t[2] \in 0 .. 3
<1>1. ASSUME NEW m, NEW k \in 0 .. 3, m \in Pointer, m # 0 => blocks[m].magic = k,
             t \in Below(m, k)
      PROVE  t[1] \in Number /\ blocks[t[1]].magic = t[2] /\ t[2] \in 0 .. 3
  <2>1. PICK j \in 0 .. k : t \in {<<x, k - j>> : x \in SubOf(m, k)[j]}
    BY <1>1, SubAt
  <2>2. PICK x \in SubOf(m, k)[j] : t = <<x, k - j>>
    BY <2>1
  <2>3. x \in Number /\ blocks[x].magic = k - j
    BY <1>1, <2>2, SubLevels
  <2>4. k - j \in 0 .. 3
    BY <2>1
  <2> QED
    BY <2>2, <2>3, <2>4
<1>2. CASE \E i \in 0 .. NDirect - 1 : t \in Below(inode.direct[i], 0)
  BY <1>1, <1>2, HeadLevels
<1>3. CASE \E k \in 1 .. 3 : t \in Below(inode.indirect[k], k)
  <2>1. PICK k \in 1 .. 3 : t \in Below(inode.indirect[k], k)
    BY <1>3
  <2>2. k \in 0 .. 3
    OBVIOUS
  <2> QED
    BY <1>1, <2>1, <2>2, HeadLevels
<1> QED
  BY <1>2, <1>3 DEF Tree

(* Every block in use is in the tree. *)
LEMMA TreeUp ==
    ASSUME Shape(blocks, inode), NEW m \in Number, blocks[m].magic # -1
    PROVE  <<m, blocks[m].magic>> \in Tree
<1> DEFINE Low(x, l) == \E i \in 0 .. NDirect - 1 : l = 0 /\ x = inode.direct[i] /\ x # 0
           High(x, l) == \E k \in 1 .. 3 : l <= k /\ x \in SubOf(inode.indirect[k], k)[k - l]
           S == {l \in 0 .. 3 : \A x \in Number : blocks[x].magic = l => Low(x, l) \/ High(x, l)}
<1>1. ASSUME NEW l \in 0 .. 3, l < 3 => l + 1 \in S PROVE l \in S
  <2> SUFFICES ASSUME NEW x \in Number, blocks[x].magic = l PROVE Low(x, l) \/ High(x, l)
    OBVIOUS
  <2>1. x # 0 /\ l # -1
    BY Constants
  <2>2. PICK y, i : IsPlace(blocks, y, i) /\ Value(blocks, inode, y, i) = x
    BY <2>1 DEF Shape, Hung
  <2>3. LevelAt(blocks, y, i) = l
    BY <2>1, <2>2 DEF Shape, Typed
  <2>4. CASE y = 0 /\ i \in 0 .. NDirect - 1
    BY <2>1, <2>2, <2>3, <2>4 DEF Value, LevelAt
  <2>5. CASE y = -1 /\ i \in 1 .. 3
    <3>1. x = inode.indirect[i] /\ l = i
      BY <2>2, <2>3, <2>5 DEF Value, LevelAt
    <3>2. i \in 0 .. 3 /\ i - l = 0 /\ l <= i
      BY <2>5, <3>1
    <3>3. SubOf(inode.indirect[i], i)[0] = {x} \ {0}
      BY <3>1, <3>2, SubAt
    <3>4. x \in SubOf(inode.indirect[i], i)[i - l]
      BY <2>1, <3>2, <3>3
    <3> QED
      BY <2>5, <3>2, <3>4
  <2>6. CASE y \in Number /\ i \in Slot /\ blocks[y].magic > 0
    <3>1. y # 0 /\ y # -1
      BY <2>6, Constants
    <3>2. blocks[y].magic - 1 = l /\ x = blocks[y].data[i]
      BY <2>2, <2>3, <3>1 DEF LevelAt, Value
    <3>3. blocks[y].magic \in -1 .. 3
      BY <2>6 DEF Shape, IsBlock
    <3>4. blocks[y].magic = l + 1 /\ l < 3 /\ l + 1 # 0
      BY <3>2, <3>3
    <3>5. l + 1 \in S
      BY <1>1, <3>4
    <3>6. Low(y, l + 1) \/ High(y, l + 1)
      BY <2>6, <3>4, <3>5
    <3> HIDE DEF S
    <3>7. PICK k \in 1 .. 3 : l + 1 <= k /\ y \in SubOf(inode.indirect[k], k)[k - (l + 1)]
      BY <3>4, <3>6
    <3>8. k \in 0 .. 3 /\ k - l \in 1 .. k /\ (k - l) - 1 = k - (l + 1) /\ l <= k
      BY <3>7
    <3>9. SubOf(inode.indirect[k], k)[k - l] = Under(SubOf(inode.indirect[k], k)[(k - l) - 1])
      BY <3>8, SubAt
    <3>10. x \in Under(SubOf(inode.indirect[k], k)[(k - l) - 1])
      BY <2>1, <2>6, <3>2, <3>7, <3>8 DEF Under
    <3> QED
      BY <3>8, <3>9, <3>10
  <2> QED
    BY <2>2, <2>4, <2>5, <2>6 DEF IsPlace
<1> HIDE DEF S
<1>2. \A l \in 0 .. 3 : l \in S
  <2>1. 3 \in S
    BY <1>1
  <2>2. ASSUME NEW l \in 0 .. 3, l < 3, l + 1 \in S PROVE l \in S
    BY <1>1, <2>2
  <2> QED
    BY <2>1, <2>2, DownLevels
<1> DEFINE l == blocks[m].magic
<1>3. l \in 0 .. 3
  <2>1. l \in -1 .. 3
    BY DEF Shape, IsBlock
  <2> QED
    BY <2>1
<1>4. Low(m, l) \/ High(m, l)
  BY <1>2, <1>3 DEF S
<1>5. CASE Low(m, l)
  <2>1. PICK i \in 0 .. NDirect - 1 : l = 0 /\ m = inode.direct[i] /\ m # 0
    BY <1>5
  <2>2. SubOf(m, 0)[0] = {m} \ {0} /\ 0 - 0 = 0 /\ 0 \in 0 .. 0
        /\ Below(m, 0) = UNION {{<<x, 0 - j>> : x \in SubOf(m, 0)[j]} : j \in 0 .. 0}
    BY SubAt
  <2>3. m \in SubOf(m, 0)[0]
    BY <2>1, <2>2
  <2>4. <<m, 0 - 0>> \in Below(m, 0)
    BY <2>2, <2>3
  <2>5. <<m, 0>> \in Below(inode.direct[i], 0)
    BY <2>1, <2>2, <2>4
  <2>6. <<m, 0>> \in Tree
    BY <2>5 DEF Tree
  <2> QED
    BY <2>1, <2>6
<1>6. CASE High(m, l)
  <2>1. PICK k \in 1 .. 3 : l <= k /\ m \in SubOf(inode.indirect[k], k)[k - l]
    BY <1>6
  <2>2. k \in 0 .. 3 /\ k - l \in 0 .. k /\ k - (k - l) = l
    BY <1>3, <2>1
  <2> HIDE DEF l
  <2>3. Below(inode.indirect[k], k)
          = UNION {{<<x, k - j>> : x \in SubOf(inode.indirect[k], k)[j]} : j \in 0 .. k}
    BY <2>2, SubAt
  <2>4. <<m, k - (k - l)>> \in Below(inode.indirect[k], k)
    BY <2>1, <2>2, <2>3
  <2>5. <<m, l>> \in Below(inode.indirect[k], k)
    BY <2>2, <2>4
  <2> QED
    BY <2>1, <2>5 DEF Tree, l
<1> QED
  BY <1>4, <1>5, <1>6

(* A number in use is in one place. *)
LEMMA OnePlace ==
    ASSUME Shape(blocks, inode), NEW m \in Number, blocks[m].magic # -1
    PROVE  Cardinality(Places(m)) = 1
<1>0. m # 0
  BY Constants
<1>1. PICK x, i : IsPlace(blocks, x, i) /\ Value(blocks, inode, x, i) = m
  BY DEF Shape, Hung
<1>2. ASSUME NEW p \in Places(m)
      PROVE  p = <<x, i>>
  <2>1. PICK y, j : p = <<y, j>> /\ IsPlace(blocks, y, j) /\ Value(blocks, inode, y, j) = m
    <3>1. CASE p \in {<<0, j>> : j \in {l \in 0 .. NDirect - 1 : inode.direct[l] = m}}
      <4>1. PICK j \in 0 .. NDirect - 1 : inode.direct[j] = m /\ p = <<0, j>>
        BY <3>1
      <4>2. IsPlace(blocks, 0, j) /\ Value(blocks, inode, 0, j) = m
        BY <4>1 DEF IsPlace, Value
      <4> QED
        BY <4>1, <4>2
    <3>2. CASE p \in {<<-1, k>> : k \in {j \in 1 .. 3 : inode.indirect[j] = m}}
      <4>1. PICK k \in 1 .. 3 : inode.indirect[k] = m /\ p = <<-1, k>>
        BY <3>2
      <4>2. IsPlace(blocks, -1, k) /\ Value(blocks, inode, -1, k) = m
        BY <4>1 DEF IsPlace, Value
      <4> QED
        BY <4>1, <4>2
    <3>3. CASE p \in Number \X Slot /\ blocks[p[1]].magic > 0 /\ blocks[p[1]].data[p[2]] = m
      <4>1. p = <<p[1], p[2]>> /\ p[1] \in Number /\ p[2] \in Slot
        BY <3>3
      <4>2. p[1] # 0 /\ p[1] # -1
        BY <4>1, Constants
      <4>3. IsPlace(blocks, p[1], p[2]) /\ Value(blocks, inode, p[1], p[2]) = m
        BY <3>3, <4>1, <4>2 DEF IsPlace, Value
      <4> QED
        BY <4>1, <4>3
    <3> QED
      BY <3>1, <3>2, <3>3 DEF Places
  <2> QED
    BY <1>0, <1>1, <2>1 DEF Shape, Unshared
<1>3. <<x, i>> \in Places(m)
  <2>1. CASE x = 0 /\ i \in 0 .. NDirect - 1
    BY <1>1, <2>1 DEF Value, Places
  <2>2. CASE x = -1 /\ i \in 1 .. 3
    BY <1>1, <2>2 DEF Value, Places
  <2>3. CASE x \in Number /\ i \in Slot /\ blocks[x].magic > 0
    <3>1. x # 0 /\ x # -1
      BY <2>3, Constants
    <3>2. blocks[x].data[i] = m
      BY <1>1, <3>1 DEF Value
    <3>3. <<x, i>> \in Number \X Slot /\ <<x, i>>[1] = x /\ <<x, i>>[2] = i
      BY <2>3
    <3> QED
      BY <2>3, <3>2, <3>3 DEF Places
  <2> QED
    BY <1>1, <2>1, <2>2, <2>3 DEF IsPlace
<1>4. Places(m) = {<<x, i>>}
  BY <1>2, <1>3
<1> QED
  BY <1>4, FS_Singleton

LEMMA TreeSound ==
    ASSUME Shape(blocks, inode)
    PROVE  LevelsMatch /\ NoLeak
<1>1. LevelsMatch
  BY TreeDown DEF LevelsMatch
<1>2. ASSUME NEW m \in Number PROVE blocks[m] = Unused <=> blocks[m].magic = -1
  BY DEF Shape, IsBlock, Unused
<1>3. ASSUME NEW t \in Tree PROVE t[1] \in Number /\ blocks[t[1]].magic # -1
  <2>1. t[1] \in Number /\ blocks[t[1]].magic = t[2] /\ t[2] \in 0 .. 3
    BY TreeDown
  <2> QED
    BY <2>1
<1>4. \A t \in Tree : Cardinality(Places(t[1])) = 1
  BY <1>3, OnePlace
<1>5. {t[1] : t \in Tree} = Number \ Free(blocks)
  <2>1. ASSUME NEW t \in Tree PROVE t[1] \in Number \ Free(blocks)
    BY <1>2, <1>3 DEF Free
  <2>2. ASSUME NEW m \in Number \ Free(blocks) PROVE \E t \in Tree : m = t[1]
    <3>1. blocks[m].magic # -1
      BY <1>2 DEF Free
    <3>2. <<m, blocks[m].magic>> \in Tree
      BY <3>1, TreeUp
    <3> QED
      BY <3>2
  <2> QED
    BY <2>1, <2>2
<1> QED
  BY <1>1, <1>4, <1>5 DEF NoLeak

(* The tree survives every sequence of write calls, with reads and         *)
(* truncations between two rounds of a call and evictions between calls,   *)
(* as long as copying from a caller's buffer does not fail                 *)
(* (trans.c:286-623, hodo.c:796-844).                                      *)
THEOREM TreeInductive ==
    ASSUME BadBuffers = FALSE
    PROVE  Spec => []TreeInv
<1>1. Init => TreeInv
  BY TreeInit
<1>2. TreeInv /\ [Next]_vars => TreeInv'
  <2> SUFFICES ASSUME TreeInv, [Next]_vars PROVE TreeInv'
    OBVIOUS
  <2>1. CASE Next
    <3>1. \A w \in Writers : ~WriteFaults(w)
      BY DEF WriteFaults
    <3>2. CleanNext
      BY <2>1, <3>1 DEF Next, CleanNext
    <3> QED
      BY <3>2, TreeStep
  <2>2. CASE UNCHANGED vars
    BY <2>2 DEF vars, TreeInv, Shape
  <2> QED
    BY <2>1, <2>2
<1> QED
  BY <1>1, <1>2, PTL DEF Spec

(* Under the same condition every pointer leads to a block of the level it *)
(* asks for, at every step: no write comes to the -EIO returns of          *)
(* write_one_block_by_indirect_block (trans.c:494-623).                    *)
THEOREM PointersHaveLevels ==
    ASSUME BadBuffers = FALSE
    PROVE  Spec => []LevelsMatch
<1>1. TreeInv => LevelsMatch
  BY TreeSound DEF TreeInv
<1> QED
  BY <1>1, TreeInductive, PTL

(* No number is leaked or given to two places, at every step.              *)
THEOREM NoNumberLeaks ==
    ASSUME BadBuffers = FALSE
    PROVE  Spec => []NoLeak
<1>1. TreeInv => NoLeak
  BY TreeSound DEF TreeInv
<1> QED
  BY <1>1, TreeInductive, PTL

(* A reader comes to the block that a writer would replace, in every state *)
(* and with failing buffers too: hodo_read_nth_block and                   *)
(* write_one_block_by_indirect_block walk the same tree (trans.c:207-284). *)
THEOREM ReadersComeToBlocks == Spec => []ReadersFindBlocks
<1>1. ReadersFindBlocks
  BY ReaderFinds DEF ReadersFindBlocks, FileBlock
<1> QED
  BY <1>1, PTL

--------------------------------------------------------------------------------
(* The bytes of the file *)

(* Byte i of the file is there and is v. *)
Holds(b, ino, i, v) ==
    /\ i \div DataSize \in FileBlock
    /\ \E f : /\ IsWalk(f, i \div DataSize, b, ino)
              /\ f[0] # 0 /\ b[f[0]].data[i % DataSize] = v

LEMMA HoldsNow ==
    ASSUME NEW i \in Nat, NEW v, Holds(blocks, inode, i, v)
    PROVE  LET n == i \div DataSize
           IN  /\ n \in FileBlock /\ WriteNumbers(n)[0] # 0
               /\ blocks[WriteNumbers(n)[0]].data[i % DataSize] = v
<1> DEFINE n == i \div DataSize
<1>1. n \in FileBlock
  BY DEF Holds
<1>2. PICK f : IsWalk(f, n, blocks, inode) /\ f[0] # 0 /\ blocks[f[0]].data[i % DataSize] = v
  BY DEF Holds
<1> HIDE DEF n
<1>3. 0 \in 0 .. Level(n)
  BY <1>1, LevelRange
<1>4. f[0] = WriteNumbers(n)[0]
  BY <1>1, <1>2, <1>3, WalkNow, WalkUnique
<1> QED
  BY <1>1, <1>2, <1>4 DEF n

(* The blocks beside the one that is written keep their bytes. *)
LEMMA HoldsElsewhere ==
    ASSUME NEW b, NEW ino, NEW c, NEW jno, NEW n, NEW f, NEW r, NEW d,
           Before(b, ino, c, jno, n, f, r, d),
           NEW i \in Nat, NEW v, Holds(b, ino, i, v), i \div DataSize # n
    PROVE  Holds(c, jno, i, v)
<1> DEFINE p == i \div DataSize
           o == i % DataSize
<1>1. p \in FileBlock /\ p # n /\ 0 \in 0 .. Level(p) /\ Level(p) \in 0 .. 3
  BY LevelRange DEF Holds
<1>2. PICK h : IsWalk(h, p, b, ino) /\ h[0] # 0 /\ b[h[0]].data[o] = v
  BY DEF Holds
<1> HIDE DEF p, o
<1>3. PICK g : IsWalk(g, p, c, jno)
  BY <1>1, WalkExists
<1>4. g[0] = h[0]
  BY <1>1, <1>2, <1>3, WalksStay
<1>5. h[0] \in Number /\ b[h[0]].magic = 0
  BY <1>1, <1>2, WalkTyped DEF Before, Pointer
<1>6. ASSUME NEW k \in 0 .. Level(n), h[0] = r[k] PROVE FALSE
  <2>1. f[k] = r[k] /\ (f[k] # 0 => b[f[k]].magic = k)
    BY <1>5, <1>6, EffectFacts
  <2>2. k = 0
    BY <1>2, <1>5, <1>6, <2>1
  <2>3. n \in FileBlock /\ IsWalk(f, n, b, ino) /\ Shape(b, ino)
    BY DEF Before
  <2>4. n = p
    BY <1>1, <1>2, <1>6, <2>1, <2>2, <2>3, NumbersApart
  <2> QED
    BY <1>1, <2>4
<1>7. c[h[0]] = b[h[0]]
  BY <1>5, <1>6 DEF Before, Effect
<1> QED
  BY <1>1, <1>2, <1>3, <1>4, <1>7 DEF Holds, p, o

(* The block that is written has its new content. *)
LEMMA HoldsHere ==
    ASSUME NEW b, NEW ino, NEW c, NEW jno, NEW n, NEW f, NEW r, NEW d,
           Before(b, ino, c, jno, n, f, r, d),
           NEW i \in Nat, i \div DataSize = n
    PROVE  Holds(c, jno, i, d[i % DataSize])
<1>1. n \in FileBlock /\ 0 \in 0 .. Level(n)
  BY EffectFacts, LevelRange
<1>2. PICK g : IsWalk(g, n, c, jno)
  BY <1>1, WalkExists
<1>3. g[0] = r[0] /\ r[0] \in Number
  BY <1>1, <1>2, WalkAfter, EffectFacts
<1>4. g[0] # 0
  BY <1>3, Constants
<1>5. c[g[0]].data = d
  BY <1>3 DEF Before, Effect
<1> QED
  BY <1>1, <1>2, <1>4, <1>5 DEF Holds

(* While call q is under way on file f: the length, and the byte wanted at *)
(* i.                                                                      *)
LenIn(f, q) == IF q.done > 0 THEN q.start + q.done ELSE Len(f)

WantIn(f, q, i) == IF q.done > 0 /\ i >= q.start THEN <<q.c, i - q.start>> ELSE f[i + 1]

DataOK(b, ino, f, q) ==
    /\ ino.file_len = LenIn(f, q)
    /\ \A i \in 0 .. LenIn(f, q) - 1 : Holds(b, ino, i, WantIn(f, q, i))

CallOK(f, q) == q.c > 0 /\ q.start <= Len(f) /\ Len(f) <= q.start + q.len

(* The inductive invariant of the envelope. *)
FileInv ==
    /\ TreeInv
    /\ file \in Seq(Byte) /\ Len(file) <= Base(4) * DataSize
    /\ fault = FALSE
    /\ \A v, w \in Writers : InCall(v) /\ InCall(w) => v = w
    /\ Quiet => DataOK(blocks, inode, file, Idle)
    /\ \A w \in Writers : InCall(w) =>
          /\ DataOK(blocks, inode, file, call[w]) /\ CallOK(file, call[w])
          /\ WritePos(w) = call[w].start + call[w].done

(* A call that has not written yet leaves the file as it was. *)
LEMMA DataRest ==
    ASSUME NEW b, NEW ino, NEW f, NEW q, q.done = 0
    PROVE  DataOK(b, ino, f, q) <=> DataOK(b, ino, f, Idle)
<1>1. Idle.done = 0
  BY DEF Idle
<1>2. LenIn(f, q) = Len(f) /\ LenIn(f, Idle) = Len(f)
  BY <1>1 DEF LenIn
<1>3. \A i : WantIn(f, q, i) = f[i + 1] /\ WantIn(f, Idle, i) = f[i + 1]
  BY <1>1 DEF WantIn
<1> QED
  BY <1>2, <1>3 DEF DataOK

LEMMA BlockOrder ==
    ASSUME NEW a \in Nat, NEW b \in Nat, a < b
    PROVE  /\ DataSize * a + DataSize <= DataSize * b
           /\ DataSize * a \in Nat /\ DataSize * b \in Nat
<1>0. DataSize \in Nat \ {0}
  BY Constants
<1> DEFINE t == b - a - 1
<1>1. t \in Nat /\ b = a + 1 + t
  OBVIOUS
<1> HIDE DEF t
<1>2. DataSize * t \in Nat /\ DataSize * a \in Nat
  BY <1>0, <1>1
<1>3. DataSize * b = DataSize * a + DataSize + DataSize * t
  BY <1>0, <1>1
<1> QED
  BY <1>0, <1>2, <1>3

(* A round of a write keeps the bytes before it and adds its own. *)
LEMMA DataStep ==
    ASSUME FileInv, NEW w \in Writers, WriteOneBlock(w)
    PROVE  DataOK(blocks', inode', file, Advance(call[w], WritePos(w) + Taken(w), Taken(w)))
<1> DEFINE q == call[w]
           pos == WritePos(w)
           t == Taken(w)
           n == BlockNo(w)
           left == Left(w)
           p == Advance(q, pos + t, t)
           d == NewBytes(w)
           base == DataSize * n
<1>0. TreeInv /\ InCall(w) /\ q \in CallType
  BY WriteStep DEF FileInv, TreeInv
<1>1. /\ n \in FileBlock /\ n \in Nat /\ left \in Offset /\ pos \in Nat
      /\ pos = DataSize * n + left
      /\ t \in Nat /\ t > 0 /\ left + t <= DataSize
      /\ d \in [Offset -> Byte]
      /\ inode'.file_len = pos + t
  BY <1>0, WriteStep
<1>2. PICK r : Before(blocks, inode, blocks', inode', n, WriteNumbers(n), r, d)
  BY <1>0, WriteStep
<1>3. DataOK(blocks, inode, file, q) /\ CallOK(file, q) /\ pos = q.start + q.done
  BY <1>0 DEF FileInv
<1>4. /\ q.c \in Nat /\ q.start \in Nat /\ q.done \in Nat /\ q.len \in Nat
      /\ file \in Seq(Byte) /\ Len(file) \in Nat /\ q.start <= Len(file)
      /\ DataSize \in Nat /\ base \in Nat /\ left \in Nat
  <2>1. file \in Seq(Byte)
    BY DEF FileInv
  <2>2. Len(file) \in Nat
    BY <2>1
  <2>3. base \in Nat /\ left \in Nat
    BY <1>1, Constants DEF Offset
  <2> QED
    BY <1>0, <1>3, <2>1, <2>2, <2>3, Constants DEF CallType, CallOK
<1>5. p.done = q.done + t /\ p.c = q.c /\ p.start = q.start /\ p.done > 0
  <2> DEFINE z == pos + t
  <2> HIDE DEF q, t, pos
  <2>1. z \in Nat /\ t \in Nat /\ t > 0 /\ q \in CallType /\ q.done \in Nat
    <3>1. pos \in Nat /\ t \in Nat /\ t > 0
      BY <1>1
    <3> QED
      BY <1>0, <1>4, <3>1
  <2> HIDE DEF z
  <2>2. p.done = q.done + t /\ p.c = q.c /\ p.start = q.start
    BY <2>1, CallAdvances DEF z
  <2> HIDE DEF p
  <2> QED
    BY <2>1, <2>2
<1>6. d = [i \in Offset |-> IF i < left THEN BlockAt(WriteNumbers(n), 0).data[i]
                            ELSE IF i < left + t THEN <<q.c, q.done + i - left>> ELSE Nil]
  BY DEF NewBytes, NewData
<1>a. /\ pos = base + left /\ pos = q.start + q.done /\ t > 0 /\ left + t <= DataSize
      /\ pos \in Nat /\ base \in Nat /\ left \in Nat /\ t \in Nat /\ DataSize \in Nat
      /\ q.start \in Nat /\ q.done \in Nat
  BY <1>1, <1>3, <1>4
<1> HIDE DEF q, pos, t, n, left, p, d, base
<1>7. LenIn(file, p) = pos + t
  <2>1. p.start + p.done = pos + t
    BY <1>a, <1>5
  <2> QED
    BY <1>5, <2>1 DEF LenIn
(* what was wanted before the round is still wanted *)
<1>8. ASSUME NEW i \in Nat, i < pos
      PROVE  Holds(blocks, inode, i, WantIn(file, q, i)) /\ WantIn(file, p, i) = WantIn(file, q, i)
  <2>1. CASE q.done > 0
    <3>1. LenIn(file, q) = q.start + q.done
      BY <2>1 DEF LenIn
    <3>2. i \in 0 .. LenIn(file, q) - 1
      BY <1>a, <1>8, <3>1
    <3>3. WantIn(file, p, i) = WantIn(file, q, i)
      BY <1>5, <2>1 DEF WantIn
    <3> QED
      BY <1>3, <3>2, <3>3 DEF DataOK
  <2>2. CASE ~(q.done > 0)
    <3>1. q.done = 0 /\ i < q.start /\ ~(i >= q.start)
      BY <1>a, <1>8, <2>2
    <3>2. LenIn(file, q) = Len(file)
      BY <2>2 DEF LenIn
    <3>3. i \in 0 .. LenIn(file, q) - 1
      BY <1>4, <3>1, <3>2
    <3>4. WantIn(file, p, i) = WantIn(file, q, i)
      BY <1>5, <3>1 DEF WantIn
    <3> QED
      BY <1>3, <3>3, <3>4 DEF DataOK
  <2> QED
    BY <2>1, <2>2
<1>9. ASSUME NEW i \in 0 .. (pos + t) - 1
      PROVE  Holds(blocks', inode', i, WantIn(file, p, i))
  <2> DEFINE a == i \div DataSize
             o == i % DataSize
             x == DataSize * a
  <2>0. i \in Nat /\ i < pos + t
    BY <1>a
  <2>1. a \in Nat /\ o \in Offset /\ i = x + o
    BY <2>0, Split
  <2>2. o \in Nat /\ o < DataSize /\ x \in Nat
    <3> HIDE DEF a, o
    <3> QED
      BY <2>1, <1>a DEF Offset
  <2>3. CASE a # n
    <3>1. ~(a > n)
      <4> SUFFICES ASSUME a > n PROVE FALSE
        OBVIOUS
      <4> HIDE DEF a, o
      <4>1. base + DataSize <= x
        BY <1>1, <2>1, BlockOrder DEF base
      <4> HIDE DEF x
      <4> QED
        BY <1>a, <2>0, <2>1, <2>2, <4>1
    <3>2. i < pos
      <4> HIDE DEF a, o
      <4>1. a < n
        BY <1>1, <2>1, <2>3, <3>1
      <4>2. x + DataSize <= base
        BY <1>1, <2>1, <4>1, BlockOrder DEF base
      <4> HIDE DEF x
      <4> QED
        BY <1>a, <2>0, <2>1, <2>2, <4>2
    <3>3. Holds(blocks, inode, i, WantIn(file, p, i))
      BY <1>8, <2>0, <3>2
    <3> QED
      BY <1>2, <2>0, <2>3, <3>3, HoldsElsewhere
  <2>4. CASE a = n
    <3>1. Holds(blocks', inode', i, d[o])
      BY <1>2, <2>0, <2>4, HoldsHere
    <3>2. d[o] = IF o < left THEN BlockAt(WriteNumbers(n), 0).data[o]
                 ELSE IF o < left + t THEN <<q.c, q.done + o - left>> ELSE Nil
      BY <1>6, <2>1
    <3>3. CASE o < left
      <4>1. i < pos
        <5>1. x = base
          BY <2>4 DEF base
        <5> HIDE DEF a, o, x
        <5> QED
          BY <1>a, <2>1, <2>2, <3>3, <5>1
      <4>2. Holds(blocks, inode, i, WantIn(file, p, i))
        BY <1>8, <2>0, <4>1
      <4>3. /\ WriteNumbers(a)[0] # 0
            /\ blocks[WriteNumbers(a)[0]].data[o] = WantIn(file, p, i)
        BY <2>0, <4>2, HoldsNow
      <4>4. BlockAt(WriteNumbers(n), 0).data[o] = WantIn(file, p, i)
        BY <2>4, <4>3 DEF BlockAt
      <4> QED
        BY <3>1, <3>2, <3>3, <4>4
    <3>4. CASE ~(o < left)
      <4>0. x = base
        BY <2>4 DEF base
      <4> HIDE DEF a, o, x
      <4>1. o < left + t /\ i >= q.start /\ i - q.start = q.done + o - left
        BY <1>a, <2>0, <2>1, <2>2, <3>4, <4>0
      <4>2. WantIn(file, p, i) = <<q.c, i - q.start>>
        BY <1>5, <4>1 DEF WantIn
      <4> QED
        BY <3>1, <3>2, <3>4, <4>1, <4>2
    <3> QED
      BY <3>3, <3>4
  <2> QED
    BY <2>3, <2>4
<1>10. DataOK(blocks', inode', file, p)
  BY <1>1, <1>7, <1>9 DEF DataOK
<1> QED
  BY <1>10 DEF p, q, pos, t

(* A call that ends leaves the bytes it wrote over those of the file. *)
LEMMA Overlaid ==
    ASSUME NEW f \in Seq(Byte), NEW q \in CallType, q.start <= Len(f), Len(f) <= q.start + q.done
    PROVE  LET g == Overlay(f, q.start, q.c, q.done)
           IN  /\ g \in Seq(Byte) /\ Len(g) = q.start + q.done
               /\ LenIn(f, q) = Len(g)
               /\ \A i \in 0 .. Len(g) - 1 : g[i + 1] = WantIn(f, q, i)
<1> DEFINE st == q.start
           dn == q.done
           g == Overlay(f, st, q.c, dn)
<1>1. st \in Nat /\ dn \in Nat /\ q.c \in Nat /\ Len(f) \in Nat
  BY DEF CallType
<1>2. g = [i \in 1 .. (IF Len(f) >= st + dn THEN Len(f) ELSE st + dn) |->
             IF i > st /\ i <= st + dn THEN <<q.c, i - st - 1>>
             ELSE IF i <= Len(f) THEN f[i] ELSE Nil]
  BY DEF Overlay
<1>3. (IF Len(f) >= st + dn THEN Len(f) ELSE st + dn) = st + dn
  BY <1>1
<1>4. g = [i \in 1 .. st + dn |->
             IF i > st /\ i <= st + dn THEN <<q.c, i - st - 1>>
             ELSE IF i <= Len(f) THEN f[i] ELSE Nil]
  BY <1>2, <1>3
<1> HIDE DEF g, st, dn
<1>5. ASSUME NEW i \in 1 .. st + dn
      PROVE  /\ i > st => g[i] = <<q.c, i - st - 1>> /\ i - st - 1 \in Nat
             /\ ~(i > st) => g[i] = f[i] /\ i \in 1 .. Len(f)
             /\ g[i] \in Byte
  <2>1. i \in Nat /\ i >= 1 /\ i <= st + dn
    BY <1>1
  <2>2. CASE i > st
    <3>1. i - st - 1 \in Nat
      BY <1>1, <2>1, <2>2
    <3>2. g[i] = <<q.c, i - st - 1>>
      BY <1>4, <2>1, <2>2
    <3> QED
      BY <1>1, <2>2, <3>1, <3>2 DEF Byte
  <2>3. CASE ~(i > st)
    <3>1. i \in 1 .. Len(f) /\ i <= Len(f)
      BY <1>1, <2>1, <2>3 DEF st
    <3>2. g[i] = f[i]
      BY <1>4, <2>3, <3>1
    <3> QED
      BY <2>3, <3>1, <3>2
  <2> QED
    BY <2>2, <2>3
<1>6. st + dn \in Nat
  BY <1>1
<1>7. g \in [1 .. st + dn -> Byte]
  BY <1>4, <1>5
<1>8. g \in Seq(Byte) /\ Len(g) = st + dn
  BY <1>6, <1>7
<1>9. LenIn(f, q) = st + dn
  <2>1. dn = 0 => Len(f) = st + dn
    BY <1>1 DEF st, dn
  <2> QED
    BY <1>1, <2>1 DEF LenIn, st, dn
<1>10. ASSUME NEW i \in 0 .. (st + dn) - 1 PROVE g[i + 1] = WantIn(f, q, i)
  <2>1. i \in Nat /\ i + 1 \in 1 .. st + dn
    BY <1>1
  <2>2. CASE i >= st
    <3>1. i + 1 > st /\ (i + 1) - st - 1 = i - st /\ dn > 0
      BY <1>1, <2>1, <2>2
    <3>2. g[i + 1] = <<q.c, i - st>>
      BY <1>5, <2>1, <3>1
    <3> QED
      BY <2>2, <3>1, <3>2 DEF WantIn, st, dn
  <2>3. CASE ~(i >= st)
    <3>1. ~(i + 1 > st)
      BY <1>1, <2>1, <2>3
    <3>2. g[i + 1] = f[i + 1]
      BY <1>5, <2>1, <3>1
    <3> QED
      BY <2>3, <3>2 DEF WantIn, st
  <2> QED
    BY <2>2, <2>3
<1> QED
  BY <1>8, <1>9, <1>10 DEF g, st, dn

(* Every byte below file_len is there. *)
LEMMA BytesThere ==
    ASSUME FileInv, NEW i \in Nat, i < inode.file_len
    PROVE  \E v : Holds(blocks, inode, i, v)
<1>1. PICK q : DataOK(blocks, inode, file, q)
  BY DEF FileInv, Quiet
<1>2. inode.file_len \in Nat
  BY DEF FileInv, TreeInv, Shape, InodeType
<1>3. i \in 0 .. LenIn(file, q) - 1
  BY <1>1, <1>2 DEF DataOK
<1> QED
  BY <1>1, <1>3 DEF DataOK

LEMMA MulDiv ==
    ASSUME NEW n \in Nat
    PROVE  /\ DataSize * n \in Nat /\ (DataSize * n) \div DataSize = n
           /\ (DataSize * n) % DataSize = 0
<1>1. DataSize \in Nat \ {0}
  BY Constants
<1> DEFINE x == DataSize * n
<1>2. x \in Nat /\ x = n * DataSize + 0 /\ 0 \in 0 .. DataSize - 1
  BY <1>1
<1> HIDE DEF x
<1>3. x \div DataSize = n /\ x % DataSize = 0
  BY <1>1, <1>2, DivModUnique
<1> QED
  BY <1>2, <1>3 DEF x

(* The block of a byte that is there is found. *)
LEMMA BlockThere ==
    ASSUME FileInv, NEW n \in Nat, DataSize * n < inode.file_len
    PROVE  n \in FileBlock /\ ReadNumber(n) # 0
<1> DEFINE x == DataSize * n
<1>1. x \in Nat /\ x \div DataSize = n
  BY MulDiv
<1> HIDE DEF x
<1>2. x < inode.file_len
  BY DEF x
<1>3. PICK v : Holds(blocks, inode, x, v)
  BY <1>1, <1>2, BytesThere
<1>4. n \in FileBlock /\ WriteNumbers(n)[0] # 0
  BY <1>1, <1>3, HoldsNow
<1> QED
  BY <1>4, ReaderFinds

(* What a read has to do with: its length, its first and its last block. *)
LEMMA ReadFacts ==
    ASSUME FileInv, NEW pos \in Nat, NEW count \in Nat, pos < inode.file_len
    PROVE  LET len == ReadLen(pos, count)
           IN  /\ len \in Nat /\ pos + len <= inode.file_len /\ inode.file_len \in Nat
               /\ StartBlock(pos) \in Nat /\ EndBlock(pos, len) \in Nat
               /\ pos = DataSize * StartBlock(pos) + (pos % DataSize)
               /\ pos + len = DataSize * EndBlock(pos, len) + ((pos + len) % DataSize)
               /\ pos % DataSize \in Offset /\ (pos + len) % DataSize \in Offset
<1> DEFINE len == ReadLen(pos, count)
<1>1. inode.file_len \in Nat
  BY DEF FileInv, TreeInv, Shape, InodeType
<1>2. len = IF count < inode.file_len - pos THEN count ELSE inode.file_len - pos
  BY <1>1 DEF ReadLen
<1> HIDE DEF len
<1>3. len \in Nat /\ pos + len <= inode.file_len /\ pos + len \in Nat
  BY <1>1, <1>2
<1>4. StartBlock(pos) \in Nat /\ pos % DataSize \in Offset
      /\ pos = DataSize * StartBlock(pos) + (pos % DataSize)
  BY Split DEF StartBlock
<1> DEFINE e == pos + len
<1>5. e \div DataSize \in Nat /\ e % DataSize \in Offset
      /\ e = DataSize * (e \div DataSize) + (e % DataSize)
  <2> HIDE DEF e
  <2>1. e \in Nat
    BY <1>3 DEF e
  <2> QED
    BY <2>1, Split
<1>6. EndBlock(pos, len) = e \div DataSize
  BY DEF EndBlock
<1> QED
  BY <1>1, <1>3, <1>4, <1>5, <1>6 DEF len

(* A read inside the envelope finds all its blocks. *)
LEMMA NoZero ==
    ASSUME FileInv, NEW pos \in Nat, NEW count \in Nat, pos < inode.file_len, SafeRead(pos, count)
    PROVE  \A n \in StartBlock(pos) .. EndBlock(pos, ReadLen(pos, count)) :
              n \in Nat /\ DataSize * n < inode.file_len /\ n \in FileBlock /\ ReadNumber(n) # 0
<1> DEFINE len == ReadLen(pos, count)
           e == EndBlock(pos, len)
           o == (pos + len) % DataSize
           F == inode.file_len
<1> SUFFICES ASSUME NEW n \in StartBlock(pos) .. e
             PROVE  n \in Nat /\ DataSize * n < F /\ n \in FileBlock /\ ReadNumber(n) # 0
  OBVIOUS
<1>1. /\ len \in Nat /\ pos + len <= F /\ F \in Nat
      /\ StartBlock(pos) \in Nat /\ e \in Nat
      /\ pos + len = DataSize * e + o /\ o \in Offset
  BY ReadFacts
<1>2. pos + len < F \/ o # 0
  BY DEF SafeRead
<1> HIDE DEF e, o, len
<1>3. n \in Nat /\ n <= e
  BY <1>1
<1>4. DataSize * e \in Nat /\ o \in Nat
  BY <1>1, Constants DEF Offset
<1> DEFINE x == DataSize * e
<1>5. x < F
  <2>1. x \in Nat /\ pos + len = x + o
    BY <1>1, <1>4
  <2> HIDE DEF x, F
  <2> QED
    BY <1>1, <1>2, <1>4, <2>1
<1>6. DataSize * n <= x
  <2>1. CASE n = e
    BY <1>4, <2>1
  <2>2. CASE n < e
    <3>1. DataSize * n + DataSize <= x /\ DataSize * n \in Nat /\ DataSize \in Nat
      BY <1>1, <1>3, <2>2, BlockOrder, Constants
    <3> DEFINE y == DataSize * n
    <3>2. y + DataSize <= x /\ y \in Nat /\ x \in Nat
      BY <3>1, <1>4
    <3> HIDE DEF x, y
    <3>3. y <= x
      BY <3>1, <3>2
    <3> QED
      BY <3>3 DEF y
  <2> QED
    BY <1>1, <1>3, <2>1, <2>2
<1>7. DataSize * n < F
  <2> DEFINE y == DataSize * n
  <2>1. y <= x /\ x < F /\ y \in Nat /\ x \in Nat /\ F \in Nat
    BY <1>1, <1>3, <1>4, <1>5, <1>6, MulDiv
  <2> HIDE DEF x, y, F
  <2>2. y < F
    BY <2>1
  <2> QED
    BY <2>2 DEF y
<1> QED
  BY <1>3, <1>7, BlockThere

--------------------------------------------------------------------------------
(* The steps of the envelope keep the bytes *)

LEMMA FileInit ==
    ASSUME Init
    PROVE  FileInv
<1>1. /\ TreeInv /\ file = << >> /\ fault = FALSE /\ inode.file_len = 0
      /\ call = [w \in Writers |-> Idle]
  BY TreeInit DEF Init
<1>2. \A w \in Writers : ~InCall(w)
  BY <1>1 DEF InCall
<1>3. file \in Seq(Byte) /\ Len(file) = 0
  BY <1>1
<1>4. Len(file) <= Base(4) * DataSize
  <2> DEFINE x == Base(4) * DataSize
  <2>1. x \in Nat
    BY Bases, Constants
  <2> HIDE DEF x
  <2>2. Len(file) <= x
    BY <2>1, <1>3
  <2> QED
    BY <2>2 DEF x
<1>5. LenIn(file, Idle) = 0
  BY <1>3 DEF LenIn, Idle
<1>6. DataOK(blocks, inode, file, Idle)
  BY <1>1, <1>5 DEF DataOK
<1> QED
  BY <1>1, <1>2, <1>3, <1>4, <1>6 DEF FileInv

(* A write begins. *)
LEMMA FileBegins ==
    ASSUME FileInv, TreeInv', NEW w \in Writers, NEW len \in Lens, NEW a \in BOOLEAN,
           NEW pos \in StartPositions(a),
           SafeWrite(pos, len, a), hodo_file_write_iter(w, pos, len, a)
    PROVE  FileInv'
<1> DEFINE st == IF a THEN inode.file_len ELSE pos
           q == [c |-> calls + 1, ki_pos |-> pos, len |-> len, start |-> st,
                 done |-> 0, append |-> a]
<1>1. /\ call' = [call EXCEPT ![w] = q]
      /\ UNCHANGED <<blocks, inode, i_size, fault, file>>
  BY DEF hodo_file_write_iter
<1>2. Quiet /\ \A v \in Writers : call[v] = Idle
  BY DEF hodo_file_write_iter, Quiet, InCall
<1>3. DataOK(blocks, inode, file, Idle)
  BY <1>2 DEF FileInv
<1>4. inode.file_len = Len(file)
  BY <1>3 DEF DataOK, LenIn, Idle
<1>5. /\ call \in [Writers -> CallType] /\ calls \in Nat /\ pos \in Nat /\ len \in Nat
      /\ Len(file) \in Nat
  BY FileAssumption DEF FileInv, TreeInv, StartPositions, Positions
<1>6. st <= Len(file) /\ Len(file) <= st + len /\ st \in Nat
  BY <1>4, <1>5 DEF SafeWrite
<1>7. /\ q.c = calls + 1 /\ q.start = st /\ q.len = len /\ q.done = 0 /\ q.append = a
      /\ q.ki_pos = pos
  OBVIOUS
<1>8. a => i_size = inode.file_len
  BY DEF SafeWrite
<1> HIDE DEF q
<1>9. call'[w] = q /\ \A v \in Writers : v # w => call'[v] = Idle
  BY <1>1, <1>2, <1>5
<1>10. CallOK(file', q) /\ q # Idle
  BY <1>1, <1>5, <1>6, <1>7 DEF CallOK, Idle
<1>11. DataOK(blocks', inode', file', q)
  BY <1>1, <1>3, <1>7, DataRest
<1>12. WritePos(w)' = q.start + q.done
  BY <1>1, <1>4, <1>5, <1>7, <1>8, <1>9 DEF WritePos
<1>13. \A v \in Writers : InCall(v)' <=> v = w
  BY <1>9, <1>10 DEF InCall
<1>14. ~Quiet'
  BY <1>13 DEF Quiet
<1>15. file' \in Seq(Byte) /\ Len(file') <= Base(4) * DataSize /\ fault' = FALSE
  BY <1>1 DEF FileInv
<1> QED
  BY <1>9, <1>10, <1>11, <1>12, <1>13, <1>14, <1>15 DEF FileInv

(* A round of a write. *)
LEMMA FileRound ==
    ASSUME FileInv, TreeInv', NEW w \in Writers, WriteOneBlock(w)
    PROVE  FileInv'
<1> DEFINE A == WritePos(w) + Taken(w)
           t == Taken(w)
           p == Advance(call[w], A, t)
<1>1. /\ TreeInv /\ WritePos(w) \in Nat /\ t \in Nat /\ i_size' = A
      /\ call' = [call EXCEPT ![w].ki_pos = A, ![w].done = @ + t]
      /\ UNCHANGED <<fault, file, calls>> /\ InCall(w)
  BY WriteStep DEF FileInv
<1>2. DataOK(blocks', inode', file, p)
  BY DataStep
<1>3. call \in [Writers -> CallType] /\ call[w] \in CallType /\ A \in Nat
  BY <1>1 DEF TreeInv
<1>4. CallOK(file, call[w]) /\ WritePos(w) = call[w].start + call[w].done
  BY <1>1 DEF FileInv
<1>5. A = (call[w].start + call[w].done) + t
  BY <1>4
<1> HIDE DEF A, t
<1>6. call' = [call EXCEPT ![w] = p]
  BY <1>1, <1>3 DEF Advance
<1>7. /\ p.ki_pos = A /\ p.done = call[w].done + t
      /\ p.c = call[w].c /\ p.start = call[w].start /\ p.len = call[w].len
  <2>1. call[w] \in CallType /\ A \in Nat /\ t \in Nat
    BY <1>1, <1>3
  <2> QED
    BY <2>1, CallAdvances
<1> HIDE DEF p
<1>8. call'[w] = p /\ \A v \in Writers : v # w => call'[v] = call[v]
  BY <1>3, <1>6
<1>9. \A v \in Writers : InCall(v) <=> v = w
  BY <1>1 DEF FileInv
<1>10. CallOK(file', p)
  BY <1>1, <1>4, <1>7 DEF CallOK
<1>11. p # Idle
  <2>1. p.c > 0 /\ Idle.c = 0
    BY <1>10 DEF CallOK, Idle
  <2> QED
    BY <2>1
<1>12. \A v \in Writers : InCall(v)' <=> v = w
  BY <1>8, <1>9, <1>11 DEF InCall
<1>13. WritePos(w)' = A
  BY <1>1, <1>7, <1>8 DEF WritePos
<1>14. A = p.start + p.done
  <2>1. call[w].start \in Nat /\ call[w].done \in Nat
    BY <1>3 DEF CallType
  <2> QED
    BY <1>1, <1>5, <1>7, <2>1
<1>15. ~Quiet'
  BY <1>12 DEF Quiet
<1>16. file' \in Seq(Byte) /\ Len(file') <= Base(4) * DataSize /\ fault' = FALSE
  BY <1>1 DEF FileInv
<1>17. DataOK(blocks', inode', file', p)
  BY <1>1, <1>2
<1> QED
  BY <1>8, <1>10, <1>12, <1>13, <1>14, <1>15, <1>16, <1>17 DEF FileInv

(* A write ends, with all its bytes or past the largest file. *)
LEMMA FileEnds ==
    ASSUME FileInv, TreeInv', NEW w \in Writers, InCall(w),
           Len(file) <= call[w].start + call[w].done,
           call' = [call EXCEPT ![w] = Idle],
           file' = Overlay(file, call[w].start, call[w].c, call[w].done),
           UNCHANGED <<blocks, inode, fault>>
    PROVE  FileInv'
<1> DEFINE q == call[w]
<1>1. /\ call \in [Writers -> CallType] /\ q \in CallType /\ file \in Seq(Byte)
      /\ Len(file) <= Base(4) * DataSize /\ fault = FALSE
      /\ DataOK(blocks, inode, file, q) /\ CallOK(file, q)
      /\ \A v \in Writers : InCall(v) => v = w
  BY DEF FileInv, TreeInv
<1>2. q.start <= Len(file)
  BY <1>1 DEF CallOK
<1>3. /\ file' \in Seq(Byte) /\ Len(file') = q.start + q.done /\ LenIn(file, q) = Len(file')
      /\ \A i \in 0 .. Len(file') - 1 : file'[i + 1] = WantIn(file, q, i)
  BY <1>1, <1>2, Overlaid
<1>4. \A v \in Writers : ~InCall(v)'
  BY <1>1 DEF InCall
<1> HIDE DEF q
<1>5. \A i : WantIn(file', Idle, i) = file'[i + 1]
  BY DEF WantIn, Idle
<1>6. LenIn(file', Idle) = Len(file')
  BY DEF LenIn, Idle
<1>7. DataOK(blocks', inode', file', Idle)
  BY <1>1, <1>3, <1>5, <1>6 DEF DataOK
<1>8. Len(file') <= Base(4) * DataSize
  <2> DEFINE L == Len(file')
             x == Base(4) * DataSize
  <2>1. L \in Nat /\ x \in Nat /\ Base(4) \in Nat /\ DataSize \in Nat \ {0}
    BY <1>3, Bases, Constants
  <2>2. CASE L = 0
    <3> HIDE DEF L, x
    <3>1. L <= x
      BY <2>1, <2>2
    <3> QED
      BY <3>1 DEF L, x
  <2>3. CASE L > 0
    <3> DEFINE i == L - 1
               n == i \div DataSize
               o == i % DataSize
               y == DataSize * n
    <3>1. i \in Nat /\ L = i + 1 /\ i \in 0 .. L - 1
      BY <2>1, <2>3
    <3>2. Holds(blocks, inode, i, WantIn(file, q, i))
      BY <1>1, <1>3, <3>1 DEF DataOK
    <3> HIDE DEF i, L
    <3>3. n \in 0 .. Base(4) - 1
      BY <3>2 DEF Holds, FileBlock
    <3>4. n \in Nat /\ i = y + o /\ o \in 0 .. DataSize - 1
      BY <3>1, Split DEF Offset
    <3>5. n < Base(4)
      BY <2>1, <3>3
    <3> HIDE DEF n, o
    <3>6. y + DataSize <= DataSize * Base(4) /\ y \in Nat
      BY <2>1, <3>4, <3>5, BlockOrder
    <3>7. DataSize * Base(4) = x
      BY <2>1
    <3> HIDE DEF x, y
    <3>8. L <= x
      BY <2>1, <3>1, <3>4, <3>6, <3>7
    <3> QED
      BY <3>8 DEF L, x
  <2> QED
    BY <2>1, <2>2, <2>3
<1> QED
  BY <1>1, <1>3, <1>4, <1>7, <1>8 DEF FileInv

(* Past the triple indirect pointer there is nothing of the file. *)
LEMMA PastTheEnd ==
    ASSUME NEW pos \in Nat, Level(pos \div DataSize) = 4
    PROVE  Base(4) * DataSize <= pos
<1> DEFINE n == pos \div DataSize
           y == DataSize * n
           x == DataSize * Base(4)
<1>1. n \in Nat /\ pos = y + (pos % DataSize) /\ pos % DataSize \in Nat /\ y \in Nat
  BY Split, Constants DEF Offset
<1>2. Base(4) \in Nat /\ DataSize \in Nat /\ x \in Nat /\ Base(4) * DataSize = x
  BY Bases, Constants
<1>3. ~(n < Base(4))
  <2> SUFFICES ASSUME n < Base(4) PROVE FALSE
    OBVIOUS
  <2>1. n \in FileBlock
    BY <1>1, <1>2 DEF FileBlock
  <2>2. Level(n) \in 0 .. 3
    BY <2>1, LevelRange
  <2> QED
    BY <2>2
<1>4. x <= y
  <2>1. CASE n = Base(4)
    BY <1>2, <2>1
  <2>2. CASE Base(4) < n
    <3> HIDE DEF n
    <3>1. x + DataSize <= y
      BY <1>1, <1>2, <2>2, BlockOrder
    <3> HIDE DEF x, y
    <3> QED
      BY <1>1, <1>2, <3>1
  <2> QED
    BY <1>1, <1>2, <1>3, <2>1, <2>2
<1> HIDE DEF x, y, n
<1>5. x <= pos
  BY <1>1, <1>2, <1>4
<1> QED
  BY <1>2, <1>5

LEMMA FileStep ==
    ASSUME FileInv, SafeNext
    PROVE  FileInv'
<1>0. TreeInv'
  <2>1. TreeInv /\ CleanNext
    BY DEF FileInv, SafeNext, CleanNext
  <2> QED
    BY <2>1, TreeStep
<1>1. ASSUME NEW w \in Writers, NEW len \in Lens, NEW a \in BOOLEAN,
             NEW pos \in StartPositions(a),
             SafeWrite(pos, len, a), hodo_file_write_iter(w, pos, len, a)
      PROVE  FileInv'
  BY <1>0, <1>1, FileBegins
<1>2. ASSUME NEW w \in Writers, WriteOneBlock(w) PROVE FileInv'
  BY <1>0, <1>2, FileRound
<1>3. ASSUME NEW w \in Writers, WriteTooBig(w) PROVE FileInv'
  <2>1. /\ InCall(w) /\ call' = [call EXCEPT ![w] = Idle]
        /\ file' = Overlay(file, call[w].start, call[w].c, call[w].done)
        /\ UNCHANGED <<blocks, inode, fault>>
        /\ Level(WritePos(w) \div DataSize) = 4
    BY <1>3 DEF WriteTooBig
  <2>2. WritePos(w) = call[w].start + call[w].done /\ Len(file) <= Base(4) * DataSize
        /\ file \in Seq(Byte)
    BY <2>1 DEF FileInv
  <2>3. WritePos(w) \in Nat
    BY PosType DEF FileInv
  <2>4. Base(4) * DataSize <= WritePos(w)
    BY <2>1, <2>3, PastTheEnd
  <2>5. Len(file) <= WritePos(w)
    <3> DEFINE x == Base(4) * DataSize
    <3>1. x \in Nat /\ Len(file) <= x /\ x <= WritePos(w) /\ Len(file) \in Nat
      BY <2>2, <2>4, Bases, Constants
    <3> HIDE DEF x
    <3> QED
      BY <2>3, <3>1
  <2>6. Len(file) <= call[w].start + call[w].done
    BY <2>2, <2>5
  <2> QED
    BY <1>0, <2>1, <2>6, FileEnds
<1>4. ASSUME NEW w \in Writers, WriteReturn(w) PROVE FileInv'
  <2>1. /\ InCall(w) /\ call' = [call EXCEPT ![w] = Idle]
        /\ call[w].done = call[w].len
        /\ file' = Overlay(file, call[w].start, call[w].c, call[w].len)
        /\ UNCHANGED <<blocks, inode, fault>>
    BY <1>4 DEF WriteReturn
  <2>2. Len(file) <= call[w].start + call[w].done
    BY <2>1 DEF FileInv, CallOK
  <2>3. file' = Overlay(file, call[w].start, call[w].c, call[w].done)
    BY <2>1
  <2> QED
    BY <1>0, <2>1, <2>2, <2>3, FileEnds
<1>5. ASSUME NEW pos \in Positions, NEW count \in Lens, SafeRead(pos, count),
             hodo_file_read_iter(pos, count)
      PROVE  FileInv'
  <2>1. /\ fault' = ReadHitsZero(pos, count)
        /\ UNCHANGED <<blocks, inode, i_size, call, file, calls>>
    BY <1>5 DEF hodo_file_read_iter
  <2>2. pos \in Nat /\ count \in Nat
    BY FileAssumption DEF Positions
  <2>3. ~ReadHitsZero(pos, count)
    BY <1>5, <2>2, NoZero DEF ReadHitsZero
  <2>4. fault' = FALSE
    BY <2>1, <2>3
  <2> QED
    BY <1>0, <2>1, <2>4 DEF FileInv, Quiet, InCall, WritePos
<1>6. ASSUME hodo_sub_lookup PROVE FileInv'
  <2>1. /\ UNCHANGED <<blocks, inode, call, fault, file, calls>>
        /\ \A w \in Writers : ~InCall(w)
    BY <1>6 DEF hodo_sub_lookup
  <2>2. \A w \in Writers : ~InCall(w)'
    BY <2>1 DEF InCall
  <2>3. DataOK(blocks', inode', file', Idle)
    BY <2>1 DEF FileInv, Quiet
  <2>4. file' \in Seq(Byte) /\ Len(file') <= Base(4) * DataSize /\ fault' = FALSE
    BY <2>1 DEF FileInv
  <2> QED
    BY <1>0, <2>2, <2>3, <2>4 DEF FileInv
<1> QED
  BY <1>1, <1>2, <1>3, <1>4, <1>5, <1>6 DEF SafeNext

(* Inside the envelope the blocks hold, byte for byte, the file with the   *)
(* part of the call under way that is written, for every size of block,    *)
(* pointer array and call (trans.c:286-623, hodo.c:210-296).               *)
THEOREM FileInductive == SafeSpec => []FileInv
<1>1. Init => FileInv
  BY FileInit
<1>2. FileInv /\ [SafeNext]_vars => FileInv'
  <2> SUFFICES ASSUME FileInv, [SafeNext]_vars PROVE FileInv'
    OBVIOUS
  <2>1. CASE SafeNext
    BY <2>1, FileStep
  <2>2. CASE UNCHANGED vars
    <3>1. TreeInv'
      BY <2>2 DEF vars, FileInv, TreeInv, Shape
    <3> QED
      BY <2>2, <3>1 DEF vars, FileInv, Quiet, InCall, WritePos
  <2> QED
    BY <2>1, <2>2
<1> QED
  BY <1>1, <1>2, PTL DEF SafeSpec

(* A byte that is there is the one a reader copies. *)
LEMMA ByteRead ==
    ASSUME NEW i \in Nat, NEW v, Holds(blocks, inode, i, v)
    PROVE  blocks[ReadNumber(i \div DataSize)].data[i % DataSize] = v
<1> DEFINE n == i \div DataSize
<1>1. n \in FileBlock /\ blocks[WriteNumbers(n)[0]].data[i % DataSize] = v
  BY HoldsNow
<1> QED
  BY <1>1, ReaderFinds

(* While a write is under way the bytes before its start can be read, at   *)
(* every step: what its rounds replace carries them over                   *)
(* (write_one_block_by_direct_block, trans.c:418-492).                     *)
THEOREM OldBytesRemain == SafeSpec => []OldBytesStay
<1>1. FileInv => OldBytesStay
  <2> SUFFICES ASSUME FileInv, NEW w \in Writers, InCall(w), NEW i \in 1 .. call[w].start
               PROVE  /\ i <= inode.file_len
                      /\ Piece((i - 1) \div DataSize, (i - 1) % DataSize, 1) = <<file[i]>>
    BY DEF OldBytesStay
  <2> DEFINE q == call[w]
             j == i - 1
             n == j \div DataSize
             o == j % DataSize
             data == blocks[ReadNumber(n)].data
  <2>1. /\ DataOK(blocks, inode, file, q) /\ q.start <= Len(file) /\ q \in CallType
        /\ file \in Seq(Byte)
    BY DEF FileInv, CallOK, TreeInv
  <2>2. q.start \in Nat /\ q.done \in Nat /\ Len(file) \in Nat
    BY <2>1 DEF CallType
  <2> HIDE DEF q
  <2>3. i \in Nat /\ i >= 1 /\ i <= q.start /\ j \in Nat /\ j + 1 = i /\ ~(j >= q.start)
    BY <2>2 DEF q
  <2>4. i <= LenIn(file, q) /\ LenIn(file, q) \in Nat
    BY <2>1, <2>2, <2>3 DEF LenIn
  <2>5. i <= inode.file_len
    BY <2>1, <2>4 DEF DataOK
  <2>6. j \in 0 .. LenIn(file, q) - 1
    BY <2>3, <2>4
  <2>7. WantIn(file, q, j) = file[i]
    BY <2>3 DEF WantIn
  <2>8. Holds(blocks, inode, j, file[i])
    BY <2>1, <2>6, <2>7 DEF DataOK
  <2> HIDE DEF j
  <2>9. data[o] = file[i]
    BY <2>3, <2>8, ByteRead
  <2>10. o \in Int
    BY <2>3, Split DEF Offset
  <2>11. Piece(n, o, 1) = [x \in 1 .. 1 |-> data[o + x - 1]]
    BY DEF Piece
  <2> HIDE DEF data, o, n
  <2>12. \A x \in 1 .. 1 : o + x - 1 = o
    BY <2>10
  <2>13. Piece(n, o, 1) = [x \in 1 .. 1 |-> file[i]]
    BY <2>9, <2>11, <2>12
  <2>14. Piece(n, o, 1) = <<file[i]>>
    BY <2>13
  <2> QED
    BY <2>5, <2>14 DEF j, o, n
<1> QED
  BY <1>1, FileInductive, PTL

--------------------------------------------------------------------------------
(* What a read returns *)

(* The bytes of the file from position a up to position b. *)
Part(a, b) == SubSeq(file, a + 1, b)

(* Two parts of the file that meet make one. *)
LEMMA PartsMeet ==
    ASSUME file \in Seq(Byte), NEW a \in Nat, NEW b \in Nat, NEW c \in Nat,
           a <= b, b <= c, c <= Len(file)
    PROVE  Part(a, b) \o Part(b, c) = Part(a, c)
<1>1. Len(file) \in Nat
  OBVIOUS
<1>2. a + 1 \in 1 .. Len(file) + 1 /\ b \in (a + 1) - 1 .. Len(file) /\ c \in b .. Len(file)
  BY <1>1
<1> QED
  BY <1>2, ConcatAdjacentSubSeq DEF Part

(* Nothing lies between a position and itself. *)
LEMMA PartEmpty ==
    ASSUME NEW a \in Nat
    PROVE  Part(a, a) = << >>
<1>1. a + 1 \in Int /\ a \in Int /\ a < a + 1
  OBVIOUS
<1> QED
  BY <1>1, SubSeqEmpty DEF Part

(* The equation of FlattenSeq: f[i] is the first i pieces joined. *)
Joined(f, b, m) == f = [i \in 1 .. m |-> IF i = 1 THEN b[i] ELSE f[i - 1] \o b[i]]

(* Parts that follow one another, joined, are the part from the first cut  *)
(* to the last.                                                            *)
LEMMA PartsJoined ==
    ASSUME file \in Seq(Byte), NEW m \in Nat \ {0}, NEW c \in [0 .. m -> Nat],
           \A i, j \in 0 .. m : i <= j => c[i] <= c[j], c[m] <= Len(file),
           NEW b, b = [i \in 1 .. m |-> Part(c[i - 1], c[i])]
    PROVE  FlattenSeq(b) = Part(c[0], c[m])
<1>0. m \in Nat /\ m >= 1 /\ 0 \in 0 .. m /\ m \in 0 .. m /\ Len(file) \in Nat
  OBVIOUS
<1>1. ASSUME NEW i \in 1 .. m, i # 1
      PROVE  Part(c[0], c[i]) = Part(c[0], c[i - 1]) \o b[i]
  <2>1. i \in 0 .. m /\ i - 1 \in 0 .. m /\ 0 <= i - 1 /\ i - 1 <= i /\ i <= m
    BY <1>0
  <2>2. c[0] \in Nat /\ c[i - 1] \in Nat /\ c[i] \in Nat /\ c[m] \in Nat
    BY <1>0, <2>1
  <2>3. c[0] <= c[i - 1] /\ c[i - 1] <= c[i] /\ c[i] <= c[m]
    BY <1>0, <2>1
  <2>4. c[i] <= Len(file)
    BY <1>0, <2>2, <2>3
  <2>5. b[i] = Part(c[i - 1], c[i])
    OBVIOUS
  <2> QED
    BY <2>2, <2>3, <2>4, <2>5, PartsMeet
<1>2. b[1] = Part(c[0], c[1])
  BY <1>0
<1> DEFINE g == [i \in 1 .. m |-> Part(c[0], c[i])]
<1>3. Joined(g, b, m)
  <2>1. ASSUME NEW i \in 1 .. m PROVE g[i] = IF i = 1 THEN b[i] ELSE g[i - 1] \o b[i]
    <3>1. CASE i = 1
      BY <1>2, <3>1
    <3>2. CASE i # 1
      <4>1. i - 1 \in 1 .. m
        BY <1>0, <3>2
      <4> QED
        BY <1>1, <3>2, <4>1
    <3> QED
      BY <3>1, <3>2
  <2>2. g = [i \in 1 .. m |-> g[i]]
    OBVIOUS
  <2> HIDE DEF g
  <2> QED
    BY <2>1, <2>2 DEF Joined
<1> HIDE DEF g
<1> DEFINE F == CHOOSE f : Joined(f, b, m)
<1>4. Joined(F, b, m)
  BY <1>3
<1>5. FlattenSeq(b) = F[m]
  <2>1. Len(b) = m
    BY <1>0
  <2> QED
    BY <1>0, <2>1 DEF FlattenSeq, Joined
<1> HIDE DEF F
<1> DEFINE Bad == {i \in 1 .. m : F[i] # Part(c[0], c[i])}
<1>6. Bad = {}
  <2> SUFFICES ASSUME Bad # {} PROVE FALSE
    OBVIOUS
  <2>1. Bad \in SUBSET Nat
    BY <1>0
  <2>2. PICK x \in Bad : \A k \in Bad : x <= k
    <3> HIDE DEF Bad
    <3> QED
      BY <2>1, LeastNat
  <2>3. x \in 1 .. m /\ F[x] # Part(c[0], c[x])
    BY <2>2
  <2>4. F[x] = IF x = 1 THEN b[x] ELSE F[x - 1] \o b[x]
    BY <1>4, <2>3 DEF Joined
  <2>5. CASE x = 1
    BY <1>2, <2>3, <2>4, <2>5
  <2>6. CASE x # 1
    <3>1. x - 1 \in 1 .. m /\ ~(x <= x - 1)
      BY <1>0, <2>3, <2>6
    <3>2. F[x - 1] = Part(c[0], c[x - 1])
      BY <2>2, <3>1
    <3> QED
      BY <1>1, <2>3, <2>4, <2>6, <3>2
  <2> QED
    BY <2>5, <2>6
<1>7. m \in 1 .. m
  BY <1>0
<1>8. F[m] = Part(c[0], c[m])
  <2> SUFFICES ASSUME F[m] # Part(c[0], c[m]) PROVE FALSE
    OBVIOUS
  <2>1. m \in Bad
    BY <1>7
  <2> HIDE DEF Bad
  <2> QED
    BY <1>6, <2>1
<1> QED
  BY <1>5, <1>8

(* Between calls the bytes of a block are those of the file. *)
LEMMA PieceOfFile ==
    ASSUME FileInv, Quiet, NEW n \in Nat, NEW off \in Nat, NEW size \in Nat,
           off + size <= DataSize, DataSize * n + off + size <= Len(file)
    PROVE  Piece(n, off, size) = Part(DataSize * n + off, DataSize * n + off + size)
<1> DEFINE x == DataSize * n
           data == blocks[ReadNumber(n)].data
           a == x + off
           S == Part(a, a + size)
           T == Piece(n, off, size)
<1>1. DataOK(blocks, inode, file, Idle) /\ file \in Seq(Byte) /\ Len(file) \in Nat
  BY DEF FileInv
<1>2. x \in Nat /\ DataSize \in Nat \ {0}
  BY MulDiv, Constants
<1>3. LenIn(file, Idle) = Len(file) /\ \A i : WantIn(file, Idle, i) = file[i + 1]
  BY DEF LenIn, WantIn, Idle
<1>4. a \in Nat /\ a + size <= Len(file) /\ a + size \in Nat
  <2> x + off + size <= Len(file)
    OBVIOUS
  <2> HIDE DEF x
  <2> QED
    BY <1>1, <1>2
<1>5. ASSUME NEW i \in 1 .. size PROVE data[off + i - 1] = file[a + i] /\ file[a + i] \in Byte
  <2> DEFINE o == off + i - 1
             y == x + o
  <2>1. o \in 0 .. DataSize - 1 /\ o \in Nat /\ i \in Nat
    BY <1>2
  <2>2. y = n * DataSize + o
    BY <1>2
  <2> HIDE DEF o
  <2>3. y \div DataSize = n /\ y % DataSize = o
    <3>1. y \in Nat
      <4> HIDE DEF x
      <4> QED
        BY <1>2, <2>1
    <3> HIDE DEF y
    <3> QED
      BY <1>2, <2>1, <2>2, <3>1, DivModUnique
  <2>4. y \in Nat /\ y + 1 = a + i /\ y \in 0 .. Len(file) - 1 /\ a + i \in 1 .. Len(file)
    <3> HIDE DEF x
    <3>1. y + 1 = a + i /\ a + i <= Len(file) /\ y >= 0
      BY <1>1, <1>2, <1>4, <2>1 DEF o
    <3> QED
      BY <1>1, <1>2, <2>1, <3>1
  <2>5. Holds(blocks, inode, y, file[y + 1])
    BY <1>1, <1>3, <2>4 DEF DataOK
  <2> HIDE DEF y
  <2>6. data[o] = file[y + 1]
    BY <2>3, <2>4, <2>5, ByteRead
  <2>7. data[o] = file[a + i]
    BY <2>4, <2>6
  <2> QED
    BY <1>1, <2>4, <2>7 DEF o
<1>6. T = [i \in 1 .. size |-> data[off + i - 1]]
  BY DEF Piece
<1> HIDE DEF data, x
<1>7. T = [i \in 1 .. size |-> file[a + i]]
  BY <1>5, <1>6
<1> HIDE DEF T
<1>8. T \in Seq(Byte) /\ Len(T) = size /\ \A i \in 1 .. size : T[i] = file[a + i]
  BY <1>5, <1>7
<1>9. S \in Seq(Byte) /\ Len(S) = size /\ \A i \in 1 .. size : S[i] = file[a + i]
  <2> DEFINE u == a + 1
             v == a + size
  <2>1. u \in Int /\ v \in Int /\ v - u + 1 = size /\ (u <= v <=> size > 0)
    BY <1>4
  <2>2. \A i \in u .. v : file[i] \in Byte
    BY <1>1, <1>4
  <2>3. \A i \in 1 .. size : u + i - 1 = a + i
    BY <1>4
  <2> HIDE DEF a, u, v
  <2>4. /\ SubSeq(file, u, v) \in Seq(Byte)
        /\ Len(SubSeq(file, u, v)) = IF u <= v THEN v - u + 1 ELSE 0
        /\ \A i \in 1 .. v - u + 1 : SubSeq(file, u, v)[i] = file[u + i - 1]
    BY <2>1, <2>2, SubSeqProperties
  <2>5. S = SubSeq(file, u, v)
    BY DEF Part, u, v
  <2> HIDE DEF S
  <2>6. Len(S) = size
    BY <2>1, <2>4, <2>5
  <2> QED
    BY <2>1, <2>3, <2>4, <2>5, <2>6
<1> HIDE DEF S
<1>10. T = S
  BY <1>8, <1>9, SeqEqual
<1> QED
  BY <1>10 DEF T, S, x

(* Between calls a read of any blocks inside the envelope returns the      *)
(* bytes of the file.                                                      *)
LEMMA ReadIsPart ==
    ASSUME FileInv, Quiet, NEW pos \in Nat, NEW count \in Nat, pos < Len(file)
    PROVE  ReadBytes(pos, count) = Part(pos, pos + ReadLen(pos, count))
<1> DEFINE len == ReadLen(pos, count)
           off == pos % DataSize
           s == StartBlock(pos)
           e == EndBlock(pos, len)
           end == pos + len
           r == end % DataSize
           x == DataSize * s
           y == DataSize * e
<1>1. inode.file_len = Len(file) /\ file \in Seq(Byte) /\ Len(file) \in Nat
  <2>1. DataOK(blocks, inode, file, Idle) /\ file \in Seq(Byte)
    BY DEF FileInv
  <2>2. inode.file_len = LenIn(file, Idle)
    BY <2>1 DEF DataOK
  <2>3. LenIn(file, Idle) = Len(file)
    BY DEF LenIn, Idle
  <2> QED
    BY <2>1, <2>2, <2>3
<1>2. /\ len \in Nat /\ end <= Len(file) /\ end \in Nat
      /\ s \in Nat /\ e \in Nat /\ pos = x + off /\ end = y + r
      /\ off \in Offset /\ r \in Offset
  <2>1. pos < inode.file_len
    BY <1>1
  <2>2. /\ len \in Nat /\ pos + len <= inode.file_len
        /\ s \in Nat /\ e \in Nat /\ pos = x + off /\ end = y + r
        /\ off \in Offset /\ r \in Offset
    BY <2>1, ReadFacts
  <2> HIDE DEF len, s, e, off, r, x, y
  <2> QED
    BY <1>1, <2>2
<1>3. DataSize \in Nat /\ DataSize > 0 /\ x \in Nat /\ y \in Nat
      /\ off \in Nat /\ off < DataSize /\ r \in Nat /\ r < DataSize
  <2>1. DataSize \in Nat \ {0}
    BY Constants
  <2>2. x \in Nat /\ y \in Nat
    BY <1>2, MulDiv
  <2> HIDE DEF off, r, x, y
  <2> QED
    BY <1>2, <2>1, <2>2 DEF Offset
<1> DEFINE R == ReadBytes(pos, count)
           b == [i \in 1 .. e - s - 1 |-> Piece(s + i, 0, DataSize)]
<1>4. R = IF len = 0 THEN << >>
          ELSE IF s = e THEN Piece(s, off, len)
          ELSE Piece(s, off, DataSize - off) \o FlattenSeq(b) \o Piece(e, 0, r)
  BY DEF ReadBytes
<1> HIDE DEF R, len, s, e, off, r
<1>5. CASE len = 0
  <2>1. Part(pos, end) = << >>
    BY <1>5, PartEmpty
  <2> QED
    BY <1>4, <1>5, <2>1 DEF R, len
<1>6. CASE len # 0 /\ s = e
  <2>1. off + len <= DataSize /\ x + off + len <= Len(file) /\ x + off = pos
    <3>1. x = y
      BY <1>6
    <3> HIDE DEF x, y
    <3> QED
      BY <1>1, <1>2, <1>3, <3>1
  <2>2. Piece(s, off, len) = Part(x + off, x + off + len)
    BY <1>2, <1>3, <2>1, PieceOfFile
  <2> QED
    BY <1>4, <1>6, <2>1, <2>2 DEF R, len
<1>7. CASE len # 0 /\ s # e
  <2> DEFINE z == DataSize * (s + 1)
             m == e - s - 1
  <2>1. s < e
    <3> SUFFICES ASSUME e < s PROVE FALSE
      BY <1>2, <1>7
    <3>1. y + DataSize <= x
      BY <1>2, BlockOrder
    <3> HIDE DEF x, y
    <3> QED
      BY <1>2, <1>3, <3>1
  <2>2. m \in Nat /\ s + 1 + m = e /\ s + 1 \in Nat
    BY <1>2, <2>1
  <2>3. z = x + DataSize /\ z \in Nat
    BY <1>2, <1>3
  <2>4. z <= y
    <3>1. x + DataSize <= y
      BY <1>2, <2>1, BlockOrder
    <3> HIDE DEF x, y, z
    <3> QED
      BY <2>3, <3>1
  (* the end of the first block *)
  <2>5. Piece(s, off, DataSize - off) = Part(pos, z)
    <3> DEFINE size == DataSize - off
    <3>1. size \in Nat /\ off + size <= DataSize /\ x + off + size <= Len(file)
          /\ x + off = pos /\ x + off + size = z
      <4> HIDE DEF x, y, z
      <4> QED
        BY <1>1, <1>2, <1>3, <2>3, <2>4
    <3> HIDE DEF size
    <3>2. Piece(s, off, size) = Part(x + off, x + off + size)
      BY <1>2, <1>3, <3>1, PieceOfFile
    <3> QED
      BY <3>1, <3>2 DEF size
  (* the whole blocks *)
  <2>6. FlattenSeq(b) = Part(z, y)
    <3>1. CASE m = 0
      <4>1. b = << >>
        BY <3>1
      <4>2. FlattenSeq(b) = << >>
        BY <4>1 DEF FlattenSeq
      <4>3. z = y
        BY <2>2, <3>1
      <4>4. Part(z, y) = << >>
        BY <2>3, <4>3, PartEmpty
      <4> QED
        BY <4>2, <4>4
    <3>2. CASE m # 0
      <4> DEFINE c == [i \in 0 .. m |-> DataSize * (s + 1 + i)]
      <4>1. ASSUME NEW i \in 0 .. m
            PROVE  /\ s + 1 + i \in Nat /\ c[i] \in Nat /\ c[i] = DataSize * (s + 1 + i)
        <5>1. s + 1 + i \in Nat
          BY <1>2, <2>2
        <5>2. c[i] = DataSize * (s + 1 + i)
          OBVIOUS
        <5> QED
          BY <5>1, <5>2, MulDiv
      <4>2. c \in [0 .. m -> Nat]
        BY <4>1
      <4>3. ASSUME NEW i \in 0 .. m, NEW j \in 0 .. m, i <= j PROVE c[i] <= c[j]
        <5> DEFINE u == s + 1 + i
                   v == s + 1 + j
        <5>1. u \in Nat /\ v \in Nat /\ c[i] = DataSize * u /\ c[j] = DataSize * v
              /\ c[i] \in Nat /\ c[j] \in Nat
          BY <4>1
        <5>2. i = j \/ u < v
          BY <1>2, <2>2, <4>3
        <5> HIDE DEF u, v, c
        <5>3. CASE u < v
          <6>1. c[i] + DataSize <= c[j]
            BY <5>1, <5>3, BlockOrder
          <6> QED
            BY <1>3, <5>1, <6>1
        <5> QED
          BY <5>1, <5>2, <5>3
      <4>4. c[0] = z /\ c[m] = y
        <5>1. 0 \in 0 .. m /\ m \in 0 .. m /\ s + 1 + 0 = s + 1 /\ s + 1 + m = e
          BY <1>2, <2>2
        <5> QED
          BY <5>1
      <4>5. ASSUME NEW i \in 1 .. m PROVE b[i] = Part(c[i - 1], c[i])
        <5> DEFINE n == s + i
                   w == DataSize * n
        <5>1. /\ i - 1 \in 0 .. m /\ i \in 0 .. m /\ n \in Nat /\ n < e /\ n + 1 \in Nat
              /\ s + 1 + (i - 1) = n /\ s + 1 + i = n + 1
          BY <1>2, <2>2
        <5>2. b[i] = Piece(n, 0, DataSize)
          OBVIOUS
        <5>3. c[i - 1] = w /\ c[i] = DataSize * (n + 1)
          BY <5>1
        <5> HIDE DEF n, b, c
        <5>4. w \in Nat /\ DataSize * (n + 1) = w + DataSize
          BY <1>3, <5>1
        <5>5. w + DataSize <= y
          BY <1>2, <5>1, BlockOrder
        <5>6. w + 0 + DataSize <= Len(file) /\ 0 + DataSize <= DataSize
              /\ w + 0 = w /\ w + 0 + DataSize = w + DataSize
          <6> HIDE DEF w, y
          <6> QED
            BY <1>1, <1>2, <1>3, <5>4, <5>5
        <5>7. Piece(n, 0, DataSize) = Part(w + 0, w + 0 + DataSize)
          BY <1>3, <5>1, <5>6, PieceOfFile
        <5> HIDE DEF w
        <5>8. Piece(n, 0, DataSize) = Part(w, w + DataSize)
          BY <5>6, <5>7
        <5>9. c[i] = w + DataSize
          BY <5>3, <5>4
        <5> QED
          BY <5>2, <5>3, <5>8, <5>9
      <4>6. b = [i \in 1 .. m |-> b[i]]
        OBVIOUS
      <4> HIDE DEF b, c
      <4>7. b = [i \in 1 .. m |-> Part(c[i - 1], c[i])]
        BY <4>5, <4>6
      <4>8. y <= Len(file)
        <5> HIDE DEF y
        <5> QED
          BY <1>1, <1>2, <1>3
      <4>9. m \in Nat \ {0} /\ c[m] <= Len(file)
        BY <2>2, <3>2, <4>4, <4>8
      <4> HIDE DEF m, y, z
      <4>10. FlattenSeq(b) = Part(c[0], c[m])
        BY <1>1, <4>2, <4>3, <4>7, <4>9, PartsJoined
      <4> QED
        BY <4>4, <4>10
    <3> QED
      BY <3>1, <3>2
  (* the beginning of the last block *)
  <2>7. Piece(e, 0, r) = Part(y, end)
    <3>1. y + 0 + r <= Len(file) /\ 0 + r <= DataSize /\ y + 0 = y /\ y + 0 + r = end
      <4> HIDE DEF y
      <4> QED
        BY <1>1, <1>2, <1>3
    <3>2. Piece(e, 0, r) = Part(y + 0, y + 0 + r)
      BY <1>2, <1>3, <3>1, PieceOfFile
    <3> HIDE DEF y
    <3> QED
      BY <3>1, <3>2
  <2>8. pos <= z /\ y <= end /\ y <= Len(file) /\ pos <= y
    <3> HIDE DEF x, y, z
    <3> QED
      BY <1>1, <1>2, <1>3, <2>3, <2>4
  <2> HIDE DEF b, z, y, end
  <2>9. Part(pos, z) \o Part(z, y) = Part(pos, y)
    BY <1>1, <1>3, <2>3, <2>4, <2>8, PartsMeet
  <2>10. Part(pos, y) \o Part(y, end) = Part(pos, end)
    BY <1>1, <1>2, <1>3, <2>8, PartsMeet
  <2>11. R = Part(pos, end)
    BY <1>4, <1>7, <2>5, <2>6, <2>7, <2>9, <2>10
  <2> QED
    BY <2>11 DEF R, end, len
<1> QED
  BY <1>5, <1>6, <1>7

(* Inside the envelope a file reads back, between calls, as the bytes that *)
(* were written last, and every block of the read is found: for every      *)
(* block size, number of pointers, sequence of writes and appends, and     *)
(* every position and length of the read (hodo_file_read_iter,             *)
(* hodo.c:210-280).                                                        *)
THEOREM WrittenBytesReadBack == SafeSpec => []ReadsBack
<1>1. FileInv => ReadsBack
  <2> SUFFICES ASSUME FileInv, Quiet PROVE ReadsBack
    BY DEF ReadsBack
  <2>1. inode.file_len = Len(file) /\ Len(file) \in Nat
    <3>1. DataOK(blocks, inode, file, Idle) /\ file \in Seq(Byte)
      BY DEF FileInv
    <3>2. LenIn(file, Idle) = Len(file)
      BY DEF LenIn, Idle
    <3> QED
      BY <3>1, <3>2 DEF DataOK
  <2>2. ASSUME NEW pos \in 0 .. Len(file) - 1, NEW count \in Lens, SafeRead(pos, count)
        PROVE  /\ ~ReadHitsZero(pos, count)
               /\ ReadBytes(pos, count) = SubSeq(file, pos + 1, pos + ReadLen(pos, count))
    <3>1. pos \in Nat /\ count \in Nat /\ pos < Len(file)
      BY <2>1, FileAssumption
    <3>2. ~ReadHitsZero(pos, count)
      BY <2>1, <2>2, <3>1, NoZero DEF ReadHitsZero
    <3>3. ReadBytes(pos, count) = Part(pos, pos + ReadLen(pos, count))
      BY <3>1, ReadIsPart
    <3> QED
      BY <3>2, <3>3 DEF Part
  <2> QED
    BY <2>1, <2>2 DEF ReadsBack
<1> QED
  BY <1>1, FileInductive, PTL

(* Inside the envelope, also where buffers may fail outside it: the tree   *)
(* stays sound, no read or write follows a number that is not a block of   *)
(* the file, and an append writes at the end (trans.c:286-623,             *)
(* hodo.c:210-296).                                                        *)
THEOREM EnvelopeIsSound ==
    SafeSpec => [](LevelsMatch /\ NoLeak /\ ReadsInBounds /\ AppendsAtEnd)
<1>1. FileInv => LevelsMatch /\ NoLeak
  BY TreeSound DEF FileInv, TreeInv
<1>2. FileInv => ReadsInBounds
  BY DEF FileInv, ReadsInBounds
<1>3. FileInv => AppendsAtEnd
  BY DEF FileInv, AppendsAtEnd
<1> QED
  BY <1>1, <1>2, <1>3, FileInductive, PTL

================================================================================
