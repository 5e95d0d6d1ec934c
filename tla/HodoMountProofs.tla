---------------------------- MODULE HodoMountProofs ----------------------------
(***************************************************************************)
(* Theorems about HodoMount: when the first start-up is waited for and the *)
(* module stays loaded, the root inode and every name are found again      *)
(* after any sequence of mounts, unmounts and start-ups, for every         *)
(* geometry and every set of names.                                        *)
(*                                                                         *)
(* A creation is three calls of hodo_write_struct, and MountInv says what  *)
(* each relies on: the log is written up to wp and empty after it, so the  *)
(* next block is accepted and changes no other; the numbers in use are the *)
(* first k, and k is at most the number of blocks written, so a number is  *)
(* free and it is nobody else's.                                           *)
(***************************************************************************)
EXTENDS HodoMount, TLAPS

--------------------------------------------------------------------------------
(* The inductive invariant *)

Block ==
    [magic : {"DAT", "INO", ""}, lbn : Int,
     data  : [direct : Lbn \cup {0}, names : SUBSET Names]]

Info ==
    [mapping_table        : [Lbn -> BlockPos],
     logical_entry_bitmap : SUBSET Entry,
     GC_bitmap            : SUBSET BlockPos,
     wp                   : BlockPos,
     swap_wp              : BlockPos,
     seq                  : [SeqFiles -> Seq(Block)],
     fault                : {FALSE}]

(* How many blocks lie before p in the data zones. *)
Rank(p) == (p.zone_id - 1) * BlocksPerZone + p.block_index

(* wp is where zonefs takes the next block, and later zones are empty. *)
Frontier(s) ==
    /\ s \in Info
    /\ s.wp.zone_id \in 1 .. SwapZone
    /\ Len(s.seq[s.wp.zone_id]) = s.wp.block_index
    /\ \A z \in SeqFiles : z > s.wp.zone_id => Len(s.seq[z]) = 0

(* The first k numbers are in use. *)
Counted(s, k) == k \in Nat /\ s.logical_entry_bitmap = 0 .. k - 1

(* A volume that is up: is number n there, what does it read as, and what  *)
(* does a write leave.                                                     *)
There(s, n) == n \in Lbn /\ Written(s, s.mapping_table[n])

At(s, n) == Read(s, starting_logical_number, TRUE, n)

Wrote(s, b, n) == Write(s, starting_logical_number, TRUE, b, n)

InUse(s, n) == n - starting_logical_number \in s.logical_entry_bitmap

(* The root inode is there, and its dirent block holds these names. *)
RootHolds(s, names) ==
    LET root == At(s, RootIno)
        d    == root.data.direct
    IN  /\ There(s, RootIno) /\ InUse(s, RootIno)
        /\ root.magic = "INO" /\ root.lbn = RootIno
        /\ d = 0 => names = {}
        /\ d # 0 => /\ d # RootIno /\ InUse(s, d)
                    /\ There(s, d)
                    /\ At(s, d).data.names = names

NotStarted ==
    /\ store = ZeroInfo([z \in SeqFiles |-> << >>])
    /\ start = 0 /\ made = {}
    /\ late > 0 => mounted

Running ==
    /\ start = starting_logical_number
    /\ Frontier(store)
    /\ \E k \in 0 .. Rank(store.wp) : Counted(store, k)
    /\ RootHolds(store, made)

MountInv ==
    /\ late \in Nat /\ path \in BOOLEAN /\ mounted \in BOOLEAN
    /\ made \in SUBSET Names
    /\ ~path => NotStarted
    /\ path => Running
--------------------------------------------------------------------------------
(* Geometry *)

LEMMA Geometry ==
    /\ NZones \in Nat /\ NZones >= 4 /\ BlocksPerZone \in Nat /\ BlocksPerZone >= 2
    /\ SwapZone \in Nat /\ SwapZone = NZones - 2 /\ SwapZone >= 2
    /\ NEntries \in Nat /\ starting_logical_number = NZones
    /\ Lbn = NZones .. NZones + NEntries - 1 /\ 0 \notin Lbn /\ Lbn \subseteq Nat
    /\ RootIno = NZones
<1> USE GeometryAssumption
<1>1. NEntries \in Nat
  BY DEF NEntries
<1> QED
  BY <1>1 DEF SwapZone, Lbn, starting_logical_number, RootIno

LEMMA PosFields ==
    ASSUME NEW p \in BlockPos
    PROVE  /\ p.zone_id \in Nat /\ p.block_index \in Nat
           /\ p.block_index <= BlocksPerZone - 1 /\ p = Pos(p.zone_id, p.block_index)
BY Geometry DEF BlockPos, ZoneId, BlockIndex, Pos

(* The write pointer moves on by one block. *)
LEMMA RankStep ==
    ASSUME NEW p \in BlockPos, p.zone_id \in 1 .. SwapZone - 1
    PROVE  /\ Advanced(p) \in BlockPos
           /\ Advanced(p).zone_id \in 1 .. SwapZone
           /\ Advanced(p).zone_id >= p.zone_id
           /\ Rank(Advanced(p)) = Rank(p) + 1
<1> DEFINE z == p.zone_id
           b == p.block_index
<1>1. z \in Nat /\ b \in Nat /\ b <= BlocksPerZone - 1 /\ z >= 1 /\ z <= NZones - 3
      /\ p.zone_id \in SeqFiles
  BY PosFields, Geometry DEF SeqFiles
<1>2. CASE b = BlocksPerZone - 1
  <2>1. Advanced(p) = Pos(z + 1, 0)
    BY <1>1, <1>2 DEF Advanced
  <2>2. Rank(Advanced(p)) = z * BlocksPerZone
    <3>1. (z + 1 - 1) * BlocksPerZone + 0 = z * BlocksPerZone
      BY <1>1, Geometry
    <3> QED
      BY <2>1, <3>1 DEF Rank, Pos
  <2>3. (z - 1) * BlocksPerZone + (BlocksPerZone - 1) + 1 = z * BlocksPerZone
    BY <1>1, Geometry
  <2>4. Rank(p) + 1 = z * BlocksPerZone
    BY <1>2, <2>3 DEF Rank
  <2>5. Advanced(p) \in BlockPos /\ Advanced(p).zone_id = z + 1
    BY <1>1, <2>1, Geometry DEF BlockPos, ZoneId, BlockIndex, Pos
  <2> QED
    BY <1>1, <2>2, <2>4, <2>5, Geometry
<1>3. CASE b # BlocksPerZone - 1
  <2>1. Advanced(p) = Pos(z, b + 1)
    BY <1>1, <1>3 DEF Advanced
  <2>2. Advanced(p) \in BlockPos /\ Advanced(p).zone_id = z
    BY <1>1, <1>3, <2>1, Geometry DEF BlockPos, ZoneId, BlockIndex, Pos
  <2>3. (z - 1) * BlocksPerZone \in Int
    BY <1>1, Geometry
  <2>4. Rank(Advanced(p)) = Rank(p) + 1
    BY <1>1, <2>1, <2>3 DEF Rank, Pos
  <2> QED
    BY <1>1, <2>2, <2>4, Geometry
<1> QED
  BY <1>2, <1>3

(* There are more numbers than blocks in the data zones. *)
LEMMA RankBound ==
    ASSUME NEW p \in BlockPos, p.zone_id \in 1 .. SwapZone
    PROVE  Rank(p) \in Nat /\ Rank(p) + 1 < NEntries
<1> DEFINE z == p.zone_id
           b == p.block_index
           B == BlocksPerZone
<1>1. z \in Nat /\ b \in Nat /\ b <= B - 1 /\ z >= 1 /\ z <= NZones - 2 /\ B \in Nat /\ B >= 2
  BY PosFields, Geometry
<1>2. PICK y \in Nat : y = z - 1
  BY <1>1
<1>3. PICK x \in Nat : NZones = y + x /\ x >= 3
  <2>1. \A n \in Nat : y + 3 <= n => n - y \in Nat /\ n = y + (n - y) /\ n - y >= 3
    OBVIOUS
  <2>2. NZones \in Nat /\ y + 3 <= NZones
    BY <1>1, <1>2, Geometry
  <2> QED
    BY <2>1, <2>2
<1>4. (y + x) * B = y * B + x * B /\ x * B >= B + B /\ y * B \in Nat /\ x * B \in Nat
  BY <1>1, <1>2, <1>3
<1>5. Rank(p) = y * B + b
  BY <1>2 DEF Rank
<1>6. NEntries = y * B + x * B
  BY <1>3, <1>4 DEF NEntries
<1> HIDE DEF B, b, z
<1> QED
  BY <1>1, <1>4, <1>5, <1>6

--------------------------------------------------------------------------------
(* Numbers *)

(* hodo_get_next_logical_number gives the number after those in use. *)
LEMMA FirstFreeIs ==
    ASSUME NEW s, NEW k, Counted(s, k), k < NEntries
    PROVE  FirstFree(s) = k
<1>1. k \in Nat /\ NEntries \in Nat /\ s.logical_entry_bitmap = 0 .. k - 1
  BY Geometry DEF Counted
<1>2. FreeEntries(s) = k .. NEntries - 1
  BY <1>1 DEF FreeEntries, Entry
<1>3. k \in FreeEntries(s) /\ \A j \in FreeEntries(s) : k <= j
  BY <1>1, <1>2
<1>4. \A i \in FreeEntries(s) : (\A j \in FreeEntries(s) : i <= j) => i = k
  BY <1>1, <1>2, <1>3
<1> QED
  BY <1>3, <1>4 DEF FirstFree

--------------------------------------------------------------------------------
(* Writing and reading *)

LEMMA InfoFields ==
    ASSUME NEW s \in Info
    PROVE  /\ s.mapping_table \in [Lbn -> BlockPos]
           /\ s.logical_entry_bitmap \in SUBSET Entry
           /\ s.GC_bitmap \in SUBSET BlockPos
           /\ s.wp \in BlockPos
           /\ s.seq \in [SeqFiles -> Seq(Block)]
BY DEF Info

(* What Frontier says of a log that has room for a block. *)
LEMMA FrontierFacts ==
    ASSUME NEW s, Frontier(s), s.wp.zone_id < SwapZone
    PROVE  /\ s \in Info
           /\ s.wp \in BlockPos
           /\ s.wp.zone_id \in 1 .. SwapZone - 1 /\ s.wp.zone_id \in SeqFiles
           /\ s.wp.zone_id + 1 \in SeqFiles
           /\ s.wp.block_index \in Nat /\ s.wp.block_index <= BlocksPerZone - 1
           /\ Len(s.seq[s.wp.zone_id]) = s.wp.block_index
           /\ \A z \in SeqFiles : z > s.wp.zone_id => Len(s.seq[z]) = 0
<1>1. s \in Info /\ s.wp \in BlockPos
  BY InfoFields DEF Frontier
<1>2. s.wp.block_index \in Nat /\ s.wp.block_index <= BlocksPerZone - 1
  BY <1>1, PosFields
<1>3. PICK z : z = s.wp.zone_id
  OBVIOUS
<1>4. z \in 1 .. SwapZone /\ z < SwapZone
  BY <1>3 DEF Frontier
<1>5. SwapZone = NZones - 2 /\ NZones \in Nat /\ NZones >= 4
  BY Geometry
<1>6. z \in 1 .. SwapZone - 1 /\ z \in SeqFiles /\ z + 1 \in SeqFiles
  BY <1>4, <1>5 DEF SeqFiles
<1> QED
  BY <1>1, <1>2, <1>3, <1>6 DEF Frontier

LEMMA AppendFacts ==
    ASSUME NEW S, NEW q \in Seq(S), NEW b \in S, NEW r, r = Append(q, b)
    PROVE  /\ Len(r) = Len(q) + 1 /\ r[Len(q) + 1] = b
           /\ \A j \in Nat : j < Len(q) => r[j + 1] = q[j + 1]
OBVIOUS

(* A block written at wp is taken: it is read under its number from then   *)
(* on, and every other block reads as before.                              *)
LEMMA PutBlock ==
    ASSUME NEW s, NEW t \in Info, NEW n \in Lbn, NEW b \in Block,
           Frontier(s), s.wp.zone_id < SwapZone,
           t.mapping_table = [s.mapping_table EXCEPT ![n] = s.wp],
           t.wp = Advanced(s.wp),
           t.seq = zonefs_write(s.seq, s.wp, b)
    PROVE  /\ Frontier(t)
           /\ There(t, n) /\ At(t, n) = b
           /\ \A m \in Lbn \ {n} : There(s, m) => There(t, m) /\ At(t, m) = At(s, m)
<1> DEFINE z == s.wp.zone_id
           i == s.wp.block_index
<1>1. /\ s \in Info /\ s.wp \in BlockPos /\ z \in 1 .. SwapZone - 1 /\ z \in SeqFiles
      /\ z + 1 \in SeqFiles
      /\ i \in Nat /\ i <= BlocksPerZone - 1 /\ Len(s.seq[z]) = i
      /\ s.seq \in [SeqFiles -> Seq(Block)] /\ s.mapping_table \in [Lbn -> BlockPos]
      /\ \A y \in SeqFiles : y > z => Len(s.seq[y]) = 0
  BY FrontierFacts, InfoFields
<1>2. t.seq = [s.seq EXCEPT ![z] = Append(s.seq[z], b)]
  BY <1>1 DEF zonefs_write
<1>3. /\ t.seq[z] = Append(s.seq[z], b)
      /\ \A y \in SeqFiles : y # z => t.seq[y] = s.seq[y]
  BY <1>1, <1>2
<1>3a. s.seq[z] \in Seq(Block)
  BY <1>1
<1>4. /\ Len(t.seq[z]) = i + 1
      /\ t.seq[z][i + 1] = b
      /\ \A j \in Nat : j < i => t.seq[z][j + 1] = s.seq[z][j + 1]
  <2>1. PICK q, r : q = s.seq[z] /\ r = t.seq[z]
    OBVIOUS
  <2>2. q \in Seq(Block) /\ r = Append(q, b) /\ Len(q) = i
    BY <1>1, <1>3, <1>3a, <2>1
  <2>3. /\ Len(r) = Len(q) + 1 /\ r[Len(q) + 1] = b
        /\ \A j \in Nat : j < Len(q) => r[j + 1] = q[j + 1]
    BY <2>2, AppendFacts
  <2> QED
    BY <2>1, <2>2, <2>3
<1>5. Frontier(t)
  <2>1. /\ t.wp \in BlockPos /\ t.wp.zone_id \in 1 .. SwapZone
    BY <1>1, RankStep
  <2>2. CASE i = BlocksPerZone - 1
    <3>1. t.wp.zone_id = z + 1 /\ t.wp.block_index = 0
      BY <1>1, <2>2 DEF Advanced, Pos
    <3>2. z \in Nat /\ \A y \in SeqFiles : y \in Nat
      BY <1>1, Geometry DEF SeqFiles
    <3>3. \A y \in SeqFiles : y > z => Len(t.seq[y]) = 0
      BY <1>1, <1>3, <3>2
    <3>4. z + 1 > z /\ \A y \in SeqFiles : y > z + 1 => y > z
      BY <3>2
    <3>5. Len(t.seq[z + 1]) = 0
      BY <1>1, <3>3, <3>4
    <3> QED
      BY <2>1, <3>1, <3>3, <3>4, <3>5 DEF Frontier
  <2>3. CASE i # BlocksPerZone - 1
    <3>1. t.wp.zone_id = z /\ t.wp.block_index = i + 1
      BY <1>1, <2>3 DEF Advanced, Pos
    <3>2. \A y \in SeqFiles : y > z => Len(t.seq[y]) = 0
      BY <1>1, <1>3
    <3> QED
      BY <1>1, <1>4, <2>1, <3>1, <3>2 DEF Frontier
  <2> QED
    BY <2>2, <2>3
<1>6. \A m \in Lbn : Slot(m, starting_logical_number) = m
  BY Geometry DEF Slot
<1>7. There(t, n) /\ At(t, n) = b
  <2>1. t.mapping_table[n] = s.wp
    BY <1>1
  <2>2. Written(t, s.wp)
    BY <1>1, <1>4 DEF Written
  <2>3. hodo_GC_read_struct(t, s.wp, Zero) = b
    BY <1>4, <2>2 DEF hodo_GC_read_struct
  <2> QED
    BY <1>6, <2>1, <2>2, <2>3 DEF There, At, Read
<1>8. ASSUME NEW m \in Lbn \ {n}, There(s, m)
      PROVE  There(t, m) /\ At(t, m) = At(s, m)
  <2> DEFINE p == s.mapping_table[m]
  <2>1. t.mapping_table[m] = p /\ p \in BlockPos /\ Written(s, p)
    BY <1>1, <1>8 DEF There
  <2>2. p.zone_id \in SeqFiles /\ p.block_index \in Nat
        /\ p.block_index < Len(s.seq[p.zone_id])
    BY <2>1, PosFields DEF Written
  <2>3. Written(t, p) /\ t.seq[p.zone_id][p.block_index + 1]
                           = s.seq[p.zone_id][p.block_index + 1]
    <3>1. CASE p.zone_id = z
      <4>1. p.block_index < i
        BY <1>1, <2>2, <3>1
      <4>2. p.block_index < i + 1
        BY <1>1, <2>2, <4>1
      <4> QED
        BY <1>1, <1>4, <2>2, <3>1, <4>1, <4>2 DEF Written
    <3>2. CASE p.zone_id # z
      BY <1>3, <2>2, <3>2 DEF Written
    <3> QED
      BY <3>1, <3>2
  <2>4. hodo_GC_read_struct(t, p, Zero) = hodo_GC_read_struct(s, p, Zero)
    BY <2>1, <2>3 DEF hodo_GC_read_struct
  <2> QED
    BY <1>6, <2>1, <2>3, <2>4 DEF There, At, Read
<1> QED
  BY <1>5, <1>7, <1>8

(* A block that is there is one of the blocks of its zone file. *)
LEMMA ReadBlock ==
    ASSUME NEW s, Frontier(s), NEW n, There(s, n)
    PROVE  At(s, n) \in Block
<1> DEFINE p == s.mapping_table[n]
<1>1. n \in Lbn /\ p \in BlockPos /\ Written(s, p)
  BY DEF Frontier, Info, There
<1>2. p.zone_id \in SeqFiles /\ p.block_index \in Nat
      /\ p.block_index < Len(s.seq[p.zone_id]) /\ s.seq[p.zone_id] \in Seq(Block)
  BY <1>1, PosFields DEF Written, Frontier, Info
<1>3. Slot(n, starting_logical_number) = n
  BY <1>1, Geometry DEF Slot
<1>4. At(s, n) = s.seq[p.zone_id][p.block_index + 1]
  BY <1>1, <1>3 DEF At, Read, hodo_GC_read_struct
<1> QED
  BY <1>2, <1>4

LEMMA StampedType ==
    ASSUME NEW b \in Block, NEW n \in Lbn
    PROVE  /\ Stamped(b, n) \in Block /\ Stamped(b, n).data = b.data
           /\ b.magic # "DAT" => Stamped(b, n) = b
<1>1. n \in Int
  BY Geometry
<1> QED
  BY <1>1 DEF Stamped, Block

(* The fields of the store after a write. *)
Put(s, n, bits, valid, wp, seq) ==
    [s EXCEPT !.mapping_table[n] = s.wp, !.logical_entry_bitmap = bits,
              !.GC_bitmap = valid, !.wp = wp, !.seq = seq]

PutTypes(bits, valid, wp, seq) ==
    /\ bits \in SUBSET Entry /\ valid \in SUBSET BlockPos
    /\ wp \in BlockPos /\ seq \in [SeqFiles -> Seq(Block)]

LEMMA WriteFields ==
    ASSUME NEW s \in Info, NEW n \in Lbn, NEW bits, NEW valid, NEW wp, NEW seq, NEW t,
           PutTypes(bits, valid, wp, seq),
           t = Put(s, n, bits, valid, wp, seq)
    PROVE  /\ t \in Info
           /\ t.mapping_table = [s.mapping_table EXCEPT ![n] = s.wp]
           /\ t.logical_entry_bitmap = bits
           /\ t.wp = wp
           /\ t.seq = seq
<1>1. PICK table : table = [s.mapping_table EXCEPT ![n] = s.wp]
  OBVIOUS
<1>2. table \in [Lbn -> BlockPos]
  BY <1>1, InfoFields
<1>3. t = [s EXCEPT !.mapping_table = table, !.logical_entry_bitmap = bits,
                    !.GC_bitmap = valid, !.wp = wp, !.seq = seq]
  BY <1>1 DEF Put
<1> QED
  BY <1>1, <1>2, <1>3 DEF Info, PutTypes

(* hodo_write_struct with a number. *)
LEMMA WriteOld ==
    ASSUME NEW s, NEW n \in Lbn, NEW b \in Block, Frontier(s), s.wp.zone_id < SwapZone
    PROVE  LET w == Wrote(s, b, n)
           IN  /\ w.n = n /\ Frontier(w.s)
               /\ w.s.wp = Advanced(s.wp)
               /\ w.s.logical_entry_bitmap = s.logical_entry_bitmap
               /\ There(w.s, n) /\ At(w.s, n) = Stamped(b, n)
               /\ \A m \in Lbn \ {n} : There(s, m) =>
                     There(w.s, m) /\ At(w.s, m) = At(s, m)
<1> DEFINE w == Wrote(s, b, n)
<1>1. s \in Info /\ s.wp \in BlockPos /\ s.wp.zone_id \in 1 .. SwapZone - 1
  BY FrontierFacts
<1>2. n # NEW_DATABLOCK /\ Slot(n, starting_logical_number) = n
  BY Geometry DEF NEW_DATABLOCK, Slot
<1>2a. PICK t : t = w.s
  OBVIOUS
<1>2b. PICK c : c = Stamped(b, n)
  OBVIOUS
<1>2c. PICK wp : wp = Advanced(s.wp)
  OBVIOUS
<1>3. PICK seq : seq = zonefs_write(s.seq, s.wp, c)
  OBVIOUS
<1>4. PICK valid : valid = (s.GC_bitmap \cup {s.wp}) \ {s.mapping_table[n]}
  OBVIOUS
<1>4a. PICK bits : bits = s.logical_entry_bitmap
  OBVIOUS
<1>5. /\ w.n = n
      /\ t = Put(s, n, bits, valid, wp, seq)
  BY <1>2, <1>2a, <1>2b, <1>2c, <1>3, <1>4, <1>4a DEF Wrote, Write, Put
<1>5a. /\ t \in Info
       /\ t.mapping_table = [s.mapping_table EXCEPT ![n] = s.wp]
       /\ t.logical_entry_bitmap = bits
       /\ t.wp = wp
       /\ t.seq = seq
  <2>1. c \in Block /\ wp \in BlockPos
    BY <1>1, <1>2, <1>2b, <1>2c, StampedType, RankStep
  <2>2. seq \in [SeqFiles -> Seq(Block)]
    BY <1>1, <1>3, <2>1, InfoFields DEF zonefs_write
  <2>3. valid \in SUBSET BlockPos
    BY <1>1, <1>4, InfoFields
  <2>4. bits \in SUBSET Entry
    BY <1>1, <1>4a, InfoFields
  <2>5. PutTypes(bits, valid, wp, seq)
    BY <2>1, <2>2, <2>3, <2>4 DEF PutTypes
  <2> QED
    BY <1>1, <1>2, <1>5, <2>5, WriteFields
<1>5b. c \in Block
  BY <1>2, <1>2b, StampedType
<1>6. /\ Frontier(t)
      /\ There(t, n) /\ At(t, n) = c
      /\ \A m \in Lbn \ {n} : There(s, m) => There(t, m) /\ At(t, m) = At(s, m)
  BY <1>2c, <1>3, <1>5a, <1>5b, PutBlock
<1> QED
  BY <1>2a, <1>2b, <1>2c, <1>4a, <1>5, <1>5a, <1>6

(* hodo_write_struct of a new block. *)
LEMMA WriteNew ==
    ASSUME NEW s, NEW k, NEW b \in Block, Frontier(s), s.wp.zone_id < SwapZone,
           Counted(s, k), k < NEntries
    PROVE  LET w == Wrote(s, b, NEW_DATABLOCK)
               n == k + starting_logical_number
           IN  /\ n \in Lbn
               /\ w.n = n /\ Frontier(w.s)
               /\ w.s.wp = Advanced(s.wp)
               /\ Counted(w.s, k + 1)
               /\ There(w.s, n) /\ At(w.s, n) = Stamped(b, n)
               /\ \A m \in Lbn \ {n} : There(s, m) =>
                     There(w.s, m) /\ At(w.s, m) = At(s, m)
<1> DEFINE w == Wrote(s, b, NEW_DATABLOCK)
<1>0. PICK n : n = k + starting_logical_number
  OBVIOUS
<1>1. s \in Info /\ s.wp \in BlockPos /\ s.wp.zone_id \in 1 .. SwapZone - 1
  BY FrontierFacts
<1>2. k \in Nat /\ n \in Lbn /\ Slot(n, starting_logical_number) = n /\ FirstFree(s) = k
  <2>1. k \in Nat /\ FirstFree(s) = k
    BY FirstFreeIs DEF Counted
  <2>2. n \in NZones .. NZones + NEntries - 1 /\ n - NZones + NZones = n
    BY <1>0, <2>1, Geometry
  <2> QED
    BY <2>1, <2>2, Geometry DEF Slot
<1>2a. PICK t : t = w.s
  OBVIOUS
<1>2b. PICK c : c = Stamped(b, n)
  OBVIOUS
<1>2c. PICK wp : wp = Advanced(s.wp)
  OBVIOUS
<1>3. PICK seq : seq = zonefs_write(s.seq, s.wp, c)
  OBVIOUS
<1>4. PICK valid : valid = (s.GC_bitmap \cup {s.wp}) \ {}
  OBVIOUS
<1>4a. PICK bits : bits = s.logical_entry_bitmap \cup {k}
  OBVIOUS
<1>5. /\ w.n = n
      /\ t = Put(s, n, bits, valid, wp, seq)
  BY <1>0, <1>2, <1>2a, <1>2b, <1>2c, <1>3, <1>4, <1>4a DEF Wrote, Write, Put
<1>5a. /\ t \in Info
       /\ t.mapping_table = [s.mapping_table EXCEPT ![n] = s.wp]
       /\ t.logical_entry_bitmap = bits
       /\ t.wp = wp
       /\ t.seq = seq
  <2>1. c \in Block /\ wp \in BlockPos
    BY <1>1, <1>2, <1>2b, <1>2c, StampedType, RankStep
  <2>2. seq \in [SeqFiles -> Seq(Block)]
    BY <1>1, <1>3, <2>1, InfoFields DEF zonefs_write
  <2>3. valid \in SUBSET BlockPos
    BY <1>1, <1>4, InfoFields
  <2>4. bits \in SUBSET Entry
    BY <1>1, <1>2, <1>4a, InfoFields, Geometry DEF Entry
  <2>5. PutTypes(bits, valid, wp, seq)
    BY <2>1, <2>2, <2>3, <2>4 DEF PutTypes
  <2> QED
    BY <1>1, <1>2, <1>5, <2>5, WriteFields
<1>5b. c \in Block
  BY <1>2, <1>2b, StampedType
<1>6. /\ Frontier(t)
      /\ There(t, n) /\ At(t, n) = c
      /\ \A m \in Lbn \ {n} : There(s, m) => There(t, m) /\ At(t, m) = At(s, m)
  BY <1>2, <1>2c, <1>3, <1>5a, <1>5b, PutBlock
<1>7. Counted(t, k + 1)
  BY <1>2, <1>4a, <1>5a DEF Counted
<1> QED
  BY <1>0, <1>2, <1>2a, <1>2b, <1>2c, <1>5, <1>5a, <1>6, <1>7

--------------------------------------------------------------------------------
(* The root directory *)

LEMMA RootInLbn == RootIno \in Lbn
<1>1. NEntries >= 1
  BY GeometryAssumption DEF NEntries
<1> QED
  BY <1>1, Geometry

LEMMA BlockFields ==
    ASSUME NEW b \in Block
    PROVE  /\ b.data \in [direct : Lbn \cup {0}, names : SUBSET Names]
           /\ b.data.direct \in Lbn \cup {0} /\ b.data.names \in SUBSET Names
BY DEF Block

(* The root inode is written with its pointer at a dirent block. *)
LEMMA LinkRoot ==
    ASSUME NEW s, Frontier(s), s.wp.zone_id < SwapZone,
           NEW dir \in Block, dir.magic = "INO", dir.lbn = RootIno,
           NEW m \in Lbn, m # RootIno, NEW names,
           There(s, m), At(s, m).data.names = names, InUse(s, m), InUse(s, RootIno)
    PROVE  LET t == Wrote(s, [dir EXCEPT !.data.direct = m], RootIno).s
           IN  /\ Frontier(t) /\ t.wp = Advanced(s.wp)
               /\ t.logical_entry_bitmap = s.logical_entry_bitmap
               /\ RootHolds(t, names)
<1>1. PICK b : b = [dir EXCEPT !.data.direct = m]
  OBVIOUS
<1>2. b \in Block /\ b.magic = "INO" /\ b.lbn = RootIno /\ b.data.direct = m
  <2>1. PICK d : d = [dir.data EXCEPT !.direct = m]
    OBVIOUS
  <2>2. d \in [direct : Lbn \cup {0}, names : SUBSET Names] /\ d.direct = m
    BY <2>1, BlockFields
  <2>3. b = [dir EXCEPT !.data = d]
    BY <1>1, <2>1
  <2> QED
    BY <2>2, <2>3 DEF Block
<1>3. RootIno \in Lbn
  BY RootInLbn
<1>4. PICK t : t = Wrote(s, b, RootIno).s
  OBVIOUS
<1>5. /\ Frontier(t) /\ t.wp = Advanced(s.wp)
      /\ t.logical_entry_bitmap = s.logical_entry_bitmap
      /\ There(t, RootIno) /\ At(t, RootIno) = Stamped(b, RootIno)
      /\ There(t, m) /\ At(t, m) = At(s, m)
  BY <1>2, <1>3, <1>4, WriteOld
<1>6. At(t, RootIno) = b
  BY <1>2, <1>3, <1>5, StampedType
<1>7. RootHolds(t, names)
  BY <1>2, <1>5, <1>6, Geometry DEF RootHolds, InUse
<1> QED
  BY <1>1, <1>4, <1>5, <1>7

(* add_dirent on a root directory that is there. *)
LEMMA AddDirentGood ==
    ASSUME NEW s, Frontier(s), s.wp.zone_id < SwapZone,
           Advanced(s.wp).zone_id < SwapZone,
           NEW k, Counted(s, k), k < NEntries,
           NEW names \in SUBSET Names, NEW name \in Names, RootHolds(s, names),
           start = starting_logical_number, path, mounted
    PROVE  LET t == AddDirent(s, name)
           IN  /\ Frontier(t) /\ t.wp = Advanced(Advanced(s.wp))
               /\ Counted(t, k) \/ Counted(t, k + 1)
               /\ RootHolds(t, names \cup {name})
<1>1. Reach = TRUE
  BY DEF Reach
<1>2. PICK dir : dir = At(s, RootIno)
  OBVIOUS
<1>3. PICK d : d = dir.data.direct
  OBVIOUS
<1>4. /\ dir \in Block /\ There(s, RootIno) /\ InUse(s, RootIno)
      /\ dir.magic = "INO" /\ dir.lbn = RootIno
      /\ d \in Lbn \cup {0}
      /\ d = 0 => names = {}
      /\ d # 0 => /\ d # RootIno /\ InUse(s, d) /\ There(s, d)
                  /\ At(s, d).data.names = names
  <2>1. There(s, RootIno) /\ dir \in Block
    BY <1>2, ReadBlock DEF RootHolds
  <2> QED
    BY <1>2, <1>3, <2>1, BlockFields DEF RootHolds
<1>5. PICK blk : blk = IF d = 0 THEN DirentBlock({name})
                       ELSE [At(s, d) EXCEPT !.data.names = @ \cup {name}]
  OBVIOUS
<1>6. PICK w : w = Wrote(s, blk, d)
  OBVIOUS
<1>7. PICK t : t = AddDirent(s, name)
  OBVIOUS
<1>8. t = Wrote(w.s, [dir EXCEPT !.data.direct = w.n], RootIno).s
  BY <1>1, <1>2, <1>3, <1>5, <1>6, <1>7 DEF AddDirent, At, Wrote
<1>9. blk \in Block /\ blk.data.names = names \cup {name}
  <2>1. CASE d = 0
    <3>1. blk = [magic |-> "DAT", lbn |-> 0, data |-> [direct |-> 0, names |-> {name}]]
      BY <1>5, <2>1 DEF DirentBlock, Data
    <3>2. [direct |-> 0, names |-> {name}] \in [direct : Lbn \cup {0}, names : SUBSET Names]
      OBVIOUS
    <3>3. names \cup {name} = {name}
      BY <1>4, <2>1
    <3> QED
      BY <3>1, <3>2, <3>3 DEF Block
  <2>2. CASE d # 0
    <3>1. PICK b : b = At(s, d)
      OBVIOUS
    <3>2. b \in Block /\ b.data.names = names
      BY <1>4, <2>2, <3>1, ReadBlock
    <3>3. PICK x : x = [b.data EXCEPT !.names = @ \cup {name}]
      OBVIOUS
    <3>4. x \in [direct : Lbn \cup {0}, names : SUBSET Names]
          /\ x.names = names \cup {name}
      BY <3>2, <3>3, BlockFields
    <3>5. blk = [b EXCEPT !.data = x]
      BY <1>5, <2>2, <3>1, <3>3
    <3> QED
      BY <3>2, <3>4, <3>5 DEF Block
  <2> QED
    BY <2>1, <2>2
<1>10. /\ Frontier(w.s) /\ w.s.wp = Advanced(s.wp)
       /\ Counted(w.s, k) \/ Counted(w.s, k + 1)
       /\ w.n \in Lbn /\ w.n # RootIno /\ There(w.s, w.n) /\ InUse(w.s, w.n)
       /\ At(w.s, w.n).data.names = names \cup {name}
       /\ InUse(w.s, RootIno)
  <2>1. CASE d = 0
    <3>1. PICK n : n = k + starting_logical_number
      OBVIOUS
    <3>2. /\ n \in Lbn /\ w.n = n /\ Frontier(w.s) /\ w.s.wp = Advanced(s.wp)
          /\ Counted(w.s, k + 1)
          /\ There(w.s, n) /\ At(w.s, n) = Stamped(blk, n)
      BY <1>6, <1>9, <2>1, <3>1, WriteNew DEF NEW_DATABLOCK
    <3>3. k \in Nat /\ k >= 1
      BY <1>4, Geometry DEF Counted, InUse
    <3>4. n # RootIno /\ InUse(w.s, n) /\ InUse(w.s, RootIno)
      <4>1. w.s.logical_entry_bitmap = 0 .. k
        BY <3>2, <3>3 DEF Counted
      <4>2. /\ n - starting_logical_number = k /\ RootIno - starting_logical_number = 0
            /\ n # RootIno
        BY <3>1, <3>3, Geometry
      <4>3. k \in 0 .. k /\ 0 \in 0 .. k
        BY <3>3
      <4> QED
        BY <4>1, <4>2, <4>3 DEF InUse
    <3>5. At(w.s, n).data.names = names \cup {name}
      BY <1>9, <3>2, StampedType
    <3> QED
      BY <3>2, <3>4, <3>5
  <2>2. CASE d # 0
    <3>1. d \in Lbn
      BY <1>4, <2>2
    <3>2. /\ w.n = d /\ Frontier(w.s) /\ w.s.wp = Advanced(s.wp)
          /\ w.s.logical_entry_bitmap = s.logical_entry_bitmap
          /\ There(w.s, d) /\ At(w.s, d) = Stamped(blk, d)
      BY <1>6, <1>9, <3>1, WriteOld
    <3>3. At(w.s, d).data.names = names \cup {name}
      BY <1>9, <3>1, <3>2, StampedType
    <3> QED
      BY <1>4, <2>2, <3>1, <3>2, <3>3 DEF Counted, InUse
  <2> QED
    BY <2>1, <2>2
<1>11. PICK x, m : x = w.s /\ m = w.n
  OBVIOUS
<1>12. PICK all : all = names \cup {name}
  OBVIOUS
<1>13. /\ Frontier(t) /\ t.wp = Advanced(x.wp)
       /\ t.logical_entry_bitmap = x.logical_entry_bitmap
       /\ RootHolds(t, all)
  BY <1>4, <1>8, <1>10, <1>11, <1>12, LinkRoot
<1> QED
  BY <1>7, <1>10, <1>11, <1>12, <1>13 DEF Counted

(* A number is taken before its block is written. *)
Taken(s) == [s EXCEPT !.logical_entry_bitmap = @ \cup {FirstFree(s)}]

LEMMA TakeNumber ==
    ASSUME NEW s, Frontier(s), NEW k, Counted(s, k), k < NEntries
    PROVE  /\ Frontier(Taken(s)) /\ Counted(Taken(s), k + 1) /\ Taken(s).wp = s.wp
           /\ \A n \in Lbn : There(s, n) => There(Taken(s), n) /\ At(Taken(s), n) = At(s, n)
<1>1. PICK bits : bits = s.logical_entry_bitmap \cup {k}
  OBVIOUS
<1>2. PICK t : t = [s EXCEPT !.logical_entry_bitmap = bits]
  OBVIOUS
<1>3. Taken(s) = t
  BY <1>1, <1>2, FirstFreeIs DEF Taken
<1>4. s \in Info /\ k \in Nat /\ s.logical_entry_bitmap = 0 .. k - 1
  BY DEF Frontier, Counted
<1>5. bits = 0 .. (k + 1) - 1 /\ bits \in SUBSET Entry
  BY <1>1, <1>4, Geometry DEF Entry
<1>6. /\ t \in Info /\ t.wp = s.wp /\ t.seq = s.seq /\ t.mapping_table = s.mapping_table
      /\ t.logical_entry_bitmap = bits
  BY <1>2, <1>4, <1>5 DEF Info
<1>7. Frontier(t) /\ Counted(t, k + 1)
  BY <1>4, <1>5, <1>6 DEF Frontier, Counted
<1>8. \A n : There(s, n) => There(t, n) /\ At(t, n) = At(s, n)
  BY <1>6 DEF There, At, Read, hodo_GC_read_struct, Written
<1> QED
  BY <1>3, <1>6, <1>7, <1>8

(* The first start-up, on a formatted device. *)
LEMMA FirstMountGood ==
    ASSUME NEW s, s = ZeroInfo([z \in SeqFiles |-> << >>])
    PROVE  LET t == FirstMount(s, TRUE)
           IN  /\ Frontier(t)
               /\ \E k \in 0 .. Rank(t.wp) : Counted(t, k)
               /\ RootHolds(t, {})
<1>1. PICK e : e = [s EXCEPT !.wp = Pos(1, 0), !.swap_wp = Pos(SwapZone, 0)]
  OBVIOUS
<1>2. /\ e \in Info /\ e.wp = Pos(1, 0) /\ e.seq = [z \in SeqFiles |-> << >>]
      /\ e.logical_entry_bitmap = {}
  <2>1. /\ Pos(0, 0) \in BlockPos /\ Pos(1, 0) \in BlockPos /\ Pos(SwapZone, 0) \in BlockPos
    BY Geometry DEF Pos, BlockPos, ZoneId, BlockIndex
  <2>2. PICK q : q = [z \in SeqFiles |-> << >>]
    OBVIOUS
  <2>3. q \in [SeqFiles -> Seq(Block)]
    BY <2>2
  <2>4. PICK f : f = [n \in Lbn |-> Pos(0, 0)]
    OBVIOUS
  <2>5. f \in [Lbn -> BlockPos]
    BY <2>1, <2>4
  <2>6. e = [mapping_table |-> f, logical_entry_bitmap |-> {}, GC_bitmap |-> {},
             wp |-> Pos(1, 0), swap_wp |-> Pos(SwapZone, 0), seq |-> q, fault |-> FALSE]
    BY <1>1, <2>2, <2>4 DEF ZeroInfo
  <2> QED
    BY <2>1, <2>2, <2>3, <2>5, <2>6 DEF Info
<1>3. /\ e.wp \in BlockPos /\ e.wp.zone_id = 1 /\ e.wp.block_index = 0
      /\ Rank(e.wp) = 0
  <2>1. (1 - 1) * BlocksPerZone + 0 = 0
    BY Geometry
  <2> QED
    BY <1>2, <2>1, InfoFields DEF Pos, Rank
<1>4. Frontier(e) /\ Counted(e, 0) /\ 0 < NEntries
  <2>1. \A z \in SeqFiles : Len(e.seq[z]) = 0
    BY <1>2
  <2>2. 1 \in SeqFiles /\ 1 \in 1 .. SwapZone
    BY Geometry DEF SeqFiles
  <2>3. 0 < NEntries
    BY GeometryAssumption DEF NEntries
  <2> QED
    BY <1>2, <1>3, <2>1, <2>2, <2>3 DEF Frontier, Counted
<1>5. PICK u : u = Taken(e)
  OBVIOUS
<1>6. Frontier(u) /\ Counted(u, 1) /\ u.wp = e.wp /\ FirstFree(e) = 0
  BY <1>4, <1>5, TakeNumber, FirstFreeIs
<1>7. PICK b : b = InodeBlock(RootIno, 0)
  OBVIOUS
<1>8. b \in Block /\ b.magic = "INO" /\ b.lbn = RootIno /\ b.data.direct = 0
  <2>1. [direct |-> 0, names |-> {}] \in [direct : Lbn \cup {0}, names : SUBSET Names]
    OBVIOUS
  <2>2. b = [magic |-> "INO", lbn |-> RootIno, data |-> [direct |-> 0, names |-> {}]]
    BY <1>7 DEF InodeBlock, Data
  <2> QED
    BY <2>1, <2>2, Geometry DEF Block
<1>9. PICK t : t = FirstMount(s, TRUE)
  OBVIOUS
<1>10. t = Wrote(u, b, RootIno).s
  <2>1. starting_logical_number + FirstFree(e) = RootIno
    BY <1>6, Geometry
  <2> QED
    BY <1>1, <1>5, <1>7, <1>9, <2>1 DEF FirstMount, Taken, Wrote
<1>11. u.wp.zone_id < SwapZone
  BY <1>3, <1>6, Geometry
<1>12. /\ Frontier(t) /\ t.wp = Advanced(u.wp)
       /\ t.logical_entry_bitmap = u.logical_entry_bitmap
       /\ There(t, RootIno) /\ At(t, RootIno) = Stamped(b, RootIno)
  BY <1>6, <1>8, <1>10, <1>11, RootInLbn, WriteOld
<1>13. At(t, RootIno) = b
  BY <1>8, <1>12, RootInLbn, StampedType
<1>14. Counted(t, 1) /\ InUse(t, RootIno)
  BY <1>6, <1>12, Geometry DEF Counted, InUse
<1>15. RootHolds(t, {})
  BY <1>8, <1>12, <1>13, <1>14 DEF RootHolds
<1>16. Rank(t.wp) = 1
  <2>1. e.wp.zone_id \in 1 .. SwapZone - 1
    BY <1>3, Geometry
  <2> QED
    BY <1>3, <1>6, <1>12, <2>1, RankStep
<1>17. \E k \in 0 .. Rank(t.wp) : Counted(t, k)
  BY <1>14, <1>16
<1> QED
  BY <1>9, <1>12, <1>15, <1>17

(* A creation: the inode under a new number, then add_dirent. *)
LEMMA CreateGood ==
    ASSUME Running, path, mounted, made \in SUBSET Names, HasRoom(store),
           NEW name \in Names, hodo_create(name)
    PROVE  Running'
<1>1. /\ start = starting_logical_number /\ Reach = TRUE
      /\ Frontier(store) /\ RootHolds(store, made)
  BY DEF Running, Reach
<1>2. PICK k \in 0 .. Rank(store.wp) : Counted(store, k)
  BY DEF Running
<1>3. PICK p, q, r : p = store.wp /\ q = Advanced(p) /\ r = Advanced(q)
  OBVIOUS
<1>4. /\ p \in BlockPos /\ p.zone_id \in 1 .. SwapZone
      /\ r.zone_id < SwapZone
  BY <1>1, <1>3, InfoFields DEF Frontier, HasRoom
<1>5. /\ p.zone_id < SwapZone
      /\ q \in BlockPos /\ q.zone_id \in 1 .. SwapZone /\ q.zone_id < SwapZone
      /\ r \in BlockPos /\ r.zone_id \in 1 .. SwapZone
      /\ Rank(Advanced(r)) = Rank(p) + 3
  <2>1. \A x \in BlockPos : x.zone_id = SwapZone => Advanced(x).zone_id >= SwapZone
    BY Geometry DEF Advanced, Pos
  <2>2. p.zone_id < SwapZone
    <3> SUFFICES ASSUME p.zone_id = SwapZone PROVE FALSE
      BY <1>4, Geometry
    <3>1. q = Pos(SwapZone, p.block_index + 1) \/ q = Pos(SwapZone + 1, 0)
      BY <1>3, Geometry DEF Advanced, SeqFiles
    <3>2. q.zone_id = SwapZone \/ q.zone_id = SwapZone + 1
      BY <3>1 DEF Pos
    <3>3. r.zone_id = SwapZone \/ r.zone_id = SwapZone + 1
      BY <1>3, <3>2, Geometry DEF Advanced, Pos, SeqFiles
    <3> QED
      BY <1>4, <3>3, Geometry
  <2>3. q \in BlockPos /\ q.zone_id \in 1 .. SwapZone /\ Rank(q) = Rank(p) + 1
    BY <1>3, <1>4, <2>2, RankStep, Geometry
  <2>4. q.zone_id < SwapZone
    <3> SUFFICES ASSUME q.zone_id = SwapZone PROVE FALSE
      BY <2>3, Geometry
    <3>1. r.zone_id >= SwapZone
      BY <1>3, <2>1, <2>3
    <3>2. r.zone_id \in Nat
      BY <1>3, <2>3, Geometry DEF Advanced, Pos
    <3> QED
      BY <1>4, <3>1, <3>2, Geometry
  <2>5. r \in BlockPos /\ r.zone_id \in 1 .. SwapZone /\ Rank(r) = Rank(q) + 1
    BY <1>3, <2>3, <2>4, RankStep, Geometry
  <2>6. Rank(Advanced(r)) = Rank(r) + 1
    BY <1>4, <2>5, RankStep, Geometry
  <2>7. Rank(p) \in Nat
    BY <1>4, RankBound
  <2> QED
    BY <2>2, <2>3, <2>4, <2>5, <2>6, <2>7
<1>6. Rank(p) \in Nat /\ k \in Nat /\ k + 1 < NEntries /\ k <= Rank(p) /\ k < NEntries
  BY <1>2, <1>3, <1>4, RankBound, Geometry
<1>7. k >= 1
  BY <1>1, <1>2, <1>6, Geometry DEF RootHolds, InUse, Counted
<1>8. PICK n : n = k + starting_logical_number
  OBVIOUS
<1>9. n \in Lbn /\ n # RootIno /\ ~InUse(store, n)
  <2>1. n \in NZones .. NZones + NEntries - 1
    BY <1>6, <1>8, Geometry
  <2> QED
    BY <1>2, <1>6, <1>7, <1>8, <2>1, Geometry DEF InUse, Counted
<1>10. PICK u : u = Taken(store)
  OBVIOUS
<1>11. /\ Frontier(u) /\ Counted(u, k + 1) /\ u.wp = p
       /\ \A m \in Lbn : There(store, m) => There(u, m) /\ At(u, m) = At(store, m)
  BY <1>1, <1>2, <1>3, <1>6, <1>10, TakeNumber
<1>12. PICK b : b = InodeBlock(n, 0)
  OBVIOUS
<1>13. b \in Block
  <2>1. [direct |-> 0, names |-> {}] \in [direct : Lbn \cup {0}, names : SUBSET Names]
    OBVIOUS
  <2>2. b = [magic |-> "INO", lbn |-> n, data |-> [direct |-> 0, names |-> {}]]
    BY <1>12 DEF InodeBlock, Data
  <2>3. n \in Int
    BY <1>9, Geometry
  <2> QED
    BY <2>1, <2>2, <2>3 DEF Block
<1>14. PICK v : v = Wrote(u, b, n).s
  OBVIOUS
<1>15. /\ Frontier(v) /\ v.wp = q
       /\ v.logical_entry_bitmap = u.logical_entry_bitmap
       /\ \A m \in Lbn \ {n} : There(u, m) => There(v, m) /\ At(v, m) = At(u, m)
  BY <1>3, <1>5, <1>9, <1>11, <1>13, <1>14, WriteOld
<1>16. Counted(v, k + 1)
  BY <1>11, <1>15 DEF Counted
<1>17. RootHolds(v, made)
  <2>1. PICK root, d : root = At(store, RootIno) /\ d = root.data.direct
    OBVIOUS
  <2>2. /\ There(store, RootIno) /\ InUse(store, RootIno)
        /\ root.magic = "INO" /\ root.lbn = RootIno
        /\ d = 0 => made = {}
        /\ d # 0 => /\ d # RootIno /\ InUse(store, d) /\ There(store, d)
                    /\ At(store, d).data.names = made
    BY <1>1, <2>1 DEF RootHolds
  <2>3. There(v, RootIno) /\ At(v, RootIno) = root
    BY <1>9, <1>11, <1>15, <2>1, <2>2, RootInLbn
  <2>4. \A m : InUse(store, m) => InUse(v, m)
    <3>1. 0 .. k - 1 \subseteq 0 .. (k + 1) - 1
      BY <1>6
    <3> QED
      BY <1>2, <1>16, <3>1 DEF InUse, Counted
  <2>5. ASSUME d # 0
        PROVE  There(v, d) /\ At(v, d).data.names = made /\ d # RootIno /\ InUse(v, d)
    <3>1. d \in Lbn /\ d # n
      BY <1>9, <2>2, <2>5 DEF There
    <3> QED
      BY <1>11, <1>15, <2>2, <2>4, <2>5, <3>1
  <2> QED
    BY <2>1, <2>2, <2>3, <2>4, <2>5 DEF RootHolds
<1>18. PICK t : t = AddDirent(v, name)
  OBVIOUS
<1>19. /\ Frontier(t) /\ t.wp = Advanced(r)
       /\ Counted(t, k + 1) \/ Counted(t, k + 2)
       /\ RootHolds(t, made \cup {name})
  <2>1. k + 1 + 1 = k + 2
    BY <1>6
  <2>2. PICK j : j = k + 1
    OBVIOUS
  <2>3. v.wp.zone_id < SwapZone /\ Advanced(v.wp).zone_id < SwapZone
    BY <1>3, <1>4, <1>5, <1>15
  <2>4. Counted(v, j) /\ j < NEntries
    BY <1>6, <1>16, <2>2
  <2>5. /\ Frontier(t) /\ t.wp = Advanced(Advanced(v.wp))
        /\ Counted(t, j) \/ Counted(t, j + 1)
        /\ RootHolds(t, made \cup {name})
    BY <1>1, <1>15, <1>17, <1>18, <2>3, <2>4, AddDirentGood
  <2> QED
    BY <1>3, <1>15, <2>1, <2>2, <2>5
<1>20. store' = t /\ made' = made \cup {name} /\ start' = start
  <2>1. FirstFree(store) + start = n
    BY <1>1, <1>2, <1>6, <1>8, FirstFreeIs
  <2> QED
    BY <1>1, <1>10, <1>12, <1>14, <1>18, <2>1 DEF hodo_create, Taken, Wrote
<1>21. \E j \in 0 .. Rank(t.wp) : Counted(t, j)
  <2>1. Rank(t.wp) = Rank(p) + 3
    BY <1>5, <1>19
  <2>2. k + 1 \in 0 .. Rank(t.wp) /\ k + 2 \in 0 .. Rank(t.wp)
    BY <1>6, <2>1
  <2> QED
    BY <1>19, <2>2
<1> QED
  BY <1>1, <1>19, <1>20, <1>21 DEF Running

--------------------------------------------------------------------------------
(* The theorems *)

LEMMA InitMount == Init => MountInv
<1> SUFFICES ASSUME Init PROVE MountInv
  OBVIOUS
<1>1. /\ store = ZeroInfo([z \in SeqFiles |-> << >>])
      /\ start = 0 /\ made = {} /\ late = 0 /\ path = FALSE /\ mounted = FALSE
  BY DEF Init
<1>2. late \in Nat /\ ~(late > 0)
  BY <1>1
<1>3. NotStarted
  BY <1>1, <1>2 DEF NotStarted
<1>4. made \in SUBSET Names /\ path \in BOOLEAN /\ mounted \in BOOLEAN /\ ~path
  BY <1>1
<1> QED
  BY <1>2, <1>3, <1>4 DEF MountInv

LEMMA StepMount == MountInv /\ [SafeNext]_vars => MountInv'
<1> SUFFICES ASSUME MountInv, [SafeNext]_vars PROVE MountInv'
  OBVIOUS
<1> USE DEF MountInv
<1>0. path => store.wp # Pos(0, 0)
  BY DEF Running, Frontier, Pos
<1>1. CASE zonefs_mount(TRUE)
  <2>1. ~path => NotStarted'
    BY <1>1 DEF zonefs_mount, NotStarted
  <2>2. path => Running'
    BY <1>1 DEF zonefs_mount, Running
  <2> QED
    BY <1>1, <2>1, <2>2 DEF zonefs_mount
<1>1a. CASE StartedUp /\ (zonefs_mount(FALSE) \/ hodo_init_unopened)
  <2>1. path /\ path' = path /\ UNCHANGED <<store, start, made>>
    BY <1>1a DEF StartedUp, zonefs_mount, hodo_init_unopened
  <2>2. Running'
    BY <2>1 DEF Running
  <2>3. mounted' = mounted /\ late' \in Nat
    BY <1>1a DEF zonefs_mount, hodo_init_unopened
  <2> QED
    BY <2>1, <2>2, <2>3
<1>2. CASE hodo_init
  <2>1. CASE ~path
    <3>1. mounted /\ store = ZeroInfo([z \in SeqFiles |-> << >>]) /\ made = {}
      BY <1>2, <2>1 DEF hodo_init, NotStarted
    <3>2. store.wp = Pos(0, 0) /\ mounted = TRUE
      BY <3>1 DEF ZeroInfo
    <3>3. store' = FirstMount(store, TRUE) /\ path' = TRUE
          /\ start' = starting_logical_number /\ made' = {}
      BY <1>2, <3>1, <3>2 DEF hodo_init, Started, PathFound
    <3>4. Running'
      BY <3>1, <3>3, FirstMountGood DEF Running
    <3> QED
      BY <1>2, <3>3, <3>4 DEF hodo_init
  <2>2. CASE path
    <3>1. store' = store /\ path' = path /\ start' = starting_logical_number /\ made' = made
      BY <1>0, <1>2, <2>2 DEF hodo_init, Started, PathFound
    <3>2. Running'
      BY <2>2, <3>1 DEF Running
    <3>3. late' \in Nat /\ mounted' = mounted
      BY <1>2 DEF hodo_init
    <3>4. path' \in BOOLEAN /\ mounted' \in BOOLEAN /\ path' /\ made' \in SUBSET Names
      BY <2>2, <3>1, <3>3
    <3> QED
      BY <3>2, <3>3, <3>4
  <2> QED
    BY <2>1, <2>2
<1>3. CASE StartedUp /\ zonefs_kill_super
  <2>1. Running'
    BY <1>3 DEF StartedUp, zonefs_kill_super, Running
  <2> QED
    BY <1>3, <2>1 DEF StartedUp, zonefs_kill_super
<1>4. CASE store.wp = Pos(0, 0) /\ Reload
  <2>1. ~path /\ NotStarted
    BY <1>0, <1>4
  <2>2. store' = store
    BY <1>4, <2>1 DEF Reload, NotStarted, ZeroInfo
  <2>3. NotStarted'
    BY <1>4, <2>1, <2>2 DEF Reload, NotStarted
  <2> QED
    BY <1>4, <2>3 DEF Reload
<1>5. CASE StartedUp /\ HasRoom(store) /\ \E name \in Names : hodo_create(name)
  <2>1. PICK name \in Names : hodo_create(name)
    BY <1>5
  <2>2. path /\ mounted /\ HasRoom(store) /\ Running
    BY <1>5, <2>1 DEF StartedUp, hodo_create
  <2>3. Running'
    BY <2>1, <2>2, CreateGood
  <2>4. /\ made' = made \cup {name} /\ UNCHANGED <<start, path, mounted, late>>
    BY <2>1 DEF hodo_create
  <2> QED
    BY <2>2, <2>3, <2>4
<1>6. CASE UNCHANGED vars
  <2>1. UNCHANGED <<store, start, path, mounted, late, made>>
    BY <1>6 DEF vars
  <2>2. (~path => NotStarted') /\ (path => Running')
    BY <2>1 DEF NotStarted, Running
  <2> QED
    BY <2>1, <2>2
<1> QED
  BY <1>1, <1>1a, <1>2, <1>3, <1>4, <1>5, <1>6 DEF SafeNext

(* Before the first start-up mapping_info and the device are untouched;    *)
(* from then on the log, the numbers and the root directory agree, across  *)
(* unmounts, further mounts and start-ups that end while nothing is        *)
(* mounted.                                                                *)
THEOREM MountInvariant == SafeSpec => []MountInv
BY InitMount, StepMount, PTL DEF SafeSpec

LEMMA UpReads ==
    ASSUME MountInv, Up
    PROVE  /\ RootBlock = At(store, RootIno) /\ RootHolds(store, made)
           /\ \A n : Read(store, start, Reach, n) = At(store, n)
<1>1. path /\ mounted /\ Reach = TRUE /\ start = starting_logical_number
      /\ RootHolds(store, made)
  BY DEF Up, MountInv, Running, Reach
<1> QED
  BY <1>1 DEF RootBlock, At

(* hodo_init writes the root inode under the number that the VFS uses for  *)
(* the root, and no later start-up, creation or unmount loses it: while    *)
(* the volume is up that number leads to the root inode.                   *)
THEOREM RootStays == SafeSpec => []RootThere
<1>1. MountInv => RootThere
  BY UpReads DEF RootThere, RootHolds
<1> QED
  BY <1>1, MountInvariant, PTL

(* Every acknowledged hodo_create is listed in the root directory whenever *)
(* the volume is up, and nothing else is: three writes per creation, each  *)
(* through the table, whatever mounts and start-ups come between.          *)
THEOREM CreationsStay == SafeSpec => []NamesKept
<1>1. MountInv => NamesKept
  <2> SUFFICES ASSUME MountInv, Up PROVE Listing = made
    BY DEF NamesKept
  <2>1. /\ RootBlock = At(store, RootIno) /\ RootHolds(store, made)
        /\ Read(store, start, Reach, RootBlock.data.direct)
             = At(store, RootBlock.data.direct)
    BY UpReads
  <2> QED
    BY <2>1 DEF Listing, RootHolds
<1> QED
  BY <1>1, MountInvariant, PTL

(* The branch of hodo_init for a formatted device never runs on a device   *)
(* that holds blocks, when the module stays loaded once a file system      *)
(* exists. (Without that it does: the run mount_reload.)                   *)
THEOREM FormatsOnce == SafeSpec => InitOnlyWhenFormatted
<1>1. MountInv /\ store.wp = Pos(0, 0) => \A z \in SeqFiles : store.seq[z] = << >>
  <2> SUFFICES ASSUME MountInv, store.wp = Pos(0, 0), NEW z \in SeqFiles
               PROVE  store.seq[z] = << >>
    OBVIOUS
  <2>1. ~path
    BY DEF MountInv, Running, Frontier, Pos
  <2> QED
    BY <2>1 DEF MountInv, NotStarted, ZeroInfo
<1>2. MountInv => [store.wp = Pos(0, 0) /\ store'.wp # Pos(0, 0)
                   => \A z \in SeqFiles : store.seq[z] = << >>]_vars
  BY <1>1
<1> QED
  BY <1>2, MountInvariant, PTL DEF InitOnlyWhenFormatted

================================================================================
