------------------------------ MODULE HodoFSProofs -----------------------------
(***************************************************************************)
(* Theorems about HodoFS within the envelope of SafeFSSpec, for every      *)
(* geometry, every set of names and every depth: the directory operations  *)
(* and the collections between them keep one tree, on the device and in    *)
(* the dentry cache.                                                       *)
(*                                                                         *)
(* The argument has two layers. The log: every write of an operation gives *)
(* one number new content and leaves the others (FSLog), also once a       *)
(* removal has left a stale bit and a zeroed block behind, in which case   *)
(* no collection runs any more. The tree: what the numbers read as is a    *)
(* tree of inodes and dirent blocks in which nothing is shared (Tree), so  *)
(* a walk from the root finds what each operation put there.               *)
(***************************************************************************)
EXTENDS HodoFS, HodoLogProofs, SequenceTheorems

--------------------------------------------------------------------------------
(* The log *)

Zeroed == Inode("zero", 0, 0)

(* A block carries its number, unless a removal zeroed it. *)
Carries(b, n) == b.lbn = n \/ b.data = Zeroed

Named(s) == \A n \in Mapped(s) : Carries(BlockAt(s, s.mapping_table[n]), n)

(* The contents C after a write of d under n. *)
With(C, n, d) == [C EXCEPT ![n] = d]

(* A valid bit behind wp that no number maps to. *)
Stale(s) ==
    \E p \in s.GC_bitmap :
        /\ p.zone_id # 0 /\ Written(s, p)
        /\ \A n \in Lbn : s.mapping_table[n] # p

(* wp is where zonefs takes the next block. *)
InOrder(s) ==
    /\ Layout(s)
    /\ \A z \in 1 .. SwapZone : z >= ClearStart(s.wp) => Len(s.seq[z]) = 0

(* What a read needs. *)
Readable(s) == s \in Store /\ Linked(s) /\ Named(s)

(* The store outside a collection. Nothing is ever written to seq/0, which *)
(* is what an erased number reads from.                                    *)
FSLog(s) ==
    /\ Readable(s) /\ s.fault = FALSE /\ InOrder(s) /\ s.seq[0] = << >>
    /\ Live(s) \/ Stale(s)

LEMMA LiveReadableStore ==
    ASSUME NEW s \in Store, Live(s)
    PROVE  Readable(s)
BY DEF Live, Readable, Linked, Named, Carries, Mapped

LEMMA LogOKIsFSLog ==
    ASSUME NEW s
    PROVE  /\ LogOK(s) /\ s.seq[0] = << >> => FSLog(s)
           /\ FSLog(s) /\ Live(s) => LogOK(s)
BY LiveReadableStore DEF LogOK, FSLog, InOrder, Readable

(* NoStaleBit is what its name says. *)
LEMMA NoStaleLive ==
    ASSUME NEW s, FSLog(s), NoStaleBit(s)
    PROVE  Live(s)
BY DEF FSLog, NoStaleBit, Stale

(* What a number reads as. *)
LEMMA ReadContent ==
    ASSUME NEW s, Readable(s), NEW n \in Lbn, Content(s)[n] # Nil
    PROVE  /\ n \in Mapped(s)
           /\ \A buf : hodo_read_struct(s, n, buf) = BlockAt(s, s.mapping_table[n])
           /\ BlockAt(s, s.mapping_table[n]) \in Buffer
           /\ BlockAt(s, s.mapping_table[n]).data = Content(s)[n]
           /\ Content(s)[n] # Zeroed => BlockAt(s, s.mapping_table[n]).lbn = n
<1>1. n \in Mapped(s) /\ Written(s, s.mapping_table[n])
      /\ Content(s)[n] = BlockAt(s, s.mapping_table[n]).data
  BY DEF Content
<1>2. s.mapping_table[n] \in BlockPos /\ s \in Store
  BY DEF Readable, Store
<1>3. \A buf : hodo_read_struct(s, n, buf) = BlockAt(s, s.mapping_table[n])
  BY <1>1 DEF hodo_read_struct, hodo_GC_read_struct, BlockAt
<1>4. BlockAt(s, s.mapping_table[n]) \in Buffer
  <2>1. ZeroBlock(Nil) \in Buffer
    BY DEF ZeroBlock, Buffer
  <2> QED
    BY <1>2, <1>3, <2>1, ReadType DEF hodo_read_struct
<1> QED
  BY <1>1, <1>3, <1>4 DEF Readable, Named, Carries

LEMMA ContentType ==
    ASSUME NEW s, Readable(s)
    PROVE  /\ Content(s) \in [Lbn -> Data \cup {Nil}]
           /\ \A n \in Lbn \ Mapped(s) : Content(s)[n] = Nil
<1>1. \A n \in Lbn : Content(s)[n] \in Data \cup {Nil}
  <2> SUFFICES ASSUME NEW n \in Lbn, Content(s)[n] # Nil
               PROVE  Content(s)[n] \in Data \cup {Nil}
    OBVIOUS
  <2> QED
    BY ReadContent DEF Buffer
<1> QED
  BY <1>1 DEF Content

LEMMA FSLogWp ==
    ASSUME NEW s, FSLog(s)
    PROVE  /\ s \in Store /\ s.wp \in BlockPos /\ Layout(s)
           /\ s.wp.zone_id \in 1 .. SwapZone /\ s.wp.zone_id \in SeqFiles
           /\ s.wp.zone_id # 0 /\ s.wp.zone_id \in Nat /\ s.wp.block_index \in Nat
           /\ s.wp.block_index < BlocksPerZone
           /\ HasRoom(s) => Len(s.seq[s.wp.zone_id]) = s.wp.block_index
<1>1. s \in Store /\ s.wp \in BlockPos /\ Layout(s) /\ s.wp.zone_id \in 1 .. SwapZone
  BY DEF FSLog, Readable, InOrder, Layout, Store
<1>2. /\ s.wp.zone_id \in SeqFiles /\ s.wp.zone_id \in Nat /\ s.wp.block_index \in Nat
      /\ s.wp.block_index < BlocksPerZone
  BY <1>1, ZoneFacts
<1>3. HasRoom(s) => Len(s.seq[s.wp.zone_id]) = s.wp.block_index
  BY <1>1, <1>2, Geometry DEF FSLog, InOrder, Layout, ClearStart
<1> QED
  BY <1>1, <1>2, <1>3

(* While Room counts a block the log is short of the swap zone, and a      *)
(* write uses one.                                                         *)
LEMMA RoomCounts ==
    ASSUME NEW s, FSLog(s)
    PROVE  /\ Room(s) \in Int
           /\ Room(s) >= 1 => HasRoom(s)
           /\ \A t : t.wp = Advanced(s.wp) => Room(t) = Room(s) - 1
<1> DEFINE k == s.wp.zone_id
           i == s.wp.block_index
           B == BlocksPerZone
           W == SwapZone
<1>1. /\ k \in Nat /\ i \in Nat /\ k \in SeqFiles /\ k <= W
      /\ s.wp \in BlockPos
  BY FSLogWp, Geometry
<1>2. W \in Nat /\ B \in Nat /\ B >= 2
  BY Geometry
<1>3. Room(s) = (W - k) * B - i
  BY DEF Room
<1>4. (W - k) * B \in Int
  BY <1>1, <1>2
<1>5. Room(s) >= 1 => HasRoom(s)
  <2>1. k = W => (W - k) * B = 0
    BY <1>1, <1>2
  <2> QED
    BY <1>1, <1>2, <1>3, <1>4, <2>1 DEF HasRoom
<1>6. ASSUME NEW t, t.wp = Advanced(s.wp)
      PROVE  Room(t) = Room(s) - 1
  <2>1. t.wp = IF i = B - 1 THEN Pos(k + 1, 0) ELSE Pos(k, i + 1)
    BY <1>1, <1>6 DEF Advanced
  <2>2. (W - (k + 1)) * B = (W - k) * B - B
    BY <1>1, <1>2
  <2>3. Room(t) = (W - t.wp.zone_id) * B - t.wp.block_index
    BY DEF Room
  <2>4. CASE i = B - 1
    <3>1. t.wp.zone_id = k + 1 /\ t.wp.block_index = 0
      BY <2>1, <2>4 DEF Pos
    <3>2. Room(t) = (W - (k + 1)) * B - 0
      BY <2>3, <3>1
    <3> DEFINE M == (W - k) * B
               N == (W - (k + 1)) * B
    <3>3. M \in Int /\ N = M - B /\ Room(s) = M - i /\ Room(t) = N - 0
      BY <1>3, <1>4, <2>2, <3>2
    <3> HIDE DEF M, N
    <3> QED
      BY <1>1, <1>2, <2>4, <3>3
  <2>5. CASE i # B - 1
    <3>1. t.wp.zone_id = k /\ t.wp.block_index = i + 1
      BY <2>1, <2>5 DEF Pos
    <3>2. Room(t) = (W - k) * B - (i + 1)
      BY <2>3, <3>1
    <3> DEFINE M == (W - k) * B
    <3>3. M \in Int /\ Room(s) = M - i /\ Room(t) = M - (i + 1)
      BY <1>3, <1>4, <3>2
    <3> HIDE DEF M
    <3> QED
      BY <1>1, <3>3
  <2> QED
    BY <2>4, <2>5
<1> QED
  BY <1>1, <1>2, <1>3, <1>4, <1>5, <1>6

(* Block b lands at wp under number n. *)
Lands(s, t, n, b) ==
    /\ t.mapping_table = [s.mapping_table EXCEPT ![n] = s.wp]
    /\ t.logical_entry_bitmap = s.logical_entry_bitmap \cup {n - starting_logical_number}
    /\ SeqAppended(s, t, s.wp, b)
    /\ t.wp = Advanced(s.wp) /\ t.fault = s.fault

(* A position that was written stays so, and is not where wp was. *)
LEMMA LandsElsewhere ==
    ASSUME NEW s, NEW t \in Store, NEW n \in Lbn, NEW b, FSLog(s), HasRoom(s),
           Lands(s, t, n, b), NEW q \in BlockPos, Written(s, q)
    PROVE  Written(t, q) /\ BlockAt(t, q) = BlockAt(s, q) /\ q # s.wp
<1> DEFINE k == s.wp.zone_id
<1>1. /\ k \in SeqFiles /\ Len(s.seq[k]) = s.wp.block_index
      /\ s.seq \in [SeqFiles -> Seq(Buffer)]
      /\ q.zone_id \in SeqFiles /\ q.block_index \in Nat
      /\ q.block_index < Len(s.seq[q.zone_id])
  BY FSLogWp, ZoneFacts DEF Written, Store
<1>2. /\ t.seq[k] = Append(s.seq[k], b)
      /\ \A y \in SeqFiles : y # k => t.seq[y] = s.seq[y]
  BY <1>1 DEF Lands, SeqAppended
<1>3. CASE q.zone_id = k
  <2>1. s.seq[k] \in Seq(Buffer) /\ q.block_index + 1 \in 1 .. Len(s.seq[k])
    BY <1>1, <1>3
  <2>2. /\ Len(t.seq[k]) = Len(s.seq[k]) + 1
        /\ t.seq[k][q.block_index + 1] = s.seq[k][q.block_index + 1]
    BY <1>2, <2>1
  <2>3. q # s.wp
    BY <1>1, <1>3
  <2> QED
    BY <1>1, <1>3, <2>1, <2>2, <2>3 DEF Written, BlockAt
<1>4. CASE q.zone_id # k
  BY <1>1, <1>2, <1>4 DEF Written, BlockAt
<1> QED
  BY <1>3, <1>4

(* The log after a write, as far as reading goes: one number has new       *)
(* content.                                                                *)
Stored(s, t, n, d) ==
    /\ Readable(t) /\ InOrder(t) /\ t.fault = FALSE
    /\ Mapped(t) = Mapped(s) \cup {n}
    /\ Content(t) = With(Content(s), n, d)

LEMMA LandsReadable ==
    ASSUME NEW s, NEW t \in Store, NEW n \in Lbn, NEW b \in Buffer, FSLog(s), HasRoom(s),
           Lands(s, t, n, b), Carries(b, n)
    PROVE  Stored(s, t, n, b.data)
<1> DEFINE T == s.mapping_table
           k == s.wp.zone_id
<1>1. /\ s \in Store /\ T \in [Lbn -> BlockPos] /\ s.wp \in BlockPos
      /\ k \in SeqFiles /\ k # 0 /\ k \in Nat /\ k < SwapZone
      /\ s.wp.block_index \in Nat /\ Len(s.seq[k]) = s.wp.block_index
      /\ s.seq \in [SeqFiles -> Seq(Buffer)] /\ Layout(s)
  BY FSLogWp DEF Store, HasRoom
<1>2. /\ t.mapping_table[n] = s.wp
      /\ \A m \in Lbn : m # n => t.mapping_table[m] = T[m]
  BY <1>1 DEF Lands
<1>3. Mapped(t) = Mapped(s) \cup {n}
  BY <1>1, <1>2 DEF Mapped
<1>4. t.seq[k] = Append(s.seq[k], b)
  BY <1>1 DEF Lands, SeqAppended
<1>5. Written(t, s.wp) /\ BlockAt(t, s.wp) = b
  <2>1. Len(t.seq[k]) = s.wp.block_index + 1 /\ t.seq[k][s.wp.block_index + 1] = b
    BY <1>1, <1>4
  <2> QED
    BY <1>1, <2>1 DEF Written, BlockAt
<1>6. \A m \in Mapped(s) : m # n =>
         /\ m \in Lbn /\ t.mapping_table[m] = T[m]
         /\ Written(t, T[m]) /\ BlockAt(t, T[m]) = BlockAt(s, T[m]) /\ T[m] # s.wp
  <2> SUFFICES ASSUME NEW m \in Mapped(s), m # n
               PROVE  /\ m \in Lbn /\ t.mapping_table[m] = T[m]
                      /\ Written(t, T[m]) /\ BlockAt(t, T[m]) = BlockAt(s, T[m])
                      /\ T[m] # s.wp
    OBVIOUS
  <2>1. m \in Lbn /\ T[m] \in BlockPos /\ Written(s, T[m])
    BY <1>1 DEF Mapped, FSLog, Readable, Linked
  <2> HIDE DEF T
  <2> QED
    BY <1>2, <2>1, LandsElsewhere
<1>7. \A m \in Mapped(s) : Written(s, T[m])
  BY DEF FSLog, Readable, Linked
<1>8. Linked(t)
  <2>1. \A m \in Lbn : m \in Mapped(t)
           <=> m - starting_logical_number \in t.logical_entry_bitmap
    <3>1. \A m \in Lbn : m \in Mapped(s)
             <=> m - starting_logical_number \in s.logical_entry_bitmap
      BY DEF FSLog, Readable, Linked
    <3>2. \A m \in Lbn : m - starting_logical_number = n - starting_logical_number => m = n
      BY Geometry, GeometryAssumption DEF starting_logical_number, Lbn
    <3>3. t.logical_entry_bitmap
             = s.logical_entry_bitmap \cup {n - starting_logical_number}
      BY DEF Lands
    <3> QED
      BY <1>3, <3>1, <3>2, <3>3
  <2>2. \A m, l \in Mapped(s) : T[m] = T[l] => m = l
    BY DEF FSLog, Readable, Linked
  <2>3. \A m \in Mapped(t) : m = n \/ m \in Mapped(s)
    BY <1>3
  <2>4. \A m \in Mapped(t) : Written(t, t.mapping_table[m])
    BY <1>2, <1>5, <1>6, <2>3
  <2>5. \A m, l \in Mapped(t) : t.mapping_table[m] = t.mapping_table[l] => m = l
    BY <1>2, <1>6, <2>2, <2>3
  <2> QED
    BY <2>1, <2>4, <2>5 DEF Linked
<1>9. Named(t)
  <2>1. \A m \in Mapped(s) : Carries(BlockAt(s, T[m]), m)
    BY DEF FSLog, Readable, Named
  <2>2. \A m \in Mapped(t) : Carries(BlockAt(t, t.mapping_table[m]), m)
    BY <1>2, <1>3, <1>5, <1>6, <2>1
  <2> QED
    BY <2>2 DEF Named
<1>10. Content(t) = With(Content(s), n, b.data)
  <2>1. Content(t)[n] = b.data
    BY <1>2, <1>3, <1>5 DEF Content
  <2>2. \A m \in Lbn : m # n => Content(t)[m] = Content(s)[m]
    BY <1>2, <1>3, <1>6, <1>7 DEF Content
  <2>3. Content(t) = [m \in Lbn |-> Content(t)[m]] /\ Content(s) = [m \in Lbn |-> Content(s)[m]]
    BY DEF Content
  <2> QED
    BY <2>1, <2>2, <2>3 DEF With
<1>11. InOrder(t)
  <2>1. /\ Layout(t)
        /\ \A y \in SeqFiles : y # k => t.seq[y] = s.seq[y]
        /\ ClearStart(s.wp) \in {k, k + 1}
        /\ ClearStart(t.wp) = k + 1
    <3>1. SeqAppended(s, t, s.wp, b) /\ t.wp = Advanced(s.wp)
      BY DEF Lands
    <3> QED
      BY <1>1, <3>1, AppendLayout
  <2>2. \A z \in 1 .. SwapZone : z >= ClearStart(s.wp) => Len(s.seq[z]) = 0
    BY DEF FSLog, InOrder
  <2>3. \A z \in 1 .. SwapZone : z >= ClearStart(t.wp) => Len(t.seq[z]) = 0
    <3> SUFFICES ASSUME NEW z \in 1 .. SwapZone, z >= k + 1
                 PROVE  Len(t.seq[z]) = 0
      BY <2>1
    <3>1. z \in Int /\ z >= ClearStart(s.wp) /\ z # k
      BY <1>1, <2>1
    <3>2. z \in SeqFiles
      BY ZoneFacts
    <3> QED
      BY <2>1, <2>2, <3>1, <3>2
  <2> QED
    BY <2>1, <2>3 DEF InOrder
<1> QED
  BY <1>3, <1>8, <1>9, <1>10, <1>11 DEF Stored, Readable, FSLog, Lands

(* The valid bits a write leaves: all but that of the number's old block.  *)
KeepsBits(s, t, n) ==
    \A p \in s.GC_bitmap : p.zone_id # 0 /\ p # s.mapping_table[n] => p \in t.GC_bitmap

(* Once stale, always stale. *)
LEMMA StaleKept ==
    ASSUME NEW s, NEW t \in Store, NEW n \in Lbn, NEW b, FSLog(s), HasRoom(s),
           Lands(s, t, n, b), KeepsBits(s, t, n), Stale(s)
    PROVE  Stale(t)
<1>1. PICK p \in s.GC_bitmap : /\ p.zone_id # 0 /\ Written(s, p)
                               /\ \A m \in Lbn : s.mapping_table[m] # p
  BY DEF Stale
<1>2. p \in BlockPos /\ s.mapping_table \in [Lbn -> BlockPos]
  BY FSLogWp DEF Store
<1>3. Written(t, p) /\ p # s.wp
  BY <1>1, <1>2, LandsElsewhere
<1>4. p \in t.GC_bitmap
  BY <1>1 DEF KeepsBits
<1>5. \A m \in Lbn : t.mapping_table[m] # p
  BY <1>1, <1>2, <1>3 DEF Lands
<1> QED
  BY <1>1, <1>3, <1>4, <1>5 DEF Stale

(* A write that leaves the bit of the block it replaces makes it stale. *)
LEMMA StaleMade ==
    ASSUME NEW s, NEW t \in Store, NEW n \in Mapped(s), NEW b, FSLog(s), HasRoom(s),
           Lands(s, t, n, b), s.mapping_table[n] \in t.GC_bitmap
    PROVE  Stale(t)
<1> DEFINE p == s.mapping_table[n]
<1>1. n \in Lbn /\ p \in BlockPos /\ s.mapping_table \in [Lbn -> BlockPos]
      /\ p.zone_id # 0 /\ Written(s, p)
  BY FSLogWp DEF Mapped, Store, FSLog, Readable, Linked
<1>2. \A m \in Lbn : m # n => s.mapping_table[m] # p
  BY <1>1 DEF Mapped, FSLog, Readable, Linked
<1> HIDE DEF p
<1>3. Written(t, p) /\ p # s.wp
  BY <1>1, LandsElsewhere
<1>4. \A m \in Lbn : t.mapping_table[m] # p
  BY <1>1, <1>2, <1>3 DEF Lands
<1> USE DEF p
<1> QED
  BY <1>1, <1>3, <1>4 DEF Stale

(* A write that lands leaves the log in order. *)
LEMMA AfterWrite ==
    ASSUME NEW s, NEW t \in Store, NEW n \in Lbn, NEW b \in Buffer,
           FSLog(s), Room(s) >= 1, Lands(s, t, n, b), KeepsBits(s, t, n),
           b.lbn = n, Live(s) => Live(t)
    PROVE  /\ FSLog(t) /\ Room(t) = Room(s) - 1
           /\ Mapped(t) = Mapped(s) \cup {n}
           /\ Content(t) = With(Content(s), n, b.data)
<1>1. HasRoom(s)
  BY RoomCounts
<1>2. /\ Readable(t) /\ InOrder(t) /\ t.fault = FALSE
      /\ Mapped(t) = Mapped(s) \cup {n}
      /\ Content(t) = With(Content(s), n, b.data)
  <2>1. Carries(b, n)
    BY DEF Carries
  <2> QED
    BY <1>1, <2>1, LandsReadable DEF Stored
<1>3. Stale(s) => Stale(t)
  BY <1>1, StaleKept
<1>5. t.seq[0] = << >>
  <2>1. s.wp.zone_id # 0 /\ s.seq \in [SeqFiles -> Seq(Buffer)] /\ 0 \in SeqFiles
    BY FSLogWp, Geometry DEF Store, SeqFiles
  <2> QED
    BY <2>1 DEF Lands, SeqAppended, FSLog
<1>4. Room(t) = Room(s) - 1
  BY RoomCounts DEF Lands
<1> QED
  BY <1>2, <1>3, <1>4, <1>5 DEF FSLog

(* A write under a number in use. *)
LEMMA Rewrite ==
    ASSUME NEW s, FSLog(s), Room(s) >= 1, NEW n \in Mapped(s), NEW b \in Buffer, b.lbn = n
    PROVE  LET t == hodo_write_struct(s, b, n)
           IN  /\ FSLog(t) /\ Room(t) = Room(s) - 1
               /\ Live(s) => Live(t)
               /\ Mapped(t) = Mapped(s)
               /\ Content(t) = With(Content(s), n, b.data)
<1> DEFINE t == hodo_write_struct(s, b, n)
<1>1. /\ s \in Store /\ n \in Lbn /\ n # NEW_DATABLOCK /\ HasRoom(s)
      /\ s.wp.zone_id # 0 /\ s.wp.zone_id \in SeqFiles
      /\ Len(s.seq[s.wp.zone_id]) = s.wp.block_index
  BY FSLogWp, RoomCounts, Geometry DEF Mapped, NEW_DATABLOCK
<1>2. t = WriteAt(s, b, n, {s.mapping_table[n]})
  BY <1>1 DEF hodo_write_struct
<1>3. Stamped(b, n) = b
  BY DEF Stamped, Buffer
<1>4. n - starting_logical_number \in s.logical_entry_bitmap
  BY <1>1 DEF FSLog, Readable, Linked
<1>5. zonefs_write(s.seq, s.wp, b) = [s.seq EXCEPT ![s.wp.zone_id] = Append(@, b)]
  BY <1>1 DEF zonefs_write
<1>6. t \in Store
  BY <1>1, <1>2, WriteAtType
<1>7. /\ t.mapping_table = [s.mapping_table EXCEPT ![n] = s.wp]
      /\ t.logical_entry_bitmap = s.logical_entry_bitmap
      /\ t.GC_bitmap = (s.GC_bitmap \cup {s.wp}) \ {s.mapping_table[n]}
      /\ t.seq = [s.seq EXCEPT ![s.wp.zone_id] = Append(@, b)]
      /\ t.wp = Advanced(s.wp) /\ t.fault = s.fault
  BY <1>1, <1>2, <1>3, <1>5 DEF WriteAt, Store
<1> HIDE DEF t
<1>8. Lands(s, t, n, b) /\ KeepsBits(s, t, n)
  BY <1>4, <1>7 DEF Lands, SeqAppended, KeepsBits
<1>9. Live(s) => Live(t)
  <2>1. Appended(s, t, n, s.wp, b)
    BY <1>4, <1>7 DEF Appended
  <2>2. CanAppend(s, n, s.wp, b)
    BY <1>1, FSLogWp DEF CanAppend
  <2> QED
    BY <1>1, <1>6, <2>1, <2>2, AppendLive
<1>10. /\ FSLog(t) /\ Room(t) = Room(s) - 1
       /\ Mapped(t) = Mapped(s) \cup {n}
       /\ Content(t) = With(Content(s), n, b.data)
  BY <1>1, <1>6, <1>8, <1>9, AfterWrite
<1> USE DEF t
<1> QED
  BY <1>9, <1>10

(* A write under a number that was just taken. *)
LEMMA FreshWrite ==
    ASSUME NEW s, FSLog(s), Room(s) >= 1, NEW n, n = hodo_get_next_logical_number(s),
           NEW buf \in Buffer, NEW b, b = Stamped(buf, n), b.lbn = n,
           NEW old, old \subseteq {s.mapping_table[n]},
           NEW t, t = WriteAt(hodo_set_logical_bitmap(s, n), buf, n, old)
    PROVE  /\ n \in Lbn \ Mapped(s)
           /\ FSLog(t) /\ Room(t) = Room(s) - 1
           /\ Live(s) => Live(t)
           /\ Mapped(t) = Mapped(s) \cup {n}
           /\ Content(t) = With(Content(s), n, b.data)
<1> DEFINE r == hodo_set_logical_bitmap(s, n)
<1>1. /\ s \in Store /\ n \in Lbn \ Mapped(s) /\ HasRoom(s) /\ n # NoNumber
      /\ s.wp.zone_id # 0 /\ s.wp.zone_id \in SeqFiles /\ Layout(s)
      /\ Len(s.seq[s.wp.zone_id]) = s.wp.block_index
  BY FSLogWp, RoomCounts, LinkedNumbersLast, Geometry DEF FSLog, Readable
<1>2. b \in Buffer
  BY <1>1, BufferFields
<1>3. /\ r.mapping_table = s.mapping_table /\ r.GC_bitmap = s.GC_bitmap
      /\ r.wp = s.wp /\ r.seq = s.seq /\ r.fault = s.fault
      /\ r.logical_entry_bitmap
            = s.logical_entry_bitmap \cup {n - starting_logical_number}
  BY <1>1 DEF hodo_set_logical_bitmap, Store
<1>4. r \in Store
  <2>1. n - starting_logical_number \in Entry
    BY <1>1, Geometry DEF Entry, Lbn, starting_logical_number
  <2> QED
    BY <1>1, <2>1, TakeNumberType
<1>5. t \in Store
  BY <1>4, WriteAtType
<1> HIDE DEF r
<1>6. /\ t.mapping_table = [r.mapping_table EXCEPT ![n] = r.wp]
      /\ t.logical_entry_bitmap = r.logical_entry_bitmap
      /\ t.GC_bitmap = (r.GC_bitmap \cup {r.wp}) \ old
      /\ t.seq = zonefs_write(r.seq, r.wp, b)
      /\ t.wp = Advanced(r.wp) /\ t.fault = r.fault
  BY <1>1, <1>4 DEF WriteAt, Store, r
<1>7. zonefs_write(s.seq, s.wp, b) = [s.seq EXCEPT ![s.wp.zone_id] = Append(@, b)]
  BY <1>1 DEF zonefs_write
<1>8. Lands(s, t, n, b)
  BY <1>3, <1>6, <1>7 DEF Lands, SeqAppended
<1>9. KeepsBits(s, t, n)
  BY <1>3, <1>6 DEF KeepsBits
<1>10. Live(s) => Live(t)
  <2> SUFFICES ASSUME Live(s) PROVE Live(t)
    OBVIOUS
  <2>2. old \in {{}, {s.mapping_table[n]}}
    OBVIOUS
  <2>1. CanAppend(s, n, s.wp, b) /\ Appended(s, t, n, s.wp, b)
    BY <1>1, <2>2, FreshFields DEF HasRoom
  <2> QED
    BY <1>1, <1>5, <2>1, AppendLive
<1>11. n \in Lbn
  BY <1>1
<1>12. /\ FSLog(t) /\ Room(t) = Room(s) - 1
       /\ Mapped(t) = Mapped(s) \cup {n}
       /\ Content(t) = With(Content(s), n, b.data)
  BY <1>2, <1>5, <1>8, <1>9, <1>10, <1>11, AfterWrite
<1> QED
  BY <1>1, <1>10, <1>12

(* An inode under a new number: create and mkdir. *)
LEMMA InodeWritten ==
    ASSUME NEW s, FSLog(s), Room(s) >= 1, NEW d \in Data
    PROVE  LET n == hodo_get_next_logical_number(s)
               t == NewInodeStore(s, d)
           IN  /\ n \in Lbn \ Mapped(s)
               /\ FSLog(t) /\ Room(t) = Room(s) - 1
               /\ Live(s) => Live(t)
               /\ Mapped(t) = Mapped(s) \cup {n}
               /\ Content(t) = With(Content(s), n, d)
<1> DEFINE n == hodo_get_next_logical_number(s)
           b == MkBlock("INO", n, d)
           r == hodo_set_logical_bitmap(s, n)
           t == NewInodeStore(s, d)
<1>1. s \in Store /\ n \in Lbn /\ n # NEW_DATABLOCK /\ n # NoNumber
  BY LinkedNumbersLast, Geometry DEF FSLog, Readable, NEW_DATABLOCK
<1>2. r.mapping_table = s.mapping_table
  BY <1>1 DEF hodo_set_logical_bitmap, Store
<1>3. t = WriteAt(r, b, n, {s.mapping_table[n]})
  BY <1>1, <1>2 DEF NewInodeStore, hodo_write_struct
<1>4. b \in Buffer /\ b = Stamped(b, n) /\ b.lbn = n /\ b.data = d
  BY <1>1 DEF MkBlock, Buffer, Stamped
<1>5. n = hodo_get_next_logical_number(s)
  OBVIOUS
<1>6. {s.mapping_table[n]} \subseteq {s.mapping_table[n]}
  OBVIOUS
<1> HIDE DEF n, b, t
<1>7. /\ n \in Lbn \ Mapped(s)
      /\ FSLog(t) /\ Room(t) = Room(s) - 1
      /\ Live(s) => Live(t)
      /\ Mapped(t) = Mapped(s) \cup {n}
      /\ Content(t) = With(Content(s), n, b.data)
  BY <1>3, <1>4, <1>5, <1>6, FreshWrite
<1> USE DEF n, t
<1> QED
  BY <1>4, <1>7

(* A dirent block under a new number. *)
LEMMA BlockWritten ==
    ASSUME NEW s, FSLog(s), Room(s) >= 1, NEW d \in Data
    PROVE  LET n == hodo_get_next_logical_number(s)
               t == hodo_write_struct(s, MkBlock("DAT", 0, d), NEW_DATABLOCK)
           IN  /\ n \in Lbn \ Mapped(s)
               /\ FSLog(t) /\ Room(t) = Room(s) - 1
               /\ Live(s) => Live(t)
               /\ Mapped(t) = Mapped(s) \cup {n}
               /\ Content(t) = With(Content(s), n, d)
<1> DEFINE n == hodo_get_next_logical_number(s)
           buf == MkBlock("DAT", 0, d)
           b == Stamped(buf, n)
           t == hodo_write_struct(s, buf, NEW_DATABLOCK)
           none == {}
<1>1. t = WriteAt(hodo_set_logical_bitmap(s, n), buf, n, none)
  BY DEF hodo_write_struct, hodo_write_new
<1>2. n = hodo_get_next_logical_number(s) /\ b = Stamped(buf, n)
  OBVIOUS
<1>3. buf \in Buffer /\ b.lbn = n /\ b.data = d
  BY DEF MkBlock, Buffer, Stamped
<1>4. none \subseteq {s.mapping_table[n]}
  OBVIOUS
<1> HIDE DEF n, buf, b, t, none
<1>5. /\ n \in Lbn \ Mapped(s)
      /\ FSLog(t) /\ Room(t) = Room(s) - 1
      /\ Live(s) => Live(t)
      /\ Mapped(t) = Mapped(s) \cup {n}
      /\ Content(t) = With(Content(s), n, b.data)
  BY <1>1, <1>2, <1>3, <1>4, FreshWrite
<1>6. Content(t) = With(Content(s), n, d)
  BY <1>3, <1>5
<1> USE DEF n, t, buf
<1> QED
  BY <1>5, <1>6

LEMMA SameData ==
    ASSUME NEW z, NEW y, z = [magic |-> "", lbn |-> 0, data |-> y]
    PROVE  [z EXCEPT !.data = y] = z
<1> DEFINE w == [z EXCEPT !.data = y]
<1>1. w = [k \in DOMAIN z |-> IF k = "data" THEN y ELSE z[k]]
  BY Zenon
<1>2. z = [k \in DOMAIN z |-> z[k]]
  BY Zenon
<1>3. z["data"] = y
  BY Zenon
<1>4. z = [k \in DOMAIN z |-> IF k = "data" THEN y ELSE z[k]]
  BY <1>2, <1>3, Zenon
<1> QED
  BY <1>1, <1>4

(* The first writes of a removal: the table entry is erased, nothing is    *)
(* read back, and a zeroed block lands under the number.                   *)
LEMMA InodeZeroed ==
    ASSUME NEW s, FSLog(s), Room(s) >= 1, NEW n \in Mapped(s),
           n \notin s.logical_entry_bitmap, Zeroed \in Data
    PROVE  LET r == hodo_erase_table_entry(s, n)
               b == [ReadInode(r, n) EXCEPT !.data.i_nlink = 0]
               t == hodo_write_struct(r, b, n)
           IN  /\ FSLog(t) /\ Room(t) = Room(s) - 1
               /\ Mapped(t) = Mapped(s)
               /\ Content(t) = With(Content(s), n, Zeroed)
<1> DEFINE r == hodo_erase_table_entry(s, n)
           b == [ReadInode(r, n) EXCEPT !.data.i_nlink = 0]
           t == hodo_write_struct(r, b, n)
           T == s.mapping_table
           p == Pos(0, T[n].block_index)
<1>1. /\ s \in Store /\ n \in Lbn /\ n # NEW_DATABLOCK /\ HasRoom(s)
      /\ s.wp.zone_id # 0 /\ s.wp.zone_id \in SeqFiles /\ s.wp \in BlockPos
      /\ Len(s.seq[s.wp.zone_id]) = s.wp.block_index
      /\ T \in [Lbn -> BlockPos] /\ T[n] \in BlockPos /\ T[n].zone_id # 0
      /\ s.seq[0] = << >>
  <2>1. /\ s \in Store /\ n \in Lbn /\ HasRoom(s) /\ T[n].zone_id # 0
        /\ s.seq[0] = << >> /\ n # NEW_DATABLOCK
    BY FSLogWp, RoomCounts, Geometry DEF Mapped, NEW_DATABLOCK, FSLog
  <2>2. T \in [Lbn -> BlockPos] /\ T[n] \in BlockPos
    BY <2>1 DEF Store
  <2> QED
    BY <2>1, <2>2, FSLogWp
<1>2. p \in BlockPos /\ p.zone_id = 0 /\ p.block_index \in Nat
  BY <1>1, ZoneFacts, GeometryAssumption DEF Pos, BlockPos, ZoneId
<1>3. s.logical_entry_bitmap \ {n} = s.logical_entry_bitmap
  OBVIOUS
<1>4. [T EXCEPT ![n].zone_id = 0] = [T EXCEPT ![n] = p]
  <2>1. [T[n] EXCEPT !.zone_id = 0] = p
    BY <1>1 DEF BlockPos, Pos
  <2> QED
    BY <2>1
<1> HIDE DEF T, p
<1>5. /\ r.mapping_table = [T EXCEPT ![n] = p]
      /\ r.logical_entry_bitmap = s.logical_entry_bitmap
      /\ r.GC_bitmap = s.GC_bitmap /\ r.wp = s.wp /\ r.seq = s.seq /\ r.fault = s.fault
  BY <1>1, <1>3, <1>4 DEF hodo_erase_table_entry, Store, T
<1>6. r \in Store /\ r.mapping_table[n] = p
  <2>1. [T EXCEPT ![n] = p] \in [Lbn -> BlockPos] /\ [T EXCEPT ![n] = p][n] = p
    BY <1>1, <1>2
  <2>2. r = [s EXCEPT !.mapping_table = [T EXCEPT ![n] = p]]
    BY <1>1, <1>3, <1>4 DEF hodo_erase_table_entry, Store, T
  <2> QED
    BY <1>1, <1>5, <2>1, <2>2 DEF Store
<1> HIDE DEF r
<1>7. b = ZeroInode /\ b \in Buffer /\ b.lbn = 0 /\ b.data = Zeroed /\ Stamped(b, n) = b
  <2>1. ~Written(r, p)
    BY <1>1, <1>2, <1>5 DEF Written
  <2>2. ReadInode(r, n) = ZeroInode
    BY <1>6, <2>1 DEF ReadInode, hodo_read_struct, hodo_GC_read_struct
  <2>3. [ZeroInode EXCEPT !.data.i_nlink = 0] = ZeroInode
    <3>1. ZeroInode = [magic |-> "", lbn |-> 0, data |-> Zeroed]
      BY DEF ZeroInode, ZeroBlock, Zeroed
    <3>2. [Zeroed EXCEPT !.i_nlink = 0] = Zeroed
      <4>1. \A d : LET z == [kind |-> "zero", file_len |-> 0, i_nlink |-> 0, direct |-> d]
                   IN  [z EXCEPT !.i_nlink = 0] = z
        OBVIOUS
      <4> QED
        BY <4>1 DEF Zeroed, Inode
    <3>3. ZeroInode.data = Zeroed
      BY <3>1
    <3>4. [ZeroInode EXCEPT !.data.i_nlink = 0] = [ZeroInode EXCEPT !.data = Zeroed]
      BY <3>2, <3>3, Zenon
    <3> QED
      BY <3>1, <3>4, SameData
  <2>4. b = ZeroInode
    BY <2>2, <2>3
  <2>5. ZeroInode \in Buffer /\ ZeroInode.lbn = 0 /\ ZeroInode.data = Zeroed
        /\ Stamped(ZeroInode, n) = ZeroInode
    BY DEF ZeroInode, ZeroBlock, Zeroed, Buffer, Stamped
  <2> QED
    BY <2>4, <2>5
<1> HIDE DEF b
<1>8. t = WriteAt(r, b, n, {p})
  BY <1>1, <1>6 DEF hodo_write_struct
<1>9. t \in Store
  BY <1>6, <1>7, <1>8, WriteAtType
<1>10. zonefs_write(s.seq, s.wp, b) = [s.seq EXCEPT ![s.wp.zone_id] = Append(@, b)]
  BY <1>1 DEF zonefs_write
<1>11. /\ t.mapping_table = [r.mapping_table EXCEPT ![n] = s.wp]
       /\ t.logical_entry_bitmap = s.logical_entry_bitmap
       /\ t.GC_bitmap = (s.GC_bitmap \cup {s.wp}) \ {p}
       /\ t.seq = [s.seq EXCEPT ![s.wp.zone_id] = Append(@, b)]
       /\ t.wp = Advanced(s.wp) /\ t.fault = s.fault
  <2>1. /\ t.mapping_table = [r.mapping_table EXCEPT ![n] = r.wp]
        /\ t.logical_entry_bitmap = r.logical_entry_bitmap
        /\ t.GC_bitmap = (r.GC_bitmap \cup {r.wp}) \ {p}
        /\ t.seq = zonefs_write(r.seq, r.wp, Stamped(b, n))
        /\ t.wp = Advanced(r.wp) /\ t.fault = r.fault
    BY <1>1, <1>6, <1>8 DEF WriteAt, Store
  <2> QED
    BY <1>5, <1>7, <1>10, <2>1
<1> HIDE DEF t
<1>12. [[T EXCEPT ![n] = p] EXCEPT ![n] = s.wp] = [T EXCEPT ![n] = s.wp]
  BY <1>1
<1>13. n - starting_logical_number \in s.logical_entry_bitmap
  BY <1>1 DEF FSLog, Readable, Linked
<1>14. Lands(s, t, n, b)
  BY <1>5, <1>11, <1>12, <1>13 DEF Lands, SeqAppended, T
<1>15. /\ Readable(t) /\ InOrder(t) /\ t.fault = FALSE
       /\ Mapped(t) = Mapped(s) \cup {n}
       /\ Content(t) = With(Content(s), n, Zeroed)
  <2>1. b \in Buffer /\ Carries(b, n) /\ n \in Lbn /\ HasRoom(s)
    BY <1>1, <1>7 DEF Carries
  <2>2. Stored(s, t, n, b.data)
    BY <1>9, <1>14, <2>1, LandsReadable
  <2> QED
    BY <1>7, <2>2 DEF Stored
<1>16. Stale(t)
  <2>1. CASE Live(s)
    <3>1. s.mapping_table[n] \in s.GC_bitmap
      BY <2>1 DEF Live
    <3>2. s.mapping_table[n] \in t.GC_bitmap
      BY <1>1, <1>2, <1>11, <3>1 DEF T
    <3> QED
      BY <1>1, <1>9, <1>14, <3>2, StaleMade
  <2>2. CASE Stale(s)
    <3>1. KeepsBits(s, t, n)
      BY <1>2, <1>11 DEF KeepsBits
    <3> QED
      BY <1>1, <1>9, <1>14, <2>2, <3>1, StaleKept
  <2> QED
    BY <2>1, <2>2 DEF FSLog
<1>17. t.seq[0] = << >>
  BY <1>1, <1>9, <1>11 DEF Store
<1>18. Room(t) = Room(s) - 1
  BY <1>11, RoomCounts
<1>19. FSLog(t)
  BY <1>15, <1>16, <1>17 DEF FSLog
<1> USE DEF t, b, r
<1> QED
  BY <1>15, <1>18, <1>19

--------------------------------------------------------------------------------
(* Paths *)

LEMMA PathFacts ==
    /\ Root \in Path
    /\ \A p \in Path : /\ p \in Seq(Names) /\ Len(p) \in Nat /\ Len(p) <= MaxDepth
                       /\ p # Root => Len(p) >= 1
    /\ \A p \in Path \ {Root} :
          /\ Parent(p) \in Path /\ Name(p) \in Names
          /\ Len(Parent(p)) = Len(p) - 1 /\ Parent(p) # p
    /\ \A p, q \in Path \ {Root} : Parent(p) = Parent(q) /\ Name(p) = Name(q) => p = q
<1> USE FSAssumption
<1>1. \A p \in Path : \E k \in 0 .. MaxDepth : p \in [1 .. k -> Names]
  BY DEF Path
<1>2. \A k \in 0 .. MaxDepth : \A p \in [1 .. k -> Names] :
         p \in Path /\ p \in Seq(Names) /\ Len(p) = k
  BY DEF Path
<1>3. Root \in Path
  <2>1. << >> \in [1 .. 0 -> Names]
    OBVIOUS
  <2> QED
    BY <2>1 DEF Root, Path
<1>4. \A p \in Path : p \in Seq(Names) /\ Len(p) \in 0 .. MaxDepth
  BY <1>1, <1>2
<1>5. \A p \in Path : Len(p) = 0 => p = Root
  BY <1>4 DEF Root
<1>6. ASSUME NEW p \in Path \ {Root}
      PROVE  /\ Parent(p) \in Path /\ Name(p) \in Names
             /\ Len(Parent(p)) = Len(p) - 1
             /\ \A i \in 1 .. Len(p) - 1 : Parent(p)[i] = p[i]
             /\ Name(p) = p[Len(p)] /\ Len(p) \in 1 .. MaxDepth
  <2>1. p \in Seq(Names) /\ Len(p) \in 1 .. MaxDepth
    BY <1>4, <1>5
  <2>2. Parent(p) = SubSeq(p, 1, Len(p) - 1) /\ Name(p) = p[Len(p)]
    BY DEF Parent, Front, Name, Last
  <2>3. /\ Parent(p) \in Seq(Names) /\ Len(Parent(p)) = Len(p) - 1
        /\ \A i \in 1 .. Len(p) - 1 : Parent(p)[i] = p[i]
    <3>1. \A i \in 1 .. Len(p) - 1 : p[i] \in Names
      BY <2>1
    <3> DEFINE l == Len(p) - 1
    <3>2. l \in Nat /\ l - 1 + 1 = l /\ (1 <= l \/ l = 0)
          /\ \A i \in 1 .. l : 1 + i - 1 = i
      <4>1. \A k \in Nat : k - 1 + 1 = k /\ (1 <= k \/ k = 0)
                            /\ \A i \in 1 .. k : 1 + i - 1 = i
        OBVIOUS
      <4>2. l \in Nat
        BY <2>1
      <4> QED
        BY <4>1, <4>2
    <3>3. /\ SubSeq(p, 1, l) \in Seq(Names)
          /\ Len(SubSeq(p, 1, l)) = (IF 1 <= l THEN l - 1 + 1 ELSE 0)
          /\ \A i \in 1 .. l - 1 + 1 : SubSeq(p, 1, l)[i] = p[1 + i - 1]
      BY <3>1, <3>2, SubSeqProperties
    <3> HIDE DEF l
    <3>4. Len(SubSeq(p, 1, l)) = l /\ \A i \in 1 .. l : SubSeq(p, 1, l)[i] = p[i]
      BY <3>2, <3>3
    <3> QED
      BY <2>2, <3>3, <3>4 DEF l
  <2>4. Len(p) - 1 \in 0 .. MaxDepth /\ Name(p) \in Names
    BY <2>1, <2>2
  <2>5. Parent(p) \in [1 .. Len(p) - 1 -> Names]
    BY <2>3
  <2> HIDE DEF Path
  <2> QED
    BY <1>2, <2>1, <2>2, <2>3, <2>4, <2>5
<1>7. \A p \in Path \ {Root} : Parent(p) # p
  <2>1. \A p \in Path : Len(p) \in Int
    BY <1>4
  <2> QED
    BY <1>6, <2>1
<1>8. ASSUME NEW p \in Path \ {Root}, NEW q \in Path \ {Root},
             Parent(p) = Parent(q), Name(p) = Name(q)
      PROVE  p = q
  <2>1. Len(p) = Len(q) /\ Len(p) \in Nat
    BY <1>6, <1>8
  <2>2. \A i \in 1 .. Len(p) : p[i] = q[i]
    BY <1>6, <1>8, <2>1
  <2>3. p \in Seq(Names) /\ q \in Seq(Names)
    BY <1>4
  <2> QED
    BY <2>1, <2>2, <2>3
<1>9. \A p \in Path : p # Root => Len(p) >= 1
  BY <1>6
<1> QED
  BY <1>3, <1>4, <1>6, <1>7, <1>8, <1>9

--------------------------------------------------------------------------------
(* The tree of inodes and dirent blocks *)

(* The dirents behind pointer i of inode n, when numbers read as C. *)
SlotsOf(C, n, i) == IF C[n].direct[i] = 0 THEN << >> ELSE C[C[n].direct[i]].dirents

HasName(C, n, name) == \E i \in 1 .. NDirect : Holds(SlotsOf(C, n, i), name)

NamesOf(C, n) == {name \in Names : HasName(C, n, name)}

DirAt(C, n) == n # 0 /\ C[n].kind = "dir"

(* An inode with its dirent blocks; a name is in one slot. *)
NodeOK(C, n) ==
    /\ C[n] \in InodeData /\ C[n].kind \in {"dir", "reg"}
    /\ \A i \in 1 .. NDirect :
          /\ C[n].kind = "reg" => C[n].direct[i] = 0
          /\ C[n].direct[i] # 0 => C[C[n].direct[i]] \in DirentData
    /\ \A i, k \in 1 .. NDirect :
          \A j \in DOMAIN SlotsOf(C, n, i), l \in DOMAIN SlotsOf(C, n, k) :
             SlotsOf(C, n, i)[j].name = SlotsOf(C, n, k)[l].name => i = k /\ j = l

(* The numbers of a path and of its parent agree with the parent's dirents. *)
LinkOK(C, num, q) ==
    LET d == num[Parent(q)]
    IN  /\ num[q] # 0 => DirAt(C, d) /\ HasName(C, d, Name(q))
        /\ DirAt(C, d) =>
              \A i \in 1 .. NDirect : \A j \in DOMAIN SlotsOf(C, d, i) :
                 SlotsOf(C, d, i)[j].name = Name(q)
                    => SlotsOf(C, d, i)[j].i_ino = num[q]

(* No two paths share an inode, no two pointers a block, and no pointer    *)
(* leads to an inode.                                                      *)
Apart(C, num) ==
    \A p, q \in Path : num[p] # 0 /\ num[q] # 0 =>
        /\ num[p] = num[q] => p = q
        /\ \A i \in 1 .. NDirect : C[num[p]].direct[i] # num[q]
        /\ \A i, j \in 1 .. NDirect :
              C[num[p]].direct[i] # 0 /\ C[num[p]].direct[i] = C[num[q]].direct[j]
                 => p = q /\ i = j

(* file_len counts the entries. *)
CountOK(C, num, p) ==
    LET S == NamesOf(C, num[p])
    IN  DirAt(C, num[p]) =>
          /\ IsFiniteSet(S)
          /\ C[num[p]].file_len = Cardinality(S) + (IF p = Root THEN 0 ELSE 2)

(* num gives every path its inode, 0 where there is none. *)
Tree(C, num) ==
    /\ num \in [Path -> Lbn \cup {0}]
    /\ num[Root] = starting_logical_number /\ DirAt(C, num[Root])
    /\ \A p \in Path : num[p] # 0 => NodeOK(C, num[p])
    /\ \A q \in Path \ {Root} : LinkOK(C, num, q)
    /\ Apart(C, num)
    /\ \A p \in Path : CountOK(C, num, p)

--------------------------------------------------------------------------------
(* Reading the tree *)

(* What the clients' blocks of HodoLog may hold covers inodes and dirents. *)
DataHoldsFS == FSData \subseteq Data

LEMMA NodeNotNil ==
    ASSUME DataHoldsFS
    PROVE  /\ \A x \in InodeData : x # Nil /\ x \in Data /\ (x.kind # "zero" => x # Zeroed)
           /\ \A x \in DirentData : x # Nil /\ x \in Data
BY NilAssumption DEF DataHoldsFS, FSData, Zeroed, Inode

(* The inode of a path, as an operation reads it. *)
LEMMA ReadNode ==
    ASSUME DataHoldsFS, NEW s, Readable(s), NEW n \in Lbn, NodeOK(Content(s), n)
    PROVE  /\ n \in Mapped(s)
           /\ ReadInode(s, n) \in Buffer
           /\ ReadInode(s, n).data = Content(s)[n] /\ ReadInode(s, n).lbn = n
BY NodeNotNil, ReadContent DEF NodeOK, ReadInode

(* The buffer of a scan holds the block of every pointer it has passed. *)
LEMMA ScanBufferAt ==
    ASSUME NEW s, Readable(s), NEW inode,
           inode.direct \in [1 .. NDirect -> Lbn \cup {0}],
           \A i \in 1 .. NDirect : inode.direct[i] # 0 => Content(s)[inode.direct[i]] # Nil
    PROVE  \A i \in 1 .. NDirect : inode.direct[i] # 0 =>
              ScanBuffer(s, inode)[i] = BlockAt(s, s.mapping_table[inode.direct[i]])
<1> DEFINE D == inode.direct
           Blk(i) == BlockAt(s, s.mapping_table[D[i]])
           Past(i) == {j \in 1 .. i : D[j] # 0}
           Final(i) == CHOOSE j \in Past(i) : \A k \in Past(i) : k <= j
           E(f) == [i \in 0 .. NDirect |->
                      IF i = 0 THEN ZeroData
                      ELSE IF D[i] = 0 THEN f[i - 1]
                      ELSE hodo_read_struct(s, D[i], f[i - 1])]
           W == [i \in 0 .. NDirect |->
                   IF Past(i) = {} THEN ZeroData ELSE Blk(Final(i))]
<1>0. NDirect \in Nat
  BY FSAssumption
<1>1. \A i \in 1 .. NDirect : D[i] # 0 => \A buf : hodo_read_struct(s, D[i], buf) = Blk(i)
  BY ReadContent
<1>2. W = E(W)
  <2>1. Past(0) = {}
    OBVIOUS
  <2>2. \A i \in 1 .. NDirect : D[i] = 0 => Past(i) = Past(i - 1)
    BY <1>0
  <2>3. ASSUME NEW i \in 1 .. NDirect, D[i] # 0
        PROVE  Past(i) # {} /\ Final(i) = i
    <3>1. i \in Past(i) /\ \A k \in Past(i) : k <= i /\ k \in Int
      BY <1>0, <2>3
    <3> HIDE DEF Past
    <3>2. \A j \in Past(i) : (\A k \in Past(i) : k <= j) => j = i
      BY <1>0, <3>1
    <3> QED
      BY <3>1, <3>2
  <2>5. \A i \in 1 .. NDirect : D[i] = 0 => Final(i) = Final(i - 1)
    BY <2>2, Zenon
  <2> HIDE DEF Past, Final, Blk, D
  <2>4. \A i \in 0 .. NDirect : W[i] = E(W)[i]
    <3> SUFFICES ASSUME NEW i \in 0 .. NDirect PROVE W[i] = E(W)[i]
      OBVIOUS
    <3>1. CASE i = 0
      BY <2>1, <3>1
    <3>2. CASE i # 0 /\ D[i] = 0
      <4>1. i \in 1 .. NDirect /\ i - 1 \in 0 .. NDirect
        BY <1>0, <3>2
      <4>2. W[i - 1] = IF Past(i - 1) = {} THEN ZeroData ELSE Blk(Final(i - 1))
        BY <4>1
      <4>3. W[i] = IF Past(i) = {} THEN ZeroData ELSE Blk(Final(i))
        OBVIOUS
      <4>4. E(W)[i] = W[i - 1]
        BY <3>2
      <4> QED
        BY <2>2, <2>5, <3>2, <4>1, <4>2, <4>3, <4>4, Zenon
    <3>3. CASE i # 0 /\ D[i] # 0
      <4>1. i \in 1 .. NDirect
        BY <1>0, <3>3
      <4> QED
        BY <1>1, <2>3, <3>3, <4>1
    <3> QED
      BY <3>1, <3>2, <3>3
  <2> QED
    BY <2>4
<1>3. ScanBuffer(s, inode) = (CHOOSE f : f = E(f))
  BY DEF ScanBuffer
<1> HIDE DEF W
<1>4. ScanBuffer(s, inode) = E(ScanBuffer(s, inode))
  BY <1>2, <1>3
<1>5. ASSUME NEW i \in 1 .. NDirect, D[i] # 0
      PROVE  ScanBuffer(s, inode)[i] = Blk(i)
  <2>1. i # 0 /\ i \in 0 .. NDirect
    BY <1>0
  <2>2. E(ScanBuffer(s, inode))[i] = hodo_read_struct(s, D[i], ScanBuffer(s, inode)[i - 1])
    BY <1>5, <2>1
  <2> QED
    BY <1>1, <1>4, <1>5, <2>2
<1> QED
  BY <1>5

LEMMA FirstIs ==
    ASSUME NEW S, S \subseteq Nat, S # {}
    PROVE  First(S) \in S /\ \A j \in S : First(S) <= j
BY LeastNat DEF First

(* The dirents an operation reads are those of the tree. *)
LEMMA NodeSlots ==
    ASSUME DataHoldsFS, NEW s, Readable(s), NEW n \in Lbn, NodeOK(Content(s), n)
    PROVE  \A i \in 1 .. NDirect :
              LET C == Content(s)
                  b == ScanBuffer(s, C[n])[i]
              IN  /\ Slots(s, C[n], i) = SlotsOf(C, n, i)
                  /\ SlotsOf(C, n, i) \in Seq([name : Names, i_ino : Lbn])
                  /\ C[n].direct[i] # 0 =>
                       /\ C[n].direct[i] \in Mapped(s)
                       /\ b \in Buffer /\ b.lbn = C[n].direct[i]
                       /\ b.data = C[b.lbn] /\ b.data \in DirentData
<1> DEFINE C == Content(s)
           D == C[n].direct
<1>1. D \in [1 .. NDirect -> Lbn \cup {0}]
  BY DEF NodeOK, InodeData
<1>2. \A i \in 1 .. NDirect : D[i] # 0 =>
         D[i] \in Lbn /\ C[D[i]] \in DirentData /\ C[D[i]] # Nil /\ C[D[i]] # Zeroed
  <2>1. \A x \in DirentData : x # Zeroed
    <3>1. \A x \in DirentData : DOMAIN x = {"dirents"}
      BY DEF DirentData
    <3>2. "kind" \in DOMAIN Zeroed
      BY DEF Zeroed, Inode
    <3> QED
      BY <3>1, <3>2
  <2> QED
    BY <1>1, <2>1, NodeNotNil DEF NodeOK
<1>3. \A i \in 1 .. NDirect : D[i] # 0 =>
         ScanBuffer(s, C[n])[i] = BlockAt(s, s.mapping_table[D[i]])
  BY <1>1, <1>2, ScanBufferAt
<1>4. ASSUME NEW i \in 1 .. NDirect, D[i] # 0
      PROVE  /\ D[i] \in Mapped(s)
             /\ ScanBuffer(s, C[n])[i] \in Buffer /\ ScanBuffer(s, C[n])[i].lbn = D[i]
             /\ ScanBuffer(s, C[n])[i].data = C[D[i]]
  BY <1>2, <1>3, <1>4, ReadContent
<1>5. ASSUME NEW i \in 1 .. NDirect
      PROVE  /\ Slots(s, C[n], i) = SlotsOf(C, n, i)
             /\ SlotsOf(C, n, i) \in Seq([name : Names, i_ino : Lbn])
  <2>1. CASE D[i] = 0
    BY <2>1 DEF Slots, SlotsOf
  <2>2. CASE D[i] # 0
    <3>1. ScanBuffer(s, C[n])[i].data = C[D[i]] /\ C[D[i]] \in DirentData
      BY <1>2, <1>4, <2>2
    <3>2. C[D[i]].dirents \in Seq([name : Names, i_ino : Lbn])
      BY <3>1 DEF DirentData
    <3> QED
      BY <2>2, <3>1, <3>2 DEF Slots, SlotsOf
  <2> QED
    BY <2>1, <2>2
<1> QED
  BY <1>2, <1>4, <1>5

(* A lookup finds the entry of a name, wherever it is, and nothing for a   *)
(* name that is not there.                                                 *)
LEMMA FindNumber ==
    ASSUME DataHoldsFS, NEW s, Readable(s), NEW n \in Lbn, NodeOK(Content(s), n), NEW name
    PROVE  LET C == Content(s)
               k == find_inode_number(s, C[n], name)
           IN  /\ ~HasName(C, n, name) => k = 0
               /\ \A i \in 1 .. NDirect : \A j \in DOMAIN SlotsOf(C, n, i) :
                     SlotsOf(C, n, i)[j].name = name =>
                        k = SlotsOf(C, n, i)[j].i_ino /\ k \in Lbn
<1> DEFINE C == Content(s)
           S(i) == SlotsOf(C, n, i)
           hits == {i \in 1 .. NDirect : Holds(Slots(s, C[n], i), name)}
           f == First(hits)
           J == {j \in DOMAIN Slots(s, C[n], f) : Slots(s, C[n], f)[j].name = name}
           g == First(J)
<1>1. \A i \in 1 .. NDirect : Slots(s, C[n], i) = S(i)
                              /\ S(i) \in Seq([name : Names, i_ino : Lbn])
  BY NodeSlots
<1>2. find_inode_number(s, C[n], name)
         = IF hits = {} THEN 0 ELSE Slots(s, C[n], f)[g].i_ino
  BY DEF find_inode_number
<1>3. hits = {i \in 1 .. NDirect : \E j \in DOMAIN S(i) : S(i)[j].name = name}
  BY <1>1 DEF Holds
<1>4. ASSUME ~HasName(C, n, name)
      PROVE  hits = {}
  BY <1>3, <1>4 DEF HasName, Holds
<1>5. ASSUME NEW i \in 1 .. NDirect, NEW j \in DOMAIN S(i), S(i)[j].name = name
      PROVE  /\ hits # {} /\ Slots(s, C[n], f)[g] = S(i)[j]
             /\ S(i)[j].i_ino \in Lbn
  <2>1. i \in hits /\ hits \subseteq Nat
    BY <1>3, <1>5
  <2>2. f \in hits
    BY <2>1, FirstIs
  <2>3. f \in 1 .. NDirect /\ \E l \in DOMAIN S(f) : S(f)[l].name = name
    BY <1>3, <2>2
  <2>4. Slots(s, C[n], f) = S(f) /\ S(f) \in Seq([name : Names, i_ino : Lbn])
    BY <1>1, <2>3
  <2>5. J = {l \in DOMAIN S(f) : S(f)[l].name = name}
    BY <2>4
  <2> HIDE DEF J, f, S
  <2>6. J # {} /\ J \subseteq Nat
    <3>1. DOMAIN S(f) = 1 .. Len(S(f))
      BY <2>4
    <3> QED
      BY <2>3, <2>5, <3>1
  <2>7. g \in J
    BY <2>6, FirstIs DEF J
  <2>8. g \in DOMAIN S(f) /\ S(f)[g].name = name
    BY <2>5, <2>7
  <2> HIDE DEF g
  <2>9. f = i /\ g = j
    BY <1>5, <2>3, <2>8 DEF NodeOK, S
  <2>10. S(i)[j].i_ino \in Lbn
    <3>1. S(i) \in Seq([name : Names, i_ino : Lbn])
      BY <1>1
    <3>2. DOMAIN S(i) = 1 .. Len(S(i))
      BY <3>1
    <3>3. S(i)[j] \in [name : Names, i_ino : Lbn]
      BY <1>5, <3>1, <3>2, ElementOfSeq
    <3> QED
      BY <3>3
  <2> QED
    BY <2>1, <2>4, <2>9, <2>10
<1> QED
  BY <1>2, <1>4, <1>5

(* rmdir finds a directory empty when no name is in it. *)
LEMMA EmptyFound ==
    ASSUME DataHoldsFS, NEW s, Readable(s), NEW n \in Lbn, NodeOK(Content(s), n),
           check_directory_empty(s, n)
    PROVE  \A i \in 1 .. NDirect : SlotsOf(Content(s), n, i) = << >>
BY NodeSlots, ReadNode DEF check_directory_empty

(* A walk from the root finds the numbers of the tree. *)
LEMMA WalkFinds ==
    ASSUME DataHoldsFS, NEW s, Readable(s), NEW num, Tree(Content(s), num)
    PROVE  DiskNumber(s) = num
<1> DEFINE C == Content(s)
           Found(d, p) == IF d = 0 \/ ReadInode(s, d).data.kind # "dir" THEN 0
                          ELSE find_inode_number(s, ReadInode(s, d).data, Name(p))
           E(f) == [p \in Path |-> IF p = Root THEN starting_logical_number
                                   ELSE Found(f[Parent(p)], p)]
           N == DiskNumber(s)
<1>1. /\ num \in [Path -> Lbn \cup {0}] /\ num[Root] = starting_logical_number
      /\ \A p \in Path : num[p] # 0 => NodeOK(C, num[p])
      /\ \A q \in Path \ {Root} : LinkOK(C, num, q)
  BY DEF Tree
<1>2. ASSUME NEW p \in Path \ {Root}
      PROVE  num[p] = Found(num[Parent(p)], p)
  <2> DEFINE d == num[Parent(p)]
  <2>1. Parent(p) \in Path /\ d \in Lbn \cup {0} /\ LinkOK(C, num, p)
    BY <1>1, PathFacts
  <2>2. CASE d = 0
    BY <2>1, <2>2 DEF LinkOK, DirAt
  <2>3. CASE d # 0
    <3>1. NodeOK(C, d) /\ d \in Lbn
      BY <1>1, <2>1, <2>3
    <3>2. ReadInode(s, d).data = C[d]
      BY <3>1, ReadNode
    <3> HIDE DEF d, C
    <3>3. CASE C[d].kind # "dir"
      <4>1. num[p] = 0
        BY <2>1, <3>3 DEF LinkOK, DirAt, d
      <4> QED
        BY <3>2, <3>3, <4>1 DEF d
    <3>4. CASE C[d].kind = "dir"
      <4> DEFINE k == find_inode_number(s, C[d], Name(p))
      <4>1. Found(d, p) = k
        BY <2>3, <3>2, <3>4
      <4>2. /\ ~HasName(C, d, Name(p)) => k = 0
            /\ \A i \in 1 .. NDirect : \A j \in DOMAIN SlotsOf(C, d, i) :
                  SlotsOf(C, d, i)[j].name = Name(p) => k = SlotsOf(C, d, i)[j].i_ino
        BY <3>1, FindNumber DEF C
      <4>3. /\ num[p] # 0 => HasName(C, d, Name(p))
            /\ \A i \in 1 .. NDirect : \A j \in DOMAIN SlotsOf(C, d, i) :
                  SlotsOf(C, d, i)[j].name = Name(p) => SlotsOf(C, d, i)[j].i_ino = num[p]
        BY <2>1, <2>3, <3>4 DEF LinkOK, DirAt, d
      <4> HIDE DEF k
      <4>4. num[p] = k
        <5>1. CASE HasName(C, d, Name(p))
          <6>1. PICK i \in 1 .. NDirect :
                   \E j \in DOMAIN SlotsOf(C, d, i) : SlotsOf(C, d, i)[j].name = Name(p)
            BY <5>1 DEF HasName, Holds
          <6>2. PICK j \in DOMAIN SlotsOf(C, d, i) : SlotsOf(C, d, i)[j].name = Name(p)
            BY <6>1
          <6> QED
            BY <4>2, <4>3, <6>2
        <5>2. CASE ~HasName(C, d, Name(p))
          BY <4>2, <4>3, <5>2
        <5> QED
          BY <5>1, <5>2
      <4> QED
        BY <4>1, <4>4 DEF d
    <3> QED
      BY <3>3, <3>4
  <2> QED
    BY <2>2, <2>3
<1> HIDE DEF Found
<1>3. num = E(num)
  <2>1. \A p \in Path : num[p] = E(num)[p]
    BY <1>1, <1>2
  <2> QED
    BY <1>1, <2>1
<1>4. N = (CHOOSE f : f = E(f))
  BY DEF DiskNumber, Found
<1> HIDE DEF N
<1>5. N = E(N)
  BY <1>3, <1>4
<1>6. \A p \in Path : N[p] = num[p]
  <2> DEFINE Bad == {l \in Nat : \E p \in Path : Len(p) = l /\ N[p] # num[p]}
  <2>1. SUFFICES ASSUME Bad # {} PROVE FALSE
    <3>1. \A p \in Path : Len(p) \in Nat
      BY PathFacts
    <3> QED
      BY <3>1
  <2>2. PICK l \in Bad : \A k \in Bad : l <= k
    <3> HIDE DEF Bad
    <3>1. Bad \in SUBSET Nat
      BY DEF Bad
    <3> QED
      BY <2>1, <3>1, LeastNat
  <2>3. PICK p \in Path : Len(p) = l /\ N[p] # num[p]
    OBVIOUS
  <2>4. p # Root
    BY <1>1, <1>5, <2>3
  <2>5. Parent(p) \in Path /\ Len(Parent(p)) = l - 1 /\ l - 1 \in Nat /\ l \in Nat
    BY <2>3, <2>4, PathFacts
  <2>6. N[Parent(p)] = num[Parent(p)]
    BY <2>2, <2>5
  <2> HIDE DEF Bad
  <2>7. N[p] = Found(N[Parent(p)], p)
    BY <1>5, <2>4
  <2> QED
    BY <1>2, <2>3, <2>4, <2>6, <2>7
<1>7. N = [p \in Path |-> N[p]] /\ num = [p \in Path |-> num[p]]
  BY <1>1, <1>5
<1> QED
  BY <1>6, <1>7 DEF N

(* What a path of the tree is. *)
KindOf(C, n) == IF n = 0 THEN "none" ELSE C[n].kind

Shown(C, num) == [p \in Path |-> KindOf(C, num[p])]

LEMMA TreeShown ==
    ASSUME DataHoldsFS, NEW s, Readable(s), NEW num, Tree(Content(s), num)
    PROVE  /\ \A p \in Path : DiskKind(s, num[p]) = KindOf(Content(s), num[p])
           /\ DiskTree(s) = Shown(Content(s), num)
<1>1. ASSUME NEW p \in Path
      PROVE  DiskKind(s, num[p]) = KindOf(Content(s), num[p])
  <2>1. CASE num[p] = 0
    BY <2>1 DEF DiskKind, KindOf
  <2>2. CASE num[p] # 0
    <3>1. NodeOK(Content(s), num[p]) /\ num[p] \in Lbn
      BY <2>2 DEF Tree
    <3>2. ReadInode(s, num[p]).data = Content(s)[num[p]]
      BY <3>1, ReadNode
    <3> QED
      BY <2>2, <3>2 DEF DiskKind, KindOf
  <2> QED
    BY <2>1, <2>2
<1>2. DiskNumber(s) = num
  BY WalkFinds
<1> QED
  BY <1>1, <1>2 DEF DiskTree, Shown

--------------------------------------------------------------------------------
(* Listing *)

Elements(q) == {q[k] : k \in DOMAIN q}

NamesApart(q) == \A j, k \in DOMAIN q : q[j].name = q[k].name => j = k

LEMMA JoinNames ==
    ASSUME NEW T, NEW q \in Seq(T), NEW r \in Seq(T)
    PROVE  /\ q \o r \in Seq(T) /\ Elements(q \o r) = Elements(q) \cup Elements(r)
           /\ (/\ NamesApart(q) /\ NamesApart(r)
               /\ \A x \in Elements(q), y \in Elements(r) : x.name # y.name)
              => NamesApart(q \o r)
<1> DEFINE t == q \o r
           a == Len(q)
           b == Len(r)
<1>1. /\ a \in Nat /\ b \in Nat /\ DOMAIN q = 1 .. a /\ DOMAIN r = 1 .. b
      /\ t \in Seq(T) /\ Len(t) = a + b
      /\ \A i \in 1 .. a + b : t[i] = IF i <= a THEN q[i] ELSE r[i - a]
  BY ConcatProperties, LenProperties
<1>2. DOMAIN t = 1 .. a + b
  BY <1>1
<1> HIDE DEF t, a, b
<1>3. /\ \A i \in 1 .. a : i \in DOMAIN t /\ t[i] = q[i]
      /\ \A i \in 1 .. b : a + i \in DOMAIN t /\ t[a + i] = r[i]
      /\ \A i \in DOMAIN t : \/ i \in 1 .. a /\ t[i] = q[i]
                             \/ i - a \in 1 .. b /\ t[i] = r[i - a] /\ i > a
  <2>1. \A i \in 1 .. a : i \in 1 .. a + b /\ i <= a
    BY <1>1
  <2>2. \A i \in 1 .. b : a + i \in 1 .. a + b /\ ~(a + i <= a) /\ a + i - a = i
    BY <1>1
  <2>3. \A i \in 1 .. a + b : \/ i \in 1 .. a /\ i <= a
                              \/ ~(i <= a) /\ i - a \in 1 .. b /\ i > a
    BY <1>1
  <2> QED
    BY <1>1, <1>2, <2>1, <2>2, <2>3
<1>4. Elements(t) = Elements(q) \cup Elements(r)
  <2>1. \A i \in DOMAIN t : t[i] \in Elements(q) \cup Elements(r)
    BY <1>1, <1>3 DEF Elements
  <2>2. \A i \in DOMAIN q : q[i] \in Elements(t)
    BY <1>1, <1>3 DEF Elements
  <2>3. \A i \in DOMAIN r : r[i] \in Elements(t)
    BY <1>1, <1>3 DEF Elements
  <2> QED
    BY <2>1, <2>2, <2>3 DEF Elements
<1>5. ASSUME NamesApart(q), NamesApart(r),
             \A x \in Elements(q), y \in Elements(r) : x.name # y.name
      PROVE  NamesApart(t)
  <2> SUFFICES ASSUME NEW j \in DOMAIN t, NEW k \in DOMAIN t, t[j].name = t[k].name
               PROVE  j = k
    BY DEF NamesApart
  <2>1. j \in Int /\ k \in Int /\ a \in Int
    BY <1>1, <1>2
  <2>2. CASE j \in 1 .. a /\ k \in 1 .. a
    <3>1. t[j] = q[j] /\ t[k] = q[k]
      BY <1>3, <2>2
    <3> QED
      BY <1>1, <1>5, <2>2, <3>1 DEF NamesApart
  <2>3. CASE j \notin 1 .. a /\ k \notin 1 .. a
    <3>1. j - a \in 1 .. b /\ t[j] = r[j - a] /\ k - a \in 1 .. b /\ t[k] = r[k - a]
      BY <1>3, <2>3
    <3>2. j - a = k - a
      BY <1>1, <1>5, <3>1 DEF NamesApart
    <3> QED
      BY <2>1, <3>2
  <2>4. CASE j \in 1 .. a /\ k \notin 1 .. a
    <3>1. t[j] = q[j] /\ k - a \in 1 .. b /\ t[k] = r[k - a]
      BY <1>3, <2>4
    <3>2. q[j] \in Elements(q) /\ r[k - a] \in Elements(r)
      BY <1>1, <2>4, <3>1 DEF Elements
    <3> QED
      BY <1>5, <3>1, <3>2
  <2>5. CASE j \notin 1 .. a /\ k \in 1 .. a
    <3>1. t[k] = q[k] /\ j - a \in 1 .. b /\ t[j] = r[j - a]
      BY <1>3, <2>5
    <3>2. q[k] \in Elements(q) /\ r[j - a] \in Elements(r)
      BY <1>1, <2>5, <3>1 DEF Elements
    <3> QED
      BY <1>5, <3>1, <3>2
  <2> QED
    BY <2>2, <2>3, <2>4, <2>5
<1> QED
  BY <1>1, <1>4, <1>5 DEF t

(* FlattenSeq puts the elements of all sequences in one. *)
LEMMA FlattenNames ==
    ASSUME NEW T, NEW n \in Nat \ {0}, NEW S \in [1 .. n -> Seq(T)],
           \A i, k \in 1 .. n : \A j \in DOMAIN S[i], l \in DOMAIN S[k] :
              S[i][j].name = S[k][l].name => i = k /\ j = l
    PROVE  /\ FlattenSeq(S) \in Seq(T) /\ NamesApart(FlattenSeq(S))
           /\ Elements(FlattenSeq(S)) = UNION {Elements(S[i]) : i \in 1 .. n}
<1> DEFINE E(f, m) == [i \in 1 .. m |-> IF i = 1 THEN S[i] ELSE f[i - 1] \o S[i]]
           F == CHOOSE f : f = E(f, n)
<1>1. Len(S) = n /\ n # 0
  OBVIOUS
<1>2. FlattenSeq(S) = F[n]
  BY <1>1 DEF FlattenSeq
<1>3. \A m \in Nat : \E f : f = E(f, m)
  <2> DEFINE Solved(m) == \E f : f = E(f, m)
             Bad == {m \in Nat : ~ Solved(m)}
  <2>1. SUFFICES ASSUME Bad # {} PROVE FALSE
    OBVIOUS
  <2>2. PICK m \in Bad : \A k \in Bad : m <= k
    <3> HIDE DEF Bad
    <3>1. Bad \in SUBSET Nat
      BY DEF Bad
    <3> QED
      BY <2>1, <3>1, LeastNat
  <2>3. m # 0
    <3> DEFINE e == [i \in 1 .. 0 |-> S[i]]
    <3>1. e = E(e, 0)
      OBVIOUS
    <3> QED
      BY <3>1
  <2>4. m \in Nat /\ m - 1 \in Nat /\ m - 1 < m
    BY <2>3
  <2>5. Solved(m - 1)
    <3> HIDE DEF Solved
    <3> QED
      BY <2>2, <2>4
  <2>6. PICK f : f = E(f, m - 1)
    BY <2>5
  <2> DEFINE g == [i \in 1 .. m |-> IF i = 1 THEN S[i] ELSE f[i - 1] \o S[i]]
  <2>7. \A i \in 1 .. m - 1 : g[i] = f[i]
    <3>1. \A i \in 1 .. m - 1 : i \in 1 .. m
      BY <2>4
    <3>2. \A i \in 1 .. m - 1 : f[i] = IF i = 1 THEN S[i] ELSE f[i - 1] \o S[i]
      BY <2>6
    <3> QED
      BY <3>1, <3>2
  <2>8. g = E(g, m)
    <3>1. \A i \in 1 .. m : i # 1 => i - 1 \in 1 .. m - 1
      BY <2>4
    <3>2. \A i \in 1 .. m : i # 1 => f[i - 1] = g[i - 1]
      BY <2>7, <3>1
    <3> HIDE DEF g
    <3>3. \A i \in 1 .. m : g[i] = E(g, m)[i]
      BY <3>2 DEF g
    <3>4. g = [i \in 1 .. m |-> g[i]]
      BY DEF g
    <3> QED
      BY <3>3, <3>4
  <2> QED
    BY <2>8
<1>4. F = E(F, n)
  <2>1. \E f : f = E(f, n)
    BY <1>3
  <2> HIDE DEF E
  <2> QED
    BY <2>1
<1> HIDE DEF F
<1>5. \A i \in 1 .. n : F[i] = IF i = 1 THEN S[i] ELSE F[i - 1] \o S[i]
  BY <1>4
<1> DEFINE Upto(i) == UNION {Elements(S[k]) : k \in 1 .. i}
           Good(i) == F[i] \in Seq(T) /\ NamesApart(F[i]) /\ Elements(F[i]) = Upto(i)
<1>6. \A i \in 1 .. n : S[i] \in Seq(T) /\ NamesApart(S[i])
  BY DEF NamesApart
<1>7. \A i, k \in 1 .. n : \A x \in Elements(S[i]), y \in Elements(S[k]) :
         x.name = y.name => i = k
  BY DEF Elements
<1>8. Good(1)
  <2>1. 1 \in 1 .. n
    OBVIOUS
  <2>2. F[1] = S[1]
    BY <1>5, <2>1
  <2>3. Upto(1) = Elements(S[1])
    OBVIOUS
  <2> QED
    BY <1>6, <2>1, <2>2, <2>3
<1>9. ASSUME NEW i \in 1 .. n, i # 1, Good(i - 1)
      PROVE  Good(i)
  <2>1. i - 1 \in 1 .. n /\ F[i] = F[i - 1] \o S[i] /\ i \in Nat
    <3>1. i # 1
      BY <1>9
    <3>2. i - 1 \in 1 .. n /\ i \in Nat
      BY <3>1
    <3>3. F[i] = F[i - 1] \o S[i]
      BY <1>5, <3>1, Zenon
    <3> QED
      BY <3>2, <3>3
  <2>2. 1 .. i = (1 .. i - 1) \cup {i} /\ i \notin 1 .. i - 1
        /\ \A k \in 1 .. i - 1 : k \in 1 .. n
    BY <2>1
  <2>3. Upto(i) = Upto(i - 1) \cup Elements(S[i])
    BY <2>2
  <2>4. \A x \in Elements(F[i - 1]), y \in Elements(S[i]) : x.name # y.name
    <3> SUFFICES ASSUME NEW x \in Upto(i - 1), NEW y \in Elements(S[i]) PROVE x.name # y.name
      BY <1>9
    <3>1. PICK k \in 1 .. i - 1 : x \in Elements(S[k])
      OBVIOUS
    <3>2. k \in 1 .. n /\ k # i
      BY <2>2
    <3> QED
      BY <1>7, <3>1, <3>2
  <2> HIDE DEF Upto
  <2>5. /\ F[i] \in Seq(T) /\ Elements(F[i]) = Elements(F[i - 1]) \cup Elements(S[i])
        /\ NamesApart(F[i])
    BY <1>6, <1>9, <2>1, <2>4, JoinNames
  <2> QED
    BY <1>9, <2>3, <2>5
<1> HIDE DEF Good
<1>10. \A i \in 1 .. n : Good(i)
  <2> DEFINE Bad == {i \in 1 .. n : ~ Good(i)}
  <2>1. SUFFICES ASSUME Bad # {} PROVE FALSE
    OBVIOUS
  <2>2. PICK i \in Bad : \A k \in Bad : i <= k
    <3> HIDE DEF Bad
    <3>1. Bad \in SUBSET Nat
      BY DEF Bad
    <3> QED
      BY <2>1, <3>1, LeastNat
  <2>3. i \in 1 .. n /\ ~ Good(i) /\ i # 1
    BY <1>8
  <2>4. i - 1 \in 1 .. n /\ i - 1 < i
    BY <2>3
  <2>5. Good(i - 1)
    BY <2>2, <2>4
  <2> QED
    BY <1>9, <2>3, <2>5
<1> QED
  <2>1. Good(n)
    BY <1>10
  <2> QED
    BY <1>2, <2>1 DEF Good

(* What ls shows are the names of the directory, each once. *)
LEMMA ListsNames ==
    ASSUME DataHoldsFS, NEW s, Readable(s), NEW n \in Lbn, NodeOK(Content(s), n)
    PROVE  LET ds    == read_all_dirents(s, Content(s)[n])
               names == {ds[i].name : i \in DOMAIN ds}
           IN  /\ names = NamesOf(Content(s), n)
               /\ Cardinality(names) = Len(ds)
<1> DEFINE C == Content(s)
           T == [name : Names, i_ino : Lbn]
           Q == [i \in 1 .. NDirect |-> Slots(s, C[n], i)]
           ds == read_all_dirents(s, C[n])
           names == {ds[i].name : i \in DOMAIN ds}
<1>1. ds = FlattenSeq(Q)
  BY DEF read_all_dirents
<1>2. \A i \in 1 .. NDirect : Q[i] = SlotsOf(C, n, i) /\ Q[i] \in Seq(T)
  <2>1. \A i \in 1 .. NDirect : Slots(s, C[n], i) = SlotsOf(C, n, i)
                                 /\ SlotsOf(C, n, i) \in Seq(T)
    BY NodeSlots
  <2> QED
    BY <2>1
<1>3. Q \in [1 .. NDirect -> Seq(T)]
  BY <1>2
<1>4. \A i, k \in 1 .. NDirect : \A j \in DOMAIN Q[i], l \in DOMAIN Q[k] :
         Q[i][j].name = Q[k][l].name => i = k /\ j = l
  BY <1>2 DEF NodeOK
<1> HIDE DEF Q, ds
<1>5. /\ ds \in Seq(T) /\ NamesApart(ds)
      /\ Elements(ds) = UNION {Elements(Q[i]) : i \in 1 .. NDirect}
  <2>1. NDirect \in Nat \ {0}
    BY FSAssumption
  <2> HIDE DEF T
  <2> QED
    BY <1>1, <1>3, <1>4, <2>1, FlattenNames
<1>6. names = {x.name : x \in Elements(ds)}
  BY DEF Elements
<1>7. names = NamesOf(C, n)
  <2>1. ASSUME NEW x \in Elements(ds)
        PROVE  x.name \in NamesOf(C, n)
    <3>1. PICK i \in 1 .. NDirect : x \in Elements(Q[i])
      BY <1>5
    <3>2. PICK j \in DOMAIN Q[i] : x = Q[i][j]
      BY <3>1 DEF Elements
    <3>3. Q[i] \in Seq(T) /\ Q[i] = SlotsOf(C, n, i) /\ DOMAIN Q[i] = 1 .. Len(Q[i])
      BY <1>2, LenProperties
    <3>4. x \in T
      BY <3>2, <3>3, ElementOfSeq
    <3>5. Holds(SlotsOf(C, n, i), x.name)
      BY <3>2, <3>3 DEF Holds
    <3> QED
      BY <3>4, <3>5 DEF NamesOf, HasName
  <2>2. ASSUME NEW a \in NamesOf(C, n)
        PROVE  \E x \in Elements(ds) : x.name = a
    <3>1. PICK i \in 1 .. NDirect : Holds(SlotsOf(C, n, i), a)
      BY DEF NamesOf, HasName
    <3>2. PICK j \in DOMAIN Q[i] : Q[i][j].name = a
      BY <1>2, <3>1 DEF Holds
    <3>3. Q[i][j] \in Elements(Q[i])
      BY DEF Elements
    <3>4. Q[i][j] \in Elements(ds)
      BY <1>5, <3>3
    <3> QED
      BY <3>2, <3>4
  <2> QED
    BY <1>6, <2>1, <2>2
<1>8. Cardinality(names) = Len(ds)
  <2> DEFINE f == [k \in 1 .. Len(ds) |-> ds[k].name]
  <2>1. Len(ds) \in Nat /\ DOMAIN ds = 1 .. Len(ds)
    BY <1>5, LenProperties
  <2>2. /\ f \in [1 .. Len(ds) -> names]
        /\ \A j, k \in 1 .. Len(ds) : f[j] = f[k] => j = k
        /\ \A a \in names : \E k \in 1 .. Len(ds) : f[k] = a
    BY <1>5, <2>1 DEF NamesApart
  <2> HIDE DEF f, names
  <2>3. f \in Bijection(1 .. Len(ds), names)
    BY <2>2 DEF Bijection, Injection, Surjection, IsInjective
  <2>4. ExistsBijection(1 .. Len(ds), names)
    BY <2>3 DEF ExistsBijection
  <2> QED
    BY <2>1, <2>4, FS_CountingElements
<1> QED
  BY <1>7, <1>8 DEF ds

--------------------------------------------------------------------------------
(* An entry comes *)

(* Contents are a function of the numbers. *)
OfNumbers(C) == C = [m \in Lbn |-> C[m]]

(* A number that the tree does not use. *)
Unused(C, num, n) ==
    \A q \in Path : num[q] # 0 =>
        num[q] # n /\ \A k \in 1 .. NDirect : C[num[q]].direct[k] # n

NewNode(kind) == Inode(kind, IF kind = "dir" THEN 2 ELSE 0, 1)

(* The inode of a directory that got an entry in the block b of pointer i. *)
Entered(x, i, b) == [x EXCEPT !.file_len = @ + 1, !.direct[i] = b]

(* create and mkdir take the contents C to D: inode n for path p, and its  *)
(* entry in the block b of the parent's pointer i.                         *)
Enters(C, num, p, n, kind, i, b, D) ==
    LET d == num[Parent(p)]
    IN  /\ OfNumbers(C) /\ Tree(C, num)
        /\ p \in Path \ {Root} /\ num[p] = 0 /\ DirAt(C, d)
        /\ n \in Lbn /\ Unused(C, num, n) /\ kind \in {"dir", "reg"}
        /\ i \in 1 .. NDirect /\ b \in Lbn /\ b # n
        /\ \/ C[d].direct[i] = b
           \/ C[d].direct[i] = 0 /\ Unused(C, num, b)
        /\ D = With(With(With(C, n, NewNode(kind)),
                         b, [dirents |-> Append(SlotsOf(C, d, i), Dirent(Name(p), n))]),
                    d, Entered(C[d], i, b))

EnteredIs(y, x, i, b) ==
    /\ y \in InodeData /\ y.kind = x.kind /\ y.file_len = x.file_len + 1
    /\ y.direct[i] = b
    /\ \A k \in 1 .. NDirect : k # i => y.direct[k] = x.direct[k]

LEMMA EnteredType ==
    ASSUME NEW x \in InodeData, NEW i \in 1 .. NDirect, NEW b \in Lbn
    PROVE  EnteredIs(Entered(x, i, b), x, i, b)
<1> DEFINE y == [x EXCEPT !.file_len = @ + 1]
<1>1. /\ y \in InodeData /\ y.kind = x.kind /\ y.direct = x.direct
      /\ y.file_len = x.file_len + 1
  BY DEF InodeData
<1>2. Entered(x, i, b) = [y EXCEPT !.direct = [y.direct EXCEPT ![i] = b]]
  BY DEF Entered
<1> HIDE DEF y
<1> DEFINE e == [y.direct EXCEPT ![i] = b]
<1>3. /\ e \in [1 .. NDirect -> Lbn \cup {0}] /\ e[i] = b
      /\ \A k \in 1 .. NDirect : k # i => e[k] = x.direct[k]
  BY <1>1 DEF InodeData
<1> HIDE DEF e
<1>4. /\ [y EXCEPT !.direct = e] \in InodeData
      /\ [y EXCEPT !.direct = e].kind = y.kind
      /\ [y EXCEPT !.direct = e].file_len = y.file_len
      /\ [y EXCEPT !.direct = e].direct = e
  BY <1>1, <1>3 DEF InodeData
<1> QED
  BY <1>1, <1>2, <1>3, <1>4 DEF e, EnteredIs

LEMMA WithAt ==
    ASSUME NEW C, OfNumbers(C), NEW n \in Lbn, NEW x
    PROVE  /\ With(C, n, x)[n] = x
           /\ \A m \in Lbn : m # n => With(C, n, x)[m] = C[m]
           /\ OfNumbers(With(C, n, x))
<1>1. DOMAIN C = Lbn
  BY DEF OfNumbers
<1>2. With(C, n, x) = [m \in Lbn |-> IF m = n THEN x ELSE C[m]]
  BY <1>1 DEF With
<1> QED
  BY <1>2 DEF OfNumbers

(* What that does to the numbers. *)
EntersEffect(C, num, p, n, kind, i, b, D) ==
    LET d == num[Parent(p)]
    IN  /\ d \in Lbn /\ d # n /\ b # d /\ NodeOK(C, d)
        /\ D[n] = NewNode(kind) /\ \A k \in 1 .. NDirect : SlotsOf(D, n, k) = << >>
        /\ D[d] = Entered(C[d], i, b)
        /\ D[b] = [dirents |-> Append(SlotsOf(C, d, i), Dirent(Name(p), n))]
        /\ SlotsOf(D, d, i) = Append(SlotsOf(C, d, i), Dirent(Name(p), n))
        /\ \A k \in 1 .. NDirect : k # i =>
              /\ SlotsOf(D, d, k) = SlotsOf(C, d, k)
              /\ D[d].direct[k] # 0 => D[D[d].direct[k]] = C[D[d].direct[k]]
        /\ \A q \in Path : num[q] # 0 /\ q # Parent(p) =>
              /\ num[q] # n /\ D[num[q]] = C[num[q]]
              /\ \A k \in 1 .. NDirect :
                    /\ SlotsOf(D, num[q], k) = SlotsOf(C, num[q], k)
                    /\ D[num[q]].direct[k] # 0 =>
                          D[D[num[q]].direct[k]] = C[D[num[q]].direct[k]]

LEMMA EntersSlots ==
    ASSUME NEW C, NEW num, NEW p, NEW n, NEW kind, NEW i, NEW b, NEW D,
           Enters(C, num, p, n, kind, i, b, D)
    PROVE  EntersEffect(C, num, p, n, kind, i, b, D)
<1> DEFINE d == num[Parent(p)]
           x == [dirents |-> Append(SlotsOf(C, d, i), Dirent(Name(p), n))]
<1>1. /\ OfNumbers(C) /\ Tree(C, num)
      /\ p \in Path \ {Root} /\ num[p] = 0 /\ DirAt(C, d)
      /\ n \in Lbn /\ Unused(C, num, n) /\ kind \in {"dir", "reg"}
      /\ i \in 1 .. NDirect /\ b \in Lbn /\ b # n
      /\ \/ C[d].direct[i] = b
         \/ C[d].direct[i] = 0 /\ Unused(C, num, b)
      /\ D = With(With(With(C, n, NewNode(kind)), b, x), d, Entered(C[d], i, b))
  BY DEF Enters
<1>2. /\ Parent(p) \in Path /\ d \in Lbn /\ d # 0 /\ NodeOK(C, d)
      /\ num \in [Path -> Lbn \cup {0}] /\ Apart(C, num)
  <2>1. Parent(p) \in Path
    BY <1>1, PathFacts
  <2> QED
    BY <1>1, <2>1 DEF Tree, DirAt
<1>3. d # n /\ \A k \in 1 .. NDirect : C[d].direct[k] # n /\ C[d].direct[k] # d
  BY <1>1, <1>2 DEF Unused, Apart
<1>4. b # d
  BY <1>1, <1>2, <1>3 DEF Unused
<1>5. \A k \in 1 .. NDirect : k # i /\ C[d].direct[k] # 0 => C[d].direct[k] # b
  BY <1>1, <1>2 DEF Unused, Apart
<1>6. ASSUME NEW q \in Path, num[q] # 0, q # Parent(p)
      PROVE  /\ num[q] \in Lbn /\ NodeOK(C, num[q])
             /\ num[q] # d /\ num[q] # n /\ num[q] # b
             /\ \A k \in 1 .. NDirect : C[num[q]].direct[k] # 0 =>
                   /\ C[num[q]].direct[k] # d /\ C[num[q]].direct[k] # n
                   /\ C[num[q]].direct[k] # b
  <2>1. num[q] \in Lbn /\ NodeOK(C, num[q])
    BY <1>1, <1>2, <1>6 DEF Tree
  <2>2. num[q] # d /\ \A k \in 1 .. NDirect : C[num[q]].direct[k] # d
    BY <1>2, <1>6 DEF Apart
  <2>3. num[q] # n /\ \A k \in 1 .. NDirect : C[num[q]].direct[k] # n
    BY <1>1, <1>6 DEF Unused
  <2>4. num[q] # b /\ \A k \in 1 .. NDirect : C[num[q]].direct[k] # 0 => C[num[q]].direct[k] # b
    <3>1. CASE C[d].direct[i] = b
      <4>1. num[q] # b
        BY <1>1, <1>2, <1>6, <3>1 DEF Apart
      <4>2. \A k \in 1 .. NDirect : C[num[q]].direct[k] # 0 => C[num[q]].direct[k] # b
        BY <1>1, <1>2, <1>6, <3>1 DEF Apart
      <4> QED
        BY <4>1, <4>2
    <3>2. CASE Unused(C, num, b)
      BY <1>6, <3>2 DEF Unused
    <3> QED
      BY <1>1, <3>1, <3>2
  <2> QED
    BY <2>1, <2>2, <2>3, <2>4
<1>7. \A k \in 1 .. NDirect : C[d].direct[k] \in Lbn \cup {0}
  BY <1>2 DEF NodeOK, InodeData
<1>8. \A q \in Path : num[q] # 0 /\ q # Parent(p) =>
         \A k \in 1 .. NDirect : C[num[q]].direct[k] \in Lbn \cup {0}
  BY <1>6 DEF NodeOK, InodeData
<1> HIDE DEF d, x
<1>9. /\ D[n] = NewNode(kind) /\ D[b] = x /\ D[d] = Entered(C[d], i, b)
      /\ \A m \in Lbn : m # n /\ m # b /\ m # d => D[m] = C[m]
  <2> DEFINE C1 == With(C, n, NewNode(kind))
             C2 == With(C1, b, x)
  <2>1. /\ C1[n] = NewNode(kind) /\ \A m \in Lbn : m # n => C1[m] = C[m]
        /\ OfNumbers(C1)
    BY <1>1, WithAt
  <2> HIDE DEF C1
  <2>2. /\ C2[b] = x /\ \A m \in Lbn : m # b => C2[m] = C1[m]
        /\ OfNumbers(C2)
    BY <1>1, <2>1, WithAt
  <2> HIDE DEF C2
  <2>3. D = With(C2, d, Entered(C[d], i, b))
    BY <1>1 DEF C1, C2
  <2>4. D[d] = Entered(C[d], i, b) /\ \A m \in Lbn : m # d => D[m] = C2[m]
    BY <1>2, <2>2, <2>3, WithAt
  <2> QED
    BY <1>1, <1>2, <1>3, <1>4, <2>1, <2>2, <2>4
<1>10. \A k \in 1 .. NDirect : SlotsOf(D, n, k) = << >>
  <2>1. \A k \in 1 .. NDirect : NewNode(kind).direct[k] = 0
    BY DEF NewNode, Inode
  <2> QED
    BY <1>9, <2>1 DEF SlotsOf
<1>11. /\ Entered(C[d], i, b).direct[i] = b
       /\ \A k \in 1 .. NDirect : k # i => Entered(C[d], i, b).direct[k] = C[d].direct[k]
  <2>1. EnteredIs(Entered(C[d], i, b), C[d], i, b)
    BY <1>1, <1>2, EnteredType DEF NodeOK
  <2> QED
    BY <2>1 DEF EnteredIs
<1>12. SlotsOf(D, d, i) = Append(SlotsOf(C, d, i), Dirent(Name(p), n))
  <2>1. b # 0
    BY <1>1, Geometry
  <2> QED
    BY <1>9, <1>11, <2>1 DEF SlotsOf, x
<1>13. ASSUME NEW k \in 1 .. NDirect, k # i
       PROVE  /\ SlotsOf(D, d, k) = SlotsOf(C, d, k)
              /\ D[d].direct[k] # 0 => D[D[d].direct[k]] = C[D[d].direct[k]]
  <2>1. D[d].direct[k] = C[d].direct[k]
    BY <1>9, <1>11, <1>13
  <2>2. C[d].direct[k] # 0 => D[C[d].direct[k]] = C[C[d].direct[k]]
    BY <1>3, <1>5, <1>7, <1>9, <1>13
  <2> QED
    BY <2>1, <2>2 DEF SlotsOf
<1>14. ASSUME NEW q \in Path, num[q] # 0, q # Parent(p)
       PROVE  /\ num[q] # n /\ D[num[q]] = C[num[q]]
              /\ \A k \in 1 .. NDirect :
                    /\ SlotsOf(D, num[q], k) = SlotsOf(C, num[q], k)
                    /\ D[num[q]].direct[k] # 0 =>
                          D[D[num[q]].direct[k]] = C[D[num[q]].direct[k]]
  <2>1. num[q] # n /\ D[num[q]] = C[num[q]]
    BY <1>6, <1>9, <1>14
  <2>2. \A k \in 1 .. NDirect : C[num[q]].direct[k] # 0 =>
           D[C[num[q]].direct[k]] = C[C[num[q]].direct[k]]
    BY <1>6, <1>8, <1>9, <1>14
  <2> QED
    BY <2>1, <2>2 DEF SlotsOf
<1>15. D[b] = [dirents |-> Append(SlotsOf(C, d, i), Dirent(Name(p), n))]
  BY <1>9 DEF x
<1> QED
  BY ONLY <1>2, <1>3, <1>4, <1>9, <1>10, <1>12, <1>13, <1>14, <1>15 DEF d, EntersEffect

DirentType == [name : Names, i_ino : Lbn]

LEMMA SlotsType ==
    ASSUME NEW C, NEW n, NodeOK(C, n), NEW i \in 1 .. NDirect
    PROVE  /\ SlotsOf(C, n, i) \in Seq(DirentType)
           /\ DOMAIN SlotsOf(C, n, i) = 1 .. Len(SlotsOf(C, n, i))
           /\ \A j \in DOMAIN SlotsOf(C, n, i) :
                 SlotsOf(C, n, i)[j] \in DirentType /\ SlotsOf(C, n, i)[j].i_ino # 0
<1>1. SlotsOf(C, n, i) \in Seq(DirentType)
  <2>1. CASE C[n].direct[i] = 0
    BY <2>1 DEF SlotsOf
  <2>2. CASE C[n].direct[i] # 0
    <3>1. C[C[n].direct[i]] \in DirentData
      BY <2>2 DEF NodeOK
    <3>2. C[C[n].direct[i]].dirents \in Seq(DirentType)
      BY <3>1 DEF DirentData, DirentType
    <3> QED
      BY <2>2, <3>2 DEF SlotsOf
  <2> QED
    BY <2>1, <2>2
<1>2. \A x \in DirentType : x.i_ino # 0
  BY Geometry DEF DirentType
<1> QED
  BY <1>1, <1>2, LenProperties, ElementOfSeq

LEMMA AppendNames ==
    ASSUME NEW T, NEW q \in Seq(T), NEW e \in T
    PROVE  /\ Append(q, e) \in Seq(T)
           /\ \A j \in DOMAIN Append(q, e) : \/ j \in DOMAIN q /\ Append(q, e)[j] = q[j]
                                             \/ j = Len(q) + 1 /\ Append(q, e)[j] = e
           /\ \A j \in DOMAIN q : j \in DOMAIN Append(q, e) /\ Append(q, e)[j] = q[j]
           /\ Len(q) + 1 \in DOMAIN Append(q, e) /\ Append(q, e)[Len(q) + 1] = e
OBVIOUS

(* ... and to nodes and names. *)
EntersNames(C, num, p, n, kind, i, b, D) ==
    LET d == num[Parent(p)]
    IN  /\ NodeOK(D, n) /\ \A x : ~HasName(D, n, x)
        /\ NodeOK(D, d) /\ ~HasName(C, d, Name(p))
        /\ \A x : HasName(D, d, x) <=> HasName(C, d, x) \/ x = Name(p)
        /\ \A k \in 1 .. NDirect : \A j \in DOMAIN SlotsOf(D, d, k) :
              IF SlotsOf(D, d, k)[j].name = Name(p)
              THEN SlotsOf(D, d, k)[j].i_ino = n
              ELSE j \in DOMAIN SlotsOf(C, d, k)
                   /\ SlotsOf(D, d, k)[j] = SlotsOf(C, d, k)[j]
        /\ \A q \in Path : num[q] # 0 /\ q # Parent(p) =>
              /\ NodeOK(D, num[q])
              /\ \A x : HasName(D, num[q], x) <=> HasName(C, num[q], x)

LEMMA EntersNodes ==
    ASSUME NEW C, NEW num, NEW p, NEW n, NEW kind, NEW i, NEW b, NEW D,
           Enters(C, num, p, n, kind, i, b, D)
    PROVE  EntersNames(C, num, p, n, kind, i, b, D)
<1> DEFINE d == num[Parent(p)]
           e == Dirent(Name(p), n)
           S(k) == SlotsOf(C, d, k)
           V(k) == SlotsOf(D, d, k)
<1>0. EntersEffect(C, num, p, n, kind, i, b, D)
  BY EntersSlots
<1>1. /\ Tree(C, num) /\ p \in Path \ {Root} /\ num[p] = 0 /\ DirAt(C, d)
      /\ n \in Lbn /\ kind \in {"dir", "reg"} /\ i \in 1 .. NDirect /\ b \in Lbn
  BY DEF Enters
<1>2. /\ d \in Lbn /\ NodeOK(C, d) /\ Parent(p) \in Path
      /\ D[n] = NewNode(kind) /\ D[d] = Entered(C[d], i, b)
      /\ \A k \in 1 .. NDirect : SlotsOf(D, n, k) = << >>
      /\ D[b] = [dirents |-> Append(S(i), e)] /\ V(i) = Append(S(i), e)
      /\ \A k \in 1 .. NDirect : k # i =>
            V(k) = S(k) /\ (D[d].direct[k] # 0 => D[D[d].direct[k]] = C[D[d].direct[k]])
  BY <1>0, <1>1, PathFacts DEF EntersEffect
<1>3. \A q \in Path : num[q] # 0 /\ q # Parent(p) =>
         /\ D[num[q]] = C[num[q]]
         /\ \A k \in 1 .. NDirect :
               /\ SlotsOf(D, num[q], k) = SlotsOf(C, num[q], k)
               /\ D[num[q]].direct[k] # 0 =>
                     D[D[num[q]].direct[k]] = C[D[num[q]].direct[k]]
  BY <1>0 DEF EntersEffect
<1>4. /\ \A k \in 1 .. NDirect : S(k) \in Seq(DirentType) /\ DOMAIN S(k) = 1 .. Len(S(k))
      /\ \A k \in 1 .. NDirect : \A j \in DOMAIN S(k) :
            S(k)[j] \in DirentType /\ S(k)[j].i_ino # 0
  BY <1>2, SlotsType
<1>5. Name(p) \in Names /\ e \in DirentType /\ e.name = Name(p) /\ e.i_ino = n
  BY <1>1, PathFacts DEF Dirent, DirentType
<1>6. ~HasName(C, d, Name(p))
  <2>1. LinkOK(C, num, p)
    BY <1>1 DEF Tree
  <2> QED
    BY <1>1, <1>4, <2>1 DEF LinkOK, HasName, Holds
<1>7. \A k \in 1 .. NDirect : \A j \in DOMAIN S(k) : S(k)[j].name # Name(p)
  BY <1>6 DEF HasName, Holds
<1>8. \A k \in 1 .. NDirect : \A j \in DOMAIN S(k) : j \in DOMAIN V(k) /\ V(k)[j] = S(k)[j]
  BY <1>1, <1>2, <1>4, <1>5, AppendNames
<1>9. /\ Append(S(i), e) \in Seq(DirentType)
      /\ Len(S(i)) + 1 \in DOMAIN V(i) /\ V(i)[Len(S(i)) + 1] = e
      /\ \A j \in DOMAIN V(i) : \/ j \in DOMAIN S(i) /\ V(i)[j] = S(i)[j]
                                \/ j = Len(S(i)) + 1 /\ V(i)[j] = e
  <2>1. S(i) \in Seq(DirentType)
    BY <1>1, <1>4
  <2> HIDE DEF S, V, e, d
  <2>2. V(i) = Append(S(i), e)
    BY <1>2
  <2> QED
    BY <1>5, <2>1, <2>2, AppendNames
<1> HIDE DEF S, V, e, d
<1>10. \A k \in 1 .. NDirect : \A j \in DOMAIN V(k) :
          \/ j \in DOMAIN S(k) /\ V(k)[j] = S(k)[j]
          \/ k = i /\ j = Len(S(i)) + 1 /\ V(k)[j] = e
  BY <1>1, <1>2, <1>9
<1>11. \A x : HasName(D, d, x) <=> HasName(C, d, x) \/ x = Name(p)
  <2>1. \A x : HasName(D, d, x) => HasName(C, d, x) \/ x = Name(p)
    BY <1>5, <1>10 DEF HasName, Holds, S, V
  <2>2. \A x : HasName(C, d, x) => HasName(D, d, x)
    BY <1>8 DEF HasName, Holds, S, V
  <2>3. HasName(D, d, Name(p))
    BY <1>1, <1>5, <1>9 DEF HasName, Holds, V
  <2> QED
    BY <2>1, <2>2, <2>3
<1>12. NodeOK(D, d)
  <2>1. /\ D[d] \in InodeData /\ D[d].kind = "dir" /\ D[d].direct[i] = b
        /\ \A k \in 1 .. NDirect : k # i => D[d].direct[k] = C[d].direct[k]
    <3>1. C[d] \in InodeData /\ C[d].kind = "dir"
      BY <1>1, <1>2 DEF NodeOK, DirAt
    <3> DEFINE y == Entered(C[d], i, b)
    <3>2. EnteredIs(y, C[d], i, b)
      BY <1>1, <3>1, EnteredType
    <3>3. D[d] = y
      BY <1>2
    <3> HIDE DEF y
    <3> QED
      BY <3>1, <3>2, <3>3 DEF EnteredIs
  <2>2. \A k \in 1 .. NDirect : D[d].direct[k] # 0 => D[D[d].direct[k]] \in DirentData
    <3>1. D[b] \in DirentData
      BY <1>2, <1>9 DEF DirentData, DirentType
    <3> QED
      BY <1>2, <2>1, <3>1 DEF NodeOK
  <2>3. \A k, l \in 1 .. NDirect : \A j \in DOMAIN S(k), m \in DOMAIN S(l) :
           S(k)[j].name = S(l)[m].name => k = l /\ j = m
    BY <1>2 DEF NodeOK, S
  <2>4. \A k, l \in 1 .. NDirect : \A j \in DOMAIN V(k), m \in DOMAIN V(l) :
           V(k)[j].name = V(l)[m].name => k = l /\ j = m
    BY <1>5, <1>7, <1>10, <2>3
  <2> QED
    BY <2>1, <2>2, <2>4 DEF NodeOK, V
<1>13. NodeOK(D, n)
  <2>1. /\ NewNode(kind) \in InodeData /\ NewNode(kind).kind = kind
        /\ \A k \in 1 .. NDirect : NewNode(kind).direct[k] = 0
    BY <1>1 DEF NewNode, Inode, InodeData
  <2> QED
    BY <1>1, <1>2, <2>1 DEF NodeOK
<1>14. ASSUME NEW q \in Path, num[q] # 0, q # Parent(p)
       PROVE  /\ NodeOK(D, num[q])
              /\ \A x : HasName(D, num[q], x) <=> HasName(C, num[q], x)
  <2>1. NodeOK(C, num[q])
    BY <1>1, <1>14 DEF Tree
  <2> QED
    BY <1>3, <1>14, <2>1 DEF NodeOK, HasName
<1>15. \A k \in 1 .. NDirect : \A j \in DOMAIN V(k) :
          IF V(k)[j].name = Name(p) THEN V(k)[j].i_ino = n
          ELSE j \in DOMAIN S(k) /\ V(k)[j] = S(k)[j]
  BY <1>5, <1>7, <1>10
<1>16. \A x : ~HasName(D, n, x)
  BY <1>2 DEF HasName, Holds
<1> QED
  BY ONLY <1>6, <1>11, <1>12, <1>13, <1>14, <1>15, <1>16 DEF d, S, V, EntersNames

(* create and mkdir keep the tree and add the path to it. *)
LEMMA EntersTree ==
    ASSUME NEW C, NEW num, NEW p, NEW n, NEW kind, NEW i, NEW b, NEW D,
           Enters(C, num, p, n, kind, i, b, D),
           NEW new, new = [num EXCEPT ![p] = n]
    PROVE  /\ Tree(D, new) /\ OfNumbers(D)
           /\ Shown(D, new) = [Shown(C, num) EXCEPT ![p] = kind]
<1> DEFINE d == num[Parent(p)]
<1>0. EntersEffect(C, num, p, n, kind, i, b, D) /\ EntersNames(C, num, p, n, kind, i, b, D)
  BY EntersSlots, EntersNodes
<1>1. /\ OfNumbers(C) /\ Tree(C, num) /\ p \in Path \ {Root} /\ num[p] = 0 /\ DirAt(C, d)
      /\ n \in Lbn /\ Unused(C, num, n) /\ kind \in {"dir", "reg"}
      /\ i \in 1 .. NDirect /\ b \in Lbn /\ b # n
      /\ \/ C[d].direct[i] = b
         \/ C[d].direct[i] = 0 /\ Unused(C, num, b)
  BY DEF Enters
<1>2. /\ Parent(p) \in Path /\ Parent(p) # p /\ d \in Lbn /\ d # 0 /\ d # n
      /\ NodeOK(C, d) /\ C[d] \in InodeData /\ C[d].kind = "dir"
      /\ D[n] = NewNode(kind) /\ D[d] = Entered(C[d], i, b)
  BY <1>0, <1>1, PathFacts DEF EntersEffect, DirAt, NodeOK
<1>3. \A q \in Path : num[q] # 0 /\ q # Parent(p) =>
         /\ num[q] # n /\ D[num[q]] = C[num[q]]
         /\ \A k \in 1 .. NDirect : SlotsOf(D, num[q], k) = SlotsOf(C, num[q], k)
  BY <1>0 DEF EntersEffect
<1>4. /\ NodeOK(D, n) /\ NodeOK(D, d)
      /\ \A x : ~HasName(D, n, x)
      /\ ~HasName(C, d, Name(p))
      /\ \A x : HasName(D, d, x) <=> HasName(C, d, x) \/ x = Name(p)
  BY <1>0 DEF EntersNames
<1>5. \A k \in 1 .. NDirect : \A j \in DOMAIN SlotsOf(D, d, k) :
         IF SlotsOf(D, d, k)[j].name = Name(p) THEN SlotsOf(D, d, k)[j].i_ino = n
         ELSE j \in DOMAIN SlotsOf(C, d, k) /\ SlotsOf(D, d, k)[j] = SlotsOf(C, d, k)[j]
  BY <1>0 DEF EntersNames
<1>6. \A q \in Path : num[q] # 0 /\ q # Parent(p) =>
         /\ NodeOK(D, num[q])
         /\ \A x : HasName(D, num[q], x) <=> HasName(C, num[q], x)
  BY <1>0 DEF EntersNames
<1>7. /\ num \in [Path -> Lbn \cup {0}]
      /\ num[Root] = starting_logical_number /\ DirAt(C, num[Root])
      /\ \A q \in Path : num[q] # 0 => NodeOK(C, num[q])
      /\ \A q \in Path \ {Root} : LinkOK(C, num, q)
      /\ Apart(C, num)
      /\ \A q \in Path : CountOK(C, num, q)
  BY <1>1 DEF Tree
<1>8. /\ new \in [Path -> Lbn \cup {0}] /\ new[p] = n /\ new[Parent(p)] = d
      /\ \A q \in Path : q # p => new[q] = num[q]
  BY <1>1, <1>2, <1>7
<1>9. n # 0 /\ b # 0
  BY <1>1, Geometry
<1>10. /\ D[d].kind = "dir" /\ D[d].file_len = C[d].file_len + 1 /\ D[d].direct[i] = b
       /\ \A k \in 1 .. NDirect : k # i => D[d].direct[k] = C[d].direct[k]
  <2> DEFINE y == Entered(C[d], i, b)
  <2>1. EnteredIs(y, C[d], i, b)
    BY <1>1, <1>2, EnteredType
  <2>2. D[d] = y
    BY <1>2
  <2> HIDE DEF y
  <2> QED
    BY <1>2, <2>1, <2>2 DEF EnteredIs
<1>11. /\ D[n].kind = kind /\ D[n].file_len = IF kind = "dir" THEN 2 ELSE 0
       /\ \A k \in 1 .. NDirect : D[n].direct[k] = 0
  BY <1>2 DEF NewNode, Inode
<1> HIDE DEF d
<1>12. \A q \in Path : new[q] # 0 => NodeOK(D, new[q])
  BY <1>4, <1>6, <1>8 DEF d
<1>13. \A q \in Path : new[q] # 0 /\ q # p => D[new[q]].kind = C[num[q]].kind
  BY <1>2, <1>3, <1>8, <1>10 DEF d
<1>14. DirAt(D, new[Root]) /\ new[Root] = starting_logical_number
  BY <1>1, <1>7, <1>8, <1>13, PathFacts DEF DirAt
<1>15. ASSUME NEW q \in Path \ {Root}
       PROVE  LinkOK(D, new, q)
  <2>1. Parent(q) \in Path /\ Parent(q) # q /\ LinkOK(C, num, q)
    BY <1>7, PathFacts
  <2>2. CASE q = p
    <3>1. DirAt(D, d) /\ HasName(D, d, Name(p))
      BY <1>2, <1>4, <1>10 DEF DirAt
    <3> QED
      BY <1>5, <1>8, <2>2, <3>1 DEF LinkOK
  <2>3. CASE q # p /\ Parent(q) = p
    <3>1. new[q] = 0 /\ new[Parent(q)] = n
      BY <1>1, <1>8, <2>1, <2>3 DEF LinkOK, DirAt
    <3>2. \A k \in 1 .. NDirect : ~Holds(SlotsOf(D, n, k), Name(q))
      BY <1>4 DEF HasName
    <3> QED
      BY <3>1, <3>2 DEF LinkOK, Holds
  <2>4. CASE q # p /\ Parent(q) = Parent(p)
    <3>1. Name(q) # Name(p)
      BY <1>1, <2>4, PathFacts
    <3>2. new[q] = num[q] /\ new[Parent(q)] = d /\ num[Parent(q)] = d
      BY <1>8, <2>4 DEF d
    <3>3. HasName(D, d, Name(q)) <=> HasName(C, d, Name(q))
      BY <1>4, <3>1
    <3>4. DirAt(D, d) /\ DirAt(C, d)
      BY <1>1, <1>2, <1>10 DEF DirAt
    <3>5. num[q] # 0 => HasName(C, d, Name(q))
      BY <2>1, <3>2 DEF LinkOK
    <3>6. \A k \in 1 .. NDirect : \A j \in DOMAIN SlotsOf(C, d, k) :
             SlotsOf(C, d, k)[j].name = Name(q) => SlotsOf(C, d, k)[j].i_ino = num[q]
      BY <2>1, <3>2, <3>4 DEF LinkOK
    <3>7. \A k \in 1 .. NDirect : \A j \in DOMAIN SlotsOf(D, d, k) :
             SlotsOf(D, d, k)[j].name = Name(q) => SlotsOf(D, d, k)[j].i_ino = num[q]
      BY <1>5, <3>1, <3>6
    <3> QED
      BY <3>2, <3>3, <3>4, <3>5, <3>7 DEF LinkOK
  <2>5. CASE q # p /\ Parent(q) # p /\ Parent(q) # Parent(p)
    <3> DEFINE f == num[Parent(q)]
    <3>1. new[q] = num[q] /\ new[Parent(q)] = f
      BY <1>8, <2>1, <2>5
    <3>2. CASE f = 0
      BY <2>1, <3>1, <3>2 DEF LinkOK, DirAt
    <3>3. CASE f # 0
      <4>1. /\ D[f].kind = C[f].kind
            /\ \A k \in 1 .. NDirect : SlotsOf(D, f, k) = SlotsOf(C, f, k)
            /\ HasName(D, f, Name(q)) <=> HasName(C, f, Name(q))
        BY <1>3, <1>6, <2>1, <2>5, <3>3
      <4>2. /\ num[q] # 0 => DirAt(C, f) /\ HasName(C, f, Name(q))
            /\ DirAt(C, f) =>
                  \A k \in 1 .. NDirect : \A j \in DOMAIN SlotsOf(C, f, k) :
                     SlotsOf(C, f, k)[j].name = Name(q) => SlotsOf(C, f, k)[j].i_ino = num[q]
        BY <2>1 DEF LinkOK
      <4>3. DirAt(D, f) <=> DirAt(C, f)
        BY <4>1 DEF DirAt
      <4> HIDE DEF f
      <4> QED
        BY <3>1, <4>1, <4>2, <4>3 DEF LinkOK
    <3> QED
      BY <3>2, <3>3
  <2> QED
    BY <2>2, <2>3, <2>4, <2>5
<1>16. Apart(D, new)
  <2> SUFFICES ASSUME NEW x \in Path, NEW y \in Path, new[x] # 0, new[y] # 0
               PROVE  /\ new[x] = new[y] => x = y
                      /\ \A k \in 1 .. NDirect : D[new[x]].direct[k] # new[y]
                      /\ \A k, l \in 1 .. NDirect :
                            /\ D[new[x]].direct[k] # 0
                            /\ D[new[x]].direct[k] = D[new[y]].direct[l]
                            => x = y /\ k = l
    BY DEF Apart
  <2>1. \A q \in Path : q # p /\ new[q] # 0 =>
           /\ num[q] # n
           /\ \A k \in 1 .. NDirect :
                 /\ C[num[q]].direct[k] # n
                 /\ \/ D[new[q]].direct[k] = C[num[q]].direct[k]
                    \/ D[new[q]].direct[k] = b /\ q = Parent(p) /\ k = i /\ Unused(C, num, b)
    <3> SUFFICES ASSUME NEW q \in Path, q # p, new[q] # 0
                 PROVE  /\ num[q] # n
                        /\ \A k \in 1 .. NDirect :
                              /\ C[num[q]].direct[k] # n
                              /\ \/ D[new[q]].direct[k] = C[num[q]].direct[k]
                                 \/ /\ D[new[q]].direct[k] = b /\ q = Parent(p) /\ k = i
                                    /\ Unused(C, num, b)
      OBVIOUS
    <3>1. new[q] = num[q]
      BY <1>8
    <3>2. num[q] # n /\ \A k \in 1 .. NDirect : C[num[q]].direct[k] # n
      BY <1>1, <3>1 DEF Unused
    <3>3. CASE q = Parent(p)
      BY <1>1, <1>10, <3>1, <3>2, <3>3 DEF d
    <3>4. CASE q # Parent(p)
      BY <1>3, <3>1, <3>2, <3>4
    <3> QED
      BY <3>3, <3>4
  <2>2. new[x] = new[y] => x = y
    <3>1. \A u, v \in Path : num[u] # 0 /\ num[v] # 0 /\ num[u] = num[v] => u = v
      BY <1>7 DEF Apart
    <3> QED
      BY <1>8, <2>1, <3>1
  <2>3. ASSUME NEW k \in 1 .. NDirect
        PROVE  D[new[x]].direct[k] # new[y]
    <3>1. CASE x = p
      BY <1>8, <1>11, <3>1
    <3>2. CASE x # p /\ D[new[x]].direct[k] = C[num[x]].direct[k]
      <4>1. y = p \/ C[num[x]].direct[k] # num[y]
        BY <1>7, <1>8, <3>2 DEF Apart
      <4> QED
        BY <1>8, <2>1, <3>2, <4>1
    <3>3. CASE D[new[x]].direct[k] = b /\ Unused(C, num, b)
      <4>1. y = p \/ b # num[y]
        BY <1>8, <3>3 DEF Unused
      <4> QED
        BY <1>1, <1>8, <3>3, <4>1
    <3> QED
      BY <2>1, <3>1, <3>2, <3>3
  <2>4. ASSUME NEW k \in 1 .. NDirect, NEW l \in 1 .. NDirect,
               D[new[x]].direct[k] # 0, D[new[x]].direct[k] = D[new[y]].direct[l]
        PROVE  x = y /\ k = l
    <3>1. x # p /\ y # p
      BY <1>8, <1>11, <2>4
    <3>2. num[x] # 0 /\ num[y] # 0
      BY <1>8, <3>1
    <3>3. /\ \/ D[new[x]].direct[k] = C[num[x]].direct[k]
             \/ D[new[x]].direct[k] = b /\ x = Parent(p) /\ k = i /\ Unused(C, num, b)
          /\ \/ D[new[y]].direct[l] = C[num[y]].direct[l]
             \/ D[new[y]].direct[l] = b /\ y = Parent(p) /\ l = i /\ Unused(C, num, b)
      BY <2>1, <3>1
    <3>4. Unused(C, num, b) => C[num[x]].direct[k] # b /\ C[num[y]].direct[l] # b
      BY <3>2 DEF Unused
    <3>5. C[num[x]].direct[k] # 0 /\ C[num[x]].direct[k] = C[num[y]].direct[l]
             => x = y /\ k = l
      BY <1>7, <3>2 DEF Apart
    <3> QED
      BY <2>4, <3>3, <3>4, <3>5
  <2> QED
    BY <2>2, <2>3, <2>4
<1>17. ASSUME NEW q \in Path
       PROVE  CountOK(D, new, q)
  <2>1. CASE q = p
    <3>1. NamesOf(D, n) = {}
      BY <1>4 DEF NamesOf
    <3>2. IsFiniteSet(NamesOf(D, n)) /\ Cardinality(NamesOf(D, n)) = 0
      BY <3>1, FS_EmptySet
    <3>3. new[q] = n /\ q # Root
      BY <1>1, <1>8, <2>1
    <3>4. D[n].kind = "dir" => D[n].file_len = 2
      BY <1>11
    <3> QED
      BY <3>2, <3>3, <3>4 DEF CountOK, DirAt
  <2>2. CASE q = Parent(p)
    <3>1. Name(p) \in Names
      BY <1>1, PathFacts
    <3>2. NamesOf(D, d) = NamesOf(C, d) \cup {Name(p)} /\ Name(p) \notin NamesOf(C, d)
      BY <1>4, <3>1 DEF NamesOf
    <3> DEFINE S == NamesOf(C, d)
    <3>3. /\ IsFiniteSet(S)
          /\ C[d].file_len = Cardinality(S) + (IF q = Root THEN 0 ELSE 2)
      BY <1>1, <1>7, <2>2 DEF CountOK, d
    <3> HIDE DEF S
    <3>4. IsFiniteSet(S \cup {Name(p)}) /\ Cardinality(S \cup {Name(p)}) = Cardinality(S) + 1
      BY <3>2, <3>3, FS_AddElement DEF S
    <3>5. Cardinality(S) \in Nat
      BY <3>3, FS_CardinalityType
    <3>6. D[d].file_len = Cardinality(S \cup {Name(p)}) + (IF q = Root THEN 0 ELSE 2)
      BY <1>10, <3>3, <3>4, <3>5
    <3> QED
      BY <1>8, <2>2, <3>2, <3>4, <3>6 DEF CountOK, S
  <2>3. CASE q # p /\ q # Parent(p) /\ num[q] = 0
    BY <1>8, <2>3 DEF CountOK, DirAt
  <2>4. CASE q # p /\ q # Parent(p) /\ num[q] # 0
    <3>1. NamesOf(D, num[q]) = NamesOf(C, num[q])
      BY <1>6, <2>4 DEF NamesOf
    <3>2. D[num[q]] = C[num[q]]
      BY <1>3, <2>4
    <3>3. CountOK(C, num, q)
      BY <1>7
    <3> QED
      BY <1>8, <2>4, <3>1, <3>2, <3>3 DEF CountOK, DirAt
  <2> QED
    BY <2>1, <2>2, <2>3, <2>4
<1>18. Tree(D, new)
  BY <1>8, <1>12, <1>14, <1>15, <1>16, <1>17 DEF Tree
<1>19. Shown(D, new) = [Shown(C, num) EXCEPT ![p] = kind]
  <2>1. \A q \in Path : q # p => KindOf(D, new[q]) = KindOf(C, num[q])
    BY <1>8, <1>13 DEF KindOf
  <2>2. KindOf(D, new[p]) = kind
    BY <1>8, <1>9, <1>11 DEF KindOf
  <2> QED
    BY <1>1, <2>1, <2>2 DEF Shown
<1>20. OfNumbers(D)
  BY <1>1, <1>2, WithAt DEF Enters, d
<1> QED
  BY <1>18, <1>19, <1>20

--------------------------------------------------------------------------------
(* An entry goes *)

Left(x) == [x EXCEPT !.file_len = @ - 1]

LeftIs(y, x) ==
    /\ y \in InodeData /\ y.kind = x.kind /\ y.file_len = x.file_len - 1
    /\ y.direct = x.direct

LEMMA LeftType ==
    ASSUME NEW x \in InodeData
    PROVE  LeftIs(Left(x), x)
BY DEF Left, InodeData, LeftIs

(* Slot l of a block whose slot j was removed held the block's slot ...    *)
Shift(l, j) == IF l < j THEN l ELSE l + 1

RemovedIs(r, q, j, T) ==
    /\ r \in Seq(T)
    /\ \A l \in DOMAIN r : /\ l \in Nat /\ Shift(l, j) \in DOMAIN q /\ Shift(l, j) # j
                           /\ r[l] = q[Shift(l, j)]
    /\ \A h \in DOMAIN q : h # j => \E l \in DOMAIN r : r[l] = q[h]

LEMMA RemoveNames ==
    ASSUME NEW T, NEW q \in Seq(T), NEW j \in DOMAIN q
    PROVE  RemovedIs(RemoveAt(q, j), q, j, T)
<1> DEFINE a == SubSeq(q, 1, j - 1)
           b == SubSeq(q, j + 1, Len(q))
           r == RemoveAt(q, j)
           n == Len(q)
<1>1. n \in Nat /\ DOMAIN q = 1 .. n /\ j \in 1 .. n /\ \A h \in 1 .. n : q[h] \in T
  BY LenProperties, ElementOfSeq
<1>2. r = a \o b
  BY DEF RemoveAt
<1>3. /\ a \in Seq(T) /\ Len(a) = j - 1
      /\ \A l \in 1 .. j - 1 : a[l] = q[l]
  <2>1. \A h \in 1 .. j - 1 : q[h] \in T
    BY <1>1
  <2>2. /\ a \in Seq(T) /\ Len(a) = (IF 1 <= j - 1 THEN j - 1 - 1 + 1 ELSE 0)
        /\ \A l \in 1 .. j - 1 - 1 + 1 : a[l] = q[1 + l - 1]
    <3>1. 1 \in Int /\ j - 1 \in Int
      BY <1>1
    <3> QED
      BY <2>1, <3>1, SubSeqProperties
  <2> HIDE DEF a, n
  <2>3. Len(a) = j - 1
    BY <1>1, <2>2
  <2>4. \A l \in 1 .. j - 1 : a[l] = q[l]
    <3> SUFFICES ASSUME NEW l \in 1 .. j - 1 PROVE a[l] = q[l]
      OBVIOUS
    <3>1. l \in 1 .. j - 1 - 1 + 1 /\ 1 + l - 1 = l
      BY <1>1
    <3> QED
      BY <2>2, <3>1
  <2> QED
    BY <2>2, <2>3, <2>4
<1>4. /\ b \in Seq(T) /\ Len(b) = n - j
      /\ \A l \in 1 .. n - j : b[l] = q[j + l]
  <2>1. \A h \in j + 1 .. n : q[h] \in T
    BY <1>1
  <2>2. /\ b \in Seq(T) /\ Len(b) = (IF j + 1 <= n THEN n - (j + 1) + 1 ELSE 0)
        /\ \A l \in 1 .. n - (j + 1) + 1 : b[l] = q[j + 1 + l - 1]
    <3>1. j + 1 \in Int /\ n \in Int
      BY <1>1
    <3> QED
      BY <2>1, <3>1, SubSeqProperties
  <2> HIDE DEF b, n
  <2>3. Len(b) = n - j
    BY <1>1, <2>2
  <2>4. \A l \in 1 .. n - j : b[l] = q[j + l]
    <3> SUFFICES ASSUME NEW l \in 1 .. n - j PROVE b[l] = q[j + l]
      OBVIOUS
    <3>1. l \in 1 .. n - (j + 1) + 1 /\ j + 1 + l - 1 = j + l
      BY <1>1
    <3> QED
      BY <2>2, <3>1
  <2> QED
    BY <2>2, <2>3, <2>4
<1> HIDE DEF a, b, n
<1>5. /\ r \in Seq(T) /\ Len(r) = n - 1
      /\ \A l \in 1 .. n - 1 : r[l] = IF l <= j - 1 THEN a[l] ELSE b[l - (j - 1)]
  <2>1. /\ a \o b \in Seq(T) /\ Len(a \o b) = Len(a) + Len(b)
        /\ \A l \in 1 .. Len(a) + Len(b) :
              (a \o b)[l] = IF l <= Len(a) THEN a[l] ELSE b[l - Len(a)]
    BY <1>3, <1>4, ConcatProperties
  <2>2. Len(a) + Len(b) = n - 1
    BY <1>1, <1>3, <1>4
  <2> QED
    BY <1>2, <1>3, <2>1, <2>2
<1> HIDE DEF r
<1>6. DOMAIN r = 1 .. n - 1
  BY <1>5, LenProperties
<1>7. ASSUME NEW l \in 1 .. n - 1
      PROVE  /\ Shift(l, j) \in 1 .. n /\ Shift(l, j) # j
             /\ r[l] = q[Shift(l, j)]
  <2>1. CASE l < j
    <3>1. l \in 1 .. j - 1 /\ l <= j - 1 /\ Shift(l, j) = l
      BY <1>1, <2>1 DEF Shift
    <3> QED
      BY <1>1, <1>3, <1>5, <3>1
  <2>2. CASE ~(l < j)
    <3>1. /\ l - (j - 1) \in 1 .. n - j /\ ~(l <= j - 1) /\ Shift(l, j) = l + 1
          /\ j + (l - (j - 1)) = l + 1 /\ l + 1 \in 1 .. n /\ l + 1 # j
      BY <1>1, <2>2 DEF Shift
    <3> QED
      BY <1>4, <1>5, <3>1
  <2> QED
    BY <2>1, <2>2
<1>8. ASSUME NEW h \in 1 .. n, h # j
      PROVE  \E l \in 1 .. n - 1 : r[l] = q[h]
  <2>1. CASE h < j
    <3>1. h \in 1 .. n - 1 /\ Shift(h, j) = h
      BY <1>1, <2>1 DEF Shift
    <3> QED
      BY <1>7, <3>1
  <2>2. CASE ~(h < j)
    <3>1. h - 1 \in 1 .. n - 1 /\ Shift(h - 1, j) = h
      BY <1>1, <1>8, <2>2 DEF Shift
    <3> QED
      BY <1>7, <3>1
  <2> QED
    BY <2>1, <2>2
<1>9. \A l \in 1 .. n - 1 : l \in Nat
  OBVIOUS
<1> QED
  BY <1>1, <1>5, <1>6, <1>7, <1>8, <1>9 DEF RemovedIs, r

(* unlink and rmdir take the contents C to D: the inode of path p is       *)
(* zeroed and its entry, slot j of the block of the parent's pointer i,    *)
(* goes.                                                                   *)
Leaves(C, num, p, i, j, D) ==
    LET d == num[Parent(p)]
    IN  /\ OfNumbers(C) /\ Tree(C, num)
        /\ p \in Path \ {Root} /\ num[p] # 0
        /\ \A k \in 1 .. NDirect : SlotsOf(C, num[p], k) = << >>
        /\ i \in 1 .. NDirect /\ j \in DOMAIN SlotsOf(C, d, i)
        /\ SlotsOf(C, d, i)[j].name = Name(p)
        /\ D = With(With(With(C, num[p], Zeroed),
                         C[d].direct[i], [dirents |-> RemoveAt(SlotsOf(C, d, i), j)]),
                    d, Left(C[d]))

LeavesEffect(C, num, p, i, j, D) ==
    LET d == num[Parent(p)]
        b == C[d].direct[i]
    IN  /\ d \in Lbn /\ d # num[p] /\ b \in Lbn /\ NodeOK(C, d) /\ DirAt(C, d)
        /\ D[d] = Left(C[d])
        /\ D[b] = [dirents |-> RemoveAt(SlotsOf(C, d, i), j)]
        /\ SlotsOf(D, d, i) = RemoveAt(SlotsOf(C, d, i), j)
        /\ \A k \in 1 .. NDirect : k # i =>
              /\ SlotsOf(D, d, k) = SlotsOf(C, d, k)
              /\ C[d].direct[k] # 0 => D[C[d].direct[k]] = C[C[d].direct[k]]
        /\ \A q \in Path : num[q] # 0 /\ q # Parent(p) /\ q # p =>
              /\ D[num[q]] = C[num[q]]
              /\ \A k \in 1 .. NDirect :
                    /\ SlotsOf(D, num[q], k) = SlotsOf(C, num[q], k)
                    /\ D[num[q]].direct[k] # 0 =>
                          D[D[num[q]].direct[k]] = C[D[num[q]].direct[k]]

LEMMA LeavesSlots ==
    ASSUME NEW C, NEW num, NEW p, NEW i, NEW j, NEW D, Leaves(C, num, p, i, j, D)
    PROVE  LeavesEffect(C, num, p, i, j, D)
<1> DEFINE d == num[Parent(p)]
           m == num[p]
           b == C[d].direct[i]
           x == [dirents |-> RemoveAt(SlotsOf(C, d, i), j)]
<1>1. /\ OfNumbers(C) /\ Tree(C, num) /\ p \in Path \ {Root} /\ m # 0
      /\ i \in 1 .. NDirect /\ j \in DOMAIN SlotsOf(C, d, i)
      /\ D = With(With(With(C, m, Zeroed), b, x), d, Left(C[d]))
  BY DEF Leaves
<1>2. /\ Parent(p) \in Path /\ Parent(p) # p
      /\ d \in Lbn /\ d # 0 /\ NodeOK(C, d) /\ DirAt(C, d) /\ m \in Lbn
      /\ num \in [Path -> Lbn \cup {0}] /\ Apart(C, num)
  <2>1. Parent(p) \in Path /\ Parent(p) # p
    BY <1>1, PathFacts
  <2>2. LinkOK(C, num, p) /\ num \in [Path -> Lbn \cup {0}] /\ Apart(C, num)
        /\ \A q \in Path : num[q] # 0 => NodeOK(C, num[q])
    BY <1>1 DEF Tree
  <2>3. DirAt(C, d)
    BY <1>1, <2>2 DEF LinkOK
  <2> QED
    BY <1>1, <2>1, <2>2, <2>3 DEF DirAt
<1>3. d # m /\ \A k \in 1 .. NDirect : C[d].direct[k] # m /\ C[d].direct[k] # d
  BY <1>1, <1>2 DEF Apart
<1>4. \A k \in 1 .. NDirect : C[d].direct[k] \in Lbn \cup {0}
  BY <1>2 DEF NodeOK, InodeData
<1>5. b \in Lbn /\ b # 0 /\ b # m /\ b # d
  <2>1. b # 0
    BY <1>1 DEF SlotsOf
  <2> QED
    BY <1>1, <1>3, <1>4, <2>1
<1>6. \A k \in 1 .. NDirect : k # i /\ C[d].direct[k] # 0 => C[d].direct[k] # b
  BY <1>1, <1>2 DEF Apart
<1>7. ASSUME NEW q \in Path, num[q] # 0, q # Parent(p), q # p
      PROVE  /\ num[q] \in Lbn /\ NodeOK(C, num[q])
             /\ num[q] # d /\ num[q] # m /\ num[q] # b
             /\ \A k \in 1 .. NDirect : C[num[q]].direct[k] # 0 =>
                   /\ C[num[q]].direct[k] # d /\ C[num[q]].direct[k] # m
                   /\ C[num[q]].direct[k] # b
  <2>1. num[q] \in Lbn /\ NodeOK(C, num[q])
    BY <1>1, <1>2, <1>7 DEF Tree
  <2>2. num[q] # d /\ \A k \in 1 .. NDirect : C[num[q]].direct[k] # d
    BY <1>2, <1>7 DEF Apart
  <2>3. num[q] # m /\ \A k \in 1 .. NDirect : C[num[q]].direct[k] # m
    BY <1>1, <1>2, <1>7 DEF Apart
  <2>4. num[q] # b
    BY <1>1, <1>2, <1>7 DEF Apart
  <2>5. \A k \in 1 .. NDirect : C[num[q]].direct[k] # 0 => C[num[q]].direct[k] # b
    BY <1>1, <1>2, <1>7 DEF Apart
  <2> QED
    BY <2>1, <2>2, <2>3, <2>4, <2>5
<1>8. \A q \in Path : num[q] # 0 /\ q # Parent(p) /\ q # p =>
         \A k \in 1 .. NDirect : C[num[q]].direct[k] \in Lbn \cup {0}
  BY <1>7 DEF NodeOK, InodeData
<1> HIDE DEF d, m, b, x
<1>9. /\ D[b] = x /\ D[d] = Left(C[d])
      /\ \A l \in Lbn : l # m /\ l # b /\ l # d => D[l] = C[l]
  <2> DEFINE C1 == With(C, m, Zeroed)
             C2 == With(C1, b, x)
  <2>1. (\A l \in Lbn : l # m => C1[l] = C[l]) /\ OfNumbers(C1)
    BY <1>1, <1>2, WithAt
  <2> HIDE DEF C1
  <2>2. C2[b] = x /\ (\A l \in Lbn : l # b => C2[l] = C1[l]) /\ OfNumbers(C2)
    BY <1>5, <2>1, WithAt
  <2> HIDE DEF C2
  <2>3. D = With(C2, d, Left(C[d]))
    BY <1>1 DEF C1, C2
  <2>4. D[d] = Left(C[d]) /\ \A l \in Lbn : l # d => D[l] = C2[l]
    BY <1>2, <2>2, <2>3, WithAt
  <2> QED
    BY <1>2, <1>3, <1>5, <2>1, <2>2, <2>4
<1>10. D[d].direct = C[d].direct
  <2>1. LeftIs(Left(C[d]), C[d])
    BY <1>2, LeftType DEF NodeOK
  <2> QED
    BY <1>9, <2>1 DEF LeftIs
<1>11. SlotsOf(D, d, i) = RemoveAt(SlotsOf(C, d, i), j)
  BY <1>5, <1>9, <1>10 DEF SlotsOf, x, b
<1>12. ASSUME NEW k \in 1 .. NDirect, k # i
       PROVE  /\ SlotsOf(D, d, k) = SlotsOf(C, d, k)
              /\ C[d].direct[k] # 0 => D[C[d].direct[k]] = C[C[d].direct[k]]
  <2>1. C[d].direct[k] # 0 => D[C[d].direct[k]] = C[C[d].direct[k]]
    BY <1>3, <1>4, <1>6, <1>9, <1>12
  <2> QED
    BY <1>10, <2>1 DEF SlotsOf
<1>13. ASSUME NEW q \in Path, num[q] # 0, q # Parent(p), q # p
       PROVE  /\ D[num[q]] = C[num[q]]
              /\ \A k \in 1 .. NDirect :
                    /\ SlotsOf(D, num[q], k) = SlotsOf(C, num[q], k)
                    /\ D[num[q]].direct[k] # 0 =>
                          D[D[num[q]].direct[k]] = C[D[num[q]].direct[k]]
  <2>1. D[num[q]] = C[num[q]]
    BY <1>7, <1>9, <1>13
  <2>2. \A k \in 1 .. NDirect : C[num[q]].direct[k] # 0 =>
           D[C[num[q]].direct[k]] = C[C[num[q]].direct[k]]
    BY <1>7, <1>8, <1>9, <1>13
  <2> QED
    BY <2>1, <2>2 DEF SlotsOf
<1>14. D[b] = [dirents |-> RemoveAt(SlotsOf(C, d, i), j)]
  BY <1>9 DEF x
<1> QED
  BY ONLY <1>2, <1>3, <1>5, <1>9, <1>11, <1>12, <1>13, <1>14 DEF d, m, b, LeavesEffect

LeavesNames(C, num, p, D) ==
    LET d == num[Parent(p)]
    IN  /\ NodeOK(D, d) /\ HasName(C, d, Name(p))
        /\ \A x : HasName(D, d, x) <=> HasName(C, d, x) /\ x # Name(p)
        /\ \A k \in 1 .. NDirect : \A l \in DOMAIN SlotsOf(D, d, k) :
              \E h \in DOMAIN SlotsOf(C, d, k) : SlotsOf(D, d, k)[l] = SlotsOf(C, d, k)[h]
        /\ \A q \in Path : num[q] # 0 /\ q # Parent(p) /\ q # p =>
              /\ NodeOK(D, num[q])
              /\ \A x : HasName(D, num[q], x) <=> HasName(C, num[q], x)

LEMMA LeavesNodes ==
    ASSUME NEW C, NEW num, NEW p, NEW i, NEW j, NEW D, Leaves(C, num, p, i, j, D)
    PROVE  LeavesNames(C, num, p, D)
<1> DEFINE d == num[Parent(p)]
           b == C[d].direct[i]
           S(k) == SlotsOf(C, d, k)
           V(k) == SlotsOf(D, d, k)
           Was(k, l) == IF k = i THEN Shift(l, j) ELSE l
<1>0. LeavesEffect(C, num, p, i, j, D)
  BY LeavesSlots
<1>1. /\ Tree(C, num) /\ p \in Path \ {Root} /\ i \in 1 .. NDirect
      /\ j \in DOMAIN S(i) /\ S(i)[j].name = Name(p)
  BY DEF Leaves
<1>2. /\ d \in Lbn /\ NodeOK(C, d) /\ b \in Lbn
      /\ D[d] = Left(C[d]) /\ D[b] = [dirents |-> RemoveAt(S(i), j)]
      /\ V(i) = RemoveAt(S(i), j)
      /\ \A k \in 1 .. NDirect : k # i =>
            V(k) = S(k) /\ (C[d].direct[k] # 0 => D[C[d].direct[k]] = C[C[d].direct[k]])
  BY <1>0 DEF LeavesEffect
<1>3. \A q \in Path : num[q] # 0 /\ q # Parent(p) /\ q # p =>
         /\ D[num[q]] = C[num[q]]
         /\ \A k \in 1 .. NDirect :
               /\ SlotsOf(D, num[q], k) = SlotsOf(C, num[q], k)
               /\ D[num[q]].direct[k] # 0 =>
                     D[D[num[q]].direct[k]] = C[D[num[q]].direct[k]]
  BY <1>0 DEF LeavesEffect
<1>4. \A k \in 1 .. NDirect : S(k) \in Seq(DirentType) /\ DOMAIN S(k) = 1 .. Len(S(k))
  BY <1>2, SlotsType
<1>5. RemovedIs(V(i), S(i), j, DirentType)
  BY <1>1, <1>2, <1>4, RemoveNames
<1>6. \A k, l \in 1 .. NDirect : \A h \in DOMAIN S(k), g \in DOMAIN S(l) :
         S(k)[h].name = S(l)[g].name => k = l /\ h = g
  BY <1>2 DEF NodeOK
<1> HIDE DEF d, b, S, V
<1>7. \A k \in 1 .. NDirect : \A l \in DOMAIN V(k) :
         /\ l \in Nat /\ Was(k, l) \in DOMAIN S(k) /\ V(k)[l] = S(k)[Was(k, l)]
         /\ V(k)[l].name # Name(p)
  <2> SUFFICES ASSUME NEW k \in 1 .. NDirect, NEW l \in DOMAIN V(k)
               PROVE  /\ l \in Nat /\ Was(k, l) \in DOMAIN S(k)
                      /\ V(k)[l] = S(k)[Was(k, l)] /\ V(k)[l].name # Name(p)
    OBVIOUS
  <2>1. CASE k = i
    <3>1. /\ l \in Nat /\ Shift(l, j) \in DOMAIN S(i) /\ Shift(l, j) # j
          /\ V(i)[l] = S(i)[Shift(l, j)]
      BY <1>5, <2>1 DEF RemovedIs
    <3> QED
      BY <1>1, <1>6, <2>1, <3>1
  <2>2. CASE k # i
    <3>1. V(k) = S(k) /\ l \in DOMAIN S(k)
      BY <1>2, <2>2
    <3>2. l \in Nat
      BY <1>4, <3>1
    <3> QED
      BY <1>1, <1>6, <2>2, <3>1, <3>2
  <2> QED
    BY <2>1, <2>2
<1>8. \A k \in 1 .. NDirect : \A h \in DOMAIN S(k) :
         S(k)[h].name # Name(p) => \E l \in DOMAIN V(k) : V(k)[l] = S(k)[h]
  <2> SUFFICES ASSUME NEW k \in 1 .. NDirect, NEW h \in DOMAIN S(k), S(k)[h].name # Name(p)
               PROVE  \E l \in DOMAIN V(k) : V(k)[l] = S(k)[h]
    OBVIOUS
  <2>1. CASE k = i
    BY <1>1, <1>5, <2>1 DEF RemovedIs
  <2>2. CASE k # i
    BY <1>2, <2>2
  <2> QED
    BY <2>1, <2>2
<1>9. HasName(C, d, Name(p))
  BY <1>1 DEF HasName, Holds, S
<1>10. \A x : HasName(D, d, x) <=> HasName(C, d, x) /\ x # Name(p)
  <2>1. \A x : HasName(D, d, x) => HasName(C, d, x) /\ x # Name(p)
    <3> SUFFICES ASSUME NEW x, HasName(D, d, x) PROVE HasName(C, d, x) /\ x # Name(p)
      OBVIOUS
    <3>1. PICK k \in 1 .. NDirect : \E l \in DOMAIN V(k) : V(k)[l].name = x
      BY DEF HasName, Holds, V
    <3>2. PICK l \in DOMAIN V(k) : V(k)[l].name = x
      BY <3>1
    <3>3. x # Name(p) /\ \E h \in DOMAIN S(k) : S(k)[h].name = x
      BY <1>7, <3>2
    <3> QED
      BY <3>3 DEF HasName, Holds, S
  <2>2. \A x : HasName(C, d, x) /\ x # Name(p) => HasName(D, d, x)
    <3> SUFFICES ASSUME NEW x, HasName(C, d, x), x # Name(p) PROVE HasName(D, d, x)
      OBVIOUS
    <3>1. PICK k \in 1 .. NDirect : \E h \in DOMAIN S(k) : S(k)[h].name = x
      BY DEF HasName, Holds, S
    <3>2. \E l \in DOMAIN V(k) : V(k)[l].name = x
      BY <1>8, <3>1
    <3> QED
      BY <3>2 DEF HasName, Holds, V
  <2> QED
    BY <2>1, <2>2
<1>11. NodeOK(D, d)
  <2>1. /\ D[d] \in InodeData /\ D[d].kind = C[d].kind /\ D[d].direct = C[d].direct
    <3>1. LeftIs(Left(C[d]), C[d])
      BY <1>2, LeftType DEF NodeOK
    <3> QED
      BY <1>2, <3>1 DEF LeftIs
  <2>2. \A k \in 1 .. NDirect : C[d].direct[k] # 0 => D[C[d].direct[k]] \in DirentData
    <3>1. D[b] \in DirentData
      BY <1>2, <1>5 DEF DirentData, DirentType, RemovedIs
    <3> QED
      BY <1>2, <3>1 DEF NodeOK, b
  <2>3. \A k, l \in 1 .. NDirect : \A g \in DOMAIN V(k), h \in DOMAIN V(l) :
           V(k)[g].name = V(l)[h].name => k = l /\ g = h
    <3> SUFFICES ASSUME NEW k \in 1 .. NDirect, NEW l \in 1 .. NDirect,
                        NEW g \in DOMAIN V(k), NEW h \in DOMAIN V(l),
                        V(k)[g].name = V(l)[h].name
                 PROVE  k = l /\ g = h
      OBVIOUS
    <3>1. k = l /\ Was(k, g) = Was(l, h)
      BY <1>6, <1>7
    <3>2. g \in Nat /\ h \in Nat /\ j \in Nat
      BY <1>1, <1>4, <1>7
    <3> QED
      BY <3>1, <3>2 DEF Shift
  <2>4. C[d].kind \in {"dir", "reg"}
        /\ \A k \in 1 .. NDirect : C[d].kind = "reg" => C[d].direct[k] = 0
    BY <1>2 DEF NodeOK
  <2> QED
    BY <2>1, <2>2, <2>3, <2>4 DEF NodeOK, V
<1>12. ASSUME NEW q \in Path, num[q] # 0, q # Parent(p), q # p
       PROVE  /\ NodeOK(D, num[q])
              /\ \A x : HasName(D, num[q], x) <=> HasName(C, num[q], x)
  <2>1. NodeOK(C, num[q])
    BY <1>1, <1>12 DEF Tree
  <2> QED
    BY <1>3, <1>12, <2>1 DEF NodeOK, HasName
<1>13. \A k \in 1 .. NDirect : \A l \in DOMAIN V(k) :
          \E h \in DOMAIN S(k) : V(k)[l] = S(k)[h]
  BY <1>7
<1> QED
  BY ONLY <1>9, <1>10, <1>11, <1>12, <1>13 DEF d, S, V, LeavesNames

(* unlink and rmdir keep the tree and take the path out of it. *)
LEMMA LeavesTree ==
    ASSUME NEW C, NEW num, NEW p, NEW i, NEW j, NEW D, Leaves(C, num, p, i, j, D),
           NEW new, new = [num EXCEPT ![p] = 0]
    PROVE  /\ Tree(D, new) /\ OfNumbers(D)
           /\ Shown(D, new) = [Shown(C, num) EXCEPT ![p] = "none"]
<1> DEFINE d == num[Parent(p)]
<1>0. LeavesEffect(C, num, p, i, j, D) /\ LeavesNames(C, num, p, D)
  BY LeavesSlots, LeavesNodes
<1>1. /\ OfNumbers(C) /\ Tree(C, num) /\ p \in Path \ {Root} /\ num[p] # 0
      /\ \A k \in 1 .. NDirect : SlotsOf(C, num[p], k) = << >>
  BY DEF Leaves
<1>2. /\ Parent(p) \in Path /\ Parent(p) # p /\ d \in Lbn /\ d # num[p]
      /\ DirAt(C, d) /\ NodeOK(C, d) /\ D[d] = Left(C[d])
  BY <1>0, <1>1, PathFacts DEF LeavesEffect
<1>3. \A q \in Path : num[q] # 0 /\ q # Parent(p) /\ q # p =>
         /\ D[num[q]] = C[num[q]]
         /\ \A k \in 1 .. NDirect : SlotsOf(D, num[q], k) = SlotsOf(C, num[q], k)
  BY <1>0 DEF LeavesEffect
<1>4. /\ NodeOK(D, d) /\ HasName(C, d, Name(p))
      /\ \A x : HasName(D, d, x) <=> HasName(C, d, x) /\ x # Name(p)
  BY <1>0 DEF LeavesNames
<1>5. \A k \in 1 .. NDirect : \A l \in DOMAIN SlotsOf(D, d, k) :
         \E h \in DOMAIN SlotsOf(C, d, k) : SlotsOf(D, d, k)[l] = SlotsOf(C, d, k)[h]
  BY <1>0 DEF LeavesNames
<1>6. \A q \in Path : num[q] # 0 /\ q # Parent(p) /\ q # p =>
         /\ NodeOK(D, num[q])
         /\ \A x : HasName(D, num[q], x) <=> HasName(C, num[q], x)
  BY <1>0 DEF LeavesNames
<1>7. /\ num \in [Path -> Lbn \cup {0}]
      /\ num[Root] = starting_logical_number /\ DirAt(C, num[Root])
      /\ \A q \in Path \ {Root} : LinkOK(C, num, q)
      /\ Apart(C, num)
      /\ \A q \in Path : CountOK(C, num, q)
  BY <1>1 DEF Tree
<1>8. /\ new \in [Path -> Lbn \cup {0}] /\ new[p] = 0 /\ new[Parent(p)] = d
      /\ \A q \in Path : q # p => new[q] = num[q]
  BY <1>1, <1>2, <1>7
<1>9. D[d].kind = C[d].kind /\ D[d].file_len = C[d].file_len - 1 /\ D[d].direct = C[d].direct
  <2>1. LeftIs(Left(C[d]), C[d])
    BY <1>2, LeftType DEF NodeOK
  <2> QED
    BY <1>2, <2>1 DEF LeftIs
<1> HIDE DEF d
<1>10. \A q \in Path : new[q] # 0 => q # p /\ NodeOK(D, new[q])
  BY <1>4, <1>6, <1>8 DEF d
<1>11. \A q \in Path : new[q] # 0 => /\ D[new[q]].kind = C[num[q]].kind
                                     /\ D[new[q]].direct = C[num[q]].direct
  BY <1>3, <1>8, <1>9 DEF d
<1>12. DirAt(D, new[Root]) /\ new[Root] = starting_logical_number
  BY <1>1, <1>7, <1>8, <1>11, PathFacts DEF DirAt
<1>13. ASSUME NEW q \in Path \ {Root}
       PROVE  LinkOK(D, new, q)
  <2>1. Parent(q) \in Path /\ Parent(q) # q /\ LinkOK(C, num, q)
    BY <1>7, PathFacts
  <2>2. CASE q = p
    <3>1. \A k \in 1 .. NDirect : ~Holds(SlotsOf(D, d, k), Name(p))
      BY <1>4 DEF HasName
    <3> QED
      BY <1>8, <2>2, <3>1 DEF LinkOK, Holds
  <2>3. CASE q # p /\ Parent(q) = p
    <3>1. ~HasName(C, num[p], Name(q))
      BY <1>1 DEF HasName, Holds
    <3>2. new[q] = 0 /\ new[Parent(q)] = 0
      BY <1>8, <2>1, <2>3, <3>1 DEF LinkOK
    <3> QED
      BY <3>2 DEF LinkOK, DirAt
  <2>4. CASE q # p /\ Parent(q) = Parent(p)
    <3>1. Name(q) # Name(p)
      BY <1>1, <2>4, PathFacts
    <3>2. new[q] = num[q] /\ new[Parent(q)] = d /\ num[Parent(q)] = d
      BY <1>8, <2>4 DEF d
    <3>3. HasName(D, d, Name(q)) <=> HasName(C, d, Name(q))
      BY <1>4, <3>1
    <3>4. DirAt(D, d) /\ DirAt(C, d)
      BY <1>2, <1>9 DEF DirAt
    <3>5. num[q] # 0 => HasName(C, d, Name(q))
      BY <2>1, <3>2 DEF LinkOK
    <3>6. \A k \in 1 .. NDirect : \A l \in DOMAIN SlotsOf(C, d, k) :
             SlotsOf(C, d, k)[l].name = Name(q) => SlotsOf(C, d, k)[l].i_ino = num[q]
      BY <2>1, <3>2, <3>4 DEF LinkOK
    <3>7. \A k \in 1 .. NDirect : \A l \in DOMAIN SlotsOf(D, d, k) :
             SlotsOf(D, d, k)[l].name = Name(q) => SlotsOf(D, d, k)[l].i_ino = num[q]
      <4> SUFFICES ASSUME NEW k \in 1 .. NDirect, NEW l \in DOMAIN SlotsOf(D, d, k),
                          SlotsOf(D, d, k)[l].name = Name(q)
                   PROVE  SlotsOf(D, d, k)[l].i_ino = num[q]
        OBVIOUS
      <4>1. PICK h \in DOMAIN SlotsOf(C, d, k) :
               SlotsOf(D, d, k)[l] = SlotsOf(C, d, k)[h]
        BY <1>5
      <4> QED
        BY <3>6, <4>1
    <3> QED
      BY <3>2, <3>3, <3>4, <3>5, <3>7 DEF LinkOK
  <2>5. CASE q # p /\ Parent(q) # p /\ Parent(q) # Parent(p)
    <3> DEFINE f == num[Parent(q)]
    <3>1. new[q] = num[q] /\ new[Parent(q)] = f
      BY <1>8, <2>1, <2>5
    <3>2. CASE f = 0
      BY <2>1, <3>1, <3>2 DEF LinkOK, DirAt
    <3>3. CASE f # 0
      <4>1. /\ D[f].kind = C[f].kind
            /\ \A k \in 1 .. NDirect : SlotsOf(D, f, k) = SlotsOf(C, f, k)
            /\ HasName(D, f, Name(q)) <=> HasName(C, f, Name(q))
        BY <1>3, <1>6, <2>1, <2>5, <3>3
      <4>2. /\ num[q] # 0 => DirAt(C, f) /\ HasName(C, f, Name(q))
            /\ DirAt(C, f) =>
                  \A k \in 1 .. NDirect : \A l \in DOMAIN SlotsOf(C, f, k) :
                     SlotsOf(C, f, k)[l].name = Name(q) => SlotsOf(C, f, k)[l].i_ino = num[q]
        BY <2>1 DEF LinkOK
      <4>3. DirAt(D, f) <=> DirAt(C, f)
        BY <4>1 DEF DirAt
      <4> HIDE DEF f
      <4> QED
        BY <3>1, <4>1, <4>2, <4>3 DEF LinkOK
    <3> QED
      BY <3>2, <3>3
  <2> QED
    BY <2>2, <2>3, <2>4, <2>5
<1>14. Apart(D, new)
  <2>1. \A q \in Path : new[q] # 0 => new[q] = num[q] /\ D[new[q]].direct = C[num[q]].direct
    BY <1>8, <1>11
  <2> QED
    BY <1>7, <2>1 DEF Apart
<1>15. ASSUME NEW q \in Path
       PROVE  CountOK(D, new, q)
  <2>1. CASE new[q] = 0
    BY <2>1 DEF CountOK, DirAt
  <2>2. CASE q = Parent(p)
    <3> DEFINE S == NamesOf(C, d)
    <3>1. NamesOf(D, d) = S \ {Name(p)} /\ Name(p) \in S
      BY <1>1, <1>4, PathFacts DEF NamesOf
    <3>2. /\ IsFiniteSet(S)
          /\ C[d].file_len = Cardinality(S) + (IF q = Root THEN 0 ELSE 2)
      BY <1>2, <1>7, <2>2 DEF CountOK, d
    <3> HIDE DEF S
    <3>3. IsFiniteSet(S \ {Name(p)}) /\ Cardinality(S \ {Name(p)}) = Cardinality(S) - 1
      BY <3>1, <3>2, FS_RemoveElement
    <3>4. Cardinality(S) \in Nat
      BY <3>2, FS_CardinalityType
    <3>5. D[d].file_len = Cardinality(S \ {Name(p)}) + (IF q = Root THEN 0 ELSE 2)
      BY <1>9, <3>2, <3>3, <3>4
    <3> QED
      BY <1>8, <2>2, <3>1, <3>3, <3>5 DEF CountOK
  <2>3. CASE new[q] # 0 /\ q # Parent(p)
    <3>1. q # p /\ num[q] # 0 /\ new[q] = num[q]
      BY <1>8, <2>3
    <3>2. NamesOf(D, num[q]) = NamesOf(C, num[q]) /\ D[num[q]] = C[num[q]]
      BY <1>3, <1>6, <2>3, <3>1 DEF NamesOf
    <3>3. CountOK(C, num, q)
      BY <1>7
    <3> QED
      BY <3>1, <3>2, <3>3 DEF CountOK, DirAt
  <2> QED
    BY <2>1, <2>2, <2>3
<1>16. Tree(D, new)
  BY <1>8, <1>10, <1>12, <1>13, <1>14, <1>15 DEF Tree
<1>17. Shown(D, new) = [Shown(C, num) EXCEPT ![p] = "none"]
  <2>1. \A q \in Path : q # p => KindOf(D, new[q]) = KindOf(C, num[q])
    BY <1>8, <1>11 DEF KindOf
  <2>2. KindOf(D, new[p]) = "none"
    BY <1>8 DEF KindOf
  <2> QED
    BY <1>1, <2>1, <2>2 DEF Shown
<1>18. OfNumbers(D)
  <2>1. num[p] \in Lbn /\ C[d].direct[i] \in Lbn
    BY <1>0, <1>1, <1>7 DEF LeavesEffect, d
  <2> QED
    BY <1>1, <1>2, <2>1, WithAt DEF Leaves, d
<1> QED
  BY <1>16, <1>17, <1>18

--------------------------------------------------------------------------------
(* The calls on the log *)

(* What becomes of a buffer whose inode or dirents a call changes. *)
Changed(y, b, d) == y \in Buffer /\ y.lbn = b.lbn /\ y.data = d

LEMMA DataChanged ==
    ASSUME NEW b \in Buffer, NEW d \in Data
    PROVE  Changed([b EXCEPT !.data = d], b, d)
BY DEF Buffer, Changed

LEMMA DirentsReplaced ==
    ASSUME NEW x, NEW q, NEW r, x = [dirents |-> q]
    PROVE  [x EXCEPT !.dirents = r] = [dirents |-> r]
OBVIOUS

LEMMA InodeChanged ==
    ASSUME DataHoldsFS, NEW b \in Buffer, b.data \in InodeData,
           NEW i \in 1 .. NDirect, NEW n \in Lbn
    PROVE  /\ Changed([b EXCEPT !.data.file_len = @ + 1, !.data.direct[i] = n], b,
                      Entered(b.data, i, n))
           /\ Changed([b EXCEPT !.data.file_len = @ - 1], b, Left(b.data))
<1> DEFINE y == [b EXCEPT !.data.file_len = @ + 1, !.data.direct[i] = n]
           z == [b EXCEPT !.data.file_len = @ - 1]
<1>1. y = [b EXCEPT !.data = Entered(b.data, i, n)]
  BY DEF Entered, Buffer
<1>2. z = [b EXCEPT !.data = Left(b.data)]
  BY DEF Left
<1>3. Entered(b.data, i, n) \in InodeData /\ Left(b.data) \in InodeData
  BY EnteredType, LeftType DEF EnteredIs, LeftIs
<1>4. Entered(b.data, i, n) \in Data /\ Left(b.data) \in Data
  BY <1>3, NodeNotNil
<1> QED
  BY <1>1, <1>2, <1>4, DataChanged

LEMMA DirentsChanged ==
    ASSUME DataHoldsFS, NEW b \in Buffer, b.data \in DirentData,
           NEW j \in DOMAIN b.data.dirents
    PROVE  Changed([b EXCEPT !.data.dirents = RemoveAt(@, j)], b,
                   [dirents |-> RemoveAt(b.data.dirents, j)])
<1> DEFINE r == RemoveAt(b.data.dirents, j)
<1>1. b.data.dirents \in Seq(DirentType) /\ b.data = [dirents |-> b.data.dirents]
  BY DEF DirentData, DirentType
<1>2. r \in Seq(DirentType)
  BY <1>1, RemoveNames DEF RemovedIs
<1>3. [dirents |-> r] \in Data
  BY <1>2, NodeNotNil DEF DirentData, DirentType
<1>4. [b EXCEPT !.data.dirents = RemoveAt(@, j)] = [b EXCEPT !.data = [dirents |-> r]]
  <2> HIDE DEF r
  <2>1. [b.data EXCEPT !.dirents = r] = [dirents |-> r]
    BY <1>1, DirentsReplaced
  <2> QED
    BY <2>1 DEF r
<1> QED
  BY <1>3, <1>4, DataChanged

LEMMA DirentAppended ==
    ASSUME DataHoldsFS, NEW b \in Buffer, b.data \in DirentData, NEW e \in DirentType
    PROVE  Changed([b EXCEPT !.data.dirents = Append(@, e)], b,
                   [dirents |-> Append(b.data.dirents, e)])
<1> DEFINE r == Append(b.data.dirents, e)
<1>1. b.data.dirents \in Seq(DirentType) /\ b.data = [dirents |-> b.data.dirents]
  BY DEF DirentData, DirentType
<1>2. r \in Seq(DirentType)
  BY <1>1
<1>3. [dirents |-> r] \in Data
  BY <1>2, NodeNotNil DEF DirentData, DirentType
<1>4. [b EXCEPT !.data.dirents = Append(@, e)] = [b EXCEPT !.data = [dirents |-> r]]
  <2> HIDE DEF r
  <2>1. [b.data EXCEPT !.dirents = r] = [dirents |-> r]
    BY <1>1, DirentsReplaced
  <2> QED
    BY <2>1 DEF r
<1> QED
  BY <1>3, <1>4, DataChanged

(* The scan of a directory finds in slot k what Content says is there. *)
SlotIs(s, n, i) ==
    LET C == Content(s)
        b == ScanBuffer(s, C[n])[i]
    IN  /\ Slots(s, C[n], i) = SlotsOf(C, n, i)
        /\ SlotsOf(C, n, i) \in Seq([name : Names, i_ino : Lbn])
        /\ C[n].direct[i] # 0 =>
             /\ C[n].direct[i] \in Mapped(s)
             /\ b \in Buffer /\ b.lbn = C[n].direct[i]
             /\ b.data = C[b.lbn] /\ b.data \in DirentData

LEMMA SlotsRead ==
    ASSUME DataHoldsFS, NEW s, Readable(s), NEW n \in Lbn, NodeOK(Content(s), n)
    PROVE  \A i \in 1 .. NDirect : SlotIs(s, n, i)
BY NodeSlots DEF SlotIs

(* A directory that can take one more dirent. *)
HasSlot(C, dir) ==
    \E i \in 1 .. NDirect :
        C[dir].direct[i] = 0 \/ Len(SlotsOf(C, dir, i)) < DirentsPerBlock

(* t is s after a call that added e to directory dir: through pointer i, in *)
(* block b, which is new if the pointer was free.                          *)
Added(s, t, dir, e, i, b) ==
    LET C == Content(s)
    IN  /\ FSLog(t) /\ Room(t) = Room(s) - 2 /\ (Live(s) => Live(t))
        /\ i \in 1 .. NDirect /\ b \in Lbn
        /\ C[dir].direct[i] = b \/ (C[dir].direct[i] = 0 /\ C[b] = Nil)
        /\ Content(t) = With(With(C, b, [dirents |-> Append(SlotsOf(C, dir, i), e)]),
                             dir, Entered(C[dir], i, b))

LEMMA AddsDirent ==
    ASSUME DataHoldsFS, NEW s, FSLog(s), Room(s) >= 2,
           NEW dir \in Lbn, NodeOK(Content(s), dir), HasSlot(Content(s), dir),
           NEW e \in DirentType
    PROVE  \E i, b : Added(s, add_dirent(s, dir, e), dir, e, i, b)
<1> DEFINE C == Content(s)
           di == ReadInode(s, dir)
           room == {k \in 1 .. NDirect :
                       \/ di.data.direct[k] = 0
                       \/ Len(Slots(s, di.data, k)) < DirentsPerBlock}
           i == First(room)
           ptr == di.data.direct[i]
           b == IF ptr = 0 THEN hodo_get_next_logical_number(s) ELSE ptr
           blk == IF ptr = 0 THEN DirentBlock(<<e>>)
                  ELSE [ScanBuffer(s, di.data)[i] EXCEPT !.data.dirents = Append(@, e)]
           ino == [di EXCEPT !.data.file_len = @ + 1, !.data.direct[i] = b]
           ds == [dirents |-> Append(SlotsOf(C, dir, i), e)]
           m == hodo_write_struct(s, blk, ptr)
           t == hodo_write_struct(m, ino, dir)
<1>1. Readable(s)
  BY DEF FSLog
<1>2. dir \in Mapped(s) /\ di \in Buffer /\ di.data = C[dir] /\ di.lbn = dir
  BY <1>1, ReadNode
<1>3. \A k \in 1 .. NDirect :
         /\ Slots(s, C[dir], k) = SlotsOf(C, dir, k)
         /\ SlotsOf(C, dir, k) \in Seq([name : Names, i_ino : Lbn])
  <2>1. \A k \in 1 .. NDirect : SlotIs(s, dir, k)
    BY <1>1, SlotsRead
  <2> QED
    BY <2>1 DEF SlotIs
<1>4. room # {} /\ room \subseteq Nat
  BY <1>2, <1>3 DEF HasSlot
<1>5. add_dirent(s, dir, e) = t
  BY <1>4 DEF add_dirent
<1>6. i \in 1 .. NDirect
  <2> HIDE DEF room
  <2>1. i \in room
    BY <1>4, FirstIs
  <2> QED
    BY <2>1 DEF room
<1> HIDE DEF room, i
<1>7. Room(s) \in Int
  BY RoomCounts
<1>8. /\ b \in Lbn /\ FSLog(m) /\ Room(m) = Room(s) - 1 /\ (Live(s) => Live(m))
      /\ dir \in Mapped(m) /\ Content(m) = With(C, b, ds)
      /\ C[dir].direct[i] = b \/ (C[dir].direct[i] = 0 /\ C[b] = Nil)
  <2>1. CASE ptr = 0
    <3> DEFINE d == [dirents |-> <<e>>]
    <3>1. SlotsOf(C, dir, i) = << >> /\ ds = d
      BY <1>2, <2>1 DEF SlotsOf
    <3>2. <<e>> \in Seq(DirentType)
      OBVIOUS
    <3>3. d \in Data
      BY <3>2, NodeNotNil DEF DirentData, DirentType
    <3>4. m = hodo_write_struct(s, MkBlock("DAT", 0, d), NEW_DATABLOCK)
      BY <2>1 DEF DirentBlock, NEW_DATABLOCK
    <3>5. b = hodo_get_next_logical_number(s)
      BY <2>1
    <3> HIDE DEF d, ds, blk, m, b
    <3>6. /\ b \in Lbn \ Mapped(s) /\ FSLog(m) /\ Room(m) = Room(s) - 1
          /\ Live(s) => Live(m)
          /\ Mapped(m) = Mapped(s) \cup {b} /\ Content(m) = With(C, b, d)
      BY <1>7, <3>3, <3>4, <3>5, BlockWritten
    <3>7. C[b] = Nil
      BY <1>1, <3>6, ContentType
    <3> QED
      BY <1>2, <2>1, <3>1, <3>6, <3>7
  <2>2. CASE ptr # 0
    <3> DEFINE buf == ScanBuffer(s, C[dir])[i]
    <3>1. /\ buf \in Buffer /\ buf.lbn = ptr /\ ptr \in Mapped(s)
          /\ buf.data = C[ptr] /\ buf.data \in DirentData
      BY <1>1, <1>2, <1>6, <2>2, SlotsRead DEF SlotIs
    <3>2. blk = [buf EXCEPT !.data.dirents = Append(@, e)] /\ b = ptr
      BY <1>2, <2>2
    <3>3. ds = [dirents |-> Append(buf.data.dirents, e)]
      BY <1>2, <2>2, <3>1 DEF SlotsOf
    <3> HIDE DEF blk, buf, ds
    <3>4. Changed(blk, buf, ds)
      BY <3>1, <3>2, <3>3, DirentAppended
    <3> HIDE DEF ptr, b
    <3>5. /\ FSLog(m) /\ Room(m) = Room(s) - 1 /\ (Live(s) => Live(m))
          /\ Mapped(m) = Mapped(s) /\ Content(m) = With(C, ptr, ds)
      BY <1>7, <3>1, <3>4, Rewrite DEF Changed
    <3>6. ptr \in Lbn /\ ptr = C[dir].direct[i]
      BY <1>2, <3>1 DEF ptr, Mapped
    <3> QED
      BY <1>2, <3>2, <3>5, <3>6
  <2> QED
    BY <2>1, <2>2
<1>9. C[dir] \in InodeData
  BY DEF NodeOK
<1> HIDE DEF b, ptr, blk, m
<1>10. Changed(ino, di, Entered(C[dir], i, b))
  BY <1>2, <1>6, <1>8, <1>9, InodeChanged
<1> HIDE DEF ino, di
<1>11. /\ FSLog(t) /\ Room(t) = Room(m) - 1 /\ (Live(m) => Live(t))
       /\ Content(t) = With(Content(m), dir, Entered(C[dir], i, b))
  BY <1>2, <1>7, <1>8, <1>10, Rewrite DEF Changed
<1>12. Added(s, t, dir, e, i, b)
  BY <1>6, <1>7, <1>8, <1>11 DEF Added
<1> QED
  BY <1>5, <1>12

(* What is unreadable is no path's number and no directory's block. *)
LEMMA NilUnused ==
    ASSUME DataHoldsFS, NEW C, NEW num, Tree(C, num), NEW n \in Lbn, C[n] = Nil
    PROVE  Unused(C, num, n)
<1> SUFFICES ASSUME NEW q \in Path, num[q] # 0
             PROVE  num[q] # n /\ \A k \in 1 .. NDirect : C[num[q]].direct[k] # n
  BY DEF Unused
<1>1. NodeOK(C, num[q])
  BY DEF Tree
<1>2. n # 0
  BY GeometryAssumption DEF Lbn, starting_logical_number, NEntries
<1>3. Nil \notin InodeData /\ Nil \notin DirentData
  BY NodeNotNil
<1> QED
  BY <1>1, <1>2, <1>3 DEF NodeOK

(* A write elsewhere leaves a directory as it was. *)
SameNode(D, C, d) ==
    /\ D[d] = C[d] /\ NodeOK(D, d)
    /\ \A k \in 1 .. NDirect : SlotsOf(D, d, k) = SlotsOf(C, d, k)

LEMMA WrittenElsewhere ==
    ASSUME NEW C, OfNumbers(C), NEW d \in Lbn, NodeOK(C, d), NEW n \in Lbn, n # d,
           \A k \in 1 .. NDirect : C[d].direct[k] # n, NEW x
    PROVE  SameNode(With(C, n, x), C, d)
<1> DEFINE D == With(C, n, x)
<1>1. \A m \in Lbn : m # n => D[m] = C[m]
  BY WithAt
<1>2. C[d].direct \in [1 .. NDirect -> Lbn \cup {0}]
  BY DEF NodeOK, InodeData
<1> HIDE DEF D
<1>3. D[d] = C[d] /\ \A k \in 1 .. NDirect :
         C[d].direct[k] # 0 => D[C[d].direct[k]] = C[C[d].direct[k]]
  BY <1>1, <1>2
<1>4. \A k \in 1 .. NDirect : SlotsOf(D, d, k) = SlotsOf(C, d, k)
  BY <1>3 DEF SlotsOf
<1>5. NodeOK(D, d)
  BY <1>3, <1>4 DEF NodeOK
<1> QED
  BY <1>3, <1>4, <1>5 DEF SameNode, D

LEMMA NewNodeData ==
    ASSUME DataHoldsFS, NEW kind \in {"dir", "reg"}
    PROVE  NewNode(kind) \in InodeData /\ NewNode(kind) \in Data /\ NewNode(kind) # Nil
<1>1. NewNode(kind) \in InodeData
  BY DEF NewNode, Inode, InodeData
<1> QED
  BY <1>1, NodeNotNil

(* t is s after a call that made path p. *)
Made(s, t, num, p, kind) ==
    /\ FSLog(t) /\ (Live(s) => Live(t))
    /\ \E i, b : Enters(Content(s), num, p, hodo_get_next_logical_number(s), kind, i, b,
                        Content(t))

LEMMA MakesNode ==
    ASSUME DataHoldsFS, NEW s, FSLog(s), Room(s) >= 3, NEW num, Tree(Content(s), num),
           NEW p \in Path \ {Root}, num[p] = 0,
           NEW d, d = num[Parent(p)], DirAt(Content(s), d), HasSlot(Content(s), d),
           NEW kind \in {"dir", "reg"}
    PROVE  Made(s, MakeStore(s, d, Name(p), NewNode(kind)), num, p, kind)
<1> DEFINE C == Content(s)
           n == hodo_get_next_logical_number(s)
           x == NewNode(kind)
           e == Dirent(Name(p), n)
           m == NewInodeStore(s, x)
           t == add_dirent(m, d, e)
           C1 == Content(m)
<1>1. x \in InodeData /\ x \in Data /\ x # Nil
  BY NewNodeData
<1>2. Readable(s) /\ Room(s) \in Int
  BY RoomCounts DEF FSLog
<1>3. MakeStore(s, d, Name(p), NewNode(kind)) = t
  BY DEF MakeStore
<1> HIDE DEF x, n
<1>4. /\ n \in Lbn \ Mapped(s) /\ FSLog(m) /\ Room(m) = Room(s) - 1
      /\ Live(s) => Live(m)
      /\ C1 = With(C, n, x)
  BY <1>1, <1>2, InodeWritten DEF n
<1> HIDE DEF m, C1
<1>5. C[n] = Nil /\ OfNumbers(C)
  BY <1>2, <1>4, ContentType DEF OfNumbers
<1>6. Unused(C, num, n)
  BY <1>4, <1>5, NilUnused
<1>7. /\ Parent(p) \in Path /\ Name(p) \in Names /\ d \in Lbn /\ d # 0 /\ NodeOK(C, d)
  BY PathFacts DEF Tree, DirAt
<1>8. d # n /\ \A k \in 1 .. NDirect : C[d].direct[k] # n
  BY <1>6, <1>7 DEF Unused
<1>9. SameNode(C1, C, d)
  BY <1>4, <1>5, <1>7, <1>8, WrittenElsewhere
<1>10. NodeOK(C1, d) /\ HasSlot(C1, d)
  BY <1>9 DEF SameNode, HasSlot
<1>11. e \in DirentType
  BY <1>4, <1>7 DEF Dirent, DirentType
<1> HIDE DEF e
<1>12. PICK i, b : Added(m, t, d, e, i, b)
  BY <1>2, <1>4, <1>7, <1>10, <1>11, AddsDirent DEF C1
<1> HIDE DEF t
<1>13. /\ FSLog(t) /\ (Live(m) => Live(t)) /\ i \in 1 .. NDirect /\ b \in Lbn
       /\ C1[d].direct[i] = b \/ (C1[d].direct[i] = 0 /\ C1[b] = Nil)
       /\ Content(t) = With(With(C1, b, [dirents |-> Append(SlotsOf(C1, d, i), e)]),
                            d, Entered(C1[d], i, b))
  BY <1>12 DEF Added, C1
<1>14. C1[d] = C[d] /\ SlotsOf(C1, d, i) = SlotsOf(C, d, i)
  BY <1>9, <1>13 DEF SameNode
<1>15. /\ C1[n] = x
       /\ \A k \in Lbn : k # n => C1[k] = C[k]
  BY <1>4, <1>5, WithAt
<1>16. b # n /\ (C[d].direct[i] = b \/ (C[d].direct[i] = 0 /\ Unused(C, num, b)))
  <2>1. CASE C1[d].direct[i] = b
    BY <1>8, <1>13, <1>14, <2>1
  <2>2. CASE C1[d].direct[i] = 0 /\ C1[b] = Nil
    <3>1. b # n /\ C[b] = Nil
      BY <1>1, <1>13, <1>15, <2>2
    <3>2. Unused(C, num, b)
      BY <1>13, <3>1, NilUnused
    <3> QED
      BY <1>14, <2>2, <3>1, <3>2
  <2> QED
    BY <1>13, <2>1, <2>2
<1>17. Content(t) = With(With(With(C, n, x), b, [dirents |-> Append(SlotsOf(C, d, i), e)]),
                         d, Entered(C[d], i, b))
  BY <1>4, <1>13, <1>14
<1>18. Enters(C, num, p, n, kind, i, b, Content(t))
  BY <1>4, <1>5, <1>6, <1>13, <1>16, <1>17 DEF Enters, e, x
<1> QED
  BY <1>3, <1>4, <1>13, <1>18 DEF Made, n

(* t is s after a call that took dirent j of pointer i out of directory    *)
(* dir.                                                                    *)
TakenOut(s, t, dir, i, j) ==
    LET C == Content(s)
    IN  /\ FSLog(t)
        /\ Content(t) = With(With(C, C[dir].direct[i],
                                  [dirents |-> RemoveAt(SlotsOf(C, dir, i), j)]),
                             dir, Left(C[dir]))

LEMMA WithTwice ==
    ASSUME NEW C, NEW n, NEW x
    PROVE  With(With(C, n, x), n, x) = With(C, n, x)
BY DEF With

LEMMA TakesDirentOut ==
    ASSUME DataHoldsFS, NEW s, FSLog(s), Room(s) >= 3,
           NEW dir \in Lbn, NodeOK(Content(s), dir),
           NEW name, HasName(Content(s), dir, name)
    PROVE  \E i \in 1 .. NDirect : \E j \in DOMAIN SlotsOf(Content(s), dir, i) :
              /\ SlotsOf(Content(s), dir, i)[j].name = name
              /\ TakenOut(s, remove_dirent(s, dir, name), dir, i, j)
<1> DEFINE C == Content(s)
           di == ReadInode(s, dir)
           hits == {k \in 1 .. NDirect : Holds(Slots(s, di.data, k), name)}
           i == First(hits)
           ds == Slots(s, di.data, i)
           found == {k \in DOMAIN ds : ds[k].name = name}
           j == First(found)
           buf == ScanBuffer(s, di.data)[i]
           blk == [buf EXCEPT !.data.dirents = RemoveAt(@, j)]
           ino == [di EXCEPT !.data.file_len = @ - 1]
           ptr == di.data.direct[i]
           s1 == hodo_write_struct(s, blk, ptr)
           s2 == hodo_write_struct(s1, ino, dir)
           t == hodo_write_struct(s2, ino, dir)
           new == [dirents |-> RemoveAt(SlotsOf(C, dir, i), j)]
<1>1. Readable(s) /\ Room(s) \in Int
  BY RoomCounts DEF FSLog
<1>2. dir \in Mapped(s) /\ di \in Buffer /\ di.data = C[dir] /\ di.lbn = dir
  BY <1>1, ReadNode
<1>3. \A k \in 1 .. NDirect :
         /\ Slots(s, C[dir], k) = SlotsOf(C, dir, k)
         /\ SlotsOf(C, dir, k) \in Seq([name : Names, i_ino : Lbn])
  <2>1. \A k \in 1 .. NDirect : SlotIs(s, dir, k)
    BY <1>1, SlotsRead
  <2> QED
    BY <2>1 DEF SlotIs
<1>4. hits # {} /\ hits \subseteq Nat
  BY <1>2, <1>3 DEF HasName
<1>5. remove_dirent(s, dir, name) = t
  BY <1>4 DEF remove_dirent
<1>6. i \in 1 .. NDirect /\ Holds(ds, name)
  <2> HIDE DEF hits
  <2>1. i \in hits
    BY <1>4, FirstIs
  <2> QED
    BY <2>1 DEF hits
<1> HIDE DEF hits, i
<1>7. ds = SlotsOf(C, dir, i) /\ ds \in Seq(DirentType)
  BY <1>2, <1>3, <1>6 DEF DirentType
<1>8. j \in DOMAIN ds /\ ds[j].name = name
  <2> HIDE DEF ds
  <2>1. found # {} /\ found \subseteq Nat
    BY <1>6, <1>7 DEF Holds
  <2> HIDE DEF found
  <2>2. j \in found
    BY <2>1, FirstIs
  <2> QED
    BY <2>2 DEF found
<1> HIDE DEF found, j
<1>9. /\ ptr # 0 /\ buf \in Buffer /\ buf.lbn = ptr /\ ptr \in Mapped(s)
      /\ buf.data = C[ptr] /\ buf.data \in DirentData
      /\ buf.data.dirents = ds
  <2>1. ptr # 0
    BY <1>2, <1>7, <1>8 DEF SlotsOf
  <2> QED
    BY <1>1, <1>2, <1>6, <1>7, <2>1, SlotsRead DEF SlotIs, SlotsOf
<1> HIDE DEF ds
<1>10. new = [dirents |-> RemoveAt(ds, j)] /\ ptr = C[dir].direct[i] /\ ptr \in Lbn
  BY <1>2, <1>7, <1>9 DEF Mapped
<1> HIDE DEF buf, new
<1>11. Changed(blk, buf, new)
  BY <1>8, <1>9, <1>10, DirentsChanged
<1> HIDE DEF blk, ptr
<1>12. /\ FSLog(s1) /\ Room(s1) = Room(s) - 1
       /\ Mapped(s1) = Mapped(s) /\ Content(s1) = With(C, ptr, new)
  BY <1>1, <1>9, <1>11, Rewrite DEF Changed
<1> HIDE DEF s1
<1>13. C[dir] \in InodeData
  BY DEF NodeOK
<1>14. 1 \in 1 .. NDirect
  BY FSAssumption
<1>15. Changed(ino, di, Left(C[dir]))
  BY <1>2, <1>13, <1>14, InodeChanged
<1> HIDE DEF ino, di
<1>16. /\ FSLog(s2) /\ Room(s2) = Room(s1) - 1
       /\ Mapped(s2) = Mapped(s1) /\ Content(s2) = With(Content(s1), dir, Left(C[dir]))
  BY <1>1, <1>2, <1>12, <1>15, Rewrite DEF Changed
<1> HIDE DEF s2
<1>17. FSLog(t) /\ Content(t) = With(Content(s2), dir, Left(C[dir]))
  BY <1>1, <1>2, <1>12, <1>15, <1>16, Rewrite DEF Changed
<1> HIDE DEF t
<1>18. Content(t) = With(With(C, ptr, new), dir, Left(C[dir]))
  BY <1>12, <1>16, <1>17, WithTwice
<1>19. TakenOut(s, t, dir, i, j)
  BY <1>10, <1>17, <1>18 DEF TakenOut, new
<1> QED
  BY <1>5, <1>6, <1>7, <1>8, <1>19

(* t is s after a call that removed path p. *)
Gone(s, t, num, p) ==
    /\ FSLog(t)
    /\ \E i, j : Leaves(Content(s), num, p, i, j, Content(t))

LEMMA RemovesNode ==
    ASSUME DataHoldsFS, NEW s, FSLog(s), Room(s) >= 4, NEW num, Tree(Content(s), num),
           NEW p \in Path \ {Root}, num[p] # 0,
           \A k \in 1 .. NDirect : SlotsOf(Content(s), num[p], k) = << >>,
           num[p] \notin s.logical_entry_bitmap,
           NEW d, d = num[Parent(p)]
    PROVE  Gone(s, UnlinkStore(s, d, Name(p), num[p]), num, p)
<1> DEFINE C == Content(s)
           n == num[p]
           name == Name(p)
           r == hodo_erase_table_entry(s, n)
           b == [ReadInode(r, n) EXCEPT !.data.i_nlink = 0]
           m == hodo_write_struct(r, b, n)
           C1 == Content(m)
           t == remove_dirent(m, d, name)
<1>1. Readable(s) /\ Room(s) \in Int
  BY RoomCounts DEF FSLog
<1>2. UnlinkStore(s, d, name, n) = t
  BY DEF UnlinkStore
<1>3. /\ Parent(p) \in Path /\ n \in Lbn /\ NodeOK(C, n)
      /\ DirAt(C, d) /\ HasName(C, d, name)
  BY PathFacts DEF Tree, LinkOK
<1>4. d \in Lbn /\ d # 0 /\ NodeOK(C, d)
  BY <1>3 DEF Tree, DirAt
<1>5. n \in Mapped(s)
  BY <1>1, <1>3, ReadNode
<1>6. Zeroed \in Data
  <2>1. Zeroed \in InodeData
    BY DEF Zeroed, Inode, InodeData
  <2> QED
    BY <2>1, NodeNotNil
<1>7. FSLog(m) /\ Room(m) = Room(s) - 1 /\ C1 = With(C, n, Zeroed)
  BY <1>1, <1>5, <1>6, InodeZeroed
<1> HIDE DEF m, C1
<1>8. OfNumbers(C)
  BY <1>1, ContentType DEF OfNumbers
<1>9. d # n /\ \A k \in 1 .. NDirect : C[d].direct[k] # n
  <2>1. p # Parent(p)
    BY PathFacts
  <2> QED
    BY <1>3, <1>4, <2>1 DEF Tree, Apart
<1> HIDE DEF n, name
<1>10. SameNode(C1, C, d)
  BY <1>3, <1>4, <1>7, <1>8, <1>9, WrittenElsewhere
<1>11. /\ NodeOK(C1, d) /\ HasName(C1, d, name) /\ C1[d] = C[d]
       /\ \A k \in 1 .. NDirect : SlotsOf(C1, d, k) = SlotsOf(C, d, k)
  BY <1>3, <1>10 DEF SameNode, HasName
<1>12. PICK i \in 1 .. NDirect : \E j \in DOMAIN SlotsOf(C1, d, i) :
              /\ SlotsOf(C1, d, i)[j].name = name
              /\ TakenOut(m, t, d, i, j)
  BY <1>1, <1>4, <1>7, <1>11, TakesDirentOut DEF C1
<1>13. PICK j \in DOMAIN SlotsOf(C1, d, i) :
              /\ SlotsOf(C1, d, i)[j].name = name
              /\ TakenOut(m, t, d, i, j)
  BY <1>12
<1> HIDE DEF t
<1>14. /\ FSLog(t)
       /\ Content(t) = With(With(C1, C1[d].direct[i],
                                 [dirents |-> RemoveAt(SlotsOf(C1, d, i), j)]),
                            d, Left(C1[d]))
  BY <1>13 DEF TakenOut, C1
<1>15. Content(t) = With(With(With(C, n, Zeroed), C[d].direct[i],
                              [dirents |-> RemoveAt(SlotsOf(C, d, i), j)]),
                         d, Left(C[d]))
  BY <1>7, <1>11, <1>14
<1>16. j \in DOMAIN SlotsOf(C, d, i) /\ SlotsOf(C, d, i)[j].name = name
  BY <1>11, <1>13
<1>17. Leaves(C, num, p, i, j, Content(t))
  BY <1>8, <1>15, <1>16 DEF Leaves, n, name
<1> QED
  BY <1>2, <1>14, <1>17 DEF Gone, n, name

--------------------------------------------------------------------------------
(* The invariant *)

Dentry ==
    [state : {"unknown", "negative", "positive"}, i_ino : Int, dir : BOOLEAN,
     listable : BOOLEAN, i_size : Int, i_nlink : Int]

(* The cache d agrees with the numbers and the tree on the device. *)
Cached(d, num, T) ==
    /\ d \in [Path -> Dentry]
    /\ \A p \in Path :
          /\ d[p].state = "positive" =>
               d[p].i_ino = num[p] /\ T[p] = (IF d[p].dir THEN "dir" ELSE "reg")
          /\ d[p].state = "negative" => T[p] = "none"

OnDisk(s, d, num) == Tree(Content(s), num) /\ Cached(d, num, Shown(Content(s), num))

(* Between two steps of a collection the log is as HodoLog's invariant     *)
(* says; outside one it may hold stale valid bits. In both, what numbers   *)
(* read as is a tree and the dentry cache agrees with it.                  *)
FSInv ==
    /\ gc \in GCState /\ store.seq[0] = << >>
    /\ gc.pc = "idle" => FSLog(store)
    /\ gc.pc # "idle" => IndInv
    /\ \E num : OnDisk(store, dcache, num)

LEMMA InvReadable ==
    ASSUME FSInv
    PROVE  Readable(store)
<1>1. CASE gc.pc = "idle"
  BY <1>1 DEF FSInv, FSLog
<1>2. CASE gc.pc # "idle"
  BY <1>2, LiveReadableStore DEF FSInv, IndInv, TypeOK
<1> QED
  BY <1>1, <1>2

LEMMA InvCoherent ==
    ASSUME DataHoldsFS, FSInv
    PROVE  DcacheCoherent
<1> PICK num : OnDisk(store, dcache, num)
  BY DEF FSInv
<1> DEFINE C == Content(store)
           T == Shown(C, num)
<1>1. Readable(store)
  BY InvReadable
<1>2. Tree(C, num) /\ Cached(dcache, num, T)
  BY DEF OnDisk
<1>3. DiskNumber(store) = num
  BY <1>1, <1>2, WalkFinds
<1>4. \A p \in Path : DiskKind(store, num[p]) = KindOf(C, num[p])
  BY <1>1, <1>2, TreeShown
<1>5. \A p \in Path : T[p] = KindOf(C, num[p])
  BY DEF Shown
<1> HIDE DEF T
<1>6. \A p \in Path :
         /\ dcache[p].state = "positive" =>
              /\ dcache[p].i_ino = num[p]
              /\ DiskKind(store, num[p]) = IF dcache[p].dir THEN "dir" ELSE "reg"
         /\ dcache[p].state = "negative" => DiskKind(store, num[p]) = "none"
  BY <1>2, <1>4, <1>5 DEF Cached
<1> QED
  BY <1>3, <1>6 DEF DcacheCoherent

(* What the walk finds is the tree. *)
LEMMA InvWalk ==
    ASSUME DataHoldsFS, FSInv
    PROVE  OnDisk(store, dcache, DiskNumber(store))
<1> PICK num : OnDisk(store, dcache, num)
  BY DEF FSInv
<1>1. DiskNumber(store) = num
  BY InvReadable, WalkFinds DEF OnDisk
<1> QED
  BY <1>1

LEMMA InvListing ==
    ASSUME DataHoldsFS, FSInv
    PROVE  ListingExact
<1> DEFINE C == Content(store)
           num == DiskNumber(store)
<1>1. Readable(store)
  BY InvReadable
<1>2. Tree(C, num)
  BY InvWalk DEF OnDisk
<1> HIDE DEF num
<1>4. \A p \in Path : DiskKind(store, num[p]) = KindOf(C, num[p])
  BY <1>1, <1>2, TreeShown
<1> HIDE DEF C
<1>5. ASSUME NEW p \in Path, DiskKind(store, num[p]) = "dir"
      PROVE  LET inode == ReadInode(store, num[p]).data
                 ds    == read_all_dirents(store, inode)
                 names == {ds[i].name : i \in DOMAIN ds}
             IN  /\ Cardinality(names) = Len(ds)
                 /\ inode.file_len = Len(ds) + (IF p = Root THEN 0 ELSE 2)
                 /\ Len(p) < MaxDepth =>
                      \A q \in Entries(p) :
                          Name(q) \in names <=> num[q] # 0
  <2> DEFINE n == num[p]
             ds == read_all_dirents(store, C[n])
             names == {ds[i].name : i \in DOMAIN ds}
  <2>1. n # 0 /\ C[n].kind = "dir" /\ DirAt(C, n)
    BY <1>4, <1>5 DEF KindOf, DirAt
  <2>2. n \in Lbn /\ NodeOK(C, n)
    BY <1>2, <2>1 DEF Tree
  <2>3. ReadInode(store, n).data = C[n]
    BY <1>1, <2>2, ReadNode DEF C
  <2>4. names = NamesOf(C, n) /\ Cardinality(names) = Len(ds)
    BY <1>1, <2>2, ListsNames DEF C
  <2>5. CountOK(C, num, p)
    BY <1>2 DEF Tree
  <2> HIDE DEF ds, names
  <2>6. C[n].file_len = Len(ds) + (IF p = Root THEN 0 ELSE 2)
    BY <2>1, <2>4, <2>5 DEF CountOK
  <2>7. ASSUME NEW q \in Entries(p) PROVE Name(q) \in names <=> num[q] # 0
    <3>1. q \in Path \ {Root} /\ Parent(q) = p
      BY DEF Entries
    <3>2. Name(q) \in Names /\ LinkOK(C, num, q)
      BY <1>2, <3>1, PathFacts DEF Tree
    <3>3. num[q] # 0 => HasName(C, n, Name(q))
      BY <3>1, <3>2 DEF LinkOK
    <3>4. HasName(C, n, Name(q)) => num[q] # 0
      <4> SUFFICES ASSUME HasName(C, n, Name(q)) PROVE num[q] # 0
        OBVIOUS
      <4>1. PICK i \in 1 .. NDirect : Holds(SlotsOf(C, n, i), Name(q))
        BY DEF HasName
      <4>2. PICK j \in DOMAIN SlotsOf(C, n, i) : SlotsOf(C, n, i)[j].name = Name(q)
        BY <4>1 DEF Holds
      <4>3. SlotsOf(C, n, i)[j].i_ino # 0
        BY <2>2, SlotsType
      <4>4. SlotsOf(C, n, i)[j].i_ino = num[q]
        BY <2>1, <3>1, <3>2, <4>2 DEF LinkOK
      <4> QED
        BY <4>3, <4>4
    <3> QED
      BY <2>4, <3>2, <3>3, <3>4 DEF NamesOf
  <2> QED
    BY <2>3, <2>4, <2>6, <2>7 DEF ds, names
<1> QED
  BY <1>5 DEF ListingExact, num

LEMMA InvDistinct ==
    ASSUME DataHoldsFS, FSInv
    PROVE  NumbersDistinct
<1> PICK num : OnDisk(store, dcache, num)
  BY DEF FSInv
<1> DEFINE C == Content(store)
           used == {<<p, num[p]>> : p \in Path}
           inos == {u \in used : u[2] # 0}
           ptrs == UNION {{ReadInode(store, u[2]).data.direct[i] : i \in 1 .. NDirect}
                            : u \in inos}
<1>1. Readable(store)
  BY InvReadable
<1>2. Tree(C, num)
  BY DEF OnDisk
<1>3. DiskNumber(store) = num
  BY <1>1, <1>2, WalkFinds
<1> HIDE DEF C
<1>4. \A u \in inos : \E p \in Path : u = <<p, num[p]>> /\ num[p] # 0
  OBVIOUS
<1>5. ASSUME NEW p \in Path, num[p] # 0
      PROVE  ReadInode(store, num[p]).data = C[num[p]]
  <2>1. num[p] \in Lbn /\ NodeOK(C, num[p])
    BY <1>2, <1>5 DEF Tree
  <2> QED
    BY <1>1, <2>1, ReadNode DEF C
<1> HIDE DEF inos
<1>6. ASSUME NEW u \in inos, NEW v \in inos, u[2] = v[2]
      PROVE  u = v
  <2>1. PICK p \in Path : u = <<p, num[p]>> /\ num[p] # 0
    BY <1>4
  <2>2. PICK q \in Path : v = <<q, num[q]>> /\ num[q] # 0
    BY <1>4
  <2>3. num[p] = num[q]
    BY <1>6, <2>1, <2>2
  <2>4. p = q
    BY <1>2, <2>1, <2>2, <2>3 DEF Tree, Apart
  <2> QED
    BY <2>1, <2>2, <2>4
<1>7. ASSUME NEW u \in inos PROVE u[2] \notin ptrs
  <2> SUFFICES ASSUME NEW v \in inos, NEW i \in 1 .. NDirect,
                      u[2] = ReadInode(store, v[2]).data.direct[i]
               PROVE  FALSE
    OBVIOUS
  <2>1. PICK p \in Path : u = <<p, num[p]>> /\ num[p] # 0
    BY <1>4
  <2>2. PICK q \in Path : v = <<q, num[q]>> /\ num[q] # 0
    BY <1>4
  <2>3. num[p] = C[num[q]].direct[i]
    BY <1>5, <2>1, <2>2
  <2> QED
    BY <1>2, <2>1, <2>2, <2>3 DEF Tree, Apart
<1>8. \A u \in inos : (\A v \in inos : u[2] = v[2] => u = v) /\ u[2] \notin ptrs
  BY <1>6, <1>7
<1> QED
  BY <1>3, <1>8 DEF NumbersDistinct, inos

--------------------------------------------------------------------------------
(* The calls *)

(* The tree a step leaves is the one it found, or the one a call makes of  *)
(* it.                                                                     *)
TreeStep == DiskTree(store') = DiskTree(store) \/ NS!Step(DiskTree(store), DiskTree(store'))

LEMMA KindFacts ==
    ASSUME NEW C, NEW num, Tree(C, num)
    PROVE  /\ DOMAIN Shown(C, num) = Path
           /\ \A p \in Path :
                 /\ Shown(C, num)[p] = KindOf(C, num[p])
                 /\ Shown(C, num)[p] \in {"none", "dir", "reg"}
                 /\ Shown(C, num)[p] = "none" <=> num[p] = 0
                 /\ Shown(C, num)[p] = "dir" <=> DirAt(C, num[p])
<1>1. \A p \in Path : num[p] # 0 => C[num[p]].kind \in {"dir", "reg"}
  BY DEF Tree, NodeOK
<1> QED
  BY <1>1 DEF Shown, KindOf, DirAt

LEMMA IdleNext ==
    ASSUME DataHoldsFS, gc' \in GCState, gc'.pc = "idle", FSLog(store'),
           NEW num, OnDisk(store', dcache', num)
    PROVE  FSInv' /\ DiskTree(store') = Shown(Content(store'), num)
<1>1. FSInv'
  BY DEF FSInv, FSLog
<1>2. Readable(store') /\ Tree(Content(store'), num)
  BY DEF FSLog, OnDisk
<1> QED
  BY <1>1, <1>2, TreeShown

LEMMA TreeNow ==
    ASSUME DataHoldsFS, FSInv, NEW num, OnDisk(store, dcache, num)
    PROVE  DiskTree(store) = Shown(Content(store), num)
BY InvReadable, TreeShown DEF OnDisk

(* A walk step finds the number of the path. *)
LEMMA LookupFinds ==
    ASSUME DataHoldsFS, NEW s, Readable(s), NEW num, Tree(Content(s), num),
           NEW p \in Path \ {Root}, NEW d, d = num[Parent(p)], DirAt(Content(s), d)
    PROVE  find_inode_number(s, Content(s)[d], Name(p)) = num[p]
<1> DEFINE C == Content(s)
           k == find_inode_number(s, C[d], Name(p))
<1>1. d \in Lbn /\ NodeOK(C, d) /\ LinkOK(C, num, p)
  BY PathFacts DEF Tree, DirAt
<1>2. /\ ~HasName(C, d, Name(p)) => k = 0
      /\ \A i \in 1 .. NDirect : \A j \in DOMAIN SlotsOf(C, d, i) :
            SlotsOf(C, d, i)[j].name = Name(p)
               => k = SlotsOf(C, d, i)[j].i_ino /\ k \in Lbn
  BY <1>1, FindNumber
<1> HIDE DEF C, k
<1>3. CASE HasName(C, d, Name(p))
  <2>1. PICK i \in 1 .. NDirect : Holds(SlotsOf(C, d, i), Name(p))
    BY <1>3 DEF HasName
  <2>2. PICK j \in DOMAIN SlotsOf(C, d, i) : SlotsOf(C, d, i)[j].name = Name(p)
    BY <2>1 DEF Holds
  <2>3. k = SlotsOf(C, d, i)[j].i_ino
    BY <1>2, <2>2
  <2>4. SlotsOf(C, d, i)[j].i_ino = num[p]
    BY <1>1, <2>2 DEF LinkOK, C
  <2> QED
    BY <2>3, <2>4 DEF C, k
<1>4. CASE ~HasName(C, d, Name(p))
  <2>1. num[p] = 0
    BY <1>1, <1>4 DEF LinkOK
  <2> QED
    BY <1>2, <1>4, <2>1 DEF C, k
<1> QED
  BY <1>3, <1>4

(* The directory a call works on. *)
ParentIs(d, p) ==
    LET C == Content(store)
    IN  /\ d \in Lbn /\ NodeOK(C, d) /\ DirAt(C, d)
        /\ DirNumber(Parent(p)) = d /\ dcache[Parent(p)].i_ino = d
        /\ ReadInode(store, d).data = C[d]

LEMMA ParentFound ==
    ASSUME DataHoldsFS, FSInv, NEW num, OnDisk(store, dcache, num),
           NEW p \in Path \ {Root}, IsDir(Parent(p))
    PROVE  ParentIs(num[Parent(p)], p)
<1> DEFINE C == Content(store)
           q == Parent(p)
           d == num[q]
           T == Shown(C, num)
<1>1. q \in Path
  BY PathFacts
<1>2. Tree(C, num) /\ Cached(dcache, num, T)
  BY DEF OnDisk
<1> HIDE DEF C, q
<1>3. dcache[q].i_ino = d /\ T[q] = "dir"
  BY <1>1, <1>2 DEF Cached, IsDir, q
<1>4. DirAt(C, d)
  BY <1>1, <1>2, <1>3, KindFacts
<1>5. d \in Lbn /\ NodeOK(C, d)
  BY <1>1, <1>2, <1>4 DEF Tree, DirAt
<1>6. ReadInode(store, d).data = C[d]
  BY <1>5, InvReadable, ReadNode DEF C
<1>7. DirNumber(q) = d
  BY <1>2, <1>3 DEF DirNumber, Tree
<1> QED
  BY <1>3, <1>4, <1>5, <1>6, <1>7 DEF ParentIs, C, q

(* What a positive dentry holds. *)
PositiveIs(x, n, isDir) ==
    x \in Dentry /\ x.state = "positive" /\ x.i_ino = n /\ x.dir = isDir

LEMMA PositiveType ==
    ASSUME NEW n \in Int, NEW isDir \in BOOLEAN, NEW list \in BOOLEAN,
           NEW size \in Int, NEW nlink \in Int
    PROVE  PositiveIs(Positive(n, isDir, list, size, nlink), n, isDir)
BY DEF PositiveIs, Positive, Dentry

LEMMA LookupStep ==
    ASSUME DataHoldsFS, FSInv, NEW p \in Path \ {Root}, Lookup(p)
    PROVE  FSInv' /\ TreeStep
<1> PICK num : OnDisk(store, dcache, num)
  BY DEF FSInv
<1> DEFINE C == Content(store)
           T == Shown(C, num)
           d == num[Parent(p)]
           b == ReadInode(store, num[p])
           x == IF num[p] = 0 THEN Negative
                ELSE Positive(b.lbn, b.data.kind = "dir", FALSE, 0, 1)
<1>1. /\ gc.pc = "idle" /\ IsDir(Parent(p)) /\ store' = store /\ gc' = gc
      /\ gc \in GCState /\ FSLog(store)
  BY DEF Lookup, Call, FSInv
<1>2. Tree(C, num) /\ Cached(dcache, num, T)
  BY DEF OnDisk
<1>3. ParentIs(d, p)
  BY <1>1, ParentFound
<1>4. find_inode_number(store, C[d], Name(p)) = num[p]
  BY <1>2, <1>3, InvReadable, LookupFinds DEF ParentIs
<1>5. dcache' = [dcache EXCEPT ![p] = x]
  BY <1>3, <1>4 DEF Lookup, ParentIs
<1>6. /\ x \in Dentry
      /\ x.state = "positive" => x.i_ino = num[p] /\ T[p] = IF x.dir THEN "dir" ELSE "reg"
      /\ x.state = "negative" => T[p] = "none"
  <2>1. T[p] = KindOf(C, num[p])
    BY <1>2, KindFacts
  <2>2. CASE num[p] = 0
    BY <2>1, <2>2 DEF Negative, NoDentry, Dentry, KindOf
  <2>3. CASE num[p] # 0
    <3>1. num[p] \in Lbn /\ NodeOK(C, num[p])
      BY <1>2, <2>3 DEF Tree
    <3>2. b.lbn = num[p] /\ b.data = C[num[p]]
      BY <3>1, InvReadable, ReadNode
    <3>3. C[num[p]].kind \in {"dir", "reg"} /\ num[p] \in Int
      BY <3>1 DEF NodeOK, Lbn, starting_logical_number
    <3> HIDE DEF T, C, b
    <3>4. x = Positive(num[p], C[num[p]].kind = "dir", FALSE, 0, 1)
      BY <2>3, <3>2
    <3>5. /\ x.state = "positive" /\ x.i_ino = num[p] /\ x.dir = (C[num[p]].kind = "dir")
          /\ x \in Dentry
      <4> DEFINE y == C[num[p]].kind = "dir"
      <4>1. y \in BOOLEAN
        OBVIOUS
      <4>2. x = Positive(num[p], y, FALSE, 0, 1)
        BY <3>4
      <4> HIDE DEF y, x
      <4>3. FALSE \in BOOLEAN /\ 0 \in Int /\ 1 \in Int
        OBVIOUS
      <4>4. PositiveIs(x, num[p], y)
        BY ONLY <3>3, <4>1, <4>2, <4>3, PositiveType
      <4> QED
        BY <4>4 DEF PositiveIs, y
    <3>6. T[p] = C[num[p]].kind
      BY <2>1, <2>3 DEF KindOf
    <3> HIDE DEF x
    <3> QED
      BY <3>3, <3>5, <3>6
  <2> QED
    BY <2>2, <2>3
<1> HIDE DEF x
<1>7. Cached(dcache', num, T)
  BY <1>2, <1>5, <1>6 DEF Cached
<1>8. OnDisk(store', dcache', num)
  BY <1>1, <1>2, <1>7 DEF OnDisk
<1>9. FSInv'
  BY <1>1, <1>8, IdleNext
<1> QED
  BY <1>1, <1>9 DEF TreeStep

LEMMA ForgetStep ==
    ASSUME DataHoldsFS, FSInv, NEW p \in Path \ {Root}, Forget(p)
    PROVE  FSInv' /\ TreeStep
<1> PICK num : OnDisk(store, dcache, num)
  BY DEF FSInv
<1> DEFINE T == Shown(Content(store), num)
<1>1. /\ gc.pc = "idle" /\ store' = store /\ gc' = gc /\ gc \in GCState /\ FSLog(store)
      /\ dcache' = [dcache EXCEPT ![p] = Unknown]
  BY DEF Forget, FSInv
<1>2. Tree(Content(store), num) /\ Cached(dcache, num, T)
  BY DEF OnDisk
<1>3. Unknown \in Dentry /\ Unknown.state = "unknown"
  BY DEF Unknown, NoDentry, Dentry
<1> HIDE DEF T
<1>4. Cached(dcache', num, T)
  BY <1>1, <1>2, <1>3 DEF Cached
<1>5. OnDisk(store', dcache', num)
  BY <1>1, <1>2, <1>4 DEF OnDisk, T
<1>6. FSInv'
  BY <1>1, <1>5, IdleNext
<1> QED
  BY <1>1, <1>6 DEF TreeStep

(* The same dentry but for what the in-core inode counts. *)
SameDentry(y, x) ==
    y \in Dentry /\ y.state = x.state /\ y.i_ino = x.i_ino /\ y.dir = x.dir

LEMMA Recounted ==
    ASSUME NEW x \in Dentry
    PROVE  /\ SameDentry(x, x)
           /\ SameDentry([x EXCEPT !.i_size = @ + 1], x)
           /\ SameDentry([x EXCEPT !.i_size = @ - 1], x)
           /\ SameDentry([x EXCEPT !.i_nlink = @ - 1], x)
BY DEF SameDentry, Dentry

(* A dentry that says nothing wrong of number n and kind k. *)
Agrees(x, n, k) ==
    /\ x \in Dentry
    /\ x.state = "positive" => x.i_ino = n /\ k = (IF x.dir THEN "dir" ELSE "reg")
    /\ x.state = "negative" => k = "none"

LEMMA CacheChanged ==
    ASSUME NEW d, NEW num, NEW T, Cached(d, num, T), DOMAIN num = Path, DOMAIN T = Path,
           NEW p \in Path, NEW n, NEW k,
           NEW e, DOMAIN e = Path, e = [q \in Path |-> e[q]],
           \A q \in Path : q # p => SameDentry(e[q], d[q]) \/ e[q] = Unknown,
           Agrees(e[p], n, k)
    PROVE  Cached(e, [num EXCEPT ![p] = n], [T EXCEPT ![p] = k])
<1> DEFINE new == [num EXCEPT ![p] = n]
           U == [T EXCEPT ![p] = k]
<1>1. /\ new[p] = n /\ U[p] = k
      /\ \A q \in Path : q # p => new[q] = num[q] /\ U[q] = T[q]
  OBVIOUS
<1>2. Unknown \in Dentry /\ Unknown.state = "unknown"
  BY DEF Unknown, NoDentry, Dentry
<1> HIDE DEF new, U
<1>3. ASSUME NEW q \in Path
      PROVE  Agrees(e[q], new[q], U[q])
  <2>1. CASE q = p
    BY <1>1, <2>1
  <2>2. CASE q # p /\ SameDentry(e[q], d[q])
    BY <1>1, <2>2 DEF SameDentry, Agrees, Cached
  <2>3. CASE e[q] = Unknown
    BY <1>2, <2>3 DEF Agrees
  <2> QED
    BY <2>1, <2>2, <2>3
<1>4. e \in [Path -> Dentry]
  BY <1>3 DEF Agrees
<1> QED
  BY <1>3, <1>4 DEF Agrees, Cached, new, U

(* What a create or mkdir finds. *)
LEMMA MakeFacts ==
    ASSUME DataHoldsFS, FSInv, NEW num, OnDisk(store, dcache, num),
           NEW p \in Path \ {Root}, Call(p), SafeMake(p), dcache[p] = Negative,
           NEW kind \in {"dir", "reg"}
    PROVE  /\ Made(store, MakeStore(store, dcache[Parent(p)].i_ino, Name(p), NewNode(kind)),
                   num, p, kind)
           /\ num[p] = 0 /\ DirAt(Content(store), num[Parent(p)])
<1> DEFINE C == Content(store)
           T == Shown(C, num)
           d == num[Parent(p)]
<1>1. FSLog(store) /\ IsDir(Parent(p)) /\ Room(store) >= 3 /\ DirHasRoom(Parent(p))
  BY DEF Call, SafeMake, FSInv
<1>2. Tree(C, num) /\ Cached(dcache, num, T)
  BY DEF OnDisk
<1>3. ParentIs(d, p)
  BY <1>1, ParentFound
<1>4. T[p] = "none"
  BY <1>2 DEF Cached, Negative, NoDentry
<1>5. num[p] = 0
  BY <1>2, <1>4, KindFacts
<1> HIDE DEF C, d
<1>6. d \in Lbn /\ NodeOK(C, d) /\ DirAt(C, d) /\ dcache[Parent(p)].i_ino = d
  BY <1>3 DEF ParentIs, C
<1>7. HasSlot(C, d)
  <2>1. DirNumber(Parent(p)) = d /\ ReadInode(store, d).data = C[d]
    BY <1>3 DEF ParentIs, C
  <2>2. \E i \in 1 .. NDirect :
           C[d].direct[i] = 0 \/ Len(Slots(store, C[d], i)) < DirentsPerBlock
    BY <1>1, <2>1 DEF DirHasRoom
  <2>3. \A i \in 1 .. NDirect : SlotIs(store, d, i)
    BY <1>6, InvReadable, SlotsRead DEF C
  <2>4. \A i \in 1 .. NDirect : Slots(store, C[d], i) = SlotsOf(C, d, i)
    BY <2>3 DEF SlotIs, C
  <2> QED
    BY <2>2, <2>4 DEF HasSlot
<1>8. Made(store, MakeStore(store, d, Name(p), NewNode(kind)), num, p, kind)
  BY <1>1, <1>2, <1>5, <1>6, <1>7, MakesNode DEF C, d
<1> QED
  BY <1>5, <1>6, <1>8 DEF C, d

(* The tree a create or mkdir leaves. *)
MadeTree(t, num, p, n, kind) ==
    LET T == Shown(Content(store), num)
        U == [T EXCEPT ![p] = kind]
    IN  /\ n \in Lbn /\ Tree(Content(t), [num EXCEPT ![p] = n])
        /\ Shown(Content(t), [num EXCEPT ![p] = n]) = U
        /\ NS!Step(T, U)

LEMMA MadeIs ==
    ASSUME DataHoldsFS, FSInv, NEW num, OnDisk(store, dcache, num),
           NEW p \in Path \ {Root}, NEW kind \in {"dir", "reg"},
           num[p] = 0, DirAt(Content(store), num[Parent(p)]),
           NEW t, Made(store, t, num, p, kind)
    PROVE  MadeTree(t, num, p, hodo_get_next_logical_number(store), kind)
<1> DEFINE C == Content(store)
           T == Shown(C, num)
           U == [T EXCEPT ![p] = kind]
           n == hodo_get_next_logical_number(store)
           new == [num EXCEPT ![p] = n]
           D == Content(t)
<1>1. PICK i, b : Enters(C, num, p, n, kind, i, b, D)
  BY DEF Made
<1>2. Tree(C, num)
  BY DEF OnDisk
<1>3. n \in Lbn
  BY <1>1 DEF Enters
<1> HIDE DEF C, D, n
<1>4. Tree(D, new) /\ Shown(D, new) = U
  BY <1>1, EntersTree
<1>5. Parent(p) \in Path
  BY PathFacts
<1>6. T[p] = "none" /\ T[Parent(p)] = "dir"
  BY <1>2, <1>5, KindFacts DEF C
<1> HIDE DEF T
<1>7. NS!Step(T, U)
  <2>1. NS!Make(T, U, p, kind)
    BY <1>6 DEF NS!Make
  <2> QED
    BY <2>1 DEF NS!Step
<1> QED
  BY <1>3, <1>4, <1>7 DEF MadeTree, C, D, T, n

LEMMA CreateStep ==
    ASSUME DataHoldsFS, FSInv, NEW p \in Path \ {Root}, SafeMake(p), hodo_create(p)
    PROVE  FSInv' /\ TreeStep
<1> PICK num : OnDisk(store, dcache, num)
  BY DEF FSInv
<1> DEFINE C == Content(store)
           T == Shown(C, num)
           q == Parent(p)
           n == hodo_get_next_logical_number(store)
           x == Positive(n, FALSE, FALSE, 0, 1)
           new == [num EXCEPT ![p] = n]
           U == [T EXCEPT ![p] = "reg"]
<1>1. /\ Call(p) /\ gc' = gc /\ dcache[p] = Negative
      /\ store' = MakeStore(store, dcache[q].i_ino, Name(p), Inode("reg", 0, 1))
      /\ dcache' = [dcache EXCEPT ![p] = x, ![q].i_size = @ + 1]
  BY DEF hodo_create
<1>2. gc.pc = "idle" /\ gc \in GCState
  BY <1>1 DEF Call, FSInv
<1>3. Tree(C, num) /\ Cached(dcache, num, T)
  BY DEF OnDisk
<1>4. Inode("reg", 0, 1) = NewNode("reg")
  BY DEF NewNode
<1>5. /\ Made(store, store', num, p, "reg")
      /\ num[p] = 0 /\ DirAt(C, num[q])
  BY <1>1, <1>4, MakeFacts
<1>6. MadeTree(store', num, p, n, "reg")
  BY <1>5, MadeIs
<1>7. FSLog(store')
  BY <1>5 DEF Made
<1> HIDE DEF C, n
<1>8. /\ n \in Lbn /\ Tree(Content(store'), new) /\ Shown(Content(store'), new) = U
      /\ NS!Step(T, U)
  BY <1>6 DEF MadeTree, C
<1>9. Cached(dcache', new, U)
  <2>1. n \in Int
    BY <1>8 DEF Lbn, starting_logical_number
  <2>2. FALSE \in BOOLEAN /\ 0 \in Int /\ 1 \in Int
    OBVIOUS
  <2>3. PositiveIs(x, n, FALSE)
    BY ONLY <2>1, <2>2, PositiveType
  <2>4. q \in Path /\ q # p
    BY PathFacts
  <2> HIDE DEF x, q, T, U, new
  <2>5. Agrees(x, n, "reg")
    BY <2>3 DEF PositiveIs, Agrees
  <2>6. dcache \in [Path -> Dentry]
    BY <1>3 DEF Cached
  <2>7. /\ DOMAIN dcache' = Path /\ dcache' = [r \in Path |-> dcache'[r]]
        /\ dcache'[p] = x
        /\ dcache'[q] = [dcache[q] EXCEPT !.i_size = @ + 1]
        /\ \A r \in Path : r # p /\ r # q => dcache'[r] = dcache[r]
    BY <1>1, <2>4, <2>6
  <2>8. \A r \in Path : r # p => SameDentry(dcache'[r], dcache[r])
    <3> SUFFICES ASSUME NEW r \in Path, r # p PROVE SameDentry(dcache'[r], dcache[r])
      OBVIOUS
    <3>1. dcache[r] \in Dentry /\ dcache[q] \in Dentry
      BY <2>4, <2>6
    <3>2. CASE r = q
      BY <2>7, <3>1, <3>2, Recounted
    <3>3. CASE r # q
      BY <2>7, <3>1, <3>3, Recounted
    <3> QED
      BY <3>2, <3>3
  <2>9. DOMAIN num = Path /\ DOMAIN T = Path
    BY <1>3, KindFacts DEF Tree, T
  <2>10. Agrees(dcache'[p], n, "reg")
    BY <2>5, <2>7
  <2> QED
    BY <1>3, <2>7, <2>8, <2>9, <2>10, CacheChanged DEF new, U
<1>10. OnDisk(store', dcache', new)
  BY <1>8, <1>9 DEF OnDisk
<1>11. FSInv' /\ DiskTree(store') = U
  BY <1>1, <1>2, <1>7, <1>8, <1>10, IdleNext
<1>12. DiskTree(store) = T
  BY TreeNow DEF C
<1> QED
  BY <1>8, <1>11, <1>12 DEF TreeStep

LEMMA MkdirStep ==
    ASSUME DataHoldsFS, FSInv, NEW p \in Path \ {Root}, SafeMake(p), NoStaleBit(store),
           hodo_mkdir(p), NoSolidZone(store')
    PROVE  FSInv' /\ TreeStep
<1> PICK num : OnDisk(store, dcache, num)
  BY DEF FSInv
<1> DEFINE C == Content(store)
           T == Shown(C, num)
           q == Parent(p)
           n == hodo_get_next_logical_number(store)
           x == Positive(n, TRUE, TRUE, 2, 1)
           s == MakeStore(store, dcache[q].i_ino, Name(p), Inode("dir", 2, 1))
           new == [num EXCEPT ![p] = n]
           U == [T EXCEPT ![p] = "dir"]
<1>1. /\ Call(p) /\ dcache[p] = Negative
      /\ store' = GCRewound(s) /\ gc' = GCCalled(s)
      /\ dcache' = [dcache EXCEPT ![p] = x]
  BY DEF hodo_mkdir
<1>2. FSLog(store)
  BY <1>1 DEF Call, FSInv
<1>3. Tree(C, num) /\ Cached(dcache, num, T)
  BY DEF OnDisk
<1>4. Inode("dir", 2, 1) = NewNode("dir")
  BY DEF NewNode
<1>5. /\ Made(store, s, num, p, "dir")
      /\ num[p] = 0 /\ DirAt(C, num[q])
  BY <1>1, <1>4, MakeFacts
<1>6. MadeTree(s, num, p, n, "dir")
  BY <1>5, MadeIs
<1> HIDE DEF C, n, s
<1>7. FSLog(s) /\ Live(s)
  BY <1>2, <1>5, NoStaleLive DEF Made
<1>8. LogOK(s) /\ s \in Store /\ s.seq[0] = << >>
  BY <1>7, LogOKIsFSLog DEF FSLog, Readable
<1>9. NoSolidZone(s)
  BY <1>1 DEF GCRewound, NoSolidZone, ZoneHasHole
<1>10. store' \in Store /\ gc' \in GCState /\ gc'.pc # "idle" /\ store'.seq = s.seq
  <2>1. Pos(1, 0) \in BlockPos /\ Pos(SwapZone, 0) \in BlockPos
    BY GeometryAssumption DEF Pos, BlockPos, ZoneId, BlockIndex, SwapZone
  <2>2. store' \in Store /\ store'.seq = s.seq
    BY <1>1, <1>8, <2>1 DEF GCRewound, Store
  <2>3. 0 \in OutRange /\ ZeroBlock(Nil) \in Buffer /\ s.wp \in BlockPos
    <3>1. 0 \in OutRange
      BY GeometryAssumption DEF OutRange
    <3>2. ZeroBlock(Nil) \in Buffer
      BY DEF ZeroBlock, Buffer
    <3> QED
      BY <1>7, <3>1, <3>2, FSLogWp
  <2>4. gc' \in GCState /\ gc'.pc # "idle"
    BY <1>1, <2>1, <2>3 DEF GCCalled, GCIdle, GCState
  <2> QED
    BY <2>2, <2>4
<1>11. IndInv' /\ Content(store') = Content(s)
  BY <1>1, <1>8, <1>9, <1>10, BeginInd DEF TypeOK
<1>12. /\ n \in Lbn /\ Tree(Content(store'), new) /\ Shown(Content(store'), new) = U
       /\ NS!Step(T, U)
  BY <1>6, <1>11 DEF MadeTree, C
<1>13. Cached(dcache', new, U)
  <2>1. n \in Int
    BY <1>12 DEF Lbn, starting_logical_number
  <2>2. TRUE \in BOOLEAN /\ 2 \in Int /\ 1 \in Int
    OBVIOUS
  <2>3. PositiveIs(x, n, TRUE)
    BY ONLY <2>1, <2>2, PositiveType
  <2> HIDE DEF x, q, T, U, new
  <2>5. Agrees(x, n, "dir")
    BY <2>3 DEF PositiveIs, Agrees
  <2>6. dcache \in [Path -> Dentry]
    BY <1>3 DEF Cached
  <2>7. /\ DOMAIN dcache' = Path /\ dcache' = [r \in Path |-> dcache'[r]]
        /\ dcache'[p] = x
        /\ \A r \in Path : r # p => dcache'[r] = dcache[r]
    BY <1>1, <2>6
  <2>8. \A r \in Path : r # p => SameDentry(dcache'[r], dcache[r])
    BY <2>6, <2>7, Recounted
  <2>9. DOMAIN num = Path /\ DOMAIN T = Path
    BY <1>3, KindFacts DEF Tree, T
  <2>10. Agrees(dcache'[p], n, "dir")
    BY <2>5, <2>7
  <2> QED
    BY <1>3, <2>7, <2>8, <2>9, <2>10, CacheChanged DEF new, U
<1>14. OnDisk(store', dcache', new)
  BY <1>12, <1>13 DEF OnDisk
<1>15. FSInv'
  BY <1>8, <1>10, <1>11, <1>14 DEF FSInv
<1>16. DiskTree(store') = U
  <2>1. Live(store') /\ store' \in Store
    BY <1>10, <1>11 DEF IndInv
  <2>2. Readable(store')
    BY <2>1, LiveReadableStore
  <2> QED
    BY <1>12, <2>2, TreeShown
<1>17. DiskTree(store) = T
  BY TreeNow DEF C
<1> QED
  BY <1>12, <1>15, <1>16, <1>17 DEF TreeStep

(* What an unlink or rmdir leaves, once the path is known to have no       *)
(* entries.                                                                *)
GoneTree(t, num, p) ==
    LET U == [Shown(Content(store), num) EXCEPT ![p] = "none"]
    IN  /\ FSLog(t) /\ Tree(Content(t), [num EXCEPT ![p] = 0])
        /\ Shown(Content(t), [num EXCEPT ![p] = 0]) = U

LEMMA RemoveFacts ==
    ASSUME DataHoldsFS, FSInv, NEW num, OnDisk(store, dcache, num),
           NEW p \in Path \ {Root}, Call(p), SafeRemove(p), dcache[p].state = "positive",
           \A k \in 1 .. NDirect : SlotsOf(Content(store), num[p], k) = << >>
    PROVE  GoneTree(UnlinkStore(store, DirNumber(Parent(p)), Name(p), dcache[p].i_ino),
                    num, p)
<1> DEFINE C == Content(store)
           T == Shown(C, num)
           d == num[Parent(p)]
           t == UnlinkStore(store, d, Name(p), num[p])
           new == [num EXCEPT ![p] = 0]
<1>1. FSLog(store) /\ IsDir(Parent(p)) /\ Room(store) >= 4
  BY DEF Call, SafeRemove, FSInv
<1>2. Tree(C, num) /\ Cached(dcache, num, T)
  BY DEF OnDisk
<1>3. ParentIs(d, p)
  BY <1>1, ParentFound
<1>4. dcache[p].i_ino = num[p] /\ T[p] # "none"
  <2> HIDE DEF T
  <2> QED
    BY <1>2 DEF Cached
<1>5. num[p] # 0
  BY <1>2, <1>4, KindFacts
<1>6. num[p] \notin store.logical_entry_bitmap
  BY <1>4 DEF SafeRemove
<1>7. Gone(store, t, num, p)
  BY <1>1, <1>2, <1>5, <1>6, RemovesNode
<1>8. t = UnlinkStore(store, DirNumber(Parent(p)), Name(p), dcache[p].i_ino)
  BY <1>3, <1>4 DEF ParentIs
<1> HIDE DEF t, C
<1>9. PICK i, j : Leaves(C, num, p, i, j, Content(t))
  BY <1>7 DEF Gone, C
<1>10. Tree(Content(t), new) /\ Shown(Content(t), new) = [T EXCEPT ![p] = "none"]
  BY <1>9, LeavesTree
<1> QED
  BY <1>7, <1>8, <1>10 DEF GoneTree, Gone, C

(* The cache after the removal, with or without a change to the parent's   *)
(* link count.                                                             *)
LEMMA RemovedCached ==
    ASSUME NEW C, NEW num, Tree(C, num), Cached(dcache, num, Shown(C, num)),
           NEW p \in Path \ {Root},
           \/ dcache' = Removed(p)
           \/ dcache' = [Removed(p) EXCEPT ![Parent(p)].i_nlink = @ - 1]
    PROVE  Cached(dcache', [num EXCEPT ![p] = 0], [Shown(C, num) EXCEPT ![p] = "none"])
<1> DEFINE T == Shown(C, num)
           q == Parent(p)
           e == Removed(p)
<1>1. /\ q \in Path /\ q # p /\ (q # Root => Parent(q) # p)
  BY PathFacts
<1>2. DOMAIN num = Path /\ DOMAIN T = Path
  BY KindFacts DEF Tree
<1>3. dcache \in [Path -> Dentry]
  BY DEF Cached
<1>4. Negative \in Dentry /\ Agrees(Negative, 0, "none")
  BY DEF Negative, NoDentry, Dentry, Agrees
<1>5. /\ DOMAIN e = Path /\ e = [r \in Path |-> e[r]] /\ e[p] = Negative
      /\ \A r \in Path : r # p => e[r] = (IF r # Root /\ Parent(r) = p THEN Unknown
                               ELSE IF r = q THEN [dcache[r] EXCEPT !.i_size = @ - 1]
                               ELSE dcache[r])
  BY DEF Removed
<1> HIDE DEF T, q, e
<1>6. \A r \in Path : r # p => SameDentry(e[r], dcache[r]) \/ e[r] = Unknown
  <2> SUFFICES ASSUME NEW r \in Path, r # p
               PROVE  SameDentry(e[r], dcache[r]) \/ e[r] = Unknown
    OBVIOUS
  <2>1. dcache[r] \in Dentry
    BY <1>3
  <2>2. SameDentry(dcache[r], dcache[r]) /\ SameDentry([dcache[r] EXCEPT !.i_size = @ - 1], dcache[r])
    BY <2>1, Recounted
  <2> QED
    BY <1>5, <2>2
<1>7. CASE dcache' = e
  BY <1>2, <1>4, <1>5, <1>6, <1>7, CacheChanged DEF T
<1>8. CASE dcache' = [e EXCEPT ![q].i_nlink = @ - 1]
  <2> DEFINE f == [e EXCEPT ![q].i_nlink = @ - 1]
  <2>1. /\ DOMAIN f = Path /\ f = [r \in Path |-> f[r]] /\ f[p] = Negative
        /\ f[q] = [e[q] EXCEPT !.i_nlink = @ - 1]
        /\ \A r \in Path : r # q => f[r] = e[r]
    BY <1>1, <1>5
  <2> HIDE DEF f
  <2>2. SameDentry(f[q], dcache[q])
    <3>1. e[q] = [dcache[q] EXCEPT !.i_size = @ - 1] /\ dcache[q] \in Dentry
      BY <1>1, <1>3, <1>5
    <3>2. SameDentry(e[q], dcache[q])
      BY <3>1, Recounted
    <3>3. e[q] \in Dentry
      BY <3>2 DEF SameDentry
    <3>4. SameDentry(f[q], e[q])
      BY <2>1, <3>3, Recounted
    <3> QED
      BY <3>2, <3>4 DEF SameDentry
  <2>3. \A r \in Path : r # p => SameDentry(f[r], dcache[r]) \/ f[r] = Unknown
    BY <1>6, <2>1, <2>2
  <2>4. dcache' = f
    BY <1>8 DEF f
  <2>5. Agrees(f[p], 0, "none")
    BY <1>4, <2>1
  <2>6. Cached(f, [num EXCEPT ![p] = 0], [T EXCEPT ![p] = "none"])
    BY <1>2, <2>1, <2>3, <2>5, CacheChanged DEF T
  <2> QED
    BY <2>4, <2>6 DEF T
<1> QED
  BY <1>7, <1>8 DEF e, q

LEMMA UnlinkStep ==
    ASSUME DataHoldsFS, FSInv, NEW p \in Path \ {Root}, SafeRemove(p), hodo_unlink(p)
    PROVE  FSInv' /\ TreeStep
<1> PICK num : OnDisk(store, dcache, num)
  BY DEF FSInv
<1> DEFINE C == Content(store)
           T == Shown(C, num)
           new == [num EXCEPT ![p] = 0]
           U == [T EXCEPT ![p] = "none"]
<1>1. /\ Call(p) /\ gc' = gc /\ dcache[p].state = "positive" /\ ~dcache[p].dir
      /\ store' = UnlinkStore(store, DirNumber(Parent(p)), Name(p), dcache[p].i_ino)
      /\ dcache' = Removed(p)
  BY DEF hodo_unlink
<1>2. gc.pc = "idle" /\ gc \in GCState
  BY <1>1 DEF Call, FSInv
<1>3. Tree(C, num) /\ Cached(dcache, num, T)
  BY DEF OnDisk
<1>4. T[p] = "reg" /\ T[p] = KindOf(C, num[p]) /\ num[p] # 0
  <2>1. T[p] = "reg"
    <3> HIDE DEF T
    <3> QED
      BY <1>1, <1>3 DEF Cached
  <2> QED
    BY <1>3, <2>1, KindFacts
<1>5. \A k \in 1 .. NDirect : SlotsOf(C, num[p], k) = << >>
  BY <1>3, <1>4 DEF Tree, NodeOK, SlotsOf, KindOf
<1>6. GoneTree(store', num, p)
  BY <1>1, <1>5, RemoveFacts
<1>7. FSLog(store') /\ Tree(Content(store'), new) /\ Shown(Content(store'), new) = U
  BY <1>6 DEF GoneTree
<1>8. Cached(dcache', new, U)
  BY <1>1, <1>3, RemovedCached
<1> HIDE DEF C, T
<1>9. OnDisk(store', dcache', new)
  BY <1>7, <1>8 DEF OnDisk
<1>10. FSInv' /\ DiskTree(store') = U
  BY <1>1, <1>2, <1>7, <1>9, IdleNext
<1>11. DiskTree(store) = T
  BY TreeNow DEF C, T
<1>12. NS!Step(T, U)
  BY <1>4 DEF NS!Step, NS!Unlink
<1> QED
  BY <1>10, <1>11, <1>12 DEF TreeStep

LEMMA RmdirStep ==
    ASSUME DataHoldsFS, FSInv, NEW p \in Path \ {Root}, SafeRemove(p), hodo_rmdir(p)
    PROVE  FSInv' /\ TreeStep
<1> PICK num : OnDisk(store, dcache, num)
  BY DEF FSInv
<1> DEFINE C == Content(store)
           T == Shown(C, num)
           new == [num EXCEPT ![p] = 0]
           U == [T EXCEPT ![p] = "none"]
<1>1. Call(p) /\ gc' = gc /\ IsDir(p)
  BY DEF hodo_rmdir
<1>2. gc.pc = "idle" /\ gc \in GCState /\ FSLog(store)
  BY <1>1 DEF Call, FSInv
<1>3. Tree(C, num) /\ Cached(dcache, num, T)
  BY DEF OnDisk
<1>4. CASE ~check_directory_empty(store, dcache[p].i_ino)
  <2>1. store' = store /\ dcache' = dcache
    BY <1>4 DEF hodo_rmdir
  <2>2. FSInv'
    BY <1>1, <1>2, <2>1, IdleNext
  <2> QED
    BY <2>1, <2>2 DEF TreeStep
<1>5. CASE check_directory_empty(store, dcache[p].i_ino)
  <2>1. /\ store' = UnlinkStore(store, DirNumber(Parent(p)), Name(p), dcache[p].i_ino)
        /\ dcache' = [Removed(p) EXCEPT ![Parent(p)].i_nlink = @ - 1]
    BY <1>5 DEF hodo_rmdir
  <2>2. T[p] = "dir" /\ dcache[p].i_ino = num[p] /\ dcache[p].state = "positive"
    <3> HIDE DEF T
    <3> QED
      BY <1>1, <1>3 DEF Cached, IsDir
  <2>3. DirAt(C, num[p]) /\ num[p] # 0
    BY <1>3, <2>2, KindFacts
  <2>4. num[p] \in Lbn /\ NodeOK(C, num[p])
    BY <1>3, <2>3 DEF Tree
  <2>5. \A k \in 1 .. NDirect : SlotsOf(C, num[p], k) = << >>
    BY <1>5, <2>2, <2>4, InvReadable, EmptyFound
  <2>6. GoneTree(store', num, p)
    BY <1>1, <2>1, <2>2, <2>5, RemoveFacts
  <2>7. FSLog(store') /\ Tree(Content(store'), new) /\ Shown(Content(store'), new) = U
    BY <2>6 DEF GoneTree
  <2>8. Cached(dcache', new, U)
    BY <1>3, <2>1, RemovedCached
  <2>9. \A q \in Path \ {Root} : Parent(q) = p => T[q] = "none"
    <3> SUFFICES ASSUME NEW q \in Path \ {Root}, Parent(q) = p PROVE num[q] = 0
      BY <1>3, KindFacts
    <3>1. ~HasName(C, num[p], Name(q))
      BY <2>5 DEF HasName, Holds
    <3>2. LinkOK(C, num, q)
      BY <1>3 DEF Tree
    <3> QED
      BY <3>1, <3>2 DEF LinkOK
  <2> HIDE DEF C, T
  <2>10. OnDisk(store', dcache', new)
    BY <2>7, <2>8 DEF OnDisk
  <2>11. FSInv' /\ DiskTree(store') = U
    BY <1>1, <1>2, <2>7, <2>10, IdleNext
  <2>12. DiskTree(store) = T
    BY TreeNow DEF C, T
  <2>13. NS!Rmdir(T, U, p)
    BY <2>2, <2>9 DEF NS!Rmdir, NS!Children
  <2>14. NS!Step(T, U)
    BY <2>13 DEF NS!Step
  <2> QED
    BY <2>11, <2>12, <2>14 DEF TreeStep
<1> QED
  BY <1>4, <1>5

(* A write of mapping_info's log and a reset of one of its zones leave     *)
(* zone file seq/0 alone.                                                  *)
LEMMA SeqZeroKept ==
    ASSUME NEW s
    PROVE  /\ \A buf, n : s.wp.zone_id # 0 => hodo_write_struct(s, buf, n).seq[0] = s.seq[0]
           /\ \A buf, n : s.swap_wp.zone_id # 0
                            => hodo_GC_write_struct(s, buf, n).seq[0] = s.seq[0]
           /\ \A z : z # 0 => zonefs_reset(s, z).seq[0] = s.seq[0]
<1>1. \A at, b : at.zone_id # 0 => zonefs_write(s.seq, at, b)[0] = s.seq[0]
  BY DEF zonefs_write
<1>2. ASSUME NEW buf, NEW n, s.wp.zone_id # 0
      PROVE  hodo_write_struct(s, buf, n).seq[0] = s.seq[0]
  <2>1. ASSUME NEW r, r.seq = s.seq, r.wp = s.wp, NEW k, NEW old
        PROVE  WriteAt(r, buf, k, old).seq[0] = s.seq[0]
    BY <1>1, <1>2, <2>1 DEF WriteAt, Faulted
  <2>2. \A k : /\ hodo_set_logical_bitmap(s, k).seq = s.seq
               /\ hodo_set_logical_bitmap(s, k).wp = s.wp
    BY DEF hodo_set_logical_bitmap
  <2>3. hodo_write_new(s, buf).seq[0] = s.seq[0]
    BY <2>1, <2>2 DEF hodo_write_new
  <2>4. WriteAt(s, buf, n, {s.mapping_table[n]}).seq[0] = s.seq[0]
    BY <2>1
  <2>5. Faulted(s).seq[0] = s.seq[0]
    BY DEF Faulted
  <2> QED
    BY <2>3, <2>4, <2>5 DEF hodo_write_struct
<1>3. ASSUME NEW buf, NEW n, s.swap_wp.zone_id # 0
      PROVE  hodo_GC_write_struct(s, buf, n).seq[0] = s.seq[0]
  BY <1>1, <1>3 DEF hodo_GC_write_struct, Faulted
<1>4. ASSUME NEW z, z # 0 PROVE zonefs_reset(s, z).seq[0] = s.seq[0]
  BY <1>4 DEF zonefs_reset
<1> QED
  BY <1>2, <1>3, <1>4

LEMMA CollectStep ==
    ASSUME DataHoldsFS, FSInv, Collect
    PROVE  /\ FSInv' /\ DiskTree(store') = DiskTree(store)
           /\ gc.pc # "idle"
<1> PICK num : OnDisk(store, dcache, num)
  BY DEF FSInv
<1>1. gc.pc # "idle" /\ RunGC /\ dcache' = dcache
  BY DEF Collect, RunGC, GCStep, GCSwapIn, GCScanDone, GCResetFront, GCSwapOut,
         GCSwapOutDone, GCResetSwap, GCClear, GCReturn
<1>2. IndInv /\ store.seq[0] = << >>
  BY <1>1 DEF FSInv
<1>3. IndInv' /\ Content(store') = Content(store)
  BY <1>1, <1>2, CollectorInd
<1>4. store'.seq[0] = << >>
  <2>1. /\ store.wp.zone_id # 0 /\ SwapZone # 0 /\ store.swap_wp.zone_id # 0
        /\ gc.pc = "clear" => gc.out # 0
    <3>1. store.swap_wp.zone_id = SwapZone /\ SwapZone # 0
      BY <1>1, <1>2, Geometry DEF IndInv, CollectInv
    <3>2. store.wp.zone_id # 0
      BY <1>2, StateFacts
    <3>3. gc.pc = "clear" => gc.out # 0
      <4>1. gc.pc = "clear" => gc.out >= ClearStart(store.wp)
        BY <1>2 DEF IndInv, ClearInv
      <4>2. /\ store.wp.zone_id \in 1 .. SwapZone /\ gc.out \in Nat
            /\ ClearStart(store.wp) \in {store.wp.zone_id, store.wp.zone_id + 1}
        BY <1>2, StateFacts
      <4> QED
        BY <4>1, <4>2, Geometry
    <3> QED
      BY <3>1, <3>2, <3>3
  <2>2. CASE GCSwapIn
    BY <1>2, <2>1, <2>2, SeqZeroKept DEF GCSwapIn
  <2>3. CASE GCScanDone \/ GCSwapOutDone \/ GCReturn
    BY <1>2, <2>3 DEF GCScanDone, GCSwapOutDone, GCReturn
  <2>4. CASE GCResetFront
    BY <1>2, <2>1, <2>4, SeqZeroKept DEF GCResetFront
  <2>5. CASE GCSwapOut
    BY <1>2, <2>1, <2>5, SeqZeroKept DEF GCSwapOut
  <2>6. CASE GCResetSwap
    <3>1. zonefs_reset(store, SwapZone).seq[0] = store.seq[0]
      BY <2>1, SeqZeroKept
    <3>2. store \in Store
      BY <1>2, StateFacts
    <3> DEFINE z == zonefs_reset(store, SwapZone)
    <3>3. [z EXCEPT !.swap_wp.block_index = 0].seq = z.seq
      BY <3>2 DEF zonefs_reset, Store
    <3>4. store'.seq = z.seq
      BY <2>6, <3>3 DEF GCResetSwap
    <3> QED
      BY <1>2, <3>1, <3>4
  <2>7. CASE GCClear
    BY <1>2, <2>1, <2>7, SeqZeroKept DEF GCClear
  <2> QED
    BY <1>1, <2>2, <2>3, <2>4, <2>5, <2>6, <2>7 DEF RunGC, GCStep
<1>5. gc' \in GCState /\ store' \in Store /\ Live(store')
  BY <1>3 DEF IndInv, TypeOK
<1>6. gc'.pc = "idle" => FSLog(store')
  <2> SUFFICES ASSUME gc'.pc = "idle" PROVE FSLog(store')
    OBVIOUS
  <2>1. LogOK(store')
    BY <1>3 DEF LogOK, IndInv, TypeOK, NoFault, IdleInv, Store
  <2> QED
    BY <1>4, <2>1, LogOKIsFSLog
<1>7. OnDisk(store', dcache', num)
  BY <1>1, <1>3 DEF OnDisk
<1>8. FSInv'
  BY <1>3, <1>4, <1>5, <1>6, <1>7 DEF FSInv
<1>9. DiskTree(store') = DiskTree(store)
  <2>1. Readable(store')
    BY <1>5, LiveReadableStore
  <2>2. Tree(Content(store'), num)
    BY <1>7 DEF OnDisk
  <2> QED
    BY <1>3, <2>1, <2>2, TreeShown, TreeNow
<1> QED
  BY <1>1, <1>8, <1>9

(* hodo_init: a log with the root's inode, and nothing else to find. *)
LEMMA FSInitInv ==
    ASSUME DataHoldsFS, FSInit
    PROVE  FSInv /\ DiskTree(store) = NS!Empty
<1> DEFINE s == FormattedStore
           n == hodo_get_next_logical_number(s)
           d == Inode("dir", 0, 1)
           C == Content(store)
           num == [p \in Path |-> IF p = Root THEN starting_logical_number ELSE 0]
           T == Shown(C, num)
<1>1. /\ s.mapping_table = [m \in Lbn |-> Pos(0, 0)] /\ s.logical_entry_bitmap = {}
      /\ s.GC_bitmap = {} /\ s.wp = Pos(1, 0) /\ s.fault = FALSE
      /\ s.seq = [z \in SeqFiles |-> << >>]
  BY DEF FormattedStore
<1>2. s \in Store
  <2>1. [z \in SeqFiles |-> << >>] \in [SeqFiles -> Seq(Buffer)]
    OBVIOUS
  <2>2. [m \in Lbn |-> Pos(0, 0)] \in [Lbn -> BlockPos]
    BY Geometry DEF Pos, BlockPos, ZoneId, BlockIndex
  <2> QED
    BY <2>1, <2>2, Geometry DEF FormattedStore, Store
<1> HIDE DEF s
<1>3. s.wp.zone_id = 1 /\ s.wp.block_index = 0 /\ Mapped(s) = {}
  BY <1>1 DEF Pos, Mapped
<1>4. Live(s) /\ Content(s) = [m \in Lbn |-> Nil]
  BY <1>1, <1>3 DEF Live, Content
<1>5. \A z \in SeqFiles : Len(s.seq[z]) = 0
  BY <1>1
<1>6. Layout(s)
  BY <1>3, <1>5, ZoneFacts, Geometry DEF Layout
<1>7. FSLog(s)
  <2>1. s.seq[0] = << >>
    BY <1>1, Geometry DEF SeqFiles
  <2>2. LogOK(s)
    BY <1>1, <1>2, <1>4, <1>5, <1>6, ZoneFacts DEF LogOK
  <2> QED
    BY <2>1, <2>2, LogOKIsFSLog
<1>8. Room(s) >= 1
  <2>1. Room(s) = (SwapZone - 1) * BlocksPerZone - 0
    BY <1>3 DEF Room
  <2>2. SwapZone - 1 \in Nat /\ SwapZone - 1 >= 1 /\ BlocksPerZone \in Nat /\ BlocksPerZone >= 2
    BY Geometry
  <2>3. \A x, y \in Nat : x >= 1 /\ y >= 2 => x * y >= 1
    OBVIOUS
  <2> QED
    BY <2>1, <2>2, <2>3
<1>9. n = starting_logical_number
  <2>1. FreeEntries(s) = Entry
    BY <1>1 DEF FreeEntries
  <2>2. 0 \in Entry /\ \A j \in Entry : 0 <= j
    BY Geometry DEF Entry, NEntries
  <2> DEFINE i == CHOOSE i \in Entry : \A j \in Entry : i <= j
  <2>3. n = starting_logical_number + i
    BY <2>1, <2>2 DEF hodo_get_next_logical_number
  <2>4. i \in Entry /\ \A j \in Entry : i <= j
    BY <2>2
  <2> HIDE DEF i
  <2>5. i = 0
    BY <2>2, <2>4 DEF Entry
  <2> QED
    BY <2>3, <2>5, Geometry DEF starting_logical_number
<1>10. d \in InodeData /\ d \in Data
  <2>1. d \in InodeData
    BY DEF Inode, InodeData
  <2> QED
    BY <2>1, NodeNotNil
<1>11. store = NewInodeStore(s, d) /\ gc = GCIdle
  BY DEF FSInit, s
<1> HIDE DEF n
<1>12. FSLog(store) /\ n \in Lbn /\ C = With(Content(s), n, d)
  BY <1>7, <1>8, <1>10, <1>11, InodeWritten DEF n
<1>13. C[n] = d /\ d.kind = "dir" /\ \A k \in 1 .. NDirect : d.direct[k] = 0
  BY <1>4, <1>12 DEF With, Inode
<1> HIDE DEF C
<1>14. \A k \in 1 .. NDirect : SlotsOf(C, n, k) = << >>
  BY <1>13 DEF SlotsOf
<1>15. \A x : ~HasName(C, n, x)
  BY <1>14 DEF HasName, Holds
<1>16. Root \in Path /\ num[Root] = n
       /\ \A p \in Path : num[p] = (IF p = Root THEN n ELSE 0)
  BY <1>9, PathFacts
<1>17. n # 0 /\ DirAt(C, n)
  BY <1>12, <1>13, Geometry DEF DirAt
<1>18. Tree(C, num)
  <2>1. num \in [Path -> Lbn \cup {0}] /\ num[Root] = starting_logical_number
    BY <1>9, <1>12, <1>16
  <2> HIDE DEF num
  <2>2. NodeOK(C, n)
    BY <1>10, <1>13, <1>14 DEF NodeOK
  <2>3. ASSUME NEW q \in Path \ {Root} PROVE LinkOK(C, num, q)
    <3>1. num[q] = 0 /\ num[Parent(q)] \in {n, 0}
      BY <1>16, PathFacts
    <3> QED
      BY <1>14, <3>1 DEF LinkOK, DirAt
  <2>4. Apart(C, num)
    BY <1>13, <1>16, <1>17 DEF Apart
  <2>5. \A p \in Path : CountOK(C, num, p)
    <3>1. NamesOf(C, n) = {}
      BY <1>15 DEF NamesOf
    <3>2. IsFiniteSet({}) /\ Cardinality({}) = 0
      BY FS_EmptySet
    <3>3. d.file_len = 0
      BY DEF Inode
    <3>4. Cardinality(NamesOf(C, n)) = 0 /\ IsFiniteSet(NamesOf(C, n)) /\ C[n].file_len = 0
      BY <1>13, <3>1, <3>2, <3>3
    <3> SUFFICES ASSUME NEW p \in Path PROVE CountOK(C, num, p)
      OBVIOUS
    <3>5. CASE p = Root
      <4>1. num[p] = n
        BY <1>16, <3>5
      <4> QED
        BY <3>4, <3>5, <4>1 DEF CountOK
    <3>6. CASE p # Root
      <4>1. num[p] = 0
        BY <1>16, <3>6
      <4> QED
        BY <4>1 DEF CountOK, DirAt
    <3> QED
      BY <3>5, <3>6
  <2> QED
    BY <1>16, <1>17, <2>1, <2>2, <2>3, <2>4, <2>5 DEF Tree
<1>19. T = NS!Empty
  BY <1>13, <1>16, <1>17 DEF Shown, KindOf, NS!Empty
<1>20. Cached(dcache, num, T)
  <2> DEFINE x == Positive(NZones, TRUE, TRUE, 3, 3)
  <2>1. dcache = [p \in Path |-> IF p = Root THEN x ELSE Unknown]
    BY DEF FSInit
  <2>2. NZones \in Int /\ TRUE \in BOOLEAN /\ 3 \in Int
    BY Geometry
  <2>3. PositiveIs(x, NZones, TRUE)
    BY ONLY <2>2, PositiveType
  <2>4. Unknown \in Dentry /\ Unknown.state = "unknown"
    BY DEF Unknown, NoDentry, Dentry
  <2>5. T[Root] = "dir"
    BY <1>19, PathFacts DEF NS!Empty
  <2>6. num[Root] = NZones
    BY <1>9, <1>16 DEF starting_logical_number
  <2> HIDE DEF x, T, num
  <2> QED
    BY <2>1, <2>3, <2>4, <2>5, <2>6 DEF Cached, PositiveIs
<1>21. gc \in GCState /\ gc.pc = "idle"
  <2>1. 0 \in OutRange
    BY Geometry DEF OutRange
  <2>2. ZeroBlock(Nil) \in Buffer
    BY DEF ZeroBlock, Buffer
  <2> QED
    BY <1>11, <2>1, <2>2, Geometry DEF GCIdle, GCState
<1>22. OnDisk(store, dcache, num)
  BY <1>18, <1>20 DEF OnDisk, C
<1>23. FSInv
  BY <1>12, <1>21, <1>22 DEF FSInv, FSLog
<1> QED
  BY <1>19, <1>22, <1>23, TreeNow DEF C

--------------------------------------------------------------------------------
(* The theorems *)

LEMMA FSStepInv ==
    ASSUME DataHoldsFS, FSInv, [SafeFSNext]_fsvars
    PROVE  /\ FSInv' /\ TreeStep
           /\ gc' # gc /\ gc.pc # "idle" => DiskTree(store') = DiskTree(store)
<1>1. ASSUME NEW p \in Path \ {Root},
             \/ Lookup(p)
             \/ Forget(p)
             \/ SafeMake(p) /\ hodo_create(p)
             \/ SafeMake(p) /\ NoStaleBit(store) /\ hodo_mkdir(p) /\ NoSolidZone(store')
             \/ SafeRemove(p) /\ hodo_unlink(p)
             \/ SafeRemove(p) /\ hodo_rmdir(p)
      PROVE  FSInv' /\ TreeStep /\ gc.pc = "idle"
  <2>1. FSInv' /\ TreeStep
    BY <1>1, LookupStep, ForgetStep, CreateStep, MkdirStep, UnlinkStep, RmdirStep
  <2>2. gc.pc = "idle"
    BY <1>1 DEF Lookup, Forget, hodo_create, hodo_mkdir, hodo_unlink, hodo_rmdir, Call
  <2> QED
    BY <2>1, <2>2
<1>2. CASE Collect
  BY <1>2, CollectStep DEF TreeStep
<1>3. CASE UNCHANGED fsvars
  <2>1. store' = store /\ gc' = gc /\ dcache' = dcache
    BY <1>3 DEF fsvars
  <2>2. FSInv'
    <3>1. IndInv => IndInv'
      BY <2>1 DEF IndInv, TypeOK, NoFault, IdleInv, CollectInv, ScanInv, ResetInv, OutInv,
                  SwapCount, DrainInv, ClearInv
    <3> QED
      BY <2>1, <3>1 DEF FSInv
  <2> QED
    BY <2>1, <2>2 DEF TreeStep
<1> QED
  BY <1>1, <1>2, <1>3 DEF SafeFSNext

(* In the envelope, in every state: the log is in order, what the numbers  *)
(* read as is a tree, and the dentry cache agrees with it. The hypothesis  *)
(* says that blocks can hold hodo_inodes and dirents.                      *)
THEOREM FSInductive ==
    ASSUME DataHoldsFS
    PROVE  SafeFSSpec => []FSInv
<1>1. FSInit => FSInv
  BY FSInitInv
<1>2. FSInv /\ [SafeFSNext]_fsvars => FSInv'
  BY FSStepInv
<1> QED
  BY <1>1, <1>2, PTL DEF SafeFSSpec

(* hodo_sub_lookup, hodo_create, hodo_mkdir, hodo_unlink and hodo_rmdir    *)
(* leave no dentry that says something else than the device: the cached    *)
(* number and kind are those a walk from the root would find.              *)
THEOREM DcacheTheorem ==
    ASSUME DataHoldsFS
    PROVE  SafeFSSpec => []DcacheCoherent
<1>1. FSInv => DcacheCoherent
  BY InvCoherent
<1> QED
  BY <1>1, FSInductive, PTL

(* read_all_dirents, over the blocks add_dirent and remove_dirent rewrote, *)
(* shows every entry once and nothing else, and file_len counts them.      *)
THEOREM ListingTheorem ==
    ASSUME DataHoldsFS
    PROVE  SafeFSSpec => []ListingExact
<1>1. FSInv => ListingExact
  BY InvListing
<1> QED
  BY <1>1, FSInductive, PTL

(* No two inodes of the tree, and no inode and dirent block, were given    *)
(* the same number by hodo_get_next_logical_number.                        *)
THEOREM DistinctTheorem ==
    ASSUME DataHoldsFS
    PROVE  SafeFSSpec => []NumbersDistinct
<1>1. FSInv => NumbersDistinct
  BY InvDistinct
<1> QED
  BY <1>1, FSInductive, PTL

(* GC() moves inodes and dirent blocks and changes no path.                *)
THEOREM GCKeepsTreeTheorem ==
    ASSUME DataHoldsFS
    PROVE  SafeFSSpec => GCKeepsTree
<1>1. FSInv /\ [SafeFSNext]_fsvars
        => [gc' # gc /\ gc.pc # "idle" => DiskTree(store') = DiskTree(store)]_fsvars
  BY FSStepInv
<1> QED
  BY <1>1, FSInductive, PTL DEF SafeFSSpec, GCKeepsTree

(* The directory operations implement Namespace: the device holds a tree   *)
(* that starts empty and that each create, mkdir, unlink and rmdir changes *)
(* at its own path and nowhere else, and every other step leaves alone.    *)
THEOREM NamespaceTheorem ==
    ASSUME DataHoldsFS
    PROVE  SafeFSSpec => ImplementsNamespace
<1>1. FSInit => DiskTree(store) = NS!Empty
  BY FSInitInv
<1>2. FSInv /\ [SafeFSNext]_fsvars
        => [\A t \in {DiskTree(store)}, u \in {DiskTree(store')} :
              t = u \/ NS!Step(t, u)]_fsvars
  <2> SUFFICES ASSUME FSInv, [SafeFSNext]_fsvars
               PROVE  \A t \in {DiskTree(store)}, u \in {DiskTree(store')} :
                         t = u \/ NS!Step(t, u)
    OBVIOUS
  <2>1. TreeStep
    BY FSStepInv
  <2> QED
    BY <2>1 DEF TreeStep
<1> QED
  BY <1>1, <1>2, FSInductive, PTL DEF SafeFSSpec, ImplementsNamespace

================================================================================
