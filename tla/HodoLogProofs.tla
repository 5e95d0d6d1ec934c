----------------------------- MODULE HodoLogProofs -----------------------------
(***************************************************************************)
(* Theorems about HodoLog, for every geometry and every set of contents:   *)
(* types, the clients' steps and every step of GC() keep IndInv, and       *)
(* collections are invisible.                                              *)
(***************************************************************************)
EXTENDS HodoLog, WellFoundedInduction, FiniteSetTheorems, TLAPS

--------------------------------------------------------------------------------
(* Geometry and the types of the operators *)

(* The facts about the constants that the later proofs use. *)
LEMMA Geometry ==
    /\ NZones \in Nat /\ NZones >= 4 /\ BlocksPerZone \in Nat /\ BlocksPerZone >= 2
    /\ SwapZone \in Nat /\ SwapZone = NZones - 2
    /\ NEntries \in Nat
    /\ 0 \notin Lbn /\ NoNumber \notin Lbn /\ Lbn \subseteq Nat
    /\ Pos(1, 0) \in BlockPos /\ Pos(SwapZone, 0) \in BlockPos
<1> USE GeometryAssumption
<1>1. NEntries \in Nat
  BY DEF NEntries
<1> QED
  BY <1>1 DEF SwapZone, Lbn, starting_logical_number, NoNumber, Pos, BlockPos,
              ZoneId, BlockIndex

(* Position arithmetic stays within the device. *)
LEMMA AdvancedType ==
    ASSUME NEW p \in BlockPos
    PROVE  Advanced(p) \in BlockPos
BY GeometryAssumption DEF Advanced, BlockPos, ZoneId, BlockIndex, SeqFiles, Pos

LEMMA BufferFields ==
    ASSUME NEW b \in Buffer
    PROVE  /\ b.lbn \in Lbn \cup {0}
           /\ \A n \in Lbn : Stamped(b, n) \in Buffer
BY DEF Buffer, Stamped

(* A read gives a buffer. *)
LEMMA ReadType ==
    ASSUME NEW s \in Store, NEW p \in BlockPos, NEW buf \in Buffer
    PROVE  hodo_GC_read_struct(s, p, buf) \in Buffer
<1>1. CASE Written(s, p)
  <2>1. p.zone_id \in SeqFiles /\ p.block_index \in Nat
        /\ p.block_index < Len(s.seq[p.zone_id])
    BY <1>1, GeometryAssumption DEF Written, BlockPos, BlockIndex
  <2>2. s.seq[p.zone_id] \in Seq(Buffer)
    BY <2>1 DEF Store
  <2>3. s.seq[p.zone_id][p.block_index + 1] \in Buffer
    BY <2>1, <2>2
  <2> QED
    BY <1>1, <2>3 DEF hodo_GC_read_struct
<1>2. CASE ~Written(s, p)
  BY <1>2 DEF hodo_GC_read_struct
<1> QED
  BY <1>1, <1>2

(* An accepted or refused device write keeps the zone files typed. *)
LEMMA DeviceWriteType ==
    ASSUME NEW seq \in [SeqFiles -> Seq(Buffer)], NEW at \in BlockPos, NEW b \in Buffer
    PROVE  zonefs_write(seq, at, b) \in [SeqFiles -> Seq(Buffer)]
BY DEF zonefs_write

LEMMA ResetType ==
    ASSUME NEW s \in Store, NEW z
    PROVE  zonefs_reset(s, z) \in Store
<1>1. CASE z \in SeqFiles
  <2>1. [s.seq EXCEPT ![z] = << >>] \in [SeqFiles -> Seq(Buffer)]
    BY <1>1 DEF Store
  <2>2. zonefs_reset(s, z) = [s EXCEPT !.seq = [s.seq EXCEPT ![z] = << >>]]
    BY <1>1 DEF zonefs_reset
  <2> QED
    BY <2>1, <2>2 DEF Store
<1>2. CASE z \notin SeqFiles
  BY <1>2 DEF zonefs_reset
<1> QED
  BY <1>1, <1>2

LEMMA FaultedType ==
    ASSUME NEW s \in Store
    PROVE  Faulted(s) \in Store
BY DEF Faulted, Store

LEMMA WriteAtType ==
    ASSUME NEW s \in Store, NEW buf \in Buffer, NEW n, NEW old
    PROVE  WriteAt(s, buf, n, old) \in Store
<1>1. CASE n \in Lbn
  <2>1. s.wp \in BlockPos /\ Advanced(s.wp) \in BlockPos
    BY AdvancedType DEF Store
  <2>2. zonefs_write(s.seq, s.wp, Stamped(buf, n)) \in [SeqFiles -> Seq(Buffer)]
    BY <1>1, <2>1, BufferFields, DeviceWriteType DEF Store
  <2> QED
    BY <1>1, <2>1, <2>2 DEF WriteAt, Store
<1>2. CASE n \notin Lbn
  BY <1>2, FaultedType DEF WriteAt
<1> QED
  BY <1>1, <1>2

LEMMA GCWriteType ==
    ASSUME NEW s \in Store, NEW buf \in Buffer, NEW n
    PROVE  hodo_GC_write_struct(s, buf, n) \in Store
<1>1. CASE n \in Lbn
  <2>1. s.swap_wp \in BlockPos
    BY DEF Store
  <2>2. zonefs_write(s.seq, s.swap_wp, buf) \in [SeqFiles -> Seq(Buffer)]
    BY <2>1, DeviceWriteType DEF Store
  <2>3. s.swap_wp.block_index # BlocksPerZone - 1
          => Pos(s.swap_wp.zone_id, s.swap_wp.block_index + 1) \in BlockPos
    BY <2>1, GeometryAssumption DEF BlockPos, BlockIndex, Pos
  <2> QED
    BY <1>1, <2>1, <2>2, <2>3 DEF hodo_GC_write_struct, Store
<1>2. CASE n \notin Lbn
  BY <1>2, FaultedType DEF hodo_GC_write_struct
<1> QED
  BY <1>1, <1>2

(* A non-empty set of naturals has a least element. *)
LEMMA LeastNat ==
    ASSUME NEW S \in SUBSET Nat, S # {}
    PROVE  \E m \in S : \A k \in S : m <= k
<1>1. PICK m \in S : \A k \in S : ~(<<k, m>> \in OpToRel(<, Nat))
  BY WFMin, NatLessThanWellFounded
<1>2. \A k \in S : ~(k < m)
  BY <1>1 DEF OpToRel
<1> QED
  BY <1>2

(* hodo_get_next_GC_valid returns {0,0} or the first valid position of the *)
(* data zones from the zone of wp on.                                      *)
LEMMA NextValid ==
    ASSUME NEW s \in Store, s.wp.zone_id # 0
    PROVE  LET v == hodo_get_next_GC_valid(s)
           IN  /\ v \in BlockPos
               /\ v.zone_id = 0 => ValidFrom(s) = {}
               /\ v.zone_id # 0 => /\ v \in ValidFrom(s)
                                   /\ \A q \in ValidFrom(s) : Before(v, q)
<1> DEFINE V == ValidFrom(s)
<1>1. V \subseteq BlockPos /\ \A p \in V : p.zone_id # 0
  BY Geometry DEF ValidFrom, Store, BlockPos, ZoneId
<1>2. CASE V = {}
  BY <1>2, Geometry DEF hodo_get_next_GC_valid, Pos, BlockPos, ZoneId, BlockIndex
<1>3. CASE V # {}
  <2>1. PICK z \in {p.zone_id : p \in V} : \A y \in {p.zone_id : p \in V} : z <= y
    <3>1. {p.zone_id : p \in V} \subseteq Nat
      BY <1>1, Geometry DEF BlockPos, ZoneId
    <3>2. {p.zone_id : p \in V} # {}
      BY <1>3
    <3> QED
      BY <3>1, <3>2, LeastNat
  <2> DEFINE R == {p.block_index : p \in {q \in V : q.zone_id = z}}
  <2>2. PICK b \in R : \A c \in R : b <= c
    <3>1. R \subseteq Nat
      BY <1>1, Geometry DEF BlockPos, BlockIndex
    <3>2. R # {}
      BY <2>1
    <3> QED
      BY <3>1, <3>2, LeastNat
  <2>3. PICK p \in V : p.zone_id = z /\ p.block_index = b
    BY <2>2
  <2>4. ASSUME NEW q \in V PROVE Before(p, q)
    <3>1. z <= q.zone_id /\ (q.zone_id = z => b <= q.block_index)
      BY <2>1, <2>2
    <3>2. z \in Nat /\ q.zone_id \in Nat
      BY <1>1, <2>3, Geometry DEF BlockPos, ZoneId
    <3> QED
      BY <2>3, <3>1, <3>2 DEF Before
  <2>5. hodo_get_next_GC_valid(s) = CHOOSE r \in V : \A q \in V : Before(r, q)
    BY <1>3 DEF hodo_get_next_GC_valid
  <2> HIDE DEF V
  <2>6. /\ hodo_get_next_GC_valid(s) \in V
        /\ \A q \in V : Before(hodo_get_next_GC_valid(s), q)
    BY <2>3, <2>4, <2>5, Zenon
  <2>7. hodo_get_next_GC_valid(s) \in BlockPos /\ hodo_get_next_GC_valid(s).zone_id # 0
    BY <1>1, <2>6
  <2> USE DEF V
  <2> QED
    BY <2>6, <2>7
<1> QED
  BY <1>2, <1>3

(* hodo_get_next_logical_number returns the number of a free entry, or -1  *)
(* when there is none.                                                     *)
LEMMA NextNumber ==
    ASSUME NEW s \in Store
    PROVE  LET n == hodo_get_next_logical_number(s)
           IN  \/ n = NoNumber /\ FreeEntries(s) = {}
               \/ /\ n \in Lbn
                  /\ n - starting_logical_number \in Entry \ s.logical_entry_bitmap
<1> DEFINE F == FreeEntries(s)
           i == CHOOSE i \in F : \A j \in F : i <= j
<1>1. CASE F = {}
  BY <1>1 DEF hodo_get_next_logical_number
<1>2. CASE F # {}
  <2>1. F \subseteq Nat
    BY Geometry DEF FreeEntries, Entry
  <2>2. \E k \in F : \A j \in F : k <= j
    BY <1>2, <2>1, LeastNat
  <2>3. hodo_get_next_logical_number(s) = starting_logical_number + i
    BY <1>2 DEF hodo_get_next_logical_number
  <2> HIDE DEF F
  <2>4. i \in F
    BY <2>2
  <2> HIDE DEF i
  <2> USE DEF F
  <2>5. i \in Entry \ s.logical_entry_bitmap
    BY <2>4 DEF FreeEntries
  <2> QED
    BY <2>3, <2>5, Geometry DEF Entry, Lbn, starting_logical_number
<1> QED
  BY <1>1, <1>2

LEMMA TakeNumberType ==
    ASSUME NEW s \in Store, NEW n, n = NoNumber \/ n - starting_logical_number \in Entry
    PROVE  hodo_set_logical_bitmap(s, n) \in Store
BY DEF hodo_set_logical_bitmap, Store

LEMMA WriteType ==
    ASSUME NEW s \in Store, NEW buf \in Buffer, NEW n
    PROVE  hodo_write_struct(s, buf, n) \in Store
<1>1. hodo_write_new(s, buf) \in Store
  BY NextNumber, TakeNumberType, WriteAtType DEF hodo_write_new
<1> QED
  BY <1>1, FaultedType, WriteAtType DEF hodo_write_struct

(* The write pointer never returns to zone 0, where no block may go. *)
LEMMA WriteLeavesZoneZero ==
    ASSUME NEW s \in Store, NEW buf \in Buffer, NEW n, s.wp.zone_id # 0
    PROVE  hodo_write_struct(s, buf, n).wp.zone_id # 0
<1>0. \A p \in BlockPos : p.zone_id # 0 => Advanced(p).zone_id # 0
  BY Geometry DEF BlockPos, ZoneId, Advanced, Pos
<1>1. \A r \in Store : \A m, old : r.wp.zone_id # 0 => WriteAt(r, buf, m, old).wp.zone_id # 0
  BY <1>0 DEF WriteAt, Faulted, Store
<1>2. hodo_write_new(s, buf).wp.zone_id # 0
  <2> DEFINE k == hodo_get_next_logical_number(s)
             r == hodo_set_logical_bitmap(s, k)
  <2>1. r \in Store
    BY NextNumber, TakeNumberType
  <2>2. r.wp = s.wp
    BY DEF hodo_set_logical_bitmap, Store
  <2> QED
    BY <1>1, <2>1, <2>2 DEF hodo_write_new
<1> QED
  BY <1>1, <1>2 DEF hodo_write_struct, Faulted, Store

LEMMA NewInodeType ==
    ASSUME NEW s \in Store, NEW d \in Data, s.wp.zone_id # 0
    PROVE  NewInodeStore(s, d) \in Store /\ NewInodeStore(s, d).wp.zone_id # 0
<1> DEFINE n == hodo_get_next_logical_number(s)
           r == hodo_set_logical_bitmap(s, n)
           b == MkBlock("INO", n, d)
<1>1. r \in Store /\ r.wp = s.wp
  BY NextNumber, TakeNumberType DEF hodo_set_logical_bitmap, Store
<1>2. CASE n \in Lbn
  <2>1. b \in Buffer
    BY <1>2 DEF MkBlock, Buffer
  <2> QED
    BY <1>1, <2>1, WriteType, WriteLeavesZoneZero DEF NewInodeStore
<1>3. CASE n = NoNumber
  <2>1. NewInodeStore(s, d) = Faulted(r)
    BY <1>3, Geometry DEF NewInodeStore, hodo_write_struct, NEW_DATABLOCK, NoNumber
  <2> QED
    BY <1>1, <2>1, FaultedType DEF Faulted, Store
<1> QED
  BY <1>2, <1>3, NextNumber

--------------------------------------------------------------------------------
(* Type correctness *)

TypeInv == TypeOK /\ store.wp.zone_id # 0

LEMMA IdleType == GCIdle \in GCState
BY Geometry DEF GCIdle, GCState, ZeroBlock, Buffer, OutRange

LEMMA InitType == Init => TypeInv
<1> SUFFICES ASSUME Init PROVE TypeInv
  OBVIOUS
<1>1. PICK d \in Data : store = NewInodeStore(FormattedStore, d)
  BY DEF Init
<1>2. FormattedStore \in Store /\ FormattedStore.wp.zone_id # 0
  <2>1. [z \in SeqFiles |-> << >>] \in [SeqFiles -> Seq(Buffer)]
    OBVIOUS
  <2>2. [n \in Lbn |-> Pos(0, 0)] \in [Lbn -> BlockPos]
    BY Geometry DEF Pos, BlockPos, ZoneId, BlockIndex
  <2> QED
    BY <2>1, <2>2, Geometry DEF FormattedStore, Store, Pos
<1> QED
  BY <1>1, <1>2, IdleType, NewInodeType DEF Init, TypeInv, TypeOK

LEMMA ClientType == TypeInv /\ ClientNext => TypeInv'
<1> SUFFICES ASSUME TypeInv, ClientNext PROVE TypeInv'
  OBVIOUS
<1> USE DEF TypeInv, TypeOK
<1>1. PICK d \in Data : \/ NewInode(d)
                        \/ NewData(d)
                        \/ \E n \in Mapped(store) : Update(n, d)
  BY DEF ClientNext
<1>2. CASE NewInode(d)
  BY <1>2, NewInodeType DEF NewInode
<1>3. CASE NewData(d)
  <2>1. MkBlock("DAT", 0, d) \in Buffer
    BY DEF MkBlock, Buffer
  <2> QED
    BY <1>3, <2>1, WriteType, WriteLeavesZoneZero DEF NewData
<1>4. CASE \E n \in Mapped(store) : Update(n, d)
  <2>1. PICK n \in Lbn : Update(n, d)
    BY <1>4 DEF Mapped
  <2> DEFINE old == hodo_read_struct(store, n, ZeroBlock(Nil))
  <2>2. ZeroBlock(Nil) \in Buffer
    BY DEF ZeroBlock, Buffer
  <2>3. old \in Buffer
    BY <2>2, ReadType DEF hodo_read_struct, Store
  <2>4. [old EXCEPT !.data = d] \in Buffer
    BY <2>3 DEF Buffer
  <2> QED
    BY <2>1, <2>4, WriteType, WriteLeavesZoneZero DEF Update
<1> QED
  BY <1>1, <1>2, <1>3, <1>4

LEMMA GCWriteKeepsWp ==
    ASSUME NEW s \in Store, NEW buf, NEW n
    PROVE  hodo_GC_write_struct(s, buf, n).wp = s.wp
BY DEF hodo_GC_write_struct, Faulted, Store

LEMMA ClearStartType ==
    ASSUME NEW p \in BlockPos
    PROVE  ClearStart(p) \in OutRange
BY Geometry DEF ClearStart, BlockPos, ZoneId, OutRange

LEMMA OutBounds ==
    /\ 0 \in OutRange /\ OutRange \subseteq Nat
    /\ \A i \in OutRange : i < BlocksPerZone \/ i < NZones => i + 1 \in OutRange
BY Geometry DEF OutRange

LEMMA CollectorType == TypeInv /\ (CallGC \/ RunGC) => TypeInv'
<1> SUFFICES ASSUME TypeInv, CallGC \/ RunGC PROVE TypeInv'
  OBVIOUS
<1> USE DEF TypeInv, TypeOK
<1>0. /\ store.wp \in BlockPos /\ store.swap_wp \in BlockPos
      /\ gc.out \in Nat /\ gc.prev_wp \in BlockPos /\ gc.temp \in Buffer
      /\ gc.full \in BOOLEAN
  BY OutBounds DEF Store, GCState
<1>1. CASE GCBegin
  <2>1. GCRewound(store) \in Store /\ GCRewound(store).wp.zone_id # 0
    <3>1. GCRewound(store) \in Store /\ GCRewound(store).wp = Pos(1, 0)
      BY Geometry DEF GCRewound, Store
    <3> QED
      BY <3>1 DEF Pos
  <2>2. GCCalled(store) \in GCState
    BY <1>0, IdleType DEF GCCalled, GCState
  <2> QED
    BY <1>1, <2>1, <2>2 DEF GCBegin
<1>2. CASE GCSwapIn
  <2> DEFINE v == hodo_get_next_GC_valid(store)
             b == hodo_GC_read_struct(store, v, gc.temp)
             s == hodo_GC_write_struct(store, b, b.lbn)
             full == s.swap_wp.block_index >= BlocksPerZone - 1
  <2>1. b \in Buffer
    BY <1>0, NextValid, ReadType
  <2>2. s \in Store /\ s.wp = store.wp
    BY <2>1, GCWriteType, GCWriteKeepsWp
  <2>3. store' = s /\ gc' = [gc EXCEPT !.pc = IF full THEN "reset" ELSE "scan",
                                       !.full = full, !.out = 0, !.temp = b]
    BY <1>2 DEF GCSwapIn
  <2>4. full \in BOOLEAN
    OBVIOUS
  <2> HIDE DEF b, s, full
  <2>5. gc' \in GCState
    BY <2>1, <2>3, <2>4, OutBounds DEF GCState
  <2> QED
    BY <2>2, <2>3, <2>5
<1>3. CASE GCScanDone
  <2>1. ClearStart(store.wp) \in OutRange
    BY <1>0, ClearStartType
  <2>2. gc' \in GCState
    BY <1>3, <2>1, OutBounds DEF GCScanDone, GCState
  <2> QED
    BY <1>3, <2>2 DEF GCScanDone
<1>4. CASE GCResetFront
  <2>1. zonefs_reset(store, store.wp.zone_id).wp = store.wp
    BY DEF zonefs_reset, Store
  <2> QED
    BY <1>4, <2>1, ResetType DEF GCResetFront, GCState
<1>5. CASE GCSwapOut
  <2> DEFINE b == hodo_GC_read_struct(store, Pos(SwapZone, gc.out), gc.temp)
  <2>1. gc.out < BlocksPerZone
    BY <1>0, <1>5, Geometry DEF GCSwapOut, SwapOutLimit, BlockPos, BlockIndex
  <2>2. Pos(SwapZone, gc.out) \in BlockPos
    BY <1>0, <2>1, Geometry DEF Pos, BlockPos, ZoneId, BlockIndex
  <2>3. b \in Buffer
    BY <1>0, <2>2, ReadType
  <2>3a. gc.out + 1 \in OutRange
    BY <2>1, OutBounds DEF GCState
  <2>4. store' = hodo_write_struct(store, b, b.lbn)
        /\ gc' = [gc EXCEPT !.out = @ + 1, !.temp = b]
    BY <1>5 DEF GCSwapOut
  <2> HIDE DEF b
  <2>5. store' \in Store /\ store'.wp.zone_id # 0
    BY <2>3, <2>4, WriteType, WriteLeavesZoneZero
  <2>6. gc' \in GCState
    BY <2>3, <2>3a, <2>4 DEF GCState
  <2> QED
    BY <2>5, <2>6
<1>6. CASE GCSwapOutDone
  BY <1>6 DEF GCSwapOutDone, GCState
<1>7. CASE GCResetSwap
  <2> DEFINE r == zonefs_reset(store, SwapZone)
  <2>1. r \in Store /\ r.wp = store.wp
    BY ResetType DEF zonefs_reset, Store
  <2> HIDE DEF r
  <2>1a. [r.swap_wp EXCEPT !.block_index = 0] \in BlockPos
    <3>1. r.swap_wp \in BlockPos /\ 0 \in BlockIndex
      BY <2>1, Geometry DEF Store, BlockIndex
    <3> QED
      BY <3>1 DEF BlockPos
  <2>1b. [r EXCEPT !.swap_wp.block_index = 0]
            = [r EXCEPT !.swap_wp = [r.swap_wp EXCEPT !.block_index = 0]]
    OBVIOUS
  <2>2. [r EXCEPT !.swap_wp.block_index = 0] \in Store
        /\ [r EXCEPT !.swap_wp.block_index = 0].wp = store.wp
    BY <2>1, <2>1a, <2>1b DEF Store
  <2>3. store' \in Store /\ store'.wp = store.wp
    BY <1>7, <2>1, <2>2 DEF GCResetSwap, r
  <2>3a. ClearStart(store.wp) \in OutRange
    BY <1>0, ClearStartType
  <2>4. gc' \in GCState
    BY <1>7, <2>3a DEF GCResetSwap, GCState
  <2> QED
    BY <2>3, <2>4
<1>8. CASE GCClear
  <2>1. zonefs_reset(store, gc.out).wp = store.wp
    BY DEF zonefs_reset, Store
  <2>2. gc.out + 1 \in OutRange
    <3>1. gc.out < NZones
      BY <1>0, <1>8, Geometry DEF GCClear, BlockPos, ZoneId
    <3> QED
      BY <3>1, OutBounds DEF GCState
  <2> QED
    BY <1>8, <2>1, <2>2, ResetType DEF GCClear, GCState
<1>9. CASE GCReturn
  BY <1>9, IdleType DEF GCReturn
<1> QED
  BY <1>1, <1>2, <1>3, <1>4, <1>5, <1>6, <1>7, <1>8, <1>9 DEF CallGC, RunGC, GCStep

(* Every behaviour of the code keeps the types of mapping_info, of the     *)
(* zone files and of the collector's locals, also when the device is full  *)
(* or the collector has lost a block: the write pointer stops at the first *)
(* zone that has no file instead of running out of GC_bitmap.              *)
THEOREM TypeCorrect == Spec => []TypeOK
<1>1. Init => TypeInv
  BY InitType
<1>2. TypeInv /\ [Next]_vars => TypeInv'
  <2>1. TypeInv /\ UNCHANGED vars => TypeInv'
    BY DEF TypeInv, TypeOK, vars, gcvars
  <2> QED
    BY <2>1, ClientType, CollectorType DEF Next
<1>3. TypeInv => TypeOK
  BY DEF TypeInv
<1> QED
  BY <1>1, <1>2, <1>3, PTL DEF Spec

--------------------------------------------------------------------------------
(* Two ways a store changes *)

(* Table, bitmaps and zone files are those of s. *)
SameBlocks(s, t) ==
    /\ t.mapping_table = s.mapping_table
    /\ t.logical_entry_bitmap = s.logical_entry_bitmap
    /\ t.GC_bitmap = s.GC_bitmap
    /\ t.seq = s.seq

(* Block b is appended at position p under number n. *)
Appended(s, t, n, p, b) ==
    /\ t.mapping_table = [s.mapping_table EXCEPT ![n] = p]
    /\ t.logical_entry_bitmap = s.logical_entry_bitmap \cup {n - starting_logical_number}
    /\ t.GC_bitmap = (s.GC_bitmap \cup {p}) \ {s.mapping_table[n]}
    /\ t.seq = [s.seq EXCEPT ![p.zone_id] = Append(@, b)]

(* The zone files alone. *)
SeqAppended(s, t, p, b) == t.seq = [s.seq EXCEPT ![p.zone_id] = Append(@, b)]

(* Can block b be appended at p under number n? *)
CanAppend(s, n, p, b) ==
    /\ n \in Lbn /\ b \in Buffer /\ b.lbn = n
    /\ p \in BlockPos /\ p.zone_id \in 1 .. SwapZone
    /\ p.block_index = Len(s.seq[p.zone_id])

LEMMA ZoneFacts ==
    /\ 1 .. SwapZone \subseteq SeqFiles /\ SwapZone \in SeqFiles
    /\ \A z \in SeqFiles : z # 0 => z \in 1 .. SwapZone
    /\ \A p \in BlockPos : p.zone_id \in Nat /\ p.block_index \in Nat
                           /\ p.block_index < BlocksPerZone
                           /\ p = Pos(p.zone_id, p.block_index)
BY Geometry DEF SeqFiles, BlockPos, ZoneId, BlockIndex, Pos

LEMMA SameLive ==
    ASSUME NEW s \in Store, NEW t \in Store, Live(s), SameBlocks(s, t)
    PROVE  Live(t) /\ Content(t) = Content(s)
BY DEF SameBlocks, Live, Content, Mapped, Written, BlockAt

(* The invariant of the data structures, and what numbers read as, under   *)
(* an append: every write of hodo is one.                                  *)
LEMMA AppendLive ==
    ASSUME NEW s \in Store, NEW t \in Store, NEW n, NEW p, NEW b,
           Live(s), CanAppend(s, n, p, b), Appended(s, t, n, p, b)
    PROVE  /\ Live(t)
           /\ Mapped(t) = Mapped(s) \cup {n}
           /\ Content(t) = [Content(s) EXCEPT ![n] = b.data]
<1> DEFINE T == s.mapping_table
           z == p.zone_id
<1>0. /\ n \in Lbn /\ b \in Buffer /\ b.lbn = n /\ p \in BlockPos
      /\ z \in SeqFiles /\ z # 0
      /\ p.block_index = Len(s.seq[z])
  BY ZoneFacts, Geometry DEF CanAppend
<1>1. /\ T \in [Lbn -> BlockPos] /\ s.seq \in [SeqFiles -> Seq(Buffer)]
      /\ s.GC_bitmap \subseteq BlockPos
  BY DEF Store
<1>2. /\ t.mapping_table[n] = p
      /\ \A m \in Lbn : m # n => t.mapping_table[m] = T[m]
  BY <1>0, <1>1 DEF Appended
<1>3. Mapped(t) = Mapped(s) \cup {n}
  BY <1>0, <1>2 DEF Mapped
<1>4. /\ t.seq[z] = Append(s.seq[z], b)
      /\ \A y \in SeqFiles : y # z => t.seq[y] = s.seq[y]
  BY <1>0, <1>1 DEF Appended
<1>5. /\ Len(t.seq[z]) = Len(s.seq[z]) + 1
      /\ t.seq[z][Len(s.seq[z]) + 1] = b
      /\ \A i \in 1 .. Len(s.seq[z]) : t.seq[z][i] = s.seq[z][i]
  BY <1>0, <1>1, <1>4
<1>6. Written(t, p) /\ BlockAt(t, p) = b
  BY <1>0, <1>1, <1>5 DEF Written, BlockAt
<1>7. ASSUME NEW q \in BlockPos, Written(s, q)
      PROVE  Written(t, q) /\ BlockAt(t, q) = BlockAt(s, q) /\ q # p
  <2>1. q.zone_id \in SeqFiles /\ q.block_index < Len(s.seq[q.zone_id])
        /\ q.block_index \in Nat
    BY <1>7, ZoneFacts DEF Written
  <2>2. q # p
    BY <1>0, <1>1, <2>1
  <2>3. CASE q.zone_id = z
    <3>1. Len(s.seq[z]) \in Nat
      BY <1>0, <1>1
    <3>2. q.block_index + 1 \in 1 .. Len(s.seq[z])
      BY <2>1, <2>3, <3>1
    <3>3. t.seq[z][q.block_index + 1] = s.seq[z][q.block_index + 1]
      BY <1>5, <3>2
    <3>4. q.block_index < Len(t.seq[z])
      BY <1>5, <2>1, <2>3, <3>1
    <3> QED
      BY <1>0, <2>2, <2>3, <3>3, <3>4 DEF Written, BlockAt
  <2>4. CASE q.zone_id # z
    BY <1>4, <2>1, <2>2, <2>4 DEF Written, BlockAt
  <2> QED
    BY <2>3, <2>4
<1>8. \A m \in Mapped(s) : m \in Lbn /\ T[m] \in BlockPos /\ Written(s, T[m])
        /\ T[m] \in s.GC_bitmap /\ BlockAt(s, T[m]).lbn = m
  BY <1>1 DEF Live, Mapped
<1>9. Live(t)
  <2>1. \A m \in Lbn : m \in Mapped(t)
          <=> m - starting_logical_number \in t.logical_entry_bitmap
    <3>1. \A m \in Lbn : m - starting_logical_number = n - starting_logical_number => m = n
      BY <1>0, Geometry DEF Lbn, starting_logical_number
    <3> QED
      BY <1>0, <1>3, <3>1 DEF Live, Appended
  <2>2. \A m \in Mapped(s) : m # n => T[m] # T[n]
    <3>1. CASE n \in Mapped(s)
      BY <3>1 DEF Live
    <3>2. CASE n \notin Mapped(s)
      BY <1>0, <3>2 DEF Mapped
    <3> QED
      BY <3>1, <3>2
  <2>3. T[n] # p
    <3>1. CASE n \in Mapped(s)
      BY <1>7, <1>8, <3>1
    <3>2. CASE n \notin Mapped(s)
      BY <1>0, <3>2 DEF Mapped
    <3> QED
      BY <3>1, <3>2
  <2>4. ASSUME NEW m \in Mapped(t)
        PROVE  /\ t.mapping_table[m] \in t.GC_bitmap
               /\ Written(t, t.mapping_table[m])
               /\ BlockAt(t, t.mapping_table[m]).lbn = m
    <3>1. CASE m = n
      BY <1>0, <1>2, <1>6, <2>3, <3>1 DEF Appended
    <3>2. CASE m # n
      <4>1. m \in Mapped(s) /\ t.mapping_table[m] = T[m]
        BY <1>2, <1>3, <1>8, <3>2
      <4> QED
        BY <1>7, <1>8, <2>2, <3>2, <4>1 DEF Appended
    <3> QED
      BY <3>1, <3>2
  <2>5. ASSUME NEW q \in t.GC_bitmap
        PROVE  \E m \in Mapped(t) : t.mapping_table[m] = q
    <3>1. CASE q = p
      BY <1>2, <1>3, <3>1
    <3>2. CASE q # p
      <4>1. q \in s.GC_bitmap /\ q # T[n]
        BY <3>2 DEF Appended
      <4>2. PICK m \in Mapped(s) : T[m] = q
        BY <4>1 DEF Live
      <4> QED
        BY <1>2, <1>3, <1>8, <4>1, <4>2
    <3> QED
      BY <3>1, <3>2
  <2>6. ASSUME NEW m \in Mapped(t), NEW k \in Mapped(t),
               t.mapping_table[m] = t.mapping_table[k]
        PROVE  m = k
    <3>1. \A j \in Mapped(s) : T[j] # p
      BY <1>7, <1>8
    <3>2. \A i, j \in Mapped(s) : T[i] = T[j] => i = j
      BY DEF Live
    <3> QED
      BY <1>2, <1>3, <1>8, <2>6, <3>1, <3>2
  <2> QED
    BY <2>1, <2>4, <2>5, <2>6 DEF Live
<1>10. Content(t) = [Content(s) EXCEPT ![n] = b.data]
  <2>1. ASSUME NEW m \in Lbn
        PROVE  Content(t)[m] = IF m = n THEN b.data ELSE Content(s)[m]
    <3>1. CASE m = n
      BY <1>0, <1>2, <1>3, <1>6, <3>1 DEF Content
    <3>2. CASE m # n /\ m \in Mapped(s)
      BY <1>2, <1>3, <1>7, <1>8, <3>2 DEF Content
    <3>3. CASE m # n /\ m \notin Mapped(s)
      BY <1>3, <3>3 DEF Content
    <3> QED
      BY <3>1, <3>2, <3>3
  <2>2. Content(t) = [m \in Lbn |-> Content(t)[m]]
        /\ Content(s) = [m \in Lbn |-> Content(s)[m]]
    BY DEF Content
  <2> QED
    BY <2>1, <2>2
<1> QED
  BY <1>3, <1>9, <1>10

(* ... and under the reset of a zone in which no block is valid. *)
LEMMA ResetLive ==
    ASSUME NEW s \in Store, NEW t \in Store, NEW z \in SeqFiles,
           Live(s), SameBlocks(zonefs_reset(s, z), t),
           \A p \in s.GC_bitmap : p.zone_id # z
    PROVE  /\ Live(t) /\ Content(t) = Content(s)
           /\ Len(t.seq[z]) = 0 /\ \A y \in SeqFiles : y # z => t.seq[y] = s.seq[y]
<1>0. t.mapping_table = s.mapping_table /\ t.GC_bitmap = s.GC_bitmap
      /\ t.logical_entry_bitmap = s.logical_entry_bitmap
      /\ t.seq = [s.seq EXCEPT ![z] = << >>]
  BY DEF zonefs_reset, SameBlocks, Store
<1>1. s.mapping_table \in [Lbn -> BlockPos] /\ s.seq \in [SeqFiles -> Seq(Buffer)]
  BY DEF Store
<1>2. Len(t.seq[z]) = 0 /\ \A y \in SeqFiles : y # z => t.seq[y] = s.seq[y]
  BY <1>0, <1>1
<1>3. Mapped(t) = Mapped(s)
  BY <1>0 DEF Mapped
<1>4. ASSUME NEW n \in Mapped(s)
      PROVE  LET p == s.mapping_table[n]
             IN  /\ Written(s, p) /\ Written(t, p)
                 /\ BlockAt(t, p) = BlockAt(s, p)
  <2>1. s.mapping_table[n].zone_id # z /\ Written(s, s.mapping_table[n])
    BY DEF Live
  <2> QED
    BY <1>2, <2>1 DEF Written, BlockAt
<1>5. Live(t)
  BY <1>0, <1>3, <1>4 DEF Live
<1>6. Content(t) = Content(s)
  BY <1>0, <1>3, <1>4 DEF Content
<1> QED
  BY <1>2, <1>5, <1>6

(* Numbers, bits, positions and blocks agree, as far as reading goes. *)
Linked(s) ==
    /\ \A n \in Lbn : n \in Mapped(s)
          <=> n - starting_logical_number \in s.logical_entry_bitmap
    /\ \A n \in Mapped(s) : Written(s, s.mapping_table[n])
    /\ \A m, n \in Mapped(s) : s.mapping_table[m] = s.mapping_table[n] => m = n

(* Numbers last as long as the device: there are as many as there are      *)
(* positions, mapped numbers have positions of their own, and none of      *)
(* these is in zone 0.                                                     *)
LEMMA LinkedNumbersLast ==
    ASSUME NEW s \in Store, Linked(s)
    PROVE  hodo_get_next_logical_number(s) \in Lbn \ Mapped(s)
<1> DEFINE n == hodo_get_next_logical_number(s)
           T == s.mapping_table
           P == (ZoneId \X BlockIndex) \ {<<0, 0>>}
           f == [m \in Lbn |-> <<T[m].zone_id, T[m].block_index>>]
<1>1. CASE n \in Lbn /\ n - starting_logical_number \notin s.logical_entry_bitmap
  BY <1>1 DEF Linked
<1>2. CASE FreeEntries(s) = {}
  <2>1. T \in [Lbn -> BlockPos]
    BY DEF Store
  <2>2. \A m \in Lbn : m \in Mapped(s)
    <3>1. \A m \in Lbn : m - starting_logical_number \in Entry
      BY Geometry DEF Lbn, Entry, starting_logical_number
    <3> QED
      BY <1>2, <3>1 DEF Linked, FreeEntries
  <2>3. f \in [Lbn -> P]
    <3>1. \A m \in Lbn : T[m].zone_id \in ZoneId \ {0} /\ T[m].block_index \in BlockIndex
      BY <2>1, <2>2 DEF Mapped, BlockPos
    <3> QED
      BY <3>1
  <2>4. IsFiniteSet(Lbn) /\ Cardinality(Lbn) = NEntries
    <3>1. starting_logical_number \in Int /\ NEntries \in Int /\ NEntries >= 1
      BY GeometryAssumption DEF starting_logical_number, NEntries
    <3> QED
      BY <3>1, FS_Interval DEF Lbn
  <2>5. /\ IsFiniteSet(ZoneId) /\ Cardinality(ZoneId) = NZones
        /\ IsFiniteSet(BlockIndex) /\ Cardinality(BlockIndex) = BlocksPerZone
    <3>1. NZones - 1 \in Int /\ BlocksPerZone - 1 \in Int /\ 0 \in Int
          /\ ~(0 > NZones - 1) /\ NZones - 1 - 0 + 1 = NZones
          /\ ~(0 > BlocksPerZone - 1) /\ BlocksPerZone - 1 - 0 + 1 = BlocksPerZone
      BY Geometry
    <3>2. IsFiniteSet(ZoneId) /\ Cardinality(ZoneId) = NZones
      BY <3>1, FS_Interval DEF ZoneId
    <3>3. IsFiniteSet(BlockIndex) /\ Cardinality(BlockIndex) = BlocksPerZone
      BY <3>1, FS_Interval DEF BlockIndex
    <3> QED
      BY <3>2, <3>3
  <2>6. IsFiniteSet(ZoneId \X BlockIndex) /\ Cardinality(ZoneId \X BlockIndex) = NEntries
    BY <2>5, FS_Product DEF NEntries
  <2>7. <<0, 0>> \in ZoneId \X BlockIndex
    BY Geometry DEF ZoneId, BlockIndex
  <2>8. IsFiniteSet(P) /\ Cardinality(P) = NEntries - 1
    BY <2>6, <2>7, FS_RemoveElement
  <2>9. Cardinality(P) < Cardinality(Lbn)
    BY <2>4, <2>8, Geometry
  <2> HIDE DEF P, f
  <2>10. PICK x, y \in Lbn : x # y /\ f[x] = f[y]
    BY <2>3, <2>4, <2>8, <2>9, FS_PigeonHole
  <2> USE DEF f
  <2>11. T[x] = T[y]
    BY <2>1, <2>10 DEF BlockPos
  <2> QED
    BY <2>2, <2>10, <2>11 DEF Linked
<1> QED
  BY <1>1, <1>2, NextNumber

LEMMA NumbersLast ==
    ASSUME NEW s \in Store, Live(s)
    PROVE  hodo_get_next_logical_number(s) \in Lbn \ Mapped(s)
BY LinkedNumbersLast DEF Live, Linked

--------------------------------------------------------------------------------
(* What the operations of MappingInfo do to a store, as appends *)

(* hodo_write_struct under a number in use. *)
LEMMA RewriteFields ==
    ASSUME NEW s \in Store, NEW buf \in Buffer, NEW n \in Mapped(s),
           Live(s), buf.lbn = n, Layout(s), s.wp.zone_id < SwapZone,
           Len(s.seq[s.wp.zone_id]) = s.wp.block_index
    PROVE  LET t == hodo_write_struct(s, buf, n)
           IN  /\ CanAppend(s, n, s.wp, buf) /\ Appended(s, t, n, s.wp, buf)
               /\ t.wp = Advanced(s.wp) /\ t.swap_wp = s.swap_wp /\ t.fault = s.fault
<1>1. n \in Lbn /\ n # NEW_DATABLOCK
  BY Geometry DEF Mapped, NEW_DATABLOCK
<1>2. s.wp \in BlockPos /\ s.wp.zone_id \in SeqFiles
  BY ZoneFacts DEF Layout, Store
<1>3. Stamped(buf, n) = buf
  BY DEF Stamped, Buffer
<1>4. n - starting_logical_number \in s.logical_entry_bitmap
  BY <1>1 DEF Live
<1>5. hodo_write_struct(s, buf, n) = WriteAt(s, buf, n, {s.mapping_table[n]})
  BY <1>1 DEF hodo_write_struct
<1>6. zonefs_write(s.seq, s.wp, buf) = [s.seq EXCEPT ![s.wp.zone_id] = Append(@, buf)]
  BY <1>2 DEF zonefs_write
<1>7. CanAppend(s, n, s.wp, buf)
  BY <1>1, <1>2 DEF CanAppend, Layout
<1> QED
  BY <1>1, <1>3, <1>4, <1>5, <1>6, <1>7 DEF WriteAt, Appended, Store

(* hodo_write_struct under a number that was just taken. *)
LEMMA FreshFields ==
    ASSUME NEW s \in Store, NEW buf \in Buffer, NEW n \in Lbn \ Mapped(s),
           NEW old \in {{}, {s.mapping_table[n]}},
           Live(s), Stamped(buf, n).lbn = n, Layout(s), s.wp.zone_id < SwapZone,
           Len(s.seq[s.wp.zone_id]) = s.wp.block_index
    PROVE  LET t == WriteAt(hodo_set_logical_bitmap(s, n), buf, n, old)
               b == Stamped(buf, n)
           IN  /\ CanAppend(s, n, s.wp, b) /\ Appended(s, t, n, s.wp, b)
               /\ t.wp = Advanced(s.wp) /\ t.swap_wp = s.swap_wp /\ t.fault = s.fault
<1> DEFINE r == hodo_set_logical_bitmap(s, n)
           b == Stamped(buf, n)
<1>1. /\ r = [s EXCEPT !.logical_entry_bitmap = @ \cup {n - starting_logical_number}]
      /\ r.mapping_table = s.mapping_table /\ r.GC_bitmap = s.GC_bitmap
      /\ r.wp = s.wp /\ r.swap_wp = s.swap_wp /\ r.seq = s.seq /\ r.fault = s.fault
      /\ r.logical_entry_bitmap
            = s.logical_entry_bitmap \cup {n - starting_logical_number}
  BY Geometry DEF hodo_set_logical_bitmap, Store
<1>2. s.wp \in BlockPos /\ s.wp.zone_id \in SeqFiles /\ b \in Buffer
  BY ZoneFacts, BufferFields DEF Layout, Store
<1>3. s.mapping_table[n] \notin s.GC_bitmap \cup {s.wp}
  <2>1. s.mapping_table[n].zone_id = 0
    BY DEF Mapped
  <2>2. \A p \in s.GC_bitmap : p.zone_id # 0
    BY DEF Live, Mapped
  <2> QED
    BY <2>1, <2>2 DEF Layout
<1>4. (s.GC_bitmap \cup {s.wp}) \ old = (s.GC_bitmap \cup {s.wp}) \ {s.mapping_table[n]}
  BY <1>3
<1>5. zonefs_write(s.seq, s.wp, b) = [s.seq EXCEPT ![s.wp.zone_id] = Append(@, b)]
  BY <1>2 DEF zonefs_write
<1>6. CanAppend(s, n, s.wp, b)
  BY <1>2 DEF CanAppend, Layout
<1>7. r \in Store
  <2>1. n - starting_logical_number \in Entry
    BY Geometry DEF Entry, Lbn, starting_logical_number
  <2> QED
    BY <2>1, TakeNumberType
<1> HIDE DEF r, b
<1>8. LET t == WriteAt(r, buf, n, old)
      IN  /\ t.mapping_table = [r.mapping_table EXCEPT ![n] = r.wp]
          /\ t.logical_entry_bitmap = r.logical_entry_bitmap
          /\ t.GC_bitmap = (r.GC_bitmap \cup {r.wp}) \ old
          /\ t.wp = Advanced(r.wp) /\ t.swap_wp = r.swap_wp /\ t.fault = r.fault
          /\ t.seq = zonefs_write(r.seq, r.wp, Stamped(buf, n))
  BY <1>7 DEF WriteAt, Store
<1> QED
  BY <1>1, <1>4, <1>5, <1>6, <1>8 DEF Appended, r, b

(* hodo_GC_write_struct. *)
LEMMA GCWriteFields ==
    ASSUME NEW s \in Store, NEW buf \in Buffer, NEW n \in Mapped(s),
           Live(s), buf.lbn = n,
           s.swap_wp.zone_id = SwapZone, s.swap_wp.block_index < BlocksPerZone - 1,
           Len(s.seq[SwapZone]) = s.swap_wp.block_index
    PROVE  LET t == hodo_GC_write_struct(s, buf, n)
           IN  /\ CanAppend(s, n, s.swap_wp, buf) /\ Appended(s, t, n, s.swap_wp, buf)
               /\ t.swap_wp = Pos(SwapZone, s.swap_wp.block_index + 1)
               /\ t.wp = s.wp /\ t.fault = s.fault
<1>1. n \in Lbn /\ s.swap_wp \in BlockPos /\ SwapZone \in SeqFiles
      /\ SwapZone \in 1 .. SwapZone
  BY ZoneFacts, Geometry DEF Mapped, Store
<1>2. n - starting_logical_number \in s.logical_entry_bitmap
  BY <1>1 DEF Live
<1>3. zonefs_write(s.seq, s.swap_wp, buf)
        = [s.seq EXCEPT ![SwapZone] = Append(@, buf)]
  BY <1>1 DEF zonefs_write
<1>4. CanAppend(s, n, s.swap_wp, buf)
  BY <1>1 DEF CanAppend
<1>5. s.swap_wp.block_index # BlocksPerZone - 1
  BY <1>1, ZoneFacts, Geometry
<1> QED
  BY <1>1, <1>2, <1>3, <1>4, <1>5 DEF hodo_GC_write_struct, Appended, Store

--------------------------------------------------------------------------------
(* The log under a client's write *)

(* An append at wp keeps the shape of the log and leaves wp behind it. *)
LEMMA AppendLayout ==
    ASSUME NEW s \in Store, NEW t \in Store, NEW b,
           Layout(s), s.wp.zone_id < SwapZone,
           Len(s.seq[s.wp.zone_id]) = s.wp.block_index,
           SeqAppended(s, t, s.wp, b), t.wp = Advanced(s.wp)
    PROVE  /\ Layout(t)
           /\ t.wp = IF s.wp.block_index = BlocksPerZone - 1
                     THEN Pos(s.wp.zone_id + 1, 0)
                     ELSE Pos(s.wp.zone_id, s.wp.block_index + 1)
           /\ Len(t.seq[s.wp.zone_id]) = s.wp.block_index + 1
           /\ \A y \in SeqFiles : y # s.wp.zone_id => t.seq[y] = s.seq[y]
           /\ ClearStart(s.wp) \in {s.wp.zone_id, s.wp.zone_id + 1}
           /\ ClearStart(t.wp) = s.wp.zone_id + 1
<1> DEFINE z == s.wp.zone_id
           i == s.wp.block_index
<1>1. s.wp \in BlockPos /\ z \in 1 .. SwapZone /\ z \in SeqFiles /\ z \in Nat /\ i \in Nat
      /\ i < BlocksPerZone
  BY ZoneFacts DEF Layout, Store
<1>2. /\ t.seq[z] = Append(s.seq[z], b)
      /\ \A y \in SeqFiles : y # z => t.seq[y] = s.seq[y]
  BY <1>1 DEF SeqAppended, Store
<1>3. Len(t.seq[z]) = i + 1
  BY <1>1, <1>2 DEF Store
<1>4. t.wp = IF i = BlocksPerZone - 1 THEN Pos(z + 1, 0) ELSE Pos(z, i + 1)
  BY <1>1 DEF Advanced
<1>5. /\ i = BlocksPerZone - 1 => t.wp.zone_id = z + 1 /\ t.wp.block_index = 0
      /\ i # BlocksPerZone - 1 => t.wp.zone_id = z /\ t.wp.block_index = i + 1
  BY <1>4 DEF Pos
<1>6. /\ ClearStart(s.wp) \in {z, z + 1}
      /\ ClearStart(t.wp) = z + 1
  BY <1>1, <1>5, Geometry DEF ClearStart
<1>7. Layout(t)
  <2>1. \A y \in 1 .. SwapZone : y < t.wp.zone_id => Len(t.seq[y]) = BlocksPerZone
    <3> SUFFICES ASSUME NEW y \in 1 .. SwapZone, y < t.wp.zone_id
                 PROVE  Len(t.seq[y]) = BlocksPerZone
      OBVIOUS
    <3>1. CASE y = z
      <4>1. i = BlocksPerZone - 1
        BY <1>1, <1>5, <3>1
      <4> QED
        BY <1>3, <3>1, <4>1, Geometry
    <3>2. CASE y # z
      BY <1>1, <1>2, <1>5, <3>2, ZoneFacts, Geometry DEF Layout
    <3> QED
      BY <3>1, <3>2
  <2>2. t.wp.block_index # 0 => Len(t.seq[t.wp.zone_id]) = t.wp.block_index
    BY <1>3, <1>5
  <2> QED
    BY <1>1, <1>5, <2>1, <2>2, Geometry DEF Layout
<1> QED
  BY <1>2, <1>3, <1>4, <1>6, <1>7

(* Outside a collection wp is where zonefs will take the next block. *)
LEMMA IdleWp ==
    ASSUME IndInv, gc.pc = "idle"
    PROVE  Len(store.seq[store.wp.zone_id]) = store.wp.block_index
BY Geometry DEF IndInv, IdleInv, Layout, ClearStart

LEMMA ClientAppend ==
    ASSUME IndInv, gc.pc = "idle", HasRoom(store), UNCHANGED gc, store' \in Store,
           NEW n, NEW b, CanAppend(store, n, store.wp, b),
           Appended(store, store', n, store.wp, b), store'.wp = Advanced(store.wp),
           store'.fault = store.fault
    PROVE  IndInv' /\ Content(store') = [Content(store) EXCEPT ![n] = b.data]
<1>1. store \in Store /\ Live(store) /\ Layout(store) /\ store.wp.zone_id < SwapZone
  BY DEF IndInv, TypeOK, HasRoom
<1>2. Live(store') /\ Content(store') = [Content(store) EXCEPT ![n] = b.data]
  BY <1>1, AppendLive
<1>6. SeqAppended(store, store', store.wp, b)
  BY DEF Appended, SeqAppended
<1>3. /\ Layout(store')
      /\ \A y \in SeqFiles : y # store.wp.zone_id => store'.seq[y] = store.seq[y]
      /\ ClearStart(store.wp) \in {store.wp.zone_id, store.wp.zone_id + 1}
      /\ ClearStart(store'.wp) = store.wp.zone_id + 1
  BY <1>1, <1>6, IdleWp, AppendLayout
<1>4. IdleInv'
  <2>1. store.wp.zone_id \in Nat
    BY <1>1, Geometry DEF Layout
  <2>2. \A z \in 1 .. SwapZone : z >= ClearStart(store.wp) => Len(store.seq[z]) = 0
    BY DEF IndInv, IdleInv
  <2>3. \A z \in 1 .. SwapZone : z >= ClearStart(store'.wp) => Len(store'.seq[z]) = 0
    BY <1>3, <2>1, <2>2, ZoneFacts, Geometry
  <2> QED
    BY <2>3 DEF IdleInv
<1>5. TypeOK' /\ NoFault'
  BY DEF IndInv, TypeOK, NoFault
<1> QED
  BY <1>2, <1>3, <1>4, <1>5 DEF IndInv

(* An inode written under a number that was just taken is an append. *)
LEMMA NewInodeFields ==
    ASSUME NEW s \in Store, NEW d \in Data, Live(s), Layout(s),
           s.wp.zone_id < SwapZone,
           Len(s.seq[s.wp.zone_id]) = s.wp.block_index
    PROVE  LET n == hodo_get_next_logical_number(s)
               t == NewInodeStore(s, d)
               b == MkBlock("INO", n, d)
           IN  /\ CanAppend(s, n, s.wp, b) /\ Appended(s, t, n, s.wp, b)
               /\ t.wp = Advanced(s.wp) /\ t.fault = s.fault /\ b.data = d
<1> DEFINE n == hodo_get_next_logical_number(s)
           r == hodo_set_logical_bitmap(s, n)
           b == MkBlock("INO", n, d)
<1>1. n \in Lbn \ Mapped(s) /\ n # NEW_DATABLOCK /\ n # NoNumber
  BY NumbersLast, Geometry DEF NEW_DATABLOCK
<1>2. b \in Buffer /\ Stamped(b, n) = b /\ b.lbn = n /\ b.data = d
  BY <1>1 DEF MkBlock, Buffer, Stamped
<1>3. r.mapping_table = s.mapping_table
  BY <1>1 DEF hodo_set_logical_bitmap, Store
<1>4. NewInodeStore(s, d) = WriteAt(r, b, n, {s.mapping_table[n]})
  BY <1>1, <1>3 DEF NewInodeStore, hodo_write_struct
<1> HIDE DEF n, b
<1> QED
  BY <1>1, <1>2, <1>4, FreshFields DEF n, b

(* A write of a client keeps the invariant and gives one number content. *)
LEMMA ClientInd ==
    ASSUME IndInv, HasRoom(store), ClientNext
    PROVE  /\ IndInv'
           /\ \E n \in Lbn, d \in Data :
                 Content(store') = [Content(store) EXCEPT ![n] = d]
<1>1. PICK d \in Data : \/ NewInode(d)
                        \/ NewData(d)
                        \/ \E n \in Mapped(store) : Update(n, d)
  BY DEF ClientNext
<1>2. /\ store \in Store /\ Live(store) /\ Layout(store) /\ store.wp.zone_id < SwapZone
      /\ gc.pc = "idle" /\ UNCHANGED gc
  BY <1>1 DEF IndInv, TypeOK, HasRoom, NewInode, NewData, Update
<1>3. store.wp.zone_id # 0 /\ Len(store.seq[store.wp.zone_id]) = store.wp.block_index
  BY <1>2, IdleWp, Geometry DEF Layout
<1>4. store' \in Store
  <2>1. TypeInv
    BY <1>3 DEF IndInv, TypeInv
  <2> QED
    BY <2>1, ClientType DEF TypeInv, TypeOK
<1>5. CASE NewInode(d)
  <2> DEFINE n == hodo_get_next_logical_number(store)
             b == MkBlock("INO", n, d)
  <2>1. store' = NewInodeStore(store, d)
    BY <1>5 DEF NewInode
  <2>2. /\ CanAppend(store, n, store.wp, b) /\ Appended(store, store', n, store.wp, b)
        /\ store'.wp = Advanced(store.wp) /\ store'.fault = store.fault /\ b.data = d
    BY <1>2, <1>3, <2>1, NewInodeFields
  <2>3. n \in Lbn
    BY <2>2 DEF CanAppend
  <2> HIDE DEF n, b
  <2> QED
    BY <1>2, <1>4, <2>2, <2>3, ClientAppend
<1>6. CASE NewData(d)
  <2> DEFINE n == hodo_get_next_logical_number(store)
             r == hodo_set_logical_bitmap(store, n)
             buf == MkBlock("DAT", 0, d)
             b == Stamped(buf, n)
  <2>1. store' = WriteAt(r, buf, n, {})
    BY <1>6 DEF NewData, hodo_write_struct, hodo_write_new
  <2>2. n \in Lbn /\ n \in Lbn \ Mapped(store)
    BY <1>2, NumbersLast
  <2>3. buf \in Buffer /\ b.lbn = n /\ b.data = d
    BY DEF MkBlock, Buffer, Stamped
  <2> HIDE DEF n, buf
  <2>4. /\ CanAppend(store, n, store.wp, b) /\ Appended(store, store', n, store.wp, b)
        /\ store'.wp = Advanced(store.wp) /\ store'.fault = store.fault
    BY <1>2, <1>3, <2>1, <2>2, <2>3, FreshFields
  <2> HIDE DEF b
  <2> QED
    BY <1>2, <1>4, <2>2, <2>3, <2>4, ClientAppend
<1>7. CASE \E n \in Mapped(store) : Update(n, d)
  <2>1. PICK n \in Mapped(store) : Update(n, d)
    BY <1>7
  <2> DEFINE old == hodo_read_struct(store, n, ZeroBlock(Nil))
             b == [old EXCEPT !.data = d]
  <2>2. n \in Lbn /\ store.mapping_table[n] \in BlockPos
        /\ Written(store, store.mapping_table[n])
        /\ BlockAt(store, store.mapping_table[n]).lbn = n
    BY <1>2 DEF Live, Mapped, Store
  <2>3. old = BlockAt(store, store.mapping_table[n])
    BY <2>2 DEF hodo_read_struct, hodo_GC_read_struct, BlockAt
  <2>4. old \in Buffer
    <3>1. ZeroBlock(Nil) \in Buffer
      BY DEF ZeroBlock, Buffer
    <3> QED
      BY <1>2, <2>2, <3>1, ReadType DEF hodo_read_struct
  <2>5. store' = hodo_write_struct(store, b, n)
    BY <2>1 DEF Update
  <2>6. old.lbn = n
    BY <2>2, <2>3
  <2> HIDE DEF old
  <2>7. b \in Buffer /\ b.lbn = n /\ b.data = d
    BY <2>4, <2>6 DEF Buffer
  <2> HIDE DEF b
  <2>8. /\ CanAppend(store, n, store.wp, b) /\ Appended(store, store', n, store.wp, b)
        /\ store'.wp = Advanced(store.wp) /\ store'.fault = store.fault
    BY <1>2, <1>3, <2>5, <2>7, RewriteFields
  <2> QED
    BY <1>2, <1>4, <2>2, <2>7, <2>8, ClientAppend
<1> QED
  BY <1>1, <1>5, <1>6, <1>7

(* hodo_init leaves the root inode as the only block of the log. *)
LEMMA InitInd ==
    ASSUME Init
    PROVE  /\ IndInv
           /\ \E n \in Lbn, d \in Data :
                 Content(store) = [m \in Lbn |-> IF m = n THEN d ELSE Nil]
<1> DEFINE s == FormattedStore
           n == hodo_get_next_logical_number(s)
<1>1. PICK d \in Data : store = NewInodeStore(s, d)
  BY DEF Init
<1>2. /\ s.mapping_table = [m \in Lbn |-> Pos(0, 0)] /\ s.logical_entry_bitmap = {}
      /\ s.GC_bitmap = {} /\ s.wp = Pos(1, 0) /\ s.fault = FALSE
      /\ s.seq = [z \in SeqFiles |-> << >>]
  BY DEF FormattedStore
<1>3. s \in Store
  <2>1. [z \in SeqFiles |-> << >>] \in [SeqFiles -> Seq(Buffer)]
    OBVIOUS
  <2>2. [m \in Lbn |-> Pos(0, 0)] \in [Lbn -> BlockPos]
    BY Geometry DEF Pos, BlockPos, ZoneId, BlockIndex
  <2> QED
    BY <2>1, <2>2, Geometry DEF FormattedStore, Store
<1> HIDE DEF s
<1>5. s.wp.zone_id = 1 /\ s.wp.block_index = 0
  BY <1>2 DEF Pos
<1>6. Mapped(s) = {}
  BY <1>2 DEF Mapped, Pos
<1>7. Live(s) /\ Content(s) = [m \in Lbn |-> Nil]
  BY <1>2, <1>6 DEF Live, Content
<1>4. n \in Lbn
  BY <1>3, <1>7, NumbersLast
<1>8. \A z \in SeqFiles : Len(s.seq[z]) = 0
  BY <1>2
<1>9. Layout(s) /\ s.wp.zone_id < SwapZone
      /\ Len(s.seq[s.wp.zone_id]) = s.wp.block_index
  BY <1>5, <1>8, ZoneFacts, Geometry DEF Layout
<1> DEFINE b == MkBlock("INO", n, d)
<1>10. /\ CanAppend(s, n, s.wp, b) /\ Appended(s, store, n, s.wp, b)
       /\ store.wp = Advanced(s.wp) /\ store.fault = s.fault /\ b.data = d
  BY <1>1, <1>3, <1>7, <1>9, NewInodeFields
<1> HIDE DEF n, b
<1>11. store \in Store /\ TypeOK
  BY InitType DEF TypeInv, TypeOK
<1>12. Live(store) /\ Content(store) = [Content(s) EXCEPT ![n] = b.data]
  BY <1>3, <1>7, <1>10, <1>11, AppendLive
<1>18. SeqAppended(s, store, s.wp, b)
  BY <1>10 DEF Appended, SeqAppended
<1>13. /\ Layout(store)
       /\ \A y \in SeqFiles : y # s.wp.zone_id => store.seq[y] = s.seq[y]
       /\ ClearStart(store.wp) = s.wp.zone_id + 1
  BY <1>3, <1>9, <1>10, <1>11, <1>18, AppendLayout
<1>14. IdleInv
  BY <1>5, <1>8, <1>13, ZoneFacts, Geometry DEF IdleInv
<1>15. gc.pc = "idle"
  BY DEF Init, GCIdle
<1>16. IndInv
  <2>1. NoFault
    BY <1>2, <1>10 DEF NoFault
  <2> QED
    BY <2>1, <1>11, <1>12, <1>13, <1>14, <1>15 DEF IndInv
<1>17. Content(store) = [m \in Lbn |-> IF m = n THEN d ELSE Nil]
  BY <1>4, <1>7, <1>10, <1>12
<1> QED
  BY <1>4, <1>16, <1>17

--------------------------------------------------------------------------------
(* The log before and after a write *)

(* The store between two writes, outside a collection. *)
LogOK(s) ==
    /\ s \in Store /\ s.fault = FALSE /\ Live(s) /\ Layout(s)
    /\ \A z \in 1 .. SwapZone : z >= ClearStart(s.wp) => Len(s.seq[z]) = 0

LEMMA LogWp ==
    ASSUME NEW s, LogOK(s), HasRoom(s)
    PROVE  /\ s \in Store /\ s.wp \in BlockPos
           /\ s.wp.zone_id \in 1 .. SwapZone /\ s.wp.zone_id \in SeqFiles
           /\ s.wp.zone_id < SwapZone
           /\ Len(s.seq[s.wp.zone_id]) = s.wp.block_index
<1>1. s \in Store /\ s.wp \in BlockPos /\ s.wp.zone_id \in 1 .. SwapZone
      /\ s.wp.zone_id < SwapZone
  BY DEF LogOK, Store, Layout, HasRoom
<1>2. s.wp.zone_id \in SeqFiles
  BY <1>1, ZoneFacts
<1>3. Len(s.seq[s.wp.zone_id]) = s.wp.block_index
  BY <1>1, ZoneFacts, Geometry DEF LogOK, Layout, ClearStart
<1> QED
  BY <1>1, <1>2, <1>3

(* A completed append leaves a log that is in order again. *)
LEMMA LogAppend ==
    ASSUME NEW s, NEW t \in Store, NEW n, NEW b, LogOK(s), HasRoom(s),
           CanAppend(s, n, s.wp, b), Appended(s, t, n, s.wp, b),
           t.wp = Advanced(s.wp), t.fault = s.fault
    PROVE  /\ LogOK(t)
           /\ Mapped(t) = Mapped(s) \cup {n}
           /\ Content(t) = [Content(s) EXCEPT ![n] = b.data]
<1>1. s \in Store /\ Live(s) /\ Layout(s) /\ s.wp.zone_id < SwapZone
      /\ s.wp.zone_id \in Nat /\ Len(s.seq[s.wp.zone_id]) = s.wp.block_index
  BY LogWp, ZoneFacts DEF LogOK
<1>2. Live(t) /\ Mapped(t) = Mapped(s) \cup {n}
      /\ Content(t) = [Content(s) EXCEPT ![n] = b.data]
  BY <1>1, AppendLive
<1>6. SeqAppended(s, t, s.wp, b)
  BY DEF Appended, SeqAppended
<1>3. /\ Layout(t)
      /\ \A y \in SeqFiles : y # s.wp.zone_id => t.seq[y] = s.seq[y]
      /\ ClearStart(s.wp) \in {s.wp.zone_id, s.wp.zone_id + 1}
      /\ ClearStart(t.wp) = s.wp.zone_id + 1
  BY <1>1, <1>6, AppendLayout
<1>4. \A z \in 1 .. SwapZone : z >= ClearStart(t.wp) => Len(t.seq[z]) = 0
  <2>1. \A z \in 1 .. SwapZone : z >= ClearStart(s.wp) => Len(s.seq[z]) = 0
    BY DEF LogOK
  <2> QED
    BY <1>1, <1>3, <2>1, ZoneFacts, Geometry
<1>5. t.fault = FALSE
  BY DEF LogOK
<1> QED
  BY <1>2, <1>3, <1>4, <1>5 DEF LogOK

(* Outside a collection the invariant of HodoLog is that the log is in     *)
(* order.                                                                  *)
LEMMA LogInd ==
    ASSUME gc \in GCState, gc.pc = "idle"
    PROVE  LogOK(store) <=> IndInv
BY DEF LogOK, IndInv, TypeOK, NoFault, IdleInv, Store

--------------------------------------------------------------------------------
(* The steps of a collection *)

(* The facts about a state of IndInv that the steps below share. *)
LEMMA StateFacts ==
    ASSUME IndInv
    PROVE  /\ store.fault = FALSE
           /\ store \in Store /\ gc \in GCState /\ Live(store) /\ Layout(store)
           /\ store.wp \in BlockPos /\ store.wp.zone_id \in 1 .. SwapZone
           /\ store.wp.zone_id \in Nat /\ store.wp.zone_id \in SeqFiles
           /\ store.wp.block_index \in Nat /\ store.wp.block_index < BlocksPerZone
           /\ store.swap_wp \in BlockPos /\ store.swap_wp.block_index \in Nat
           /\ gc.out \in Nat /\ gc.full \in BOOLEAN /\ gc.temp \in Buffer
           /\ gc.prev_wp \in BlockPos /\ gc.prev_wp.zone_id \in Nat
           /\ ClearStart(store.wp) \in {store.wp.zone_id, store.wp.zone_id + 1}
           /\ store.wp.block_index = 0 => ClearStart(store.wp) = store.wp.zone_id
           /\ store.wp.block_index # 0 => ClearStart(store.wp) = store.wp.zone_id + 1
<1>1. /\ store \in Store /\ gc \in GCState /\ Live(store) /\ Layout(store)
      /\ store.wp \in BlockPos /\ store.swap_wp \in BlockPos /\ store.fault = FALSE
  BY DEF IndInv, TypeOK, Store, NoFault
<1>2. gc.out \in Nat /\ gc.full \in BOOLEAN /\ gc.temp \in Buffer /\ gc.prev_wp \in BlockPos
  BY <1>1, OutBounds DEF GCState
<1>3. store.wp.zone_id \in 1 .. SwapZone
  BY <1>1 DEF Layout
<1> QED
  BY <1>1, <1>2, <1>3, ZoneFacts, Geometry DEF ClearStart

(* Every valid position is a position of the device that was written. *)
LEMMA ValidWritten ==
    ASSUME NEW s \in Store, Live(s), NEW p \in s.GC_bitmap
    PROVE  /\ p \in BlockPos /\ p.zone_id \in Nat /\ p.block_index \in Nat
           /\ p = Pos(p.zone_id, p.block_index)
           /\ Written(s, p) /\ p.zone_id # 0
           /\ \E n \in Mapped(s) : s.mapping_table[n] = p /\ BlockAt(s, p).lbn = n
BY ZoneFacts DEF Live, Mapped, Store

LEMMA CollectorTypeOK ==
    ASSUME IndInv, CallGC \/ RunGC
    PROVE  TypeOK'
BY StateFacts, CollectorType, Geometry DEF TypeInv, TypeOK

(* The call of GC() in a store s whose log is in order: only the write     *)
(* pointers move.                                                          *)
LEMMA BeginInd ==
    ASSUME NEW s, LogOK(s), NoSolidZone(s),
           store' = GCRewound(s), gc' = GCCalled(s), TypeOK'
    PROVE  IndInv' /\ Content(store') = Content(s)
<1>0. /\ s \in Store /\ s.fault = FALSE /\ Live(s) /\ Layout(s)
      /\ s.wp \in BlockPos /\ s.wp.zone_id \in 1 .. SwapZone
      /\ s.wp.zone_id \in Nat
      /\ ClearStart(s.wp) \in {s.wp.zone_id, s.wp.zone_id + 1}
      /\ s.wp.block_index = 0 => ClearStart(s.wp) = s.wp.zone_id
  BY ZoneFacts DEF LogOK, Layout, Store, ClearStart
<1>1. /\ SameBlocks(s, store') /\ store'.wp = Pos(1, 0)
      /\ store'.swap_wp = Pos(SwapZone, 0) /\ store'.fault = s.fault
      /\ gc'.pc = "scan" /\ gc'.prev_wp = s.wp
  BY <1>0 DEF GCRewound, GCCalled, GCIdle, Store, SameBlocks
<1>2. /\ store'.wp.zone_id = 1 /\ store'.wp.block_index = 0
      /\ store'.swap_wp.zone_id = SwapZone /\ store'.swap_wp.block_index = 0
      /\ ClearStart(store'.wp) = 1
  BY <1>1 DEF Pos, ClearStart
<1>3. Live(store') /\ Content(store') = Content(s)
  BY <1>0, <1>1, SameLive DEF TypeOK
<1>4. Layout(store')
  BY <1>2, Geometry DEF Layout
<1>5. \A z \in 1 .. SwapZone : z >= ClearStart(s.wp) => Len(s.seq[z]) = 0
  BY DEF LogOK
<1>6. Len(s.seq[SwapZone]) = 0
  <2>1. SwapZone >= ClearStart(s.wp)
    BY <1>0, Geometry DEF Layout
  <2> QED
    BY <1>5, <2>1, Geometry
<1>7. CollectInv'
  <2>1. \A z \in 1 .. SwapZone - 1 : z > s.wp.zone_id => Len(s.seq[z]) = 0
    BY <1>0, <1>5, Geometry
  <2>2. \A z \in 1 .. SwapZone - 1 : ZoneHasHole(store', z)
    BY <1>1 DEF NoSolidZone, ZoneHasHole, SameBlocks
  <2>3. \A z \in 1 .. SwapZone - 1 : z > gc'.prev_wp.zone_id => Len(store'.seq[z]) = 0
    BY <1>1, <2>1 DEF SameBlocks
  <2> QED
    BY <1>2, <2>2, <2>3 DEF CollectInv
<1>8. ScanInv'
  <2>1. ZoneHasHole(store', 1)
    BY <1>1, Geometry DEF NoSolidZone, ZoneHasHole, SameBlocks
  <2>2. \A p \in store'.GC_bitmap : p.block_index >= 0
    <3>1. store' \in Store
      BY DEF TypeOK
    <3> QED
      BY <1>3, <3>1, ValidWritten
  <2>3. SwapLive(store', 0)
    BY <1>2, Geometry DEF SwapLive, BlockIndex
  <2>4. \A h \in BlockIndex : h >= 0
    BY DEF BlockIndex
  <2>5. Len(store'.seq[SwapZone]) = 0
    BY <1>1, <1>6 DEF SameBlocks
  <2> QED
    BY <1>2, <2>1, <2>2, <2>3, <2>4, <2>5, Geometry DEF ScanInv, ZoneHasHole
<1> QED
  BY <1>0, <1>1, <1>3, <1>4, <1>7, <1>8 DEF IndInv, NoFault

LEMMA ScanDoneInd ==
    ASSUME IndInv, GCScanDone, TypeOK'
    PROVE  IndInv' /\ Content(store') = Content(store)
<1> DEFINE k == store.wp.zone_id
           m == store.swap_wp.block_index
<1>1. gc.pc = "scan" /\ UNCHANGED store /\ ScanInv /\ CollectInv
      /\ hodo_get_next_GC_valid(store).zone_id = 0
  BY DEF GCScanDone, IndInv
<1>2. ValidFrom(store) = {}
  BY <1>1, StateFacts, NextValid, Geometry
<1>3. NoBitsFrom(store, k)
  BY <1>2, StateFacts, ValidWritten DEF NoBitsFrom, ValidFrom
<1>4. /\ store.wp.block_index = 0 /\ m < BlocksPerZone - 1
      /\ Len(store.seq[SwapZone]) = m /\ SwapLive(store, 0)
      /\ m > 0 => k < SwapZone
  BY <1>1 DEF ScanInv
<1>5. CASE m # 0
  <2>1. gc'.pc = "reset" /\ gc'.full = FALSE /\ gc'.out = 0 /\ gc'.prev_wp = gc.prev_wp
    BY <1>5, StateFacts DEF GCScanDone, GCState
  <2>2. k < SwapZone /\ m > 0
    BY <1>4, <1>5, StateFacts
  <2>3. \A p \in store.GC_bitmap : p.zone_id # k
    BY <1>3, <2>2, StateFacts, ValidWritten DEF NoBitsFrom
  <2>4. ResetInv'
    BY <1>1, <1>3, <1>4, <2>1, <2>2, <2>3 DEF ResetInv, SwapCount
  <2>5. CollectInv'
    BY <1>1, <2>1 DEF CollectInv
  <2> QED
    BY <1>1, <2>1, <2>4, <2>5, StateFacts DEF IndInv, NoFault
<1>6. CASE m = 0
  <2>1. gc'.pc = "clear" /\ gc'.out = ClearStart(store.wp) /\ gc'.prev_wp = gc.prev_wp
    BY <1>6, StateFacts DEF GCScanDone, GCState
  <2>2. ClearInv'
    BY <1>1, <1>3, <1>4, <1>6, <2>1, StateFacts DEF ClearInv
  <2>3. CollectInv'
    BY <1>1, <2>1 DEF CollectInv
  <2> QED
    BY <1>1, <2>1, <2>2, <2>3, StateFacts DEF IndInv, NoFault
<1> QED
  BY <1>5, <1>6

(* The copy keeps the scan's accounting: the valid blocks left in the zone *)
(* under wp lie at or after the index swap_wp has reached, and one of      *)
(* those indices is a hole.                                                *)
LEMMA SwapInHole ==
    ASSUME NEW s \in Store, NEW bits, NEW v \in BlockPos, NEW k \in Nat, NEW m \in Nat,
           Live(s), k = s.wp.zone_id, k < SwapZone, m < BlocksPerZone - 1,
           v \in ValidFrom(s), \A q \in ValidFrom(s) : Before(v, q),
           bits = (s.GC_bitmap \cup {Pos(SwapZone, m)}) \ {v},
           \A p \in s.GC_bitmap : p.zone_id = k => p.block_index >= m,
           \E h \in BlockIndex : h >= m /\ Pos(k, h) \notin s.GC_bitmap
    PROVE  /\ \A p \in bits : p.zone_id = k => p.block_index >= m + 1
           /\ \E h \in BlockIndex : h >= m + 1 /\ Pos(k, h) \notin bits
<1>0. /\ v \in s.GC_bitmap /\ v.zone_id \in Nat /\ v.block_index \in Nat
      /\ v.zone_id >= k /\ v = Pos(v.zone_id, v.block_index)
      /\ v.zone_id = k => v.block_index >= m
  BY ZoneFacts DEF ValidFrom
<1>1. \A i : Pos(k, i) # Pos(SwapZone, m)
  BY Geometry DEF Pos
<1>2. \A p \in s.GC_bitmap : p.zone_id = k
        => p \in ValidFrom(s) /\ v.zone_id = k /\ v.block_index <= p.block_index
  <2>1. ASSUME NEW p \in s.GC_bitmap, p.zone_id = k
        PROVE  p \in ValidFrom(s)
    BY <2>1 DEF ValidFrom
  <2> QED
    BY <1>0, <2>1 DEF Before
<1>3. ASSUME NEW p \in bits, p.zone_id = k
      PROVE  p.block_index >= m + 1
  <2>1. p \in s.GC_bitmap /\ p # v
    BY <1>3, Geometry DEF Pos
  <2>2. p.block_index \in Nat /\ p = Pos(k, p.block_index)
    BY <1>3, <2>1, ValidWritten
  <2>3. p.block_index # v.block_index
    BY <1>0, <1>2, <1>3, <2>1, <2>2
  <2> QED
    BY <1>0, <1>2, <1>3, <2>1, <2>2, <2>3
<1>4. \E h \in BlockIndex : h >= m + 1 /\ Pos(k, h) \notin bits
  <2>1. PICK h \in BlockIndex : h >= m /\ Pos(k, h) \notin s.GC_bitmap
    OBVIOUS
  <2>2. CASE h >= m + 1
    BY <1>1, <2>1, <2>2
  <2>3. CASE h = m /\ v.zone_id = k
    <3>1. v.block_index >= m + 1
      BY <1>0, <2>1, <2>3
    <3>2. v.block_index \in BlockIndex /\ Pos(k, v.block_index) \notin bits
      BY <1>0, <2>3 DEF BlockPos
    <3> QED
      BY <3>1, <3>2
  <2>4. CASE h = m /\ v.zone_id # k
    <3>1. m + 1 \in BlockIndex
      BY Geometry DEF BlockIndex
    <3>2. Pos(k, m + 1) \notin s.GC_bitmap
      BY <1>2, <2>4 DEF Pos
    <3> QED
      BY <1>1, <3>1, <3>2
  <2> QED
    BY <2>1, <2>2, <2>3, <2>4 DEF BlockIndex
<1> QED
  BY <1>3, <1>4

LEMMA SwapInInd ==
    ASSUME IndInv, GCSwapIn, TypeOK'
    PROVE  IndInv' /\ Content(store') = Content(store)
<1> DEFINE k == store.wp.zone_id
           m == store.swap_wp.block_index
           v == hodo_get_next_GC_valid(store)
           b == hodo_GC_read_struct(store, v, gc.temp)
           n == b.lbn
           full == store'.swap_wp.block_index >= BlocksPerZone - 1
<1>1. /\ gc.pc = "scan" /\ ScanInv /\ CollectInv /\ v.zone_id # 0
      /\ store' = hodo_GC_write_struct(store, b, b.lbn)
      /\ gc' = [gc EXCEPT !.pc = IF full THEN "reset" ELSE "scan",
                          !.full = full, !.out = 0, !.temp = b]
  BY DEF GCSwapIn, IndInv
<1>2. v \in BlockPos /\ v \in ValidFrom(store) /\ \A q \in ValidFrom(store) : Before(v, q)
  BY <1>1, StateFacts, NextValid, Geometry
<1>3. /\ v \in store.GC_bitmap /\ v.zone_id >= k /\ v.zone_id < SwapZone
      /\ k < SwapZone /\ k \in Nat /\ v.zone_id \in Nat
  BY <1>2, StateFacts, ZoneFacts, Geometry DEF ValidFrom
<1>4. PICK nn \in Mapped(store) : store.mapping_table[nn] = v /\ BlockAt(store, v).lbn = nn
  BY <1>3, StateFacts, ValidWritten
<1>5. b = BlockAt(store, v) /\ b \in Buffer /\ n = nn
  <2>1. Written(store, v)
    BY <1>3, StateFacts, ValidWritten
  <2>2. b = BlockAt(store, v)
    BY <2>1 DEF hodo_GC_read_struct, BlockAt
  <2>3. b \in Buffer
    BY <1>2, StateFacts, ReadType
  <2> QED
    BY <1>4, <2>2, <2>3
<1>5a. Written(store, v)
  BY <1>3, StateFacts, ValidWritten
<1>6. n \in Mapped(store) /\ n \in Lbn /\ store.mapping_table[n] = v
  BY <1>4, <1>5 DEF Mapped
<1>7. /\ m \in Nat /\ m < BlocksPerZone - 1 /\ store.swap_wp.zone_id = SwapZone
      /\ Len(store.seq[SwapZone]) = m /\ store.wp.block_index = 0
      /\ store.swap_wp = Pos(SwapZone, m)
  BY <1>1, StateFacts, ZoneFacts DEF ScanInv, CollectInv
<1> HIDE DEF b, v
<1>8. /\ CanAppend(store, n, store.swap_wp, b)
      /\ Appended(store, store', n, store.swap_wp, b)
      /\ store'.swap_wp = Pos(SwapZone, m + 1) /\ store'.wp = store.wp
      /\ store'.fault = store.fault
  BY <1>1, <1>5, <1>6, <1>7, StateFacts, GCWriteFields
<1>9. Live(store') /\ Content(store') = [Content(store) EXCEPT ![n] = b.data]
  BY <1>8, StateFacts, AppendLive DEF TypeOK
<1>10. Content(store') = Content(store)
  <2>1. Content(store)[n] = b.data
    BY <1>5, <1>5a, <1>6 DEF Content
  <2> QED
    BY <1>9, <2>1 DEF Content
<1>11. /\ store'.GC_bitmap = (store.GC_bitmap \cup {Pos(SwapZone, m)}) \ {v}
       /\ store'.mapping_table[n] = Pos(SwapZone, m)
       /\ \A i \in Lbn : i # n => store'.mapping_table[i] = store.mapping_table[i]
  BY <1>6, <1>7, <1>8, StateFacts DEF Appended, Store
<1>12. /\ store'.seq[SwapZone] = Append(store.seq[SwapZone], b)
       /\ \A z \in SeqFiles : z # SwapZone => store'.seq[z] = store.seq[z]
  BY <1>7, <1>8, StateFacts, ZoneFacts DEF Appended, Store
<1>12a. store.seq[SwapZone] \in Seq(Buffer)
  BY StateFacts, ZoneFacts DEF Store
<1>13. /\ Len(store'.seq[SwapZone]) = m + 1
       /\ store'.seq[SwapZone][m + 1] = b
       /\ \A i \in 1 .. m : store'.seq[SwapZone][i] = store.seq[SwapZone][i]
  BY <1>5, <1>7, <1>12, <1>12a
<1>14. store'.swap_wp.zone_id = SwapZone /\ store'.swap_wp.block_index = m + 1
  BY <1>8 DEF Pos
<1>15. Layout(store')
  <2>1. \A z \in 1 .. SwapZone : z < k => Len(store'.seq[z]) = BlocksPerZone
    <3>1. \A z \in 1 .. SwapZone : z < k => Len(store.seq[z]) = BlocksPerZone
      BY StateFacts DEF Layout
    <3>2. \A z \in 1 .. SwapZone : z < k => z \in SeqFiles /\ z # SwapZone
      BY <1>3, ZoneFacts, Geometry
    <3> QED
      BY <1>12, <3>1, <3>2
  <2> QED
    BY <1>3, <1>7, <1>8, <2>1, StateFacts, Geometry DEF Layout
<1>16. CollectInv'
  <2>1. gc'.prev_wp = gc.prev_wp
    BY <1>1, StateFacts DEF GCState
  <2>2. \A z \in 1 .. SwapZone - 1 : store'.seq[z] = store.seq[z]
    BY <1>12, ZoneFacts, Geometry
  <2>3. \A z \in 1 .. SwapZone - 1 : ZoneHasHole(store, z) => ZoneHasHole(store', z)
    <3>1. \A z \in 1 .. SwapZone - 1 : \A i : Pos(z, i) # Pos(SwapZone, m)
      BY Geometry DEF Pos
    <3> QED
      BY <1>11, <3>1 DEF ZoneHasHole
  <2> QED
    BY <1>1, <1>8, <1>14, <2>1, <2>2, <2>3 DEF CollectInv
<1>17. SwapLive(store', 0)
  <2> SUFFICES ASSUME NEW j \in BlockIndex, 0 <= j, j < m + 1
               PROVE  LET i == store'.seq[SwapZone][j + 1].lbn
                      IN  i \in Lbn /\ store'.mapping_table[i] = Pos(SwapZone, j)
    BY <1>14 DEF SwapLive
  <2>1. CASE j = m
    BY <1>6, <1>11, <1>13, <2>1
  <2>2. CASE j # m
    <3> DEFINE i == store.seq[SwapZone][j + 1].lbn
    <3>1. j \in Nat /\ j < m /\ j + 1 \in 1 .. m
      BY <1>7, <2>2 DEF BlockIndex
    <3>2. i \in Lbn /\ store.mapping_table[i] = Pos(SwapZone, j)
      BY <1>1, <3>1 DEF ScanInv, SwapLive
    <3>3. i # n
      BY <1>3, <1>6, <3>2 DEF Pos
    <3> QED
      BY <1>11, <1>13, <3>1, <3>2, <3>3
  <2> QED
    BY <2>1, <2>2
<1>18. /\ \A p \in store'.GC_bitmap : p.zone_id = k => p.block_index >= m + 1
       /\ \E h \in BlockIndex : h >= m + 1 /\ Pos(k, h) \notin store'.GC_bitmap
  <2>1. \A p \in store.GC_bitmap : p.zone_id = k => p.block_index >= m
    BY <1>1, <1>3 DEF ScanInv
  <2>2. \E h \in BlockIndex : h >= m /\ Pos(k, h) \notin store.GC_bitmap
    BY <1>1, <1>3 DEF ScanInv
  <2> QED
    BY <1>2, <1>3, <1>7, <1>11, <2>1, <2>2, StateFacts, SwapInHole
<1>19. CASE m + 1 < BlocksPerZone - 1
  <2>1. gc'.pc = "scan"
    BY <1>1, <1>7, <1>14, <1>19, StateFacts, Geometry DEF GCState
  <2>2. ScanInv'
    BY <1>3, <1>7, <1>8, <1>13, <1>14, <1>17, <1>18, <1>19 DEF ScanInv
  <2> QED
    BY <1>8, <1>9, <1>10, <1>15, <1>16, <2>1, <2>2, StateFacts DEF IndInv, NoFault
<1>20. CASE m + 1 >= BlocksPerZone - 1
  <2>1. m + 1 = BlocksPerZone - 1
    BY <1>7, <1>20, Geometry
  <2>2. gc'.pc = "reset" /\ gc'.full = TRUE /\ gc'.out = 0
    BY <1>1, <1>14, <1>20, StateFacts DEF GCState
  <2>3. \A p \in store'.GC_bitmap : p.zone_id # k
    <3>1. PICK h \in BlockIndex : h >= m + 1 /\ Pos(k, h) \notin store'.GC_bitmap
      BY <1>18
    <3>2. h = BlocksPerZone - 1
      BY <2>1, <3>1, Geometry DEF BlockIndex
    <3> SUFFICES ASSUME NEW p \in store'.GC_bitmap, p.zone_id = k PROVE FALSE
      OBVIOUS
    <3>3. p \in BlockPos
      BY DEF TypeOK, Store
    <3>4. p.block_index = BlocksPerZone - 1 /\ p = Pos(k, p.block_index)
      BY <1>18, <2>1, <3>3, ZoneFacts, Geometry
    <3> QED
      BY <3>1, <3>2, <3>4
  <2>4. SwapCount'
    BY <1>7, <1>14, <2>1, <2>2 DEF SwapCount
  <2>5. ResetInv'
    BY <1>3, <1>7, <1>8, <1>13, <1>14, <1>17, <2>2, <2>3, <2>4 DEF ResetInv
  <2> QED
    BY <1>8, <1>9, <1>10, <1>15, <1>16, <2>2, <2>5, StateFacts DEF IndInv, NoFault
<1> QED
  BY <1>7, <1>19, <1>20, Geometry

(* A zone reset touches nothing but the file of the zone. *)
LEMMA ResetFields ==
    ASSUME NEW s \in Store, NEW z \in SeqFiles
    PROVE  /\ SameBlocks(zonefs_reset(s, z), zonefs_reset(s, z))
           /\ zonefs_reset(s, z).mapping_table = s.mapping_table
           /\ zonefs_reset(s, z).GC_bitmap = s.GC_bitmap
           /\ zonefs_reset(s, z).wp = s.wp /\ zonefs_reset(s, z).swap_wp = s.swap_wp
           /\ zonefs_reset(s, z).fault = s.fault
BY DEF zonefs_reset, Store, SameBlocks

LEMMA ResetFrontInd ==
    ASSUME IndInv, GCResetFront, TypeOK'
    PROVE  IndInv' /\ Content(store') = Content(store)
<1> DEFINE k == store.wp.zone_id
<1>1. /\ gc.pc = "reset" /\ ResetInv /\ CollectInv
      /\ store' = zonefs_reset(store, k) /\ gc' = [gc EXCEPT !.pc = "out"]
  BY DEF GCResetFront, IndInv
<1>2. /\ gc'.pc = "out" /\ gc'.full = gc.full /\ gc'.out = gc.out
      /\ gc'.prev_wp = gc.prev_wp
  BY <1>1, StateFacts DEF GCState
<1>3. /\ store'.mapping_table = store.mapping_table /\ store'.GC_bitmap = store.GC_bitmap
      /\ store'.wp = store.wp /\ store'.swap_wp = store.swap_wp
      /\ store'.fault = store.fault
      /\ SameBlocks(zonefs_reset(store, k), store')
  BY <1>1, StateFacts, ResetFields
<1>4. k < SwapZone /\ store.wp.block_index = 0 /\ gc.out = 0
      /\ \A p \in store.GC_bitmap : p.zone_id # k
  BY <1>1 DEF ResetInv
<1>5. /\ Live(store') /\ Content(store') = Content(store)
      /\ Len(store'.seq[k]) = 0
      /\ \A y \in SeqFiles : y # k => store'.seq[y] = store.seq[y]
  BY <1>3, <1>4, StateFacts, ResetLive DEF TypeOK
<1>6. store'.seq[SwapZone] = store.seq[SwapZone]
  BY <1>4, <1>5, StateFacts, ZoneFacts, Geometry
<1>7. Layout(store')
  <2>1. \A z \in 1 .. SwapZone : z < k => Len(store'.seq[z]) = BlocksPerZone
    <3>1. \A z \in 1 .. SwapZone : z < k => Len(store.seq[z]) = BlocksPerZone
      BY StateFacts DEF Layout
    <3>2. \A z \in 1 .. SwapZone : z < k => z \in SeqFiles /\ z # k
      BY StateFacts, ZoneFacts, Geometry
    <3> QED
      BY <1>5, <3>1, <3>2
  <2> QED
    BY <1>3, <1>4, <2>1, StateFacts, Geometry DEF Layout
<1>8. CollectInv'
  <2>1. \A z \in 1 .. SwapZone - 1 : Len(store.seq[z]) = 0 => Len(store'.seq[z]) = 0
    BY <1>5, ZoneFacts, Geometry
  <2>2. \A z \in 1 .. SwapZone - 1 : ZoneHasHole(store, z) => ZoneHasHole(store', z)
    BY <1>3 DEF ZoneHasHole
  <2> QED
    BY <1>1, <1>2, <1>3, <2>1, <2>2 DEF CollectInv
<1>9. OutInv'
  <2>1. SwapCount'
    BY <1>1, <1>2, <1>3 DEF ResetInv, SwapCount
  <2>2. gc'.out <= SwapOutLimit(store', gc'.full)
    BY <1>2, <1>3, <1>4, StateFacts, Geometry DEF SwapOutLimit
  <2>3. SwapLive(store', 0)
    BY <1>1, <1>3, <1>6 DEF ResetInv, SwapLive
  <2>4. SwapFrom(store', 0)
    BY <1>3, StateFacts, ValidWritten DEF SwapFrom
  <2>5. ~gc'.full => NoBitsFrom(store', ClearStart(store'.wp))
    BY <1>1, <1>2, <1>3, <1>4, StateFacts DEF ResetInv, NoBitsFrom
  <2>6. Len(store'.seq[SwapZone]) = store'.swap_wp.block_index
    BY <1>1, <1>3, <1>6 DEF ResetInv
  <2> QED
    BY <1>2, <1>3, <1>4, <1>5, <2>1, <2>2, <2>3, <2>4, <2>5, <2>6, Geometry DEF OutInv
<1> QED
  BY <1>2, <1>3, <1>5, <1>7, <1>8, <1>9, StateFacts DEF IndInv, NoFault

LEMMA SwapOutDoneInd ==
    ASSUME IndInv, GCSwapOutDone, TypeOK'
    PROVE  IndInv' /\ Content(store') = Content(store)
<1>1. /\ gc.pc = "out" /\ OutInv /\ CollectInv /\ UNCHANGED store
      /\ gc.out >= SwapOutLimit(store, gc.full) /\ gc' = [gc EXCEPT !.pc = "drain"]
  BY DEF GCSwapOutDone, IndInv
<1>2. gc'.pc = "drain" /\ gc'.full = gc.full /\ gc'.prev_wp = gc.prev_wp
  BY <1>1, StateFacts DEF GCState
<1>3. gc.out = SwapOutLimit(store, gc.full) /\ store.swap_wp.block_index <= gc.out
  BY <1>1, StateFacts, Geometry DEF OutInv, SwapCount, SwapOutLimit
<1>4. \A p \in store.GC_bitmap : p.zone_id # SwapZone
  <2> SUFFICES ASSUME NEW p \in store.GC_bitmap, p.zone_id = SwapZone PROVE FALSE
    OBVIOUS
  <2>1. p.block_index \in Nat /\ p.block_index < Len(store.seq[SwapZone])
    BY StateFacts, ValidWritten DEF Written
  <2>2. p.block_index >= gc.out /\ Len(store.seq[SwapZone]) = store.swap_wp.block_index
    BY <1>1 DEF OutInv, SwapFrom
  <2> QED
    BY <1>3, <2>1, <2>2, StateFacts
<1>5. DrainInv'
  BY <1>1, <1>2, <1>3, <1>4 DEF DrainInv, OutInv, SwapOutLimit
<1>6. CollectInv'
  BY <1>1, <1>2 DEF CollectInv
<1> QED
  BY <1>1, <1>2, <1>5, <1>6, StateFacts DEF IndInv, NoFault

LEMMA ResetSwapInd ==
    ASSUME IndInv, GCResetSwap, TypeOK'
    PROVE  IndInv' /\ Content(store') = Content(store)
<1> DEFINE k == store.wp.zone_id
           r == zonefs_reset(store, SwapZone)
<1>1. gc.pc = "drain" /\ DrainInv /\ CollectInv
  BY DEF GCResetSwap, IndInv
<1>2. /\ r.mapping_table = store.mapping_table /\ r.GC_bitmap = store.GC_bitmap
      /\ r.wp = store.wp /\ r.swap_wp = store.swap_wp /\ r.fault = store.fault
      /\ r \in Store
  BY StateFacts, ZoneFacts, ResetFields, ResetType
<1>3. /\ SameBlocks(r, store') /\ store'.wp = r.wp /\ store'.fault = r.fault
      /\ store'.swap_wp.zone_id = SwapZone
      /\ gc.full => gc'.pc = "scan" /\ store'.swap_wp.block_index = 0
      /\ ~gc.full => gc'.pc = "clear" /\ gc'.out = ClearStart(store.wp)
      /\ gc'.prev_wp = gc.prev_wp
  <2>1. CASE gc.full
    <3>1. gc' = [gc EXCEPT !.pc = "scan"]
          /\ store' = [r EXCEPT !.swap_wp = [r.swap_wp EXCEPT !.block_index = 0]]
      BY <2>1 DEF GCResetSwap
    <3> HIDE DEF r
    <3>2. SameBlocks(r, store') /\ store'.wp = r.wp /\ store'.fault = r.fault
          /\ store'.swap_wp = [r.swap_wp EXCEPT !.block_index = 0]
      BY <1>2, <3>1 DEF Store, SameBlocks
    <3>3. store'.swap_wp.zone_id = SwapZone /\ store'.swap_wp.block_index = 0
      BY <1>1, <1>2, <3>2, StateFacts DEF CollectInv, BlockPos
    <3> QED
      BY <2>1, <3>1, <3>2, <3>3, StateFacts DEF GCState
  <2>2. CASE ~gc.full
    <3>1. gc' = [gc EXCEPT !.pc = "clear", !.out = ClearStart(store.wp)] /\ store' = r
      BY <2>2 DEF GCResetSwap
    <3> HIDE DEF r
    <3> QED
      BY <1>1, <1>2, <2>2, <3>1, StateFacts DEF GCState, CollectInv, SameBlocks
  <2> QED
    BY <2>1, <2>2
<1>4. store'.GC_bitmap = store.GC_bitmap /\ store'.wp = store.wp
  BY <1>2, <1>3 DEF SameBlocks
<1>5. /\ Live(store') /\ Content(store') = Content(store)
      /\ Len(store'.seq[SwapZone]) = 0
      /\ \A y \in SeqFiles : y # SwapZone => store'.seq[y] = store.seq[y]
  BY <1>1, <1>3, StateFacts, ZoneFacts, ResetLive DEF TypeOK, DrainInv
<1>6. \A z \in 1 .. SwapZone : z # SwapZone => store'.seq[z] = store.seq[z]
  BY <1>5, ZoneFacts
<1>7. Layout(store')
  <2>1. \A z \in 1 .. SwapZone : z < k => Len(store'.seq[z]) = BlocksPerZone
    <3>1. \A z \in 1 .. SwapZone : z < k => Len(store.seq[z]) = BlocksPerZone
      BY StateFacts DEF Layout
    <3>2. \A z \in 1 .. SwapZone : z < k => z # SwapZone
      BY StateFacts, Geometry
    <3> QED
      BY <1>6, <3>1, <3>2
  <2>2. store.wp.block_index # 0 => Len(store'.seq[k]) = store.wp.block_index
    BY <1>6, StateFacts DEF Layout
  <2> QED
    BY <1>4, <2>1, <2>2, StateFacts DEF Layout
<1>8. CollectInv'
  <2>1. \A z \in 1 .. SwapZone - 1 : store'.seq[z] = store.seq[z]
    BY <1>6, Geometry
  <2>2. \A z \in 1 .. SwapZone - 1 : ZoneHasHole(store, z) => ZoneHasHole(store', z)
    BY <1>4 DEF ZoneHasHole
  <2> QED
    BY <1>1, <1>3, <1>4, <2>1, <2>2 DEF CollectInv
<1>9. CASE gc.full
  <2>1. gc'.pc = "scan" /\ store'.swap_wp.block_index = 0 /\ store'.wp.block_index = 0
    BY <1>1, <1>3, <1>4, <1>9 DEF DrainInv
  <2>2. SwapLive(store', 0)
    BY <2>1, Geometry DEF SwapLive, BlockIndex
  <2>3. \A p \in store'.GC_bitmap : p.block_index >= 0
    BY <1>4, StateFacts, ValidWritten
  <2>4. k < SwapZone => \E h \in BlockIndex : h >= 0 /\ Pos(k, h) \notin store'.GC_bitmap
    <3>1. \A h \in BlockIndex : h >= 0
      BY DEF BlockIndex
    <3>2. k < SwapZone => ZoneHasHole(store, k)
      <4>1. k >= ClearStart(store.wp)
        BY <1>4, <2>1, StateFacts
      <4>2. k < SwapZone => k \in 1 .. SwapZone - 1
        BY StateFacts, Geometry
      <4> QED
        BY <1>1, <4>1, <4>2 DEF CollectInv
    <3> QED
      BY <1>4, <3>1, <3>2 DEF ZoneHasHole
  <2>5. ScanInv'
    BY <1>4, <1>5, <2>1, <2>2, <2>3, <2>4, Geometry DEF ScanInv
  <2> QED
    BY <1>2, <1>3, <1>5, <1>7, <1>8, <2>1, <2>5, StateFacts DEF IndInv, NoFault
<1>10. CASE ~gc.full
  <2>1. gc'.pc = "clear" /\ gc'.out = ClearStart(store'.wp)
    BY <1>3, <1>4, <1>10
  <2>2. ClearInv'
    BY <1>1, <1>4, <1>5, <1>10, <2>1, StateFacts DEF ClearInv, DrainInv, NoBitsFrom
  <2> QED
    BY <1>2, <1>3, <1>5, <1>7, <1>8, <2>1, <2>2, StateFacts DEF IndInv, NoFault
<1> QED
  BY <1>9, <1>10

LEMMA ClearInd ==
    ASSUME IndInv, GCClear, TypeOK'
    PROVE  IndInv' /\ Content(store') = Content(store)
<1> DEFINE k == store.wp.zone_id
           z == gc.out
<1>1. /\ gc.pc = "clear" /\ ClearInv /\ CollectInv
      /\ store' = zonefs_reset(store, z) /\ gc' = [gc EXCEPT !.out = @ + 1]
  BY DEF GCClear, IndInv
<1>2. gc'.pc = "clear" /\ gc'.out = z + 1 /\ gc'.prev_wp = gc.prev_wp
  BY <1>1, StateFacts DEF GCState
<1>3. z \in Nat /\ z >= ClearStart(store.wp) /\ z >= k /\ z # 0
  BY <1>1, StateFacts, Geometry DEF ClearInv
<1>4. CASE z \notin SeqFiles
  <2>1. store' = store
    BY <1>1, <1>4 DEF zonefs_reset
  <2>2. \A y \in 1 .. SwapZone : y # z
    BY <1>4, ZoneFacts
  <2>3. ClearInv'
    <3>1. \A y \in 1 .. SwapZone : y >= ClearStart(store.wp) /\ y < z + 1
                                     => Len(store.seq[y]) = 0
      BY <1>1, <1>3, <2>2 DEF ClearInv
    <3>2. z + 1 >= ClearStart(store.wp)
      BY <1>3, StateFacts
    <3> QED
      BY <1>1, <1>2, <2>1, <3>1, <3>2 DEF ClearInv
  <2>4. CollectInv'
    BY <1>1, <1>2, <2>1 DEF CollectInv
  <2> QED
    BY <1>2, <2>1, <2>3, <2>4, StateFacts DEF IndInv, NoFault
<1>5. CASE z \in SeqFiles
  <2>1. /\ store'.mapping_table = store.mapping_table
        /\ store'.GC_bitmap = store.GC_bitmap
        /\ store'.wp = store.wp /\ store'.swap_wp = store.swap_wp
        /\ store'.fault = store.fault
        /\ SameBlocks(zonefs_reset(store, z), store')
    BY <1>1, <1>5, StateFacts, ResetFields
  <2>2. \A p \in store.GC_bitmap : p.zone_id # z
    <3> SUFFICES ASSUME NEW p \in store.GC_bitmap, p.zone_id = z PROVE FALSE
      OBVIOUS
    <3>1. CASE z = SwapZone
      BY <1>1, <3>1, StateFacts, ValidWritten DEF ClearInv, Written
    <3>2. CASE z # SwapZone
      <4>1. z < SwapZone
        BY <1>3, <1>5, <3>2, Geometry DEF SeqFiles
      <4>2. z < ClearStart(store.wp)
        BY <1>1, <4>1 DEF ClearInv, NoBitsFrom
      <4> QED
        BY <1>3, <4>2, StateFacts
    <3> QED
      BY <3>1, <3>2
  <2>3. /\ Live(store') /\ Content(store') = Content(store)
        /\ Len(store'.seq[z]) = 0
        /\ \A y \in SeqFiles : y # z => store'.seq[y] = store.seq[y]
    BY <1>5, <2>1, <2>2, StateFacts, ResetLive DEF TypeOK
  <2>4. \A y \in SeqFiles : Len(store.seq[y]) = 0 => Len(store'.seq[y]) = 0
    BY <2>3
  <2>5. Layout(store')
    <3>1. \A y \in 1 .. SwapZone : y < k => Len(store'.seq[y]) = BlocksPerZone
      <4>1. \A y \in 1 .. SwapZone : y < k => Len(store.seq[y]) = BlocksPerZone
        BY StateFacts DEF Layout
      <4>2. \A y \in 1 .. SwapZone : y < k => y \in SeqFiles /\ y # z
        BY <1>3, StateFacts, ZoneFacts, Geometry
      <4> QED
        BY <2>3, <4>1, <4>2
    <3>2. store.wp.block_index # 0 => Len(store'.seq[k]) = store.wp.block_index
      <4>1. store.wp.block_index # 0 => z # k
        BY <1>3, StateFacts
      <4> QED
        BY <2>3, <4>1, StateFacts DEF Layout
    <3> QED
      BY <2>1, <3>1, <3>2, StateFacts DEF Layout
  <2>6. CollectInv'
    <3>1. \A y \in 1 .. SwapZone - 1 : Len(store.seq[y]) = 0 => Len(store'.seq[y]) = 0
      BY <2>4, ZoneFacts, Geometry
    <3> QED
      BY <1>1, <1>2, <2>1, <3>1 DEF CollectInv
  <2>7. ClearInv'
    <3>1. \A y \in 1 .. SwapZone : y >= ClearStart(store.wp) /\ y < z + 1
                                     => Len(store'.seq[y]) = 0
      <4> SUFFICES ASSUME NEW y \in 1 .. SwapZone, y >= ClearStart(store.wp), y < z + 1
                   PROVE  Len(store'.seq[y]) = 0
        OBVIOUS
      <4>1. CASE y = z
        BY <2>3, <4>1
      <4>2. CASE y # z
        <5>1. y < z /\ y \in SeqFiles
          BY <1>3, <4>2, ZoneFacts
        <5> QED
          BY <1>1, <2>4, <5>1 DEF ClearInv
      <4> QED
        BY <4>1, <4>2
    <3>2. z + 1 >= ClearStart(store.wp)
      BY <1>3, StateFacts
    <3>3. Len(store'.seq[SwapZone]) = 0
      BY <1>1, <2>4, ZoneFacts DEF ClearInv
    <3>4. NoBitsFrom(store', ClearStart(store.wp))
      BY <1>1, <2>1 DEF ClearInv, NoBitsFrom
    <3> QED
      BY <1>2, <2>1, <3>1, <3>2, <3>3, <3>4 DEF ClearInv
  <2> QED
    BY <1>2, <2>1, <2>3, <2>5, <2>6, <2>7, StateFacts DEF IndInv, NoFault
<1> QED
  BY <1>4, <1>5

LEMMA ReturnInd ==
    ASSUME IndInv, GCReturn, TypeOK'
    PROVE  IndInv' /\ Content(store') = Content(store)
<1>1. /\ gc.pc = "clear" /\ ClearInv /\ CollectInv /\ UNCHANGED store
      /\ gc.out > gc.prev_wp.zone_id /\ gc'.pc = "idle"
  BY DEF GCReturn, GCIdle, IndInv
<1>2. IdleInv
  <2> SUFFICES ASSUME NEW z \in 1 .. SwapZone, z >= ClearStart(store.wp)
               PROVE  Len(store.seq[z]) = 0
    BY DEF IdleInv
  <2>1. CASE z = SwapZone
    BY <1>1, <2>1 DEF ClearInv
  <2>2. CASE z < gc.out
    BY <1>1, <2>2 DEF ClearInv
  <2>3. CASE z # SwapZone /\ z >= gc.out
    <3>1. z \in 1 .. SwapZone - 1 /\ z > gc.prev_wp.zone_id
      BY <1>1, <2>3, StateFacts, Geometry
    <3> QED
      BY <1>1, <3>1 DEF CollectInv
  <2> QED
    BY <2>1, <2>2, <2>3, StateFacts
<1>3. IdleInv'
  BY <1>1, <1>2 DEF IdleInv
<1> QED
  BY <1>1, <1>3, StateFacts DEF IndInv, NoFault

(* The block that a copy-out step writes is the current block of a mapped  *)
(* number: it comes from the swap zone, or, past the end of a full swap    *)
(* zone, it is the one the step before has left in temp_datablock.         *)
LEMMA SwapOutSource ==
    ASSUME IndInv, GCSwapOut
    PROVE  LET b == hodo_GC_read_struct(store, Pos(SwapZone, gc.out), gc.temp)
               m == store.swap_wp.block_index
           IN  /\ b \in Buffer /\ b.lbn \in Mapped(store)
               /\ b.data = Content(store)[b.lbn]
               /\ \/ gc.out < m /\ store.mapping_table[b.lbn] = Pos(SwapZone, gc.out)
                  \/ gc.out = BlocksPerZone - 1 /\ m = BlocksPerZone - 1
<1> DEFINE o == gc.out
           m == store.swap_wp.block_index
           k == store.wp.zone_id
           b == hodo_GC_read_struct(store, Pos(SwapZone, o), gc.temp)
<1>1. OutInv /\ gc.out < SwapOutLimit(store, gc.full)
  BY DEF GCSwapOut, IndInv
<1>2. o \in Nat /\ o < BlocksPerZone /\ m \in Nat /\ m < BlocksPerZone
      /\ Len(store.seq[SwapZone]) = m
  BY <1>1, StateFacts, ZoneFacts, Geometry DEF SwapOutLimit, OutInv
<1>3. Pos(SwapZone, o) \in BlockPos
  BY <1>2, Geometry DEF Pos, BlockPos, ZoneId, BlockIndex
<1>4. b \in Buffer
  BY <1>3, StateFacts, ReadType
<1>5. ASSUME NEW n \in Lbn, NEW p, store.mapping_table[n] = p,
             p.zone_id # 0, BlockAt(store, p) = b
      PROVE  n \in Mapped(store) /\ b.lbn = n /\ b.data = Content(store)[n]
  <2>1. n \in Mapped(store)
    BY <1>5 DEF Mapped
  <2>2. Written(store, p) /\ BlockAt(store, p).lbn = n
    BY <1>5, <2>1, StateFacts DEF Live
  <2> QED
    BY <1>5, <2>1, <2>2 DEF Content
<1>6. CASE o < m
  <2>1. Written(store, Pos(SwapZone, o)) /\ b = BlockAt(store, Pos(SwapZone, o))
        /\ b = store.seq[SwapZone][o + 1]
    BY <1>2, <1>6, ZoneFacts DEF Written, hodo_GC_read_struct, BlockAt, Pos
  <2>2. b.lbn \in Lbn /\ store.mapping_table[b.lbn] = Pos(SwapZone, o)
    <3>1. o \in BlockIndex /\ o <= o
      BY <1>2, Geometry DEF BlockIndex
    <3> QED
      BY <1>1, <1>6, <2>1, <3>1 DEF OutInv, SwapLive
  <2>3. Pos(SwapZone, o).zone_id # 0
    BY Geometry DEF Pos
  <2> HIDE DEF b
  <2>4. b.lbn \in Mapped(store) /\ b.data = Content(store)[b.lbn]
    BY <1>5, <2>1, <2>2, <2>3
  <2> QED
    BY <1>4, <1>6, <2>2, <2>4 DEF b
<1>7. CASE ~(o < m)
  <2>1. m = BlocksPerZone - 1 /\ o = BlocksPerZone - 1
    BY <1>1, <1>2, <1>7, StateFacts, Geometry DEF SwapOutLimit, OutInv, SwapCount
  <2>2. ~Written(store, Pos(SwapZone, o))
    BY <1>2, <2>1 DEF Written, Pos
  <2>3. b = gc.temp
    BY <2>2 DEF hodo_GC_read_struct
  <2>4. /\ gc.temp.lbn \in Lbn
        /\ store.mapping_table[gc.temp.lbn] = Pos(k, o - 1)
        /\ store.seq[k][o] = gc.temp
    BY <1>1, <1>2, <2>1, Geometry DEF OutInv
  <2>5. Pos(k, o - 1).zone_id # 0 /\ BlockAt(store, Pos(k, o - 1)) = gc.temp
    <3>1. k # 0 /\ o - 1 + 1 = o
      BY <1>2, StateFacts
    <3> QED
      BY <2>4, <3>1 DEF Pos, BlockAt
  <2> HIDE DEF b
  <2>6. b.lbn \in Mapped(store) /\ b.data = Content(store)[b.lbn]
    BY <1>5, <2>3, <2>4, <2>5
  <2> QED
    BY <1>4, <2>1, <2>6 DEF b
<1> QED
  BY <1>6, <1>7

LEMMA SwapOutInd ==
    ASSUME IndInv, GCSwapOut, TypeOK'
    PROVE  IndInv' /\ Content(store') = Content(store)
<1> DEFINE o == gc.out
           m == store.swap_wp.block_index
           k == store.wp.zone_id
           b == hodo_GC_read_struct(store, Pos(SwapZone, o), gc.temp)
           n == b.lbn
<1>1. /\ gc.pc = "out" /\ OutInv /\ CollectInv /\ o < SwapOutLimit(store, gc.full)
      /\ store' = hodo_write_struct(store, b, n)
      /\ gc' = [gc EXCEPT !.out = @ + 1, !.temp = b]
  BY DEF GCSwapOut, IndInv
<1>2. /\ b \in Buffer /\ n \in Mapped(store) /\ n \in Lbn
      /\ b.data = Content(store)[n]
      /\ \/ o < m /\ store.mapping_table[n] = Pos(SwapZone, o)
         \/ o = BlocksPerZone - 1 /\ m = BlocksPerZone - 1
  BY SwapOutSource DEF Mapped
<1> HIDE DEF b
<1>3. /\ gc'.pc = "out" /\ gc'.full = gc.full /\ gc'.out = o + 1
      /\ gc'.prev_wp = gc.prev_wp /\ gc'.temp = b
  BY <1>1, StateFacts DEF GCState
<1>4. o \in Nat /\ o < BlocksPerZone /\ m \in Nat
      /\ Len(store.seq[SwapZone]) = m
  BY <1>1, StateFacts, ZoneFacts, Geometry DEF SwapOutLimit, OutInv
<1>5. /\ k < SwapZone /\ k \in SeqFiles /\ k \in Nat
      /\ store.wp.block_index = o /\ Len(store.seq[k]) = o
  BY <1>1, <1>4, StateFacts DEF OutInv
<1>6. store.wp = Pos(k, o)
  BY <1>5, StateFacts, ZoneFacts
<1>7. /\ CanAppend(store, n, store.wp, b) /\ Appended(store, store', n, store.wp, b)
      /\ store'.wp = Advanced(store.wp) /\ store'.swap_wp = store.swap_wp
      /\ store'.fault = store.fault
  BY <1>1, <1>2, <1>5, StateFacts, RewriteFields
<1>8. Live(store') /\ Content(store') = [Content(store) EXCEPT ![n] = b.data]
  BY <1>7, StateFacts, AppendLive DEF TypeOK
<1>9. Content(store') = Content(store)
  BY <1>2, <1>8 DEF Content
<1>10. /\ Layout(store')
       /\ store'.wp = IF o = BlocksPerZone - 1 THEN Pos(k + 1, 0) ELSE Pos(k, o + 1)
       /\ Len(store'.seq[k]) = o + 1
       /\ \A y \in SeqFiles : y # k => store'.seq[y] = store.seq[y]
       /\ ClearStart(store'.wp) = k + 1
  <2>1. /\ store \in Store /\ store' \in Store /\ Layout(store)
        /\ store.wp.zone_id < SwapZone
        /\ Len(store.seq[store.wp.zone_id]) = store.wp.block_index
    BY <1>5, StateFacts DEF TypeOK
  <2> HIDE DEF n
  <2>3. SeqAppended(store, store', store.wp, b)
    BY <1>7 DEF Appended, SeqAppended
  <2>2. /\ Layout(store')
        /\ store'.wp = IF store.wp.block_index = BlocksPerZone - 1
                       THEN Pos(k + 1, 0) ELSE Pos(k, store.wp.block_index + 1)
        /\ Len(store'.seq[k]) = store.wp.block_index + 1
        /\ \A y \in SeqFiles : y # k => store'.seq[y] = store.seq[y]
        /\ ClearStart(store'.wp) = k + 1
    BY <1>7, <2>1, <2>3, AppendLayout
  <2> QED
    BY <1>5, <2>2
<1>11. /\ store'.GC_bitmap = (store.GC_bitmap \cup {Pos(k, o)}) \ {store.mapping_table[n]}
       /\ store'.mapping_table[n] = Pos(k, o)
       /\ \A i \in Lbn : i # n => store'.mapping_table[i] = store.mapping_table[i]
  BY <1>2, <1>6, <1>7, StateFacts DEF Appended, Store
<1>12. store'.seq[k][o + 1] = b
  <2>1. store'.seq[k] = Append(store.seq[k], b) /\ store.seq[k] \in Seq(Buffer)
    BY <1>5, <1>7, StateFacts DEF Appended, Store
  <2>2. \A q \in Seq(Buffer) : Append(q, b)[Len(q) + 1] = b
    BY <1>2
  <2> QED
    BY <1>5, <2>1, <2>2
<1>13. store'.seq[SwapZone] = store.seq[SwapZone]
  <2>1. SwapZone \in SeqFiles /\ SwapZone # k
    BY <1>5, ZoneFacts, Geometry
  <2> QED
    BY <1>10, <2>1
<1>14. CollectInv'
  <2>1. \A z \in 1 .. SwapZone - 1 : z >= k + 1 =>
           z >= ClearStart(store.wp) /\ store'.seq[z] = store.seq[z]
    BY <1>5, <1>10, StateFacts, ZoneFacts, Geometry
  <2>2. \A z \in 1 .. SwapZone - 1 : z >= k + 1 /\ ZoneHasHole(store, z)
           => ZoneHasHole(store', z)
    <3>1. \A z \in 1 .. SwapZone - 1 : \A i : z >= k + 1 => Pos(z, i) # Pos(k, o)
      BY <1>5, Geometry DEF Pos
    <3> QED
      BY <1>11, <3>1 DEF ZoneHasHole
  <2>3. /\ store.swap_wp.zone_id = SwapZone
        /\ \A z \in 1 .. SwapZone - 1 :
             z >= ClearStart(store.wp) /\ z > gc.prev_wp.zone_id => Len(store.seq[z]) = 0
        /\ \A z \in 1 .. SwapZone - 1 : z >= ClearStart(store.wp) => ZoneHasHole(store, z)
    BY <1>1 DEF CollectInv
  <2> QED
    BY <1>3, <1>7, <1>10, <2>1, <2>2, <2>3 DEF CollectInv
<1>15. SwapLive(store', o + 1)
  <2> SUFFICES ASSUME NEW j \in BlockIndex, o + 1 <= j, j < m
               PROVE  LET i == store.seq[SwapZone][j + 1].lbn
                      IN  i \in Lbn /\ store'.mapping_table[i] = Pos(SwapZone, j)
    BY <1>7, <1>13 DEF SwapLive
  <2> DEFINE i == store.seq[SwapZone][j + 1].lbn
  <2>1. j \in Nat /\ o <= j /\ j # o
    BY <1>4 DEF BlockIndex
  <2>2. i \in Lbn /\ store.mapping_table[i] = Pos(SwapZone, j)
    BY <1>1, <2>1 DEF OutInv, SwapLive
  <2>3. store.mapping_table[n] = Pos(SwapZone, o)
    BY <1>2, <1>4, <2>1, Geometry
  <2>4. i # n
    BY <2>1, <2>2, <2>3 DEF Pos
  <2> QED
    BY <1>11, <2>2, <2>4
<1>16. SwapFrom(store', o + 1)
  <2> SUFFICES ASSUME NEW p \in store'.GC_bitmap, p.zone_id = SwapZone
               PROVE  p.block_index >= o + 1
    BY DEF SwapFrom
  <2>1. p \in store.GC_bitmap /\ p # store.mapping_table[n]
    <3>1. p # Pos(k, o)
      BY <1>5 DEF Pos
    <3> QED
      BY <1>11, <3>1
  <2>2. /\ p.block_index \in Nat /\ p = Pos(SwapZone, p.block_index)
        /\ p.block_index < m
    BY <1>4, <2>1, StateFacts, ValidWritten DEF Written
  <2>3. p.block_index >= o
    BY <1>1, <2>1 DEF OutInv, SwapFrom
  <2>4. p.block_index # o
    BY <1>2, <1>4, <2>1, <2>2, Geometry
  <2> QED
    BY <1>4, <2>2, <2>3, <2>4
<1>17. ~gc.full => NoBitsFrom(store', k + 1)
  <2> SUFFICES ASSUME ~gc.full, NEW p \in store'.GC_bitmap, p.zone_id < SwapZone
               PROVE  p.zone_id < k + 1
    BY DEF NoBitsFrom
  <2>1. CASE p = Pos(k, o)
    BY <1>5, <2>1 DEF Pos
  <2>2. CASE p # Pos(k, o)
    <3>1. p \in store.GC_bitmap
      BY <1>11, <2>2
    <3>2. p.zone_id < ClearStart(store.wp) /\ p.zone_id \in Nat
      BY <1>1, <3>1, StateFacts, ValidWritten DEF OutInv, NoBitsFrom
    <3> QED
      BY <1>5, <3>2, StateFacts
  <2> QED
    BY <2>1, <2>2
<1>18. OutInv'
  <2>1. SwapCount'
    BY <1>1, <1>3, <1>7 DEF OutInv, SwapCount
  <2>2. gc'.out <= SwapOutLimit(store', gc'.full)
    BY <1>1, <1>3, <1>4, <1>7, Geometry DEF SwapOutLimit
  <2>3. gc'.out = BlocksPerZone => store'.wp.block_index = 0
    BY <1>3, <1>4, <1>10, Geometry DEF Pos
  <2>4. gc'.out < BlocksPerZone =>
          /\ store'.wp.zone_id = k /\ store'.wp.block_index = gc'.out
    BY <1>3, <1>4, <1>10, Geometry DEF Pos
  <2>5. Len(store'.seq[SwapZone]) = store'.swap_wp.block_index
    BY <1>4, <1>7, <1>13
  <2>6. SwapLive(store', gc'.out) /\ SwapFrom(store', gc'.out) /\ gc'.out - 1 = o
    BY <1>3, <1>4, <1>15, <1>16
  <2>7. ~gc'.full => NoBitsFrom(store', ClearStart(store'.wp))
    BY <1>3, <1>10, <1>17
  <2>8. gc'.out < BlocksPerZone =>
          /\ store'.wp.zone_id < SwapZone
          /\ store'.wp.block_index = gc'.out
          /\ Len(store'.seq[store'.wp.zone_id]) = gc'.out
          /\ gc'.temp.lbn \in Lbn
          /\ store'.mapping_table[gc'.temp.lbn] = Pos(store'.wp.zone_id, gc'.out - 1)
          /\ store'.seq[store'.wp.zone_id][gc'.out] = gc'.temp
    BY <1>2, <1>3, <1>5, <1>10, <1>11, <1>12, <2>4, <2>6
  <2> QED
    BY <2>1, <2>2, <2>3, <2>5, <2>6, <2>7, <2>8, Zenon DEF OutInv
<1> QED
  BY <1>3, <1>7, <1>8, <1>9, <1>10, <1>14, <1>18, StateFacts DEF IndInv, NoFault

(* No step of a collection disturbs the invariant or changes a block's     *)
(* content.                                                                *)
LEMMA CollectorInd ==
    ASSUME IndInv, (NoSolidZone(store) /\ CallGC) \/ RunGC
    PROVE  IndInv' /\ Content(store') = Content(store)
<1>1. TypeOK'
  BY CollectorTypeOK
<1>2. NoSolidZone(store) /\ CallGC => IndInv' /\ Content(store') = Content(store)
  BY <1>1, LogInd, StateFacts, BeginInd DEF CallGC, GCBegin
<1> QED
  BY <1>1, <1>2, SwapInInd, ScanDoneInd, ResetFrontInd, SwapOutInd,
     SwapOutDoneInd, ResetSwapInd, ClearInd, ReturnInd DEF CallGC, RunGC, GCStep

--------------------------------------------------------------------------------
(* Theorems *)

LEMMA IndStep == IndInv /\ [SafeNext]_vars => IndInv'
<1> SUFFICES ASSUME IndInv, [SafeNext]_vars PROVE IndInv'
  OBVIOUS
<1>1. CASE SafeNext
  BY <1>1, ClientInd, CollectorInd DEF SafeNext
<1>2. CASE UNCHANGED vars
  BY <1>2 DEF vars, gcvars, IndInv, TypeOK, NoFault, IdleInv, CollectInv, ScanInv, ResetInv,
              SwapCount, OutInv, DrainInv, ClearInv
<1> QED
  BY <1>1, <1>2

(* As long as no client writes into a full log and no collection starts    *)
(* with a zone whose blocks are all valid, table, bitmaps, zone files and  *)
(* write pointers agree in every state, those inside GC() included.        *)
THEOREM Inductive == SafeSpec => []IndInv
<1>1. Init => IndInv
  BY InitInd
<1> QED
  BY <1>1, IndStep, PTL DEF SafeSpec

(* What IndInv says in the words of the properties. *)
LEMMA IndImplies ==
    ASSUME IndInv
    PROVE  /\ NoFault /\ NumbersExact /\ BitmapExact /\ MappingInjective
           /\ LiveReadable /\ LogSequential
<1>0. Live(store) /\ Layout(store) /\ store \in Store
  BY StateFacts
<1>1. NumbersExact
  <2>1. ASSUME NEW i \in store.logical_entry_bitmap
        PROVE  starting_logical_number + i \in Mapped(store)
    <3>1. i \in Entry
      BY <1>0 DEF Store
    <3>2. starting_logical_number + i \in Lbn
          /\ (starting_logical_number + i) - starting_logical_number = i
      BY <3>1, Geometry DEF Entry, Lbn, starting_logical_number
    <3> QED
      BY <1>0, <3>2 DEF Live
  <2>2. ASSUME NEW n \in Mapped(store)
        PROVE  \E i \in store.logical_entry_bitmap : n = starting_logical_number + i
    <3>1. n \in Lbn /\ n - starting_logical_number \in store.logical_entry_bitmap
      BY <1>0 DEF Live, Mapped
    <3>2. n = starting_logical_number + (n - starting_logical_number)
      BY <3>1, Geometry DEF starting_logical_number
    <3> QED
      BY <3>1, <3>2
  <2> QED
    BY <2>1, <2>2 DEF NumbersExact
<1>2. BitmapExact
  BY <1>0 DEF BitmapExact, Live
<1>3. MappingInjective /\ LiveReadable
  BY <1>0 DEF MappingInjective, LiveReadable, Live
<1>4. LogSequential
  <2> SUFFICES ASSUME gc.pc = "idle", NEW z \in 1 .. SwapZone
               PROVE  Len(store.seq[z]) = IF z < store.wp.zone_id THEN BlocksPerZone
                        ELSE IF z = store.wp.zone_id THEN store.wp.block_index ELSE 0
    BY DEF LogSequential
  <2>1. CASE z < store.wp.zone_id
    BY <1>0, <2>1 DEF Layout
  <2>2. CASE z = store.wp.zone_id
    <3>1. ~(z < store.wp.zone_id)
      BY <2>2, StateFacts
    <3> QED
      BY <2>2, <3>1, IdleWp
  <2>3. CASE z > store.wp.zone_id
    <3>1. z >= ClearStart(store.wp) /\ ~(z < store.wp.zone_id) /\ z # store.wp.zone_id
      BY <2>3, StateFacts
    <3> QED
      BY <3>1 DEF IndInv, IdleInv
  <2> QED
    BY <2>1, <2>2, <2>3, StateFacts
<1> QED
  BY <1>1, <1>2, <1>3, <1>4 DEF IndInv

(* No call indexes mapping_table outside its bounds: numbers last as long  *)
(* as the device does, and the numbers that GC() takes from the blocks it  *)
(* reads are always those of mapped blocks.                                *)
THEOREM NeverFaults == SafeSpec => []NoFault
BY Inductive, IndImplies, PTL

(* The number bitmap and the mapping table never disagree. *)
THEOREM NumbersStayExact == SafeSpec => []NumbersExact
BY Inductive, IndImplies, PTL

(* GC_bitmap is exact in every state, so no collection drops a live block  *)
(* or keeps a dead one.                                                    *)
THEOREM BitmapStaysExact == SafeSpec => []BitmapExact
BY Inductive, IndImplies, PTL

(* No two numbers ever share a block. *)
THEOREM MappingStaysInjective == SafeSpec => []MappingInjective
BY Inductive, IndImplies, PTL

(* Every mapped number can be read at every moment, within a collection    *)
(* too, and the block found carries its number.                            *)
THEOREM LiveStaysReadable == SafeSpec => []LiveReadable
BY Inductive, IndImplies, PTL

(* Between collections every write of hodo falls on zonefs' write pointer. *)
THEOREM LogStaysSequential == SafeSpec => []LogSequential
BY Inductive, IndImplies, PTL

(* No step of GC() changes what any number reads as. *)
THEOREM CollectionInvisible == SafeSpec => GCInvisible
<1>1. IndInv /\ [SafeNext]_vars => [gc' # gc => Content(store') = Content(store)]_vars
  <2> SUFFICES ASSUME IndInv, SafeNext, gc' # gc
               PROVE  Content(store') = Content(store)
    OBVIOUS
  <2>1. ~ClientNext
    BY DEF ClientNext, NewInode, NewData, Update
  <2> QED
    BY <2>1, CollectorInd DEF SafeNext
<1> QED
  BY <1>1, Inductive, PTL DEF SafeSpec, GCInvisible

(* The log and its collector implement the block store: the refinement     *)
(* maps the store to what each number reads as.                            *)
THEOREM Refinement == SafeSpec => ImplementsBlockStore
<1>1. Init => Abstract!Init
  <2> SUFFICES ASSUME Init PROVE Abstract!Init
    OBVIOUS
  <2> QED
    BY InitInd DEF Abstract!Init
<1>2. IndInv /\ [SafeNext]_vars => [Abstract!Next]_(Content(store))
  <2> SUFFICES ASSUME IndInv, [SafeNext]_vars
               PROVE  Abstract!Next \/ Content(store') = Content(store)
    OBVIOUS
  <2>1. CASE HasRoom(store) /\ ClientNext
    BY <2>1, ClientInd DEF Abstract!Next, Abstract!Write
  <2>2. CASE (NoSolidZone(store) /\ CallGC) \/ RunGC
    BY <2>2, CollectorInd
  <2>3. CASE UNCHANGED vars
    BY <2>3 DEF vars, gcvars, Content, Mapped, Written, BlockAt
  <2> QED
    BY <2>1, <2>2, <2>3 DEF SafeNext
<1> QED
  BY <1>1, <1>2, Inductive, PTL DEF SafeSpec, ImplementsBlockStore, Abstract!Spec
================================================================================
