-------------------------------- MODULE HodoLog --------------------------------
(***************************************************************************)
(* The log as a whole: the writers of hodo.c and trans.c, reduced to the   *)
(* calls they make on the logical-to-physical layer, and the collector.    *)
(* One system call runs at a time; a collection runs to its end inside the *)
(* mkdir that called it.                                                   *)
(*                                                                         *)
(* Spec is what the code does. The code checks neither that the device has *)
(* room nor that the collector can keep its copies; SafeSpec is the part   *)
(* of Spec in which both hold, the envelope in which the layer keeps the   *)
(* promise of BlockStore.                                                  *)
(***************************************************************************)
EXTENDS HodoGC

CONSTANT Data    \* what clients store in a block

ASSUME NilAssumption == Nil \notin Data

vars == gcvars

MkBlock(m, n, d) == [magic |-> m, lbn |-> n, data |-> d]

(* mapping_info as a zero-filled global, after the formatted device gave   *)
(* hodo_read_on_disk_mapping_info nothing to read and hodo_init has moved  *)
(* the write pointers.                                                     *)
FormattedStore ==
    [mapping_table        |-> [n \in Lbn |-> Pos(0, 0)],
     logical_entry_bitmap |-> {},
     GC_bitmap            |-> {},
     wp                   |-> Pos(1, 0),
     swap_wp              |-> Pos(SwapZone, 0),
     seq                  |-> [z \in SeqFiles |-> << >>],
     fault                |-> FALSE]

(* hodo_create and hodo_mkdir take a number first and write an inode that  *)
(* carries it.                                                             *)
NewInodeStore(s, d) ==
    LET n == hodo_get_next_logical_number(s)
    IN  hodo_write_struct(hodo_set_logical_bitmap(s, n), MkBlock("INO", n, d), n)

(* hodo_init ends by writing the root inode, number starting_logical_number. *)
Init ==
    /\ \E d \in Data : store = NewInodeStore(FormattedStore, d)
    /\ gc = GCIdle

--------------------------------------------------------------------------------
(* Client operations, outside a collection *)

(* The numbers whose table entry points at a block. *)
Mapped(s) == {n \in Lbn : s.mapping_table[n].zone_id # 0}

NewInode(d) ==
    /\ gc.pc = "idle" /\ ~store.fault
    /\ store' = NewInodeStore(store, d)
    /\ UNCHANGED gc

(* A first write of a data block: write_one_block_by_direct_block and      *)
(* add_dirent pass a number of NEW_DATABLOCK.                              *)
NewData(d) ==
    /\ gc.pc = "idle" /\ ~store.fault
    /\ store' = hodo_write_struct(store, MkBlock("DAT", 0, d), NEW_DATABLOCK)
    /\ UNCHANGED gc

(* A block that was read, changed and is written back under its number. *)
Update(n, d) ==
    /\ gc.pc = "idle" /\ ~store.fault
    /\ LET old == hodo_read_struct(store, n, ZeroBlock(Nil))
       IN  store' = hodo_write_struct(store, [old EXCEPT !.data = d], n)
    /\ UNCHANGED gc

--------------------------------------------------------------------------------
(* The envelope of SafeSpec *)

(* The log has not reached the swap zone. *)
HasRoom(s) == s.wp.zone_id < SwapZone

(* Every data zone has a block that is not valid: the collector copies out *)
(* BlocksPerZone-1 blocks before it resets a zone.                         *)
ZoneHasHole(s, z) == \E b \in BlockIndex : Pos(z, b) \notin s.GC_bitmap

NoSolidZone(s) == \A z \in 1 .. SwapZone - 1 : ZoneHasHole(s, z)

ClientNext ==
    \E d \in Data :
        \/ NewInode(d)
        \/ NewData(d)
        \/ \E n \in Mapped(store) : Update(n, d)

(* hodo_mkdir ends with a call of GC. *)
CallGC == ~store.fault /\ GCBegin

RunGC == ~store.fault /\ GCStep

Next == ClientNext \/ CallGC \/ RunGC

SafeNext ==
    \/ HasRoom(store) /\ ClientNext
    \/ NoSolidZone(store) /\ CallGC
    \/ RunGC

(* A collection is straight-line code: once called it keeps running. *)
Fairness == WF_vars(RunGC)

Spec == Init /\ [][Next]_vars /\ Fairness

SafeSpec == Init /\ [][SafeNext]_vars /\ Fairness

--------------------------------------------------------------------------------
(* Properties *)

Buffer == [magic : {"DAT", "INO", ""}, lbn : Lbn \cup {0}, data : Data \cup {Nil}]

Store ==
    [mapping_table        : [Lbn -> BlockPos],
     logical_entry_bitmap : SUBSET Entry,
     GC_bitmap            : SUBSET BlockPos,
     wp                   : BlockPos,
     swap_wp              : BlockPos,
     seq                  : [SeqFiles -> Seq(Buffer)],
     fault                : BOOLEAN]

OutRange == 0 .. BlocksPerZone + NZones

GCState ==
    [pc      : {"idle", "scan", "reset", "out", "drain", "clear"},
     full    : BOOLEAN,
     out     : OutRange,
     prev_wp : BlockPos,
     temp    : Buffer]

(* The types of mapping_info, of the zone files and of the collector's     *)
(* locals (hodo.h).                                                        *)
TypeOK == store \in Store /\ gc \in GCState

(* No call ever indexes mapping_table outside its bounds: the numbers that *)
(* the collector reads back from blocks (trans.c:68-75) are those of       *)
(* mapped blocks, and hodo_get_next_logical_number never runs out before   *)
(* the device does.                                                        *)
NoFault == ~store.fault

(* The number of every mapped block is in use, and no other is. *)
NumbersExact ==
    Mapped(store) = {starting_logical_number + i : i \in store.logical_entry_bitmap}

(* GC_bitmap is 1 exactly at the positions the table points to, in every   *)
(* state of a collection too: a missing bit would lose a block at the next *)
(* collection, a stale one would make the collector copy garbage.          *)
BitmapExact ==
    store.GC_bitmap = {store.mapping_table[n] : n \in Mapped(store)}

(* No two numbers share a position. *)
MappingInjective ==
    \A m, n \in Mapped(store) :
        store.mapping_table[m] = store.mapping_table[n] => m = n

BlockAt(s, p) == s.seq[p.zone_id][p.block_index + 1]

(* The table never points at a block that was not written, or was wiped by *)
(* a zone reset, or belongs to another number.                             *)
LiveReadable ==
    \A n \in Mapped(store) :
        /\ Written(store, store.mapping_table[n])
        /\ BlockAt(store, store.mapping_table[n]).lbn = n

(* Outside a collection the next write will be accepted by zonefs: wp is   *)
(* z_wpoffset of its zone, the data zones behind it are full and all those *)
(* after it, the swap zone included, are empty.                            *)
LogSequential ==
    gc.pc = "idle" =>
        \A z \in 1 .. SwapZone :
            Len(store.seq[z]) = IF z < store.wp.zone_id THEN BlocksPerZone
                                ELSE IF z = store.wp.zone_id THEN store.wp.block_index
                                ELSE 0

(* The zone the collector swaps through is reserved for it: outside a      *)
(* collection no block lives there (README.md:102).                        *)
SwapZoneReserved ==
    gc.pc = "idle" =>
        \A n \in Mapped(store) : store.mapping_table[n].zone_id # SwapZone

(* What a read of each number returns. *)
Content(s) ==
    [n \in Lbn |-> IF n \in Mapped(s) /\ Written(s, s.mapping_table[n])
                   THEN BlockAt(s, s.mapping_table[n]).data ELSE Nil]

Abstract == INSTANCE BlockStore WITH Number <- Lbn, content <- Content(store)

(* The log implements the block store: a step changes what at most one     *)
(* number reads as, and no number loses its content.                       *)
ImplementsBlockStore == Abstract!Spec

(* No step of a collection changes what any number reads as, so a read     *)
(* that falls between two steps of GC() sees the block it would have seen  *)
(* before.                                                                 *)
GCInvisible == [][gc' # gc => Content(store') = Content(store)]_vars

(* A collection leaves no garbage but one block for every zone it filled   *)
(* (the copy-out of a full swap zone writes its last block twice).         *)
GCReclaims ==
    [][gc.pc # "idle" /\ gc'.pc = "idle" =>
         (store'.wp.zone_id - 1) * (BlocksPerZone - 1) + store'.wp.block_index
            = Cardinality(Mapped(store'))]_vars

(* A collection that was called comes to its end. *)
GCTerminates == gc.pc # "idle" ~> gc.pc = "idle"

--------------------------------------------------------------------------------
(* The inductive invariant of SafeSpec *)

(* Table, bitmaps and blocks agree. *)
Live(s) ==
    /\ \A n \in Lbn : n \in Mapped(s)
          <=> n - starting_logical_number \in s.logical_entry_bitmap
    /\ \A n \in Mapped(s) :
          /\ s.mapping_table[n] \in s.GC_bitmap
          /\ Written(s, s.mapping_table[n])
          /\ BlockAt(s, s.mapping_table[n]).lbn = n
    /\ \A p \in s.GC_bitmap : \E n \in Mapped(s) : s.mapping_table[n] = p
    /\ \A m, n \in Mapped(s) : s.mapping_table[m] = s.mapping_table[n] => m = n

(* The part of the log before wp is written, and wp is where zonefs will   *)
(* take the next block of a zone that has some.                            *)
Layout(s) ==
    /\ s.wp.zone_id \in 1 .. SwapZone
    /\ s.wp.zone_id = SwapZone => s.wp.block_index = 0
    /\ \A z \in 1 .. SwapZone : z < s.wp.zone_id => Len(s.seq[z]) = BlocksPerZone
    /\ s.wp.block_index # 0 => Len(s.seq[s.wp.zone_id]) = s.wp.block_index

(* Nothing is valid in the data zones from c on. *)
NoBitsFrom(s, c) == \A p \in s.GC_bitmap : p.zone_id < SwapZone => p.zone_id < c

(* The swap blocks from i on are the ones the table points to. *)
SwapLive(s, i) ==
    \A j \in BlockIndex : i <= j /\ j < s.swap_wp.block_index =>
        LET n == s.seq[SwapZone][j + 1].lbn
        IN  n \in Lbn /\ s.mapping_table[n] = Pos(SwapZone, j)

(* Valid swap blocks are at i or after it. *)
SwapFrom(s, i) ==
    \A p \in s.GC_bitmap : p.zone_id = SwapZone => p.block_index >= i

IdleInv ==
    \A z \in 1 .. SwapZone : z >= ClearStart(store.wp) => Len(store.seq[z]) = 0

(* In a collection: zones behind both ends of the log are empty. *)
CollectInv ==
    /\ store.swap_wp.zone_id = SwapZone
    /\ \A z \in 1 .. SwapZone - 1 :
          z >= ClearStart(store.wp) /\ z > gc.prev_wp.zone_id => Len(store.seq[z]) = 0
    /\ gc.pc # "clear" =>
          \A z \in 1 .. SwapZone - 1 : z >= ClearStart(store.wp) => ZoneHasHole(store, z)

(* While blocks are copied in, the zone under wp has fewer valid blocks    *)
(* left than the swap zone has room: they lie at or after the index that   *)
(* the swap pointer has reached, and one of those is a hole.               *)
ScanInv ==
    LET k == store.wp.zone_id
        m == store.swap_wp.block_index
    IN  /\ store.wp.block_index = 0
        /\ m < BlocksPerZone - 1
        /\ Len(store.seq[SwapZone]) = m
        /\ SwapLive(store, 0)
        /\ m > 0 => k < SwapZone
        /\ \A p \in store.GC_bitmap : p.zone_id = k /\ k < SwapZone => p.block_index >= m
        /\ k < SwapZone =>
             \E h \in BlockIndex : h >= m /\ Pos(k, h) \notin store.GC_bitmap

(* How many blocks wait in the swap zone. *)
SwapCount ==
    /\ store.swap_wp.block_index > 0
    /\ IF gc.full THEN store.swap_wp.block_index = BlocksPerZone - 1
                  ELSE store.swap_wp.block_index < BlocksPerZone - 1

ResetInv ==
    /\ store.wp.block_index = 0 /\ store.wp.zone_id < SwapZone
    /\ SwapCount
    /\ gc.out = 0
    /\ Len(store.seq[SwapZone]) = store.swap_wp.block_index
    /\ SwapLive(store, 0)
    /\ \A p \in store.GC_bitmap : p.zone_id # store.wp.zone_id
    /\ ~gc.full => NoBitsFrom(store, store.wp.zone_id)

(* The copies that were written back are at the end of the log, the last   *)
(* one also in temp_datablock; the others are still valid in swap.         *)
OutInv ==
    /\ SwapCount
    /\ gc.out <= SwapOutLimit(store, gc.full)
    /\ Len(store.seq[SwapZone]) = store.swap_wp.block_index
    /\ SwapLive(store, gc.out) /\ SwapFrom(store, gc.out)
    /\ ~gc.full => NoBitsFrom(store, ClearStart(store.wp))
    /\ gc.out = BlocksPerZone => store.wp.block_index = 0
    /\ gc.out < BlocksPerZone =>
         /\ store.wp.zone_id < SwapZone
         /\ store.wp.block_index = gc.out
         /\ Len(store.seq[store.wp.zone_id]) = gc.out
         /\ gc.out > 0 =>
              /\ gc.temp.lbn \in Lbn
              /\ store.mapping_table[gc.temp.lbn] = Pos(store.wp.zone_id, gc.out - 1)
              /\ store.seq[store.wp.zone_id][gc.out] = gc.temp

DrainInv ==
    /\ \A p \in store.GC_bitmap : p.zone_id # SwapZone
    /\ gc.full => store.wp.block_index = 0
    /\ ~gc.full => NoBitsFrom(store, ClearStart(store.wp))

ClearInv ==
    /\ gc.out >= ClearStart(store.wp)
    /\ Len(store.seq[SwapZone]) = 0
    /\ NoBitsFrom(store, ClearStart(store.wp))
    /\ \A z \in 1 .. SwapZone :
          z >= ClearStart(store.wp) /\ z < gc.out => Len(store.seq[z]) = 0

(* In every state of SafeSpec the table, the bitmaps and the zone files    *)
(* agree, and each phase of GC() has left what the next one relies on.     *)
IndInv ==
    /\ TypeOK
    /\ NoFault
    /\ Live(store)
    /\ Layout(store)
    /\ gc.pc = "idle" => IdleInv
    /\ gc.pc # "idle" => CollectInv
    /\ gc.pc = "scan" => ScanInv
    /\ gc.pc = "reset" => ResetInv
    /\ gc.pc = "out" => OutInv
    /\ gc.pc = "drain" => DrainInv
    /\ gc.pc = "clear" => ClearInv

================================================================================
