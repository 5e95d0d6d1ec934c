------------------------------ MODULE MappingInfo ------------------------------
(***************************************************************************)
(* The logical-to-physical layer of hodo (trans.c): the global             *)
(* `mapping_info` (hodo.h, struct hodo_mapping_info) together with the     *)
(* contents of the zone files seq/0, seq/1, ... it describes.              *)
(*                                                                         *)
(* Everything here is an operator on one record, the store:                *)
(*   mapping_table        logical number -> position of its latest block   *)
(*   logical_entry_bitmap the table indices whose bit is 1 (in use)        *)
(*   GC_bitmap            the positions whose bit is 1 (valid)             *)
(*   wp, swap_wp          the log's write pointer, and the collector's     *)
(*   seq                  zone file -> the blocks written since its reset; *)
(*                        Len(seq[z]) is zonefs' z_wpoffset in blocks      *)
(*   fault                an index outside mapping_table was used          *)
(* so that an operation that issues several writes is a composition of     *)
(* the operators below.                                                    *)
(*                                                                         *)
(* A block is [magic, lbn, data]: `lbn` is the logical number carried by   *)
(* the block itself, hodo_datablock.logical_block_number or                *)
(* hodo_inode.i_ino, which the collector trusts.                           *)
(***************************************************************************)
EXTENDS Integers, Sequences, FiniteSets

CONSTANTS NZones,         \* hodo_nr_zones, equal to NUMBER_ZONES
          BlocksPerZone   \* BLOCKS_PER_ZONE, equal to hodo_zone_size / 4096

(* Device zone 0 holds the zonefs super block, so zone files are numbered  *)
(* 0 .. NZones-2; seq/0 is set aside for mapping information and seq/      *)
(* NZones-2 for the collector, which leaves at least one zone for data.    *)
ASSUME GeometryAssumption ==
    /\ NZones \in Nat /\ NZones >= 4
    /\ BlocksPerZone \in Nat /\ BlocksPerZone >= 2

--------------------------------------------------------------------------------
(* Geometry *)

ZoneId == 0 .. NZones - 1

SeqFiles == 0 .. NZones - 2

SwapZone == NZones - 2

BlockIndex == 0 .. BlocksPerZone - 1

BlockPos == [zone_id : ZoneId, block_index : BlockIndex]

Pos(z, b) == [zone_id |-> z, block_index |-> b]

NEntries == NZones * BlocksPerZone

starting_logical_number == NZones

Entry == 0 .. NEntries - 1

Lbn == starting_logical_number .. starting_logical_number + NEntries - 1

(* NEW_DATABLOCK asks hodo_write_struct for a number; NoNumber is the -1   *)
(* of a full bitmap.                                                       *)
NEW_DATABLOCK == 0

NoNumber == -1

(* A zero-filled buffer, what an unread buffer holds in the documented     *)
(* kernel configuration (init_on_alloc, automatic variables zeroed).       *)
ZeroBlock(nil) == [magic |-> "", lbn |-> 0, data |-> nil]

--------------------------------------------------------------------------------
(* zonefs, as the calls of trans.c use it *)

(* zonefs_file_dio_write: the write is accepted only at z_wpoffset; a      *)
(* missing zone file or a refused offset leaves the device as it is.       *)
zonefs_write(seq, at, block) ==
    IF at.zone_id \in SeqFiles /\ at.block_index = Len(seq[at.zone_id])
    THEN [seq EXCEPT ![at.zone_id] = Append(@, block)]
    ELSE seq

(* zonefs_file_truncate(inode, 0): a zone reset. kern_path fails for a     *)
(* zone file that does not exist and nothing happens.                      *)
zonefs_reset(s, z) ==
    IF z \in SeqFiles THEN [s EXCEPT !.seq[z] = << >>] ELSE s

(* Is there a written block at position p? *)
Written(s, p) ==
    p.zone_id \in SeqFiles /\ p.block_index < Len(s.seq[p.zone_id])

--------------------------------------------------------------------------------
(* Numbers *)

(* hodo_get_next_logical_number: the first entry whose bit is 0. *)
FreeEntries(s) == Entry \ s.logical_entry_bitmap

hodo_get_next_logical_number(s) ==
    IF FreeEntries(s) = {} THEN NoNumber
    ELSE starting_logical_number
         + (CHOOSE i \in FreeEntries(s) : \A j \in FreeEntries(s) : i <= j)

(* ... and the bit it leaves set. *)
hodo_set_logical_bitmap(s, n) ==
    IF n = NoNumber THEN s
    ELSE [s EXCEPT !.logical_entry_bitmap = @ \cup {n - starting_logical_number}]

Faulted(s) == [s EXCEPT !.fault = TRUE]

(* hodo_erase_table_entry: only the zone of the entry is cleared, and the  *)
(* bit at index n (not n - starting_logical_number) is set to 0.           *)
hodo_erase_table_entry(s, n) ==
    IF n \notin Lbn THEN Faulted(s)
    ELSE [s EXCEPT !.mapping_table[n].zone_id = 0,
                   !.logical_entry_bitmap = @ \ {n}]

--------------------------------------------------------------------------------
(* Reading *)

(* hodo_GC_read_struct: reading at or past the end of the zone file        *)
(* returns 0 bytes and leaves the buffer as it was.                        *)
hodo_GC_read_struct(s, p, buf) ==
    IF Written(s, p) THEN s.seq[p.zone_id][p.block_index + 1] ELSE buf

(* hodo_read_struct: the same through the mapping table. *)
hodo_read_struct(s, n, buf) == hodo_GC_read_struct(s, s.mapping_table[n], buf)

(* Mutant: the scan stops one data zone early. *)
ValidFrom_ShortScan(s) ==
    {p \in s.GC_bitmap : p.zone_id >= s.wp.zone_id /\ p.zone_id < SwapZone - 1}

(* hodo_get_next_GC_valid: the first valid position of the data zones,     *)
(* from the zone of wp on; {0,0} when there is none.                       *)
ValidFrom(s) ==
    {p \in s.GC_bitmap : p.zone_id >= s.wp.zone_id /\ p.zone_id < SwapZone}

Before(p, q) ==
    \/ p.zone_id < q.zone_id
    \/ p.zone_id = q.zone_id /\ p.block_index <= q.block_index

(* Mutant: the scan begins after the zone of wp. *)
hodo_get_next_GC_valid_SkipsFront(s) ==
    LET valid == {p \in ValidFrom(s) : p.zone_id > s.wp.zone_id}
    IN  IF valid = {} THEN Pos(0, 0)
        ELSE CHOOSE p \in valid : \A q \in valid : Before(p, q)

hodo_get_next_GC_valid(s) ==
    IF ValidFrom(s) = {} THEN Pos(0, 0)
    ELSE CHOOSE p \in ValidFrom(s) : \A q \in ValidFrom(s) : Before(p, q)

--------------------------------------------------------------------------------
(* Writing *)

(* Mutant: the number never reaches the block. *)
Stamped_Unstamped(buf, n) == buf

(* The number is stamped into data blocks (magic "DAT"); an inode keeps    *)
(* the i_ino its caller gave it.                                           *)
Stamped(buf, n) == IF buf.magic = "DAT" THEN [buf EXCEPT !.lbn = n] ELSE buf

(* Mutant: the end of a zone is noticed one block late. *)
Advanced_PastEnd(p) ==
    IF p.zone_id \notin SeqFiles THEN p
    ELSE IF p.block_index = BlocksPerZone THEN Pos(p.zone_id + 1, 0)
    ELSE Pos(p.zone_id, p.block_index + 1)

(* Where the write pointer goes after a write at p: filp_open fails for a  *)
(* zone file that does not exist, and the early return leaves wp there.    *)
Advanced(p) ==
    IF p.zone_id \notin SeqFiles THEN p
    ELSE IF p.block_index = BlocksPerZone - 1 THEN Pos(p.zone_id + 1, 0)
    ELSE Pos(p.zone_id, p.block_index + 1)

(* Mutant: the replaced block stays valid. *)
WriteAt_KeepsOldBit(s, buf, n, old) ==
    IF n \notin Lbn THEN Faulted(s)
    ELSE [s EXCEPT
            !.mapping_table[n] = s.wp,
            !.GC_bitmap = @ \cup {s.wp},
            !.wp = Advanced(s.wp),
            !.seq = zonefs_write(@, s.wp, Stamped(buf, n))]

(* The body of hodo_write_struct once the number n is known; old holds the *)
(* positions whose valid bit the call clears. The result of the device     *)
(* write is not looked at: table, bitmap and wp move whatever it was.      *)
WriteAt(s, buf, n, old) ==
    IF n \notin Lbn THEN Faulted(s)
    ELSE [s EXCEPT
            !.mapping_table[n] = s.wp,
            !.GC_bitmap = (@ \cup {s.wp}) \ old,
            !.wp = Advanced(s.wp),
            !.seq = zonefs_write(@, s.wp, Stamped(buf, n))]

(* Mutant: the number is used and not marked. *)
hodo_write_new_Unmarked(s, buf) ==
    WriteAt(s, buf, hodo_get_next_logical_number(s), {})

(* hodo_write_struct with *logical_block_number = NEW_DATABLOCK: the       *)
(* number is allocated and no position is invalidated.                     *)
hodo_write_new(s, buf) ==
    LET n == hodo_get_next_logical_number(s)
    IN  WriteAt(hodo_set_logical_bitmap(s, n), buf, n, {})

(* hodo_write_struct with a number: the block the table held for it        *)
(* becomes invalid.                                                        *)
hodo_write_struct(s, buf, n) ==
    IF n = NEW_DATABLOCK THEN hodo_write_new(s, buf)
    ELSE IF n \notin Lbn THEN Faulted(s)
    ELSE WriteAt(s, buf, n, {s.mapping_table[n]})

(* Mutant: swap_wp stays where it is. *)
hodo_GC_write_struct_NoAdvance(s, buf, n) ==
    IF n \notin Lbn THEN Faulted(s)
    ELSE [s EXCEPT
            !.mapping_table[n] = s.swap_wp,
            !.GC_bitmap = (@ \cup {s.swap_wp}) \ {s.mapping_table[n]},
            !.seq = zonefs_write(@, s.swap_wp, buf)]

(* hodo_GC_write_struct: the same at swap_wp, which stays on the last      *)
(* block of its zone instead of leaving it.                                *)
hodo_GC_write_struct(s, buf, n) ==
    IF n \notin Lbn THEN Faulted(s)
    ELSE [s EXCEPT
            !.mapping_table[n] = s.swap_wp,
            !.GC_bitmap = (@ \cup {s.swap_wp}) \ {s.mapping_table[n]},
            !.swap_wp = IF @.block_index = BlocksPerZone - 1 THEN @
                        ELSE Pos(@.zone_id, @.block_index + 1),
            !.seq = zonefs_write(@, s.swap_wp, buf)]

================================================================================
