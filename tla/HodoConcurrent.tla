----------------------------- MODULE HodoConcurrent ----------------------------
(***************************************************************************)
(* hodo_write_struct and hodo_read_struct (trans.c) step by step, called   *)
(* by several processes and beside a collection. mapping_info has no lock: *)
(* the VFS serialises the calls that change one directory, and nothing     *)
(* else. A step is an access to mapping_info or to a zone file. One        *)
(* process at a time is in GC(): two collections at once are not modelled. *)
(*                                                                         *)
(* proc holds the locals of the call a process is in:                      *)
(*   pc     "idle"; for a writer "begin", "number", "mark", "table",       *)
(*          "device", "advance"; for a reader "read", "done"               *)
(*   n, d   the number and the content                                     *)
(*   at     zone_id and offset as fetched from wp, or from the table       *)
(*   quiet  of a read: nobody has written n since it began                 *)
(* kept is history: what the last write of a number that returned stored;  *)
(* mine the numbers a writer has been given.                               *)
(***************************************************************************)
EXTENDS HodoLog

CONSTANTS Writers, Readers,   \* processes
          FailingDevice,      \* may a device write fail?
          MaxCalls            \* a bound on the writes of a run

ASSUME ConcurrentAssumption ==
    Writers \cap Readers = {} /\ FailingDevice \in BOOLEAN /\ MaxCalls \in Nat

VARIABLES proc, mine, kept, failed, calls

concvars == <<store, gc, proc, mine, kept, failed, calls>>

Idle == [pc |-> "idle", n |-> 0, d |-> Nil, at |-> Pos(0, 0), quiet |-> TRUE]

(* A mounted file system, with one block written by no process here. *)
MountedStore(d) == hodo_write_new(FormattedStore, MkBlock("DAT", 0, d))

ConcInit ==
    /\ \E d \in Data :
          /\ store = MountedStore(d)
          /\ kept = [n \in Lbn |-> IF n = starting_logical_number THEN d ELSE Nil]
    /\ gc = GCIdle
    /\ proc = [p \in Writers \cup Readers |-> Idle]
    /\ mine = [p \in Writers |-> {}]
    /\ failed = FALSE
    /\ calls = 0

At(p, pc) == proc[p].pc = pc

Writing(p) == p \in Writers /\ ~At(p, "idle")

--------------------------------------------------------------------------------
(* hodo_write_struct *)

(* The call begins: zone_id and offset are taken from wp. *)
BeginWrite(p, n, d) ==
    /\ At(p, "idle")
    /\ n \in mine[p] \cup {NEW_DATABLOCK}
    /\ calls < MaxCalls /\ calls' = calls + 1
    /\ proc' = [q \in DOMAIN proc |->
                  IF q = p THEN [Idle EXCEPT !.pc = "begin", !.n = n, !.d = d,
                                             !.at = store.wp]
                  ELSE [proc[q] EXCEPT !.quiet = @ /\ (n = NEW_DATABLOCK \/ proc[q].n # n)]]
    /\ UNCHANGED <<store, gc, mine, kept, failed>>

(* hodo_set_GC_bitmap, at wp as it is now. *)
SetValid(p) ==
    /\ At(p, "begin")
    /\ store' = [store EXCEPT !.GC_bitmap = @ \cup {store.wp}]
    /\ proc' = [proc EXCEPT ![p] = [@ EXCEPT !.pc = "number"]]
    /\ UNCHANGED <<gc, mine, kept, failed, calls>>

(* A new block: hodo_get_next_logical_number finds a bit that is 0 ... *)
FindNumber(p) ==
    /\ At(p, "number") /\ proc[p].n = NEW_DATABLOCK
    /\ proc' = [proc EXCEPT ![p] =
                  [@ EXCEPT !.n = hodo_get_next_logical_number(store), !.pc = "mark"]]
    /\ UNCHANGED <<store, gc, mine, kept, failed, calls>>

(* Mutant: the bit stays 0. *)
MarkNumber_Unmarked(p) ==
    /\ At(p, "mark")
    /\ proc' = [proc EXCEPT ![p] = [@ EXCEPT !.pc = "table"]]
    /\ UNCHANGED <<store, gc, mine, kept, failed, calls>>

(* ... and sets it. *)
MarkNumber(p) ==
    /\ At(p, "mark")
    /\ store' = hodo_set_logical_bitmap(store, proc[p].n)
    /\ proc' = [proc EXCEPT ![p] = [@ EXCEPT !.pc = "table"]]
    /\ UNCHANGED <<gc, mine, kept, failed, calls>>

(* A block that is rewritten: the bit of its old place is cleared. *)
ClearOld(p) ==
    /\ At(p, "number") /\ proc[p].n # NEW_DATABLOCK
    /\ store' = [store EXCEPT !.GC_bitmap = @ \ {store.mapping_table[proc[p].n]}]
    /\ proc' = [proc EXCEPT ![p] = [@ EXCEPT !.pc = "table"]]
    /\ UNCHANGED <<gc, mine, kept, failed, calls>>

(* Mutant: the table gets the position after the block. *)
SetTable_Next(p) ==
    /\ At(p, "table")
    /\ store' = [store EXCEPT !.mapping_table[proc[p].n] = Advanced(store.wp)]
    /\ proc' = [proc EXCEPT ![p] = [@ EXCEPT !.pc = "device"]]
    /\ UNCHANGED <<gc, mine, kept, failed, calls>>

(* The table entry is taken from wp as it is now. *)
SetTable(p) ==
    /\ At(p, "table")
    /\ store' = [store EXCEPT !.mapping_table[proc[p].n] = store.wp]
    /\ proc' = [proc EXCEPT ![p] = [@ EXCEPT !.pc = "device"]]
    /\ UNCHANGED <<gc, mine, kept, failed, calls>>

(* Mutant: the offset is one block too far. *)
DeviceWrite_NextBlock(p) ==
    /\ At(p, "device")
    /\ store' = [store EXCEPT !.seq = zonefs_write(@, Advanced(proc[p].at),
                                                   MkBlock("DAT", proc[p].n, proc[p].d))]
    /\ proc' = [proc EXCEPT ![p] = [@ EXCEPT !.pc = "advance"]]
    /\ UNCHANGED <<gc, mine, kept, failed, calls>>

(* The zone is written at the offset fetched in the beginning; zonefs      *)
(* takes it only at its own write pointer.                                 *)
DeviceWrite(p) ==
    /\ At(p, "device")
    /\ store' = [store EXCEPT !.seq = zonefs_write(@, proc[p].at,
                                                   MkBlock("DAT", proc[p].n, proc[p].d))]
    /\ proc' = [proc EXCEPT ![p] = [@ EXCEPT !.pc = "advance"]]
    /\ UNCHANGED <<gc, mine, kept, failed, calls>>

(* The device reports an error, once: the call goes on as if it had not. *)
DeviceFails(p) ==
    /\ FailingDevice /\ ~failed /\ At(p, "device")
    /\ failed' = TRUE
    /\ proc' = [proc EXCEPT ![p] = [@ EXCEPT !.pc = "advance", !.d = Nil]]
    /\ UNCHANGED <<store, gc, mine, kept, calls>>

(* Mutant: the index is the one fetched in the beginning. *)
NextWp_Stays(p) ==
    IF proc[p].at.block_index = BlocksPerZone - 1 THEN Pos(proc[p].at.zone_id + 1, 0)
    ELSE Pos(proc[p].at.zone_id, proc[p].at.block_index)

(* Where wp goes: the zone fetched in the beginning, the index as it is    *)
(* now plus one.                                                           *)
NextWp(p) ==
    IF proc[p].at.block_index = BlocksPerZone - 1 THEN Pos(proc[p].at.zone_id + 1, 0)
    ELSE Pos(proc[p].at.zone_id, store.wp.block_index + 1)

Advance(p) ==
    /\ At(p, "advance")
    /\ store' = [store EXCEPT !.wp = NextWp(p)]
    /\ mine' = [mine EXCEPT ![p] = @ \cup {proc[p].n}]
    /\ kept' = [kept EXCEPT ![proc[p].n] = proc[p].d]
    /\ proc' = [proc EXCEPT ![p] = Idle]
    /\ UNCHANGED <<gc, failed, calls>>

WriteStep(p) ==
    \/ SetValid(p)
    \/ FindNumber(p)
    \/ MarkNumber(p)
    \/ ClearOld(p)
    \/ SetTable(p)
    \/ DeviceWrite(p)
    \/ Advance(p)

--------------------------------------------------------------------------------
(* hodo_read_struct *)

(* The position is fetched from the table ... *)
BeginRead(r, n) ==
    /\ At(r, "idle") /\ kept[n] # Nil
    /\ proc' = [proc EXCEPT ![r] =
                  [Idle EXCEPT !.pc = "read", !.n = n, !.at = store.mapping_table[n],
                               !.quiet = \A p \in Writers : proc[p].n # n]]
    /\ UNCHANGED <<store, gc, mine, kept, failed, calls>>

(* ... and the zone file is read there. *)
ReadBlock(r) ==
    /\ At(r, "read")
    /\ proc' = [proc EXCEPT ![r] =
                  [@ EXCEPT !.pc = "done",
                            !.d = hodo_GC_read_struct(store, proc[r].at,
                                                     ZeroBlock(Nil)).data]]
    /\ UNCHANGED <<store, gc, mine, kept, failed, calls>>

ReadReturn(r) ==
    /\ At(r, "done")
    /\ proc' = [proc EXCEPT ![r] = Idle]
    /\ UNCHANGED <<store, gc, mine, kept, failed, calls>>

ReadStep(r) == ReadBlock(r) \/ ReadReturn(r)

--------------------------------------------------------------------------------
(* GC() at the end of a mkdir. *)
Collect ==
    /\ GCBegin \/ GCStep
    /\ UNCHANGED <<proc, mine, kept, failed, calls>>

ConcNext ==
    \/ \E p \in Writers :
          \/ \E n \in mine[p] \cup {NEW_DATABLOCK}, d \in Data : BeginWrite(p, n, d)
          \/ WriteStep(p)
          \/ DeviceFails(p)
    \/ \E r \in Readers :
          \/ \E n \in Lbn : BeginRead(r, n)
          \/ ReadStep(r)
    \/ Collect

ConcSpec == ConcInit /\ [][ConcNext]_concvars

(* Writes, reads and collections in any order, except that nobody looks    *)
(* for a number between another's search and the setting of the bit it     *)
(* found, and that the numbers do not run out.                             *)
Searches == Collect \/ \E p \in Writers : FindNumber(p)

AllocNext ==
    /\ ConcNext
    /\ Searches => FreeEntries(store) # {} /\ \A q \in Writers : ~At(q, "mark")

AllocSpec == ConcInit /\ [][AllocNext]_concvars

(* The envelope: one hodo_write_struct at a time, which no lock of this    *)
(* code provides (the callers must take turns), none beside a collection,  *)
(* room in the log, a device that works and no read across a collection.   *)
SafeConcNext ==
    \/ \E p \in Writers :
          \/ /\ gc.pc = "idle" /\ \A q \in Writers : ~Writing(q)
             /\ HasRoom(store)
             /\ \E n \in mine[p] \cup {NEW_DATABLOCK}, d \in Data : BeginWrite(p, n, d)
          \/ WriteStep(p)
    \/ \E r \in Readers :
          \/ gc.pc = "idle" /\ \E n \in Lbn : BeginRead(r, n)
          \/ ReadStep(r)
    \/ /\ \A p \in DOMAIN proc : At(p, "idle")
       /\ gc.pc # "idle" \/ NoSolidZone(store)
       /\ Collect

SafeConcSpec == ConcInit /\ [][SafeConcNext]_concvars

--------------------------------------------------------------------------------
(* Properties *)

(* What a process wrote and nobody is writing again is there: write()      *)
(* returned, so a read finds the content.                                  *)
WritesLand ==
    gc.pc = "idle" =>
        \A n \in Lbn : kept[n] # Nil /\ (\A p \in Writers : proc[p].n # n) =>
            Content(store)[n] = kept[n]

(* A read that no write of the same block overlaps returns what the block  *)
(* holds.                                                                  *)
QuietReads ==
    \A r \in Readers : At(r, "done") /\ proc[r].quiet => proc[r].d = kept[proc[r].n]

(* No two processes are given one number. *)
NumbersOwned == \A p, q \in Writers : p # q => mine[p] \cap mine[q] = {}

(* The block store as the processes see it: a write takes effect when the  *)
(* table is set, before the device has the block.                          *)
Visible ==
    [n \in Lbn |-> LET w == {p \in Writers : At(p, "device") /\ proc[p].n = n}
                   IN  IF w = {} THEN Content(store)[n] ELSE proc[CHOOSE p \in w : TRUE].d]

Atomic == INSTANCE BlockStore WITH Number <- Lbn, content <- Visible

(* One writer at a time, the steps of hodo_write_struct amount to an       *)
(* atomic write of one number, whatever they leave half done in between.   *)
StepsImplementBlockStore == Atomic!Spec

================================================================================
