--------------------------------- MODULE Zonefs --------------------------------
(***************************************************************************)
(* The sequential zone files under seq/ (super.c, file.c): what zonefs     *)
(* keeps of each zone and of the volume beside what the device really      *)
(* holds, through open, close, direct writes, truncation, I/O errors,      *)
(* remounts and restarts. Sizes are in blocks.                             *)
(*                                                                         *)
(*   zone[z]  flags        z_flags: OPEN, ACTIVE, OFFLINE, READONLY        *)
(*            z_wpoffset   where the next write must start                 *)
(*            i_size       what a reader may see                           *)
(*            i_wr_refcnt  how many times the file is open for writing     *)
(*   sb       errors, explicit   the mount options                         *)
(*            rdonly             SB_RDONLY                                 *)
(*            active, wro, used  s_active_seq_files, s_wro_seq_files,      *)
(*                               s_used_blocks                             *)
(*   dev[z]   cond, wp    the device's condition and write pointer         *)
(*            loss        data it had acknowledged is gone: "unseen" until *)
(*                        a report of the zone shows it, then "told"       *)
(*   waiting  the zones with a writer that has passed the checks made      *)
(*            before the inode lock, and has not got the lock              *)
(*   io[z]    the direct writes of the zone in flight, in issue order; st  *)
(*            is "start" (z_wpoffset moved, nothing submitted), "queued",  *)
(*            "cut" (only a part could be submitted), "ok" or "err" (at    *)
(*            the device, end_io has not run)                              *)
(*   faults   counts what the device did wrong                             *)
(*   hist     aborted     a write failed before the device had all of it   *)
(*            asked       the caller asked for a read-only volume          *)
(*            (history: no step depends on it but those of SafeNext)       *)
(*                                                                         *)
(* i_truncate_mutex makes each step below atomic; the inode lock is held   *)
(* from the start of a write to its end, or to its submission when it is   *)
(* asynchronous.                                                           *)
(***************************************************************************)
EXTENDS Integers, FiniteSets, SequencesExt

CONSTANTS Zones, Capacity,
          MaxOpen,          \* bdev_max_open_zones, 0 when there is no limit
          Errors,           \* the errors= options in use
          Explicit,         \* is the explicit-open option in use?
          StartConds,       \* conditions of the zones of a device at mount
          Async,            \* may writes be asynchronous?
          MaxRefs, MaxIO, MaxFaults   \* bounds

VARIABLES zone, sb, dev, waiting, io, faults, hist

vars == <<zone, sb, dev, waiting, io, faults, hist>>

Flags == {"OPEN", "ACTIVE", "OFFLINE", "READONLY"}
BadFlags == {"OFFLINE", "READONLY"}
OpenConds == {"IMP_OPEN", "EXP_OPEN"}
Conds == {"EMPTY", "CLOSED", "FULL", "READONLY", "OFFLINE"} \cup OpenConds

ASSUME ZonefsAssumption ==
    /\ IsFiniteSet(Zones) /\ Capacity \in Nat \ {0} /\ MaxOpen \in Nat
    /\ Errors \subseteq {"RO", "ZRO", "ZOL", "REPAIR"}
    /\ StartConds \subseteq Conds
    /\ Explicit \in BOOLEAN /\ Async \in BOOLEAN
    /\ MaxRefs \in Nat /\ MaxIO \in Nat /\ MaxFaults \in Nat

Bad(x) == x.flags \cap BadFlags # {}

(* What the code works on in one step: a zone and the volume. *)
View(z) == [zone |-> zone[z], sb |-> sb]

WithZone(s, x) == [zone |-> x, sb |-> s.sb]

WithSb(s, b) == [zone |-> s.zone, sb |-> b]

Becomes(z, s) == zone' = [zone EXCEPT ![z] = s.zone] /\ sb' = s.sb

Cost(k) == faults + k <= MaxFaults /\ faults' = faults + k

--------------------------------------------------------------------------------
(* Zone accounting (super.c) *)

IsActive(x) ==
    /\ ~Bad(x)
    /\ "OPEN" \in x.flags \/ (0 < x.z_wpoffset /\ x.z_wpoffset < Capacity)

SetActive(s, on) ==
    [zone |-> [s.zone EXCEPT !.flags = IF on THEN @ \cup {"ACTIVE"} ELSE @ \ {"ACTIVE"}],
     sb   |-> [s.sb EXCEPT !.active = IF on = ("ACTIVE" \in s.zone.flags) THEN @
                                      ELSE IF on THEN @ + 1 ELSE @ - 1]]

(* Mutant: the active count is never taken down. *)
zonefs_account_active_OnlyUp(s) ==
    IF IsActive(s.zone) THEN SetActive(s, TRUE)
    ELSE [s EXCEPT !.zone.flags = @ \ {"ACTIVE"}]

zonefs_account_active(s) == SetActive(s, IsActive(s.zone))

ClearOpen(s) == WithZone(s, [s.zone EXCEPT !.flags = @ \ {"OPEN"}])

(* A full zone is neither open nor active. *)
zonefs_i_size_write(s, isize) ==
    LET t == WithZone(s, [s.zone EXCEPT !.i_size = isize])
    IN  IF isize >= Capacity THEN ClearOpen(SetActive(t, FALSE)) ELSE t

Blocks == Cardinality(Zones) * Capacity

(* Mutant: the size before the change is taken to be 0. *)
zonefs_update_stats_FromZero(s, new_isize) ==
    [s EXCEPT !.sb.used = IF @ + new_isize > Blocks THEN Blocks ELSE @ + new_isize]

zonefs_update_stats(s, new_isize) ==
    LET used == s.sb.used + new_isize - s.zone.i_size
    IN  WithSb(s, [s.sb EXCEPT !.used = IF used < 0 THEN 0
                                        ELSE IF used > Blocks THEN Blocks ELSE used])

(* What a zone report adds to the flags, and the data it says is readable. *)
ReportedFlags(d) == {d.cond} \cap BadFlags

zonefs_check_zone_condition(x, d) ==
    CASE d.cond = "OFFLINE"  -> 0
      [] d.cond = "READONLY" -> x.z_wpoffset
      [] d.cond = "FULL"     -> Capacity
      [] OTHER               -> d.wp

(* A bad zone, and a size the device disagrees with, are handled as the     *)
(* errors= option asks; a read error with neither is only returned.         *)
ErrorFlags(s, d) ==
    LET f == s.zone.flags \cup ReportedFlags(d)
    IN  IF "OFFLINE" \in f \/ s.sb.errors = "ZOL" THEN f \cup {"OFFLINE"}
        ELSE IF "READONLY" \in f \/ s.sb.errors = "ZRO" THEN f \cup {"READONLY"}
        ELSE f

ErrorSize(s, d) ==
    LET size == zonefs_check_zone_condition(s.zone, d)
        f    == ErrorFlags(s, d)
    IN  IF "OFFLINE" \in f THEN 0
        ELSE IF "READONLY" \in f \/ (s.sb.errors = "RO" /\ size > s.zone.i_size)
             THEN s.zone.i_size
        ELSE size

Harmless(s, d, write) ==
    /\ ~write /\ (s.zone.flags \cup ReportedFlags(d)) \cap BadFlags = {}
    /\ s.zone.i_size = zonefs_check_zone_condition(s.zone, d)

(* The view with the flags and SB_RDONLY an error leaves. *)
Marked(s, d) ==
    [zone |-> [s.zone EXCEPT !.flags =
                 IF s.sb.explicit /\ ErrorFlags(s, d) \cap BadFlags # {}
                 THEN ErrorFlags(s, d) \ {"OPEN"} ELSE ErrorFlags(s, d)],
     sb   |-> [s.sb EXCEPT !.rdonly = @ \/ s.sb.errors = "RO"]]

Resized(s, size) ==
    LET t == zonefs_i_size_write(zonefs_update_stats(s, size), size)
    IN  WithZone(t, [t.zone EXCEPT !.z_wpoffset = size])

(* Mutant: the write pointer offset is left as the failed write set it. *)
zonefs_handle_io_error_SizeOnly(s, d, write) ==
    IF Harmless(s, d, write) THEN s
    ELSE zonefs_account_active(
           zonefs_i_size_write(zonefs_update_stats(Marked(s, d), ErrorSize(s, d)),
                               ErrorSize(s, d)))

zonefs_handle_io_error(s, d, write) ==
    IF Harmless(s, d, write) THEN s
    ELSE zonefs_account_active(Resized(Marked(s, d), ErrorSize(s, d)))

Told(d) == [d EXCEPT !.loss = IF @ = "unseen" THEN "told" ELSE @]

(* __zonefs_io_error: the report of the zone may itself fail. *)
io_error(s, d, write) ==
    {[s |-> zonefs_handle_io_error(s, d, write),      d |-> Told(d), cost |-> 0],
     [s |-> WithSb(s, [s.sb EXCEPT !.rdonly = TRUE]), d |-> d,       cost |-> 1]}

(* An error met in a step: its handling, beside the k faults that led to it. *)
HandleError(z, s, write, k) ==
    \E e \in io_error(s, dev[z], write) :
       Cost(e.cost + k) /\ Becomes(z, e.s) /\ dev' = [dev EXCEPT ![z] = e.d]

--------------------------------------------------------------------------------
(* The device (external): zone management and writes at the write pointer. *)

Accepts(z, d, op) ==
    /\ d.cond \notin BadFlags
    /\ op = "OPEN" =>
         /\ d.cond # "FULL"
         /\ \/ d.cond = "EXP_OPEN" \/ MaxOpen = 0
            \/ Cardinality({y \in Zones \ {z} : dev[y].cond = "EXP_OPEN"}) < MaxOpen

Managed(d, op) ==
    CASE op = "OPEN"   -> [d EXCEPT !.cond = "EXP_OPEN"]
      [] op = "CLOSE"  -> IF d.cond \in OpenConds THEN [d EXCEPT !.cond = "CLOSED"] ELSE d
      [] op = "RESET"  -> [cond |-> "EMPTY", wp |-> 0, loss |-> "none"]
      [] op = "FINISH" -> [cond |-> "FULL", wp |-> Capacity, loss |-> "none"]

(* zonefs_zone_mgmt: closing a zone that was not written resets it. *)
(* Mutant: every close is turned into a reset. *)
MgmtOp_AnyClose(x, op) == IF op = "CLOSE" THEN "RESET" ELSE op

MgmtOp(x, op) == IF op = "CLOSE" /\ x.z_wpoffset = 0 THEN "RESET" ELSE op

zonefs_zone_mgmt(z, x, d, op) ==
    IF Accepts(z, d, MgmtOp(x, op))
    THEN {[ok |-> TRUE,  d |-> Managed(d, MgmtOp(x, op)), cost |-> 0],
          [ok |-> FALSE, d |-> d,                         cost |-> 1]}
    ELSE {[ok |-> FALSE, d |-> d, cost |-> 0]}

AfterWrite(d, n) ==
    [d EXCEPT !.wp = @ + n,
              !.cond = IF d.wp + n = Capacity THEN "FULL"
                       ELSE IF @ = "EXP_OPEN" THEN "EXP_OPEN" ELSE "IMP_OPEN"]

(* What is left of a zone whose write pointer falls back to k. *)
AfterLoss(d, k) ==
    [wp   |-> k, loss |-> "unseen",
     cond |-> IF d.cond \in OpenConds THEN d.cond ELSE IF k = 0 THEN "EMPTY" ELSE "CLOSED"]

--------------------------------------------------------------------------------
(* Mount (super.c): zonefs_fill_super, zonefs_init_zgroup. Zones found open *)
(* are closed. A file's inode is made from its zone when it is looked up.   *)

MountedZone(d) ==
    LET x == [flags |-> ReportedFlags(d), i_wr_refcnt |-> 0, z_wpoffset |-> 0, i_size |-> 0]
        w == zonefs_check_zone_condition(x, d)
        y == [x EXCEPT !.z_wpoffset = w, !.i_size = w]
    IN  IF IsActive(y) THEN [y EXCEPT !.flags = @ \cup {"ACTIVE"}] ELSE y

MountedDev(d) ==
    [IF d.cond \in OpenConds THEN Managed(d, MgmtOp([z_wpoffset |-> d.wp], "CLOSE")) ELSE d
        EXCEPT !.loss = "none"]

Total(f) == LET value(z) == f[z] IN MapThenSumSet(value, Zones)

SizeOf(f) == Total([z \in Zones |-> f[z].i_size])

ActiveZones(f) == {z \in Zones : "ACTIVE" \in f[z].flags}

(* zonefs_init_zgroup counts zone by zone, from z_wpoffset: no inode is     *)
(* there yet. explicit-open is dropped when the device has no limit.        *)
MountedSb(f, errors, explicit, ro) ==
    [errors |-> errors, explicit |-> explicit /\ MaxOpen # 0, rdonly |-> ro, wro |-> 0,
     active |-> Total([z \in Zones |-> IF IsActive(f[z]) THEN 1 ELSE 0]),
     used   |-> Total([z \in Zones |-> f[z].z_wpoffset])]

(* The explicit-open option as the caller gives it. *)
ExplicitOpts == {FALSE, Explicit}

Fresh(d, errors, explicit, ro) ==
    LET f == [z \in Zones |-> MountedZone(d[z])]
    IN  [zone |-> f, sb |-> MountedSb(f, errors, explicit, ro),
         dev |-> [z \in Zones |-> MountedDev(d[z])]]

StartDev == {d \in [cond : StartConds, wp : 0 .. Capacity, loss : {"none"}] :
               /\ d.cond = "EMPTY" => d.wp = 0
               /\ d.cond = "CLOSED" => d.wp \in 1 .. Capacity - 1
               /\ d.cond \in OpenConds => d.wp < Capacity
               /\ d.cond = "FULL" => d.wp = Capacity
               /\ d.cond \in BadFlags => d.wp = 0}

Init ==
    /\ \E d \in [Zones -> StartDev], e \in Errors, x \in ExplicitOpts, ro \in BOOLEAN :
          LET m == Fresh(d, e, x, ro)
          IN  /\ zone = m.zone /\ sb = m.sb /\ dev = m.dev
              /\ hist = [aborted |-> FALSE, asked |-> ro]
    /\ waiting = {}
    /\ io = [z \in Zones |-> << >>]
    /\ faults = 0

(* The machine stops and the volume is mounted again; what was not at the   *)
(* device is lost.                                                          *)
Restart(e, x, ro) ==
    /\ Cost(1)
    /\ LET m == Fresh(dev, e, x, ro) IN zone' = m.zone /\ sb' = m.sb /\ dev' = m.dev
    /\ waiting' = {}
    /\ io' = [z \in Zones |-> << >>]
    /\ hist' = [hist EXCEPT !.asked = ro]

WrittenFiles == {z \in Zones : zone[z].i_wr_refcnt > 0}

(* zonefs_remount sets the options it is given and clears no explicit-open; *)
(* the VFS sets SB_RDONLY as the caller asks, and makes no volume read-only *)
(* that has a file open for writing.                                        *)
zonefs_remount(e, x, ro) ==
    /\ ro => sb.rdonly \/ WrittenFiles = {}
    /\ sb' = [sb EXCEPT !.errors = e, !.explicit = @ \/ x, !.rdonly = ro]
    /\ hist' = [hist EXCEPT !.asked = ro]
    /\ UNCHANGED <<zone, dev, waiting, io, faults>>

(* zonefs_get_file_inode: the inode of a closed file was dropped from the   *)
(* cache, and is made again from the zone.                                  *)
zonefs_get_file_inode(z) ==
    /\ zone[z].i_wr_refcnt = 0 /\ io[z] = << >>
    /\ zone' = [zone EXCEPT ![z].i_size = zone[z].z_wpoffset]
    /\ UNCHANGED <<sb, dev, io, faults>>

--------------------------------------------------------------------------------
(* Open and close for writing (file.c). The VFS refuses to open for writing *)
(* on a read-only volume, and an immutable file.                            *)

Opened(s) ==
    [zone |-> [s.zone EXCEPT !.i_wr_refcnt = @ + 1],
     sb   |-> [s.sb EXCEPT !.wro = IF s.zone.i_wr_refcnt = 0 THEN @ + 1 ELSE @]]

SetOpen(s) == WithZone(s, [s.zone EXCEPT !.flags = @ \cup {"OPEN"}])

NeedsZoneOpen(z) ==
    zone[z].i_wr_refcnt = 0 /\ sb.explicit /\ zone[z].i_size < Capacity

zonefs_seq_file_write_open(z) ==
    /\ ~sb.rdonly /\ ~Bad(zone[z]) /\ zone[z].i_wr_refcnt < MaxRefs
    /\ zone[z].i_wr_refcnt = 0 /\ sb.explicit /\ MaxOpen # 0 => sb.wro < MaxOpen
    /\ IF NeedsZoneOpen(z)
       THEN \E r \in zonefs_zone_mgmt(z, zone[z], dev[z], "OPEN") :
              /\ Cost(r.cost)
              /\ dev' = [dev EXCEPT ![z] = r.d]
              /\ IF r.ok
                 THEN Becomes(z, zonefs_account_active(SetOpen(Opened(View(z)))))
                 ELSE UNCHANGED <<zone, sb>>
       ELSE Becomes(z, Opened(View(z))) /\ UNCHANGED <<dev, faults>>
    /\ UNCHANGED io

Released(s) == WithZone(s, [s.zone EXCEPT !.i_wr_refcnt = @ - 1])

LastClosed(s) == WithSb(s, [s.sb EXCEPT !.wro = @ - 1])

Close(z, r) ==
    /\ r.ok
    /\ Cost(r.cost)
    /\ dev' = [dev EXCEPT ![z] = r.d]
    /\ Becomes(z, LastClosed(zonefs_account_active(ClearOpen(Released(View(z))))))

(* The device would not close the zone: the count of files open for writing *)
(* is left as it was, and a zone that stays open makes the volume read-only.*)
CloseFails(z, r) ==
    /\ ~r.ok
    /\ \E e \in io_error(Released(View(z)), dev[z], FALSE) :
          /\ Cost(r.cost + e.cost)
          /\ Becomes(z, WithSb(e.s, [e.s.sb EXCEPT !.rdonly = @ \/ "OPEN" \in e.s.zone.flags]))
          /\ dev' = [dev EXCEPT ![z] = e.d]

(* The file of a writer, and of a write in flight, is open. *)
LastReference(z) == zone[z].i_wr_refcnt = 1 /\ z \notin waiting /\ io[z] = << >>

(* Mutant: the write open count is taken down at every close. *)
zonefs_seq_file_write_close_EveryTime(z, fails) ==
    /\ zone[z].i_wr_refcnt > 0 /\ z \notin waiting /\ io[z] = << >> /\ ~fails
    /\ IF zone[z].i_wr_refcnt = 1 /\ "OPEN" \in zone[z].flags
       THEN \E r \in zonefs_zone_mgmt(z, zone[z], dev[z], "CLOSE") : Close(z, r)
       ELSE Becomes(z, LastClosed(Released(View(z)))) /\ UNCHANGED <<dev, faults>>
    /\ UNCHANGED io

zonefs_seq_file_write_close(z, fails) ==
    /\ \/ /\ zone[z].i_wr_refcnt > 1 /\ ~fails
          /\ Becomes(z, Released(View(z)))
          /\ UNCHANGED <<dev, faults>>
       \/ /\ LastReference(z) /\ "OPEN" \notin zone[z].flags /\ ~fails
          /\ Becomes(z, LastClosed(Released(View(z))))
          /\ UNCHANGED <<dev, faults>>
       \/ /\ LastReference(z) /\ "OPEN" \in zone[z].flags
          /\ \E r \in zonefs_zone_mgmt(z, zone[z], dev[z], "CLOSE") :
                IF fails THEN CloseFails(z, r) ELSE Close(z, r)
    /\ UNCHANGED io

--------------------------------------------------------------------------------
(* Direct writes (file.c) *)

(* zonefs_file_write_iter checks the file and the volume before it takes    *)
(* the inode lock; nothing of it is checked again under the lock.           *)
zonefs_file_write_iter(z) ==
    /\ zone[z].i_wr_refcnt > 0 /\ ~Bad(zone[z]) /\ ~sb.rdonly
    /\ waiting' = waiting \cup {z}
    /\ UNCHANGED <<zone, sb, dev, io, faults>>

InodeLocked(z) == \E i \in DOMAIN io[z] : io[z][i].sync \/ io[z][i].st = "start"

(* A writer with the inode lock. *)
Locks(z) == z \in waiting /\ ~InodeLocked(z) /\ waiting' = waiting \ {z}

(* Its position is not z_wpoffset, or its size is not one of blocks. *)
WriteRefused(z) == Locks(z) /\ UNCHANGED <<zone, sb, dev, io, faults>>

(* Mutant: z_wpoffset is left for the completion to move. *)
zonefs_file_dio_write_Late(z, n, sync) ==
    /\ Locks(z) /\ Len(io[z]) < MaxIO
    /\ zone[z].z_wpoffset + n <= Capacity
    /\ io' = [io EXCEPT ![z] = Append(@, [pos |-> zone[z].i_size, n |-> n,
                                          sync |-> sync, st |-> "start"])]
    /\ Becomes(z, zonefs_account_active([View(z) EXCEPT !.zone.z_wpoffset = zone[z].i_size + n]))
    /\ UNCHANGED <<dev, faults>>

(* Mutant: a write may run past the capacity of the zone. *)
zonefs_file_dio_write_Unlimited(z, n, sync) ==
    /\ Locks(z) /\ Len(io[z]) < MaxIO
    /\ zone[z].z_wpoffset < Capacity
    /\ io' = [io EXCEPT ![z] = Append(@, [pos |-> zone[z].z_wpoffset, n |-> n,
                                          sync |-> sync, st |-> "start"])]
    /\ Becomes(z, zonefs_account_active([View(z) EXCEPT !.zone.z_wpoffset = @ + n]))
    /\ UNCHANGED <<dev, faults>>

(* zonefs_file_dio_write: a write starts at z_wpoffset, which moves before  *)
(* the device has the data.                                                 *)
zonefs_file_dio_write(z, n, sync) ==
    /\ Locks(z) /\ Len(io[z]) < MaxIO
    /\ zone[z].z_wpoffset + n <= Capacity
    /\ io' = [io EXCEPT ![z] = Append(@, [pos |-> zone[z].z_wpoffset, n |-> n,
                                          sync |-> sync, st |-> "start"])]
    /\ Becomes(z, zonefs_account_active(WithZone(View(z), [zone[z] EXCEPT !.z_wpoffset = @ + n])))
    /\ UNCHANGED <<dev, faults>>

(* iomap_dio_rw hands the write to the block layer, which keeps the order. *)
iomap_dio_rw(z) ==
    \E i \in DOMAIN io[z] :
       /\ io[z][i].st = "start"
       /\ io' = [io EXCEPT ![z][i].st = "queued"]
       /\ UNCHANGED <<zone, sb, dev, faults>>

WithoutIO(z, i) == io' = [io EXCEPT ![z] = RemoveAt(@, i)]

(* iomap_dio_rw fails (-ENOTBLK, -EFAULT, -EINVAL, -ENOMEM) with nothing    *)
(* submitted, and the recovery runs at once; or after m blocks of the       *)
(* write, and it runs when these are done.                                  *)
SubmissionFails(z) ==
    /\ \E i \in DOMAIN io[z] :
          /\ io[z][i].st = "start"
          /\ \/ HandleError(z, View(z), TRUE, 0) /\ WithoutIO(z, i)
             \/ /\ \E m \in 1 .. io[z][i].n - 1 :
                      io' = [io EXCEPT ![z][i].st = "cut", ![z][i].n = m]
                /\ UNCHANGED <<zone, sb, dev, faults>>
    /\ hist' = [hist EXCEPT !.aborted = TRUE]

(* The device takes the oldest write; one that is not at the write pointer  *)
(* is refused, and one that fails may have written a part.                  *)
Writable(d, w) == d.cond \notin BadFlags \cup {"FULL"} /\ d.wp = w.pos

Submitted == {"queued", "cut"}

NextQueued(z) == CHOOSE i \in DOMAIN io[z] :
    io[z][i].st \in Submitted /\ \A j \in 1 .. i - 1 : io[z][j].st \notin Submitted

HasQueued(z) == \E i \in DOMAIN io[z] : io[z][i].st \in Submitted

DeviceWrite(z) ==
    /\ HasQueued(z)
    /\ LET i == NextQueued(z)
           w == io[z][i]
       IN  IF Writable(dev[z], w)
           THEN \/ /\ dev' = [dev EXCEPT ![z] = AfterWrite(@, w.n)]
                   /\ io' = [io EXCEPT ![z][i].st = IF @ = "cut" THEN "err" ELSE "ok"]
                   /\ Cost(0)
                \/ \E k \in 0 .. w.n - 1 :
                   /\ dev' = [dev EXCEPT ![z] = IF k = 0 THEN @ ELSE AfterWrite(@, k)]
                   /\ io' = [io EXCEPT ![z][i].st = "err"]
                   /\ Cost(1)
           ELSE io' = [io EXCEPT ![z][i].st = "err"] /\ UNCHANGED <<dev, faults>>
    /\ UNCHANGED <<zone, sb>>

(* Mutant: the size is set to the end of the write that completed. *)
Completed_LastWins(s, end) == zonefs_i_size_write(zonefs_update_stats(s, end), end)

Completed(s, end) ==
    IF s.zone.i_size < end THEN zonefs_i_size_write(zonefs_update_stats(s, end), end) ELSE s

(* Completions may come out of order. *)
zonefs_file_write_dio_end_io(z, i) ==
    /\ io[z][i].st = "ok"
    /\ Becomes(z, Completed(View(z), io[z][i].pos + io[z][i].n))
    /\ WithoutIO(z, i)
    /\ UNCHANGED <<dev, faults>>

(* A failed write: the recovery of end_io, or of zonefs_file_dio_write.     *)
WriteError(z, i) ==
    /\ io[z][i].st = "err"
    /\ HandleError(z, View(z), TRUE, 0)
    /\ WithoutIO(z, i)

--------------------------------------------------------------------------------
(* Truncation, and errors met by reads and flushes *)

(* Mutant: the active count is not brought up to date. *)
Truncated_NoAccount(s, isize) ==
    [zonefs_update_stats(s, isize) EXCEPT !.zone.i_size = isize, !.zone.z_wpoffset = isize]

Truncated(s, isize) ==
    LET t == zonefs_update_stats(s, isize)
    IN  zonefs_account_active(WithZone(t, [t.zone EXCEPT !.i_size = isize, !.z_wpoffset = isize]))

(* The section under i_truncate_mutex. inode_dio_wait comes before it, and  *)
(* keeps out no write that is issued after it. An open zone is opened again *)
(* after a reset; that failing is only returned.                            *)
zonefs_file_truncate(z, isize) ==
    /\ zone[z].i_size # isize
    /\ \E r \in zonefs_zone_mgmt(z, zone[z], dev[z], IF isize = 0 THEN "RESET" ELSE "FINISH") :
          IF ~r.ok THEN Cost(r.cost) /\ UNCHANGED <<zone, sb, dev>>
          ELSE IF "OPEN" \notin zone[z].flags THEN
               /\ Cost(r.cost) /\ dev' = [dev EXCEPT ![z] = r.d]
               /\ Becomes(z, Truncated(View(z), isize))
          ELSE IF isize = 0 THEN
               \E q \in zonefs_zone_mgmt(z, zone[z], r.d, "OPEN") :
                  /\ Cost(r.cost + q.cost) /\ dev' = [dev EXCEPT ![z] = q.d]
                  /\ Becomes(z, Truncated(View(z), isize))
          ELSE /\ Cost(r.cost) /\ dev' = [dev EXCEPT ![z] = r.d]
               /\ Becomes(z, Truncated(ClearOpen(View(z)), isize))
    /\ UNCHANGED io

(* ftruncate: the VFS holds the inode lock from before inode_dio_wait; a    *)
(* read-only volume and an immutable file are refused.                      *)
zonefs_inode_setattr(z, isize) ==
    /\ ~sb.rdonly /\ ~Bad(zone[z]) /\ io[z] = << >>
    /\ zonefs_file_truncate(z, isize)

(* hodo_GC calls zonefs_file_truncate on an inode it does not lock. *)
GCReset(z) == zonefs_file_truncate(z, 0)

(* Errors that show a loss need no new fault. *)
NewFault(z) == IF dev[z].cond = "OFFLINE" \/ dev[z].loss = "unseen" THEN 0 ELSE 1

(* A read fails, under the shared inode lock. *)
ReadError(z) ==
    /\ "OFFLINE" \notin zone[z].flags /\ zone[z].i_size > 0 /\ ~InodeLocked(z)
    /\ HandleError(z, View(z), FALSE, NewFault(z))
    /\ UNCHANGED io

(* A flush fails. zonefs_file_fsync takes no lock. *)
zonefs_file_fsync(z) ==
    /\ ~Bad(zone[z])
    /\ HandleError(z, View(z), TRUE, NewFault(z))
    /\ UNCHANGED io

(* A zone wears out. *)
ZoneFails(z, c) ==
    /\ dev[z].cond \notin BadFlags
    /\ Cost(1)
    /\ dev' = [dev EXCEPT ![z].cond = c]
    /\ UNCHANGED <<zone, sb, io>>

(* Writes the device had acknowledged do not reach the medium (a deferred   *)
(* write error of its cache).                                               *)
DeviceLoses(z, k) ==
    /\ dev[z].cond \notin BadFlags /\ k < dev[z].wp
    /\ Cost(1)
    /\ dev' = [dev EXCEPT ![z] = AfterLoss(@, k)]
    /\ UNCHANGED <<zone, sb, io>>

--------------------------------------------------------------------------------
Syncs == IF Async THEN BOOLEAN ELSE {TRUE}

FileStep(z) ==
    \/ zonefs_seq_file_write_open(z)
    \/ \E fails \in BOOLEAN : zonefs_seq_file_write_close(z, fails)
    \/ iomap_dio_rw(z)
    \/ DeviceWrite(z)
    \/ \E i \in DOMAIN io[z] : zonefs_file_write_dio_end_io(z, i) \/ WriteError(z, i)
    \/ \E isize \in {0, Capacity} : zonefs_inode_setattr(z, isize)
    \/ \E c \in BadFlags : ZoneFails(z, c)
    \/ \E k \in 0 .. Capacity - 1 : DeviceLoses(z, k)

(* Steps of a writer up to the inode lock. *)
WriterStep(z) ==
    \/ zonefs_file_write_iter(z)
    \/ WriteRefused(z)
    \/ \E n \in 1 .. Capacity, sync \in Syncs : zonefs_file_dio_write(z, n, sync)

(* Steps that take no inode lock, and may meet a write in flight. *)
UnlockedStep(z) == GCReset(z) \/ ReadError(z) \/ zonefs_file_fsync(z)

LocalStep(z) ==
    \/ FileStep(z) /\ UNCHANGED <<waiting, hist>>
    \/ WriterStep(z) /\ UNCHANGED hist
    \/ SubmissionFails(z) /\ UNCHANGED waiting

Next ==
    \/ \E z \in Zones :
          \/ LocalStep(z)
          \/ (UnlockedStep(z) \/ zonefs_get_file_inode(z)) /\ UNCHANGED <<waiting, hist>>
    \/ \E e \in Errors, x \in ExplicitOpts, ro \in BOOLEAN :
          Restart(e, x, ro) \/ zonefs_remount(e, x, ro)

Untroubled == faults = 0 /\ ~hist.aborted

(* A volume used with care: errors and resets come between the writes of a  *)
(* zone; and once something has failed, a read-only volume is not made      *)
(* writable again and drops no inode.                                       *)
SafeNext ==
    \/ \E z \in Zones :
          \/ LocalStep(z)
          \/ io[z] = << >> /\ UnlockedStep(z) /\ UNCHANGED <<waiting, hist>>
          \/ /\ ~sb.rdonly \/ Untroubled
             /\ zonefs_get_file_inode(z) /\ UNCHANGED <<waiting, hist>>
    \/ \E e \in Errors, x \in ExplicitOpts, ro \in BOOLEAN :
          \/ Restart(e, x, ro)
          \/ (ro \/ ~sb.rdonly \/ Untroubled) /\ zonefs_remount(e, x, ro)

Spec == Init /\ [][Next]_vars

SafeSpec == Init /\ [][SafeNext]_vars

--------------------------------------------------------------------------------
ZoneState == [flags : SUBSET Flags, z_wpoffset : 0 .. Capacity,
              i_size : 0 .. Capacity, i_wr_refcnt : Nat]

SbState == [errors : Errors, explicit : BOOLEAN, rdonly : BOOLEAN,
            active : Int, wro : Int, used : Int]

DevState == [cond : Conds, wp : 0 .. Capacity, loss : {"none", "unseen", "told"}]

WriteState ==
    {w \in [pos : 0 .. Capacity, n : 1 .. Capacity, sync : BOOLEAN,
            st : {"start", "queued", "cut", "ok", "err"}] : w.pos + w.n <= Capacity}

(* Types; z_wpoffset, i_size and the end of every write in flight stay      *)
(* within the capacity of the zone (zonefs_write_check_limits).             *)
TypeOK ==
    /\ zone \in [Zones -> ZoneState]
    /\ sb \in SbState
    /\ dev \in [Zones -> DevState]
    /\ waiting \in SUBSET Zones
    /\ io \in [Zones -> Seq(WriteState)]
    /\ faults \in Nat
    /\ hist \in [aborted : BOOLEAN, asked : BOOLEAN]

(* s_active_seq_files is the number of zones marked active: every path that *)
(* changes the mark (zonefs_account_active, zonefs_i_size_write on a full   *)
(* zone, error handling) moves the count with it, and once.                 *)
ActiveCount == sb.active = Cardinality(ActiveZones(zone))

(* A zone is marked active exactly when zonefs holds it open or it is       *)
(* partly written, and it is not bad: the mark follows z_wpoffset and the   *)
(* OPEN flag through writes in flight, errors and truncation.               *)
ActiveExact == \A z \in Zones : "ACTIVE" \in zone[z].flags <=> IsActive(zone[z])

(* On a writable volume, a good zone with no write in flight is known       *)
(* exactly, but for a loss no report has shown: the next write will be at   *)
(* the device's write pointer, and all that was written can be read         *)
(* (zonefs_file_dio_write, error recovery).                                 *)
WpExact ==
    \A z \in Zones :
       /\ ~sb.rdonly /\ ~Bad(zone[z]) /\ io[z] = << >>
       /\ dev[z].cond \notin BadFlags /\ dev[z].loss # "unseen"
       => zone[z].z_wpoffset = dev[z].wp /\ zone[z].i_size = dev[z].wp

(* "Limit read operations to written data": what a reader may see of a good *)
(* zone is at the device, also while writes are in flight and after errors. *)
(* Data the device lost after it had acknowledged them is the exception of  *)
(* zonefs_handle_io_error: the size is corrected when a report shows the    *)
(* loss, unless the zone is made read-only, which keeps the size.           *)
SizeBacked ==
    \A z \in Zones :
       dev[z].cond \notin BadFlags =>
          \/ zone[z].i_size <= dev[z].wp
          \/ dev[z].loss = "unseen"
          \/ dev[z].loss = "told" /\ "READONLY" \in zone[z].flags

(* s_used_blocks, from which statfs answers, is the sum of the file sizes.  *)
UsedExact == sb.used = SizeOf(zone)

(* s_wro_seq_files counts the files open for writing; only the failures of  *)
(* the device can put it above, and nothing below.                          *)
WroWithin ==
    /\ Cardinality(WrittenFiles) <= sb.wro
    /\ sb.wro <= Cardinality(WrittenFiles) + faults

(* "Leaving zones explicitly open may lead to a state where most zones      *)
(* cannot be written ... So take preventive action by remounting            *)
(* read-only": no zone stays explicitly open without a writer on a volume   *)
(* that takes writes.                                                       *)
NoneLeftOpen ==
    \A z \in Zones :
       dev[z].cond = "EXP_OPEN" /\ zone[z].i_wr_refcnt = 0 => sb.rdonly

(* The volume is read-only only when the caller asked for it, a write could *)
(* not be submitted or the device has failed: no order of correct calls     *)
(* makes zonefs take its own writes for an error.                           *)
ReadOnlyHasCause == sb.rdonly => hist.asked \/ hist.aborted \/ faults > 0

(* A file gets shorter only by a reset of its zone, or once a write could   *)
(* not be submitted or the device has failed: completions that come out of  *)
(* order never take back what was announced.                                *)
SizeNeverFallsBack ==
    [][\A z \in Zones : zone'[z].i_size < zone[z].i_size =>
          dev'[z].wp = 0 \/ hist'.aborted \/ faults' > 0]_vars

================================================================================
