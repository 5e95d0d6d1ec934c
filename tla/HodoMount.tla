-------------------------------- MODULE HodoMount ------------------------------
(***************************************************************************)
(* Start-up (hodo_init, hodo_late_init_thread, zonefs_mount): when the     *)
(* in-memory mapping_info comes to describe the device. A mount starts a   *)
(* thread that sleeps 100 ms and then calls hodo_init; calls may come      *)
(* first, the volume may be unmounted first, the module may be reloaded or *)
(* the machine stop at any time. mapping_info is a global of the module,   *)
(* survives an unmount and is never written to the device.                 *)
(*                                                                         *)
(*   store    mapping_info and the zone files (MappingInfo)                *)
(*   start    mapping_info.starting_logical_number                         *)
(*   path     is mount_point_path set?                                     *)
(*   mounted  is the volume mounted?                                       *)
(*   late     how many threads still sleep                                 *)
(*   made     history: the names whose creation was acknowledged           *)
(*                                                                         *)
(* The root directory is the one with files: its inode points at one block *)
(* of dirents, a set of names.                                             *)
(***************************************************************************)
EXTENDS MappingInfo

CONSTANTS Names, MaxMounts, MaxReloads   \* names to create, and bounds

ASSUME MountAssumption == MaxMounts \in Nat /\ MaxReloads \in Nat

VARIABLES store, start, path, mounted, late, made, mounts, reloads

vars == <<store, start, path, mounted, late, made, mounts, reloads>>

--------------------------------------------------------------------------------
(* The zero-filled mapping_info of a module just loaded. *)
ZeroInfo(seq) ==
    [mapping_table        |-> [n \in Lbn |-> Pos(0, 0)],
     logical_entry_bitmap |-> {},
     GC_bitmap            |-> {},
     wp                   |-> Pos(0, 0),
     swap_wp              |-> Pos(0, 0),
     seq                  |-> seq,
     fault                |-> FALSE]

(* Contents of blocks: an inode points at a dirent block (0: none). *)
Data(direct, names) == [direct |-> direct, names |-> names]

InodeBlock(n, direct) == [magic |-> "INO", lbn |-> n, data |-> Data(direct, {})]

DirentBlock(names) == [magic |-> "DAT", lbn |-> 0, data |-> Data(0, names)]

Zero == ZeroBlock(Data(0, {}))

(* mapping_table[n - starting_logical_number]; the table of the store is    *)
(* indexed by the numbers of a started file system.                         *)
Slot(n, from) == n - from + starting_logical_number

FirstFree(s) == CHOOSE i \in FreeEntries(s) : \A j \in FreeEntries(s) : i <= j

(* hodo_write_struct while reach says whether a zone file can be opened     *)
(* under mount_point_path: if not, table and bitmaps have changed already.  *)
Write(s, from, reach, buf, n) ==
    LET new == n = NEW_DATABLOCK
        num == IF new THEN FirstFree(s) + from ELSE n
        k   == Slot(num, from)
        old == IF new THEN {} ELSE {s.mapping_table[k]}
    IN  [n |-> num,
         s |-> [s EXCEPT
                  !.mapping_table[k] = s.wp,
                  !.logical_entry_bitmap = IF new THEN @ \cup {FirstFree(s)} ELSE @,
                  !.GC_bitmap = (@ \cup {s.wp}) \ old,
                  !.wp = IF reach THEN Advanced(@) ELSE @,
                  !.seq = IF reach THEN zonefs_write(@, s.wp, Stamped(buf, num)) ELSE @]]

(* hodo_read_struct: with no zone file to open the buffer stays zero.       *)
Read(s, from, reach, n) ==
    IF reach THEN hodo_GC_read_struct(s, s.mapping_table[Slot(n, from)], Zero) ELSE Zero

Reach == path /\ mounted

(* The number of the VFS's root inode (zonefs_fill_super). *)
RootIno == NZones

--------------------------------------------------------------------------------
(* Mount and unmount *)

(* The thread is started whether mount_bdev succeeded or not. A failed      *)
(* mount has read the zones of the device (hodo_nr_zones is set): failures  *)
(* before that, in a module just loaded, are not modelled.                  *)
zonefs_mount(ok) ==
    /\ mounts < MaxMounts /\ (ok => ~mounted)
    /\ mounted' = (mounted \/ ok) /\ late' = late + 1 /\ mounts' = mounts + 1
    /\ UNCHANGED <<store, start, path, made, reloads>>

zonefs_kill_super ==
    /\ mounted
    /\ mounted' = FALSE
    /\ UNCHANGED <<store, start, path, late, made, mounts, reloads>>

(* The module is removed and loaded again, or the machine stops. *)
Reload ==
    /\ reloads < MaxReloads /\ reloads' = reloads + 1
    /\ store' = ZeroInfo(store.seq) /\ start' = 0 /\ path' = FALSE
    /\ mounted' = FALSE /\ late' = 0
    /\ UNCHANGED <<made, mounts>>

(* Mutant: starting_logical_number is set after the root inode is written. *)
FirstMount_BeforeStart(s, reach) ==
    LET t == [s EXCEPT !.wp = Pos(1, 0), !.swap_wp = Pos(SwapZone, 0)]
        u == [t EXCEPT !.logical_entry_bitmap = @ \cup {FirstFree(t)}]
    IN  Write(u, 0, reach, InodeBlock(FirstFree(t), 0), FirstFree(t)).s

(* The branch of hodo_init "if it's first mount after formatting": write    *)
(* pointers are set and the root inode is written under the next number.    *)
FirstMount(s, reach) ==
    LET t == [s EXCEPT !.wp = Pos(1, 0), !.swap_wp = Pos(SwapZone, 0)]
        n == starting_logical_number + FirstFree(t)
        u == [t EXCEPT !.logical_entry_bitmap = @ \cup {FirstFree(t)}]
    IN  Write(u, starting_logical_number, reach, InodeBlock(n, 0), n).s

(* Mutant: the branch is taken at every start. *)
Started_Always(s, reach) == FirstMount(s, reach)

(* hodo_read_on_disk_mapping_info reads seq/0, which nothing writes. *)
Started(s, reach) == IF s.wp = Pos(0, 0) THEN FirstMount(s, reach) ELSE s

(* Mutant: the line of the volume is overlooked. *)
PathFound_Missed(known, there) == known

(* hodo_init finds the mount point in mountinfo if the volume is mounted.   *)
PathFound(known, there) == known \/ there

(* /proc/self/mountinfo cannot be opened: hodo_init returns at once, and    *)
(* nothing calls it again for this mount.                                   *)
hodo_init_unopened ==
    /\ late > 0 /\ late' = late - 1
    /\ UNCHANGED <<store, start, path, mounted, made, mounts, reloads>>

hodo_init ==
    /\ late > 0 /\ late' = late - 1
    /\ start' = starting_logical_number
    /\ path' = PathFound(path, mounted)
    /\ store' = Started(store, mounted)
    /\ UNCHANGED <<mounted, made, mounts, reloads>>

--------------------------------------------------------------------------------
(* Creating a file in the root directory *)

(* add_dirent on the root. *)
AddDirent(s, name) ==
    LET dir == Read(s, start, Reach, RootIno)
        blk == IF dir.data.direct = 0 THEN DirentBlock({name})
               ELSE LET b == Read(s, start, Reach, dir.data.direct)
                    IN  [b EXCEPT !.data.names = @ \cup {name}]
        w   == Write(s, start, Reach, blk, dir.data.direct)
    IN  Write(w.s, start, Reach, [dir EXCEPT !.data.direct = w.n], RootIno).s

(* hodo_create takes a number, writes the inode and enters the name; no     *)
(* result is looked at, and it returns 0.                                   *)
hodo_create(name) ==
    /\ mounted /\ name \notin made
    /\ LET n == FirstFree(store) + start
           u == [store EXCEPT !.logical_entry_bitmap = @ \cup {FirstFree(store)}]
           v == Write(u, start, Reach, InodeBlock(n, 0), n).s
       IN  store' = AddDirent(v, name)
    /\ made' = made \cup {name}
    /\ UNCHANGED <<start, path, mounted, late, mounts, reloads>>

--------------------------------------------------------------------------------
(* A formatted device, and the module just loaded. *)
Init ==
    /\ store = ZeroInfo([z \in SeqFiles |-> << >>])
    /\ start = 0 /\ path = FALSE /\ mounted = FALSE
    /\ late = 0 /\ made = {} /\ mounts = 0 /\ reloads = 0

Next ==
    \/ \E ok \in BOOLEAN : zonefs_mount(ok)
    \/ zonefs_kill_super \/ Reload \/ hodo_init \/ hodo_init_unopened
    \/ \E name \in Names : hodo_create(name)

(* The first start-up succeeds and is waited for: until it is over no mount *)
(* and no hodo_init fails and nobody creates a file or unmounts, and once a *)
(* file system exists the module stays loaded.                              *)
StartedUp == path

(* The three blocks that a creation writes lie in data zones. *)
HasRoom(s) == Advanced(Advanced(s.wp)).zone_id < SwapZone

SafeNext ==
    \/ zonefs_mount(TRUE) \/ hodo_init
    \/ StartedUp /\ zonefs_mount(FALSE)
    \/ StartedUp /\ hodo_init_unopened
    \/ StartedUp /\ zonefs_kill_super
    \/ store.wp = Pos(0, 0) /\ Reload
    \/ StartedUp /\ HasRoom(store) /\ \E name \in Names : hodo_create(name)

Spec == Init /\ [][Next]_vars

SafeSpec == Init /\ [][SafeNext]_vars

--------------------------------------------------------------------------------
(* The file system is up: mounted, and no start-up is under way. *)
Up == mounted /\ path /\ late = 0

RootBlock == Read(store, start, Reach, RootIno)

Listing ==
    IF RootBlock.data.direct = 0 THEN {}
    ELSE Read(store, start, Reach, RootBlock.data.direct).data.names

(* hodo_init: "root inode를 wp에 쓰기" (the root inode is written at wp).   *)
(* Whenever the file system is up, the number the VFS uses for the root     *)
(* leads to the block of the root inode.                                    *)
RootThere == Up => RootBlock.magic = "INO" /\ RootBlock.lbn = RootIno

(* A creation that was acknowledged is in the root directory whenever the   *)
(* file system is up, also after unmounts, restarts and early calls.        *)
NamesKept == Up => Listing = made

(* hodo_init: "if it's first mount after formatting, initialize in-memory   *)
(* mapping_info". The branch runs only on a device that holds nothing.      *)
InitOnlyWhenFormatted ==
    [][store.wp = Pos(0, 0) /\ store'.wp # Pos(0, 0)
       => \A z \in SeqFiles : store.seq[z] = << >>]_vars

(* Every start-up that begins is finished or cut off, and while the volume  *)
(* stays mounted it comes up: the thread needs no one but the scheduler.    *)
ComesUp == mounted ~> (Up \/ ~mounted)

LiveSafeSpec == SafeSpec /\ WF_vars(hodo_init)

================================================================================
