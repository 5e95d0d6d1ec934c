-------------------------------- MODULE HodoFS ---------------------------------
(***************************************************************************)
(* The directory operations of hodo.c and trans.c: lookup, create, mkdir,  *)
(* unlink, rmdir and readdir over inodes and dirent blocks in the log, and *)
(* the collection every mkdir ends with.                                   *)
(*                                                                         *)
(* In a block, data is one of                                              *)
(*   an inode        [kind, file_len, i_nlink, direct]  (hodo_inode)       *)
(*   a dirent block  [dirents], the slots before the first invalid one:    *)
(*                   removal shifts the later slots down and insertion     *)
(*                   takes the first invalid one, so there are no gaps.    *)
(* dcache is the part of the dentry cache under the mount point: for every *)
(* path its dentry, with the in-core inode when there is one.              *)
(***************************************************************************)
EXTENDS HodoLog, SequencesExt

CONSTANTS Names,             \* file names
          MaxDepth,          \* the longest path
          NDirect,           \* direct pointers of an inode (10)
          DirentsPerBlock,   \* dirent slots of a block (102)
          MaxCalls           \* a bound on the calls of a run

ASSUME FSAssumption ==
    /\ MaxDepth \in Nat /\ MaxCalls \in Nat
    /\ NDirect \in Nat \ {0} /\ DirentsPerBlock \in Nat \ {0}

VARIABLES dcache, calls

fsvars == <<store, gc, dcache, calls>>

--------------------------------------------------------------------------------
(* Paths *)

Root == << >>

Path == UNION {[1 .. k -> Names] : k \in 0 .. MaxDepth}

Parent(p) == Front(p)

Name(p) == Last(p)

Entries(p) == {q \in Path \ {Root} : Parent(q) = p}

--------------------------------------------------------------------------------
(* On-disk structures *)

Inode(kind, len, nlink) ==
    [kind |-> kind, file_len |-> len, i_nlink |-> nlink,
     direct |-> [i \in 1 .. NDirect |-> 0]]

Dirent(name, ino) == [name |-> name, i_ino |-> ino]

DirentBlock(ds) == MkBlock("DAT", 0, [dirents |-> ds])

(* What the blocks of directories hold; the blocks of files are FileIO's. *)
InodeData ==
    [kind : {"dir", "reg", "zero"}, file_len : Int, i_nlink : Int,
     direct : [1 .. NDirect -> Lbn \cup {0}]]

DirentData == [dirents : Seq([name : Names, i_ino : Lbn])]

FSData == InodeData \cup DirentData

(* Zero-filled buffers for an inode and for a data block. *)
ZeroInode == ZeroBlock(Inode("zero", 0, 0))

ZeroData == ZeroBlock([dirents |-> << >>])

ReadInode(s, n) == hodo_read_struct(s, n, ZeroInode)

(* What the one buffer of a directory scan holds after the i-th pointer: a *)
(* pointer of 0 is skipped, and a read that returns nothing leaves the     *)
(* previous block there.                                                   *)
ScanBuffer(s, inode) ==
    LET buf[i \in 0 .. NDirect] ==
            IF i = 0 THEN ZeroData
            ELSE IF inode.direct[i] = 0 THEN buf[i - 1]
            ELSE hodo_read_struct(s, inode.direct[i], buf[i - 1])
    IN  buf

Slots(s, inode, i) ==
    IF inode.direct[i] = 0 THEN << >> ELSE ScanBuffer(s, inode)[i].data.dirents

Holds(ds, name) == \E j \in DOMAIN ds : ds[j].name = name

First(S) == CHOOSE i \in S : \A j \in S : i <= j

(* find_inode_number: the number of the first dirent with this name, 0     *)
(* (NOTHING_FOUND) if there is none.                                       *)
find_inode_number(s, inode, name) ==
    LET hits == {i \in 1 .. NDirect : Holds(Slots(s, inode, i), name)}
    IN  IF hits = {} THEN 0
        ELSE LET ds == Slots(s, inode, First(hits))
             IN  ds[First({j \in DOMAIN ds : ds[j].name = name})].i_ino

(* read_all_dirents, from the first entry on: what ls shows. *)
read_all_dirents(s, inode) ==
    FlattenSeq([i \in 1 .. NDirect |-> Slots(s, inode, i)])

(* Mutant: one empty block is enough. *)
check_directory_empty_AnyBlock(s, n) ==
    \E i \in 1 .. NDirect : Slots(s, ReadInode(s, n).data, i) = << >>

(* check_directory_empty *)
check_directory_empty(s, n) ==
    \A i \in 1 .. NDirect : Slots(s, ReadInode(s, n).data, i) = << >>

(* add_dirent: into the first free slot, or a new block at the first free  *)
(* pointer; a full directory is reported to a caller that does not look.   *)
add_dirent(s, dir, d) ==
    LET di   == ReadInode(s, dir)
        room == {i \in 1 .. NDirect :
                    \/ di.data.direct[i] = 0
                    \/ Len(Slots(s, di.data, i)) < DirentsPerBlock}
        i    == First(room)
        ptr  == di.data.direct[i]
        num  == IF ptr = 0 THEN hodo_get_next_logical_number(s) ELSE ptr
        blk  == IF ptr = 0 THEN DirentBlock(<<d>>)
                ELSE [ScanBuffer(s, di.data)[i] EXCEPT !.data.dirents = Append(@, d)]
        ino  == [di EXCEPT !.data.file_len = @ + 1, !.data.direct[i] = num]
    IN  IF room = {} THEN s
        ELSE hodo_write_struct(hodo_write_struct(s, blk, ptr), ino, dir)

(* Mutants: the dirent block is not written back; file_len is not lowered. *)
remove_dirent_KeepsBlock(s, dir, name) ==
    LET di  == ReadInode(s, dir)
        ino == [di EXCEPT !.data.file_len = @ - 1]
    IN  IF find_inode_number(s, di.data, name) = 0 THEN s
        ELSE hodo_write_struct(hodo_write_struct(s, ino, dir), ino, dir)

remove_dirent_KeepsLen(s, dir, name) ==
    LET di   == ReadInode(s, dir)
        hits == {i \in 1 .. NDirect : Holds(Slots(s, di.data, i), name)}
        i    == First(hits)
        ds   == Slots(s, di.data, i)
        j    == First({k \in DOMAIN ds : ds[k].name = name})
        blk  == [ScanBuffer(s, di.data)[i] EXCEPT !.data.dirents = RemoveAt(@, j)]
        s1   == hodo_write_struct(s, blk, di.data.direct[i])
    IN  IF hits = {} THEN s
        ELSE hodo_write_struct(hodo_write_struct(s1, di, dir), di, dir)

(* remove_dirent: the block is written without the dirent                  *)
(* (compact_datablock), then the directory's inode, twice.                 *)
remove_dirent(s, dir, name) ==
    LET di   == ReadInode(s, dir)
        hits == {i \in 1 .. NDirect : Holds(Slots(s, di.data, i), name)}
        i    == First(hits)
        ds   == Slots(s, di.data, i)
        j    == First({k \in DOMAIN ds : ds[k].name = name})
        blk  == [ScanBuffer(s, di.data)[i] EXCEPT !.data.dirents = RemoveAt(@, j)]
        ino  == [di EXCEPT !.data.file_len = @ - 1]
        s1   == hodo_write_struct(s, blk, di.data.direct[i])
    IN  IF hits = {} THEN s
        ELSE hodo_write_struct(hodo_write_struct(s1, ino, dir), ino, dir)

(* Mutant: the dirent carries the i_ino of the directory. *)
MakeStore_ParentNumber(s, dir, name, inode) ==
    add_dirent(NewInodeStore(s, inode), dir, Dirent(name, dir))

(* hodo_create and hodo_mkdir: a number, the inode under it, the dirent. *)
MakeStore(s, dir, name, inode) ==
    LET n == hodo_get_next_logical_number(s)
    IN  add_dirent(NewInodeStore(s, inode), dir, Dirent(name, n))

(* hodo_unlink: the table entry is erased before the inode is read, so     *)
(* what is written back with i_nlink = 0 is what zone file seq/0 holds:    *)
(* nothing, a zero-filled buffer.                                          *)
UnlinkStore(s, dir, name, target) ==
    LET s1 == hodo_erase_table_entry(s, target)
        t  == [ReadInode(s1, target) EXCEPT !.data.i_nlink = 0]
        s2 == hodo_write_struct(s1, t, target)
    IN  remove_dirent(s2, dir, name)

--------------------------------------------------------------------------------
(* The dentry cache *)

NoDentry(state) ==
    [state |-> state, i_ino |-> 0, dir |-> FALSE, listable |-> FALSE,
     i_size |-> 0, i_nlink |-> 0]

Unknown == NoDentry("unknown")

Negative == NoDentry("negative")

(* An in-core inode: listable says that i_fop is hodo_dir_operations, the  *)
(* only table with iterate_shared.                                         *)
Positive(n, isDir, list, size, nlink) ==
    [state |-> "positive", i_ino |-> n, dir |-> isDir, listable |-> list,
     i_size |-> size, i_nlink |-> nlink]

IsDir(p) == dcache[p].state = "positive" /\ dcache[p].dir

(* The logical number of a directory: the root's is fixed. *)
DirNumber(p) == IF p = Root THEN starting_logical_number ELSE dcache[p].i_ino

(* The mount: the root inode of zonefs_fill_super (one zone group), and a  *)
(* log that holds the root's hodo_inode (hodo_init).                       *)
FSInit ==
    /\ store = NewInodeStore(FormattedStore, Inode("dir", 0, 1))
    /\ gc = GCIdle
    /\ dcache = [p \in Path |-> IF p = Root THEN Positive(NZones, TRUE, TRUE, 3, 3)
                                ELSE Unknown]
    /\ calls = 0

--------------------------------------------------------------------------------
(* Calls. One runs at a time; the VFS resolves the parent first and looks  *)
(* a name up before it acts on it.                                         *)

Call(p) ==
    /\ gc.pc = "idle" /\ ~store.fault
    /\ p # Root /\ IsDir(Parent(p))

Counted == calls < MaxCalls /\ calls' = calls + 1

(* hodo_sub_lookup. The i_ino is the one the inode block carries, and the  *)
(* file operations are those of a regular file whatever was found.         *)
Lookup(p) ==
    LET dir == ReadInode(store, DirNumber(Parent(p))).data
        n   == find_inode_number(store, dir, Name(p))
        b   == ReadInode(store, n)
    IN  /\ Call(p) /\ dcache[p].state = "unknown"
        /\ dcache' = [dcache EXCEPT ![p] =
                         IF n = 0 THEN Negative
                         ELSE Positive(b.lbn, b.data.kind = "dir", FALSE, 0, 1)]
        /\ UNCHANGED <<store, gc, calls>>

(* The VFS drops an unused dentry; a dentry in the cache pins its parent. *)
Forget(p) ==
    /\ gc.pc = "idle"
    /\ p # Root /\ dcache[p].state # "unknown"
    /\ \A q \in Entries(p) : dcache[q].state = "unknown"
    /\ dcache' = [dcache EXCEPT ![p] = Unknown]
    /\ UNCHANGED <<store, gc, calls>>

hodo_create(p) ==
    LET dir == dcache[Parent(p)].i_ino
        n   == hodo_get_next_logical_number(store)
    IN  /\ Call(p) /\ Counted /\ dcache[p] = Negative
        /\ store' = MakeStore(store, dir, Name(p), Inode("reg", 0, 1))
        /\ dcache' = [dcache EXCEPT ![p] = Positive(n, FALSE, FALSE, 0, 1),
                                    ![Parent(p)].i_size = @ + 1]
        /\ UNCHANGED gc

hodo_mkdir(p) ==
    LET dir == dcache[Parent(p)].i_ino
        n   == hodo_get_next_logical_number(store)
        s   == MakeStore(store, dir, Name(p), Inode("dir", 2, 1))
    IN  /\ Call(p) /\ Counted /\ dcache[p] = Negative
        /\ dcache' = [dcache EXCEPT ![p] = Positive(n, TRUE, TRUE, 2, 1)]
        /\ store' = GCRewound(s)
        /\ gc' = GCCalled(s)

(* After the removal the VFS makes the dentry negative; a removed          *)
(* directory's cached entries go with it.                                  *)
Removed(p) ==
    [q \in Path |-> IF q = p THEN Negative
                    ELSE IF q # Root /\ Parent(q) = p THEN Unknown
                    ELSE IF q = Parent(p) THEN [dcache[q] EXCEPT !.i_size = @ - 1]
                    ELSE dcache[q]]

hodo_unlink(p) ==
    /\ Call(p) /\ Counted
    /\ dcache[p].state = "positive" /\ ~dcache[p].dir
    /\ store' = UnlinkStore(store, DirNumber(Parent(p)), Name(p), dcache[p].i_ino)
    /\ dcache' = Removed(p)
    /\ UNCHANGED gc

hodo_rmdir(p) ==
    /\ Call(p) /\ Counted
    /\ IsDir(p)
    /\ IF ~check_directory_empty(store, dcache[p].i_ino)
       THEN UNCHANGED <<store, dcache>>          \* -ENOTEMPTY
       ELSE /\ store' = UnlinkStore(store, DirNumber(Parent(p)), Name(p), dcache[p].i_ino)
            /\ dcache' = [Removed(p) EXCEPT ![Parent(p)].i_nlink = @ - 1]
    /\ UNCHANGED gc

Collect == ~store.fault /\ GCStep /\ UNCHANGED <<dcache, calls>>

--------------------------------------------------------------------------------
(* The envelope *)

(* Blocks left before the log would run into the swap zone. *)
Room(s) == (SwapZone - s.wp.zone_id) * BlocksPerZone - s.wp.block_index

(* Can the directory take another entry? *)
DirHasRoom(p) ==
    LET inode == ReadInode(store, DirNumber(p)).data
    IN  \E i \in 1 .. NDirect :
            inode.direct[i] = 0 \/ Len(Slots(store, inode, i)) < DirentsPerBlock

(* Every valid bit is that of a mapped block: false for good once a file   *)
(* was removed.                                                            *)
NoStaleBit(s) ==
    \A p \in s.GC_bitmap : \E n \in Lbn : s.mapping_table[n] = p

SafeMake(p) == IsDir(Parent(p)) /\ Room(store) >= 3 /\ DirHasRoom(Parent(p))

(* The bit that hodo_erase_table_entry clears is not that of another file. *)
SafeRemove(p) == Room(store) >= 4 /\ dcache[p].i_ino \notin store.logical_entry_bitmap

FSNext ==
    \/ \E p \in Path \ {Root} :
          \/ Lookup(p)
          \/ Forget(p)
          \/ hodo_create(p)
          \/ hodo_mkdir(p)
          \/ hodo_unlink(p)
          \/ hodo_rmdir(p)
    \/ Collect

SafeFSNext ==
    \/ \E p \in Path \ {Root} :
          \/ Lookup(p)
          \/ Forget(p)
          \/ SafeMake(p) /\ hodo_create(p)
          \/ SafeMake(p) /\ NoStaleBit(store) /\ hodo_mkdir(p) /\ NoSolidZone(store')
          \/ SafeRemove(p) /\ hodo_unlink(p)
          \/ SafeRemove(p) /\ hodo_rmdir(p)
    \/ Collect

FSSpec == FSInit /\ [][FSNext]_fsvars

SafeFSSpec == FSInit /\ [][SafeFSNext]_fsvars

--------------------------------------------------------------------------------
(* Properties *)

(* The tree a walk from the root finds on the device. *)
DiskNumber(s) ==
    LET num[p \in Path] ==
            IF p = Root THEN starting_logical_number
            ELSE LET d   == num[Parent(p)]
                     dir == ReadInode(s, d).data
                 IN  IF d = 0 \/ dir.kind # "dir" THEN 0
                     ELSE find_inode_number(s, dir, Name(p))
    IN  num

DiskKind(s, n) == IF n = 0 THEN "none" ELSE ReadInode(s, n).data.kind

DiskTree(s) ==
    LET num == DiskNumber(s) IN [p \in Path |-> DiskKind(s, num[p])]

NS == INSTANCE Namespace WITH tree <- DiskTree(store)

(* The tree on the device changes only as create, mkdir, unlink and rmdir  *)
(* of a path say, whatever blocks they rewrite, share or move: no call     *)
(* makes another path disappear or appear, or turns a file into a          *)
(* directory. This is NS!Spec with the two trees of a step bound once.     *)
ImplementsNamespace ==
    /\ DiskTree(store) = NS!Empty
    /\ [][\A t \in {DiskTree(store)}, u \in {DiskTree(store')} :
            t = u \/ NS!Step(t, u)]_fsvars

(* A dentry agrees with the device: positive with the number and the kind  *)
(* of what is there, negative only where there is nothing.                 *)
DcacheCoherent ==
    \A p \in Path :
        LET n    == DiskNumber(store)[p]
            kind == DiskKind(store, n)
        IN  /\ dcache[p].state = "positive" =>
                 /\ dcache[p].i_ino = n
                 /\ kind = IF dcache[p].dir THEN "dir" ELSE "reg"
            /\ dcache[p].state = "negative" => kind = "none"

(* ls shows every entry of a directory once and nothing else, and file_len *)
(* counts them; it starts at 0 for the root (hodo_init) and at 2 for a     *)
(* directory made by mkdir.                                                *)
ListingExact ==
    \A p \in Path :
        LET n     == DiskNumber(store)[p]
            inode == ReadInode(store, n).data
            ds    == read_all_dirents(store, inode)
            names == {ds[i].name : i \in DOMAIN ds}
        IN  DiskKind(store, n) = "dir" =>
              /\ Cardinality(names) = Len(ds)
              /\ inode.file_len = Len(ds) + (IF p = Root THEN 0 ELSE 2)
              /\ Len(p) < MaxDepth =>
                   \A q \in Entries(p) :
                       Name(q) \in names <=> DiskNumber(store)[q] # 0

(* No two paths share a logical number, and no path shares one with a      *)
(* dirent block.                                                           *)
NumbersDistinct ==
    LET used == {<<p, DiskNumber(store)[p]>> : p \in Path}
        inos == {u \in used : u[2] # 0}
        ptrs == UNION {{ReadInode(store, u[2]).data.direct[i] : i \in 1 .. NDirect}
                         : u \in inos}
    IN  \A u \in inos :
            /\ \A v \in inos : u[2] = v[2] => u = v
            /\ u[2] \notin ptrs

(* A directory in the dentry cache can be listed: its file operations have *)
(* iterate_shared, whether mkdir made the in-core inode or a lookup did.   *)
DirsListable == \A p \in Path : IsDir(p) => dcache[p].listable

(* The row of a removed file is marked unused in the bitmap. *)
RemovalFreesNumber ==
    [][\A p \in Path :
         hodo_unlink(p) => dcache[p].i_ino - starting_logical_number
                             \notin store'.logical_entry_bitmap]_fsvars

(* A collection moves blocks and keeps the tree. *)
GCKeepsTree == [][gc' # gc /\ gc.pc # "idle" => DiskTree(store') = DiskTree(store)]_fsvars

================================================================================
