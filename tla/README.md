# hodo: TLA+ models and proofs

hodo extends zonefs with a POSIX name space for ZNS SSDs: directories and files
whose blocks are appended to a log over the sequential zone files, found again
through an in-memory mapping table, and compacted by a garbage collector that
every `mkdir` runs. This directory models that log, the collector, the directory
operations, the file data path, start-up, concurrent callers and the zone files
underneath, checks them with TLC, and proves the log, its concurrent steps, the
name space, the content of files, listings, start-up and the zone files correct
with TLAPS. All source references are to files of the repository.

## 1. The system

| Component | State it keeps | Operations | Interacts with |
|---|---|---|---|
| Mapping layer (`trans.c:1219-1551`, `hodo.h`) | `mapping_table`, `logical_entry_bitmap`, `GC_bitmap`, `wp`, `swap_wp` | allocate a number, erase an entry, read and write a block by number, the collector's read and write | opens the zone files by path; called by everything below |
| Collector (`trans.c:46-203`) | locals of one call | `GC()` | moves both write pointers, resets zone files; called at the end of `hodo_mkdir` |
| Name space (`hodo.c:367-596`, `679-794`, `trans.c:627-1216`) | inodes and dirent blocks in the log; the VFS dentry cache | lookup, create, mkdir, unlink, rmdir, readdir | reads and writes blocks through the mapping layer |
| File data (`hodo.c:210-300`, `trans.c:207-625`) | direct and indirect pointers, `file_len`, `i_size` | `read_iter`, `write_iter` | mapping layer |
| Attributes (`hodo.c:796-820`) | in-core inode | `setattr` | VFS |
| Start-up (`hodo.c:98-143`, `super.c:1390-1403`) | `starting_logical_number`, first `wp` | `hodo_init` in a thread 100 ms after the mount | mapping layer |
| Zone files (`file.c`) | `z_flags`, `z_wpoffset`, `i_size`, `i_wr_refcnt` per zone | open, close, direct write at the write pointer, read, flush, truncation | block device |
| Mount and zone accounting (`super.c`) | `s_active_seq_files`, `s_wro_seq_files`, `s_used_blocks`, mount options | mount, remount, error recovery, accounting | zone files, block device |
| sysfs, tracing | none of their own | | |

What is hard here, and what makes each part correct:

- *Mapping layer.* Three structures say where data is (the table, the two
  bitmaps) and a fourth, the device, enforces sequential writes. They must agree
  after any sequence of calls: every number in use points at a written block that
  carries that number, the valid bitmap is the image of the table, no two numbers
  share a block, and `wp` is where zonefs takes the next write.
- *Collector.* It resets zones whose blocks exist only as copies elsewhere, takes
  block numbers from the blocks themselves, and depends on several boundary
  cases (a swap zone counted as full one block early, a copy-out that reads one
  block too many, the first zone to clear). No step of it may change what a
  number reads as; it must end, and reclaim the space it can.
- *Name space.* One call issues three to five writes through shared state. The
  tree on the device must change only as the call says, the dentry cache must
  agree with it, and a collection must keep it.
- *File data.* A file is a tree of up to three indirect levels, rewritten from the
  data block up to the inode by every write. The write path and the read path each
  compute the slots by themselves; two lengths (`file_len` on the device, `i_size`
  in core) are kept in different places; a write is many steps without a lock.
- *Zone files.* What zonefs believes of a zone and what the device holds must
  agree after every failure, with writes in flight and after a restart; the
  counts that limit open and active zones must follow.
- *Limits.* The device, a zone, a directory and the number space can be full;
  hardly any of these is reported to the caller.
- *Concurrency and restarts.* `mapping_info` has no lock and is never written
  back; start-up races with the first calls.

`PROJECT.json` lists the hazards with their lines and the properties that cover
them.

## 2. Modules

| Module | Models | Lines of code it stands for |
|---|---|---|
| `MappingInfo` | `mapping_info` plus the zone files, as operators on one record `store` | `trans.c:1219-1551`, `hodo.h`, `file.c` write/read/reset |
| `HodoGC` | `GC()`, one action per device operation, locals in `gc` | `trans.c:46-203` |
| `BlockStore` | abstract: content per number; a write changes one number | |
| `HodoLog` | writers reduced to their calls on the layer, plus the collector; properties and the inductive invariant | `hodo.c:98-143`, `385-426`, `570-574`, `trans.c:418-492`, `874-912` |
| `Namespace` | abstract: a tree of absent, regular and directory paths | |
| `HodoFS` | lookup, create, mkdir, unlink, rmdir over inodes and dirent blocks, the dentry cache, the collector | `hodo.c:385-596`, `679-738`, `trans.c:627-1216`, `super.c:1344-1367` |
| `FileIndex` | level and slots of block n of a file, for the writer and for the reader | `trans.c:207-286`, `540-600` |
| `FileIO` | one regular file: `read_iter`, `write_iter` block by block, one write call after the other, `setattr`, a second lookup | `hodo.c:210-300`, `718-820`, `trans.c:207-625` |
| `Readdir` | a listing in several `getdents` calls while entries come and go | `hodo.c:740-794`, `trans.c:738-870` |
| `HodoConcurrent` | `hodo_write_struct` and `hodo_read_struct` split at every access to shared state, several callers beside `GC()`, a device that may fail | `trans.c:1219-1431` |
| `HodoMount` | mount, the start-up thread, `hodo_init`, unmount, reload, create in the root | `super.c:1370-1420`, `hodo.c:98-145` |
| `Zonefs` | sequential zone files and the volume's counters beside the device | `file.c`, `super.c` |
| `MC...` | model values and symmetry for TLC, one per module | |
| `HodoLogProofs` | proofs about `HodoLog`: types, the clients' steps, the collector's | |
| `HodoFSProofs` | proofs about `HodoFS` under `SafeFSSpec`, from those about the log | |
| `HodoConcurrentProofs` | proofs about `HodoConcurrent` under `SafeConcSpec`, from those about the log, and of `NumbersOwned` under `AllocSpec` | |
| `FileIOProofs` | proofs about `FileIndex` and `FileIO`: slots, the tree, the bytes | |
| `ReaddirProofs` | proofs about `Readdir` under `Spec` | |
| `ZonefsProofs`, `ZonefsSafety` | proofs about `Zonefs`: under `Spec`; under `SafeSpec` | |
| `HodoMountProofs` | proofs about `HodoMount` under `SafeSpec` | |

`HodoFS` extends `HodoLog`, which extends `HodoGC`, which extends `MappingInfo`:
the log and collector that are proved about are those the directory operations run
on, and their proofs start from those of the log. Its specification is `FSSpec`, its
envelope `SafeFSSpec`, and `Data`, what a block may hold, is given as the inodes and
lists of dirents (`FSData`). `HodoConcurrent` extends `HodoLog`, so that its readers meet
the steps of the collector that is proved correct alone and its proofs start from
the invariant of the log; its specification is `ConcSpec`, its envelope
`SafeConcSpec`. `HodoMount` extends `MappingInfo`. `FileIO` stands on `BlockStore`, which `HodoLog` is proved to
implement: its `blocks` are the contents by number. `Zonefs` is the layer that
`MappingInfo` uses by three operations (write at the write pointer, read, reset).

**State.** `store` has the fields of `struct hodo_mapping_info` under their names
(the bitmaps as sets of the indices whose bit is 1), and `seq[z]`, the blocks in
zone file `seq/z` since its last reset, so `Len(seq[z])` is `z_wpoffset` in
blocks. `store.fault` is set when a call indexes `mapping_table` outside its
bounds; nothing runs after that, since the outcome is undefined. A block is
`[magic, lbn, data]` with the number it carries in its header. `dcache` of
`HodoFS` gives for each path its dentry and in-core inode; `calls` bounds a run.

**Actions.** `NewInode`, `NewData`, `Update` are the three ways blocks reach the
log (an inode under a number just taken, a data block with `NEW_DATABLOCK`, a
rewrite under a known number). `GCBegin` is the prologue of `GC()`; `GCSwapIn`
one round of the swap-in loop; `GCScanDone` its exit; `GCResetFront`,
`GCSwapOut`, `GCSwapOutDone`, `GCResetSwap` the swap-out of a full swap zone and
of the remainder (the same code twice, told apart by `gc.full`); `GCClear` and
`GCReturn` the final loop. `Lookup`, `hodo_create`, `hodo_mkdir`, `hodo_unlink`,
`hodo_rmdir` are the VFS operations, each with all the writes it makes;
`hodo_mkdir` ends by entering the collector. `Forget` is the VFS dropping a
dentry, `Collect` a step of the collector.

In `FileIO`, `hodo_file_write_iter` begins a call, `WriteOneBlock` is one round of
`hodo_sub_file_write_iter` (the data block, every indirect block above it, the
inode, both lengths), and a call ends by `WriteReturn`, `WriteTooBig` (`-EFBIG`)
or `WriteFaults` (a buffer that cannot be read). `hodo_file_read_iter` sets `fault`
when it follows a pointer that is 0. `file` is the history a POSIX file would have.
In `Readdir`, `Getdents(cap)` is one call with room for `cap` entries; `seen`
records what happened since the listing passed the dots. In `HodoConcurrent` a
write goes through `BeginWrite` (it fetches `wp`), `SetValid` (the bit of `wp` as it
is then), `FindNumber` and `MarkNumber` (or `ClearOld`), `SetTable`, `DeviceWrite` or `DeviceFails`, `Advance`; a read through `BeginRead`
and `ReadBlock`. In `HodoMount` a mount, also one that fails, adds a sleeping thread (`late`), and
`hodo_init` is its waking (`hodo_init_unopened` when it cannot open
`/proc/self/mountinfo`). `Zonefs` has one action per handler of `file.c` and
`super.c`. A write is `zonefs_file_write_iter` (the checks before the inode lock),
`zonefs_file_dio_write` or `WriteRefused` (with the lock), `iomap_dio_rw` or
`SubmissionFails`, `DeviceWrite`, and `zonefs_file_write_dio_end_io` or `WriteError`;
`io[z]` holds the writes that have moved `z_wpoffset` and are not complete; the operators `zonefs_handle_io_error`,
`zonefs_account_active`, `zonefs_update_stats` and `zonefs_i_size_write` carry the
names of the functions they stand for.

**Abstractions.**

- Names are model values; data is a model value in `HodoLog` and an inode or a
  list of dirents in `HodoFS`. A dirent block is the sequence of its valid slots:
  insertion takes the first invalid slot and removal shifts the rest down
  (`compact_datablock`), so there is never a gap. The indirect pointers of a
  directory are always 0 (`add_dirent` sets none), so the branches of the scans
  that follow them are not reachable and the scans run over the direct pointers.
- Uninitialised buffers read as zero: the documented build copies the
  distribution's kernel configuration (README.md, part 1-3), which zeroes
  allocations and automatic variables. `hodo_unlink` and the collector's copy-out
  depend on what such a buffer holds.
- `block_index` is a `uint16_t` and a zone has 65536 blocks: every loop over a
  zone leaves at index 65535 (`trans.c:106`, `1420`), so no increment wraps, and
  `TypeOK` (proved) says that no index reaches `BlocksPerZone`.
- Memory allocation succeeds. The device fails only in `HodoConcurrent` and
  `Zonefs`, calls overlap only in `HodoConcurrent` and `Zonefs`, and the other
  modules take them one at a time; in `FileIO` reads and truncations also come
  between the rounds of a write.
- A round of a write (`write_one_block`, `trans.c:286-416`) is one step of `FileIO`.
  In the code it reads the inode, writes the data block and the indirect blocks and
  rewrites the inode in many steps, and `hodo_file_write_iter` takes no lock
  (`hodo.c:282-296`): two rounds of one file that interleave can both see a pointer 0
  and give the block a number each, of which one leaks, or lose an update of the
  inode. `FileIO` therefore takes the write calls one after the other, and nothing is
  claimed of writes that overlap.
- In `HodoConcurrent` one process at a time runs `GC()`, though two `mkdir` in
  different directories may run it at once; writes and reads meet it at every step.
- `FileIO` makes the state of memory a constant, `ZeroedMemory`. `read_len` is an
  `int` (`hodo.c:229`): with 2 to 4 GB left in the file it is negative, the
  comparison with the unsigned count makes the count win, which is right; only
  with more than 4 GB left, which a file without holes cannot have on a device of
  `SSD_CAPACITY`, is it cut. Its width is left out.
- `Zonefs`: sizes are in blocks; `i_truncate_mutex` makes each step atomic, and the
  inode lock is held from the start of a write to its end or, when it is
  asynchronous, to its submission. What `zonefs_file_write_iter` checks before the
  lock (immutable file, `SB_RDONLY`) may have changed when the writer gets it. A write
  may fail before all of it is at the device (`-ENOTBLK`, `-EFAULT`, `-EINVAL`,
  `-ENOMEM`: `SubmissionFails`), which runs the recovery with no fault of the device.
  The device may lose writes it acknowledged (`DeviceLoses`, pattern 2 of
  `super.c:301-306`). A caller may mount or remount read-only; the VFS refuses that
  while a file is open for writing. Not modelled is another program that resets a
  zone on the block device and then writes to it. The moment in which a refused open has
  incremented `s_wro_seq_files` and not yet taken it back is not a state, the
  limit on active zones is that of open zones, and closing a zone at mount does
  not fail.
- `HodoMount`: the root has one dirent block, a set of names; the search of
  `/proc/self/mountinfo` is whether the volume is mounted. A mount may fail and starts
  the thread all the same (`super.c:1399-1401`); that it fails in a freshly loaded
  module before the zone size is known (`super.c:961`) is left out.
- User entries named `seq` or `cnv`, timestamps, owners and modes are left out.

**Spec and SafeSpec.** `Spec` is what the code does. The code does not check that
the device has room or that a zone has a dead block before it is collected, and
the damage when they do not hold is shown by runs of `Spec`. `SafeSpec` is `Spec`
restricted to calls for which they hold; it is the envelope in which the layer
can be relied on, stated by `HasRoom` and `NoSolidZone` in `HodoLog`, and in
`HodoFS` also `DirHasRoom`, `NoStaleBit` (no collection after a removal) and the
condition of `SafeRemove` (the bit that the erase clears is not one in use).
The other modules follow the same convention: `SafeNext` in `FileIO` (no overwrite that ends before the file does, `i_size` up to date, no read
that ends with the file on a block boundary, no truncation), `SafeConcNext` in `HodoConcurrent`
(one block write at a time, the collector alone; no lock of the code provides it, so
the callers must take turns), in `HodoMount` (nobody calls or unmounts, and no mount
fails, before the first start-up, no reload once a file system exists, room for the
blocks of a creation) and in `Zonefs` (failing reads and flushes, and the collector's
resets, do not meet a write in flight; once something has failed, a read-only volume
is not made writable again and drops no inode). `AllocNext` in `HodoConcurrent` is a
much weaker condition, for `NumbersOwned` alone: a search for a free number is not
begun between another one and the setting of its bit, and finds one. `Readdir` has no envelope: its properties name the
cause of what a listing may miss or repeat.

## 3. Runs

| Run | Specification, bounds | Result |
|---|---|---|
| `log_safe` | `SafeSpec`, 5 zones of 3 blocks (2 data zones), 2 data values, symmetric | all invariants, `ImplementsBlockStore`, `GCInvisible` hold; 236,560 states |
| `log_live` | `SafeSpec`, 5 x 3, 1 data value, fairness | `GCReclaims`, `GCTerminates` hold |
| `fs_safe` | `SafeFSSpec`, 7 zones of 4 blocks, 2 names, depth 2, 2 blocks of 2 dirents, 4 calls, symmetric | the tree, cache and listing properties hold; 20,191 states |
| `fs_unlink_gc` | `FSSpec`, 5 x 10, depth 1, 4 calls | `GCKeepsTree` violated |
| `fio_safe` | `SafeSpec`, 2 bytes per block, 1 direct pointer, 2 pointers per block (files of up to 30 bytes), calls of 1, 7 and 20 bytes, 3 calls | a file reads back as written at every step, its tree is sound, read and write paths agree; 11,587 states |
| `ls_calls` | `Spec`, 3 names in 2 blocks of 2 dirents, buffers of 1 to 5 entries, 5 changes, symmetric | `ListingComplete`, `NoRepeats` hold; 1,002 states |
| `conc_safe` | `SafeConcSpec`, 5 x 3, 2 writers, 1 reader, 2 data values, 3 writes, symmetric | writes land, quiet reads are right, numbers are owned by one writer, the steps implement the block store; 22,267 states |
| `conc_writers` | `ConcSpec`, 2 writers | `WritesLand` violated |
| `mount_safe` | `LiveSafeSpec`, 5 x 10, 3 names, 4 mounts, 2 reloads | `RootThere`, `NamesKept`, `ComesUp` hold; 972 states |
| `mount_reload` | `Spec`, 2 mounts, 1 reload | `InitOnlyWhenFormatted` violated |
| `zone_faults` | `SafeSpec`, 2 zones of 2 blocks, empty, open, read-only or offline at mount, 1 open zone, `errors=zone-ro` and `repair`, synchronous writes, any number of failed submissions, 1 device fault, symmetric | accounting, write pointers, sizes and counts hold; 753,998 states |
| `zone_async` | `SafeSpec`, 1 zone of 3 blocks, `errors=remount-ro`, `zone-offline` and `repair`, 3 writes in flight, failed submissions, no device fault | `SizeNeverFallsBack`, `ReadOnlyHasCause` hold; 337,059 states |

*Why the bounds are enough.* With 3 blocks per zone and 2 data zones a
collection meets: nothing valid, a remainder only, a full swap zone with and
without a remainder, the double write of the last block, a log that ends inside
and at the end of a zone, and a rewound pointer with an empty zone under it. The
state space of the log is finite without a bound: the log's room is. The proofs
remove the bounds for all but the properties listed at the end of section 4. In
`fs_safe` a call writes 3 or 4
blocks, so 4-block zones make every mkdir's collection cross zones, 2 slots per
block make the third entry open a second block, and depth 2 gives non-empty
directories to `rmdir`; the four calls reach create, remove and reuse of a slot.
Data values (`log_safe`) and names (`fs_safe`) are interchangeable in every
definition, which makes the symmetry sound; `log_live` and `mount_safe` check
liveness and use none.

In `fio_safe` one direct pointer and two pointers per block give the largest file
15 blocks: a call of 20 bytes goes from the direct pointer through the single and
double indirect blocks into the triple one, 7 bytes start and end inside blocks,
and 30 bytes meet the limit of the file. `ls_calls` has room for a third name that
opens the second block, so that additions and removals shift the entries after
`ctx->pos`. Three writes fill a zone of `conc_safe`, so a writer advances `wp` into
the next zone, rewrites a block, and the collector runs between calls. With two
blocks a zone of `zone_faults` is empty, partly written or full, which is all that
the accounting tells apart; failed submissions need no fault, so a failing report or a
loss of data may follow one, and `MaxOpen = 1` makes the second file meet the limit. A
loss beside a second fault, and the other `errors=` options with synchronous writes,
are left to the proofs, which bound neither; `remount-ro`, after which a volume takes
no more writes, is in `zone_async`. Three
asynchronous one-block writes complete in all six orders in `zone_async`. Zones are
interchangeable in `Zonefs`, writers and data in `HodoConcurrent`.

*Deadlock* is not checked: a log without room takes no more writes in
`SafeSpec`, a faulted store takes no step, and the runs of `HodoFS`, `FileIO`,
`Readdir`, `HodoConcurrent` and `HodoMount` stop at their bounds. The runs of
`Zonefs` check it: a volume can always be restarted.

*Fairness* is `WF` on the collector's steps and on `hodo_init`. `GC()` is
straight-line code without a lock or a wait on another call, so once called it
keeps running; the start-up thread sleeps for a fixed time and then runs, whatever
others do. Nothing is assumed of the clients.

*Mutants.* Beside the definition it changes, a module keeps the mutated form that
shows each property can fail (`Advanced_PastEnd`, `SwapOutLimit_DropsLast`, ...):
the run with that form in place of the original must report the property as
violated. `PROJECT.json` lists the pairs.

### What the violation runs show

1. `fs_unlink_gc` - `hodo_unlink` erases the table entry before it rewrites the
   inode (`hodo.c:482`), so the old block stays valid for ever. The collection of
   the next `mkdir` fills the swap zone with copies of it and resets a zone with
   live blocks.
2. `conc_writers` - `wp` is read at the start of `hodo_write_struct` and advanced
   at its end, without a lock: of two writers at one `wp` one is refused by zonefs,
   and both are acknowledged (`trans.c:1361`).
3. `mount_reload` - `mapping_info` is never written to the device, so after a
   reload of the module the first-mount branch runs on a device that holds files
   (`hodo.c:106`).

### Configurations outside the envelopes

Each envelope condition is there because the code does not enforce it. These
configurations check one property under `Spec` (`FSSpec`, `ConcSpec`), or under one
relaxed condition, and TLC reports it as violated; they document why the condition is needed and are not
part of the regular runs.

| Configuration | Property | What the trace shows |
|---|---|---|
| `log_solid` | `GCInvisible` | the swap zone counts as full after `BLOCKS_PER_ZONE-1` copies (`trans.c:73`); a zone all of whose blocks are valid loses the last |
| `log_full` | `SwapZoneReserved` | `wp` moves into the collector's zone (`trans.c:1422`) |
| `fs_erase` | `RemovalFreesNumber` | bit `n` is cleared, not `n - starting_logical_number` (`trans.c:1291`) |
| `fs_relookup` | `DirsListable` | a directory found by lookup has the operations of a file (`hodo.c:726`) |
| `fs_dir_full` | `DcacheCoherent` | a create in a full directory reports success (`hodo.c:428`) |
| `fio_overwrite` | `WriteKeepsRest` | a write inside a file sets `file_len` to its own end (`trans.c:340`) |
| `fio_aligned_read` | `ReadsInBounds` | a read ending on a block boundary looks up the block after it, number 0 (`hodo.c:240`) |
| `fio_uninit` | `ReadsInBounds` | memory that is not cleared is followed as a pointer (`trans.c:582`) |
| `fio_append` | `AppendsAtEnd` | after a second lookup `i_size` is 0 and an append overwrites the file (`trans.c:303`) |
| `fio_truncate` | `TruncateCuts` | a truncation leaves `file_len` (`hodo.c:813`) |
| `fio_efault` | `FailedWriteHarmless` | `-EFAULT` is added to the length (`trans.c:340`) |
| `conc_numbers` | `NumbersOwned` | two callers get one number (`trans.c:1231`) |
| `conc_safe` with one writer, `ConcSpec` and `FailingDevice = TRUE` | `WritesLand` | after one failed device write, which nobody looks at (`trans.c:1417`), every later write to the zone is refused and acknowledged |
| `conc_gc` | `QuietReads` | a collection resets the zone between the two halves of a read (`trans.c:1299`) |
| `mount_early` | `NamesKept` | a create before start-up is acknowledged and lost (`super.c:1391`) |
| `mount_quick` | `RootThere` | a mount that fails (or an unmount) before start-up: the thread runs with nothing mounted, moves `wp` all the same, and the next mount has no root (`hodo.c:144`) |
| `zone_fsync` | `SizeBacked` | a write has reached the device and its completion has not run when the device loses it and a flush reports that (`file.c:284`): the recovery corrects the size, and the completion then raises it over data that is gone |
| `zone_async_error` | `WpExact` | the recovery of a second failed write undoes a later one (`file.c:364`) |
| `zone_left_open` | `NoneLeftOpen` | with `errors=zone-ro` a zone stays explicitly open (`file.c:821`) |
| `zone_gc` | `ReadOnlyHasCause` | the collector resets a zone between a write's check and its submission (`trans.c:85`) |

## 4. Proofs

### The log and its collector

The theorems about the log hold for all `NZones >= 4` and `BlocksPerZone >= 2`
(`GeometryAssumption`) and any `Data` without `Nil` (`NilAssumption`).

- `HodoLogProofs!TypeCorrect`: `Spec => []TypeOK`, for the code without the
  envelope. It includes that the number and position searches return what they
  say, which rests on the least-element property of sets of naturals
  (well-foundedness of `<`).
- `HodoLogProofs!Inductive`: `SafeSpec => []IndInv`. From it follow `NeverFaults`,
  `NumbersStayExact`, `BitmapStaysExact`, `MappingStaysInjective`,
  `LiveStaysReadable`, `LogStaysSequential`, and with the step lemmas the action
  property `CollectionInvisible` and the refinement `Refinement`
  (`SafeSpec => ImplementsBlockStore`).

*The inductive invariant.* The properties are not inductive by themselves: that a
reset loses nothing depends on how many blocks were copied before it. `IndInv`
has `Live` (table, bitmaps and blocks agree), `Layout` (the log before `wp` is
written) and one conjunct per phase of `GC()`:

- `ScanInv`: while blocks are copied in, the valid blocks left in the zone under
  `wp` lie at or after the index the swap pointer has reached, and there is a hole
  among those indices. So when the swap zone counts as full, or the scan ends, the
  zone under `wp` has no valid block left (`ResetInv`) and may be reset. This is
  where `NoSolidZone` is used.
- `OutInv`: the copies not yet written back are those the table points at; those
  written back are the end of the log, and the last is also in `temp_datablock`,
  so the extra round that reads nothing writes the same block again.
- `DrainInv`, `ClearInv`: no valid block is left in the swap zone when it is
  reset, nor in the zones behind the log.
- `NumbersLast`: the numbers in use are as many as valid
  positions, which are fewer than the table's entries, so
  `hodo_get_next_logical_number` does not return -1 while the log has room.

There is one lemma per action: those of the clients first, then those of the
collector.

### Name space

`HodoFSProofs` holds under `SafeFSSpec` for every geometry, set of names, depth of
the tree, number of direct pointers and of dirents per block, and any number of
calls, if blocks can hold hodo_inodes and dirents (`DataHoldsFS`, that is
`FSData \subseteq Data`; the configurations take `Data <- FSData`): `DcacheTheorem`
(`DcacheCoherent`), `ListingTheorem` (`ListingExact`), `DistinctTheorem`
(`NumbersDistinct`), `GCKeepsTreeTheorem` (`GCKeepsTree`) and the refinement
`NamespaceTheorem` (`ImplementsNamespace`), all from `FSInductive`
(`SafeFSSpec => []FSInv`).

*The invariant* relates three layers.

- *The log.* During a collection it is `IndInv` of the log. Outside one it is
  `FSLog`, which is weaker: a removal leaves the valid bit of a block that no number
  points at (`hodo.c:482`), so `Live` holds only as long as nothing has been removed
  (`Live(s) \/ Stale(s)`). `NoStaleBit`, the envelope's condition on `mkdir`, turns
  `FSLog` back into what the collector needs (`NoStaleLive`, `CollectorInd`). That
  `seq/0` stays empty is part of it: an erased number is looked up at block 0 of
  zone 0, and the buffer stays zero because nothing is ever written there.
- *The tree.* What the numbers read as (`Content`) is a `Tree`: one map from paths
  to numbers such that every path's inode and dirent blocks are well formed, no name
  is twice in a directory (`NodeOK`), a path has a number exactly when its parent has
  the dirent that says so (`LinkOK`), no inode or block is shared (`Apart`), and
  `file_len` counts the dirents (`CountOK`). Without `Apart` a rewrite of one
  directory could change another; with it `EntersTree` and `LeavesTree` show that
  adding and removing one dirent changes one path.
- *The dentry cache* agrees with that tree (`Cached`).

*The argument.* `Rewrite` says what one write through the mapping layer does to
`Content` (one number, and the log stays in order); from it come what each of the
calls of a directory operation does (`InodeWritten`, `BlockWritten`, `InodeZeroed`,
`AddsDirent`, `TakesDirentOut`), and what the three to five writes of an operation do
together (`MakesNode`, `RemovesNode`). `WalkFinds` and `FindNumber` show that the
walk from the root finds the tree's numbers, `ListsNames` that a listing is the
dirents of the blocks in order. A step of the collector changes no content, so it
keeps the tree whatever it moves.

### Concurrent callers

`HodoConcurrentProofs` holds for every geometry and any sets of writers and readers,
under `SafeConcSpec`: `WritesStayLanded` (`WritesLand`), `QuietReadsAreRight`
(`QuietReads`), `NumbersOwnedInTurn` (`NumbersOwned`) and the refinement `StepsRefine`
(`StepsImplementBlockStore`), from `ConcInductive`.

`NumbersStayOwned` proves `NumbersOwned` under `AllocSpec`, where any number of writes,
reads and a collection are half done at once, lost writes and failures of the device
included: only the search for a free bit and the setting of that bit are not
interrupted by another search (`trans.c:1227-1234`), and there is a bit left. Its
invariant, `AllocInv`, needs nothing of the log: the numbers in use stay in use, those
a process owns are among them, and the one found and not yet marked is not. It says
that a lock around `hodo_get_next_logical_number` alone would do for this property;
`conc_numbers` refutes it without.

In the middle of a write the log is not in order: the number is found and its bit
not set, the table points at a block the device does not have, or the device is
ahead of `wp`. The invariant `ConcInv` says for each step of `hodo_write_struct` how
the store differs from one that satisfies the invariant of the log (`IndInv`), so
that the last step can use what is proved of the atomic write, and that every
reader in the middle of a read holds a position whose block is that of its number
unless a write of that number overlapped it. The collector's steps come from
`HodoLogProofs`. Two writers at once are outside: `conc_writers` refutes `WritesLand`
there.

### Files

`FileIOProofs` holds for every size of block (`DataSize`), number of direct pointers
and of pointers per block, every set of writers, positions and lengths
(`FileAssumption`, `IndexAssumption`).

- *Slots.* `ReadFollowsWrite` (`SlotsAgree`) and `WritesApart` (`PathsDistinct`): the
  reader's `x % (P*P) \div P` and the writer's `(x \div P) % P` are the same digits
  of the block index (`Digits`, from the uniqueness of quotient and remainder,
  `DivModUnique`), every slot lies inside its block, and the digits determine the
  index. In the states of a file this is `ReadersComeToBlocks`
  (`Spec => []ReadersFindBlocks`).
- *Tree.* `TreeInductive`, `PointersHaveLevels` (`LevelsMatch`) and `NoNumberLeaks`
  (`NoLeak`) hold under `Spec`: overwrites, holes, appends after the size was lost,
  truncations between the rounds of a write and evictions between the calls, as long as
  the write calls come one after the other (which `Spec` assumes and no lock provides)
  and copying from buffers does not fail (`BadBuffers = FALSE`). They speak of the file
  after a round, not of the steps inside one. The last hypothesis is needed: a failed
  copy makes `i_size` negative (`fio_efault`), and the next append would start before
  the file. The invariant is `Shape`: every pointer is 0 or leads to a block of the level its place
  asks for, no number stands in two places, every number in use stands in one. A
  round of a write replaces the blocks on one path and gives the missing ones new
  numbers; `Effect` says what it leaves and `WriteEffect` that the loop of `Written`
  does it, level by level. There the numbers could run out: `NumbersLeft` counts the
  blocks of each level by the places one level up (`LevelCount`, `LevelBound`), and a
  path with a missing block shows that its level is not full (`LevelShort`). Since
  `Below` of `LevelsMatch` and `NoLeak` collects the tree from the inode down,
  `TreeUp` and `TreeDown` show that it finds exactly the numbers in use.
- *Bytes.* `FileInductive` (`SafeSpec => []FileInv`) and from it `OldBytesRemain`
  (`OldBytesStay`), `WrittenBytesReadBack` (`ReadsBack`) and `EnvelopeIsSound`. A file
  in the middle of a write is shorter than before it when the write overwrites its
  end, so neither property is inductive. `FileInv` adds to the tree that byte `i` of
  the file with the written part of the call over it lies where a walk to it finds it
  (`DataOK`), for every `i` below `file_len`, that the call starts inside the file and
  ends at or behind its end (`CallOK`), and that the next byte goes to
  `start + done`. `HoldsElsewhere` is the frame: a round leaves every byte of the
  other blocks alone, because no two blocks of a file share a number
  (`NumbersApart`). For `ReadsBack` the pieces that `hodo_file_read_iter` copies are
  shown to be adjacent parts of the file (`PieceOfFile`, `PartsJoined`).

### Listings

`ReaddirProofs` holds under `Spec`, for every set of names without the dots
(`ReaddirAssumption`), number of blocks and of dirents per block, size of the buffers
and order of additions, removals and calls: `ListingsAreComplete` (`ListingComplete`)
and `ListingsHaveNoRepeats` (`NoRepeats`), from `ReaddirInductive`. What a listing has
returned so far is related to the directory as it is now: `ctx->pos` counts entries,
and the entries before it are those emitted, as long as the events that move
entries across it have not happened.

Functions defined by recursion (`Below`, `WriteNumbers`, `Written`, `FlattenSeq`)
are handled in these proofs like the fold of the zone files below: the equation has
a solution, and a least argument where two solutions differ does not exist.

### Zone files

`ZonefsProofs` and `ZonefsSafety` hold for every finite set of zones, capacity
above 0, limit on open zones, set of `errors=` options, number of references,
writes in flight and faults, and for a device that starts in any set of conditions
(`ZonefsAssumption`).

- Under `Spec`, the code with all its races: `TypeCorrect` (every write in flight
  ends within the zone), `ActiveCounted` (`ActiveCount`) and `WroBounded`
  (`WroWithin`), from the inductive invariant `IInv`. The bound on
  `s_wro_seq_files` is not inductive alone: a close of a zone that failed earlier
  is refused at no further fault and leaves the count too high. `IInv` keeps the
  credit for it, `sb.wro + Cardinality(Doomed) <= Cardinality(WrittenFiles) + faults`,
  where `Doomed` are the zones that have failed without zonefs having noticed. It
  also says that a zone marked `OPEN` is good and was opened explicitly, without
  which the error handling could leave an open zone counted twice.
- Under `SafeSpec` with synchronous writes (`Async = FALSE`), and every fault, failed
  submission, read-only remount and loss of acknowledged data: `ActiveMarks`,
  `WritePointerKnown`, `ReadableIsWritten`, `UsedBlocks`, from `SyncInv`.
  `ReadableIsWritten` states the exceptions that `zonefs_handle_io_error` makes: a loss
  that no report has shown yet, and one that a report has shown and that left the zone
  read-only, where the size is kept (`super.c:301-306`, `331-337`). `SyncInv` follows the one write that a zone may have in flight from the move
  of `z_wpoffset` to its completion (`Flight`), and separates what is known of a
  zone on a writable volume from what is left of it once a failed zone report has
  made the volume read-only (`ZoneInv`). `Async = FALSE` is how hodo itself writes
  (`init_sync_kiocb`, `trans.c:1405`); the hypothesis is needed: `zone_async_error` breaks
  `WpExact` with two asynchronous writes, and a completion that runs after the recovery
  of another write raises the size again over data the device has lost. That the sum of the sizes lies between 0
  and the size of the volume, so that `zonefs_update_stats` never clamps, is
  `SizeOfRange`.
- Under `SafeSpec` with asynchronous writes: `ReadOnlyCaused`
  (`ReadOnlyHasCause`) and the action property `SizeKept` (`SizeNeverFallsBack`),
  from `QuietInv`. Until a submission or the device fails, the queue of a zone is a line (`Line`):
  first the writes the device has taken, in whatever order their completions come,
  then those on their way, each beginning where the one before it ends, the last of
  them ending at `z_wpoffset`; `i_size` is the write pointer, or a write that ends
  there has yet to complete. So the next write the device meets is always at its
  write pointer, no write of a correct caller is refused, and no recovery runs.

`SizeOf` is a fold, that is, a function defined by recursion over sets. What it
computes is proved by taking a smallest counterexample (`SmallestSet`, from
`WFMin`), which needs no induction theorem with an operator as its parameter:
`AddsExists` and `AddsUnique` show that the recursion defines one function, and
`AddsChange` that changing one zone changes the sum by the difference.

### Start-up

`HodoMountProofs` holds for every geometry, every set of names and any number of
mounts and reloads, under `SafeSpec`: `RootStays` (`RootThere`), `CreationsStay`
(`NamesKept`) and `FormatsOnce` (`InitOnlyWhenFormatted`, which the run
`mount_reload` refutes for the code without the envelope).

Neither property is inductive: that the three writes of a creation reach the device
and leave the other blocks alone depends on the log, and that the number of a new
inode or dirent block is nobody else's depends on the bitmap. `MountInv` says that
until `mount_point_path` is set mapping_info is all zero, the device empty and every
sleeping thread finds the volume mounted (`NotStarted`). Afterwards (`Running`) `wp`
is where zonefs takes the next block and the zones after it are empty (`Frontier`),
the root and its dirent block are there (`RootHolds`), and the numbers in use are
the first k (`Counted`), k being at most the number of blocks written (`Rank` of
`wp`): there are fewer data blocks than numbers, so a free one always exists.
`PutBlock` is the lemma the rest stands on: a block written at the frontier is read
under its number from then on, and every other number reads as before.

*Only model-checked.* `GCTerminates` and `ComesUp` (liveness under fairness, which
the provers do not reach) and `GCReclaims` (it compares where `wp` ends
with the number of mapped blocks, and no proof of that count was attempted).

## 5. Not modelled, and the plan

Not modelled:

- Conventional zone files, buffered I/O, mmap, splice and swap files of zonefs:
  hodo writes and reads sequential zone files by direct I/O only.
- The super block and its features, aggregated conventional zones, uid, gid and
  permissions, and the inodes of `seq` and `cnv`: they are fixed at mount.
- Owners, modes and times in `setattr` and `create`; names longer than 16 bytes.
- `i_nlink` has no stated meaning in the code (`rmdir` drops a count that `mkdir`
  never raised, `hodo.c:594`), so no property is about it.
- The parsing of `/proc/self/mountinfo` (`hodo.c:40-96`), the buffer that a
  read within one block does not free (`hodo.c:260`), sysfs and trace points: text
  handling, memory management, or code that changes no state of the file system.
- `hodo_read_on_disk_mapping_info` reads a zone that nothing writes; it is part of
  `Started` in `HodoMount`.

Open: `GCReclaims` for every geometry, if the counting can be kept out of
cardinalities.
