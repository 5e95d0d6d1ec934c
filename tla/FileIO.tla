--------------------------------- MODULE FileIO --------------------------------
(***************************************************************************)
(* The data path of one regular file: hodo_file_read_iter,                 *)
(* hodo_file_write_iter and hodo_setattr (hodo.c) over the direct and      *)
(* indirect pointers of trans.c. The calls that write come one after the   *)
(* other: hodo_file_write_iter takes no lock, but a round of a write is    *)
(* one step here, so two writes that overlap, whose rounds interleave read *)
(* by read and write by write, are not modelled.                           *)
(*                                                                         *)
(*   blocks   the blocks of the file by logical number, as BlockStore      *)
(*            promises them (HodoLog implements it)                        *)
(*   inode    the file's hodo_inode: file_len, direct, indirect            *)
(*   i_size   of the in-core inode                                         *)
(*   call     the write call a writer is in: write_iter writes block by    *)
(*            block, and truncations and reads may come between two blocks *)
(*   fault    hodo_read_struct was given a number that is not a block of   *)
(*            the file; the run stops there                                *)
(*   file     history: the bytes the calls that returned should have left  *)
(*   calls    the calls made, a bound on a run                             *)
(*                                                                         *)
(* A block is [magic, data]: magic is the level, the digit of "DAT0" ..    *)
(* "DAT3"; data holds bytes at level 0 and numbers above it. Byte i of the *)
(* buffer of call c is <<c, i>>.                                           *)
(***************************************************************************)
EXTENDS FileIndex, FiniteSets, SequencesExt

CONSTANTS DataSize,       \* HODO_DATA_SIZE, bytes of a data block (4088)
          EFAULT,         \* the errno (14)
          LenMod,         \* file_len is a uint64_t: 2^64
          BadBuffers,     \* may copying from a caller's buffer fail?
          ZeroedMemory,   \* does the kernel clear the memory it hands out
                          \* (init_on_alloc, INIT_STACK_ALL_ZERO)?
          Writers,        \* processes that write the file
          Lens,           \* lengths of the calls of a run
          Sizes,          \* sizes that a run truncates to
          MaxPos,         \* the largest position a call starts at
          MaxCalls        \* a bound on the calls of a run

ASSUME FileAssumption ==
    /\ DataSize \in Nat \ {0}
    /\ EFAULT \in Nat /\ LenMod \in Nat \ {0} /\ BadBuffers \in BOOLEAN
    /\ ZeroedMemory \in BOOLEAN
    /\ Lens \subseteq Nat /\ Sizes \subseteq Nat /\ MaxPos \in Nat /\ MaxCalls \in Nat

VARIABLES blocks, inode, i_size, call, fault, file, calls

vars == <<blocks, inode, i_size, call, fault, file, calls>>

--------------------------------------------------------------------------------
(* Blocks *)

Offset == 0 .. DataSize - 1

Slot == 0 .. P - 1

(* As many numbers as the largest file has blocks of any level. *)
Number == 1 .. Base(4) + 1 + (1 + P) + (1 + P + P * P)

NEW_DATABLOCK == 0

Nil == <<0, 0>>      \* a byte that no call wrote

Unused == [magic |-> -1, data |-> << >>]

(* Mutant: a block made on the way down takes the level of the one above. *)
NewBlock_LevelAbove(k) ==
    [magic |-> k + 1, data |-> IF k = 0 THEN [i \in Offset |-> Nil]
                               ELSE [i \in Slot |-> NEW_DATABLOCK]]

NewBlock(k) ==
    [magic |-> k, data |-> IF k = 0 THEN [i \in Offset |-> Nil]
                           ELSE [i \in Slot |-> NEW_DATABLOCK]]

Free(bs) == {m \in Number : bs[m] = Unused}

(* hodo_write_struct: under the number given, or a new one. *)
hodo_write_struct(bs, b, m) ==
    LET free == Free(bs)
        num  == IF m # NEW_DATABLOCK THEN m
                ELSE CHOOSE i \in free : \A j \in free : i <= j
    IN  [blocks |-> [bs EXCEPT ![num] = b], number |-> num]

(* The pointer of the inode under which block n hangs. *)
TopPointer(ino, n, L) == IF L = 0 THEN ino.direct[n] ELSE ino.indirect[L]

SetTop(ino, n, L, m) ==
    IF L = 0 THEN [ino EXCEPT !.direct[n] = m] ELSE [ino EXCEPT !.indirect[L] = m]

(* The numbers on the way down to block n, level by level, for a writer:   *)
(* 0 where there is no block yet.                                          *)
WriteNumbers(n) ==
    LET L == Level(n)
        num[k \in 0 .. L] ==
            IF k = L THEN TopPointer(inode, n, L)
            ELSE LET up == num[k + 1]
                 IN  IF up = 0 THEN 0 ELSE blocks[up].data[WriteSlot(n, k + 1)]
    IN  num

(* The number of block n for a reader: 0 if it, or a block on the way to   *)
(* it, is missing, which hodo_read_nth_block does not look for.            *)
ReadNumber(n) ==
    LET L == ReadLevel(n)
        num[k \in 0 .. L] ==
            IF k = L THEN TopPointer(inode, n, L)
            ELSE LET up == num[k + 1]
                 IN  IF up = 0 \/ ReadSlot(n, k + 1) \notin Slot THEN 0
                     ELSE blocks[up].data[ReadSlot(n, k + 1)]
    IN  num[0]

--------------------------------------------------------------------------------
(* Writing *)

(* Mutant: what lies before the offset is not carried over. *)
NewData_DropsLeft(old, left, c, done, size) ==
    [i \in Offset |-> IF i >= left /\ i < left + size THEN <<c, done + i - left>>
                      ELSE Nil]

(* The data block of write_one_block_by_direct_block: a fresh buffer that  *)
(* takes the bytes before the offset from the old block and then those of  *)
(* the caller; what the old block holds after them is not carried over.    *)
NewData(old, left, c, done, size) ==
    [i \in Offset |-> IF i < left THEN old[i]
                      ELSE IF i < left + size THEN <<c, done + i - left>>
                      ELSE Nil]

(* The block of level k on the way down, read or made. A block that is     *)
(* read has the level that its place asks for (LevelsMatch), so that the   *)
(* -EIO returns of write_one_block_by_indirect_block are never reached.    *)
BlockAt(num, k) == IF num[k] = 0 THEN NewBlock(k) ELSE blocks[num[k]]

(* Mutant: an indirect block is written back without the new number. *)
Written_ForgetsChild(n, data) ==
    LET num == WriteNumbers(n)
        up[k \in DOMAIN num] ==
            IF k = 0 THEN hodo_write_struct(blocks, [magic |-> 0, data |-> data], num[0])
            ELSE hodo_write_struct(up[k - 1].blocks, BlockAt(num, k), num[k])
    IN  up[Level(n)]

(* Block n is written, then every indirect block above it with the number  *)
(* of the one below.                                                       *)
Written(n, data) ==
    LET num == WriteNumbers(n)
        up[k \in DOMAIN num] ==
            IF k = 0 THEN hodo_write_struct(blocks, [magic |-> 0, data |-> data], num[0])
            ELSE LET below == up[k - 1]
                     b     == BlockAt(num, k)
                 IN  hodo_write_struct(below.blocks,
                        [b EXCEPT !.data[WriteSlot(n, k)] = below.number], num[k])
    IN  up[Level(n)]

(* A call: c names its buffer, len bytes long, of which done are written;  *)
(* ki_pos is where the next byte goes.                                     *)
Idle == [c |-> 0, start |-> 0, ki_pos |-> 0, len |-> 0, done |-> 0, append |-> FALSE]

InCall(w) == call[w] # Idle

(* write_one_block: IOCB_APPEND moves ki_pos to i_size, for every block. *)
WritePos(w) == IF call[w].append THEN i_size ELSE call[w].ki_pos

(* The bytes of a file with the buffer of call c at position pos. *)
Overlay(f, pos, c, len) ==
    [i \in 1 .. IF Len(f) >= pos + len THEN Len(f) ELSE pos + len |->
        IF i > pos /\ i <= pos + len THEN <<c, i - pos - 1>>
        ELSE IF i <= Len(f) THEN f[i] ELSE Nil]

(* The write begins: ki_pos is the file position, or that of pwrite. An    *)
(* append after a failed call left i_size below 0 is left out.             *)
hodo_file_write_iter(w, pos, len, append) ==
    /\ ~fault /\ \A v \in Writers : ~InCall(v)
    /\ append => i_size >= 0
    /\ calls < MaxCalls /\ calls' = calls + 1
    /\ call' = [call EXCEPT ![w] = [c |-> calls + 1, ki_pos |-> pos, len |-> len,
                                    start |-> IF append THEN inode.file_len ELSE pos,
                                    done |-> 0, append |-> append]]
    /\ UNCHANGED <<blocks, inode, i_size, fault, file>>

(* One round of hodo_sub_file_write_iter: write_one_block to the end. *)
WriteOneBlock(w) ==
    LET c     == call[w]
        pos   == WritePos(w)
        n     == pos \div DataSize
        left  == pos % DataSize
        L     == Level(n)
        num   == WriteNumbers(n)
        rest  == c.len - c.done
        size  == IF rest + left >= DataSize THEN DataSize - left ELSE rest
        top   == Written(n, NewData(BlockAt(num, 0).data, left, c.c, c.done, size))
    IN  /\ ~fault /\ InCall(w) /\ c.done < c.len
        /\ L < 4
        /\ blocks' = top.blocks
        /\ inode' = [SetTop(inode, n, L, top.number) EXCEPT !.file_len = pos + size]
        /\ i_size' = pos + size
        /\ call' = [call EXCEPT ![w].ki_pos = pos + size, ![w].done = @ + size]
        /\ UNCHANGED <<fault, file, calls>>

(* A new block is memory from kmalloc of which only the magic is set, and   *)
(* a new inode a variable on the stack of hodo_create whose pointers are    *)
(* not set. When such memory is not cleared, a pointer that was never set   *)
(* may be another number than 0, and is followed like one of the file's.    *)
WriteFollowsStale(w) ==
    LET n == WritePos(w) \div DataSize
    IN  /\ ~ZeroedMemory /\ ~fault /\ InCall(w) /\ call[w].done < call[w].len
        /\ Level(n) < 4
        /\ \E k \in 0 .. Level(n) : WriteNumbers(n)[k] = 0
        /\ fault' = TRUE
        /\ UNCHANGED <<blocks, inode, i_size, call, file, calls>>

(* copy_from_iter falls short: no block is written, and -EFAULT is added   *)
(* to ki_pos, file_len and i_size like a length.                           *)
WriteFaults(w) ==
    LET pos == WritePos(w)
    IN  /\ BadBuffers /\ ~fault /\ InCall(w) /\ call[w].done < call[w].len
        /\ Level(pos \div DataSize) < 4
        /\ inode' = [inode EXCEPT !.file_len = (pos - EFAULT) % LenMod]
        /\ i_size' = pos - EFAULT
        /\ call' = [call EXCEPT ![w] = Idle]
        /\ file' = Overlay(file, call[w].start, call[w].c, call[w].done)
        /\ UNCHANGED <<blocks, fault, calls>>

(* Past the triple indirect pointer: -EFBIG, after whatever was written. *)
WriteTooBig(w) ==
    /\ ~fault /\ InCall(w) /\ call[w].done < call[w].len
    /\ Level(WritePos(w) \div DataSize) = 4
    /\ call' = [call EXCEPT ![w] = Idle]
    /\ file' = Overlay(file, call[w].start, call[w].c, call[w].done)
    /\ UNCHANGED <<blocks, inode, i_size, fault, calls>>

WriteReturn(w) ==
    /\ ~fault /\ InCall(w) /\ call[w].done = call[w].len
    /\ call' = [call EXCEPT ![w] = Idle]
    /\ file' = Overlay(file, call[w].start, call[w].c, call[w].len)
    /\ UNCHANGED <<blocks, inode, i_size, fault, calls>>

--------------------------------------------------------------------------------
(* Reading *)

(* The bytes a read returns: what is left of the file, or the count. *)
ReadLen(pos, count) ==
    IF pos >= inode.file_len THEN 0
    ELSE IF count < inode.file_len - pos THEN count ELSE inode.file_len - pos

StartBlock(pos) == pos \div DataSize

EndBlock(pos, len) == (pos + len) \div DataSize

(* hodo_read_struct is called with 0 for some block of the read. *)
ReadHitsZero(pos, count) ==
    LET len == ReadLen(pos, count)
    IN  /\ pos < inode.file_len
        /\ \E n \in StartBlock(pos) .. EndBlock(pos, len) :
              ReadNumber(n) = 0

(* size bytes of block n from offset off. *)
Piece(n, off, size) ==
    LET data == blocks[ReadNumber(n)].data
    IN  [i \in 1 .. size |-> data[off + i - 1]]

(* Mutant: the first block of a longer read is copied whole. *)
ReadBytes_WholeFirst(pos, count) ==
    LET len == ReadLen(pos, count)
        s   == StartBlock(pos)
        e   == EndBlock(pos, len)
    IN  IF len = 0 THEN << >>
        ELSE IF s = e THEN Piece(s, pos % DataSize, len)
        ELSE FlattenSeq([i \in 1 .. e - s |-> Piece(s + i - 1, 0, DataSize)])
             \o Piece(e, 0, (pos + len) % DataSize)

(* What hodo_file_read_iter copies out: the end of the first block, whole  *)
(* blocks, the beginning of the last.                                      *)
ReadBytes(pos, count) ==
    LET len == ReadLen(pos, count)
        off == pos % DataSize
        s   == StartBlock(pos)
        e   == EndBlock(pos, len)
    IN  IF len = 0 THEN << >>
        ELSE IF s = e THEN Piece(s, off, len)
        ELSE Piece(s, off, DataSize - off)
             \o FlattenSeq([i \in 1 .. e - s - 1 |-> Piece(s + i, 0, DataSize)])
             \o Piece(e, 0, (pos + len) % DataSize)

hodo_file_read_iter(pos, count) ==
    /\ ~fault
    /\ fault' = ReadHitsZero(pos, count)
    /\ UNCHANGED <<blocks, inode, i_size, call, file, calls>>

--------------------------------------------------------------------------------
(* The in-core inode *)

(* hodo_setattr with ATTR_SIZE: truncate_setsize and nothing on the device. *)
(* The inode lock its caller holds does not keep it out of a write.         *)
hodo_setattr(size) ==
    /\ ~fault
    /\ calls < MaxCalls /\ calls' = calls + 1
    /\ i_size' = size
    /\ file' = Overlay(SubSeq(file, 1, IF size < Len(file) THEN size ELSE Len(file)),
                       size, 0, 0)
    /\ UNCHANGED <<blocks, inode, call, fault>>

(* The inode is evicted, and a later lookup makes one without a size. *)
hodo_sub_lookup ==
    /\ ~fault /\ \A w \in Writers : ~InCall(w)
    /\ i_size' = 0
    /\ UNCHANGED <<blocks, inode, call, fault, file, calls>>

--------------------------------------------------------------------------------
(* hodo_create made the file; a pointer that nobody set is 0. *)
Init ==
    /\ blocks = [m \in Number |-> Unused]
    /\ inode = [file_len |-> 0, direct |-> [i \in 0 .. NDirect - 1 |-> 0],
                indirect |-> [k \in 1 .. 3 |-> 0]]
    /\ i_size = 0
    /\ call = [w \in Writers |-> Idle]
    /\ fault = FALSE
    /\ file = << >>
    /\ calls = 0

Positions == 0 .. MaxPos

(* The position an append is called with is not used. *)
StartPositions(append) == IF append THEN {0} ELSE Positions

Next ==
    \/ \E w \in Writers :
          \/ \E len \in Lens, a \in BOOLEAN : \E pos \in StartPositions(a) :
                hodo_file_write_iter(w, pos, len, a)
          \/ WriteOneBlock(w)
          \/ WriteFollowsStale(w)
          \/ WriteFaults(w)
          \/ WriteTooBig(w)
          \/ WriteReturn(w)
    \/ \E pos \in Positions, count \in Lens : hodo_file_read_iter(pos, count)
    \/ \E size \in Sizes : hodo_setattr(size)
    \/ hodo_sub_lookup

Spec == Init /\ [][Next]_vars

(* The envelope: cleared memory, buffers that can be read, no change of    *)
(* size; a write begins inside the file or at its end and does not end     *)
(* before the file does, an append finds i_size up to date, and no read    *)
(* ends with the file at the end of a block.                               *)
SafeWrite(pos, len, append) ==
    IF append THEN i_size = inode.file_len
    ELSE pos <= inode.file_len /\ pos + len >= inode.file_len

SafeRead(pos, count) ==
    LET end == pos + ReadLen(pos, count)
    IN  end < inode.file_len \/ end % DataSize # 0

SafeNext ==
    \/ \E w \in Writers :
          \/ \E len \in Lens, a \in BOOLEAN : \E pos \in StartPositions(a) :
                SafeWrite(pos, len, a) /\ hodo_file_write_iter(w, pos, len, a)
          \/ WriteOneBlock(w)
          \/ WriteTooBig(w)
          \/ WriteReturn(w)
    \/ \E pos \in Positions, count \in Lens :
          SafeRead(pos, count) /\ hodo_file_read_iter(pos, count)
    \/ hodo_sub_lookup

SafeSpec == Init /\ [][SafeNext]_vars

(* The envelope on a kernel that does not clear the memory it hands out. *)
UnclearedSpec == Init /\ [][SafeNext \/ \E w \in Writers : WriteFollowsStale(w)]_vars

--------------------------------------------------------------------------------
(* Properties *)

Quiet == \A w \in Writers : ~InCall(w)

(* The blocks under number m of level k, m included: pairs of a number and *)
(* the level its place asks for.                                           *)
Below(m, k) ==
    LET sub[j \in 0 .. k] ==      \* those j levels down from m
            IF j = 0 THEN {m} \ {0}
            ELSE (UNION {{blocks[x].data[i] : i \in Slot} : x \in sub[j - 1]}) \ {0}
    IN  UNION {{<<x, k - j>> : x \in sub[j]} : j \in 0 .. k}

Tree ==
    (UNION {Below(inode.direct[i], 0) : i \in 0 .. NDirect - 1})
    \cup (UNION {Below(inode.indirect[k], k) : k \in 1 .. 3})

(* Every pointer leads to a block of the level its place asks for: the     *)
(* magic decides how write_one_block_by_indirect_block recurses and        *)
(* whether it gives up with -EIO.                                          *)
LevelsMatch == \A t \in Tree : blocks[t[1]].magic = t[2]

(* No block is leaked or shared: the numbers in use are those that hang    *)
(* under the inode, each in one place.                                     *)
Places(m) ==
    {<<0, i>> : i \in {j \in 0 .. NDirect - 1 : inode.direct[j] = m}}
    \cup {<<-1, k>> : k \in {j \in 1 .. 3 : inode.indirect[j] = m}}
    \cup {p \in Number \X Slot : blocks[p[1]].magic > 0 /\ blocks[p[1]].data[p[2]] = m}

NoLeak ==
    /\ {t[1] : t \in Tree} = Number \ Free(blocks)
    /\ \A t \in Tree : Cardinality(Places(t[1])) = 1

(* For every block the largest file can have, hodo_read_nth_block comes to  *)
(* the number that a write of the block would replace, or to 0 with it, at *)
(* every step of a write.                                                  *)
ReadersFindBlocks ==
    \A n \in 0 .. Base(4) - 1 : ReadNumber(n) = WriteNumbers(n)[0]

(* Between calls file_len is the length the calls should have left, and    *)
(* a read at any position and of any length, over any blocks of any        *)
(* levels, returns the bytes written there last.                           *)
ReadsBack ==
    Quiet /\ ~fault =>
        /\ inode.file_len = Len(file)
        /\ \A pos \in 0 .. Len(file) - 1, count \in Lens :
             LET len == ReadLen(pos, count)
             IN  SafeRead(pos, count) =>
                   /\ ~ReadHitsZero(pos, count)
                   /\ ReadBytes(pos, count) = SubSeq(file, pos + 1, pos + len)

(* The bytes before the start of a write stay readable at every step of    *)
(* it, whatever blocks it replaces, also when it overwrites the end.       *)
OldBytesStay ==
    \A w \in Writers : InCall(w) /\ ~fault =>
        \A i \in 1 .. call[w].start :
            /\ i <= inode.file_len
            /\ Piece((i - 1) \div DataSize, (i - 1) % DataSize, 1) = <<file[i]>>

(* Reads and writes find their blocks: every number that                   *)
(* hodo_read_nth_block and write_one_block_by_indirect_block follow is one *)
(* the file was given.                                                     *)
ReadsInBounds == ~fault

(* A write changes the bytes it was given and no others: POSIX write()     *)
(* inside a file keeps what lies before and after.                         *)
WriteKeepsRest ==
    [][\A w \in Writers : WriteReturn(w) => inode.file_len = Len(file')]_vars

(* A write that fails leaves the file as long as the bytes written so far  *)
(* make it.                                                                *)
FailedWriteHarmless ==
    [][\A w \in Writers : WriteFaults(w) => inode'.file_len = Len(file')]_vars

(* An append writes at the end of the file. *)
AppendsAtEnd ==
    \A w \in Writers : InCall(w) /\ call[w].append =>
        WritePos(w) = call[w].start + call[w].done

(* What a truncation cuts off is gone: file_len, the length that read()    *)
(* goes by, is not above the new size.                                     *)
TruncateCuts ==
    [][\A size \in Sizes : hodo_setattr(size) => inode'.file_len <= size]_vars

================================================================================
