-------------------------------- MODULE Readdir --------------------------------
(***************************************************************************)
(* A listing of one directory in several getdents calls: hodo_sub_readdir  *)
(* and read_all_dirents, with the caller's buffer and with entries added   *)
(* and removed between the calls.                                          *)
(*                                                                         *)
(*   blocks    the names in each dirent block of the directory, in order   *)
(*             (HodoFS shows that slots stay dense within a block)         *)
(*   pos       ctx->pos, kept in f_pos from call to call                   *)
(*   got       history: what the caller has received since the rewind      *)
(*   stayed    history: the names present in the directory ever since      *)
(*   ended     a call has returned nothing: the caller stops               *)
(*   seen      history: what happened since the listing passed the dots:   *)
(*             "added", "removed" an entry, "tight" a buffer too small     *)
(*   changes   entries added and removed, a bound on a run                 *)
(***************************************************************************)
EXTENDS Integers, Sequences, SequencesExt

CONSTANTS Names,             \* file names
          NDirect,           \* direct pointers of an inode (10)
          DirentsPerBlock,   \* dirent slots of a block (102)
          MaxCap,            \* the largest buffer, in entries
          MaxChanges         \* a bound on the changes of a run

ASSUME ReaddirAssumption ==
    /\ Names \cap {".", ".."} = {}
    /\ NDirect \in Nat \ {0} /\ DirentsPerBlock \in Nat \ {0}
    /\ MaxCap \in Nat \ {0} /\ MaxChanges \in Nat

VARIABLES blocks, pos, got, stayed, ended, seen, changes

vars == <<blocks, pos, got, stayed, ended, seen, changes>>

Dirents == FlattenSeq(blocks)

Present == {Dirents[i] : i \in DOMAIN Dirents}

Dots == <<".", "..">>

Init ==
    /\ blocks = [i \in 1 .. NDirect |-> << >>]
    /\ pos = 0 /\ got = << >> /\ stayed = {} /\ ended = FALSE
    /\ seen = {} /\ changes = 0

Changed(how) ==
    /\ changes < MaxChanges /\ changes' = changes + 1
    /\ seen' = IF pos > Len(Dots) THEN seen \cup {how} ELSE seen

First(S) == CHOOSE i \in S : \A j \in S : i <= j

(* The first block with a free slot takes the name. *)
add_dirent(name) ==
    LET room == {i \in 1 .. NDirect : Len(blocks[i]) < DirentsPerBlock}
    IN  /\ Changed("added") /\ name \notin Present /\ room # {}
        /\ blocks' = [blocks EXCEPT ![First(room)] = Append(@, name)]
        /\ UNCHANGED <<pos, got, stayed, ended>>

(* The slot with the name is found, and compact_datablock moves the later  *)
(* slots of its block up.                                                  *)
remove_dirent(name) ==
    /\ Changed("removed")
    /\ \E i \in 1 .. NDirect : \E j \in DOMAIN blocks[i] :
          /\ blocks[i][j] = name
          /\ blocks' = [blocks EXCEPT ![i] = RemoveAt(@, j)]
    /\ stayed' = stayed \ {name}
    /\ UNCHANGED <<pos, got, ended>>

(* opendir or rewinddir: f_pos is 0. *)
Rewind ==
    /\ pos' = 0 /\ got' = << >> /\ ended' = FALSE /\ seen' = {}
    /\ stayed' = Present
    /\ UNCHANGED <<blocks, changes>>

(* Mutant: the entries are counted from 1. *)
FirstCount_One == 1

(* dirent_count before the first dirent. *)
FirstCount == 2

(* The dirents the scan hands to hodo_dir_emit from ctx->pos = p on. *)
Scanned(p) ==
    IF p < FirstCount THEN << >>
    ELSE SubSeq(Dirents, p - FirstCount + 1, Len(Dirents))

(* Mutant: the bookmark stays where the call began. *)
NextPos_Stays(p, scan) == p

(* ctx->pos after the scan. *)
NextPos(p, scan) == p + Len(scan)

(* One call with room for cap entries. dir_emit_dots stops the call when a *)
(* dot does not fit; hodo_dir_emit's result is not looked at, ctx->pos     *)
(* moves on for entries that did not fit as well.                          *)
Getdents(cap) ==
    LET dots  == SubSeq(Dots, pos + 1, 2)
        fit   == SubSeq(dots, 1, IF cap < Len(dots) THEN cap ELSE Len(dots))
        rest  == cap - Len(fit)
        p     == pos + Len(fit)
        scan  == IF p < 2 THEN << >> ELSE Scanned(p)
        out   == fit \o SubSeq(scan, 1, IF rest < Len(scan) THEN rest ELSE Len(scan))
    IN  /\ ~ended
        /\ got' = got \o out
        /\ pos' = NextPos(p, scan)
        /\ ended' = (out = << >>)
        /\ seen' = IF rest < Len(scan) THEN seen \cup {"tight"} ELSE seen
        /\ UNCHANGED <<blocks, stayed, changes>>

Next ==
    \/ \E name \in Names : add_dirent(name) \/ remove_dirent(name)
    \/ Rewind
    \/ \E cap \in 1 .. MaxCap : Getdents(cap)

Spec == Init /\ [][Next]_vars

--------------------------------------------------------------------------------
(* Properties *)

(* A listing that ends has both dots and every name that was there all     *)
(* along, also over several calls and with entries added in between;       *)
(* ctx->pos loses a name only when an entry before it was removed or a     *)
(* buffer was too small, since hodo_dir_emit's result is not looked at.    *)
ListingComplete ==
    ended /\ seen \cap {"removed", "tight"} = {}
    => stayed \cup {".", ".."} \subseteq ToSet(got)

(* No name is listed twice, whatever the buffers and the removals: only an *)
(* entry added before ctx->pos moves one that was emitted behind it.       *)
NoRepeats ==
    "added" \notin seen => \A i, j \in DOMAIN got : got[i] = got[j] => i = j

================================================================================
