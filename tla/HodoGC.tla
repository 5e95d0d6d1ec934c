-------------------------------- MODULE HodoGC ---------------------------------
(***************************************************************************)
(* The garbage collector, GC() of trans.c, one step per device operation.  *)
(* It slides every valid block to the front of the log: up to              *)
(* BlocksPerZone-1 valid blocks are copied to the swap zone (swap-in), the *)
(* zone under wp is reset, the copies are written back through             *)
(* hodo_write_struct (swap-out) and the swap zone is reset; in the end the *)
(* zones between the new and the old write pointer are reset.              *)
(*                                                                         *)
(* gc holds the locals of the call:                                        *)
(*   pc       where the call stands:                                       *)
(*              "idle"   no call                                           *)
(*              "scan"   at the head of the swap-in loop                   *)
(*              "reset"  about to reset the zone under wp                  *)
(*              "out"    copying the swap zone out                         *)
(*              "drain"  about to reset the swap zone                      *)
(*              "clear"  resetting the zones behind the log                *)
(*   full     the copy-out runs because the swap zone is full (the loop at *)
(*            trans.c:93-113), not for the remainder (trans.c:150-163)     *)
(*   out      swap_out_ptr.block_index, and in "clear" the loop's zone i   *)
(*   prev_wp  where the log ended when the call began                      *)
(*   temp     temp_datablock                                               *)
(***************************************************************************)
EXTENDS MappingInfo

CONSTANT Nil   \* the content of a buffer nothing was read into

VARIABLES store, gc

gcvars == <<store, gc>>

GCIdle ==
    [pc |-> "idle", full |-> FALSE, out |-> 0,
     prev_wp |-> Pos(1, 0), temp |-> ZeroBlock(Nil)]

(* The call: prev_wp keeps the end of the log, and both write pointers are *)
(* moved to where collection starts.                                       *)
GCCalled(s) == [GCIdle EXCEPT !.pc = "scan", !.prev_wp = s.wp]

GCRewound(s) == [s EXCEPT !.wp = Pos(1, 0), !.swap_wp = Pos(SwapZone, 0)]

GCBegin ==
    /\ gc.pc = "idle"
    /\ gc' = GCCalled(store)
    /\ store' = GCRewound(store)

(* One round of the swap-in loop: the next valid block goes to the swap    *)
(* zone, under the number the block itself carries.                        *)
GCSwapIn ==
    LET v == hodo_get_next_GC_valid(store)
        b == hodo_GC_read_struct(store, v, gc.temp)
        s == hodo_GC_write_struct(store, b, b.lbn)
        full == s.swap_wp.block_index >= BlocksPerZone - 1
    IN  /\ gc.pc = "scan"
        /\ v.zone_id # 0
        /\ store' = s
        /\ gc' = [gc EXCEPT !.pc = IF full THEN "reset" ELSE "scan",
                            !.full = full, !.out = 0, !.temp = b]

(* Mutants: an empty zone under wp is taken for a used one, and a used one *)
(* for an empty one.                                                       *)
ClearStart_AlwaysNext(wp) == wp.zone_id + 1

ClearStart_AlwaysWp(wp) == wp.zone_id

(* The first zone to reset behind the compacted log. *)
ClearStart(wp) == IF wp.block_index = 0 THEN wp.zone_id ELSE wp.zone_id + 1

(* The loop ends: nothing valid is left from wp's zone on. What is still   *)
(* in the swap zone, if anything, is copied out first.                     *)
GCScanDone ==
    /\ gc.pc = "scan"
    /\ hodo_get_next_GC_valid(store).zone_id = 0
    /\ gc' = IF store.swap_wp.block_index # 0
             THEN [gc EXCEPT !.pc = "reset", !.full = FALSE, !.out = 0]
             ELSE [gc EXCEPT !.pc = "clear", !.out = ClearStart(store.wp)]
    /\ UNCHANGED store

GCResetFront ==
    /\ gc.pc = "reset"
    /\ store' = zonefs_reset(store, store.wp.zone_id)
    /\ gc' = [gc EXCEPT !.pc = "out"]

(* Mutants: a full swap zone is read only as far as it was written, which  *)
(* leaves wp inside the zone just filled; the last block of a remainder is *)
(* not read.                                                               *)
SwapOutLimit_WrittenOnly(s, full) ==
    IF full THEN BlocksPerZone - 1 ELSE s.swap_wp.block_index

SwapOutLimit_DropsLast(s, full) ==
    IF full THEN BlocksPerZone ELSE s.swap_wp.block_index - 1

(* How many swap blocks the copy-out reads: a full swap zone is read up to *)
(* and including index BlocksPerZone-1, which was never written.           *)
SwapOutLimit(s, full) ==
    IF full THEN BlocksPerZone ELSE s.swap_wp.block_index

(* Mutant: swap_out_ptr does not move. *)
GCSwapOut_NoAdvance ==
    LET b == hodo_GC_read_struct(store, Pos(SwapZone, gc.out), gc.temp)
    IN  /\ gc.pc = "out"
        /\ gc.out < SwapOutLimit(store, gc.full)
        /\ store' = hodo_write_struct(store, b, b.lbn)
        /\ gc' = [gc EXCEPT !.temp = b]

GCSwapOut ==
    LET b == hodo_GC_read_struct(store, Pos(SwapZone, gc.out), gc.temp)
    IN  /\ gc.pc = "out"
        /\ gc.out < SwapOutLimit(store, gc.full)
        /\ store' = hodo_write_struct(store, b, b.lbn)
        /\ gc' = [gc EXCEPT !.out = @ + 1, !.temp = b]

GCSwapOutDone ==
    /\ gc.pc = "out"
    /\ gc.out >= SwapOutLimit(store, gc.full)
    /\ gc' = [gc EXCEPT !.pc = "drain"]
    /\ UNCHANGED store

(* Mutant: swap_wp is not moved back when the swap zone is reset. *)
GCResetSwap_KeepsSwapWp ==
    /\ gc.pc = "drain"
    /\ store' = zonefs_reset(store, SwapZone)
    /\ gc' = IF gc.full THEN [gc EXCEPT !.pc = "scan"]
             ELSE [gc EXCEPT !.pc = "clear", !.out = ClearStart(store.wp)]

(* The swap zone is reset; after a full one swap-in resumes. *)
GCResetSwap ==
    /\ gc.pc = "drain"
    /\ IF gc.full
       THEN /\ store' = [zonefs_reset(store, SwapZone) EXCEPT !.swap_wp.block_index = 0]
            /\ gc' = [gc EXCEPT !.pc = "scan"]
       ELSE /\ store' = zonefs_reset(store, SwapZone)
            /\ gc' = [gc EXCEPT !.pc = "clear", !.out = ClearStart(store.wp)]

(* for (i = start; i <= prev_wp.zone_id; ++i) reset zone i *)
GCClear ==
    /\ gc.pc = "clear"
    /\ gc.out <= gc.prev_wp.zone_id
    /\ store' = zonefs_reset(store, gc.out)
    /\ gc' = [gc EXCEPT !.out = @ + 1]

GCReturn ==
    /\ gc.pc = "clear"
    /\ gc.out > gc.prev_wp.zone_id
    /\ gc' = GCIdle
    /\ UNCHANGED store

GCStep ==
    \/ GCSwapIn
    \/ GCScanDone
    \/ GCResetFront
    \/ GCSwapOut
    \/ GCSwapOutDone
    \/ GCResetSwap
    \/ GCClear
    \/ GCReturn

================================================================================
