-------------------------- MODULE HodoConcurrentProofs -------------------------
(***************************************************************************)
(* hodo_write_struct and hodo_read_struct step by step, in the envelope of *)
(* SafeConcSpec: one write at a time, beside readers and collections.      *)
(*                                                                         *)
(* In the middle of a write the store satisfies none of the invariants of  *)
(* HodoLog: bits, table and device disagree. The invariant here is that    *)
(* there is a store s, the one the write began in, that does satisfy them  *)
(* and from which the steps taken so far lead to the store as it is.       *)
(***************************************************************************)
EXTENDS HodoConcurrent, HodoLogProofs

--------------------------------------------------------------------------------
(* The inductive invariant *)

(* Where in a write the call w stands. *)
Unmarked(w) == w.pc \in {"begin", "number", "mark"}

Entered(w) == w.pc \in {"device", "advance"}

(* t is the store in the middle of the call w that began in s. *)
InCall(s, t, w) ==
    /\ w.at = s.wp
    /\ t.wp = s.wp /\ t.swap_wp = s.swap_wp /\ t.fault = s.fault
    /\ t.mapping_table = IF Entered(w) THEN [s.mapping_table EXCEPT ![w.n] = s.wp]
                         ELSE s.mapping_table
    /\ t.logical_entry_bitmap =
          IF Unmarked(w) THEN s.logical_entry_bitmap
          ELSE s.logical_entry_bitmap \cup {w.n - starting_logical_number}
    /\ t.GC_bitmap = IF w.pc = "begin" THEN s.GC_bitmap
                     ELSE IF Unmarked(w) THEN s.GC_bitmap \cup {s.wp}
                     ELSE (s.GC_bitmap \cup {s.wp}) \ {s.mapping_table[w.n]}
    /\ t.seq = IF w.pc = "advance"
               THEN [s.seq EXCEPT ![s.wp.zone_id] = Append(@, MkBlock("DAT", w.n, w.d))]
               ELSE s.seq

(* The number of the call w of a writer whose numbers are own. *)
NumberOf(s, w, own) ==
    \/ w.pc \in {"begin", "number"} /\ w.n = NEW_DATABLOCK
    \/ w.pc = "mark" /\ w.n \in Lbn \ Mapped(s)
    \/ w.pc \in {"begin", "number", "table", "device", "advance"} /\ w.n \in own
    \/ w.pc \in {"table", "device", "advance"} /\ w.n \in Lbn \ Mapped(s)

Proc ==
    [pc    : {"idle", "begin", "number", "mark", "table", "device", "advance",
              "read", "done"},
     n     : Nat, d : Data \cup {Nil}, at : BlockPos, quiet : BOOLEAN]

Locals ==
    /\ proc \in [Writers \cup Readers -> Proc]
    /\ mine \in [Writers -> SUBSET Lbn]
    /\ store \in Store

(* Nobody writes; s is the store as it is. *)
Calm(s) == (\A p \in Writers : At(p, "idle")) /\ s = store /\ IndInv

(* p is in a write that began in s. *)
Busy(s, p) ==
    /\ p \in Writers /\ ~At(p, "idle") /\ \A q \in Writers : q # p => At(q, "idle")
    /\ gc \in GCState /\ gc.pc = "idle"
    /\ LogOK(s) /\ HasRoom(s)
    /\ proc[p].d \in Data
    /\ InCall(s, store, proc[p]) /\ NumberOf(s, proc[p], mine[p])

Numbers(s) ==
    /\ \A p \in Writers : mine[p] \subseteq Mapped(s) /\ \A n \in mine[p] : kept[n] # Nil
    /\ \A p, q \in Writers : p # q => mine[p] \cap mine[q] = {}
    /\ \A p \in Writers : At(p, "idle") => proc[p].n = 0

ReadOK(s, r) ==
    /\ proc[r].n \in Mapped(s)
    /\ \A p \in Writers : proc[p].n # proc[r].n
    /\ At(r, "read") => proc[r].at = s.mapping_table[proc[r].n]
    /\ At(r, "done") => proc[r].d = kept[proc[r].n]

Reads(s) ==
    \A r \in Readers :
        /\ proc[r].pc \in {"idle", "read", "done"}
        /\ ~At(r, "idle") => gc.pc = "idle" /\ (proc[r].quiet => ReadOK(s, r))

Base(s) ==
    /\ kept = Content(s)
    /\ Numbers(s)
    /\ Reads(s)
    /\ Calm(s) \/ \E p \in Writers : Busy(s, p)

ConcInv == Locals /\ \E s \in Store : Base(s)

--------------------------------------------------------------------------------
(* The log before and after a write *)

(* Once the device has the block, the steps of a write amount to an append *)
(* of HodoLog.                                                             *)
LEMMA Landed ==
    ASSUME NEW s, NEW t \in Store, NEW w, LogOK(s), HasRoom(s),
           w.pc = "advance", w.n \in Lbn, w.d \in Data, InCall(s, t, w)
    PROVE  LET b == MkBlock("DAT", w.n, w.d)
           IN  /\ CanAppend(s, w.n, s.wp, b) /\ Appended(s, t, w.n, s.wp, b)
               /\ b.data = w.d
<1> DEFINE b == MkBlock("DAT", w.n, w.d)
<1>1. b \in Buffer /\ b.lbn = w.n /\ b.data = w.d
  BY DEF MkBlock, Buffer
<1>2. CanAppend(s, w.n, s.wp, b)
  BY <1>1, LogWp DEF CanAppend
<1>3. Entered(w) /\ ~Unmarked(w)
  BY DEF Entered, Unmarked
<1>4. Appended(s, t, w.n, s.wp, b)
  BY <1>3 DEF InCall, Appended
<1> QED
  BY <1>1, <1>2, <1>4

(* What numbers read as in the middle of a write. *)
LEMMA CallContent ==
    ASSUME NEW s, NEW t \in Store, NEW w, LogOK(s), HasRoom(s), InCall(s, t, w),
           Entered(w) => w.n \in Lbn /\ w.d \in Data
    PROVE  /\ ~Entered(w) => Content(t) = Content(s)
           /\ Entered(w) => \A m \in Lbn : m # w.n => Content(t)[m] = Content(s)[m]
           /\ w.pc = "advance" => Content(t)[w.n] = w.d
<1>1. CASE ~Entered(w)
  <2>1. t.mapping_table = s.mapping_table /\ t.seq = s.seq
    BY <1>1 DEF InCall, Entered
  <2> QED
    BY <1>1, <2>1 DEF Content, Mapped, Written, BlockAt, Entered
<1>2. CASE w.pc = "device"
  <2>1. t.mapping_table = [s.mapping_table EXCEPT ![w.n] = s.wp] /\ t.seq = s.seq
    BY <1>2 DEF InCall, Entered
  <2>2. \A m \in Lbn : m # w.n => t.mapping_table[m] = s.mapping_table[m]
    BY <2>1, LogWp DEF Store
  <2> QED
    BY <1>2, <2>1, <2>2 DEF Content, Mapped, Written, BlockAt, Entered
<1>3. CASE w.pc = "advance"
  <2> DEFINE b == MkBlock("DAT", w.n, w.d)
  <2>1. w.n \in Lbn /\ w.d \in Data
    BY <1>3 DEF Entered
  <2>2. CanAppend(s, w.n, s.wp, b) /\ Appended(s, t, w.n, s.wp, b) /\ b.data = w.d
    BY <1>3, <2>1, Landed
  <2>3. Content(t) = [Content(s) EXCEPT ![w.n] = b.data]
    BY <2>2, LogWp, AppendLive DEF LogOK
  <2> HIDE DEF b
  <2>4. Content(s) = [m \in Lbn |-> Content(s)[m]]
    BY DEF Content
  <2> QED
    BY <1>3, <2>1, <2>2, <2>3, <2>4 DEF Entered
<1> QED
  BY <1>1, <1>2, <1>3 DEF Entered
--------------------------------------------------------------------------------
(* The steps of a write *)

(* A step of a call that leaves the locals of p as r and the store as one  *)
(* that the call can reach from s.                                         *)
LEMMA CallMoves ==
    ASSUME Locals, NEW s \in Store, kept = Content(s), Numbers(s), Reads(s),
           NEW p \in Writers, Busy(s, p), UNCHANGED <<gc, mine, kept>>,
           NEW r \in Proc, proc' = [proc EXCEPT ![p] = r], store' \in Store,
           r.pc # "idle", r.d \in Data, r.n = proc[p].n \/ r.n \notin Mapped(s),
           InCall(s, store', r), NumberOf(s, r, mine[p])
    PROVE  Locals' /\ Base(s)' /\ Busy(s, p)'
<1>1. /\ proc' \in [Writers \cup Readers -> Proc] /\ proc'[p] = r
      /\ \A q \in Writers \cup Readers : q # p => proc'[q] = proc[q]
  BY DEF Locals
<1>2. Locals'
  BY <1>1 DEF Locals
<1>3. \A q \in Writers : q # p => At(q, "idle") /\ At(q, "idle")'
  BY <1>1 DEF Busy, At
<1>4. ~At(p, "idle") /\ ~At(p, "idle")'
  BY <1>1 DEF Busy, At
<1>5. Busy(s, p)'
  BY <1>1, <1>3, <1>4 DEF Busy
<1>6. Numbers(s)'
  BY <1>1, <1>4 DEF Numbers, At
<1>7. Reads(s)'
  <2> SUFFICES ASSUME NEW q \in Readers
               PROVE  /\ proc'[q].pc \in {"idle", "read", "done"}
                      /\ ~At(q, "idle")' => gc'.pc = "idle" /\ (proc'[q].quiet => ReadOK(s, q)')
    BY DEF Reads
  <2>1. q # p /\ proc'[q] = proc[q]
    BY <1>1, ConcurrentAssumption
  <2>2. /\ proc[q].pc \in {"idle", "read", "done"}
        /\ ~At(q, "idle") => gc.pc = "idle" /\ (proc[q].quiet => ReadOK(s, q))
    BY DEF Reads
  <2>3. ReadOK(s, q) => ReadOK(s, q)'
    BY <1>1, <2>1 DEF ReadOK, At
  <2> QED
    BY <2>1, <2>2, <2>3 DEF At
<1> QED
  BY <1>2, <1>5, <1>6, <1>7 DEF Base

(* The facts about a writer in a call. *)
LEMMA CallFacts ==
    ASSUME Locals, NEW s \in Store, Numbers(s), NEW p \in Writers, Busy(s, p)
    PROVE  /\ store \in Store /\ proc[p] \in Proc
           /\ LogOK(s) /\ HasRoom(s) /\ InCall(s, store, proc[p])
           /\ NumberOf(s, proc[p], mine[p])
           /\ proc[p].d \in Data
           /\ mine[p] \subseteq Mapped(s) /\ Mapped(s) \subseteq Lbn /\ Lbn \subseteq Nat
           /\ s.wp \in BlockPos /\ s.wp.zone_id # 0
           /\ 0 \notin Lbn
<1>1. s.wp \in BlockPos /\ s.wp.zone_id # 0
  BY LogWp, Geometry DEF Busy
<1> QED
  BY <1>1, Geometry DEF Locals, Busy, Numbers, Mapped

(* A step only reads or sets fields of the record of p. *)
LEMMA Goes ==
    ASSUME NEW w \in Proc, NEW c \in {"number", "mark", "table", "device", "advance"}
    PROVE  LET r == [w EXCEPT !.pc = c]
           IN  r \in Proc /\ r.pc = c /\ r.n = w.n /\ r.d = w.d /\ r.at = w.at
BY DEF Proc

LEMMA SetValidInv ==
    ASSUME Locals, NEW s \in Store, kept = Content(s), Numbers(s), Reads(s),
           NEW p \in Writers, Busy(s, p), SetValid(p)
    PROVE  Locals' /\ Base(s)' /\ Busy(s, p)'
<1> DEFINE r == [proc[p] EXCEPT !.pc = "number"]
<1>0. proc[p].pc = "begin" /\ proc' = [proc EXCEPT ![p] = r]
      /\ UNCHANGED <<gc, mine, kept>>
      /\ store' = [store EXCEPT !.GC_bitmap = @ \cup {store.wp}]
  BY DEF SetValid, At
<1>1. InCall(s, store, proc[p]) /\ proc[p] \in Proc /\ store \in Store
      /\ NumberOf(s, proc[p], mine[p])
  BY CallFacts
<1>2. r \in Proc /\ r.pc = "number" /\ r.n = proc[p].n /\ r.d = proc[p].d /\ r.at = proc[p].at
  BY <1>1, Goes
<1> HIDE DEF r
<1>3. store' \in Store
  BY <1>0, <1>1 DEF Store
<1>4. InCall(s, store', r)
  BY <1>0, <1>1, <1>2 DEF InCall, Unmarked, Entered, Store
<1>5. NumberOf(s, r, mine[p])
  BY <1>0, <1>1, <1>2 DEF NumberOf
<1> QED
  BY <1>0, <1>2, <1>3, <1>4, <1>5, CallFacts, CallMoves

LEMMA FindNumberInv ==
    ASSUME Locals, NEW s \in Store, kept = Content(s), Numbers(s), Reads(s),
           NEW p \in Writers, Busy(s, p), FindNumber(p)
    PROVE  Locals' /\ Base(s)' /\ Busy(s, p)'
<1> DEFINE k == hodo_get_next_logical_number(store)
           r == [proc[p] EXCEPT !.n = k, !.pc = "mark"]
<1>0. proc[p].pc = "number" /\ proc[p].n = NEW_DATABLOCK /\ proc' = [proc EXCEPT ![p] = r]
      /\ UNCHANGED <<gc, mine, kept>> /\ store' = store
  BY DEF FindNumber, At
<1>1. InCall(s, store, proc[p]) /\ LogOK(s)
  BY CallFacts
<1>2. store.logical_entry_bitmap = s.logical_entry_bitmap
  BY <1>0, <1>1 DEF InCall, Unmarked
<1>3. k \in Lbn \ Mapped(s)
  <2>1. k = hodo_get_next_logical_number(s)
    BY <1>2 DEF hodo_get_next_logical_number, FreeEntries
  <2> QED
    BY <1>1, <2>1, NumbersLast DEF LogOK
<1> HIDE DEF k
<1>4. k \in Nat
  BY <1>3, Geometry
<1>5. r \in Proc /\ r.pc = "mark" /\ r.n = k /\ r.d = proc[p].d /\ r.at = proc[p].at
  BY <1>4, CallFacts DEF Proc
<1> HIDE DEF r
<1>6. InCall(s, store', r)
  BY <1>0, <1>1, <1>5 DEF InCall, Unmarked, Entered
<1>7. NumberOf(s, r, mine[p])
  BY <1>3, <1>5 DEF NumberOf
<1> QED
  BY <1>0, <1>3, <1>5, <1>6, <1>7, CallFacts, CallMoves

LEMMA MarkNumberInv ==
    ASSUME Locals, NEW s \in Store, kept = Content(s), Numbers(s), Reads(s),
           NEW p \in Writers, Busy(s, p), MarkNumber(p)
    PROVE  Locals' /\ Base(s)' /\ Busy(s, p)'
<1> DEFINE n == proc[p].n
           r == [proc[p] EXCEPT !.pc = "table"]
<1>0. proc[p].pc = "mark" /\ proc' = [proc EXCEPT ![p] = r]
      /\ UNCHANGED <<gc, mine, kept>> /\ store' = hodo_set_logical_bitmap(store, n)
  BY DEF MarkNumber, At
<1>1. InCall(s, store, proc[p]) /\ LogOK(s) /\ proc[p] \in Proc /\ store \in Store
  BY CallFacts
<1>2. n \in Lbn \ Mapped(s)
  BY <1>0, CallFacts DEF NumberOf
<1>3. r \in Proc /\ r.pc = "table" /\ r.n = n /\ r.d = proc[p].d /\ r.at = proc[p].at
  BY <1>1, Goes
<1>4. /\ store' = [store EXCEPT !.logical_entry_bitmap = @ \cup {n - starting_logical_number}]
      /\ store' \in Store
  <2>1. n - starting_logical_number \in Entry /\ n # NoNumber
    BY <1>2, Geometry DEF Entry, Lbn, starting_logical_number
  <2> QED
    BY <1>0, <1>1, <2>1, TakeNumberType DEF hodo_set_logical_bitmap
<1>5. s.mapping_table[n] \notin s.GC_bitmap \cup {s.wp}
  <2>1. s.mapping_table[n].zone_id = 0
    BY <1>2 DEF Mapped
  <2>2. \A q \in s.GC_bitmap : q.zone_id # 0
    BY <1>1 DEF LogOK, Live, Mapped
  <2> QED
    BY <2>1, <2>2, CallFacts
<1> HIDE DEF n, r
<1>6. InCall(s, store', r)
  <2>1. store.GC_bitmap = (s.GC_bitmap \cup {s.wp}) \ {s.mapping_table[n]}
    BY <1>0, <1>1, <1>5 DEF InCall, Unmarked
  <2> QED
    BY <1>0, <1>1, <1>3, <1>4, <2>1 DEF InCall, Unmarked, Entered, Store
<1>7. NumberOf(s, r, mine[p])
  BY <1>2, <1>3 DEF NumberOf
<1> QED
  BY <1>0, <1>3, <1>4, <1>6, <1>7, CallFacts, CallMoves DEF n

LEMMA ClearOldInv ==
    ASSUME Locals, NEW s \in Store, kept = Content(s), Numbers(s), Reads(s),
           NEW p \in Writers, Busy(s, p), ClearOld(p)
    PROVE  Locals' /\ Base(s)' /\ Busy(s, p)'
<1> DEFINE n == proc[p].n
           r == [proc[p] EXCEPT !.pc = "table"]
<1>0. proc[p].pc = "number" /\ n # NEW_DATABLOCK /\ proc' = [proc EXCEPT ![p] = r]
      /\ UNCHANGED <<gc, mine, kept>>
      /\ store' = [store EXCEPT !.GC_bitmap = @ \ {store.mapping_table[n]}]
  BY DEF ClearOld, At
<1>1. InCall(s, store, proc[p]) /\ LogOK(s) /\ proc[p] \in Proc /\ store \in Store
  BY CallFacts
<1>2. n \in mine[p] /\ n \in Mapped(s) /\ n \in Lbn
  BY <1>0, CallFacts DEF NumberOf
<1>3. r \in Proc /\ r.pc = "table" /\ r.n = n /\ r.d = proc[p].d /\ r.at = proc[p].at
  BY <1>1, Goes
<1>4. store' \in Store
  BY <1>0, <1>1 DEF Store
<1>5. s.logical_entry_bitmap
        = s.logical_entry_bitmap \cup {n - starting_logical_number}
  BY <1>1, <1>2 DEF LogOK, Live
<1> HIDE DEF n, r
<1>6. InCall(s, store', r)
  BY <1>0, <1>1, <1>3, <1>5 DEF InCall, Unmarked, Entered, Store
<1>7. NumberOf(s, r, mine[p])
  BY <1>2, <1>3 DEF NumberOf
<1> QED
  BY <1>0, <1>3, <1>4, <1>6, <1>7, CallFacts, CallMoves DEF n

LEMMA SetTableInv ==
    ASSUME Locals, NEW s \in Store, kept = Content(s), Numbers(s), Reads(s),
           NEW p \in Writers, Busy(s, p), SetTable(p)
    PROVE  Locals' /\ Base(s)' /\ Busy(s, p)'
<1> DEFINE n == proc[p].n
           r == [proc[p] EXCEPT !.pc = "device"]
<1>0. proc[p].pc = "table" /\ proc' = [proc EXCEPT ![p] = r]
      /\ UNCHANGED <<gc, mine, kept>>
      /\ store' = [store EXCEPT !.mapping_table[n] = store.wp]
  BY DEF SetTable, At
<1>1. InCall(s, store, proc[p]) /\ LogOK(s) /\ proc[p] \in Proc /\ store \in Store
  BY CallFacts
<1>2. (n \in mine[p] \/ n \in Lbn \ Mapped(s)) /\ n \in Lbn
  BY <1>0, CallFacts DEF NumberOf
<1>3. r \in Proc /\ r.pc = "device" /\ r.n = n /\ r.d = proc[p].d /\ r.at = proc[p].at
  BY <1>1, Goes
<1> HIDE DEF n, r
<1> DEFINE tab == [store.mapping_table EXCEPT ![n] = store.wp]
<1>4. tab \in [Lbn -> BlockPos] /\ store' = [store EXCEPT !.mapping_table = tab]
  BY <1>0, <1>1 DEF Store
<1>5. tab = [s.mapping_table EXCEPT ![n] = s.wp]
  BY <1>0, <1>1 DEF InCall, Entered
<1> HIDE DEF tab
<1>6. store' \in Store
  BY <1>1, <1>4 DEF Store
<1>7. InCall(s, store', r)
  <2>1. ~Unmarked(proc[p]) /\ ~Unmarked(r) /\ ~Entered(proc[p]) /\ Entered(r)
    BY <1>0, <1>3 DEF Unmarked, Entered
  <2>2. /\ store'.mapping_table = tab /\ store'.wp = store.wp
        /\ store'.logical_entry_bitmap = store.logical_entry_bitmap
        /\ store'.GC_bitmap = store.GC_bitmap /\ store'.seq = store.seq
        /\ store'.swap_wp = store.swap_wp /\ store'.fault = store.fault
    BY <1>1, <1>4 DEF Store
  <2> QED
    BY <1>0, <1>1, <1>3, <1>5, <2>1, <2>2 DEF InCall, n
<1>8. NumberOf(s, r, mine[p])
  BY <1>2, <1>3 DEF NumberOf
<1> QED
  BY <1>0, <1>3, <1>6, <1>7, <1>8, CallFacts, CallMoves DEF n

LEMMA DeviceWriteInv ==
    ASSUME Locals, NEW s \in Store, kept = Content(s), Numbers(s), Reads(s),
           NEW p \in Writers, Busy(s, p), DeviceWrite(p)
    PROVE  Locals' /\ Base(s)' /\ Busy(s, p)'
<1> DEFINE n == proc[p].n
           b == MkBlock("DAT", n, proc[p].d)
           r == [proc[p] EXCEPT !.pc = "advance"]
           files == zonefs_write(store.seq, proc[p].at, b)
<1>0. proc[p].pc = "device" /\ proc' = [proc EXCEPT ![p] = r]
      /\ UNCHANGED <<gc, mine, kept>>
      /\ store' = [store EXCEPT !.seq = files]
  BY DEF DeviceWrite, At
<1>1. InCall(s, store, proc[p]) /\ LogOK(s) /\ HasRoom(s) /\ proc[p] \in Proc
      /\ store \in Store
  BY CallFacts
<1>2. (n \in mine[p] \/ n \in Lbn \ Mapped(s)) /\ n \in Lbn
  BY <1>0, CallFacts DEF NumberOf
<1>3. r \in Proc /\ r.pc = "advance" /\ r.n = n /\ r.d = proc[p].d /\ r.at = proc[p].at
  BY <1>1, Goes
<1>4. b \in Buffer
  BY <1>2, CallFacts DEF MkBlock, Buffer
<1>5. proc[p].at = s.wp /\ store.seq = s.seq
  BY <1>0, <1>1 DEF InCall
<1>6. files = [s.seq EXCEPT ![s.wp.zone_id] = Append(@, b)]
  BY <1>1, <1>5, LogWp DEF zonefs_write
<1>7. files \in [SeqFiles -> Seq(Buffer)]
  BY <1>1, <1>4, <1>5, LogWp, DeviceWriteType DEF Store
<1> HIDE DEF files, r
<1>8. store' \in Store
  BY <1>0, <1>1, <1>7 DEF Store
<1>9. InCall(s, store', r)
  <2>1. ~Unmarked(proc[p]) /\ ~Unmarked(r) /\ Entered(proc[p]) /\ Entered(r)
    BY <1>0, <1>3 DEF Unmarked, Entered
  <2>2. /\ store'.mapping_table = store.mapping_table /\ store'.wp = store.wp
        /\ store'.logical_entry_bitmap = store.logical_entry_bitmap
        /\ store'.GC_bitmap = store.GC_bitmap /\ store'.seq = files
        /\ store'.swap_wp = store.swap_wp /\ store'.fault = store.fault
    BY <1>0, <1>1 DEF Store
  <2> QED
    BY <1>0, <1>1, <1>3, <1>6, <2>1, <2>2 DEF InCall
<1>10. NumberOf(s, r, mine[p])
  BY <1>2, <1>3 DEF NumberOf
<1> HIDE DEF n
<1> QED
  BY <1>0, <1>3, <1>8, <1>9, <1>10, CallFacts, CallMoves DEF n

(* A write begins in the store as it is. *)
LEMMA BeginWriteInv ==
    ASSUME Locals, NEW s \in Store, kept = Content(s), Numbers(s), Reads(s),
           Calm(s), gc.pc = "idle", HasRoom(store), NEW p \in Writers,
           NEW n \in mine[p] \cup {NEW_DATABLOCK}, NEW d \in Data, BeginWrite(p, n, d)
    PROVE  Locals' /\ Base(s)' /\ Busy(s, p)'
<1> DEFINE r == [Idle EXCEPT !.pc = "begin", !.n = n, !.d = d, !.at = store.wp]
           still(q) == n = NEW_DATABLOCK \/ proc[q].n # n
<1>0. /\ gc.pc = "idle" /\ UNCHANGED <<store, gc, mine, kept>>
      /\ proc' = [q \in DOMAIN proc |->
                    IF q = p THEN r ELSE [proc[q] EXCEPT !.quiet = @ /\ still(q)]]
  BY DEF BeginWrite
<1>1. s = store /\ IndInv /\ \A q \in Writers : proc[q].pc = "idle"
  BY DEF Calm, At
<1>2. LogOK(s) /\ gc \in GCState
  BY <1>0, <1>1, LogInd, StateFacts
<1>3. n \in Nat /\ (n # NEW_DATABLOCK => n \in mine[p] /\ n \in Mapped(s) /\ n \in Lbn)
  <2>1. mine[p] \subseteq Mapped(s)
    BY DEF Numbers
  <2>2. Mapped(s) \subseteq Lbn /\ Lbn \subseteq Nat
    BY Geometry DEF Mapped
  <2>3. NEW_DATABLOCK = 0 /\ (n = NEW_DATABLOCK \/ n \in mine[p])
    BY DEF NEW_DATABLOCK
  <2>4. n # NEW_DATABLOCK => n \in mine[p] /\ n \in Mapped(s) /\ n \in Lbn /\ n \in Nat
    BY <2>1, <2>2, <2>3, Zenon
  <2> QED
    BY <2>3, <2>4
<1>4. /\ r \in Proc /\ r.pc = "begin" /\ r.n = n /\ r.d = d /\ r.at = store.wp
  BY <1>1, <1>3, StateFacts DEF Idle, Proc
<1> HIDE DEF r
<1>5. store' \in Store /\ InCall(s, store', r)
  BY <1>0, <1>1, <1>4, StateFacts DEF InCall, Unmarked, Entered, Store
<1>6. NumberOf(s, r, mine[p])
  BY <1>3, <1>4 DEF NumberOf
<1>7. DOMAIN proc = Writers \cup Readers /\ \A q \in Writers \cup Readers : proc[q] \in Proc
  BY DEF Locals
<1>8. proc'[p] = r
  BY <1>0, <1>7
<1>9. ASSUME NEW q \in Writers \cup Readers, q # p
      PROVE  /\ proc'[q] \in Proc /\ proc'[q].pc = proc[q].pc /\ proc'[q].n = proc[q].n
             /\ proc'[q].d = proc[q].d /\ proc'[q].at = proc[q].at
             /\ proc'[q].quiet => proc[q].quiet /\ still(q)
  <2>1. proc'[q] = [proc[q] EXCEPT !.quiet = @ /\ still(q)]
    BY <1>0, <1>7, <1>9
  <2>2. proc[q] \in Proc /\ proc[q].quiet \in BOOLEAN
    BY <1>7 DEF Proc
  <2>3. PICK f \in BOOLEAN : f = (proc[q].quiet /\ still(q))
    BY <2>2
  <2> HIDE DEF still
  <2>4. proc'[q] = [proc[q] EXCEPT !.quiet = f]
    BY <2>1, <2>3
  <2>5. /\ proc'[q] \in Proc /\ proc'[q].pc = proc[q].pc /\ proc'[q].n = proc[q].n
        /\ proc'[q].d = proc[q].d /\ proc'[q].at = proc[q].at /\ proc'[q].quiet = f
    BY <2>2, <2>4 DEF Proc
  <2>6. proc'[q].quiet => proc[q].quiet /\ still(q)
    BY <2>3, <2>5, Zenon
  <2> QED
    BY <2>5, <2>6
<1>10. Locals'
  <2>1. proc' = [q \in Writers \cup Readers |-> proc'[q]]
    BY <1>0, <1>7
  <2>2. \A q \in Writers \cup Readers : proc'[q] \in Proc
    BY <1>4, <1>8, <1>9
  <2>3. proc' \in [Writers \cup Readers -> Proc]
    BY <2>1, <2>2
  <2> QED
    BY <1>0, <1>5, <2>3 DEF Locals
<1>11. Busy(s, p)'
  <2>1. \A q \in Writers : q # p => proc'[q].pc = "idle"
    BY <1>1, <1>9
  <2> QED
    BY <1>0, <1>1, <1>2, <1>4, <1>5, <1>6, <1>8, <2>1 DEF Busy, At
<1>12. Numbers(s)'
  <2>1. \A q \in Writers : proc'[q].pc = "idle" => proc'[q].n = 0
    BY <1>4, <1>8, <1>9 DEF Numbers, At
  <2> QED
    BY <1>0, <2>1 DEF Numbers, At
<1>13. Reads(s)'
  <2> SUFFICES ASSUME NEW q \in Readers
               PROVE  /\ proc'[q].pc \in {"idle", "read", "done"}
                      /\ ~At(q, "idle")' => gc'.pc = "idle" /\ (proc'[q].quiet => ReadOK(s, q)')
    BY DEF Reads
  <2>1. q # p /\ q \in Writers \cup Readers
    BY ConcurrentAssumption
  <2>2. /\ proc'[q].pc = proc[q].pc /\ proc'[q].n = proc[q].n
        /\ proc'[q].d = proc[q].d /\ proc'[q].at = proc[q].at
        /\ proc'[q].quiet => proc[q].quiet /\ still(q)
    BY <1>9, <2>1
  <2>3. /\ proc[q].pc \in {"idle", "read", "done"}
        /\ ~At(q, "idle") => gc.pc = "idle" /\ (proc[q].quiet => ReadOK(s, q))
    BY DEF Reads
  <2>4. ReadOK(s, q) /\ still(q) => ReadOK(s, q)'
    <3> SUFFICES ASSUME ReadOK(s, q), still(q) PROVE ReadOK(s, q)'
      OBVIOUS
    <3>1. proc[q].n # n
      BY Geometry DEF ReadOK, Mapped, NEW_DATABLOCK
    <3>2. \A o \in Writers : proc'[o].n # proc'[q].n
      BY <1>4, <1>8, <1>9, <2>2, <3>1 DEF ReadOK
    <3> QED
      BY <1>0, <2>2, <3>2 DEF ReadOK, At
  <2> HIDE DEF still
  <2>5. proc'[q].pc # "idle" /\ proc'[q].quiet => ReadOK(s, q)'
    BY <2>2, <2>3, <2>4, Zenon DEF At
  <2> QED
    BY <1>0, <2>2, <2>3, <2>5 DEF At
<1> QED
  BY <1>0, <1>10, <1>11, <1>12, <1>13 DEF Base

(* A write ends: the log is in order again, with the block in it. *)
LEMMA AdvanceInv ==
    ASSUME Locals, NEW s \in Store, kept = Content(s), Numbers(s), Reads(s),
           NEW p \in Writers, Busy(s, p), Advance(p)
    PROVE  /\ Locals'
           /\ \E u \in Store :
                 /\ Base(u)' /\ Calm(u)' /\ proc[p].pc = "advance"
                 /\ Content(u) = [Content(s) EXCEPT ![proc[p].n] = proc[p].d]
<1> DEFINE n == proc[p].n
           d == proc[p].d
           b == MkBlock("DAT", n, d)
<1>0. /\ proc[p].pc = "advance" /\ proc' = [proc EXCEPT ![p] = Idle] /\ gc' = gc
      /\ store' = [store EXCEPT !.wp = NextWp(p)]
      /\ mine' = [mine EXCEPT ![p] = @ \cup {n}]
      /\ kept' = [kept EXCEPT ![n] = d]
  BY DEF Advance, At
<1>1. InCall(s, store, proc[p]) /\ LogOK(s) /\ HasRoom(s) /\ proc[p] \in Proc
      /\ store \in Store /\ d \in Data
  BY CallFacts
<1>2. (n \in mine[p] \/ n \in Lbn \ Mapped(s)) /\ n \in Lbn
  BY <1>0, CallFacts DEF NumberOf
<1>3. CanAppend(s, n, s.wp, b) /\ Appended(s, store, n, s.wp, b) /\ b.data = d
  BY <1>0, <1>1, <1>2, Landed
<1>4. NextWp(p) = Advanced(s.wp) /\ Advanced(s.wp) \in BlockPos
  <2>1. proc[p].at = s.wp /\ store.wp = s.wp /\ s.wp \in BlockPos /\ s.wp.zone_id \in SeqFiles
    BY <1>1, LogWp DEF InCall
  <2> QED
    BY <2>1, AdvancedType DEF NextWp, Advanced
<1> HIDE DEF n, d, b
<1>5. /\ store' \in Store /\ store'.wp = Advanced(s.wp) /\ store'.fault = s.fault
      /\ store'.mapping_table = store.mapping_table /\ store'.seq = store.seq
      /\ store'.GC_bitmap = store.GC_bitmap
      /\ store'.logical_entry_bitmap = store.logical_entry_bitmap
  BY <1>0, <1>1, <1>4 DEF InCall, Store
<1>6. Appended(s, store', n, s.wp, b)
  BY <1>3, <1>5 DEF Appended
<1>7. PICK u \in Store : u = store'
  BY <1>5
<1>8. LogOK(u) /\ Mapped(u) = Mapped(s) \cup {n} /\ Content(u) = [Content(s) EXCEPT ![n] = d]
  BY <1>1, <1>3, <1>5, <1>6, <1>7, LogAppend
<1>9. \A m \in Lbn : m # n => u.mapping_table[m] = s.mapping_table[m]
  BY <1>2, <1>6, <1>7 DEF Appended, Store
<1>10. kept' = Content(u)
  BY <1>0, <1>8
<1>11. /\ proc' \in [Writers \cup Readers -> Proc] /\ proc'[p] = Idle
       /\ \A q \in Writers \cup Readers : q # p => proc'[q] = proc[q]
       /\ Idle.pc = "idle" /\ Idle.n = 0
  <2>1. Idle \in Proc
    BY Geometry DEF Idle, Proc, Pos, BlockPos, ZoneId, BlockIndex
  <2> QED
    BY <1>0, <2>1 DEF Locals, Idle
<1>12. /\ mine' \in [Writers -> SUBSET Lbn] /\ mine'[p] = mine[p] \cup {n}
       /\ \A q \in Writers : q # p => mine'[q] = mine[q]
  BY <1>0, <1>2 DEF Locals
<1>13. Locals'
  BY <1>5, <1>11, <1>12 DEF Locals
<1>14. \A q \in Writers : proc'[q].pc = "idle" /\ proc'[q].n = 0
  BY <1>11 DEF Busy, Numbers, At
<1>15. Numbers(u)'
  <2>1. \A q \in Writers : mine'[q] \subseteq Mapped(u)
    BY <1>8, <1>12 DEF Numbers
  <2>2. \A q \in Writers : q # p => n \notin mine[q]
    BY <1>2 DEF Numbers
  <2>3. \A o, q \in Writers : o # q => mine'[o] \cap mine'[q] = {}
    BY <1>12, <2>2 DEF Numbers
  <2>4. ASSUME NEW q \in Writers, NEW m \in mine'[q] PROVE kept'[m] # Nil
    <3>1. kept = [k \in Lbn |-> kept[k]] /\ d # Nil
      BY <1>1, NilAssumption DEF Content
    <3>2. m \in Lbn /\ (m = n \/ m \in mine[q])
      BY <1>12
    <3>3. m # n => kept[m] # Nil
      BY <3>2 DEF Numbers
    <3> QED
      BY <1>0, <1>2, <3>1, <3>2, <3>3
  <2> QED
    BY <1>14, <2>1, <2>3, <2>4 DEF Numbers, At
<1>16. Reads(u)'
  <2> SUFFICES ASSUME NEW q \in Readers
               PROVE  /\ proc'[q].pc \in {"idle", "read", "done"}
                      /\ ~At(q, "idle")' => gc'.pc = "idle" /\ (proc'[q].quiet => ReadOK(u, q)')
    BY DEF Reads
  <2>1. q # p /\ q \in Writers \cup Readers
    BY ConcurrentAssumption
  <2>2. proc'[q] = proc[q]
    BY <1>11, <2>1
  <2>3. /\ proc[q].pc \in {"idle", "read", "done"}
        /\ ~At(q, "idle") => gc.pc = "idle" /\ (proc[q].quiet => ReadOK(s, q))
    BY DEF Reads
  <2>4. ReadOK(s, q) => ReadOK(u, q)'
    <3> SUFFICES ASSUME ReadOK(s, q) PROVE ReadOK(u, q)'
      OBVIOUS
    <3>1. proc[q].n \in Mapped(s) /\ proc[q].n \in Lbn /\ proc[q].n # n /\ proc[q].n # 0
      BY Geometry DEF ReadOK, Mapped, n
    <3>2. kept'[proc[q].n] = kept[proc[q].n]
      <4>1. kept = [m \in Lbn |-> kept[m]]
        BY DEF Content
      <4> QED
        BY <1>0, <3>1, <4>1
    <3> QED
      BY <1>8, <1>9, <1>14, <2>2, <3>1, <3>2 DEF ReadOK, At
  <2> QED
    BY <1>0, <2>2, <2>3, <2>4 DEF At
<1>17. Calm(u)'
  <2>1. gc \in GCState /\ gc.pc = "idle"
    BY DEF Busy
  <2>2. IndInv'
    BY <1>0, <1>7, <1>8, <2>1 DEF LogOK, IndInv, TypeOK, NoFault, IdleInv, Store
  <2> QED
    BY <1>7, <1>14, <2>2 DEF Calm, At
<1> QED
  BY <1>0, <1>8, <1>10, <1>13, <1>15, <1>16, <1>17 DEF Base, n, d

--------------------------------------------------------------------------------
(* The steps of a read *)

(* A number nobody is writing is where it was when the write began, and    *)
(* reads as it did.                                                        *)
LEMMA Untouched ==
    ASSUME Locals, NEW s \in Store, Base(s), NEW m \in Lbn,
           \A p \in Writers : proc[p].n # m
    PROVE  /\ store.mapping_table[m] = s.mapping_table[m]
           /\ Content(store)[m] = Content(s)[m]
<1>1. CASE Calm(s)
  BY <1>1 DEF Calm
<1>2. CASE \E p \in Writers : Busy(s, p)
  <2>1. PICK p \in Writers : Busy(s, p)
    BY <1>2
  <2>2. Numbers(s)
    BY DEF Base
  <2>3. /\ store \in Store /\ LogOK(s) /\ HasRoom(s) /\ InCall(s, store, proc[p])
        /\ proc[p].d \in Data /\ m # proc[p].n
    BY <2>1, <2>2, CallFacts
  <2>4. Entered(proc[p]) => proc[p].n \in Lbn
    BY <2>1, <2>2, CallFacts DEF NumberOf, Entered
  <2>5. store.mapping_table[m] = s.mapping_table[m]
    BY <2>3, <2>4 DEF InCall, Store
  <2>6. Content(store)[m] = Content(s)[m]
    BY <2>3, <2>4, CallContent
  <2> QED
    BY <2>5, <2>6
<1> QED
  BY <1>1, <1>2 DEF Base

(* What the invariant says of a reader with locals w. *)
ReaderOK(s, w) ==
    /\ w.n \in Mapped(s)
    /\ \A p \in Writers : proc[p].n # w.n
    /\ w.pc = "read" => w.at = s.mapping_table[w.n]
    /\ w.pc = "done" => w.d = kept[w.n]

LEMMA ReaderMoves ==
    ASSUME Locals, NEW s \in Store, Base(s), NEW r \in Readers, NEW w \in Proc,
           proc' = [proc EXCEPT ![r] = w], UNCHANGED <<store, gc, mine, kept>>,
           w.pc \in {"idle", "read", "done"},
           w.pc # "idle" => gc.pc = "idle", w.pc # "idle" /\ w.quiet => ReaderOK(s, w)
    PROVE  /\ Locals' /\ Base(s)'
           /\ Calm(s) => Calm(s)'
           /\ \A p \in Writers : Busy(s, p) => Busy(s, p)'
<1>1. /\ proc' \in [Writers \cup Readers -> Proc] /\ proc'[r] = w
      /\ \A q \in Writers \cup Readers : q # r => proc'[q] = proc[q]
  BY DEF Locals
<1>2. Locals'
  BY <1>1 DEF Locals
<1>3. \A q \in Writers : proc'[q] = proc[q]
  BY <1>1, ConcurrentAssumption
<1>4. Calm(s) => Calm(s)'
  <2>1. IndInv => IndInv'
    BY DEF IndInv, TypeOK, NoFault, IdleInv, CollectInv, ScanInv, ResetInv,
           SwapCount, OutInv, DrainInv, ClearInv
  <2> QED
    BY <1>3, <2>1 DEF Calm, At
<1>5. ASSUME NEW p \in Writers, Busy(s, p) PROVE Busy(s, p)'
  BY <1>3, <1>5 DEF Busy, At
<1>6. Numbers(s)'
  BY <1>3 DEF Base, Numbers, At
<1>7. Reads(s)'
  <2> SUFFICES ASSUME NEW q \in Readers
               PROVE  /\ proc'[q].pc \in {"idle", "read", "done"}
                      /\ ~At(q, "idle")' => gc'.pc = "idle" /\ (proc'[q].quiet => ReadOK(s, q)')
    BY DEF Reads
  <2>1. CASE q = r
    <3>1. ReaderOK(s, w) => ReadOK(s, q)'
      BY <1>1, <1>3, <2>1 DEF ReaderOK, ReadOK, At
    <3>2. w.pc # "idle" /\ w.quiet => ReadOK(s, q)'
      BY <3>1
    <3> QED
      BY <1>1, <2>1, <3>2 DEF At
  <2>2. CASE q # r
    <3>1. proc'[q] = proc[q]
      BY <1>1, <2>2
    <3>2. /\ proc[q].pc \in {"idle", "read", "done"}
          /\ ~At(q, "idle") => gc.pc = "idle" /\ (proc[q].quiet => ReadOK(s, q))
      BY DEF Base, Reads
    <3>3. ReadOK(s, q) => ReadOK(s, q)'
      BY <1>3, <3>1 DEF ReadOK, At
    <3> QED
      BY <3>1, <3>2, <3>3 DEF At
  <2> QED
    BY <2>1, <2>2
<1>8. kept' = Content(s)
  BY DEF Base
<1> QED
  BY <1>2, <1>4, <1>5, <1>6, <1>7, <1>8 DEF Base

LEMMA IdleLocals == Idle \in Proc /\ Idle.pc = "idle" /\ Idle.n = 0
BY Geometry DEF Idle, Proc, Pos, BlockPos, ZoneId, BlockIndex

LEMMA BeginReadInv ==
    ASSUME Locals, NEW s \in Store, Base(s), NEW r \in Readers, NEW n \in Lbn,
           gc.pc = "idle", BeginRead(r, n)
    PROVE  /\ Locals' /\ Base(s)'
           /\ Calm(s) => Calm(s)'
           /\ \A p \in Writers : Busy(s, p) => Busy(s, p)'
<1> DEFINE still == \A p \in Writers : proc[p].n # n
           w == [Idle EXCEPT !.pc = "read", !.n = n, !.at = store.mapping_table[n],
                             !.quiet = still]
<1>0. proc' = [proc EXCEPT ![r] = w] /\ UNCHANGED <<store, gc, mine, kept>> /\ kept[n] # Nil
  BY DEF BeginRead
<1>1. n \in Mapped(s)
  BY <1>0 DEF Base, Content
<1>2. n \in Nat /\ store.mapping_table[n] \in BlockPos
  BY Geometry DEF Locals, Store
<1>3. PICK f \in BOOLEAN : f = still
  OBVIOUS
<1>4. /\ w \in Proc /\ w.pc = "read" /\ w.n = n /\ w.at = store.mapping_table[n]
      /\ w.quiet = f
  <2>1. w = [Idle EXCEPT !.pc = "read", !.n = n, !.at = store.mapping_table[n], !.quiet = f]
    BY <1>3
  <2> HIDE DEF w, still
  <2> QED
    BY <1>2, <2>1, IdleLocals DEF Proc
<1>5. still => ReaderOK(s, w)
  <2> SUFFICES ASSUME still PROVE ReaderOK(s, w)
    OBVIOUS
  <2>1. w.at = s.mapping_table[n]
    BY <1>4, Untouched
  <2> QED
    BY <1>1, <1>4, <2>1 DEF ReaderOK
<1> HIDE DEF w
<1>6. w.quiet => ReaderOK(s, w)
  <2>1. CASE f = TRUE
    <3>1. still
      BY <1>3, <2>1
    <3> QED
      BY <1>5, <3>1
  <2>2. CASE f = FALSE
    BY <1>4, <2>2
  <2> QED
    BY <2>1, <2>2
<1>7. /\ w.pc \in {"idle", "read", "done"} /\ (w.pc # "idle" => gc.pc = "idle")
      /\ w.pc # "idle" /\ w.quiet => ReaderOK(s, w)
  <2>1. w.pc \in {"idle", "read", "done"} /\ (w.pc # "idle" => gc.pc = "idle")
    BY <1>4
  <2> QED
    BY <1>6, <2>1, Zenon
<1>8. w \in Proc
  BY <1>4
<1> QED
  BY <1>0, <1>7, <1>8, ReaderMoves

LEMMA ReadStepInv ==
    ASSUME Locals, NEW s \in Store, Base(s), NEW r \in Readers, ReadStep(r)
    PROVE  /\ Locals' /\ Base(s)'
           /\ Calm(s) => Calm(s)'
           /\ \A p \in Writers : Busy(s, p) => Busy(s, p)'
<1>0. proc[r] \in Proc /\ store \in Store
  BY DEF Locals
<1>1. CASE ReadBlock(r)
  <2> DEFINE n == proc[r].n
             at == proc[r].at
             x == hodo_GC_read_struct(store, at, ZeroBlock(Nil)).data
             w == [proc[r] EXCEPT !.pc = "done", !.d = x]
  <2>1. proc[r].pc = "read" /\ proc' = [proc EXCEPT ![r] = w]
        /\ UNCHANGED <<store, gc, mine, kept>>
    BY <1>1 DEF ReadBlock, At
  <2>2. x \in Data \cup {Nil}
    <3>1. ZeroBlock(Nil) \in Buffer
      BY DEF ZeroBlock, Buffer
    <3>2. hodo_GC_read_struct(store, at, ZeroBlock(Nil)) \in Buffer
      BY <1>0, <3>1, ReadType DEF Proc
    <3> QED
      BY <3>2 DEF Buffer
  <2>3. gc.pc = "idle" /\ (proc[r].quiet => ReadOK(s, r))
    BY <2>1 DEF Base, Reads, At
  <2>4. ReadOK(s, r) => x = kept[n]
    <3> SUFFICES ASSUME ReadOK(s, r) PROVE x = kept[n]
      OBVIOUS
    <3>1. n \in Mapped(s) /\ n \in Lbn /\ (\A p \in Writers : proc[p].n # n)
          /\ at = s.mapping_table[n]
      BY <2>1 DEF ReadOK, Mapped, At
    <3>2. at = store.mapping_table[n] /\ Content(store)[n] = Content(s)[n]
      BY <3>1, Untouched
    <3>3. n \in Mapped(store)
      BY <3>1, <3>2 DEF Mapped
    <3>4. Content(store)[n] = IF Written(store, at) THEN BlockAt(store, at).data ELSE Nil
      BY <3>1, <3>2, <3>3 DEF Content
    <3>5. x = IF Written(store, at) THEN BlockAt(store, at).data ELSE Nil
      BY DEF hodo_GC_read_struct, BlockAt, ZeroBlock
    <3> QED
      BY <3>2, <3>4, <3>5 DEF Base
  <2> HIDE DEF x
  <2>5. w \in Proc /\ w.pc = "done" /\ w.n = n /\ w.d = x /\ w.quiet = proc[r].quiet
    BY <1>0, <2>2 DEF Proc
  <2>6. ReadOK(s, r) => ReaderOK(s, w)
    BY <2>4, <2>5 DEF ReadOK, ReaderOK
  <2> HIDE DEF w
  <2>7. w.quiet => ReaderOK(s, w)
    BY <2>3, <2>5, <2>6, Zenon
  <2> QED
    BY <2>1, <2>3, <2>5, <2>7, ReaderMoves
<1>2. CASE ReadReturn(r)
  <2>1. proc' = [proc EXCEPT ![r] = Idle] /\ UNCHANGED <<store, gc, mine, kept>>
    BY <1>2 DEF ReadReturn
  <2> QED
    BY <2>1, IdleLocals, ReaderMoves
<1> QED
  BY <1>1, <1>2 DEF ReadStep

--------------------------------------------------------------------------------
(* A collection, the beginning, and all steps together *)

LEMMA CollectInvStep ==
    ASSUME Locals, NEW s \in Store, Base(s), \A p \in DOMAIN proc : At(p, "idle"),
           gc.pc # "idle" \/ NoSolidZone(store), Collect
    PROVE  Locals' /\ \E u \in Store : Base(u)' /\ Calm(u)' /\ Content(u) = Content(s)
<1>0. UNCHANGED <<proc, mine, kept>> /\ (GCBegin \/ GCStep)
  BY DEF Collect
<1>1. DOMAIN proc = Writers \cup Readers
  BY DEF Locals
<1>2. Calm(s)
  BY <1>1 DEF Base, Busy
<1>3. s = store /\ IndInv
  BY <1>2 DEF Calm
<1>4. (NoSolidZone(store) /\ CallGC) \/ RunGC
  BY <1>0, <1>3 DEF CallGC, RunGC, GCBegin, IndInv, NoFault
<1>5. IndInv' /\ Content(store') = Content(store)
  BY <1>3, <1>4, CollectorInd
<1>6. store' \in Store
  BY <1>5 DEF IndInv, TypeOK
<1>7. PICK u \in Store : u = store'
  BY <1>6
<1>8. Content(u) = Content(s) /\ kept' = Content(u)
  BY <1>0, <1>3, <1>5, <1>7 DEF Base
<1>9. Locals'
  BY <1>0, <1>6 DEF Locals
<1>10. Numbers(u)'
  <2>1. \A p \in Writers : mine[p] \subseteq Lbn
    BY DEF Locals
  <2>2. \A n \in Lbn : kept'[n] # Nil => n \in Mapped(u)
    BY <1>8 DEF Content
  <2> QED
    BY <1>0, <2>1, <2>2 DEF Base, Numbers, At
<1>11. Reads(u)'
  BY <1>0, <1>1 DEF Reads, At
<1>12. Calm(u)'
  BY <1>0, <1>2, <1>5, <1>7 DEF Calm, At
<1> QED
  BY <1>8, <1>9, <1>10, <1>11, <1>12 DEF Base

(* The first number is the first entry's. *)
LEMMA FirstNumber ==
    ASSUME NEW s, s.logical_entry_bitmap = {}
    PROVE  hodo_get_next_logical_number(s) = starting_logical_number
<1> DEFINE F == FreeEntries(s)
           i == CHOOSE k \in F : \A j \in F : k <= j
<1>1. F = Entry /\ 0 \in F
  <2>1. NEntries \in Nat /\ NEntries >= 1
    BY GeometryAssumption DEF NEntries
  <2> QED
    BY <2>1 DEF FreeEntries, Entry
<1>2. \A j \in F : j \in Nat /\ 0 <= j
  BY <1>1, Geometry DEF Entry
<1>3. hodo_get_next_logical_number(s) = starting_logical_number + i
  BY <1>1 DEF hodo_get_next_logical_number
<1> HIDE DEF F
<1>4. i \in F /\ \A j \in F : i <= j
  BY <1>1, <1>2
<1> HIDE DEF i
<1>5. i = 0
  BY <1>1, <1>2, <1>4
<1> QED
  BY <1>3, <1>5, Geometry DEF starting_logical_number

LEMMA FormattedOK ==
    /\ LogOK(FormattedStore) /\ HasRoom(FormattedStore)
    /\ Mapped(FormattedStore) = {} /\ Content(FormattedStore) = [m \in Lbn |-> Nil]
    /\ FormattedStore.logical_entry_bitmap = {}
<1> DEFINE s == FormattedStore
<1>1. /\ s.mapping_table = [m \in Lbn |-> Pos(0, 0)] /\ s.logical_entry_bitmap = {}
      /\ s.GC_bitmap = {} /\ s.wp = Pos(1, 0) /\ s.fault = FALSE
      /\ s.seq = [z \in SeqFiles |-> << >>]
  BY DEF FormattedStore
<1>2. s \in Store
  <2>1. [z \in SeqFiles |-> << >>] \in [SeqFiles -> Seq(Buffer)]
    OBVIOUS
  <2>2. [m \in Lbn |-> Pos(0, 0)] \in [Lbn -> BlockPos]
    BY Geometry DEF Pos, BlockPos, ZoneId, BlockIndex
  <2> QED
    BY <2>1, <2>2, Geometry DEF FormattedStore, Store
<1> HIDE DEF s
<1>3. s.wp.zone_id = 1 /\ s.wp.block_index = 0
  BY <1>1 DEF Pos
<1>4. Mapped(s) = {}
  BY <1>1 DEF Mapped, Pos
<1>5. Live(s) /\ Content(s) = [m \in Lbn |-> Nil]
  BY <1>1, <1>4 DEF Live, Content
<1>6. \A z \in SeqFiles : Len(s.seq[z]) = 0
  BY <1>1
<1>7. Layout(s) /\ HasRoom(s)
  BY <1>3, <1>6, ZoneFacts, Geometry DEF Layout, HasRoom
<1>8. LogOK(s)
  BY <1>1, <1>2, <1>5, <1>6, <1>7, ZoneFacts DEF LogOK
<1> QED
  BY <1>1, <1>4, <1>5, <1>7, <1>8 DEF s

LEMMA ConcInitInv ==
    ASSUME ConcInit
    PROVE  /\ Locals /\ \E s \in Store : Base(s) /\ Calm(s)
           /\ \E n \in Lbn, d \in Data : kept = [m \in Lbn |-> IF m = n THEN d ELSE Nil]
<1> DEFINE s == FormattedStore
           n == starting_logical_number
           r == hodo_set_logical_bitmap(s, n)
<1>1. PICK d \in Data : store = MountedStore(d)
                        /\ kept = [m \in Lbn |-> IF m = n THEN d ELSE Nil]
  BY DEF ConcInit
<1>2. /\ gc = GCIdle /\ proc = [p \in Writers \cup Readers |-> Idle]
      /\ mine = [p \in Writers |-> {}]
  BY DEF ConcInit
<1>3. LogOK(s) /\ HasRoom(s) /\ s \in Store /\ Live(s) /\ Layout(s)
  BY FormattedOK DEF LogOK
<1>4. hodo_get_next_logical_number(s) = n /\ n \in Lbn \ Mapped(s)
  BY <1>3, FormattedOK, FirstNumber, NumbersLast
<1> DEFINE buf == MkBlock("DAT", 0, d)
           b == Stamped(buf, n)
<1>5. buf \in Buffer /\ b.lbn = n /\ b.data = d
  BY DEF MkBlock, Buffer, Stamped
<1>6. store = WriteAt(r, buf, n, {})
  BY <1>1, <1>4 DEF MountedStore, hodo_write_new
<1> HIDE DEF s, n, buf
<1>7. r \in Store
  <2>1. n \in Lbn /\ n - starting_logical_number \in Entry
    BY <1>4, Geometry DEF Entry, Lbn, starting_logical_number
  <2> QED
    BY <1>3, <2>1, TakeNumberType
<1>8. store \in Store
  BY <1>5, <1>6, <1>7, WriteAtType
<1>9. /\ CanAppend(s, n, s.wp, b) /\ Appended(s, store, n, s.wp, b)
      /\ store.wp = Advanced(s.wp) /\ store.fault = s.fault
  <2>1. s.wp.zone_id < SwapZone /\ Len(s.seq[s.wp.zone_id]) = s.wp.block_index
    BY <1>3, LogWp
  <2>2. n \in Lbn \ Mapped(s)
    BY <1>4
  <2> QED
    BY <1>3, <1>5, <1>6, <2>1, <2>2, FreshFields
<1> HIDE DEF b
<1>10. LogOK(store) /\ Content(store) = [Content(s) EXCEPT ![n] = d]
  BY <1>3, <1>5, <1>8, <1>9, LogAppend
<1>11. Content(s) = [m \in Lbn |-> Nil]
  BY FormattedOK DEF s
<1>12. kept = Content(store)
  BY <1>1, <1>4, <1>10, <1>11
<1>13. IndInv
  BY <1>2, <1>10, IdleType, LogInd DEF GCIdle
<1>14. Locals
  BY <1>2, <1>8, IdleLocals DEF Locals
<1>15. \A p \in Writers \cup Readers : proc[p].pc = "idle" /\ proc[p].n = 0
  BY <1>2, IdleLocals
<1>16. Calm(store) /\ Numbers(store) /\ Reads(store)
  BY <1>2, <1>13, <1>15 DEF Calm, Numbers, Reads, At
<1> QED
  BY <1>1, <1>4, <1>8, <1>12, <1>14, <1>16 DEF Base

(* What the processes see: the write in progress counts from the moment    *)
(* the table entry is set.                                                 *)
View ==
    \A s \in Store :
        Locals /\ Base(s) =>
            /\ Calm(s) => Visible = Content(s)
            /\ \A p \in Writers : Busy(s, p) =>
                 Visible = IF Entered(proc[p])
                           THEN [Content(s) EXCEPT ![proc[p].n] = proc[p].d]
                           ELSE Content(s)

LEMMA Seen == View
<1> SUFFICES ASSUME NEW s \in Store, Locals, Base(s)
             PROVE  /\ Calm(s) => Visible = Content(s)
                    /\ \A p \in Writers : Busy(s, p) =>
                         Visible = IF Entered(proc[p])
                                   THEN [Content(s) EXCEPT ![proc[p].n] = proc[p].d]
                                   ELSE Content(s)
  BY DEF View
<1> DEFINE W(m) == {q \in Writers : At(q, "device") /\ proc[q].n = m}
<1>0. \A x \in Store : Content(x) = [m \in Lbn |-> Content(x)[m]]
  BY DEF Content
<1>1. store \in Store
  BY DEF Locals
<1>2. ASSUME \A q \in Writers : ~At(q, "device")
      PROVE  Visible = Content(store)
  <2>1. \A m \in Lbn : W(m) = {}
    BY <1>2
  <2> QED
    BY <1>0, <1>1, <2>1 DEF Visible
<1>3. ASSUME Calm(s) PROVE Visible = Content(s)
  BY <1>2, <1>3 DEF Calm, At
<1>4. ASSUME NEW p \in Writers, Busy(s, p)
      PROVE  Visible = IF Entered(proc[p])
                       THEN [Content(s) EXCEPT ![proc[p].n] = proc[p].d]
                       ELSE Content(s)
  <2> DEFINE n == proc[p].n
             d == proc[p].d
  <2>1. Numbers(s)
    BY DEF Base
  <2>2. /\ LogOK(s) /\ HasRoom(s) /\ InCall(s, store, proc[p]) /\ d \in Data
        /\ Entered(proc[p]) => n \in Lbn
    BY <1>4, <2>1, CallFacts DEF NumberOf, Entered
  <2>3. \A q \in Writers : At(q, "device") => q = p
    BY <1>4 DEF Busy, At
  <2>4. CASE ~Entered(proc[p])
    <3>1. Content(store) = Content(s)
      BY <1>1, <2>2, <2>4, CallContent
    <3>2. \A q \in Writers : ~At(q, "device")
      BY <2>3, <2>4 DEF At, Entered
    <3> QED
      BY <1>2, <2>4, <3>1, <3>2
  <2>5. CASE proc[p].pc = "advance"
    <3>1. Entered(proc[p])
      BY <2>5 DEF Entered
    <3>2. /\ \A m \in Lbn : m # n => Content(store)[m] = Content(s)[m]
          /\ Content(store)[n] = d
      BY <1>1, <2>2, <2>5, <3>1, CallContent
    <3>3. \A q \in Writers : ~At(q, "device")
      BY <2>3, <2>5 DEF At
    <3>4. Visible = Content(store)
      BY <1>2, <3>3
    <3> HIDE DEF n, d
    <3>5. Content(store) = [Content(s) EXCEPT ![n] = d]
      BY <1>0, <1>1, <3>2
    <3> QED
      BY <3>1, <3>4, <3>5 DEF n, d
  <2>6. CASE proc[p].pc = "device"
    <3>1. Entered(proc[p]) /\ n \in Lbn
      BY <2>2, <2>6 DEF Entered
    <3>2. \A m \in Lbn : m # n => Content(store)[m] = Content(s)[m]
      BY <1>1, <2>2, <3>1, CallContent
    <3>3. \A m \in Lbn : W(m) = IF m = n THEN {p} ELSE {}
      BY <2>3, <2>6 DEF At
    <3>4. Visible = [m \in Lbn |-> IF W(m) = {} THEN Content(store)[m]
                                   ELSE proc[CHOOSE q \in W(m) : TRUE].d]
      BY DEF Visible
    <3> HIDE DEF W
    <3>5. \A m \in Lbn : Visible[m] = IF m = n THEN d ELSE Content(s)[m]
      <4>1. (CHOOSE q \in {p} : TRUE) = p
        OBVIOUS
      <4>2. W(n) # {} => Visible[n] = proc[CHOOSE q \in W(n) : TRUE].d
        BY <3>1, <3>4
      <4>3. Visible[n] = d
        BY <3>1, <3>3, <4>1, <4>2
      <4>4. \A m \in Lbn : m # n => Visible[m] = Content(s)[m]
        BY <3>2, <3>3, <3>4
      <4> QED
        BY <4>3, <4>4
    <3>6. Visible = [m \in Lbn |-> Visible[m]]
      BY <3>4
    <3> HIDE DEF n, d
    <3>7. Visible = [Content(s) EXCEPT ![n] = d]
      BY <1>0, <3>5, <3>6
    <3> QED
      BY <3>1, <3>7 DEF n, d
  <2> QED
    BY <2>4, <2>5, <2>6 DEF Entered
<1> QED
  BY <1>3, <1>4

LEMMA SeenNext == View'
BY Seen, PTL

(* The store the next step leads to, and what it makes visible. *)
LEMMA ConcStep ==
    ASSUME Locals, NEW s \in Store, Base(s), SafeConcNext
    PROVE  /\ Locals'
           /\ \E u \in Store :
                 /\ Base(u)'
                 /\ \/ Visible' = Visible
                    \/ \E n \in Lbn, d \in Data : Visible' = [Visible EXCEPT ![n] = d]
<1>0. kept = Content(s) /\ Numbers(s) /\ Reads(s)
  BY DEF Base
<1>1. /\ Calm(s) => Visible = Content(s)
      /\ \A p \in Writers : Busy(s, p) =>
           Visible = IF Entered(proc[p])
                     THEN [Content(s) EXCEPT ![proc[p].n] = proc[p].d] ELSE Content(s)
  BY Seen DEF View
<1> DEFINE after(u) ==
             /\ Calm(u)' => Visible' = Content(u)
             /\ \A p \in Writers : Busy(u, p)' =>
                  Visible' = IF Entered(proc'[p])
                             THEN [Content(u) EXCEPT ![proc'[p].n] = proc'[p].d]
                             ELSE Content(u)
<1>2. \A u \in Store : Locals' /\ Base(u)' => after(u)
  BY SeenNext DEF View
<1>3. ASSUME NEW p \in Writers, gc.pc = "idle", \A q \in Writers : ~Writing(q),
             HasRoom(store),
             NEW n \in mine[p] \cup {NEW_DATABLOCK}, NEW d \in Data, BeginWrite(p, n, d)
      PROVE  Locals' /\ Base(s)' /\ Visible' = Visible
  <2>1. Calm(s)
    BY <1>3 DEF Base, Busy, Writing
  <2>2. Locals' /\ Base(s)' /\ Busy(s, p)'
    BY <1>0, <1>3, <2>1, BeginWriteInv
  <2>3. ~Entered(proc'[p])
    BY <1>3 DEF BeginWrite, Locals, Entered, Idle
  <2>4. Visible = Content(s) /\ Visible' = Content(s)
    BY <1>1, <1>2, <2>1, <2>2, <2>3
  <2> QED
    BY <2>2, <2>4
<1>4. ASSUME NEW p \in Writers, WriteStep(p)
      PROVE  /\ Locals'
             /\ \E u \in Store :
                 /\ Base(u)'
                 /\ \/ Visible' = Visible
                    \/ \E n \in Lbn, d \in Data : Visible' = [Visible EXCEPT ![n] = d]
  <2>1. Busy(s, p)
    BY <1>4 DEF WriteStep, SetValid, FindNumber, MarkNumber, ClearOld, SetTable, DeviceWrite, Advance,
                Base, Calm, Busy, At
  <2>2. /\ Visible = IF Entered(proc[p]) THEN [Content(s) EXCEPT ![proc[p].n] = proc[p].d]
                     ELSE Content(s)
        /\ proc[p].d \in Data /\ NumberOf(s, proc[p], mine[p]) /\ mine[p] \subseteq Lbn
        /\ proc[p] \in Proc
    BY <1>0, <2>1, <1>1, CallFacts
  <2>3. CASE SetValid(p) \/ FindNumber(p) \/ MarkNumber(p) \/ ClearOld(p)
    <3>1. Locals' /\ Base(s)' /\ Busy(s, p)'
      BY <1>0, <2>1, <2>3, SetValidInv, FindNumberInv, MarkNumberInv, ClearOldInv
    <3>2. ~Entered(proc[p]) /\ ~Entered(proc'[p])
      BY <2>2, <2>3 DEF SetValid, FindNumber, MarkNumber, ClearOld, At, Entered, Locals, Proc
    <3>3. Visible' = Content(s)
      BY <1>1, <1>2, <3>1, <3>2
    <3> QED
      BY <2>2, <3>1, <3>2, <3>3
  <2>4. CASE SetTable(p)
    <3>1. Locals' /\ Base(s)' /\ Busy(s, p)'
      BY <1>0, <2>1, <2>4, SetTableInv
    <3>2. /\ ~Entered(proc[p]) /\ Entered(proc'[p])
          /\ proc'[p].n = proc[p].n /\ proc'[p].d = proc[p].d
      BY <2>2, <2>4 DEF SetTable, At, Entered, Locals, Proc
    <3>3. proc[p].n \in Lbn
      BY <2>2, <2>4 DEF NumberOf, SetTable, At
    <3>4. Visible' = [Content(s) EXCEPT ![proc[p].n] = proc[p].d]
      BY <1>1, <1>2, <3>1, <3>2
    <3> QED
      BY <2>2, <3>1, <3>2, <3>3, <3>4
  <2>5. CASE DeviceWrite(p)
    <3>1. Locals' /\ Base(s)' /\ Busy(s, p)'
      BY <1>0, <2>1, <2>5, DeviceWriteInv
    <3>2. /\ Entered(proc[p]) /\ Entered(proc'[p])
          /\ proc'[p].n = proc[p].n /\ proc'[p].d = proc[p].d
      BY <2>2, <2>5 DEF DeviceWrite, At, Entered, Locals, Proc
    <3>3. Visible' = [Content(s) EXCEPT ![proc[p].n] = proc[p].d]
      BY <1>1, <1>2, <3>1, <3>2
    <3> QED
      BY <2>2, <3>1, <3>2, <3>3
  <2>6. CASE Advance(p)
    <3>1. PICK u \in Store :
             /\ Base(u)' /\ Calm(u)' /\ proc[p].pc = "advance"
             /\ Content(u) = [Content(s) EXCEPT ![proc[p].n] = proc[p].d]
      BY <1>0, <2>1, <2>6, AdvanceInv
    <3>2. Locals'
      BY <1>0, <2>1, <2>6, AdvanceInv
    <3>3. Visible' = Content(u)
      BY <1>1, <1>2, <3>1, <3>2
    <3>4. Visible = Content(u)
      BY <2>2, <3>1 DEF Entered
    <3> QED
      BY <3>1, <3>2, <3>3, <3>4
  <2> QED
    BY <1>4, <2>3, <2>4, <2>5, <2>6 DEF WriteStep
<1>5. ASSUME NEW r \in Readers,
             \/ gc.pc = "idle" /\ \E n \in Lbn : BeginRead(r, n)
             \/ ReadStep(r)
      PROVE  Locals' /\ Base(s)' /\ Visible' = Visible
  <2>1. /\ Locals' /\ Base(s)'
        /\ Calm(s) => Calm(s)'
        /\ \A p \in Writers : Busy(s, p) => Busy(s, p)'
    BY <1>5, BeginReadInv, ReadStepInv
  <2>2. \A p \in Writers : proc'[p] = proc[p]
    BY <1>5, ConcurrentAssumption
       DEF BeginRead, ReadStep, ReadBlock, ReadReturn, Locals
  <2>3. CASE Calm(s)
    BY <1>1, <1>2, <2>1, <2>3
  <2>4. CASE \E p \in Writers : Busy(s, p)
    BY <1>1, <1>2, <2>1, <2>2, <2>4
  <2> QED
    BY <2>1, <2>3, <2>4 DEF Base
<1>6. ASSUME \A p \in DOMAIN proc : At(p, "idle"),
             gc.pc # "idle" \/ NoSolidZone(store), Collect
      PROVE  Locals' /\ \E u \in Store : Base(u)' /\ Visible' = Visible
  <2>1. Locals'
    BY <1>6, CollectInvStep
  <2>2. PICK u \in Store : Base(u)' /\ Calm(u)' /\ Content(u) = Content(s)
    BY <1>6, CollectInvStep
  <2>3. Calm(s)
    BY <1>6 DEF Base, Busy, Locals
  <2>4. Visible = Content(s) /\ Visible' = Content(u)
    BY <1>1, <1>2, <2>1, <2>2, <2>3
  <2> QED
    BY <2>1, <2>2, <2>4
<1> QED
  BY <1>3, <1>4, <1>5, <1>6 DEF SafeConcNext

LEMMA ConcStutter ==
    ASSUME Locals, NEW s \in Store, Base(s), UNCHANGED concvars
    PROVE  Locals' /\ Base(s)' /\ Visible' = Visible
<1> USE DEF concvars
<1>1. Locals' /\ Numbers(s)' /\ Reads(s)'
  BY DEF Locals, Base, Numbers, Reads, ReadOK, At
<1>2. Calm(s) => Calm(s)'
  <2>1. IndInv => IndInv'
    BY DEF IndInv, TypeOK, NoFault, IdleInv, CollectInv, ScanInv, ResetInv,
           SwapCount, OutInv, DrainInv, ClearInv
  <2> QED
    BY <2>1 DEF Calm, At
<1>3. \A p \in Writers : Busy(s, p) => Busy(s, p)'
  BY DEF Busy, At
<1>4. Visible' = Visible
  BY DEF Visible, Content, Mapped, Written, BlockAt, At
<1> QED
  BY <1>1, <1>2, <1>3, <1>4 DEF Base

--------------------------------------------------------------------------------
(* The numbers, with any number of writes at once *)

(* The bit of n in logical_entry_bitmap. *)
Taken(s, n) == n - starting_logical_number \in s.logical_entry_bitmap

(* A writer between the search for a number and the end of the write. *)
Given(w) == w.pc \in {"mark", "table", "device", "advance"}

(* The numbers a writer has been given, the one of its call included. *)
Held(p) == mine[p] \cup (IF Given(proc[p]) THEN {proc[p].n} ELSE {})

Shapes ==
    /\ DOMAIN proc = Writers \cup Readers
    /\ \A p \in Writers \cup Readers : DOMAIN proc[p] = DOMAIN Idle
    /\ mine \in [Writers -> SUBSET Lbn]
    /\ "logical_entry_bitmap" \in DOMAIN store

OfWriter(p) ==
    /\ \A n \in mine[p] : Taken(store, n)
    /\ proc[p].pc \in {"begin", "number"} => proc[p].n \in mine[p] \cup {NEW_DATABLOCK}
    /\ Given(proc[p]) => proc[p].n \in Lbn /\ (Taken(store, proc[p].n) <=> ~At(p, "mark"))

(* What is held is taken, except a number whose bit is about to be set,    *)
(* and nothing is held twice.                                              *)
AllocInv ==
    /\ Shapes
    /\ \A p \in Writers : OfWriter(p)
    /\ \A p, q \in Writers : p # q => Held(p) \cap Held(q) = {}

(* A search finds a number whose bit is 0. *)
LEMMA NumberFound ==
    ASSUME NEW s, FreeEntries(s) # {}
    PROVE  hodo_get_next_logical_number(s) \in Lbn /\ ~Taken(s, hodo_get_next_logical_number(s))
<1> DEFINE F == FreeEntries(s)
<1>1. F \subseteq Entry /\ Entry \subseteq Nat /\ F # {}
  BY Geometry DEF FreeEntries, Entry
<1>2. PICK i \in F : \A j \in F : i <= j
  <2> HIDE DEF F
  <2> QED
    BY <1>1, LeastNat
<1> DEFINE k == CHOOSE j \in F : \A m \in F : j <= m
<1>3. k \in F
  BY <1>2
<1> HIDE DEF k
<1>4. k \in Entry /\ k \notin s.logical_entry_bitmap
  BY <1>3 DEF FreeEntries
<1>5. hodo_get_next_logical_number(s) = starting_logical_number + k
  BY <1>1 DEF hodo_get_next_logical_number, k
<1>6. starting_logical_number \in Nat /\ k \in Nat /\ NEntries \in Nat
  BY <1>4, Geometry DEF starting_logical_number, Entry
<1> QED
  BY <1>4, <1>5, <1>6 DEF Lbn, Entry, Taken

(* A step of the collector sets bits and clears none. *)
LEMMA GCKeepsBits ==
    ASSUME "logical_entry_bitmap" \in DOMAIN store, GCBegin \/ GCStep
    PROVE  /\ "logical_entry_bitmap" \in DOMAIN store'
           /\ store.logical_entry_bitmap \subseteq store'.logical_entry_bitmap
<1> DEFINE Keeps(s, t) == /\ "logical_entry_bitmap" \in DOMAIN t
                          /\ s.logical_entry_bitmap \subseteq t.logical_entry_bitmap
<1> SUFFICES Keeps(store, store')
  OBVIOUS
<1>1. ASSUME NEW s, "logical_entry_bitmap" \in DOMAIN s, NEW b, NEW n, NEW old
      PROVE  Keeps(s, WriteAt(s, b, n, old)) /\ Keeps(s, hodo_GC_write_struct(s, b, n))
             /\ Keeps(s, hodo_set_logical_bitmap(s, n))
  BY <1>1 DEF WriteAt, hodo_GC_write_struct, hodo_set_logical_bitmap, Faulted
<1>2. ASSUME NEW b, NEW n PROVE Keeps(store, hodo_write_struct(store, b, n))
  <2>1. Keeps(store, hodo_write_new(store, b))
    BY <1>1 DEF hodo_write_new
  <2>2. Keeps(store, Faulted(store))
    BY DEF Faulted
  <2> QED
    BY <1>1, <2>1, <2>2 DEF hodo_write_struct
<1>3. ASSUME NEW z PROVE Keeps(store, zonefs_reset(store, z))
  BY DEF zonefs_reset
<1>4. CASE GCBegin
  BY <1>4 DEF GCBegin, GCRewound
<1>5. CASE GCSwapIn
  BY <1>1, <1>5 DEF GCSwapIn
<1>6. CASE GCSwapOut
  BY <1>2, <1>6 DEF GCSwapOut
<1>7. CASE GCResetSwap
  <2>1. Keeps(store, [zonefs_reset(store, SwapZone) EXCEPT !.swap_wp.block_index = 0])
    BY <1>3
  <2> QED
    BY <1>3, <1>7, <2>1 DEF GCResetSwap
<1>8. CASE GCResetFront \/ GCClear
  BY <1>3, <1>8 DEF GCResetFront, GCClear
<1>9. CASE GCScanDone \/ GCSwapOutDone \/ GCReturn
  BY <1>9 DEF GCScanDone, GCSwapOutDone, GCReturn
<1> QED
  BY <1>4, <1>5, <1>6, <1>7, <1>8, <1>9 DEF GCStep

(* The locals of one process change, and bits are only set: enough is what *)
(* becomes of that process.                                                *)
LEMMA AllocMoves ==
    ASSUME AllocInv, NEW p \in Writers \cup Readers, NEW w, DOMAIN w = DOMAIN Idle,
           proc' = [proc EXCEPT ![p] = w], mine' \in [Writers -> SUBSET Lbn],
           "logical_entry_bitmap" \in DOMAIN store',
           store.logical_entry_bitmap \subseteq store'.logical_entry_bitmap,
           \A q \in Writers : q # p => /\ mine'[q] = mine[q]
                                       /\ At(q, "mark") => ~Taken(store', proc[q].n),
           p \in Writers => OfWriter(p)',
           p \in Writers => \A q \in Writers : q # p => Held(p)' \cap Held(q) = {}
    PROVE  AllocInv'
<1>1. Shapes'
  BY DEF AllocInv, Shapes
<1>2. proc'[p] = w /\ \A q \in Writers \cup Readers : q # p => proc'[q] = proc[q]
  BY DEF AllocInv, Shapes
<1>3. ASSUME NEW q \in Writers, q # p PROVE OfWriter(q)' /\ Held(q)' = Held(q)
  BY <1>2, <1>3 DEF AllocInv, OfWriter, Held, Taken, At
<1>4. \A q \in Writers : OfWriter(q)'
  BY <1>3
<1>5. ASSUME NEW o \in Writers, NEW q \in Writers, o # q
      PROVE  Held(o)' \cap Held(q)' = {}
  BY <1>3, <1>5 DEF AllocInv
<1> QED
  BY <1>1, <1>4, <1>5 DEF AllocInv

(* The facts about the locals of a writer. *)
LEMMA AllocFacts ==
    ASSUME AllocInv, NEW p \in Writers
    PROVE  /\ DOMAIN proc[p] = DOMAIN Idle /\ OfWriter(p)
           /\ mine[p] \subseteq Lbn /\ mine \in [Writers -> SUBSET Lbn]
           /\ "logical_entry_bitmap" \in DOMAIN store
           /\ \A q \in Writers : q # p => Held(p) \cap Held(q) = {}
BY DEF AllocInv, Shapes

(* A step of a writer that stays in its call with the number it has, and   *)
(* does not touch the bits.                                                *)
LEMMA AllocKeeps ==
    ASSUME AllocInv, NEW p \in Writers,
           NEW c \in {"number", "table", "device", "advance"}, NEW x,
           proc' = [proc EXCEPT ![p] = [@ EXCEPT !.pc = c, !.d = x]], mine' = mine,
           "logical_entry_bitmap" \in DOMAIN store',
           store'.logical_entry_bitmap = store.logical_entry_bitmap,
           \/ proc[p].pc = "begin" /\ c = "number"
           \/ proc[p].pc = "number" /\ proc[p].n # NEW_DATABLOCK /\ c = "table"
           \/ proc[p].pc \in {"table", "device"} /\ c \in {"device", "advance"}
    PROVE  AllocInv'
<1> DEFINE w == [proc[p] EXCEPT !.pc = c, !.d = x]
<1>1. /\ DOMAIN proc[p] = DOMAIN Idle /\ OfWriter(p) /\ mine[p] \subseteq Lbn
      /\ mine \in [Writers -> SUBSET Lbn]
      /\ \A q \in Writers : q # p => Held(p) \cap Held(q) = {}
  BY AllocFacts
<1>2. DOMAIN w = DOMAIN Idle /\ w.pc = c /\ w.n = proc[p].n
  BY <1>1 DEF Idle
<1> HIDE DEF w
<1>3. proc' = [proc EXCEPT ![p] = w]
  BY DEF w
<1>4. proc'[p] = w
  BY <1>3 DEF AllocInv, Shapes
<1>5. OfWriter(p)'
  BY <1>1, <1>2, <1>4 DEF OfWriter, Given, Taken, At, NEW_DATABLOCK
<1>6. Held(p)' \subseteq Held(p)
  BY <1>1, <1>2, <1>4 DEF OfWriter, Held, Given, NEW_DATABLOCK
<1>7. \A q \in Writers : q # p => Held(p)' \cap Held(q) = {}
  BY <1>1, <1>6
<1>8. \A q \in Writers : q # p => /\ mine'[q] = mine[q]
                                  /\ At(q, "mark") => ~Taken(store', proc[q].n)
  BY DEF AllocInv, OfWriter, Given, Taken, At
<1> QED
  BY <1>1, <1>2, <1>3, <1>5, <1>7, <1>8, AllocMoves

LEMMA AllocBegin ==
    ASSUME AllocInv, NEW p \in Writers, NEW n \in mine[p] \cup {NEW_DATABLOCK}, NEW d,
           BeginWrite(p, n, d)
    PROVE  AllocInv'
<1> DEFINE still(q) == n = NEW_DATABLOCK \/ proc[q].n # n
<1>1. /\ DOMAIN proc[p] = DOMAIN Idle /\ OfWriter(p)
      /\ \A q \in Writers : q # p => Held(p) \cap Held(q) = {}
  BY AllocFacts
<1>2. UNCHANGED <<store, mine>> /\ proc[p].pc = "idle"
  BY DEF BeginWrite, At
<1>3. /\ DOMAIN proc' = Writers \cup Readers /\ DOMAIN proc'[p] = DOMAIN Idle
      /\ proc'[p].pc = "begin" /\ proc'[p].n = n
  BY DEF BeginWrite, AllocInv, Shapes, Idle
<1>4. ASSUME NEW q \in Writers \cup Readers, q # p
      PROVE  /\ DOMAIN proc'[q] = DOMAIN Idle
             /\ proc'[q].pc = proc[q].pc /\ proc'[q].n = proc[q].n
  <2>1. DOMAIN proc[q] = DOMAIN Idle
    BY DEF AllocInv, Shapes
  <2>2. proc'[q] = [proc[q] EXCEPT !.quiet = @ /\ still(q)]
    BY <1>4 DEF BeginWrite, AllocInv, Shapes
  <2> HIDE DEF still
  <2> DEFINE f == proc[q].quiet /\ still(q)
  <2>3. proc'[q] = [proc[q] EXCEPT !.quiet = f]
    BY <2>2
  <2> HIDE DEF f
  <2> QED
    BY <2>1, <2>3 DEF Idle
<1>5. Shapes'
  BY <1>2, <1>3, <1>4 DEF AllocInv, Shapes
<1>6. \A q \in Writers : OfWriter(q)' /\ Held(q)' = Held(q)
  BY <1>1, <1>2, <1>3, <1>4 DEF AllocInv, OfWriter, Held, Given, Taken, At
<1> QED
  BY <1>5, <1>6 DEF AllocInv

LEMMA AllocFind ==
    ASSUME AllocInv, NEW p \in Writers, FindNumber(p),
           FreeEntries(store) # {}, \A q \in Writers : ~At(q, "mark")
    PROVE  AllocInv'
<1> DEFINE n == hodo_get_next_logical_number(store)
           w == [proc[p] EXCEPT !.n = n, !.pc = "mark"]
<1>1. /\ DOMAIN proc[p] = DOMAIN Idle /\ OfWriter(p) /\ mine \in [Writers -> SUBSET Lbn]
      /\ "logical_entry_bitmap" \in DOMAIN store
  BY AllocFacts
<1>2. proc' = [proc EXCEPT ![p] = w] /\ store' = store /\ mine' = mine
  BY DEF FindNumber
<1>3. n \in Lbn /\ ~Taken(store, n)
  BY NumberFound
<1> HIDE DEF n
<1>4. DOMAIN w = DOMAIN Idle /\ w.pc = "mark" /\ w.n = n
  BY <1>1 DEF Idle
<1> HIDE DEF w
<1>5. proc'[p] = w
  BY <1>2 DEF AllocInv, Shapes
<1>6. OfWriter(p)'
  BY <1>1, <1>2, <1>3, <1>4, <1>5 DEF OfWriter, Given, At
<1>7. \A q \in Writers : n \notin Held(q)
  BY <1>3 DEF AllocInv, OfWriter, Held
<1>8. Held(p)' = mine[p] \cup {n}
  BY <1>2, <1>4, <1>5 DEF Held, Given
<1>9. \A q \in Writers : q # p => Held(p)' \cap Held(q) = {}
  BY <1>7, <1>8, AllocFacts DEF Held
<1> QED
  BY <1>1, <1>2, <1>4, <1>6, <1>9, AllocMoves

LEMMA AllocMark ==
    ASSUME AllocInv, NEW p \in Writers, MarkNumber(p)
    PROVE  AllocInv'
<1> DEFINE n == proc[p].n
           w == [proc[p] EXCEPT !.pc = "table"]
<1>1. /\ DOMAIN proc[p] = DOMAIN Idle /\ OfWriter(p) /\ mine \in [Writers -> SUBSET Lbn]
      /\ "logical_entry_bitmap" \in DOMAIN store
      /\ \A q \in Writers : q # p => Held(p) \cap Held(q) = {}
  BY AllocFacts
<1>2. /\ proc[p].pc = "mark" /\ proc' = [proc EXCEPT ![p] = w] /\ mine' = mine
      /\ store' = hodo_set_logical_bitmap(store, n)
  BY DEF MarkNumber, At
<1>3. n \in Lbn /\ n \in Held(p)
  BY <1>1, <1>2 DEF OfWriter, Given, Held
<1>4. DOMAIN w = DOMAIN Idle /\ w.pc = "table" /\ w.n = n
  BY <1>1 DEF Idle
<1> HIDE DEF n, w
<1>5. /\ "logical_entry_bitmap" \in DOMAIN store'
      /\ store'.logical_entry_bitmap
            = store.logical_entry_bitmap \cup {n - starting_logical_number}
  BY <1>1, <1>2, <1>3, Geometry DEF hodo_set_logical_bitmap
<1>6. proc'[p] = w
  BY <1>2 DEF AllocInv, Shapes
<1>7. OfWriter(p)'
  BY <1>1, <1>2, <1>3, <1>4, <1>5, <1>6 DEF OfWriter, Given, Taken, At
<1>8. Held(p)' = Held(p)
  BY <1>2, <1>4, <1>6 DEF Held, Given, n
<1>9. ASSUME NEW q \in Writers, q # p, At(q, "mark") PROVE ~Taken(store', proc[q].n)
  <2>1. proc[q].n \in Lbn /\ ~Taken(store, proc[q].n) /\ proc[q].n \in Held(q)
    BY <1>9 DEF AllocInv, OfWriter, Given, Held, At
  <2>2. proc[q].n # n
    BY <1>1, <1>3, <1>9, <2>1
  <2>3. proc[q].n - starting_logical_number # n - starting_logical_number
    <3>1. Lbn \subseteq Nat /\ starting_logical_number \in Nat
      BY Geometry DEF starting_logical_number
    <3>2. proc[q].n \in Nat /\ n \in Nat
      BY <1>3, <2>1, <3>1
    <3> QED
      BY <2>2, <3>1, <3>2
  <2> QED
    BY <1>5, <2>1, <2>3 DEF Taken
<1> QED
  BY <1>1, <1>2, <1>4, <1>5, <1>7, <1>8, <1>9, AllocMoves

LEMMA AllocAdvance ==
    ASSUME AllocInv, NEW p \in Writers, Advance(p)
    PROVE  AllocInv'
<1> DEFINE n == proc[p].n
<1>1. /\ DOMAIN proc[p] = DOMAIN Idle /\ OfWriter(p) /\ mine \in [Writers -> SUBSET Lbn]
      /\ "logical_entry_bitmap" \in DOMAIN store
      /\ \A q \in Writers : q # p => Held(p) \cap Held(q) = {}
  BY AllocFacts
<1>2. /\ proc[p].pc = "advance" /\ proc' = [proc EXCEPT ![p] = Idle]
      /\ mine' = [mine EXCEPT ![p] = @ \cup {n}] /\ store' = [store EXCEPT !.wp = NextWp(p)]
  BY DEF Advance, At
<1>3. n \in Lbn /\ Taken(store, n)
  BY <1>1, <1>2 DEF OfWriter, Given, At
<1>4. /\ mine' \in [Writers -> SUBSET Lbn] /\ mine'[p] = mine[p] \cup {n}
      /\ \A q \in Writers : q # p => mine'[q] = mine[q]
  BY <1>1, <1>2, <1>3
<1>5. /\ "logical_entry_bitmap" \in DOMAIN store'
      /\ store'.logical_entry_bitmap = store.logical_entry_bitmap
  BY <1>1, <1>2
<1>6. proc'[p] = Idle /\ Idle.pc = "idle"
  BY <1>2 DEF AllocInv, Shapes, Idle
<1>7. OfWriter(p)'
  BY <1>1, <1>3, <1>4, <1>5, <1>6 DEF OfWriter, Given, Taken
<1>8. Held(p)' = Held(p)
  BY <1>2, <1>4, <1>6 DEF Held, Given
<1>9. \A q \in Writers : q # p => /\ mine'[q] = mine[q]
                                  /\ At(q, "mark") => ~Taken(store', proc[q].n)
  BY <1>4, <1>5 DEF AllocInv, OfWriter, Given, Taken, At
<1>10. \A q \in Writers : q # p => Held(p)' \cap Held(q) = {}
  BY <1>1, <1>8
<1>11. PICK w : w = Idle
  OBVIOUS
<1>12. proc' = [proc EXCEPT ![p] = w] /\ DOMAIN w = DOMAIN Idle
  BY <1>2, <1>11
<1>13. store.logical_entry_bitmap \subseteq store'.logical_entry_bitmap
  BY <1>5
<1> QED
  BY <1>4, <1>5, <1>7, <1>9, <1>10, <1>12, <1>13, AllocMoves

LEMMA AllocRead ==
    ASSUME AllocInv, NEW r \in Readers, (\E n \in Lbn : BeginRead(r, n)) \/ ReadStep(r)
    PROVE  AllocInv'
<1>1. store' = store /\ mine' = mine
  BY DEF BeginRead, ReadStep, ReadBlock, ReadReturn
<1>2. DOMAIN proc[r] = DOMAIN Idle
  BY DEF AllocInv, Shapes
<1>3. PICK w : proc' = [proc EXCEPT ![r] = w] /\ DOMAIN w = DOMAIN Idle
  <2>1. CASE \E n \in Lbn : BeginRead(r, n)
    <3>1. PICK n \in Lbn : BeginRead(r, n)
      BY <2>1
    <3> DEFINE f == \A p \in Writers : proc[p].n # n
    <3>2. proc' = [proc EXCEPT ![r] = [Idle EXCEPT !.pc = "read", !.n = n,
                                              !.at = store.mapping_table[n], !.quiet = f]]
      BY <3>1 DEF BeginRead
    <3> DEFINE w == [Idle EXCEPT !.pc = "read", !.n = n,
                                 !.at = store.mapping_table[n], !.quiet = f]
    <3> HIDE DEF f
    <3>3. DOMAIN w = DOMAIN Idle
      BY DEF Idle
    <3> QED
      BY <3>2, <3>3
  <2>2. CASE ReadStep(r)
    BY <1>2, <2>2 DEF ReadStep, ReadBlock, ReadReturn
  <2> QED
    BY <2>1, <2>2
<1>4. r \notin Writers
  BY ConcurrentAssumption
<1>5. \A q \in Writers : At(q, "mark") => ~Taken(store', proc[q].n)
  BY <1>1 DEF AllocInv, OfWriter, Given, At
<1> QED
  BY <1>1, <1>3, <1>4, <1>5, AllocMoves DEF AllocInv, Shapes

LEMMA AllocCollect ==
    ASSUME AllocInv, Collect, \A q \in Writers : ~At(q, "mark")
    PROVE  AllocInv'
<1>1. UNCHANGED <<proc, mine>> /\ (GCBegin \/ GCStep)
  BY DEF Collect
<1>2. /\ "logical_entry_bitmap" \in DOMAIN store'
      /\ store.logical_entry_bitmap \subseteq store'.logical_entry_bitmap
  BY <1>1, GCKeepsBits DEF AllocInv, Shapes
<1> QED
  BY <1>1, <1>2 DEF AllocInv, Shapes, OfWriter, Held, Taken, At

LEMMA AllocStep ==
    ASSUME AllocInv, AllocNext
    PROVE  AllocInv'
<1>1. Searches => FreeEntries(store) # {} /\ \A q \in Writers : ~At(q, "mark")
  BY DEF AllocNext
<1>2. ASSUME NEW p \in Writers, WriteStep(p) \/ DeviceFails(p) PROVE AllocInv'
  <2>1. /\ DOMAIN proc = Writers \cup Readers /\ DOMAIN proc[p] = DOMAIN Idle
        /\ "logical_entry_bitmap" \in DOMAIN store
    BY DEF AllocInv, Shapes
  <2>2. CASE FindNumber(p)
    BY <1>1, <2>2, AllocFind DEF Searches
  <2>3. CASE MarkNumber(p)
    BY <2>3, AllocMark
  <2>4. CASE Advance(p)
    BY <2>4, AllocAdvance
  <2>5. ASSUME NEW c, NEW x, proc' = [proc EXCEPT ![p] = [@ EXCEPT !.pc = c]]
        PROVE  proc' = [proc EXCEPT ![p] = [@ EXCEPT !.pc = c, !.d = proc[p].d]]
    <3>1. [proc[p] EXCEPT !.pc = c] = [proc[p] EXCEPT !.pc = c, !.d = proc[p].d]
      BY <2>1 DEF Idle
    <3> QED
      BY <2>5, <3>1
  <2>6. CASE SetValid(p)
    <3>1. proc' = [proc EXCEPT ![p] = [@ EXCEPT !.pc = "number", !.d = proc[p].d]]
      BY <2>5, <2>6 DEF SetValid
    <3> QED
      BY <2>1, <2>6, <3>1, AllocKeeps DEF SetValid, At
  <2>7. CASE ClearOld(p)
    <3>1. proc' = [proc EXCEPT ![p] = [@ EXCEPT !.pc = "table", !.d = proc[p].d]]
      BY <2>5, <2>7 DEF ClearOld
    <3> QED
      BY <2>1, <2>7, <3>1, AllocKeeps DEF ClearOld, At
  <2>8. CASE SetTable(p)
    <3>1. proc' = [proc EXCEPT ![p] = [@ EXCEPT !.pc = "device", !.d = proc[p].d]]
      BY <2>5, <2>8 DEF SetTable
    <3> QED
      BY <2>1, <2>8, <3>1, AllocKeeps DEF SetTable, At
  <2>9. CASE DeviceWrite(p)
    <3>1. proc' = [proc EXCEPT ![p] = [@ EXCEPT !.pc = "advance", !.d = proc[p].d]]
      BY <2>5, <2>9 DEF DeviceWrite
    <3> QED
      BY <2>1, <2>9, <3>1, AllocKeeps DEF DeviceWrite, At
  <2>10. CASE DeviceFails(p)
    <3>1. /\ proc' = [proc EXCEPT ![p] = [@ EXCEPT !.pc = "advance", !.d = Nil]]
          /\ mine' = mine /\ store' = store /\ proc[p].pc = "device"
      BY <2>10 DEF DeviceFails, At
    <3> QED
      BY <2>1, <3>1, AllocKeeps
  <2> QED
    BY <1>2, <2>2, <2>3, <2>4, <2>6, <2>7, <2>8, <2>9, <2>10 DEF WriteStep
<1>3. CASE Collect
  BY <1>1, <1>3, AllocCollect DEF Searches
<1> QED
  BY <1>2, <1>3, AllocBegin, AllocRead DEF AllocNext, ConcNext

--------------------------------------------------------------------------------
(* Theorems *)

(* With one hodo_write_struct at a time, room in the log, a device that    *)
(* works and no read across a collection, every state of the calls is one  *)
(* that a write in progress reaches from a log in order.                   *)
THEOREM ConcInductive == SafeConcSpec => []ConcInv
<1>1. ConcInit => ConcInv
  BY ConcInitInv DEF ConcInv
<1>2. ConcInv /\ [SafeConcNext]_concvars => ConcInv'
  BY ConcStep, ConcStutter DEF ConcInv
<1> QED
  BY <1>1, <1>2, PTL DEF SafeConcSpec

LEMMA ConcImplies == ConcInv => WritesLand /\ QuietReads /\ NumbersOwned
<1> SUFFICES ASSUME Locals, NEW s \in Store, Base(s)
             PROVE  WritesLand /\ QuietReads /\ NumbersOwned
  BY DEF ConcInv
<1>1. WritesLand
  BY Untouched DEF WritesLand, Base
<1>2. QuietReads
  BY DEF QuietReads, Base, Reads, ReadOK, At
<1>3. NumbersOwned
  BY DEF NumbersOwned, Base, Numbers
<1> QED
  BY <1>1, <1>2, <1>3

(* What hodo_write_struct has acknowledged and nobody is writing again is  *)
(* what a read finds, whatever other write is half done.                   *)
THEOREM WritesStayLanded == SafeConcSpec => []WritesLand
BY ConcInductive, ConcImplies, PTL

(* A read that no write of the same number overlaps returns that number's  *)
(* content, though writes of other numbers move wp and the table meanwhile.*)
THEOREM QuietReadsAreRight == SafeConcSpec => []QuietReads
BY ConcInductive, ConcImplies, PTL

(* hodo_get_next_logical_number gives no number to a second writer, with   *)
(* any number of writes, reads and collections half done at once, as long  *)
(* as nobody searches between another's search and the setting of the bit  *)
(* it found: the two steps are the only part of hodo_write_struct that has *)
(* to be taken together for that.                                          *)
THEOREM NumbersStayOwned == AllocSpec => []NumbersOwned
<1>1. ConcInit => AllocInv
  <2> SUFFICES ASSUME ConcInit PROVE AllocInv
    OBVIOUS
  <2>1. proc = [p \in Writers \cup Readers |-> Idle] /\ mine = [p \in Writers |-> {}]
    BY DEF ConcInit
  <2>2. "logical_entry_bitmap" \in DOMAIN store
    BY ConcInitInv DEF Locals, Store
  <2> QED
    BY <2>1, <2>2, IdleLocals DEF AllocInv, Shapes, OfWriter, Held, Given
<1>2. AllocInv /\ [AllocNext]_concvars => AllocInv'
  <2>1. ASSUME AllocInv, UNCHANGED concvars PROVE AllocInv'
    BY <2>1 DEF concvars, AllocInv, Shapes, OfWriter, Held, At
  <2> QED
    BY <2>1, AllocStep
<1>3. AllocInv => NumbersOwned
  BY DEF AllocInv, NumbersOwned, Held
<1> QED
  BY <1>1, <1>2, <1>3, PTL DEF AllocSpec

(* One write at a time, the two steps are never apart. *)
THEOREM NumbersOwnedInTurn == SafeConcSpec => []NumbersOwned
BY ConcInductive, ConcImplies, PTL

(* The steps of hodo_write_struct implement the block store: setting the   *)
(* table entry is the write, and no other step of a writer, a reader or    *)
(* the collector changes what a number reads as.                           *)
THEOREM StepsRefine == SafeConcSpec => StepsImplementBlockStore
<1>1. ConcInit => Atomic!Init
  <2> SUFFICES ASSUME ConcInit PROVE Atomic!Init
    OBVIOUS
  <2>1. Locals /\ \E s \in Store : Base(s) /\ Calm(s)
    BY ConcInitInv
  <2>2. Visible = kept
    BY <2>1, Seen DEF Base, View
  <2> QED
    BY <2>2, ConcInitInv DEF Atomic!Init
<1>2. ConcInv /\ [SafeConcNext]_concvars => [Atomic!Next]_Visible
  <2> SUFFICES ASSUME Locals, NEW s \in Store, Base(s), [SafeConcNext]_concvars
               PROVE  Atomic!Next \/ Visible' = Visible
    BY DEF ConcInv
  <2>1. CASE SafeConcNext
    BY <2>1, ConcStep DEF Atomic!Next, Atomic!Write
  <2>2. CASE UNCHANGED concvars
    BY <2>2, ConcStutter
  <2> QED
    BY <2>1, <2>2
<1> QED
  BY <1>1, <1>2, ConcInductive, PTL DEF SafeConcSpec, StepsImplementBlockStore, Atomic!Spec

================================================================================
