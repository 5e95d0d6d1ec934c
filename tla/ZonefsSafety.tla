------------------------------ MODULE ZonefsSafety -----------------------------
(***************************************************************************)
(* Proofs about a volume used with care (SafeSpec of Zonefs), for every    *)
(* number of zones and capacity. With synchronous writes, what zonefs      *)
(* keeps of a zone agrees with the device through every fault, recovery    *)
(* and restart. With asynchronous writes it does as long as nothing has    *)
(* failed, neither at the device nor in a submission, in whatever order    *)
(* the completions run.                                                    *)
(***************************************************************************)
EXTENDS ZonefsProofs

--------------------------------------------------------------------------------
(* What the operators do to the sizes and marks of a zone *)

(* The mark of the zone says what zonefs_account_active would. *)
Accounted(x) == "ACTIVE" \in x.flags <=> IsActive(x)

BadOf(x) == x.flags \cap BadFlags

LEMMA BadBadOf ==
    ASSUME NEW x
    PROVE  Bad(x) <=> BadOf(x) # {}
  BY DEF Bad, BadOf

LEMMA AccountFields ==
    ASSUME NEW s \in ViewState
    PROVE  LET t == zonefs_account_active(s)
           IN  /\ t.zone.i_size = s.zone.i_size /\ t.zone.z_wpoffset = s.zone.z_wpoffset
               /\ t.zone.i_wr_refcnt = s.zone.i_wr_refcnt
               /\ t.sb.rdonly = s.sb.rdonly /\ t.sb.used = s.sb.used
               /\ BadOf(t.zone) = BadOf(s.zone)
               /\ "OPEN" \in t.zone.flags <=> "OPEN" \in s.zone.flags
               /\ Accounted(t.zone)
  <1> DEFINE on == IsActive(s.zone)
             x == zonefs_account_active(s).zone
  <1>1. x.flags = IF on THEN s.zone.flags \cup {"ACTIVE"} ELSE s.zone.flags \ {"ACTIVE"}
    BY DEF zonefs_account_active, SetActive, ViewState, ZoneState
  <1>2. /\ x.i_size = s.zone.i_size /\ x.z_wpoffset = s.zone.z_wpoffset
        /\ x.i_wr_refcnt = s.zone.i_wr_refcnt
    BY DEF zonefs_account_active, SetActive, ViewState, ZoneState
  <1>3. /\ zonefs_account_active(s).sb.rdonly = s.sb.rdonly
        /\ zonefs_account_active(s).sb.used = s.sb.used
    BY DEF zonefs_account_active, SetActive, ViewState, SbState
  <1> HIDE DEF x
  <1>4. BadOf(x) = BadOf(s.zone) /\ ("OPEN" \in x.flags <=> "OPEN" \in s.zone.flags)
    BY <1>1 DEF BadOf, BadFlags
  <1>5. IsActive(x) <=> on
    BY <1>2, <1>4, BadBadOf DEF IsActive
  <1>6. Accounted(x)
    BY <1>1, <1>5 DEF Accounted
  <1> QED BY <1>2, <1>3, <1>4, <1>6 DEF x

LEMMA TruncatedFields ==
    ASSUME NEW s \in ViewState, NEW isize \in 0 .. Capacity
    PROVE  LET t == Truncated(s, isize)
           IN  /\ t.zone.i_size = isize /\ t.zone.z_wpoffset = isize
               /\ t.zone.i_wr_refcnt = s.zone.i_wr_refcnt
               /\ t.sb.rdonly = s.sb.rdonly
               /\ t.sb.used = Clamp(s.sb.used + isize - s.zone.i_size)
               /\ BadOf(t.zone) = BadOf(s.zone) /\ Accounted(t.zone)
  <1>1. PICK t \in ViewState : t = zonefs_update_stats(s, isize)
    BY StatsKeeps DEF Keeps
  <1>2. /\ t.zone = s.zone /\ t.sb.rdonly = s.sb.rdonly
        /\ t.sb.used = Clamp(s.sb.used + isize - s.zone.i_size)
    BY <1>1, StatsFields
  <1>3. PICK u \in ViewState :
           u = WithZone(t, [t.zone EXCEPT !.i_size = isize, !.z_wpoffset = isize])
    BY SizesKeep DEF Keeps
  <1>4. /\ u.zone.i_size = isize /\ u.zone.z_wpoffset = isize /\ u.zone.flags = t.zone.flags
        /\ u.zone.i_wr_refcnt = t.zone.i_wr_refcnt /\ u.sb = t.sb
    BY <1>3 DEF WithZone, ViewState, ZoneState
  <1>5. Truncated(s, isize) = zonefs_account_active(u)
    BY <1>1, <1>3 DEF Truncated
  <1>6. BadOf(u.zone) = BadOf(s.zone)
    BY <1>2, <1>4 DEF BadOf
  <1> QED BY <1>2, <1>4, <1>5, <1>6, AccountFields

LEMMA CompletedFields ==
    ASSUME NEW s \in ViewState, NEW end \in 0 .. Capacity
    PROVE  LET t == Completed(s, end)
           IN  /\ t.zone.i_size = (IF s.zone.i_size < end THEN end ELSE s.zone.i_size)
               /\ t.zone.z_wpoffset = s.zone.z_wpoffset
               /\ t.zone.i_wr_refcnt = s.zone.i_wr_refcnt
               /\ t.sb.rdonly = s.sb.rdonly
               /\ \/ t.sb.used = Clamp(s.sb.used + t.zone.i_size - s.zone.i_size)
                  \/ t.sb.used = s.sb.used /\ t.zone.i_size = s.zone.i_size
               /\ BadOf(t.zone) = BadOf(s.zone)
               /\ t.zone.flags = s.zone.flags
                  \/ (t.zone.flags = s.zone.flags \ {"ACTIVE", "OPEN"} /\ end >= Capacity)
  <1>1. PICK t \in ViewState : t = zonefs_update_stats(s, end)
    BY StatsKeeps DEF Keeps
  <1>2. /\ t.zone = s.zone /\ t.sb.rdonly = s.sb.rdonly
        /\ t.sb.used = Clamp(s.sb.used + end - s.zone.i_size)
    BY <1>1, StatsFields
  <1>3. PICK u : u = zonefs_i_size_write(t, end)
    OBVIOUS
  <1>4. /\ u.zone.flags = (IF end >= Capacity THEN t.zone.flags \ {"ACTIVE", "OPEN"}
                           ELSE t.zone.flags)
        /\ u.zone.i_size = end /\ u.zone.z_wpoffset = t.zone.z_wpoffset
        /\ u.sb.used = t.sb.used /\ u.sb.rdonly = t.sb.rdonly
    BY <1>3, SizeWriteFields
  <1>5. u.zone.i_wr_refcnt = t.zone.i_wr_refcnt
    BY <1>3, SizeWriteKeeps DEF Keeps
  <1>6. Completed(s, end) = IF s.zone.i_size < end THEN u ELSE s
    BY <1>1, <1>3 DEF Completed
  <1>7. BadOf(u.zone) = BadOf(s.zone)
    BY <1>2, <1>4 DEF BadOf, BadFlags
  <1>8. CASE s.zone.i_size < end
    <2>1. Completed(s, end) = u
      BY <1>6, <1>8
    <2> QED BY <1>2, <1>4, <1>5, <1>7, <1>8, <2>1
  <1>9. CASE ~(s.zone.i_size < end)
    <2>1. Completed(s, end) = s
      BY <1>6, <1>9
    <2> QED BY <1>9, <2>1
  <1> QED BY <1>8, <1>9

(* The error handler leaves i_size and z_wpoffset equal, and equal to what  *)
(* the device reported unless the zone or the volume is given up.           *)
LEMMA HandleFields ==
    ASSUME NEW s \in ViewState, NEW d \in DevState, NEW write \in BOOLEAN, FullOK(d),
           ~Harmless(s, d, write)
    PROVE  LET t == zonefs_handle_io_error(s, d, write)
           IN  /\ t.zone.i_size = ErrorSize(s, d) /\ t.zone.z_wpoffset = ErrorSize(s, d)
               /\ t.sb.used = Clamp(s.sb.used + ErrorSize(s, d) - s.zone.i_size)
               /\ s.sb.rdonly => t.sb.rdonly
               /\ Accounted(t.zone)
               /\ d.cond \notin BadFlags =>
                    \/ ErrorSize(s, d) \in {0, d.wp}
                    \/ /\ ErrorSize(s, d) = s.zone.i_size
                       /\ s.zone.i_size < d.wp \/ "READONLY" \in t.zone.flags
               /\ d.cond \notin BadFlags /\ ~Bad(t.zone) /\ ~t.sb.rdonly
                    => ErrorSize(s, d) = d.wp
  <1>1. PICK m \in ViewState : m = Marked(s, d)
    BY MarkedKeeps DEF Keeps
  <1>2. PICK k \in 0 .. Capacity : k = ErrorSize(s, d)
    BY ErrorSizeType
  <1>3. PICK r \in ViewState : r = Resized(m, k)
    BY ResizedKeeps DEF Keeps
  <1>4. zonefs_handle_io_error(s, d, write) = zonefs_account_active(r)
    BY <1>1, <1>2, <1>3 DEF zonefs_handle_io_error
  <1>5. /\ m.zone.i_size = s.zone.i_size /\ m.sb.used = s.sb.used
        /\ m.sb.rdonly = (s.sb.rdonly \/ s.sb.errors = "RO")
        /\ m.zone.flags = IF s.sb.explicit /\ ErrorFlags(s, d) \cap BadFlags # {}
                          THEN ErrorFlags(s, d) \ {"OPEN"} ELSE ErrorFlags(s, d)
    BY <1>1 DEF Marked, ViewState, ZoneState, SbState
  <1>6. /\ r.zone.i_size = k /\ r.zone.z_wpoffset = k
        /\ r.sb.used = Clamp(m.sb.used + k - m.zone.i_size) /\ r.sb.rdonly = m.sb.rdonly
        /\ r.zone.flags = IF k >= Capacity THEN m.zone.flags \ {"ACTIVE", "OPEN"} ELSE m.zone.flags
    BY <1>3, ResizedFields
  <1>7. BadOf(r.zone) = ErrorFlags(s, d) \cap BadFlags
    BY <1>5, <1>6 DEF BadOf, BadFlags
  <1>8. ASSUME d.cond \notin BadFlags PROVE zonefs_check_zone_condition(s.zone, d) = d.wp
    BY <1>8 DEF zonefs_check_zone_condition, BadFlags, FullOK
  <1>9. ASSUME d.cond \notin BadFlags
        PROVE  \/ k \in {0, d.wp}
               \/ k = s.zone.i_size /\ (s.zone.i_size < d.wp \/ "READONLY" \in ErrorFlags(s, d))
    BY <1>2, <1>8, <1>9 DEF ErrorSize
  <1>10. ASSUME d.cond \notin BadFlags, ErrorFlags(s, d) \cap BadFlags = {}, ~m.sb.rdonly
         PROVE  k = d.wp
    BY <1>2, <1>5, <1>8, <1>10 DEF ErrorSize, BadFlags
  <1>11. PICK t : t = zonefs_account_active(r)
    OBVIOUS
  <1>12. /\ t.zone.i_size = k /\ t.zone.z_wpoffset = k
         /\ t.sb.used = r.sb.used /\ t.sb.rdonly = r.sb.rdonly
         /\ BadOf(t.zone) = BadOf(r.zone) /\ Accounted(t.zone)
    BY <1>6, <1>11, AccountFields
  <1>13. Bad(t.zone) <=> ErrorFlags(s, d) \cap BadFlags # {}
    BY <1>7, <1>12, BadBadOf
  <1>14. "READONLY" \in ErrorFlags(s, d) => "READONLY" \in t.zone.flags
    BY <1>7, <1>12 DEF BadOf, BadFlags
  <1> QED BY <1>2, <1>4, <1>5, <1>6, <1>9, <1>10, <1>11, <1>12, <1>13, <1>14

--------------------------------------------------------------------------------
(* What a step leaves alone *)

(* No zone but z changes. *)
Alone(z) ==
    \A y \in Zones : y # z => zone'[y] = zone[y] /\ dev'[y] = dev[y] /\ io'[y] = io[y]

(* s_used_blocks moves with the size of the file of z. *)
Sized(z) ==
    \/ sb'.used = Clamp(sb.used + zone'[z].i_size - zone[z].i_size)
    \/ sb'.used = sb.used /\ zone'[z].i_size = zone[z].i_size

(* A step on z that moves no data: only the device's write pointer may have *)
(* been reset, of a zone that zonefs knows to be empty.                     *)
Still(z) ==
    /\ Alone(z) /\ io'[z] = io[z]
    /\ zone'[z].i_size = zone[z].i_size /\ zone'[z].z_wpoffset = zone[z].z_wpoffset
    /\ BadOf(zone'[z]) = BadOf(zone[z])
    /\ Accounted(zone[z]) => Accounted(zone'[z])
    /\ Bad(zone[z]) /\ zone[z].i_wr_refcnt = 0 => zone'[z].i_wr_refcnt = 0
    /\ sb'.rdonly = sb.rdonly /\ sb'.used = sb.used
    /\ ReportedFlags(dev'[z]) = ReportedFlags(dev[z])
    /\ \/ dev'[z].wp = dev[z].wp /\ dev'[z].loss = dev[z].loss
       \/ /\ dev'[z].wp = 0 /\ dev'[z].loss = "none"
          /\ zone[z].z_wpoffset = 0 /\ io[z] = << >>

LEMMA ReportedBad ==
    ASSUME NEW d
    PROVE  ReportedFlags(d) # {} <=> d.cond \in BadFlags
  BY DEF ReportedFlags

LEMMA AloneStep ==
    ASSUME IInv, NEW z \in Zones, NEW t, NEW d, NEW q, Becomes(z, t),
           dev' = [dev EXCEPT ![z] = d], io' = [io EXCEPT ![z] = q]
    PROVE  /\ Alone(z) /\ zone'[z] = t.zone /\ sb' = t.sb /\ dev'[z] = d /\ io'[z] = q
  BY DEF IInv, CoreTypes, Becomes, Alone

LEMMA SameZone ==
    ASSUME NEW x, NEW y, y.flags = x.flags, y.i_size = x.i_size, y.z_wpoffset = x.z_wpoffset
    PROVE  BadOf(y) = BadOf(x) /\ (Accounted(x) => Accounted(y))
  BY DEF BadOf, Accounted, IsActive, Bad

LEMMA IdleStill ==
    ASSUME IInv, NEW z \in Zones, UNCHANGED <<zone, sb, dev, io>>
    PROVE  Still(z)
  BY DEF Still, Alone

(* What zone management leaves at the device. *)
LEMMA MgmtWp ==
    ASSUME NEW z \in Zones, NEW x \in ZoneState, NEW d \in DevState,
           NEW op \in Ops, NEW r \in zonefs_zone_mgmt(z, x, d, op)
    PROVE  /\ ReportedFlags(r.d) = ReportedFlags(d)
           /\ ~r.ok => r.d = d
           /\ r.ok /\ op = "OPEN" => r.d.wp = d.wp /\ r.d.loss = d.loss
           /\ r.ok /\ op = "RESET" => r.d.wp = 0 /\ r.d.loss = "none"
           /\ r.ok /\ op = "FINISH" => r.d.wp = Capacity /\ r.d.loss = "none"
           /\ r.ok /\ op = "CLOSE" =>
                \/ r.d.wp = d.wp /\ r.d.loss = d.loss
                \/ r.d.wp = 0 /\ r.d.loss = "none" /\ x.z_wpoffset = 0
           /\ r.ok => d.cond \notin BadFlags
           /\ ~r.ok /\ r.cost = 0 /\ op # "OPEN" => d.cond \in BadFlags
           /\ r.cost \in Nat
  <1> DEFINE mop == MgmtOp(x, op)
  <1>1. /\ mop \in Ops /\ (mop = op \/ (op = "CLOSE" /\ mop = "RESET" /\ x.z_wpoffset = 0))
    BY DEF Ops, MgmtOp
  <1> HIDE DEF mop
  <1>2. CASE r = [ok |-> TRUE, d |-> Managed(d, mop), cost |-> 0] /\ Accepts(z, d, mop)
    <2>1. d.cond \notin BadFlags
      BY <1>2 DEF Accepts
    <2>2. CASE mop = "OPEN"
      BY <1>1, <1>2, <2>1, <2>2 DEF Managed, DevState, ReportedFlags, BadFlags
    <2>3. CASE mop = "CLOSE"
      BY <1>1, <1>2, <2>1, <2>3 DEF Managed, DevState, ReportedFlags, BadFlags
    <2>4. CASE mop = "RESET"
      BY <1>1, <1>2, <2>1, <2>4 DEF Managed, DevState, ReportedFlags, BadFlags
    <2>5. CASE mop = "FINISH"
      BY <1>1, <1>2, <2>1, <2>5 DEF Managed, DevState, ReportedFlags, BadFlags
    <2> QED BY <1>1, <2>2, <2>3, <2>4, <2>5 DEF Ops
  <1>3. CASE r = [ok |-> FALSE, d |-> d, cost |-> 1]
    <2>1. ~r.ok /\ r.d = d /\ r.cost = 1
      BY <1>3
    <2> QED BY <2>1
  <1>4. CASE r = [ok |-> FALSE, d |-> d, cost |-> 0] /\ ~Accepts(z, d, mop)
    <2>1. ~r.ok /\ r.d = d /\ r.cost = 0
      BY <1>4
    <2>2. op # "OPEN" => d.cond \in BadFlags
      BY <1>1, <1>4 DEF Accepts
    <2> QED BY <2>1, <2>2
  <1> QED BY <1>2, <1>3, <1>4 DEF zonefs_zone_mgmt, mop

LEMMA OpenStill ==
    ASSUME IInv, NEW z \in Zones, zonefs_seq_file_write_open(z)
    PROVE  Still(z)
  <1>1. /\ View(z) \in ViewState /\ View(z).zone = zone[z] /\ View(z).sb = sb
        /\ zone[z] \in ZoneState /\ sb \in SbState /\ dev[z] \in DevState
        /\ dev = [dev EXCEPT ![z] = dev[z]] /\ io = [io EXCEPT ![z] = io[z]]
    BY Typed
  <1>2. ~Bad(zone[z]) /\ UNCHANGED io
    BY DEF zonefs_seq_file_write_open
  <1>3. PICK o \in ViewState : o = Opened(View(z))
    BY <1>1, OpenedFields
  <1>4. /\ o.zone.flags = zone[z].flags /\ o.zone.i_size = zone[z].i_size
        /\ o.zone.z_wpoffset = zone[z].z_wpoffset
        /\ o.sb.rdonly = sb.rdonly /\ o.sb.used = sb.used
    BY <1>1, <1>3, OpenedFields
  <1>5. BadOf(o.zone) = BadOf(zone[z]) /\ (Accounted(zone[z]) => Accounted(o.zone))
    BY <1>4, SameZone
  <1>6. CASE ~NeedsZoneOpen(z)
    <2>1. Becomes(z, o) /\ UNCHANGED <<dev, io>>
      BY <1>2, <1>3, <1>6 DEF zonefs_seq_file_write_open
    <2>2. Alone(z) /\ zone'[z] = o.zone /\ sb' = o.sb /\ dev'[z] = dev[z] /\ io'[z] = io[z]
      BY <1>1, <2>1, AloneStep
    <2> QED BY <1>2, <1>4, <1>5, <2>2 DEF Still
  <1>7. CASE NeedsZoneOpen(z)
    <2>1. PICK r \in zonefs_zone_mgmt(z, zone[z], dev[z], "OPEN") :
            /\ dev' = [dev EXCEPT ![z] = r.d]
            /\ IF r.ok THEN Becomes(z, zonefs_account_active(SetOpen(o)))
               ELSE UNCHANGED <<zone, sb>>
      BY <1>3, <1>7 DEF zonefs_seq_file_write_open
    <2>2. /\ ReportedFlags(r.d) = ReportedFlags(dev[z])
          /\ r.d.wp = dev[z].wp /\ r.d.loss = dev[z].loss
      BY <1>1, MgmtWp DEF Ops
    <2>3. CASE r.ok
      <3>1. PICK p \in ViewState : p = SetOpen(o)
        BY SetOpenFields
      <3>2. /\ p.zone.i_size = zone[z].i_size /\ p.zone.z_wpoffset = zone[z].z_wpoffset
            /\ p.zone.flags = o.zone.flags \cup {"OPEN"} /\ p.sb = o.sb
        BY <1>4, <3>1, SetOpenFields
      <3>3. BadOf(p.zone) = BadOf(zone[z])
        BY <1>4, <3>2 DEF BadOf, BadFlags
      <3>4. PICK a : a = zonefs_account_active(p)
        OBVIOUS
      <3>5. /\ a.zone.i_size = zone[z].i_size /\ a.zone.z_wpoffset = zone[z].z_wpoffset
            /\ a.sb.rdonly = sb.rdonly /\ a.sb.used = sb.used
            /\ BadOf(a.zone) = BadOf(zone[z]) /\ Accounted(a.zone)
        BY <1>4, <3>2, <3>3, <3>4, AccountFields
      <3>6. Alone(z) /\ zone'[z] = a.zone /\ sb' = a.sb /\ dev'[z] = r.d /\ io'[z] = io[z]
        <4>1. /\ Becomes(z, a) /\ dev' = [dev EXCEPT ![z] = r.d]
              /\ io' = [io EXCEPT ![z] = io[z]]
          BY <1>1, <1>2, <2>1, <2>3, <3>1, <3>4
        <4> QED BY <4>1 DEF IInv, CoreTypes, Becomes, Alone
      <3> QED BY <1>2, <2>2, <3>5, <3>6 DEF Still
    <2>4. CASE ~r.ok
      <3>1. Becomes(z, View(z))
        BY <2>1, <2>4, Stays
      <3>2. /\ Alone(z) /\ zone'[z] = zone[z] /\ sb' = sb /\ dev'[z] = r.d /\ io'[z] = io[z]
        <4>1. dev' = [dev EXCEPT ![z] = r.d] /\ io' = [io EXCEPT ![z] = io[z]]
          BY <1>1, <1>2, <2>1
        <4> QED BY <1>1, <3>1, <4>1 DEF IInv, CoreTypes, Becomes, Alone
      <3> QED BY <2>2, <3>2 DEF Still
    <2> QED BY <2>3, <2>4
  <1> QED BY <1>6, <1>7

(* Closing a file moves no data, unless the device would not close its zone. *)
LEMMA CloseStill ==
    ASSUME IInv, NEW z \in Zones, NEW fails \in BOOLEAN, zonefs_seq_file_write_close(z, fails)
    PROVE  \/ Still(z)
           \/ /\ fails /\ LastReference(z) /\ UNCHANGED io
              /\ \E r \in zonefs_zone_mgmt(z, zone[z], dev[z], "CLOSE") : CloseFails(z, r)
  <1>1. /\ View(z) \in ViewState /\ View(z).zone = zone[z] /\ View(z).sb = sb
        /\ zone[z] \in ZoneState /\ sb \in SbState /\ dev[z] \in DevState
        /\ dev = [dev EXCEPT ![z] = dev[z]] /\ io = [io EXCEPT ![z] = io[z]]
    BY Typed
  <1>2. zone[z].i_wr_refcnt > 0 /\ zone[z].i_wr_refcnt # 0 /\ UNCHANGED io
    <2>1. (zone[z].i_wr_refcnt > 1 \/ zone[z].i_wr_refcnt = 1) /\ UNCHANGED io
      BY DEF zonefs_seq_file_write_close, LastReference
    <2>2. zone[z].i_wr_refcnt \in Nat
      BY <1>1 DEF ZoneState
    <2> QED BY <2>1, <2>2
  <1>3. PICK o \in ViewState : o = Released(View(z))
    BY <1>1, <1>2, ReleasedFields
  <1>4. /\ o.zone.flags = zone[z].flags /\ o.zone.i_size = zone[z].i_size
        /\ o.zone.z_wpoffset = zone[z].z_wpoffset /\ o.sb = sb
    BY <1>1, <1>2, <1>3, ReleasedFields
  <1>5. BadOf(o.zone) = BadOf(zone[z]) /\ (Accounted(zone[z]) => Accounted(o.zone))
    BY <1>4, SameZone
  <1>6. CASE Becomes(z, o) /\ UNCHANGED <<dev, faults>>
    <2>1. Alone(z) /\ zone'[z] = o.zone /\ sb' = o.sb /\ dev'[z] = dev[z] /\ io'[z] = io[z]
      BY <1>1, <1>2, <1>6, AloneStep
    <2> QED BY <1>2, <1>4, <1>5, <2>1 DEF Still
  <1>7. CASE Becomes(z, LastClosed(o)) /\ UNCHANGED <<dev, faults>>
    <2>1. PICK p : p = LastClosed(o)
      OBVIOUS
    <2>2. p.zone = o.zone /\ p.sb.rdonly = sb.rdonly /\ p.sb.used = sb.used
      BY <1>4, <2>1, LastClosedFields
    <2>3. Alone(z) /\ zone'[z] = p.zone /\ sb' = p.sb /\ dev'[z] = dev[z] /\ io'[z] = io[z]
      BY <1>1, <1>2, <1>7, <2>1, AloneStep
    <2> QED BY <1>2, <1>4, <1>5, <2>2, <2>3 DEF Still
  <1>8. ASSUME NEW r \in zonefs_zone_mgmt(z, zone[z], dev[z], "CLOSE"),
               Close(z, r), LastReference(z)
        PROVE  Still(z)
    <2>1. /\ ReportedFlags(r.d) = ReportedFlags(dev[z])
          /\ \/ r.d.wp = dev[z].wp /\ r.d.loss = dev[z].loss
             \/ r.d.wp = 0 /\ r.d.loss = "none" /\ zone[z].z_wpoffset = 0
      BY <1>1, <1>8, MgmtWp DEF Ops, Close
    <2>2. PICK p \in ViewState : p = ClearOpen(o)
      BY ClearOpenKeeps DEF Keeps
    <2>3. /\ p.zone.i_size = zone[z].i_size /\ p.zone.z_wpoffset = zone[z].z_wpoffset
          /\ p.zone.flags = o.zone.flags \ {"OPEN"} /\ p.sb = sb
      BY <1>4, <2>2 DEF ClearOpen, WithZone, ViewState, ZoneState
    <2>4. BadOf(p.zone) = BadOf(zone[z])
      BY <1>4, <2>3 DEF BadOf, BadFlags
    <2>5. PICK a \in ViewState : a = zonefs_account_active(p)
      BY AccountKeeps DEF Keeps
    <2>6. /\ a.zone.i_size = zone[z].i_size /\ a.zone.z_wpoffset = zone[z].z_wpoffset
          /\ a.sb.rdonly = sb.rdonly /\ a.sb.used = sb.used
          /\ BadOf(a.zone) = BadOf(zone[z]) /\ Accounted(a.zone)
      BY <2>3, <2>4, <2>5, AccountFields
    <2>7. PICK c : c = LastClosed(a)
      OBVIOUS
    <2>8. c.zone = a.zone /\ c.sb.rdonly = sb.rdonly /\ c.sb.used = sb.used
      BY <2>6, <2>7, LastClosedFields
    <2>9. Alone(z) /\ zone'[z] = c.zone /\ sb' = c.sb /\ dev'[z] = r.d /\ io'[z] = io[z]
      <3>1. /\ Becomes(z, c) /\ dev' = [dev EXCEPT ![z] = r.d]
            /\ io' = [io EXCEPT ![z] = io[z]]
        BY <1>1, <1>2, <1>3, <1>8, <2>2, <2>5, <2>7 DEF Close
      <3> QED BY <3>1 DEF IInv, CoreTypes, Becomes, Alone
    <2> QED BY <1>2, <1>8, <2>1, <2>6, <2>8, <2>9 DEF Still, LastReference
  <1> QED BY <1>3, <1>6, <1>7, <1>8 DEF zonefs_seq_file_write_close

(* The start of a write. *)
LEMMA WriteStep ==
    ASSUME IInv, NEW z \in Zones, NEW n \in 1 .. Capacity, NEW sync \in BOOLEAN,
           zonefs_file_dio_write(z, n, sync)
    PROVE  /\ Alone(z) /\ UNCHANGED dev
           /\ io'[z] = Append(io[z], [pos |-> zone[z].z_wpoffset, n |-> n,
                                      sync |-> sync, st |-> "start"])
           /\ zone'[z].i_size = zone[z].i_size
           /\ zone'[z].z_wpoffset = zone[z].z_wpoffset + n
           /\ BadOf(zone'[z]) = BadOf(zone[z]) /\ Accounted(zone'[z])
           /\ zone'[z].i_wr_refcnt = zone[z].i_wr_refcnt
           /\ sb'.rdonly = sb.rdonly /\ sb'.used = sb.used
  <1>1. /\ View(z) \in ViewState /\ View(z).zone = zone[z] /\ View(z).sb = sb
        /\ zone[z] \in ZoneState /\ dev = [dev EXCEPT ![z] = dev[z]]
    BY Typed
  <1> DEFINE w == [pos |-> zone[z].z_wpoffset, n |-> n, sync |-> sync, st |-> "start"]
             x == [zone[z] EXCEPT !.z_wpoffset = @ + n]
             v == WithZone(View(z), x)
  <1>2. zone[z].z_wpoffset + n \in 0 .. Capacity
    BY <1>1, ZonefsAssumption DEF ZoneState, zonefs_file_dio_write
  <1>3. /\ x \in ZoneState /\ x.flags = zone[z].flags /\ x.i_size = zone[z].i_size
        /\ x.z_wpoffset = zone[z].z_wpoffset + n /\ x.i_wr_refcnt = zone[z].i_wr_refcnt
    BY <1>1, <1>2 DEF ZoneState
  <1>4. /\ Becomes(z, zonefs_account_active(v)) /\ UNCHANGED <<dev, faults>>
        /\ io' = [io EXCEPT ![z] = Append(io[z], w)]
    BY DEF zonefs_file_dio_write
  <1> HIDE DEF x
  <1>5. v \in ViewState /\ v.zone = x /\ v.sb = sb
    BY <1>1, <1>3 DEF WithZone, ViewState
  <1> HIDE DEF v
  <1>6. PICK a : a = zonefs_account_active(v)
    OBVIOUS
  <1>7. BadOf(x) = BadOf(zone[z])
    BY <1>3 DEF BadOf
  <1>8. /\ a.zone.i_size = x.i_size /\ a.zone.z_wpoffset = x.z_wpoffset
        /\ a.zone.i_wr_refcnt = x.i_wr_refcnt
        /\ a.sb.rdonly = sb.rdonly /\ a.sb.used = sb.used
        /\ BadOf(a.zone) = BadOf(zone[z]) /\ Accounted(a.zone)
    BY <1>5, <1>6, <1>7, AccountFields
  <1>9. Alone(z) /\ zone'[z] = a.zone /\ sb' = a.sb /\ io'[z] = Append(io[z], w)
    <2>1. dev' = [dev EXCEPT ![z] = dev[z]] /\ Becomes(z, a)
      BY <1>1, <1>4, <1>6
    <2> HIDE DEF w
    <2> QED BY <1>4, <2>1 DEF IInv, CoreTypes, Becomes, Alone
  <1> QED BY <1>3, <1>4, <1>8, <1>9

(* The submission of a write. *)
LEMMA SubmitStep ==
    ASSUME IInv, NEW z \in Zones, iomap_dio_rw(z)
    PROVE  /\ Alone(z) /\ UNCHANGED <<zone, sb, dev, faults>>
           /\ \E i \in DOMAIN io[z] :
                 io[z][i].st = "start" /\ io'[z] = [io[z] EXCEPT ![i].st = "queued"]
  <1>1. PICK i \in DOMAIN io[z] :
          io[z][i].st = "start" /\ io' = [io EXCEPT ![z] = [io[z] EXCEPT ![i].st = "queued"]]
    BY DEF iomap_dio_rw
  <1>2. UNCHANGED <<zone, sb, dev, faults>>
    BY DEF iomap_dio_rw
  <1> DEFINE q == [io[z] EXCEPT ![i].st = "queued"]
  <1>3. io' = [io EXCEPT ![z] = q]
    BY <1>1
  <1> HIDE DEF q
  <1>4. io'[z] = q /\ Alone(z)
    BY <1>2, <1>3 DEF IInv, CoreTypes, Alone
  <1> QED BY <1>1, <1>2, <1>4 DEF q

(* The device takes a write; one that could only be submitted in part is    *)
(* then an error of the whole.                                              *)
LEMMA DeviceStep ==
    ASSUME IInv, NEW z \in Zones, DeviceWrite(z)
    PROVE  /\ Alone(z) /\ UNCHANGED <<zone, sb>>
           /\ ReportedFlags(dev'[z]) = ReportedFlags(dev[z]) /\ dev'[z].loss = dev[z].loss
           /\ \E i \in DOMAIN io[z] :
                 /\ io[z][i].st \in Submitted /\ \A j \in 1 .. i - 1 : io[z][j].st \notin Submitted
                 /\ \/ /\ Writable(dev[z], io[z][i]) /\ io[z][i].st = "queued"
                       /\ io'[z] = [io[z] EXCEPT ![i].st = "ok"]
                       /\ dev'[z].wp = dev[z].wp + io[z][i].n
                    \/ /\ Writable(dev[z], io[z][i])
                       /\ io'[z] = [io[z] EXCEPT ![i].st = "err"]
                       /\ \E k \in 0 .. io[z][i].n : dev'[z].wp = dev[z].wp + k
                       /\ faults' = faults + 1 \/ io[z][i].st = "cut"
                    \/ /\ ~Writable(dev[z], io[z][i])
                       /\ io'[z] = [io[z] EXCEPT ![i].st = "err"]
                       /\ dev'[z] = dev[z]
  <1>1. /\ dev[z] \in DevState /\ io[z] \in Seq(WriteState)
        /\ dev \in [Zones -> DevState] /\ io \in [Zones -> Seq(WriteState)]
    BY Typed DEF IInv, CoreTypes
  <1>2. HasQueued(z) /\ UNCHANGED <<zone, sb>>
    BY DEF DeviceWrite
  <1>3. PICK i \in DOMAIN io[z] :
          /\ i = NextQueued(z) /\ io[z][i].st \in Submitted
          /\ \A j \in 1 .. i - 1 : io[z][j].st \notin Submitted
    BY <1>1, <1>2, NextQueuedIn
  <1>4. PICK w \in WriteState : w = io[z][i]
    BY <1>1, ElementOfSeq
  <1>5. w.n \in 1 .. Capacity /\ w.st \in {"queued", "cut"}
    BY <1>3, <1>4 DEF WriteState, Submitted
  <1> DEFINE ok == [io[z] EXCEPT ![i].st = "ok"]
             err == [io[z] EXCEPT ![i].st = "err"]
             done == IF w.st = "cut" THEN err ELSE ok
  <1>6. IF Writable(dev[z], w)
        THEN \/ /\ dev' = [dev EXCEPT ![z] = AfterWrite(dev[z], w.n)]
                /\ io' = [io EXCEPT ![z] = done]
             \/ \E k \in 0 .. w.n - 1 :
                /\ dev' = [dev EXCEPT ![z] = IF k = 0 THEN dev[z] ELSE AfterWrite(dev[z], k)]
                /\ io' = [io EXCEPT ![z] = err]
                /\ faults' = faults + 1
        ELSE io' = [io EXCEPT ![z] = err] /\ UNCHANGED dev
    BY <1>3, <1>4 DEF DeviceWrite, Cost
  <1> HIDE DEF ok, err, done
  <1>7. ASSUME NEW n \in 1 .. Capacity, Writable(dev[z], w)
        PROVE  /\ AfterWrite(dev[z], n).wp = dev[z].wp + n
               /\ AfterWrite(dev[z], n).loss = dev[z].loss
               /\ ReportedFlags(AfterWrite(dev[z], n)) = ReportedFlags(dev[z])
    BY <1>1, <1>7 DEF AfterWrite, Writable, ReportedFlags, BadFlags, DevState
  <1>8. CASE Writable(dev[z], w)
    <2>1. CASE /\ dev' = [dev EXCEPT ![z] = AfterWrite(dev[z], w.n)]
               /\ io' = [io EXCEPT ![z] = done]
      <3>1. Alone(z) /\ io'[z] = done /\ dev'[z] = AfterWrite(dev[z], w.n)
        BY <1>1, <1>2, <2>1 DEF Alone
      <3>2. /\ dev'[z].wp = dev[z].wp + w.n /\ ReportedFlags(dev'[z]) = ReportedFlags(dev[z])
            /\ dev'[z].loss = dev[z].loss
        BY <1>5, <1>7, <1>8, <3>1
      <3>3. CASE w.st = "queued"
        <4>1. io'[z] = [io[z] EXCEPT ![i].st = "ok"]
          BY <3>1, <3>3 DEF ok, done
        <4> QED BY <1>2, <1>3, <1>4, <1>8, <3>1, <3>2, <3>3, <4>1
      <3>4. CASE w.st = "cut"
        <4>1. io'[z] = [io[z] EXCEPT ![i].st = "err"]
          BY <3>1, <3>4 DEF err, done
        <4>2. w.n \in 0 .. w.n
          BY <1>5, ZonefsAssumption
        <4> QED BY <1>2, <1>3, <1>4, <1>8, <3>1, <3>2, <3>4, <4>1, <4>2
      <3> QED BY <1>5, <3>3, <3>4
    <2>2. CASE \E k \in 0 .. w.n - 1 :
                /\ dev' = [dev EXCEPT ![z] = IF k = 0 THEN dev[z] ELSE AfterWrite(dev[z], k)]
                /\ io' = [io EXCEPT ![z] = err]
                /\ faults' = faults + 1
      <3>1. PICK k \in 0 .. w.n - 1 :
                /\ dev' = [dev EXCEPT ![z] = IF k = 0 THEN dev[z] ELSE AfterWrite(dev[z], k)]
                /\ io' = [io EXCEPT ![z] = err]
                /\ faults' = faults + 1
        BY <2>2
      <3>2. /\ Alone(z) /\ io'[z] = err
            /\ dev'[z] = IF k = 0 THEN dev[z] ELSE AfterWrite(dev[z], k)
        BY <1>1, <1>2, <3>1 DEF Alone
      <3>3. k \in 0 .. w.n /\ (k = 0 \/ k \in 1 .. Capacity)
        BY <1>5, ZonefsAssumption
      <3>4. dev[z].wp \in Nat
        BY <1>1, ZonefsAssumption DEF DevState
      <3>5. /\ dev'[z].wp = dev[z].wp + k /\ dev'[z].loss = dev[z].loss
            /\ ReportedFlags(dev'[z]) = ReportedFlags(dev[z])
        BY <1>7, <1>8, <3>2, <3>3, <3>4
      <3> QED BY <1>2, <1>3, <1>4, <1>8, <3>1, <3>2, <3>3, <3>5 DEF err
    <2> QED BY <1>6, <1>8, <2>1, <2>2
  <1>9. CASE ~Writable(dev[z], w)
    <2>1. io' = [io EXCEPT ![z] = err] /\ UNCHANGED dev
      BY <1>6, <1>9
    <2>2. Alone(z) /\ io'[z] = err
      BY <1>1, <1>2, <2>1 DEF Alone
    <2> QED BY <1>2, <1>3, <1>4, <1>9, <2>1, <2>2 DEF err
  <1> QED BY <1>8, <1>9

(* A write that succeeded completes. *)
LEMMA EndIoStep ==
    ASSUME IInv, NEW z \in Zones, NEW i \in DOMAIN io[z], zonefs_file_write_dio_end_io(z, i)
    PROVE  LET end == io[z][i].pos + io[z][i].n
           IN  /\ Alone(z) /\ UNCHANGED dev /\ io'[z] = RemoveAt(io[z], i)
               /\ io[z][i].st = "ok"
               /\ zone'[z].i_size = (IF zone[z].i_size < end THEN end ELSE zone[z].i_size)
               /\ zone'[z].z_wpoffset = zone[z].z_wpoffset
               /\ zone'[z].i_wr_refcnt = zone[z].i_wr_refcnt
               /\ BadOf(zone'[z]) = BadOf(zone[z])
               /\ zone'[z].flags = zone[z].flags
                  \/ (zone'[z].flags = zone[z].flags \ {"ACTIVE", "OPEN"} /\ end >= Capacity)
               /\ sb'.rdonly = sb.rdonly /\ Sized(z)
  <1>1. /\ View(z) \in ViewState /\ View(z).zone = zone[z] /\ View(z).sb = sb
        /\ io[z] \in Seq(WriteState) /\ dev = [dev EXCEPT ![z] = dev[z]]
    BY Typed
  <1>2. io[z][i] \in WriteState
    BY <1>1, ElementOfSeq
  <1>3. PICK end \in 0 .. Capacity : end = io[z][i].pos + io[z][i].n
    BY <1>2, ZonefsAssumption DEF WriteState
  <1>4. PICK t : t = Completed(View(z), end)
    OBVIOUS
  <1>5. /\ t.zone.i_size = (IF zone[z].i_size < end THEN end ELSE zone[z].i_size)
        /\ t.zone.z_wpoffset = zone[z].z_wpoffset
        /\ t.zone.i_wr_refcnt = zone[z].i_wr_refcnt
        /\ t.sb.rdonly = sb.rdonly
        /\ \/ t.sb.used = Clamp(sb.used + t.zone.i_size - zone[z].i_size)
           \/ t.sb.used = sb.used /\ t.zone.i_size = zone[z].i_size
        /\ BadOf(t.zone) = BadOf(zone[z])
        /\ t.zone.flags = zone[z].flags
           \/ (t.zone.flags = zone[z].flags \ {"ACTIVE", "OPEN"} /\ end >= Capacity)
    BY <1>1, <1>4, CompletedFields
  <1>6. /\ Becomes(z, t) /\ io' = [io EXCEPT ![z] = RemoveAt(io[z], i)]
        /\ UNCHANGED dev /\ io[z][i].st = "ok"
    BY <1>3, <1>4 DEF zonefs_file_write_dio_end_io, WithoutIO
  <1>7. Alone(z) /\ zone'[z] = t.zone /\ sb' = t.sb /\ io'[z] = RemoveAt(io[z], i)
    BY <1>6 DEF IInv, CoreTypes, Becomes, Alone
  <1>8. Sized(z)
    BY <1>5, <1>7 DEF Sized
  <1> QED BY <1>3, <1>5, <1>6, <1>7, <1>8

(* A truncation leaves the zone as it was, or sets every size to isize. *)
LEMMA TruncateStep ==
    ASSUME IInv, NEW z \in Zones, NEW isize \in {0, Capacity}, zonefs_file_truncate(z, isize)
    PROVE  \/ Still(z)
           \/ /\ Alone(z) /\ UNCHANGED io
              /\ zone'[z].i_size = isize /\ zone'[z].z_wpoffset = isize /\ dev'[z].wp = isize
              /\ BadOf(zone'[z]) = BadOf(zone[z]) /\ Accounted(zone'[z])
              /\ zone'[z].i_wr_refcnt = zone[z].i_wr_refcnt
              /\ ReportedFlags(dev'[z]) = ReportedFlags(dev[z]) /\ dev'[z].loss = "none"
              /\ sb'.rdonly = sb.rdonly /\ Sized(z)
  <1>1. /\ View(z) \in ViewState /\ View(z).zone = zone[z] /\ View(z).sb = sb
        /\ zone[z] \in ZoneState /\ dev[z] \in DevState /\ FullOK(dev[z])
    BY Typed
  <1>2. isize \in 0 .. Capacity
    BY ZonefsAssumption
  <1> DEFINE op == IF isize = 0 THEN "RESET" ELSE "FINISH"
  <1>3. PICK r \in zonefs_zone_mgmt(z, zone[z], dev[z], op) :
          IF ~r.ok THEN UNCHANGED <<zone, sb, dev>>
          ELSE IF "OPEN" \notin zone[z].flags THEN
               /\ dev' = [dev EXCEPT ![z] = r.d]
               /\ Becomes(z, Truncated(View(z), isize))
          ELSE IF isize = 0 THEN
               \E p \in zonefs_zone_mgmt(z, zone[z], r.d, "OPEN") :
                  /\ dev' = [dev EXCEPT ![z] = p.d]
                  /\ Becomes(z, Truncated(View(z), isize))
          ELSE /\ dev' = [dev EXCEPT ![z] = r.d]
               /\ Becomes(z, Truncated(ClearOpen(View(z)), isize))
    BY DEF zonefs_file_truncate
  <1>4. UNCHANGED io
    BY DEF zonefs_file_truncate
  <1>5. ReportedFlags(r.d) = ReportedFlags(dev[z]) /\ (r.ok => r.d.wp = isize /\ r.d.loss = "none")
    BY <1>1, MgmtWp DEF Ops
  <1>6. r.d \in DevState
    BY <1>1, MgmtResult DEF Ops
  <1> HIDE DEF op
  <1>7. ASSUME NEW s \in ViewState, s.sb = sb, s.zone.i_size = zone[z].i_size,
               s.zone.i_wr_refcnt = zone[z].i_wr_refcnt, BadOf(s.zone) = BadOf(zone[z]),
               NEW d, dev' = [dev EXCEPT ![z] = d], d.wp = isize, d.loss = "none",
               ReportedFlags(d) = ReportedFlags(dev[z]), Becomes(z, Truncated(s, isize))
        PROVE  /\ Alone(z)
               /\ zone'[z].i_size = isize /\ zone'[z].z_wpoffset = isize /\ dev'[z].wp = isize
               /\ BadOf(zone'[z]) = BadOf(zone[z]) /\ Accounted(zone'[z])
               /\ zone'[z].i_wr_refcnt = zone[z].i_wr_refcnt
               /\ ReportedFlags(dev'[z]) = ReportedFlags(dev[z]) /\ dev'[z].loss = "none"
               /\ sb'.rdonly = sb.rdonly /\ Sized(z)
    <2>1. PICK t : t = Truncated(s, isize)
      OBVIOUS
    <2>2. /\ t.zone.i_size = isize /\ t.zone.z_wpoffset = isize
          /\ t.zone.i_wr_refcnt = zone[z].i_wr_refcnt
          /\ t.sb.rdonly = sb.rdonly
          /\ t.sb.used = Clamp(sb.used + isize - zone[z].i_size)
          /\ BadOf(t.zone) = BadOf(zone[z]) /\ Accounted(t.zone)
      BY <1>2, <1>7, <2>1, TruncatedFields
    <2>3. Alone(z) /\ zone'[z] = t.zone /\ sb' = t.sb /\ dev'[z] = d
      BY <1>4, <1>7, <2>1 DEF IInv, CoreTypes, Becomes, Alone
    <2> QED BY <1>7, <2>2, <2>3 DEF Sized
  <1>8. CASE ~r.ok
    BY <1>3, <1>4, <1>8, IdleStill
  <1>9. CASE r.ok /\ "OPEN" \notin zone[z].flags
    BY <1>1, <1>3, <1>4, <1>5, <1>7, <1>9
  <1>10. CASE r.ok /\ "OPEN" \in zone[z].flags /\ isize = 0
    <2>1. PICK p \in zonefs_zone_mgmt(z, zone[z], r.d, "OPEN") :
            /\ dev' = [dev EXCEPT ![z] = p.d]
            /\ Becomes(z, Truncated(View(z), isize))
      BY <1>3, <1>10
    <2>2. ReportedFlags(p.d) = ReportedFlags(dev[z]) /\ p.d.wp = isize /\ p.d.loss = "none"
      BY <1>1, <1>5, <1>6, <1>10, MgmtWp DEF Ops
    <2> QED BY <1>1, <1>4, <1>7, <2>1, <2>2
  <1>11. CASE r.ok /\ "OPEN" \in zone[z].flags /\ isize # 0
    <2>1. PICK s \in ViewState : s = ClearOpen(View(z))
      BY <1>1, ClearOpenKeeps DEF Keeps
    <2>2. /\ s.sb = sb /\ s.zone.i_size = zone[z].i_size
          /\ s.zone.i_wr_refcnt = zone[z].i_wr_refcnt /\ s.zone.flags = zone[z].flags \ {"OPEN"}
      BY <1>1, <2>1 DEF ClearOpen, WithZone, ViewState, ZoneState
    <2>3. BadOf(s.zone) = BadOf(zone[z])
      BY <2>2 DEF BadOf, BadFlags
    <2> QED BY <1>3, <1>4, <1>5, <1>7, <1>11, <2>1, <2>2, <2>3
  <1> QED BY <1>8, <1>9, <1>10, <1>11

--------------------------------------------------------------------------------
(* Synchronous or asynchronous writes, while nothing has failed *)

End(w) == w.pos + w.n

(* Where the i-th write of q begins if it is not at the device yet: at the  *)
(* write pointer, or where the write before it ends.                        *)
StartOf(q, d, i) ==
    IF i = 1 THEN d.wp ELSE IF q[i - 1].st = "ok" THEN d.wp ELSE End(q[i - 1])

(* The writes of a zone in flight: first those at the device, then those on *)
(* their way, each beginning where the one before it ends, and only the     *)
(* last one not submitted. The end of the file is where the device is, or   *)
(* will be when the last completion has run.                                *)
Line(x, d, q) ==
    /\ x.i_size <= d.wp
    /\ \A i \in 1 .. Len(q) : q[i].st \notin {"cut", "err"}
    /\ \A i, j \in 1 .. Len(q) : i < j => q[i].st # "start"
    /\ \A i, j \in 1 .. Len(q) : i < j /\ q[j].st = "ok" => q[i].st = "ok"
    /\ \A i \in 1 .. Len(q) : q[i].st = "ok" => End(q[i]) <= d.wp
    /\ \A i \in 1 .. Len(q) : q[i].st # "ok" => q[i].pos = StartOf(q, d, i)
    /\ x.z_wpoffset = StartOf(q, d, Len(q) + 1)
    /\ x.i_size = d.wp \/ \E i \in 1 .. Len(q) : q[i].st = "ok" /\ End(q[i]) = d.wp

QuietZone(x, d, q) ==
    /\ BadOf(x) = ReportedFlags(d) /\ d.loss # "unseen"
    /\ Bad(x) => x.i_wr_refcnt = 0 /\ q = << >> /\ x.i_size = x.z_wpoffset
    /\ ~Bad(x) => Line(x, d, q)

(* The inductive invariant of SafeSpec, about the time before a failure.    *)
QuietInv ==
    /\ IInv /\ HistTypes
    /\ Untroubled =>
         /\ sb.rdonly => hist.asked
         /\ \A z \in waiting : ~Bad(zone[z])
         /\ \A z \in Zones : QuietZone(zone[z], dev[z], io[z])

(* No file gets shorter but by a reset. *)
NoFall == \A z \in Zones : zone'[z].i_size < zone[z].i_size => dev'[z].wp = 0

LEMMA SafeNextNext ==
    ASSUME [SafeNext]_vars
    PROVE  [Next]_vars
  BY DEF SafeNext, Next

LEMMA SafeNextInv ==
    ASSUME IInv, HistTypes, [SafeNext]_vars
    PROVE  IInv' /\ HistTypes'
  BY SafeNextNext, NextInv, HistNext

LEMMA QuietStep ==
    ASSUME QuietInv, IInv', Untroubled, NEW z \in Zones, Alone(z), sb'.rdonly = sb.rdonly,
           UNCHANGED hist, waiting' \subseteq waiting, BadOf(zone'[z]) = BadOf(zone[z]),
           QuietZone(zone'[z], dev'[z], io'[z]),
           zone'[z].i_size < zone[z].i_size => dev'[z].wp = 0
    PROVE  QuietInv' /\ NoFall
  <1>1. ASSUME NEW y \in Zones, y # z
        PROVE  /\ QuietZone(zone'[y], dev'[y], io'[y])
               /\ ~(zone'[y].i_size < zone[y].i_size)
    <2>1. zone'[y] = zone[y] /\ dev'[y] = dev[y] /\ io'[y] = io[y]
      BY <1>1 DEF Alone
    <2>2. QuietZone(zone[y], dev[y], io[y])
      BY DEF QuietInv
    <2>3. zone[y].i_size \in 0 .. Capacity
      BY Typed DEF QuietInv, ZoneState
    <2>4. ~(zone[y].i_size < zone[y].i_size)
      BY <2>3, ZonefsAssumption
    <2> QED BY <2>1, <2>2, <2>4
  <1>2. NoFall
    BY <1>1 DEF NoFall
  <1>3. \A y \in Zones : QuietZone(zone'[y], dev'[y], io'[y])
    BY <1>1
  <1>4. waiting \in SUBSET Zones /\ HistTypes'
    BY DEF QuietInv, HistTypes
  <1>5. ASSUME NEW y \in waiting' PROVE ~Bad(zone'[y])
    <2>1. y \in waiting /\ y \in Zones /\ ~Bad(zone[y])
      BY <1>4, <1>5 DEF QuietInv
    <2>2. Bad(zone'[z]) <=> Bad(zone[z])
      BY BadBadOf
    <2>3. y # z => zone'[y] = zone[y]
      BY <2>1 DEF Alone
    <2> QED BY <2>1, <2>2, <2>3
  <1>6. sb'.rdonly => hist'.asked
    BY DEF QuietInv
  <1> QED BY <1>2, <1>3, <1>4, <1>5, <1>6 DEF QuietInv

LEMMA QuietTypes ==
    ASSUME QuietInv, Untroubled, NEW z \in Zones
    PROVE  /\ QuietZone(zone[z], dev[z], io[z]) /\ faults = 0
           /\ View(z) \in ViewState /\ View(z).zone = zone[z] /\ View(z).sb = sb
           /\ zone[z] \in ZoneState /\ dev[z] \in DevState /\ FullOK(dev[z])
           /\ io[z] \in Seq(WriteState) /\ Len(io[z]) \in Nat
           /\ DOMAIN io[z] = 1 .. Len(io[z])
           /\ \A k \in 1 .. Len(io[z]) :
                 io[z][k] \in WriteState /\ io[z][k].pos \in 0 .. Capacity
                 /\ io[z][k].n \in 1 .. Capacity /\ End(io[z][k]) \in 0 .. Capacity
           /\ zone[z].i_size \in 0 .. Capacity /\ zone[z].z_wpoffset \in 0 .. Capacity
           /\ dev[z].wp \in 0 .. Capacity
  <1>1. /\ QuietZone(zone[z], dev[z], io[z]) /\ faults = 0
        /\ View(z) \in ViewState /\ View(z).zone = zone[z] /\ View(z).sb = sb
        /\ zone[z] \in ZoneState /\ dev[z] \in DevState /\ FullOK(dev[z])
        /\ io[z] \in Seq(WriteState)
    BY Typed DEF QuietInv, Untroubled
  <1>2. Len(io[z]) \in Nat /\ DOMAIN io[z] = 1 .. Len(io[z])
    BY <1>1, LenProperties
  <1>3. ASSUME NEW k \in 1 .. Len(io[z])
        PROVE  io[z][k] \in WriteState /\ io[z][k].pos \in 0 .. Capacity
               /\ io[z][k].n \in 1 .. Capacity /\ End(io[z][k]) \in 0 .. Capacity
    <2>1. io[z][k] \in WriteState
      BY <1>1, ElementOfSeq
    <2> QED BY <2>1, ZonefsAssumption DEF WriteState, End
  <1>4. /\ zone[z].i_size \in 0 .. Capacity /\ zone[z].z_wpoffset \in 0 .. Capacity
        /\ dev[z].wp \in 0 .. Capacity
    BY <1>1 DEF ZoneState, DevState
  <1> QED BY <1>1, <1>2, <1>3, <1>4

(* A zone without writes in flight. *)
LEMMA IdleLine ==
    ASSUME NEW x, NEW d, d.wp \in Nat
    PROVE  Line(x, d, << >>) <=> x.i_size = d.wp /\ x.z_wpoffset = d.wp
  BY DEF Line, StartOf

LEMMA StillQuiet ==
    ASSUME QuietInv, IInv', UNCHANGED <<waiting, hist>>, Untroubled, NEW z \in Zones, Still(z)
    PROVE  QuietInv' /\ NoFall
  <1>1. /\ QuietZone(zone[z], dev[z], io[z])
        /\ zone[z].i_size \in 0 .. Capacity /\ dev[z].wp \in Nat
    BY QuietTypes, ZonefsAssumption
  <1>2. PICK x, d, q : x = zone'[z] /\ d = dev'[z] /\ q = io[z]
    OBVIOUS
  <1>3. /\ x.i_size = zone[z].i_size /\ x.z_wpoffset = zone[z].z_wpoffset
        /\ BadOf(x) = BadOf(zone[z]) /\ ReportedFlags(d) = ReportedFlags(dev[z])
        /\ Bad(zone[z]) /\ zone[z].i_wr_refcnt = 0 => x.i_wr_refcnt = 0
        /\ \/ d.wp = dev[z].wp /\ d.loss = dev[z].loss
           \/ d.wp = 0 /\ d.loss = "none" /\ zone[z].z_wpoffset = 0 /\ q = << >>
        /\ Alone(z) /\ sb'.rdonly = sb.rdonly /\ io'[z] = q
    BY <1>2 DEF Still
  <1>4. Bad(x) <=> Bad(zone[z])
    BY <1>3, BadBadOf
  <1>5. ASSUME ~Bad(x) PROVE Line(x, d, q)
    <2>1. Line(zone[z], dev[z], q)
      BY <1>1, <1>2, <1>4, <1>5 DEF QuietZone
    <2>2. CASE d.wp = dev[z].wp
      BY <1>3, <2>1, <2>2 DEF Line, StartOf
    <2>3. CASE d.wp = 0 /\ zone[z].z_wpoffset = 0 /\ q = << >>
      BY <1>1, <1>3, <2>1, <2>3, IdleLine
    <2> QED BY <1>3, <2>2, <2>3
  <1>6. QuietZone(x, d, q)
    BY <1>1, <1>2, <1>3, <1>4, <1>5 DEF QuietZone
  <1>7. ~(x.i_size < zone[z].i_size)
    BY <1>1, <1>3, ZonefsAssumption
  <1> QED BY <1>2, <1>3, <1>6, <1>7, QuietStep

(* The queue grows by a write at z_wpoffset. *)
LEMMA LineAppend ==
    ASSUME NEW x, NEW d, NEW q \in Seq(WriteState), NEW w \in WriteState, NEW y,
           Line(x, d, q), \A k \in 1 .. Len(q) : q[k].st # "start",
           w.pos = x.z_wpoffset, w.st = "start",
           y.i_size = x.i_size, y.z_wpoffset = x.z_wpoffset + w.n
    PROVE  Line(y, d, Append(q, w))
  <1> DEFINE r == Append(q, w)
  <1>1. PICK m \in Nat : m = Len(q)
    BY LenProperties
  <1>2. Len(r) = m + 1 /\ r[m + 1] = w /\ \A k \in 1 .. m : r[k] = q[k]
    BY <1>1, AppendProperties
  <1> HIDE DEF r
  <1>3. \A k \in 1 .. m + 1 : StartOf(r, d, k) = StartOf(q, d, k)
    BY <1>2 DEF StartOf
  <1>4. StartOf(r, d, m + 2) = End(w)
    BY <1>2 DEF StartOf
  <1>5. y.z_wpoffset = StartOf(r, d, Len(r) + 1)
    <2>1. Len(r) + 1 = m + 2
      BY <1>2
    <2> QED BY <1>4, <2>1 DEF End
  <1>6. w.pos = StartOf(r, d, m + 1)
    BY <1>1, <1>3 DEF Line
  <1>7. \A k \in 1 .. Len(r) : k = m + 1 \/ k \in 1 .. m
    BY <1>2
  <1>8. \A i \in 1 .. Len(r) : /\ r[i].st \notin {"cut", "err"}
                             /\ r[i].st = "ok" => End(r[i]) <= d.wp
    BY <1>1, <1>2, <1>7 DEF Line
  <1>9. \A i, j \in 1 .. Len(r) : i < j => r[i].st # "start"
    <2> SUFFICES ASSUME NEW i \in 1 .. Len(r), NEW j \in 1 .. Len(r), i < j
                 PROVE  r[i].st # "start"
      OBVIOUS
    <2>1. i \in 1 .. m
      BY <1>2
    <2> QED BY <1>1, <1>2, <2>1
  <1>10. \A i, j \in 1 .. Len(r) : i < j /\ r[j].st = "ok" => r[i].st = "ok"
    <2> SUFFICES ASSUME NEW i \in 1 .. Len(r), NEW j \in 1 .. Len(r), i < j, r[j].st = "ok"
                 PROVE  r[i].st = "ok"
      OBVIOUS
    <2>1. j \in 1 .. m /\ i \in 1 .. m
      BY <1>2, <1>7
    <2> QED BY <1>1, <1>2, <2>1 DEF Line
  <1>11. \A i \in 1 .. Len(r) : r[i].st # "ok" => r[i].pos = StartOf(r, d, i)
    <2> SUFFICES ASSUME NEW i \in 1 .. Len(r), r[i].st # "ok"
                 PROVE  r[i].pos = StartOf(r, d, i)
      OBVIOUS
    <2>1. CASE i = m + 1
      BY <1>2, <1>6, <2>1
    <2>2. CASE i \in 1 .. m
      <3>1. StartOf(r, d, i) = StartOf(q, d, i)
        BY <1>3, <2>2
      <3> QED BY <1>1, <1>2, <2>2, <3>1 DEF Line
    <2> QED BY <1>7, <2>1, <2>2
  <1>12. y.i_size = d.wp \/ \E i \in 1 .. Len(r) : r[i].st = "ok" /\ End(r[i]) = d.wp
    <2>1. ASSUME NEW i \in 1 .. m, q[i].st = "ok", End(q[i]) = d.wp
          PROVE  i \in 1 .. Len(r) /\ r[i].st = "ok" /\ End(r[i]) = d.wp
      BY <1>2, <2>1
    <2> QED BY <1>1, <2>1 DEF Line
  <1>13. y.i_size <= d.wp
    BY DEF Line
  <1> QED BY <1>5, <1>8, <1>9, <1>10, <1>11, <1>12, <1>13 DEF Line, r

(* The last write of the queue is submitted. *)
LEMMA LineSubmit ==
    ASSUME NEW x, NEW d, NEW q \in Seq(WriteState), NEW i \in 1 .. Len(q),
           Line(x, d, q), q[i].st = "start", NEW r, r = [q EXCEPT ![i].st = "queued"]
    PROVE  Line(x, d, r)
  <1>1. DOMAIN q = 1 .. Len(q) /\ Len(q) \in Nat
    BY LenProperties
  <1>2. Len(r) = Len(q)
    BY <1>1, StType
  <1>3. \A k \in 1 .. Len(q) : q[k] \in WriteState
    BY <1>1, ElementOfSeq
  <1>4. \A k \in 1 .. Len(q) :
           /\ r[k].st = IF k = i THEN "queued" ELSE q[k].st
           /\ r[k].pos = q[k].pos /\ r[k].n = q[k].n
    BY <1>1, <1>3 DEF WriteState
  <1>5. \A k \in 1 .. Len(q) : End(r[k]) = End(q[k]) /\ (r[k].st = "ok" <=> q[k].st = "ok")
    BY <1>4 DEF End
  <1>6. \A k \in 1 .. Len(q) + 1 : StartOf(r, d, k) = StartOf(q, d, k)
    BY <1>1, <1>5 DEF StartOf
  <1>7. StartOf(r, d, Len(r) + 1) = StartOf(q, d, Len(q) + 1)
    <2>1. Len(q) + 1 \in 1 .. Len(q) + 1
      BY <1>1
    <2> QED BY <1>2, <1>6, <2>1
  <1>8. ASSUME NEW k \in 1 .. Len(q), r[k].st # "ok"
        PROVE  r[k].pos = StartOf(r, d, k)
    <2>1. k \in 1 .. Len(q) + 1
      BY <1>1
    <2>2. q[k].st # "ok" /\ r[k].pos = q[k].pos
      BY <1>4, <1>5, <1>8
    <2> QED BY <1>6, <2>1, <2>2 DEF Line
  <1>9. ASSUME NEW k \in 1 .. Len(q), NEW j \in 1 .. Len(q), k < j
        PROVE  r[k].st # "start" /\ (r[j].st = "ok" => r[k].st = "ok")
    BY <1>4, <1>5, <1>9 DEF Line
  <1>10. \A k \in 1 .. Len(q) : r[k].st = "ok" => End(r[k]) <= d.wp
    BY <1>4, <1>5 DEF Line
  <1>13. \A k \in 1 .. Len(q) : r[k].st \notin {"cut", "err"}
    BY <1>4, <1>5 DEF Line
  <1>11. x.i_size = d.wp \/ \E k \in 1 .. Len(q) : r[k].st = "ok" /\ End(r[k]) = d.wp
    BY <1>5 DEF Line
  <1>12. x.i_size <= d.wp /\ x.z_wpoffset = StartOf(r, d, Len(r) + 1)
    BY <1>7 DEF Line
  <1> QED BY <1>2, <1>8, <1>9, <1>10, <1>11, <1>12, <1>13 DEF Line

(* The device takes the first write on its way, which is at the write       *)
(* pointer.                                                                 *)
LEMMA LineFirst ==
    ASSUME NEW x, NEW d, NEW q \in Seq(WriteState), NEW i \in 1 .. Len(q),
           Line(x, d, q), q[i].st = "queued", \A j \in 1 .. i - 1 : q[j].st # "queued"
    PROVE  /\ q[i].pos = d.wp
           /\ \A j \in 1 .. i - 1 : q[j].st = "ok"
           /\ \A j \in i + 1 .. Len(q) : q[j].st # "ok"
  <1>1. DOMAIN q = 1 .. Len(q) /\ Len(q) \in Nat
    BY LenProperties
  <1>2. \A k \in 1 .. Len(q) : q[k].st \in {"start", "queued", "cut", "ok", "err"}
    <2>1. \A k \in 1 .. Len(q) : q[k] \in WriteState
      BY <1>1, ElementOfSeq
    <2> QED BY <2>1 DEF WriteState
  <1>3. ASSUME NEW j \in 1 .. i - 1 PROVE q[j].st = "ok"
    <2>1. j \in 1 .. Len(q) /\ j < i
      BY <1>1
    <2> QED BY <1>2, <2>1 DEF Line
  <1>4. ASSUME NEW j \in i + 1 .. Len(q) PROVE q[j].st # "ok"
    <2>1. j \in 1 .. Len(q) /\ i < j
      BY <1>1
    <2> QED BY <2>1 DEF Line
  <1>5. q[i].pos = StartOf(q, d, i)
    BY DEF Line
  <1>6. StartOf(q, d, i) = d.wp
    <2>1. i # 1 => i - 1 \in 1 .. i - 1
      BY <1>1
    <2> QED BY <1>3, <2>1 DEF StartOf
  <1> QED BY <1>3, <1>4, <1>5, <1>6

LEMMA LineDevice ==
    ASSUME NEW x, NEW d, NEW e, NEW q \in Seq(WriteState), NEW i \in 1 .. Len(q),
           Line(x, d, q), q[i].st = "queued", \A j \in 1 .. i - 1 : q[j].st # "queued",
           NEW r, r = [q EXCEPT ![i].st = "ok"], e.wp = d.wp + q[i].n,
           d.wp \in Nat, x.i_size \in Nat
    PROVE  Line(x, e, r)
  <1>1. DOMAIN q = 1 .. Len(q) /\ Len(q) \in Nat
    BY LenProperties
  <1>2. Len(r) = Len(q)
    BY <1>1, StType
  <1>3. \A k \in 1 .. Len(q) : q[k] \in WriteState
    BY <1>1, ElementOfSeq
  <1>4. \A k \in 1 .. Len(q) :
           /\ r[k].st = IF k = i THEN "ok" ELSE q[k].st
           /\ r[k].pos = q[k].pos /\ r[k].n = q[k].n
    BY <1>1, <1>3 DEF WriteState
  <1>5. \A k \in 1 .. Len(q) : End(r[k]) = End(q[k]) /\ End(q[k]) \in Int
    <2> TAKE k \in 1 .. Len(q)
    <2>1. q[k].pos \in Int /\ q[k].n \in Int
      BY <1>3, ZonefsAssumption DEF WriteState
    <2> QED BY <1>4, <2>1 DEF End
  <1>6. /\ q[i].pos = d.wp /\ \A j \in 1 .. i - 1 : q[j].st = "ok"
        /\ \A j \in i + 1 .. Len(q) : q[j].st # "ok"
    BY LineFirst
  <1>7. e.wp = End(q[i]) /\ e.wp \in Nat /\ d.wp <= e.wp
    <2>1. PICK w \in WriteState : w = q[i]
      BY <1>3
    <2>2. w.n \in Nat
      BY ZonefsAssumption DEF WriteState
    <2>3. e.wp = d.wp + w.n /\ End(q[i]) = d.wp + w.n
      BY <1>6, <2>1 DEF End
    <2> QED BY <2>2, <2>3
  <1>8. ASSUME NEW k \in i + 1 .. Len(q) + 1
        PROVE  StartOf(r, e, k) = StartOf(q, d, k)
    <2>1. k - 1 \in 1 .. Len(q) /\ k # 1 /\ (k - 1 = i \/ k - 1 \in i + 1 .. Len(q))
      BY <1>1
    <2>2. CASE k - 1 = i
      BY <1>4, <1>7, <2>1, <2>2 DEF StartOf
    <2>3. CASE k - 1 \in i + 1 .. Len(q)
      <3>1. q[k - 1].st # "ok" /\ k - 1 # i
        BY <1>1, <1>6, <2>3
      <3> QED BY <1>4, <1>5, <2>1, <3>1 DEF StartOf
    <2> QED BY <2>1, <2>2, <2>3
  <1>9. x.z_wpoffset = StartOf(r, e, Len(r) + 1)
    <2>1. Len(q) + 1 \in i + 1 .. Len(q) + 1
      BY <1>1
    <2> QED BY <1>2, <1>8, <2>1 DEF Line
  <1>10. ASSUME NEW k \in 1 .. Len(q), r[k].st # "ok"
         PROVE  r[k].pos = StartOf(r, e, k)
    <2>1. k \in i + 1 .. Len(q) + 1 /\ q[k].st # "ok"
      <3>1. k # i /\ ~(k \in 1 .. i - 1)
        BY <1>4, <1>6, <1>10
      <3> QED BY <1>1, <1>4, <1>10, <3>1
    <2> QED BY <1>4, <1>8, <2>1 DEF Line
  <1>11. ASSUME NEW k \in 1 .. Len(q), r[k].st = "ok"
         PROVE  End(r[k]) <= e.wp
    <2>1. CASE k = i
      <3>1. End(r[k]) = e.wp
        BY <1>5, <1>7, <2>1
      <3> QED BY <1>7, <3>1
    <2>2. CASE k # i
      <3>1. End(q[k]) <= d.wp
        BY <1>4, <1>11, <2>2 DEF Line
      <3> QED BY <1>5, <1>7, <3>1
    <2> QED BY <2>1, <2>2
  <1>12. ASSUME NEW k \in 1 .. Len(q), NEW j \in 1 .. Len(q), k < j, r[j].st = "ok"
         PROVE  r[k].st = "ok"
    <2>1. ~(j \in i + 1 .. Len(q))
      BY <1>1, <1>4, <1>6, <1>12
    <2>2. k \in 1 .. i - 1
      BY <1>1, <1>12, <2>1
    <2> QED BY <1>4, <1>6, <2>2
  <1>13. x.i_size <= e.wp
    <2>1. x.i_size <= d.wp
      BY DEF Line
    <2> QED BY <1>7, <2>1
  <1>14. \A k \in 1 .. Len(q) : r[k].st = "start" => q[k].st = "start"
    BY <1>4 DEF Line
  <1>17. \A k \in 1 .. Len(q) : r[k].st \notin {"cut", "err"}
    BY <1>4 DEF Line
  <1>15. r[i].st = "ok" /\ End(r[i]) = e.wp
    BY <1>4, <1>5, <1>7
  <1>16. \A k, j \in 1 .. Len(q) : k < j => r[k].st # "start"
    BY <1>14 DEF Line
  <1> QED BY <1>2, <1>9, <1>10, <1>11, <1>12, <1>13, <1>15, <1>16, <1>17 DEF Line

(* A write that succeeded leaves the queue. *)
LEMMA LineRemove ==
    ASSUME NEW x, NEW d, NEW q \in Seq(WriteState), NEW i \in 1 .. Len(q),
           Line(x, d, q), q[i].st = "ok", NEW y,
           y.i_size = (IF x.i_size < End(q[i]) THEN End(q[i]) ELSE x.i_size),
           y.z_wpoffset = x.z_wpoffset, d.wp \in Nat, x.i_size \in Nat
    PROVE  Line(y, d, RemoveAt(q, i))
  <1>1. PICK m \in Nat : m = Len(q) /\ DOMAIN q = 1 .. m
    BY LenProperties
  <1>2. PICK r : r = RemoveAt(q, i)
    OBVIOUS
  <1>3. /\ r \in Seq(WriteState) /\ Len(r) = m - 1 /\ i \in 1 .. m
        /\ \A k \in 1 .. m - 1 : r[k] = IF k < i THEN q[k] ELSE q[k + 1]
    BY <1>1, <1>2, RemoveType
  <1>4. End(q[i]) \in Int
    <2>1. PICK w \in WriteState : w = q[i]
      BY <1>1, <1>3, ElementOfSeq
    <2>2. w.pos \in Int /\ w.n \in Int
      BY ZonefsAssumption DEF WriteState
    <2> QED BY <2>1, <2>2 DEF End
  <1>5. /\ x.i_size <= d.wp
        /\ \A k \in 1 .. m : q[k].st = "ok" => End(q[k]) <= d.wp
        /\ \A k \in 1 .. m : q[k].st # "ok" => q[k].pos = StartOf(q, d, k)
        /\ \A k, j \in 1 .. m : k < j => q[k].st # "start" /\ (q[j].st = "ok" => q[k].st = "ok")
        /\ x.z_wpoffset = StartOf(q, d, m + 1)
        /\ x.i_size = d.wp \/ \E k \in 1 .. m : q[k].st = "ok" /\ End(q[k]) = d.wp
    BY <1>1 DEF Line
  <1> DEFINE from(k) == IF k < i THEN k ELSE k + 1
  <1>6. /\ \A k \in 1 .. m - 1 : from(k) \in 1 .. m /\ r[k] = q[from(k)]
        /\ \A j, k \in 1 .. m - 1 : j < k => from(j) < from(k)
        /\ \A k \in 1 .. m : k # i => \E j \in 1 .. m - 1 : from(j) = k
    <2>1. ASSUME NEW k \in 1 .. m - 1 PROVE from(k) \in 1 .. m /\ r[k] = q[from(k)]
      BY <1>1, <1>3
    <2>2. ASSUME NEW j \in 1 .. m - 1, NEW k \in 1 .. m - 1, j < k PROVE from(j) < from(k)
      BY <1>1, <1>3, <2>2
    <2>3. ASSUME NEW k \in 1 .. m, k # i PROVE \E j \in 1 .. m - 1 : from(j) = k
      <3>1. CASE k < i
        <4>1. k \in 1 .. m - 1
          BY <1>1, <1>3, <3>1
        <4> QED BY <3>1, <4>1
      <3>2. CASE ~(k < i)
        <4>1. k - 1 \in 1 .. m - 1 /\ ~(k - 1 < i) /\ (k - 1) + 1 = k
          BY <1>1, <1>3, <2>3, <3>2
        <4> QED BY <4>1
      <3> QED BY <3>1, <3>2
    <2> QED BY <2>1, <2>2, <2>3
  <1>7. ASSUME NEW k \in i .. m
        PROVE  StartOf(r, d, k) = StartOf(q, d, k + 1)
    <2>1. k \in 1 .. m /\ k + 1 # 1 /\ (k + 1) - 1 = k
      BY <1>1, <1>3
    <2>2. CASE k = i
      <3>1. StartOf(q, d, k + 1) = d.wp
        BY <2>1, <2>2 DEF StartOf
      <3>2. k # 1 => k - 1 \in 1 .. m - 1 /\ k - 1 < i /\ k - 1 \in 1 .. m
        BY <1>1, <1>3, <2>2
      <3>3. k # 1 => r[k - 1].st = "ok"
        BY <1>3, <1>5, <3>2
      <3> QED BY <3>1, <3>3 DEF StartOf
    <2>3. CASE k # i
      <3>1. k # 1 /\ k - 1 \in 1 .. m - 1 /\ ~(k - 1 < i) /\ (k - 1) + 1 = k
        BY <1>1, <1>3, <2>3
      <3>2. r[k - 1] = q[k]
        BY <1>3, <3>1
      <3> QED BY <2>1, <3>1, <3>2 DEF StartOf
    <2> QED BY <2>2, <2>3
  <1>8. y.z_wpoffset = StartOf(r, d, Len(r) + 1)
    <2>1. m \in i .. m /\ Len(r) + 1 = m
      BY <1>1, <1>3
    <2> QED BY <1>5, <1>7, <2>1
  <1>9. ASSUME NEW k \in 1 .. m - 1, r[k].st # "ok"
        PROVE  r[k].pos = StartOf(r, d, k)
    <2>1. ~(k < i)
      <3>1. k < i => q[k].st = "ok"
        BY <1>1, <1>3, <1>5
      <3> QED BY <1>3, <1>9, <3>1
    <2>2. k \in i .. m /\ k + 1 \in 1 .. m
      BY <1>1, <1>3, <2>1
    <2>3. r[k] = q[k + 1]
      BY <1>3, <2>1
    <2> QED BY <1>5, <1>7, <1>9, <2>2, <2>3
  <1>10. y.i_size <= d.wp
    BY <1>3, <1>4, <1>5
  <1>11. \A k \in 1 .. m - 1 : r[k].st = "ok" => End(r[k]) <= d.wp
    <2> HIDE DEF from
    <2> QED BY <1>5, <1>6
  <1>15. ASSUME NEW k \in 1 .. m - 1
         PROVE  r[k].st \notin {"cut", "err"}
    <2>1. PICK j \in 1 .. m : r[k] = q[j]
      BY <1>6
    <2>2. q[j].st \notin {"cut", "err"}
      BY <1>1 DEF Line
    <2> QED BY <2>1, <2>2
  <1>12. ASSUME NEW k \in 1 .. m - 1, NEW j \in 1 .. m - 1, k < j
         PROVE  r[k].st # "start" /\ (r[j].st = "ok" => r[k].st = "ok")
    <2> HIDE DEF from
    <2> QED BY <1>5, <1>6, <1>12
  <1>13. y.i_size = d.wp \/ \E k \in 1 .. m - 1 : r[k].st = "ok" /\ End(r[k]) = d.wp
    <2>1. CASE x.i_size = d.wp
      BY <1>3, <1>4, <1>5, <2>1
    <2>2. ASSUME NEW k \in 1 .. m, q[k].st = "ok", End(q[k]) = d.wp, x.i_size # d.wp
          PROVE  y.i_size = d.wp \/ \E j \in 1 .. m - 1 : r[j].st = "ok" /\ End(r[j]) = d.wp
      <3>1. CASE k = i
        BY <1>4, <1>5, <2>2, <3>1
      <3>2. CASE k # i
        <4>1. PICK j \in 1 .. m - 1 : from(j) = k
          BY <1>6, <3>2
        <4>2. r[j] = q[k]
          BY <1>6, <4>1
        <4> QED BY <2>2, <4>2
      <3> QED BY <3>1, <3>2
    <2> QED BY <1>5, <2>1, <2>2
  <1>14. Line(y, d, r)
    <2> HIDE DEF from
    <2>1. Len(r) = m - 1
      BY <1>3
    <2>2. \A k \in 1 .. Len(r) :
             /\ r[k].st \notin {"cut", "err"}
             /\ r[k].st = "ok" => End(r[k]) <= d.wp
             /\ r[k].st # "ok" => r[k].pos = StartOf(r, d, k)
      BY <1>9, <1>11, <1>15, <2>1
    <2>3. \A k, j \in 1 .. Len(r) :
             k < j => r[k].st # "start" /\ (r[j].st = "ok" => r[k].st = "ok")
      BY <1>12, <2>1
    <2>4. y.i_size = d.wp \/ \E k \in 1 .. Len(r) : r[k].st = "ok" /\ End(r[k]) = d.wp
      BY <1>13, <2>1
    <2> QED BY <1>8, <1>10, <2>2, <2>3, <2>4 DEF Line
  <1> QED BY <1>2, <1>14

LEMMA WriteQuiet ==
    ASSUME QuietInv, IInv', UNCHANGED hist, Untroubled, NEW z \in Zones, NEW n \in 1 .. Capacity,
           NEW sync \in BOOLEAN, zonefs_file_dio_write(z, n, sync)
    PROVE  QuietInv' /\ NoFall
  <1>1. /\ QuietZone(zone[z], dev[z], io[z]) /\ io[z] \in Seq(WriteState)
        /\ DOMAIN io[z] = 1 .. Len(io[z])
        /\ zone[z].i_size \in 0 .. Capacity /\ zone[z].z_wpoffset \in 0 .. Capacity
    BY QuietTypes
  <1>2. /\ ~InodeLocked(z) /\ zone[z].z_wpoffset + n <= Capacity
        /\ z \in waiting /\ waiting' \subseteq waiting /\ ~Bad(zone[z])
    BY DEF zonefs_file_dio_write, Locks, QuietInv
  <1>3. PICK w : w = [pos |-> zone[z].z_wpoffset, n |-> n, sync |-> sync, st |-> "start"]
    OBVIOUS
  <1>4. w \in WriteState /\ w.pos = zone[z].z_wpoffset /\ w.n = n /\ w.st = "start"
    BY <1>1, <1>2, <1>3 DEF WriteState
  <1>5. PICK x, q : x = zone'[z] /\ q = io[z]
    OBVIOUS
  <1>6. /\ Alone(z) /\ UNCHANGED dev /\ io'[z] = Append(q, w)
        /\ x.i_size = zone[z].i_size /\ x.z_wpoffset = zone[z].z_wpoffset + n
        /\ BadOf(x) = BadOf(zone[z]) /\ sb'.rdonly = sb.rdonly
    BY <1>3, <1>5, WriteStep DEF QuietInv
  <1>7. \A k \in 1 .. Len(q) : q[k].st # "start"
    BY <1>1, <1>2, <1>5 DEF InodeLocked
  <1>8. Line(zone[z], dev[z], q) /\ q \in Seq(WriteState)
    BY <1>1, <1>2, <1>5 DEF QuietZone
  <1>9. Line(x, dev[z], Append(q, w))
    BY <1>4, <1>6, <1>7, <1>8, LineAppend
  <1>10. ~Bad(x) /\ BadOf(x) = ReportedFlags(dev[z]) /\ dev[z].loss # "unseen"
    BY <1>1, <1>2, <1>6, BadBadOf DEF QuietZone
  <1>11. QuietZone(x, dev[z], Append(q, w))
    BY <1>9, <1>10 DEF QuietZone
  <1>12. ~(x.i_size < zone[z].i_size)
    BY <1>1, <1>6, ZonefsAssumption
  <1> QED BY <1>2, <1>5, <1>6, <1>11, <1>12, QuietStep

(* A writer that passes the checks, or leaves before its write. *)
LEMMA WriterQuiet ==
    ASSUME QuietInv, IInv', UNCHANGED hist, Untroubled, NEW z \in Zones,
           zonefs_file_write_iter(z) \/ WriteRefused(z)
    PROVE  QuietInv' /\ NoFall
  <1>1. UNCHANGED <<zone, sb, dev, io, faults>>
    BY DEF zonefs_file_write_iter, WriteRefused
  <1>2. /\ waiting \in SUBSET Zones /\ \A y \in waiting : ~Bad(zone[y])
        /\ \A y \in waiting' : y \in waiting \/ (y = z /\ ~Bad(zone[z]))
    BY DEF QuietInv, HistTypes, zonefs_file_write_iter, WriteRefused, Locks
  <1>3. \A y \in waiting' : ~Bad(zone'[y]) /\ y \in Zones
    BY <1>1, <1>2
  <1>4. \A y \in Zones : zone[y].i_size \in Int
    BY QuietTypes, ZonefsAssumption
  <1>5. \A y \in Zones : ~(zone[y].i_size < zone[y].i_size)
    BY <1>4
  <1>6. NoFall
    BY <1>1, <1>5 DEF NoFall
  <1>7. HistTypes'
    BY <1>3 DEF QuietInv, HistTypes
  <1> QED BY <1>1, <1>3, <1>6, <1>7 DEF QuietInv

LEMMA SubmitQuiet ==
    ASSUME QuietInv, IInv', UNCHANGED <<waiting, hist>>, Untroubled, NEW z \in Zones, iomap_dio_rw(z)
    PROVE  QuietInv' /\ NoFall
  <1>1. /\ QuietZone(zone[z], dev[z], io[z]) /\ io[z] \in Seq(WriteState)
        /\ DOMAIN io[z] = 1 .. Len(io[z]) /\ zone[z].i_size \in 0 .. Capacity
    BY QuietTypes
  <1>2. Alone(z) /\ UNCHANGED <<zone, sb, dev, faults>>
    BY SubmitStep DEF QuietInv
  <1>3. PICK i \in DOMAIN io[z] :
          io[z][i].st = "start" /\ io'[z] = [io[z] EXCEPT ![i].st = "queued"]
    BY SubmitStep DEF QuietInv
  <1>4. PICK q, r : q = io[z] /\ r = io'[z]
    OBVIOUS
  <1>5. /\ q \in Seq(WriteState) /\ i \in 1 .. Len(q) /\ q[i].st = "start"
        /\ r = [q EXCEPT ![i].st = "queued"] /\ q # << >>
    BY <1>1, <1>3, <1>4
  <1>6. ~Bad(zone[z]) /\ Line(zone[z], dev[z], q)
    BY <1>1, <1>4, <1>5 DEF QuietZone
  <1>7. Line(zone[z], dev[z], r)
    BY <1>5, <1>6, LineSubmit
  <1>8. QuietZone(zone[z], dev[z], r)
    BY <1>1, <1>6, <1>7 DEF QuietZone
  <1>9. ~(zone[z].i_size < zone[z].i_size)
    BY <1>1, ZonefsAssumption
  <1> QED BY <1>2, <1>4, <1>8, <1>9, QuietStep

LEMMA DeviceQuiet ==
    ASSUME QuietInv, IInv', UNCHANGED <<waiting, hist>>, Untroubled, faults' = 0, NEW z \in Zones, DeviceWrite(z)
    PROVE  QuietInv' /\ NoFall
  <1>1. /\ QuietZone(zone[z], dev[z], io[z]) /\ io[z] \in Seq(WriteState)
        /\ dev[z] \in DevState /\ FullOK(dev[z])
        /\ DOMAIN io[z] = 1 .. Len(io[z]) /\ zone[z].i_size \in 0 .. Capacity
        /\ dev[z].wp \in 0 .. Capacity
        /\ \A k \in 1 .. Len(io[z]) : io[z][k] \in WriteState
    BY QuietTypes
  <1>2. /\ Alone(z) /\ UNCHANGED <<zone, sb>>
        /\ ReportedFlags(dev'[z]) = ReportedFlags(dev[z]) /\ dev'[z].loss = dev[z].loss
    BY DeviceStep DEF QuietInv
  <1>3. PICK i \in DOMAIN io[z] :
                 /\ io[z][i].st \in Submitted /\ \A j \in 1 .. i - 1 : io[z][j].st \notin Submitted
                 /\ \/ /\ Writable(dev[z], io[z][i]) /\ io[z][i].st = "queued"
                       /\ io'[z] = [io[z] EXCEPT ![i].st = "ok"]
                       /\ dev'[z].wp = dev[z].wp + io[z][i].n
                    \/ /\ Writable(dev[z], io[z][i])
                       /\ io'[z] = [io[z] EXCEPT ![i].st = "err"]
                       /\ \E k \in 0 .. io[z][i].n : dev'[z].wp = dev[z].wp + k
                       /\ faults' = faults + 1 \/ io[z][i].st = "cut"
                    \/ /\ ~Writable(dev[z], io[z][i])
                       /\ io'[z] = [io[z] EXCEPT ![i].st = "err"]
                       /\ dev'[z] = dev[z]
    <2>1. IInv
      BY DEF QuietInv
    <2> QED BY <2>1, DeviceStep
  <1>4. PICK q, r, d, e : q = io[z] /\ r = io'[z] /\ d = dev[z] /\ e = dev'[z]
    OBVIOUS
  <1>5. /\ q \in Seq(WriteState) /\ i \in 1 .. Len(q) /\ q # << >> /\ q[i] \in WriteState
        /\ q[i].st \in Submitted /\ \A j \in 1 .. i - 1 : q[j].st \notin Submitted
    BY <1>1, <1>3, <1>4
  <1>6. ~Bad(zone[z]) /\ Line(zone[z], d, q)
    BY <1>1, <1>4, <1>5 DEF QuietZone
  <1>14. q[i].st = "queued" /\ \A j \in 1 .. i - 1 : q[j].st # "queued"
    BY <1>5, <1>6 DEF Line, Submitted
  <1>7. q[i].pos = d.wp
    BY <1>5, <1>6, <1>14, LineFirst
  <1>8. Writable(d, q[i])
    <2>1. d.cond \notin BadFlags
      BY <1>1, <1>4, <1>6, BadBadOf, ReportedBad DEF QuietZone
    <2>2. d.wp # Capacity
      BY <1>5, <1>7, ZonefsAssumption DEF WriteState
    <2> QED BY <1>1, <1>4, <1>7, <2>1, <2>2 DEF Writable, FullOK
  <1>9. r = [q EXCEPT ![i].st = "ok"] /\ e.wp = d.wp + q[i].n
    <2>1. faults' # faults + 1
      BY DEF Untroubled
    <2> QED BY <1>3, <1>4, <1>8, <1>14, <2>1
  <1>10. d.wp \in Nat /\ zone[z].i_size \in Nat
    BY <1>1, <1>4, ZonefsAssumption
  <1>11. Line(zone[z], e, r)
    BY <1>5, <1>6, <1>9, <1>10, <1>14, LineDevice
  <1>12. QuietZone(zone[z], e, r)
    BY <1>1, <1>2, <1>4, <1>6, <1>11 DEF QuietZone
  <1>13. ~(zone[z].i_size < zone[z].i_size)
    BY <1>10
  <1> QED BY <1>2, <1>4, <1>12, <1>13, QuietStep

LEMMA EndIoQuiet ==
    ASSUME QuietInv, IInv', UNCHANGED <<waiting, hist>>, Untroubled, NEW z \in Zones, NEW i \in DOMAIN io[z],
           zonefs_file_write_dio_end_io(z, i)
    PROVE  QuietInv' /\ NoFall
  <1>1. /\ QuietZone(zone[z], dev[z], io[z]) /\ io[z] \in Seq(WriteState)
        /\ DOMAIN io[z] = 1 .. Len(io[z]) /\ zone[z].i_size \in 0 .. Capacity
        /\ dev[z].wp \in 0 .. Capacity
        /\ \A k \in 1 .. Len(io[z]) : End(io[z][k]) \in 0 .. Capacity
    BY QuietTypes
  <1>2. PICK x, q : x = zone'[z] /\ q = io[z]
    OBVIOUS
  <1>3. /\ Alone(z) /\ UNCHANGED dev /\ io'[z] = RemoveAt(q, i) /\ q[i].st = "ok"
        /\ x.i_size = (IF zone[z].i_size < End(q[i]) THEN End(q[i]) ELSE zone[z].i_size)
        /\ x.z_wpoffset = zone[z].z_wpoffset /\ BadOf(x) = BadOf(zone[z])
        /\ sb'.rdonly = sb.rdonly
    BY <1>2, EndIoStep DEF QuietInv, End
  <1>4. q \in Seq(WriteState) /\ i \in 1 .. Len(q) /\ q # << >>
    BY <1>1, <1>2
  <1>5. ~Bad(zone[z]) /\ Line(zone[z], dev[z], q)
    BY <1>1, <1>2, <1>4 DEF QuietZone
  <1>6. dev[z].wp \in Nat /\ zone[z].i_size \in Nat /\ End(q[i]) \in Nat
    BY <1>1, <1>2, <1>4, ZonefsAssumption
  <1>7. Line(x, dev[z], RemoveAt(q, i))
    BY <1>3, <1>4, <1>5, <1>6, LineRemove
  <1>8. ~Bad(x) /\ BadOf(x) = ReportedFlags(dev[z]) /\ dev[z].loss # "unseen"
    BY <1>1, <1>3, <1>5, BadBadOf DEF QuietZone
  <1>9. QuietZone(x, dev[z], RemoveAt(q, i))
    BY <1>7, <1>8 DEF QuietZone
  <1>10. ~(x.i_size < zone[z].i_size)
    BY <1>3, <1>6
  <1> QED BY <1>2, <1>3, <1>9, <1>10, QuietStep

LEMMA ErrorCost ==
    ASSUME NEW s, NEW d, NEW write, NEW e \in io_error(s, d, write)
    PROVE  e.cost \in Nat
  BY DEF io_error

(* A zone of a device that has not failed is closed when it is asked to. *)
LEMMA CloseQuiet ==
    ASSUME QuietInv, IInv', UNCHANGED <<waiting, hist>>, Untroubled, faults' = 0, NEW z \in Zones, NEW fails \in BOOLEAN,
           zonefs_seq_file_write_close(z, fails)
    PROVE  QuietInv' /\ NoFall
  <1>1. ASSUME NEW r \in zonefs_zone_mgmt(z, zone[z], dev[z], "CLOSE"),
               CloseFails(z, r), LastReference(z)
        PROVE  FALSE
    <2>1. /\ QuietZone(zone[z], dev[z], io[z]) /\ View(z) \in ViewState
          /\ View(z).zone = zone[z] /\ View(z).sb = sb
          /\ zone[z] \in ZoneState /\ dev[z] \in DevState /\ faults = 0
      BY QuietTypes
    <2>2. View(z).zone.i_wr_refcnt > 0 /\ zone[z].i_wr_refcnt # 0
      BY <1>1, <2>1 DEF LastReference
    <2>3. PICK s \in ViewState : s = Released(View(z))
      BY <2>1, <2>2, ReleasedFields
    <2>4. PICK e \in io_error(s, dev[z], FALSE) : Cost(r.cost + e.cost)
      BY <1>1, <2>3 DEF CloseFails
    <2>5. ~r.ok /\ r.cost \in Nat /\ (r.cost = 0 => dev[z].cond \in BadFlags)
      BY <1>1, <2>1, MgmtWp DEF CloseFails, Ops
    <2>6. e.cost \in Nat
      BY ErrorCost
    <2>7. r.cost = 0
      BY <2>1, <2>4, <2>5, <2>6 DEF Cost
    <2>8. Bad(zone[z])
      BY <2>1, <2>5, <2>7, BadBadOf, ReportedBad DEF QuietZone
    <2> QED BY <2>1, <2>2, <2>8 DEF QuietZone
  <1>2. Still(z)
    BY <1>1, CloseStill DEF QuietInv
  <1> QED BY <1>2, StillQuiet

LEMMA TruncateQuiet ==
    ASSUME QuietInv, IInv', UNCHANGED <<waiting, hist>>, Untroubled, NEW z \in Zones, NEW isize \in {0, Capacity},
           io[z] = << >>, zonefs_file_truncate(z, isize)
    PROVE  QuietInv' /\ NoFall
  <1>1. CASE Still(z)
    BY <1>1, StillQuiet
  <1>2. CASE /\ Alone(z) /\ UNCHANGED io
             /\ zone'[z].i_size = isize /\ zone'[z].z_wpoffset = isize /\ dev'[z].wp = isize
             /\ BadOf(zone'[z]) = BadOf(zone[z])
             /\ zone'[z].i_wr_refcnt = zone[z].i_wr_refcnt
             /\ ReportedFlags(dev'[z]) = ReportedFlags(dev[z]) /\ dev'[z].loss = "none"
             /\ sb'.rdonly = sb.rdonly
    <2>1. QuietZone(zone[z], dev[z], io[z]) /\ zone[z].i_size \in 0 .. Capacity
      BY QuietTypes
    <2>2. PICK x, d : x = zone'[z] /\ d = dev'[z]
      OBVIOUS
    <2>3. Line(x, d, << >>)
      BY <1>2, <2>2, IdleLine, ZonefsAssumption
    <2>4. Bad(x) <=> Bad(zone[z])
      BY <1>2, <2>2, BadBadOf
    <2>5. QuietZone(x, d, << >>)
      BY <1>2, <2>1, <2>2, <2>3, <2>4 DEF QuietZone
    <2>6. isize = 0 \/ ~(isize < zone[z].i_size)
      BY <2>1, ZonefsAssumption
    <2> QED BY <1>2, <2>2, <2>5, <2>6, QuietStep
  <1> QED BY <1>1, <1>2, TruncateStep DEF QuietInv

LEMMA InodeQuiet ==
    ASSUME QuietInv, IInv', UNCHANGED <<waiting, hist>>, Untroubled, NEW z \in Zones, zonefs_get_file_inode(z)
    PROVE  QuietInv' /\ NoFall
  <1>1. /\ QuietZone(zone[z], dev[z], io[z]) /\ zone[z] \in ZoneState /\ dev[z].wp \in Nat
    BY QuietTypes, ZonefsAssumption
  <1>2. /\ io[z] = << >> /\ UNCHANGED <<sb, dev, io, faults>>
        /\ zone' = [zone EXCEPT ![z] = [zone[z] EXCEPT !.i_size = zone[z].z_wpoffset]]
    BY DEF zonefs_get_file_inode
  <1>3. zone[z].i_size = zone[z].z_wpoffset
    BY <1>1, <1>2, IdleLine DEF QuietZone
  <1>4. [zone[z] EXCEPT !.i_size = zone[z].z_wpoffset] = zone[z]
    BY <1>1, <1>3 DEF ZoneState
  <1>5. zone' = zone
    BY <1>2, <1>4 DEF QuietInv, IInv, CoreTypes
  <1> QED BY <1>2, <1>5, IdleStill, StillQuiet DEF QuietInv

(* No write, read or flush fails while the device has not. *)
LEMMA NoErrors ==
    ASSUME QuietInv, Untroubled, faults' = 0, NEW z \in Zones
    PROVE  /\ \A i \in DOMAIN io[z] : ~WriteError(z, i)
           /\ ~ReadError(z) /\ ~zonefs_file_fsync(z) /\ \A c \in BadFlags : ~ZoneFails(z, c)
           /\ \A k \in 0 .. Capacity - 1 : ~DeviceLoses(z, k)
  <1>1. /\ QuietZone(zone[z], dev[z], io[z]) /\ DOMAIN io[z] = 1 .. Len(io[z])
        /\ Len(io[z]) \in Nat /\ faults = 0
    BY QuietTypes
  <1>2. ASSUME NEW i \in DOMAIN io[z], WriteError(z, i) PROVE FALSE
    <2>1. io[z] # << >> /\ io[z][i].st = "err"
      BY <1>1, <1>2 DEF WriteError
    <2> QED BY <1>1, <2>1 DEF QuietZone, Line
  <1>3. ASSUME NEW write, HandleError(z, View(z), write, NewFault(z))
        PROVE  dev[z].cond = "OFFLINE" /\ "OFFLINE" \in zone[z].flags
    <2>1. PICK e \in io_error(View(z), dev[z], write) : Cost(e.cost + NewFault(z))
      BY <1>3 DEF HandleError
    <2>2. e.cost \in Nat /\ NewFault(z) \in Nat
      BY ErrorCost, NewFaultNat
    <2>3. NewFault(z) = 0
      BY <1>1, <2>1, <2>2 DEF Cost
    <2>4. dev[z].cond = "OFFLINE"
      BY <1>1, <2>3 DEF NewFault, QuietZone
    <2>5. "OFFLINE" \in ReportedFlags(dev[z])
      BY <2>4 DEF ReportedFlags, BadFlags
    <2> QED BY <1>1, <2>4, <2>5 DEF QuietZone, BadOf
  <1>4. ~ReadError(z)
    BY <1>3 DEF ReadError
  <1>5. ~zonefs_file_fsync(z)
    BY <1>3 DEF zonefs_file_fsync, Bad, BadFlags
  <1>6. ASSUME NEW c \in BadFlags, ZoneFails(z, c) PROVE FALSE
    BY <1>1, <1>6 DEF ZoneFails, Cost
  <1>7. ASSUME NEW k \in 0 .. Capacity - 1, DeviceLoses(z, k) PROVE FALSE
    BY <1>1, <1>7 DEF DeviceLoses, Cost
  <1> QED BY <1>2, <1>4, <1>5, <1>6, <1>7

(* The count of failures is never taken back. *)
LEMMA CostGrows ==
    ASSUME faults \in Nat, NEW k \in Nat, Cost(k)
    PROVE  faults' >= faults
  BY DEF Cost

LEMMA MgmtCost ==
    ASSUME NEW z, NEW x, NEW d, NEW op, NEW r \in zonefs_zone_mgmt(z, x, d, op)
    PROVE  r.cost \in Nat
  BY DEF zonefs_zone_mgmt

LEMMA TruncateFaults ==
    ASSUME faults \in Nat, NEW z \in Zones, NEW isize, zonefs_file_truncate(z, isize)
    PROVE  faults' >= faults
  <1>1. PICK r \in zonefs_zone_mgmt(z, zone[z], dev[z], IF isize = 0 THEN "RESET" ELSE "FINISH") :
          \/ Cost(r.cost)
          \/ \E q \in zonefs_zone_mgmt(z, zone[z], r.d, "OPEN") : Cost(r.cost + q.cost)
    BY DEF zonefs_file_truncate
  <1>2. r.cost \in Nat
    BY MgmtCost
  <1>3. ASSUME NEW q \in zonefs_zone_mgmt(z, zone[z], r.d, "OPEN"), Cost(r.cost + q.cost)
        PROVE  faults' >= faults
    <2>1. q.cost \in Nat
      BY MgmtCost
    <2>2. r.cost + q.cost \in Nat
      BY <1>2, <2>1
    <2> QED BY <1>3, <2>2, CostGrows
  <1> QED BY <1>1, <1>2, <1>3, CostGrows

LEMMA ErrorFaults ==
    ASSUME faults \in Nat, NEW z, NEW s, NEW write, NEW k \in Nat, HandleError(z, s, write, k)
    PROVE  faults' >= faults
  <1>1. PICK e \in io_error(s, dev[z], write) : Cost(e.cost + k)
    BY DEF HandleError
  <1>2. e.cost \in Nat
    BY ErrorCost
  <1>3. e.cost + k \in Nat
    BY <1>2
  <1> QED BY <1>1, <1>3, CostGrows

LEMMA FileFaults ==
    ASSUME faults \in Nat, NEW z \in Zones, FileStep(z)
    PROVE  faults' >= faults
  <1>1. CASE zonefs_seq_file_write_open(z)
    <2>1. CASE UNCHANGED faults
      BY <2>1
    <2>2. ASSUME NEW r \in zonefs_zone_mgmt(z, zone[z], dev[z], "OPEN"), Cost(r.cost)
          PROVE  faults' >= faults
      BY <2>2, MgmtCost, CostGrows
    <2> QED BY <1>1, <2>1, <2>2 DEF zonefs_seq_file_write_open
  <1>2. CASE \E fails \in BOOLEAN : zonefs_seq_file_write_close(z, fails)
    <2>1. CASE UNCHANGED faults
      BY <2>1
    <2>2. ASSUME NEW r \in zonefs_zone_mgmt(z, zone[z], dev[z], "CLOSE"), Close(z, r)
          PROVE  faults' >= faults
      BY <2>2, MgmtCost, CostGrows DEF Close
    <2>3. ASSUME NEW r \in zonefs_zone_mgmt(z, zone[z], dev[z], "CLOSE"), CloseFails(z, r)
          PROVE  faults' >= faults
      <3>1. PICK e \in io_error(Released(View(z)), dev[z], FALSE) : Cost(r.cost + e.cost)
        BY <2>3 DEF CloseFails
      <3>2. r.cost \in Nat /\ e.cost \in Nat
        BY MgmtCost, ErrorCost
      <3>3. r.cost + e.cost \in Nat
        BY <3>2
      <3> QED BY <3>1, <3>3, CostGrows
    <2> QED BY <1>2, <2>1, <2>2, <2>3 DEF zonefs_seq_file_write_close
  <1>3. CASE \E k \in 0 .. Capacity - 1 : DeviceLoses(z, k)
    BY <1>3 DEF DeviceLoses, Cost
  <1>4. CASE iomap_dio_rw(z)
    BY <1>4 DEF iomap_dio_rw
  <1>5. CASE DeviceWrite(z)
    <2>1. Cost(0) \/ Cost(1) \/ UNCHANGED faults
      BY <1>5 DEF DeviceWrite
    <2> QED BY <2>1 DEF Cost
  <1>6. CASE \E i \in DOMAIN io[z] : zonefs_file_write_dio_end_io(z, i) \/ WriteError(z, i)
    <2>1. PICK i \in DOMAIN io[z] : zonefs_file_write_dio_end_io(z, i) \/ WriteError(z, i)
      BY <1>6
    <2>2. CASE zonefs_file_write_dio_end_io(z, i)
      BY <2>2 DEF zonefs_file_write_dio_end_io
    <2>3. CASE WriteError(z, i)
      BY <2>3, ErrorFaults DEF WriteError
    <2> QED BY <2>1, <2>2, <2>3
  <1>7. CASE \E isize \in {0, Capacity} : zonefs_inode_setattr(z, isize)
    BY <1>7, TruncateFaults DEF zonefs_inode_setattr
  <1>8. CASE \E c \in BadFlags : ZoneFails(z, c)
    BY <1>8 DEF ZoneFails, Cost
  <1> QED BY <1>1, <1>2, <1>3, <1>4, <1>5, <1>6, <1>7, <1>8 DEF FileStep

(* What has failed stays failed. *)
LEMMA StaysTroubled ==
    ASSUME faults \in Nat, faults' \in Nat, HistTypes, [SafeNext]_vars, Untroubled'
    PROVE  Untroubled
  <1>1. ASSUME faults' >= faults, hist'.aborted = hist.aborted
        PROVE  Untroubled
    BY <1>1 DEF Untroubled, HistTypes
  <1>2. ASSUME NEW z \in Zones, LocalStep(z)
        PROVE  faults' >= faults /\ hist'.aborted = hist.aborted
    <2>1. CASE FileStep(z) /\ UNCHANGED <<waiting, hist>>
      BY <2>1, FileFaults
    <2>2. CASE WriterStep(z) /\ UNCHANGED hist
      <3>1. UNCHANGED <<faults, hist>>
        BY <2>2 DEF WriterStep, zonefs_file_write_iter, WriteRefused, zonefs_file_dio_write
      <3> QED BY <3>1
    <2>3. CASE SubmissionFails(z)
      BY <2>3 DEF SubmissionFails, Untroubled, HistTypes
    <2> QED BY <1>2, <2>1, <2>2, <2>3 DEF LocalStep
  <1>3. ASSUME NEW z \in Zones, UnlockedStep(z) PROVE faults' >= faults
    BY <1>3, TruncateFaults, ErrorFaults, NewFaultNat
       DEF UnlockedStep, GCReset, ReadError, zonefs_file_fsync
  <1>4. ASSUME NEW z \in Zones, zonefs_get_file_inode(z) PROVE faults' >= faults
    BY <1>4 DEF zonefs_get_file_inode
  <1>5. ASSUME NEW e \in Errors, NEW x \in ExplicitOpts, NEW ro \in BOOLEAN,
               Restart(e, x, ro) \/ zonefs_remount(e, x, ro)
        PROVE  faults' >= faults /\ hist'.aborted = hist.aborted
    BY <1>5 DEF Restart, Cost, zonefs_remount, HistTypes
  <1>6. CASE UNCHANGED vars
    BY <1>1, <1>6 DEF vars
  <1> QED BY <1>1, <1>2, <1>3, <1>4, <1>5, <1>6 DEF SafeNext

(* A remount changes only the options and what the caller asked for. *)
LEMMA RemountQuiet ==
    ASSUME QuietInv, IInv', HistTypes', Untroubled, UNCHANGED <<zone, dev, waiting, io>>,
           sb'.rdonly => hist'.asked
    PROVE  QuietInv' /\ NoFall
  <1>1. \A z \in Zones : zone[z].i_size \in Int
    BY QuietTypes, ZonefsAssumption
  <1>2. \A z \in Zones : ~(zone[z].i_size < zone[z].i_size)
    BY <1>1
  <1>3. NoFall
    BY <1>2 DEF NoFall
  <1> QED BY <1>3 DEF QuietInv

LEMMA MountedFlags ==
    ASSUME NEW d \in DevState
    PROVE  /\ BadOf(MountedZone(d)) = ReportedFlags(d)
           /\ ReportedFlags(MountedDev(d)) = ReportedFlags(d)
           /\ MountedDev(d).loss = "none"
  <1> DEFINE x == [flags |-> ReportedFlags(d), i_wr_refcnt |-> 0, z_wpoffset |-> 0, i_size |-> 0]
             w == zonefs_check_zone_condition(x, d)
             y == [x EXCEPT !.z_wpoffset = w, !.i_size = w]
  <1>1. MountedZone(d).flags \in {ReportedFlags(d), ReportedFlags(d) \cup {"ACTIVE"}}
    <2>1. MountedZone(d) = IF IsActive(y) THEN [y EXCEPT !.flags = @ \cup {"ACTIVE"}] ELSE y
      BY DEF MountedZone
    <2>2. y.flags = ReportedFlags(d) /\ "flags" \in DOMAIN y
      <3> HIDE DEF w
      <3> QED OBVIOUS
    <2> HIDE DEF y
    <2> QED BY <2>1, <2>2
  <1>2. BadOf(MountedZone(d)) = ReportedFlags(d)
    BY <1>1 DEF BadOf, ReportedFlags, BadFlags
  <1>3. MountedDev(d).cond = d.cond \/ (d.cond \in OpenConds /\ MountedDev(d).cond \in {"CLOSED", "EMPTY"})
    BY DEF MountedDev, MgmtOp, Managed, DevState
  <1>4. ReportedFlags(MountedDev(d)) = ReportedFlags(d)
    BY <1>3 DEF ReportedFlags, BadFlags, OpenConds
  <1>5. MountedDev(d).loss = "none"
    BY DEF MountedDev, MgmtOp, Managed, DevState
  <1> QED BY <1>2, <1>4, <1>5

LEMMA InitQuiet ==
    ASSUME Init
    PROVE  QuietInv
  <1>1. PICK d \in [Zones -> StartDev], e \in Errors, x \in ExplicitOpts, ro \in BOOLEAN :
          FreshState(d, e, x, ro) /\ hist = [aborted |-> FALSE, asked |-> ro]
    BY DEF Init, FreshState
  <1>2. IInv /\ HistTypes /\ waiting = {}
    <2>1. waiting = {} /\ hist \in [aborted : BOOLEAN, asked : BOOLEAN]
      BY <1>1 DEF Init
    <2> QED BY <2>1, InitInv DEF HistTypes
  <1>3. sb.rdonly = ro /\ hist.asked = ro
    BY <1>1 DEF FreshState, Fresh, MountedSb
  <1>4. ASSUME NEW z \in Zones PROVE QuietZone(zone[z], dev[z], io[z])
    <2>1. PICK g \in DevState : g = d[z] /\ FullOK(g)
      BY StartDevOK
    <2>2. PICK y, h : y = MountedZone(g) /\ h = MountedDev(g)
      OBVIOUS
    <2>3. zone[z] = y /\ dev[z] = h /\ io[z] = << >>
      BY <1>1, <2>1, <2>2 DEF FreshState, Fresh, Init
    <2>4. /\ y \in ZoneState /\ y.i_wr_refcnt = 0 /\ y.i_size = y.z_wpoffset
          /\ y.z_wpoffset = Found(g).z_wpoffset /\ (Bad(y) <=> g.cond \in BadFlags)
      BY <2>2, MountedFields
    <2>5. h \in DevState /\ (g.cond \notin BadFlags => h.wp = Found(g).z_wpoffset)
      BY <2>1, <2>2, MountedDevOK
    <2>6. h.wp \in Nat
      BY <2>5, ZonefsAssumption DEF DevState
    <2>7. ~Bad(y) => Line(y, h, << >>)
      BY <2>4, <2>5, <2>6, IdleLine
    <2>8. BadOf(y) = ReportedFlags(h) /\ h.loss = "none"
      BY <2>2, MountedFlags
    <2>9. QuietZone(y, h, << >>)
      BY <2>4, <2>7, <2>8 DEF QuietZone
    <2> QED BY <2>3, <2>9
  <1> QED BY <1>2, <1>3, <1>4 DEF QuietInv

LEMMA QuietNext ==
    ASSUME QuietInv, [SafeNext]_vars
    PROVE  QuietInv' /\ (Untroubled' => NoFall)
  <1>1. IInv' /\ HistTypes' /\ faults \in Nat /\ faults' \in Nat /\ HistTypes
    <2>1. IInv' /\ HistTypes'
      BY SafeNextInv DEF QuietInv
    <2> QED BY <2>1 DEF QuietInv, IInv, CoreTypes
  <1>2. CASE ~Untroubled'
    BY <1>1, <1>2 DEF QuietInv
  <1>3. CASE Untroubled'
    <2>1. Untroubled /\ faults' = 0 /\ ~hist'.aborted
      BY <1>1, <1>3, StaysTroubled DEF Untroubled
    <2>2. ASSUME NEW z \in Zones, FileStep(z), UNCHANGED <<waiting, hist>>
          PROVE  QuietInv' /\ NoFall
      <3>1. CASE zonefs_seq_file_write_open(z)
        BY <1>1, <2>1, <2>2, <3>1, OpenStill, StillQuiet DEF QuietInv
      <3>2. CASE \E fails \in BOOLEAN : zonefs_seq_file_write_close(z, fails)
        BY <1>1, <2>1, <2>2, <3>2, CloseQuiet
      <3>4. CASE iomap_dio_rw(z)
        BY <1>1, <2>1, <2>2, <3>4, SubmitQuiet
      <3>5. CASE DeviceWrite(z)
        BY <1>1, <2>1, <2>2, <3>5, DeviceQuiet
      <3>6. CASE \E i \in DOMAIN io[z] : zonefs_file_write_dio_end_io(z, i) \/ WriteError(z, i)
        BY <1>1, <2>1, <2>2, <3>6, EndIoQuiet, NoErrors
      <3>7. CASE \E isize \in {0, Capacity} : zonefs_inode_setattr(z, isize)
        BY <1>1, <2>1, <2>2, <3>7, TruncateQuiet DEF zonefs_inode_setattr
      <3>8. CASE \/ \E c \in BadFlags : ZoneFails(z, c)
                 \/ \E k \in 0 .. Capacity - 1 : DeviceLoses(z, k)
        BY <2>1, <3>8, NoErrors
      <3> QED BY <2>2, <3>1, <3>2, <3>4, <3>5, <3>6, <3>7, <3>8 DEF FileStep
    <2>3. ASSUME NEW z \in Zones, LocalStep(z)
          PROVE  QuietInv' /\ NoFall
      <3>1. CASE WriterStep(z) /\ UNCHANGED hist
        BY <1>1, <2>1, <3>1, WriterQuiet, WriteQuiet DEF WriterStep, Syncs
      <3>2. ~SubmissionFails(z)
        BY <1>1, <2>1 DEF SubmissionFails, HistTypes
      <3> QED BY <2>2, <2>3, <3>1, <3>2 DEF LocalStep
    <2>4. ASSUME NEW z \in Zones, io[z] = << >>, UnlockedStep(z), UNCHANGED <<waiting, hist>>
          PROVE  QuietInv' /\ NoFall
      <3>1. CASE GCReset(z)
        BY <1>1, <2>1, <2>4, <3>1, TruncateQuiet DEF GCReset
      <3> QED BY <2>1, <2>4, <3>1, NoErrors DEF UnlockedStep
    <2>5. ASSUME NEW z \in Zones, zonefs_get_file_inode(z), UNCHANGED <<waiting, hist>>
          PROVE  QuietInv' /\ NoFall
      BY <1>1, <2>1, <2>5, InodeQuiet
    <2>6. ASSUME NEW e \in Errors, NEW x \in ExplicitOpts, NEW ro \in BOOLEAN,
                 Restart(e, x, ro) \/ zonefs_remount(e, x, ro)
          PROVE  QuietInv' /\ NoFall
      <3>1. ~Restart(e, x, ro)
        BY <2>1 DEF Restart, Cost, Untroubled
      <3>2. sb \in SbState
        BY DEF QuietInv, IInv, CoreTypes
      <3>3. UNCHANGED <<zone, dev, waiting, io>> /\ sb'.rdonly = ro /\ hist'.asked = ro
        BY <1>1, <2>6, <3>1, <3>2 DEF zonefs_remount, SbState, HistTypes
      <3> QED BY <1>1, <2>1, <3>3, RemountQuiet
    <2>7. CASE UNCHANGED vars
      BY <1>1, <2>1, <2>7, RemountQuiet DEF vars, QuietInv
    <2> QED BY <2>3, <2>4, <2>5, <2>6, <2>7 DEF SafeNext
  <1> QED BY <1>2, <1>3

(* As long as nothing has failed, the writes of a zone in flight line up    *)
(* from its write pointer to z_wpoffset, however their completions are      *)
(* ordered and whatever else is done between them (zonefs_file_dio_write,   *)
(* zonefs_file_write_dio_end_io).                                           *)
THEOREM QuietInvariant == SafeSpec => []QuietInv
  <1>1. Init => QuietInv
    BY InitQuiet
  <1>2. QuietInv /\ [SafeNext]_vars => QuietInv'
    BY QuietNext
  <1> QED BY <1>1, <1>2, PTL DEF SafeSpec

(* The volume is read-only only when the caller asked for it, a write could *)
(* not be submitted or the device has failed: zonefs never takes its own    *)
(* writes for an error (zonefs_handle_io_error, and the close of a zone     *)
(* that stays open).                                                        *)
THEOREM ReadOnlyCaused == SafeSpec => []ReadOnlyHasCause
  <1>1. QuietInv => ReadOnlyHasCause
    <2>1. IInv => faults \in Nat
      BY DEF IInv, CoreTypes
    <2>2. faults \in Nat /\ faults # 0 => faults > 0
      OBVIOUS
    <2> QED BY <2>1, <2>2 DEF QuietInv, Untroubled, ReadOnlyHasCause
  <1> QED BY <1>1, QuietInvariant, PTL

(* A file gets shorter only by a reset of its zone, or once a write could   *)
(* not be submitted or the device has failed: completions that come out of  *)
(* order never take back what was announced (zonefs_file_write_dio_end_io). *)
THEOREM SizeKept == SafeSpec => SizeNeverFallsBack
  <1> DEFINE A == \A z \in Zones : zone'[z].i_size < zone[z].i_size =>
                     dev'[z].wp = 0 \/ hist'.aborted \/ faults' > 0
  <1>1. QuietInv /\ [SafeNext]_vars => [A]_vars
    <2>1. ASSUME QuietInv, [SafeNext]_vars
          PROVE  A
      <3>1. QuietInv' /\ (Untroubled' => NoFall)
        BY <2>1, QuietNext
      <3>2. faults' \in Nat
        BY <3>1 DEF QuietInv, IInv, CoreTypes
      <3> QED BY <3>1, <3>2 DEF NoFall, Untroubled
    <2> QED BY <2>1
  <1> QED BY <1>1, QuietInvariant, PTL DEF SafeSpec, SizeNeverFallsBack

--------------------------------------------------------------------------------
(* Synchronous writes, with every fault *)

(* The one write in flight, at its place between i_size and z_wpoffset. *)
Flight(x, d, w) ==
    /\ w.sync /\ x.i_size <= w.pos
    /\ w.st \in {"start", "queued", "ok"} => x.z_wpoffset = w.pos + w.n
    /\ d.cond \notin BadFlags /\ w.st = "ok" /\ d.loss # "unseen" => d.wp = w.pos + w.n

(* What a reader may see is at the device, or is data the device has lost.  *)
Backed(x, d) ==
    \/ x.i_size <= d.wp
    \/ d.loss = "unseen"
    \/ d.loss = "told" /\ "READONLY" \in x.flags

(* What zonefs knows of a zone, and what it may no longer know once the     *)
(* volume is read-only.                                                     *)
ZoneInv(x, rdonly, d, q) ==
    /\ q = << >> \/ (Len(q) = 1 /\ Flight(x, d, q[1]))
    /\ q = << >> /\ ~rdonly => x.i_size = x.z_wpoffset
    /\ q = << >> /\ ~rdonly /\ ~Bad(x) /\ d.cond \notin BadFlags /\ d.loss # "unseen"
         => d.wp = x.z_wpoffset
    /\ x.i_size <= x.z_wpoffset
    /\ d.cond \notin BadFlags => Backed(x, d)
    /\ Accounted(x)

(* The inductive invariant of SafeSpec when writes are synchronous. *)
SyncInv ==
    /\ IInv
    /\ \A z \in Zones : ZoneInv(zone[z], sb.rdonly, dev[z], io[z])
    /\ UsedExact

LEMMA ClampNone ==
    ASSUME NEW n \in 0 .. Blocks
    PROVE  Clamp(n) = n
  BY BlocksNat DEF Clamp

(* A zone loses nothing when the volume becomes read-only. *)
LEMMA ReadOnlyZone ==
    ASSUME NEW x, NEW d, NEW q, NEW r \in BOOLEAN, NEW s \in BOOLEAN,
           ZoneInv(x, r, d, q), r => s
    PROVE  ZoneInv(x, s, d, q)
  BY DEF ZoneInv

(* A step on one zone that leaves the zone, and the sum of the sizes, right.*)
LEMMA SyncStep ==
    ASSUME SyncInv, IInv', NEW z \in Zones, Alone(z), Sized(z), sb.rdonly => sb'.rdonly,
           ZoneInv(zone'[z], sb'.rdonly, dev'[z], io'[z])
    PROVE  SyncInv'
  <1>1. /\ zone \in [Zones -> ZoneState] /\ zone' \in [Zones -> ZoneState]
        /\ zone[z] \in ZoneState /\ zone'[z] \in ZoneState
        /\ sb \in SbState /\ sb' \in SbState
    BY DEF SyncInv, IInv, CoreTypes
  <1>2. sb.rdonly \in BOOLEAN /\ sb'.rdonly \in BOOLEAN
    BY <1>1 DEF SbState
  <1>3. ASSUME NEW y \in Zones, y # z
        PROVE  ZoneInv(zone'[y], sb'.rdonly, dev'[y], io'[y])
    <2>1. zone'[y] = zone[y] /\ dev'[y] = dev[y] /\ io'[y] = io[y]
      BY <1>3 DEF Alone
    <2>2. ZoneInv(zone[y], sb.rdonly, dev[y], io[y])
      BY DEF SyncInv
    <2> QED BY <1>2, <2>1, <2>2, ReadOnlyZone
  <1>4. zone' = [zone EXCEPT ![z] = zone'[z]]
    BY <1>1 DEF Alone
  <1>5. PICK f \in [Zones -> ZoneState], x \in ZoneState :
          f = zone' /\ x = zone'[z] /\ f = [zone EXCEPT ![z] = x]
    <2>1. PICK x : x = zone'[z]
      OBVIOUS
    <2>2. zone' = [zone EXCEPT ![z] = x] /\ x \in ZoneState
      BY <1>1, <1>4, <2>1
    <2> QED BY <1>1, <2>1, <2>2
  <1>6. SizeOf(f) = SizeOf(zone) + x.i_size - zone[z].i_size
    <2>1. SizeOf([zone EXCEPT ![z] = x]) = SizeOf(zone) + x.i_size - zone[z].i_size
      BY <1>1, SizeOfChange
    <2> QED BY <1>5, <2>1
  <1>7. SizeOf(f) \in 0 .. Blocks /\ SizeOf(zone) \in 0 .. Blocks
    BY <1>1, SizeOfRange
  <1>8. x.i_size \in Int /\ zone[z].i_size \in Int
    BY <1>1, <1>5, ZonefsAssumption DEF ZoneState
  <1>9. sb.used = SizeOf(zone)
    BY DEF SyncInv, UsedExact
  <1>10. sb'.used = SizeOf(f)
    <2>1. CASE sb'.used = Clamp(sb.used + x.i_size - zone[z].i_size)
      BY <1>6, <1>7, <1>9, <2>1, ClampNone
    <2>2. CASE sb'.used = sb.used /\ x.i_size = zone[z].i_size
      BY <1>6, <1>7, <1>8, <1>9, <2>2, BlocksNat
    <2> QED BY <1>5, <2>1, <2>2 DEF Sized
  <1>11. UsedExact'
    BY <1>5, <1>10 DEF UsedExact
  <1> QED BY <1>3, <1>11 DEF SyncInv

(* What a zone's part of the invariant depends on. *)
LEMMA ZoneSyncTypes ==
    ASSUME SyncInv, NEW z \in Zones
    PROVE  /\ ZoneInv(zone[z], sb.rdonly, dev[z], io[z])
           /\ View(z) \in ViewState /\ View(z).zone = zone[z] /\ View(z).sb = sb
           /\ zone[z] \in ZoneState /\ dev[z] \in DevState /\ FullOK(dev[z])
           /\ io[z] \in Seq(WriteState) /\ sb \in SbState
           /\ zone[z].i_size \in 0 .. Capacity /\ zone[z].z_wpoffset \in 0 .. Capacity
           /\ dev[z].wp \in 0 .. Capacity /\ sb.rdonly \in BOOLEAN
  BY Typed DEF SyncInv, ZoneState, DevState, SbState

LEMMA StillSync ==
    ASSUME SyncInv, IInv', NEW z \in Zones, Still(z)
    PROVE  SyncInv'
  <1>1. /\ ZoneInv(zone[z], sb.rdonly, dev[z], io[z])
        /\ zone[z].i_size \in 0 .. Capacity /\ zone[z].z_wpoffset \in 0 .. Capacity
    BY ZoneSyncTypes
  <1>2. PICK x, d : x = zone'[z] /\ d = dev'[z]
    OBVIOUS
  <1>3. /\ x.i_size = zone[z].i_size /\ x.z_wpoffset = zone[z].z_wpoffset
        /\ BadOf(x) = BadOf(zone[z]) /\ (Bad(x) <=> Bad(zone[z]))
        /\ Accounted(zone[z]) => Accounted(x)
        /\ d.cond \in BadFlags <=> dev[z].cond \in BadFlags
        /\ \/ d.wp = dev[z].wp /\ d.loss = dev[z].loss
           \/ d.wp = 0 /\ d.loss = "none" /\ zone[z].z_wpoffset = 0 /\ io[z] = << >>
    BY <1>2, BadBadOf, ReportedBad DEF Still
  <1>4. io[z] # << >> => d.wp = dev[z].wp /\ d.loss = dev[z].loss
    BY <1>3
  <1>5. io[z] = << >> \/ (Len(io[z]) = 1 /\ Flight(x, d, io[z][1]))
    BY <1>1, <1>3, <1>4 DEF ZoneInv, Flight
  <1>6. ASSUME d.cond \notin BadFlags PROVE Backed(x, d)
    <2>1. "READONLY" \in zone[z].flags => "READONLY" \in x.flags
      BY <1>3 DEF BadOf, BadFlags
    <2>2. CASE d.wp = dev[z].wp /\ d.loss = dev[z].loss
      BY <1>1, <1>3, <1>6, <2>1, <2>2 DEF ZoneInv, Backed
    <2>3. CASE d.wp = 0 /\ zone[z].z_wpoffset = 0
      BY <1>1, <1>3, <2>3, ZonefsAssumption DEF ZoneInv, Backed
    <2> QED BY <1>3, <2>2, <2>3
  <1>7. io[z] = << >> /\ ~sb.rdonly /\ ~Bad(x) /\ d.cond \notin BadFlags /\ d.loss # "unseen"
          => d.wp = x.z_wpoffset
    BY <1>1, <1>3 DEF ZoneInv
  <1>8. ZoneInv(x, sb.rdonly, d, io[z])
    BY <1>1, <1>3, <1>5, <1>6, <1>7 DEF ZoneInv
  <1>9. Alone(z) /\ Sized(z) /\ sb'.rdonly = sb.rdonly /\ io'[z] = io[z]
    BY DEF Still, Sized
  <1> QED BY <1>2, <1>8, <1>9, SyncStep

LEMMA WriteSync ==
    ASSUME SyncInv, IInv', NEW z \in Zones, NEW n \in 1 .. Capacity,
           zonefs_file_dio_write(z, n, TRUE)
    PROVE  SyncInv'
  <1>1. /\ ZoneInv(zone[z], sb.rdonly, dev[z], io[z]) /\ io[z] \in Seq(WriteState)
        /\ zone[z].i_size \in 0 .. Capacity /\ zone[z].z_wpoffset \in 0 .. Capacity
        /\ dev[z].wp \in 0 .. Capacity
    BY ZoneSyncTypes
  <1>2. ~InodeLocked(z)
    BY DEF zonefs_file_dio_write, Locks
  <1>3. io[z] = << >>
    <2>1. ASSUME Len(io[z]) = 1, io[z][1].sync PROVE FALSE
      <3>1. 1 \in DOMAIN io[z]
        BY <1>1, <2>1, LenProperties
      <3> QED BY <1>2, <2>1, <3>1 DEF InodeLocked
    <2> QED BY <1>1, <2>1 DEF ZoneInv, Flight
  <1>4. PICK w : w = [pos |-> zone[z].z_wpoffset, n |-> n, sync |-> TRUE, st |-> "start"]
    OBVIOUS
  <1>5. PICK x : x = zone'[z]
    OBVIOUS
  <1>6. /\ Alone(z) /\ UNCHANGED dev /\ io'[z] = Append(io[z], w)
        /\ x.i_size = zone[z].i_size /\ x.z_wpoffset = zone[z].z_wpoffset + n
        /\ BadOf(x) = BadOf(zone[z]) /\ Accounted(x)
        /\ sb'.rdonly = sb.rdonly /\ sb'.used = sb.used
    BY <1>4, <1>5, WriteStep DEF SyncInv
  <1>7. io'[z] = <<w>>
    BY <1>3, <1>6
  <1>8. Flight(x, dev[z], w)
    BY <1>1, <1>4, <1>6 DEF ZoneInv, Flight
  <1>9. x.i_size <= x.z_wpoffset
    BY <1>1, <1>6 DEF ZoneInv
  <1>10. dev[z].cond \notin BadFlags => Backed(x, dev[z])
    <2>1. "READONLY" \in zone[z].flags => "READONLY" \in x.flags
      BY <1>6 DEF BadOf, BadFlags
    <2> QED BY <1>1, <1>6, <2>1 DEF ZoneInv, Backed
  <1>11. ZoneInv(x, sb.rdonly, dev[z], <<w>>)
    BY <1>6, <1>8, <1>9, <1>10 DEF ZoneInv
  <1> QED BY <1>5, <1>6, <1>7, <1>11, SyncStep DEF Sized

(* A writer that waits, or is refused, changes nothing of the zone. *)
LEMMA WriterSync ==
    ASSUME SyncInv, IInv', NEW z \in Zones, zonefs_file_write_iter(z) \/ WriteRefused(z)
    PROVE  SyncInv'
  <1>1. UNCHANGED <<zone, sb, dev, io>>
    BY DEF zonefs_file_write_iter, WriteRefused
  <1> QED BY <1>1, IdleStill, StillSync DEF SyncInv

(* The write of a zone moves on. *)
LEMMA SingleMove ==
    ASSUME NEW q \in Seq(WriteState), Len(q) = 1, NEW i \in DOMAIN q,
           NEW c \in {"start", "queued", "cut", "ok", "err"}, NEW r, r = [q EXCEPT ![i].st = c]
    PROVE  /\ i = 1 /\ q[1] \in WriteState /\ r # << >> /\ Len(r) = 1
           /\ r[1].st = c /\ r[1].pos = q[1].pos /\ r[1].n = q[1].n /\ r[1].sync = q[1].sync
  <1>1. DOMAIN q = 1 .. 1
    BY LenProperties
  <1>2. i = 1
    BY <1>1
  <1>3. Len(r) = 1
    BY StType
  <1>4. q[1] \in WriteState
    BY <1>1, ElementOfSeq
  <1>5. r[1] = [q[1] EXCEPT !.st = c]
    BY <1>1, <1>2
  <1>6. r[1].st = c /\ r[1].pos = q[1].pos /\ r[1].n = q[1].n /\ r[1].sync = q[1].sync
    BY <1>4, <1>5 DEF WriteState
  <1>7. r # << >>
    BY <1>3
  <1> QED BY <1>2, <1>3, <1>4, <1>6, <1>7

LEMMA SubmitSync ==
    ASSUME SyncInv, IInv', NEW z \in Zones, iomap_dio_rw(z)
    PROVE  SyncInv'
  <1>1. /\ ZoneInv(zone[z], sb.rdonly, dev[z], io[z]) /\ io[z] \in Seq(WriteState)
        /\ sb.rdonly \in BOOLEAN
    BY ZoneSyncTypes
  <1>2. Alone(z) /\ UNCHANGED <<zone, sb, dev, faults>>
    BY SubmitStep DEF SyncInv
  <1>3. PICK i \in DOMAIN io[z] :
          io[z][i].st = "start" /\ io'[z] = [io[z] EXCEPT ![i].st = "queued"]
    BY SubmitStep DEF SyncInv
  <1>4. Len(io[z]) = 1 /\ Flight(zone[z], dev[z], io[z][1])
    BY <1>1, <1>3 DEF ZoneInv
  <1>5. PICK q, p : q = io'[z] /\ p = io[z]
    OBVIOUS
  <1>6. /\ Len(q) = 1 /\ q # << >> /\ p[1].st = "start" /\ q[1].st = "queued"
        /\ q[1].pos = p[1].pos /\ q[1].n = p[1].n /\ q[1].sync = p[1].sync
    <2>1. /\ p \in Seq(WriteState) /\ Len(p) = 1 /\ i \in DOMAIN p
          /\ q = [p EXCEPT ![i].st = "queued"] /\ p[i].st = "start"
      BY <1>1, <1>3, <1>4, <1>5
    <2> QED BY <2>1, SingleMove
  <1>7. Flight(zone[z], dev[z], q[1])
    BY <1>4, <1>5, <1>6 DEF Flight
  <1>8. ZoneInv(zone[z], sb.rdonly, dev[z], q)
    BY <1>1, <1>6, <1>7 DEF ZoneInv
  <1> QED BY <1>2, <1>5, <1>8, SyncStep DEF Sized

LEMMA DeviceSync ==
    ASSUME SyncInv, IInv', NEW z \in Zones, DeviceWrite(z)
    PROVE  SyncInv'
  <1>1. /\ ZoneInv(zone[z], sb.rdonly, dev[z], io[z]) /\ io[z] \in Seq(WriteState)
        /\ sb.rdonly \in BOOLEAN /\ dev[z].wp \in 0 .. Capacity
        /\ zone[z].i_size \in 0 .. Capacity
    BY ZoneSyncTypes
  <1>2. /\ Alone(z) /\ UNCHANGED <<zone, sb>>
        /\ ReportedFlags(dev'[z]) = ReportedFlags(dev[z]) /\ dev'[z].loss = dev[z].loss
    BY DeviceStep DEF SyncInv
  <1>3. PICK i \in DOMAIN io[z] :
                 \/ /\ Writable(dev[z], io[z][i]) /\ io[z][i].st = "queued"
                    /\ io'[z] = [io[z] EXCEPT ![i].st = "ok"]
                    /\ dev'[z].wp = dev[z].wp + io[z][i].n
                 \/ /\ io'[z] = [io[z] EXCEPT ![i].st = "err"]
                    /\ \E k \in 0 .. io[z][i].n : dev'[z].wp = dev[z].wp + k
                 \/ /\ io'[z] = [io[z] EXCEPT ![i].st = "err"]
                    /\ dev'[z] = dev[z]
    BY DeviceStep DEF SyncInv
  <1>4. Len(io[z]) = 1 /\ Flight(zone[z], dev[z], io[z][1])
    BY <1>1, <1>3 DEF ZoneInv
  <1>5. PICK q, p, d : q = io'[z] /\ p = io[z] /\ d = dev'[z]
    OBVIOUS
  <1>6. p \in Seq(WriteState) /\ Len(p) = 1 /\ i \in DOMAIN p /\ p[i] \in WriteState
    BY <1>1, <1>4, <1>5, ElementOfSeq
  <1>7. PICK c \in {"ok", "err"} : q = [p EXCEPT ![i].st = c]
            /\ (c = "ok" => /\ d.wp = dev[z].wp + p[i].n /\ p[i].st = "queued"
                            /\ dev[z].wp = p[i].pos)
            /\ (d.wp = dev[z].wp \/ \E k \in 0 .. p[i].n : d.wp = dev[z].wp + k)
    <2>1. p[i].n \in Nat
      BY <1>6 DEF WriteState
    <2> QED BY <1>3, <1>5, <2>1 DEF Writable
  <1>8. (d.cond \in BadFlags <=> dev[z].cond \in BadFlags) /\ d.loss = dev[z].loss
    BY <1>2, <1>5, ReportedBad
  <1>9. /\ i = 1 /\ p[1] \in WriteState /\ q # << >> /\ Len(q) = 1
        /\ q[1].st = c /\ q[1].pos = p[1].pos /\ q[1].n = p[1].n /\ q[1].sync = p[1].sync
    BY <1>6, <1>7, SingleMove
  <1>10. Flight(zone[z], d, q[1])
    BY <1>4, <1>5, <1>7, <1>9 DEF Flight
  <1>11. ASSUME d.cond \notin BadFlags PROVE Backed(zone[z], d)
    <2>1. Backed(zone[z], dev[z])
      BY <1>1, <1>8, <1>11 DEF ZoneInv
    <2>2. PICK k \in Nat : d.wp = dev[z].wp + k
      <3>1. p[i].n \in Nat
        BY <1>6 DEF WriteState
      <3>2. 0 \in Nat /\ dev[z].wp = dev[z].wp + 0
        BY <1>1, ZonefsAssumption
      <3> QED BY <1>7, <3>1, <3>2
    <2>3. zone[z].i_size <= dev[z].wp => zone[z].i_size <= d.wp
      BY <1>1, <2>2
    <2> QED BY <1>8, <2>1, <2>3 DEF Backed
  <1>12. ZoneInv(zone[z], sb.rdonly, d, q)
    BY <1>1, <1>9, <1>10, <1>11 DEF ZoneInv
  <1> QED BY <1>2, <1>5, <1>12, SyncStep DEF Sized

LEMMA SingleRemoved ==
    ASSUME NEW q \in Seq(WriteState), Len(q) = 1, NEW i \in DOMAIN q
    PROVE  RemoveAt(q, i) = << >> /\ q[i] = q[1] /\ q[1] \in WriteState
  <1>1. RemoveAt(q, i) \in Seq(WriteState) /\ Len(RemoveAt(q, i)) = 0
    BY RemoveType
  <1>2. DOMAIN q = 1 .. 1
    BY LenProperties
  <1>3. i = 1 /\ q[1] \in WriteState
    BY <1>2, ElementOfSeq
  <1> QED BY <1>1, <1>3, EmptySeq

LEMMA EndIoSync ==
    ASSUME SyncInv, IInv', NEW z \in Zones, NEW i \in DOMAIN io[z],
           zonefs_file_write_dio_end_io(z, i)
    PROVE  SyncInv'
  <1>1. /\ ZoneInv(zone[z], sb.rdonly, dev[z], io[z]) /\ io[z] \in Seq(WriteState)
        /\ zone[z].i_size \in 0 .. Capacity /\ zone[z].z_wpoffset \in 0 .. Capacity
    BY ZoneSyncTypes
  <1>2. Len(io[z]) = 1 /\ Flight(zone[z], dev[z], io[z][1])
    BY <1>1 DEF ZoneInv
  <1>3. PICK w \in WriteState : w = io[z][i] /\ Flight(zone[z], dev[z], w)
    BY <1>1, <1>2, SingleRemoved
  <1>4. w.n \in 1 .. Capacity /\ w.pos \in 0 .. Capacity
    BY <1>3 DEF WriteState
  <1>5. PICK x, end : x = zone'[z] /\ end = w.pos + w.n
    OBVIOUS
  <1>6. /\ Alone(z) /\ UNCHANGED dev /\ io'[z] = RemoveAt(io[z], i) /\ w.st = "ok"
        /\ x.i_size = (IF zone[z].i_size < end THEN end ELSE zone[z].i_size)
        /\ x.z_wpoffset = zone[z].z_wpoffset /\ BadOf(x) = BadOf(zone[z])
        /\ x.flags = zone[z].flags \/ (x.flags = zone[z].flags \ {"ACTIVE", "OPEN"} /\ end >= Capacity)
        /\ sb'.rdonly = sb.rdonly /\ Sized(z)
    BY <1>3, <1>5, EndIoStep DEF SyncInv
  <1>7. io'[z] = << >>
    BY <1>1, <1>2, <1>6, SingleRemoved
  <1>8. x.i_size = end /\ x.z_wpoffset = end
    BY <1>1, <1>3, <1>4, <1>5, <1>6 DEF Flight
  <1>9. dev[z].cond \notin BadFlags /\ dev[z].loss # "unseen" => dev[z].wp = end
    BY <1>3, <1>5, <1>6 DEF Flight
  <1>10. Bad(x) <=> Bad(zone[z])
    BY <1>6, BadBadOf
  <1>11. Accounted(x)
    <2>1. CASE x.flags = zone[z].flags
      BY <1>1, <1>6, <1>10, <2>1 DEF ZoneInv, Accounted, IsActive
    <2>2. CASE x.flags = zone[z].flags \ {"ACTIVE", "OPEN"} /\ end >= Capacity
      BY <1>4, <1>5, <1>8, <2>2, ZonefsAssumption DEF Accounted, IsActive
    <2> QED BY <1>6, <2>1, <2>2
  <1>12. ZoneInv(x, sb.rdonly, dev[z], << >>)
    BY <1>4, <1>5, <1>8, <1>9, <1>11 DEF ZoneInv, Backed
  <1> QED BY <1>5, <1>6, <1>7, <1>12, SyncStep

LEMMA HandleType ==
    ASSUME NEW s \in ViewState, NEW d \in DevState, NEW write \in BOOLEAN
    PROVE  zonefs_handle_io_error(s, d, write).sb.rdonly \in BOOLEAN
  <1>1. PICK m \in ViewState : m = Marked(s, d)
    BY MarkedKeeps DEF Keeps
  <1>2. PICK r \in ViewState : r = Resized(m, ErrorSize(s, d))
    BY ErrorSizeType, ResizedKeeps DEF Keeps
  <1>3. PICK a \in ViewState : a = zonefs_account_active(r)
    BY AccountKeeps DEF Keeps
  <1>4. zonefs_handle_io_error(s, d, write) \in ViewState
    BY <1>1, <1>2, <1>3 DEF zonefs_handle_io_error
  <1> QED BY <1>4 DEF ViewState, SbState

(* Error handling leaves the zone as the device reports it, gives the zone  *)
(* or the volume up, or, when the report fails, the volume.                 *)
LEMMA ErrorZone ==
    ASSUME NEW s \in ViewState, NEW d \in DevState, FullOK(d), NEW write \in BOOLEAN,
           NEW q, ZoneInv(s.zone, s.sb.rdonly, d, q), q = << >> \/ write,
           NEW e \in io_error(s, d, write)
    PROVE  /\ ZoneInv(e.s.zone, e.s.sb.rdonly, e.d, << >>)
           /\ e.s.sb.rdonly \in BOOLEAN /\ (s.sb.rdonly => e.s.sb.rdonly)
           /\ \/ e.s.sb.used = Clamp(s.sb.used + e.s.zone.i_size - s.zone.i_size)
              \/ e.s.sb.used = s.sb.used /\ e.s.zone.i_size = s.zone.i_size
  <1>1. /\ s.sb.rdonly \in BOOLEAN /\ s.zone.i_size \in 0 .. Capacity /\ d.wp \in 0 .. Capacity
    BY DEF ViewState, SbState, ZoneState, DevState
  <1>2. CASE e = [s |-> WithSb(s, [s.sb EXCEPT !.rdonly = TRUE]), d |-> d, cost |-> 1]
    <2>1. e.s.zone = s.zone /\ e.s.sb.rdonly = TRUE /\ e.s.sb.used = s.sb.used /\ e.d = d
      BY <1>2 DEF WithSb, ViewState, SbState
    <2>2. ZoneInv(s.zone, TRUE, d, << >>)
      BY DEF ZoneInv
    <2> QED BY <2>1, <2>2
  <1>3. PICK g \in DevState : /\ g = Told(d) /\ g.cond = d.cond /\ g.wp = d.wp
                             /\ g.loss = IF d.loss = "unseen" THEN "told" ELSE d.loss
    BY ToldFields
  <1>4. CASE /\ e = [s |-> zonefs_handle_io_error(s, d, write), d |-> Told(d), cost |-> 0]
             /\ Harmless(s, d, write)
    <2>1. e.s = s /\ e.d = g
      BY <1>3, <1>4 DEF zonefs_handle_io_error
    <2>2. q = << >> /\ (d.cond \notin BadFlags => s.zone.i_size = d.wp /\ ~Bad(s.zone))
      <3>1. q = << >>
        BY <1>4 DEF Harmless
      <3>2. d.cond \notin BadFlags => zonefs_check_zone_condition(s.zone, d) = d.wp
        BY DEF zonefs_check_zone_condition, BadFlags, FullOK
      <3>3. (s.zone.flags \cup ReportedFlags(d)) \cap BadFlags = {} => ~Bad(s.zone)
        BY DEF Bad
      <3> QED BY <1>4, <3>1, <3>2, <3>3 DEF Harmless
    <2>3. ZoneInv(s.zone, s.sb.rdonly, g, << >>)
      <3>1. g.cond \notin BadFlags => Backed(s.zone, g)
        BY <1>1, <1>3, <2>2, ZonefsAssumption DEF Backed
      <3>2. ~s.sb.rdonly /\ g.cond \notin BadFlags => g.wp = s.zone.z_wpoffset
        BY <1>3, <2>2 DEF ZoneInv
      <3> QED BY <2>2, <3>1, <3>2 DEF ZoneInv
    <2> QED BY <1>1, <2>1, <2>3
  <1>5. CASE /\ e = [s |-> zonefs_handle_io_error(s, d, write), d |-> Told(d), cost |-> 0]
             /\ ~Harmless(s, d, write)
    <2>1. PICK t : t = e.s
      OBVIOUS
    <2>2. t = zonefs_handle_io_error(s, d, write) /\ e.d = g
      BY <1>3, <1>5, <2>1
    <2>3. PICK k \in 0 .. Capacity : k = ErrorSize(s, d)
      BY ErrorSizeType
    <2>4. /\ t.zone.i_size = k /\ t.zone.z_wpoffset = k
          /\ t.sb.used = Clamp(s.sb.used + k - s.zone.i_size)
          /\ s.sb.rdonly => t.sb.rdonly
          /\ Accounted(t.zone)
          /\ d.cond \notin BadFlags =>
                \/ k \in {0, d.wp}
                \/ k = s.zone.i_size /\ (s.zone.i_size < d.wp \/ "READONLY" \in t.zone.flags)
          /\ d.cond \notin BadFlags /\ ~Bad(t.zone) /\ ~t.sb.rdonly => k = d.wp
      BY <1>5, <2>2, <2>3, HandleFields
    <2>5. ASSUME d.cond \notin BadFlags PROVE Backed(t.zone, g)
      <3>1. Backed(s.zone, d)
        BY <2>5 DEF ZoneInv
      <3>2. k \in {0, d.wp} => k <= d.wp
        BY <1>1, ZonefsAssumption
      <3>3. k < d.wp => k <= d.wp
        BY <1>1, <2>3, ZonefsAssumption
      <3> QED BY <1>3, <2>4, <2>5, <3>1, <3>2, <3>3 DEF Backed
    <2>6. k <= k
      BY ZonefsAssumption
    <2>7. ZoneInv(t.zone, t.sb.rdonly, g, << >>)
      BY <1>3, <2>4, <2>5, <2>6 DEF ZoneInv
    <2>8. t.sb.rdonly \in BOOLEAN
      BY <2>2, HandleType
    <2> QED BY <2>1, <2>2, <2>4, <2>7, <2>8
  <1> QED BY <1>2, <1>4, <1>5 DEF io_error

(* A step whose only effect on z is error handling. *)
LEMMA ErrorSync ==
    ASSUME SyncInv, IInv', NEW z \in Zones, NEW s \in ViewState,
           s.sb = sb, s.zone.i_size = zone[z].i_size,
           NEW write \in BOOLEAN, ZoneInv(s.zone, sb.rdonly, dev[z], io[z]),
           io[z] = << >> \/ write,
           NEW e \in io_error(s, dev[z], write), zone' = [zone EXCEPT ![z] = e.s.zone],
           sb'.used = e.s.sb.used, e.s.sb.rdonly => sb'.rdonly, sb'.rdonly \in BOOLEAN,
           dev' = [dev EXCEPT ![z] = e.d], NEW q, io' = [io EXCEPT ![z] = q], q = << >>
    PROVE  SyncInv'
  <1>1. dev[z] \in DevState /\ FullOK(dev[z]) /\ sb.rdonly \in BOOLEAN
    BY ZoneSyncTypes
  <1>2. /\ ZoneInv(e.s.zone, e.s.sb.rdonly, e.d, << >>)
        /\ e.s.sb.rdonly \in BOOLEAN /\ (s.sb.rdonly => e.s.sb.rdonly)
        /\ \/ e.s.sb.used = Clamp(sb.used + e.s.zone.i_size - zone[z].i_size)
           \/ e.s.sb.used = sb.used /\ e.s.zone.i_size = zone[z].i_size
    <2>1. PICK d, p : d = dev[z] /\ p = io[z] /\ d \in DevState
      BY <1>1
    <2>2. /\ FullOK(d) /\ ZoneInv(s.zone, s.sb.rdonly, d, p) /\ (p = << >> \/ write)
          /\ e \in io_error(s, d, write)
      BY <1>1, <2>1
    <2>3. /\ ZoneInv(e.s.zone, e.s.sb.rdonly, e.d, << >>)
          /\ e.s.sb.rdonly \in BOOLEAN /\ (s.sb.rdonly => e.s.sb.rdonly)
          /\ \/ e.s.sb.used = Clamp(s.sb.used + e.s.zone.i_size - s.zone.i_size)
             \/ e.s.sb.used = s.sb.used /\ e.s.zone.i_size = s.zone.i_size
      BY <2>1, <2>2, ErrorZone
    <2> QED BY <2>3
  <1>3. Alone(z) /\ zone'[z] = e.s.zone /\ dev'[z] = e.d /\ io'[z] = << >>
    BY DEF SyncInv, IInv, CoreTypes, Alone
  <1>4. ZoneInv(e.s.zone, sb'.rdonly, e.d, << >>)
    BY <1>2, ReadOnlyZone
  <1>5. Sized(z)
    BY <1>2, <1>3 DEF Sized
  <1> QED BY <1>2, <1>3, <1>4, <1>5, SyncStep

(* The recovery of a write that is then no longer in flight. *)
LEMMA RecoverySync ==
    ASSUME SyncInv, IInv', NEW z \in Zones, NEW i \in DOMAIN io[z],
           HandleError(z, View(z), TRUE, 0), WithoutIO(z, i)
    PROVE  SyncInv'
  <1>1. /\ ZoneInv(zone[z], sb.rdonly, dev[z], io[z]) /\ io[z] \in Seq(WriteState)
        /\ View(z) \in ViewState /\ View(z).zone = zone[z] /\ View(z).sb = sb
    BY ZoneSyncTypes
  <1>2. RemoveAt(io[z], i) = << >>
    <2>1. Len(io[z]) = 1
      BY <1>1 DEF ZoneInv
    <2> QED BY <1>1, <2>1, SingleRemoved
  <1>3. PICK e \in io_error(View(z), dev[z], TRUE) :
          Becomes(z, e.s) /\ dev' = [dev EXCEPT ![z] = e.d]
    BY DEF HandleError
  <1>4. io' = [io EXCEPT ![z] = RemoveAt(io[z], i)]
    BY DEF WithoutIO
  <1>5. PICK q : q = RemoveAt(io[z], i)
    OBVIOUS
  <1>6. sb'.rdonly \in BOOLEAN
    BY DEF IInv, CoreTypes, SbState
  <1> QED BY <1>1, <1>2, <1>3, <1>4, <1>5, <1>6, ErrorSync DEF Becomes

LEMMA SubmissionSync ==
    ASSUME SyncInv, IInv', NEW z \in Zones, SubmissionFails(z)
    PROVE  SyncInv'
  <1>1. PICK i \in DOMAIN io[z] :
          /\ io[z][i].st = "start"
          /\ \/ HandleError(z, View(z), TRUE, 0) /\ WithoutIO(z, i)
             \/ /\ \E m \in 1 .. io[z][i].n - 1 :
                      io' = [io EXCEPT ![z][i].st = "cut", ![z][i].n = m]
                /\ UNCHANGED <<zone, sb, dev, faults>>
    BY DEF SubmissionFails
  <1>2. CASE HandleError(z, View(z), TRUE, 0) /\ WithoutIO(z, i)
    BY <1>2, RecoverySync
  <1>3. CASE /\ \E m \in 1 .. io[z][i].n - 1 :
                   io' = [io EXCEPT ![z][i].st = "cut", ![z][i].n = m]
             /\ UNCHANGED <<zone, sb, dev, faults>>
    <2>1. PICK m \in 1 .. io[z][i].n - 1 : io' = [io EXCEPT ![z][i].st = "cut", ![z][i].n = m]
      BY <1>3
    <2>2. /\ ZoneInv(zone[z], sb.rdonly, dev[z], io[z]) /\ io[z] \in Seq(WriteState)
          /\ sb.rdonly \in BOOLEAN
      BY ZoneSyncTypes
    <2>3. Len(io[z]) = 1 /\ Flight(zone[z], dev[z], io[z][1])
      BY <1>1, <2>2 DEF ZoneInv
    <2>4. PICK w \in WriteState : w = io[z][1] /\ i = 1 /\ DOMAIN io[z] = 1 .. 1
      <3>1. DOMAIN io[z] = 1 .. 1
        BY <2>2, <2>3, LenProperties
      <3> QED BY <2>2, <3>1, ElementOfSeq
    <2> DEFINE v == [w EXCEPT !.st = "cut", !.n = m]
               q == [io[z] EXCEPT ![1] = v]
    <2>5. v.st = "cut" /\ v.pos = w.pos /\ v.sync = w.sync
      BY <2>4 DEF WriteState
    <2>6. io' = [io EXCEPT ![z] = q]
      BY <2>1, <2>4
    <2> HIDE DEF v
    <2>7. q[1] = v /\ DOMAIN q = 1 .. 1 /\ Len(q) = Len(io[z]) /\ q # << >>
      <3>1. q[1] = v /\ DOMAIN q = 1 .. 1
        BY <2>4
      <3>2. Len(q) = Len(io[z])
        BY <2>2
      <3> QED BY <2>3, <3>1, <3>2
    <2> HIDE DEF q
    <2>8. Alone(z) /\ io'[z] = q
      BY <1>3, <2>6 DEF SyncInv, IInv, CoreTypes, Alone
    <2>9. Flight(zone[z], dev[z], q[1])
      BY <2>3, <2>4, <2>5, <2>7 DEF Flight
    <2>10. ZoneInv(zone[z], sb.rdonly, dev[z], q)
      BY <2>2, <2>3, <2>7, <2>9 DEF ZoneInv
    <2> QED BY <1>3, <2>2, <2>8, <2>10, SyncStep DEF Sized
  <1> QED BY <1>1, <1>2, <1>3

(* A read or a flush fails, between the writes of the zone. *)
LEMMA IdleErrorSync ==
    ASSUME SyncInv, IInv', NEW z \in Zones, io[z] = << >>, NEW write \in BOOLEAN, NEW k,
           HandleError(z, View(z), write, k), UNCHANGED io
    PROVE  SyncInv'
  <1>1. /\ ZoneInv(zone[z], sb.rdonly, dev[z], io[z])
        /\ View(z) \in ViewState /\ View(z).zone = zone[z] /\ View(z).sb = sb
    BY ZoneSyncTypes
  <1>2. PICK q : q = io[z]
    OBVIOUS
  <1>3. io' = [io EXCEPT ![z] = q] /\ q = << >>
    BY <1>2 DEF SyncInv, IInv, CoreTypes
  <1>4. PICK e \in io_error(View(z), dev[z], write) :
          Becomes(z, e.s) /\ dev' = [dev EXCEPT ![z] = e.d]
    BY DEF HandleError
  <1>5. sb'.rdonly \in BOOLEAN
    BY DEF IInv, CoreTypes, SbState
  <1> QED BY <1>1, <1>3, <1>4, <1>5, ErrorSync DEF Becomes

LEMMA CloseSync ==
    ASSUME SyncInv, IInv', NEW z \in Zones, NEW fails \in BOOLEAN,
           zonefs_seq_file_write_close(z, fails)
    PROVE  SyncInv'
  <1>1. CASE Still(z)
    BY <1>1, StillSync
  <1>2. CASE /\ LastReference(z) /\ UNCHANGED io
             /\ \E r \in zonefs_zone_mgmt(z, zone[z], dev[z], "CLOSE") : CloseFails(z, r)
    <2>1. /\ ZoneInv(zone[z], sb.rdonly, dev[z], io[z])
          /\ View(z) \in ViewState /\ View(z).zone = zone[z] /\ View(z).sb = sb
      BY ZoneSyncTypes
    <2>2. io[z] = << >> /\ View(z).zone.i_wr_refcnt > 0
      BY <1>2, <2>1 DEF LastReference
    <2>3. PICK s \in ViewState : s = Released(View(z))
      BY <2>1, <2>2, ReleasedFields
    <2>4. /\ s.zone.flags = zone[z].flags /\ s.zone.i_size = zone[z].i_size
          /\ s.zone.z_wpoffset = zone[z].z_wpoffset /\ s.sb = sb
      BY <2>1, <2>2, <2>3, ReleasedFields
    <2>5. (Accounted(zone[z]) => Accounted(s.zone)) /\ (Bad(s.zone) <=> Bad(zone[z]))
      BY <2>4, SameZone, BadBadOf
    <2>6. ZoneInv(s.zone, sb.rdonly, dev[z], io[z])
      BY <2>1, <2>2, <2>4, <2>5 DEF ZoneInv, Backed
    <2>7. PICK e \in io_error(s, dev[z], FALSE) :
            /\ Becomes(z, WithSb(e.s, [e.s.sb EXCEPT !.rdonly = @ \/ "OPEN" \in e.s.zone.flags]))
            /\ dev' = [dev EXCEPT ![z] = e.d]
      BY <1>2, <2>3 DEF CloseFails
    <2>8. e.s.sb \in SbState
      <3>1. dev[z] \in DevState /\ OpenGood(s.zone, s.sb.explicit)
        BY <2>4, <2>5, Typed DEF SyncInv, OpenGood
      <3>2. e.s \in ViewState
        BY <3>1, IoErrorKeeps DEF Keeps
      <3> QED BY <3>2 DEF ViewState
    <2>9. /\ zone' = [zone EXCEPT ![z] = e.s.zone]
          /\ sb' = [e.s.sb EXCEPT !.rdonly = @ \/ "OPEN" \in e.s.zone.flags]
      BY <2>7 DEF Becomes, WithSb
    <2>10. sb'.used = e.s.sb.used /\ (e.s.sb.rdonly => sb'.rdonly) /\ sb'.rdonly \in BOOLEAN
      BY <2>8, <2>9 DEF SbState
    <2>11. PICK q : q = io[z]
      OBVIOUS
    <2>12. io' = [io EXCEPT ![z] = q] /\ q = << >>
      BY <1>2, <2>2, <2>11 DEF SyncInv, IInv, CoreTypes
    <2> QED BY <2>2, <2>4, <2>6, <2>7, <2>9, <2>10, <2>12, ErrorSync
  <1> QED BY <1>1, <1>2, CloseStill DEF SyncInv

LEMMA TruncateSync ==
    ASSUME SyncInv, IInv', NEW z \in Zones, NEW isize \in {0, Capacity}, io[z] = << >>,
           zonefs_file_truncate(z, isize)
    PROVE  SyncInv'
  <1>1. CASE Still(z)
    BY <1>1, StillSync
  <1>2. CASE /\ Alone(z) /\ UNCHANGED io
             /\ zone'[z].i_size = isize /\ zone'[z].z_wpoffset = isize /\ dev'[z].wp = isize
             /\ Accounted(zone'[z]) /\ sb'.rdonly = sb.rdonly /\ Sized(z)
    <2>1. isize <= isize
      BY ZonefsAssumption
    <2>2. ZoneInv(zone'[z], sb.rdonly, dev'[z], io'[z])
      BY <1>2, <2>1 DEF ZoneInv, Backed
    <2> QED BY <1>2, <2>2, SyncStep
  <1> QED BY <1>1, <1>2, TruncateStep DEF SyncInv

LEMMA ZoneFailsSync ==
    ASSUME SyncInv, IInv', NEW z \in Zones, NEW c \in BadFlags, ZoneFails(z, c)
    PROVE  SyncInv'
  <1>1. /\ ZoneInv(zone[z], sb.rdonly, dev[z], io[z]) /\ dev[z] \in DevState
    BY ZoneSyncTypes
  <1>2. UNCHANGED <<zone, sb, io>> /\ dev' = [dev EXCEPT ![z] = [dev[z] EXCEPT !.cond = c]]
    BY DEF ZoneFails
  <1>3. PICK d : d = [dev[z] EXCEPT !.cond = c]
    OBVIOUS
  <1>4. d.cond = c
    BY <1>1, <1>3 DEF DevState
  <1>5. Alone(z) /\ dev'[z] = d
    BY <1>2, <1>3 DEF SyncInv, IInv, CoreTypes, Alone
  <1>6. ZoneInv(zone[z], sb.rdonly, d, io[z])
    BY <1>1, <1>4 DEF ZoneInv, Flight
  <1> QED BY <1>2, <1>5, <1>6, SyncStep DEF Sized

(* The device loses data no report has shown. *)
LEMMA DeviceLossSync ==
    ASSUME SyncInv, IInv', NEW z \in Zones, NEW k \in 0 .. Capacity - 1, DeviceLoses(z, k)
    PROVE  SyncInv'
  <1>1. ZoneInv(zone[z], sb.rdonly, dev[z], io[z]) /\ dev[z] \in DevState
    BY ZoneSyncTypes
  <1>2. PICK d : d = AfterLoss(dev[z], k)
    OBVIOUS
  <1>3. d.loss = "unseen"
    BY <1>1, <1>2, AfterLossOK DEF DeviceLoses
  <1>4. UNCHANGED <<zone, sb, io>> /\ dev' = [dev EXCEPT ![z] = d]
    BY <1>2 DEF DeviceLoses
  <1>5. Alone(z) /\ dev'[z] = d
    BY <1>4 DEF SyncInv, IInv, CoreTypes, Alone
  <1>6. ZoneInv(zone[z], sb.rdonly, d, io[z])
    BY <1>1, <1>3 DEF ZoneInv, Flight, Backed
  <1> QED BY <1>4, <1>5, <1>6, SyncStep DEF Sized

(* As long as nothing has failed, a quiet zone is known exactly also when   *)
(* the volume is read-only.                                                 *)
LEMMA IdleQuiet ==
    ASSUME QuietInv, Untroubled, NEW z \in Zones, io[z] = << >>
    PROVE  zone[z].i_size = zone[z].z_wpoffset /\ (~Bad(zone[z]) => dev[z].wp = zone[z].z_wpoffset)
  <1>1. QuietZone(zone[z], dev[z], io[z]) /\ dev[z].wp \in 0 .. Capacity
    BY QuietTypes
  <1>2. dev[z].wp \in Nat
    BY <1>1, ZonefsAssumption
  <1> QED BY <1>1, <1>2, IdleLine DEF QuietZone

(* The inode made again is the one that was dropped. *)
LEMMA InodeSync ==
    ASSUME SyncInv, QuietInv, IInv', NEW z \in Zones, ~sb.rdonly \/ Untroubled,
           zonefs_get_file_inode(z)
    PROVE  SyncInv'
  <1>1. /\ ZoneInv(zone[z], sb.rdonly, dev[z], io[z]) /\ zone[z] \in ZoneState
    BY ZoneSyncTypes
  <1>2. /\ io[z] = << >> /\ UNCHANGED <<sb, dev, io, faults>>
        /\ zone' = [zone EXCEPT ![z] = [zone[z] EXCEPT !.i_size = zone[z].z_wpoffset]]
    BY DEF zonefs_get_file_inode
  <1>3. zone[z].i_size = zone[z].z_wpoffset
    BY <1>1, <1>2, IdleQuiet DEF ZoneInv
  <1>4. [zone[z] EXCEPT !.i_size = zone[z].z_wpoffset] = zone[z]
    BY <1>1, <1>3 DEF ZoneState
  <1>5. zone' = zone
    BY <1>2, <1>4 DEF SyncInv, IInv, CoreTypes
  <1> QED BY <1>2, <1>5, IdleStill, StillSync DEF SyncInv

LEMMA RemountSync ==
    ASSUME SyncInv, QuietInv, IInv', NEW e \in Errors, NEW x \in ExplicitOpts, NEW ro \in BOOLEAN,
           ro \/ ~sb.rdonly \/ Untroubled, zonefs_remount(e, x, ro)
    PROVE  SyncInv'
  <1>1. /\ sb' = [sb EXCEPT !.errors = e, !.explicit = @ \/ x, !.rdonly = ro]
        /\ UNCHANGED <<zone, dev, io, faults>> /\ sb \in SbState
    BY DEF zonefs_remount, SyncInv, IInv, CoreTypes
  <1>2. sb'.rdonly = ro /\ sb'.used = sb.used /\ sb.rdonly \in BOOLEAN
    BY <1>1 DEF SbState
  <1>3. ASSUME NEW z \in Zones PROVE ZoneInv(zone[z], ro, dev[z], io[z])
    <2>1. ZoneInv(zone[z], sb.rdonly, dev[z], io[z])
      BY DEF SyncInv
    <2>2. CASE sb.rdonly => ro
      BY <1>2, <2>1, <2>2, ReadOnlyZone
    <2>3. CASE Untroubled
      BY <2>1, <2>3, IdleQuiet DEF ZoneInv
    <2> QED BY <2>2, <2>3
  <1> QED BY <1>1, <1>2, <1>3 DEF SyncInv, UsedExact

(* A mounted volume, in the state of the mount. *)
Mounted ==
    \E d \in [Zones -> DevState], e \in Errors, x \in ExplicitOpts, ro \in BOOLEAN :
       /\ \A z \in Zones : FullOK(d[z])
       /\ FreshState(d, e, x, ro)
       /\ io = [z \in Zones |-> << >>]

LEMMA MountedZones ==
    ASSUME Mounted
    PROVE  /\ \A z \in Zones : ZoneInv(zone[z], sb.rdonly, dev[z], io[z])
           /\ UsedExact
  <1>1. PICK d \in [Zones -> DevState], e \in Errors, x \in ExplicitOpts, ro \in BOOLEAN :
          /\ \A z \in Zones : FullOK(d[z])
          /\ FreshState(d, e, x, ro)
          /\ io = [z \in Zones |-> << >>]
    BY DEF Mounted
  <1>2. /\ zone = [z \in Zones |-> MountedZone(d[z])]
        /\ sb = MountedSb(zone, e, x, ro)
        /\ dev = [z \in Zones |-> MountedDev(d[z])]
    BY <1>1 DEF FreshState, Fresh
  <1>3. UsedExact
    <2>1. ASSUME NEW z \in Zones
          PROVE  /\ zone[z].i_size = zone[z].z_wpoffset
                 /\ "ACTIVE" \in zone[z].flags <=> IsActive(zone[z])
      <3>1. PICK g \in DevState : zone[z] = MountedZone(g)
        BY <1>1, <1>2
      <3> QED BY <3>1, MountedFields
    <2>2. PICK f : f = zone
      OBVIOUS
    <2>3. MountedSb(f, e, x, ro).used = SizeOf(f)
      BY <2>1, <2>2, MountedCounts
    <2> QED BY <1>2, <2>2, <2>3 DEF UsedExact
  <1>4. ASSUME NEW z \in Zones
        PROVE  ZoneInv(zone[z], sb.rdonly, dev[z], io[z])
    <2>1. PICK v, b : v = zone[z] /\ b = dev[z]
      OBVIOUS
    <2>2. /\ v = MountedZone(d[z]) /\ b = MountedDev(d[z]) /\ io[z] = << >>
          /\ d[z] \in DevState /\ FullOK(d[z])
      BY <1>1, <1>2, <2>1
    <2>3. /\ v \in ZoneState /\ v.i_size = v.z_wpoffset
          /\ v.z_wpoffset = Found(d[z]).z_wpoffset
          /\ "ACTIVE" \in v.flags <=> IsActive(v)
      BY <2>2, MountedFields
    <2>4. /\ b.cond \in BadFlags <=> d[z].cond \in BadFlags
          /\ d[z].cond \notin BadFlags => b.wp = Found(d[z]).z_wpoffset
      BY <2>2, MountedDevOK
    <2>5. v.z_wpoffset <= v.z_wpoffset
      BY <2>3, ZonefsAssumption DEF ZoneState
    <2>6. b.cond \notin BadFlags => Backed(v, b)
      BY <2>3, <2>4, <2>5 DEF Backed
    <2>7. ZoneInv(v, sb.rdonly, b, << >>)
      BY <2>3, <2>4, <2>5, <2>6 DEF ZoneInv, Accounted
    <2> QED BY <2>1, <2>2, <2>7
  <1> QED BY <1>3, <1>4

LEMMA MountedNext ==
    (Mounted => /\ \A z \in Zones : ZoneInv(zone[z], sb.rdonly, dev[z], io[z])
                /\ UsedExact)'
  <1>1. Mounted => /\ \A z \in Zones : ZoneInv(zone[z], sb.rdonly, dev[z], io[z])
                   /\ UsedExact
    BY MountedZones
  <1> QED BY <1>1, PTL

LEMMA InitMounted ==
    ASSUME Init
    PROVE  Mounted
  <1>1. PICK d \in [Zones -> StartDev], e \in Errors, x \in ExplicitOpts, ro \in BOOLEAN :
          FreshState(d, e, x, ro)
    BY DEF Init, FreshState
  <1>2. d \in [Zones -> DevState] /\ \A z \in Zones : FullOK(d[z])
    BY StartDevOK
  <1>3. io = [z \in Zones |-> << >>]
    BY DEF Init
  <1> QED BY <1>1, <1>2, <1>3 DEF Mounted

LEMMA RestartMounted ==
    ASSUME IInv, NEW e \in Errors, NEW x \in ExplicitOpts, NEW ro \in BOOLEAN,
           Restart(e, x, ro)
    PROVE  Mounted'
  <1>1. dev \in [Zones -> DevState] /\ \A z \in Zones : FullOK(dev[z])
    BY DEF IInv, CoreTypes
  <1>2. PICK d : d = dev
    OBVIOUS
  <1>3. d \in [Zones -> DevState] /\ \A z \in Zones : FullOK(d[z])
    BY <1>1, <1>2
  <1>4. FreshState(d, e, x, ro)' /\ io' = [z \in Zones |-> << >>]
    BY <1>2 DEF Restart, FreshState, Fresh
  <1> QED BY <1>3, <1>4 DEF Mounted

LEMMA SyncNext ==
    ASSUME Async = FALSE, SyncInv, QuietInv, [SafeNext]_vars
    PROVE  SyncInv'
  <1>1. IInv'
    BY SafeNextInv DEF QuietInv
  <1>2. ASSUME NEW z \in Zones, FileStep(z)
        PROVE  SyncInv'
    <2>1. CASE zonefs_seq_file_write_open(z)
      BY <1>1, <2>1, OpenStill, StillSync DEF SyncInv
    <2>2. CASE \E fails \in BOOLEAN : zonefs_seq_file_write_close(z, fails)
      BY <1>1, <2>2, CloseSync
    <2>3. CASE iomap_dio_rw(z)
      BY <1>1, <2>3, SubmitSync
    <2>4. CASE DeviceWrite(z)
      BY <1>1, <2>4, DeviceSync
    <2>5. CASE \E i \in DOMAIN io[z] : zonefs_file_write_dio_end_io(z, i) \/ WriteError(z, i)
      BY <1>1, <2>5, EndIoSync, RecoverySync DEF WriteError
    <2>6. CASE \E isize \in {0, Capacity} : zonefs_inode_setattr(z, isize)
      BY <1>1, <2>6, TruncateSync DEF zonefs_inode_setattr
    <2>7. CASE \E c \in BadFlags : ZoneFails(z, c)
      BY <1>1, <2>7, ZoneFailsSync
    <2>8. CASE \E k \in 0 .. Capacity - 1 : DeviceLoses(z, k)
      BY <1>1, <2>8, DeviceLossSync
    <2> QED BY <1>2, <2>1, <2>2, <2>3, <2>4, <2>5, <2>6, <2>7, <2>8 DEF FileStep
  <1>3. ASSUME NEW z \in Zones, WriterStep(z)
        PROVE  SyncInv'
    BY <1>1, <1>3, WriterSync, WriteSync DEF WriterStep, Syncs
  <1>4. ASSUME NEW z \in Zones, io[z] = << >>, UnlockedStep(z)
        PROVE  SyncInv'
    <2>1. CASE GCReset(z)
      BY <1>1, <1>4, <2>1, TruncateSync DEF GCReset
    <2>2. CASE ReadError(z)
      BY <1>1, <1>4, <2>2, IdleErrorSync DEF ReadError
    <2>3. CASE zonefs_file_fsync(z)
      BY <1>1, <1>4, <2>3, IdleErrorSync DEF zonefs_file_fsync
    <2> QED BY <1>4, <2>1, <2>2, <2>3 DEF UnlockedStep
  <1>5. ASSUME NEW z \in Zones, ~sb.rdonly \/ Untroubled, zonefs_get_file_inode(z)
        PROVE  SyncInv'
    BY <1>1, <1>5, InodeSync
  <1>6. ASSUME NEW e \in Errors, NEW x \in ExplicitOpts, NEW ro \in BOOLEAN, Restart(e, x, ro)
        PROVE  SyncInv'
    BY <1>1, <1>6, RestartMounted, MountedNext DEF SyncInv
  <1>7. ASSUME NEW e \in Errors, NEW x \in ExplicitOpts, NEW ro \in BOOLEAN,
               ro \/ ~sb.rdonly \/ Untroubled, zonefs_remount(e, x, ro)
        PROVE  SyncInv'
    BY <1>1, <1>7, RemountSync
  <1>8. CASE UNCHANGED vars
    BY <1>1, <1>8 DEF vars, SyncInv, UsedExact
  <1>9. ASSUME NEW z \in Zones, SubmissionFails(z)
        PROVE  SyncInv'
    BY <1>1, <1>9, SubmissionSync
  <1> QED BY <1>2, <1>3, <1>4, <1>5, <1>6, <1>7, <1>8, <1>9 DEF SafeNext, LocalStep

(* With synchronous writes, what zonefs keeps of every zone agrees with the *)
(* device through every fault, recovery and restart: it is the device, or   *)
(* behind it, but for what the device lost and no report has shown, and for *)
(* a volume or zone given up.                                               *)
THEOREM SyncInvariant ==
    ASSUME Async = FALSE
    PROVE  SafeSpec => []SyncInv
  <1>1. Init => SyncInv
    BY InitInv, InitMounted, MountedZones DEF SyncInv
  <1>2. SyncInv /\ QuietInv /\ [SafeNext]_vars => SyncInv'
    BY SyncNext
  <1> QED BY <1>1, <1>2, QuietInvariant, PTL DEF SafeSpec

(* A zone is marked active exactly when it is open or partly written, and   *)
(* not bad (zonefs_account_active).                                         *)
THEOREM ActiveMarks ==
    ASSUME Async = FALSE
    PROVE  SafeSpec => []ActiveExact
  <1>1. SyncInv => ActiveExact
    BY DEF SyncInv, ZoneInv, Accounted, ActiveExact
  <1> QED BY <1>1, SyncInvariant, PTL

(* On a writable volume a good and quiet zone is known exactly: the next    *)
(* write goes to the device's write pointer (zonefs_file_dio_write), after  *)
(* whatever errors were recovered from (zonefs_handle_io_error).            *)
THEOREM WritePointerKnown ==
    ASSUME Async = FALSE
    PROVE  SafeSpec => []WpExact
  <1>1. SyncInv => WpExact
    BY DEF SyncInv, ZoneInv, WpExact
  <1> QED BY <1>1, SyncInvariant, PTL

(* What a reader may see of a good zone is at the device, also while a      *)
(* write is in flight and after errors (zonefs_i_size_write,                *)
(* zonefs_handle_io_error). Only data the device had acknowledged and lost  *)
(* are the exception: until a report shows the loss, and in a zone that it  *)
(* made read-only.                                                          *)
THEOREM ReadableIsWritten ==
    ASSUME Async = FALSE
    PROVE  SafeSpec => []SizeBacked
  <1>1. SyncInv => SizeBacked
    BY DEF SyncInv, ZoneInv, Backed, SizeBacked
  <1> QED BY <1>1, SyncInvariant, PTL

(* s_used_blocks is the sum of the file sizes: zonefs_update_stats never    *)
(* has to clamp it.                                                         *)
THEOREM UsedBlocks ==
    ASSUME Async = FALSE
    PROVE  SafeSpec => []UsedExact
  <1>1. SyncInv => UsedExact
    BY DEF SyncInv
  <1> QED BY <1>1, SyncInvariant, PTL

================================================================================
