------------------------------ MODULE ZonefsProofs -----------------------------
(***************************************************************************)
(* Proofs about Zonefs for every number of zones, capacity and mount       *)
(* option, and for every behaviour of Spec: all faults, all races, all     *)
(* remounts and restarts. The types, the count of active zones and the     *)
(* bounds on the count of files open for writing.                          *)
(***************************************************************************)
EXTENDS Zonefs, FiniteSetTheorems, SequenceTheorems, WellFoundedInduction, TLAPS

--------------------------------------------------------------------------------
(* Sums over the zones. Total is a fold of the community modules, that is,  *)
(* a function defined by recursion over the subsets of Zones. What it       *)
(* computes is shown by looking at a smallest counterexample.               *)

(* The zone a fold takes first. *)
Pick(s) == CHOOSE x \in s : TRUE

(* g adds up the values of f over the subsets of S. *)
Adds(g, f, S) ==
    \A s \in SUBSET S :
       g[s] = IF s = {} THEN 0 ELSE f[Pick(s)] + g[s \ {Pick(s)}]

(* The proof that a property of sets is inherited from smaller sets may     *)
(* look at a smallest set without it.                                       *)
LEMMA SmallestSet ==
    ASSUME NEW S, IsFiniteSet(S), NEW T \in SUBSET (SUBSET S), T # {}
    PROVE  \E x \in T : \A y \in SUBSET x : y # x => y \notin T
  <1>1. IsWellFoundedOn(StrictSubsetOrdering(S), FiniteSubsetsOf(S))
    BY FS_StrictSubsetOrderingWellFounded
  <1>2. T \subseteq FiniteSubsetsOf(S)
    BY FS_Subset DEF FiniteSubsetsOf
  <1>3. PICK x \in T : \A y \in T : <<y, x>> \notin StrictSubsetOrdering(S)
    BY <1>1, <1>2, WFMin
  <1> QED BY <1>3 DEF StrictSubsetOrdering

LEMMA SmallestNat ==
    ASSUME NEW T \in SUBSET Nat, T # {}
    PROVE  \E i \in T : \A j \in T : i <= j
  <1>1. PICK i \in T : \A j \in T : <<j, i>> \notin OpToRel(<, Nat)
    BY NatLessThanWellFounded, WFMin
  <1>2. \A j \in T : ~(j < i)
    BY <1>1 DEF OpToRel
  <1> QED BY <1>2

LEMMA PickIn ==
    ASSUME NEW s, s # {}
    PROVE  Pick(s) \in s
  BY DEF Pick

(* Two sums agree wherever both are defined. *)
LEMMA AddsUnique ==
    ASSUME NEW f, NEW S, NEW U, IsFiniteSet(S), NEW g, NEW h,
           Adds(g, f, S), Adds(h, f, U)
    PROVE  \A s \in SUBSET (S \cap U) : g[s] = h[s]
  <1> DEFINE T == {s \in SUBSET (S \cap U) : g[s] # h[s]}
  <1>1. SUFFICES ASSUME T # {} PROVE FALSE
    OBVIOUS
  <1>2. IsFiniteSet(S \cap U)
    BY FS_Subset
  <1>3. PICK x \in T : \A y \in SUBSET x : y # x => y \notin T
    <2> HIDE DEF T
    <2>1. T \in SUBSET (SUBSET (S \cap U))
      BY DEF T
    <2> QED BY <1>1, <1>2, <2>1, SmallestSet
  <1>4. x # {}
    BY <1>3 DEF Adds
  <1>5. Pick(x) \in x
    BY <1>4, PickIn
  <1>6. g[x \ {Pick(x)}] = h[x \ {Pick(x)}]
    BY <1>3, <1>5
  <1> QED BY <1>3, <1>4, <1>6 DEF Adds

LEMMA AddsExists ==
    ASSUME NEW f, NEW S, IsFiniteSet(S)
    PROVE  \E g : Adds(g, f, S)
  <1> DEFINE T == {s \in SUBSET S : ~ \E g : Adds(g, f, s)}
             H(t) == CHOOSE g : Adds(g, f, t)
  <1>1. SUFFICES ASSUME T # {} PROVE FALSE
    OBVIOUS
  <1>2. PICK x \in T : \A y \in SUBSET x : y # x => y \notin T
    <2> HIDE DEF T
    <2>1. T \in SUBSET (SUBSET S)
      BY DEF T
    <2> QED BY <1>1, <2>1, SmallestSet
  <1>3. \A y \in SUBSET x : y # x => Adds(H(y), f, y) /\ IsFiniteSet(y)
    BY <1>2, FS_Subset
  <1> HIDE DEF H
  <1> DEFINE k == [t \in SUBSET x |->
                     IF t = {} THEN 0
                     ELSE f[Pick(t)] + H(t \ {Pick(t)})[t \ {Pick(t)}]]
  <1>4. \A y \in SUBSET x : y # x => k[y] = H(y)[y]
    <2> SUFFICES ASSUME NEW y \in SUBSET x, y # x PROVE k[y] = H(y)[y]
      OBVIOUS
    <2>1. CASE y = {}
      BY <2>1, <1>3 DEF Adds
    <2>2. CASE y # {}
      <3> DEFINE r == y \ {Pick(y)}
      <3>1. Pick(y) \in y
        BY <2>2, PickIn
      <3>2. Adds(H(y), f, y) /\ Adds(H(r), f, r) /\ IsFiniteSet(r)
        BY <1>3, <3>1
      <3>3. H(r)[r] = H(y)[r]
        <4>1. r \in SUBSET (r \cap y)
          OBVIOUS
        <4> HIDE DEF r
        <4> QED BY <3>2, <4>1, AddsUnique
      <3>4. H(y)[y] = f[Pick(y)] + H(y)[r]
        BY <2>2, <3>2 DEF Adds
      <3>5. k[y] = f[Pick(y)] + H(r)[r]
        BY <2>2
      <3> QED BY <3>3, <3>4, <3>5
    <2> QED BY <2>1, <2>2
  <1>5. Adds(k, f, x)
    <2> SUFFICES ASSUME NEW t \in SUBSET x
                 PROVE  k[t] = IF t = {} THEN 0 ELSE f[Pick(t)] + k[t \ {Pick(t)}]
      BY DEF Adds
    <2>1. CASE t = {}
      BY <2>1
    <2>2. CASE t # {}
      <3>1. Pick(t) \in t
        BY <2>2, PickIn
      <3>2. k[t \ {Pick(t)}] = H(t \ {Pick(t)})[t \ {Pick(t)}]
        BY <1>4, <3>1
      <3> QED BY <2>2, <3>2
    <2> QED BY <2>1, <2>2
  <1> QED BY <1>2, <1>5

(* Total adds up the values. *)
LEMMA TotalAdds ==
    ASSUME NEW f
    PROVE  \E g : Adds(g, f, Zones) /\ Total(f) = g[Zones]
  <1> DEFINE Def(g) == [s \in SUBSET Zones |->
                 IF s = {} THEN 0 ELSE f[Pick(s)] + g[s \ {Pick(s)}]]
             iter == CHOOSE g : g = Def(g)
  <1>1. Total(f) = iter[Zones]
    BY DEF Total, MapThenSumSet, MapThenFoldSet, Pick
  <1>2. PICK h : Adds(h, f, Zones)
    BY AddsExists, ZonefsAssumption
  <1> DEFINE g0 == [s \in SUBSET Zones |-> h[s]]
  <1>3. g0 = Def(g0)
    <2>1. \A s \in SUBSET Zones : s \ {Pick(s)} \in SUBSET Zones
      OBVIOUS
    <2>2. \A s \in SUBSET Zones : g0[s] = Def(g0)[s]
      BY <1>2, <2>1 DEF Adds
    <2> QED BY <2>2
  <1>4. iter = Def(iter)
    BY <1>3
  <1>5. Adds(iter, f, Zones)
    <2> HIDE DEF iter
    <2> QED BY <1>4 DEF Adds
  <1> QED BY <1>1, <1>5

(* The sum over n zones of values within the capacity lies in 0 .. n * Capacity. *)
LEMMA AddsRange ==
    ASSUME NEW f, \A z \in Zones : f[z] \in 0 .. Capacity,
           NEW g, Adds(g, f, Zones)
    PROVE  \A s \in SUBSET Zones : g[s] \in 0 .. Cardinality(s) * Capacity
  <1> DEFINE T == {s \in SUBSET Zones : g[s] \notin 0 .. Cardinality(s) * Capacity}
  <1>1. SUFFICES ASSUME T # {} PROVE FALSE
    OBVIOUS
  <1>2. PICK x \in T : \A y \in SUBSET x : y # x => y \notin T
    <2> HIDE DEF T
    <2>1. T \in SUBSET (SUBSET Zones)
      BY DEF T
    <2> QED BY <1>1, <2>1, SmallestSet, ZonefsAssumption
  <1>3. x # {}
    <2>1. g[{}] = 0 /\ Cardinality({}) = 0
      BY FS_EmptySet DEF Adds
    <2>2. 0 \in 0 .. 0 * Capacity
      BY ZonefsAssumption
    <2>3. {} \notin T
      BY <2>1, <2>2
    <2> QED BY <2>3
  <1>4. Pick(x) \in x
    BY <1>3, PickIn
  <1> DEFINE r == x \ {Pick(x)}
             c == Cardinality(r)
  <1>5. g[r] \in 0 .. c * Capacity
    BY <1>2, <1>4
  <1>6. IsFiniteSet(x) /\ IsFiniteSet(r)
    BY FS_Subset, ZonefsAssumption
  <1>7. c \in Nat /\ Cardinality(x) = c + 1
    BY <1>4, <1>6, FS_RemoveElement, FS_CardinalityType
  <1>8. (c + 1) * Capacity = c * Capacity + Capacity
    <2> HIDE DEF c
    <2> QED BY <1>7, ZonefsAssumption
  <1>9. g[x] = f[Pick(x)] + g[r] /\ f[Pick(x)] \in 0 .. Capacity
    BY <1>3, <1>4 DEF Adds
  <1>10. c * Capacity \in Nat
    BY <1>7, ZonefsAssumption
  <1>11. g[x] \in 0 .. Cardinality(x) * Capacity
    <2> HIDE DEF c, r
    <2> QED BY <1>5, <1>7, <1>8, <1>9, <1>10, ZonefsAssumption
  <1> QED BY <1>2, <1>11

(* When the value of one zone changes, so do the sums it is part of. *)
LEMMA AddsChange ==
    ASSUME NEW f, NEW h, NEW z \in Zones,
           \A y \in Zones : f[y] \in Int /\ h[y] \in Int,
           \A y \in Zones : y # z => h[y] = f[y],
           NEW a, Adds(a, f, Zones), \A s \in SUBSET Zones : a[s] \in Int,
           NEW b, Adds(b, h, Zones)
    PROVE  \A s \in SUBSET Zones :
              b[s] = a[s] + IF z \in s THEN h[z] - f[z] ELSE 0
  <1> DEFINE Diff(s) == IF z \in s THEN h[z] - f[z] ELSE 0
             T == {s \in SUBSET Zones : b[s] # a[s] + Diff(s)}
  <1>1. SUFFICES ASSUME T # {} PROVE FALSE
    OBVIOUS
  <1>2. PICK x \in T : \A y \in SUBSET x : y # x => y \notin T
    <2> HIDE DEF T
    <2>1. T \in SUBSET (SUBSET Zones)
      BY DEF T
    <2> QED BY <1>1, <2>1, SmallestSet, ZonefsAssumption
  <1>3. x # {}
    <2>1. a[{}] = 0 /\ b[{}] = 0
      BY DEF Adds
    <2>2. {} \notin T
      BY <2>1
    <2> QED BY <2>2
  <1>4. Pick(x) \in x
    BY <1>3, PickIn
  <1> DEFINE r == x \ {Pick(x)}
  <1>5. b[r] = a[r] + Diff(r)
    BY <1>2, <1>4
  <1>6. /\ a[x] = f[Pick(x)] + a[r]
        /\ b[x] = h[Pick(x)] + b[r]
    BY <1>3 DEF Adds
  <1>7. h[Pick(x)] + Diff(r) = f[Pick(x)] + Diff(x)
    <2>1. CASE Pick(x) = z
      BY <1>4, <2>1
    <2>2. CASE Pick(x) # z
      BY <1>4, <2>2
    <2> QED BY <2>1, <2>2
  <1>8. /\ a[r] \in Int /\ Diff(r) \in Int /\ Diff(x) \in Int
        /\ f[Pick(x)] \in Int /\ h[Pick(x)] \in Int
    BY <1>4
  <1>9. b[x] = a[x] + Diff(x)
    <2> HIDE DEF Diff, r
    <2> QED BY <1>5, <1>6, <1>7, <1>8
  <1> QED BY <1>2, <1>9

(* Counting one for every zone of a kind is taking the size of the kind. *)
LEMMA AddsCount ==
    ASSUME NEW f, \A z \in Zones : f[z] \in {0, 1}, NEW g, Adds(g, f, Zones)
    PROVE  \A s \in SUBSET Zones : g[s] = Cardinality({z \in s : f[z] = 1})
  <1> DEFINE C(s) == {z \in s : f[z] = 1}
             T == {s \in SUBSET Zones : g[s] # Cardinality(C(s))}
  <1>1. SUFFICES ASSUME T # {} PROVE FALSE
    OBVIOUS
  <1>2. PICK x \in T : \A y \in SUBSET x : y # x => y \notin T
    <2> HIDE DEF T
    <2>1. T \in SUBSET (SUBSET Zones)
      BY DEF T
    <2> QED BY <1>1, <2>1, SmallestSet, ZonefsAssumption
  <1>3. x # {}
    <2>1. g[{}] = 0 /\ C({}) = {} /\ Cardinality({}) = 0
      BY FS_EmptySet DEF Adds
    <2>2. {} \notin T
      BY <2>1
    <2> QED BY <2>2
  <1>4. Pick(x) \in x
    BY <1>3, PickIn
  <1> DEFINE r == x \ {Pick(x)}
  <1>5. g[r] = Cardinality(C(r))
    BY <1>2, <1>4
  <1>6. g[x] = f[Pick(x)] + g[r] /\ f[Pick(x)] \in {0, 1}
    BY <1>3, <1>4 DEF Adds
  <1>7. IsFiniteSet(C(x)) /\ C(r) = C(x) \ {Pick(x)} /\ (Pick(x) \in C(x) <=> f[Pick(x)] = 1)
    BY <1>4, FS_Subset, ZonefsAssumption
  <1>8. Cardinality(C(r)) = IF Pick(x) \in C(x) THEN Cardinality(C(x)) - 1 ELSE Cardinality(C(x))
    BY <1>7, FS_RemoveElement
  <1>9. Cardinality(C(x)) \in Nat
    BY <1>7, FS_CardinalityType
  <1>10. g[x] = Cardinality(C(x))
    <2> HIDE DEF C, r
    <2> QED BY <1>5, <1>6, <1>7, <1>8, <1>9
  <1> QED BY <1>2, <1>10

LEMMA TotalCounts ==
    ASSUME NEW f, \A z \in Zones : f[z] \in {0, 1}
    PROVE  Total(f) = Cardinality({z \in Zones : f[z] = 1})
  <1>1. PICK g : Adds(g, f, Zones) /\ Total(f) = g[Zones]
    BY TotalAdds
  <1>2. \A s \in SUBSET Zones : g[s] = Cardinality({z \in s : f[z] = 1})
    BY <1>1, AddsCount
  <1> QED BY <1>1, <1>2

LEMMA SizeOfRange ==
    ASSUME NEW f \in [Zones -> ZoneState]
    PROVE  SizeOf(f) \in 0 .. Blocks
  <1> DEFINE v == [z \in Zones |-> f[z].i_size]
  <1>1. PICK g : Adds(g, v, Zones) /\ Total(v) = g[Zones]
    BY TotalAdds
  <1>2. \A z \in Zones : v[z] \in 0 .. Capacity
    BY DEF ZoneState
  <1> QED BY <1>1, <1>2, AddsRange DEF Blocks, SizeOf

LEMMA TotalChange ==
    ASSUME NEW v, NEW u, NEW z \in Zones,
           \A y \in Zones : v[y] \in 0 .. Capacity /\ u[y] \in 0 .. Capacity,
           \A y \in Zones : y # z => u[y] = v[y]
    PROVE  /\ Total(v) \in Int
           /\ Total(u) = Total(v) + (u[z] - v[z])
  <1>1. PICK a : Adds(a, v, Zones) /\ Total(v) = a[Zones]
    BY TotalAdds
  <1>2. PICK b : Adds(b, u, Zones) /\ Total(u) = b[Zones]
    BY TotalAdds
  <1>3. \A s \in SUBSET Zones : a[s] \in Int
    <2>1. \A s \in SUBSET Zones : Cardinality(s) * Capacity \in Int
      BY FS_Subset, FS_CardinalityType, ZonefsAssumption
    <2>2. \A y \in Zones : v[y] \in 0 .. Capacity
      OBVIOUS
    <2> QED BY <1>1, <2>1, <2>2, AddsRange
  <1>4. \A y \in Zones : v[y] \in Int /\ u[y] \in Int
    BY ZonefsAssumption
  <1>5. \A s \in SUBSET Zones : b[s] = a[s] + IF z \in s THEN u[z] - v[z] ELSE 0
    BY <1>1, <1>2, <1>3, <1>4, AddsChange
  <1> QED BY <1>1, <1>2, <1>3, <1>5

LEMMA SizeOfChange ==
    ASSUME NEW f \in [Zones -> ZoneState], NEW z \in Zones, NEW x \in ZoneState
    PROVE  SizeOf([f EXCEPT ![z] = x]) = SizeOf(f) + x.i_size - f[z].i_size
  <1> DEFINE h == [f EXCEPT ![z] = x]
             v == [y \in Zones |-> f[y].i_size]
             u == [y \in Zones |-> h[y].i_size]
  <1>1. \A y \in Zones : v[y] \in 0 .. Capacity /\ u[y] \in 0 .. Capacity
    BY DEF ZoneState
  <1>2. \A y \in Zones : y # z => u[y] = v[y]
    OBVIOUS
  <1>3. u[z] = x.i_size /\ v[z] = f[z].i_size
    OBVIOUS
  <1>4. SizeOf(f) = Total(v) /\ SizeOf(h) = Total(u)
    BY DEF SizeOf
  <1>5. Total(v) \in Int /\ Total(u) = Total(v) + (u[z] - v[z])
    <2> HIDE DEF h, u, v
    <2> QED BY <1>1, <1>2, TotalChange
  <1>6. x.i_size \in Int /\ f[z].i_size \in Int
    BY ZonefsAssumption DEF ZoneState
  <1>7. SizeOf(h) = SizeOf(f) + x.i_size - f[z].i_size
    <2> HIDE DEF h, u, v
    <2> QED BY <1>3, <1>4, <1>5, <1>6
  <1> QED BY <1>7

--------------------------------------------------------------------------------
(* What the operators on a zone and the volume keep *)

ViewState == [zone : ZoneState, sb : SbState]

(* 1 for a zone marked active. *)
Mark(x) == IF "ACTIVE" \in x.flags THEN 1 ELSE 0

(* What zonefs_update_stats leaves in s_used_blocks. *)
Clamp(n) == IF n < 0 THEN 0 ELSE IF n > Blocks THEN Blocks ELSE n

(* From s to t the count moves with the mark, writers and options are as    *)
(* they were, no zone becomes open or recovers, and the volume does not     *)
(* become writable.                                                         *)
Keeps(s, t) ==
    /\ t \in ViewState
    /\ t.sb.active - s.sb.active = Mark(t.zone) - Mark(s.zone)
    /\ t.zone.i_wr_refcnt = s.zone.i_wr_refcnt /\ t.sb.wro = s.sb.wro
    /\ t.sb.errors = s.sb.errors /\ t.sb.explicit = s.sb.explicit
    /\ s.sb.rdonly => t.sb.rdonly
    /\ "OPEN" \in t.zone.flags => "OPEN" \in s.zone.flags
    /\ Bad(s.zone) => Bad(t.zone)

LEMMA KeepsSelf ==
    ASSUME NEW s \in ViewState
    PROVE  Keeps(s, s)
  BY DEF Keeps, ViewState, SbState, Mark

LEMMA KeepsTrans ==
    ASSUME NEW s \in ViewState, NEW t \in ViewState, NEW u,
           Keeps(s, t), Keeps(t, u)
    PROVE  Keeps(s, u)
  BY DEF Keeps, ViewState, SbState, Mark

LEMMA SetActiveKeeps ==
    ASSUME NEW s \in ViewState, NEW on \in BOOLEAN
    PROVE  Keeps(s, SetActive(s, on))
  <1> DEFINE x == SetActive(s, on).zone
  <1>1. x \in ZoneState
    BY DEF SetActive, ViewState, ZoneState, Flags
  <1>2. x.flags \ {"ACTIVE"} = s.zone.flags \ {"ACTIVE"} /\ x.i_wr_refcnt = s.zone.i_wr_refcnt
    BY DEF SetActive, ViewState, ZoneState
  <1>3. ("OPEN" \in x.flags => "OPEN" \in s.zone.flags) /\ (Bad(s.zone) => Bad(x))
    BY <1>2 DEF Bad, BadFlags
  <1>4. SetActive(s, on).sb \in SbState
    BY DEF SetActive, ViewState, SbState
  <1>5. SetActive(s, on).sb.active - s.sb.active = Mark(x) - Mark(s.zone)
    BY DEF SetActive, ViewState, ZoneState, SbState, Mark
  <1>6. SetActive(s, on) \in ViewState
    BY <1>1, <1>4 DEF SetActive, ViewState
  <1> QED BY <1>2, <1>3, <1>5, <1>6 DEF SetActive, Keeps, ViewState, SbState

LEMMA AccountKeeps ==
    ASSUME NEW s \in ViewState
    PROVE  Keeps(s, zonefs_account_active(s))
  BY SetActiveKeeps DEF zonefs_account_active, IsActive

LEMMA ClearOpenKeeps ==
    ASSUME NEW s \in ViewState
    PROVE  Keeps(s, ClearOpen(s)) /\ "OPEN" \notin ClearOpen(s).zone.flags
  <1> DEFINE x == [s.zone EXCEPT !.flags = @ \ {"OPEN"}]
  <1>1. x \in ZoneState /\ x.flags = s.zone.flags \ {"OPEN"} /\ x.i_wr_refcnt = s.zone.i_wr_refcnt
    BY DEF ViewState, ZoneState
  <1>2. Mark(x) = Mark(s.zone) /\ (Bad(s.zone) => Bad(x))
    BY <1>1 DEF Mark, Bad, BadFlags
  <1> HIDE DEF x
  <1>3. ClearOpen(s) = [zone |-> x, sb |-> s.sb]
    BY DEF ClearOpen, WithZone, x
  <1> QED BY <1>1, <1>2, <1>3 DEF Keeps, ViewState, SbState, Mark

(* None of them makes a good zone bad. *)
LEMMA AccountBad ==
    ASSUME NEW s \in ViewState
    PROVE  Bad(zonefs_account_active(s).zone) => Bad(s.zone)
  BY DEF zonefs_account_active, SetActive, Bad, BadFlags, ViewState, ZoneState

(* A step on the sizes of the zone alone. *)
LEMMA SizesKeep ==
    ASSUME NEW s \in ViewState, NEW i \in 0 .. Capacity, NEW w \in 0 .. Capacity
    PROVE  Keeps(s, WithZone(s, [s.zone EXCEPT !.i_size = i, !.z_wpoffset = w]))
  <1> DEFINE x == [s.zone EXCEPT !.i_size = i, !.z_wpoffset = w]
  <1>1. x \in ZoneState /\ x.flags = s.zone.flags /\ x.i_wr_refcnt = s.zone.i_wr_refcnt
    BY DEF ViewState, ZoneState
  <1> HIDE DEF x
  <1>2. WithZone(s, x) \in ViewState
    BY <1>1 DEF WithZone, ViewState
  <1>3. Keeps(s, WithZone(s, x))
    BY <1>1, <1>2 DEF WithZone, Keeps, ViewState, SbState, Mark, Bad
  <1> QED BY <1>3 DEF x

LEMMA SizeWriteKeeps ==
    ASSUME NEW s \in ViewState, NEW isize \in 0 .. Capacity
    PROVE  Keeps(s, zonefs_i_size_write(s, isize))
  <1> DEFINE t == WithZone(s, [s.zone EXCEPT !.i_size = isize])
             u == SetActive(t, FALSE)
  <1>1. Keeps(s, t)
    BY DEF WithZone, Keeps, ViewState, ZoneState, SbState, Mark, Bad
  <1>2. t \in ViewState
    BY <1>1 DEF Keeps
  <1>3. Keeps(t, u) /\ u \in ViewState
    <2> HIDE DEF t
    <2> QED BY <1>2, SetActiveKeeps DEF Keeps
  <1>4. Keeps(u, ClearOpen(u))
    <2> HIDE DEF u
    <2> QED BY <1>3, ClearOpenKeeps
  <1>5. Keeps(s, ClearOpen(u))
    <2> HIDE DEF t, u
    <2>1. Keeps(s, u)
      BY <1>1, <1>2, <1>3, KeepsTrans
    <2> QED BY <1>3, <1>4, <2>1, KeepsTrans
  <1> QED BY <1>1, <1>5 DEF zonefs_i_size_write

LEMMA SizeWriteFlags ==
    ASSUME NEW s \in ViewState, NEW isize \in 0 .. Capacity
    PROVE  zonefs_i_size_write(s, isize).zone.flags =
             IF isize >= Capacity THEN s.zone.flags \ {"ACTIVE", "OPEN"} ELSE s.zone.flags
  <1> DEFINE t == WithZone(s, [s.zone EXCEPT !.i_size = isize])
  <1>1. t.zone.flags = s.zone.flags /\ "flags" \in DOMAIN t.zone
    BY DEF WithZone, ViewState, ZoneState
  <1>2. /\ SetActive(t, FALSE).zone.flags = s.zone.flags \ {"ACTIVE"}
        /\ "flags" \in DOMAIN SetActive(t, FALSE).zone
    <2> HIDE DEF t
    <2> QED BY <1>1 DEF SetActive
  <1>3. ClearOpen(SetActive(t, FALSE)).zone.flags = s.zone.flags \ {"ACTIVE", "OPEN"}
    BY <1>2 DEF ClearOpen, WithZone
  <1> QED BY <1>1, <1>3 DEF zonefs_i_size_write

LEMMA BlocksNat == Blocks \in Nat
  BY ZonefsAssumption, FS_CardinalityType DEF Blocks

LEMMA StatsKeeps ==
    ASSUME NEW s \in ViewState, NEW isize \in 0 .. Capacity
    PROVE  Keeps(s, zonefs_update_stats(s, isize))
  BY BlocksNat, ZonefsAssumption
     DEF zonefs_update_stats, WithSb, Keeps, ViewState, ZoneState, SbState, Mark, Bad

LEMMA ResizedKeeps ==
    ASSUME NEW s \in ViewState, NEW isize \in 0 .. Capacity
    PROVE  Keeps(s, Resized(s, isize))
  <1> DEFINE t == zonefs_update_stats(s, isize)
             u == zonefs_i_size_write(t, isize)
             v == WithZone(u, [u.zone EXCEPT !.z_wpoffset = isize])
  <1>1. Keeps(s, t) /\ t \in ViewState
    BY StatsKeeps DEF Keeps
  <1>2. Keeps(t, u) /\ u \in ViewState
    <2> HIDE DEF t
    <2> QED BY <1>1, SizeWriteKeeps DEF Keeps
  <1>3. Keeps(u, v)
    <2> HIDE DEF u
    <2> QED BY <1>2 DEF WithZone, Keeps, ViewState, ZoneState, SbState, Mark, Bad
  <1>4. Keeps(s, v)
    <2> HIDE DEF t, u, v
    <2>1. Keeps(s, u)
      BY <1>1, <1>2, KeepsTrans
    <2> QED BY <1>2, <1>3, <2>1, KeepsTrans
  <1> QED BY <1>4 DEF Resized

LEMMA SetWpFields ==
    ASSUME NEW s \in ViewState, NEW w
    PROVE  LET t == WithZone(s, [s.zone EXCEPT !.z_wpoffset = w])
           IN  /\ t.zone.flags = s.zone.flags /\ t.zone.i_size = s.zone.i_size
               /\ t.zone.z_wpoffset = w /\ t.sb = s.sb
  BY DEF WithZone, ViewState, ZoneState

LEMMA StatsFields ==
    ASSUME NEW s \in ViewState, NEW isize \in 0 .. Capacity
    PROVE  LET t == zonefs_update_stats(s, isize)
           IN  /\ t.zone = s.zone /\ t.sb.rdonly = s.sb.rdonly
               /\ t.sb.used = Clamp(s.sb.used + isize - s.zone.i_size)
  BY DEF zonefs_update_stats, WithSb, Clamp, ViewState, SbState

LEMMA SizeWriteFields ==
    ASSUME NEW s \in ViewState, NEW isize \in 0 .. Capacity
    PROVE  LET t == zonefs_i_size_write(s, isize)
           IN  /\ t.zone.flags = IF isize >= Capacity THEN s.zone.flags \ {"ACTIVE", "OPEN"}
                                 ELSE s.zone.flags
               /\ t.zone.i_size = isize /\ t.zone.z_wpoffset = s.zone.z_wpoffset
               /\ t.sb.used = s.sb.used /\ t.sb.rdonly = s.sb.rdonly
  <1>1. /\ zonefs_i_size_write(s, isize).zone.i_size = isize
        /\ zonefs_i_size_write(s, isize).zone.z_wpoffset = s.zone.z_wpoffset
    BY DEF zonefs_i_size_write, ClearOpen, SetActive, WithZone, ViewState, ZoneState
  <1>2. /\ zonefs_i_size_write(s, isize).sb.used = s.sb.used
        /\ zonefs_i_size_write(s, isize).sb.rdonly = s.sb.rdonly
    BY DEF zonefs_i_size_write, ClearOpen, SetActive, WithZone, ViewState, SbState
  <1> QED BY <1>1, <1>2, SizeWriteFlags

LEMMA ResizedFields ==
    ASSUME NEW s \in ViewState, NEW isize \in 0 .. Capacity
    PROVE  LET t == Resized(s, isize)
           IN  /\ t.zone.flags = IF isize >= Capacity THEN s.zone.flags \ {"ACTIVE", "OPEN"}
                                 ELSE s.zone.flags
               /\ t.zone.i_size = isize /\ t.zone.z_wpoffset = isize
               /\ t.sb.used = Clamp(s.sb.used + isize - s.zone.i_size)
               /\ t.sb.rdonly = s.sb.rdonly
  <1>1. PICK t \in ViewState : t = zonefs_update_stats(s, isize)
    BY StatsKeeps DEF Keeps
  <1>2. PICK u \in ViewState : u = zonefs_i_size_write(t, isize)
    BY SizeWriteKeeps DEF Keeps
  <1>3. Resized(s, isize) = WithZone(u, [u.zone EXCEPT !.z_wpoffset = isize])
    BY <1>1, <1>2 DEF Resized
  <1>4. t.zone = s.zone /\ t.sb.used = Clamp(s.sb.used + isize - s.zone.i_size)
        /\ t.sb.rdonly = s.sb.rdonly
    BY <1>1, StatsFields
  <1>5. /\ u.zone.flags = IF isize >= Capacity THEN t.zone.flags \ {"ACTIVE", "OPEN"}
                          ELSE t.zone.flags
        /\ u.zone.i_size = isize /\ u.sb.used = t.sb.used /\ u.sb.rdonly = t.sb.rdonly
    BY <1>2, SizeWriteFields
  <1>6. /\ Resized(s, isize).zone.flags = u.zone.flags
        /\ Resized(s, isize).zone.i_size = u.zone.i_size
        /\ Resized(s, isize).zone.z_wpoffset = isize /\ Resized(s, isize).sb = u.sb
    BY <1>3, SetWpFields
  <1> QED BY <1>4, <1>5, <1>6

LEMMA ResizedBad ==
    ASSUME NEW s \in ViewState, NEW isize \in 0 .. Capacity
    PROVE  Bad(Resized(s, isize).zone) => Bad(s.zone)
  BY ResizedFields DEF Bad

LEMMA TruncatedKeeps ==
    ASSUME NEW s \in ViewState, NEW isize \in 0 .. Capacity
    PROVE  Keeps(s, Truncated(s, isize))
  <1> DEFINE t == zonefs_update_stats(s, isize)
             u == WithZone(t, [t.zone EXCEPT !.i_size = isize, !.z_wpoffset = isize])
  <1>1. Keeps(s, t) /\ t \in ViewState
    BY StatsKeeps DEF Keeps
  <1>2. Keeps(t, u) /\ u \in ViewState
    <2> HIDE DEF t
    <2> QED BY <1>1, SizesKeep DEF Keeps
  <1>3. Keeps(u, zonefs_account_active(u))
    <2> HIDE DEF u
    <2> QED BY <1>2, AccountKeeps
  <1>4. Keeps(s, zonefs_account_active(u))
    <2> HIDE DEF t, u
    <2>1. Keeps(s, u)
      BY <1>1, <1>2, KeepsTrans
    <2> QED BY <1>2, <1>3, <2>1, KeepsTrans
  <1> QED BY <1>4 DEF Truncated

LEMMA CompletedKeeps ==
    ASSUME NEW s \in ViewState, NEW end \in 0 .. Capacity
    PROVE  Keeps(s, Completed(s, end))
  <1> DEFINE t == zonefs_update_stats(s, end)
  <1>1. Keeps(s, t) /\ t \in ViewState
    BY StatsKeeps DEF Keeps
  <1>2. Keeps(t, zonefs_i_size_write(t, end))
    <2> HIDE DEF t
    <2> QED BY <1>1, SizeWriteKeeps
  <1>3. Keeps(s, zonefs_i_size_write(t, end))
    <2> HIDE DEF t
    <2> QED BY <1>1, <1>2, KeepsTrans
  <1> QED BY <1>3, KeepsSelf DEF Completed

LEMMA CompletedBad ==
    ASSUME NEW s \in ViewState, NEW end \in 0 .. Capacity
    PROVE  Bad(Completed(s, end).zone) => Bad(s.zone)
  <1> DEFINE t == zonefs_update_stats(s, end)
  <1>1. t \in ViewState /\ t.zone = s.zone
    BY StatsKeeps, StatsFields DEF Keeps
  <1> HIDE DEF t
  <1>2. zonefs_i_size_write(t, end).zone.flags \subseteq s.zone.flags
    BY <1>1, SizeWriteFlags
  <1>3. Completed(s, end) = s \/ Completed(s, end) = zonefs_i_size_write(t, end)
    BY DEF Completed, t
  <1> QED BY <1>2, <1>3 DEF Bad

(* What a report says of the size is within the capacity. *)
LEMMA CheckedSize ==
    ASSUME NEW x \in ZoneState, NEW d \in DevState
    PROVE  zonefs_check_zone_condition(x, d) \in 0 .. Capacity
  BY ZonefsAssumption DEF zonefs_check_zone_condition, ZoneState, DevState

LEMMA ErrorSizeType ==
    ASSUME NEW s \in ViewState, NEW d \in DevState
    PROVE  ErrorSize(s, d) \in 0 .. Capacity
  BY CheckedSize, ZonefsAssumption DEF ErrorSize, ViewState, ZoneState

LEMMA MarkedKeeps ==
    ASSUME NEW s \in ViewState, NEW d \in DevState
    PROVE  /\ Keeps(s, Marked(s, d))
           /\ s.sb.explicit /\ Bad(Marked(s, d).zone) => "OPEN" \notin Marked(s, d).zone.flags
           /\ d.cond \in BadFlags => Bad(Marked(s, d).zone)
  <1> DEFINE f == ErrorFlags(s, d)
             x == Marked(s, d).zone
  <1>1. s.zone.flags \subseteq f /\ f \subseteq s.zone.flags \cup BadFlags
    BY DEF ErrorFlags, ReportedFlags, BadFlags
  <1>2. d.cond \in BadFlags => f \cap BadFlags # {}
    BY DEF ErrorFlags, ReportedFlags, BadFlags
  <1>3. x.flags = IF s.sb.explicit /\ f \cap BadFlags # {} THEN f \ {"OPEN"} ELSE f
    <2> HIDE DEF f
    <2> QED BY DEF Marked, ViewState, ZoneState, f
  <1> HIDE DEF f
  <1>4. x \in ZoneState /\ x.i_wr_refcnt = s.zone.i_wr_refcnt
    BY <1>1 DEF Marked, ViewState, ZoneState, Flags, BadFlags, f
  <1>5. Marked(s, d).sb \in SbState
    BY DEF Marked, ViewState, SbState
  <1>6. Marked(s, d) \in ViewState
    BY <1>4, <1>5 DEF Marked, ViewState
  <1>7. Mark(x) = Mark(s.zone)
    BY <1>1, <1>3 DEF Mark, BadFlags
  <1>8. ("OPEN" \in x.flags => "OPEN" \in s.zone.flags) /\ (Bad(s.zone) => Bad(x))
    BY <1>1, <1>3 DEF Bad, BadFlags
  <1>9. Keeps(s, Marked(s, d))
    BY <1>4, <1>6, <1>7, <1>8 DEF Marked, Keeps, ViewState, SbState, Mark
  <1> QED BY <1>1, <1>2, <1>3, <1>9 DEF Bad, BadFlags

LEMMA HandleKeeps ==
    ASSUME NEW s \in ViewState, NEW d \in DevState, NEW write \in BOOLEAN,
           "OPEN" \in s.zone.flags => s.sb.explicit /\ ~Bad(s.zone)
    PROVE  LET t == zonefs_handle_io_error(s, d, write)
           IN  /\ Keeps(s, t)
               /\ "OPEN" \in t.zone.flags => t.sb.explicit /\ ~Bad(t.zone)
               /\ d.cond \in BadFlags => Bad(t.zone)
  <1> DEFINE m == Marked(s, d)
             r == Resized(m, ErrorSize(s, d))
             a == zonefs_account_active(r)
  <1>1. CASE Harmless(s, d, write)
    <2>1. zonefs_handle_io_error(s, d, write) = s
      BY <1>1 DEF zonefs_handle_io_error
    <2>2. d.cond \notin BadFlags
      BY <1>1 DEF Harmless, ReportedFlags, BadFlags
    <2> QED BY <2>1, <2>2, KeepsSelf
  <1>2. CASE ~Harmless(s, d, write)
    <2>1. zonefs_handle_io_error(s, d, write) = a
      BY <1>2 DEF zonefs_handle_io_error
    <2>2. /\ Keeps(s, m) /\ m \in ViewState
          /\ s.sb.explicit /\ Bad(m.zone) => "OPEN" \notin m.zone.flags
          /\ d.cond \in BadFlags => Bad(m.zone)
      BY MarkedKeeps DEF Keeps
    <2>3. Keeps(m, r) /\ r \in ViewState
      <3> HIDE DEF m
      <3>1. ErrorSize(s, d) \in 0 .. Capacity
        BY ErrorSizeType
      <3>2. Keeps(m, r)
        BY <2>2, <3>1, ResizedKeeps
      <3> HIDE DEF r
      <3> QED BY <3>2 DEF Keeps
    <2>4. Keeps(r, a)
      <3> HIDE DEF r
      <3> QED BY <2>3, AccountKeeps
    <2>5. Keeps(s, a)
      <3> HIDE DEF m, r, a
      <3>1. Keeps(s, r)
        BY <2>2, <2>3, KeepsTrans
      <3> QED BY <2>3, <2>4, <3>1, KeepsTrans
    <2>6. a.zone.flags \cap {"OPEN"} \subseteq m.zone.flags /\ (Bad(m.zone) => Bad(a.zone))
      BY <2>3, <2>4 DEF Keeps
    <2>7. Bad(a.zone) => Bad(m.zone)
      <3>1. Bad(r.zone) => Bad(m.zone)
        <4> HIDE DEF m
        <4> QED BY <2>2, ErrorSizeType, ResizedBad
      <3> HIDE DEF m, r
      <3> QED BY <2>3, <3>1, AccountBad
    <2> QED BY <2>1, <2>2, <2>5, <2>6, <2>7 DEF Keeps
  <1> QED BY <1>1, <1>2

(* A write moves on to another state; a write leaves the queue. *)
LEMMA StType ==
    ASSUME NEW q \in Seq(WriteState), NEW i \in DOMAIN q,
           NEW c \in {"start", "queued", "cut", "ok", "err"}
    PROVE  /\ [q EXCEPT ![i].st = c] \in Seq(WriteState)
           /\ Len([q EXCEPT ![i].st = c]) = Len(q)
  <1>1. q[i] \in WriteState
    BY ElementOfSeq
  <1>2. [q[i] EXCEPT !.st = c] \in WriteState
    BY <1>1 DEF WriteState
  <1> QED BY <1>2, ExceptSeq

LEMMA RemoveType ==
    ASSUME NEW q \in Seq(WriteState), NEW i \in DOMAIN q
    PROVE  /\ RemoveAt(q, i) \in Seq(WriteState) /\ Len(RemoveAt(q, i)) = Len(q) - 1
           /\ DOMAIN RemoveAt(q, i) = 1 .. Len(q) - 1
           /\ \A k \in DOMAIN RemoveAt(q, i) :
                 RemoveAt(q, i)[k] = IF k < i THEN q[k] ELSE q[k + 1]
  <1> DEFINE a == SubSeq(q, 1, i - 1)
             b == SubSeq(q, i + 1, Len(q))
             r == a \o b
  <1>1. i \in 1 .. Len(q) /\ Len(q) \in Nat
    BY LenProperties
  <1>2. a \in Seq(WriteState) /\ Len(a) = i - 1 /\ \A k \in 1 .. i - 1 : a[k] = q[k]
    BY <1>1, SubSeqProperties
  <1>3. /\ b \in Seq(WriteState) /\ Len(b) = Len(q) - i
        /\ \A k \in 1 .. Len(q) - i : b[k] = q[k + i]
    BY <1>1, SubSeqProperties
  <1>4. RemoveAt(q, i) = r
    BY DEF RemoveAt
  <1> HIDE DEF a, b
  <1>5. /\ r \in Seq(WriteState) /\ Len(r) = Len(a) + Len(b)
        /\ \A k \in 1 .. Len(a) + Len(b) : r[k] = IF k <= Len(a) THEN a[k] ELSE b[k - Len(a)]
    BY <1>2, <1>3, ConcatProperties
  <1> HIDE DEF r
  <1>6. Len(r) = Len(q) - 1 /\ DOMAIN r = 1 .. Len(q) - 1
    BY <1>1, <1>2, <1>3, <1>5, LenProperties
  <1>7. ASSUME NEW k \in DOMAIN r PROVE r[k] = IF k < i THEN q[k] ELSE q[k + 1]
    <2>1. CASE k < i
      BY <1>1, <1>2, <1>3, <1>5, <1>6, <2>1
    <2>2. CASE ~(k < i)
      <3>1. k - (i - 1) \in 1 .. Len(q) - i /\ (k - (i - 1)) + i = k + 1
        BY <1>1, <1>6, <2>2
      <3>2. r[k] = b[k - (i - 1)]
        BY <1>1, <1>2, <1>3, <1>5, <1>6, <2>2
      <3> QED BY <1>3, <3>1, <3>2, <2>2
    <2> QED BY <2>1, <2>2
  <1> QED BY <1>4, <1>5, <1>6, <1>7

--------------------------------------------------------------------------------
(* The device *)

(* A good zone is full exactly when its write pointer is at the end. *)
FullOK(d) == d.cond \notin BadFlags => (d.cond = "FULL" <=> d.wp = Capacity)

Ops == {"OPEN", "CLOSE", "RESET", "FINISH"}

LEMMA MgmtResult ==
    ASSUME NEW z \in Zones, NEW x \in ZoneState, NEW d \in DevState, FullOK(d),
           NEW op \in Ops, NEW r \in zonefs_zone_mgmt(z, x, d, op)
    PROVE  /\ r.d \in DevState /\ FullOK(r.d)
           /\ r.d.cond \in BadFlags <=> d.cond \in BadFlags
           /\ r.cost \in Nat
           /\ r.ok => d.cond \notin BadFlags /\ r.d = Managed(d, MgmtOp(x, op)) /\ r.cost = 0
           /\ ~r.ok => r.d = d
           /\ ~r.ok /\ op # "OPEN" /\ r.cost = 0 => d.cond \in BadFlags
  <1> DEFINE mop == MgmtOp(x, op)
  <1>1. mop \in Ops /\ (mop = "OPEN" => op = "OPEN")
    BY DEF Ops, MgmtOp
  <1>2. CASE Accepts(z, d, mop)
    <2>1. d.cond \notin BadFlags /\ (mop = "OPEN" => d.cond # "FULL")
      BY <1>2 DEF Accepts
    <2>2. /\ Managed(d, mop) \in DevState /\ FullOK(Managed(d, mop))
          /\ Managed(d, mop).cond \notin BadFlags
      <3> HIDE DEF mop
      <3>1. CASE mop = "OPEN"
        BY <2>1, <3>1 DEF Managed, DevState, Conds, OpenConds, BadFlags, FullOK
      <3>2. CASE mop = "CLOSE"
        BY <2>1, <3>2 DEF Managed, DevState, Conds, OpenConds, BadFlags, FullOK
      <3>3. CASE mop = "RESET"
        BY <2>1, <3>3, ZonefsAssumption DEF Managed, DevState, Conds, BadFlags, FullOK
      <3>4. CASE mop = "FINISH"
        BY <2>1, <3>4, ZonefsAssumption DEF Managed, DevState, Conds, BadFlags, FullOK
      <3> QED BY <1>1, <3>1, <3>2, <3>3, <3>4 DEF Ops
    <2>3. \/ r = [ok |-> TRUE, d |-> Managed(d, mop), cost |-> 0]
          \/ r = [ok |-> FALSE, d |-> d, cost |-> 1]
      BY <1>2 DEF zonefs_zone_mgmt
    <2>4. CASE r = [ok |-> TRUE, d |-> Managed(d, mop), cost |-> 0]
      <3>1. r.ok /\ r.d = Managed(d, mop) /\ r.cost = 0
        BY <2>4
      <3> QED BY <2>1, <2>2, <3>1
    <2>5. CASE r = [ok |-> FALSE, d |-> d, cost |-> 1]
      <3>1. ~r.ok /\ r.d = d /\ r.cost = 1
        BY <2>5
      <3> QED BY <2>1, <3>1
    <2> QED BY <2>3, <2>4, <2>5
  <1>3. CASE ~Accepts(z, d, mop)
    <2>1. r = [ok |-> FALSE, d |-> d, cost |-> 0]
      BY <1>3 DEF zonefs_zone_mgmt
    <2>2. op # "OPEN" => d.cond \in BadFlags
      BY <1>1, <1>3 DEF Accepts
    <2> QED BY <2>1, <2>2
  <1> QED BY <1>2, <1>3

LEMMA AfterWriteOK ==
    ASSUME NEW d \in DevState, NEW n \in 1 .. Capacity, d.wp + n <= Capacity,
           d.cond \notin BadFlags
    PROVE  /\ AfterWrite(d, n) \in DevState /\ FullOK(AfterWrite(d, n))
           /\ AfterWrite(d, n).cond \notin BadFlags
  <1> DEFINE a == AfterWrite(d, n)
             c == IF d.wp + n = Capacity THEN "FULL"
                  ELSE IF d.cond = "EXP_OPEN" THEN "EXP_OPEN" ELSE "IMP_OPEN"
  <1>1. a = [d EXCEPT !.wp = d.wp + n, !.cond = c]
    BY DEF AfterWrite
  <1>2. c \in Conds \ BadFlags /\ (c = "FULL" <=> d.wp + n = Capacity)
    BY DEF Conds, OpenConds, BadFlags
  <1>3. d.wp + n \in 0 .. Capacity
    BY ZonefsAssumption DEF DevState
  <1> HIDE DEF a, c
  <1>4. a \in DevState /\ a.cond = c /\ a.wp = d.wp + n
    BY <1>1, <1>2, <1>3 DEF DevState
  <1> QED BY <1>2, <1>4 DEF FullOK, a

--------------------------------------------------------------------------------
(* One zone at a time *)

LEMMA CardChange ==
    ASSUME NEW A \in SUBSET Zones, NEW B \in SUBSET Zones, NEW z \in Zones,
           \A y \in Zones : y # z => (y \in A <=> y \in B)
    PROVE  /\ Cardinality(A) \in Nat /\ Cardinality(B) \in Nat
           /\ Cardinality(B) - Cardinality(A) =
                (IF z \in B THEN 1 ELSE 0) - (IF z \in A THEN 1 ELSE 0)
  <1>1. IsFiniteSet(A) /\ IsFiniteSet(B) /\ IsFiniteSet(A \ {z})
    BY FS_Subset, ZonefsAssumption
  <1>2. Cardinality(A) \in Nat /\ Cardinality(B) \in Nat
    BY <1>1, FS_CardinalityType
  <1>3. A \ {z} = B \ {z}
    OBVIOUS
  <1>4. /\ Cardinality(A \ {z}) = IF z \in A THEN Cardinality(A) - 1 ELSE Cardinality(A)
        /\ Cardinality(B \ {z}) = IF z \in B THEN Cardinality(B) - 1 ELSE Cardinality(B)
    BY <1>1, FS_RemoveElement
  <1>5. Cardinality(A \ {z}) = Cardinality(B \ {z})
    BY <1>3
  <1>6. CASE z \in A
    BY <1>2, <1>4, <1>5, <1>6
  <1>7. CASE z \notin A
    BY <1>2, <1>4, <1>5, <1>7
  <1> QED BY <1>6, <1>7

(* Zones that have failed without zonefs knowing. A close of one of them    *)
(* fails at no further fault.                                               *)
Unseen(x, d) == d.cond \in BadFlags /\ ~Bad(x)

Doomed == {z \in Zones : Unseen(zone[z], dev[z])}

(* The types of what the invariant speaks of. *)
CoreTypes ==
    /\ zone \in [Zones -> ZoneState]
    /\ sb \in SbState
    /\ dev \in [Zones -> DevState]
    /\ io \in [Zones -> Seq(WriteState)]
    /\ faults \in Nat

OpenGood(x, explicit) == "OPEN" \in x.flags => explicit /\ ~Bad(x)

(* The inductive invariant of Spec. The count of files open for writing may *)
(* exceed the files by the faults so far, less the failures that no close   *)
(* has met yet.                                                             *)
IInv ==
    /\ CoreTypes
    /\ ActiveCount
    /\ \A z \in Zones : FullOK(dev[z])
    /\ \A z \in Zones : OpenGood(zone[z], sb.explicit)
    /\ Cardinality(WrittenFiles) <= sb.wro
    /\ sb.wro + Cardinality(Doomed) <= Cardinality(WrittenFiles) + faults

ZoneStep(z, t, d, q) ==
    /\ Becomes(z, t)
    /\ dev' = [dev EXCEPT ![z] = d]
    /\ io' = [io EXCEPT ![z] = q]

Bit(b) == IF b THEN 1 ELSE 0

(* What a step does to its zone decides whether the invariant is kept. *)
LEMMA StepInv ==
    ASSUME IInv, NEW z \in Zones, NEW t \in ViewState, NEW d \in DevState,
           NEW q \in Seq(WriteState), ZoneStep(z, t, d, q),
           NEW f \in Nat, faults' = f,
           FullOK(d),
           t.sb.active - sb.active = Mark(t.zone) - Mark(zone[z]),
           sb.explicit => t.sb.explicit,
           OpenGood(t.zone, t.sb.explicit),
           Bit(t.zone.i_wr_refcnt > 0) - Bit(zone[z].i_wr_refcnt > 0) <= t.sb.wro - sb.wro,
           (t.sb.wro - sb.wro) + Bit(Unseen(t.zone, d)) - Bit(Unseen(zone[z], dev[z]))
             <= Bit(t.zone.i_wr_refcnt > 0) - Bit(zone[z].i_wr_refcnt > 0) + (f - faults)
    PROVE  IInv'
  <1>1. /\ zone \in [Zones -> ZoneState] /\ sb \in SbState /\ faults \in Nat
        /\ dev \in [Zones -> DevState] /\ io \in [Zones -> Seq(WriteState)]
        /\ t.zone \in ZoneState /\ t.sb \in SbState
    BY DEF IInv, CoreTypes, ViewState
  <1>2. /\ zone' = [zone EXCEPT ![z] = t.zone] /\ sb' = t.sb
        /\ dev' = [dev EXCEPT ![z] = d] /\ io' = [io EXCEPT ![z] = q]
    BY DEF ZoneStep, Becomes
  <1>3. CoreTypes'
    BY <1>1, <1>2 DEF CoreTypes
  <1>4. /\ zone'[z] = t.zone /\ dev'[z] = d
        /\ \A y \in Zones : y # z => zone'[y] = zone[y] /\ dev'[y] = dev[y]
    BY <1>1, <1>2
  <1>5. ActiveCount'
    <2> DEFINE A == ActiveZones(zone)
               B == ActiveZones(zone')
    <2>1. A \in SUBSET Zones /\ B \in SUBSET Zones /\ \A y \in Zones : y # z => (y \in A <=> y \in B)
      BY <1>4 DEF ActiveZones
    <2>2. (z \in B <=> "ACTIVE" \in t.zone.flags) /\ (z \in A <=> "ACTIVE" \in zone[z].flags)
      BY <1>4 DEF ActiveZones
    <2> HIDE DEF A, B
    <2>3. /\ Cardinality(A) \in Nat /\ Cardinality(B) \in Nat
          /\ Cardinality(B) - Cardinality(A) = Mark(t.zone) - Mark(zone[z])
      BY <2>1, <2>2, CardChange DEF Mark
    <2>4. sb.active = Cardinality(A) /\ sb.active \in Int /\ t.sb.active \in Int
      BY <1>1 DEF IInv, ActiveCount, A, SbState
    <2>5. t.sb.active = Cardinality(B)
      BY <2>3, <2>4 DEF Mark
    <2> QED BY <1>2, <2>5 DEF ActiveCount, B
  <1>6. \A y \in Zones : FullOK(dev'[y]) /\ OpenGood(zone'[y], sb'.explicit)
    BY <1>2, <1>4 DEF IInv, OpenGood
  <1>7. /\ Cardinality(WrittenFiles') \in Nat /\ Cardinality(WrittenFiles) \in Nat
        /\ Cardinality(WrittenFiles') - Cardinality(WrittenFiles)
              = Bit(t.zone.i_wr_refcnt > 0) - Bit(zone[z].i_wr_refcnt > 0)
    <2> DEFINE A == WrittenFiles
               B == WrittenFiles'
    <2>1. A \in SUBSET Zones /\ B \in SUBSET Zones /\ \A y \in Zones : y # z => (y \in A <=> y \in B)
      BY <1>4 DEF WrittenFiles
    <2>2. (z \in B <=> t.zone.i_wr_refcnt > 0) /\ (z \in A <=> zone[z].i_wr_refcnt > 0)
      BY <1>4 DEF WrittenFiles
    <2> HIDE DEF A, B
    <2>3. /\ Cardinality(B) \in Nat /\ Cardinality(A) \in Nat
          /\ Cardinality(B) - Cardinality(A)
                = Bit(t.zone.i_wr_refcnt > 0) - Bit(zone[z].i_wr_refcnt > 0)
      BY <2>1, <2>2, CardChange DEF Bit
    <2> QED BY <2>3 DEF A, B
  <1>8. /\ Cardinality(Doomed') \in Nat /\ Cardinality(Doomed) \in Nat
        /\ Cardinality(Doomed') - Cardinality(Doomed)
              = Bit(Unseen(t.zone, d)) - Bit(Unseen(zone[z], dev[z]))
    <2> DEFINE A == Doomed
               B == Doomed'
    <2>1. A \in SUBSET Zones /\ B \in SUBSET Zones /\ \A y \in Zones : y # z => (y \in A <=> y \in B)
      BY <1>4 DEF Doomed
    <2>2. (z \in B <=> Unseen(t.zone, d)) /\ (z \in A <=> Unseen(zone[z], dev[z]))
      BY <1>4 DEF Doomed
    <2> HIDE DEF A, B
    <2>3. /\ Cardinality(B) \in Nat /\ Cardinality(A) \in Nat
          /\ Cardinality(B) - Cardinality(A)
                = Bit(Unseen(t.zone, d)) - Bit(Unseen(zone[z], dev[z]))
      BY <2>1, <2>2, CardChange DEF Bit
    <2> QED BY <2>3 DEF A, B
  <1>9. /\ Cardinality(WrittenFiles) <= sb.wro
        /\ sb.wro + Cardinality(Doomed) <= Cardinality(WrittenFiles) + faults
    BY DEF IInv
  <1>10. sb.wro \in Int /\ t.sb.wro \in Int /\ \A b \in BOOLEAN : Bit(b) \in Int
    BY <1>1 DEF SbState, Bit
  <1>11. /\ Cardinality(WrittenFiles') <= t.sb.wro
         /\ t.sb.wro + Cardinality(Doomed') <= Cardinality(WrittenFiles') + faults'
    <2> DEFINE w1 == Bit(t.zone.i_wr_refcnt > 0)
               w0 == Bit(zone[z].i_wr_refcnt > 0)
               u1 == Bit(Unseen(t.zone, d))
               u0 == Bit(Unseen(zone[z], dev[z]))
    <2>1. w1 \in Int /\ w0 \in Int /\ u1 \in Int /\ u0 \in Int
      BY DEF Bit
    <2> HIDE DEF w1, w0, u1, u0
    <2>2. /\ w1 - w0 <= t.sb.wro - sb.wro
          /\ (t.sb.wro - sb.wro) + u1 - u0 <= w1 - w0 + (f - faults)
      BY DEF w1, w0, u1, u0
    <2>3. /\ Cardinality(WrittenFiles') - Cardinality(WrittenFiles) = w1 - w0
          /\ Cardinality(Doomed') - Cardinality(Doomed) = u1 - u0
      BY <1>7, <1>8 DEF w1, w0, u1, u0
    <2> DEFINE W0 == Cardinality(WrittenFiles)
               W1 == Cardinality(WrittenFiles')
               D0 == Cardinality(Doomed)
               D1 == Cardinality(Doomed')
               c0 == sb.wro
               c1 == t.sb.wro
    <2>4. /\ W0 \in Int /\ W1 \in Int /\ D0 \in Int /\ D1 \in Int /\ c0 \in Int /\ c1 \in Int
          /\ faults \in Int /\ faults' \in Int
          /\ W0 <= c0 /\ c0 + D0 <= W0 + faults
      BY <1>1, <1>7, <1>8, <1>9, <1>10
    <2>5. /\ W1 - W0 = w1 - w0 /\ D1 - D0 = u1 - u0
          /\ w1 - w0 <= c1 - c0 /\ (c1 - c0) + u1 - u0 <= w1 - w0 + (f - faults)
      BY <2>2, <2>3
    <2> HIDE DEF W0, W1, D0, D1, c0, c1
    <2>6. W1 <= c1 /\ c1 + D1 <= W1 + faults'
      BY <2>1, <2>4, <2>5
    <2> QED BY <2>6 DEF W1, D1, c1
  <1> QED BY <1>2, <1>3, <1>5, <1>6, <1>11 DEF IInv

LEMMA Typed ==
    ASSUME IInv, NEW z \in Zones
    PROVE  /\ View(z) \in ViewState /\ View(z).zone = zone[z] /\ View(z).sb = sb
           /\ zone[z] \in ZoneState /\ sb \in SbState
           /\ dev[z] \in DevState /\ FullOK(dev[z])
           /\ io[z] \in Seq(WriteState)
           /\ OpenGood(zone[z], sb.explicit)
           /\ faults \in Nat
           /\ dev = [dev EXCEPT ![z] = dev[z]] /\ io = [io EXCEPT ![z] = io[z]]
  BY DEF IInv, CoreTypes, View, ViewState

LEMMA Stays ==
    ASSUME IInv, NEW z \in Zones, UNCHANGED <<zone, sb>>
    PROVE  Becomes(z, View(z))
  BY DEF Becomes, View, IInv, CoreTypes

LEMMA KeepsInv ==
    ASSUME IInv, NEW z \in Zones, NEW t, Keeps(View(z), t),
           NEW d \in DevState, NEW q \in Seq(WriteState), ZoneStep(z, t, d, q),
           NEW f \in Nat, faults' = f, f >= faults, FullOK(d),
           d.cond \in BadFlags => dev[z].cond \in BadFlags \/ f > faults,
           OpenGood(t.zone, t.sb.explicit)
    PROVE  IInv'
  <1>1. /\ t \in ViewState /\ t.sb.active - sb.active = Mark(t.zone) - Mark(zone[z])
        /\ t.zone.i_wr_refcnt = zone[z].i_wr_refcnt /\ t.sb.wro = sb.wro
        /\ t.sb.explicit = sb.explicit /\ (Bad(zone[z]) => Bad(t.zone))
    BY Typed DEF Keeps
  <1>2. sb.wro \in Int /\ faults \in Nat
    BY Typed DEF SbState
  <1>3. Unseen(t.zone, d) => Unseen(zone[z], dev[z]) \/ f > faults
    BY <1>1 DEF Unseen
  <1> DEFINE u1 == Bit(Unseen(t.zone, d))
             u0 == Bit(Unseen(zone[z], dev[z]))
             w == Bit(t.zone.i_wr_refcnt > 0) - Bit(zone[z].i_wr_refcnt > 0)
             k == t.sb.wro - sb.wro
  <1>4. u1 \in Int /\ u0 \in Int /\ (u1 <= u0 \/ (u1 <= u0 + 1 /\ f > faults))
    BY <1>3 DEF Bit
  <1>5. w = 0 /\ k = 0
    BY <1>1, <1>2 DEF Bit
  <1>6. w <= k /\ k + u1 - u0 <= w + (f - faults)
    <2> HIDE DEF u1, u0, w, k
    <2> QED BY <1>2, <1>4, <1>5
  <1> QED BY <1>1, <1>6, StepInv

LEMMA ToldFields ==
    ASSUME NEW d \in DevState
    PROVE  /\ Told(d) \in DevState /\ Told(d).cond = d.cond /\ Told(d).wp = d.wp
           /\ Told(d).loss = IF d.loss = "unseen" THEN "told" ELSE d.loss
  BY DEF Told, DevState

LEMMA IoErrorKeeps ==
    ASSUME NEW s \in ViewState, NEW d \in DevState, NEW write \in BOOLEAN,
           OpenGood(s.zone, s.sb.explicit), NEW e \in io_error(s, d, write)
    PROVE  /\ Keeps(s, e.s) /\ OpenGood(e.s.zone, e.s.sb.explicit)
           /\ e.cost \in Nat
           /\ d.cond \in BadFlags /\ e.cost = 0 => Bad(e.s.zone)
           /\ e.d \in DevState /\ e.d.cond = d.cond /\ e.d.wp = d.wp
  <1>1. CASE e = [s |-> zonefs_handle_io_error(s, d, write), d |-> Told(d), cost |-> 0]
    <2>1. Told(d) \in DevState /\ Told(d).cond = d.cond /\ Told(d).wp = d.wp
      BY ToldFields
    <2> QED BY <1>1, <2>1, HandleKeeps DEF OpenGood
  <1>2. CASE e = [s |-> WithSb(s, [s.sb EXCEPT !.rdonly = TRUE]), d |-> d, cost |-> 1]
    <2>1. /\ e.s.zone = s.zone /\ e.cost = 1 /\ e.d = d
          /\ e.s = [zone |-> s.zone, sb |-> [s.sb EXCEPT !.rdonly = TRUE]]
      BY <1>2 DEF WithSb
    <2>2. [s.sb EXCEPT !.rdonly = TRUE] \in SbState
      BY DEF ViewState, SbState
    <2>3. Keeps(s, e.s)
      BY <2>1, <2>2 DEF Keeps, ViewState, SbState, Mark
    <2> QED BY <2>1, <2>2, <2>3 DEF OpenGood, ViewState, SbState
  <1> QED BY <1>1, <1>2 DEF io_error

--------------------------------------------------------------------------------
(* Every step keeps the invariant *)

LEMMA OpenedFields ==
    ASSUME NEW s \in ViewState
    PROVE  /\ Opened(s) \in ViewState
           /\ Opened(s).zone.flags = s.zone.flags
           /\ Opened(s).zone.i_wr_refcnt = s.zone.i_wr_refcnt + 1
           /\ Opened(s).zone.z_wpoffset = s.zone.z_wpoffset
           /\ Opened(s).zone.i_size = s.zone.i_size
           /\ Opened(s).sb.wro = IF s.zone.i_wr_refcnt = 0 THEN s.sb.wro + 1 ELSE s.sb.wro
           /\ Opened(s).sb.active = s.sb.active /\ Opened(s).sb.explicit = s.sb.explicit
           /\ Opened(s).sb.rdonly = s.sb.rdonly /\ Opened(s).sb.used = s.sb.used
  <1>1. Opened(s).zone \in ZoneState /\ Opened(s).sb \in SbState
    BY DEF Opened, ViewState, ZoneState, SbState
  <1>2. Opened(s) \in ViewState
    BY <1>1 DEF Opened, ViewState
  <1> QED BY <1>2 DEF Opened, ViewState, ZoneState, SbState

LEMMA SetOpenFields ==
    ASSUME NEW s \in ViewState
    PROVE  /\ SetOpen(s) \in ViewState
           /\ SetOpen(s).zone.flags = s.zone.flags \cup {"OPEN"}
           /\ SetOpen(s).zone.i_wr_refcnt = s.zone.i_wr_refcnt
           /\ SetOpen(s).zone.z_wpoffset = s.zone.z_wpoffset
           /\ SetOpen(s).zone.i_size = s.zone.i_size
           /\ SetOpen(s).sb = s.sb
  <1>1. SetOpen(s).zone \in ZoneState
    BY DEF SetOpen, WithZone, ViewState, ZoneState, Flags
  <1>2. SetOpen(s) \in ViewState
    BY <1>1 DEF SetOpen, WithZone, ViewState
  <1> QED BY <1>2 DEF SetOpen, WithZone, ViewState, ZoneState

LEMMA OpenInv ==
    ASSUME IInv, NEW z \in Zones, zonefs_seq_file_write_open(z)
    PROVE  IInv'
  <1> DEFINE o == Opened(View(z))
  <1>1. /\ View(z) \in ViewState /\ View(z).zone = zone[z] /\ View(z).sb = sb
        /\ zone[z] \in ZoneState /\ sb \in SbState /\ dev[z] \in DevState /\ FullOK(dev[z])
        /\ io[z] \in Seq(WriteState) /\ OpenGood(zone[z], sb.explicit) /\ faults \in Nat
        /\ dev = [dev EXCEPT ![z] = dev[z]] /\ io = [io EXCEPT ![z] = io[z]]
    BY Typed
  <1>2. /\ o \in ViewState /\ o.zone.flags = zone[z].flags
        /\ o.zone.i_wr_refcnt = zone[z].i_wr_refcnt + 1
        /\ o.sb.wro = IF zone[z].i_wr_refcnt = 0 THEN sb.wro + 1 ELSE sb.wro
        /\ o.sb.active = sb.active /\ o.sb.explicit = sb.explicit
    BY <1>1, OpenedFields
  <1>3. ~Bad(zone[z]) /\ UNCHANGED io
    BY DEF zonefs_seq_file_write_open
  <1> HIDE DEF o
  <1>4. zone[z].i_wr_refcnt \in Nat /\ sb.wro \in Int /\ sb.active \in Int
    BY <1>1 DEF ZoneState, SbState
  <1>5. CASE ~NeedsZoneOpen(z)
    <2>1. ZoneStep(z, o, dev[z], io[z]) /\ faults' = faults
      BY <1>1, <1>3, <1>5 DEF zonefs_seq_file_write_open, ZoneStep, o
    <2>2. /\ o.sb.active - sb.active = Mark(o.zone) - Mark(zone[z])
          /\ OpenGood(o.zone, o.sb.explicit)
          /\ Unseen(o.zone, dev[z]) <=> Unseen(zone[z], dev[z])
      BY <1>1, <1>2, <1>4 DEF Mark, OpenGood, Bad, Unseen
    <2>3. /\ Bit(o.zone.i_wr_refcnt > 0) - Bit(zone[z].i_wr_refcnt > 0) <= o.sb.wro - sb.wro
          /\ (o.sb.wro - sb.wro) + Bit(Unseen(o.zone, dev[z])) - Bit(Unseen(zone[z], dev[z]))
               <= Bit(o.zone.i_wr_refcnt > 0) - Bit(zone[z].i_wr_refcnt > 0) + (faults - faults)
      BY <1>1, <1>2, <1>4, <2>2 DEF Bit
    <2> QED BY <1>1, <1>2, <2>1, <2>2, <2>3, StepInv
  <1>6. CASE NeedsZoneOpen(z)
    <2>1. PICK r \in zonefs_zone_mgmt(z, zone[z], dev[z], "OPEN") :
            /\ Cost(r.cost)
            /\ dev' = [dev EXCEPT ![z] = r.d]
            /\ IF r.ok THEN Becomes(z, zonefs_account_active(SetOpen(o)))
               ELSE UNCHANGED <<zone, sb>>
      BY <1>6 DEF zonefs_seq_file_write_open, o
    <2>2. /\ r.d \in DevState /\ FullOK(r.d) /\ r.cost \in Nat
          /\ (r.d.cond \in BadFlags <=> dev[z].cond \in BadFlags)
      BY <1>1, MgmtResult DEF Ops
    <2>3. /\ faults + r.cost \in Nat /\ faults' = faults + r.cost /\ faults + r.cost >= faults
      BY <1>1, <2>1, <2>2 DEF Cost
    <2>4. CASE r.ok
      <3> DEFINE p == SetOpen(o)
                 a == zonefs_account_active(p)
      <3>1. /\ p \in ViewState /\ p.zone.flags = zone[z].flags \cup {"OPEN"}
            /\ p.zone.i_wr_refcnt = zone[z].i_wr_refcnt + 1 /\ p.sb = o.sb
        BY <1>2, SetOpenFields
      <3> HIDE DEF p
      <3>2. Keeps(p, a) /\ (Bad(a.zone) => Bad(p.zone))
        BY <3>1, AccountKeeps, AccountBad
      <3> HIDE DEF a
      <3>3. ~Bad(p.zone) /\ Mark(p.zone) = Mark(zone[z])
        BY <1>3, <3>1 DEF Bad, BadFlags, Mark
      <3>4. /\ a \in ViewState /\ a.sb.active - sb.active = Mark(a.zone) - Mark(zone[z])
            /\ a.sb.explicit = sb.explicit /\ a.sb.wro = o.sb.wro
            /\ a.zone.i_wr_refcnt = zone[z].i_wr_refcnt + 1 /\ ~Bad(a.zone)
        BY <1>2, <3>1, <3>2, <3>3 DEF Keeps
      <3>5. OpenGood(a.zone, a.sb.explicit)
        BY <1>6, <3>4 DEF OpenGood, NeedsZoneOpen
      <3>6. ZoneStep(z, a, r.d, io[z])
        BY <1>1, <1>3, <2>1, <2>4 DEF ZoneStep, a, p
      <3>7. Unseen(a.zone, r.d) <=> Unseen(zone[z], dev[z])
        BY <1>3, <2>2, <3>4 DEF Unseen
      <3>8. /\ Bit(a.zone.i_wr_refcnt > 0) - Bit(zone[z].i_wr_refcnt > 0) <= a.sb.wro - sb.wro
            /\ (a.sb.wro - sb.wro) + Bit(Unseen(a.zone, r.d)) - Bit(Unseen(zone[z], dev[z]))
               <= Bit(a.zone.i_wr_refcnt > 0) - Bit(zone[z].i_wr_refcnt > 0)
                  + ((faults + r.cost) - faults)
        <4>1. Bit(Unseen(a.zone, r.d)) = Bit(Unseen(zone[z], dev[z]))
          BY <3>7 DEF Bit
        <4>2. Bit(a.zone.i_wr_refcnt > 0) - Bit(zone[z].i_wr_refcnt > 0) = a.sb.wro - sb.wro
          BY <1>2, <1>4, <3>4 DEF Bit
        <4>3. a.sb.wro - sb.wro \in Int /\ Bit(Unseen(zone[z], dev[z])) \in Int
          BY <1>2, <1>4, <3>4 DEF Bit
        <4> HIDE DEF Bit
        <4> QED BY <1>1, <2>2, <4>1, <4>2, <4>3
      <3> QED BY <1>1, <2>2, <2>3, <3>4, <3>5, <3>6, <3>8, StepInv
    <2>5. CASE ~r.ok
      <3>1. ZoneStep(z, View(z), r.d, io[z])
        BY <1>1, <1>3, <2>1, <2>5 DEF ZoneStep, Becomes, IInv, CoreTypes
      <3> QED BY <1>1, <2>2, <2>3, <3>1, KeepsSelf, KeepsInv
    <2> QED BY <2>4, <2>5
  <1> QED BY <1>5, <1>6

LEMMA ReleasedFields ==
    ASSUME NEW s \in ViewState, s.zone.i_wr_refcnt > 0
    PROVE  /\ Released(s) \in ViewState
           /\ Released(s).zone.flags = s.zone.flags
           /\ Released(s).zone.i_wr_refcnt = s.zone.i_wr_refcnt - 1
           /\ Released(s).zone.z_wpoffset = s.zone.z_wpoffset
           /\ Released(s).zone.i_size = s.zone.i_size
           /\ Released(s).sb = s.sb
  <1>1. Released(s).zone \in ZoneState
    BY DEF Released, WithZone, ViewState, ZoneState
  <1>2. Released(s) \in ViewState
    BY <1>1 DEF Released, WithZone, ViewState
  <1> QED BY <1>2 DEF Released, WithZone, ViewState, ZoneState

LEMMA LastClosedFields ==
    ASSUME NEW s \in ViewState
    PROVE  /\ LastClosed(s) \in ViewState /\ LastClosed(s).zone = s.zone
           /\ LastClosed(s).sb.wro = s.sb.wro - 1
           /\ LastClosed(s).sb.active = s.sb.active /\ LastClosed(s).sb.explicit = s.sb.explicit
           /\ LastClosed(s).sb.rdonly = s.sb.rdonly /\ LastClosed(s).sb.used = s.sb.used
  <1>1. LastClosed(s).sb \in SbState
    BY DEF LastClosed, WithSb, ViewState, SbState
  <1>2. LastClosed(s) \in ViewState
    BY <1>1 DEF LastClosed, WithSb, ViewState
  <1> QED BY <1>2 DEF LastClosed, WithSb, ViewState, SbState

LEMMA CloseInv ==
    ASSUME IInv, NEW z \in Zones, NEW fails \in BOOLEAN, zonefs_seq_file_write_close(z, fails)
    PROVE  IInv'
  <1>1. /\ View(z) \in ViewState /\ View(z).zone = zone[z] /\ View(z).sb = sb
        /\ zone[z] \in ZoneState /\ sb \in SbState /\ dev[z] \in DevState /\ FullOK(dev[z])
        /\ io[z] \in Seq(WriteState) /\ OpenGood(zone[z], sb.explicit) /\ faults \in Nat
        /\ dev = [dev EXCEPT ![z] = dev[z]] /\ io = [io EXCEPT ![z] = io[z]]
    BY Typed
  <1>2. zone[z].i_wr_refcnt \in Nat /\ sb.wro \in Int /\ sb.active \in Int
    BY <1>1 DEF ZoneState, SbState
  <1>3. UNCHANGED io
    BY DEF zonefs_seq_file_write_close
  <1>4. zone[z].i_wr_refcnt > 0
    BY <1>2 DEF zonefs_seq_file_write_close, LastReference
  <1> DEFINE v == Released(View(z))
  <1>5. /\ v \in ViewState /\ v.zone.flags = zone[z].flags
        /\ v.zone.i_wr_refcnt = zone[z].i_wr_refcnt - 1 /\ v.sb = sb
    BY <1>1, <1>4, ReleasedFields
  <1>6. /\ Mark(v.zone) = Mark(zone[z]) /\ (Bad(v.zone) <=> Bad(zone[z]))
        /\ OpenGood(v.zone, v.sb.explicit) /\ Mark(zone[z]) \in Int
    BY <1>1, <1>5 DEF Mark, Bad, OpenGood
  <1>7. CASE zone[z].i_wr_refcnt > 1 /\ Becomes(z, v) /\ UNCHANGED <<dev, faults>>
    <2>1. ZoneStep(z, v, dev[z], io[z]) /\ faults' = faults
      BY <1>1, <1>3, <1>7 DEF ZoneStep
    <2> HIDE DEF v
    <2>2. v.sb.active - sb.active = Mark(v.zone) - Mark(zone[z])
      BY <1>2, <1>5, <1>6
    <2>3. Unseen(v.zone, dev[z]) <=> Unseen(zone[z], dev[z])
      BY <1>6 DEF Unseen
    <2>4. /\ Bit(v.zone.i_wr_refcnt > 0) - Bit(zone[z].i_wr_refcnt > 0) <= v.sb.wro - sb.wro
          /\ (v.sb.wro - sb.wro) + Bit(Unseen(v.zone, dev[z])) - Bit(Unseen(zone[z], dev[z]))
               <= Bit(v.zone.i_wr_refcnt > 0) - Bit(zone[z].i_wr_refcnt > 0) + (faults - faults)
      BY <1>1, <1>2, <1>5, <1>7, <2>3 DEF Bit
    <2> QED BY <1>1, <1>5, <1>6, <2>1, <2>2, <2>4, StepInv
  <1>8. CASE LastReference(z) /\ Becomes(z, LastClosed(v)) /\ UNCHANGED <<dev, faults>>
    <2> HIDE DEF v
    <2> DEFINE c == LastClosed(v)
    <2>1. ZoneStep(z, c, dev[z], io[z]) /\ faults' = faults
      BY <1>1, <1>3, <1>8 DEF ZoneStep
    <2>2. /\ c \in ViewState /\ c.zone = v.zone /\ c.sb.wro = sb.wro - 1
          /\ c.sb.active = sb.active /\ c.sb.explicit = sb.explicit
      BY <1>5, LastClosedFields
    <2> HIDE DEF c
    <2>3. /\ c.sb.active - sb.active = Mark(c.zone) - Mark(zone[z])
          /\ OpenGood(c.zone, c.sb.explicit)
      BY <1>2, <1>5, <1>6, <2>2 DEF OpenGood
    <2>4. Unseen(c.zone, dev[z]) <=> Unseen(zone[z], dev[z])
      BY <1>6, <2>2 DEF Unseen
    <2>5. c.zone.i_wr_refcnt = 0 /\ zone[z].i_wr_refcnt = 1
      BY <1>5, <1>8, <2>2 DEF LastReference
    <2>6. /\ Bit(c.zone.i_wr_refcnt > 0) - Bit(zone[z].i_wr_refcnt > 0) <= c.sb.wro - sb.wro
          /\ (c.sb.wro - sb.wro) + Bit(Unseen(c.zone, dev[z])) - Bit(Unseen(zone[z], dev[z]))
               <= Bit(c.zone.i_wr_refcnt > 0) - Bit(zone[z].i_wr_refcnt > 0) + (faults - faults)
      BY <1>1, <1>2, <2>2, <2>4, <2>5 DEF Bit
    <2> QED BY <1>1, <2>1, <2>2, <2>3, <2>6, StepInv
  <1>9. ASSUME LastReference(z), "OPEN" \in zone[z].flags,
               NEW r \in zonefs_zone_mgmt(z, zone[z], dev[z], "CLOSE"), Close(z, r)
        PROVE  IInv'
    <2> HIDE DEF v
    <2> DEFINE p == ClearOpen(v)
               a == zonefs_account_active(p)
               c == LastClosed(a)
    <2>1. /\ r.d \in DevState /\ FullOK(r.d) /\ r.cost = 0
          /\ (r.d.cond \in BadFlags <=> dev[z].cond \in BadFlags)
      BY <1>1, <1>9, MgmtResult DEF Ops, Close
    <2>2. ZoneStep(z, c, r.d, io[z]) /\ faults' = faults
      BY <1>1, <1>3, <1>9, <2>1 DEF ZoneStep, Close, Cost, v
    <2>3. Keeps(v, p) /\ "OPEN" \notin p.zone.flags /\ p \in ViewState
      BY <1>5, ClearOpenKeeps DEF Keeps
    <2> HIDE DEF p
    <2>4. Keeps(p, a) /\ a \in ViewState
      BY <2>3, AccountKeeps DEF Keeps
    <2> HIDE DEF a
    <2>5. Keeps(v, a) /\ "OPEN" \notin a.zone.flags
      <3>1. Keeps(v, a)
        BY <1>5, <2>3, <2>4, KeepsTrans
      <3> QED BY <2>3, <2>4, <3>1 DEF Keeps
    <2>6. /\ c \in ViewState /\ c.zone = a.zone /\ c.sb.wro = a.sb.wro - 1
          /\ c.sb.active = a.sb.active /\ c.sb.explicit = a.sb.explicit
      BY <2>4, LastClosedFields
    <2> HIDE DEF c
    <2>7. /\ c.sb.active - sb.active = Mark(c.zone) - Mark(zone[z])
          /\ c.sb.explicit = sb.explicit /\ c.sb.wro = sb.wro - 1
          /\ OpenGood(c.zone, c.sb.explicit)
          /\ Bad(zone[z]) => Bad(c.zone)
          /\ c.zone.i_wr_refcnt = 0 /\ zone[z].i_wr_refcnt = 1
      BY <1>5, <1>6, <1>9, <2>5, <2>6 DEF Keeps, OpenGood, LastReference
    <2>8. Unseen(c.zone, r.d) => Unseen(zone[z], dev[z])
      BY <2>1, <2>7 DEF Unseen
    <2>9. /\ Bit(c.zone.i_wr_refcnt > 0) - Bit(zone[z].i_wr_refcnt > 0) <= c.sb.wro - sb.wro
          /\ (c.sb.wro - sb.wro) + Bit(Unseen(c.zone, r.d)) - Bit(Unseen(zone[z], dev[z]))
               <= Bit(c.zone.i_wr_refcnt > 0) - Bit(zone[z].i_wr_refcnt > 0) + (faults - faults)
      BY <1>1, <1>2, <2>7, <2>8 DEF Bit
    <2> QED BY <1>1, <2>1, <2>2, <2>6, <2>7, <2>9, StepInv
  <1>10. ASSUME LastReference(z), "OPEN" \in zone[z].flags,
                NEW r \in zonefs_zone_mgmt(z, zone[z], dev[z], "CLOSE"), CloseFails(z, r)
         PROVE  IInv'
    <2>1. /\ ~r.ok /\ r.cost \in Nat
          /\ r.cost = 0 => dev[z].cond \in BadFlags
      BY <1>1, <1>10, MgmtResult DEF Ops, CloseFails
    <2>2. PICK e \in io_error(v, dev[z], FALSE) :
            /\ Cost(r.cost + e.cost)
            /\ Becomes(z, WithSb(e.s, [e.s.sb EXCEPT !.rdonly = @ \/ "OPEN" \in e.s.zone.flags]))
            /\ dev' = [dev EXCEPT ![z] = e.d]
      BY <1>10 DEF CloseFails
    <2> HIDE DEF v
    <2>3. /\ Keeps(v, e.s) /\ OpenGood(e.s.zone, e.s.sb.explicit) /\ e.cost \in Nat
          /\ dev[z].cond \in BadFlags /\ e.cost = 0 => Bad(e.s.zone)
          /\ e.d \in DevState /\ e.d.cond = dev[z].cond /\ FullOK(e.d)
      BY <1>1, <1>5, <1>6, <2>2, IoErrorKeeps DEF FullOK
    <2>4. e.s \in ViewState
      BY <2>3 DEF Keeps
    <2> DEFINE c == WithSb(e.s, [e.s.sb EXCEPT !.rdonly = @ \/ "OPEN" \in e.s.zone.flags])
    <2>5. /\ c \in ViewState /\ c.zone = e.s.zone /\ c.sb.wro = e.s.sb.wro
          /\ c.sb.active = e.s.sb.active /\ c.sb.explicit = e.s.sb.explicit
      <3>1. [e.s.sb EXCEPT !.rdonly = @ \/ "OPEN" \in e.s.zone.flags] \in SbState
        BY <2>4 DEF ViewState, SbState
      <3> QED BY <2>4, <3>1 DEF WithSb, ViewState, SbState
    <2>6. ZoneStep(z, c, e.d, io[z]) /\ faults' = faults + (r.cost + e.cost)
          /\ faults + (r.cost + e.cost) \in Nat
      BY <1>1, <1>3, <2>1, <2>2, <2>3 DEF ZoneStep, Cost
    <2> HIDE DEF c
    <2>7. /\ c.sb.active - sb.active = Mark(c.zone) - Mark(zone[z])
          /\ c.sb.explicit = sb.explicit /\ c.sb.wro = sb.wro
          /\ OpenGood(c.zone, c.sb.explicit)
          /\ Bad(zone[z]) => Bad(c.zone)
          /\ c.zone.i_wr_refcnt = 0 /\ zone[z].i_wr_refcnt = 1
      BY <1>5, <1>6, <1>10, <2>3, <2>5 DEF Keeps, LastReference
    <2>8. ~Bad(zone[z])
      BY <1>1, <1>10 DEF OpenGood
    <2>9. \/ r.cost + e.cost >= 1 /\ (Unseen(c.zone, e.d) => Unseen(zone[z], dev[z]))
          \/ Unseen(zone[z], dev[z]) /\ ~Unseen(c.zone, e.d)
      BY <2>1, <2>3, <2>5, <2>8 DEF Unseen
    <2>10. /\ Bit(c.zone.i_wr_refcnt > 0) - Bit(zone[z].i_wr_refcnt > 0) <= c.sb.wro - sb.wro
           /\ (c.sb.wro - sb.wro) + Bit(Unseen(c.zone, e.d)) - Bit(Unseen(zone[z], dev[z]))
               <= Bit(c.zone.i_wr_refcnt > 0) - Bit(zone[z].i_wr_refcnt > 0)
                  + ((faults + (r.cost + e.cost)) - faults)
      <3> DEFINE k == r.cost + e.cost
                 u1 == Bit(Unseen(c.zone, e.d))
                 u0 == Bit(Unseen(zone[z], dev[z]))
      <3>1. k \in Nat /\ u1 \in Int /\ u0 \in Int /\ ((k >= 1 /\ u1 <= u0) \/ u1 + 1 <= u0)
        BY <2>1, <2>3, <2>9 DEF Bit
      <3>2. Bit(c.zone.i_wr_refcnt > 0) = 0 /\ Bit(zone[z].i_wr_refcnt > 0) = 1
        BY <2>7 DEF Bit
      <3> HIDE DEF k, u1, u0
      <3>3. 0 - 1 <= sb.wro - sb.wro /\ (sb.wro - sb.wro) + u1 - u0 <= 0 - 1 + ((faults + k) - faults)
        BY <1>1, <1>2, <3>1
      <3> QED BY <2>7, <3>2, <3>3 DEF k, u1, u0
    <2> QED BY <1>1, <2>3, <2>5, <2>6, <2>7, <2>10, StepInv
  <1> QED BY <1>7, <1>8, <1>9, <1>10 DEF zonefs_seq_file_write_close

LEMMA WriteInv ==
    ASSUME IInv, NEW z \in Zones, NEW n \in 1 .. Capacity, NEW sync \in BOOLEAN,
           zonefs_file_dio_write(z, n, sync)
    PROVE  IInv'
  <1>1. /\ View(z) \in ViewState /\ View(z).zone = zone[z] /\ View(z).sb = sb
        /\ zone[z] \in ZoneState /\ sb \in SbState /\ dev[z] \in DevState /\ FullOK(dev[z])
        /\ io[z] \in Seq(WriteState) /\ OpenGood(zone[z], sb.explicit) /\ faults \in Nat
        /\ dev = [dev EXCEPT ![z] = dev[z]] /\ io = [io EXCEPT ![z] = io[z]]
    BY Typed
  <1> DEFINE w == [pos |-> zone[z].z_wpoffset, n |-> n, sync |-> sync, st |-> "start"]
             v == WithZone(View(z), [zone[z] EXCEPT !.z_wpoffset = @ + n])
             a == zonefs_account_active(v)
  <1>2. zone[z].z_wpoffset + n <= Capacity
    BY DEF zonefs_file_dio_write
  <1>3. w \in WriteState
    BY <1>1, <1>2, ZonefsAssumption DEF WriteState, ZoneState
  <1>4. zone[z].z_wpoffset + n \in 0 .. Capacity
    BY <1>1, <1>2, ZonefsAssumption DEF ZoneState
  <1>5. /\ [zone[z] EXCEPT !.z_wpoffset = @ + n] \in ZoneState
        /\ [zone[z] EXCEPT !.z_wpoffset = @ + n].flags = zone[z].flags
        /\ [zone[z] EXCEPT !.z_wpoffset = @ + n].i_wr_refcnt = zone[z].i_wr_refcnt
    BY <1>1, <1>4 DEF ZoneState
  <1>6. Keeps(View(z), v) /\ v \in ViewState /\ (Bad(v.zone) => Bad(zone[z]))
    <2>1. v = [zone |-> [zone[z] EXCEPT !.z_wpoffset = @ + n], sb |-> sb]
      BY <1>1 DEF WithZone
    <2> DEFINE x == [zone[z] EXCEPT !.z_wpoffset = @ + n]
    <2> HIDE DEF x, v
    <2>2. x \in ZoneState /\ x.flags = zone[z].flags /\ x.i_wr_refcnt = zone[z].i_wr_refcnt
      BY <1>5 DEF x
    <2>3. v = [zone |-> x, sb |-> sb]
      BY <2>1 DEF x
    <2> QED BY <1>1, <1>2, <2>2, <2>3 DEF Keeps, ViewState, SbState, Mark, Bad
  <1> HIDE DEF v, w
  <1>7. Keeps(View(z), a) /\ (Bad(a.zone) => Bad(zone[z]))
    BY <1>1, <1>6, AccountKeeps, AccountBad, KeepsTrans
  <1>8. ZoneStep(z, a, dev[z], Append(io[z], w)) /\ faults' = faults
    BY <1>1 DEF zonefs_file_dio_write, ZoneStep, v, w
  <1>9. Append(io[z], w) \in Seq(WriteState)
    BY <1>1, <1>3, AppendProperties
  <1> HIDE DEF a
  <1>10. OpenGood(a.zone, a.sb.explicit)
    BY <1>1, <1>7 DEF OpenGood, Keeps
  <1> DEFINE q == Append(io[z], w)
  <1> HIDE DEF q
  <1>11. q \in Seq(WriteState) /\ ZoneStep(z, a, dev[z], q) /\ faults >= faults
    BY <1>1, <1>8, <1>9 DEF q
  <1> QED BY <1>1, <1>7, <1>8, <1>10, <1>11, KeepsInv

LEMMA WriterInv ==
    ASSUME IInv, NEW z \in Zones, zonefs_file_write_iter(z) \/ WriteRefused(z)
    PROVE  IInv'
  <1>1. UNCHANGED <<zone, sb, dev, io, faults>>
    BY DEF zonefs_file_write_iter, WriteRefused
  <1> QED BY <1>1 DEF IInv, CoreTypes, ActiveCount, ActiveZones, WrittenFiles, Doomed

LEMMA SubmitInv ==
    ASSUME IInv, NEW z \in Zones, iomap_dio_rw(z)
    PROVE  IInv'
  <1>1. /\ View(z) \in ViewState /\ View(z).zone = zone[z] /\ View(z).sb = sb
        /\ zone[z] \in ZoneState /\ sb \in SbState /\ dev[z] \in DevState /\ FullOK(dev[z])
        /\ io[z] \in Seq(WriteState) /\ OpenGood(zone[z], sb.explicit) /\ faults \in Nat
        /\ dev = [dev EXCEPT ![z] = dev[z]] /\ io = [io EXCEPT ![z] = io[z]]
    BY Typed
  <1>2. PICK i \in DOMAIN io[z] : io' = [io EXCEPT ![z][i].st = "queued"]
    BY DEF iomap_dio_rw
  <1> DEFINE q == [io[z] EXCEPT ![i].st = "queued"]
  <1>3. q \in Seq(WriteState)
    BY <1>1, StType
  <1>4. ZoneStep(z, View(z), dev[z], q) /\ faults' = faults
    <2>1. io' = [io EXCEPT ![z] = q]
      BY <1>2
    <2>2. UNCHANGED <<zone, sb, dev, faults>>
      BY DEF iomap_dio_rw
    <2>3. Becomes(z, View(z))
      BY <2>2, Stays
    <2> HIDE DEF q
    <2> QED BY <1>1, <2>1, <2>2, <2>3 DEF ZoneStep
  <1> HIDE DEF q
  <1> QED BY <1>1, <1>3, <1>4, KeepsSelf, KeepsInv

(* The write that the device takes is one of the queue. *)
LEMMA NextQueuedIn ==
    ASSUME NEW z \in Zones, io[z] \in Seq(WriteState), HasQueued(z)
    PROVE  /\ NextQueued(z) \in DOMAIN io[z]
           /\ io[z][NextQueued(z)].st \in Submitted
           /\ \A j \in 1 .. NextQueued(z) - 1 : io[z][j].st \notin Submitted
  <1> DEFINE Q == {i \in DOMAIN io[z] : io[z][i].st \in Submitted}
  <1>1. Q \subseteq Nat /\ Q # {}
    BY LenProperties DEF HasQueued
  <1>2. PICK i \in Q : \A j \in Q : i <= j
    <2> HIDE DEF Q
    <2> QED BY <1>1, SmallestNat
  <1>3. \A j \in 1 .. i - 1 : io[z][j].st \notin Submitted
    BY <1>2, LenProperties
  <1> QED BY <1>2, <1>3 DEF NextQueued

LEMMA DeviceInv ==
    ASSUME IInv, NEW z \in Zones, DeviceWrite(z)
    PROVE  IInv'
  <1>1. /\ View(z) \in ViewState /\ View(z).zone = zone[z] /\ View(z).sb = sb
        /\ zone[z] \in ZoneState /\ sb \in SbState /\ dev[z] \in DevState /\ FullOK(dev[z])
        /\ io[z] \in Seq(WriteState) /\ OpenGood(zone[z], sb.explicit) /\ faults \in Nat
        /\ dev = [dev EXCEPT ![z] = dev[z]] /\ io = [io EXCEPT ![z] = io[z]]
    BY Typed
  <1> DEFINE i == NextQueued(z)
             w == io[z][i]
             ok == [io[z] EXCEPT ![i].st = IF w.st = "cut" THEN "err" ELSE "ok"]
             err == [io[z] EXCEPT ![i].st = "err"]
  <1>2. i \in DOMAIN io[z]
    BY <1>1, NextQueuedIn DEF DeviceWrite
  <1>3. w \in WriteState /\ ok \in Seq(WriteState) /\ err \in Seq(WriteState)
    <2> HIDE DEF i
    <2>1. w \in WriteState
      BY <1>1, <1>2, ElementOfSeq, LenProperties
    <2>2. (IF w.st = "cut" THEN "err" ELSE "ok") \in {"start", "queued", "cut", "ok", "err"}
      OBVIOUS
    <2>3. \A c \in {"start", "queued", "cut", "ok", "err"} : [io[z] EXCEPT ![i].st = c] \in Seq(WriteState)
      BY <1>1, <1>2, StType
    <2> QED BY <2>1, <2>2, <2>3
  <1>4. ASSUME NEW d \in DevState, NEW q \in Seq(WriteState), FullOK(d),
               d.cond \in BadFlags => dev[z].cond \in BadFlags,
               dev' = [dev EXCEPT ![z] = d], io' = [io EXCEPT ![z] = q],
               NEW k \in Nat, faults' = faults + k
        PROVE  IInv'
    <2>1. ZoneStep(z, View(z), d, q) /\ faults + k \in Nat /\ faults + k >= faults
      BY <1>1, <1>4 DEF DeviceWrite, ZoneStep, Becomes, IInv, CoreTypes
    <2> QED BY <1>1, <1>4, <2>1, KeepsSelf, KeepsInv
  <1>5. CASE Writable(dev[z], w)
    <2>1. dev[z].wp + w.n <= Capacity /\ w.n \in 1 .. Capacity /\ dev[z].cond \notin BadFlags
      BY <1>3, <1>5 DEF Writable, WriteState
    <2>2. CASE /\ dev' = [dev EXCEPT ![z] = AfterWrite(@, w.n)]
               /\ io' = [io EXCEPT ![z][i].st = IF @ = "cut" THEN "err" ELSE "ok"] /\ Cost(0)
      <3>1. /\ AfterWrite(dev[z], w.n) \in DevState /\ FullOK(AfterWrite(dev[z], w.n))
            /\ AfterWrite(dev[z], w.n).cond \notin BadFlags
        BY <1>1, <2>1, AfterWriteOK
      <3>2. dev' = [dev EXCEPT ![z] = AfterWrite(dev[z], w.n)] /\ io' = [io EXCEPT ![z] = ok]
        BY <2>2
      <3>3. faults' = faults + 0 /\ 0 \in Nat
        BY <2>2 DEF Cost
      <3> HIDE DEF ok, w, i
      <3> QED BY <1>3, <1>4, <3>1, <3>2, <3>3
    <2>3. ASSUME NEW k \in 0 .. w.n - 1,
                 dev' = [dev EXCEPT ![z] = IF k = 0 THEN @ ELSE AfterWrite(@, k)],
                 io' = [io EXCEPT ![z][i].st = "err"], Cost(1)
          PROVE  IInv'
      <3> DEFINE d == IF k = 0 THEN dev[z] ELSE AfterWrite(dev[z], k)
      <3>1. d \in DevState /\ FullOK(d) /\ d.cond \notin BadFlags
        <4>1. CASE k = 0
          BY <1>1, <2>1, <4>1
        <4>2. CASE k # 0
          <5>1. k \in 1 .. Capacity /\ dev[z].wp + k <= Capacity
            <6> DEFINE n == w.n
            <6>1. n \in 1 .. Capacity /\ k \in 0 .. n - 1 /\ dev[z].wp + n <= Capacity
              BY <2>1
            <6>2. dev[z].wp \in Int
              BY <1>1, ZonefsAssumption DEF DevState
            <6> HIDE DEF n
            <6> QED BY <4>2, <6>1, <6>2, ZonefsAssumption
          <5> QED BY <1>1, <2>1, <4>2, <5>1, AfterWriteOK
        <4> QED BY <4>1, <4>2
      <3>2. dev' = [dev EXCEPT ![z] = d] /\ io' = [io EXCEPT ![z] = err]
        BY <2>3
      <3>3. faults' = faults + 1
        BY <2>3 DEF Cost
      <3> HIDE DEF err, d, w, i
      <3> QED BY <1>3, <1>4, <3>1, <3>2, <3>3
    <2> QED BY <1>5, <2>2, <2>3 DEF DeviceWrite
  <1>6. CASE ~Writable(dev[z], w)
    <2>1. io' = [io EXCEPT ![z] = err] /\ dev' = [dev EXCEPT ![z] = dev[z]] /\ faults' = faults + 0
      BY <1>1, <1>6 DEF DeviceWrite
    <2> HIDE DEF err, w, i
    <2> QED BY <1>1, <1>3, <1>4, <2>1
  <1> QED BY <1>5, <1>6

LEMMA EndIoInv ==
    ASSUME IInv, NEW z \in Zones, NEW i \in DOMAIN io[z], zonefs_file_write_dio_end_io(z, i)
    PROVE  IInv'
  <1>1. /\ View(z) \in ViewState /\ View(z).zone = zone[z] /\ View(z).sb = sb
        /\ zone[z] \in ZoneState /\ sb \in SbState /\ dev[z] \in DevState /\ FullOK(dev[z])
        /\ io[z] \in Seq(WriteState) /\ OpenGood(zone[z], sb.explicit) /\ faults \in Nat
        /\ dev = [dev EXCEPT ![z] = dev[z]] /\ io = [io EXCEPT ![z] = io[z]]
    BY Typed
  <1> DEFINE end == io[z][i].pos + io[z][i].n
             c == Completed(View(z), end)
  <1>2. end \in 0 .. Capacity
    <2>1. io[z][i] \in WriteState
      BY <1>1, ElementOfSeq, LenProperties
    <2> QED BY <2>1, ZonefsAssumption DEF WriteState
  <1>3. RemoveAt(io[z], i) \in Seq(WriteState)
    BY <1>1, RemoveType
  <1>4. ZoneStep(z, c, dev[z], RemoveAt(io[z], i)) /\ faults' = faults
    BY <1>1 DEF zonefs_file_write_dio_end_io, WithoutIO, ZoneStep
  <1> HIDE DEF end
  <1>5. Keeps(View(z), c) /\ (Bad(c.zone) => Bad(zone[z]))
    BY <1>1, <1>2, CompletedKeeps, CompletedBad
  <1> HIDE DEF c
  <1>6. OpenGood(c.zone, c.sb.explicit)
    BY <1>1, <1>5 DEF OpenGood, Keeps
  <1> QED BY <1>1, <1>3, <1>4, <1>5, <1>6, KeepsInv

(* The steps that handle an error of a zone: a failed write, read or flush. *)
LEMMA ErrorInv ==
    ASSUME IInv, NEW z \in Zones, NEW q \in Seq(WriteState), NEW write \in BOOLEAN,
           NEW k \in Nat, HandleError(z, View(z), write, k), io' = [io EXCEPT ![z] = q]
    PROVE  IInv'
  <1>1. /\ View(z) \in ViewState /\ View(z).zone = zone[z] /\ View(z).sb = sb
        /\ zone[z] \in ZoneState /\ sb \in SbState /\ dev[z] \in DevState /\ FullOK(dev[z])
        /\ io[z] \in Seq(WriteState) /\ OpenGood(zone[z], sb.explicit) /\ faults \in Nat
        /\ dev = [dev EXCEPT ![z] = dev[z]] /\ io = [io EXCEPT ![z] = io[z]]
    BY Typed
  <1>2. PICK e \in io_error(View(z), dev[z], write) :
          Cost(e.cost + k) /\ Becomes(z, e.s) /\ dev' = [dev EXCEPT ![z] = e.d]
    BY DEF HandleError
  <1>3. /\ Keeps(View(z), e.s) /\ OpenGood(e.s.zone, e.s.sb.explicit) /\ e.cost \in Nat
        /\ e.d \in DevState /\ e.d.cond = dev[z].cond /\ e.d.wp = dev[z].wp
    BY <1>1, IoErrorKeeps
  <1>4. FullOK(e.d)
    BY <1>1, <1>3 DEF FullOK
  <1>5. /\ ZoneStep(z, e.s, e.d, q) /\ faults' = faults + (e.cost + k)
        /\ faults + (e.cost + k) \in Nat /\ faults + (e.cost + k) >= faults
    BY <1>1, <1>2, <1>3 DEF ZoneStep, Cost
  <1> QED BY <1>1, <1>3, <1>4, <1>5, KeepsInv

LEMMA WriteErrorInv ==
    ASSUME IInv, NEW z \in Zones, NEW i \in DOMAIN io[z], WriteError(z, i)
    PROVE  IInv'
  <1> DEFINE q == RemoveAt(io[z], i)
  <1>1. q \in Seq(WriteState)
    BY Typed, RemoveType
  <1>2. HandleError(z, View(z), TRUE, 0) /\ io' = [io EXCEPT ![z] = q]
    BY DEF WriteError, WithoutIO
  <1> HIDE DEF q
  <1> QED BY <1>1, <1>2, ErrorInv

LEMMA SubmissionInv ==
    ASSUME IInv, NEW z \in Zones, SubmissionFails(z)
    PROVE  IInv'
  <1>1. io[z] \in Seq(WriteState) /\ View(z) \in ViewState /\ dev[z] \in DevState
        /\ dev = [dev EXCEPT ![z] = dev[z]] /\ faults \in Nat /\ FullOK(dev[z])
        /\ View(z).zone = zone[z] /\ View(z).sb = sb /\ OpenGood(zone[z], sb.explicit)
    BY Typed
  <1>2. PICK i \in DOMAIN io[z] :
          \/ HandleError(z, View(z), TRUE, 0) /\ WithoutIO(z, i)
          \/ /\ \E m \in 1 .. io[z][i].n - 1 :
                   io' = [io EXCEPT ![z][i].st = "cut", ![z][i].n = m]
             /\ UNCHANGED <<zone, sb, dev, faults>>
    BY DEF SubmissionFails
  <1>3. CASE HandleError(z, View(z), TRUE, 0) /\ WithoutIO(z, i)
    <2> DEFINE q == RemoveAt(io[z], i)
    <2>1. q \in Seq(WriteState) /\ io' = [io EXCEPT ![z] = q]
      BY <1>1, <1>3, RemoveType DEF WithoutIO
    <2> HIDE DEF q
    <2> QED BY <1>3, <2>1, ErrorInv
  <1>4. ASSUME NEW m \in 1 .. io[z][i].n - 1,
               io' = [io EXCEPT ![z][i].st = "cut", ![z][i].n = m],
               UNCHANGED <<zone, sb, dev, faults>>
        PROVE  IInv'
    <2> DEFINE w == [io[z][i] EXCEPT !.st = "cut", !.n = m]
               q == [io[z] EXCEPT ![i] = w]
    <2>1. io[z][i] \in WriteState
      BY <1>1, ElementOfSeq, LenProperties
    <2>2. w \in WriteState
      <3> DEFINE v == io[z][i]
      <3>1. v \in WriteState /\ m \in 1 .. v.n - 1
        BY <2>1
      <3> HIDE DEF v
      <3>2. m \in 1 .. Capacity /\ v.pos \in 0 .. Capacity /\ v.pos + m <= Capacity
        BY <3>1, ZonefsAssumption DEF WriteState
      <3>3. [v EXCEPT !.st = "cut", !.n = m] \in WriteState
        BY <3>1, <3>2 DEF WriteState
      <3> QED BY <3>3 DEF v
    <2>3. q \in Seq(WriteState)
      <3> HIDE DEF w
      <3> QED BY <1>1, <2>2, ExceptSeq
    <2>4. io' = [io EXCEPT ![z] = q]
      BY <1>4
    <2> HIDE DEF q
    <2>5. ZoneStep(z, View(z), dev[z], q) /\ faults' = faults /\ faults >= faults
      <3>1. Becomes(z, View(z)) /\ dev' = [dev EXCEPT ![z] = dev[z]] /\ faults' = faults
        BY <1>1, <1>4, Stays
      <3> HIDE DEF w
      <3> QED BY <1>1, <2>4, <3>1 DEF ZoneStep
    <2> QED BY <1>1, <2>3, <2>5, KeepsSelf, KeepsInv
  <1> QED BY <1>2, <1>3, <1>4

LEMMA NewFaultNat ==
    ASSUME NEW z
    PROVE  NewFault(z) \in Nat
  BY DEF NewFault

LEMMA ReadErrorInv ==
    ASSUME IInv, NEW z \in Zones, ReadError(z)
    PROVE  IInv'
  <1>1. io[z] \in Seq(WriteState) /\ io = [io EXCEPT ![z] = io[z]]
    BY Typed
  <1>2. HandleError(z, View(z), FALSE, NewFault(z)) /\ UNCHANGED io
    BY DEF ReadError
  <1> QED BY <1>1, <1>2, NewFaultNat, ErrorInv

LEMMA FsyncInv ==
    ASSUME IInv, NEW z \in Zones, zonefs_file_fsync(z)
    PROVE  IInv'
  <1>1. io[z] \in Seq(WriteState) /\ io = [io EXCEPT ![z] = io[z]]
    BY Typed
  <1>2. HandleError(z, View(z), TRUE, NewFault(z)) /\ UNCHANGED io
    BY DEF zonefs_file_fsync
  <1> QED BY <1>1, <1>2, NewFaultNat, ErrorInv

LEMMA TruncatedBad ==
    ASSUME NEW s \in ViewState, NEW isize \in 0 .. Capacity
    PROVE  Bad(Truncated(s, isize).zone) => Bad(s.zone)
  <1>1. PICK t \in ViewState : t = zonefs_update_stats(s, isize) /\ t.zone = s.zone
    BY StatsKeeps, StatsFields DEF Keeps
  <1> DEFINE u == WithZone(t, [t.zone EXCEPT !.i_size = isize, !.z_wpoffset = isize])
  <1>2. u \in ViewState
    BY SizesKeep DEF Keeps
  <1>3. u.zone.flags = s.zone.flags
    BY <1>1 DEF WithZone, ViewState, ZoneState
  <1>4. Truncated(s, isize) = zonefs_account_active(u)
    BY <1>1 DEF Truncated
  <1> HIDE DEF u
  <1> QED BY <1>2, <1>3, <1>4, AccountBad DEF Bad

LEMMA TruncateInv ==
    ASSUME IInv, NEW z \in Zones, NEW isize \in {0, Capacity}, zonefs_file_truncate(z, isize)
    PROVE  IInv'
  <1>1. /\ View(z) \in ViewState /\ View(z).zone = zone[z] /\ View(z).sb = sb
        /\ zone[z] \in ZoneState /\ sb \in SbState /\ dev[z] \in DevState /\ FullOK(dev[z])
        /\ io[z] \in Seq(WriteState) /\ OpenGood(zone[z], sb.explicit) /\ faults \in Nat
        /\ dev = [dev EXCEPT ![z] = dev[z]] /\ io = [io EXCEPT ![z] = io[z]]
    BY Typed
  <1> DEFINE op == IF isize = 0 THEN "RESET" ELSE "FINISH"
  <1>2. op \in Ops /\ isize \in 0 .. Capacity /\ UNCHANGED io
    BY ZonefsAssumption DEF Ops, zonefs_file_truncate
  <1>3. ASSUME NEW s \in ViewState, Keeps(View(z), s), Bad(s.zone) => Bad(zone[z]),
               Becomes(z, Truncated(s, isize)),
               NEW d \in DevState, FullOK(d), d.cond \in BadFlags => dev[z].cond \in BadFlags,
               dev' = [dev EXCEPT ![z] = d], NEW k \in Nat, Cost(k)
        PROVE  IInv'
    <2>1. Keeps(s, Truncated(s, isize)) /\ (Bad(Truncated(s, isize).zone) => Bad(s.zone))
      BY <1>2, <1>3, TruncatedKeeps, TruncatedBad
    <2>2. Keeps(View(z), Truncated(s, isize))
      BY <1>1, <1>3, <2>1, KeepsTrans
    <2>3. OpenGood(Truncated(s, isize).zone, Truncated(s, isize).sb.explicit)
      BY <1>1, <1>3, <2>1, <2>2 DEF OpenGood, Keeps
    <2>4. /\ ZoneStep(z, Truncated(s, isize), d, io[z]) /\ faults' = faults + k
          /\ faults + k \in Nat /\ faults + k >= faults
      BY <1>1, <1>2, <1>3 DEF ZoneStep, Cost
    <2> QED BY <1>1, <1>3, <2>2, <2>3, <2>4, KeepsInv
  <1>4. PICK r \in zonefs_zone_mgmt(z, zone[z], dev[z], op) :
          IF ~r.ok THEN Cost(r.cost) /\ UNCHANGED <<zone, sb, dev>>
          ELSE IF "OPEN" \notin zone[z].flags THEN
               /\ Cost(r.cost) /\ dev' = [dev EXCEPT ![z] = r.d]
               /\ Becomes(z, Truncated(View(z), isize))
          ELSE IF isize = 0 THEN
               \E p \in zonefs_zone_mgmt(z, zone[z], r.d, "OPEN") :
                  /\ Cost(r.cost + p.cost) /\ dev' = [dev EXCEPT ![z] = p.d]
                  /\ Becomes(z, Truncated(View(z), isize))
          ELSE /\ Cost(r.cost) /\ dev' = [dev EXCEPT ![z] = r.d]
               /\ Becomes(z, Truncated(ClearOpen(View(z)), isize))
    BY DEF zonefs_file_truncate
  <1> HIDE DEF op
  <1>5. /\ r.d \in DevState /\ FullOK(r.d) /\ r.cost \in Nat
        /\ (r.d.cond \in BadFlags <=> dev[z].cond \in BadFlags)
    BY <1>1, <1>2, <1>4, MgmtResult
  <1>6. CASE ~r.ok
    <2>1. Becomes(z, View(z)) /\ UNCHANGED dev /\ Cost(r.cost)
      BY <1>4, <1>6, Stays
    <2>2. /\ ZoneStep(z, View(z), dev[z], io[z]) /\ faults' = faults + r.cost
          /\ faults + r.cost \in Nat /\ faults + r.cost >= faults
      BY <1>1, <1>2, <1>5, <2>1 DEF ZoneStep, Cost
    <2> QED BY <1>1, <2>2, KeepsSelf, KeepsInv
  <1>7. CASE r.ok /\ "OPEN" \notin zone[z].flags
    BY <1>1, <1>3, <1>4, <1>5, <1>7, KeepsSelf
  <1>8. CASE r.ok /\ "OPEN" \in zone[z].flags /\ isize = 0
    <2>1. PICK p \in zonefs_zone_mgmt(z, zone[z], r.d, "OPEN") :
            /\ Cost(r.cost + p.cost) /\ dev' = [dev EXCEPT ![z] = p.d]
            /\ Becomes(z, Truncated(View(z), isize))
      BY <1>4, <1>8
    <2>2. /\ p.d \in DevState /\ FullOK(p.d) /\ p.cost \in Nat
          /\ (p.d.cond \in BadFlags <=> r.d.cond \in BadFlags)
      BY <1>1, <1>5, <2>1, MgmtResult DEF Ops
    <2>3. r.cost + p.cost \in Nat
      BY <1>5, <2>2
    <2> QED BY <1>1, <1>3, <1>5, <2>1, <2>2, <2>3, KeepsSelf
  <1>9. CASE r.ok /\ "OPEN" \in zone[z].flags /\ isize # 0
    <2>1. Keeps(View(z), ClearOpen(View(z))) /\ ClearOpen(View(z)) \in ViewState
      BY <1>1, ClearOpenKeeps DEF Keeps
    <2>2. Bad(ClearOpen(View(z)).zone) => Bad(zone[z])
      BY <1>1 DEF ClearOpen, WithZone, Bad, ZoneState
    <2> QED BY <1>3, <1>4, <1>5, <1>9, <2>1, <2>2
  <1> QED BY <1>6, <1>7, <1>8, <1>9

LEMMA ZoneFailsInv ==
    ASSUME IInv, NEW z \in Zones, NEW c \in BadFlags, ZoneFails(z, c)
    PROVE  IInv'
  <1>1. /\ View(z) \in ViewState /\ View(z).zone = zone[z] /\ View(z).sb = sb
        /\ zone[z] \in ZoneState /\ sb \in SbState /\ dev[z] \in DevState /\ FullOK(dev[z])
        /\ io[z] \in Seq(WriteState) /\ OpenGood(zone[z], sb.explicit) /\ faults \in Nat
        /\ dev = [dev EXCEPT ![z] = dev[z]] /\ io = [io EXCEPT ![z] = io[z]]
    BY Typed
  <1> DEFINE d == [dev[z] EXCEPT !.cond = c]
  <1>2. d \in DevState /\ FullOK(d)
    BY <1>1 DEF DevState, FullOK, Conds, BadFlags
  <1>3. Becomes(z, View(z)) /\ UNCHANGED io
    BY Stays DEF ZoneFails
  <1>4. dev' = [dev EXCEPT ![z] = d]
    BY DEF ZoneFails
  <1> HIDE DEF d
  <1>5. ZoneStep(z, View(z), d, io[z])
    BY <1>1, <1>3, <1>4 DEF ZoneStep
  <1>6. /\ faults' = faults + 1
        /\ faults + 1 \in Nat /\ faults + 1 >= faults /\ faults + 1 > faults
    BY <1>1 DEF ZoneFails, Cost
  <1> QED BY <1>1, <1>2, <1>5, <1>6, KeepsSelf, KeepsInv

LEMMA AfterLossOK ==
    ASSUME NEW d \in DevState, d.cond \notin BadFlags, NEW k \in 0 .. Capacity - 1
    PROVE  /\ AfterLoss(d, k) \in DevState /\ FullOK(AfterLoss(d, k))
           /\ AfterLoss(d, k).cond \notin BadFlags
           /\ AfterLoss(d, k).wp = k /\ AfterLoss(d, k).loss = "unseen"
  BY ZonefsAssumption DEF AfterLoss, DevState, Conds, OpenConds, BadFlags, FullOK

LEMMA DeviceLosesInv ==
    ASSUME IInv, NEW z \in Zones, NEW k \in 0 .. Capacity - 1, DeviceLoses(z, k)
    PROVE  IInv'
  <1>1. /\ View(z) \in ViewState /\ View(z).zone = zone[z] /\ View(z).sb = sb
        /\ zone[z] \in ZoneState /\ sb \in SbState /\ dev[z] \in DevState /\ FullOK(dev[z])
        /\ io[z] \in Seq(WriteState) /\ OpenGood(zone[z], sb.explicit) /\ faults \in Nat
        /\ dev = [dev EXCEPT ![z] = dev[z]] /\ io = [io EXCEPT ![z] = io[z]]
    BY Typed
  <1> DEFINE d == AfterLoss(dev[z], k)
  <1>2. d \in DevState /\ FullOK(d) /\ d.cond \notin BadFlags
    BY <1>1, AfterLossOK DEF DeviceLoses
  <1>3. Becomes(z, View(z)) /\ UNCHANGED io /\ dev' = [dev EXCEPT ![z] = d]
    BY Stays DEF DeviceLoses
  <1> HIDE DEF d
  <1>4. ZoneStep(z, View(z), d, io[z])
    BY <1>1, <1>3 DEF ZoneStep
  <1>5. faults' = faults + 1 /\ faults + 1 \in Nat /\ faults + 1 >= faults
    BY <1>1 DEF DeviceLoses, Cost
  <1> QED BY <1>1, <1>2, <1>4, <1>5, KeepsSelf, KeepsInv

LEMMA InodeInv ==
    ASSUME IInv, NEW z \in Zones, zonefs_get_file_inode(z)
    PROVE  IInv'
  <1>1. /\ View(z) \in ViewState /\ View(z).zone = zone[z] /\ View(z).sb = sb
        /\ zone[z] \in ZoneState /\ sb \in SbState /\ dev[z] \in DevState /\ FullOK(dev[z])
        /\ io[z] \in Seq(WriteState) /\ OpenGood(zone[z], sb.explicit) /\ faults \in Nat
        /\ dev = [dev EXCEPT ![z] = dev[z]] /\ io = [io EXCEPT ![z] = io[z]]
    BY Typed
  <1> DEFINE x == [zone[z] EXCEPT !.i_size = zone[z].z_wpoffset]
             t == [zone |-> x, sb |-> sb]
  <1>2. x \in ZoneState /\ x.flags = zone[z].flags /\ x.i_wr_refcnt = zone[z].i_wr_refcnt
    BY <1>1 DEF ZoneState
  <1>3. zone' = [zone EXCEPT ![z] = x] /\ UNCHANGED <<sb, dev, io, faults>>
    BY DEF zonefs_get_file_inode
  <1> HIDE DEF x
  <1>4. Keeps(View(z), t) /\ OpenGood(t.zone, t.sb.explicit)
    BY <1>1, <1>2 DEF Keeps, ViewState, SbState, Mark, Bad, OpenGood
  <1>5. ZoneStep(z, t, dev[z], io[z]) /\ faults' = faults /\ faults >= faults
    BY <1>1, <1>3 DEF ZoneStep, Becomes
  <1> HIDE DEF t
  <1> QED BY <1>1, <1>4, <1>5, KeepsInv

--------------------------------------------------------------------------------
(* Mount and remount *)

LEMMA RemountInv ==
    ASSUME IInv, NEW e \in Errors, NEW x \in ExplicitOpts, NEW ro \in BOOLEAN,
           zonefs_remount(e, x, ro)
    PROVE  IInv'
  <1>1. /\ sb \in SbState /\ x \in BOOLEAN
    BY ZonefsAssumption DEF IInv, CoreTypes, ExplicitOpts
  <1>2. /\ sb' = [sb EXCEPT !.errors = e, !.explicit = @ \/ x, !.rdonly = ro]
        /\ UNCHANGED <<zone, dev, io, faults>>
    BY DEF zonefs_remount
  <1>3. /\ sb' \in SbState /\ sb'.active = sb.active /\ sb'.wro = sb.wro
        /\ sb.explicit => sb'.explicit
    BY <1>1, <1>2 DEF SbState
  <1>4. CoreTypes' /\ ActiveCount'
    BY <1>2, <1>3 DEF IInv, CoreTypes, ActiveCount, ActiveZones
  <1>5. \A z \in Zones : FullOK(dev[z])' /\ OpenGood(zone[z], sb.explicit)'
    BY <1>2, <1>3 DEF IInv, OpenGood
  <1>6. WrittenFiles' = WrittenFiles /\ Doomed' = Doomed /\ faults' = faults
    BY <1>2 DEF WrittenFiles, Doomed
  <1> QED BY <1>3, <1>4, <1>5, <1>6 DEF IInv

(* The zone as the mount finds it, before it is marked. *)
Found(d) ==
    LET w == zonefs_check_zone_condition([z_wpoffset |-> 0], d)
    IN  [flags |-> ReportedFlags(d), i_wr_refcnt |-> 0, z_wpoffset |-> w, i_size |-> w]

(* What a zone is after a mount. *)
LEMMA MountedFields ==
    ASSUME NEW d \in DevState
    PROVE  LET x == MountedZone(d) IN
           /\ x \in ZoneState /\ x.i_wr_refcnt = 0 /\ x.i_size = x.z_wpoffset
           /\ x.z_wpoffset = Found(d).z_wpoffset
           /\ "OPEN" \notin x.flags
           /\ Bad(x) <=> d.cond \in BadFlags
           /\ "ACTIVE" \in x.flags <=> IsActive(x)
  <1> DEFINE x == [flags |-> ReportedFlags(d), i_wr_refcnt |-> 0, z_wpoffset |-> 0, i_size |-> 0]
             w == zonefs_check_zone_condition(x, d)
             y == [x EXCEPT !.z_wpoffset = w, !.i_size = w]
             v == [y EXCEPT !.flags = @ \cup {"ACTIVE"}]
  <1>1. MountedZone(d) = IF IsActive(y) THEN v ELSE y
    BY DEF MountedZone
  <1>2. w \in 0 .. Capacity /\ Found(d).z_wpoffset = w
    BY ZonefsAssumption DEF zonefs_check_zone_condition, DevState, Found
  <1>3. ReportedFlags(d) \in SUBSET BadFlags
    BY DEF ReportedFlags
  <1>4. /\ x \in ZoneState /\ x.flags = ReportedFlags(d) /\ x.i_wr_refcnt = 0
    BY <1>3, ZonefsAssumption DEF ZoneState, Flags, BadFlags
  <1> HIDE DEF x, w
  <1>5. /\ y \in ZoneState /\ y.flags = ReportedFlags(d) /\ y.i_wr_refcnt = 0
        /\ y.z_wpoffset = w /\ y.i_size = w
    BY <1>2, <1>4 DEF ZoneState
  <1> HIDE DEF y
  <1>6. /\ v \in ZoneState /\ v.flags = y.flags \cup {"ACTIVE"} /\ v.i_wr_refcnt = y.i_wr_refcnt
        /\ v.z_wpoffset = y.z_wpoffset /\ v.i_size = y.i_size
    BY <1>5 DEF ZoneState, Flags
  <1> HIDE DEF v
  <1>7. Bad(y) <=> d.cond \in BadFlags
    BY <1>5 DEF Bad, ReportedFlags
  <1>8. (Bad(v) <=> Bad(y)) /\ (IsActive(v) <=> IsActive(y))
    BY <1>6 DEF Bad, BadFlags, IsActive
  <1>9. "OPEN" \notin y.flags /\ "ACTIVE" \notin y.flags /\ "OPEN" \notin v.flags
    BY <1>3, <1>5, <1>6 DEF BadFlags
  <1> QED BY <1>1, <1>2, <1>5, <1>6, <1>7, <1>8, <1>9

LEMMA MountedDevOK ==
    ASSUME NEW d \in DevState, FullOK(d)
    PROVE  /\ MountedDev(d) \in DevState /\ FullOK(MountedDev(d))
           /\ MountedDev(d).cond \in BadFlags <=> d.cond \in BadFlags
           /\ d.cond \notin BadFlags => MountedDev(d).wp = Found(d).z_wpoffset
  <1>1. CASE d.cond \notin OpenConds
    BY <1>1, ZonefsAssumption
       DEF MountedDev, DevState, FullOK, Found, zonefs_check_zone_condition, BadFlags
  <1>2. CASE d.cond \in OpenConds /\ d.wp = 0
    <2>1. MountedDev(d) = [cond |-> "EMPTY", wp |-> 0, loss |-> "none"]
      BY <1>2 DEF MountedDev, MgmtOp, Managed
    <2> QED BY <1>2, <2>1, ZonefsAssumption
       DEF DevState, FullOK, Found, Conds, OpenConds, zonefs_check_zone_condition, BadFlags
  <1>3. CASE d.cond \in OpenConds /\ d.wp # 0
    <2>1. MountedDev(d) = [d EXCEPT !.cond = "CLOSED", !.loss = "none"]
      BY <1>3 DEF MountedDev, MgmtOp, Managed, DevState
    <2> QED BY <1>3, <2>1, ZonefsAssumption
       DEF DevState, FullOK, Found, Conds, OpenConds, zonefs_check_zone_condition, BadFlags
  <1> QED BY <1>1, <1>2, <1>3

(* A fresh mount satisfies the invariant, whatever it finds. *)
FreshState(d, e, x, ro) ==
    LET m == Fresh(d, e, x, ro) IN zone = m.zone /\ sb = m.sb /\ dev = m.dev

(* What the mount counts zone by zone is what the volume holds. *)
LEMMA MountedCounts ==
    ASSUME NEW f, NEW e, NEW x, NEW ro,
           \A z \in Zones : /\ f[z].i_size = f[z].z_wpoffset
                            /\ "ACTIVE" \in f[z].flags <=> IsActive(f[z])
    PROVE  /\ MountedSb(f, e, x, ro).active = Cardinality(ActiveZones(f))
           /\ MountedSb(f, e, x, ro).used = SizeOf(f)
  <1> DEFINE v == [z \in Zones |-> IF IsActive(f[z]) THEN 1 ELSE 0]
  <1>1. \A z \in Zones : v[z] \in {0, 1} /\ (v[z] = 1 <=> IsActive(f[z]))
    OBVIOUS
  <1>2. {z \in Zones : v[z] = 1} = ActiveZones(f)
    BY <1>1 DEF ActiveZones
  <1>3. MountedSb(f, e, x, ro).active = Total(v)
    BY DEF MountedSb
  <1> HIDE DEF v
  <1>4. Total(v) = Cardinality(ActiveZones(f))
    BY <1>1, <1>2, TotalCounts
  <1>5. [z \in Zones |-> f[z].z_wpoffset] = [z \in Zones |-> f[z].i_size]
    OBVIOUS
  <1>6. MountedSb(f, e, x, ro).used = SizeOf(f)
    BY <1>5 DEF MountedSb, SizeOf
  <1> QED BY <1>3, <1>4, <1>6

LEMMA FreshInv ==
    ASSUME NEW d \in [Zones -> DevState], \A z \in Zones : FullOK(d[z]),
           NEW e \in Errors, NEW x \in ExplicitOpts, NEW ro \in BOOLEAN,
           FreshState(d, e, x, ro), io = [z \in Zones |-> << >>], faults \in Nat,
           Cardinality({z \in Zones : FALSE}) = 0
    PROVE  IInv
  <1>1. /\ zone = [z \in Zones |-> MountedZone(d[z])]
        /\ sb = MountedSb(zone, e, x, ro)
        /\ dev = [z \in Zones |-> MountedDev(d[z])]
    BY DEF FreshState, Fresh
  <1>2. \A z \in Zones : /\ zone[z] = MountedZone(d[z]) /\ dev[z] = MountedDev(d[z])
                         /\ d[z] \in DevState /\ FullOK(d[z])
    BY <1>1
  <1>3. \A z \in Zones : /\ zone[z] \in ZoneState /\ zone[z].i_wr_refcnt = 0
                         /\ zone[z].i_size = zone[z].z_wpoffset
                         /\ "ACTIVE" \in zone[z].flags <=> IsActive(zone[z])
                         /\ "OPEN" \notin zone[z].flags
                         /\ Bad(zone[z]) <=> d[z].cond \in BadFlags
    BY <1>2, MountedFields
  <1>4. \A z \in Zones : /\ dev[z] \in DevState /\ FullOK(dev[z])
                         /\ dev[z].cond \in BadFlags <=> d[z].cond \in BadFlags
    BY <1>2, MountedDevOK
  <1>5. zone \in [Zones -> ZoneState] /\ dev \in [Zones -> DevState]
    BY <1>1, <1>3, <1>4
  <1>6. Cardinality(ActiveZones(zone)) \in Nat
    BY FS_Subset, FS_CardinalityType, ZonefsAssumption DEF ActiveZones
  <1>7. SizeOf(zone) \in 0 .. Blocks
    BY <1>5, SizeOfRange
  <1>8. /\ sb \in SbState /\ sb.wro = 0 /\ sb.active = Cardinality(ActiveZones(zone))
    BY <1>1, <1>3, <1>6, <1>7, MountedCounts, BlocksNat, ZonefsAssumption
       DEF MountedSb, SbState, ExplicitOpts
  <1>9. WrittenFiles = {z \in Zones : FALSE} /\ Doomed = {z \in Zones : FALSE}
    BY <1>3, <1>4 DEF WrittenFiles, Doomed, Unseen
  <1>10. io \in [Zones -> Seq(WriteState)]
    OBVIOUS
  <1>11. CoreTypes /\ ActiveCount
    BY <1>5, <1>8, <1>10 DEF CoreTypes, ActiveCount
  <1>12. \A z \in Zones : OpenGood(zone[z], sb.explicit)
    BY <1>3 DEF OpenGood
  <1>13. Cardinality(WrittenFiles) = 0 /\ Cardinality(Doomed) = 0
    BY <1>9
  <1> QED BY <1>4, <1>8, <1>11, <1>12, <1>13 DEF IInv

LEMMA NoZones == Cardinality({z \in Zones : FALSE}) = 0
  <1>1. {z \in Zones : FALSE} = {}
    OBVIOUS
  <1> QED BY <1>1, FS_EmptySet

LEMMA StartDevOK ==
    ASSUME NEW d \in StartDev
    PROVE  d \in DevState /\ FullOK(d)
  <1>1. d \in [cond : StartConds, wp : 0 .. Capacity, loss : {"none"}] /\ StartConds \subseteq Conds
    BY ZonefsAssumption DEF StartDev
  <1>2. d \in DevState
    BY <1>1 DEF DevState
  <1>3. /\ d.cond = "EMPTY" => d.wp = 0
        /\ d.cond = "CLOSED" => d.wp \in 1 .. Capacity - 1
        /\ d.cond \in OpenConds => d.wp < Capacity
        /\ d.cond = "FULL" => d.wp = Capacity
    BY DEF StartDev
  <1>4. d.cond \in Conds /\ d.wp \in 0 .. Capacity
    BY <1>2 DEF DevState
  <1>5. d.cond \notin BadFlags /\ d.cond # "FULL" => d.wp # Capacity
    BY <1>3, <1>4, ZonefsAssumption DEF Conds, BadFlags
  <1> QED BY <1>2, <1>3, <1>5 DEF FullOK

LEMMA InitInv ==
    ASSUME Init
    PROVE  IInv
  <1>1. PICK d \in [Zones -> StartDev], e \in Errors, x \in ExplicitOpts, ro \in BOOLEAN :
          FreshState(d, e, x, ro)
    BY DEF Init, FreshState
  <1>2. d \in [Zones -> DevState] /\ \A z \in Zones : FullOK(d[z])
    BY StartDevOK
  <1>3. io = [z \in Zones |-> << >>] /\ faults \in Nat
    BY DEF Init
  <1> QED BY <1>1, <1>2, <1>3, NoZones, FreshInv

(* The same of the state a step leads to. *)
LEMMA FreshNext ==
    (\A d \in [Zones -> DevState], e \in Errors, x \in ExplicitOpts, ro \in BOOLEAN :
        /\ \A z \in Zones : FullOK(d[z])
        /\ FreshState(d, e, x, ro) /\ io = [z \in Zones |-> << >>] /\ faults \in Nat
        => IInv)'
  <1>1. \A d \in [Zones -> DevState], e \in Errors, x \in ExplicitOpts, ro \in BOOLEAN :
           /\ \A z \in Zones : FullOK(d[z])
           /\ FreshState(d, e, x, ro) /\ io = [z \in Zones |-> << >>] /\ faults \in Nat
           => IInv
    BY FreshInv, NoZones
  <1> QED BY <1>1, PTL

LEMMA RestartInv ==
    ASSUME IInv, NEW e \in Errors, NEW x \in ExplicitOpts, NEW ro \in BOOLEAN,
           Restart(e, x, ro)
    PROVE  IInv'
  <1>1. dev \in [Zones -> DevState] /\ \A z \in Zones : FullOK(dev[z])
    BY DEF IInv, CoreTypes
  <1>2. faults' \in Nat
    BY DEF IInv, CoreTypes, Restart, Cost
  <1>3. PICK d : d = dev
    OBVIOUS
  <1>4. d \in [Zones -> DevState] /\ \A z \in Zones : FullOK(d[z])
    BY <1>1, <1>3
  <1>5. FreshState(d, e, x, ro)' /\ io' = [z \in Zones |-> << >>]
    BY <1>3 DEF Restart, FreshState, Fresh
  <1> QED BY <1>2, <1>4, <1>5, FreshNext

LEMMA NextInv ==
    ASSUME IInv, [Next]_vars
    PROVE  IInv'
  <1>1. ASSUME NEW z \in Zones, FileStep(z)
        PROVE  IInv'
    <2>1. CASE zonefs_seq_file_write_open(z)
      BY <2>1, OpenInv
    <2>2. CASE \E fails \in BOOLEAN : zonefs_seq_file_write_close(z, fails)
      BY <2>2, CloseInv
    <2>4. CASE iomap_dio_rw(z)
      BY <2>4, SubmitInv
    <2>5. CASE DeviceWrite(z)
      BY <2>5, DeviceInv
    <2>6. CASE \E i \in DOMAIN io[z] : zonefs_file_write_dio_end_io(z, i) \/ WriteError(z, i)
      BY <2>6, EndIoInv, WriteErrorInv
    <2>7. CASE \E isize \in {0, Capacity} : zonefs_inode_setattr(z, isize)
      BY <2>7, TruncateInv DEF zonefs_inode_setattr
    <2>8. CASE \E c \in BadFlags : ZoneFails(z, c)
      BY <2>8, ZoneFailsInv
    <2>9. CASE \E k \in 0 .. Capacity - 1 : DeviceLoses(z, k)
      BY <2>9, DeviceLosesInv
    <2> QED BY <1>1, <2>1, <2>2, <2>4, <2>5, <2>6, <2>7, <2>8, <2>9 DEF FileStep
  <1>2. ASSUME NEW z \in Zones, LocalStep(z)
        PROVE  IInv'
    <2>1. CASE WriterStep(z)
      BY <2>1, WriterInv, WriteInv DEF WriterStep, Syncs
    <2>2. CASE SubmissionFails(z)
      BY <2>2, SubmissionInv
    <2> QED BY <1>1, <1>2, <2>1, <2>2 DEF LocalStep
  <1>3. ASSUME NEW z \in Zones, UnlockedStep(z) \/ zonefs_get_file_inode(z)
        PROVE  IInv'
    BY <1>3, TruncateInv, ReadErrorInv, FsyncInv, InodeInv DEF UnlockedStep, GCReset
  <1>4. ASSUME NEW e \in Errors, NEW x \in ExplicitOpts, NEW ro \in BOOLEAN,
               Restart(e, x, ro) \/ zonefs_remount(e, x, ro)
        PROVE  IInv'
    BY <1>4, RestartInv, RemountInv
  <1>5. CASE UNCHANGED vars
    BY <1>5 DEF vars, IInv, CoreTypes, ActiveCount, ActiveZones, WrittenFiles, Doomed
  <1> QED BY <1>2, <1>3, <1>4, <1>5 DEF Next

(* The counters of the volume agree with its zones, and no zone stays open  *)
(* that is bad or was not opened explicitly, at every step of the code.     *)
THEOREM InductiveInvariant == Spec => []IInv
  <1>1. Init => IInv
    BY InitInv
  <1>2. IInv /\ [Next]_vars => IInv'
    BY NextInv
  <1> QED BY <1>1, <1>2, PTL DEF Spec

(* The types of the waiting writers and of the history. *)
HistTypes == waiting \in SUBSET Zones /\ hist \in [aborted : BOOLEAN, asked : BOOLEAN]

LEMMA HistNext ==
    ASSUME HistTypes, [Next]_vars
    PROVE  HistTypes'
  <1>1. ASSUME NEW z \in Zones, LocalStep(z)
        PROVE  HistTypes'
    <2>1. CASE UNCHANGED <<waiting, hist>>
      BY <2>1 DEF HistTypes
    <2>2. CASE WriterStep(z) /\ UNCHANGED hist
      BY <2>2 DEF HistTypes, WriterStep, zonefs_file_write_iter, WriteRefused, Locks,
                        zonefs_file_dio_write
    <2>3. CASE SubmissionFails(z) /\ UNCHANGED waiting
      BY <2>3 DEF HistTypes, SubmissionFails
    <2> QED BY <1>1, <2>1, <2>2, <2>3 DEF LocalStep
  <1>2. ASSUME NEW e \in Errors, NEW x \in ExplicitOpts, NEW ro \in BOOLEAN,
               Restart(e, x, ro) \/ zonefs_remount(e, x, ro)
        PROVE  HistTypes'
    BY <1>2 DEF HistTypes, Restart, zonefs_remount
  <1>3. CASE UNCHANGED <<waiting, hist>>
    BY <1>3 DEF HistTypes
  <1> QED BY <1>1, <1>2, <1>3 DEF Next, vars

LEMMA HistTyped == Spec => []HistTypes
  <1>1. Init => HistTypes
    BY DEF Init, HistTypes
  <1>2. HistTypes /\ [Next]_vars => HistTypes'
    BY HistNext
  <1> QED BY <1>1, <1>2, PTL DEF Spec

(* Every write in flight, z_wpoffset and i_size stay within the capacity of *)
(* their zone (zonefs_write_check_limits), through errors and restarts.     *)
THEOREM TypeCorrect == Spec => []TypeOK
  <1>1. IInv /\ HistTypes => TypeOK
    BY DEF IInv, CoreTypes, HistTypes, TypeOK
  <1> QED BY <1>1, InductiveInvariant, HistTyped, PTL

(* s_active_seq_files counts the zones marked active, however errors, full  *)
(* zones, truncations and closes are interleaved (zonefs_account_active).   *)
THEOREM ActiveCounted == Spec => []ActiveCount
  <1>1. IInv => ActiveCount
    BY DEF IInv
  <1> QED BY <1>1, InductiveInvariant, PTL

(* s_wro_seq_files never falls below the number of files open for writing,  *)
(* and exceeds it by at most one for each failure of the device             *)
(* (zonefs_seq_file_write_open, zonefs_seq_file_write_close).               *)
THEOREM WroBounded == Spec => []WroWithin
  <1>1. ASSUME IInv PROVE WroWithin
    <2>1. Doomed \in SUBSET Zones /\ WrittenFiles \in SUBSET Zones
      BY DEF Doomed, WrittenFiles
    <2>2. Cardinality(Doomed) \in Nat /\ Cardinality(WrittenFiles) \in Nat
      BY <2>1, FS_Subset, FS_CardinalityType, ZonefsAssumption
    <2>3. sb.wro \in Int /\ faults \in Nat
      BY <1>1 DEF IInv, CoreTypes, SbState
    <2>4. /\ Cardinality(WrittenFiles) <= sb.wro
          /\ sb.wro + Cardinality(Doomed) <= Cardinality(WrittenFiles) + faults
      BY <1>1 DEF IInv
    <2>5. sb.wro <= Cardinality(WrittenFiles) + faults
      BY <2>2, <2>3, <2>4
    <2> QED BY <2>4, <2>5 DEF WroWithin
  <1> QED BY <1>1, InductiveInvariant, PTL

================================================================================
