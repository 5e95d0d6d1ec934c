----------------------------- MODULE ReaddirProofs -----------------------------
(***************************************************************************)
(* Theorems about Readdir: for every directory, every sequence of buffers  *)
(* and every interleaving with changes, a listing is complete and without  *)
(* repeats as far as ListingComplete and NoRepeats promise.                *)
(***************************************************************************)
EXTENDS Readdir, SequenceTheorems, WellFoundedInduction, TLAPS

--------------------------------------------------------------------------------
(* The dirents of a directory, block after block *)

(* A set of numbers has a least one. *)
LEMMA LeastNat ==
    ASSUME NEW S \in SUBSET Nat, S # {}
    PROVE  \E m \in S : \A k \in S : m <= k
<1>1. PICK m \in S : \A k \in S : ~(<<k, m>> \in OpToRel(<, Nat))
  BY WFMin, NatLessThanWellFounded
<1>2. \A k \in S : ~(k < m)
  BY <1>1 DEF OpToRel
<1> QED
  BY <1>2

Blocks == [1 .. NDirect -> Seq(Names)]

(* f[i] holds the dirents of the first i blocks, for the first n blocks. *)
Joined(f, b, n) ==
    f = [i \in 1 .. n |-> IF i = 1 THEN b[i] ELSE f[i - 1] \o b[i]]

(* A solution of the equation is a function to sequences of names. *)
LEMMA JoinedType ==
    ASSUME NEW b \in Blocks, NEW n \in 1 .. NDirect, NEW f, Joined(f, b, n)
    PROVE  \A i \in 1 .. n : f[i] \in Seq(Names)
<1> DEFINE Bad == {i \in 1 .. n : f[i] \notin Seq(Names)}
<1> SUFFICES ASSUME Bad # {} PROVE FALSE
  OBVIOUS
<1> n \in Nat /\ n <= NDirect /\ NDirect \in Nat
  BY ReaddirAssumption
<1>0. Bad \in SUBSET Nat
  OBVIOUS
<1>1. PICK m \in Bad : \A k \in Bad : m <= k
  <2> HIDE DEF Bad
  <2> QED
    BY <1>0, LeastNat
<1>2. m \in 1 .. n /\ f[m] \notin Seq(Names) /\ b[m] \in Seq(Names)
  BY <1>1 DEF Blocks
<1>3. f[m] = IF m = 1 THEN b[m] ELSE f[m - 1] \o b[m]
  BY <1>2 DEF Joined
<1>4. m # 1 /\ m - 1 \in 1 .. n
  BY <1>2, <1>3
<1>5. f[m - 1] \in Seq(Names)
  BY <1>1, <1>4
<1> QED
  BY <1>2, <1>3, <1>4, <1>5, ConcatProperties

(* The equation has a solution. *)
LEMMA JoinedExist ==
    ASSUME NEW b \in Blocks
    PROVE  \E f : Joined(f, b, NDirect)
<1> DEFINE Bad == {n \in 1 .. NDirect : ~ \E f : Joined(f, b, n)}
<1> NDirect \in Nat /\ NDirect >= 1
  BY ReaddirAssumption
<1> SUFFICES ASSUME Bad # {} PROVE FALSE
  OBVIOUS
<1>0. Bad \in SUBSET Nat
  OBVIOUS
<1>1. PICK m \in Bad : \A k \in Bad : m <= k
  <2> HIDE DEF Bad
  <2> QED
    BY <1>0, LeastNat
<1>2. CASE m = 1
  <2> DEFINE f == [i \in 1 .. 1 |-> b[i]]
  <2>1. f = [i \in 1 .. 1 |-> IF i = 1 THEN b[i] ELSE f[i - 1] \o b[i]]
    OBVIOUS
  <2>2. Joined(f, b, m)
    BY <2>1, <1>2 DEF Joined
  <2> QED
    BY <1>1, <2>2
<1>3. CASE m # 1
  <2>1. m - 1 \in 1 .. NDirect /\ m - 1 \notin Bad /\ m \in Nat
    BY <1>1, <1>3
  <2>2. PICK g : Joined(g, b, m - 1)
    BY <2>1
  <2> DEFINE f == [i \in 1 .. m |-> IF i = m THEN g[m - 1] \o b[m] ELSE g[i]]
  <2>3. ASSUME NEW i \in 1 .. m
        PROVE  f[i] = IF i = 1 THEN b[i] ELSE f[i - 1] \o b[i]
    <3>1. CASE i = m
      <4>1. f[i - 1] = g[m - 1]
        BY <3>1, <2>1, <1>3
      <4> QED
        BY <4>1, <3>1, <1>3
    <3>2. CASE i # m
      <4>1. i \in 1 .. m - 1 /\ f[i] = g[i]
        BY <3>2, <2>1
      <4>2. g[i] = IF i = 1 THEN b[i] ELSE g[i - 1] \o b[i]
        BY <4>1, <2>2 DEF Joined
      <4>3. i # 1 => f[i - 1] = g[i - 1]
        BY <4>1, <2>1
      <4> QED
        BY <4>1, <4>2, <4>3
    <3> QED
      BY <3>1, <3>2
  <2>4. f = [i \in 1 .. m |-> f[i]]
    OBVIOUS
  <2> HIDE DEF f
  <2>5. f = [i \in 1 .. m |-> IF i = 1 THEN b[i] ELSE f[i - 1] \o b[i]]
    BY <2>3, <2>4
  <2>6. Joined(f, b, m)
    BY <2>5 DEF Joined
  <2> QED
    BY <1>1, <2>6
<1> QED
  BY <1>2, <1>3

(* FlattenSeq gives the last value of a solution. *)
LEMMA Flattened ==
    ASSUME NEW b \in Blocks
    PROVE  \E f : Joined(f, b, NDirect) /\ FlattenSeq(b) = f[NDirect]
<1> NDirect \in Nat /\ NDirect >= 1
  BY ReaddirAssumption
<1>1. Len(b) = NDirect
  BY DEF Blocks
<1> DEFINE F == CHOOSE f : Joined(f, b, NDirect)
<1>2. Joined(F, b, NDirect)
  BY JoinedExist
<1>3. FlattenSeq(b) = F[NDirect]
  BY <1>1 DEF FlattenSeq, Joined
<1> QED
  BY <1>2, <1>3

(* Concatenation, element by element. *)
LEMMA ConcatAt ==
    ASSUME NEW x \in Seq(Names), NEW y \in Seq(Names)
    PROVE  /\ x \o y \in Seq(Names) /\ Len(x \o y) = Len(x) + Len(y)
           /\ \A i \in 1 .. Len(x) : (x \o y)[i] = x[i]
           /\ \A i \in Len(x) + 1 .. Len(x) + Len(y) : (x \o y)[i] = y[i - Len(x)]
BY ConcatProperties

LEMMA ConcatMoves ==
    ASSUME NEW x \in Seq(Names), NEW y \in Seq(Names), NEW z \in Seq(Names)
    PROVE  (x \o y) \o z = x \o (y \o z)
BY ConcatAssociative

(* Changing block k changes the middle of the dirents. *)
LEMMA Splice ==
    ASSUME NEW b \in Blocks, NEW k \in 1 .. NDirect, NEW c \in Seq(Names)
    PROVE  \E x, y \in Seq(Names) :
              /\ FlattenSeq(b) = (x \o b[k]) \o y
              /\ FlattenSeq([b EXCEPT ![k] = c]) = (x \o c) \o y
<1> NDirect \in Nat /\ NDirect >= 1 /\ k \in Nat /\ k >= 1 /\ k <= NDirect
  BY ReaddirAssumption
<1> DEFINE e == [b EXCEPT ![k] = c]
<1>1. e \in Blocks /\ e[k] = c /\ \A i \in 1 .. NDirect : i # k => e[i] = b[i]
  BY DEF Blocks
<1> HIDE DEF e
<1>2. PICK f : Joined(f, b, NDirect) /\ FlattenSeq(b) = f[NDirect]
  BY Flattened
<1>3. PICK g : Joined(g, e, NDirect) /\ FlattenSeq(e) = g[NDirect]
  BY <1>1, Flattened
<1>4. \A i \in 1 .. NDirect : f[i] \in Seq(Names) /\ g[i] \in Seq(Names)
  BY <1>1, <1>2, <1>3, JoinedType
<1>5. \A i \in 1 .. NDirect : /\ f[i] = IF i = 1 THEN b[i] ELSE f[i - 1] \o b[i]
                              /\ g[i] = IF i = 1 THEN e[i] ELSE g[i - 1] \o e[i]
  BY <1>2, <1>3 DEF Joined
<1>6. \A i \in 1 .. NDirect : b[i] \in Seq(Names) /\ e[i] \in Seq(Names)
  BY <1>1 DEF Blocks
<1>7. \A i \in 1 .. NDirect : i < k => g[i] = f[i]
  <2> DEFINE Bad == {i \in 1 .. NDirect : i < k /\ g[i] # f[i]}
  <2> SUFFICES ASSUME Bad # {} PROVE FALSE
    OBVIOUS
  <2>1. Bad \in SUBSET Nat
    OBVIOUS
  <2>2. PICK m \in Bad : \A j \in Bad : m <= j
    <3> HIDE DEF Bad
    <3> QED
      BY <2>1, LeastNat
  <2>3. m \in 1 .. NDirect /\ m < k /\ g[m] # f[m] /\ e[m] = b[m]
    BY <2>2, <1>1
  <2>4. m # 1
    BY <2>3, <1>5
  <2>5. m - 1 \in 1 .. NDirect /\ m - 1 < k /\ m - 1 \notin Bad
    BY <2>2, <2>3, <2>4
  <2>6. g[m - 1] = f[m - 1]
    BY <2>5
  <2> QED
    BY <2>3, <2>4, <2>6, <1>5
<1> DEFINE x == IF k = 1 THEN << >> ELSE f[k - 1]
<1>8. x \in Seq(Names) /\ f[k] = x \o b[k] /\ g[k] = x \o c
  <2>1. CASE k = 1
    <3>1. f[k] = b[k] /\ g[k] = c
      BY <2>1, <1>5, <1>1
    <3>2. x = << >> /\ << >> \in Seq(Names) /\ << >> \o b[k] = b[k] /\ << >> \o c = c
      BY <2>1, <1>6, ConcatEmptySeq, EmptySeq
    <3> QED
      BY <3>1, <3>2
  <2>2. CASE k # 1
    <3>1. k - 1 \in 1 .. NDirect /\ k - 1 < k
      BY <2>2
    <3>2. x = f[k - 1] /\ g[k - 1] = f[k - 1] /\ f[k - 1] \in Seq(Names)
      BY <2>2, <3>1, <1>7, <1>4
    <3> QED
      BY <3>2, <2>2, <1>5, <1>1
  <2> QED
    BY <2>1, <2>2
<1> HIDE DEF x
<1> DEFINE Same(i) == \E y \in Seq(Names) : f[i] = (x \o b[k]) \o y /\ g[i] = (x \o c) \o y
<1>9. \A i \in 1 .. NDirect : i >= k => Same(i)
  <2> DEFINE Bad == {i \in 1 .. NDirect : i >= k /\ ~Same(i)}
  <2> HIDE DEF Same
  <2> SUFFICES ASSUME Bad # {} PROVE FALSE
    OBVIOUS
  <2>1. Bad \in SUBSET Nat
    OBVIOUS
  <2>2. PICK m \in Bad : \A j \in Bad : m <= j
    <3> HIDE DEF Bad
    <3> QED
      BY <2>1, LeastNat
  <2>3. m \in 1 .. NDirect /\ m >= k /\ ~Same(m)
    BY <2>2
  <2>4. Same(k)
    <3>1. << >> \in Seq(Names) /\ f[k] = f[k] \o << >> /\ g[k] = g[k] \o << >>
      BY <1>4, ConcatEmptySeq, EmptySeq
    <3> QED
      BY <3>1, <1>8 DEF Same
  <2>5. m # k
    BY <2>3, <2>4
  <2>6. m - 1 \in 1 .. NDirect /\ m - 1 >= k /\ m - 1 \notin Bad /\ m # 1 /\ e[m] = b[m]
    BY <2>2, <2>3, <2>5, <1>1
  <2>7. Same(m - 1)
    BY <2>6
  <2>8. PICK y \in Seq(Names) : f[m - 1] = (x \o b[k]) \o y /\ g[m - 1] = (x \o c) \o y
    BY <2>7 DEF Same
  <2>9. f[m] = ((x \o b[k]) \o y) \o b[m] /\ g[m] = ((x \o c) \o y) \o b[m]
    BY <2>3, <2>6, <2>8, <1>5
  <2>10. b[m] \in Seq(Names) /\ b[k] \in Seq(Names) /\ y \o b[m] \in Seq(Names)
         /\ x \o b[k] \in Seq(Names) /\ x \o c \in Seq(Names)
    BY <2>3, <2>8, <1>6, <1>8, ConcatProperties
  <2>11. f[m] = (x \o b[k]) \o (y \o b[m]) /\ g[m] = (x \o c) \o (y \o b[m])
    <3> DEFINE u == x \o b[k]
               v == x \o c
               w == b[m]
    <3>1. u \in Seq(Names) /\ v \in Seq(Names) /\ w \in Seq(Names) /\ y \in Seq(Names)
      BY <2>8, <2>10
    <3>2. f[m] = (u \o y) \o w /\ g[m] = (v \o y) \o w
      BY <2>9
    <3> HIDE DEF u, v, w
    <3>3. (u \o y) \o w = u \o (y \o w)
      BY <3>1, ConcatMoves
    <3>4. (v \o y) \o w = v \o (y \o w)
      BY <3>1, ConcatMoves
    <3>5. f[m] = u \o (y \o w) /\ g[m] = v \o (y \o w)
      BY <3>2, <3>3, <3>4
    <3> QED
      BY <3>5 DEF u, v, w
  <2> QED
    <3> DEFINE z == y \o b[m]
    <3> HIDE DEF z
    <3>1. z \in Seq(Names) /\ f[m] = (x \o b[k]) \o z /\ g[m] = (x \o c) \o z
      BY <2>10, <2>11 DEF z
    <3> QED
      BY <2>3, <3>1 DEF Same
<1>10. PICK y \in Seq(Names) : f[NDirect] = (x \o b[k]) \o y /\ g[NDirect] = (x \o c) \o y
  <2> HIDE DEF Same
  <2>1. NDirect \in 1 .. NDirect /\ NDirect >= k
    OBVIOUS
  <2>2. Same(NDirect)
    BY <2>1, <1>9
  <2> QED
    BY <2>2 DEF Same
<1> QED
  BY <1>2, <1>3, <1>8, <1>10 DEF e

(* e is d with name n put in at position p. *)
Inserted(d, e, p, n) ==
    /\ d \in Seq(Names) /\ e \in Seq(Names)
    /\ p \in 1 .. Len(e) /\ Len(e) = Len(d) + 1 /\ e[p] = n
    /\ \A i \in 1 .. Len(d) : i < p => e[i] = d[i]
    /\ \A i \in 1 .. Len(d) : i >= p => e[i + 1] = d[i]

LEMMA InsertedByAppend ==
    ASSUME NEW d \in Seq(Names), NEW n \in Names
    PROVE  Inserted(d, Append(d, n), Len(d) + 1, n)
BY AppendProperties DEF Inserted

LEMMA InsertedByRemove ==
    ASSUME NEW e \in Seq(Names), NEW j \in DOMAIN e
    PROVE  Inserted(RemoveAt(e, j), e, j, e[j])
<1> DEFINE x == SubSeq(e, 1, j - 1)
           y == SubSeq(e, j + 1, Len(e))
<1>0. j \in 1 .. Len(e) /\ Len(e) \in Nat
  OBVIOUS
<1>1. x \in Seq(Names) /\ Len(x) = j - 1 /\ \A i \in 1 .. j - 1 : x[i] = e[i]
  BY <1>0
<1>2. /\ y \in Seq(Names) /\ Len(y) = Len(e) - j
      /\ \A i \in 1 .. Len(e) - j : y[i] = e[j + i]
  BY <1>0
<1>3. RemoveAt(e, j) = x \o y
  BY DEF RemoveAt
<1> HIDE DEF x, y
<1>4. /\ x \o y \in Seq(Names) /\ Len(x \o y) = Len(x) + Len(y)
      /\ \A i \in 1 .. Len(x) : (x \o y)[i] = x[i]
      /\ \A i \in Len(x) + 1 .. Len(x) + Len(y) : (x \o y)[i] = y[i - Len(x)]
  BY <1>1, <1>2, ConcatAt
<1> DEFINE z == x \o y
<1>5. z \in Seq(Names) /\ Len(z) = Len(e) - 1
  BY <1>0, <1>1, <1>2, <1>4
<1>6. ASSUME NEW i \in 1 .. Len(z), i < j PROVE e[i] = z[i]
  BY <1>0, <1>1, <1>4, <1>5, <1>6
<1>7. ASSUME NEW i \in 1 .. Len(z), i >= j PROVE e[i + 1] = z[i]
  <2>1. i \in Len(x) + 1 .. Len(x) + Len(y) /\ i - Len(x) \in 1 .. Len(e) - j
        /\ j + (i - Len(x)) = i + 1
    BY <1>0, <1>1, <1>2, <1>5, <1>7
  <2> QED
    BY <2>1, <1>2, <1>4
<1>8. RemoveAt(e, j) = z
  BY <1>3
<1> HIDE DEF z
<1> QED
  BY <1>0, <1>5, <1>6, <1>7, <1>8 DEF Inserted

LEMMA InsertedInside ==
    ASSUME NEW x \in Seq(Names), NEW y \in Seq(Names), NEW b, NEW c, NEW q, NEW n,
           Inserted(b, c, q, n)
    PROVE  Inserted((x \o b) \o y, (x \o c) \o y, Len(x) + q, n)
<1>0. /\ b \in Seq(Names) /\ c \in Seq(Names) /\ q \in 1 .. Len(c)
      /\ Len(c) = Len(b) + 1 /\ c[q] = n /\ Len(b) \in Nat
      /\ Len(x) \in Nat /\ Len(y) \in Nat
  BY DEF Inserted
<1>1. /\ \A i \in 1 .. Len(b) : i < q => c[i] = b[i]
      /\ \A i \in 1 .. Len(b) : i >= q => c[i + 1] = b[i]
  BY DEF Inserted
<1> DEFINE xb == x \o b
           xc == x \o c
           d == xb \o y
           e == xc \o y
<1>2. /\ xb \in Seq(Names) /\ Len(xb) = Len(x) + Len(b)
      /\ \A i \in 1 .. Len(x) : xb[i] = x[i]
      /\ \A i \in Len(x) + 1 .. Len(x) + Len(b) : xb[i] = b[i - Len(x)]
  BY <1>0, ConcatAt
<1>3. /\ xc \in Seq(Names) /\ Len(xc) = Len(x) + Len(c)
      /\ \A i \in 1 .. Len(x) : xc[i] = x[i]
      /\ \A i \in Len(x) + 1 .. Len(x) + Len(c) : xc[i] = c[i - Len(x)]
  BY <1>0, ConcatAt
<1> HIDE DEF xb, xc
<1>4. /\ d \in Seq(Names) /\ Len(d) = Len(xb) + Len(y)
      /\ \A i \in 1 .. Len(xb) : d[i] = xb[i]
      /\ \A i \in Len(xb) + 1 .. Len(xb) + Len(y) : d[i] = y[i - Len(xb)]
  BY <1>2, ConcatAt
<1>5. /\ e \in Seq(Names) /\ Len(e) = Len(xc) + Len(y)
      /\ \A i \in 1 .. Len(xc) : e[i] = xc[i]
      /\ \A i \in Len(xc) + 1 .. Len(xc) + Len(y) : e[i] = y[i - Len(xc)]
  BY <1>3, ConcatAt
<1> HIDE DEF d, e
<1> DEFINE p == Len(x) + q
<1>6. p \in 1 .. Len(e) /\ Len(e) = Len(d) + 1
  BY <1>0, <1>2, <1>3, <1>4, <1>5
<1>7. e[p] = n
  <2>1. p \in 1 .. Len(xc) /\ p \in Len(x) + 1 .. Len(x) + Len(c) /\ p - Len(x) = q
    BY <1>0, <1>3
  <2> QED
    BY <2>1, <1>0, <1>3, <1>5
<1>8. ASSUME NEW i \in 1 .. Len(d), i < p PROVE e[i] = d[i]
  <2>0. i \in 1 .. Len(xb) /\ i \in 1 .. Len(xc)
    BY <1>0, <1>2, <1>3, <1>4, <1>8
  <2>1. CASE i <= Len(x)
    BY <2>0, <2>1, <1>0, <1>2, <1>3, <1>4, <1>5
  <2>2. CASE i > Len(x)
    <3>1. /\ i \in Len(x) + 1 .. Len(x) + Len(b) /\ i \in Len(x) + 1 .. Len(x) + Len(c)
          /\ i - Len(x) \in 1 .. Len(b) /\ i - Len(x) < q
      BY <2>0, <2>2, <1>0, <1>2, <1>8
    <3> QED
      BY <3>1, <2>0, <1>1, <1>2, <1>3, <1>4, <1>5
  <2> QED
    BY <2>1, <2>2, <1>0
<1>9. ASSUME NEW i \in 1 .. Len(d), i >= p PROVE e[i + 1] = d[i]
  <2>1. CASE i <= Len(xb)
    <3>1. /\ i \in 1 .. Len(xb) /\ i + 1 \in 1 .. Len(xc)
          /\ i \in Len(x) + 1 .. Len(x) + Len(b) /\ i + 1 \in Len(x) + 1 .. Len(x) + Len(c)
          /\ i - Len(x) \in 1 .. Len(b) /\ i - Len(x) >= q
          /\ (i + 1) - Len(x) = (i - Len(x)) + 1
      BY <2>1, <1>0, <1>2, <1>3, <1>4, <1>9
    <3>2. d[i] = b[i - Len(x)] /\ e[i + 1] = c[(i + 1) - Len(x)]
      BY <3>1, <1>2, <1>3, <1>4, <1>5
    <3>3. c[(i - Len(x)) + 1] = b[i - Len(x)]
      BY <3>1, <1>1
    <3> QED
      BY <3>1, <3>2, <3>3
  <2>2. CASE i > Len(xb)
    <3>1. /\ i \in Len(xb) + 1 .. Len(xb) + Len(y)
          /\ i + 1 \in Len(xc) + 1 .. Len(xc) + Len(y)
          /\ (i + 1) - Len(xc) = i - Len(xb)
      BY <2>2, <1>0, <1>2, <1>3, <1>4
    <3> QED
      BY <3>1, <1>4, <1>5
  <2> QED
    BY <2>1, <2>2, <1>0, <1>2
<1>10. Inserted(d, e, p, n)
  <2> HIDE DEF p
  <2> QED
    BY <1>4, <1>5, <1>6, <1>7, <1>8, <1>9 DEF Inserted
<1> QED
  BY <1>10 DEF xb, xc, d, e

(* add_dirent's block is one with a free slot. *)
LEMMA FirstRoom ==
    ASSUME NEW S \in SUBSET Nat, S # {}
    PROVE  First(S) \in S
<1>1. \E i \in S : \A j \in S : i <= j
  BY LeastNat
<1> QED
  BY <1>1 DEF First

(* An entry that is added is put in among the others. *)
LEMMA AddInserts ==
    ASSUME NEW name \in Names, blocks \in Blocks, add_dirent(name)
    PROVE  blocks' \in Blocks /\ \E p : Inserted(Dirents, Dirents', p, name)
<1> DEFINE room == {i \in 1 .. NDirect : Len(blocks[i]) < DirentsPerBlock}
           k == First(room)
<1>1. k \in 1 .. NDirect
  <2>1. room \in SUBSET Nat /\ room # {} /\ room \subseteq 1 .. NDirect
    BY DEF add_dirent
  <2> HIDE DEF room
  <2> QED
    BY <2>1, FirstRoom
<1>2. blocks' = [blocks EXCEPT ![k] = Append(@, name)]
  BY DEF add_dirent
<1> HIDE DEF room, k
<1> DEFINE c == Append(blocks[k], name)
<1>3. blocks[k] \in Seq(Names) /\ c \in Seq(Names)
  BY <1>1 DEF Blocks
<1>4. blocks' = [blocks EXCEPT ![k] = c]
  BY <1>2
<1>5. Inserted(blocks[k], c, Len(blocks[k]) + 1, name)
  BY <1>3, InsertedByAppend
<1> HIDE DEF c
<1>6. blocks' \in Blocks
  BY <1>1, <1>3, <1>4 DEF Blocks
<1>7. PICK x, y \in Seq(Names) :
         /\ FlattenSeq(blocks) = (x \o blocks[k]) \o y
         /\ FlattenSeq([blocks EXCEPT ![k] = c]) = (x \o c) \o y
  BY <1>1, <1>3, Splice
<1>8. Inserted((x \o blocks[k]) \o y, (x \o c) \o y, Len(x) + (Len(blocks[k]) + 1), name)
  BY <1>5, InsertedInside
<1>9. Dirents = (x \o blocks[k]) \o y /\ Dirents' = (x \o c) \o y
  BY <1>4, <1>7 DEF Dirents
<1> QED
  BY <1>6, <1>8, <1>9

(* An entry that is removed was among the others. *)
LEMMA RemoveTakesOut ==
    ASSUME NEW name \in Names, blocks \in Blocks, remove_dirent(name)
    PROVE  blocks' \in Blocks /\ \E p : Inserted(Dirents', Dirents, p, name)
<1>1. PICK k \in 1 .. NDirect : \E j \in DOMAIN blocks[k] :
         blocks[k][j] = name /\ blocks' = [blocks EXCEPT ![k] = RemoveAt(@, j)]
  BY DEF remove_dirent
<1>2. PICK j \in DOMAIN blocks[k] :
         blocks[k][j] = name /\ blocks' = [blocks EXCEPT ![k] = RemoveAt(@, j)]
  BY <1>1
<1> DEFINE c == RemoveAt(blocks[k], j)
<1>3. blocks[k] \in Seq(Names)
  BY <1>1 DEF Blocks
<1>4. blocks' = [blocks EXCEPT ![k] = c]
  BY <1>2
<1>5. Inserted(c, blocks[k], j, name)
  BY <1>2, <1>3, InsertedByRemove
<1> HIDE DEF c
<1>6. c \in Seq(Names) /\ blocks' \in Blocks
  BY <1>1, <1>4, <1>5 DEF Blocks, Inserted
<1>7. PICK x, y \in Seq(Names) :
         /\ FlattenSeq(blocks) = (x \o blocks[k]) \o y
         /\ FlattenSeq([blocks EXCEPT ![k] = c]) = (x \o c) \o y
  BY <1>1, <1>6, Splice
<1>8. Inserted((x \o c) \o y, (x \o blocks[k]) \o y, Len(x) + j, name)
  BY <1>5, InsertedInside
<1>9. Dirents = (x \o blocks[k]) \o y /\ Dirents' = (x \o c) \o y
  BY <1>4, <1>7 DEF Dirents
<1> QED
  BY <1>6, <1>8, <1>9

(* The dirents are a sequence of names. *)
LEMMA DirentsType ==
    ASSUME blocks \in Blocks
    PROVE  Dirents \in Seq(Names)
<1> NDirect \in 1 .. NDirect
  BY ReaddirAssumption
<1>1. PICK f : Joined(f, blocks, NDirect) /\ FlattenSeq(blocks) = f[NDirect]
  BY Flattened
<1> QED
  BY <1>1, JoinedType DEF Dirents

(* A new directory has no dirents. *)
LEMMA NoDirents ==
    ASSUME blocks = [i \in 1 .. NDirect |-> << >>]
    PROVE  blocks \in Blocks /\ Dirents = << >>
<1> NDirect \in Nat /\ NDirect >= 1
  BY ReaddirAssumption
<1>1. blocks \in Blocks /\ \A i \in 1 .. NDirect : blocks[i] = << >>
  BY EmptySeq DEF Blocks
<1>2. PICK f : Joined(f, blocks, NDirect) /\ FlattenSeq(blocks) = f[NDirect]
  BY <1>1, Flattened
<1>3. \A i \in 1 .. NDirect : f[i] = IF i = 1 THEN << >> ELSE f[i - 1] \o << >>
  BY <1>1, <1>2 DEF Joined
<1> DEFINE Bad == {i \in 1 .. NDirect : f[i] # << >>}
<1>4. Bad = {}
  <2> SUFFICES ASSUME Bad # {} PROVE FALSE
    OBVIOUS
  <2>1. Bad \in SUBSET Nat
    OBVIOUS
  <2>2. PICK m \in Bad : \A j \in Bad : m <= j
    <3> HIDE DEF Bad
    <3> QED
      BY <2>1, LeastNat
  <2>3. m \in 1 .. NDirect /\ f[m] # << >> /\ m # 1
    BY <2>2, <1>3
  <2>4. m - 1 \in 1 .. NDirect /\ m - 1 \notin Bad
    BY <2>2, <2>3
  <2>5. f[m] = << >> \o << >>
    BY <2>3, <2>4, <1>3
  <2>6. << >> \o << >> = << >>
    BY EmptySeq, ConcatEmptySeq
  <2> QED
    BY <2>3, <2>5, <2>6
<1>5. f[NDirect] = << >>
  BY <1>4
<1> QED
  BY <1>1, <1>2, <1>5 DEF Dirents

--------------------------------------------------------------------------------
(* The inductive invariant *)

TypeOK ==
    /\ blocks \in Blocks
    /\ pos \in Nat /\ got \in Seq(Names \cup {".", ".."})
    /\ stayed \in SUBSET Names /\ ended \in BOOLEAN
    /\ seen \in SUBSET {"added", "removed", "tight"}

Distinct(s) == \A i, j \in DOMAIN s : s[i] = s[j] => i = j

(* The dots come first, once; until ctx->pos has passed them nothing else. *)
DotsFirst ==
    /\ pos = 0 => got = << >>
    /\ pos = 1 => got = <<".">>
    /\ pos = 2 => got = <<".", "..">>
    /\ pos >= 2 => Len(got) >= 2 /\ got[1] = "." /\ got[2] = ".."
    /\ \A i \in DOMAIN got : i > 2 => got[i] \in Names

(* A later call will scan the dirent at position i. *)
Ahead(i) == i > pos - 2

(* While no entry was added behind ctx->pos, what was listed was listed    *)
(* once and is not ahead.                                                  *)
ListedOnce ==
    "added" \notin seen =>
        /\ Distinct(got)
        /\ \A i \in DOMAIN Dirents, j \in DOMAIN got : Ahead(i) => Dirents[i] # got[j]

Listed(n) == \E j \in DOMAIN got : got[j] = n

(* Nothing happened that lets ctx->pos pass over an entry. *)
Clean == "removed" \notin seen /\ "tight" \notin seen

(* A name that stayed is in the directory and, while nothing made ctx->pos *)
(* pass over an entry, listed or ahead; after a call that returned nothing *)
(* it is listed.                                                           *)
StayedKept ==
    /\ \A n \in stayed : \E i \in DOMAIN Dirents : Dirents[i] = n
    /\ Clean => \A n \in stayed :
                   Listed(n) \/ \E i \in DOMAIN Dirents : Ahead(i) /\ Dirents[i] = n
    /\ ended => pos >= 2 /\ (Clean => \A n \in stayed : Listed(n))

IndInv == TypeOK /\ Distinct(Dirents) /\ DotsFirst /\ ListedOnce /\ StayedKept

--------------------------------------------------------------------------------
(* What an insertion does to positions *)

LEMMA InsertedUp ==
    ASSUME NEW d, NEW e, NEW p, NEW n, Inserted(d, e, p, n), NEW i \in DOMAIN d
    PROVE  \E j \in DOMAIN e : /\ e[j] = d[i] /\ i \in Nat /\ j \in Nat
                               /\ j = IF i < p THEN i ELSE i + 1
<1>1. /\ d \in Seq(Names) /\ e \in Seq(Names) /\ Len(e) = Len(d) + 1 /\ p \in 1 .. Len(e)
      /\ \A k \in 1 .. Len(d) : k < p => e[k] = d[k]
      /\ \A k \in 1 .. Len(d) : k >= p => e[k + 1] = d[k]
  BY DEF Inserted
<1>2. DOMAIN d = 1 .. Len(d) /\ DOMAIN e = 1 .. Len(e) /\ Len(d) \in Nat
  BY <1>1
<1>3. CASE i < p
  BY <1>1, <1>2, <1>3
<1>4. CASE i >= p
  BY <1>1, <1>2, <1>4
<1> QED
  BY <1>1, <1>2, <1>3, <1>4

LEMMA InsertedDown ==
    ASSUME NEW d, NEW e, NEW p, NEW n, Inserted(d, e, p, n), NEW j \in DOMAIN e, j # p
    PROVE  \E i \in DOMAIN d : /\ d[i] = e[j] /\ i \in Nat /\ j \in Nat
                               /\ i = IF j < p THEN j ELSE j - 1
<1>1. /\ d \in Seq(Names) /\ e \in Seq(Names) /\ Len(e) = Len(d) + 1 /\ p \in 1 .. Len(e)
      /\ \A k \in 1 .. Len(d) : k < p => e[k] = d[k]
      /\ \A k \in 1 .. Len(d) : k >= p => e[k + 1] = d[k]
  BY DEF Inserted
<1>2. DOMAIN d = 1 .. Len(d) /\ DOMAIN e = 1 .. Len(e) /\ Len(d) \in Nat
  BY <1>1
<1>3. CASE j < p
  BY <1>1, <1>2, <1>3
<1>4. CASE j > p
  <2>1. j - 1 \in 1 .. Len(d) /\ j - 1 >= p /\ (j - 1) + 1 = j
    BY <1>1, <1>2, <1>4
  <2>2. e[(j - 1) + 1] = d[j - 1]
    BY <2>1, <1>1
  <2> QED
    BY <2>1, <2>2, <1>2, <1>4, <1>1
<1> QED
  BY <1>1, <1>2, <1>3, <1>4

LEMMA InsertedPlace ==
    ASSUME NEW d, NEW e, NEW p, NEW n, Inserted(d, e, p, n)
    PROVE  p \in DOMAIN e /\ p \in Nat /\ e[p] = n
BY DEF Inserted

LEMMA DistinctBack ==
    ASSUME NEW d, NEW e, NEW p, NEW n, Inserted(d, e, p, n), Distinct(e)
    PROVE  Distinct(d)
<1> SUFFICES ASSUME NEW i \in DOMAIN d, NEW k \in DOMAIN d, d[i] = d[k] PROVE i = k
  BY DEF Distinct
<1>1. PICK j \in DOMAIN e : e[j] = d[i] /\ i \in Nat /\ j = IF i < p THEN i ELSE i + 1
  BY InsertedUp
<1>2. PICK l \in DOMAIN e : e[l] = d[k] /\ k \in Nat /\ l = IF k < p THEN k ELSE k + 1
  BY InsertedUp
<1>3. j = l
  BY <1>1, <1>2 DEF Distinct
<1> QED
  BY <1>1, <1>2, <1>3, InsertedPlace

LEMMA DistinctForth ==
    ASSUME NEW d, NEW e, NEW p, NEW n, Inserted(d, e, p, n), Distinct(d),
           \A i \in DOMAIN d : d[i] # n
    PROVE  Distinct(e)
<1> SUFFICES ASSUME NEW j \in DOMAIN e, NEW l \in DOMAIN e, e[j] = e[l] PROVE j = l
  BY DEF Distinct
<1>0. p \in Nat /\ e[p] = n
  BY InsertedPlace
<1>1. CASE j = p \/ l = p
  <2>1. e[j] = n /\ e[l] = n
    BY <1>0, <1>1
  <2>2. ASSUME j # p PROVE FALSE
    BY <2>1, <2>2, InsertedDown
  <2>3. ASSUME l # p PROVE FALSE
    BY <2>1, <2>3, InsertedDown
  <2> QED
    BY <2>2, <2>3
<1>2. CASE j # p /\ l # p
  <2>1. PICK i \in DOMAIN d : d[i] = e[j] /\ j \in Nat /\ i = IF j < p THEN j ELSE j - 1
    BY <1>2, InsertedDown
  <2>2. PICK k \in DOMAIN d : d[k] = e[l] /\ l \in Nat /\ k = IF l < p THEN l ELSE l - 1
    BY <1>2, InsertedDown
  <2>3. i = k
    BY <2>1, <2>2 DEF Distinct
  <2> QED
    BY <2>1, <2>2, <2>3, <1>0, <1>2
<1> QED
  BY <1>1, <1>2

--------------------------------------------------------------------------------
(* The steps *)

LEMMA InitInv ==
    ASSUME Init
    PROVE  IndInv
<1>1. blocks \in Blocks /\ Dirents = << >>
  BY NoDirents DEF Init
<1>2. pos = 0 /\ got = << >> /\ stayed = {} /\ ended = FALSE /\ seen = {}
  BY DEF Init
<1>3. TypeOK
  BY <1>1, <1>2, EmptySeq DEF TypeOK
<1>4. Distinct(Dirents) /\ Distinct(got)
  BY <1>1, <1>2 DEF Distinct
<1> QED
  BY <1>1, <1>2, <1>3, <1>4 DEF IndInv, DotsFirst, ListedOnce, StayedKept

(* What was listed before ctx->pos passed the dots is dots. *)
LEMMA OnlyDots ==
    ASSUME IndInv, pos <= 2, NEW j \in DOMAIN got
    PROVE  got[j] \notin Names
<1>1. pos = 0 \/ pos = 1 \/ pos = 2
  BY DEF IndInv, TypeOK
<1>2. "." \notin Names /\ ".." \notin Names
  BY ReaddirAssumption
<1>3. CASE pos = 0
  <2>1. got = << >>
    BY <1>3 DEF IndInv, DotsFirst
  <2> QED
    BY <2>1
<1>4. CASE pos = 1
  <2>1. got = <<".">>
    BY <1>4 DEF IndInv, DotsFirst
  <2>2. j = 1
    BY <2>1
  <2> QED
    BY <2>1, <2>2, <1>2
<1>5. CASE pos = 2
  <2>1. got = <<".", "..">>
    BY <1>5 DEF IndInv, DotsFirst
  <2>2. j = 1 \/ j = 2
    BY <2>1
  <2> QED
    BY <2>1, <2>2, <1>2
<1> QED
  BY <1>1, <1>3, <1>4, <1>5

LEMMA AddKeeps ==
    ASSUME IndInv, NEW name \in Names, add_dirent(name)
    PROVE  IndInv'
<1>1. blocks \in Blocks /\ Distinct(Dirents) /\ pos \in Nat
  BY DEF IndInv, TypeOK
<1>2. /\ pos' = pos /\ got' = got /\ stayed' = stayed /\ ended' = ended
      /\ seen' = IF pos > 2 THEN seen \cup {"added"} ELSE seen
      /\ name \notin Present
  BY DEF add_dirent, Changed, Dots
<1>3. blocks' \in Blocks
  BY <1>1, AddInserts
<1>4. PICK p : Inserted(Dirents, Dirents', p, name)
  BY <1>1, AddInserts
<1>5. TypeOK'
  BY <1>2, <1>3 DEF IndInv, TypeOK
<1>6. Distinct(Dirents)'
  <2>1. \A i \in DOMAIN Dirents : Dirents[i] # name
    BY <1>2 DEF Present
  <2> QED
    BY <1>1, <1>4, <2>1, DistinctForth DEF Distinct
<1>7. DotsFirst'
  BY <1>2 DEF IndInv, DotsFirst
<1>8. ListedOnce'
  <2> SUFFICES ASSUME "added" \notin seen' PROVE ListedOnce'
    BY DEF ListedOnce
  <2>1. pos <= 2 /\ "added" \notin seen
    BY <1>1, <1>2
  <2>2. Distinct(got)'
    BY <2>1, <1>2 DEF IndInv, ListedOnce, Distinct
  <2>3. ASSUME NEW i \in DOMAIN Dirents', NEW j \in DOMAIN got' PROVE Dirents'[i] # got'[j]
    <3>1. Dirents' \in Seq(Names)
      BY <1>4 DEF Inserted
    <3>2. Dirents'[i] \in Names
      BY <3>1
    <3> QED
      BY <2>1, <3>2, <1>2, OnlyDots
  <2> QED
    BY <2>2, <2>3 DEF ListedOnce
<1>9. StayedKept'
  <2>1. ASSUME NEW n \in stayed' PROVE \E i \in DOMAIN Dirents' : Dirents'[i] = n
    <3>1. PICK k \in DOMAIN Dirents : Dirents[k] = n
      BY <1>2 DEF IndInv, StayedKept
    <3> QED
      BY <3>1, <1>4, InsertedUp
  <2>2. ASSUME Clean' PROVE Clean
    BY <1>2, <2>2 DEF Clean
  <2>3. ASSUME Clean', NEW n \in stayed'
        PROVE  Listed(n)' \/ \E i \in DOMAIN Dirents' : Ahead(i)' /\ Dirents'[i] = n
    <3>1. CASE Listed(n)
      BY <3>1, <1>2 DEF Listed
    <3>2. CASE ~Listed(n)
      <4>1. PICK k \in DOMAIN Dirents : Ahead(k) /\ Dirents[k] = n
        BY <3>2, <2>2, <2>3, <1>2 DEF IndInv, StayedKept
      <4>2. PICK i \in DOMAIN Dirents' : /\ Dirents'[i] = Dirents[k] /\ k \in Nat
                                         /\ i = IF k < p THEN k ELSE k + 1
        BY <1>4, InsertedUp
      <4>3. Ahead(i)'
        BY <4>1, <4>2, <1>1, <1>2 DEF Ahead
      <4> QED
        BY <4>1, <4>2, <4>3
    <3> QED
      BY <3>1, <3>2
  <2>4. ASSUME ended' PROVE pos' >= 2 /\ (Clean' => \A n \in stayed' : Listed(n)')
    BY <2>2, <2>4, <1>2 DEF IndInv, StayedKept, Listed
  <2> QED
    BY <2>1, <2>3, <2>4 DEF StayedKept
<1> QED
  BY <1>5, <1>6, <1>7, <1>8, <1>9 DEF IndInv

LEMMA RemoveKeeps ==
    ASSUME IndInv, NEW name \in Names, remove_dirent(name)
    PROVE  IndInv'
<1>1. blocks \in Blocks /\ Distinct(Dirents) /\ pos \in Nat
  BY DEF IndInv, TypeOK
<1>2. /\ pos' = pos /\ got' = got /\ stayed' = stayed \ {name} /\ ended' = ended
      /\ seen' = IF pos > 2 THEN seen \cup {"removed"} ELSE seen
  BY DEF remove_dirent, Changed, Dots
<1>3. blocks' \in Blocks
  BY <1>1, RemoveTakesOut
<1>4. PICK p : Inserted(Dirents', Dirents, p, name)
  BY <1>1, RemoveTakesOut
<1>5. TypeOK'
  BY <1>2, <1>3 DEF IndInv, TypeOK
<1>6. Distinct(Dirents)'
  BY <1>1, <1>4, DistinctBack DEF Distinct
<1>7. DotsFirst'
  BY <1>2 DEF IndInv, DotsFirst
<1>8. ListedOnce'
  <2> SUFFICES ASSUME "added" \notin seen' PROVE ListedOnce'
    BY DEF ListedOnce
  <2>1. "added" \notin seen
    BY <1>2
  <2>2. Distinct(got)'
    BY <2>1, <1>2 DEF IndInv, ListedOnce, Distinct
  <2>3. ASSUME NEW i \in DOMAIN Dirents', NEW j \in DOMAIN got', Ahead(i)'
        PROVE  Dirents'[i] # got'[j]
    <3>1. PICK k \in DOMAIN Dirents : /\ Dirents[k] = Dirents'[i] /\ i \in Nat
                                      /\ k = IF i < p THEN i ELSE i + 1
      BY <1>4, InsertedUp
    <3>2. Ahead(k)
      BY <2>3, <3>1, <1>1, <1>2 DEF Ahead
    <3> QED
      BY <2>1, <3>1, <3>2, <1>2 DEF IndInv, ListedOnce
  <2> QED
    BY <2>2, <2>3 DEF ListedOnce
<1>9. StayedKept'
  <2>1. ASSUME NEW n \in stayed'
        PROVE  \E i \in DOMAIN Dirents' : i \in Nat /\ i >= 1 /\ Dirents'[i] = n
    <3>1. PICK k \in DOMAIN Dirents : Dirents[k] = n
      BY <1>2 DEF IndInv, StayedKept
    <3>2. k # p
      BY <3>1, <1>2, <1>4, InsertedPlace
    <3>3. PICK i \in DOMAIN Dirents' : Dirents'[i] = Dirents[k] /\ i \in Nat
      BY <3>2, <1>4, InsertedDown
    <3>4. Dirents' \in Seq(Names)
      BY <1>4 DEF Inserted
    <3> QED
      BY <3>1, <3>3, <3>4
  <2>2. ASSUME Clean' PROVE Clean /\ pos <= 2
    BY <1>1, <1>2, <2>2 DEF Clean
  <2>3. ASSUME Clean', NEW n \in stayed'
        PROVE  \E i \in DOMAIN Dirents' : Ahead(i)' /\ Dirents'[i] = n
    <3>1. PICK i \in DOMAIN Dirents' : i \in Nat /\ i >= 1 /\ Dirents'[i] = n
      BY <2>1
    <3>2. Ahead(i)'
      BY <2>2, <2>3, <3>1, <1>1, <1>2 DEF Ahead
    <3> QED
      BY <3>1, <3>2
  <2>4. ASSUME ended' PROVE pos' >= 2 /\ (Clean' => \A n \in stayed' : Listed(n)')
    BY <2>2, <2>4, <1>2 DEF IndInv, StayedKept, Listed
  <2> QED
    BY <2>1, <2>3, <2>4 DEF StayedKept
<1> QED
  BY <1>5, <1>6, <1>7, <1>8, <1>9 DEF IndInv

LEMMA RewindKeeps ==
    ASSUME IndInv, Rewind
    PROVE  IndInv'
<1>1. /\ pos' = 0 /\ got' = << >> /\ ended' = FALSE /\ seen' = {}
      /\ stayed' = Present /\ blocks' = blocks /\ Dirents' = Dirents
  BY DEF Rewind, Dirents
<1>2. Dirents \in Seq(Names) /\ blocks \in Blocks
  BY DirentsType DEF IndInv, TypeOK
<1>3. DOMAIN Dirents = 1 .. Len(Dirents) /\ Len(Dirents) \in Nat /\ Present \in SUBSET Names
  BY <1>2 DEF Present
<1>4. TypeOK'
  BY <1>1, <1>2, <1>3, EmptySeq DEF TypeOK
<1>5. Distinct(Dirents)' /\ Distinct(got)'
  BY <1>1 DEF IndInv, Distinct
<1>6. DotsFirst'
  BY <1>1 DEF DotsFirst
<1>7. ListedOnce'
  BY <1>1, <1>5 DEF ListedOnce
<1>8. ASSUME NEW n \in stayed' PROVE \E i \in DOMAIN Dirents' : Ahead(i)' /\ Dirents'[i] = n
  BY <1>1, <1>3 DEF Present, Ahead
<1> QED
  BY <1>1, <1>4, <1>5, <1>6, <1>7, <1>8 DEF IndInv, StayedKept

(* Concatenation of sequences of any elements, element by element. *)
LEMMA ConcatItems ==
    ASSUME NEW S, NEW x \in Seq(S), NEW y \in Seq(S)
    PROVE  /\ x \o y \in Seq(S) /\ Len(x \o y) = Len(x) + Len(y)
           /\ \A i \in 1 .. Len(x) : (x \o y)[i] = x[i]
           /\ \A i \in 1 .. Len(y) : (x \o y)[Len(x) + i] = y[i]
<1>1. /\ x \o y \in Seq(S) /\ Len(x \o y) = Len(x) + Len(y)
      /\ \A i \in 1 .. Len(x) + Len(y) :
            (x \o y)[i] = IF i <= Len(x) THEN x[i] ELSE y[i - Len(x)]
  BY ConcatProperties
<1>2. Len(x) \in Nat /\ Len(y) \in Nat
  OBVIOUS
<1>3. ASSUME NEW i \in 1 .. Len(x) PROVE (x \o y)[i] = x[i]
  BY <1>1, <1>2
<1>4. ASSUME NEW i \in 1 .. Len(y) PROVE (x \o y)[Len(x) + i] = y[i]
  <2>1. Len(x) + i \in 1 .. Len(x) + Len(y) /\ ~(Len(x) + i <= Len(x))
        /\ (Len(x) + i) - Len(x) = i
    BY <1>2
  <2> QED
    BY <1>1, <2>1
<1> QED
  BY <1>1, <1>3, <1>4

Items == Names \cup {".", ".."}

LEMMA ItemsConcat ==
    ASSUME NEW x \in Seq(Items), NEW y \in Seq(Items)
    PROVE  /\ x \o y \in Seq(Items) /\ Len(x \o y) = Len(x) + Len(y)
           /\ \A i \in 1 .. Len(x) : (x \o y)[i] = x[i]
           /\ \A i \in 1 .. Len(y) : (x \o y)[Len(x) + i] = y[i]
BY ConcatItems

LEMMA ItemsConcatMoves ==
    ASSUME NEW x \in Seq(Items), NEW y \in Seq(Items), NEW z \in Seq(Items)
    PROVE  (x \o y) \o z = x \o (y \o z)
BY ConcatAssociative

(* The parts of the invariant about a listing g and a position q. *)
DotsIn(g, q) ==
    /\ q = 0 => g = << >>
    /\ q = 1 => g = <<".">>
    /\ q = 2 => g = <<".", "..">>
    /\ q >= 2 => Len(g) >= 2 /\ g[1] = "." /\ g[2] = ".."
    /\ \A i \in DOMAIN g : i > 2 => g[i] \in Names

Fresh(g, q) ==
    /\ Distinct(g)
    /\ \A i \in DOMAIN Dirents, j \in DOMAIN g : i > q - 2 => Dirents[i] # g[j]

Found(g, q) ==
    \A n \in stayed : \/ \E j \in DOMAIN g : g[j] = n
                      \/ \E i \in DOMAIN Dirents : i > q - 2 /\ Dirents[i] = n

Good(g, q) ==
    /\ g \in Seq(Items) /\ q \in Nat
    /\ DotsIn(g, q)
    /\ "added" \notin seen => Fresh(g, q)
    /\ Clean => Found(g, q)

LEMMA GoodNow ==
    ASSUME IndInv
    PROVE  Good(got, pos)
BY DEF IndInv, TypeOK, Good, Items, DotsFirst, DotsIn, ListedOnce, Fresh, StayedKept,
       Found, Listed, Ahead

(* The dots that dir_emit_dots emits at position q with room for cap. *)
Fit(q, cap) ==
    LET dots == SubSeq(Dots, q + 1, 2)
    IN  SubSeq(dots, 1, IF cap < Len(dots) THEN cap ELSE Len(dots))

DotNames == {".", ".."}

LEMMA Singleton ==
    ASSUME NEW s \in Seq(DotNames), NEW a, Len(s) = 1, s[1] = a
    PROVE  s = <<a>>
OBVIOUS

LEMMA Pair ==
    ASSUME NEW s \in Seq(DotNames), NEW a, NEW b, Len(s) = 2, s[1] = a, s[2] = b
    PROVE  s = <<a, b>>
OBVIOUS

LEMMA FitCases ==
    ASSUME NEW q \in Nat, NEW cap \in Nat, cap >= 1
    PROVE  \/ q = 0 /\ cap = 1 /\ Fit(q, cap) = <<".">>
           \/ q = 0 /\ cap >= 2 /\ Fit(q, cap) = <<".", "..">>
           \/ q = 1 /\ Fit(q, cap) = <<"..">>
           \/ q >= 2 /\ Fit(q, cap) = << >>
<1> DEFINE dots == SubSeq(Dots, q + 1, 2)
           m == IF cap < Len(dots) THEN cap ELSE Len(dots)
<1>1. Dots \in Seq(DotNames) /\ Len(Dots) = 2 /\ Dots[1] = "." /\ Dots[2] = ".."
  BY DEF Dots, DotNames
<1>2. CASE q >= 2
  <2>1. dots \in Seq(DotNames) /\ Len(dots) = 0
    BY <1>1, <1>2
  <2> HIDE DEF dots
  <2>2. m = 0 /\ SubSeq(dots, 1, 0) \in Seq(DotNames) /\ Len(SubSeq(dots, 1, 0)) = 0
    BY <2>1
  <2>3. SubSeq(dots, 1, m) = << >>
    BY <2>2
  <2> QED
    BY <1>2, <2>3 DEF Fit, dots
<1>3. CASE q = 1
  <2>0. q + 1 = 2
    BY <1>3
  <2>1. dots \in Seq(DotNames) /\ Len(dots) = 1 /\ dots[1] = ".."
    <3>1. dots = SubSeq(Dots, 2, 2)
      BY <2>0
    <3>2. /\ SubSeq(Dots, 2, 2) \in Seq(DotNames) /\ Len(SubSeq(Dots, 2, 2)) = 1
          /\ SubSeq(Dots, 2, 2)[1] = Dots[2]
      BY <1>1
    <3> QED
      BY <1>1, <3>1, <3>2
  <2> HIDE DEF dots
  <2>2. m = 1
    BY <2>1
  <2>3. /\ SubSeq(dots, 1, m) \in Seq(DotNames) /\ Len(SubSeq(dots, 1, m)) = 1
        /\ SubSeq(dots, 1, m)[1] = ".."
    BY <2>1, <2>2
  <2>4. SubSeq(dots, 1, m) = <<"..">>
    BY <2>3, Singleton
  <2> QED
    BY <1>3, <2>4 DEF Fit, dots
<1>4. CASE q = 0
  <2>1. dots \in Seq(DotNames) /\ Len(dots) = 2 /\ dots[1] = "." /\ dots[2] = ".."
    BY <1>1, <1>4
  <2> HIDE DEF dots
  <2>2. CASE cap = 1
    <3>1. m = 1
      BY <2>1, <2>2
    <3>2. /\ SubSeq(dots, 1, m) \in Seq(DotNames) /\ Len(SubSeq(dots, 1, m)) = 1
          /\ SubSeq(dots, 1, m)[1] = "."
      BY <2>1, <3>1
    <3>3. SubSeq(dots, 1, m) = <<".">>
      BY <3>2, Singleton
    <3> QED
      BY <1>4, <2>2, <3>3 DEF Fit, dots
  <2>3. CASE cap >= 2
    <3>1. m = 2
      BY <2>1, <2>3
    <3>2. /\ SubSeq(dots, 1, m) \in Seq(DotNames) /\ Len(SubSeq(dots, 1, m)) = 2
          /\ SubSeq(dots, 1, m)[1] = "." /\ SubSeq(dots, 1, m)[2] = ".."
      BY <2>1, <3>1
    <3>3. SubSeq(dots, 1, m) = <<".", "..">>
      BY <3>2, Pair
    <3> QED
      BY <1>4, <2>3, <3>3 DEF Fit, dots
  <2> QED
    BY <2>2, <2>3
<1> QED
  BY <1>2, <1>3, <1>4

(* A listing of dots only is good while ctx->pos is within them. *)
LEMMA GoodDots ==
    ASSUME IndInv, NEW g, NEW q,
           (q = 1 /\ g = <<".">>) \/ (q = 2 /\ g = <<".", "..">>)
    PROVE  Good(g, q)
<1>1. Dirents \in Seq(Names)
  BY DirentsType DEF IndInv, TypeOK
<1>2. \A i \in DOMAIN Dirents : Dirents[i] \in Names /\ i \in Nat /\ i >= 1
  BY <1>1
<1>3. "." \notin Names /\ ".." \notin Names
  BY ReaddirAssumption
<1>4. \A n \in stayed : \E i \in DOMAIN Dirents : Dirents[i] = n
  BY DEF IndInv, StayedKept
<1>5. Found(g, q)
  BY <1>2, <1>4 DEF Found
<1>6. CASE q = 1 /\ g = <<".">>
  <2>1. g \in Seq(Items) /\ Len(g) = 1 /\ DOMAIN g = {1} /\ g[1] = "."
    BY <1>6 DEF Items
  <2>2. DotsIn(g, q)
    BY <1>6, <2>1 DEF DotsIn
  <2>3. Fresh(g, q)
    BY <2>1, <1>2, <1>3 DEF Fresh, Distinct
  <2> QED
    BY <1>5, <1>6, <2>1, <2>2, <2>3 DEF Good
<1>7. CASE q = 2 /\ g = <<".", "..">>
  <2>1. g \in Seq(Items) /\ Len(g) = 2 /\ DOMAIN g = {1, 2} /\ g[1] = "." /\ g[2] = ".."
    BY <1>7 DEF Items
  <2>2. DotsIn(g, q)
    BY <1>7, <2>1 DEF DotsIn
  <2>3. Fresh(g, q)
    BY <2>1, <1>2, <1>3 DEF Fresh, Distinct
  <2> QED
    BY <1>5, <1>7, <2>1, <2>2, <2>3 DEF Good
<1> QED
  BY <1>6, <1>7

(* dir_emit_dots leaves a good listing. *)
LEMMA DotsEmitted ==
    ASSUME IndInv, NEW cap \in Nat, cap >= 1
    PROVE  /\ Good(got \o Fit(pos, cap), pos + Len(Fit(pos, cap)))
           /\ Fit(pos, cap) \in Seq(Items) /\ Len(Fit(pos, cap)) <= cap
           /\ pos < 2 => Len(Fit(pos, cap)) > 0
           /\ pos >= 2 => Fit(pos, cap) = << >>
<1> DEFINE fit == Fit(pos, cap)
<1>0. pos \in Nat /\ got \in Seq(Items)
  BY DEF IndInv, TypeOK, Items
<1>1. \/ pos = 0 /\ cap = 1 /\ fit = <<".">>
      \/ pos = 0 /\ cap >= 2 /\ fit = <<".", "..">>
      \/ pos = 1 /\ fit = <<"..">>
      \/ pos >= 2 /\ fit = << >>
  BY <1>0, FitCases
<1>2. /\ pos = 0 => got = << >>
      /\ pos = 1 => got = <<".">>
  BY DEF IndInv, DotsFirst
<1> HIDE DEF fit
<1>3. CASE pos = 0 /\ cap = 1 /\ fit = <<".">>
  <2>1. fit \in Seq(Items) /\ Len(fit) = 1
    BY <1>3 DEF Items
  <2>2. got \o fit = fit
    BY <2>1, <1>2, <1>3, ConcatEmptySeq
  <2>3. Good(got \o fit, pos + Len(fit))
    BY <2>1, <2>2, <1>3, GoodDots
  <2> QED
    BY <2>1, <2>3, <1>3 DEF fit
<1>4. CASE pos = 0 /\ cap >= 2 /\ fit = <<".", "..">>
  <2>1. fit \in Seq(Items) /\ Len(fit) = 2
    BY <1>4 DEF Items
  <2>2. got \o fit = fit
    BY <2>1, <1>2, <1>4, ConcatEmptySeq
  <2>3. Good(got \o fit, pos + Len(fit))
    BY <2>1, <2>2, <1>4, GoodDots
  <2> QED
    BY <2>1, <2>3, <1>4 DEF fit
<1>5. CASE pos = 1 /\ fit = <<"..">>
  <2>1. fit \in Seq(DotNames) /\ fit \in Seq(Items) /\ Len(fit) = 1 /\ fit[1] = ".."
    BY <1>5 DEF Items, DotNames
  <2>2. got \in Seq(DotNames) /\ Len(got) = 1 /\ got[1] = "."
    BY <1>2, <1>5 DEF DotNames
  <2>3. /\ got \o fit \in Seq(DotNames) /\ Len(got \o fit) = 2
        /\ (got \o fit)[1] = "." /\ (got \o fit)[2] = ".."
    <3>1. /\ got \o fit \in Seq(DotNames) /\ Len(got \o fit) = Len(got) + Len(fit)
          /\ \A i \in 1 .. Len(got) : (got \o fit)[i] = got[i]
          /\ \A i \in 1 .. Len(fit) : (got \o fit)[Len(got) + i] = fit[i]
      BY <2>1, <2>2, ConcatItems
    <3>2. (got \o fit)[1 + 1] = fit[1]
      BY <3>1, <2>1, <2>2
    <3> QED
      BY <3>1, <3>2, <2>1, <2>2
  <2>4. got \o fit = <<".", "..">>
    BY <2>3, Pair
  <2>5. Good(got \o fit, pos + Len(fit))
    BY <2>1, <2>4, <1>5, GoodDots
  <2> QED
    BY <2>1, <2>5, <1>5 DEF fit
<1>6. CASE pos >= 2 /\ fit = << >>
  <2>1. got \o fit = got /\ Len(fit) = 0 /\ fit \in Seq(Items)
    BY <1>0, <1>6, ConcatEmptySeq, EmptySeq
  <2>2. Good(got \o fit, pos + Len(fit))
    BY <2>1, <1>0, GoodNow
  <2> QED
    BY <2>1, <2>2, <1>0, <1>6 DEF fit
<1> QED
  BY <1>1, <1>3, <1>4, <1>5, <1>6

(* The scan from position q on, of which the first m entries fit. *)
LEMMA ScanEmitted ==
    ASSUME IndInv, NEW g, NEW q, Good(g, q), q >= 2, NEW m \in 0 .. Len(Scanned(q))
    PROVE  LET scan == Scanned(q)
               h == g \o SubSeq(scan, 1, m)
               r == q + Len(scan)
           IN  /\ h \in Seq(Items) /\ r \in Nat /\ r >= 2 /\ DotsIn(h, r)
               /\ "added" \notin seen => Fresh(h, r)
               /\ m = Len(scan) /\ Clean =>
                     \A n \in stayed : \E j \in DOMAIN h : h[j] = n
<1> DEFINE d == Dirents
           scan == Scanned(q)
           take == SubSeq(scan, 1, m)
           h == g \o take
           r == q + Len(scan)
<1>1. d \in Seq(Names) /\ Len(d) \in Nat /\ DOMAIN d = 1 .. Len(d) /\ Distinct(d)
  BY DirentsType DEF IndInv, TypeOK
<1>2. g \in Seq(Items) /\ q \in Nat /\ DotsIn(g, q)
  BY DEF Good
<1>3. scan = SubSeq(d, q - 1, Len(d))
  BY <1>2 DEF Scanned, FirstCount
<1> HIDE DEF d, scan
<1>4. /\ scan \in Seq(Names)
      /\ Len(scan) = IF q - 1 <= Len(d) THEN Len(d) - q + 2 ELSE 0
      /\ \A i \in 1 .. Len(scan) : scan[i] = d[(q - 2) + i] /\ (q - 2) + i \in 1 .. Len(d)
  <2>1. CASE q - 1 <= Len(d)
    <3>1. /\ scan \in Seq(Names) /\ Len(scan) = Len(d) - (q - 1) + 1
          /\ \A i \in 1 .. Len(d) - (q - 1) + 1 : scan[i] = d[(q - 1) + i - 1]
      BY <1>1, <1>2, <1>3, <2>1
    <3>2. \A i \in Nat : (q - 1) + i - 1 = (q - 2) + i
      BY <1>2
    <3>3. ASSUME NEW i \in 1 .. Len(scan)
          PROVE  scan[i] = d[(q - 2) + i] /\ (q - 2) + i \in 1 .. Len(d)
      BY <3>1, <3>2, <1>1, <1>2, <2>1
    <3> QED
      BY <3>1, <3>3, <2>1, <1>1, <1>2
  <2>2. CASE ~(q - 1 <= Len(d))
    <3>1. scan = << >>
      BY <1>1, <1>2, <1>3, <2>2, SubSeqEmpty
    <3> QED
      BY <3>1, <2>2, EmptySeq
  <2> QED
    BY <2>1, <2>2
<1>5. /\ take \in Seq(Items) /\ Len(take) = m /\ m \in Nat /\ Len(scan) \in Nat /\ m <= Len(scan)
      /\ \A i \in 1 .. m : take[i] = scan[i] /\ take[i] \in Names
  <2>1. m \in Nat /\ m <= Len(scan) /\ Len(scan) \in Nat
    BY <1>4 DEF scan
  <2>2. take \in Seq(Names) /\ Len(take) = m /\ \A i \in 1 .. m : take[i] = scan[i]
    BY <1>4, <2>1
  <2> HIDE DEF take
  <2>3. \A i \in 1 .. m : take[i] \in Names
    BY <2>2
  <2>4. take \in Seq(Items)
    BY <2>2 DEF Items
  <2> QED
    BY <2>1, <2>2, <2>3, <2>4
<1> HIDE DEF take
<1>6. /\ h \in Seq(Items) /\ Len(h) = Len(g) + m
      /\ \A i \in 1 .. Len(g) : h[i] = g[i]
      /\ \A i \in 1 .. m : h[Len(g) + i] = take[i]
  <2>1. /\ h \in Seq(Items) /\ Len(h) = Len(g) + Len(take)
        /\ \A i \in 1 .. Len(g) : h[i] = g[i]
        /\ \A i \in 1 .. Len(take) : h[Len(g) + i] = take[i]
    BY <1>2, <1>5, ItemsConcat
  <2> HIDE DEF h
  <2> QED
    BY <2>1, <1>5
<1>7. DOMAIN g = 1 .. Len(g) /\ Len(g) \in Nat /\ DOMAIN h = 1 .. Len(g) + m
  BY <1>2, <1>5, <1>6
<1> HIDE DEF h
<1>8. r \in Nat /\ r >= 2 /\ \A i \in DOMAIN d : ~(i > r - 2)
  BY <1>1, <1>2, <1>4, <1>5
(* Where the elements of h come from. *)
<1>9. ASSUME NEW i \in DOMAIN h
      PROVE  \/ i \in DOMAIN g /\ h[i] = g[i]
             \/ \E k \in 1 .. m : /\ i = Len(g) + k /\ (q - 2) + k \in DOMAIN d
                                  /\ h[i] = d[(q - 2) + k] /\ h[i] \in Names
  <2>1. CASE i <= Len(g)
    BY <2>1, <1>6, <1>7
  <2>2. CASE i > Len(g)
    <3>1. i - Len(g) \in 1 .. m /\ Len(g) + (i - Len(g)) = i
      BY <2>2, <1>5, <1>7
    <3>2. PICK k \in 1 .. m : i = Len(g) + k
      BY <3>1
    <3>3. k \in 1 .. Len(scan)
      BY <3>2, <1>5
    <3> QED
      BY <3>2, <3>3, <1>1, <1>4, <1>5, <1>6
  <2> QED
    BY <2>1, <2>2, <1>5, <1>7
<1>10. DotsIn(h, r)
  <2>1. ASSUME r = 2 PROVE h = <<".", "..">>
    <3>1. q = 2 /\ m = 0
      BY <2>1, <1>2, <1>5
    <3>2. g = <<".", "..">>
      BY <3>1, <1>2 DEF DotsIn
    <3>3. take = << >>
      BY <3>1, <1>5
    <3> QED
      BY <3>2, <3>3, <1>2, ConcatEmptySeq DEF h
  <2>2. Len(h) >= 2 /\ h[1] = "." /\ h[2] = ".."
    BY <1>2, <1>5, <1>6, <1>7 DEF DotsIn
  <2>3. ASSUME NEW i \in DOMAIN h, i > 2 PROVE h[i] \in Names
    BY <2>3, <1>2, <1>9 DEF DotsIn
  <2> QED
    BY <2>1, <2>2, <2>3, <1>8 DEF DotsIn
<1>11. ASSUME "added" \notin seen PROVE Fresh(h, r)
  <2>1. Distinct(g) /\ \A i \in DOMAIN d, j \in DOMAIN g : i > q - 2 => d[i] # g[j]
    BY <1>11 DEF Good, Fresh, d
  <2>2. ASSUME NEW i \in DOMAIN h, NEW j \in DOMAIN h, h[i] = h[j] PROVE i = j
    <3>1. CASE i \in DOMAIN g /\ h[i] = g[i] /\ j \in DOMAIN g /\ h[j] = g[j]
      BY <3>1, <2>1, <2>2 DEF Distinct
    <3>2. ASSUME NEW a \in DOMAIN h, NEW c \in DOMAIN h, a \in DOMAIN g, h[a] = g[a],
                 NEW k \in 1 .. m, (q - 2) + k \in DOMAIN d, h[c] = d[(q - 2) + k]
          PROVE  h[a] # h[c]
      <4>1. (q - 2) + k > q - 2
        BY <1>2
      <4> QED
        BY <4>1, <3>2, <2>1
    <3>3. ASSUME NEW k \in 1 .. m, NEW l \in 1 .. m, i = Len(g) + k, j = Len(g) + l,
                 (q - 2) + k \in DOMAIN d, (q - 2) + l \in DOMAIN d,
                 h[i] = d[(q - 2) + k], h[j] = d[(q - 2) + l]
          PROVE  i = j
      <4>1. (q - 2) + k = (q - 2) + l
        BY <3>3, <2>2, <1>1 DEF Distinct
      <4>2. k = l
        BY <4>1, <1>2
      <4> QED
        BY <3>3, <4>2
    <3> QED
      BY <3>1, <3>2, <3>3, <2>2, <1>9
  <2>3. Distinct(h)
    BY <2>2 DEF Distinct
  <2> QED
    BY <2>3, <1>8 DEF Fresh, d
<1>12. ASSUME m = Len(scan), Clean, NEW n \in stayed PROVE \E j \in DOMAIN h : h[j] = n
  <2>1. \/ \E j \in DOMAIN g : g[j] = n
        \/ \E i \in DOMAIN d : i > q - 2 /\ d[i] = n
    BY <1>12 DEF Good, Found, d
  <2>2. CASE \E j \in DOMAIN g : g[j] = n
    BY <2>2, <1>5, <1>6, <1>7
  <2>3. ASSUME NEW i \in DOMAIN d, i > q - 2, d[i] = n PROVE \E j \in DOMAIN h : h[j] = n
    <3>1. i - (q - 2) \in 1 .. Len(scan) /\ (q - 2) + (i - (q - 2)) = i
      BY <2>3, <1>1, <1>2, <1>4
    <3>2. PICK k \in 1 .. m : (q - 2) + k = i /\ k \in 1 .. Len(scan)
      BY <3>1, <1>12
    <3>3. take[k] = n
      <4>1. scan[k] = d[(q - 2) + k] /\ take[k] = scan[k]
        BY <3>2, <1>4, <1>5
      <4> QED
        BY <4>1, <3>2, <2>3
    <3>4. h[Len(g) + k] = n
      BY <3>3, <1>6
    <3>5. Len(g) + k \in DOMAIN h
      BY <1>5, <1>7
    <3> QED
      BY <3>4, <3>5
  <2> QED
    BY <2>1, <2>2, <2>3
<1>13. /\ h \in Seq(Items) /\ r \in Nat /\ r >= 2 /\ DotsIn(h, r)
       /\ "added" \notin seen => Fresh(h, r)
       /\ m = Len(scan) /\ Clean => \A n \in stayed : \E j \in DOMAIN h : h[j] = n
  BY <1>5, <1>6, <1>8, <1>10, <1>11, <1>12
<1> QED
  BY <1>13 DEF h, take, scan

LEMMA GetdentsKeeps ==
    ASSUME IndInv, NEW cap \in 1 .. MaxCap, Getdents(cap)
    PROVE  IndInv'
<1> DEFINE fit == Fit(pos, cap)
           rest == cap - Len(fit)
           p == pos + Len(fit)
           scan == IF p < 2 THEN << >> ELSE Scanned(p)
           m == IF rest < Len(scan) THEN rest ELSE Len(scan)
           take == SubSeq(scan, 1, m)
<1>0. cap \in Nat /\ cap >= 1 /\ pos \in Nat
  BY ReaddirAssumption DEF IndInv, TypeOK
<1>1. /\ got' = got \o (fit \o take) /\ pos' = p + Len(scan)
      /\ ended' = (fit \o take = << >>)
      /\ seen' = IF rest < Len(scan) THEN seen \cup {"tight"} ELSE seen
      /\ blocks' = blocks /\ stayed' = stayed
  BY DEF Getdents, Fit, NextPos
<1>2. /\ Good(got \o fit, p)
      /\ fit \in Seq(Items) /\ Len(fit) <= cap /\ Len(fit) \in Nat
      /\ pos < 2 => Len(fit) > 0
      /\ pos >= 2 => fit = << >>
  BY <1>0, DotsEmitted
<1> HIDE DEF fit
<1>3. Dirents' = Dirents /\ Dirents \in Seq(Names) /\ got \in Seq(Items)
  BY <1>1, DirentsType DEF IndInv, TypeOK, Dirents, Items
<1>4. /\ p \in Nat /\ rest \in Nat /\ scan \in Seq(Names) /\ Len(scan) \in Nat
      /\ m \in 0 .. Len(scan) /\ take \in Seq(Items) /\ Len(take) = m
  <2>1. p \in Nat /\ rest \in Nat
    BY <1>0, <1>2
  <2>2. scan \in Seq(Names)
    <3>1. CASE p < 2
      BY <3>1, EmptySeq
    <3>2. CASE p >= 2
      <4>1. p - 1 \in Nat /\ p - 1 >= 1 /\ Len(Dirents) \in Nat
        BY <3>2, <2>1, <1>3
      <4>2. scan = SubSeq(Dirents, p - 1, Len(Dirents))
        <5>1. scan = Scanned(p) /\ ~(p < 2) /\ p - 2 + 1 = p - 1
          BY <3>2, <2>1
        <5> HIDE DEF scan, p
        <5> QED
          BY <5>1 DEF Scanned, FirstCount
      <4>3. \A q \in Nat : q >= 1 => SubSeq(Dirents, q, Len(Dirents)) \in Seq(Names)
        BY <1>3
      <4> QED
        BY <4>1, <4>2, <4>3
    <3> QED
      BY <3>1, <3>2, <2>1
  <2> HIDE DEF scan, rest
  <2>3. Len(scan) \in Nat /\ m \in 0 .. Len(scan)
    BY <2>1, <2>2
  <2> HIDE DEF m
  <2>4. take \in Seq(Names) /\ Len(take) = m
    BY <2>2, <2>3
  <2> QED
    BY <2>1, <2>2, <2>3, <2>4 DEF Items
<1> HIDE DEF take
<1>5. got' = (got \o fit) \o take
  <2>1. (got \o fit) \o take = got \o (fit \o take)
    BY <1>2, <1>3, <1>4, ItemsConcatMoves
  <2> QED
    BY <2>1, <1>1
(* What the caller has after the call, and where ctx->pos is. *)
<1>6. /\ got' \in Seq(Items) /\ pos' \in Nat
      /\ DotsIn(got', pos')
      /\ "added" \notin seen => Fresh(got', pos')
      /\ p >= 2 => pos' >= 2
      /\ p >= 2 /\ m = Len(scan) /\ Clean => \A n \in stayed : \E j \in DOMAIN got' : got'[j] = n
      /\ p < 2 => Good(got', pos') /\ pos' < 2
  <2>1. CASE p < 2
    <3>1. scan = << >> /\ Len(scan) = 0 /\ m = 0
      BY <2>1, <1>4
    <3>2. take = << >>
      BY <3>1, <1>4
    <3>3. got \o fit \in Seq(Items)
      BY <1>2 DEF Good
    <3>4. got' = got \o fit /\ pos' = p
      BY <3>1, <3>2, <3>3, <1>1, <1>4, <1>5, ConcatEmptySeq
    <3> QED
      BY <2>1, <3>4, <1>2, <1>4 DEF Good
  <2>2. CASE p >= 2
    <3>1. scan = Scanned(p)
      BY <2>2, <1>4
    <3>2. m \in 0 .. Len(Scanned(p))
      BY <3>1, <1>4
    <3>3. got' = (got \o fit) \o SubSeq(Scanned(p), 1, m) /\ pos' = p + Len(Scanned(p))
      BY <3>1, <1>1, <1>5 DEF take
    <3> DEFINE g == got \o fit
               h == g \o SubSeq(Scanned(p), 1, m)
               r == p + Len(Scanned(p))
    <3>4. Good(g, p) /\ p >= 2
      BY <1>2, <2>2
    <3> HIDE DEF m, p, scan, g
    <3>5. /\ h \in Seq(Items) /\ r \in Nat /\ r >= 2 /\ DotsIn(h, r)
          /\ "added" \notin seen => Fresh(h, r)
          /\ m = Len(Scanned(p)) /\ Clean =>
                \A n \in stayed : \E j \in DOMAIN h : h[j] = n
      BY <3>2, <3>4, ScanEmitted
    <3>6. got' = h /\ pos' = r
      BY <3>3 DEF g
    <3>7. ~(p < 2)
      BY <2>2, <1>4
    <3> HIDE DEF h, r
    <3> QED
      BY <3>1, <3>5, <3>6, <3>7
  <2> QED
    BY <2>1, <2>2, <1>4
<1> HIDE DEF p
<1>7. seen \in SUBSET {"added", "removed", "tight"} /\ ended' \in BOOLEAN
  BY <1>1 DEF IndInv, TypeOK
<1>8. TypeOK'
  BY <1>1, <1>6, <1>7 DEF IndInv, TypeOK, Items
<1>9. Distinct(Dirents)' /\ DotsFirst'
  BY <1>3, <1>6 DEF IndInv, Distinct, DotsFirst, DotsIn
<1>10. ListedOnce'
  <2> SUFFICES ASSUME "added" \notin seen' PROVE ListedOnce'
    BY DEF ListedOnce
  <2>1. "added" \notin seen
    BY <1>1
  <2>2. Fresh(got', pos')
    BY <2>1, <1>6
  <2>3. Distinct(got)'
    BY <2>2 DEF Fresh, Distinct
  <2>4. \A i \in DOMAIN Dirents', j \in DOMAIN got' : Ahead(i)' => Dirents'[i] # got'[j]
    BY <2>2, <1>3 DEF Fresh, Ahead
  <2> QED
    BY <2>3, <2>4 DEF ListedOnce
<1>11. ASSUME Clean' PROVE Clean /\ m = Len(scan)
  BY <1>1, <1>4, <1>11 DEF Clean
<1>12. ASSUME Clean', NEW n \in stayed'
       PROVE  Listed(n)' \/ \E i \in DOMAIN Dirents' : Ahead(i)' /\ Dirents'[i] = n
  <2>1. Clean /\ m = Len(scan)
    BY <1>11, <1>12
  <2>2. CASE p >= 2
    BY <2>1, <2>2, <1>1, <1>6 DEF Listed
  <2>3. CASE p < 2
    <3>1. Found(got', pos')
      BY <2>1, <2>3, <1>6 DEF Good
    <3> QED
      BY <3>1, <1>1, <1>3 DEF Found, Listed, Ahead
  <2> QED
    BY <2>2, <2>3, <1>4
<1>13. ASSUME ended' PROVE pos' >= 2 /\ (Clean' => \A n \in stayed' : Listed(n)')
  <2>1. Len(fit \o take) = Len(fit) + Len(take)
    BY <1>2, <1>4, ItemsConcat
  <2>2. fit \o take = << >>
    BY <1>1, <1>13
  <2>3. Len(fit) = 0
    BY <2>1, <2>2, <1>2, <1>4
  <2>4. p >= 2
    BY <2>3, <1>0, <1>2 DEF p
  <2> QED
    BY <2>4, <1>1, <1>6, <1>11 DEF Listed
<1>14. ASSUME NEW n \in stayed' PROVE \E i \in DOMAIN Dirents' : Dirents'[i] = n
  BY <1>1, <1>3 DEF IndInv, StayedKept
<1> QED
  BY <1>8, <1>9, <1>10, <1>12, <1>13, <1>14 DEF IndInv, StayedKept

--------------------------------------------------------------------------------
(* The theorems *)

(* IndInv holds in every state, whatever the calls, their buffers and the  *)
(* changes of the directory in between.                                    *)
THEOREM ReaddirInductive == Spec => []IndInv
<1>1. Init => IndInv
  BY InitInv
<1>2. IndInv /\ [Next]_vars => IndInv'
  <2> SUFFICES ASSUME IndInv, [Next]_vars PROVE IndInv'
    OBVIOUS
  <2>1. CASE \E name \in Names : add_dirent(name)
    BY <2>1, AddKeeps
  <2>2. CASE \E name \in Names : remove_dirent(name)
    BY <2>2, RemoveKeeps
  <2>3. CASE Rewind
    BY <2>3, RewindKeeps
  <2>4. CASE \E cap \in 1 .. MaxCap : Getdents(cap)
    BY <2>4, GetdentsKeeps
  <2>5. CASE UNCHANGED vars
    BY <2>5 DEF vars, IndInv, TypeOK, Distinct, DotsFirst, ListedOnce, StayedKept,
                Listed, Clean, Ahead, Dirents
  <2> QED
    BY <2>1, <2>2, <2>3, <2>4, <2>5 DEF Next
<1> QED
  BY <1>1, <1>2, PTL DEF Spec

(* A listing that ended has the dots and every name that stayed, unless an *)
(* entry was removed or a buffer was too small after the dots.             *)
THEOREM ListingsAreComplete == Spec => []ListingComplete
<1>1. IndInv => ListingComplete
  <2> SUFFICES ASSUME IndInv, ended, seen \cap {"removed", "tight"} = {}
               PROVE  stayed \cup {".", ".."} \subseteq ToSet(got)
    BY DEF ListingComplete
  <2>1. pos >= 2 /\ Clean /\ \A n \in stayed : Listed(n)
    BY DEF IndInv, StayedKept, Clean
  <2>2. got \in Seq(Items) /\ Len(got) >= 2 /\ got[1] = "." /\ got[2] = ".."
    BY <2>1 DEF IndInv, TypeOK, DotsFirst, Items
  <2>3. 1 \in DOMAIN got /\ 2 \in DOMAIN got
    BY <2>2
  <2> QED
    BY <2>1, <2>2, <2>3 DEF Listed, ToSet
<1> QED
  BY <1>1, ReaddirInductive, PTL

(* Without an addition behind ctx->pos no entry is listed twice. *)
THEOREM ListingsHaveNoRepeats == Spec => []NoRepeats
<1>1. IndInv => NoRepeats
  BY DEF IndInv, ListedOnce, Distinct, NoRepeats
<1> QED
  BY <1>1, ReaddirInductive, PTL

================================================================================
