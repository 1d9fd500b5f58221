---------------------------- MODULE EditorProofs ----------------------------
(***************************************************************************)
(* Proofs about Editor, for every library, stored pattern and number of    *)
(* clicks, changes and saves: the rows of a form have indices of their     *)
(* own, forms show what the user selected, and a save stores the form that *)
(* is shown.  They rest on what the form is read back by: the indices,     *)
(* sorted, are those of the rows in the order of the clicks.               *)
(***************************************************************************)
EXTENDS Editor, FiniteSetTheorems, SequenceTheorems, WellFoundedInduction, TLAPS

-----------------------------------------------------------------------------
(***************************************************************************)
(* Numbers in order.  Induction is over a set: the naturals outside it     *)
(* have no least element.                                                  *)
(***************************************************************************)

\* A non-empty set of naturals has a least element.
LEMMA LeastNatural ==
  ASSUME NEW S \in SUBSET Nat, S # {}
  PROVE  \E x \in S : \A y \in S : x <= y
<1>1. PICK x \in S : \A y \in S : ~ (<< y, x >> \in OpToRel(<, Nat))
  BY NatLessThanWellFounded, WFMin
<1>2. \A y \in S : ~ (y < x)
  BY <1>1 DEF OpToRel
<1> QED
  BY <1>2

\* A set that has 0, and the successor of each of its naturals, has them all.
LEMMA NaturalsByInduction ==
  ASSUME NEW S, 0 \in S, \A n \in Nat : n \in S => n + 1 \in S
  PROVE  \A n \in Nat : n \in S
<1> DEFINE T == Nat \ S
<1> SUFFICES ASSUME T # {} PROVE FALSE
  OBVIOUS
<1>1. PICK x \in T : \A y \in T : x <= y
  BY LeastNatural
<1>2. x # 0 /\ x - 1 \in Nat /\ x - 1 \notin T
  BY <1>1
<1> QED
  BY <1>1, <1>2

Increasing(s) == \A i \in DOMAIN s : \A j \in DOMAIN s : i < j => s[i] < s[j]

\* The increasing sequence of a finite set of naturals exists,
LEMMA InOrderExists ==
  \A n \in Nat : \A S \in SUBSET Nat :
    IsFiniteSet(S) /\ Cardinality(S) = n => \E s \in [1 .. n -> S] : Increasing(s)
<1> DEFINE Sorted(n) == \A S \in SUBSET Nat :
             IsFiniteSet(S) /\ Cardinality(S) = n => \E s \in [1 .. n -> S] : Increasing(s)
           N == {n \in Nat : Sorted(n)}
<1>1. 0 \in N
  <2> SUFFICES ASSUME NEW S \in SUBSET Nat
               PROVE  \E s \in [1 .. 0 -> S] : Increasing(s)
    OBVIOUS
  <2>1. [i \in 1 .. 0 |-> 0] \in [1 .. 0 -> S]
    OBVIOUS
  <2>2. Increasing([i \in 1 .. 0 |-> 0])
    BY DEF Increasing
  <2> QED
    BY <2>1, <2>2
<1>2. ASSUME NEW n \in Nat, n \in N PROVE n + 1 \in N
  <2> SUFFICES ASSUME NEW S \in SUBSET Nat, IsFiniteSet(S), Cardinality(S) = n + 1
               PROVE  \E s \in [1 .. n + 1 -> S] : Increasing(s)
    OBVIOUS
  <2>1. S # {}
    BY FS_EmptySet
  <2>2. PICK m \in S : \A y \in S : m <= y
    BY <2>1, LeastNatural
  <2> DEFINE R == S \ {m}
  <2>3. R \in SUBSET Nat /\ IsFiniteSet(R) /\ Cardinality(R) = n
    BY FS_RemoveElement
  <2>4. PICK t \in [1 .. n -> R] : Increasing(t)
    BY <1>2, <2>3
  <2> DEFINE s == [i \in 1 .. n + 1 |-> IF i = 1 THEN m ELSE t[i - 1]]
  <2>5. s \in [1 .. n + 1 -> S]
    OBVIOUS
  <2>6. Increasing(s)
    <3> SUFFICES ASSUME NEW i \in 1 .. n + 1, NEW j \in 1 .. n + 1, i < j
                 PROVE  s[i] < s[j]
      BY DEF Increasing
    <3>1. j - 1 \in 1 .. n /\ s[j] = t[j - 1] /\ t[j - 1] \in R
      OBVIOUS
    <3>2. CASE i = 1
      <4>1. t[j - 1] \in Nat /\ m \in Nat /\ m <= t[j - 1] /\ t[j - 1] # m
        BY <2>2, <3>1
      <4> QED
        BY <3>1, <3>2, <4>1
    <3>3. CASE i # 1
      <4>1. i - 1 \in 1 .. n /\ s[i] = t[i - 1] /\ i - 1 < j - 1
        BY <3>3
      <4> QED
        BY <2>4, <3>1, <4>1 DEF Increasing
    <3> QED
      BY <3>2, <3>3
  <2> QED
    BY <2>5, <2>6
<1> HIDE DEF N
<1>3. \A n \in Nat : n \in N
  BY <1>1, <1>2, NaturalsByInduction
<1> QED
  BY <1>3 DEF N

\* and is the only one: an increasing function from 1 .. n to itself moves none.
LEMMA IncreasingMovesNone ==
  ASSUME NEW n \in Nat, NEW h \in [1 .. n -> 1 .. n], Increasing(h)
  PROVE  \A i \in 1 .. n : h[i] = i
<1> DEFINE Low == {k \in Nat : k \in 1 .. n => h[k] >= k}
           High == {k \in Nat : n - k \in 1 .. n => h[n - k] <= n - k}
<1>1. \A k \in Nat : k \in Low
  <2>1. 0 \in Low
    OBVIOUS
  <2>2. ASSUME NEW k \in Nat, k \in Low PROVE k + 1 \in Low
    <3> SUFFICES ASSUME k + 1 \in 1 .. n PROVE h[k + 1] >= k + 1
      OBVIOUS
    <3>1. CASE k = 0
      <4>1. h[k + 1] \in 1 .. n
        OBVIOUS
      <4> QED
        BY <3>1, <4>1
    <3>2. CASE k # 0
      <4>1. k \in 1 .. n /\ h[k] >= k /\ h[k] \in Nat /\ h[k + 1] \in Nat
        BY <2>2, <3>2
      <4>2. h[k] < h[k + 1]
        BY <4>1 DEF Increasing
      <4> QED
        BY <4>1, <4>2
    <3> QED
      BY <3>1, <3>2
  <2> HIDE DEF Low
  <2> QED
    BY <2>1, <2>2, NaturalsByInduction
<1>2. \A k \in Nat : k \in High
  <2>1. 0 \in High
    OBVIOUS
  <2>2. ASSUME NEW k \in Nat, k \in High PROVE k + 1 \in High
    <3> SUFFICES ASSUME n - (k + 1) \in 1 .. n PROVE h[n - (k + 1)] <= n - (k + 1)
      OBVIOUS
    <3> DEFINE i == n - (k + 1)
    <3>1. i + 1 \in 1 .. n /\ n - k = i + 1 /\ i \in 1 .. n
      OBVIOUS
    <3>2. h[i + 1] <= i + 1
      BY <2>2, <3>1
    <3>3. h[i] < h[i + 1] /\ h[i] \in Nat /\ h[i + 1] \in Nat
      BY <3>1 DEF Increasing
    <3> QED
      BY <3>1, <3>2, <3>3
  <2> HIDE DEF High
  <2> QED
    BY <2>1, <2>2, NaturalsByInduction
<1>3. ASSUME NEW i \in 1 .. n PROVE h[i] = i
  <2>1. i \in Nat /\ n - i \in Nat /\ n - (n - i) = i
    OBVIOUS
  <2>2. h[i] >= i /\ h[i] <= i
    BY <1>1, <1>2, <2>1
  <2> QED
    BY <2>2
<1> QED
  BY <1>3

-----------------------------------------------------------------------------
(***************************************************************************)
(* Forms, and how they are read.                                           *)
(***************************************************************************)

\* collectFormIndices sorts.
LEMMA CollectedInOrder ==
  ASSUME NEW S \in SUBSET Nat, IsFiniteSet(S)
  PROVE  /\ CollectFormIndices(S) \in [1 .. Cardinality(S) -> S]
         /\ Increasing(CollectFormIndices(S))
<1>1. Cardinality(S) \in Nat
  BY FS_CardinalityType
<1>2. \E s \in [1 .. Cardinality(S) -> S] : Increasing(s)
  BY <1>1, InOrderExists
<1>3. \E s \in [1 .. Cardinality(S) -> S] :
        \A i, j \in DOMAIN s : i < j => s[i] < s[j]
  BY <1>2 DEF Increasing
<1> QED
  BY <1>3 DEF CollectFormIndices, Increasing

\* The numbers of distinct rows are as many as the rows.
LEMMA DistinctCount ==
  ASSUME NEW n \in Nat, NEW t \in [1 .. n -> Nat], Distinct(t)
  PROVE  LET S == {t[i] : i \in 1 .. n}
         IN  S \in SUBSET Nat /\ IsFiniteSet(S) /\ Cardinality(S) = n
<1> DEFINE S == {t[i] : i \in 1 .. n}
<1>1. t \in Bijection(1 .. n, S)
  BY DEF Distinct, Bijection, Injection, Surjection, IsInjective
<1>2. ExistsBijection(1 .. n, S)
  BY <1>1 DEF ExistsBijection
<1>3. IsFiniteSet(S)
  BY <1>2, FS_NatBijection
<1>4. Cardinality(S) = n
  BY <1>2, FS_CountingElements
<1> QED
  BY <1>3, <1>4

\* Rows whose numbers increase are in order already.
LEMMA CollectedAsGiven ==
  ASSUME NEW n \in Nat, NEW t \in [1 .. n -> Nat], Distinct(t), Increasing(t)
  PROVE  CollectFormIndices({t[i] : i \in 1 .. n}) = t
<1> DEFINE S == {t[i] : i \in 1 .. n}
           s == CollectFormIndices(S)
<1>1. s \in [1 .. n -> S] /\ Increasing(s)
  BY DistinctCount, CollectedInOrder
<1> HIDE DEF s
<1> DEFINE h == [i \in 1 .. n |-> CHOOSE j \in 1 .. n : t[j] = s[i]]
<1>2. \A i \in 1 .. n : h[i] \in 1 .. n /\ t[h[i]] = s[i]
  <2> TAKE i \in 1 .. n
  <2>1. s[i] \in S
    BY <1>1
  <2>2. \E j \in 1 .. n : t[j] = s[i]
    BY <2>1
  <2> QED
    BY <2>2
<1>3. h \in [1 .. n -> 1 .. n]
  BY <1>2
<1> HIDE DEF h
<1>4. Increasing(h)
  <2> SUFFICES ASSUME NEW i \in 1 .. n, NEW j \in 1 .. n, i < j, ~ (h[i] < h[j])
               PROVE  FALSE
    BY <1>3 DEF Increasing
  <2>1. s[i] < s[j] /\ t[h[i]] = s[i] /\ t[h[j]] = s[j] /\ h[i] \in 1 .. n /\ h[j] \in 1 .. n
    BY <1>1, <1>2 DEF Increasing
  <2>2. t[h[i]] \in Nat /\ t[h[j]] \in Nat
    BY <2>1
  <2>3. CASE h[i] = h[j]
    BY <2>1, <2>2, <2>3
  <2>4. CASE h[j] < h[i]
    <3>1. t[h[j]] < t[h[i]]
      BY <2>1, <2>4 DEF Increasing
    <3> QED
      BY <2>1, <2>2, <3>1
  <2> QED
    BY <2>1, <2>3, <2>4
<1>5. \A i \in 1 .. n : h[i] = i
  BY <1>3, <1>4, IncreasingMovesNone
<1>6. \A i \in 1 .. n : s[i] = t[i]
  BY <1>2, <1>5
<1> QED
  BY <1>1, <1>6 DEF s

\* The row that has the g-th number: it is the g-th if the numbers increase.
LEMMA PlaceOf ==
  ASSUME NEW n \in Nat, NEW t \in [1 .. n -> Nat], Distinct(t), NEW g \in 1 .. n
  PROVE  LET o == CollectFormIndices({t[i] : i \in 1 .. n})
             p == CHOOSE p \in 1 .. n : t[p] = o[g]
         IN  DOMAIN o = 1 .. n /\ p \in 1 .. n /\ (Increasing(t) => p = g)
<1> DEFINE S == {t[i] : i \in 1 .. n}
           o == CollectFormIndices(S)
           p == CHOOSE p \in 1 .. n : t[p] = o[g]
<1>1. o \in [1 .. n -> S]
  BY DistinctCount, CollectedInOrder
<1>2. Increasing(t) => o = t
  BY CollectedAsGiven
<1> HIDE DEF o
<1>3. o[g] \in S
  BY <1>1
<1>4. \E q \in 1 .. n : t[q] = o[g]
  BY <1>3
<1>5. p \in 1 .. n /\ t[p] = o[g]
  BY <1>4
<1>6. Increasing(t) => p = g
  BY <1>2, <1>5 DEF Distinct
<1> QED
  BY <1>1, <1>5, <1>6 DEF o

-----------------------------------------------------------------------------
(***************************************************************************)
(* The invariant.                                                          *)
(***************************************************************************)
LibraryRow == [abbr : Abbreviations, owner : Users \cup {Nobody}, had : SUBSET Abbreviations]
StitchRow == [abbr : Abbreviations, lib : Nat]

EntryType == [ei : Nat, stitch : Nat, meant : Nat]
PartType == [gi : Nat, entries : Seq(EntryType)]
PageType == [from : {"none", "new", "stored", "invalid", "refused"},
             parts : Seq(PartType), next : Nat]

FragmentType == [kind : {"part", "entry"}, part : Nat, index : Nat \ {0}]

FormEntry == [id : Nat, meant : Nat]
SavingType == [step : {"none", "validate", "resolve"},
               form : Seq(Seq(FormEntry)), found : Seq(StitchRow)]

Typed ==
  /\ DOMAIN library \subseteq Nat \ {0} /\ library \in [DOMAIN library -> LibraryRow]
  /\ stored \in [stitches : Seq(StitchRow), groups : Seq(Seq(Nat))]
  /\ page \in PageType
  /\ arriving \subseteq FragmentType
  /\ \A f \in arriving : f.kind = "part" => f.part = 0
  /\ overtaken \in BOOLEAN
  /\ saving \in SavingType
  /\ clicks \in 0 .. MaxClicks /\ changes \in 0 .. MaxChanges /\ saves \in 0 .. MaxSaves

Indices(parts) == [p \in DOMAIN parts |-> parts[p].gi]
EntryIndices(part) == [e \in DOMAIN part.entries |-> part.entries[e].ei]

\* No two rows have the same number,
Numbered(parts) ==
  /\ Distinct(Indices(parts))
  /\ \A p \in DOMAIN parts : Distinct(EntryIndices(parts[p]))

\* all rows have numbers below n,
Below(parts, n) ==
  \A p \in DOMAIN parts :
    parts[p].gi < n /\ \A e \in DOMAIN parts[p].entries : parts[p].entries[e].ei < n

\* and none has the number i.
Unused(parts, i) ==
  \A p \in DOMAIN parts :
    parts[p].gi # i /\ \A e \in DOMAIN parts[p].entries : parts[p].entries[e].ei # i

\* The next number is beyond all, and each fragment has one of its own.
FragmentsFresh ==
  /\ page = NoPage \/ page.next > 0
  /\ Below(page.parts, page.next)
  /\ \A f \in arriving : f.index < page.next /\ Unused(page.parts, f.index)
  /\ \A f \in arriving : \A g \in arriving : f.index = g.index => f = g

\* The numbers increase down the form,
RowsInOrder(parts) ==
  /\ Increasing(Indices(parts))
  /\ \A p \in DOMAIN parts : Increasing(EntryIndices(parts[p]))

\* and a fragment has a number beyond those of the rows it comes after.
Behind(parts, f) ==
  \A p \in DOMAIN parts :
    /\ f.kind = "part" => parts[p].gi < f.index
    /\ f.kind = "entry" /\ parts[p].gi = f.part =>
         \A e \in DOMAIN parts[p].entries : parts[p].entries[e].ei < f.index

InOrder ==
  ~ overtaken => RowsInOrder(page.parts) /\ \A f \in arriving : Behind(page.parts, f)

\* A row shows what was meant, or nothing for a stitch that is gone.
RowHonest(x) == x.stitch = x.meant \/ (x.stitch = NoStitch /\ x.meant \notin DOMAIN library)

RowsHonest(parts) ==
  \A p \in DOMAIN parts : \A e \in DOMAIN parts[p].entries : RowHonest(parts[p].entries[e])

FormHonest(form) ==
  \A g \in DOMAIN form : \A e \in DOMAIN form[g] : form[g][e].id = form[g][e].meant

FormIds(form) == [g \in DOMAIN form |-> [e \in DOMAIN form[g] |-> form[g][e].id]]

\* A save carries what was meant and, if nothing was overtaken, what is shown; the
\* form does not change meanwhile.
FormCarried ==
  saving.step # "none" =>
    /\ arriving = {}
    /\ page.from # "refused" => FormHonest(saving.form)
    /\ ~ overtaken => FormIds(saving.form) = Displayed(page.parts)

\* The entries of the stored pattern have stitches.
StoredRefers ==
  \A g \in DOMAIN stored.groups : \A e \in DOMAIN stored.groups[g] :
    stored.groups[g][e] \in DOMAIN stored.stitches

EditorInv ==
  /\ Typed /\ StoredRefers
  /\ Numbered(page.parts) /\ FragmentsFresh
  /\ InOrder
  /\ page.from # "refused" => RowsHonest(page.parts)
  /\ FormCarried

-----------------------------------------------------------------------------
(***************************************************************************)
(* Rendering a form.                                                       *)
(***************************************************************************)

\* The parts of a form have no more entries than some number.
LEMMA EntriesBounded ==
  ASSUME NEW X, NEW groups \in Seq(Seq(X))
  PROVE  \E b \in Nat : \A g \in DOMAIN groups : Len(groups[g]) <= b
<1> DEFINE Bound(n) == \E b \in Nat : \A g \in DOMAIN groups : g <= n => Len(groups[g]) <= b
           N == {n \in Nat : Bound(n)}
<1>1. \A g \in DOMAIN groups : g \in Nat /\ g > 0 /\ g <= Len(groups) /\ Len(groups[g]) \in Nat
  <2> TAKE g \in DOMAIN groups
  <2>1. g \in 1 .. Len(groups) /\ Len(groups) \in Nat
    BY LenProperties
  <2>2. groups[g] \in Seq(X)
    BY <2>1, ElementOfSeq
  <2> QED
    BY <2>1, <2>2, LenProperties
<1>2. 0 \in N
  BY <1>1
<1>3. ASSUME NEW n \in Nat, n \in N PROVE n + 1 \in N
  <2>1. PICK b \in Nat : \A g \in DOMAIN groups : g <= n => Len(groups[g]) <= b
    BY <1>3
  <2>2. CASE n + 1 \in DOMAIN groups
    <3> DEFINE c == IF Len(groups[n + 1]) <= b THEN b ELSE Len(groups[n + 1])
    <3>1. Len(groups[n + 1]) \in Nat
      BY <1>1, <2>2
    <3>2. c \in Nat /\ b <= c /\ Len(groups[n + 1]) <= c
      BY <3>1
    <3>3. ASSUME NEW g \in DOMAIN groups, g <= n + 1 PROVE Len(groups[g]) <= c
      <4>1. CASE g = n + 1
        BY <3>2, <4>1
      <4>2. CASE g <= n
        <5>1. Len(groups[g]) <= b /\ Len(groups[g]) \in Nat
          BY <1>1, <2>1, <4>2
        <5> HIDE DEF c
        <5> QED
          BY <3>2, <5>1
      <4> QED
        BY <1>1, <3>3, <4>1, <4>2
    <3> HIDE DEF c
    <3> QED
      BY <3>2, <3>3
  <2>3. CASE n + 1 \notin DOMAIN groups
    <3>1. \A g \in DOMAIN groups : g <= n + 1 => g <= n
      BY <1>1, <2>3
    <3> QED
      BY <2>1, <3>1
  <2> QED
    BY <2>2, <2>3
<1> HIDE DEF N
<1>4. \A n \in Nat : n \in N
  BY <1>2, <1>3, NaturalsByInduction
<1>5. Len(groups) \in N
  BY <1>4, LenProperties
<1> QED
  BY <1>1, <1>5 DEF N

\* Max of a non-empty bounded set of naturals is its greatest element.
LEMMA MaxOfNaturals ==
  ASSUME NEW n \in Nat, NEW S \in SUBSET (0 .. n), S # {}
  PROVE  Max(S) \in S /\ \A y \in S : Max(S) >= y
<1> DEFINE T == {n - x : x \in S}
<1>1. T \in SUBSET Nat /\ T # {}
  <2>1. \A x \in S : n - x \in Nat
    OBVIOUS
  <2>2. PICK x \in S : TRUE
    OBVIOUS
  <2>3. n - x \in T
    OBVIOUS
  <2> QED
    BY <2>1, <2>3
<1>2. PICK t \in T : \A y \in T : t <= y
  BY <1>1, LeastNatural
<1>3. PICK x \in S : t = n - x
  BY <1>2
<1>4. \A y \in S : x >= y
  <2> TAKE y \in S
  <2>1. n - y \in T /\ n - x <= n - y
    BY <1>2, <1>3
  <2> QED
    BY <2>1
<1> QED
  BY <1>4 DEF Max

\* editorNextSignalIndex is beyond all indices.
LEMMA NextIsBeyond ==
  ASSUME NEW X, NEW groups \in Seq(Seq(X))
  PROVE  /\ NextSignalIndex(groups) \in Nat /\ NextSignalIndex(groups) > 0
         /\ \A g \in DOMAIN groups :
              /\ g - 1 < NextSignalIndex(groups)
              /\ \A e \in DOMAIN groups[g] : e - 1 < NextSignalIndex(groups)
<1> DEFINE S == {0} \cup {g - 1 : g \in DOMAIN groups}
                    \cup UNION {{e - 1 : e \in DOMAIN groups[g]} : g \in DOMAIN groups}
<1>1. PICK b \in Nat : \A g \in DOMAIN groups : Len(groups[g]) <= b
  BY EntriesBounded
<1>2. Len(groups) \in Nat /\ DOMAIN groups = 1 .. Len(groups)
  BY LenProperties
<1>3. \A g \in DOMAIN groups : /\ DOMAIN groups[g] = 1 .. Len(groups[g])
                               /\ Len(groups[g]) \in Nat
  <2> TAKE g \in DOMAIN groups
  <2>1. groups[g] \in Seq(X)
    BY <1>2, ElementOfSeq
  <2> QED
    BY <2>1, LenProperties
<1> DEFINE n == b + Len(groups)
<1>4. n \in Nat
  BY <1>2
<1>5. S \in SUBSET (0 .. n) /\ S # {}
  <2>1. \A g \in DOMAIN groups : g - 1 \in 0 .. n
    BY <1>2
  <2>2. \A g \in DOMAIN groups : \A e \in DOMAIN groups[g] : e - 1 \in 0 .. n
    <3> TAKE g \in DOMAIN groups
    <3> TAKE e \in DOMAIN groups[g]
    <3>1. e \in 1 .. Len(groups[g]) /\ Len(groups[g]) <= b /\ Len(groups[g]) \in Nat
      BY <1>1, <1>3
    <3> QED
      BY <1>2, <3>1
  <2>3. 0 \in 0 .. n
    BY <1>4
  <2> HIDE DEF n
  <2> QED
    BY <2>1, <2>2, <2>3
<1>6. Max(S) \in S /\ \A y \in S : Max(S) >= y
  BY <1>4, <1>5, MaxOfNaturals
<1>7. NextSignalIndex(groups) = Max(S) + 100
  BY DEF NextSignalIndex
<1>8. Max(S) \in Nat /\ S \in SUBSET Nat
  <2> HIDE DEF S, n
  <2>1. \A y \in 0 .. n : y \in Nat
    BY <1>4
  <2> QED
    BY <1>5, <1>6, <2>1
<1>9. ASSUME NEW g \in DOMAIN groups PROVE g - 1 \in S /\ \A e \in DOMAIN groups[g] : e - 1 \in S
  OBVIOUS
<1> HIDE DEF S
<1>10. \A y \in S : y < Max(S) + 100
  BY <1>6, <1>8
<1> QED
  BY <1>7, <1>8, <1>9, <1>10

\* A blank row.
LEMMA BlankRow ==
  ASSUME NEW ei \in Nat
  PROVE  /\ Blank(ei) \in EntryType /\ Blank(ei).ei = ei /\ RowHonest(Blank(ei))
         /\ Blank(ei).stitch = 0 /\ Blank(ei).meant = 0
BY DEF Blank, Entry, EntryType, NoStitch, RowHonest

\* groupFields shows the entries it is given, or a blank one.
LEMMA PartShown ==
  ASSUME NEW gi \in Nat, NEW es \in Seq(EntryType)
  PROVE  LET part == GroupFields(gi, es)
         IN  /\ part \in PartType /\ part.gi = gi
             /\ es # << >> => part.entries = es
             /\ es = << >> => part.entries = << Blank(0) >>
<1>1. << Blank(0) >> \in Seq(EntryType)
  BY BlankRow
<1> QED
  BY <1>1 DEF GroupFields, PartType

\* Rows numbered from 0 have numbers of their own, in order.
LEMMA CountedRows ==
  ASSUME NEW n \in Nat, NEW t, DOMAIN t = 1 .. n, \A i \in 1 .. n : t[i] = i - 1
  PROVE  Distinct(t) /\ Increasing(t)
BY DEF Distinct, Increasing

\* The part of a rendered form for a group.
RenderedPart(groups, g) ==
  GroupFields(g - 1, [e \in DOMAIN groups[g] |->
                        Entry(e - 1, Selected(groups[g][e].id), groups[g][e].meant)])

\* What it looks like.
LEMMA RenderedPartShows ==
  ASSUME DOMAIN library \subseteq Nat, NEW groups \in Seq(Seq(FormEntry)),
         NEW g \in 1 .. Len(groups)
  PROVE  LET part == RenderedPart(groups, g)
         IN  /\ part \in PartType /\ part.gi = g - 1
             /\ Distinct(EntryIndices(part)) /\ Increasing(EntryIndices(part))
             /\ \A e \in DOMAIN part.entries :
                  /\ part.entries[e].ei = 0 \/ e \in DOMAIN groups[g]
                  /\ part.entries[e].ei = e - 1
                  /\ FormHonest(groups) => RowHonest(part.entries[e])
<1> DEFINE row(e) == Entry(e - 1, Selected(groups[g][e].id), groups[g][e].meant)
           es == [e \in DOMAIN groups[g] |-> row(e)]
           part == RenderedPart(groups, g)
           n == Len(groups[g])
<1>1. groups[g] \in Seq(FormEntry) /\ DOMAIN groups = 1 .. Len(groups) /\ Len(groups) \in Nat
  BY ElementOfSeq, LenProperties
<1>2. n \in Nat /\ DOMAIN groups[g] = 1 .. n
  BY <1>1, LenProperties
<1>3. \A e \in 1 .. n : groups[g][e] \in FormEntry
  BY <1>1, ElementOfSeq
<1>4. ASSUME NEW e \in 1 .. n
      PROVE  /\ row(e) \in EntryType /\ row(e).ei = e - 1
             /\ FormHonest(groups) => RowHonest(row(e))
  <2>1. groups[g][e].id \in Nat /\ groups[g][e].meant \in Nat
    BY <1>3 DEF FormEntry
  <2>2. Selected(groups[g][e].id) \in Nat
    BY <2>1 DEF Selected, NoStitch
  <2>3. row(e) \in EntryType /\ row(e).ei = e - 1
    BY <2>1, <2>2 DEF Entry, EntryType
  <2>4. ASSUME FormHonest(groups) PROVE RowHonest(row(e))
    <3>1. groups[g][e].id = groups[g][e].meant
      BY <1>1, <1>2, <2>4 DEF FormHonest
    <3> QED
      BY <3>1 DEF Entry, RowHonest, Selected
  <2> QED
    BY <2>3, <2>4
<1>5. es \in Seq(EntryType) /\ Len(es) = n /\ DOMAIN es = 1 .. n
  <2> HIDE DEF row
  <2>1. es = [e \in 1 .. n |-> row(e)]
    BY <1>2
  <2> QED
    BY <1>2, <1>4, <2>1
<1>6. g - 1 \in Nat
  OBVIOUS
<1>7. /\ part \in PartType /\ part.gi = g - 1
      /\ es # << >> => part.entries = es
      /\ es = << >> => part.entries = << Blank(0) >>
  BY <1>5, <1>6, PartShown DEF RenderedPart
<1> HIDE DEF part
<1>8. CASE n # 0
  <2>1. part.entries = es
    BY <1>5, <1>7, <1>8
  <2>2. \A e \in 1 .. n : part.entries[e] = row(e)
    BY <1>2, <2>1
  <2>3. DOMAIN part.entries = 1 .. n
    BY <1>5, <2>1
  <2> HIDE DEF row, es, n
  <2>4. \A e \in 1 .. n : part.entries[e].ei = e - 1
    BY <1>4, <2>2
  <2>5. DOMAIN EntryIndices(part) = 1 .. n /\ \A e \in 1 .. n : EntryIndices(part)[e] = e - 1
    BY <2>3, <2>4 DEF EntryIndices
  <2>6. Distinct(EntryIndices(part)) /\ Increasing(EntryIndices(part))
    BY <1>2, <2>5, CountedRows
  <2> QED
    BY <1>2, <1>4, <1>7, <2>2, <2>3, <2>4, <2>6 DEF part
<1>9. CASE n = 0
  <2>1. part.entries = << Blank(0) >>
    BY <1>5, <1>7, <1>9
  <2>2. DOMAIN part.entries = 1 .. 1 /\ part.entries[1] = Blank(0)
    BY <2>1
  <2>3. DOMAIN EntryIndices(part) = 1 .. 1 /\ \A e \in 1 .. 1 : EntryIndices(part)[e] = e - 1
    BY <2>2, BlankRow DEF EntryIndices
  <2>4. Distinct(EntryIndices(part)) /\ Increasing(EntryIndices(part))
    BY <2>3, CountedRows
  <2> QED
    BY <1>7, <2>2, <2>4, BlankRow DEF part
<1> QED
  BY <1>2, <1>8, <1>9

\* A rendered form numbers its rows, and shows what is meant.
LEMMA PageRendered ==
  ASSUME DOMAIN library \subseteq Nat, NEW groups \in Seq(Seq(FormEntry)),
         NEW from \in {"none", "new", "stored", "invalid", "refused"}
  PROVE  LET p == EditorPage(from, groups)
         IN  /\ p \in PageType /\ p.from = from /\ p.next > 0
             /\ Numbered(p.parts) /\ Below(p.parts, p.next) /\ RowsInOrder(p.parts)
             /\ FormHonest(groups) => RowsHonest(p.parts)
<1> DEFINE page0 == EditorPage(from, groups)
           next == NextSignalIndex(groups)
           n == Len(groups)
<1>1. /\ next \in Nat /\ next > 0
      /\ \A g \in DOMAIN groups :
           g - 1 < next /\ \A e \in DOMAIN groups[g] : e - 1 < next
  BY NextIsBeyond
<1>2. n \in Nat /\ DOMAIN groups = 1 .. n
  BY LenProperties
<1>3. page0 = [from |-> from,
               parts |-> IF groups = << >> THEN << GroupFields(0, << >>) >>
                         ELSE [g \in DOMAIN groups |-> RenderedPart(groups, g)],
               next |-> next]
  BY DEF EditorPage, RenderedPart
<1>4. page0.from = from /\ page0.next = next
  BY <1>3
<1> DEFINE Shown(part, g) ==
             /\ part \in PartType /\ part.gi = g - 1 /\ part.gi < next
             /\ Distinct(EntryIndices(part)) /\ Increasing(EntryIndices(part))
             /\ \A e \in DOMAIN part.entries :
                  /\ part.entries[e].ei < next
                  /\ FormHonest(groups) => RowHonest(part.entries[e])
           Rows(m, parts) == /\ parts \in Seq(PartType) /\ DOMAIN parts = 1 .. m
                             /\ \A g \in 1 .. m : Shown(parts[g], g)
<1>5. \E m \in Nat : Rows(m, page0.parts)
  <2>1. CASE groups = << >>
    <3> DEFINE part == GroupFields(0, << >>)
    <3>1. page0.parts = << part >>
      BY <1>3, <2>1
    <3>2. part \in PartType /\ part.gi = 0 /\ part.entries = << Blank(0) >>
      <4>1. << >> \in Seq(EntryType)
        OBVIOUS
      <4> QED
        BY <4>1, PartShown
    <3> HIDE DEF part
    <3>3. DOMAIN part.entries = 1 .. 1 /\ part.entries[1] = Blank(0)
      BY <3>2
    <3>4. DOMAIN EntryIndices(part) = 1 .. 1 /\ \A e \in 1 .. 1 : EntryIndices(part)[e] = e - 1
      BY <3>3, BlankRow DEF EntryIndices
    <3>5. Distinct(EntryIndices(part)) /\ Increasing(EntryIndices(part))
      BY <3>4, CountedRows
    <3>6. Shown(part, 1)
      BY <1>1, <3>2, <3>3, <3>5, BlankRow
    <3> HIDE DEF Shown
    <3>7. Rows(1, page0.parts)
      BY <3>1, <3>2, <3>6
    <3> QED
      BY <3>7
  <2>2. CASE groups # << >>
    <3>1. page0.parts = [g \in 1 .. n |-> RenderedPart(groups, g)]
      BY <1>2, <1>3, <2>2
    <3>2. ASSUME NEW g \in 1 .. n PROVE Shown(RenderedPart(groups, g), g)
      <4> DEFINE part == RenderedPart(groups, g)
      <4>1. /\ part \in PartType /\ part.gi = g - 1
            /\ Distinct(EntryIndices(part)) /\ Increasing(EntryIndices(part))
            /\ \A e \in DOMAIN part.entries :
                 /\ part.entries[e].ei = 0 \/ e \in DOMAIN groups[g]
                 /\ part.entries[e].ei = e - 1
                 /\ FormHonest(groups) => RowHonest(part.entries[e])
        BY RenderedPartShows
      <4> HIDE DEF part
      <4>2. part.gi < next /\ \A e \in DOMAIN part.entries : part.entries[e].ei < next
        BY <1>1, <1>2, <4>1
      <4> QED
        BY <4>1, <4>2 DEF part
    <3>3. \A g \in 1 .. n : RenderedPart(groups, g) \in PartType
      BY <3>2
    <3> HIDE DEF Shown
    <3>4. page0.parts \in Seq(PartType)
      BY <1>2, <3>1, <3>3
    <3>5. DOMAIN page0.parts = 1 .. n /\ \A g \in 1 .. n : page0.parts[g] = RenderedPart(groups, g)
      BY <3>1
    <3>6. Rows(n, page0.parts)
      BY <3>2, <3>4, <3>5
    <3> QED
      BY <1>2, <3>6
  <2> QED
    BY <2>1, <2>2
<1>6. PICK m \in Nat : Rows(m, page0.parts)
  BY <1>5
<1>7. page0 \in PageType
  BY <1>1, <1>3, <1>6 DEF PageType
<1> HIDE DEF page0, next
<1>8. DOMAIN page0.parts = 1 .. m /\ \A g \in 1 .. m : Shown(page0.parts[g], g)
  BY <1>6
<1>9. Distinct(Indices(page0.parts)) /\ Increasing(Indices(page0.parts))
  <2>1. DOMAIN Indices(page0.parts) = 1 .. m /\ \A g \in 1 .. m : Indices(page0.parts)[g] = g - 1
    BY <1>8 DEF Indices
  <2> QED
    BY <2>1, CountedRows
<1>10. Numbered(page0.parts) /\ Below(page0.parts, next) /\ RowsInOrder(page0.parts)
  BY <1>8, <1>9 DEF Numbered, Below, RowsInOrder
<1>11. FormHonest(groups) => RowsHonest(page0.parts)
  BY <1>8 DEF RowsHonest
<1> QED
  BY <1>1, <1>4, <1>7, <1>10, <1>11 DEF page0

-----------------------------------------------------------------------------
(***************************************************************************)
(* Reading a form.                                                         *)
(***************************************************************************)

\* parsePatternForm takes every part and entry of the form once; when their
\* numbers increase, in the order shown.
LEMMA FormParsed ==
  ASSUME NEW parts \in Seq(PartType), Numbered(parts)
  PROVE  LET form == Parsed(parts)
             row(p, e) == [id    |-> parts[p].entries[e].stitch,
                           meant |-> parts[p].entries[e].meant]
         IN  /\ form \in Seq(Seq(FormEntry)) /\ DOMAIN form = DOMAIN parts
             /\ \A g \in DOMAIN form : \A e \in DOMAIN form[g] :
                  \E p \in DOMAIN parts : \E d \in DOMAIN parts[p].entries :
                    form[g][e] = row(p, d)
             /\ RowsInOrder(parts) =>
                  \A g \in DOMAIN form :
                    /\ DOMAIN form[g] = DOMAIN parts[g].entries
                    /\ \A e \in DOMAIN form[g] : form[g][e] = row(g, e)
<1> DEFINE n == Len(parts)
           row(p, e) == [id    |-> parts[p].entries[e].stitch,
                         meant |-> parts[p].entries[e].meant]
           groups == CollectFormIndices({parts[p].gi : p \in DOMAIN parts})
           place(g) == CHOOSE p \in DOMAIN parts : parts[p].gi = groups[g]
           order(p) == CollectFormIndices(
                         {parts[p].entries[e].ei : e \in DOMAIN parts[p].entries})
           entryPlace(p, e) == CHOOSE d \in DOMAIN parts[p].entries :
                                 parts[p].entries[d].ei = order(p)[e]
           form == Parsed(parts)
<1>1. n \in Nat /\ DOMAIN parts = 1 .. n
  BY LenProperties
<1>2. ASSUME NEW p \in 1 .. n
      PROVE  /\ parts[p] \in PartType /\ parts[p].entries \in Seq(EntryType)
             /\ Len(parts[p].entries) \in Nat
             /\ DOMAIN parts[p].entries = 1 .. Len(parts[p].entries)
             /\ \A e \in DOMAIN parts[p].entries : row(p, e) \in FormEntry
  <2>1. parts[p] \in PartType
    BY <1>1, ElementOfSeq
  <2>2. parts[p].entries \in Seq(EntryType)
    BY <2>1 DEF PartType
  <2>3. /\ Len(parts[p].entries) \in Nat
        /\ DOMAIN parts[p].entries = 1 .. Len(parts[p].entries)
    BY <2>2, LenProperties
  <2>4. \A e \in DOMAIN parts[p].entries : parts[p].entries[e] \in EntryType
    BY <2>2, <2>3, ElementOfSeq
  <2> QED
    BY <2>1, <2>2, <2>3, <2>4 DEF EntryType, FormEntry
<1>3. /\ DOMAIN groups = 1 .. n
      /\ \A g \in 1 .. n : place(g) \in 1 .. n /\ (RowsInOrder(parts) => place(g) = g)
  <2> DEFINE t == Indices(parts)
  <2>1. t \in [1 .. n -> Nat] /\ Distinct(t) /\ \A p \in 1 .. n : t[p] = parts[p].gi
    BY <1>1, <1>2 DEF Numbered, Indices, PartType
  <2>2. RowsInOrder(parts) => Increasing(t)
    BY DEF RowsInOrder
  <2> HIDE DEF t
  <2>3. {t[p] : p \in 1 .. n} = {parts[p].gi : p \in DOMAIN parts}
    BY <1>1, <2>1
  <2> DEFINE o == CollectFormIndices({t[p] : p \in 1 .. n})
  <2>4. o = groups
    BY <2>3
  <2>5. \A g \in 1 .. n : place(g) = CHOOSE p \in 1 .. n : t[p] = o[g]
    <3> TAKE g \in 1 .. n
    <3> HIDE DEF o, groups
    <3>1. \A p \in 1 .. n : t[p] = o[g] <=> parts[p].gi = groups[g]
      BY <2>1, <2>4
    <3> QED
      BY <1>1, <3>1
  <2>6. ASSUME NEW g \in 1 .. n
        PROVE  LET p == CHOOSE p \in 1 .. n : t[p] = o[g]
               IN  DOMAIN o = 1 .. n /\ p \in 1 .. n /\ (Increasing(t) => p = g)
    BY <1>1, <2>1, PlaceOf
  <2>7. DOMAIN o = 1 .. n
    <3>1. Cardinality({t[p] : p \in 1 .. n}) = n
      BY <1>1, <2>1, DistinctCount
    <3>2. o \in [1 .. n -> {t[p] : p \in 1 .. n}]
      BY <1>1, <2>1, <3>1, DistinctCount, CollectedInOrder
    <3> QED
      BY <3>2
  <2> HIDE DEF o, groups, place
  <2> QED
    BY <2>2, <2>4, <2>5, <2>6, <2>7
<1>4. ASSUME NEW p \in 1 .. n, NEW e \in DOMAIN parts[p].entries
      PROVE  /\ entryPlace(p, e) \in DOMAIN parts[p].entries
             /\ RowsInOrder(parts) => entryPlace(p, e) = e
  <2> DEFINE es == parts[p].entries
             m == Len(es)
             t == EntryIndices(parts[p])
  <2>1. m \in Nat /\ DOMAIN es = 1 .. m /\ es \in Seq(EntryType) /\ e \in 1 .. m
    BY <1>2
  <2>2. \A d \in 1 .. m : es[d] \in EntryType
    BY <2>1, ElementOfSeq
  <2>3. t \in [1 .. m -> Nat] /\ \A d \in 1 .. m : t[d] = es[d].ei
    BY <2>1, <2>2 DEF EntryIndices, EntryType
  <2>4. Distinct(t) /\ (RowsInOrder(parts) => Increasing(t))
    BY <1>1 DEF Numbered, RowsInOrder
  <2> HIDE DEF t, m
  <2>5. {t[d] : d \in 1 .. m} = {es[d].ei : d \in DOMAIN es}
    BY <2>1, <2>3
  <2> DEFINE o == CollectFormIndices({t[d] : d \in 1 .. m})
  <2>6. o = order(p)
    BY <2>5
  <2>7. entryPlace(p, e) = CHOOSE d \in 1 .. m : t[d] = o[e]
    <3> HIDE DEF o, order
    <3>1. \A d \in 1 .. m : t[d] = o[e] <=> es[d].ei = order(p)[e]
      BY <2>3, <2>6
    <3> QED
      BY <2>1, <3>1
  <2>8. LET d == CHOOSE d \in 1 .. m : t[d] = o[e]
        IN  DOMAIN o = 1 .. m /\ d \in 1 .. m /\ (Increasing(t) => d = e)
    BY <2>1, <2>3, <2>4, PlaceOf
  <2> HIDE DEF o, order, entryPlace
  <2> QED
    BY <2>1, <2>4, <2>7, <2>8
<1>5. form = [g \in DOMAIN groups |->
                [e \in DOMAIN parts[place(g)].entries |->
                   row(place(g), entryPlace(place(g), e))]]
  BY DEF Parsed
<1> HIDE DEF form, groups, place, entryPlace, row
<1>6. form = [g \in 1 .. n |->
                [e \in DOMAIN parts[place(g)].entries |->
                   row(place(g), entryPlace(place(g), e))]]
  BY <1>3, <1>5
<1>7. ASSUME NEW g \in 1 .. n
      PROVE  /\ form[g] \in Seq(FormEntry)
             /\ DOMAIN form[g] = DOMAIN parts[place(g)].entries
             /\ \A e \in DOMAIN form[g] :
                  form[g][e] = row(place(g), entryPlace(place(g), e))
  <2> DEFINE p == place(g)
  <2>1. p \in 1 .. n
    BY <1>3
  <2>2. form[g] = [e \in DOMAIN parts[p].entries |-> row(p, entryPlace(p, e))]
    BY <1>6
  <2> HIDE DEF p
  <2>3. \A e \in DOMAIN parts[p].entries : row(p, entryPlace(p, e)) \in FormEntry
    BY <1>2, <1>4, <2>1
  <2>4. Len(parts[p].entries) \in Nat /\ DOMAIN parts[p].entries = 1 .. Len(parts[p].entries)
    BY <1>2, <2>1
  <2>5. form[g] \in Seq(FormEntry)
    BY <2>2, <2>3, <2>4
  <2> QED
    BY <2>2, <2>5 DEF p
<1>8. form \in Seq(Seq(FormEntry)) /\ DOMAIN form = 1 .. n
  <2>1. DOMAIN form = 1 .. n /\ form = [g \in 1 .. n |-> form[g]]
    BY <1>6
  <2> QED
    BY <1>1, <1>7, <2>1
<1>9. ASSUME NEW g \in 1 .. n, NEW e \in DOMAIN form[g]
      PROVE  \E p \in DOMAIN parts : \E d \in DOMAIN parts[p].entries : form[g][e] = row(p, d)
  BY <1>1, <1>3, <1>4, <1>7
<1>10. ASSUME RowsInOrder(parts), NEW g \in 1 .. n
       PROVE  /\ DOMAIN form[g] = DOMAIN parts[g].entries
              /\ \A e \in DOMAIN form[g] : form[g][e] = row(g, e)
  <2>1. place(g) = g
    BY <1>3, <1>10
  <2>2. \A e \in DOMAIN parts[g].entries : entryPlace(g, e) = e
    BY <1>4, <1>10
  <2> QED
    BY <1>7, <2>1, <2>2
<1> QED
  BY <1>1, <1>8, <1>9, <1>10 DEF form, row

-----------------------------------------------------------------------------
(***************************************************************************)
(* Looking the stitches up.                                                *)
(***************************************************************************)

\* Min of a non-empty set of naturals is its least element.
LEMMA MinOfNaturals ==
  ASSUME NEW S \in SUBSET Nat, S # {}
  PROVE  Min(S) \in S /\ \A y \in S : Min(S) <= y
BY LeastNatural DEF Min

\* What FlattenSeq builds, up to the m-th sequence.
Built(seqs, m, f) ==
  f = [i \in 1 .. m |-> IF i = 1 THEN seqs[i] ELSE f[i - 1] \o seqs[i]]

\* There is such a function up to every number.
LEMMA BuiltExists ==
  ASSUME NEW seqs
  PROVE  \A m \in Nat : \E f : Built(seqs, m, f)
<1> DEFINE N == {m \in Nat : \E f : Built(seqs, m, f)}
<1>1. 0 \in N
  <2> DEFINE f == [i \in 1 .. 0 |-> 0]
  <2>1. f = [i \in 1 .. 0 |-> IF i = 1 THEN seqs[i] ELSE f[i - 1] \o seqs[i]]
    OBVIOUS
  <2> HIDE DEF f
  <2>2. Built(seqs, 0, f)
    BY <2>1 DEF Built
  <2> QED
    BY <2>2
<1>2. ASSUME NEW m \in Nat, m \in N PROVE m + 1 \in N
  <2>1. PICK f : Built(seqs, m, f)
    BY <1>2
  <2> DEFINE g == [i \in 1 .. m + 1 |->
                     IF i = m + 1 THEN IF i = 1 THEN seqs[i] ELSE f[i - 1] \o seqs[i]
                     ELSE f[i]]
  <2>2. \A i \in 1 .. m : f[i] = IF i = 1 THEN seqs[i] ELSE f[i - 1] \o seqs[i]
    BY <2>1 DEF Built
  <2>3. \A i \in 1 .. m + 1 : g[i] = IF i = 1 THEN seqs[i] ELSE g[i - 1] \o seqs[i]
    <3> TAKE i \in 1 .. m + 1
    <3>1. i # 1 => i - 1 \in 1 .. m /\ g[i - 1] = f[i - 1]
      OBVIOUS
    <3>2. CASE i = m + 1
      BY <3>1, <3>2
    <3>3. CASE i \in 1 .. m
      <4>1. g[i] = f[i]
        BY <3>3
      <4> QED
        BY <2>2, <3>1, <3>3, <4>1
    <3> QED
      BY <3>2, <3>3
  <2>4. g = [i \in 1 .. m + 1 |-> g[i]]
    OBVIOUS
  <2> HIDE DEF g
  <2>5. Built(seqs, m + 1, g)
    BY <2>3, <2>4 DEF Built
  <2> QED
    BY <2>5
<1> HIDE DEF N
<1>3. \A m \in Nat : m \in N
  BY <1>1, <1>2, NaturalsByInduction
<1> QED
  BY <1>3 DEF N

\* FlattenSeq leaves nothing out.
LEMMA FlattenedHasAll ==
  ASSUME NEW X, NEW seqs \in Seq(Seq(X))
  PROVE  /\ FlattenSeq(seqs) \in Seq(X)
         /\ \A g \in DOMAIN seqs : \A e \in DOMAIN seqs[g] :
              \E i \in DOMAIN FlattenSeq(seqs) : FlattenSeq(seqs)[i] = seqs[g][e]
<1> DEFINE n == Len(seqs)
<1>1. n \in Nat /\ DOMAIN seqs = 1 .. n /\ \A g \in 1 .. n : seqs[g] \in Seq(X)
  BY LenProperties, ElementOfSeq
<1>2. CASE n = 0
  <2>1. FlattenSeq(seqs) = seqs
    BY <1>2 DEF FlattenSeq
  <2>2. seqs = << >>
    BY <1>1, <1>2
  <2> QED
    BY <2>1, <2>2
<1>3. CASE n # 0
  <2> DEFINE f == CHOOSE f : Built(seqs, n, f)
  <2>1. Built(seqs, n, f)
    BY <1>1, BuiltExists
  <2>2. FlattenSeq(seqs) = f[n]
    BY <1>3 DEF FlattenSeq, Built
  <2> HIDE DEF f
  <2>3. \A i \in 1 .. n : f[i] = IF i = 1 THEN seqs[i] ELSE f[i - 1] \o seqs[i]
    BY <2>1 DEF Built
  <2> DEFINE Has(s, g) == \A e \in DOMAIN seqs[g] : \E i \in DOMAIN s : s[i] = seqs[g][e]
             N == {m \in Nat : m + 1 \in 1 .. n =>
                     f[m + 1] \in Seq(X) /\ \A g \in 1 .. m + 1 : Has(f[m + 1], g)}
  <2>4. 0 \in N
    <3>1. 1 \in 1 .. n /\ f[1] = seqs[1] /\ seqs[1] \in Seq(X)
      BY <1>1, <1>3, <2>3
    <3>2. \A g \in 1 .. 1 : Has(f[1], g)
      BY <3>1
    <3> QED
      BY <3>1, <3>2
  <2>5. ASSUME NEW m \in Nat, m \in N PROVE m + 1 \in N
    <3> DEFINE k == m + 1
    <3> SUFFICES ASSUME k + 1 \in 1 .. n
                 PROVE  f[k + 1] \in Seq(X) /\ \A g \in 1 .. k + 1 : Has(f[k + 1], g)
      OBVIOUS
    <3>1. k \in 1 .. n /\ f[k] \in Seq(X) /\ \A g \in 1 .. k : Has(f[k], g)
      BY <2>5
    <3> DEFINE s == f[k]
               t == seqs[k + 1]
               u == f[k + 1]
    <3>2. u = s \o t /\ t \in Seq(X) /\ s \in Seq(X)
      <4>1. k + 1 # 1 /\ (k + 1) - 1 = k
        BY <3>1
      <4>2. f[k + 1] = IF k + 1 = 1 THEN seqs[k + 1] ELSE f[(k + 1) - 1] \o seqs[k + 1]
        BY <2>3
      <4> QED
        BY <1>1, <3>1, <4>1, <4>2
    <3> HIDE DEF s, t, u
    <3>3. /\ u \in Seq(X) /\ Len(u) = Len(s) + Len(t)
          /\ \A i \in 1 .. Len(s) + Len(t) :
               u[i] = IF i <= Len(s) THEN s[i] ELSE t[i - Len(s)]
      BY <3>2, ConcatProperties
    <3>4. /\ Len(s) \in Nat /\ DOMAIN s = 1 .. Len(s)
          /\ Len(t) \in Nat /\ DOMAIN t = 1 .. Len(t)
          /\ DOMAIN u = 1 .. Len(u)
      BY <3>2, <3>3, LenProperties
    <3>5. \A i \in DOMAIN s : i \in DOMAIN u /\ u[i] = s[i]
      BY <3>3, <3>4
    <3>6. \A i \in DOMAIN t : i + Len(s) \in DOMAIN u /\ u[i + Len(s)] = t[i]
      <4> TAKE i \in DOMAIN t
      <4>1. i \in 1 .. Len(t) /\ i + Len(s) \in 1 .. Len(s) + Len(t)
            /\ ~ (i + Len(s) <= Len(s)) /\ (i + Len(s)) - Len(s) = i
        BY <3>4
      <4> QED
        BY <3>3, <3>4, <4>1
    <3>7. ASSUME NEW g \in 1 .. k PROVE Has(u, g)
      <4>1. Has(s, g)
        BY <3>1 DEF s
      <4> QED
        BY <3>5, <4>1
    <3>8. Has(u, k + 1)
      BY <3>6 DEF t
    <3>9. ASSUME NEW g \in 1 .. k + 1 PROVE g \in 1 .. k \/ g = k + 1
      OBVIOUS
    <3> HIDE DEF Has, k
    <3>10. \A g \in 1 .. k + 1 : Has(u, g)
      BY <3>7, <3>8, <3>9
    <3> QED
      BY <3>3, <3>10 DEF u
  <2> HIDE DEF N
  <2>6. \A m \in Nat : m \in N
    BY <2>4, <2>5, NaturalsByInduction
  <2>7. n - 1 \in N /\ (n - 1) + 1 = n /\ n \in 1 .. n
    BY <1>1, <1>3, <2>6
  <2>8. f[n] \in Seq(X) /\ \A g \in 1 .. n : Has(f[n], g)
    BY <2>7 DEF N
  <2> QED
    BY <1>1, <2>2, <2>8
<1> QED
  BY <1>2, <1>3

\* The stitches still to look up: each id of the form is among those wanted,
\* and the first that is not resolved is one that was not found yet.
LEMMA LookUp ==
  ASSUME saving \in SavingType
  PROVE  LET seen == {saving.found[k].lib : k \in DOMAIN saving.found}
         IN  /\ Unresolved # 0 => WantedIds[Unresolved] \in Nat
             /\ Unresolved = 0 =>
                  \A g \in DOMAIN saving.form : \A e \in DOMAIN saving.form[g] :
                    saving.form[g][e].id \in seen
<1> DEFINE form == saving.form
           seqs == [g \in DOMAIN form |-> [e \in DOMAIN form[g] |-> form[g][e].id]]
           seen == {saving.found[k].lib : k \in DOMAIN saving.found}
           I == {i \in 1 .. Len(WantedIds) : WantedIds[i] \notin seen}
<1>1. form \in Seq(Seq(FormEntry))
  BY DEF SavingType
<1>2. Len(form) \in Nat /\ DOMAIN form = 1 .. Len(form)
      /\ \A g \in 1 .. Len(form) : form[g] \in Seq(FormEntry)
  BY <1>1, LenProperties, ElementOfSeq
<1>3. ASSUME NEW g \in 1 .. Len(form)
      PROVE  [e \in DOMAIN form[g] |-> form[g][e].id] \in Seq(Nat)
  <2>1. form[g] \in Seq(FormEntry)
    BY <1>2
  <2>2. /\ Len(form[g]) \in Nat /\ DOMAIN form[g] = 1 .. Len(form[g])
        /\ \A e \in 1 .. Len(form[g]) : form[g][e] \in FormEntry
    BY <2>1, LenProperties, ElementOfSeq
  <2>3. \A e \in 1 .. Len(form[g]) : form[g][e].id \in Nat
    BY <2>2 DEF FormEntry
  <2> HIDE DEF form
  <2> QED
    BY <2>2, <2>3
<1>4. seqs \in Seq(Seq(Nat))
  <2> DEFINE ids(g) == [e \in DOMAIN form[g] |-> form[g][e].id]
  <2>1. seqs = [g \in 1 .. Len(form) |-> ids(g)]
    BY <1>2
  <2>2. \A g \in 1 .. Len(form) : ids(g) \in Seq(Nat)
    BY <1>3
  <2> HIDE DEF ids, seqs, form
  <2> QED
    BY <1>2, <2>1, <2>2
<1>5. WantedIds = FlattenSeq(seqs)
  BY DEF WantedIds
<1>6. /\ WantedIds \in Seq(Nat)
      /\ \A g \in DOMAIN seqs : \A e \in DOMAIN seqs[g] :
           \E i \in DOMAIN WantedIds : WantedIds[i] = seqs[g][e]
  <2> HIDE DEF seqs
  <2> QED
    BY <1>4, <1>5, FlattenedHasAll
<1>7. Len(WantedIds) \in Nat /\ DOMAIN WantedIds = 1 .. Len(WantedIds)
      /\ \A i \in 1 .. Len(WantedIds) : WantedIds[i] \in Nat
  BY <1>6, LenProperties, ElementOfSeq
<1>8. Unresolved = IF I # {} THEN Min(I) ELSE 0
  BY DEF Unresolved, SelectInSeq
<1>9. I # {} => Min(I) \in I
  <2>1. I \in SUBSET Nat
    BY <1>7
  <2> QED
    BY <2>1, MinOfNaturals
<1>10. Unresolved # 0 => WantedIds[Unresolved] \in Nat
  BY <1>7, <1>8, <1>9
<1>11. ASSUME Unresolved = 0, NEW g \in DOMAIN form, NEW e \in DOMAIN form[g]
       PROVE  form[g][e].id \in seen
  <2>1. I = {}
    <3>1. 0 \notin I
      OBVIOUS
    <3> QED
      BY <1>8, <1>9, <1>11, <3>1
  <2>2. g \in DOMAIN seqs /\ e \in DOMAIN seqs[g] /\ seqs[g][e] = form[g][e].id
    BY <1>11
  <2>3. PICK i \in DOMAIN WantedIds : WantedIds[i] = seqs[g][e]
    BY <1>6, <2>2
  <2> QED
    BY <1>7, <2>1, <2>2, <2>3
<1> QED
  BY <1>10, <1>11

\* The index of an id that was found is the place of a stitch copied from it.
LEMMA IndexFound ==
  ASSUME saving \in SavingType, NEW id,
         id \in {saving.found[k].lib : k \in DOMAIN saving.found}
  PROVE  /\ IndexOf(id) \in Nat /\ IndexOf(id) + 1 \in DOMAIN saving.found
         /\ saving.found[IndexOf(id) + 1].lib = id
<1> DEFINE found == saving.found
           I == {k \in 1 .. Len(found) : found[k].lib = id}
<1>1. Len(found) \in Nat /\ DOMAIN found = 1 .. Len(found)
  <2>1. found \in Seq(StitchRow)
    BY DEF SavingType
  <2> QED
    BY <2>1, LenProperties
<1>2. I \in SUBSET Nat /\ I # {}
  BY <1>1
<1>3. IndexOf(id) = Min(I) - 1
  BY <1>2 DEF IndexOf, SelectInSeq
<1>4. Min(I) \in I
  BY <1>2, MinOfNaturals
<1> HIDE DEF I
<1>5. Min(I) \in 1 .. Len(found) /\ found[Min(I)].lib = id
  BY <1>4 DEF I
<1>6. Min(I) - 1 \in Nat /\ (Min(I) - 1) + 1 = Min(I)
  BY <1>1, <1>5
<1> QED
  BY <1>1, <1>3, <1>5, <1>6

-----------------------------------------------------------------------------
(***************************************************************************)
(* Every step keeps the invariant.  First, the steps of the browser.       *)
(***************************************************************************)

\* Fewer rows, in the same order, with the numbers they had.
ThinnedRows(es, ds) ==
  \E k \in [DOMAIN ds -> DOMAIN es] :
    Increasing(k) /\ \A d \in DOMAIN ds : ds[d].ei = es[k[d]].ei

Thinned(parts, qs) ==
  \E h \in [DOMAIN qs -> DOMAIN parts] :
    /\ Increasing(h)
    /\ \A q \in DOMAIN qs :
         qs[q].gi = parts[h[q]].gi /\ ThinnedRows(parts[h[q]].entries, qs[q].entries)

\* Numbers that are distinct, or in order, remain so when some are taken out.
LEMMA ThinnedNumbers ==
  ASSUME NEW m \in Nat, NEW n \in Nat, NEW t, NEW u, NEW k \in [1 .. m -> 1 .. n],
         DOMAIN t = 1 .. n, DOMAIN u = 1 .. m,
         Increasing(k), \A i \in 1 .. m : u[i] = t[k[i]]
  PROVE  /\ Distinct(t) => Distinct(u)
         /\ Increasing(t) => Increasing(u)
<1>1. \A i \in 1 .. m : \A j \in 1 .. m : i < j => k[i] < k[j]
  BY DEF Increasing
<1>2. \A i \in 1 .. m : k[i] \in 1 .. n
  OBVIOUS
<1>3. \A i \in 1 .. m : \A j \in 1 .. m : k[i] = k[j] => i = j
  <2> SUFFICES ASSUME NEW i \in 1 .. m, NEW j \in 1 .. m, k[i] = k[j], i # j PROVE FALSE
    OBVIOUS
  <2>1. i < j \/ j < i
    OBVIOUS
  <2>2. k[i] \in Int /\ k[j] \in Int
    BY <1>2
  <2> QED
    BY <1>1, <2>1, <2>2
<1>4. ASSUME Distinct(t) PROVE Distinct(u)
  BY <1>2, <1>3, <1>4 DEF Distinct
<1>5. ASSUME Increasing(t) PROVE Increasing(u)
  BY <1>1, <1>2, <1>5 DEF Increasing
<1> QED
  BY <1>4, <1>5

\* Forms have parts, which have entries.
LEMMA PartsTyped ==
  ASSUME NEW parts \in Seq(PartType)
  PROVE  /\ Len(parts) \in Nat /\ DOMAIN parts = 1 .. Len(parts)
         /\ \A p \in DOMAIN parts :
              /\ parts[p] \in PartType /\ parts[p].gi \in Nat
              /\ parts[p].entries \in Seq(EntryType)
              /\ Len(parts[p].entries) \in Nat
              /\ DOMAIN parts[p].entries = 1 .. Len(parts[p].entries)
              /\ \A e \in DOMAIN parts[p].entries :
                   /\ parts[p].entries[e] \in EntryType
                   /\ parts[p].entries[e].ei \in Nat
<1>1. Len(parts) \in Nat /\ DOMAIN parts = 1 .. Len(parts)
  BY LenProperties
<1>2. ASSUME NEW p \in DOMAIN parts
      PROVE  /\ parts[p] \in PartType /\ parts[p].gi \in Nat
             /\ parts[p].entries \in Seq(EntryType)
             /\ Len(parts[p].entries) \in Nat
             /\ DOMAIN parts[p].entries = 1 .. Len(parts[p].entries)
             /\ \A e \in DOMAIN parts[p].entries :
                  /\ parts[p].entries[e] \in EntryType
                  /\ parts[p].entries[e].ei \in Nat
  <2>1. parts[p] \in PartType
    BY <1>1, ElementOfSeq
  <2>2. parts[p].gi \in Nat /\ parts[p].entries \in Seq(EntryType)
    BY <2>1 DEF PartType
  <2>3. /\ Len(parts[p].entries) \in Nat
        /\ DOMAIN parts[p].entries = 1 .. Len(parts[p].entries)
    BY <2>2, LenProperties
  <2>4. \A e \in DOMAIN parts[p].entries : parts[p].entries[e] \in EntryType
    BY <2>2, <2>3, ElementOfSeq
  <2> QED
    BY <2>1, <2>2, <2>3, <2>4 DEF EntryType
<1> QED
  BY <1>1, <1>2

\* What is said of the numbers of a form holds of every part of it.
LEMMA ThinnedForm ==
  ASSUME NEW parts \in Seq(PartType), NEW qs \in Seq(PartType), Thinned(parts, qs)
  PROVE  /\ Numbered(parts) => Numbered(qs)
         /\ \A n : Below(parts, n) => Below(qs, n)
         /\ \A i : Unused(parts, i) => Unused(qs, i)
         /\ RowsInOrder(parts) => RowsInOrder(qs)
         /\ \A f : Behind(parts, f) => Behind(qs, f)
<1>1. PICK h \in [DOMAIN qs -> DOMAIN parts] :
        /\ Increasing(h)
        /\ \A q \in DOMAIN qs :
             qs[q].gi = parts[h[q]].gi /\ ThinnedRows(parts[h[q]].entries, qs[q].entries)
  BY DEF Thinned
<1>2. /\ Len(parts) \in Nat /\ DOMAIN parts = 1 .. Len(parts)
      /\ Len(qs) \in Nat /\ DOMAIN qs = 1 .. Len(qs)
  BY PartsTyped
<1>3. \A q \in DOMAIN qs : h[q] \in DOMAIN parts
  OBVIOUS
<1>4. ASSUME NEW q \in DOMAIN qs
      PROVE  /\ Distinct(EntryIndices(parts[h[q]])) => Distinct(EntryIndices(qs[q]))
             /\ Increasing(EntryIndices(parts[h[q]])) => Increasing(EntryIndices(qs[q]))
             /\ \A d \in DOMAIN qs[q].entries : \E e \in DOMAIN parts[h[q]].entries :
                  qs[q].entries[d].ei = parts[h[q]].entries[e].ei
  <2> DEFINE es == parts[h[q]].entries
             ds == qs[q].entries
  <2>1. PICK k \in [DOMAIN ds -> DOMAIN es] :
          Increasing(k) /\ \A d \in DOMAIN ds : ds[d].ei = es[k[d]].ei
    BY <1>1 DEF ThinnedRows
  <2>2. /\ Len(es) \in Nat /\ DOMAIN es = 1 .. Len(es)
        /\ Len(ds) \in Nat /\ DOMAIN ds = 1 .. Len(ds)
    BY <1>3, PartsTyped
  <2>3. /\ DOMAIN EntryIndices(parts[h[q]]) = 1 .. Len(es)
        /\ DOMAIN EntryIndices(qs[q]) = 1 .. Len(ds)
        /\ \A d \in 1 .. Len(ds) : EntryIndices(qs[q])[d] = EntryIndices(parts[h[q]])[k[d]]
    BY <2>1, <2>2 DEF EntryIndices
  <2> HIDE DEF es, ds
  <2>4. /\ Distinct(EntryIndices(parts[h[q]])) => Distinct(EntryIndices(qs[q]))
        /\ Increasing(EntryIndices(parts[h[q]])) => Increasing(EntryIndices(qs[q]))
    <3> DEFINE t == EntryIndices(parts[h[q]])
               u == EntryIndices(qs[q])
    <3>1. k \in [1 .. Len(ds) -> 1 .. Len(es)] /\ Increasing(k)
      BY <2>1, <2>2
    <3>2. Len(es) \in Nat /\ Len(ds) \in Nat
      BY <2>2
    <3> HIDE DEF t, u
    <3>3. /\ DOMAIN t = 1 .. Len(es) /\ DOMAIN u = 1 .. Len(ds)
          /\ \A d \in 1 .. Len(ds) : u[d] = t[k[d]]
      BY <2>3 DEF t, u
    <3>4. (Distinct(t) => Distinct(u)) /\ (Increasing(t) => Increasing(u))
      BY <3>1, <3>2, <3>3, ThinnedNumbers
    <3> QED
      BY <3>4 DEF t, u
  <2> QED
    BY <2>1, <2>4 DEF es, ds
<1>5. /\ Distinct(Indices(parts)) => Distinct(Indices(qs))
      /\ Increasing(Indices(parts)) => Increasing(Indices(qs))
  <2>1. /\ DOMAIN Indices(parts) = 1 .. Len(parts)
        /\ DOMAIN Indices(qs) = 1 .. Len(qs)
        /\ \A q \in 1 .. Len(qs) : Indices(qs)[q] = Indices(parts)[h[q]]
    BY <1>1, <1>2 DEF Indices
  <2> QED
    BY <1>1, <1>2, <2>1, ThinnedNumbers
<1>6. Numbered(parts) => Numbered(qs)
  BY <1>3, <1>4, <1>5 DEF Numbered
<1>7. RowsInOrder(parts) => RowsInOrder(qs)
  BY <1>3, <1>4, <1>5 DEF RowsInOrder
<1>8. ASSUME NEW n, Below(parts, n) PROVE Below(qs, n)
  BY <1>1, <1>3, <1>4, <1>8 DEF Below
<1>9. ASSUME NEW i, Unused(parts, i) PROVE Unused(qs, i)
  BY <1>1, <1>3, <1>4, <1>9 DEF Unused
<1>10. ASSUME NEW f, Behind(parts, f) PROVE Behind(qs, f)
  BY <1>1, <1>3, <1>4, <1>10 DEF Behind
<1> QED
  BY <1>6, <1>7, <1>8, <1>9, <1>10

\* RemoveAt takes one element out.
LEMMA RemovedAt ==
  ASSUME NEW X, NEW s \in Seq(X), NEW i \in DOMAIN s
  PROVE  LET r == RemoveAt(s, i)
             was(k) == IF k < i THEN k ELSE k + 1
         IN  /\ r \in Seq(X) /\ DOMAIN r = 1 .. Len(s) - 1
             /\ \A k \in DOMAIN r : was(k) \in DOMAIN s /\ r[k] = s[was(k)]
<1>1. Len(s) \in Nat /\ DOMAIN s = 1 .. Len(s) /\ i \in 1 .. Len(s)
  BY LenProperties
<1> DEFINE a == SubSeq(s, 1, i - 1)
           b == SubSeq(s, i + 1, Len(s))
           r == RemoveAt(s, i)
<1>2. r = a \o b
  BY DEF RemoveAt
<1>3. /\ a \in Seq(X) /\ Len(a) = i - 1
      /\ \A k \in 1 .. i - 1 : a[k] = s[k]
  <2>1. \A k \in 1 .. i - 1 : k \in DOMAIN s
    BY <1>1
  <2>2. i - 1 \in 0 .. Len(s)
    BY <1>1
  <2> QED
    BY <1>1, <2>1, <2>2
<1>4. /\ b \in Seq(X) /\ Len(b) = Len(s) - i
      /\ \A k \in 1 .. Len(s) - i : b[k] = s[k + i]
  BY <1>1
<1> HIDE DEF a, b, r
<1>5. /\ r \in Seq(X) /\ Len(r) = Len(s) - 1
      /\ \A k \in 1 .. Len(s) - 1 : r[k] = IF k <= i - 1 THEN a[k] ELSE b[k - (i - 1)]
  <2>1. /\ a \o b \in Seq(X) /\ Len(a \o b) = Len(a) + Len(b)
        /\ \A k \in 1 .. Len(a) + Len(b) :
             (a \o b)[k] = IF k <= Len(a) THEN a[k] ELSE b[k - Len(a)]
    BY <1>3, <1>4, ConcatProperties
  <2>2. Len(a) + Len(b) = Len(s) - 1
    BY <1>1, <1>3, <1>4
  <2> QED
    BY <1>2, <1>3, <2>1, <2>2
<1>6. DOMAIN r = 1 .. Len(s) - 1
  BY <1>5, LenProperties
<1>7. ASSUME NEW k \in 1 .. Len(s) - 1
      PROVE  LET w == IF k < i THEN k ELSE k + 1 IN w \in DOMAIN s /\ r[k] = s[w]
  <2>1. CASE k < i
    <3>1. k \in 1 .. i - 1 /\ k <= i - 1 /\ k \in DOMAIN s
      BY <1>1, <2>1
    <3> QED
      BY <1>3, <1>5, <2>1, <3>1
  <2>2. CASE ~ (k < i)
    <3>1. /\ ~ (k <= i - 1) /\ k - (i - 1) \in 1 .. Len(s) - i
          /\ (k - (i - 1)) + i = k + 1 /\ k + 1 \in DOMAIN s
      BY <1>1, <2>2
    <3> QED
      BY <1>4, <1>5, <2>2, <3>1
  <2> QED
    BY <2>1, <2>2
<1> QED
  BY <1>5, <1>6, <1>7 DEF r

\* Steps that leave everything to the invariant as it was.
LEMMA EditorStutters == EditorInv /\ UNCHANGED vars => EditorInv'
BY DEF EditorInv, vars, counters, Typed, StoredRefers, FragmentsFresh, InOrder, FormCarried,
       RowsHonest, RowHonest

\* Rows are taken out of the form, or change what they show.
LEMMA PageEdited ==
  ASSUME EditorInv, saving = NotSaving, page # NoPage,
         NEW qs \in Seq(PartType), Thinned(page.parts, qs),
         RowsHonest(page.parts) => RowsHonest(qs),
         page' = [page EXCEPT !.parts = qs],
         UNCHANGED << library, stored, arriving, overtaken, saving, counters >>
  PROVE  EditorInv'
<1>1. /\ page'.parts = qs /\ page'.next = page.next /\ page'.from = page.from
      /\ page' \in PageType
  BY DEF EditorInv, Typed, PageType
<1>2. page.parts \in Seq(PartType)
  BY DEF EditorInv, Typed, PageType
<1>3. /\ Numbered(page.parts) => Numbered(qs)
      /\ \A n : Below(page.parts, n) => Below(qs, n)
      /\ \A i : Unused(page.parts, i) => Unused(qs, i)
      /\ RowsInOrder(page.parts) => RowsInOrder(qs)
      /\ \A f : Behind(page.parts, f) => Behind(qs, f)
  BY <1>2, ThinnedForm
<1>4. Typed'
  BY <1>1 DEF EditorInv, Typed, counters
<1>5. StoredRefers'
  BY DEF EditorInv, StoredRefers
<1>6. Numbered(page.parts)'
  BY <1>1, <1>3 DEF EditorInv
<1>7. FragmentsFresh'
  BY <1>1, <1>3 DEF EditorInv, FragmentsFresh
<1>8. InOrder'
  BY <1>1, <1>3 DEF EditorInv, InOrder
<1>9. (page.from # "refused" => RowsHonest(page.parts))'
  BY <1>1 DEF EditorInv, RowsHonest, RowHonest
<1>10. FormCarried'
  BY DEF FormCarried, NotSaving
<1> QED
  BY <1>4, <1>5, <1>6, <1>7, <1>8, <1>9, <1>10 DEF EditorInv

\* Parts of a form are there only if the form is.
LEMMA PageHasParts ==
  ASSUME NEW p \in DOMAIN page.parts
  PROVE  page # NoPage
BY DEF NoPage

\* "Remove" of a part.
LEMMA RemovePartKeeps ==
  ASSUME EditorInv, NEW p \in DOMAIN page.parts, RemovePart(p)
  PROVE  EditorInv'
<1> DEFINE parts == page.parts
           qs == RemoveAt(parts, p)
<1>1. parts \in Seq(PartType)
  BY DEF EditorInv, Typed, PageType
<1>2. /\ qs \in Seq(PartType) /\ DOMAIN qs = 1 .. Len(parts) - 1
      /\ \A k \in DOMAIN qs : LET w == IF k < p THEN k ELSE k + 1
                              IN  w \in DOMAIN parts /\ qs[k] = parts[w]
  BY <1>1, RemovedAt
<1>3. page' = [page EXCEPT !.parts = qs]
  BY DEF RemovePart
<1>4. p \in Int /\ Len(parts) \in Nat
  BY <1>1, LenProperties
<1> HIDE DEF parts, qs
<1>5. Thinned(parts, qs)
  <2> DEFINE h == [k \in DOMAIN qs |-> IF k < p THEN k ELSE k + 1]
  <2>1. h \in [DOMAIN qs -> DOMAIN parts]
    BY <1>2
  <2>2. Increasing(h)
    BY <1>2, <1>4 DEF Increasing
  <2>3. \A k \in DOMAIN qs : qs[k] = parts[h[k]]
    BY <1>2
  <2>4. ASSUME NEW k \in DOMAIN qs
        PROVE  ThinnedRows(parts[h[k]].entries, qs[k].entries)
    <3> DEFINE es == qs[k].entries
               same == [d \in DOMAIN es |-> d]
    <3>1. parts[h[k]].entries = es
      BY <2>3
    <3>2. same \in [DOMAIN es -> DOMAIN es] /\ \A d \in DOMAIN es : es[d].ei = es[same[d]].ei
      OBVIOUS
    <3>3. Increasing(same)
      BY DEF Increasing
    <3> HIDE DEF same
    <3> QED
      BY <3>1, <3>2, <3>3 DEF ThinnedRows
  <2> HIDE DEF h
  <2> QED
    BY <2>1, <2>2, <2>3, <2>4 DEF Thinned
<1>6. RowsHonest(parts) => RowsHonest(qs)
  BY <1>2 DEF RowsHonest
<1> QED
  BY <1>2, <1>3, <1>5, <1>6, PageEdited, PageHasParts DEF RemovePart, parts

\* The rows of one part change.
LEMMA PartChanged ==
  ASSUME EditorInv, NEW p \in DOMAIN page.parts, NEW ds \in Seq(EntryType)
  PROVE  LET qs == [page.parts EXCEPT ![p].entries = ds]
         IN  /\ qs \in Seq(PartType) /\ DOMAIN qs = DOMAIN page.parts
             /\ qs[p].entries = ds
             /\ \A q \in DOMAIN qs : qs[q].gi = page.parts[q].gi
             /\ \A q \in DOMAIN qs \ {p} : qs[q] = page.parts[q]
<1> DEFINE parts == page.parts
           qs == [parts EXCEPT ![p].entries = ds]
<1>1. parts \in Seq(PartType)
  BY DEF EditorInv, Typed, PageType
<1>2. Len(parts) \in Nat /\ DOMAIN parts = 1 .. Len(parts)
      /\ \A q \in DOMAIN parts : parts[q] \in PartType
  BY <1>1, PartsTyped
<1> DEFINE part == [parts[p] EXCEPT !.entries = ds]
<1>3. part \in PartType /\ part.gi = parts[p].gi /\ part.entries = ds
  BY <1>2 DEF PartType
<1>4. qs = [q \in DOMAIN parts |-> IF q = p THEN part ELSE parts[q]]
  OBVIOUS
<1> HIDE DEF parts, part, qs
<1>5. \A q \in DOMAIN parts : (IF q = p THEN part ELSE parts[q]) \in PartType
  BY <1>2, <1>3
<1>6. qs \in Seq(PartType)
  BY <1>2, <1>4, <1>5
<1>7. /\ DOMAIN qs = DOMAIN parts /\ qs[p] = part
      /\ \A q \in DOMAIN qs \ {p} : qs[q] = parts[q]
  BY <1>4 DEF parts
<1>8. ASSUME NEW q \in DOMAIN qs PROVE qs[q].gi = parts[q].gi
  BY <1>3, <1>7
<1> QED
  BY <1>3, <1>6, <1>7, <1>8 DEF qs, parts

\* Rows are taken out of one part, or show something else.
LEMMA PartThinned ==
  ASSUME EditorInv, NEW p \in DOMAIN page.parts, NEW ds \in Seq(EntryType),
         ThinnedRows(page.parts[p].entries, ds)
  PROVE  Thinned(page.parts, [page.parts EXCEPT ![p].entries = ds])
<1> DEFINE parts == page.parts
           qs == [parts EXCEPT ![p].entries = ds]
           h == [q \in DOMAIN qs |-> q]
<1>1. /\ DOMAIN qs = DOMAIN parts /\ qs[p].entries = ds
      /\ \A q \in DOMAIN qs : qs[q].gi = parts[q].gi
      /\ \A q \in DOMAIN qs \ {p} : qs[q] = parts[q]
  BY PartChanged
<1> HIDE DEF qs
<1>2. h \in [DOMAIN qs -> DOMAIN parts] /\ \A q \in DOMAIN qs : h[q] = q
  BY <1>1
<1>3. Increasing(h)
  BY DEF Increasing
<1>4. ASSUME NEW q \in DOMAIN qs
      PROVE  ThinnedRows(parts[h[q]].entries, qs[q].entries)
  <2>1. CASE q = p
    BY <1>1, <1>2, <2>1
  <2>2. CASE q # p
    <3> DEFINE es == qs[q].entries
               same == [d \in DOMAIN es |-> d]
    <3>1. parts[h[q]].entries = es
      BY <1>1, <1>2, <2>2
    <3>2. same \in [DOMAIN es -> DOMAIN es] /\ \A d \in DOMAIN es : es[d].ei = es[same[d]].ei
      OBVIOUS
    <3>3. Increasing(same)
      BY DEF Increasing
    <3> HIDE DEF same
    <3> QED
      BY <3>1, <3>2, <3>3 DEF ThinnedRows
  <2> QED
    BY <2>1, <2>2
<1> HIDE DEF h
<1> QED
  BY <1>1, <1>2, <1>3, <1>4 DEF Thinned, qs

\* "Remove" of an entry.
LEMMA RemoveEntryKeeps ==
  ASSUME EditorInv, NEW p \in DOMAIN page.parts, NEW e \in DOMAIN page.parts[p].entries,
         RemoveEntry(p, e)
  PROVE  EditorInv'
<1> DEFINE es == page.parts[p].entries
           ds == RemoveAt(es, e)
           qs == [page.parts EXCEPT ![p].entries = ds]
<1>1. es \in Seq(EntryType)
  <2>1. page.parts \in Seq(PartType)
    BY DEF EditorInv, Typed, PageType
  <2> QED
    BY <2>1, PartsTyped
<1>2. /\ ds \in Seq(EntryType) /\ DOMAIN ds = 1 .. Len(es) - 1
      /\ \A k \in DOMAIN ds : LET w == IF k < e THEN k ELSE k + 1
                              IN  w \in DOMAIN es /\ ds[k] = es[w]
  BY <1>1, RemovedAt
<1>3. page' = [page EXCEPT !.parts = qs]
  BY DEF RemoveEntry
<1>4. e \in Int /\ Len(es) \in Nat
  BY <1>1, LenProperties
<1>5. ThinnedRows(es, ds)
  <2> DEFINE h == [k \in DOMAIN ds |-> IF k < e THEN k ELSE k + 1]
  <2> HIDE DEF es, ds
  <2>1. h \in [DOMAIN ds -> DOMAIN es] /\ \A k \in DOMAIN ds : ds[k] = es[h[k]]
    BY <1>2
  <2>2. Increasing(h)
    BY <1>2, <1>4 DEF Increasing
  <2> HIDE DEF h
  <2> QED
    BY <2>1, <2>2 DEF ThinnedRows
<1>6. /\ qs \in Seq(PartType) /\ DOMAIN qs = DOMAIN page.parts /\ qs[p].entries = ds
      /\ \A q \in DOMAIN qs \ {p} : qs[q] = page.parts[q]
  BY <1>2, PartChanged
<1>7. Thinned(page.parts, qs)
  BY <1>2, <1>5, PartThinned
<1> HIDE DEF ds, qs
<1>8. ASSUME RowsHonest(page.parts) PROVE RowsHonest(qs)
  <2> SUFFICES ASSUME NEW q \in DOMAIN qs, NEW k \in DOMAIN qs[q].entries
               PROVE  RowHonest(qs[q].entries[k])
    BY DEF RowsHonest
  <2>1. \A d \in DOMAIN es : RowHonest(es[d])
    BY <1>8 DEF RowsHonest
  <2>2. CASE q = p
    BY <1>2, <1>6, <2>1, <2>2
  <2>3. CASE q # p
    BY <1>6, <1>8, <2>3 DEF RowsHonest
  <2> QED
    BY <2>2, <2>3
<1> QED
  BY <1>3, <1>6, <1>7, <1>8, PageEdited, PageHasParts DEF RemoveEntry

\* A stitch is selected.
LEMMA ChooseKeeps ==
  ASSUME EditorInv, NEW p \in DOMAIN page.parts, NEW e \in DOMAIN page.parts[p].entries,
         NEW id \in DOMAIN library, Choose(p, e, id)
  PROVE  EditorInv'
<1> DEFINE es == page.parts[p].entries
           ds == [es EXCEPT ![e] = Entry(es[e].ei, id, id)]
           qs == [page.parts EXCEPT ![p].entries = ds]
<1>1. id \in Nat /\ page.parts \in Seq(PartType) /\ p \in DOMAIN page.parts /\ page \in PageType
  BY DEF EditorInv, Typed, PageType
<1>2. /\ es \in Seq(EntryType) /\ Len(es) \in Nat /\ DOMAIN es = 1 .. Len(es)
      /\ \A k \in DOMAIN es : es[k] \in EntryType
  BY <1>1, PartsTyped
<1> DEFINE row == Entry(es[e].ei, id, id)
<1>3. row \in EntryType /\ row.ei = es[e].ei /\ row.stitch = id /\ row.meant = id
  BY <1>1, <1>2 DEF Entry, EntryType
<1>4. ds = [k \in DOMAIN es |-> IF k = e THEN row ELSE es[k]]
  OBVIOUS
<1>5. ds \in Seq(EntryType) /\ DOMAIN ds = DOMAIN es /\ ds[e] = row
      /\ \A k \in DOMAIN ds \ {e} : ds[k] = es[k]
  <2> HIDE DEF es, row, ds
  <2>1. \A k \in DOMAIN es : (IF k = e THEN row ELSE es[k]) \in EntryType
    BY <1>2, <1>3
  <2>2. ds \in Seq(EntryType)
    BY <1>2, <1>4, <2>1
  <2> QED
    BY <1>4, <2>2 DEF es
<1>6. page' = [page EXCEPT !.parts = qs]
  BY DEF Choose
<1>7. ThinnedRows(es, ds)
  <2> DEFINE same == [k \in DOMAIN ds |-> k]
  <2> HIDE DEF es, ds, row
  <2>1. same \in [DOMAIN ds -> DOMAIN es]
    BY <1>5
  <2>2. Increasing(same)
    BY DEF Increasing
  <2>3. \A k \in DOMAIN ds : ds[k].ei = es[same[k]].ei
    BY <1>3, <1>5
  <2> HIDE DEF same
  <2> QED
    BY <2>1, <2>2, <2>3 DEF ThinnedRows
<1>8. /\ qs \in Seq(PartType) /\ DOMAIN qs = DOMAIN page.parts /\ qs[p].entries = ds
      /\ \A q \in DOMAIN qs \ {p} : qs[q] = page.parts[q]
  <2> HIDE DEF ds
  <2> QED
    BY <1>5, PartChanged
<1>9. Thinned(page.parts, qs)
  BY <1>5, <1>7, PartThinned
<1> HIDE DEF ds, qs, row
<1>10. ASSUME RowsHonest(page.parts) PROVE RowsHonest(qs)
  <2> SUFFICES ASSUME NEW q \in DOMAIN qs, NEW k \in DOMAIN qs[q].entries
               PROVE  RowHonest(qs[q].entries[k])
    BY DEF RowsHonest
  <2>1. \A d \in DOMAIN es : RowHonest(es[d])
    BY <1>10 DEF RowsHonest
  <2>2. RowHonest(row)
    BY <1>3 DEF RowHonest
  <2>3. CASE q = p
    BY <1>5, <1>8, <2>1, <2>2, <2>3
  <2>4. CASE q # p
    BY <1>8, <1>10, <2>4 DEF RowsHonest
  <2> QED
    BY <2>3, <2>4
<1> QED
  BY <1>6, <1>8, <1>9, <1>10, PageEdited, PageHasParts DEF Choose

\* A request or a response is lost.
LEMMA LoseKeeps ==
  ASSUME EditorInv, NEW f \in arriving, Lose(f)
  PROVE  EditorInv'
<1> USE DEF Lose, EditorInv
<1>1. Typed'
  BY DEF Typed, counters
<1>2. FragmentsFresh'
  BY DEF FragmentsFresh
<1>3. InOrder'
  BY DEF InOrder
<1>4. FormCarried'
  BY DEF FormCarried
<1> QED
  BY <1>1, <1>2, <1>3, <1>4 DEF StoredRefers, RowsHonest, RowHonest

\* A form is shown in place of the one there was.
LEMMA RenderKeeps ==
  ASSUME EditorInv, NEW groups \in Seq(Seq(FormEntry)),
         NEW from \in {"new", "stored", "invalid", "refused"},
         from # "refused" => FormHonest(groups),
         Show(EditorPage(from, groups)), library' = library
  PROVE  /\ page' \in PageType /\ arriving' = {} /\ overtaken' = FALSE
         /\ Numbered(page.parts)' /\ FragmentsFresh' /\ InOrder'
         /\ (page.from # "refused" => RowsHonest(page.parts))'
<1> DEFINE p == EditorPage(from, groups)
<1>1. DOMAIN library \subseteq Nat
  BY DEF EditorInv, Typed
<1>2. /\ p \in PageType /\ p.from = from /\ p.next > 0
      /\ Numbered(p.parts) /\ Below(p.parts, p.next) /\ RowsInOrder(p.parts)
      /\ FormHonest(groups) => RowsHonest(p.parts)
  BY <1>1, PageRendered
<1> HIDE DEF p
<1>3. page' = p /\ arriving' = {} /\ overtaken' = FALSE
  BY DEF Show, p
<1>4. FragmentsFresh'
  BY <1>2, <1>3 DEF FragmentsFresh
<1>5. InOrder'
  BY <1>2, <1>3 DEF InOrder
<1>6. (page.from # "refused" => RowsHonest(page.parts))'
  BY <1>2, <1>3 DEF RowsHonest, RowHonest
<1> QED
  BY <1>2, <1>3, <1>4, <1>5, <1>6

\* The form is left.
LEMMA LeaveKeeps ==
  ASSUME EditorInv, Show(NoPage), library' = library
  PROVE  /\ page' \in PageType /\ arriving' = {} /\ overtaken' = FALSE
         /\ Numbered(page.parts)' /\ FragmentsFresh' /\ InOrder'
         /\ (page.from # "refused" => RowsHonest(page.parts))'
<1>1. /\ page' = NoPage /\ arriving' = {} /\ overtaken' = FALSE
  BY DEF Show
<1>2. NoPage \in PageType /\ NoPage.parts = << >> /\ NoPage.next = 0
  BY DEF NoPage, PageType
<1>3. DOMAIN << >> = {}
  OBVIOUS
<1>4. page'.parts = << >>
  BY <1>1, <1>2
<1>5. Numbered(page.parts)'
  BY <1>3, <1>4 DEF Numbered, Indices, Distinct
<1>6. FragmentsFresh'
  BY <1>1, <1>3, <1>4 DEF FragmentsFresh, Below
<1>7. InOrder'
  BY <1>1, <1>3, <1>4 DEF InOrder, RowsInOrder, Indices, Increasing
<1>8. RowsHonest(page.parts)'
  BY <1>3, <1>4 DEF RowsHonest
<1> QED
  BY <1>1, <1>2, <1>5, <1>6, <1>7, <1>8

\* HandleNew.
LEMMA OpenNewKeeps ==
  ASSUME EditorInv, OpenNew
  PROVE  EditorInv'
<1>1. << >> \in Seq(Seq(FormEntry)) /\ FormHonest(<< >>)
  BY DEF FormHonest
<1>2. Show(EditorPage("new", << >>)) /\ library' = library
  BY DEF OpenNew
<1>3. /\ page' \in PageType /\ arriving' = {} /\ overtaken' = FALSE
      /\ Numbered(page.parts)' /\ FragmentsFresh' /\ InOrder'
      /\ (page.from # "refused" => RowsHonest(page.parts))'
  BY <1>1, <1>2, RenderKeeps
<1>4. Typed' /\ StoredRefers'
  BY <1>3 DEF OpenNew, EditorInv, Typed, StoredRefers, counters
<1>5. FormCarried'
  BY DEF OpenNew, FormCarried, NotSaving
<1> QED
  BY <1>3, <1>4, <1>5 DEF EditorInv

\* The groups of the stored pattern, as HandleEdit shows them, are a form.
LEMMA StoredShown ==
  ASSUME EditorInv
  PROVE  LET form == [g \in DOMAIN stored.groups |-> [e \in DOMAIN stored.groups[g] |->
                        LET k == stored.groups[g][e]
                        IN  [id |-> LibraryId(k), meant |-> stored.stitches[k].lib]]]
         IN  form \in Seq(Seq(FormEntry)) /\ FormHonest(form)
<1> DEFINE groups == stored.groups
           entry(g, e) == [id    |-> LibraryId(groups[g][e]),
                           meant |-> stored.stitches[groups[g][e]].lib]
           entries(g) == [e \in DOMAIN groups[g] |-> entry(g, e)]
           form == [g \in DOMAIN groups |-> entries(g)]
<1>1. stored.stitches \in Seq(StitchRow) /\ groups \in Seq(Seq(Nat))
  BY DEF EditorInv, Typed
<1>2. /\ Len(groups) \in Nat /\ DOMAIN groups = 1 .. Len(groups)
      /\ \A g \in 1 .. Len(groups) : groups[g] \in Seq(Nat)
  BY <1>1, LenProperties, ElementOfSeq
<1>3. \A k \in DOMAIN stored.stitches : stored.stitches[k].lib \in Nat
  <2>1. \A k \in DOMAIN stored.stitches : stored.stitches[k] \in StitchRow
    BY <1>1, LenProperties, ElementOfSeq
  <2> QED
    BY <2>1 DEF StitchRow
<1>4. ASSUME NEW g \in 1 .. Len(groups)
      PROVE  /\ entries(g) \in Seq(FormEntry)
             /\ \A e \in DOMAIN entries(g) : entries(g)[e].id = entries(g)[e].meant
  <2>1. Len(groups[g]) \in Nat /\ DOMAIN groups[g] = 1 .. Len(groups[g])
    BY <1>2, LenProperties
  <2>2. ASSUME NEW e \in DOMAIN groups[g]
        PROVE  entry(g, e) \in FormEntry /\ entry(g, e).id = entry(g, e).meant
    <3>1. groups[g][e] \in DOMAIN stored.stitches
      BY <1>2 DEF EditorInv, StoredRefers
    <3>2. stored.stitches[groups[g][e]].lib \in Nat
      BY <1>3, <3>1
    <3> QED
      BY <3>2 DEF LibraryId, FormEntry
  <2> HIDE DEF entry, groups
  <2>3. entries(g) \in Seq(FormEntry)
    BY <2>1, <2>2
  <2>4. \A e \in DOMAIN entries(g) : entries(g)[e].id = entries(g)[e].meant
    BY <2>2
  <2> QED
    BY <2>3, <2>4
<1> HIDE DEF entries
<1>5. form \in Seq(Seq(FormEntry))
  <2>1. form = [g \in 1 .. Len(groups) |-> entries(g)]
    BY <1>2
  <2>2. \A g \in 1 .. Len(groups) : entries(g) \in Seq(FormEntry)
    BY <1>4
  <2> HIDE DEF form, groups
  <2> QED
    BY <1>2, <2>1, <2>2
<1>6. FormHonest(form)
  BY <1>2, <1>4 DEF FormHonest
<1> QED
  BY <1>5, <1>6 DEF entries

\* HandleEdit.
LEMMA OpenEditKeeps ==
  ASSUME EditorInv, OpenEdit
  PROVE  EditorInv'
<1> DEFINE form == [g \in DOMAIN stored.groups |-> [e \in DOMAIN stored.groups[g] |->
                      LET k == stored.groups[g][e]
                      IN  [id |-> LibraryId(k), meant |-> stored.stitches[k].lib]]]
<1>1. form \in Seq(Seq(FormEntry)) /\ FormHonest(form)
  BY StoredShown
<1>2. Show(EditorPage("stored", form)) /\ library' = library
  BY DEF OpenEdit
<1> HIDE DEF form
<1>3. /\ page' \in PageType /\ arriving' = {} /\ overtaken' = FALSE
      /\ Numbered(page.parts)' /\ FragmentsFresh' /\ InOrder'
      /\ (page.from # "refused" => RowsHonest(page.parts))'
  BY <1>1, <1>2, RenderKeeps
<1>4. Typed' /\ StoredRefers'
  BY <1>3 DEF OpenEdit, EditorInv, Typed, StoredRefers, counters
<1>5. FormCarried'
  BY DEF OpenEdit, FormCarried, NotSaving
<1> QED
  BY <1>3, <1>4, <1>5 DEF EditorInv

\* "Discard unsaved changes?"
LEMMA DiscardKeeps ==
  ASSUME EditorInv, Discard
  PROVE  EditorInv'
<1>1. Show(NoPage) /\ library' = library
  BY DEF Discard
<1>2. /\ page' \in PageType /\ arriving' = {} /\ overtaken' = FALSE
      /\ Numbered(page.parts)' /\ FragmentsFresh' /\ InOrder'
      /\ (page.from # "refused" => RowsHonest(page.parts))'
  BY <1>1, LeaveKeeps
<1>3. Typed' /\ StoredRefers'
  BY <1>2 DEF Discard, EditorInv, Typed, StoredRefers, counters
<1>4. FormCarried'
  BY DEF Discard, FormCarried, NotSaving
<1> QED
  BY <1>2, <1>3, <1>4 DEF EditorInv

\* "+ Add Part" and "+ Add Stitch" ask for a row with the next number.
LEMMA ClickKeeps ==
  ASSUME EditorInv, NEW part \in Nat, NEW kind \in {"part", "entry"},
         kind = "part" => part = 0, Click(part, kind)
  PROVE  EditorInv'
<1> DEFINE f == Fragment(part, kind)
<1>1. page.next \in Nat /\ page.next > 0 /\ page # NoPage
  BY DEF Click, EditorInv, Typed, PageType, FragmentsFresh
<1>2. f \in FragmentType /\ f.index = page.next /\ f.kind = kind /\ f.part = part
  BY <1>1 DEF Fragment, FragmentType
<1> HIDE DEF f
<1>3. arriving' = arriving \cup {f}
  BY DEF Click, f
<1>4. /\ page' \in PageType /\ page'.parts = page.parts /\ page'.from = page.from
      /\ page'.next = page.next + 1
  <2>1. page' = [page EXCEPT !.next = page.next + 1]
    BY DEF Click
  <2>2. page \in PageType /\ page.next + 1 \in Nat
    BY <1>1 DEF EditorInv, Typed
  <2> QED
    BY <2>1, <2>2 DEF PageType
<1>5. \A g \in arriving : g \in FragmentType /\ g.index \in Nat
  BY DEF EditorInv, Typed, FragmentType
<1>6. Typed'
  <2>1. clicks' \in 0 .. MaxClicks
    BY EditorAssumptions DEF Click, EditorInv, Typed
  <2>2. \A g \in arriving' : g.kind = "part" => g.part = 0
    BY <1>2, <1>3 DEF EditorInv, Typed
  <2> QED
    BY <1>2, <1>3, <1>4, <2>1, <2>2 DEF Click, EditorInv, Typed
<1>7. page.parts \in Seq(PartType)
  BY DEF EditorInv, Typed, PageType
<1>8. /\ \A p \in DOMAIN page.parts :
           /\ page.parts[p].gi \in Nat
           /\ \A e \in DOMAIN page.parts[p].entries : page.parts[p].entries[e].ei \in Nat
  BY <1>7, PartsTyped
<1>9. Below(page.parts, page.next)
  BY DEF EditorInv, FragmentsFresh
<1>10. Below(page.parts, page.next + 1)
  BY <1>1, <1>8, <1>9 DEF Below
<1>11. Unused(page.parts, page.next)
  BY <1>1, <1>8, <1>9 DEF Below, Unused
<1>12. FragmentsFresh'
  <2>1. page'.next > 0
    BY <1>1, <1>4
  <2>2. \A g \in arriving' : g.index < page'.next /\ Unused(page.parts, g.index)
    BY <1>1, <1>2, <1>3, <1>4, <1>5, <1>11 DEF EditorInv, FragmentsFresh
  <2>3. \A g \in arriving : g.index # f.index
    BY <1>1, <1>2, <1>5 DEF EditorInv, FragmentsFresh
  <2>4. \A g, k \in arriving' : g.index = k.index => g = k
    BY <1>3, <2>3 DEF EditorInv, FragmentsFresh
  <2> QED
    BY <1>4, <1>10, <2>1, <2>2, <2>4 DEF FragmentsFresh
<1>13. InOrder'
  <2>1. Behind(page.parts, f)
    BY <1>2, <1>9 DEF Below, Behind
  <2>2. overtaken' = overtaken
    BY DEF Click
  <2> QED
    BY <1>3, <1>4, <2>1, <2>2 DEF EditorInv, InOrder
<1>14. Numbered(page.parts)'
  BY <1>4 DEF EditorInv
<1>15. (page.from # "refused" => RowsHonest(page.parts))'
  BY <1>4 DEF Click, EditorInv, RowsHonest, RowHonest
<1>16. FormCarried' /\ StoredRefers'
  BY DEF Click, FormCarried, NotSaving, EditorInv, StoredRefers
<1> QED
  BY <1>6, <1>12, <1>13, <1>14, <1>15, <1>16 DEF EditorInv

\* A row is appended.
LEMMA AppendedNumbers ==
  ASSUME NEW n \in Nat, NEW t \in Seq(Nat), NEW u \in Seq(Nat), NEW i \in Nat,
         u = Append(t, i), \A k \in DOMAIN t : t[k] # i
  PROVE  /\ Distinct(t) => Distinct(u)
         /\ Increasing(t) /\ (\A k \in DOMAIN t : t[k] < i) => Increasing(u)
<1>1. /\ Len(t) \in Nat /\ DOMAIN t = 1 .. Len(t) /\ DOMAIN u = 1 .. Len(t) + 1
      /\ \A k \in 1 .. Len(t) : u[k] = t[k]
      /\ u[Len(t) + 1] = i
  OBVIOUS
<1>2. \A k \in 1 .. Len(t) + 1 : k \in 1 .. Len(t) \/ k = Len(t) + 1
  BY <1>1
<1>3. ASSUME Distinct(t) PROVE Distinct(u)
  BY <1>1, <1>2, <1>3 DEF Distinct
<1>4. ASSUME Increasing(t), \A k \in DOMAIN t : t[k] < i PROVE Increasing(u)
  <2> SUFFICES ASSUME NEW j \in 1 .. Len(t) + 1, NEW k \in 1 .. Len(t) + 1, j < k
               PROVE  u[j] < u[k]
    BY <1>1 DEF Increasing
  <2>1. j \in 1 .. Len(t)
    BY <1>1
  <2>2. CASE k \in 1 .. Len(t)
    BY <1>1, <1>4, <2>1, <2>2 DEF Increasing
  <2>3. CASE k = Len(t) + 1
    BY <1>1, <1>4, <2>1, <2>3
  <2> QED
    BY <1>2, <2>2, <2>3
<1> QED
  BY <1>3, <1>4

\* What a fragment does to the form, part by part.
LEMMA PartAppended ==
  ASSUME NEW parts \in Seq(PartType), NEW f \in FragmentType, f.kind = "part"
  PROVE  LET qs == Appended(parts, f)
             n == Len(parts)
         IN  /\ qs \in Seq(PartType) /\ n \in Nat
             /\ DOMAIN parts = 1 .. n /\ DOMAIN qs = 1 .. n + 1
             /\ \A q \in 1 .. n : qs[q] = parts[q]
             /\ qs[n + 1] \in PartType /\ qs[n + 1].gi = f.index
             /\ qs[n + 1].entries = << Blank(0) >>
<1> DEFINE part == GroupFields(f.index, << >>)
           qs == Appended(parts, f)
<1>1. f.index \in Nat /\ << >> \in Seq(EntryType)
  BY DEF FragmentType
<1>2. part \in PartType /\ part.gi = f.index /\ part.entries = << Blank(0) >>
  BY <1>1, PartShown
<1> HIDE DEF part
<1>3. qs = Append(parts, part)
  BY DEF Appended, part
<1>4. Len(parts) \in Nat /\ DOMAIN parts = 1 .. Len(parts)
  BY LenProperties
<1> HIDE DEF qs
<1>5. /\ qs \in Seq(PartType) /\ DOMAIN qs = 1 .. Len(parts) + 1
      /\ \A q \in 1 .. Len(parts) : qs[q] = parts[q]
      /\ qs[Len(parts) + 1] = part
  BY <1>2, <1>3, <1>4
<1> QED
  BY <1>2, <1>4, <1>5 DEF qs

\* An entry is appended to the part it was asked for.
LEMMA EntryAppended ==
  ASSUME NEW parts \in Seq(PartType), NEW f \in FragmentType, f.kind = "entry"
  PROVE  LET qs == Appended(parts, f)
         IN  /\ qs \in Seq(PartType) /\ DOMAIN qs = DOMAIN parts
             /\ \A q \in DOMAIN parts :
                  /\ qs[q].gi = parts[q].gi
                  /\ parts[q].gi # f.part => qs[q] = parts[q]
                  /\ parts[q].gi = f.part =>
                       qs[q].entries = Append(parts[q].entries, Blank(f.index))
<1> DEFINE grown(q) == [parts[q] EXCEPT !.entries = Append(@, Blank(f.index))]
           qs == Appended(parts, f)
<1>1. Blank(f.index) \in EntryType
  BY BlankRow DEF FragmentType
<1>2. /\ Len(parts) \in Nat /\ DOMAIN parts = 1 .. Len(parts)
      /\ \A q \in DOMAIN parts : parts[q] \in PartType
  BY PartsTyped
<1>3. ASSUME NEW q \in DOMAIN parts
      PROVE  /\ grown(q) \in PartType /\ grown(q).gi = parts[q].gi
             /\ grown(q).entries = Append(parts[q].entries, Blank(f.index))
  <2> HIDE DEF Blank
  <2>1. parts[q] \in PartType
    BY <1>2
  <2>2. Append(parts[q].entries, Blank(f.index)) \in Seq(EntryType)
    BY <1>1, <2>1 DEF PartType
  <2> QED
    BY <2>1, <2>2 DEF PartType
<1>4. qs = [q \in DOMAIN parts |-> IF parts[q].gi = f.part THEN grown(q) ELSE parts[q]]
  BY DEF Appended
<1> HIDE DEF grown, qs
<1>5. qs \in Seq(PartType)
  <2>1. \A q \in DOMAIN parts : (IF parts[q].gi = f.part THEN grown(q) ELSE parts[q]) \in PartType
    BY <1>2, <1>3
  <2> QED
    BY <1>2, <1>4, <2>1
<1> QED
  BY <1>3, <1>4, <1>5 DEF qs

\* The numbers of a form when a fragment has been delivered.
AsDelivered(parts, f, qs) ==
  /\ qs \in Seq(PartType) /\ Numbered(qs)
  /\ \A n \in Nat : Below(parts, n) /\ f.index < n => Below(qs, n)
  /\ \A i \in Nat \ {0} : i # f.index /\ Unused(parts, i) => Unused(qs, i)
  /\ RowsInOrder(parts) /\ Behind(parts, f) => RowsInOrder(qs)
  /\ \A g \in FragmentType :
       /\ Behind(parts, g)
       /\ g.kind = f.kind /\ (g.kind = "part" \/ g.part = f.part) => f.index < g.index
       => Behind(qs, g)
  /\ RowsHonest(parts) => RowsHonest(qs)

\* A part is appended: it has a number of its own, and an entry numbered 0.
LEMMA PartDelivered ==
  ASSUME NEW parts \in Seq(PartType), NEW f \in FragmentType, f.kind = "part",
         Numbered(parts), Unused(parts, f.index)
  PROVE  AsDelivered(parts, f, Appended(parts, f))
<1> DEFINE qs == Appended(parts, f)
           n == Len(parts)
           new == qs[n + 1]
<1>1. /\ qs \in Seq(PartType) /\ n \in Nat
      /\ DOMAIN parts = 1 .. n /\ DOMAIN qs = 1 .. n + 1
      /\ \A q \in 1 .. n : qs[q] = parts[q]
      /\ new \in PartType /\ new.gi = f.index /\ new.entries = << Blank(0) >>
  BY PartAppended
<1>2. f.index \in Nat /\ f.index > 0
  BY DEF FragmentType
<1> HIDE DEF qs, n, new
<1>3. /\ DOMAIN new.entries = 1 .. 1 /\ new.entries[1].ei = 0
      /\ RowHonest(new.entries[1])
  BY <1>1, BlankRow
<1>4. \A q \in 1 .. n + 1 : q \in 1 .. n \/ (q = n + 1 /\ qs[q] = new)
  BY <1>1 DEF new
<1>5. Distinct(EntryIndices(new)) /\ Increasing(EntryIndices(new))
  <2>1. DOMAIN EntryIndices(new) = 1 .. 1 /\ \A e \in 1 .. 1 : EntryIndices(new)[e] = e - 1
    BY <1>3 DEF EntryIndices
  <2> QED
    BY <2>1, CountedRows
<1>6. \A p \in 1 .. n : parts[p].gi \in Nat
  BY <1>1, PartsTyped
<1>7. /\ Distinct(Indices(parts)) => Distinct(Indices(qs))
      /\ (Increasing(Indices(parts)) /\ \A p \in 1 .. n : parts[p].gi < f.index)
           => Increasing(Indices(qs))
  <2> DEFINE t == Indices(parts)
             u == Indices(qs)
  <2>1. /\ t = [p \in 1 .. n |-> parts[p].gi]
        /\ u = [p \in 1 .. n + 1 |-> qs[p].gi]
    BY <1>1 DEF Indices
  <2> HIDE DEF t, u
  <2>2. t \in Seq(Nat) /\ Len(t) = n /\ DOMAIN t = 1 .. n /\ \A p \in 1 .. n : t[p] = parts[p].gi
    BY <1>1, <1>6, <2>1
  <2>3. u = Append(t, f.index)
    <3>1. Append(t, f.index) = [p \in 1 .. n + 1 |-> IF p = n + 1 THEN f.index ELSE t[p]]
      BY <1>1, <2>2
    <3>2. \A p \in 1 .. n + 1 : qs[p].gi = IF p = n + 1 THEN f.index ELSE t[p]
      BY <1>1, <1>4, <2>2
    <3> QED
      BY <2>1, <3>1, <3>2
  <2>4. u \in Seq(Nat)
    BY <1>2, <2>2, <2>3
  <2>5. \A k \in DOMAIN t : t[k] # f.index
    BY <1>1, <2>2 DEF Unused
  <2>6. /\ Distinct(t) => Distinct(u)
        /\ Increasing(t) /\ (\A k \in DOMAIN t : t[k] < f.index) => Increasing(u)
    BY <1>2, <2>2, <2>3, <2>4, <2>5, AppendedNumbers
  <2> QED
    BY <2>2, <2>6 DEF t, u
<1>8. Numbered(qs)
  BY <1>1, <1>4, <1>5, <1>7 DEF Numbered
<1>9. ASSUME NEW m \in Nat, Below(parts, m), f.index < m PROVE Below(qs, m)
  <2>1. 0 < m
    BY <1>2, <1>9
  <2>2. new.gi < m /\ \A e \in DOMAIN new.entries : new.entries[e].ei < m
    BY <1>1, <1>3, <1>9, <2>1
  <2> QED
    BY <1>1, <1>4, <1>9, <2>2 DEF Below
<1>10. ASSUME NEW i \in Nat \ {0}, i # f.index, Unused(parts, i) PROVE Unused(qs, i)
  <2>1. new.gi # i /\ \A e \in DOMAIN new.entries : new.entries[e].ei # i
    BY <1>1, <1>3, <1>10
  <2> QED
    BY <1>1, <1>4, <1>10, <2>1 DEF Unused
<1>11. ASSUME RowsInOrder(parts), Behind(parts, f) PROVE RowsInOrder(qs)
  <2>1. Increasing(Indices(qs))
    BY <1>1, <1>7, <1>11 DEF RowsInOrder, Behind
  <2> QED
    BY <1>1, <1>4, <1>5, <1>11, <2>1 DEF RowsInOrder
<1>12. ASSUME NEW g \in FragmentType, Behind(parts, g),
              g.kind = f.kind /\ (g.kind = "part" \/ g.part = f.part) => f.index < g.index
       PROVE  Behind(qs, g)
  <2>1. 0 < g.index
    BY DEF FragmentType
  <2>2. /\ g.kind = "part" => new.gi < g.index
        /\ \A e \in DOMAIN new.entries : new.entries[e].ei < g.index
    BY <1>1, <1>3, <1>12, <2>1
  <2> QED
    BY <1>1, <1>4, <1>12, <2>2 DEF Behind
<1>13. ASSUME RowsHonest(parts) PROVE RowsHonest(qs)
  <2>1. \A e \in DOMAIN new.entries : RowHonest(new.entries[e])
    BY <1>3
  <2> QED
    BY <1>1, <1>4, <1>13, <2>1 DEF RowsHonest
<1> QED
  BY <1>1, <1>8, <1>9, <1>10, <1>11, <1>12, <1>13 DEF AsDelivered, qs

\* An entry is appended to its part, if that is still there.
LEMMA EntryDelivered ==
  ASSUME NEW parts \in Seq(PartType), NEW f \in FragmentType, f.kind = "entry",
         Numbered(parts), Unused(parts, f.index)
  PROVE  AsDelivered(parts, f, Appended(parts, f))
<1> DEFINE qs == Appended(parts, f)
           row == Blank(f.index)
<1>1. /\ qs \in Seq(PartType) /\ DOMAIN qs = DOMAIN parts
      /\ \A q \in DOMAIN parts :
           /\ qs[q].gi = parts[q].gi
           /\ parts[q].gi # f.part => qs[q] = parts[q]
           /\ parts[q].gi = f.part => qs[q].entries = Append(parts[q].entries, Blank(f.index))
  BY EntryAppended
<1>2. f.index \in Nat /\ f.index > 0
  BY DEF FragmentType
<1>3. row \in EntryType /\ row.ei = f.index /\ RowHonest(row)
  BY <1>2, BlankRow
<1> HIDE DEF qs, row
<1>4. ASSUME NEW q \in DOMAIN parts, parts[q].gi = f.part
      PROVE  LET m == Len(parts[q].entries)
             IN  /\ m \in Nat /\ DOMAIN parts[q].entries = 1 .. m
                 /\ DOMAIN qs[q].entries = 1 .. m + 1
                 /\ \A e \in 1 .. m : qs[q].entries[e] = parts[q].entries[e]
                 /\ qs[q].entries[m + 1] = row
  <2> DEFINE es == parts[q].entries
             ds == qs[q].entries
  <2>1. es \in Seq(EntryType) /\ Len(es) \in Nat /\ DOMAIN es = 1 .. Len(es)
    BY PartsTyped
  <2>2. ds = Append(es, row)
    BY <1>1, <1>4 DEF row
  <2> HIDE DEF es, ds
  <2>3. /\ DOMAIN ds = 1 .. Len(es) + 1
        /\ \A e \in 1 .. Len(es) : ds[e] = es[e]
        /\ ds[Len(es) + 1] = row
    BY <1>3, <2>1, <2>2
  <2> QED
    BY <2>1, <2>3 DEF es, ds
<1>5. ASSUME NEW q \in DOMAIN parts, parts[q].gi = f.part,
             NEW e \in DOMAIN qs[q].entries
      PROVE  \/ e \in DOMAIN parts[q].entries /\ qs[q].entries[e] = parts[q].entries[e]
             \/ qs[q].entries[e] = row
  <2> DEFINE m == Len(parts[q].entries)
  <2>1. e \in 1 .. m \/ e = m + 1
    BY <1>4, <1>5
  <2> QED
    BY <1>4, <1>5, <2>1
<1>6. ASSUME NEW q \in DOMAIN parts, parts[q].gi = f.part
      PROVE  /\ Distinct(EntryIndices(parts[q])) => Distinct(EntryIndices(qs[q]))
             /\ /\ Increasing(EntryIndices(parts[q]))
                /\ \A e \in DOMAIN parts[q].entries : parts[q].entries[e].ei < f.index
                => Increasing(EntryIndices(qs[q]))
  <2> DEFINE es == parts[q].entries
             ds == qs[q].entries
             m == Len(es)
             t == EntryIndices(parts[q])
             u == EntryIndices(qs[q])
  <2>1. /\ m \in Nat /\ DOMAIN es = 1 .. m /\ DOMAIN ds = 1 .. m + 1
        /\ \A e \in 1 .. m : ds[e] = es[e]
        /\ ds[m + 1] = row
    BY <1>4, <1>6
  <2>2. \A e \in 1 .. m : es[e].ei \in Nat
    BY <2>1, PartsTyped
  <2>3. /\ t = [e \in 1 .. m |-> es[e].ei]
        /\ u = [e \in 1 .. m + 1 |-> ds[e].ei]
    BY <2>1 DEF EntryIndices
  <2>4. \A e \in 1 .. m : es[e].ei # f.index
    BY <2>1 DEF Unused
  <2> HIDE DEF t, u, es, ds, m
  <2>5. t \in Seq(Nat) /\ Len(t) = m /\ DOMAIN t = 1 .. m /\ \A e \in 1 .. m : t[e] = es[e].ei
    BY <2>1, <2>2, <2>3
  <2>6. u = Append(t, f.index)
    <3>1. Append(t, f.index) = [e \in 1 .. m + 1 |-> IF e = m + 1 THEN f.index ELSE t[e]]
      BY <2>1, <2>5
    <3>2. \A e \in 1 .. m + 1 : ds[e].ei = IF e = m + 1 THEN f.index ELSE t[e]
      <4> TAKE e \in 1 .. m + 1
      <4>1. e \in 1 .. m \/ e = m + 1
        BY <2>1
      <4>2. e \in 1 .. m => e # m + 1
        BY <2>1
      <4> QED
        BY <1>3, <2>1, <2>5, <4>1, <4>2
    <3> QED
      BY <2>3, <3>1, <3>2
  <2>7. u \in Seq(Nat)
    BY <1>2, <2>5, <2>6
  <2>8. \A k \in DOMAIN t : t[k] # f.index
    BY <2>4, <2>5
  <2>9. /\ Distinct(t) => Distinct(u)
        /\ Increasing(t) /\ (\A k \in DOMAIN t : t[k] < f.index) => Increasing(u)
    BY <1>2, <2>1, <2>5, <2>6, <2>7, <2>8, AppendedNumbers
  <2> QED
    BY <2>1, <2>5, <2>9 DEF t, u, es
<1>7. Indices(qs) = Indices(parts)
  BY <1>1 DEF Indices
<1>8. Numbered(qs)
  <2> SUFFICES ASSUME NEW q \in DOMAIN qs PROVE Distinct(EntryIndices(qs[q]))
    BY <1>7 DEF Numbered
  <2>1. q \in DOMAIN parts /\ Distinct(EntryIndices(parts[q]))
    BY <1>1 DEF Numbered
  <2> QED
    BY <1>1, <1>6, <2>1
<1>9. ASSUME NEW m \in Nat, Below(parts, m), f.index < m PROVE Below(qs, m)
  <2> SUFFICES ASSUME NEW q \in DOMAIN qs
               PROVE  qs[q].gi < m /\ \A e \in DOMAIN qs[q].entries : qs[q].entries[e].ei < m
    BY DEF Below
  <2>1. q \in DOMAIN parts /\ parts[q].gi < m
        /\ \A e \in DOMAIN parts[q].entries : parts[q].entries[e].ei < m
    BY <1>1, <1>9 DEF Below
  <2> QED
    BY <1>1, <1>3, <1>5, <1>9, <2>1
<1>10. ASSUME NEW i \in Nat \ {0}, i # f.index, Unused(parts, i) PROVE Unused(qs, i)
  <2> SUFFICES ASSUME NEW q \in DOMAIN qs
               PROVE  qs[q].gi # i /\ \A e \in DOMAIN qs[q].entries : qs[q].entries[e].ei # i
    BY DEF Unused
  <2>1. q \in DOMAIN parts /\ parts[q].gi # i
        /\ \A e \in DOMAIN parts[q].entries : parts[q].entries[e].ei # i
    BY <1>1, <1>10 DEF Unused
  <2> QED
    BY <1>1, <1>3, <1>5, <1>10, <2>1
<1>11. ASSUME RowsInOrder(parts), Behind(parts, f) PROVE RowsInOrder(qs)
  <2> SUFFICES ASSUME NEW q \in DOMAIN qs PROVE Increasing(EntryIndices(qs[q]))
    BY <1>7, <1>11 DEF RowsInOrder
  <2>1. q \in DOMAIN parts /\ Increasing(EntryIndices(parts[q]))
    BY <1>1, <1>11 DEF RowsInOrder
  <2>2. parts[q].gi = f.part =>
          \A e \in DOMAIN parts[q].entries : parts[q].entries[e].ei < f.index
    BY <1>11, <2>1 DEF Behind
  <2> QED
    BY <1>1, <1>6, <2>1, <2>2
<1>12. ASSUME NEW g \in FragmentType, Behind(parts, g),
              g.kind = f.kind /\ (g.kind = "part" \/ g.part = f.part) => f.index < g.index
       PROVE  Behind(qs, g)
  <2> SUFFICES ASSUME NEW q \in DOMAIN qs
               PROVE  /\ g.kind = "part" => qs[q].gi < g.index
                      /\ g.kind = "entry" /\ qs[q].gi = g.part =>
                           \A e \in DOMAIN qs[q].entries : qs[q].entries[e].ei < g.index
    BY DEF Behind
  <2>1. /\ q \in DOMAIN parts
        /\ g.kind = "part" => parts[q].gi < g.index
        /\ g.kind = "entry" /\ parts[q].gi = g.part =>
             \A e \in DOMAIN parts[q].entries : parts[q].entries[e].ei < g.index
    BY <1>1, <1>12 DEF Behind
  <2>2. g.kind = "part" => qs[q].gi < g.index
    BY <1>1, <2>1
  <2>3. ASSUME g.kind = "entry", qs[q].gi = g.part, NEW e \in DOMAIN qs[q].entries
        PROVE  qs[q].entries[e].ei < g.index
    <3>1. parts[q].gi = g.part
      BY <1>1, <2>1, <2>3
    <3>2. CASE g.part = f.part
      <4>1. f.index < g.index
        BY <1>12, <2>3, <3>2
      <4> QED
        BY <1>3, <1>5, <2>1, <2>3, <3>1, <3>2, <4>1
    <3>3. CASE g.part # f.part
      BY <1>1, <2>1, <2>3, <3>1, <3>3
    <3> QED
      BY <3>2, <3>3
  <2> QED
    BY <2>2, <2>3
<1>13. ASSUME RowsHonest(parts) PROVE RowsHonest(qs)
  <2> SUFFICES ASSUME NEW q \in DOMAIN qs, NEW e \in DOMAIN qs[q].entries
               PROVE  RowHonest(qs[q].entries[e])
    BY DEF RowsHonest
  <2>1. q \in DOMAIN parts /\ \A d \in DOMAIN parts[q].entries : RowHonest(parts[q].entries[d])
    BY <1>1, <1>13 DEF RowsHonest
  <2> QED
    BY <1>1, <1>3, <1>5, <2>1
<1> QED
  BY <1>1, <1>8, <1>9, <1>10, <1>11, <1>12, <1>13 DEF AsDelivered, qs

\* A fragment is delivered.
LEMMA DeliverKeeps ==
  ASSUME EditorInv, NEW f \in arriving, Deliver(f)
  PROVE  EditorInv'
<1> DEFINE parts == page.parts
           qs == Appended(parts, f)
<1>1. /\ f \in FragmentType /\ page \in PageType /\ parts \in Seq(PartType)
      /\ page.next \in Nat /\ f.index \in Nat \ {0}
  BY DEF EditorInv, Typed, PageType, FragmentType
<1>2. Numbered(parts) /\ Unused(parts, f.index) /\ Below(parts, page.next) /\ f.index < page.next
  BY DEF EditorInv, FragmentsFresh
<1>3. AsDelivered(parts, f, qs)
  <2>1. f.kind = "part" \/ f.kind = "entry"
    BY <1>1 DEF FragmentType
  <2> QED
    BY <1>1, <1>2, <2>1, PartDelivered, EntryDelivered
<1> HIDE DEF qs
<1>4. /\ page' \in PageType /\ page'.parts = qs /\ page'.from = page.from
      /\ page'.next = page.next
  <2>1. page' = [page EXCEPT !.parts = qs]
    BY DEF Deliver, qs
  <2> QED
    BY <1>1, <1>3, <2>1 DEF AsDelivered, PageType
<1>5. arriving' = arriving \ {f}
  BY DEF Deliver
<1>6. \A g \in arriving : g \in FragmentType /\ g.index \in Nat \ {0}
  BY DEF EditorInv, Typed, FragmentType
<1>7. Typed'
  <2>1. overtaken' \in BOOLEAN
    BY DEF Deliver, EditorInv, Typed
  <2> QED
    BY <1>4, <1>5, <2>1 DEF Deliver, EditorInv, Typed, counters
<1>8. StoredRefers'
  BY DEF Deliver, EditorInv, StoredRefers
<1>9. Numbered(page.parts)'
  BY <1>3, <1>4 DEF AsDelivered
<1>10. FragmentsFresh'
  <2>1. page'.next > 0
    BY <1>1, <1>2, <1>4
  <2>2. Below(qs, page.next)
    BY <1>1, <1>2, <1>3 DEF AsDelivered
  <2>3. \A g \in arriving' : g \in arriving /\ g.index # f.index
    BY <1>5 DEF EditorInv, FragmentsFresh
  <2>4. \A g \in arriving' : g.index < page.next /\ Unused(qs, g.index)
    BY <1>3, <1>6, <2>3 DEF AsDelivered, EditorInv, FragmentsFresh
  <2> QED
    BY <1>4, <2>1, <2>2, <2>3, <2>4 DEF EditorInv, FragmentsFresh
<1>11. InOrder'
  <2> SUFFICES ASSUME ~ overtaken'
               PROVE  RowsInOrder(qs) /\ \A g \in arriving' : Behind(qs, g)
    BY <1>4 DEF InOrder
  <2>1. /\ ~ overtaken
        /\ \A g \in arriving : ~ (g.kind = f.kind /\ g.part = f.part /\ g.index < f.index)
    BY DEF Deliver
  <2>2. RowsInOrder(parts) /\ \A g \in arriving : Behind(parts, g)
    BY <2>1 DEF EditorInv, InOrder
  <2>3. RowsInOrder(qs)
    BY <1>3, <2>2 DEF AsDelivered
  <2>4. ASSUME NEW g \in arriving' PROVE Behind(qs, g)
    <3>1. g \in arriving /\ g.index # f.index /\ g.index \in Nat
      BY <1>5, <1>6 DEF EditorInv, FragmentsFresh
    <3>2. g.kind = f.kind /\ (g.kind = "part" \/ g.part = f.part) => g.part = f.part
      BY <3>1 DEF EditorInv, Typed
    <3>3. g.kind = f.kind /\ (g.kind = "part" \/ g.part = f.part) => f.index < g.index
      BY <1>1, <2>1, <3>1, <3>2
    <3> QED
      BY <1>3, <1>6, <2>2, <3>1, <3>3 DEF AsDelivered
  <2> QED
    BY <2>3, <2>4
<1>12. (page.from # "refused" => RowsHonest(page.parts))'
  <2>1. page.from # "refused" => RowsHonest(qs)
    BY <1>3 DEF AsDelivered, EditorInv
  <2>2. library' = library
    BY DEF Deliver
  <2> QED
    BY <1>4, <2>1, <2>2 DEF RowsHonest, RowHonest
<1>13. FormCarried'
  BY DEF Deliver, EditorInv, FormCarried
<1> QED
  BY <1>7, <1>8, <1>9, <1>10, <1>11, <1>12, <1>13 DEF EditorInv

-----------------------------------------------------------------------------
(***************************************************************************)
(* The steps of a save, and of the library.                                *)
(***************************************************************************)

\* A form of a page in order is what is displayed.
LEMMA ParsedAsDisplayed ==
  ASSUME NEW parts \in Seq(PartType), Numbered(parts), RowsInOrder(parts)
  PROVE  FormIds(Parsed(parts)) = Displayed(parts)
<1> DEFINE form == Parsed(parts)
           row(p, e) == [id    |-> parts[p].entries[e].stitch,
                         meant |-> parts[p].entries[e].meant]
<1>1. /\ DOMAIN form = DOMAIN parts
      /\ \A g \in DOMAIN form :
           /\ DOMAIN form[g] = DOMAIN parts[g].entries
           /\ \A e \in DOMAIN form[g] : form[g][e] = row(g, e)
  BY FormParsed
<1> HIDE DEF form
<1>2. \A g \in DOMAIN parts :
        [e \in DOMAIN form[g] |-> form[g][e].id]
          = [e \in DOMAIN parts[g].entries |-> parts[g].entries[e].stitch]
  BY <1>1
<1>3. FormIds(form) = [g \in DOMAIN parts |-> [e \in DOMAIN form[g] |-> form[g][e].id]]
  BY <1>1 DEF FormIds
<1> QED
  BY <1>2, <1>3 DEF Displayed, form

\* The form is submitted.
LEMMA SubmitKeeps ==
  ASSUME EditorInv, Submit
  PROVE  EditorInv'
<1> DEFINE parts == page.parts
           form == Parsed(parts)
           row(p, e) == [id    |-> parts[p].entries[e].stitch,
                         meant |-> parts[p].entries[e].meant]
<1>1. parts \in Seq(PartType) /\ Numbered(parts)
  BY DEF EditorInv, Typed, PageType
<1>2. /\ form \in Seq(Seq(FormEntry))
      /\ \A g \in DOMAIN form : \A e \in DOMAIN form[g] :
           \E p \in DOMAIN parts : \E d \in DOMAIN parts[p].entries : form[g][e] = row(p, d)
  BY <1>1, FormParsed
<1>3. saving' = [step |-> "validate", form |-> form, found |-> << >>]
  BY DEF Submit
<1> HIDE DEF form
<1>4. saving' \in SavingType /\ saving'.form = form
  BY <1>2, <1>3 DEF SavingType
<1>5. Typed'
  <2>1. saves' \in 0 .. MaxSaves
    BY EditorAssumptions DEF Submit, EditorInv, Typed
  <2> QED
    BY <1>4, <2>1 DEF Submit, EditorInv, Typed
<1>6. StoredRefers' /\ Numbered(page.parts)' /\ FragmentsFresh' /\ InOrder'
  BY DEF Submit, EditorInv, StoredRefers, FragmentsFresh, InOrder
<1>7. (page.from # "refused" => RowsHonest(page.parts))'
  BY DEF Submit, EditorInv, RowsHonest, RowHonest
<1>8. ASSUME page.from # "refused" PROVE FormHonest(form)
  <2> SUFFICES ASSUME NEW g \in DOMAIN form, NEW e \in DOMAIN form[g]
               PROVE  form[g][e].id = form[g][e].meant
    BY DEF FormHonest
  <2>1. PICK p \in DOMAIN parts : \E d \in DOMAIN parts[p].entries : form[g][e] = row(p, d)
    BY <1>2
  <2>2. PICK d \in DOMAIN parts[p].entries : form[g][e] = row(p, d)
    BY <2>1
  <2>3. parts[p].entries[d].stitch # NoStitch
    BY DEF Submit, Complete
  <2>4. RowHonest(parts[p].entries[d])
    BY <1>8 DEF EditorInv, RowsHonest
  <2> QED
    BY <2>2, <2>3, <2>4 DEF RowHonest
<1>9. ASSUME ~ overtaken PROVE FormIds(form) = Displayed(parts)
  <2>1. RowsInOrder(parts)
    BY <1>9 DEF EditorInv, InOrder
  <2> QED
    BY <1>1, <2>1, ParsedAsDisplayed DEF form
<1>10. FormCarried'
  BY <1>4, <1>8, <1>9 DEF Submit, FormCarried
<1> QED
  BY <1>5, <1>6, <1>7, <1>10 DEF EditorInv

\* renderEditorWithError.
LEMMA RerenderKeeps ==
  ASSUME EditorInv, NEW groups \in Seq(Seq(FormEntry)), NEW from \in {"invalid", "refused"},
         page.from # "refused" /\ from # "refused" => FormHonest(groups),
         Rerender(from, groups), UNCHANGED << library, stored, counters >>
  PROVE  EditorInv'
<1> DEFINE shown == IF page.from = "refused" THEN "refused" ELSE from
<1>1. Show(EditorPage(shown, groups)) /\ saving' = NotSaving
  BY DEF Rerender
<1>2. /\ shown \in {"new", "stored", "invalid", "refused"}
      /\ shown # "refused" => FormHonest(groups)
  OBVIOUS
<1> HIDE DEF shown
<1>3. /\ page' \in PageType /\ arriving' = {} /\ overtaken' = FALSE
      /\ Numbered(page.parts)' /\ FragmentsFresh' /\ InOrder'
      /\ (page.from # "refused" => RowsHonest(page.parts))'
  BY <1>1, <1>2, RenderKeeps
<1>4. NotSaving \in SavingType
  BY DEF NotSaving, SavingType
<1>5. Typed' /\ StoredRefers'
  BY <1>1, <1>3, <1>4 DEF EditorInv, Typed, StoredRefers, counters
<1>6. FormCarried'
  BY <1>1 DEF FormCarried, NotSaving
<1> QED
  BY <1>3, <1>5, <1>6 DEF EditorInv

\* The save goes on, and the form stays.
LEMMA SaveGoesOn ==
  ASSUME EditorInv, saving.step # "none",
         saving' \in SavingType, saving'.form = saving.form,
         UNCHANGED << library, stored, page, arriving, overtaken, counters >>
  PROVE  EditorInv'
<1>1. Typed'
  BY DEF EditorInv, Typed, counters
<1>2. FormCarried'
  BY DEF EditorInv, FormCarried
<1> QED
  BY <1>1, <1>2 DEF EditorInv, StoredRefers, FragmentsFresh, InOrder, RowsHonest, RowHonest

\* validate.
LEMMA ValidateKeeps ==
  ASSUME EditorInv, Validate
  PROVE  EditorInv'
<1>1. /\ saving \in SavingType /\ saving.step # "none"
      /\ saving.form \in Seq(Seq(FormEntry))
      /\ page.from # "refused" => FormHonest(saving.form)
  BY DEF Validate, EditorInv, Typed, FormCarried, SavingType
<1>2. CASE saving' = [saving EXCEPT !.step = "resolve"] /\ UNCHANGED << page, arriving, overtaken >>
  <2>1. saving' \in SavingType /\ saving'.form = saving.form
    BY <1>1, <1>2 DEF SavingType
  <2> QED
    BY <1>1, <1>2, <2>1, SaveGoesOn DEF Validate
<1>3. CASE Rerender("invalid", saving.form)
  <2>1. UNCHANGED << library, stored, counters >>
    BY DEF Validate
  <2> QED
    BY <1>1, <1>3, <2>1, RerenderKeeps
<1> QED
  BY <1>2, <1>3 DEF Validate

\* resolvePatternStitches looks one stitch up.
LEMMA ResolveKeeps ==
  ASSUME EditorInv, Resolve
  PROVE  EditorInv'
<1> DEFINE id == WantedIds[Unresolved]
<1>1. /\ saving \in SavingType /\ saving.step # "none"
      /\ saving.form \in Seq(Seq(FormEntry)) /\ saving.found \in Seq(StitchRow)
      /\ page.from # "refused" => FormHonest(saving.form)
  BY DEF Resolve, EditorInv, Typed, FormCarried, SavingType
<1>2. UNCHANGED << library, stored, counters >>
  BY DEF Resolve
<1>3. CASE id \in DOMAIN library
  <2> DEFINE row == [abbr |-> library[id].abbr, lib |-> id]
  <2>1. row \in StitchRow
    <3>1. id \in Nat /\ library[id] \in LibraryRow
      BY <1>3 DEF EditorInv, Typed
    <3> QED
      BY <3>1 DEF LibraryRow, StitchRow
  <2>2. /\ saving' = [saving EXCEPT !.found = Append(saving.found, row)]
        /\ UNCHANGED << page, arriving, overtaken >>
    BY <1>3 DEF Resolve
  <2> HIDE DEF row, id
  <2>3. Append(saving.found, row) \in Seq(StitchRow)
    BY <1>1, <2>1
  <2>4. saving' \in SavingType /\ saving'.form = saving.form
    BY <1>1, <2>2, <2>3 DEF SavingType
  <2> QED
    BY <1>1, <1>2, <2>2, <2>4, SaveGoesOn
<1>4. CASE id \notin DOMAIN library
  <2>1. Rerender("invalid", saving.form)
    BY <1>4 DEF Resolve
  <2> QED
    BY <1>1, <1>2, <2>1, RerenderKeeps
<1> QED
  BY <1>3, <1>4

\* When every stitch is found, the indices are those of stitches.
LEMMA AllFound ==
  ASSUME saving \in SavingType, Unresolved = 0,
         NEW g \in DOMAIN saving.form, NEW e \in DOMAIN saving.form[g]
  PROVE  LET i == IndexOf(saving.form[g][e].id)
         IN  /\ i \in Nat /\ i + 1 \in DOMAIN saving.found
             /\ saving.found[i + 1].lib = saving.form[g][e].id
<1>1. saving.form[g][e].id \in {saving.found[k].lib : k \in DOMAIN saving.found}
  BY LookUp
<1> QED
  BY <1>1, IndexFound

\* The groups that are stored.
PlacesIn(form) ==
  [g \in DOMAIN form |-> [e \in DOMAIN form[g] |-> IndexOf(form[g][e].id) + 1]]

\* They are numbers, and the form remapped to indices is a form.
LEMMA StoredGroups ==
  ASSUME saving \in SavingType, Unresolved = 0
  PROVE  /\ PlacesIn(saving.form) \in Seq(Seq(Nat))
         /\ Remapped \in Seq(Seq(FormEntry))
<1> DEFINE form == saving.form
           places(g) == [e \in DOMAIN form[g] |-> IndexOf(form[g][e].id) + 1]
           remapped(g) == [e \in DOMAIN form[g] |-> [form[g][e] EXCEPT !.id = IndexOf(@)]]
<1>1. form \in Seq(Seq(FormEntry))
  BY DEF SavingType
<1>2. /\ Len(form) \in Nat /\ DOMAIN form = 1 .. Len(form)
      /\ \A g \in 1 .. Len(form) : form[g] \in Seq(FormEntry)
  BY <1>1, LenProperties, ElementOfSeq
<1>3. ASSUME NEW g \in 1 .. Len(form)
      PROVE  places(g) \in Seq(Nat) /\ remapped(g) \in Seq(FormEntry)
  <2>1. /\ Len(form[g]) \in Nat /\ DOMAIN form[g] = 1 .. Len(form[g])
        /\ \A e \in DOMAIN form[g] : form[g][e] \in FormEntry
    BY <1>2, LenProperties, ElementOfSeq
  <2>2. \A e \in DOMAIN form[g] : IndexOf(form[g][e].id) \in Nat
    BY <1>2, AllFound
  <2>3. \A e \in DOMAIN form[g] : [form[g][e] EXCEPT !.id = IndexOf(@)] \in FormEntry
    BY <2>1, <2>2 DEF FormEntry
  <2> HIDE DEF form
  <2> QED
    BY <2>1, <2>2, <2>3
<1> HIDE DEF places, remapped
<1>4. /\ [g \in 1 .. Len(form) |-> places(g)] \in Seq(Seq(Nat))
      /\ [g \in 1 .. Len(form) |-> remapped(g)] \in Seq(Seq(FormEntry))
  <2> HIDE DEF form
  <2> QED
    BY <1>2, <1>3
<1>5. PlacesIn(form) = [g \in 1 .. Len(form) |-> places(g)]
  BY <1>2 DEF PlacesIn, places
<1>6. Remapped = [g \in 1 .. Len(form) |-> remapped(g)]
  BY <1>2 DEF Remapped, remapped
<1> QED
  BY <1>4, <1>5, <1>6

\* patternRepo.Create or Update refuses the pattern, or stores it.
StoreRefused ==
  \E j, k \in DOMAIN saving.found : j # k /\ saving.found[j].abbr = saving.found[k].abbr

StoredNext == [stitches |-> saving.found, groups |-> PlacesIn(saving.form)]

\* There is no third way.
LEMMA StoreCases ==
  ASSUME StorePattern
  PROVE  /\ saving.step = "resolve" /\ Unresolved = 0 /\ UNCHANGED << library, counters >>
         /\ \/ StoreRefused /\ Rerender("refused", Remapped) /\ stored' = stored
            \/ stored' = StoredNext /\ Show(NoPage) /\ saving' = NotSaving
BY DEF StorePattern, StoreRefused, StoredNext, PlacesIn

\* Either way the invariant is kept.
LEMMA StorePatternKeeps ==
  ASSUME EditorInv, StorePattern
  PROVE  EditorInv'
<1>1. /\ saving.step = "resolve" /\ Unresolved = 0 /\ UNCHANGED << library, counters >>
      /\ saving \in SavingType
  BY StoreCases DEF EditorInv, Typed
<1>2. PlacesIn(saving.form) \in Seq(Seq(Nat)) /\ Remapped \in Seq(Seq(FormEntry))
  BY <1>1, StoredGroups
<1>3. CASE Rerender("refused", Remapped) /\ stored' = stored
  BY <1>1, <1>2, <1>3, RerenderKeeps
<1>4. CASE stored' = StoredNext /\ Show(NoPage) /\ saving' = NotSaving
  <2>1. /\ page' \in PageType /\ arriving' = {} /\ overtaken' = FALSE
        /\ Numbered(page.parts)' /\ FragmentsFresh' /\ InOrder'
        /\ (page.from # "refused" => RowsHonest(page.parts))'
    BY <1>1, <1>4, LeaveKeeps
  <2>2. stored' \in [stitches : Seq(StitchRow), groups : Seq(Seq(Nat))]
    BY <1>1, <1>2, <1>4 DEF StoredNext, SavingType
  <2>3. NotSaving \in SavingType
    BY DEF NotSaving, SavingType
  <2>4. Typed'
    BY <1>1, <1>4, <2>1, <2>2, <2>3 DEF EditorInv, Typed, counters
  <2>5. StoredRefers'
    <3>1. stored'.groups = PlacesIn(saving.form) /\ stored'.stitches = saving.found
      BY <1>4 DEF StoredNext
    <3>2. \A g \in DOMAIN saving.form : \A e \in DOMAIN saving.form[g] :
            PlacesIn(saving.form)[g][e] \in DOMAIN saving.found
      BY <1>1, AllFound DEF PlacesIn
    <3>3. /\ DOMAIN PlacesIn(saving.form) = DOMAIN saving.form
          /\ \A g \in DOMAIN saving.form : DOMAIN PlacesIn(saving.form)[g] = DOMAIN saving.form[g]
      BY DEF PlacesIn
    <3> QED
      BY <3>1, <3>2, <3>3 DEF StoredRefers
  <2>6. FormCarried'
    BY <1>4 DEF FormCarried, NotSaving
  <2> QED
    BY <2>1, <2>4, <2>5, <2>6 DEF EditorInv
<1> QED
  BY <1>3, <1>4, StoreCases

\* The library loses a stitch, or one gets another abbreviation.
LEMMA ChangeLibraryKeeps ==
  ASSUME EditorInv, ChangeLibrary
  PROVE  EditorInv'
<1>1. PICK id \in DOMAIN library : Lib!Remove(id) \/ \E a \in Abbreviations : Lib!Rename(id, a)
  BY DEF ChangeLibrary
<1>2. \A i \in DOMAIN library : library[i] \in LibraryRow
  BY DEF EditorInv, Typed
<1>3. /\ DOMAIN library' \subseteq DOMAIN library
      /\ library' \in [DOMAIN library' -> LibraryRow]
  <2>1. CASE Lib!Remove(id)
    BY <1>2, <2>1 DEF Lib!Remove
  <2>2. ASSUME NEW a \in Abbreviations, Lib!Rename(id, a)
        PROVE  /\ DOMAIN library' \subseteq DOMAIN library
               /\ library' \in [DOMAIN library' -> LibraryRow]
    <3>1. library' = [library EXCEPT ![id].abbr = a, ![id].had = @ \cup {a}]
      BY <2>2 DEF Lib!Rename
    <3> DEFINE row == [library[id] EXCEPT !.abbr = a, !.had = @ \cup {a}]
    <3>2. row \in LibraryRow
      BY <1>2 DEF LibraryRow
    <3>3. library' = [library EXCEPT ![id] = row]
      BY <1>2, <3>1 DEF LibraryRow, EditorInv, Typed
    <3> HIDE DEF row
    <3>4. library \in [DOMAIN library -> LibraryRow]
      BY DEF EditorInv, Typed
    <3> QED
      BY <3>2, <3>3, <3>4
  <2> QED
    BY <1>1, <2>1, <2>2
<1>4. Typed'
  <2>1. changes' \in 0 .. MaxChanges
    BY EditorAssumptions DEF ChangeLibrary, EditorInv, Typed
  <2>2. DOMAIN library' \subseteq Nat \ {0}
    BY <1>3 DEF EditorInv, Typed
  <2> QED
    BY <1>3, <2>1, <2>2 DEF ChangeLibrary, EditorInv, Typed
<1>5. (page.from # "refused" => RowsHonest(page.parts))'
  BY <1>3 DEF ChangeLibrary, EditorInv, RowsHonest, RowHonest
<1>6. FormCarried'
  BY DEF ChangeLibrary, EditorInv, FormCarried
<1>7. StoredRefers' /\ Numbered(page.parts)' /\ FragmentsFresh' /\ InOrder'
  BY DEF ChangeLibrary, EditorInv, StoredRefers, FragmentsFresh, InOrder
<1> QED
  BY <1>4, <1>5, <1>6, <1>7 DEF EditorInv

-----------------------------------------------------------------------------
(***************************************************************************)
(* The theorems.                                                           *)
(***************************************************************************)

\* At first there is no form, and the stored pattern has stitches for its rows.
LEMMA EditorInvInit == Init => EditorInv
<1> SUFFICES ASSUME Init PROVE EditorInv
  OBVIOUS
<1> USE DEF Init
<1>1. DOMAIN library \subseteq Nat \ {0} /\ library \in [DOMAIN library -> LibraryRow]
  BY EditorAssumptions DEF LibraryRow
<1>2. stored \in [stitches : Seq(StitchRow), groups : Seq(Seq(Nat))] /\ StoredRefers
  <2> DEFINE Rows == [abbr : Abbreviations, lib : Nat \ {0}]
  <2>1. stored \in [stitches : Seq(Rows), groups : Seq(Seq(Nat))]
    BY EditorAssumptions
  <2>2. Rows \subseteq StitchRow
    BY DEF StitchRow
  <2> HIDE DEF Rows, Init
  <2>3. stored.stitches \in Seq(StitchRow)
    <3>1. stored.stitches \in Seq(Rows)
      BY <2>1
    <3>2. /\ Len(stored.stitches) \in Nat /\ DOMAIN stored.stitches = 1 .. Len(stored.stitches)
          /\ \A k \in 1 .. Len(stored.stitches) : stored.stitches[k] \in StitchRow
          /\ stored.stitches = [k \in 1 .. Len(stored.stitches) |-> stored.stitches[k]]
      BY <2>2, <3>1, LenProperties, ElementOfSeq
    <3> QED
      BY <3>2
  <2>4. StoredRefers
    BY EditorAssumptions DEF Init, StoredRefers
  <2> QED
    BY <2>1, <2>3, <2>4
<1>3. NoPage \in PageType /\ NoPage.parts = << >> /\ DOMAIN << >> = {}
  BY DEF NoPage, PageType
<1>4. NotSaving \in SavingType /\ NotSaving.step = "none"
  BY DEF NotSaving, SavingType
<1>5. Typed
  <2>1. clicks \in 0 .. MaxClicks /\ changes \in 0 .. MaxChanges /\ saves \in 0 .. MaxSaves
    BY EditorAssumptions
  <2>2. page \in PageType /\ saving \in SavingType
    BY <1>3, <1>4
  <2>3. arriving = {} /\ overtaken \in BOOLEAN
    OBVIOUS
  <2> HIDE DEF Init
  <2> QED
    BY <1>1, <1>2, <2>1, <2>2, <2>3 DEF Typed
<1>6. Numbered(page.parts) /\ RowsInOrder(page.parts) /\ RowsHonest(page.parts)
  BY <1>3 DEF Numbered, RowsInOrder, RowsHonest, Indices, Distinct, Increasing
<1>7. FragmentsFresh
  BY <1>3 DEF FragmentsFresh, Below
<1>8. FormCarried
  BY <1>4 DEF FormCarried
<1> QED
  BY <1>2, <1>5, <1>6, <1>7, <1>8 DEF EditorInv, InOrder

\* No step of the editor disturbs the invariant.
LEMMA EditorInvStep == EditorInv /\ [Next]_vars => EditorInv'
<1> SUFFICES ASSUME EditorInv, [Next]_vars PROVE EditorInv'
  OBVIOUS
<1>1. page.parts \in Seq(PartType) /\ \A p \in DOMAIN page.parts : page.parts[p].gi \in Nat
  <2>1. page.parts \in Seq(PartType)
    BY DEF EditorInv, Typed, PageType
  <2> QED
    BY <2>1, PartsTyped
<1>2. CASE OpenNew
  BY <1>2, OpenNewKeeps
<1>3. CASE OpenEdit
  BY <1>3, OpenEditKeeps
<1>4. CASE Discard
  BY <1>4, DiscardKeeps
<1>5. CASE AddPart
  BY <1>5, ClickKeeps DEF AddPart
<1>6. ASSUME NEW p \in DOMAIN page.parts, AddEntry(p) PROVE EditorInv'
  BY <1>1, <1>6, ClickKeeps DEF AddEntry
<1>7. ASSUME NEW p \in DOMAIN page.parts, RemovePart(p) PROVE EditorInv'
  BY <1>7, RemovePartKeeps
<1>8. ASSUME NEW p \in DOMAIN page.parts, NEW e \in DOMAIN page.parts[p].entries,
             RemoveEntry(p, e)
      PROVE  EditorInv'
  BY <1>8, RemoveEntryKeeps
<1>9. ASSUME NEW p \in DOMAIN page.parts, NEW e \in DOMAIN page.parts[p].entries,
             NEW id \in DOMAIN library, Choose(p, e, id)
      PROVE  EditorInv'
  BY <1>9, ChooseKeeps
<1>10. ASSUME NEW f \in arriving, Deliver(f) \/ Lose(f) PROVE EditorInv'
  BY <1>10, DeliverKeeps, LoseKeeps
<1>11. CASE Submit
  BY <1>11, SubmitKeeps
<1>12. CASE Validate
  BY <1>12, ValidateKeeps
<1>13. CASE Resolve
  BY <1>13, ResolveKeeps
<1>14. CASE StorePattern
  BY <1>14, StorePatternKeeps
<1>15. CASE ChangeLibrary
  BY <1>15, ChangeLibraryKeeps
<1>16. CASE UNCHANGED vars
  BY <1>16, EditorStutters
<1> QED
  BY <1>2, <1>3, <1>4, <1>5, <1>6, <1>7, <1>8, <1>9, <1>10, <1>11, <1>12, <1>13, <1>14,
     <1>15, <1>16 DEF Next

\* The invariant always holds: rows and fragments have numbers of their own, in
\* the order of the clicks unless one has overtaken another; rows show what was
\* selected; and a save carries the form that is shown.
THEOREM EditorInvHolds == Spec => []EditorInv
<1>1. Init => EditorInv
  BY EditorInvInit
<1>2. EditorInv /\ [Next]_vars => EditorInv'
  BY EditorInvStep
<1> QED
  BY <1>1, <1>2, PTL DEF Spec

\* No two rows of the form have the same index, however its parts and entries
\* were rendered, added, removed, delayed or lost, and the groups of the stored
\* pattern refer to its stitches.
THEOREM EditorTypeCorrect == Spec => []TypeOK
<1>1. EditorInv => TypeOK
  <2> SUFFICES ASSUME EditorInv PROVE TypeOK
    OBVIOUS
  <2>1. page.from \in {"none", "new", "stored", "invalid", "refused"}
    BY DEF EditorInv, Typed, PageType
  <2>2. Distinct([p \in DOMAIN page.parts |-> page.parts[p].gi])
    BY DEF EditorInv, Numbered, Indices
  <2>3. \A p \in DOMAIN page.parts :
          LET es == page.parts[p].entries IN Distinct([e \in DOMAIN es |-> es[e].ei])
    BY DEF EditorInv, Numbered, EntryIndices
  <2>4. clicks \in 0 .. MaxClicks /\ changes \in 0 .. MaxChanges /\ saves \in 0 .. MaxSaves
    BY DEF EditorInv, Typed
  <2> QED
    BY <2>1, <2>2, <2>3, <2>4 DEF TypeOK, EditorInv, StoredRefers
<1> QED
  BY <1>1, EditorInvHolds, PTL

\* Forms show what the user selected: when a stored pattern is opened, and when
\* a form is shown again because it was invalid.
THEOREM SelectionsAreKept == Spec => []FormsKeepSelections
<1>1. EditorInv => FormsKeepSelections
  BY DEF EditorInv, FormsKeepSelections, RowsHonest, RowHonest
<1> QED
  BY <1>1, EditorInvHolds, PTL

\* Only the transaction of a save changes the stored pattern.
LEMMA OnlyStorePatternStores ==
  [Next]_vars /\ stored' # stored => StorePattern
BY DEF Next, vars, OpenNew, OpenEdit, Discard, AddPart, AddEntry, Click, RemovePart, RemoveEntry,
       Choose, Deliver, Lose, Submit, Validate, Resolve, ChangeLibrary

\* A save stores what the form shows, part by part and entry by entry, whatever
\* was added, removed, delayed or lost, unless a fragment has overtaken an
\* earlier one.
THEOREM SavesAreAsShown == Spec => SavedAsShown
<1>1. EditorInv /\ [Next]_vars
        => [stored' # stored /\ ~ overtaken => SavedIds(stored') = Displayed(page.parts)]_vars
  <2> SUFFICES ASSUME EditorInv, [Next]_vars, stored' # stored, ~ overtaken
               PROVE  SavedIds(stored') = Displayed(page.parts)
    OBVIOUS
  <2>1. StorePattern
    BY OnlyStorePatternStores
  <2>2. /\ saving.step = "resolve" /\ Unresolved = 0 /\ saving \in SavingType
        /\ stored' = StoredNext
    BY <2>1, StoreCases DEF EditorInv, Typed
  <2>3. FormIds(saving.form) = Displayed(page.parts)
    BY <2>2 DEF EditorInv, FormCarried
  <2>4. SavedIds(StoredNext) = FormIds(saving.form)
    <3> DEFINE form == saving.form
               places == PlacesIn(form)
               lib(g, e) == saving.found[places[g][e]].lib
    <3>1. /\ DOMAIN places = DOMAIN form
          /\ \A g \in DOMAIN form : /\ DOMAIN places[g] = DOMAIN form[g]
                                    /\ \A e \in DOMAIN form[g] : lib(g, e) = form[g][e].id
      BY <2>2, AllFound DEF PlacesIn
    <3>2. SavedIds(StoredNext) =
            [g \in DOMAIN places |-> [e \in DOMAIN places[g] |-> lib(g, e)]]
      BY DEF SavedIds, StoredNext
    <3> HIDE DEF places, lib
    <3>3. \A g \in DOMAIN form :
            [e \in DOMAIN places[g] |-> lib(g, e)] = [e \in DOMAIN form[g] |-> form[g][e].id]
      BY <3>1
    <3> QED
      BY <3>1, <3>2, <3>3 DEF FormIds
  <2> QED
    BY <2>2, <2>3, <2>4
<1> QED
  BY <1>1, EditorInvHolds, PTL DEF Spec, SavedAsShown

=============================================================================
