---------------------------- MODULE SharingProofs ----------------------------
(***************************************************************************)
(* Proofs about Sharing, for every number of users, patterns, links and    *)
(* requests in progress: the types, that links and copies are repeated by  *)
(* simultaneous requests only, who gets copies, that copies are whole and  *)
(* independent, and that received patterns stand alone.                    *)
(***************************************************************************)
EXTENDS Sharing, FiniteSetTheorems, FunctionTheorems, TLAPS

-----------------------------------------------------------------------------
(***************************************************************************)
(* What an insertion of stitches and groups returns.                       *)
(***************************************************************************)

\* New row ids are above the last one issued, and one for each key.
LEMMA NewIdsType ==
  ASSUME NEW keys, IsFiniteSet(keys), NEW last \in Nat
  PROVE  /\ Cardinality(keys) \in Nat
         /\ NewIds(keys, last) \in [keys -> last + 1 .. last + Cardinality(keys)]
         /\ \A k \in keys, l \in keys :
              NewIds(keys, last)[k] = NewIds(keys, last)[l] => k = l
<1> DEFINE n == Cardinality(keys)
<1>1. n \in Nat /\ ExistsBijection(1 .. n, keys)
  BY FS_CardinalityType
<1>2. ExistsBijection(keys, 1 .. n)
  BY <1>1, Fun_ExistsBijSymmetric
<1>3. PICK g \in Bijection(keys, 1 .. n) : TRUE
  BY <1>2 DEF ExistsBijection
<1> HIDE DEF n
<1>4. /\ g \in [keys -> 1 .. n]
      /\ \A k \in keys, l \in keys : g[k] = g[l] => k = l
  BY <1>3, Fun_BijectionProperties
<1> DEFINE f == [k \in keys |-> last + g[k]]
<1>5. f \in [keys -> last + 1 .. last + n]
  BY <1>1, <1>4
<1>6. \A k \in keys, l \in keys : f[k] = f[l] => k = l
  BY <1>1, <1>4
<1> HIDE DEF f
<1>7. \E h \in [keys -> last + 1 .. last + n] :
        \A k \in keys, l \in keys : h[k] = h[l] => k = l
  BY <1>5, <1>6
<1> QED
  BY <1>1, <1>7 DEF NewIds, n

\* A key is inserted under its new id.
LEMMA InsertedStitchesType ==
  ASSUME NEW stitches, IsFiniteSet(DOMAIN stitches), NEW last \in Nat
  PROVE  LET ids == NewIds(DOMAIN stitches, last)
             new == InsertedStitches(stitches, last)
         IN  /\ DOMAIN new = {ids[k] : k \in DOMAIN stitches}
             /\ DOMAIN new \subseteq last + 1 .. last + Cardinality(DOMAIN stitches)
             /\ \A k \in DOMAIN stitches : new[ids[k]] = stitches[k]
<1> DEFINE ids == NewIds(DOMAIN stitches, last)
           new == InsertedStitches(stitches, last)
<1>1. /\ ids \in [DOMAIN stitches -> last + 1 .. last + Cardinality(DOMAIN stitches)]
      /\ \A k \in DOMAIN stitches, l \in DOMAIN stitches : ids[k] = ids[l] => k = l
  BY NewIdsType
<1>2. new = [i \in {ids[k] : k \in DOMAIN stitches} |->
               stitches[CHOOSE k \in DOMAIN stitches : ids[k] = i]]
  BY DEF InsertedStitches
<1> HIDE DEF ids, new
<1>3. DOMAIN new = {ids[k] : k \in DOMAIN stitches}
  BY <1>2
<1>4. DOMAIN new \subseteq last + 1 .. last + Cardinality(DOMAIN stitches)
  BY <1>1, <1>3
<1>5. ASSUME NEW k \in DOMAIN stitches
      PROVE  new[ids[k]] = stitches[k]
  <2>1. (CHOOSE l \in DOMAIN stitches : ids[l] = ids[k]) = k
    BY <1>1
  <2> QED
    BY <1>2, <2>1
<1> QED
  BY <1>3, <1>4, <1>5 DEF ids, new

\* Entries that have a stitch with a new id get it; the others keep theirs.
LEMMA RemappedType ==
  ASSUME NEW ids, NEW S, NEW T, NEW entries \in Seq(S),
         \A k \in DOMAIN ids : ids[k] \in T,
         \A k \in S \ DOMAIN ids : k \in T
  PROVE  /\ Remapped(entries, ids) \in Seq(T)
         /\ Len(Remapped(entries, ids)) = Len(entries)
         /\ \A e \in DOMAIN entries : entries[e] \in S /\
              Remapped(entries, ids)[e] =
                IF entries[e] \in DOMAIN ids THEN ids[entries[e]] ELSE entries[e]
<1> DEFINE new == Remapped(entries, ids)
<1>1. DOMAIN entries = 1 .. Len(entries) /\ Len(entries) \in Nat
      /\ \A e \in DOMAIN entries : entries[e] \in S
  OBVIOUS
<1>2. new = [e \in 1 .. Len(entries) |->
               IF entries[e] \in DOMAIN ids THEN ids[entries[e]] ELSE entries[e]]
  BY <1>1 DEF Remapped
<1> HIDE DEF new
<1>3. \A e \in 1 .. Len(entries) : new[e] \in T
  BY <1>1, <1>2
<1>4. new \in [1 .. Len(entries) -> T]
  BY <1>2, <1>3
<1>5. new \in Seq(T) /\ Len(new) = Len(entries)
  BY <1>1, <1>4
<1> QED
  BY <1>1, <1>2, <1>5 DEF new

\* A function on 1 .. m is a sequence.
LEMMA SequenceOfLength ==
  ASSUME NEW R, NEW m \in Nat, NEW f \in [1 .. m -> R]
  PROVE  f \in Seq(R) /\ Len(f) = m
OBVIOUS

\* A stored group.
GroupRows(rows) == [id : rows, entries : Seq(rows), pictured : BOOLEAN]

\* A group with remapped entries is one, if its id and theirs are.
LEMMA GroupInRows ==
  ASSUME NEW S, NEW rows, NEW entries \in Seq(S), NEW ids, NEW i \in rows,
         \A k \in DOMAIN ids : ids[k] \in rows,
         \A k \in S \ DOMAIN ids : k \in rows
  PROVE  Group(i, Remapped(entries, ids), FALSE) \in GroupRows(rows)
<1>1. Remapped(entries, ids) \in Seq(rows)
  BY RemappedType
<1> DEFINE e == Remapped(entries, ids)
<1>2. e \in Seq(rows)
  BY <1>1
<1> HIDE DEF e
<1>3. Group(i, e, FALSE) \in GroupRows(rows)
  BY <1>2 DEF Group, GroupRows
<1> QED
  BY <1>3 DEF e

\* The groups of a new pattern: their ids come after those of its stitches.
LEMMA InsertedGroupsType ==
  ASSUME NEW stitches, IsFiniteSet(DOMAIN stitches), NEW last \in Nat,
         NEW S, NEW groups \in Seq(Seq(S)),
         S \ DOMAIN stitches \subseteq 1 .. LastIssued(stitches, groups, last)
  PROVE  LET top == LastIssued(stitches, groups, last)
         IN  top \in Nat /\ InsertedGroups(stitches, groups, last) \in Seq(GroupRows(1 .. top))
<1> DEFINE ids == NewIds(DOMAIN stitches, last)
           new == InsertedGroups(stitches, groups, last)
           n   == Cardinality(DOMAIN stitches)
           top == LastIssued(stitches, groups, last)
           base == last + n
           rows == 1 .. top
<1>1. n \in Nat /\ ids \in [DOMAIN stitches -> last + 1 .. last + n]
  BY NewIdsType
<1>2. Len(groups) \in Nat /\ DOMAIN groups = 1 .. Len(groups)
  OBVIOUS
<1>3. top = last + n + Len(groups)
  BY DEF LastIssued
<1>4. new = [g \in DOMAIN groups |-> Group(base + g, Remapped(groups[g], ids), FALSE)]
  BY DEF InsertedGroups
<1>5. S \ DOMAIN stitches \subseteq rows
  OBVIOUS
<1> HIDE DEF ids, new, n, top, base
<1>6. top \in Nat
  BY <1>1, <1>2, <1>3
<1>7. \A g \in DOMAIN groups : base + g \in rows
  BY <1>1, <1>2, <1>3 DEF base
<1>8. \A k \in DOMAIN ids : ids[k] \in rows
  <2>1. ASSUME NEW k \in DOMAIN ids PROVE ids[k] \in rows
    <3>1. ids[k] \in last + 1 .. last + n
      BY <1>1
    <3> QED
      BY <1>1, <1>2, <1>3, <3>1
  <2> QED
    BY <2>1
<1> HIDE DEF rows
<1>9. \A k \in S \ DOMAIN ids : k \in rows
  BY <1>1, <1>5
<1> DEFINE v(g) == Group(base + g, Remapped(groups[g], ids), FALSE)
<1>10. ASSUME NEW g \in DOMAIN groups
       PROVE  v(g) \in GroupRows(rows)
  <2> DEFINE entries == groups[g]
             i == base + g
  <2>1. entries \in Seq(S) /\ i \in rows
    BY <1>2, <1>7
  <2> HIDE DEF entries, i
  <2>2. Group(i, Remapped(entries, ids), FALSE) \in GroupRows(rows)
    BY <1>8, <1>9, <2>1, GroupInRows
  <2> QED
    BY <2>2 DEF entries, i
<1>11. new = [g \in 1 .. Len(groups) |-> v(g)]
  BY <1>2, <1>4
<1>12. \A g \in 1 .. Len(groups) : v(g) \in GroupRows(rows)
  BY <1>2, <1>10
<1> HIDE DEF v
<1>13. new \in [1 .. Len(groups) -> GroupRows(rows)]
  BY <1>11, <1>12
<1>14. new \in Seq(GroupRows(rows))
  BY <1>2, <1>13, SequenceOfLength, Zenon
<1> QED
  BY <1>6, <1>14 DEF new, top, rows

\* A form uses finitely many stitches, and no others than it says.
LEMMA StitchesOfFinite ==
  ASSUME NEW form \in Forms
  PROVE  /\ form \in Seq(Seq(DOMAIN StitchesOf(form)))
         /\ IsFiniteSet(DOMAIN StitchesOf(form))
         /\ \A s \in DOMAIN StitchesOf(form) : StitchesOf(form)[s] = s
<1> DEFINE U == DOMAIN StitchesOf(form)
           used(g) == {form[g][e] : e \in DOMAIN form[g]}
           all == {used(g) : g \in DOMAIN form}
<1>1. form \in Seq(Seq(U))
  BY SharingAssumptions DEF SharingAssumptions
<1>2. U = UNION all /\ \A s \in U : StitchesOf(form)[s] = s
  BY DEF StitchesOf
<1> HIDE DEF U
<1>3. /\ Len(form) \in Nat /\ DOMAIN form = 1 .. Len(form)
      /\ \A g \in DOMAIN form : form[g] \in Seq(U)
  BY <1>1
<1>4. ASSUME NEW g \in DOMAIN form
      PROVE  IsFiniteSet(used(g))
  <2> DEFINE f == [e \in DOMAIN form[g] |-> form[g][e]]
  <2>1. DOMAIN form[g] = 1 .. Len(form[g]) /\ Len(form[g]) \in Nat
    BY <1>3
  <2>2. IsFiniteSet(DOMAIN form[g])
    <3>1. PICK n \in Nat : DOMAIN form[g] = 1 .. n
      BY <2>1
    <3>2. IsFiniteSet(1 .. n)
      BY FS_Interval
    <3> QED
      BY <3>1, <3>2
  <2>3. f \in Surjection(DOMAIN form[g], used(g))
    BY DEF Surjection
  <2> QED
    BY <2>2, <2>3, FS_Surjection
<1>5. IsFiniteSet(all)
  <2> DEFINE h == [g \in DOMAIN form |-> used(g)]
  <2>1. IsFiniteSet(DOMAIN form)
    BY <1>3, FS_Interval
  <2>2. h \in Surjection(DOMAIN form, all)
    BY DEF Surjection
  <2> QED
    BY <2>1, <2>2, FS_Surjection
<1>6. IsFiniteSet(UNION all)
  <2>1. \A T \in all : IsFiniteSet(T)
    BY <1>4
  <2> HIDE DEF all
  <2> QED
    BY <1>5, <2>1, FS_UNION
<1> QED
  BY <1>1, <1>2, <1>6 DEF U

-----------------------------------------------------------------------------
(***************************************************************************)
(* Types, and what a request may rely on whatever the others do.           *)
(***************************************************************************)

\* The groups that a request reads.
ReadRows(rows) == [id : rows, entries : Seq(rows)]

\* The counters are natural numbers.
CountTyped ==
  count \in [patterns : Nat, written : Nat, links : Nat, rows : Nat, saves : Nat, images : Nat]

\* A stored pattern, with rows up to top.
PatternTyped(x, top) ==
  /\ DOMAIN x = {"user", "from", "name", "stitches", "groups", "of"}
  /\ x.user \in Users
  /\ x.from \in (Users \ {x.user}) \cup {Nobody}
  /\ DOMAIN x.stitches \subseteq 1 .. top
  /\ x.groups \in Seq(GroupRows(1 .. top))

\* The stored patterns, their rows below the last ids issued.
StoreTyped ==
  /\ CountTyped
  /\ DOMAIN store \subseteq 1 .. count.patterns
  /\ \A p \in DOMAIN store : PatternTyped(store[p], count.rows)
  /\ torn \in BOOLEAN

\* Links lead to patterns their owners wrote, and those they are for were
\* invited.
LinksTyped ==
  /\ DOMAIN links \subseteq 1 .. count.links
  /\ \A t \in DOMAIN links :
       /\ links[t].pattern \in DOMAIN store
       /\ store[links[t].pattern].from = Nobody
       /\ links[t].for \in (Users \ {store[links[t].pattern].user}) \cup {Anyone}
       /\ {links[t].pattern} \X Recipients(links[t].for) \subseteq invited

\* The steps of a request that makes a link, and of one that saves a copy.
ShareSteps == {"listLinks", "insertLink"}
CopySteps  == {"getShared", "listShared", "getPattern", "loadStitches", "loadGroups",
               "loadEntries", "create"}

\* A user wrote pattern p, which may have gone.
Written(p) == p \in 1 .. count.patterns /\ (p \in DOMAIN store => store[p].from = Nobody)

\* The fields of a request in progress.
RequestFields == {"step", "pattern", "for", "token", "from", "name", "stitches", "groups",
                  "read", "copy"}

\* A request to share is the owner's; one to copy a pattern received from
\* somebody comes from a user who was invited.
Promise(u, q) ==
  /\ DOMAIN q = RequestFields
  /\ q.step \in Steps
  /\ q.step \in ShareSteps =>
       /\ Written(q.pattern)
       /\ q.pattern \in DOMAIN store => store[q.pattern].user = u
       /\ q.for \in (Users \ {u}) \cup {Anyone}
  /\ q.step \in CopySteps =>
       /\ Written(q.pattern)
       /\ q.from \in (Users \ {u}) \cup {Nobody}
       /\ q.step = "getShared" \/ q.from # Nobody => << q.pattern, u >> \in invited
       /\ q.step = "listShared" => q.from # Nobody
       /\ q.step \notin {"loadEntries", "create"} => q.read = 0
  /\ DOMAIN q.stitches \subseteq 1 .. count.rows
  /\ q.groups \in Seq(ReadRows(1 .. count.rows))
  /\ q.read \in Nat
  /\ q.step \in {"loadEntries", "copyImages"} => q.read < Len(q.groups)

\* What each request in progress still relies on.
RequestsHonest ==
  /\ DOMAIN request = Requests
  /\ \A r \in Requests : Promise(SentBy[r], request[r])

\* The inductive invariant for the types and for who gets copies.
SharingInv == StoreTyped /\ LinksTyped /\ RequestsHonest /\ OnlyInvitedReceive

\* What every step leaves to the requests: rows and invitations only come, and
\* patterns keep their owner and origin.
StoreGrows ==
  /\ count.patterns <= count'.patterns
  /\ count.rows <= count'.rows
  /\ \A p \in DOMAIN store' : p \in 1 .. count.patterns =>
       p \in DOMAIN store /\ store'[p].user = store[p].user /\ store'[p].from = store[p].from
  /\ invited \subseteq invited'

\* A sequence over a set is one over a larger set.
LEMMA SeqGrows ==
  ASSUME NEW S, NEW T, S \subseteq T, NEW s \in Seq(S)
  PROVE  s \in Seq(T)
<1>1. Len(s) \in Nat /\ DOMAIN s = 1 .. Len(s) /\ \A i \in 1 .. Len(s) : s[i] \in S
  OBVIOUS
<1>2. s = [i \in 1 .. Len(s) |-> s[i]]
  OBVIOUS
<1>3. s \in [1 .. Len(s) -> T]
  BY <1>1, <1>2
<1> QED
  BY <1>1, <1>3, SequenceOfLength, Zenon

\* Typed groups stay typed when rows are added.
LEMMA RowsGrow ==
  ASSUME NEW m \in Nat, NEW n \in Nat, m <= n
  PROVE  /\ 1 .. m \subseteq 1 .. n
         /\ \A s \in Seq(GroupRows(1 .. m)) : s \in Seq(GroupRows(1 .. n))
         /\ \A s \in Seq(ReadRows(1 .. m)) : s \in Seq(ReadRows(1 .. n))
<1>1. 1 .. m \subseteq 1 .. n
  OBVIOUS
<1> DEFINE M == 1 .. m
           N == 1 .. n
<1>2. M \subseteq N
  BY <1>1
<1> HIDE DEF M, N
<1>3. Seq(M) \subseteq Seq(N)
  BY <1>2, SeqGrows
<1>4. GroupRows(M) \subseteq GroupRows(N)
  BY <1>2, <1>3 DEF GroupRows
<1>5. ReadRows(M) \subseteq ReadRows(N)
  BY <1>2, <1>3 DEF ReadRows
<1>6. \A s \in Seq(GroupRows(M)) : s \in Seq(GroupRows(N))
  BY <1>4, SeqGrows
<1>7. \A s \in Seq(ReadRows(M)) : s \in Seq(ReadRows(N))
  BY <1>5, SeqGrows
<1> QED
  BY <1>1, <1>6, <1>7 DEF M, N

\* What a request relies on stays.
LEMMA PromiseStays ==
  ASSUME CountTyped, CountTyped', StoreGrows, NEW u, NEW q, Promise(u, q)
  PROVE  Promise(u, q)'
<1>1. /\ count.rows \in Nat /\ count'.rows \in Nat /\ count.rows <= count'.rows
      /\ count.patterns \in Nat /\ count'.patterns \in Nat
      /\ count.patterns <= count'.patterns
  BY DEF CountTyped, StoreGrows
<1>2. ASSUME Written(q.pattern)
      PROVE  /\ Written(q.pattern)'
             /\ q.pattern \in DOMAIN store' =>
                  q.pattern \in DOMAIN store /\ store'[q.pattern].user = store[q.pattern].user
  BY <1>1, <1>2 DEF Written, StoreGrows
<1>3. /\ DOMAIN q.stitches \subseteq 1 .. count'.rows
      /\ q.groups \in Seq(ReadRows(1 .. count'.rows))
  BY <1>1, RowsGrow DEF Promise
<1>4. q.step \in ShareSteps =>
        /\ Written(q.pattern)'
        /\ q.pattern \in DOMAIN store' => store'[q.pattern].user = u
        /\ q.for \in (Users \ {u}) \cup {Anyone}
  BY <1>2 DEF Promise
<1>5. q.step \in CopySteps =>
        /\ Written(q.pattern)'
        /\ q.from \in (Users \ {u}) \cup {Nobody}
        /\ q.step = "getShared" \/ q.from # Nobody => << q.pattern, u >> \in invited'
        /\ q.step = "listShared" => q.from # Nobody
        /\ q.step \notin {"loadEntries", "create"} => q.read = 0
  BY <1>2 DEF Promise, StoreGrows
<1> QED
  BY <1>3, <1>4, <1>5 DEF Promise

\* A step of one request leaves the others what they rely on.
LEMMA StepHonest ==
  ASSUME CountTyped, CountTyped', StoreGrows, RequestsHonest,
         NEW r \in Requests, NEW q,
         request' = [request EXCEPT ![r] = q],
         Promise(SentBy[r], q)'
  PROVE  RequestsHonest'
<1>1. DOMAIN request = Requests /\ \A s \in Requests : Promise(SentBy[s], request[s])
  BY DEF RequestsHonest
<1>2. DOMAIN request' = Requests
  BY <1>1
<1>3. ASSUME NEW s \in Requests
      PROVE  Promise(SentBy[s], request[s])'
  <2>1. CASE s = r
    <3>1. request'[s] = q
      BY <1>1, <2>1
    <3> QED
      BY <2>1, <3>1 DEF Promise
  <2>2. CASE s # r
    <3>1. PICK x : x = request[s]
      OBVIOUS
    <3>2. request'[s] = x
      BY <1>1, <2>2, <3>1
    <3>3. Promise(SentBy[s], x)
      BY <1>1, <3>1
    <3>4. Promise(SentBy[s], x)'
      BY <3>3, PromiseStays
    <3> QED
      BY <3>2, <3>4 DEF Promise
  <2> QED
    BY <2>1, <2>2
<1> QED
  BY <1>2, <1>3 DEF RequestsHonest

\* An answered request relies on nothing.
LEMMA IdlePromise ==
  ASSUME CountTyped, NEW u
  PROVE  Promise(u, Idle)
<1>1. << >> \in Seq(ReadRows(1 .. count.rows)) /\ DOMAIN << >> = {}
  OBVIOUS
<1> QED
  BY <1>1 DEF Promise, RequestFields, Idle, Steps, ShareSteps, CopySteps, NoName

\* A step that changes requests only.
LEMMA RequestStep ==
  ASSUME SharingInv, UNCHANGED << store, links, count, invited, torn, renamed >>,
         NEW r \in Requests, NEW q,
         request' = [request EXCEPT ![r] = q],
         Promise(SentBy[r], q)
  PROVE  SharingInv'
<1>1. /\ store' = store /\ links' = links /\ count' = count
      /\ invited' = invited /\ torn' = torn
  OBVIOUS
<1>2. CountTyped /\ CountTyped'
  BY <1>1 DEF SharingInv, StoreTyped, CountTyped
<1>3. StoreGrows
  BY <1>1, <1>2 DEF StoreGrows, CountTyped
<1>4. Promise(SentBy[r], q)'
  BY <1>2, <1>3, PromiseStays
<1>5. RequestsHonest'
  BY <1>2, <1>3, <1>4, StepHonest DEF SharingInv
<1>6. StoreTyped'
  BY <1>1 DEF SharingInv, StoreTyped, CountTyped
<1>7. LinksTyped'
  BY <1>1 DEF SharingInv, LinksTyped
<1>8. OnlyInvitedReceive'
  BY <1>1 DEF SharingInv, OnlyInvitedReceive, IsReceived
<1> QED
  BY <1>5, <1>6, <1>7, <1>8 DEF SharingInv

\* The same, when the step answers.
LEMMA AnswerStep ==
  ASSUME SharingInv, UNCHANGED << store, links, count, invited, torn, renamed >>,
         NEW r \in Requests, Answer(r)
  PROVE  SharingInv'
<1>1. CountTyped
  BY DEF SharingInv, StoreTyped
<1> QED
  BY <1>1, IdlePromise, RequestStep DEF Answer

\* Users are not Nobody, nor Anyone.
LEMMA UsersAreNot == SentBy \in [Requests -> Users] /\ Nobody \notin Users /\ Anyone \notin Users
BY SharingAssumptions DEF SharingAssumptions, Nobody, Anyone

\* A new request relies on its step only.
LEMMA BeginPromise ==
  ASSUME CountTyped, NEW u, NEW q,
         DOMAIN q = RequestFields,
         q.from = Nobody, q.stitches = << >>, q.groups = << >>, q.read = 0,
         q.step \in Steps \ {"listShared", "loadEntries", "copyImages"},
         q.step \in ShareSteps =>
           /\ Written(q.pattern)
           /\ q.pattern \in DOMAIN store => store[q.pattern].user = u
           /\ q.for \in (Users \ {u}) \cup {Anyone},
         q.step \in CopySteps =>
           /\ Written(q.pattern)
           /\ q.step = "getShared" => << q.pattern, u >> \in invited
  PROVE  Promise(u, q)
<1>1. << >> \in Seq(ReadRows(1 .. count.rows)) /\ DOMAIN << >> = {}
  OBVIOUS
<1> QED
  BY <1>1 DEF Promise

\* The patterns that exist were numbered.
LEMMA PatternNumbered ==
  ASSUME StoreTyped, NEW p \in DOMAIN store
  PROVE  PatternTyped(store[p], count.rows) /\ p \in 1 .. count.patterns
BY DEF StoreTyped

\* Requests to share and to copy begin with what was checked.
LEMMA BeginKeepsInv ==
  ASSUME SharingInv, NEW r \in Requests,
         \/ \E p \in DOMAIN store, for \in Users \cup {Anyone} : BeginShare(r, p, for)
         \/ \E token \in DOMAIN links : BeginRevoke(r, token) \/ BeginSave(r, token)
         \/ \E p \in DOMAIN store : BeginRevokeAll(r, p) \/ BeginDuplicate(r, p)
  PROVE  SharingInv'
<1>1. CountTyped /\ StoreTyped /\ LinksTyped
  BY DEF SharingInv, StoreTyped
<1>2. ASSUME NEW p \in DOMAIN store, NEW for \in Users \cup {Anyone}, BeginShare(r, p, for)
      PROVE  SharingInv'
  <2> DEFINE q == [Idle EXCEPT !.step = "listLinks", !.pattern = p, !.for = for]
  <2>1. /\ DOMAIN q = RequestFields /\ q.step = "listLinks"
        /\ q.from = Nobody /\ q.stitches = << >> /\ q.groups = << >> /\ q.read = 0
        /\ q.pattern = p
        /\ q.for = for
    BY DEF Idle, RequestFields
  <2>2. Written(p) /\ store[p].user = SentBy[r] /\ for \in (Users \ {SentBy[r]}) \cup {Anyone}
    BY <1>1, <1>2, PatternNumbered DEF BeginShare, OwnPattern, Written
  <2>3. request' = [request EXCEPT ![r] = q] /\ UNCHANGED << store, links, count, invited, torn, renamed >>
    BY <1>2 DEF BeginShare, Begin
  <2> HIDE DEF q
  <2>4. Promise(SentBy[r], q)
    BY <1>1, <2>1, <2>2, BeginPromise DEF Steps, ShareSteps, CopySteps
  <2> QED
    BY <2>3, <2>4, RequestStep
<1>3. ASSUME NEW token \in DOMAIN links, BeginRevoke(r, token)
      PROVE  SharingInv'
  <2> DEFINE q == [Idle EXCEPT !.step = "deleteLink", !.token = token]
  <2>1. /\ DOMAIN q = RequestFields /\ q.step = "deleteLink"
        /\ q.from = Nobody /\ q.stitches = << >> /\ q.groups = << >> /\ q.read = 0
    BY DEF Idle, RequestFields
  <2>2. request' = [request EXCEPT ![r] = q] /\ UNCHANGED << store, links, count, invited, torn, renamed >>
    BY <1>3 DEF BeginRevoke, Begin
  <2> HIDE DEF q
  <2>3. Promise(SentBy[r], q)
    BY <1>1, <2>1, BeginPromise DEF Steps, ShareSteps, CopySteps
  <2> QED
    BY <2>2, <2>3, RequestStep
<1>4. ASSUME NEW token \in DOMAIN links, BeginSave(r, token)
      PROVE  SharingInv'
  <2> DEFINE p == links[token].pattern
             q == [Idle EXCEPT !.step = "getShared", !.pattern = p]
  <2>1. /\ DOMAIN q = RequestFields /\ q.step = "getShared"
        /\ q.from = Nobody /\ q.stitches = << >> /\ q.groups = << >> /\ q.read = 0
        /\ q.pattern = p
    BY DEF Idle, RequestFields
  <2>2. Written(p)
    BY <1>1, PatternNumbered DEF LinksTyped, Written
  <2>3. SentBy[r] \in Recipients(links[token].for)
    BY <1>4, UsersAreNot DEF BeginSave, Recipients
  <2>4. << p, SentBy[r] >> \in invited
    BY <1>1, <2>3 DEF LinksTyped
  <2>5. request' = [request EXCEPT ![r] = q] /\ UNCHANGED << store, links, count, invited, torn, renamed >>
    BY <1>4 DEF BeginSave, Begin
  <2> HIDE DEF p, q
  <2>6. Promise(SentBy[r], q)
    BY <1>1, <2>1, <2>2, <2>4, BeginPromise DEF Steps, ShareSteps, CopySteps
  <2> QED
    BY <2>5, <2>6, RequestStep
<1>5. ASSUME NEW p \in DOMAIN store, BeginRevokeAll(r, p)
      PROVE  SharingInv'
  <2> DEFINE q == [Idle EXCEPT !.step = "deleteLinks", !.pattern = p]
  <2>1. /\ DOMAIN q = RequestFields /\ q.step = "deleteLinks"
        /\ q.from = Nobody /\ q.stitches = << >> /\ q.groups = << >> /\ q.read = 0
        /\ q.pattern = p
    BY DEF Idle, RequestFields
  <2>2. request' = [request EXCEPT ![r] = q] /\ UNCHANGED << store, links, count, invited, torn, renamed >>
    BY <1>5 DEF BeginRevokeAll, Begin
  <2> HIDE DEF q
  <2>3. Promise(SentBy[r], q)
    BY <1>1, <2>1, BeginPromise DEF Steps, ShareSteps, CopySteps
  <2> QED
    BY <2>2, <2>3, RequestStep
<1>6. ASSUME NEW p \in DOMAIN store, BeginDuplicate(r, p)
      PROVE  SharingInv'
  <2> DEFINE q == [Idle EXCEPT !.step = "getPattern", !.pattern = p]
  <2>1. /\ DOMAIN q = RequestFields /\ q.step = "getPattern"
        /\ q.from = Nobody /\ q.stitches = << >> /\ q.groups = << >> /\ q.read = 0
        /\ q.pattern = p
    BY DEF Idle, RequestFields
  <2>2. Written(p)
    BY <1>1, <1>6, PatternNumbered DEF BeginDuplicate, OwnPattern, Written
  <2>3. request' = [request EXCEPT ![r] = q] /\ UNCHANGED << store, links, count, invited, torn, renamed >>
    BY <1>6 DEF BeginDuplicate, Begin
  <2> HIDE DEF q
  <2>4. Promise(SentBy[r], q)
    BY <1>1, <2>1, <2>2, BeginPromise DEF Steps, ShareSteps, CopySteps
  <2> QED
    BY <2>3, <2>4, RequestStep
<1> QED
  BY <1>2, <1>3, <1>4, <1>5, <1>6

\* A request that goes on with the same data.
LEMMA GoOnPromise ==
  ASSUME NEW u, NEW q, Promise(u, q), NEW step,
         \/ step = "insertLink" /\ q.step = "listLinks"
         \/ step = "getPattern" /\ q.step = "listShared"
         \/ step = "create" /\ q.step = "loadGroups"
  PROVE  Promise(u, [q EXCEPT !.step = step])
BY DEF Promise, RequestFields, Steps, ShareSteps, CopySteps

\* What a request in progress was promised.
LEMMA PromiseOf ==
  ASSUME SharingInv, NEW r \in Requests
  PROVE  /\ CountTyped /\ StoreTyped /\ DOMAIN request = Requests
         /\ Promise(SentBy[r], request[r])
BY DEF SharingInv, StoreTyped, RequestsHonest

\* The checks before a link is made, or a pattern is copied.
LEMMA CheckKeepsInv ==
  ASSUME SharingInv, NEW r \in Requests,
         ListLinks(r) \/ GetShared(r) \/ ListShared(r) \/ GetPattern(r)
  PROVE  SharingInv'
<1>1. PICK q : q = request[r]
  OBVIOUS
<1>2. CountTyped /\ StoreTyped /\ Promise(SentBy[r], q) /\ DOMAIN request = Requests
  BY <1>1, PromiseOf
<1>3. ASSUME NEW step \in Steps, GoOn(r, step)
      PROVE  request' = [request EXCEPT ![r] = [q EXCEPT !.step = step]]
  BY <1>1, <1>3 DEF GoOn
<1>4. ASSUME NEW step \in {"insertLink", "getPattern"}, GoOn(r, step),
             UNCHANGED << store, links, count, invited, torn, renamed >>,
             step = "insertLink" => q.step = "listLinks",
             step = "getPattern" => q.step = "listShared"
      PROVE  SharingInv'
  <2>1. request' = [request EXCEPT ![r] = [q EXCEPT !.step = step]]
    BY <1>3, <1>4 DEF Steps
  <2>2. Promise(SentBy[r], [q EXCEPT !.step = step])
    BY <1>2, <1>4, GoOnPromise
  <2> DEFINE p == [q EXCEPT !.step = step]
  <2> HIDE DEF p
  <2>3. request' = [request EXCEPT ![r] = p] /\ Promise(SentBy[r], p)
    BY <2>1, <2>2 DEF p
  <2> QED
    BY <1>4, <2>3, RequestStep
<1>5. CASE ListLinks(r)
  <2>1. /\ q.step = "listLinks" /\ UNCHANGED << store, links, count, invited, torn, renamed >>
        /\ Answer(r) \/ GoOn(r, "insertLink")
    BY <1>1, <1>5 DEF ListLinks
  <2> QED
    BY <1>4, <2>1, AnswerStep
<1>6. CASE ListShared(r)
  <2>1. /\ q.step = "listShared" /\ UNCHANGED << store, links, count, invited, torn, renamed >>
        /\ Answer(r) \/ GoOn(r, "getPattern")
    BY <1>1, <1>6 DEF ListShared
  <2> QED
    BY <1>4, <2>1, AnswerStep
<1>7. CASE GetShared(r)
  <2> DEFINE p == q.pattern
  <2>1. /\ q.step = "getShared" /\ UNCHANGED << store, links, count, invited, torn, renamed >>
        /\ \/ Answer(r)
           \/ /\ p \in DOMAIN store /\ store[p].user # SentBy[r]
              /\ request' = [request EXCEPT ![r].step = "listShared",
                              ![r].from = store[p].user, ![r].name = store[p].name]
    BY <1>1, <1>7 DEF GetShared
  <2>2. ASSUME p \in DOMAIN store, store[p].user # SentBy[r],
               request' = [request EXCEPT ![r].step = "listShared",
                              ![r].from = store[p].user, ![r].name = store[p].name]
        PROVE  SharingInv'
    <3>1. PICK x : x = [q EXCEPT !.step = "listShared",
                           !.from = store[p].user, !.name = store[p].name]
      OBVIOUS
    <3>2. request' = [request EXCEPT ![r] = x]
      BY <1>1, <1>2, <2>2, <3>1
    <3>3. store[p].user \in Users \ {SentBy[r]} /\ store[p].user # Nobody
      BY <1>2, <2>2, PatternNumbered, UsersAreNot DEF PatternTyped
    <3>4. Promise(SentBy[r], x)
      BY <1>2, <2>1, <3>1, <3>3 DEF Promise, RequestFields, Steps, ShareSteps, CopySteps
    <3> QED
      BY <2>1, <3>2, <3>4, RequestStep
  <2> QED
    BY <2>1, <2>2, AnswerStep
<1>8. CASE GetPattern(r)
  <2> DEFINE p == q.pattern
  <2>1. /\ q.step = "getPattern" /\ UNCHANGED << store, links, count, invited, torn, renamed >>
        /\ \/ Answer(r)
           \/ request' = [request EXCEPT ![r].step = "loadStitches", ![r].name = store[p].name]
    BY <1>1, <1>8 DEF GetPattern
  <2>2. ASSUME request' = [request EXCEPT ![r].step = "loadStitches", ![r].name = store[p].name]
        PROVE  SharingInv'
    <3>1. PICK x : x = [q EXCEPT !.step = "loadStitches", !.name = store[p].name]
      OBVIOUS
    <3>2. request' = [request EXCEPT ![r] = x]
      BY <1>1, <1>2, <2>2, <3>1
    <3>3. Promise(SentBy[r], x)
      BY <1>2, <2>1, <3>1 DEF Promise, RequestFields, Steps, ShareSteps, CopySteps
    <3> QED
      BY <2>1, <3>2, <3>3, RequestStep
  <2> QED
    BY <2>1, <2>2, AnswerStep
<1> QED
  BY <1>5, <1>6, <1>7, <1>8

\* The entries of a group id are stitch rows.
LEMMA EntriesInRows ==
  ASSUME StoreTyped, NEW id
  PROVE  EntriesOfGroup(store, id) \in Seq(1 .. count.rows)
<1> DEFINE R == 1 .. count.rows
           found == {group \in GroupsOf(store) : group.id = id}
<1>1. << >> \in Seq(R)
  OBVIOUS
<1>2. ASSUME NEW group \in GroupsOf(store)
      PROVE  group.entries \in Seq(R)
  <2>1. PICK p \in DOMAIN store : \E g \in DOMAIN store[p].groups : group = store[p].groups[g]
    BY <1>2 DEF GroupsOf
  <2>2. store[p].groups \in Seq(GroupRows(R))
    BY DEF StoreTyped, PatternTyped
  <2>3. group \in GroupRows(R)
    BY <2>1, <2>2
  <2> HIDE DEF R
  <2> QED
    BY <2>3 DEF GroupRows
<1>3. CASE found = {}
  BY <1>1, <1>3 DEF EntriesOfGroup
<1>4. CASE found # {}
  <2>1. (CHOOSE group \in found : TRUE) \in GroupsOf(store)
    BY <1>4
  <2>2. EntriesOfGroup(store, id) = (CHOOSE group \in found : TRUE).entries
    BY <1>4 DEF EntriesOfGroup
  <2> HIDE DEF found, R
  <2> QED
    BY <1>2, <2>1, <2>2 DEF R
<1> QED
  BY <1>3, <1>4

\* Groups as they are read, before their entries are.
LEMMA IdsRead ==
  ASSUME NEW rows, NEW groups \in Seq(GroupRows(rows)), NEW read,
         read = [g \in DOMAIN groups |-> [id |-> groups[g].id, entries |-> << >>]]
  PROVE  /\ read \in Seq(ReadRows(rows))
         /\ Len(read) = Len(groups) /\ DOMAIN read = DOMAIN groups
<1>1. /\ Len(groups) \in Nat /\ DOMAIN groups = 1 .. Len(groups)
      /\ \A g \in DOMAIN groups : groups[g] \in GroupRows(rows)
  OBVIOUS
<1> DEFINE v(g) == [id |-> groups[g].id, entries |-> << >>]
<1>2. ASSUME NEW g \in DOMAIN groups PROVE v(g) \in ReadRows(rows)
  <2>1. groups[g] \in GroupRows(rows)
    BY <1>1
  <2>2. groups[g].id \in rows
    BY <2>1 DEF GroupRows
  <2>3. << >> \in Seq(rows)
    OBVIOUS
  <2> QED
    BY <2>2, <2>3 DEF ReadRows
<1>3. read = [g \in 1 .. Len(groups) |-> v(g)]
  BY <1>1
<1>4. \A g \in 1 .. Len(groups) : v(g) \in ReadRows(rows)
  BY <1>1, <1>2
<1> HIDE DEF v
<1>5. read \in [1 .. Len(groups) -> ReadRows(rows)] /\ DOMAIN read = 1 .. Len(groups)
  BY <1>3, <1>4
<1>6. read \in Seq(ReadRows(rows)) /\ Len(read) = Len(groups)
  BY <1>1, <1>5, SequenceOfLength, Zenon
<1> QED
  BY <1>1, <1>5, <1>6

\* A group of those read gets its entries.
LEMMA EntriesRead ==
  ASSUME NEW rows, NEW groups \in Seq(ReadRows(rows)), NEW g \in DOMAIN groups,
         NEW entries \in Seq(rows)
  PROVE  LET read == [groups EXCEPT ![g].entries = entries]
         IN  /\ read \in Seq(ReadRows(rows))
             /\ Len(read) = Len(groups) /\ DOMAIN read = DOMAIN groups
             /\ \A h \in DOMAIN groups :
                  /\ read[h].id = groups[h].id
                  /\ read[h].entries = IF h = g THEN entries ELSE groups[h].entries
<1> DEFINE read == [groups EXCEPT ![g].entries = entries]
           new == [groups[g] EXCEPT !.entries = entries]
<1>1. /\ Len(groups) \in Nat /\ DOMAIN groups = 1 .. Len(groups)
      /\ \A h \in DOMAIN groups : groups[h] \in ReadRows(rows)
  OBVIOUS
<1>2. groups[g] \in ReadRows(rows)
  BY <1>1
<1>3. new \in ReadRows(rows) /\ new.id = groups[g].id /\ new.entries = entries
  BY <1>2 DEF ReadRows
<1>4. read = [groups EXCEPT ![g] = new]
  OBVIOUS
<1> HIDE DEF new, read
<1>5. /\ DOMAIN read = 1 .. Len(groups)
      /\ \A h \in DOMAIN groups : read[h] = IF h = g THEN new ELSE groups[h]
      /\ read = [h \in 1 .. Len(groups) |-> read[h]]
  BY <1>1, <1>4
<1>6. \A h \in 1 .. Len(groups) : read[h] \in ReadRows(rows)
  BY <1>1, <1>3, <1>5
<1>7. read \in [1 .. Len(groups) -> ReadRows(rows)]
  BY <1>5, <1>6
<1>8. read \in Seq(ReadRows(rows)) /\ Len(read) = Len(groups)
  BY <1>1, <1>7, SequenceOfLength, Zenon
<1> QED
  BY <1>1, <1>3, <1>5, <1>8 DEF read

\* The queries that read a pattern.
LEMMA LoadKeepsInv ==
  ASSUME SharingInv, NEW r \in Requests,
         LoadStitches(r) \/ LoadGroups(r) \/ LoadEntries(r)
  PROVE  SharingInv'
<1>1. PICK q : q = request[r]
  OBVIOUS
<1>2. CountTyped /\ StoreTyped /\ Promise(SentBy[r], q) /\ DOMAIN request = Requests
  BY <1>1, PromiseOf
<1> DEFINE p == q.pattern
<1>3. CASE LoadStitches(r)
  <2>1. PICK stitches : stitches = IF p \in DOMAIN store THEN store[p].stitches ELSE << >>
    OBVIOUS
  <2>2. /\ q.step = "loadStitches" /\ UNCHANGED << store, links, count, invited, torn, renamed >>
        /\ request' = [request EXCEPT ![r].step = "loadGroups", ![r].stitches = stitches]
    BY <1>1, <1>3, <2>1 DEF LoadStitches
  <2>3. DOMAIN stitches \subseteq 1 .. count.rows
    <3>1. CASE p \in DOMAIN store
      BY <1>2, <2>1, <3>1 DEF StoreTyped, PatternTyped
    <3>2. CASE p \notin DOMAIN store
      BY <2>1, <3>2
    <3> QED
      BY <3>1, <3>2
  <2>4. PICK x : x = [q EXCEPT !.step = "loadGroups", !.stitches = stitches]
    OBVIOUS
  <2>5. request' = [request EXCEPT ![r] = x]
    BY <1>1, <1>2, <2>2, <2>4
  <2>6. Promise(SentBy[r], x)
    BY <1>2, <2>2, <2>3, <2>4 DEF Promise, RequestFields, Steps, ShareSteps, CopySteps
  <2> QED
    BY <2>2, <2>5, <2>6, RequestStep
<1>4. CASE LoadGroups(r)
  <2>1. q.step = "loadGroups" /\ UNCHANGED << store, links, count, invited, torn, renamed >>
    BY <1>1, <1>4 DEF LoadGroups
  <2>2. CASE p \in DOMAIN store
    <3>1. PICK groups : groups = store[p].groups
      OBVIOUS
    <3>2. PICK read : read = [g \in DOMAIN groups |-> [id |-> groups[g].id, entries |-> << >>]]
      OBVIOUS
    <3>3. PICK step : step = IF groups = << >> THEN "create" ELSE "loadEntries"
      OBVIOUS
    <3>4. request' = [request EXCEPT ![r].step = step, ![r].groups = read]
      BY <1>1, <1>4, <2>2, <3>1, <3>2, <3>3 DEF LoadGroups
    <3>5. groups \in Seq(GroupRows(1 .. count.rows))
      BY <1>2, <2>2, <3>1 DEF StoreTyped, PatternTyped
    <3>6. read \in Seq(ReadRows(1 .. count.rows)) /\ Len(read) = Len(groups)
      BY <3>2, <3>5, IdsRead
    <3>7. PICK x : x = [q EXCEPT !.step = step, !.groups = read]
      OBVIOUS
    <3>8. request' = [request EXCEPT ![r] = x]
      BY <1>1, <1>2, <3>4, <3>7
    <3>9. step = "loadEntries" => 0 < Len(groups)
      <4>1. Len(groups) \in Nat /\ (groups # << >> => Len(groups) # 0)
        BY <3>5
      <4> QED
        BY <3>3, <4>1
    <3>10. Promise(SentBy[r], x)
      BY <1>2, <2>1, <3>3, <3>6, <3>7, <3>9 DEF Promise, RequestFields, Steps, ShareSteps, CopySteps
    <3> QED
      BY <2>1, <3>8, <3>10, RequestStep
  <2>3. CASE p \notin DOMAIN store
    <3>1. PICK x : x = [q EXCEPT !.step = "create"]
      OBVIOUS
    <3>2. request' = [request EXCEPT ![r] = x]
      BY <1>1, <1>4, <2>3, <3>1 DEF LoadGroups, GoOn
    <3>3. Promise(SentBy[r], x)
      BY <1>2, <2>1, <3>1, GoOnPromise
    <3> QED
      BY <2>1, <3>2, <3>3, RequestStep
  <2> QED
    BY <2>2, <2>3
<1>5. CASE LoadEntries(r)
  <2> DEFINE g == q.read + 1
  <2>1. PICK entries : entries = EntriesOfGroup(store, q.groups[g].id)
    OBVIOUS
  <2>2. PICK step : step = IF g = Len(q.groups) THEN "create" ELSE "loadEntries"
    OBVIOUS
  <2>3. PICK read : read = [q.groups EXCEPT ![g].entries = entries]
    OBVIOUS
  <2>4. /\ q.step = "loadEntries" /\ UNCHANGED << store, links, count, invited, torn, renamed >>
        /\ request' = [request EXCEPT ![r].step = step, ![r].read = g,
                                      ![r].groups[g].entries = entries]
    BY <1>1, <1>5, <2>1, <2>2 DEF LoadEntries
  <2>5. /\ q.groups \in Seq(ReadRows(1 .. count.rows)) /\ q.read \in Nat
        /\ q.read < Len(q.groups)
    BY <1>2, <2>4 DEF Promise
  <2>6. g \in DOMAIN q.groups /\ g \in Nat /\ g <= Len(q.groups)
    BY <2>5
  <2>7. read \in Seq(ReadRows(1 .. count.rows)) /\ Len(read) = Len(q.groups)
    BY <1>2, <2>1, <2>3, <2>5, <2>6, EntriesInRows, EntriesRead
  <2>8. PICK x : x = [q EXCEPT !.step = step, !.read = g, !.groups = read]
    OBVIOUS
  <2>9. request' = [request EXCEPT ![r] = x]
    BY <1>1, <1>2, <2>3, <2>4, <2>8
  <2> HIDE DEF g
  <2>10. step = "loadEntries" => g < Len(read)
    BY <2>2, <2>5, <2>6, <2>7
  <2>11. Promise(SentBy[r], x)
    BY <1>2, <2>2, <2>4, <2>6, <2>7, <2>8, <2>10
       DEF Promise, RequestFields, Steps, ShareSteps, CopySteps
  <2> QED
    BY <2>4, <2>9, <2>11, RequestStep
<1> QED
  BY <1>3, <1>4, <1>5

\* Links are made to patterns that exist, and taken away.
LEMMA LinkKeepsInv ==
  ASSUME SharingInv, NEW r \in Requests,
         InsertLink(r) \/ DeleteLink(r) \/ DeleteLinks(r)
  PROVE  SharingInv'
<1>1. PICK q : q = request[r]
  OBVIOUS
<1>2. CountTyped /\ StoreTyped /\ Promise(SentBy[r], q) /\ DOMAIN request = Requests
  BY <1>1, PromiseOf
<1>3. LinksTyped /\ RequestsHonest /\ OnlyInvitedReceive
  BY DEF SharingInv
<1>4. ASSUME store' = store, torn' = torn, CountTyped', count'.patterns = count.patterns,
             count'.rows = count.rows, invited \subseteq invited', LinksTyped', Answer(r)
      PROVE  SharingInv'
  <2>1. StoreGrows
    BY <1>2, <1>4 DEF StoreGrows, CountTyped
  <2>2. Promise(SentBy[r], Idle)'
    BY <1>4, <2>1, <1>2, IdlePromise, PromiseStays
  <2>3. RequestsHonest'
    BY <1>2, <1>3, <1>4, <2>1, <2>2, StepHonest DEF Answer
  <2>4. StoreTyped'
    BY <1>2, <1>4 DEF StoreTyped, PatternTyped
  <2>5. OnlyInvitedReceive'
    BY <1>3, <1>4 DEF OnlyInvitedReceive, IsReceived
  <2> QED
    BY <1>4, <2>3, <2>4, <2>5 DEF SharingInv
<1>5. ASSUME NEW gone, links' = Without(links, gone), Answer(r),
             UNCHANGED << store, count, invited, torn, renamed >>
      PROVE  SharingInv'
  <2>1. DOMAIN links' \subseteq DOMAIN links /\ \A t \in DOMAIN links' : links'[t] = links[t]
    BY <1>5 DEF Without
  <2>2. store' = store /\ count' = count /\ invited' = invited /\ torn' = torn
    BY <1>5
  <2>3. LinksTyped'
    BY <1>3, <2>1, <2>2 DEF LinksTyped
  <2>4. CountTyped'
    BY <1>2, <2>2 DEF CountTyped
  <2> QED
    BY <1>4, <1>5, <2>2, <2>3, <2>4
<1>6. CASE InsertLink(r)
  <2> DEFINE token == count.links + 1
             p     == q.pattern
             new   == [pattern |-> p, for |-> q.for]
  <2>1. q.step = "insertLink" /\ Answer(r) /\ UNCHANGED << store, torn, renamed >>
    BY <1>1, <1>6 DEF InsertLink
  <2>2. CASE p \notin DOMAIN store
    <3>1. UNCHANGED << store, links, count, invited, torn, renamed >>
      BY <1>1, <1>6, <2>2 DEF InsertLink
    <3> QED
      BY <2>1, <3>1, AnswerStep
  <2>3. CASE p \in DOMAIN store
    <3>1. /\ links' = With(links, token, new)
          /\ count' = [count EXCEPT !.links = token]
          /\ invited' = invited \cup {p} \X Recipients(q.for)
      BY <1>1, <1>6, <2>3 DEF InsertLink
    <3>2. CountTyped' /\ count'.patterns = count.patterns /\ count'.rows = count.rows
      BY <1>2, <3>1 DEF CountTyped
    <3>3. /\ store[p].user = SentBy[r] /\ store[p].from = Nobody
          /\ q.for \in (Users \ {SentBy[r]}) \cup {Anyone}
      BY <1>2, <2>1, <2>3 DEF Promise, ShareSteps, Written
    <3>4. /\ DOMAIN links' = DOMAIN links \cup {token}
          /\ \A t \in DOMAIN links' : links'[t] = IF t = token THEN new ELSE links[t]
      BY <3>1 DEF With
    <3>5. count.links \in Nat /\ count'.links = token
      BY <1>2, <3>1 DEF CountTyped
    <3>6. DOMAIN links' \subseteq 1 .. count'.links
      BY <1>3, <3>4, <3>5 DEF LinksTyped
    <3>7. ASSUME NEW t \in DOMAIN links'
          PROVE  /\ links'[t].pattern \in DOMAIN store'
                 /\ store'[links'[t].pattern].from = Nobody
                 /\ links'[t].for \in (Users \ {store'[links'[t].pattern].user}) \cup {Anyone}
                 /\ {links'[t].pattern} \X Recipients(links'[t].for) \subseteq invited'
      <4>1. CASE t = token
        <5>1. links'[t].pattern = p /\ links'[t].for = q.for
          BY <3>4, <4>1
        <5>2. store' = store
          BY <2>1
        <5> QED
          BY <2>3, <3>1, <3>3, <5>1, <5>2
      <4>2. CASE t # token
        <5>1. t \in DOMAIN links /\ links'[t] = links[t]
          BY <3>4, <4>2
        <5>2. store' = store
          BY <2>1
        <5> QED
          BY <1>3, <3>1, <5>1, <5>2 DEF LinksTyped
      <4> QED
        BY <4>1, <4>2
    <3>8. LinksTyped'
      BY <3>6, <3>7 DEF LinksTyped
    <3> QED
      BY <1>4, <2>1, <3>1, <3>2, <3>8
  <2> QED
    BY <2>2, <2>3
<1>7. CASE DeleteLink(r)
  BY <1>5, <1>7 DEF DeleteLink
<1>8. CASE DeleteLinks(r)
  BY <1>5, <1>8 DEF DeleteLinks
<1> QED
  BY <1>6, <1>7, <1>8

-----------------------------------------------------------------------------
(***************************************************************************)
(* Changes of the store.                                                   *)
(***************************************************************************)

\* Finitely many stitches, and groups whose entries refer to them or to rows.
Insertable(stitches, groups) ==
  /\ IsFiniteSet(DOMAIN stitches)
  /\ \E S : groups \in Seq(Seq(S)) /\ S \ DOMAIN stitches \subseteq 1 .. count.rows

\* A pattern with new rows, up to top.
NewRows(x, top) ==
  /\ top \in Nat /\ count.rows <= top
  /\ PatternTyped(x, top)
  /\ DOMAIN x.stitches \subseteq count.rows + 1 .. top
  /\ \A g \in DOMAIN x.groups : x.groups[g].id \in count.rows + 1 .. top

\* A new pattern has new rows, up to the last one issued.
LEMMA NewPatternType ==
  ASSUME CountTyped, NEW u \in Users, NEW from \in (Users \ {u}) \cup {Nobody}, NEW name,
         NEW stitches, NEW groups, Insertable(stitches, groups), NEW of
  PROVE  NewRows(NewPattern(u, from, name, stitches, groups, of),
                 LastIssued(stitches, groups, count.rows))
<1>1. PICK last \in Nat : last = count.rows
  BY DEF CountTyped
<1> IsFiniteSet(DOMAIN stitches)
  BY DEF Insertable
<1> PICK S : groups \in Seq(Seq(S)) /\ S \ DOMAIN stitches \subseteq 1 .. count.rows
  BY DEF Insertable
<1> DEFINE n   == Cardinality(DOMAIN stitches)
           top == LastIssued(stitches, groups, last)
           ss  == InsertedStitches(stitches, last)
           gs  == InsertedGroups(stitches, groups, last)
           x   == NewPattern(u, from, name, stitches, groups, of)
<1>2. Len(groups) \in Nat /\ DOMAIN groups = 1 .. Len(groups)
  OBVIOUS
<1>3. n \in Nat /\ top = last + n + Len(groups)
  BY FS_CardinalityType DEF LastIssued
<1>4. DOMAIN ss \subseteq last + 1 .. last + n
  BY InsertedStitchesType
<1>5. S \ DOMAIN stitches \subseteq 1 .. top
  <2>1. last <= top /\ top \in Nat
    BY <1>2, <1>3
  <2>2. S \ DOMAIN stitches \subseteq 1 .. last
    BY <1>1
  <2>3. 1 .. last \subseteq 1 .. top
    BY <2>1, RowsGrow
  <2> QED
    BY <2>2, <2>3
<1>6. gs \in Seq(GroupRows(1 .. top))
  BY <1>5, InsertedGroupsType
<1>7. DOMAIN gs = DOMAIN groups /\ \A g \in DOMAIN gs : gs[g].id = last + n + g
  BY DEF InsertedGroups, Group
<1>8. /\ DOMAIN x = {"user", "from", "name", "stitches", "groups", "of"}
      /\ x.user = u /\ x.from = from /\ x.name = name /\ x.of = of
      /\ x.stitches = ss /\ x.groups = gs
  BY <1>1 DEF NewPattern
<1> HIDE DEF x, ss, gs, top, n
<1>9. top \in Nat /\ last <= top
  BY <1>2, <1>3
<1>10. DOMAIN ss \subseteq last + 1 .. top /\ DOMAIN ss \subseteq 1 .. top
  BY <1>2, <1>3, <1>4
<1>11. \A g \in DOMAIN gs : gs[g].id \in last + 1 .. top
  BY <1>2, <1>3, <1>7
<1>12. PatternTyped(x, top)
  BY <1>6, <1>8, <1>10 DEF PatternTyped
<1>13. NewRows(x, top)
  BY <1>1, <1>8, <1>9, <1>10, <1>11, <1>12 DEF NewRows
<1> QED
  BY <1>1, <1>13 DEF x, top

\* A pattern that is added.
LEMMA AddedPattern ==
  ASSUME SharingInv, NEW x, NEW p, p = count.patterns + 1,
         PatternTyped(x, count'.rows),
         x.from # Nobody => << x.of, x.user >> \in invited,
         store' = With(store, p, x),
         CountTyped', count'.patterns = p, count'.links = count.links,
         count.rows <= count'.rows,
         UNCHANGED << links, invited, torn, renamed >>
  PROVE  StoreGrows /\ StoreTyped' /\ LinksTyped' /\ OnlyInvitedReceive'
<1>1. StoreTyped /\ LinksTyped /\ OnlyInvitedReceive /\ CountTyped
  BY DEF SharingInv, StoreTyped
<1>2. /\ DOMAIN store' = DOMAIN store \cup {p}
      /\ \A s \in DOMAIN store' : store'[s] = IF s = p THEN x ELSE store[s]
  BY DEF With
<1>3. count.patterns \in Nat /\ count.rows \in Nat /\ count'.rows \in Nat
      /\ p \notin 1 .. count.patterns
  BY <1>1 DEF CountTyped
<1>4. \A s \in DOMAIN store : s # p /\ s \in DOMAIN store' /\ store'[s] = store[s]
  BY <1>1, <1>2, <1>3 DEF StoreTyped
<1>5. links' = links /\ invited' = invited /\ torn' = torn
  OBVIOUS
<1>6. StoreGrows
  BY <1>2, <1>3, <1>5 DEF StoreGrows
<1>7. StoreTyped'
  <2>1. DOMAIN store' \subseteq 1 .. count'.patterns
    BY <1>1, <1>2, <1>3 DEF StoreTyped
  <2>2. ASSUME NEW s \in DOMAIN store'
        PROVE  PatternTyped(store'[s], count'.rows)
    <3>1. CASE s = p
      BY <1>2, <3>1
    <3>2. CASE s # p
      <4>1. s \in DOMAIN store /\ store'[s] = store[s]
        BY <1>2, <3>2
      <4>2. PatternTyped(store[s], count.rows)
        BY <1>1, <4>1 DEF StoreTyped
      <4> QED
        BY <1>3, <4>1, <4>2, RowsGrow DEF PatternTyped
    <3> QED
      BY <3>1, <3>2
  <2> QED
    BY <1>1, <1>5, <2>1, <2>2 DEF StoreTyped
<1>8. LinksTyped'
  BY <1>1, <1>4, <1>5 DEF LinksTyped
<1>9. OnlyInvitedReceive'
  <2>1. ASSUME NEW c \in DOMAIN store', store'[c].from # Nobody
        PROVE  << store'[c].of, store'[c].user >> \in invited
    <3>1. CASE c = p
      BY <1>2, <2>1, <3>1
    <3>2. CASE c # p
      BY <1>1, <1>2, <2>1, <3>2 DEF OnlyInvitedReceive, IsReceived
    <3> QED
      BY <3>1, <3>2
  <2> QED
    BY <1>5, <2>1 DEF OnlyInvitedReceive, IsReceived
<1> QED
  BY <1>6, <1>7, <1>8, <1>9

\* Patterns that change in place keep their owner, their origin and whose
\* copy they are.
LEMMA ChangedPattern ==
  ASSUME SharingInv, DOMAIN store' = DOMAIN store,
         \A p \in DOMAIN store :
           /\ PatternTyped(store'[p], count'.rows)
           /\ store'[p].user = store[p].user
           /\ store'[p].from = store[p].from
           /\ store'[p].of = store[p].of,
         CountTyped', count'.patterns = count.patterns, count'.links = count.links,
         count.rows <= count'.rows, torn' \in BOOLEAN,
         UNCHANGED << links, invited >>
  PROVE  StoreGrows /\ StoreTyped' /\ LinksTyped' /\ OnlyInvitedReceive'
<1>1. StoreTyped /\ LinksTyped /\ OnlyInvitedReceive /\ CountTyped
  BY DEF SharingInv, StoreTyped
<1>2. links' = links /\ invited' = invited
  OBVIOUS
<1>3. StoreGrows
  BY <1>1, <1>2 DEF StoreGrows, CountTyped
<1>4. StoreTyped'
  BY <1>1 DEF StoreTyped
<1>5. LinksTyped'
  BY <1>1, <1>2 DEF LinksTyped
<1>6. OnlyInvitedReceive'
  BY <1>1, <1>2 DEF OnlyInvitedReceive, IsReceived
<1> QED
  BY <1>3, <1>4, <1>5, <1>6

\* Requests are not touched.
LEMMA RequestsKept ==
  ASSUME SharingInv, StoreGrows, CountTyped', request' = request
  PROVE  RequestsHonest'
<1>1. CountTyped /\ DOMAIN request = Requests
  BY DEF SharingInv, StoreTyped, RequestsHonest
<1>2. ASSUME NEW s \in Requests PROVE Promise(SentBy[s], request[s])'
  <2>1. PICK x : x = request[s]
    OBVIOUS
  <2>2. Promise(SentBy[s], x)
    BY <2>1 DEF SharingInv, RequestsHonest
  <2>3. Promise(SentBy[s], x)'
    BY <1>1, <2>2, PromiseStays
  <2> QED
    BY <2>1, <2>3 DEF Promise
<1> QED
  BY <1>1, <1>2 DEF RequestsHonest

\* The entries that a request has read are sequences of stitch rows.
EntriesIn(groups) == [g \in DOMAIN groups |-> groups[g].entries]

\* The entries of the groups that a request has read, by group.
LEMMA EntriesOfRead ==
  ASSUME NEW rows, NEW groups \in Seq(ReadRows(rows))
  PROVE  /\ EntriesIn(groups) \in Seq(Seq(rows))
         /\ DOMAIN EntriesIn(groups) = DOMAIN groups
         /\ \A g \in DOMAIN groups : groups[g].entries \in Seq(rows)
<1> DEFINE entries == EntriesIn(groups)
<1>1. /\ Len(groups) \in Nat /\ DOMAIN groups = 1 .. Len(groups)
      /\ \A g \in DOMAIN groups : groups[g] \in ReadRows(rows)
  OBVIOUS
<1>2. \A g \in DOMAIN groups : groups[g].entries \in Seq(rows)
  BY <1>1 DEF ReadRows
<1>3. entries \in [1 .. Len(groups) -> Seq(rows)] /\ DOMAIN entries = DOMAIN groups
  BY <1>1, <1>2 DEF EntriesIn
<1> HIDE DEF entries
<1>4. entries \in Seq(Seq(rows))
  BY <1>1, <1>3, SequenceOfLength, Zenon
<1> QED
  BY <1>2, <1>3, <1>4 DEF entries

\* A set of numbers up to a bound is finite.
LEMMA RowsFinite ==
  ASSUME NEW n \in Nat, NEW S, S \subseteq 1 .. n
  PROVE  IsFiniteSet(S)
<1>1. IsFiniteSet(1 .. n)
  BY FS_Interval
<1> QED
  BY <1>1, FS_Subset

\* Groups whose ids have been replaced by those of new ones.
WithIds(groups, new) == [g \in DOMAIN groups |-> [groups[g] EXCEPT !.id = new[g].id]]

\* Groups whose ids are replaced by stored ones stay groups.
LEMMA IdsReplaced ==
  ASSUME NEW rows, NEW groups \in Seq(ReadRows(rows)), NEW new,
         \A g \in DOMAIN groups : new[g].id \in rows
  PROVE  WithIds(groups, new) \in Seq(ReadRows(rows)) /\ Len(WithIds(groups, new)) = Len(groups)
<1> DEFINE result == WithIds(groups, new)
<1>1. /\ Len(groups) \in Nat /\ DOMAIN groups = 1 .. Len(groups)
      /\ \A g \in DOMAIN groups : groups[g] \in ReadRows(rows)
  OBVIOUS
<1> DEFINE v(g) == [groups[g] EXCEPT !.id = new[g].id]
<1>2. ASSUME NEW g \in DOMAIN groups PROVE v(g) \in ReadRows(rows)
  <2>1. groups[g] \in ReadRows(rows) /\ new[g].id \in rows
    BY <1>1
  <2> QED
    BY <2>1 DEF ReadRows
<1>3. result = [g \in 1 .. Len(groups) |-> v(g)]
  BY <1>1 DEF WithIds
<1>4. \A g \in 1 .. Len(groups) : v(g) \in ReadRows(rows)
  BY <1>1, <1>2
<1> HIDE DEF v, result
<1>5. result \in [1 .. Len(groups) -> ReadRows(rows)]
  BY <1>3, <1>4
<1>6. result \in Seq(ReadRows(rows)) /\ Len(result) = Len(groups)
  BY <1>1, <1>5, SequenceOfLength, Zenon
<1> QED
  BY <1>6 DEF result

\* The copy that a request creates: the row ids it has read have no meaning in
\* the new pattern, those it has no stitch for stay as they are.
LEMMA CopyTyped ==
  ASSUME StoreTyped, NEW u \in Users, NEW q, Promise(u, q), q.step = "create",
         NEW entries, entries = EntriesIn(q.groups), NEW name
  PROVE  /\ NewRows(NewPattern(u, q.from, name, q.stitches, entries, q.pattern),
                    LastIssued(q.stitches, entries, count.rows))
         /\ DOMAIN entries = DOMAIN q.groups
         /\ q.from # Nobody => << q.pattern, u >> \in invited
<1> DEFINE R == 1 .. count.rows
<1>1. CountTyped /\ count.rows \in Nat
  BY DEF StoreTyped, CountTyped
<1>2. DOMAIN q.stitches \subseteq R /\ q.groups \in Seq(ReadRows(R))
  BY DEF Promise
<1>3. IsFiniteSet(DOMAIN q.stitches)
  BY <1>1, <1>2, RowsFinite
<1>4. entries \in Seq(Seq(R)) /\ DOMAIN entries = DOMAIN q.groups
  BY <1>2, EntriesOfRead
<1>5. /\ q.from \in (Users \ {u}) \cup {Nobody}
      /\ q.from # Nobody => << q.pattern, u >> \in invited
  BY DEF Promise, CopySteps
<1>6. Insertable(q.stitches, entries)
  <2>1. R \ DOMAIN q.stitches \subseteq 1 .. count.rows
    OBVIOUS
  <2> QED
    BY <1>3, <1>4, <2>1 DEF Insertable
<1>7. NewRows(NewPattern(u, q.from, name, q.stitches, entries, q.pattern),
              LastIssued(q.stitches, entries, count.rows))
  BY <1>1, <1>5, <1>6, NewPatternType
<1> QED
  BY <1>4, <1>5, <1>7

\* The pattern that a request of user u creates, the last row id it takes, and
\* how the request goes on.
CopyBy(u, q) ==
  NewPattern(u, q.from, CopyName(q), q.stitches, EntriesIn(q.groups), q.pattern)

\* The last row id in use once the copy of q is inserted.
LastRow(q) == LastIssued(q.stitches, EntriesIn(q.groups), count.rows)

\* The request goes on to the images of the copy x.
GoingOn(q, x) ==
  [q EXCEPT !.step = "copyImages", !.copy = count.patterns + 1, !.read = 0,
            !.groups = WithIds(q.groups, x.groups)]

\* Request r of user u, q, creates x with rows up to top, or fails.
CopyMade(r, u, q, x, top) ==
  /\ q.step = "create" /\ UNCHANGED << links, invited, torn, renamed >>
  /\ \/ Answer(r) /\ UNCHANGED << store, count >>
     \/ /\ Referenced(x)
        /\ store' = With(store, count.patterns + 1, x)
        /\ count' = [count EXCEPT !.patterns = count.patterns + 1, !.rows = top]
        /\ request' = [request EXCEPT ![r] =
             IF q.from = Nobody \/ q.groups = << >> THEN Idle ELSE GoingOn(q, x)]
  /\ NewRows(x, top)
  /\ DOMAIN x.groups = DOMAIN q.groups
  /\ x.user = u /\ x.from = q.from /\ x.of = q.pattern /\ x.name = CopyName(q)
  /\ x.from # Nobody => << x.of, x.user >> \in invited

\* This is what CreateCopy does.
LEMMA CopyCreated ==
  ASSUME SharingInv, NEW r \in Requests, CreateCopy(r),
         NEW u, u = SentBy[r], NEW q, q = request[r], NEW x, x = CopyBy(u, q),
         NEW top, top = LastRow(q)
  PROVE  CopyMade(r, u, q, x, top)
<1> DEFINE Q == request[r]
           E == [g \in DOMAIN Q.groups |-> Q.groups[g].entries]
           X == NewPattern(SentBy[r], Q.from, CopyName(Q), Q.stitches, E, Q.pattern)
           G == [g \in DOMAIN Q.groups |-> [Q.groups[g] EXCEPT !.id = X.groups[g].id]]
           copy == count.patterns + 1
           Going == [Q EXCEPT !.step = "copyImages", !.copy = copy, !.read = 0, !.groups = G]
<1>1. /\ Q.step = "create" /\ UNCHANGED << links, invited, torn, renamed >>
      /\ \/ Answer(r) /\ UNCHANGED << store, count >>
         \/ /\ Referenced(X)
            /\ store' = With(store, copy, X)
            /\ count' = Counted(Q.stitches, E)
            /\ request' = [request EXCEPT ![r] =
                 IF Q.from = Nobody \/ Q.groups = << >> THEN Idle ELSE Going]
  BY DEF CreateCopy
<1>2. E = EntriesIn(q.groups)
  BY DEF EntriesIn
<1>3. X = x
  BY <1>2 DEF CopyBy
<1>4. G = WithIds(q.groups, x.groups)
  BY <1>3 DEF WithIds
<1>5. Going = GoingOn(q, x)
  BY <1>4 DEF GoingOn
<1>6. Counted(Q.stitches, E) = [count EXCEPT !.patterns = count.patterns + 1, !.rows = top]
  BY <1>2 DEF Counted, LastRow
<1>7. CountTyped /\ StoreTyped /\ Promise(u, q) /\ u \in Users
  BY PromiseOf, UsersAreNot
<1> HIDE DEF E, X, G, Going, copy
<1>8. /\ q.step = "create" /\ UNCHANGED << links, invited, torn, renamed >>
      /\ \/ Answer(r) /\ UNCHANGED << store, count >>
         \/ /\ Referenced(x)
            /\ store' = With(store, count.patterns + 1, x)
            /\ count' = [count EXCEPT !.patterns = count.patterns + 1, !.rows = top]
            /\ request' = [request EXCEPT ![r] =
                 IF q.from = Nobody \/ q.groups = << >> THEN Idle ELSE GoingOn(q, x)]
  BY <1>1, <1>3, <1>5, <1>6 DEF copy
<1>9. PICK name, entries : name = CopyName(q) /\ entries = EntriesIn(q.groups)
  OBVIOUS
<1>10. /\ x = NewPattern(u, q.from, name, q.stitches, entries, q.pattern)
       /\ top = LastIssued(q.stitches, entries, count.rows)
  BY <1>9 DEF CopyBy, LastRow
<1>11. /\ NewRows(x, top) /\ DOMAIN entries = DOMAIN q.groups
       /\ q.from # Nobody => << q.pattern, u >> \in invited
  <2>1. q.step = "create"
    BY <1>8
  <2> QED
    BY <1>7, <1>9, <1>10, <2>1, CopyTyped
<1>12. /\ x.user = u /\ x.from = q.from /\ x.of = q.pattern /\ x.name = name
       /\ x.groups = InsertedGroups(q.stitches, entries, count.rows)
  BY <1>10 DEF NewPattern
<1>13. DOMAIN x.groups = DOMAIN q.groups
  BY <1>11, <1>12 DEF InsertedGroups
<1> QED
  BY <1>8, <1>9, <1>11, <1>12, <1>13 DEF CopyMade

\* Creating a copy.
LEMMA CreateCopyKeepsInv ==
  ASSUME SharingInv, NEW r \in Requests, CreateCopy(r)
  PROVE  SharingInv'
<1>1. PICK u, q : u = SentBy[r] /\ q = request[r]
  OBVIOUS
<1>2. PICK x, top : x = CopyBy(u, q) /\ top = LastRow(q)
  OBVIOUS
<1>3. /\ q.step = "create" /\ UNCHANGED << links, invited, torn, renamed >>
      /\ \/ Answer(r) /\ UNCHANGED << store, count >>
         \/ /\ store' = With(store, count.patterns + 1, x)
            /\ count' = [count EXCEPT !.patterns = count.patterns + 1, !.rows = top]
            /\ request' = [request EXCEPT ![r] =
                 IF q.from = Nobody \/ q.groups = << >> THEN Idle ELSE GoingOn(q, x)]
      /\ NewRows(x, top) /\ DOMAIN x.groups = DOMAIN q.groups
      /\ x.from # Nobody => << x.of, x.user >> \in invited
  <2>1. CopyMade(r, u, q, x, top)
    BY <1>1, <1>2, CopyCreated
  <2> QED
    BY <2>1 DEF CopyMade
<1>4. CountTyped /\ StoreTyped /\ Promise(u, q) /\ DOMAIN request = Requests
  BY <1>1, PromiseOf
<1>5. /\ top \in Nat /\ count.rows <= top /\ PatternTyped(x, top) /\ count.rows \in Nat
      /\ \A g \in DOMAIN x.groups : x.groups[g].id \in 1 .. top
  BY <1>3, <1>4 DEF NewRows, CountTyped
<1> DEFINE copy == count.patterns + 1
<1> PICK going : going = GoingOn(q, x)
  OBVIOUS
<1>6. CASE Answer(r) /\ UNCHANGED << store, count >>
  BY <1>3, <1>6, AnswerStep
<1>7. CASE /\ store' = With(store, copy, x)
           /\ count' = [count EXCEPT !.patterns = copy, !.rows = top]
           /\ request' = [request EXCEPT ![r] =
                IF q.from = Nobody \/ q.groups = << >> THEN Idle ELSE going]
  <2>1. count.patterns \in Nat /\ copy \in Nat
    BY <1>4 DEF CountTyped
  <2>2. going = [q EXCEPT !.step = "copyImages", !.copy = copy, !.read = 0,
                          !.groups = WithIds(q.groups, x.groups)]
    BY DEF GoingOn
  <2> HIDE DEF copy
  <2>3. /\ CountTyped' /\ count'.patterns = copy /\ count'.links = count.links
        /\ count'.rows = top
    BY <1>4, <1>5, <1>7, <2>1 DEF CountTyped
  <2>4. StoreGrows /\ StoreTyped' /\ LinksTyped' /\ OnlyInvitedReceive'
    BY <1>3, <1>5, <1>7, <2>3, AddedPattern DEF copy
  <2>5. Promise(u, Idle)'
    BY <1>4, <2>3, <2>4, IdlePromise, PromiseStays
  <2>6. ASSUME q.groups # << >>
        PROVE  Promise(u, going)'
    <3>1. Promise(u, q)'
      BY <1>4, <2>3, <2>4, PromiseStays
    <3>2. DOMAIN q.stitches \subseteq 1 .. top /\ q.groups \in Seq(ReadRows(1 .. top))
          /\ DOMAIN q = RequestFields
      BY <2>3, <3>1 DEF Promise
    <3>3. PICK groups : groups = WithIds(q.groups, x.groups)
      OBVIOUS
    <3>4. groups \in Seq(ReadRows(1 .. top)) /\ Len(groups) = Len(q.groups)
      BY <1>3, <1>5, <3>2, <3>3, IdsReplaced
    <3>5. 0 < Len(groups)
      BY <2>6, <3>2, <3>4
    <3> QED
      BY <2>2, <2>3, <3>2, <3>3, <3>4, <3>5
         DEF Promise, RequestFields, Steps, ShareSteps, CopySteps
  <2>7. RequestsHonest'
    <3>1. PICK y : y = IF q.from = Nobody \/ q.groups = << >> THEN Idle ELSE going
      OBVIOUS
    <3>2. Promise(u, y)'
      <4>1. CASE y = Idle
        BY <2>5, <4>1
      <4>2. CASE y = going /\ q.groups # << >>
        BY <2>6, <4>2
      <4> QED
        BY <3>1, <4>1, <4>2
    <3> QED
      BY <1>1, <1>4, <1>7, <2>3, <2>4, <3>1, <3>2, StepHonest DEF SharingInv
  <2> QED
    BY <2>4, <2>7 DEF SharingInv
<1> QED
  BY <1>3, <1>6, <1>7

\* A group is pictured; everything else stays.
Pictured(x, g, b) == [x EXCEPT !.groups[g].pictured = b]

\* A pattern stays one when a group of it is pictured.
LEMMA PicturedTyped ==
  ASSUME NEW x, NEW top, PatternTyped(x, top), NEW g, NEW b \in BOOLEAN
  PROVE  LET y == Pictured(x, g, b)
         IN  /\ PatternTyped(y, top)
             /\ y.user = x.user /\ y.from = x.from /\ y.of = x.of /\ y.name = x.name
             /\ y.stitches = x.stitches /\ DOMAIN y.groups = DOMAIN x.groups
             /\ \A h \in DOMAIN x.groups : /\ y.groups[h].id = x.groups[h].id
                                           /\ y.groups[h].entries = x.groups[h].entries
<1> DEFINE y == Pictured(x, g, b)
           R == GroupRows(1 .. top)
<1>1. PICK groups : groups = x.groups
  OBVIOUS
<1>2. PICK new : new = [groups EXCEPT ![g].pictured = b]
  OBVIOUS
<1>3. groups \in Seq(R) /\ DOMAIN x = {"user", "from", "name", "stitches", "groups", "of"}
  BY <1>1 DEF PatternTyped
<1>4. /\ y = [x EXCEPT !.groups = new]
      /\ y.groups = new /\ DOMAIN y = DOMAIN x
      /\ y.user = x.user /\ y.from = x.from /\ y.of = x.of /\ y.name = x.name
      /\ y.stitches = x.stitches
  BY <1>1, <1>2, <1>3 DEF Pictured
<1>5. /\ Len(groups) \in Nat /\ DOMAIN groups = 1 .. Len(groups)
      /\ \A h \in DOMAIN groups : groups[h] \in R
  BY <1>3
<1>6. DOMAIN new = DOMAIN groups /\ new = [h \in DOMAIN groups |-> new[h]]
  BY <1>2
<1>7. ASSUME NEW h \in DOMAIN groups
      PROVE  new[h] \in R /\ new[h].id = groups[h].id /\ new[h].entries = groups[h].entries
  <2>1. PICK group \in R : group = groups[h]
    BY <1>5
  <2>2. new[h] = IF h = g THEN [group EXCEPT !.pictured = b] ELSE group
    BY <1>2, <2>1
  <2>3. /\ [group EXCEPT !.pictured = b] \in R
        /\ [group EXCEPT !.pictured = b].id = group.id
        /\ [group EXCEPT !.pictured = b].entries = group.entries
    BY <2>1 DEF GroupRows
  <2> HIDE DEF R
  <2> QED
    BY <2>1, <2>2, <2>3
<1> HIDE DEF y, R
<1>8. new \in [1 .. Len(groups) -> R]
  BY <1>5, <1>6, <1>7
<1>9. new \in Seq(R)
  BY <1>5, <1>8, SequenceOfLength, Zenon
<1>10. PatternTyped(y, top)
  BY <1>4, <1>9 DEF PatternTyped, R
<1> QED
  BY <1>1, <1>4, <1>6, <1>7, <1>10 DEF y

\* Images are added to groups, whether there is such a group or not.
LEMMA PicturedKeepsStore ==
  ASSUME SharingInv, NEW p, NEW g, NEW b \in BOOLEAN,
         store' = [store EXCEPT ![p].groups[g].pictured = b],
         CountTyped', count'.patterns = count.patterns, count'.links = count.links,
         count'.rows = count.rows,
         UNCHANGED << links, invited, torn, renamed >>
  PROVE  StoreGrows /\ StoreTyped' /\ LinksTyped' /\ OnlyInvitedReceive'
<1>1. StoreTyped /\ CountTyped /\ torn \in BOOLEAN
  BY DEF SharingInv, StoreTyped
<1>2. DOMAIN store' = DOMAIN store
  OBVIOUS
<1>3. ASSUME NEW s \in DOMAIN store
      PROVE  /\ PatternTyped(store'[s], count'.rows)
             /\ store'[s].user = store[s].user
             /\ store'[s].from = store[s].from
             /\ store'[s].of = store[s].of
  <2>1. PICK x : x = store[s]
    OBVIOUS
  <2>2. PatternTyped(x, count.rows)
    BY <1>1, <2>1 DEF StoreTyped
  <2> DEFINE y == Pictured(x, g, b)
  <2>3. PICK top : top = count.rows
    OBVIOUS
  <2>4. PatternTyped(y, top) /\ y.user = x.user /\ y.from = x.from /\ y.of = x.of
    BY <2>2, <2>3, PicturedTyped
  <2>5. store'[s] = IF s = p THEN y ELSE x
    BY <2>1 DEF Pictured
  <2> HIDE DEF y
  <2> QED
    BY <2>1, <2>2, <2>3, <2>4, <2>5
<1>4. count.rows <= count'.rows /\ torn' \in BOOLEAN
  BY <1>1 DEF CountTyped
<1> QED
  BY <1>2, <1>3, <1>4, ChangedPattern

\* Copying the images of one group.
LEMMA CopyImagesKeepsInv ==
  ASSUME SharingInv, NEW r \in Requests, CopyImages(r)
  PROVE  SharingInv'
<1>1. PICK q : q = request[r]
  OBVIOUS
<1>2. CountTyped /\ StoreTyped /\ Promise(SentBy[r], q) /\ DOMAIN request = Requests
  BY <1>1, PromiseOf
<1> DEFINE g == q.read + 1
<1>3. /\ q.step = "copyImages" /\ UNCHANGED << links, count, invited, torn, renamed >>
      /\ store' = [store EXCEPT ![q.copy].groups[g].pictured =
                     store[q.copy].groups[g].pictured \/ PicturedGroup(store, q.groups[g].id)]
      /\ IF g = Len(q.groups) THEN Answer(r) ELSE request' = [request EXCEPT ![r].read = g]
  BY <1>1 DEF CopyImages
<1>4. PICK p, i, b : p = q.copy /\ i = g
                     /\ b = (store[p].groups[i].pictured \/ PicturedGroup(store, q.groups[i].id))
  OBVIOUS
<1>5. store' = [store EXCEPT ![p].groups[i].pictured = b]
  BY <1>3, <1>4
<1>6. b \in BOOLEAN
  BY <1>4, Zenon
<1>7. /\ CountTyped' /\ count'.patterns = count.patterns /\ count'.links = count.links
      /\ count'.rows = count.rows
  BY <1>2, <1>3 DEF CountTyped
<1>8. StoreGrows /\ StoreTyped' /\ LinksTyped' /\ OnlyInvitedReceive'
  <2>1. UNCHANGED << links, invited, torn, renamed >>
    BY <1>3
  <2> QED
    BY <1>5, <1>6, <1>7, <2>1, PicturedKeepsStore
<1>9. Promise(SentBy[r], q)'
  BY <1>2, <1>7, <1>8, PromiseStays
<1>10. CASE g = Len(q.groups)
  <2>1. Promise(SentBy[r], Idle)'
    BY <1>2, <1>7, <1>8, IdlePromise, PromiseStays
  <2>2. request' = [request EXCEPT ![r] = Idle]
    BY <1>3, <1>10 DEF Answer
  <2>3. RequestsHonest'
    BY <1>2, <1>7, <1>8, <2>1, <2>2, StepHonest DEF SharingInv
  <2> QED
    BY <1>8, <2>3 DEF SharingInv
<1>11. CASE g # Len(q.groups)
  <2>1. PICK x : x = [q EXCEPT !.read = g]
    OBVIOUS
  <2>2. request' = [request EXCEPT ![r] = x]
    BY <1>1, <1>2, <1>3, <1>11, <2>1
  <2>3. q.groups \in Seq(ReadRows(1 .. count'.rows)) /\ q.read \in Nat /\ q.read < Len(q.groups)
    BY <1>3, <1>9 DEF Promise
  <2>4. Len(q.groups) \in Nat
    BY <2>3
  <2>5. g \in Nat /\ g < Len(q.groups)
    BY <1>11, <2>3, <2>4
  <2> HIDE DEF g
  <2>6. Promise(SentBy[r], x)'
    BY <1>3, <1>9, <2>1, <2>5 DEF Promise, RequestFields, ShareSteps, CopySteps
  <2>7. RequestsHonest'
    BY <1>2, <1>7, <1>8, <2>2, <2>6, StepHonest DEF SharingInv
  <2> QED
    BY <1>8, <2>7 DEF SharingInv
<1> QED
  BY <1>10, <1>11

\* The stitches and entries of a form can be inserted.
LEMMA FormInsertable ==
  ASSUME NEW form \in Forms
  PROVE  Insertable(StitchesOf(form), form)
<1>1. form \in Seq(Seq(DOMAIN StitchesOf(form))) /\ IsFiniteSet(DOMAIN StitchesOf(form))
  BY StitchesOfFinite
<1> QED
  BY <1>1 DEF Insertable

\* An owner writes a pattern.
LEMMA CreatePatternKeepsInv ==
  ASSUME SharingInv, NEW u \in Owners, NEW name \in Names, NEW form \in Forms,
         CreatePattern(u, name, form)
  PROVE  SharingInv'
<1>1. CountTyped /\ u \in Users
  BY SharingAssumptions DEF SharingInv, StoreTyped, SharingAssumptions
<1>2. PICK x, top : /\ x = NewPattern(u, Nobody, name, StitchesOf(form), form, 0)
                    /\ top = LastIssued(StitchesOf(form), form, count.rows)
  OBVIOUS
<1>3. NewRows(x, top)
  <2>1. Insertable(StitchesOf(form), form) /\ Nobody \in (Users \ {u}) \cup {Nobody}
    BY FormInsertable
  <2> QED
    BY <1>1, <1>2, <2>1, NewPatternType
<1>4. x.from = Nobody
  BY <1>2 DEF NewPattern
<1> DEFINE p == count.patterns + 1
<1>5. /\ store' = With(store, p, x)
      /\ count' = [count EXCEPT !.patterns = p, !.rows = top, !.written = count.written + 1]
      /\ UNCHANGED << links, invited, torn, renamed >> /\ request' = request
  BY <1>1, <1>2 DEF CreatePattern, Counted, CountTyped
<1>6. count.patterns \in Nat /\ p \in Nat /\ top \in Nat /\ count.written + 1 \in Nat
  BY <1>1, <1>3 DEF CountTyped, NewRows
<1>7. /\ CountTyped' /\ count'.patterns = p /\ count'.links = count.links /\ count'.rows = top
  <2> HIDE DEF p
  <2> QED
    BY <1>1, <1>5, <1>6 DEF CountTyped
<1>8. PatternTyped(x, count'.rows) /\ count.rows <= count'.rows
  BY <1>3, <1>7 DEF NewRows
<1>9. StoreGrows /\ StoreTyped' /\ LinksTyped' /\ OnlyInvitedReceive'
  BY <1>4, <1>5, <1>7, <1>8, AddedPattern
<1>10. RequestsHonest'
  BY <1>5, <1>7, <1>9, RequestsKept
<1> QED
  BY <1>9, <1>10 DEF SharingInv

\* Groups that take the images of those at their places.
LEMMA ImagesMoved ==
  ASSUME NEW rows, NEW groups \in Seq(GroupRows(rows)), NEW old
  PROVE  LET new == WithImagesOf(groups, old)
         IN  /\ new \in Seq(GroupRows(rows)) /\ DOMAIN new = DOMAIN groups
             /\ \A g \in DOMAIN groups : /\ new[g].id = groups[g].id
                                         /\ new[g].entries = groups[g].entries
<1> DEFINE new == WithImagesOf(groups, old)
           v(g) == [groups[g] EXCEPT !.pictured = g \in DOMAIN old /\ old[g].pictured]
<1>1. /\ Len(groups) \in Nat /\ DOMAIN groups = 1 .. Len(groups)
      /\ \A g \in DOMAIN groups : groups[g] \in GroupRows(rows)
  OBVIOUS
<1>2. ASSUME NEW g \in DOMAIN groups
      PROVE  v(g) \in GroupRows(rows) /\ v(g).id = groups[g].id /\ v(g).entries = groups[g].entries
  <2>1. groups[g] \in GroupRows(rows)
    BY <1>1
  <2>2. PICK b : b = (g \in DOMAIN old /\ old[g].pictured)
    OBVIOUS
  <2>3. b \in BOOLEAN
    BY <2>2, Zenon
  <2>4. v(g) = [groups[g] EXCEPT !.pictured = b]
    BY <2>2
  <2> QED
    BY <2>1, <2>3, <2>4 DEF GroupRows
<1>3. new = [g \in 1 .. Len(groups) |-> v(g)]
  BY <1>1 DEF WithImagesOf
<1>4. \A g \in 1 .. Len(groups) : v(g) \in GroupRows(rows)
  BY <1>1, <1>2
<1> HIDE DEF v, new
<1>5. new \in [1 .. Len(groups) -> GroupRows(rows)] /\ DOMAIN new = DOMAIN groups
  BY <1>1, <1>3, <1>4
<1>6. new \in Seq(GroupRows(rows))
  BY <1>1, <1>5, SequenceOfLength, Zenon
<1>7. \A g \in DOMAIN groups : new[g].id = groups[g].id /\ new[g].entries = groups[g].entries
  BY <1>1, <1>2, <1>3
<1> QED
  BY <1>5, <1>6, <1>7 DEF new

\* What a save makes of a pattern.
Saved(x, name, form, last) ==
  [x EXCEPT !.name = name,
            !.stitches = InsertedStitches(StitchesOf(form), last),
            !.groups = WithImagesOf(InsertedGroups(StitchesOf(form), form, last), @)]

\* A saved pattern has new rows.
LEMMA SavedType ==
  ASSUME CountTyped, NEW x, PatternTyped(x, count.rows), NEW name, NEW form \in Forms
  PROVE  /\ NewRows(Saved(x, name, form, count.rows),
                    LastIssued(StitchesOf(form), form, count.rows))
         /\ Saved(x, name, form, count.rows).user = x.user
         /\ Saved(x, name, form, count.rows).from = x.from
         /\ Saved(x, name, form, count.rows).of = x.of
         /\ Saved(x, name, form, count.rows).name = name
<1>1. x.user \in Users /\ x.from \in (Users \ {x.user}) \cup {Nobody}
  BY DEF PatternTyped
<1>2. PICK n, top : /\ n = NewPattern(x.user, x.from, name, StitchesOf(form), form, x.of)
                    /\ top = LastIssued(StitchesOf(form), form, count.rows)
  OBVIOUS
<1>3. NewRows(n, top)
  <2>1. Insertable(StitchesOf(form), form)
    BY FormInsertable
  <2> QED
    BY <1>1, <1>2, <2>1, NewPatternType
<1>4. /\ n.stitches = InsertedStitches(StitchesOf(form), count.rows)
      /\ n.groups = InsertedGroups(StitchesOf(form), form, count.rows)
  BY <1>2 DEF NewPattern
<1>5. PICK groups : groups = WithImagesOf(n.groups, x.groups)
  OBVIOUS
<1>6. PICK y : y = Saved(x, name, form, count.rows)
  OBVIOUS
<1>7. y = [x EXCEPT !.name = name, !.stitches = n.stitches, !.groups = groups]
  BY <1>4, <1>5, <1>6 DEF Saved
<1>8. /\ DOMAIN y = {"user", "from", "name", "stitches", "groups", "of"}
      /\ y.user = x.user /\ y.from = x.from /\ y.of = x.of /\ y.name = name
      /\ y.stitches = n.stitches /\ y.groups = groups
  BY <1>7 DEF PatternTyped
<1>9. n.groups \in Seq(GroupRows(1 .. top))
  BY <1>3 DEF NewRows, PatternTyped
<1>10. /\ groups \in Seq(GroupRows(1 .. top)) /\ DOMAIN groups = DOMAIN n.groups
       /\ \A g \in DOMAIN n.groups : groups[g].id = n.groups[g].id
  BY <1>5, <1>9, ImagesMoved
<1>11. NewRows(y, top)
  BY <1>1, <1>3, <1>8, <1>10 DEF NewRows, PatternTyped
<1> QED
  BY <1>2, <1>6, <1>8, <1>11

\* An owner saves a pattern.
LEMMA SavePatternKeepsInv ==
  ASSUME SharingInv, NEW p \in DOMAIN store, NEW name \in Names, NEW form \in Forms,
         SavePattern(p, name, form)
  PROVE  SharingInv'
<1>1. CountTyped /\ StoreTyped /\ torn \in BOOLEAN
  BY DEF SharingInv, StoreTyped
<1>2. PICK y, top : /\ y = Saved(store[p], name, form, count.rows)
                    /\ top = LastIssued(StitchesOf(form), form, count.rows)
  OBVIOUS
<1>3. /\ store' = [store EXCEPT ![p] = y]
      /\ count' = [count EXCEPT !.saves = count.saves + 1, !.rows = top]
      /\ UNCHANGED << links, invited >> /\ request' = request
  BY <1>2 DEF SavePattern, Saved
<1>4. torn' \in BOOLEAN
  <2>1. torn' = (torn \/ BetweenQueries(p))
    BY DEF SavePattern
  <2> QED
    BY <2>1, Zenon
<1>5. PICK x : x = store[p] /\ PatternTyped(x, count.rows)
  BY <1>1, PatternNumbered
<1>6. NewRows(y, top) /\ y.user = x.user /\ y.from = x.from /\ y.of = x.of
  BY <1>1, <1>2, <1>5, SavedType
<1>7. count.saves + 1 \in Nat /\ top \in Nat /\ count.rows <= top /\ count.rows \in Nat
  BY <1>1, <1>6 DEF CountTyped, NewRows
<1>8. /\ CountTyped' /\ count'.patterns = count.patterns /\ count'.links = count.links
      /\ count'.rows = top
  BY <1>1, <1>3, <1>7 DEF CountTyped
<1>9. ASSUME NEW s \in DOMAIN store
      PROVE  /\ PatternTyped(store'[s], top)
             /\ store'[s].user = store[s].user
             /\ store'[s].from = store[s].from
             /\ store'[s].of = store[s].of
  <2>1. CASE s = p
    BY <1>3, <1>5, <1>6, <2>1 DEF NewRows
  <2>2. CASE s # p
    <3>1. store'[s] = store[s]
      BY <1>3, <2>2
    <3>2. PatternTyped(store[s], count.rows)
      BY <1>1 DEF StoreTyped
    <3> QED
      BY <1>7, <3>1, <3>2, RowsGrow DEF PatternTyped
  <2> QED
    BY <2>1, <2>2
<1>10. DOMAIN store' = DOMAIN store
  BY <1>3
<1>11. StoreGrows /\ StoreTyped' /\ LinksTyped' /\ OnlyInvitedReceive'
  BY <1>3, <1>4, <1>7, <1>8, <1>9, <1>10, ChangedPattern
<1>12. RequestsHonest'
  BY <1>3, <1>8, <1>11, RequestsKept
<1> QED
  BY <1>11, <1>12 DEF SharingInv

\* An owner deletes a pattern.
LEMMA DeletePatternKeepsInv ==
  ASSUME SharingInv, NEW p \in DOMAIN store, DeletePattern(p)
  PROVE  SharingInv'
<1>1. CountTyped /\ StoreTyped /\ LinksTyped /\ OnlyInvitedReceive /\ torn \in BOOLEAN
  BY DEF SharingInv, StoreTyped
<1>2. /\ DOMAIN store' = DOMAIN store \ {p}
      /\ \A s \in DOMAIN store' : store'[s] = store[s]
      /\ DOMAIN links' = DOMAIN links \ LinksOf(p)
      /\ \A t \in DOMAIN links' : links'[t] = links[t]
  BY DEF DeletePattern, Without
<1>3. request' = request /\ count' = count /\ invited' = invited
  BY DEF DeletePattern
<1>4. torn' \in BOOLEAN
  <2>1. torn' = (torn \/ BetweenQueries(p))
    BY DEF DeletePattern
  <2> QED
    BY <2>1, Zenon
<1>5. CountTyped'
  BY <1>1, <1>3 DEF CountTyped
<1>6. StoreGrows
  BY <1>1, <1>2, <1>3 DEF StoreGrows, CountTyped
<1>7. StoreTyped'
  BY <1>1, <1>2, <1>3, <1>4, <1>5 DEF StoreTyped
<1>8. \A t \in DOMAIN links' : t \in DOMAIN links /\ links[t].pattern # p
  BY <1>2 DEF LinksOf
<1>9. LinksTyped'
  BY <1>1, <1>2, <1>3, <1>8 DEF LinksTyped
<1>10. OnlyInvitedReceive'
  BY <1>1, <1>2, <1>3 DEF OnlyInvitedReceive, IsReceived
<1>11. RequestsHonest'
  BY <1>3, <1>5, <1>6, RequestsKept
<1> QED
  BY <1>7, <1>9, <1>10, <1>11 DEF SharingInv

\* A user uploads an image, or deletes the last one of a group.
LEMMA ChangedImagesKeepInv ==
  ASSUME SharingInv, NEW p \in DOMAIN store, NEW g \in DOMAIN store[p].groups,
         AddImage(p, g) \/ RemoveImage(p, g)
  PROVE  SharingInv'
<1>1. CountTyped
  BY DEF SharingInv, StoreTyped
<1>2. PICK b, n :
        /\ b \in BOOLEAN /\ n \in Nat
        /\ store' = [store EXCEPT ![p].groups[g].pictured = b]
        /\ count' = [count EXCEPT !.images = n]
        /\ UNCHANGED << links, invited, torn, renamed >> /\ request' = request
  <2>1. CASE AddImage(p, g)
    <3>1. count.images + 1 \in Nat
      BY <1>1 DEF CountTyped
    <3> QED
      BY <2>1, <3>1 DEF AddImage
  <2>2. CASE RemoveImage(p, g)
    <3>1. count' = [count EXCEPT !.images = count.images] /\ count.images \in Nat
      BY <1>1, <2>2 DEF RemoveImage, CountTyped
    <3> QED
      BY <2>2, <3>1 DEF RemoveImage
  <2> QED
    BY <2>1, <2>2
<1>3. /\ CountTyped' /\ count'.patterns = count.patterns /\ count'.links = count.links
      /\ count'.rows = count.rows
  BY <1>1, <1>2 DEF CountTyped
<1>4. PICK i : i = g
  OBVIOUS
<1>5. store' = [store EXCEPT ![p].groups[i].pictured = b]
  BY <1>2, <1>4
<1>6. StoreGrows /\ StoreTyped' /\ LinksTyped' /\ OnlyInvitedReceive'
  <2>1. b \in BOOLEAN /\ UNCHANGED << links, invited, torn, renamed >>
    BY <1>2
  <2> QED
    BY <1>3, <1>5, <2>1, PicturedKeepsStore
<1>7. RequestsHonest'
  BY <1>2, <1>3, <1>6, RequestsKept
<1> QED
  BY <1>6, <1>7 DEF SharingInv

\* Nothing changes.
LEMMA StutterKeepsInv ==
  ASSUME SharingInv, UNCHANGED vars
  PROVE  SharingInv'
<1>1. /\ store' = store /\ links' = links /\ request' = request
      /\ count' = count /\ invited' = invited /\ torn' = torn
  BY DEF vars
<1>2. CountTyped /\ CountTyped'
  BY <1>1 DEF SharingInv, StoreTyped, CountTyped
<1>3. StoreGrows
  BY <1>1, <1>2 DEF StoreGrows, CountTyped
<1>4. RequestsHonest'
  BY <1>1, <1>2, <1>3, RequestsKept
<1>5. StoreTyped' /\ LinksTyped' /\ OnlyInvitedReceive'
  BY <1>1 DEF SharingInv, StoreTyped, CountTyped, LinksTyped, OnlyInvitedReceive, IsReceived
<1> QED
  BY <1>4, <1>5 DEF SharingInv

-----------------------------------------------------------------------------
(***************************************************************************)
(* The invariant, and what follows from it.                                *)
(***************************************************************************)

\* Initially there is nothing.
LEMMA SharingInvInit == Init => SharingInv
<1> SUFFICES ASSUME Init PROVE SharingInv
  OBVIOUS
<1>1. CountTyped
  BY DEF Init, CountTyped
<1>2. DOMAIN store = {} /\ DOMAIN links = {}
  BY DEF Init
<1>3. StoreTyped
  BY <1>1, <1>2 DEF Init, StoreTyped
<1>4. LinksTyped /\ OnlyInvitedReceive
  BY <1>2 DEF LinksTyped, OnlyInvitedReceive
<1>5. RequestsHonest
  BY <1>1, IdlePromise DEF Init, RequestsHonest
<1> QED
  BY <1>3, <1>4, <1>5 DEF SharingInv

\* Every step keeps it.
LEMMA SharingInvNext == ASSUME SharingInv, [Next]_vars PROVE SharingInv'
<1>1. ASSUME NEW r \in Requests,
             \/ \E p \in DOMAIN store, for \in Users \cup {Anyone} : BeginShare(r, p, for)
             \/ \E token \in DOMAIN links : BeginRevoke(r, token) \/ BeginSave(r, token)
             \/ \E p \in DOMAIN store : BeginRevokeAll(r, p) \/ BeginDuplicate(r, p)
      PROVE  SharingInv'
  BY <1>1, BeginKeepsInv
<1>2. ASSUME NEW r \in Requests, ListLinks(r) \/ GetShared(r) \/ ListShared(r) \/ GetPattern(r)
      PROVE  SharingInv'
  BY <1>2, CheckKeepsInv
<1>3. ASSUME NEW r \in Requests, LoadStitches(r) \/ LoadGroups(r) \/ LoadEntries(r)
      PROVE  SharingInv'
  BY <1>3, LoadKeepsInv
<1>4. ASSUME NEW r \in Requests, InsertLink(r) \/ DeleteLink(r) \/ DeleteLinks(r)
      PROVE  SharingInv'
  BY <1>4, LinkKeepsInv
<1>5. ASSUME NEW r \in Requests, CreateCopy(r) \/ CopyImages(r)
      PROVE  SharingInv'
  BY <1>5, CreateCopyKeepsInv, CopyImagesKeepsInv
<1>6. ASSUME NEW r \in Requests, Abort(r)
      PROVE  SharingInv'
  BY <1>6, AnswerStep DEF Abort
<1>7. ASSUME NEW u \in Owners, NEW name \in Names, NEW form \in Forms,
             CreatePattern(u, name, form)
      PROVE  SharingInv'
  BY <1>7, CreatePatternKeepsInv
<1>8. ASSUME NEW p \in DOMAIN store, NEW name \in Names, NEW form \in Forms,
             SavePattern(p, name, form)
      PROVE  SharingInv'
  BY <1>8, SavePatternKeepsInv
<1>9. ASSUME NEW p \in DOMAIN store,
             \/ DeletePattern(p)
             \/ \E g \in DOMAIN store[p].groups : AddImage(p, g) \/ RemoveImage(p, g)
      PROVE  SharingInv'
  BY <1>9, DeletePatternKeepsInv, ChangedImagesKeepInv
<1>10. CASE UNCHANGED vars
  BY <1>10, StutterKeepsInv
<1> QED
  BY <1>1, <1>2, <1>3, <1>4, <1>5, <1>6, <1>7, <1>8, <1>9, <1>10, Zenon DEF Next

\* The inductive invariant: types, links to patterns of their owners' own, and
\* requests that keep what their checks found.
THEOREM SharingInvHolds == Spec => []SharingInv
<1>1. Init => SharingInv
  BY SharingInvInit
<1>2. SharingInv /\ [Next]_vars => SharingInv'
  BY SharingInvNext
<1> QED
  BY <1>1, <1>2, PTL DEF Spec

\* The types, and every link leads to a pattern its owner wrote.
THEOREM SharingTypeCorrect == Spec => []TypeOK
<1>1. SharingInv => TypeOK
  <2> SUFFICES ASSUME SharingInv PROVE TypeOK
    OBVIOUS
  <2>1. ASSUME NEW p \in DOMAIN store, NEW g \in DOMAIN store[p].groups
        PROVE  store[p].groups[g].id \in 1 .. count.rows
    <3>1. PICK rows : rows = 1 .. count.rows
      OBVIOUS
    <3>2. store[p].groups \in Seq(GroupRows(rows))
      BY <3>1 DEF SharingInv, StoreTyped, PatternTyped
    <3>3. store[p].groups[g] \in GroupRows(rows)
      BY <3>2
    <3> QED
      BY <3>1, <3>3 DEF GroupRows
  <2>2. \A p \in DOMAIN store :
          /\ store[p].user \in Users
          /\ store[p].from \in (Users \ {store[p].user}) \cup {Nobody}
          /\ DOMAIN store[p].stitches \subseteq 1 .. count.rows
    BY DEF SharingInv, StoreTyped, PatternTyped
  <2>3. DOMAIN store \subseteq 1 .. count.patterns /\ torn \in BOOLEAN
    BY DEF SharingInv, StoreTyped
  <2>4. \A r \in Requests : request[r].step \in Steps
    BY DEF SharingInv, RequestsHonest, Promise
  <2> QED
    BY <2>1, <2>2, <2>3, <2>4 DEF SharingInv, LinksTyped, TypeOK
<1> QED
  BY <1>1, SharingInvHolds, PTL

\* A user has copies only of patterns that were shared with everybody or with
\* this very user.
THEOREM ReceiversWereInvited == Spec => []OnlyInvitedReceive
<1>1. SharingInv => OnlyInvitedReceive
  BY DEF SharingInv
<1> QED
  BY <1>1, SharingInvHolds, PTL

-----------------------------------------------------------------------------
(***************************************************************************)
(* What most steps leave alone: links, patterns and the requests that make *)
(* them.                                                                   *)
(***************************************************************************)

\* Requests do not come to insert a link, and no link is new.
NoNewLink ==
  /\ \A s \in Requests : request'[s].step = "insertLink" => request'[s] = request[s]
  /\ DOMAIN links' \subseteq DOMAIN links /\ \A t \in DOMAIN links' : links'[t] = links[t]

\* A request that saves a shared pattern, from when it knows the owner.
Saving(q) == q.step \in CopySteps /\ q.from # Nobody

\* A step that brings no pattern, and notes it when one gets another name.
NoNewPattern ==
  /\ count'.patterns = count.patterns
  /\ DOMAIN store' \subseteq DOMAIN store
  /\ \A p \in DOMAIN store' :
       /\ store'[p].user = store[p].user /\ store'[p].from = store[p].from
       /\ store'[p].of = store[p].of
       /\ p \notin renamed' \/ IsReceived(p) => store'[p].name = store[p].name
  /\ renamed \subseteq renamed'

\* A step that brings no request to save a pattern, nor one past its check.
NoNewSaving ==
  \A s \in Requests : Saving(request'[s]) =>
    /\ Saving(request[s])
    /\ request'[s].pattern = request[s].pattern
    /\ request'[s].from = request[s].from
    /\ request'[s].name = request[s].name
    /\ request[s].step = "listShared" => request'[s].step = "listShared"

\* A request that answers, or comes to another step, inserts no link.
LEMMA OneRequestChanges ==
  ASSUME DOMAIN request = Requests, NEW r \in Requests, NEW q,
         request' = [request EXCEPT ![r] = q], q.step # "insertLink",
         DOMAIN links' \subseteq DOMAIN links /\ \A t \in DOMAIN links' : links'[t] = links[t]
  PROVE  NoNewLink
BY DEF NoNewLink

\* A request that reads a pattern stays with it.
LEMMA LoadGoesOn ==
  ASSUME DOMAIN request = Requests, NEW r \in Requests, NEW q, q = request[r],
         DOMAIN q = RequestFields,
         LoadStitches(r) \/ LoadGroups(r) \/ LoadEntries(r)
  PROVE  /\ UNCHANGED << store, links, count, invited, torn, renamed >>
         /\ q.step \in {"loadStitches", "loadGroups", "loadEntries"}
         /\ \E x : /\ request' = [request EXCEPT ![r] = x]
                   /\ x.step \in {"loadGroups", "loadEntries", "create"}
                   /\ x.pattern = q.pattern /\ x.from = q.from /\ x.name = q.name
                   /\ x.step # "insertLink"
<1> DEFINE p == q.pattern
<1>1. CASE LoadStitches(r)
  <2>1. PICK x : x = [q EXCEPT !.step = "loadGroups",
                     !.stitches = IF p \in DOMAIN store THEN store[p].stitches ELSE << >>]
    OBVIOUS
  <2>2. /\ q.step = "loadStitches" /\ request' = [request EXCEPT ![r] = x]
        /\ UNCHANGED << store, links, count, invited, torn, renamed >>
    BY <1>1, <2>1 DEF LoadStitches
  <2>3. x.step = "loadGroups" /\ x.pattern = q.pattern /\ x.from = q.from /\ x.name = q.name
    BY <2>1 DEF RequestFields
  <2> QED
    BY <2>2, <2>3
<1>2. CASE LoadGroups(r)
  <2>1. PICK x : x = IF p \in DOMAIN store
                       THEN [q EXCEPT
                              !.step = IF store[p].groups = << >> THEN "create" ELSE "loadEntries",
                              !.groups = [g \in DOMAIN store[p].groups |->
                                   [id |-> store[p].groups[g].id, entries |-> << >>]]]
                       ELSE [q EXCEPT !.step = "create"]
    OBVIOUS
  <2>2. /\ q.step = "loadGroups" /\ request' = [request EXCEPT ![r] = x]
        /\ UNCHANGED << store, links, count, invited, torn, renamed >>
    BY <1>2, <2>1 DEF LoadGroups, GoOn
  <2>3. /\ x.step \in {"create", "loadEntries"}
        /\ x.pattern = q.pattern /\ x.from = q.from /\ x.name = q.name
    BY <2>1 DEF RequestFields
  <2> QED
    BY <2>2, <2>3
<1>3. CASE LoadEntries(r)
  <2> DEFINE g == q.read + 1
  <2>1. PICK entries, step : /\ entries = EntriesOfGroup(store, q.groups[g].id)
                             /\ step = IF g = Len(q.groups) THEN "create" ELSE "loadEntries"
    OBVIOUS
  <2>2. PICK x : x = [q EXCEPT !.step = step, !.read = g,
                               !.groups = [q.groups EXCEPT ![g].entries = entries]]
    OBVIOUS
  <2>3. /\ q.step = "loadEntries" /\ request' = [request EXCEPT ![r] = x]
        /\ UNCHANGED << store, links, count, invited, torn, renamed >>
    <3>1. /\ q.step = "loadEntries" /\ UNCHANGED << store, links, count, invited, torn, renamed >>
          /\ request' = [request EXCEPT ![r].step = step, ![r].read = g,
                                        ![r].groups[g].entries = entries]
      BY <1>3, <2>1 DEF LoadEntries
    <3> QED
      BY <2>2, <3>1
  <2>4. /\ x.step \in {"create", "loadEntries"}
        /\ x.pattern = q.pattern /\ x.from = q.from /\ x.name = q.name
    BY <2>1, <2>2 DEF RequestFields
  <2> QED
    BY <2>3, <2>4
<1> QED
  BY <1>1, <1>2, <1>3

\* All steps but two are of this kind.
LEMMA OtherStepsLeaveRoom ==
  ASSUME SharingInv, Next, \A r \in Requests : ~ ListLinks(r) /\ ~ InsertLink(r)
  PROVE  NoNewLink
<1>1. DOMAIN request = Requests /\ \A r \in Requests : DOMAIN request[r] = RequestFields
  BY DEF SharingInv, RequestsHonest, Promise
<1>2. Idle.step = "idle"
  BY DEF Idle
<1>3. ASSUME NEW r \in Requests, links' = links \/ \E gone : links' = Without(links, gone),
             Answer(r)
      PROVE  NoNewLink
  <2>1. DOMAIN links' \subseteq DOMAIN links /\ \A t \in DOMAIN links' : links'[t] = links[t]
    BY <1>3 DEF Without
  <2> QED
    BY <1>1, <1>2, <1>3, <2>1, OneRequestChanges DEF Answer
<1>4. ASSUME NEW r \in Requests, NEW step, step # "insertLink", links' = links, GoOn(r, step)
      PROVE  NoNewLink
  <2>1. PICK q : q = [request[r] EXCEPT !.step = step]
    OBVIOUS
  <2>2. q.step # "insertLink" /\ request' = [request EXCEPT ![r] = q]
    BY <1>1, <1>4, <2>1 DEF GoOn, RequestFields
  <2> QED
    BY <1>1, <1>4, <2>2, OneRequestChanges
<1>5. ASSUME NEW r \in Requests, NEW q, q.step # "insertLink", links' = links,
             request' = [request EXCEPT ![r] = q]
      PROVE  NoNewLink
  BY <1>1, <1>5, OneRequestChanges
<1>6. ASSUME request' = request, links' = links \/ \E gone : links' = Without(links, gone)
      PROVE  NoNewLink
  BY <1>6 DEF NoNewLink, Without
<1>7. ASSUME NEW r \in Requests, NEW p \in DOMAIN store, NEW for \in Users \cup {Anyone},
             BeginShare(r, p, for)
      PROVE  NoNewLink
  <2>1. [Idle EXCEPT !.step = "listLinks", !.pattern = p, !.for = for].step = "listLinks"
    BY DEF Idle
  <2> QED
    BY <1>5, <1>7, <2>1 DEF BeginShare, Begin
<1>8. ASSUME NEW r \in Requests, NEW token \in DOMAIN links,
             BeginRevoke(r, token) \/ BeginSave(r, token)
      PROVE  NoNewLink
  <2>1. /\ [Idle EXCEPT !.step = "deleteLink", !.token = token].step = "deleteLink"
        /\ [Idle EXCEPT !.step = "getShared", !.pattern = links[token].pattern].step = "getShared"
    BY DEF Idle
  <2> QED
    BY <1>5, <1>8, <2>1 DEF BeginRevoke, BeginSave, Begin
<1>9. ASSUME NEW r \in Requests, NEW p \in DOMAIN store,
             BeginRevokeAll(r, p) \/ BeginDuplicate(r, p)
      PROVE  NoNewLink
  <2>1. /\ [Idle EXCEPT !.step = "deleteLinks", !.pattern = p].step = "deleteLinks"
        /\ [Idle EXCEPT !.step = "getPattern", !.pattern = p].step = "getPattern"
    BY DEF Idle
  <2> QED
    BY <1>5, <1>9, <2>1 DEF BeginRevokeAll, BeginDuplicate, Begin
<1>10. ASSUME NEW r \in Requests, DeleteLink(r) \/ DeleteLinks(r)
       PROVE  NoNewLink
  BY <1>3, <1>10 DEF DeleteLink, DeleteLinks
<1>11. ASSUME NEW r \in Requests, GetShared(r)
       PROVE  NoNewLink
  <2>1. PICK x : x = [request[r] EXCEPT !.step = "listShared",
                        !.from = store[request[r].pattern].user,
                        !.name = store[request[r].pattern].name]
    OBVIOUS
  <2>2. /\ links' = links
        /\ Answer(r) \/ request' = [request EXCEPT ![r] = x]
    BY <1>1, <1>11, <2>1 DEF GetShared
  <2>3. x.step = "listShared"
    BY <1>1, <2>1 DEF RequestFields
  <2> QED
    BY <1>3, <1>5, <2>2, <2>3
<1>12. ASSUME NEW r \in Requests, ListShared(r)
       PROVE  NoNewLink
  BY <1>3, <1>4, <1>12 DEF ListShared
<1>13. ASSUME NEW r \in Requests, GetPattern(r)
       PROVE  NoNewLink
  <2>1. PICK x : x = [request[r] EXCEPT !.step = "loadStitches",
                        !.name = store[request[r].pattern].name]
    OBVIOUS
  <2>2. /\ links' = links
        /\ Answer(r) \/ request' = [request EXCEPT ![r] = x]
    BY <1>1, <1>13, <2>1 DEF GetPattern
  <2>3. x.step = "loadStitches"
    BY <1>1, <2>1 DEF RequestFields
  <2> QED
    BY <1>3, <1>5, <2>2, <2>3
<1>14. ASSUME NEW r \in Requests, LoadStitches(r) \/ LoadGroups(r) \/ LoadEntries(r)
       PROVE  NoNewLink
  <2>1. PICK q : q = request[r]
    OBVIOUS
  <2>2. links' = links /\ \E x : request' = [request EXCEPT ![r] = x] /\ x.step # "insertLink"
    BY <1>1, <1>14, <2>1, LoadGoesOn
  <2> QED
    BY <1>5, <2>2
<1>15. ASSUME NEW r \in Requests, CreateCopy(r)
       PROVE  NoNewLink
  <2>1. PICK u, q : u = SentBy[r] /\ q = request[r]
    OBVIOUS
  <2>2. PICK x, top : x = CopyBy(u, q) /\ top = LastRow(q)
    OBVIOUS
  <2>3. PICK y : y = IF q.from = Nobody \/ q.groups = << >> THEN Idle ELSE GoingOn(q, x)
    OBVIOUS
  <2>4. links' = links /\ (Answer(r) \/ request' = [request EXCEPT ![r] = y])
    <3>1. CopyMade(r, u, q, x, top)
      BY <1>15, <2>1, <2>2, CopyCreated
    <3> QED
      BY <2>3, <3>1 DEF CopyMade
  <2>5. y.step # "insertLink"
    BY <1>1, <1>2, <2>1, <2>3 DEF GoingOn, RequestFields
  <2> QED
    BY <1>3, <1>5, <2>4, <2>5
<1>16. ASSUME NEW r \in Requests, CopyImages(r)
       PROVE  NoNewLink
  <2>1. PICK x : x = [request[r] EXCEPT !.read = request[r].read + 1]
    OBVIOUS
  <2>2. /\ links' = links /\ request[r].step = "copyImages"
        /\ Answer(r) \/ request' = [request EXCEPT ![r] = x]
    BY <1>1, <1>16, <2>1 DEF CopyImages
  <2>3. x.step = "copyImages"
    BY <1>1, <2>1, <2>2 DEF RequestFields
  <2> QED
    BY <1>3, <1>5, <2>2, <2>3
<1>17. ASSUME NEW r \in Requests, Abort(r)
       PROVE  NoNewLink
  BY <1>3, <1>17 DEF Abort
<1>18. ASSUME NEW u \in Owners, NEW name \in Names, NEW form \in Forms,
              CreatePattern(u, name, form)
       PROVE  NoNewLink
  BY <1>6, <1>18 DEF CreatePattern
<1>19. ASSUME NEW p \in DOMAIN store, NEW name \in Names, NEW form \in Forms,
              SavePattern(p, name, form)
       PROVE  NoNewLink
  BY <1>6, <1>19 DEF SavePattern
<1>20. ASSUME NEW p \in DOMAIN store,
              \/ DeletePattern(p)
              \/ \E g \in DOMAIN store[p].groups : AddImage(p, g) \/ RemoveImage(p, g)
       PROVE  NoNewLink
  BY <1>6, <1>20 DEF DeletePattern, AddImage, RemoveImage
<1> QED
  BY <1>7, <1>8, <1>9, <1>10, <1>11, <1>12, <1>13, <1>14, <1>15, <1>16, <1>17, <1>18,
     <1>19, <1>20, Zenon DEF Next

\* One request changes, and does not save a pattern afterwards.
LEMMA OneRequestSavesNot ==
  ASSUME DOMAIN request = Requests, NEW r \in Requests, NEW q,
         request' = [request EXCEPT ![r] = q], ~ Saving(q)
  PROVE  NoNewSaving
BY DEF NoNewSaving

\* A request that answers saves nothing.
LEMMA AnswerSavesNot ==
  ASSUME DOMAIN request = Requests, NEW r \in Requests, Answer(r)
  PROVE  NoNewSaving
<1>1. ~ Saving(Idle)
  BY DEF Saving, Idle
<1> QED
  BY <1>1, OneRequestSavesNot DEF Answer

\* A request that begins saves nothing yet.
LEMMA BeginSavesNot ==
  ASSUME DOMAIN request = Requests, NEW r \in Requests, NEW q, Begin(r, q), q.from = Nobody
  PROVE  NoNewSaving
BY OneRequestSavesNot DEF Begin, Saving

\* A group gets or loses its images, nothing else.
LEMMA PicturedAddsNoPattern ==
  ASSUME SharingInv, NEW p, NEW g, NEW b \in BOOLEAN,
         store' = [store EXCEPT ![p].groups[g].pictured = b],
         count'.patterns = count.patterns, renamed' = renamed
  PROVE  /\ DOMAIN store' = DOMAIN store /\ NoNewPattern
         /\ \A s \in DOMAIN store : store'[s] = store[s] \/ store'[s] = Pictured(store[s], g, b)
<1>1. StoreTyped
  BY DEF SharingInv
<1>2. DOMAIN store' = DOMAIN store
  OBVIOUS
<1>3. ASSUME NEW s \in DOMAIN store
      PROVE  /\ store'[s] = store[s] \/ store'[s] = Pictured(store[s], g, b)
             /\ store'[s].user = store[s].user /\ store'[s].from = store[s].from
             /\ store'[s].of = store[s].of /\ store'[s].name = store[s].name
  <2>1. PICK x, top : x = store[s] /\ top = count.rows
    OBVIOUS
  <2>2. PatternTyped(x, top)
    BY <1>1, <2>1 DEF StoreTyped
  <2> DEFINE y == Pictured(x, g, b)
  <2>3. y.user = x.user /\ y.from = x.from /\ y.of = x.of /\ y.name = x.name
    BY <2>2, PicturedTyped
  <2>4. store'[s] = IF s = p THEN y ELSE x
    BY <2>1 DEF Pictured
  <2> HIDE DEF y
  <2>5. /\ store'[s] = x \/ store'[s] = y
        /\ store'[s].user = x.user /\ store'[s].from = x.from
        /\ store'[s].of = x.of /\ store'[s].name = x.name
    BY <2>3, <2>4
  <2> QED
    BY <2>1, <2>5 DEF y
<1> QED
  BY <1>2, <1>3 DEF NoNewPattern

\* What a save does to the store.
LEMMA SaveAddsNoPattern ==
  ASSUME SharingInv, NEW p \in DOMAIN store, NEW name \in Names, NEW form \in Forms,
         SavePattern(p, name, form)
  PROVE  /\ store' = [store EXCEPT ![p] = Saved(store[p], name, form, count.rows)]
         /\ NoNewPattern
<1>1. CountTyped /\ StoreTyped
  BY DEF SharingInv, StoreTyped
<1>2. store' = [store EXCEPT ![p] = Saved(store[p], name, form, count.rows)]
  BY DEF SavePattern, Saved
<1>3. PICK x, y : /\ x = store[p] /\ y = Saved(x, name, form, count.rows)
                  /\ PatternTyped(x, count.rows)
  BY <1>1, PatternNumbered
<1>4. y.user = x.user /\ y.from = x.from /\ y.of = x.of /\ y.name = name
  BY <1>1, <1>3, SavedType
<1>5. count'.patterns = count.patterns
  BY <1>1 DEF SavePattern, CountTyped
<1>6. \A s \in DOMAIN store' : s \in DOMAIN store /\ store'[s] = IF s = p THEN y ELSE store[s]
  BY <1>2, <1>3
<1>7. /\ renamed \subseteq renamed' /\ ~ IsReceived(p)
      /\ p \in renamed' \/ y.name = x.name
  BY <1>3, <1>4 DEF SavePattern, IsReceived
<1> QED
  BY <1>2, <1>3, <1>4, <1>5, <1>6, <1>7 DEF NoNewPattern

\* Copies of pictures are added to patterns, nothing else.
LEMMA CopyImagesAddsNoPattern ==
  ASSUME SharingInv, NEW r \in Requests, CopyImages(r)
  PROVE  NoNewPattern /\ NoNewSaving
<1>1. PICK q : q = request[r]
  OBVIOUS
<1>2. CountTyped /\ DOMAIN request = Requests /\ DOMAIN q = RequestFields
  BY <1>1, PromiseOf DEF Promise
<1>3. PICK p, g, b : /\ p = q.copy /\ g = q.read + 1
                     /\ b = (store[p].groups[g].pictured \/ PicturedGroup(store, q.groups[g].id))
  OBVIOUS
<1>4. /\ q.step = "copyImages" /\ count' = count /\ renamed' = renamed
      /\ store' = [store EXCEPT ![p].groups[g].pictured = b]
      /\ Answer(r) \/ request' = [request EXCEPT ![r].read = g]
  BY <1>1, <1>3 DEF CopyImages
<1>5. b \in BOOLEAN
  BY <1>3, Zenon
<1>6. NoNewPattern
  BY <1>4, <1>5, PicturedAddsNoPattern
<1>7. PICK x : x = [q EXCEPT !.read = g]
  OBVIOUS
<1>8. ~ Saving(x)
  BY <1>2, <1>4, <1>7 DEF Saving, CopySteps, RequestFields
<1>9. Answer(r) \/ request' = [request EXCEPT ![r] = x]
  BY <1>1, <1>4, <1>7
<1> QED
  BY <1>2, <1>6, <1>8, <1>9, AnswerSavesNot, OneRequestSavesNot

\* The steps of which the invariant says nothing.
LEMMA OtherStepsSaveNothing ==
  ASSUME SharingInv, Next,
         \A r \in Requests : ~ GetShared(r) /\ ~ ListShared(r) /\ ~ GetPattern(r)
                               /\ ~ CreateCopy(r),
         \A u \in Owners, name \in Names, form \in Forms : ~ CreatePattern(u, name, form)
  PROVE  NoNewPattern /\ NoNewSaving
<1>1. /\ DOMAIN request = Requests /\ \A r \in Requests : DOMAIN request[r] = RequestFields
      /\ CountTyped
  BY DEF SharingInv, RequestsHonest, Promise, StoreTyped
<1>2. Idle.from = Nobody /\ DOMAIN Idle = RequestFields
  BY DEF Idle, RequestFields
<1>3. ASSUME store' = store, count'.patterns = count.patterns, renamed' = renamed
      PROVE  NoNewPattern
  BY <1>3 DEF NoNewPattern
<1>4. ASSUME NEW r \in Requests, NEW p \in DOMAIN store, NEW for \in Users \cup {Anyone},
             BeginShare(r, p, for)
      PROVE  NoNewPattern /\ NoNewSaving
  <2>1. PICK q : q = [Idle EXCEPT !.step = "listLinks", !.pattern = p, !.for = for]
    OBVIOUS
  <2>2. q.from = Nobody
    BY <1>2, <2>1 DEF RequestFields
  <2> QED
    BY <1>1, <1>3, <1>4, <2>1, <2>2, BeginSavesNot DEF BeginShare
<1>5. ASSUME NEW r \in Requests, NEW token \in DOMAIN links, BeginRevoke(r, token)
      PROVE  NoNewPattern /\ NoNewSaving
  <2>1. PICK q : q = [Idle EXCEPT !.step = "deleteLink", !.token = token]
    OBVIOUS
  <2>2. q.from = Nobody
    BY <1>2, <2>1 DEF RequestFields
  <2> QED
    BY <1>1, <1>3, <1>5, <2>1, <2>2, BeginSavesNot DEF BeginRevoke
<1>6. ASSUME NEW r \in Requests, NEW token \in DOMAIN links, BeginSave(r, token)
      PROVE  NoNewPattern /\ NoNewSaving
  <2>1. PICK q : q = [Idle EXCEPT !.step = "getShared", !.pattern = links[token].pattern]
    OBVIOUS
  <2>2. q.from = Nobody
    BY <1>2, <2>1 DEF RequestFields
  <2> QED
    BY <1>1, <1>3, <1>6, <2>1, <2>2, BeginSavesNot DEF BeginSave
<1>7. ASSUME NEW r \in Requests, NEW p \in DOMAIN store, BeginRevokeAll(r, p)
      PROVE  NoNewPattern /\ NoNewSaving
  <2>1. PICK q : q = [Idle EXCEPT !.step = "deleteLinks", !.pattern = p]
    OBVIOUS
  <2>2. q.from = Nobody
    BY <1>2, <2>1 DEF RequestFields
  <2> QED
    BY <1>1, <1>3, <1>7, <2>1, <2>2, BeginSavesNot DEF BeginRevokeAll
<1>8. ASSUME NEW r \in Requests, NEW p \in DOMAIN store, BeginDuplicate(r, p)
      PROVE  NoNewPattern /\ NoNewSaving
  <2>1. PICK q : q = [Idle EXCEPT !.step = "getPattern", !.pattern = p]
    OBVIOUS
  <2>2. q.from = Nobody
    BY <1>2, <2>1 DEF RequestFields
  <2> QED
    BY <1>1, <1>3, <1>8, <2>1, <2>2, BeginSavesNot DEF BeginDuplicate
<1>9. ASSUME NEW r \in Requests, ListLinks(r)
      PROVE  NoNewPattern /\ NoNewSaving
  <2>1. PICK q : q = [request[r] EXCEPT !.step = "insertLink"]
    OBVIOUS
  <2>2. ~ Saving(q)
    BY <1>1, <2>1 DEF Saving, CopySteps, RequestFields
  <2>3. /\ store' = store /\ count' = count /\ renamed' = renamed
        /\ Answer(r) \/ request' = [request EXCEPT ![r] = q]
    BY <1>9, <2>1 DEF ListLinks, GoOn
  <2> QED
    BY <1>1, <1>3, <2>2, <2>3, AnswerSavesNot, OneRequestSavesNot
<1>10. ASSUME NEW r \in Requests, InsertLink(r) \/ DeleteLink(r) \/ DeleteLinks(r) \/ Abort(r)
       PROVE  NoNewPattern /\ NoNewSaving
  <2>1. /\ Answer(r) /\ store' = store /\ count'.patterns = count.patterns
        /\ renamed' = renamed
    BY <1>1, <1>10 DEF InsertLink, DeleteLink, DeleteLinks, Abort, CountTyped
  <2> QED
    BY <1>1, <1>3, <2>1, AnswerSavesNot
<1>11. ASSUME NEW r \in Requests, LoadStitches(r) \/ LoadGroups(r) \/ LoadEntries(r)
       PROVE  NoNewPattern /\ NoNewSaving
  <2>1. PICK q : q = request[r]
    OBVIOUS
  <2>2. /\ store' = store /\ count' = count /\ renamed' = renamed
        /\ q.step \in {"loadStitches", "loadGroups", "loadEntries"}
        /\ \E x : /\ request' = [request EXCEPT ![r] = x]
                  /\ x.step \in {"loadGroups", "loadEntries", "create"}
                  /\ x.pattern = q.pattern /\ x.from = q.from /\ x.name = q.name
    BY <1>1, <1>11, <2>1, LoadGoesOn
  <2>3. NoNewSaving
    BY <1>1, <2>1, <2>2 DEF NoNewSaving, Saving, CopySteps
  <2> QED
    BY <1>3, <2>2, <2>3
<1>12. ASSUME NEW r \in Requests, CopyImages(r)
       PROVE  NoNewPattern /\ NoNewSaving
  BY <1>12, CopyImagesAddsNoPattern
<1>13. ASSUME request' = request
       PROVE  NoNewSaving
  BY <1>13 DEF NoNewSaving
<1>14. ASSUME NEW p \in DOMAIN store, NEW name \in Names, NEW form \in Forms,
              SavePattern(p, name, form)
       PROVE  NoNewPattern /\ NoNewSaving
  BY <1>13, <1>14, SaveAddsNoPattern DEF SavePattern
<1>15. ASSUME NEW p \in DOMAIN store, DeletePattern(p)
       PROVE  NoNewPattern /\ NoNewSaving
  BY <1>13, <1>15 DEF DeletePattern, Without, NoNewPattern
<1>16. ASSUME NEW p \in DOMAIN store, NEW g \in DOMAIN store[p].groups,
              AddImage(p, g) \/ RemoveImage(p, g)
       PROVE  NoNewPattern /\ NoNewSaving
  <2>1. PICK i : i = g
    OBVIOUS
  <2>2. PICK b : b \in BOOLEAN /\ store' = [store EXCEPT ![p].groups[i].pictured = b]
    BY <1>16, <2>1 DEF AddImage, RemoveImage
  <2>3. count'.patterns = count.patterns /\ request' = request /\ renamed' = renamed
    BY <1>1, <1>16 DEF AddImage, RemoveImage, CountTyped
  <2>4. NoNewPattern
    BY <2>2, <2>3, PicturedAddsNoPattern
  <2> QED
    BY <1>13, <2>3, <2>4
<1> QED
  BY <1>4, <1>5, <1>6, <1>7, <1>8, <1>9, <1>10, <1>11, <1>12, <1>14, <1>15, <1>16, Zenon
     DEF Next

\* The owner and the origin of a pattern stay.
LEMMA OwnersStay ==
  ASSUME SharingInv, [Next]_vars, NEW p \in DOMAIN store, p \in DOMAIN store'
  PROVE  store'[p].user = store[p].user
<1>1. p \in 1 .. count.patterns /\ count.patterns \in Nat
  BY DEF SharingInv, StoreTyped, CountTyped
<1>2. ASSUME NEW x, store' = With(store, count.patterns + 1, x)
      PROVE  store'[p].user = store[p].user
  BY <1>1, <1>2 DEF With
<1>3. CASE \E r \in Requests : GetShared(r) \/ ListShared(r) \/ GetPattern(r)
  BY <1>3 DEF GetShared, ListShared, GetPattern
<1>4. CASE \E r \in Requests : CreateCopy(r)
  <2>1. PICK r \in Requests : CreateCopy(r)
    BY <1>4
  <2>2. PICK u, q : u = SentBy[r] /\ q = request[r]
    OBVIOUS
  <2>3. PICK x, top : x = CopyBy(u, q) /\ top = LastRow(q)
    OBVIOUS
  <2>4. store' = store \/ store' = With(store, count.patterns + 1, x)
    <3>1. CopyMade(r, u, q, x, top)
      BY <2>1, <2>2, <2>3, CopyCreated
    <3> QED
      BY <3>1 DEF CopyMade
  <2> QED
    BY <1>2, <2>4
<1>5. CASE \E u \in Owners, name \in Names, form \in Forms : CreatePattern(u, name, form)
  BY <1>2, <1>5 DEF CreatePattern
<1>6. CASE UNCHANGED vars
  BY <1>6 DEF vars
<1>7. CASE /\ Next
           /\ \A r \in Requests : /\ ~ GetShared(r) /\ ~ ListShared(r)
                                  /\ ~ GetPattern(r) /\ ~ CreateCopy(r)
           /\ \A u \in Owners, name \in Names, form \in Forms : ~ CreatePattern(u, name, form)
  BY <1>7, OtherStepsSaveNothing DEF NoNewPattern
<1> QED
  BY <1>3, <1>4, <1>5, <1>6, <1>7

-----------------------------------------------------------------------------
(***************************************************************************)
(* Counting what was made and the requests about to make more of it.       *)
(***************************************************************************)

\* There is a number of slots.
LEMMA SlotsFinite ==
  ASSUME NEW u
  PROVE  IsFiniteSet(SlotsOf(u)) /\ Cardinality(SlotsOf(u)) \in Nat
BY SharingAssumptions, FS_Subset, FS_CardinalityType DEF SharingAssumptions, SlotsOf

\* Some of both are left.
LEMMA FewerLeft ==
  ASSUME NEW A, IsFiniteSet(A), NEW B, IsFiniteSet(B), NEW n \in Nat,
         Cardinality(A) + Cardinality(B) <= n,
         NEW C, C \subseteq A, NEW D, D \subseteq B
  PROVE  Cardinality(C) + Cardinality(D) <= n
<1>1. /\ IsFiniteSet(C) /\ Cardinality(C) <= Cardinality(A)
      /\ IsFiniteSet(D) /\ Cardinality(D) <= Cardinality(B)
  BY FS_Subset
<1>2. /\ Cardinality(A) \in Nat /\ Cardinality(B) \in Nat
      /\ Cardinality(C) \in Nat /\ Cardinality(D) \in Nat
  BY <1>1, FS_CardinalityType
<1> QED
  BY <1>1, <1>2

\* A request has made one more.
LEMMA OneMade ==
  ASSUME NEW A, IsFiniteSet(A), NEW B, IsFiniteSet(B), NEW n \in Nat,
         Cardinality(A) + Cardinality(B) <= n,
         NEW t, NEW C, C \subseteq A \cup {t}, NEW r \in B, NEW D, D \subseteq B \ {r}
  PROVE  Cardinality(C) + Cardinality(D) <= n
<1> DEFINE E == A \cup {t}
           F == B \ {r}
<1>1. IsFiniteSet(E) /\ Cardinality(E) <= Cardinality(A) + 1
  <2>1. Cardinality(A) \in Nat
    BY FS_CardinalityType
  <2>2. /\ IsFiniteSet(E)
        /\ Cardinality(E) = Cardinality(A) \/ Cardinality(E) = Cardinality(A) + 1
    BY FS_AddElement
  <2> QED
    BY <2>1, <2>2
<1>2. IsFiniteSet(F) /\ Cardinality(F) = Cardinality(B) - 1
  BY FS_RemoveElement
<1>3. /\ Cardinality(A) \in Nat /\ Cardinality(B) \in Nat
      /\ Cardinality(E) \in Nat /\ Cardinality(F) \in Nat
  BY <1>1, <1>2, FS_CardinalityType
<1>4. C \subseteq E /\ D \subseteq F
  OBVIOUS
<1> HIDE DEF E, F
<1>5. Cardinality(E) + Cardinality(F) <= n
  BY <1>1, <1>2, <1>3
<1> QED
  BY <1>1, <1>2, <1>4, <1>5, FewerLeft

-----------------------------------------------------------------------------
(***************************************************************************)
(* Links are reused: requests that are about to insert a link saw that     *)
(* there was none, so that they and the links they made are not more than  *)
(* the requests their owner may have in progress at once.                  *)
(***************************************************************************)

\* The links of a pattern for one recipient, and the requests about to insert one.
LinksFor(p, for)     == {t \in DOMAIN links : links[t].pattern = p /\ links[t].for = for}
AboutToLink(p, for) ==
  {r \in Requests : /\ request[r].step = "insertLink"
                    /\ request[r].pattern = p /\ request[r].for = for}

\* The inductive invariant: there is a slot for each of them.
LinkRoom ==
  \A p \in DOMAIN store, for \in Users \cup {Anyone} :
    Cardinality(LinksFor(p, for)) + Cardinality(AboutToLink(p, for))
      <= Cardinality(SlotsOf(store[p].user))

\* Both are finite sets.
LEMMA LinksFinite ==
  ASSUME SharingInv, NEW p, NEW for
  PROVE  IsFiniteSet(LinksFor(p, for)) /\ IsFiniteSet(AboutToLink(p, for))
<1>1. IsFiniteSet(1 .. count.links) /\ DOMAIN links \subseteq 1 .. count.links
  BY FS_Interval DEF SharingInv, StoreTyped, CountTyped, LinksTyped
<1> QED
  BY <1>1, FS_Subset, SharingAssumptions DEF LinksFor, AboutToLink, SharingAssumptions

\* As long as there is no link, there is room for what the owner's requests make.
LEMMA FirstLinkHasRoom ==
  ASSUME SharingInv', NEW p \in DOMAIN store', NEW for, LinksFor(p, for)' = {}
  PROVE  Cardinality(LinksFor(p, for)') + Cardinality(AboutToLink(p, for)')
           <= Cardinality(SlotsOf(store'[p].user))
<1> DEFINE about == AboutToLink(p, for)'
           slots == SlotsOf(store'[p].user)
<1>1. about \subseteq slots
  <2>1. ASSUME NEW r \in about
        PROVE  r \in Requests /\ SentBy[r] = store'[p].user
    <3>1. PICK q : q = request'[r]
      OBVIOUS
    <3>2. Promise(SentBy[r], q)' /\ r \in Requests /\ q.step = "insertLink" /\ q.pattern = p
      BY <3>1 DEF AboutToLink, SharingInv, RequestsHonest, Promise
    <3> QED
      BY <3>2 DEF Promise, ShareSteps
  <2> QED
    BY <2>1 DEF SlotsOf
<1>2. IsFiniteSet(slots) /\ Cardinality(slots) \in Nat
  BY SlotsFinite
<1> HIDE DEF about, slots
<1>3. Cardinality(about) <= Cardinality(slots) /\ Cardinality(about) \in Nat
  BY <1>1, <1>2, FS_Subset, FS_CardinalityType
<1>4. Cardinality(LinksFor(p, for)') = 0
  BY FS_EmptySet
<1> QED
  BY <1>3, <1>4 DEF about, slots

\* Links and requests of one kind only go.
LEMMA FewerLinksKeepRoom ==
  ASSUME SharingInv, SharingInv', LinkRoom, [Next]_vars,
         NEW p \in DOMAIN store', NEW for \in Users \cup {Anyone},
         LinksFor(p, for)' \subseteq LinksFor(p, for),
         LinksFor(p, for)' = {} \/ AboutToLink(p, for)' \subseteq AboutToLink(p, for)
  PROVE  Cardinality(LinksFor(p, for)') + Cardinality(AboutToLink(p, for)')
           <= Cardinality(SlotsOf(store'[p].user))
<1>1. CASE LinksFor(p, for)' = {}
  BY <1>1, FirstLinkHasRoom
<1>2. CASE LinksFor(p, for)' # {} /\ AboutToLink(p, for)' \subseteq AboutToLink(p, for)
  <2>1. PICK t \in DOMAIN links : links[t].pattern = p
    BY <1>2 DEF LinksFor
  <2>2. p \in DOMAIN store
    BY <2>1 DEF SharingInv, LinksTyped
  <2>3. PICK u : u = store[p].user /\ u = store'[p].user
    BY <2>2, OwnersStay
  <2>4. Cardinality(LinksFor(p, for)) + Cardinality(AboutToLink(p, for))
          <= Cardinality(SlotsOf(u))
    BY <2>2, <2>3 DEF LinkRoom
  <2>5. PICK A, B, C, D : /\ A = LinksFor(p, for) /\ B = AboutToLink(p, for)
                          /\ C = LinksFor(p, for)' /\ D = AboutToLink(p, for)'
    OBVIOUS
  <2>6. IsFiniteSet(A) /\ IsFiniteSet(B) /\ C \subseteq A /\ D \subseteq B
    BY <1>2, <2>5, LinksFinite
  <2>7. Cardinality(C) + Cardinality(D) <= Cardinality(SlotsOf(u))
    BY <2>4, <2>5, <2>6, FewerLeft, SlotsFinite
  <2> QED
    BY <2>3, <2>5, <2>7
<1> QED
  BY <1>1, <1>2

\* Other steps only take links and requests away.
LEMMA NoNewLinkKeepsRoom ==
  ASSUME SharingInv, SharingInv', LinkRoom, [Next]_vars, NoNewLink
  PROVE  LinkRoom'
<1>1. ASSUME NEW p, NEW for
      PROVE  /\ LinksFor(p, for)' \subseteq LinksFor(p, for)
             /\ AboutToLink(p, for)' \subseteq AboutToLink(p, for)
  BY DEF NoNewLink, LinksFor, AboutToLink
<1>2. ASSUME NEW p \in DOMAIN store', NEW for \in Users \cup {Anyone}
      PROVE  Cardinality(LinksFor(p, for)') + Cardinality(AboutToLink(p, for)')
               <= Cardinality(SlotsOf(store'[p].user))
  BY <1>1, FewerLinksKeepRoom
<1> QED
  BY <1>2 DEF LinkRoom, LinksFor, AboutToLink, SlotsOf

\* A request comes to insert a link when there is none.
LEMMA ListLinksLeavesRoom ==
  ASSUME SharingInv, SharingInv', LinkRoom, [Next]_vars, NEW r \in Requests, ListLinks(r)
  PROVE  LinkRoom'
<1>1. PICK q : q = request[r]
  OBVIOUS
<1>2. DOMAIN request = Requests /\ DOMAIN q = RequestFields
  BY <1>1 DEF SharingInv, RequestsHonest, Promise
<1>3. links' = links
  BY DEF ListLinks
<1>4. CASE Answer(r)
  <2>1. Idle.step # "insertLink"
    BY DEF Idle
  <2> QED
    BY <1>2, <1>3, <1>4, <2>1, OneRequestChanges, NoNewLinkKeepsRoom DEF Answer
<1>5. CASE GoOn(r, "insertLink") /\ ~ \E t \in LinksOf(q.pattern) : links[t].for = q.for
  <2>1. PICK x : x = [q EXCEPT !.step = "insertLink"]
    OBVIOUS
  <2>2. /\ x.pattern = q.pattern /\ x.for = q.for
        /\ \A s \in Requests : request'[s] = IF s = r THEN x ELSE request[s]
    BY <1>1, <1>2, <1>5, <2>1 DEF GoOn, RequestFields
  <2>3. LinksFor(q.pattern, q.for)' = {}
    BY <1>3, <1>5 DEF LinksOf, LinksFor
  <2>4. ASSUME NEW p \in DOMAIN store', NEW for \in Users \cup {Anyone}
        PROVE  Cardinality(LinksFor(p, for)') + Cardinality(AboutToLink(p, for)')
                 <= Cardinality(SlotsOf(store'[p].user))
    <3>1. LinksFor(p, for)' \subseteq LinksFor(p, for)
      BY <1>3 DEF LinksFor
    <3>2. CASE p = q.pattern /\ for = q.for
      BY <2>3, <3>1, <3>2, FewerLinksKeepRoom
    <3>3. CASE ~ (p = q.pattern /\ for = q.for)
      <4>1. AboutToLink(p, for)' \subseteq AboutToLink(p, for)
        BY <2>2, <3>3 DEF AboutToLink
      <4> QED
        BY <3>1, <4>1, FewerLinksKeepRoom
    <3> QED
      BY <3>2, <3>3
  <2> QED
    BY <2>4 DEF LinkRoom, LinksFor, AboutToLink, SlotsOf
<1> QED
  BY <1>1, <1>4, <1>5 DEF ListLinks

\* The link that a request inserts takes its place.
LEMMA InsertLinkFindsRoom ==
  ASSUME SharingInv, SharingInv', LinkRoom, [Next]_vars, NEW r \in Requests, InsertLink(r)
  PROVE  LinkRoom'
<1>1. PICK q : q = request[r]
  OBVIOUS
<1>2. /\ DOMAIN request = Requests
      /\ q.step = "insertLink"
      /\ count.links \in Nat /\ DOMAIN links \subseteq 1 .. count.links
      /\ store' = store
  BY <1>1 DEF SharingInv, RequestsHonest, StoreTyped, CountTyped, LinksTyped, InsertLink
<1>3. Idle.step # "insertLink" /\ request' = [request EXCEPT ![r] = Idle]
  BY DEF Idle, InsertLink, Answer
<1>4. CASE links' = links
  BY <1>2, <1>3, <1>4, OneRequestChanges, NoNewLinkKeepsRoom
<1>5. CASE /\ q.pattern \in DOMAIN store
           /\ links' = With(links, count.links + 1, [pattern |-> q.pattern, for |-> q.for])
  <2> DEFINE token == count.links + 1
             new   == [pattern |-> q.pattern, for |-> q.for]
  <2>1. /\ token \notin DOMAIN links
        /\ DOMAIN links' = DOMAIN links \cup {token}
        /\ \A t \in DOMAIN links' : links'[t] = IF t = token THEN new ELSE links[t]
    BY <1>2, <1>5 DEF With
  <2>2. new.pattern = q.pattern /\ new.for = q.for
    OBVIOUS
  <2> HIDE DEF token, new
  <2>3. ASSUME NEW p \in DOMAIN store', NEW for \in Users \cup {Anyone}
        PROVE  Cardinality(LinksFor(p, for)') + Cardinality(AboutToLink(p, for)')
                 <= Cardinality(SlotsOf(store'[p].user))
    <3>1. CASE p = q.pattern /\ for = q.for
      <4>1. LinksFor(p, for)' \subseteq LinksFor(p, for) \cup {token}
        BY <2>1 DEF LinksFor
      <4>2. /\ r \in AboutToLink(p, for)
            /\ AboutToLink(p, for)' \subseteq AboutToLink(p, for) \ {r}
        BY <1>1, <1>2, <1>3, <3>1 DEF AboutToLink
      <4>3. PICK n : /\ n = Cardinality(SlotsOf(store'[p].user)) /\ n \in Nat
                     /\ Cardinality(LinksFor(p, for)) + Cardinality(AboutToLink(p, for)) <= n
        BY <1>2, SlotsFinite DEF LinkRoom
      <4>4. PICK A, B, C, D : /\ A = LinksFor(p, for) /\ B = AboutToLink(p, for)
                              /\ C = LinksFor(p, for)' /\ D = AboutToLink(p, for)'
        OBVIOUS
      <4>5. IsFiniteSet(A) /\ IsFiniteSet(B)
        BY <4>4, LinksFinite
      <4>6. Cardinality(C) + Cardinality(D) <= n
        BY <4>1, <4>2, <4>3, <4>4, <4>5, OneMade
      <4> QED
        BY <4>3, <4>4, <4>6
    <3>2. CASE ~ (p = q.pattern /\ for = q.for)
      <4>1. LinksFor(p, for)' \subseteq LinksFor(p, for)
        BY <2>1, <2>2, <3>2 DEF LinksFor
      <4>2. AboutToLink(p, for)' \subseteq AboutToLink(p, for)
        BY <1>2, <1>3 DEF AboutToLink
      <4> QED
        BY <4>1, <4>2, FewerLinksKeepRoom
    <3> QED
      BY <3>1, <3>2
  <2> QED
    BY <2>3 DEF LinkRoom, LinksFor, AboutToLink, SlotsOf
<1> QED
  BY <1>1, <1>4, <1>5 DEF InsertLink

\* Equal links come only from requests of the owner that were in progress at
\* once.
THEOREM LinksAreNotRepeated == Spec => []LinksAreReused
<1>1. Init => LinkRoom
  BY DEF Init, LinkRoom
<1>2. SharingInv /\ SharingInv' /\ LinkRoom /\ [Next]_vars => LinkRoom'
  <2> SUFFICES ASSUME SharingInv, SharingInv', LinkRoom, [Next]_vars PROVE LinkRoom'
    OBVIOUS
  <2>1. CASE UNCHANGED vars
    <3>1. links' = links /\ request' = request
      BY <2>1 DEF vars
    <3>2. NoNewLink
      BY <3>1 DEF NoNewLink
    <3> QED
      BY <3>2, NoNewLinkKeepsRoom
  <2>2. CASE Next /\ \A r \in Requests : ~ ListLinks(r) /\ ~ InsertLink(r)
    BY <2>2, OtherStepsLeaveRoom, NoNewLinkKeepsRoom
  <2>3. CASE \E r \in Requests : ListLinks(r) \/ InsertLink(r)
    BY <2>3, ListLinksLeavesRoom, InsertLinkFindsRoom
  <2> QED
    BY <2>1, <2>2, <2>3
<1>3. SharingInv /\ LinkRoom => LinksAreReused
  <2> SUFFICES ASSUME SharingInv, LinkRoom, NEW t \in DOMAIN links
               PROVE  Cardinality({s \in DOMAIN links : links[s] = links[t]})
                        <= Cardinality(SlotsOf(store[links[t].pattern].user))
    BY DEF LinksAreReused
  <2>1. PICK p, for : p = links[t].pattern /\ for = links[t].for
    OBVIOUS
  <2>2. p \in DOMAIN store /\ for \in Users \cup {Anyone}
    BY <2>1 DEF SharingInv, LinksTyped
  <2> DEFINE equal == {s \in DOMAIN links : links[s] = links[t]}
  <2>3. equal \subseteq LinksFor(p, for) /\ {} \subseteq AboutToLink(p, for)
    BY <2>1 DEF LinksFor
  <2> HIDE DEF equal
  <2>4. Cardinality(equal) + Cardinality({}) <= Cardinality(SlotsOf(store[p].user))
    BY <2>2, <2>3, LinksFinite, SlotsFinite, FewerLeft DEF LinkRoom
  <2>5. Cardinality({}) = 0 /\ Cardinality(equal) \in Nat
    BY <2>3, LinksFinite, FS_Subset, FS_EmptySet, FS_CardinalityType
  <2> QED
    BY <2>1, <2>4, <2>5 DEF equal
<1> QED
  BY <1>1, <1>2, <1>3, SharingInvHolds, PTL DEF Spec

-----------------------------------------------------------------------------
(***************************************************************************)
(* A pattern is saved once.  The check for an earlier copy compares names: *)
(* it finds the copy of a pattern that was never renamed, so that a user's *)
(* copies and the requests past the check are not more than the requests   *)
(* the user may have in progress at once.                                  *)
(***************************************************************************)

\* n has the names of the patterns that were never renamed, those of the copies
\* that users received of them, and those that requests have read.
NamesFrom(n) ==
  /\ DOMAIN n = Nat
  /\ \A p \in DOMAIN store :
       /\ p \notin renamed => store[p].name = n[p]
       /\ IsReceived(p) =>
            /\ store[p].of \in 1 .. count.patterns
            /\ store[p].of \notin renamed => store[p].name = n[store[p].of]
  /\ \A r \in Requests : Saving(request[r]) /\ request[r].pattern \notin renamed =>
       request[r].name = n[request[r].pattern]

\* The requests of user u that are past the check and may save a copy.
AboutToSave(p, u, from) ==
  {r \in SlotsOf(u) : /\ Saving(request[r]) /\ request[r].step # "listShared"
                      /\ request[r].pattern = p /\ request[r].from = from}

\* There is a slot for each of them and of the copies.
CopyRoom ==
  \A p, u, from : p \notin renamed =>
    Cardinality(CopiesOf(p, u, from)) + Cardinality(AboutToSave(p, u, from))
      <= Cardinality(SlotsOf(u))

\* The inductive invariant.
CopyInv == CopyRoom /\ \E n : NamesFrom(n)

\* Both are finite sets.
LEMMA CopiesFinite ==
  ASSUME SharingInv, NEW p, NEW u, NEW from
  PROVE  IsFiniteSet(CopiesOf(p, u, from)) /\ IsFiniteSet(AboutToSave(p, u, from))
<1>1. IsFiniteSet(1 .. count.patterns) /\ DOMAIN store \subseteq 1 .. count.patterns
  BY FS_Interval DEF SharingInv, StoreTyped, CountTyped
<1>2. IsFiniteSet(DOMAIN store)
  BY <1>1, FS_Subset
<1> QED
  BY <1>2, FS_Subset, SlotsFinite DEF CopiesOf, AboutToSave

\* Copies and requests of one kind only go.
LEMMA FewerCopiesKeepRoom ==
  ASSUME SharingInv, CopyRoom, NEW p, p \notin renamed, NEW u, NEW from,
         CopiesOf(p, u, from)' \subseteq CopiesOf(p, u, from),
         AboutToSave(p, u, from)' \subseteq AboutToSave(p, u, from)
  PROVE  Cardinality(CopiesOf(p, u, from)') + Cardinality(AboutToSave(p, u, from)')
           <= Cardinality(SlotsOf(u))
<1>1. PICK A, B, C, D : /\ A = CopiesOf(p, u, from) /\ B = AboutToSave(p, u, from)
                        /\ C = CopiesOf(p, u, from)' /\ D = AboutToSave(p, u, from)'
  OBVIOUS
<1>2. /\ IsFiniteSet(A) /\ IsFiniteSet(B) /\ C \subseteq A /\ D \subseteq B
      /\ Cardinality(A) + Cardinality(B) <= Cardinality(SlotsOf(u))
  BY <1>1, CopiesFinite DEF CopyRoom
<1>3. Cardinality(C) + Cardinality(D) <= Cardinality(SlotsOf(u))
  BY <1>2, FewerLeft, SlotsFinite
<1> QED
  BY <1>1, <1>3

\* As long as there is no copy, there is room for what the user's requests make.
LEMMA FirstCopyHasRoom ==
  ASSUME NEW p, NEW u, NEW from, CopiesOf(p, u, from)' = {}
  PROVE  Cardinality(CopiesOf(p, u, from)') + Cardinality(AboutToSave(p, u, from)')
           <= Cardinality(SlotsOf(u))
<1> DEFINE about == AboutToSave(p, u, from)'
           slots == SlotsOf(u)
<1>1. about \subseteq slots
  BY DEF AboutToSave, SlotsOf
<1>2. IsFiniteSet(slots) /\ Cardinality(slots) \in Nat
  BY SlotsFinite
<1> HIDE DEF about, slots
<1>3. Cardinality(about) <= Cardinality(slots) /\ Cardinality(about) \in Nat
  BY <1>1, <1>2, FS_Subset, FS_CardinalityType
<1>4. Cardinality(CopiesOf(p, u, from)') = 0
  BY FS_EmptySet
<1> QED
  BY <1>3, <1>4 DEF about, slots

\* A step that brings neither a pattern nor a request past the check.
LEMMA NothingNewKeepsRoom ==
  ASSUME SharingInv, CopyRoom, NoNewPattern,
         \A s \in Requests : Saving(request'[s]) /\ request'[s].step # "listShared" =>
           /\ Saving(request[s]) /\ request[s].step # "listShared"
           /\ request'[s].pattern = request[s].pattern
           /\ request'[s].from = request[s].from
  PROVE  CopyRoom'
<1>1. ASSUME NEW p, p \notin renamed', NEW u, NEW from
      PROVE  Cardinality(CopiesOf(p, u, from)') + Cardinality(AboutToSave(p, u, from)')
               <= Cardinality(SlotsOf(u))
  <2>1. p \notin renamed
    BY <1>1 DEF NoNewPattern
  <2>2. CopiesOf(p, u, from)' \subseteq CopiesOf(p, u, from)
    BY DEF CopiesOf, NoNewPattern, IsReceived
  <2>3. AboutToSave(p, u, from)' \subseteq AboutToSave(p, u, from)
    BY DEF AboutToSave, SlotsOf
  <2> QED
    BY <2>1, <2>2, <2>3, FewerCopiesKeepRoom
<1> QED
  BY <1>1 DEF CopyRoom, SlotsOf

\* A step that brings neither a pattern nor a request to save one.
LEMMA NothingNewKeepsInv ==
  ASSUME SharingInv, CopyInv, NoNewPattern, NoNewSaving
  PROVE  CopyInv'
<1>1. PICK n : NamesFrom(n)
  BY DEF CopyInv
<1>2. ASSUME NEW p \in DOMAIN store'
      PROVE  /\ p \notin renamed' => store'[p].name = n[p]
             /\ IsReceived(p)' =>
                  /\ store'[p].of \in 1 .. count'.patterns
                  /\ store'[p].of \notin renamed' => store'[p].name = n[store'[p].of]
  BY <1>1 DEF NamesFrom, NoNewPattern, IsReceived
<1>3. \A r \in Requests : Saving(request'[r]) /\ request'[r].pattern \notin renamed' =>
        request'[r].name = n[request'[r].pattern]
  BY <1>1 DEF NamesFrom, NoNewSaving, NoNewPattern
<1>4. NamesFrom(n)'
  BY <1>1, <1>2, <1>3 DEF NamesFrom, IsReceived
<1>5. CopyRoom'
  BY NothingNewKeepsRoom DEF CopyInv, NoNewSaving
<1> QED
  BY <1>4, <1>5 DEF CopyInv

\* A request that comes to know the owner knows the name, too.
LEMMA GetSharedKeepsNames ==
  ASSUME SharingInv, CopyInv, NEW r \in Requests, GetShared(r)
  PROVE  CopyInv'
<1>1. PICK q : q = request[r]
  OBVIOUS
<1>2. DOMAIN request = Requests /\ DOMAIN q = RequestFields
  BY <1>1, PromiseOf DEF Promise
<1>3. /\ UNCHANGED << store, links, count, invited, torn, renamed >>
      /\ q.step = "getShared"
      /\ \/ Answer(r)
         \/ /\ q.pattern \in DOMAIN store
            /\ request' = [request EXCEPT ![r].step = "listShared",
                 ![r].from = store[q.pattern].user, ![r].name = store[q.pattern].name]
  BY <1>1 DEF GetShared
<1>4. store' = store /\ count' = count /\ renamed' = renamed /\ NoNewPattern
  BY <1>3 DEF NoNewPattern
<1>5. CASE Answer(r)
  BY <1>2, <1>4, <1>5, AnswerSavesNot, NothingNewKeepsInv
<1>6. CASE /\ q.pattern \in DOMAIN store
           /\ request' = [request EXCEPT ![r].step = "listShared",
                ![r].from = store[q.pattern].user, ![r].name = store[q.pattern].name]
  <2>1. PICK p, from, name : p = q.pattern /\ from = store[p].user /\ name = store[p].name
    OBVIOUS
  <2>2. PICK x : x = [q EXCEPT !.step = "listShared", !.from = from, !.name = name]
    OBVIOUS
  <2>3. x.step = "listShared" /\ x.pattern = p /\ x.name = name
    BY <1>2, <2>1, <2>2 DEF RequestFields
  <2>4. \A s \in Requests : request'[s] = IF s = r THEN x ELSE request[s]
    BY <1>1, <1>2, <1>6, <2>1, <2>2
  <2>5. PICK n : NamesFrom(n)
    BY DEF CopyInv
  <2>6. p \notin renamed => name = n[p]
    BY <1>6, <2>1, <2>5 DEF NamesFrom
  <2>7. \A s \in Requests : Saving(request'[s]) /\ request'[s].pattern \notin renamed =>
          request'[s].name = n[request'[s].pattern]
    BY <2>3, <2>4, <2>5, <2>6 DEF NamesFrom
  <2>8. NamesFrom(n)'
    BY <1>4, <2>5, <2>7 DEF NamesFrom, IsReceived
  <2>9. CopyRoom'
    BY <1>4, <2>3, <2>4, NothingNewKeepsRoom DEF CopyInv
  <2> QED
    BY <2>8, <2>9 DEF CopyInv
<1> QED
  BY <1>3, <1>5, <1>6

\* A request passes the check when there is no copy of the pattern, unless it
\* was renamed.
LEMMA ListSharedFindsCopy ==
  ASSUME SharingInv, CopyInv, NEW r \in Requests, ListShared(r)
  PROVE  CopyInv'
<1>1. PICK u, q : u = SentBy[r] /\ q = request[r]
  OBVIOUS
<1>2. DOMAIN request = Requests /\ DOMAIN q = RequestFields /\ Promise(u, q)
  BY <1>1, PromiseOf DEF Promise
<1>3. PICK x : x = [q EXCEPT !.step = "getPattern"]
  OBVIOUS
<1>4. /\ x.step = "getPattern" /\ x.pattern = q.pattern /\ x.from = q.from /\ x.name = q.name
  BY <1>2, <1>3 DEF RequestFields
<1>5. /\ UNCHANGED << store, links, count, invited, torn, renamed >>
      /\ q.step = "listShared"
      /\ \/ Answer(r)
         \/ Received(u, q.from, q.name) = {} /\ request' = [request EXCEPT ![r] = x]
  BY <1>1, <1>3 DEF ListShared, GoOn
<1>6. store' = store /\ count' = count /\ renamed' = renamed /\ NoNewPattern
  BY <1>5 DEF NoNewPattern
<1>7. CASE Answer(r)
  BY <1>2, <1>6, <1>7, AnswerSavesNot, NothingNewKeepsInv
<1>8. CASE Received(u, q.from, q.name) = {} /\ request' = [request EXCEPT ![r] = x]
  <2>1. PICK n : NamesFrom(n)
    BY DEF CopyInv
  <2>2. Saving(q) /\ Saving(x)
    BY <1>2, <1>4, <1>5 DEF Promise, Saving, CopySteps
  <2>3. \A s \in Requests : request'[s] = IF s = r THEN x ELSE request[s]
    BY <1>2, <1>8
  <2>4. \A s \in Requests : Saving(request'[s]) /\ request'[s].pattern \notin renamed =>
          request'[s].name = n[request'[s].pattern]
    BY <1>1, <1>4, <2>1, <2>2, <2>3 DEF NamesFrom
  <2>5. NamesFrom(n)'
    BY <1>6, <2>1, <2>4 DEF NamesFrom, IsReceived
  <2>6. ASSUME NEW p, p \notin renamed, NEW v, NEW from
        PROVE  Cardinality(CopiesOf(p, v, from)') + Cardinality(AboutToSave(p, v, from)')
                 <= Cardinality(SlotsOf(v))
    <3>1. CopiesOf(p, v, from)' = CopiesOf(p, v, from)
      BY <1>6 DEF CopiesOf, IsReceived
    <3>2. CASE p = q.pattern /\ v = u /\ from = q.from
      <4>1. \A c \in CopiesOf(p, v, from) : c \in Received(u, q.from, q.name)
        BY <1>1, <2>1, <2>2, <2>6, <3>2 DEF NamesFrom, CopiesOf, Received
      <4> QED
        BY <1>8, <3>1, <4>1, FirstCopyHasRoom
    <3>3. CASE ~ (p = q.pattern /\ v = u /\ from = q.from)
      <4>1. AboutToSave(p, v, from)' \subseteq AboutToSave(p, v, from)
        BY <1>1, <1>4, <2>3, <3>3 DEF AboutToSave, SlotsOf
      <4> QED
        BY <2>6, <3>1, <4>1, FewerCopiesKeepRoom DEF CopyInv
    <3> QED
      BY <3>2, <3>3
  <2>7. CopyRoom'
    BY <1>6, <2>6 DEF CopyRoom, SlotsOf
  <2> QED
    BY <2>5, <2>7 DEF CopyInv
<1> QED
  BY <1>5, <1>7, <1>8

\* The pattern that is copied still has its name, if it was never renamed.
LEMMA GetPatternKeepsNames ==
  ASSUME SharingInv, CopyInv, NEW r \in Requests, GetPattern(r)
  PROVE  CopyInv'
<1>1. PICK q : q = request[r]
  OBVIOUS
<1>2. DOMAIN request = Requests /\ DOMAIN q = RequestFields
  BY <1>1, PromiseOf DEF Promise
<1>3. PICK name : name = store[q.pattern].name
  OBVIOUS
<1>4. PICK x : x = [q EXCEPT !.step = "loadStitches", !.name = name]
  OBVIOUS
<1>5. /\ x.step = "loadStitches" /\ x.pattern = q.pattern /\ x.from = q.from /\ x.name = name
  BY <1>2, <1>4 DEF RequestFields
<1>6. /\ UNCHANGED << store, links, count, invited, torn, renamed >>
      /\ q.step = "getPattern"
      /\ \/ Answer(r)
         \/ q.pattern \in DOMAIN store /\ request' = [request EXCEPT ![r] = x]
  BY <1>1, <1>3, <1>4 DEF GetPattern
<1>7. store' = store /\ count' = count /\ renamed' = renamed /\ NoNewPattern
  BY <1>6 DEF NoNewPattern
<1>8. CASE Answer(r)
  BY <1>2, <1>7, <1>8, AnswerSavesNot, NothingNewKeepsInv
<1>9. CASE q.pattern \in DOMAIN store /\ request' = [request EXCEPT ![r] = x]
  <2>1. PICK n : NamesFrom(n)
    BY DEF CopyInv
  <2>2. \A s \in Requests : request'[s] = IF s = r THEN x ELSE request[s]
    BY <1>2, <1>9
  <2>3. q.pattern \notin renamed => name = n[q.pattern]
    BY <1>3, <1>9, <2>1 DEF NamesFrom
  <2>4. \A s \in Requests : Saving(request'[s]) /\ request'[s].pattern \notin renamed =>
          request'[s].name = n[request'[s].pattern]
    BY <1>5, <2>1, <2>2, <2>3 DEF NamesFrom
  <2>5. NamesFrom(n)'
    BY <1>7, <2>1, <2>4 DEF NamesFrom, IsReceived
  <2>6. Saving(x) => Saving(q) /\ q.step # "listShared"
    BY <1>5, <1>6 DEF Saving, CopySteps
  <2>7. CopyRoom'
    BY <1>1, <1>5, <1>7, <2>2, <2>6, NothingNewKeepsRoom DEF CopyInv
  <2> QED
    BY <2>5, <2>7 DEF CopyInv
<1> QED
  BY <1>6, <1>8, <1>9

\* A new pattern, under a new id, has its name; a copy, that of its original.
LEMMA NewNameKeepsNames ==
  ASSUME SharingInv, NEW n, NamesFrom(n), NEW x, NEW p, p = count.patterns + 1,
         count'.patterns = p, store' = With(store, p, x), renamed' = renamed, NoNewSaving,
         x.from # Nobody =>
           /\ x.of \in 1 .. count.patterns
           /\ x.of \notin renamed => x.name = n[x.of]
  PROVE  \E m : NamesFrom(m)'
<1>1. /\ CountTyped /\ DOMAIN store \subseteq 1 .. count.patterns
      /\ \A s \in Requests : Promise(SentBy[s], request[s])
  BY DEF SharingInv, StoreTyped, RequestsHonest
<1>2. /\ count.patterns \in Nat /\ p \in Nat /\ p \notin 1 .. count.patterns
      /\ 1 .. count.patterns \subseteq 1 .. p
  BY <1>1 DEF CountTyped
<1>3. PICK m : m = [n EXCEPT ![p] = x.name]
  OBVIOUS
<1>4. DOMAIN m = Nat /\ m[p] = x.name /\ \A i \in 1 .. count.patterns : m[i] = n[i]
  BY <1>2, <1>3 DEF NamesFrom
<1>5. /\ DOMAIN store' = DOMAIN store \cup {p} /\ p \notin DOMAIN store /\ store'[p] = x
      /\ \A c \in DOMAIN store : store'[c] = store[c]
  BY <1>1, <1>2 DEF With
<1>6. \A c \in DOMAIN store :
        /\ c \notin renamed => store[c].name = m[c]
        /\ store[c].from # Nobody =>
             /\ store[c].of \in 1 .. p
             /\ store[c].of \notin renamed => store[c].name = m[store[c].of]
  BY <1>1, <1>2, <1>4 DEF NamesFrom, IsReceived
<1>7. /\ x.name = m[p]
      /\ x.from # Nobody => x.of \in 1 .. p /\ (x.of \notin renamed => x.name = m[x.of])
  BY <1>2, <1>4
<1>8. ASSUME NEW s \in Requests, Saving(request'[s]), request'[s].pattern \notin renamed
      PROVE  request'[s].name = m[request'[s].pattern]
  <2>1. /\ Saving(request[s]) /\ request'[s].pattern = request[s].pattern
        /\ request'[s].name = request[s].name
    BY <1>8 DEF NoNewSaving
  <2>2. request[s].pattern \in 1 .. count.patterns
    BY <1>1, <2>1 DEF Promise, Saving, Written
  <2> QED
    BY <1>4, <1>8, <2>1, <2>2 DEF NamesFrom
<1>9. ASSUME NEW c \in DOMAIN store'
      PROVE  /\ c \notin renamed => store'[c].name = m[c]
             /\ store'[c].from # Nobody =>
                  /\ store'[c].of \in 1 .. p
                  /\ store'[c].of \notin renamed => store'[c].name = m[store'[c].of]
  <2>1. CASE c = p
    BY <1>5, <1>7, <2>1
  <2>2. CASE c \in DOMAIN store
    BY <1>5, <1>6, <2>2
  <2> QED
    BY <1>5, <2>1, <2>2
<1>10. NamesFrom(m)'
  BY <1>4, <1>8, <1>9 DEF NamesFrom, IsReceived
<1> QED
  BY <1>10

\* An owner's new pattern is no copy.
LEMMA CreatePatternKeepsNames ==
  ASSUME SharingInv, CopyInv, NEW u \in Owners, NEW name \in Names, NEW form \in Forms,
         CreatePattern(u, name, form)
  PROVE  CopyInv'
<1>1. CountTyped /\ DOMAIN store \subseteq 1 .. count.patterns
  BY DEF SharingInv, StoreTyped
<1>2. PICK x : x = NewPattern(u, Nobody, name, StitchesOf(form), form, 0)
  OBVIOUS
<1>3. x.from = Nobody
  BY <1>2 DEF NewPattern
<1>4. /\ store' = With(store, count.patterns + 1, x) /\ request' = request
      /\ count'.patterns = count.patterns + 1 /\ renamed' = renamed
  BY <1>1, <1>2 DEF CreatePattern, Counted, CountTyped
<1>5. NoNewSaving
  BY <1>4 DEF NoNewSaving
<1>6. \E n : NamesFrom(n)'
  BY <1>3, <1>4, <1>5, NewNameKeepsNames DEF CopyInv
<1>7. ASSUME NEW p, p \notin renamed, NEW v, NEW from
      PROVE  Cardinality(CopiesOf(p, v, from)') + Cardinality(AboutToSave(p, v, from)')
               <= Cardinality(SlotsOf(v))
  <2>1. CopiesOf(p, v, from)' \subseteq CopiesOf(p, v, from)
    BY <1>3, <1>4 DEF CopiesOf, IsReceived, With
  <2>2. AboutToSave(p, v, from)' \subseteq AboutToSave(p, v, from)
    BY <1>4 DEF AboutToSave
  <2> QED
    BY <1>7, <2>1, <2>2, FewerCopiesKeepRoom DEF CopyInv
<1>8. CopyRoom'
  BY <1>4, <1>7 DEF CopyRoom, SlotsOf
<1> QED
  BY <1>6, <1>8 DEF CopyInv

\* The copy that a request makes takes its place.
LEMMA CreateCopyKeepsNames ==
  ASSUME SharingInv, CopyInv, NEW r \in Requests, CreateCopy(r)
  PROVE  CopyInv'
<1>1. PICK u, q : u = SentBy[r] /\ q = request[r]
  OBVIOUS
<1>2. PICK x, top : x = CopyBy(u, q) /\ top = LastRow(q)
  OBVIOUS
<1>3. PICK y : y = IF q.from = Nobody \/ q.groups = << >> THEN Idle ELSE GoingOn(q, x)
  OBVIOUS
<1>4. /\ q.step = "create" /\ renamed' = renamed
      /\ \/ Answer(r) /\ UNCHANGED << store, count >>
         \/ /\ store' = With(store, count.patterns + 1, x)
            /\ count' = [count EXCEPT !.patterns = count.patterns + 1, !.rows = top]
            /\ request' = [request EXCEPT ![r] = y]
      /\ x.user = u /\ x.from = q.from /\ x.of = q.pattern /\ x.name = CopyName(q)
  <2>1. CopyMade(r, u, q, x, top)
    BY <1>1, <1>2, CopyCreated
  <2> QED
    BY <1>3, <2>1 DEF CopyMade
<1>5. /\ CountTyped /\ DOMAIN request = Requests /\ Promise(u, q) /\ DOMAIN q = RequestFields
      /\ DOMAIN store \subseteq 1 .. count.patterns
  BY <1>1, PromiseOf DEF Promise, SharingInv, StoreTyped
<1>6. CASE Answer(r) /\ UNCHANGED << store, count >>
  <2>1. NoNewPattern /\ NoNewSaving
    BY <1>4, <1>5, <1>6, AnswerSavesNot DEF NoNewPattern
  <2> QED
    BY <2>1, NothingNewKeepsInv
<1>7. CASE /\ store' = With(store, count.patterns + 1, x)
           /\ count' = [count EXCEPT !.patterns = count.patterns + 1, !.rows = top]
           /\ request' = [request EXCEPT ![r] = y]
  <2>1. ~ Saving(y)
    BY <1>3, <1>5 DEF Saving, CopySteps, GoingOn, RequestFields, Idle
  <2>2. NoNewSaving /\ \A s \in Requests : request'[s] = IF s = r THEN y ELSE request[s]
    BY <1>5, <1>7, <2>1, OneRequestSavesNot
  <2>3. count'.patterns = count.patterns + 1
    BY <1>5, <1>7 DEF CountTyped
  <2>4. x.from # Nobody => Saving(q) /\ x.name = q.name /\ x.of \in 1 .. count.patterns
    BY <1>4, <1>5 DEF Saving, CopySteps, CopyName, Promise, Written
  <2>5. \E n : NamesFrom(n)'
    <3>1. PICK n : NamesFrom(n)
      BY DEF CopyInv
    <3>2. x.from # Nobody /\ x.of \notin renamed => x.name = n[x.of]
      BY <1>1, <1>4, <2>4, <3>1 DEF NamesFrom
    <3> QED
      BY <1>4, <1>7, <2>2, <2>3, <2>4, <3>1, <3>2, NewNameKeepsNames
  <2>6. /\ DOMAIN store' = DOMAIN store \cup {count.patterns + 1}
        /\ store'[count.patterns + 1] = x
        /\ \A c \in DOMAIN store : store'[c] = store[c]
    <3>1. count.patterns + 1 \notin DOMAIN store
      BY <1>5 DEF CountTyped
    <3> QED
      BY <1>7, <3>1 DEF With
  <2>7. ASSUME NEW p, p \notin renamed, NEW v, NEW from
        PROVE  Cardinality(CopiesOf(p, v, from)') + Cardinality(AboutToSave(p, v, from)')
                 <= Cardinality(SlotsOf(v))
    <3>1. CASE x.from # Nobody /\ p = q.pattern /\ v = u /\ from = q.from
      <4>1. CopiesOf(p, v, from)' \subseteq CopiesOf(p, v, from) \cup {count.patterns + 1}
        BY <2>6 DEF CopiesOf, IsReceived
      <4>2. /\ r \in AboutToSave(p, v, from)
            /\ AboutToSave(p, v, from)' \subseteq AboutToSave(p, v, from) \ {r}
        BY <1>1, <1>4, <2>1, <2>2, <2>4, <3>1 DEF AboutToSave, SlotsOf
      <4>3. PICK A, B, C, D : /\ A = CopiesOf(p, v, from) /\ B = AboutToSave(p, v, from)
                              /\ C = CopiesOf(p, v, from)' /\ D = AboutToSave(p, v, from)'
        OBVIOUS
      <4>4. /\ IsFiniteSet(A) /\ IsFiniteSet(B)
            /\ Cardinality(A) + Cardinality(B) <= Cardinality(SlotsOf(v))
        BY <2>7, <4>3, CopiesFinite DEF CopyInv, CopyRoom
      <4>5. Cardinality(C) + Cardinality(D) <= Cardinality(SlotsOf(v))
        BY <4>1, <4>2, <4>3, <4>4, OneMade, SlotsFinite
      <4> QED
        BY <4>3, <4>5
    <3>2. CASE ~ (x.from # Nobody /\ p = q.pattern /\ v = u /\ from = q.from)
      <4>1. CopiesOf(p, v, from)' \subseteq CopiesOf(p, v, from)
        BY <1>4, <2>6, <3>2 DEF CopiesOf, IsReceived
      <4>2. AboutToSave(p, v, from)' \subseteq AboutToSave(p, v, from)
        BY <2>1, <2>2 DEF AboutToSave, SlotsOf
      <4> QED
        BY <2>7, <4>1, <4>2, FewerCopiesKeepRoom DEF CopyInv
    <3> QED
      BY <3>1, <3>2
  <2>8. CopyRoom'
    BY <1>4, <2>7 DEF CopyRoom, SlotsOf
  <2> QED
    BY <2>5, <2>8 DEF CopyInv
<1> QED
  BY <1>4, <1>6, <1>7

\* Every step keeps the invariant.
LEMMA CopyInvNext ==
  ASSUME SharingInv, CopyInv, [Next]_vars
  PROVE  CopyInv'
<1>1. CASE UNCHANGED vars
  <2>1. store' = store /\ request' = request /\ count' = count /\ renamed' = renamed
    BY <1>1 DEF vars
  <2>2. NoNewPattern /\ NoNewSaving
    BY <2>1 DEF NoNewPattern, NoNewSaving
  <2> QED
    BY <2>2, NothingNewKeepsInv
<1>2. CASE /\ Next
           /\ \A r \in Requests : /\ ~ GetShared(r) /\ ~ ListShared(r)
                                  /\ ~ GetPattern(r) /\ ~ CreateCopy(r)
           /\ \A u \in Owners, name \in Names, form \in Forms : ~ CreatePattern(u, name, form)
  BY <1>2, OtherStepsSaveNothing, NothingNewKeepsInv
<1>3. CASE \E r \in Requests : GetShared(r) \/ ListShared(r) \/ GetPattern(r) \/ CreateCopy(r)
  BY <1>3, GetSharedKeepsNames, ListSharedFindsCopy, GetPatternKeepsNames,
     CreateCopyKeepsNames
<1>4. CASE \E u \in Owners, name \in Names, form \in Forms : CreatePattern(u, name, form)
  BY <1>4, CreatePatternKeepsNames
<1> QED
  BY <1>1, <1>2, <1>3, <1>4

\* Second copies of a pattern come only from requests of the user that were in
\* progress at once, unless the pattern was renamed.
THEOREM CopiesAreNotRepeated == Spec => []SavedOnce
<1>1. Init => CopyInv
  <2> SUFFICES ASSUME Init PROVE CopyInv
    OBVIOUS
  <2>1. PICK n : n = [i \in Nat |-> NoName]
    OBVIOUS
  <2>2. DOMAIN store = {} /\ \A r \in Requests : request[r].step = "idle"
    BY DEF Init, Idle
  <2>3. NamesFrom(n)
    BY <2>1, <2>2 DEF NamesFrom, Saving, CopySteps
  <2>4. ASSUME NEW p, NEW u, NEW from
        PROVE  Cardinality(CopiesOf(p, u, from)) + Cardinality(AboutToSave(p, u, from))
                 <= Cardinality(SlotsOf(u))
    <3>1. CopiesOf(p, u, from) = {} /\ AboutToSave(p, u, from) = {}
      BY <2>2 DEF CopiesOf, AboutToSave, SlotsOf, Saving, CopySteps
    <3> QED
      BY <3>1, FS_EmptySet, SlotsFinite
  <2> QED
    BY <2>3, <2>4 DEF CopyInv, CopyRoom
<1>2. SharingInv /\ CopyInv /\ [Next]_vars => CopyInv'
  BY CopyInvNext
<1>3. SharingInv /\ CopyInv => SavedOnce
  <2> SUFFICES ASSUME SharingInv, CopyInv,
                      NEW c \in DOMAIN store, store[c].of \notin renamed
               PROVE  Cardinality(CopiesOf(store[c].of, store[c].user, store[c].from))
                        <= Cardinality(SlotsOf(store[c].user))
    BY DEF SavedOnce
  <2>1. PICK p, u, from : p = store[c].of /\ u = store[c].user /\ from = store[c].from
    OBVIOUS
  <2>2. Cardinality(CopiesOf(p, u, from)) + Cardinality(AboutToSave(p, u, from))
          <= Cardinality(SlotsOf(u))
    BY <2>1 DEF CopyInv, CopyRoom
  <2>3. /\ Cardinality(CopiesOf(p, u, from)) \in Nat
        /\ Cardinality(AboutToSave(p, u, from)) \in Nat
        /\ Cardinality(SlotsOf(u)) \in Nat
    BY CopiesFinite, SlotsFinite, FS_CardinalityType
  <2>4. Cardinality(CopiesOf(p, u, from)) <= Cardinality(SlotsOf(u))
    BY <2>2, <2>3
  <2> QED
    BY <2>1, <2>4
<1> QED
  BY <1>1, <1>2, <1>3, SharingInvHolds, PTL DEF Spec

-----------------------------------------------------------------------------
(***************************************************************************)
(* The rows of patterns are apart: what a reader of one sees is changed by *)
(* no step that changes another.                                           *)
(***************************************************************************)

\* No stitch belongs to two patterns, no group has the id of another one, and
\* every entry refers to a stitch.
Apart(s) ==
  /\ \A p, q \in DOMAIN s : \A i : i \in DOMAIN s[p].stitches /\ i \in DOMAIN s[q].stitches => p = q
  /\ \A p, q \in DOMAIN s : \A g \in DOMAIN s[p].groups, h \in DOMAIN s[q].groups :
       s[p].groups[g].id = s[q].groups[h].id => p = q /\ g = h
  /\ \A p \in DOMAIN s : EntryIds(s[p].groups) \subseteq StitchIds(s)

\* Pattern y has the rows of x.
SameRows(x, y) ==
  /\ y.stitches = x.stitches /\ DOMAIN y.groups = DOMAIN x.groups
  /\ \A g \in DOMAIN x.groups : /\ y.groups[g].id = x.groups[g].id
                                /\ y.groups[g].entries = x.groups[g].entries

\* In store t, the rows of all patterns but p are those of s; and nothing in s
\* holds those of p.
OthersKept(s, t, p) ==
  /\ DOMAIN t \ {p} = DOMAIN s \ {p}
  /\ \A q \in DOMAIN s \ {p} : SameRows(s[q], t[q])
  /\ p \in DOMAIN s => ~ HeldByOthers(s, p)

\* No row of a stored pattern has an id above last.
RowsUpTo(s, last) ==
  \A q \in DOMAIN s : /\ DOMAIN s[q].stitches \subseteq 1 .. last
                      /\ \A g \in DOMAIN s[q].groups : s[q].groups[g].id \in 1 .. last

\* All rows of pattern x were issued after the given one.
FreshRows(x, last) ==
  /\ \A i \in DOMAIN x.stitches : i \notin 1 .. last
  /\ \A g \in DOMAIN x.groups :
       /\ x.groups[g].id \notin 1 .. last
       /\ \A h \in DOMAIN x.groups : x.groups[g].id = x.groups[h].id => g = h

\* The entries of pattern x, which becomes p, refer to its own stitches, or to
\* others of store s when there was no p.
EntriesHome(s, x, p) ==
  \/ EntryIds(x.groups) \subseteq DOMAIN x.stitches
  \/ p \notin DOMAIN s /\ EntryIds(x.groups) \subseteq StitchIds(s) \cup DOMAIN x.stitches

\* Patterns with the same rows have the same entries.
LEMMA SameEntries ==
  ASSUME NEW x, NEW y, SameRows(x, y)
  PROVE  EntryIds(y.groups) = EntryIds(x.groups)
<1>1. ASSUME NEW i
      PROVE  i \in EntryIds(y.groups) <=> i \in EntryIds(x.groups)
  <2>1. i \in EntryIds(x.groups) <=>
          \E g \in DOMAIN x.groups : \E e \in DOMAIN x.groups[g].entries :
            i = x.groups[g].entries[e]
    BY DEF EntryIds
  <2>2. i \in EntryIds(y.groups) <=>
          \E g \in DOMAIN y.groups : \E e \in DOMAIN y.groups[g].entries :
            i = y.groups[g].entries[e]
    BY DEF EntryIds
  <2> QED
    BY <2>1, <2>2 DEF SameRows
<1> QED
  BY <1>1

\* Every entry of another pattern than p has its stitch in both stores.
LEMMA StitchStays ==
  ASSUME NEW s, NEW t, NEW p, Apart(s), OthersKept(s, t, p),
         NEW c \in DOMAIN s \ {p}, NEW i \in EntryIds(s[c].groups)
  PROVE  \E h \in DOMAIN s : /\ h \in DOMAIN t /\ h # p
                             /\ i \in DOMAIN s[h].stitches /\ t[h].stitches = s[h].stitches
<1>1. i \in StitchIds(s)
  BY DEF Apart
<1>2. PICK h \in DOMAIN s : i \in DOMAIN s[h].stitches
  BY <1>1 DEF StitchIds
<1>3. h # p
  <2>1. SUFFICES ASSUME h = p PROVE FALSE
    OBVIOUS
  <2>2. i \in EntryIds(s[c].groups) \cap DOMAIN s[p].stitches
    BY <1>2, <2>1
  <2> QED
    BY <2>1, <2>2 DEF OthersKept, HeldByOthers
<1>4. h \in DOMAIN t /\ t[h].stitches = s[h].stitches
  BY <1>3 DEF OthersKept, SameRows
<1> QED
  BY <1>2, <1>3, <1>4

\* Rows stay apart when one pattern comes, goes, or gets new rows.
LEMMA ApartStays ==
  ASSUME NEW s, NEW t, NEW p, NEW last,
         RowsUpTo(s, last), Apart(s), OthersKept(s, t, p),
         p \in DOMAIN t => FreshRows(t[p], last) /\ EntriesHome(s, t[p], p)
  PROVE  Apart(t)
<1>1. \A q \in DOMAIN t : q # p => q \in DOMAIN s /\ SameRows(s[q], t[q])
  BY DEF OthersKept
<1>2. ASSUME NEW q \in DOMAIN t, NEW o \in DOMAIN t, NEW i,
             i \in DOMAIN t[q].stitches, i \in DOMAIN t[o].stitches
      PROVE  q = o
  <2>1. CASE q # p /\ o # p
    BY <1>1, <1>2, <2>1 DEF Apart, SameRows
  <2>2. CASE q = p /\ o # p
    <3>1. i \in 1 .. last
      BY <1>1, <1>2, <2>2 DEF SameRows, RowsUpTo
    <3> QED
      BY <1>2, <2>2, <3>1 DEF FreshRows
  <2>3. CASE q # p /\ o = p
    <3>1. i \in 1 .. last
      BY <1>1, <1>2, <2>3 DEF SameRows, RowsUpTo
    <3> QED
      BY <1>2, <2>3, <3>1 DEF FreshRows
  <2> QED
    BY <2>1, <2>2, <2>3
<1>3. ASSUME NEW q \in DOMAIN t, NEW o \in DOMAIN t,
             NEW g \in DOMAIN t[q].groups, NEW h \in DOMAIN t[o].groups,
             t[q].groups[g].id = t[o].groups[h].id
      PROVE  q = o /\ g = h
  <2>1. ASSUME NEW x \in DOMAIN t, x # p, NEW k \in DOMAIN t[x].groups
        PROVE  /\ k \in DOMAIN s[x].groups /\ t[x].groups[k].id = s[x].groups[k].id
               /\ t[x].groups[k].id \in 1 .. last
    BY <1>1, <2>1 DEF SameRows, RowsUpTo
  <2>2. CASE q # p /\ o # p
    BY <1>1, <1>3, <2>1, <2>2 DEF Apart
  <2>3. CASE q = p /\ o # p
    BY <1>3, <2>1, <2>3 DEF FreshRows
  <2>4. CASE q # p /\ o = p
    <3>1. t[q].groups[g].id \in 1 .. last
      BY <2>1, <2>4
    <3> QED
      BY <1>3, <2>4, <3>1 DEF FreshRows
  <2>5. CASE q = p /\ o = p
    BY <1>3, <2>5 DEF FreshRows
  <2> QED
    BY <2>2, <2>3, <2>4, <2>5
<1>4. ASSUME NEW q \in DOMAIN t, NEW i \in EntryIds(t[q].groups)
      PROVE  i \in StitchIds(t)
  <2>1. CASE q # p
    <3>1. q \in DOMAIN s \ {p} /\ i \in EntryIds(s[q].groups)
      BY <1>1, <1>4, <2>1, SameEntries
    <3>2. PICK h \in DOMAIN s : h \in DOMAIN t /\ i \in DOMAIN t[h].stitches
      BY <3>1, StitchStays
    <3> QED
      BY <3>2 DEF StitchIds
  <2>2. CASE q = p /\ i \in DOMAIN t[p].stitches
    BY <2>2 DEF StitchIds
  <2>3. CASE q = p /\ i \notin DOMAIN t[p].stitches
    <3>1. p \notin DOMAIN s /\ i \in StitchIds(s)
      BY <1>4, <2>3 DEF EntriesHome
    <3>2. PICK h \in DOMAIN s : i \in DOMAIN s[h].stitches
      BY <3>1 DEF StitchIds
    <3>3. h \in DOMAIN t /\ t[h].stitches = s[h].stitches
      BY <3>1 DEF OthersKept, SameRows
    <3> QED
      BY <3>2, <3>3 DEF StitchIds
  <2> QED
    BY <2>1, <2>2, <2>3
<1> QED
  BY <1>2, <1>3, <1>4 DEF Apart

\* The stitch of a row is found in the pattern that has it.
StitchOf(s, i) == s[CHOOSE q \in DOMAIN s : i \in DOMAIN s[q].stitches].stitches[i]

\* When rows are apart, a row has one stitch, wherever it is looked for.
LEMMA StitchFound ==
  ASSUME NEW s, Apart(s), NEW h \in DOMAIN s, NEW i \in DOMAIN s[h].stitches
  PROVE  StitchOf(s, i) = s[h].stitches[i]
<1>1. (CHOOSE q \in DOMAIN s : i \in DOMAIN s[q].stitches) = h
  BY DEF Apart
<1> QED
  BY <1>1 DEF StitchOf

\* What readers see, by the stitches that v gives to rows.
ShownWith(v, groups) ==
  [g \in DOMAIN groups |->
     [e \in DOMAIN groups[g].entries |-> v[groups[g].entries[e]]]]

\* What a stored pattern shows is given by its own stitches.
LEMMA ShownIs ==
  ASSUME NEW s, NEW c, NEW v, \A i \in EntryIds(s[c].groups) : v[i] = StitchOf(s, i)
  PROVE  Shown(s, c) = ShownWith(v, s[c].groups)
<1> DEFINE groups == s[c].groups
           a(g) == [e \in DOMAIN groups[g].entries |-> StitchOf(s, groups[g].entries[e])]
           b(g) == [e \in DOMAIN groups[g].entries |-> v[groups[g].entries[e]]]
<1>1. Shown(s, c) = [g \in DOMAIN groups |-> a(g)]
  BY DEF Shown, StitchOf
<1>2. ShownWith(v, groups) = [g \in DOMAIN groups |-> b(g)]
  BY DEF ShownWith
<1>3. ASSUME NEW g \in DOMAIN groups
      PROVE  a(g) = b(g)
  <2>1. \A e \in DOMAIN groups[g].entries : groups[g].entries[e] \in EntryIds(groups)
    BY DEF EntryIds
  <2> QED
    BY <2>1
<1> HIDE DEF a, b
<1> QED
  BY <1>1, <1>2, <1>3

\* Other patterns look as before.
LEMMA ShownStays ==
  ASSUME NEW s, NEW t, NEW p, Apart(s), Apart(t), OthersKept(s, t, p), NEW c \in DOMAIN s \ {p}
  PROVE  Shown(t, c) = Shown(s, c)
<1> DEFINE ids == EntryIds(s[c].groups)
           v   == [i \in ids |-> StitchOf(s, i)]
<1>1. c \in DOMAIN t /\ SameRows(s[c], t[c])
  BY DEF OthersKept
<1>2. EntryIds(t[c].groups) = ids
  BY <1>1, SameEntries
<1>3. ASSUME NEW i \in ids
      PROVE  v[i] = StitchOf(s, i) /\ v[i] = StitchOf(t, i)
  <2>1. PICK h \in DOMAIN s : /\ h \in DOMAIN t
                              /\ i \in DOMAIN s[h].stitches /\ t[h].stitches = s[h].stitches
    BY StitchStays
  <2>2. StitchOf(s, i) = s[h].stitches[i] /\ StitchOf(t, i) = t[h].stitches[i]
    BY <2>1, StitchFound
  <2> QED
    BY <2>1, <2>2
<1> HIDE DEF v
<1>4. Shown(s, c) = ShownWith(v, s[c].groups) /\ Shown(t, c) = ShownWith(v, t[c].groups)
  BY <1>2, <1>3, ShownIs
<1>5. ShownWith(v, t[c].groups) = ShownWith(v, s[c].groups)
  <2> DEFINE old == s[c].groups
             new == t[c].groups
             a(g) == [e \in DOMAIN old[g].entries |-> v[old[g].entries[e]]]
             b(g) == [e \in DOMAIN new[g].entries |-> v[new[g].entries[e]]]
  <2>1. ShownWith(v, old) = [g \in DOMAIN old |-> a(g)]
    BY DEF ShownWith
  <2>2. ShownWith(v, new) = [g \in DOMAIN new |-> b(g)]
    BY DEF ShownWith
  <2>3. DOMAIN new = DOMAIN old /\ \A g \in DOMAIN old : a(g) = b(g)
    BY <1>1 DEF SameRows
  <2> HIDE DEF a, b
  <2> QED
    BY <2>1, <2>2, <2>3
<1> QED
  BY <1>4, <1>5

\* Pattern x has the rows that are inserted for stitches and entries.
RowsFor(x, stitches, entries, last) ==
  LET ids == NewIds(DOMAIN stitches, last)
  IN  /\ x.stitches = InsertedStitches(stitches, last)
      /\ DOMAIN x.groups = DOMAIN entries
      /\ \A g \in DOMAIN entries :
           /\ x.groups[g].id = last + Cardinality(DOMAIN stitches) + g
           /\ x.groups[g].entries = Remapped(entries[g], ids)

\* The stitches that v gives to entries.
Spelled(v, entries) ==
  [g \in DOMAIN entries |-> [e \in DOMAIN entries[g] |-> v[entries[g][e]]]]

\* A pattern with stitches for all its entries is one that an owner submitted.
OwnRows(stitches, groups) ==
  /\ EntryIds(groups) \subseteq DOMAIN stitches
  /\ ShownWith(stitches, groups) \in Forms

\* Inserted rows are new.
LEMMA InsertedFresh ==
  ASSUME NEW last \in Nat, NEW stitches, IsFiniteSet(DOMAIN stitches),
         NEW T, NEW entries \in Seq(T), NEW x, RowsFor(x, stitches, entries, last)
  PROVE  FreshRows(x, last)
<1>1. DOMAIN x.stitches \subseteq last + 1 .. last + Cardinality(DOMAIN stitches)
  BY InsertedStitchesType DEF RowsFor
<1>2. PICK n : n = Cardinality(DOMAIN stitches)
  OBVIOUS
<1>3. n \in Nat
  BY <1>2, FS_CardinalityType
<1>4. /\ DOMAIN x.groups = 1 .. Len(entries) /\ Len(entries) \in Nat
      /\ \A g \in DOMAIN x.groups : x.groups[g].id = last + n + g
  BY <1>2 DEF RowsFor
<1>5. \A i \in DOMAIN x.stitches : i \notin 1 .. last
  BY <1>1
<1>6. ASSUME NEW g \in DOMAIN x.groups
      PROVE  /\ x.groups[g].id \notin 1 .. last
             /\ \A h \in DOMAIN x.groups : x.groups[g].id = x.groups[h].id => g = h
  BY <1>3, <1>4
<1> QED
  BY <1>5, <1>6 DEF FreshRows

\* Inserted entries have the stitches that they had before.
LEMMA InsertedShown ==
  ASSUME NEW last \in Nat, NEW stitches, IsFiniteSet(DOMAIN stitches), NEW entries,
         \A g \in DOMAIN entries : \A e \in DOMAIN entries[g] : entries[g][e] \in DOMAIN stitches,
         NEW x, RowsFor(x, stitches, entries, last)
  PROVE  /\ EntryIds(x.groups) \subseteq DOMAIN x.stitches
         /\ ShownWith(x.stitches, x.groups) = Spelled(stitches, entries)
<1> DEFINE ids == NewIds(DOMAIN stitches, last)
           groups == x.groups
           new == x.stitches
<1>1. /\ DOMAIN ids = DOMAIN stitches
      /\ \A k \in DOMAIN stitches : ids[k] \in DOMAIN new /\ new[ids[k]] = stitches[k]
  <2>1. DOMAIN ids = DOMAIN stitches
    BY NewIdsType
  <2> DEFINE ss == InsertedStitches(stitches, last)
  <2>2. new = ss
    BY DEF RowsFor
  <2>3. DOMAIN ss = {ids[k] : k \in DOMAIN stitches}
    BY InsertedStitchesType
  <2>4. \A k \in DOMAIN stitches : ss[ids[k]] = stitches[k]
    BY InsertedStitchesType
  <2> HIDE DEF ids, new, ss
  <2> QED
    BY <2>1, <2>2, <2>3, <2>4
<1>2. /\ DOMAIN groups = DOMAIN entries
      /\ \A g \in DOMAIN entries : groups[g].entries = Remapped(entries[g], ids)
  BY DEF RowsFor
<1> HIDE DEF ids, groups, new
<1>3. ASSUME NEW g \in DOMAIN entries
      PROVE  /\ DOMAIN groups[g].entries = DOMAIN entries[g]
             /\ \A e \in DOMAIN entries[g] :
                  /\ groups[g].entries[e] \in DOMAIN new
                  /\ new[groups[g].entries[e]] = stitches[entries[g][e]]
  <2>1. groups[g].entries = [e \in DOMAIN entries[g] |->
           IF entries[g][e] \in DOMAIN ids THEN ids[entries[g][e]] ELSE entries[g][e]]
    BY <1>2 DEF Remapped
  <2> QED
    BY <1>1, <2>1
<1>4. EntryIds(groups) \subseteq DOMAIN new
  BY <1>2, <1>3 DEF EntryIds
<1> DEFINE a(g) == [e \in DOMAIN groups[g].entries |-> new[groups[g].entries[e]]]
           b(g) == [e \in DOMAIN entries[g] |-> stitches[entries[g][e]]]
<1>5. ShownWith(new, groups) = [g \in DOMAIN groups |-> a(g)]
  BY DEF ShownWith
<1>6. Spelled(stitches, entries) = [g \in DOMAIN entries |-> b(g)]
  BY DEF Spelled
<1>7. \A g \in DOMAIN entries : a(g) = b(g)
  BY <1>3
<1> HIDE DEF a, b
<1>8. ShownWith(new, groups) = Spelled(stitches, entries)
  BY <1>2, <1>5, <1>6, <1>7
<1> QED
  BY <1>4, <1>8 DEF new, groups

\* A form has stitches for all its entries, and reads as it was submitted.
LEMMA FormSpelled ==
  ASSUME NEW form \in Forms
  PROVE  /\ \A g \in DOMAIN form : \A e \in DOMAIN form[g] : form[g][e] \in DOMAIN StitchesOf(form)
         /\ Spelled(StitchesOf(form), form) = form
<1> DEFINE U == DOMAIN StitchesOf(form)
<1>1. form \in Seq(Seq(U)) /\ \A s \in U : StitchesOf(form)[s] = s
  BY StitchesOfFinite
<1> HIDE DEF U
<1>2. ASSUME NEW g \in DOMAIN form
      PROVE  form[g] \in Seq(U)
  BY <1>1
<1>3. ASSUME NEW g \in DOMAIN form
      PROVE  /\ \A e \in DOMAIN form[g] : form[g][e] \in U
             /\ form[g] = [e \in DOMAIN form[g] |-> StitchesOf(form)[form[g][e]]]
  <2>1. PICK s : s = form[g]
    OBVIOUS
  <2>2. s \in Seq(U)
    BY <1>2, <2>1
  <2>3. \A e \in DOMAIN s : s[e] \in U
    BY <2>2
  <2>4. s = [e \in DOMAIN s |-> s[e]]
    BY <2>2
  <2> QED
    BY <1>1, <2>1, <2>3, <2>4
<1> DEFINE b(g) == [e \in DOMAIN form[g] |-> StitchesOf(form)[form[g][e]]]
<1>4. form = [g \in DOMAIN form |-> form[g]]
  BY <1>1
<1>5. \A g \in DOMAIN form : form[g] = b(g)
  BY <1>3
<1>6. Spelled(StitchesOf(form), form) = [g \in DOMAIN form |-> b(g)]
  BY DEF Spelled
<1> HIDE DEF b
<1>7. Spelled(StitchesOf(form), form) = form
  BY <1>4, <1>5, <1>6
<1> QED
  BY <1>3, <1>7 DEF U

\* Groups that have been read are spelled by their entries.
LEMMA ReadSpelled ==
  ASSUME NEW v, NEW groups
  PROVE  Spelled(v, EntriesIn(groups)) = ShownWith(v, groups)
<1> DEFINE entries == EntriesIn(groups)
           a(g) == [e \in DOMAIN groups[g].entries |-> v[groups[g].entries[e]]]
           b(g) == [e \in DOMAIN entries[g] |-> v[entries[g][e]]]
<1>1. DOMAIN entries = DOMAIN groups /\ \A g \in DOMAIN groups : entries[g] = groups[g].entries
  BY DEF EntriesIn
<1>2. Spelled(v, entries) = [g \in DOMAIN entries |-> b(g)]
  BY DEF Spelled
<1>3. ShownWith(v, groups) = [g \in DOMAIN groups |-> a(g)]
  BY DEF ShownWith
<1> HIDE DEF entries
<1>4. \A g \in DOMAIN groups : a(g) = b(g)
  BY <1>1
<1> HIDE DEF a, b
<1> QED
  BY <1>1, <1>2, <1>3, <1>4 DEF entries

\* What a step may do to the store: pattern p comes, goes, or gets new rows;
\* the others keep theirs.
PatternStep(p) ==
  /\ OthersKept(store, store', p)
  /\ \A q \in DOMAIN store \ {p} : store'[q].name = store[q].name
  /\ p \in DOMAIN store => store[p].from = Nobody
  /\ p \in DOMAIN store' => FreshRows(store'[p], count.rows) /\ EntriesHome(store, store'[p], p)

\* A pattern keeps its own rows.
LEMMA OwnSameRows ==
  ASSUME NEW x
  PROVE  SameRows(x, x)
BY DEF SameRows

\* There is no pattern 0.
LEMMA StoreRows ==
  ASSUME SharingInv
  PROVE  /\ 0 \notin DOMAIN store /\ count.patterns + 1 \notin DOMAIN store
         /\ RowsUpTo(store, count.rows) /\ count.rows \in Nat
<1>1. CountTyped /\ StoreTyped /\ DOMAIN store \subseteq 1 .. count.patterns
  BY DEF SharingInv, StoreTyped
<1>2. count.patterns \in Nat /\ count.rows \in Nat
  BY <1>1 DEF CountTyped
<1>3. 0 \notin DOMAIN store /\ count.patterns + 1 \notin DOMAIN store
  BY <1>1, <1>2
<1>4. ASSUME NEW q \in DOMAIN store
      PROVE  /\ DOMAIN store[q].stitches \subseteq 1 .. count.rows
             /\ \A g \in DOMAIN store[q].groups : store[q].groups[g].id \in 1 .. count.rows
  <2>1. PICK rows, groups : rows = 1 .. count.rows /\ groups = store[q].groups
    OBVIOUS
  <2>2. DOMAIN store[q].stitches \subseteq rows /\ groups \in Seq(GroupRows(rows))
    BY <1>1, <2>1 DEF StoreTyped, PatternTyped
  <2>3. \A g \in DOMAIN groups : groups[g] \in GroupRows(rows)
    BY <2>2
  <2> QED
    BY <2>1, <2>2, <2>3 DEF GroupRows
<1> QED
  BY <1>2, <1>3, <1>4 DEF RowsUpTo

\* A step that leaves the rows of all patterns.
LEMMA RowsSame ==
  ASSUME SharingInv, DOMAIN store' = DOMAIN store,
         \A q \in DOMAIN store : SameRows(store[q], store'[q]) /\ store'[q].name = store[q].name
  PROVE  PatternStep(0)
BY StoreRows DEF PatternStep, OthersKept

\* A pattern is added.
LEMMA AddedRows ==
  ASSUME SharingInv, NEW p, p = count.patterns + 1, NEW x, store' = With(store, p, x),
         FreshRows(x, count.rows), EntriesHome(store, x, p)
  PROVE  PatternStep(p)
<1>1. p \notin DOMAIN store
  BY StoreRows
<1>2. /\ DOMAIN store' = DOMAIN store \cup {p} /\ store'[p] = x
      /\ \A q \in DOMAIN store : store'[q] = store[q]
  BY <1>1 DEF With
<1>3. OthersKept(store, store', p)
  BY <1>1, <1>2, OwnSameRows DEF OthersKept
<1> QED
  BY <1>1, <1>2, <1>3 DEF PatternStep

\* A group more or fewer pictured.
LEMMA PicturedRows ==
  ASSUME SharingInv, NEW p, NEW g, NEW b \in BOOLEAN,
         store' = [store EXCEPT ![p].groups[g].pictured = b]
  PROVE  /\ DOMAIN store' = DOMAIN store
         /\ \A q \in DOMAIN store : /\ SameRows(store[q], store'[q])
                                    /\ store'[q].name = store[q].name
<1>1. StoreTyped /\ DOMAIN store' = DOMAIN store
  BY DEF SharingInv
<1>2. ASSUME NEW q \in DOMAIN store
      PROVE  SameRows(store[q], store'[q]) /\ store'[q].name = store[q].name
  <2>1. PICK x, top : x = store[q] /\ top = count.rows
    OBVIOUS
  <2>2. PatternTyped(x, top)
    BY <1>1, <2>1 DEF StoreTyped
  <2> DEFINE y == Pictured(x, g, b)
  <2>3. SameRows(x, y) /\ y.name = x.name
    BY <2>2, PicturedTyped DEF SameRows
  <2>4. store'[q] = IF q = p THEN y ELSE x
    BY <2>1 DEF Pictured
  <2> HIDE DEF y
  <2> QED
    BY <2>1, <2>3, <2>4, OwnSameRows
<1> QED
  BY <1>1, <1>2

\* The copy that a request creates: its entries refer to stitches of its own if
\* those that were read referred to stitches that were read.
LEMMA CopyRows ==
  ASSUME SharingInv, NEW r \in Requests, CreateCopy(r)
  PROVE  \/ store' = store /\ Answer(r)
         \/ /\ PatternStep(count.patterns + 1)
            /\ count.patterns + 1 \notin DOMAIN store
            /\ OwnRows(request[r].stitches, request[r].groups) =>
                 OwnRows(store'[count.patterns + 1].stitches, store'[count.patterns + 1].groups)
<1>1. PICK u, q, p : u = SentBy[r] /\ q = request[r] /\ p = count.patterns + 1
  OBVIOUS
<1>2. PICK x, top : x = CopyBy(u, q) /\ top = LastRow(q)
  OBVIOUS
<1>3. \/ Answer(r) /\ store' = store
      \/ Referenced(x) /\ store' = With(store, p, x)
  <2>1. CopyMade(r, u, q, x, top)
    BY <1>1, <1>2, CopyCreated
  <2> QED
    BY <1>1, <2>1 DEF CopyMade
<1>4. PICK entries, last : entries = EntriesIn(q.groups) /\ last = count.rows
  OBVIOUS
<1>5. last \in Nat /\ p \notin DOMAIN store
  BY <1>1, <1>4, StoreRows
<1>6. /\ IsFiniteSet(DOMAIN q.stitches) /\ entries \in Seq(Seq(1 .. last))
      /\ DOMAIN entries = DOMAIN q.groups
      /\ \A g \in DOMAIN entries : entries[g] = q.groups[g].entries
  <2>1. DOMAIN q.stitches \subseteq 1 .. last /\ q.groups \in Seq(ReadRows(1 .. last))
    BY <1>1, <1>4, PromiseOf DEF Promise
  <2>2. IsFiniteSet(DOMAIN q.stitches)
    BY <1>5, <2>1, RowsFinite
  <2>3. entries \in Seq(Seq(1 .. last)) /\ DOMAIN entries = DOMAIN q.groups
    BY <1>4, <2>1, EntriesOfRead
  <2>4. \A g \in DOMAIN entries : entries[g] = q.groups[g].entries
    BY <1>4 DEF EntriesIn
  <2> QED
    BY <2>2, <2>3, <2>4
<1>7. RowsFor(x, q.stitches, entries, last)
  BY <1>2, <1>4 DEF RowsFor, CopyBy, NewPattern, InsertedGroups, Group
<1>8. FreshRows(x, last)
  BY <1>5, <1>6, <1>7, InsertedFresh
<1>9. ASSUME OwnRows(q.stitches, q.groups)
      PROVE  OwnRows(x.stitches, x.groups)
  <2>1. \A g \in DOMAIN entries : \A e \in DOMAIN entries[g] : entries[g][e] \in DOMAIN q.stitches
    BY <1>6, <1>9 DEF OwnRows, EntryIds
  <2>2. /\ EntryIds(x.groups) \subseteq DOMAIN x.stitches
        /\ ShownWith(x.stitches, x.groups) = Spelled(q.stitches, entries)
    BY <1>5, <1>6, <1>7, <2>1, InsertedShown
  <2>3. Spelled(q.stitches, entries) = ShownWith(q.stitches, q.groups)
    BY <1>4, ReadSpelled
  <2> QED
    BY <1>9, <2>2, <2>3 DEF OwnRows
<1>10. CASE Referenced(x) /\ store' = With(store, p, x)
  <2>1. EntriesHome(store, x, p)
    BY <1>5, <1>10 DEF EntriesHome, Referenced
  <2>2. PatternStep(p)
    BY <1>1, <1>4, <1>8, <1>10, <2>1, AddedRows
  <2>3. store'[p] = x
    BY <1>10 DEF With
  <2> QED
    BY <1>1, <1>5, <1>9, <2>2, <2>3
<1> QED
  BY <1>3, <1>10

\* The rows of a form.
LEMMA FormRows ==
  ASSUME NEW form \in Forms, NEW last \in Nat, NEW x,
         RowsFor(x, StitchesOf(form), form, last)
  PROVE  FreshRows(x, last) /\ OwnRows(x.stitches, x.groups)
<1> DEFINE stitches == StitchesOf(form)
           U == DOMAIN StitchesOf(form)
<1>1. IsFiniteSet(DOMAIN stitches) /\ form \in Seq(Seq(U))
  BY StitchesOfFinite
<1>2. /\ \A g \in DOMAIN form : \A e \in DOMAIN form[g] : form[g][e] \in DOMAIN stitches
      /\ Spelled(stitches, form) = form
  BY FormSpelled
<1>3. RowsFor(x, stitches, form, last)
  OBVIOUS
<1> HIDE DEF stitches, U
<1>4. FreshRows(x, last)
  BY <1>1, <1>3, InsertedFresh
<1>5. /\ EntryIds(x.groups) \subseteq DOMAIN x.stitches
      /\ ShownWith(x.stitches, x.groups) = form
  BY <1>1, <1>2, <1>3, InsertedShown
<1> QED
  BY <1>4, <1>5 DEF OwnRows

\* A pattern that an owner writes.
LEMMA WrittenRows ==
  ASSUME SharingInv, NEW u \in Owners, NEW name \in Names, NEW form \in Forms,
         CreatePattern(u, name, form)
  PROVE  /\ PatternStep(count.patterns + 1)
         /\ count.patterns + 1 \notin DOMAIN store
         /\ OwnRows(store'[count.patterns + 1].stitches, store'[count.patterns + 1].groups)
<1>1. PICK x, p, last :
        /\ x = NewPattern(u, Nobody, name, StitchesOf(form), form, 0)
        /\ p = count.patterns + 1 /\ last = count.rows
  OBVIOUS
<1>2. p \notin DOMAIN store /\ last \in Nat
  BY <1>1, StoreRows
<1>3. store' = With(store, p, x) /\ store'[p] = x
  BY <1>1 DEF CreatePattern, With
<1>4. RowsFor(x, StitchesOf(form), form, last)
  BY <1>1 DEF RowsFor, NewPattern, InsertedGroups, Group
<1>5. FreshRows(x, last) /\ OwnRows(x.stitches, x.groups)
  BY <1>2, <1>4, FormRows
<1>6. EntriesHome(store, x, p)
  BY <1>5 DEF EntriesHome, OwnRows
<1> QED
  BY <1>1, <1>2, <1>3, <1>5, <1>6, AddedRows

\* A pattern that its owner saves.
LEMMA SavedRows ==
  ASSUME SharingInv, NEW p \in DOMAIN store, NEW name \in Names, NEW form \in Forms,
         SavePattern(p, name, form)
  PROVE  PatternStep(p) /\ OwnRows(store'[p].stitches, store'[p].groups)
<1>1. PICK x, y, last : /\ x = store[p] /\ y = Saved(x, name, form, last)
                        /\ last = count.rows
  OBVIOUS
<1>2. CountTyped /\ PatternTyped(x, last) /\ last \in Nat
  BY <1>1, StoreRows DEF SharingInv, StoreTyped
<1>3. store' = [store EXCEPT ![p] = y]
  BY <1>1, SaveAddsNoPattern
<1>4. /\ DOMAIN store' = DOMAIN store
      /\ \A q \in DOMAIN store : store'[q] = IF q = p THEN y ELSE store[q]
  BY <1>3
<1>5. x.from = Nobody /\ ~ HeldByOthers(store, p)
  BY <1>1 DEF SavePattern
<1>6. RowsFor(y, StitchesOf(form), form, last)
  <2>1. PICK n, top :
          /\ n = NewPattern(x.user, x.from, name, StitchesOf(form), form, x.of)
          /\ top = LastIssued(StitchesOf(form), form, count.rows)
    OBVIOUS
  <2>2. NewRows(n, top)
    <3>1. Insertable(StitchesOf(form), form) /\ x.user \in Users
          /\ x.from \in (Users \ {x.user}) \cup {Nobody}
      BY <1>2, FormInsertable DEF PatternTyped
    <3> QED
      BY <1>2, <2>1, <3>1, NewPatternType
  <2>3. n.groups \in Seq(GroupRows(1 .. top))
    BY <2>2 DEF NewRows, PatternTyped
  <2>4. RowsFor(n, StitchesOf(form), form, last)
    BY <1>1, <2>1 DEF RowsFor, NewPattern, InsertedGroups, Group
  <2>5. /\ n.stitches = InsertedStitches(StitchesOf(form), last)
        /\ n.groups = InsertedGroups(StitchesOf(form), form, last)
    BY <1>1, <2>1 DEF NewPattern
  <2>6. PICK groups : groups = WithImagesOf(n.groups, x.groups)
    OBVIOUS
  <2>7. /\ DOMAIN groups = DOMAIN n.groups
        /\ \A g \in DOMAIN n.groups : /\ groups[g].id = n.groups[g].id
                                      /\ groups[g].entries = n.groups[g].entries
    BY <2>3, <2>6, ImagesMoved
  <2>8. y = [x EXCEPT !.name = name, !.stitches = n.stitches, !.groups = groups]
    BY <1>1, <2>5, <2>6 DEF Saved
  <2>9. y.stitches = n.stitches /\ y.groups = groups
    BY <1>2, <2>8 DEF PatternTyped
  <2> QED
    BY <2>4, <2>7, <2>9 DEF RowsFor
<1>7. FreshRows(y, last) /\ OwnRows(y.stitches, y.groups)
  BY <1>2, <1>6, FormRows
<1>8. EntriesHome(store, y, p)
  BY <1>7 DEF EntriesHome, OwnRows
<1>9. OthersKept(store, store', p)
  BY <1>4, <1>5, OwnSameRows DEF OthersKept
<1> QED
  BY <1>1, <1>4, <1>5, <1>7, <1>8, <1>9 DEF PatternStep

\* A pattern that its owner deletes.
LEMMA DeletedRows ==
  ASSUME SharingInv, NEW p \in DOMAIN store, DeletePattern(p)
  PROVE  PatternStep(p) /\ p \notin DOMAIN store'
<1>1. /\ store[p].from = Nobody /\ ~ HeldByOthers(store, p)
      /\ DOMAIN store' = DOMAIN store \ {p}
      /\ \A q \in DOMAIN store' : store'[q] = store[q]
  BY DEF DeletePattern, Without
<1>2. OthersKept(store, store', p)
  BY <1>1, OwnSameRows DEF OthersKept
<1> QED
  BY <1>1, <1>2 DEF PatternStep

-----------------------------------------------------------------------------
(***************************************************************************)
(* Copies are whole: as long as no save and no deletion falls between the  *)
(* queries of a request, what it has read is what is stored.               *)
(***************************************************************************)

\* The steps at which a request reads the pattern that it copies.
ReadSteps == {"loadStitches", "loadGroups", "loadEntries"}

\* What a request has read so far.
ReadSoFar(s, q) ==
  /\ q.step \in ReadSteps => q.pattern \in DOMAIN s
  /\ q.step \in {"loadGroups", "loadEntries"} => q.stitches = s[q.pattern].stitches
  /\ q.step = "loadEntries" =>
       /\ DOMAIN q.groups = DOMAIN s[q.pattern].groups
       /\ \A g \in DOMAIN q.groups :
            /\ q.groups[g].id = s[q.pattern].groups[g].id
            /\ g <= q.read => q.groups[g].entries = s[q.pattern].groups[g].entries
  /\ q.step = "create" => OwnRows(q.stitches, q.groups)

\* All patterns, and all that requests read, are what owners submitted.
AllWhole ==
  /\ \A p \in DOMAIN store : OwnRows(store[p].stitches, store[p].groups)
  /\ \A r \in Requests : ReadSoFar(store, request[r])

\* The inductive invariant for whole and independent copies.
WholeInv == Apart(store) /\ (~ torn => AllWhole)

\* A request at no step of a copy relies on nothing.
LEMMA NothingRead ==
  ASSUME NEW s, NEW q, q.step \notin ReadSteps \cup {"create"}
  PROVE  ReadSoFar(s, q)
BY DEF ReadSoFar, ReadSteps

\* What a request has read stays what is stored.
LEMMA ReadStays ==
  ASSUME NEW s, NEW t, NEW p, OthersKept(s, t, p), NEW q, ReadSoFar(s, q),
         p \in DOMAIN s /\ q.pattern = p => q.step \notin ReadSteps
  PROVE  ReadSoFar(t, q)
<1>1. q.step \in ReadSteps => q.pattern \in DOMAIN s \ {p}
  BY DEF ReadSoFar
<1>2. q.step \in ReadSteps => q.pattern \in DOMAIN t /\ SameRows(s[q.pattern], t[q.pattern])
  BY <1>1 DEF OthersKept
<1> QED
  BY <1>1, <1>2 DEF ReadSoFar, ReadSteps, SameRows

\* Patterns with the same rows are whole together.
LEMMA WholeSameRows ==
  ASSUME NEW x, NEW y, SameRows(x, y), OwnRows(x.stitches, x.groups)
  PROVE  OwnRows(y.stitches, y.groups)
<1> DEFINE a(g) == [e \in DOMAIN x.groups[g].entries |-> x.stitches[x.groups[g].entries[e]]]
           b(g) == [e \in DOMAIN y.groups[g].entries |-> y.stitches[y.groups[g].entries[e]]]
<1>1. ShownWith(x.stitches, x.groups) = [g \in DOMAIN x.groups |-> a(g)]
  BY DEF ShownWith
<1>2. ShownWith(y.stitches, y.groups) = [g \in DOMAIN y.groups |-> b(g)]
  BY DEF ShownWith
<1>3. DOMAIN y.groups = DOMAIN x.groups /\ \A g \in DOMAIN x.groups : a(g) = b(g)
  BY DEF SameRows
<1> HIDE DEF a, b
<1>4. ShownWith(y.stitches, y.groups) = ShownWith(x.stitches, x.groups)
  BY <1>1, <1>2, <1>3
<1>5. EntryIds(y.groups) = EntryIds(x.groups) /\ y.stitches = x.stitches
  BY SameEntries DEF SameRows
<1> QED
  BY <1>4, <1>5 DEF OwnRows

\* A step that does to the store what one may do, keeps it whole, and brings no
\* request that has read anything else, keeps the invariant.
LEMMA WholeStays ==
  ASSUME SharingInv, WholeInv, NEW p, PatternStep(p),
         ~ torn' => /\ ~ torn
                    /\ p \in DOMAIN store => ~ BetweenQueries(p)
                    /\ p \in DOMAIN store' => OwnRows(store'[p].stitches, store'[p].groups)
                    /\ \A r \in Requests : \/ request'[r] = request[r]
                                           \/ ReadSoFar(store', request'[r])
  PROVE  WholeInv'
<1>1. PICK s, t, last : s = store /\ t = store' /\ last = count.rows
  OBVIOUS
<1>2. RowsUpTo(s, last) /\ Apart(s)
  BY <1>1, StoreRows DEF WholeInv
<1>3. /\ OthersKept(s, t, p)
      /\ p \in DOMAIN t => FreshRows(t[p], last) /\ EntriesHome(s, t[p], p)
  BY <1>1 DEF PatternStep
<1>4. Apart(t)
  BY <1>2, <1>3, ApartStays
<1>5. ASSUME ~ torn'
      PROVE  AllWhole'
  <2>1. AllWhole
    BY <1>5 DEF WholeInv
  <2>2. ASSUME NEW q \in DOMAIN t
        PROVE  OwnRows(t[q].stitches, t[q].groups)
    <3>1. CASE q = p
      BY <1>1, <1>5, <3>1
    <3>2. CASE q # p
      <4>1. q \in DOMAIN s /\ SameRows(s[q], t[q])
        BY <1>3, <3>2 DEF OthersKept
      <4>2. OwnRows(s[q].stitches, s[q].groups)
        BY <1>1, <2>1, <4>1 DEF AllWhole
      <4> QED
        BY <4>1, <4>2, WholeSameRows
    <3> QED
      BY <3>1, <3>2
  <2>3. ASSUME NEW r \in Requests
        PROVE  ReadSoFar(t, request'[r])
    <3>1. CASE request'[r] = request[r]
      <4>1. PICK q : q = request[r]
        OBVIOUS
      <4>2. ReadSoFar(s, q)
        BY <1>1, <2>1, <4>1 DEF AllWhole
      <4>3. p \in DOMAIN s /\ q.pattern = p => q.step \notin ReadSteps
        BY <1>1, <1>5, <4>1 DEF BetweenQueries, ReadSteps
      <4>4. ReadSoFar(t, q)
        BY <1>3, <4>2, <4>3, ReadStays
      <4> QED
        BY <3>1, <4>1, <4>4
    <3>2. CASE ReadSoFar(store', request'[r])
      BY <1>1, <3>2
    <3> QED
      BY <1>5, <3>1, <3>2
  <2>4. \A q \in DOMAIN store' : OwnRows(store'[q].stitches, store'[q].groups)
    BY <1>1, <2>2
  <2>5. \A r \in Requests : ReadSoFar(store', request'[r])
    BY <1>1, <2>3
  <2> QED
    BY <2>4, <2>5 DEF AllWhole, OwnRows, ReadSoFar
<1>6. Apart(store)'
  BY <1>1, <1>4 DEF Apart
<1> QED
  BY <1>5, <1>6 DEF WholeInv

\* The same, for a step that leaves the store.
LEMMA StoreLeft ==
  ASSUME SharingInv, store' = store
  PROVE  PatternStep(0)
BY RowsSame, OwnSameRows

\* What a step may do so that patterns and requests stay whole.
WholeStep(p) ==
  /\ PatternStep(p)
  /\ ~ torn' => /\ ~ torn
                /\ p \in DOMAIN store => ~ BetweenQueries(p)
                /\ p \in DOMAIN store' => OwnRows(store'[p].stitches, store'[p].groups)
                /\ \A r \in Requests : \/ request'[r] = request[r]
                                       \/ ReadSoFar(store', request'[r])

\* A step that brings no request at a step of a copy.
NoNewReading ==
  \A s \in Requests : request'[s] = request[s] \/ request'[s].step \notin ReadSteps \cup {"create"}

\* One request changes, and is at no step of a copy.
LEMMA OneRequestReadsNot ==
  ASSUME DOMAIN request = Requests, NEW r \in Requests, NEW q,
         request' = [request EXCEPT ![r] = q], q.step \notin ReadSteps \cup {"create"}
  PROVE  NoNewReading
BY DEF NoNewReading

\* A request that answers is at none.
LEMMA AnswerReadsNot ==
  ASSUME DOMAIN request = Requests, NEW r \in Requests, Answer(r)
  PROVE  NoNewReading
<1>1. Idle.step = "idle"
  BY DEF Idle
<1> QED
  BY <1>1, OneRequestReadsNot DEF Answer, ReadSteps

\* The steps that neither read a pattern nor change the store.
LEMMA OtherStepsRead ==
  ASSUME SharingInv, Next,
         \A r \in Requests : /\ ~ GetPattern(r) /\ ~ LoadStitches(r) /\ ~ LoadGroups(r)
                             /\ ~ LoadEntries(r) /\ ~ CreateCopy(r) /\ ~ CopyImages(r),
         \A u \in Owners, name \in Names, form \in Forms : ~ CreatePattern(u, name, form),
         \A p \in DOMAIN store :
           /\ \A name \in Names, form \in Forms : ~ SavePattern(p, name, form)
           /\ ~ DeletePattern(p)
           /\ \A g \in DOMAIN store[p].groups : ~ AddImage(p, g) /\ ~ RemoveImage(p, g)
  PROVE  store' = store /\ torn' = torn /\ NoNewReading
<1> USE DEF ReadSteps
<1>1. DOMAIN request = Requests /\ \A r \in Requests : DOMAIN request[r] = RequestFields
  BY DEF SharingInv, RequestsHonest, Promise
<1>2. ASSUME NEW r \in Requests, NEW p \in DOMAIN store, NEW for \in Users \cup {Anyone},
             BeginShare(r, p, for)
      PROVE  store' = store /\ torn' = torn /\ NoNewReading
  <2>1. [Idle EXCEPT !.step = "listLinks", !.pattern = p, !.for = for].step = "listLinks"
    BY DEF Idle
  <2> QED
    BY <1>1, <1>2, <2>1, OneRequestReadsNot DEF BeginShare, Begin
<1>3. ASSUME NEW r \in Requests, NEW token \in DOMAIN links,
             BeginRevoke(r, token) \/ BeginSave(r, token)
      PROVE  store' = store /\ torn' = torn /\ NoNewReading
  <2>1. /\ [Idle EXCEPT !.step = "deleteLink", !.token = token].step = "deleteLink"
        /\ [Idle EXCEPT !.step = "getShared", !.pattern = links[token].pattern].step = "getShared"
    BY DEF Idle
  <2> QED
    BY <1>1, <1>3, <2>1, OneRequestReadsNot DEF BeginRevoke, BeginSave, Begin
<1>4. ASSUME NEW r \in Requests, NEW p \in DOMAIN store,
             BeginRevokeAll(r, p) \/ BeginDuplicate(r, p)
      PROVE  store' = store /\ torn' = torn /\ NoNewReading
  <2>1. /\ [Idle EXCEPT !.step = "deleteLinks", !.pattern = p].step = "deleteLinks"
        /\ [Idle EXCEPT !.step = "getPattern", !.pattern = p].step = "getPattern"
    BY DEF Idle
  <2> QED
    BY <1>1, <1>4, <2>1, OneRequestReadsNot DEF BeginRevokeAll, BeginDuplicate, Begin
<1>5. ASSUME NEW r \in Requests, ListLinks(r) \/ ListShared(r)
      PROVE  store' = store /\ torn' = torn /\ NoNewReading
  <2>1. PICK x, y : /\ x = [request[r] EXCEPT !.step = "insertLink"]
                    /\ y = [request[r] EXCEPT !.step = "getPattern"]
    OBVIOUS
  <2>2. x.step = "insertLink" /\ y.step = "getPattern"
    BY <1>1, <2>1 DEF RequestFields
  <2>3. /\ store' = store /\ torn' = torn
        /\ \/ Answer(r)
           \/ request' = [request EXCEPT ![r] = x]
           \/ request' = [request EXCEPT ![r] = y]
    BY <1>5, <2>1 DEF ListLinks, ListShared, GoOn
  <2> QED
    BY <1>1, <2>2, <2>3, AnswerReadsNot, OneRequestReadsNot
<1>6. ASSUME NEW r \in Requests, GetShared(r)
      PROVE  store' = store /\ torn' = torn /\ NoNewReading
  <2>1. PICK x : x = [request[r] EXCEPT !.step = "listShared",
                        !.from = store[request[r].pattern].user,
                        !.name = store[request[r].pattern].name]
    OBVIOUS
  <2>2. /\ store' = store /\ torn' = torn
        /\ Answer(r) \/ request' = [request EXCEPT ![r] = x]
    BY <1>1, <1>6, <2>1 DEF GetShared
  <2>3. x.step = "listShared"
    BY <1>1, <2>1 DEF RequestFields
  <2> QED
    BY <1>1, <2>2, <2>3, AnswerReadsNot, OneRequestReadsNot
<1>7. ASSUME NEW r \in Requests, InsertLink(r) \/ DeleteLink(r) \/ DeleteLinks(r) \/ Abort(r)
      PROVE  store' = store /\ torn' = torn /\ NoNewReading
  BY <1>1, <1>7, AnswerReadsNot DEF InsertLink, DeleteLink, DeleteLinks, Abort
<1> QED
  BY <1>2, <1>3, <1>4, <1>5, <1>6, <1>7, Zenon DEF Next

\* One request changes, and has read what is stored.
LEMMA OneRequestReads ==
  ASSUME SharingInv, store' = store, torn' = torn, NEW r \in Requests, NEW x,
         request' = [request EXCEPT ![r] = x], ~ torn => ReadSoFar(store, x)
  PROVE  WholeStep(0)
<1>1. DOMAIN request = Requests
  BY DEF SharingInv, RequestsHonest
<1>2. PatternStep(0) /\ 0 \notin DOMAIN store
  BY StoreLeft, StoreRows
<1>3. \A s \in Requests : request'[s] = IF s = r THEN x ELSE request[s]
  BY <1>1
<1>4. ~ torn => \A s \in Requests : request'[s] = request[s] \/ ReadSoFar(store', request'[s])
  BY <1>3
<1> QED
  BY <1>2, <1>4 DEF WholeStep

\* A request finds the pattern it is to copy.
LEMMA GetPatternReads ==
  ASSUME SharingInv, WholeInv, NEW r \in Requests, GetPattern(r)
  PROVE  WholeStep(0)
<1>1. PICK q : q = request[r]
  OBVIOUS
<1>2. DOMAIN request = Requests /\ DOMAIN q = RequestFields
  BY <1>1, PromiseOf DEF Promise
<1>3. PICK x : x = [q EXCEPT !.step = "loadStitches", !.name = store[q.pattern].name]
  OBVIOUS
<1>4. /\ store' = store /\ torn' = torn
      /\ \/ request' = [request EXCEPT ![r] = Idle]
         \/ q.pattern \in DOMAIN store /\ request' = [request EXCEPT ![r] = x]
  BY <1>1, <1>3 DEF GetPattern, Answer
<1>5. x.step = "loadStitches" /\ x.pattern = q.pattern
  BY <1>2, <1>3 DEF RequestFields
<1>6. q.pattern \in DOMAIN store => ReadSoFar(store, x)
  BY <1>5 DEF ReadSoFar
<1>7. ReadSoFar(store, Idle)
  BY NothingRead DEF Idle, ReadSteps
<1> QED
  BY <1>4, <1>6, <1>7, OneRequestReads

\* It reads the stitches.
LEMMA LoadStitchesReads ==
  ASSUME SharingInv, WholeInv, NEW r \in Requests, LoadStitches(r)
  PROVE  WholeStep(0)
<1>1. PICK q : q = request[r]
  OBVIOUS
<1>2. DOMAIN request = Requests /\ DOMAIN q = RequestFields
  BY <1>1, PromiseOf DEF Promise
<1>3. PICK stitches :
        stitches = IF q.pattern \in DOMAIN store THEN store[q.pattern].stitches ELSE << >>
  OBVIOUS
<1>4. PICK x : x = [q EXCEPT !.step = "loadGroups", !.stitches = stitches]
  OBVIOUS
<1>5. /\ store' = store /\ torn' = torn /\ q.step = "loadStitches"
      /\ request' = [request EXCEPT ![r] = x]
  BY <1>1, <1>2, <1>3, <1>4 DEF LoadStitches
<1>6. x.step = "loadGroups" /\ x.pattern = q.pattern /\ x.stitches = stitches
  BY <1>2, <1>4 DEF RequestFields
<1>7. ~ torn => ReadSoFar(store, x)
  <2>1. SUFFICES ASSUME ~ torn PROVE ReadSoFar(store, x)
    OBVIOUS
  <2>2. q.pattern \in DOMAIN store
    BY <1>1, <1>5, <2>1 DEF WholeInv, AllWhole, ReadSoFar, ReadSteps
  <2> QED
    BY <1>3, <1>6, <2>2 DEF ReadSoFar
<1> QED
  BY <1>5, <1>7, OneRequestReads

\* It reads the groups, of which there are some.
LEMMA LoadGroupsReads ==
  ASSUME SharingInv, WholeInv, NEW r \in Requests, LoadGroups(r)
  PROVE  WholeStep(0)
<1>1. PICK q : q = request[r]
  OBVIOUS
<1>2. DOMAIN request = Requests /\ DOMAIN q = RequestFields /\ Promise(SentBy[r], q)
  BY <1>1, PromiseOf DEF Promise
<1>3. store' = store /\ torn' = torn /\ q.step = "loadGroups"
  BY <1>1 DEF LoadGroups
<1>4. CASE q.pattern \in DOMAIN store
  <2>1. PICK groups : groups = store[q.pattern].groups
    OBVIOUS
  <2>2. PICK read, step :
          /\ read = [g \in DOMAIN groups |-> [id |-> groups[g].id, entries |-> << >>]]
          /\ step = IF groups = << >> THEN "create" ELSE "loadEntries"
    OBVIOUS
  <2>3. PICK x : x = [q EXCEPT !.step = step, !.groups = read]
    OBVIOUS
  <2>4. request' = [request EXCEPT ![r] = x]
    <3>1. request' = [request EXCEPT ![r].step = step, ![r].groups = read]
      BY <1>1, <1>4, <2>1, <2>2 DEF LoadGroups
    <3> QED
      BY <1>1, <1>2, <2>3, <3>1
  <2>5. /\ x.step = step /\ x.groups = read /\ x.pattern = q.pattern
        /\ x.stitches = q.stitches /\ x.read = 0
    <3>1. q.read = 0
      BY <1>2, <1>3 DEF Promise, CopySteps
    <3> QED
      BY <1>2, <2>3, <3>1 DEF RequestFields
  <2>6. ~ torn => ReadSoFar(store, x)
    <3>1. SUFFICES ASSUME ~ torn PROVE ReadSoFar(store, x)
      OBVIOUS
    <3>2. AllWhole
      BY <3>1 DEF WholeInv
    <3>3. q.stitches = store[q.pattern].stitches
      BY <1>1, <1>3, <3>2 DEF AllWhole, ReadSoFar
    <3>4. groups # << >>
      <4>1. PICK s : s = store[q.pattern].stitches
        OBVIOUS
      <4>2. ShownWith(s, groups) \in Forms
        BY <1>4, <2>1, <3>2, <4>1 DEF AllWhole, OwnRows
      <4>3. PICK form \in Forms : form = ShownWith(s, groups)
        BY <4>2
      <4>4. form # << >> /\ form \in Seq(Seq(DOMAIN StitchesOf(form)))
        BY SharingAssumptions DEF SharingAssumptions
      <4>5. DOMAIN form # {}
        <5>1. PICK S : S = Seq(DOMAIN StitchesOf(form))
          OBVIOUS
        <5>2. form \in Seq(S)
          BY <4>4, <5>1
        <5>3. Len(form) \in Nat /\ Len(form) # 0 /\ DOMAIN form = 1 .. Len(form)
          BY <4>4, <5>2
        <5> QED
          BY <5>3
      <4>6. DOMAIN form = DOMAIN groups
        BY <4>3 DEF ShownWith
      <4> QED
        BY <4>5, <4>6
    <3>5. x.step = "loadEntries"
      BY <2>2, <2>5, <3>4
    <3>6. /\ DOMAIN read = DOMAIN groups
          /\ \A g \in DOMAIN groups : read[g].id = groups[g].id
      BY <2>2
    <3>7. \A g \in DOMAIN groups : ~ (g <= 0)
      <4>1. groups \in Seq(GroupRows(1 .. count.rows))
        BY <1>4, <2>1 DEF SharingInv, StoreTyped, PatternTyped
      <4>2. DOMAIN groups = 1 .. Len(groups)
        BY <4>1
      <4> QED
        BY <4>2
    <3> QED
      BY <1>4, <2>1, <2>5, <3>3, <3>5, <3>6, <3>7 DEF ReadSoFar
  <2> QED
    BY <1>3, <2>4, <2>6, OneRequestReads
<1>5. CASE q.pattern \notin DOMAIN store
  <2>1. PICK x : x = [q EXCEPT !.step = "create"]
    OBVIOUS
  <2>2. request' = [request EXCEPT ![r] = x]
    BY <1>1, <1>5, <2>1 DEF LoadGroups, GoOn
  <2>3. torn
    BY <1>1, <1>3, <1>5, Zenon DEF WholeInv, AllWhole, ReadSoFar, ReadSteps
  <2> QED
    BY <1>3, <2>2, <2>3, OneRequestReads
<1> QED
  BY <1>4, <1>5

\* The entries of a group are found by its id.
LEMMA EntriesFound ==
  ASSUME Apart(store), NEW p \in DOMAIN store, NEW g \in DOMAIN store[p].groups
  PROVE  EntriesOfGroup(store, store[p].groups[g].id) = store[p].groups[g].entries
<1> DEFINE group == store[p].groups[g]
           found == {x \in GroupsOf(store) : x.id = group.id}
<1>1. group \in found
  BY DEF GroupsOf
<1>2. ASSUME NEW x \in found
      PROVE  x = group
  <2>1. PICK q \in DOMAIN store : \E h \in DOMAIN store[q].groups : x = store[q].groups[h]
    BY DEF GroupsOf
  <2>2. PICK h \in DOMAIN store[q].groups : x = store[q].groups[h]
    BY <2>1
  <2>3. store[q].groups[h].id = store[p].groups[g].id
    BY <2>2
  <2>4. q = p /\ h = g
    BY <2>3 DEF Apart
  <2> QED
    BY <2>2, <2>4
<1>3. EntriesOfGroup(store, group.id) =
        IF found = {} THEN << >> ELSE (CHOOSE x \in found : TRUE).entries
  BY DEF EntriesOfGroup
<1> HIDE DEF group, found
<1>4. (CHOOSE x \in found : TRUE) = group /\ found # {}
  BY <1>1, <1>2
<1>5. EntriesOfGroup(store, group.id) = group.entries
  BY <1>3, <1>4
<1> QED
  BY <1>5 DEF group

\* A request reads the entries of the groups, one after the other; with the
\* last it has all of the pattern.
LEMMA LoadEntriesReads ==
  ASSUME SharingInv, WholeInv, NEW r \in Requests, LoadEntries(r)
  PROVE  WholeStep(0)
<1>1. PICK q : q = request[r]
  OBVIOUS
<1>2. /\ DOMAIN request = Requests /\ DOMAIN q = RequestFields /\ Promise(SentBy[r], q)
      /\ StoreTyped
  BY <1>1, PromiseOf DEF Promise
<1>3. PICK g, rows : g = q.read + 1 /\ rows = 1 .. count.rows
  OBVIOUS
<1>4. PICK entries : entries = EntriesOfGroup(store, q.groups[g].id)
  OBVIOUS
<1>5. PICK read, step : /\ read = [q.groups EXCEPT ![g].entries = entries]
                        /\ step = IF g = Len(q.groups) THEN "create" ELSE "loadEntries"
  OBVIOUS
<1>6. PICK x : x = [q EXCEPT !.step = step, !.read = g, !.groups = read]
  OBVIOUS
<1>7. /\ store' = store /\ torn' = torn /\ q.step = "loadEntries"
      /\ request' = [request EXCEPT ![r] = x]
  <2>1. /\ store' = store /\ torn' = torn /\ q.step = "loadEntries"
        /\ request' = [request EXCEPT ![r].step = step, ![r].read = g,
                                      ![r].groups[g].entries = entries]
    BY <1>1, <1>3, <1>4, <1>5 DEF LoadEntries
  <2> QED
    BY <1>1, <1>2, <1>5, <1>6, <2>1
<1>8. /\ x.step = step /\ x.groups = read /\ x.pattern = q.pattern
      /\ x.stitches = q.stitches /\ x.read = g
  BY <1>2, <1>6 DEF RequestFields
<1>9. /\ q.groups \in Seq(ReadRows(rows)) /\ q.read \in Nat /\ q.read < Len(q.groups)
      /\ entries \in Seq(rows)
  <2>1. entries \in Seq(rows)
    BY <1>2, <1>3, <1>4, EntriesInRows
  <2> QED
    BY <1>2, <1>3, <1>7, <2>1 DEF Promise
<1>10. DOMAIN q.groups = 1 .. Len(q.groups) /\ Len(q.groups) \in Nat /\ g \in DOMAIN q.groups
  BY <1>3, <1>9
<1>11. /\ DOMAIN read = DOMAIN q.groups
       /\ \A h \in DOMAIN q.groups :
            /\ read[h].id = q.groups[h].id
            /\ read[h].entries = IF h = g THEN entries ELSE q.groups[h].entries
  BY <1>5, <1>9, <1>10, EntriesRead
<1>12. ASSUME ~ torn
       PROVE  ReadSoFar(store, x)
  <2>1. AllWhole /\ Apart(store)
    BY <1>12 DEF WholeInv
  <2>2. PICK p, groups : p = q.pattern /\ groups = store[p].groups
    OBVIOUS
  <2>3. ReadSoFar(store, q)
    BY <1>1, <2>1 DEF AllWhole
  <2>4. p \in DOMAIN store /\ q.stitches = store[p].stitches
    BY <1>7, <2>2, <2>3 DEF ReadSoFar, ReadSteps
  <2>5. /\ DOMAIN q.groups = DOMAIN groups
        /\ \A h \in DOMAIN q.groups :
             /\ q.groups[h].id = groups[h].id
             /\ h <= q.read => q.groups[h].entries = groups[h].entries
    BY <1>7, <2>2, <2>3 DEF ReadSoFar
  <2>6. entries = groups[g].entries
    BY <1>4, <1>10, <2>1, <2>2, <2>4, <2>5, EntriesFound
  <2>7. \A h \in DOMAIN groups : h <= g => read[h].entries = groups[h].entries
    <3>1. ASSUME NEW h \in DOMAIN groups, h <= g PROVE read[h].entries = groups[h].entries
      <4>1. h = g \/ h <= q.read
        BY <1>3, <1>9, <1>10, <2>5, <3>1
      <4> QED
        BY <1>11, <2>5, <2>6, <4>1
    <3> QED
      BY <3>1
  <2>8. DOMAIN read = DOMAIN groups /\ \A h \in DOMAIN groups : read[h].id = groups[h].id
    BY <1>11, <2>5
  <2>9. CASE g # Len(q.groups)
    <3>1. x.step = "loadEntries"
      BY <1>5, <1>8, <2>9
    <3> QED
      BY <1>8, <2>2, <2>4, <2>7, <2>8, <3>1 DEF ReadSoFar
  <2>10. CASE g = Len(q.groups)
    <3>1. x.step = "create"
      BY <1>5, <1>8, <2>10
    <3>2. \A h \in DOMAIN groups : h <= g
      BY <1>10, <2>5, <2>10
    <3>3. PICK y : y = [stitches |-> q.stitches, groups |-> read]
      OBVIOUS
    <3>4. y.stitches = q.stitches /\ y.groups = read
      BY <3>3
    <3>5. PICK z : z = store[p]
      OBVIOUS
    <3>6. SameRows(z, y)
      BY <2>2, <2>4, <2>7, <2>8, <3>2, <3>4, <3>5 DEF SameRows
    <3>7. OwnRows(z.stitches, z.groups)
      BY <2>1, <2>4, <3>5 DEF AllWhole
    <3>8. OwnRows(y.stitches, y.groups)
      BY <3>6, <3>7, WholeSameRows
    <3> QED
      BY <1>8, <3>1, <3>4, <3>8 DEF ReadSoFar, ReadSteps
  <2> QED
    BY <2>9, <2>10
<1> QED
  BY <1>7, <1>12, OneRequestReads

\* A request writes the copy: what it has read is whole, and so is the copy.
LEMMA CreateCopyWhole ==
  ASSUME SharingInv, WholeInv, NEW r \in Requests, CreateCopy(r)
  PROVE  \E p : WholeStep(p)
<1>1. PICK q, p : q = request[r] /\ p = count.patterns + 1
  OBVIOUS
<1>2. PICK u, x, top : u = SentBy[r] /\ x = CopyBy(u, q) /\ top = LastRow(q)
  OBVIOUS
<1>3. PICK y : y = IF q.from = Nobody \/ q.groups = << >> THEN Idle ELSE GoingOn(q, x)
  OBVIOUS
<1>4. /\ DOMAIN request = Requests /\ DOMAIN q = RequestFields
  BY <1>1, PromiseOf DEF Promise
<1>5. /\ q.step = "create" /\ torn' = torn
      /\ Answer(r) \/ request' = [request EXCEPT ![r] = y]
  <2>1. CopyMade(r, u, q, x, top)
    BY <1>1, <1>2, CopyCreated
  <2> QED
    BY <1>3, <2>1 DEF CopyMade
<1>6. y.step \in {"idle", "copyImages"}
  BY <1>3, <1>4 DEF GoingOn, RequestFields, Idle
<1>7. NoNewReading
  BY <1>4, <1>5, <1>6, AnswerReadsNot, OneRequestReadsNot DEF ReadSteps
<1>8. \A s \in Requests : request'[s] = request[s] \/ ReadSoFar(store', request'[s])
  BY <1>7, NothingRead DEF NoNewReading
<1>9. CASE store' = store
  <2>1. PatternStep(0) /\ 0 \notin DOMAIN store /\ 0 \notin DOMAIN store'
    BY <1>9, StoreLeft, StoreRows
  <2> QED
    BY <1>5, <1>8, <2>1 DEF WholeStep
<1>10. CASE /\ PatternStep(p) /\ p \notin DOMAIN store
            /\ OwnRows(q.stitches, q.groups) => OwnRows(store'[p].stitches, store'[p].groups)
  <2>1. ~ torn => OwnRows(q.stitches, q.groups)
    BY <1>1, <1>5 DEF WholeInv, AllWhole, ReadSoFar
  <2> QED
    BY <1>5, <1>8, <1>10, <2>1 DEF WholeStep
<1> QED
  BY <1>1, <1>9, <1>10, CopyRows

\* Images come to groups; rows stay.
LEMMA PicturedWhole ==
  ASSUME SharingInv, NEW p, NEW g, NEW b \in BOOLEAN,
         store' = [store EXCEPT ![p].groups[g].pictured = b], torn' = torn, NoNewReading
  PROVE  WholeStep(0)
<1>1. /\ DOMAIN store' = DOMAIN store
      /\ \A q \in DOMAIN store : /\ SameRows(store[q], store'[q])
                                 /\ store'[q].name = store[q].name
  BY PicturedRows
<1>2. PatternStep(0) /\ 0 \notin DOMAIN store
  BY <1>1, RowsSame, StoreRows
<1>3. \A s \in Requests : request'[s] = request[s] \/ ReadSoFar(store', request'[s])
  BY NothingRead DEF NoNewReading
<1> QED
  BY <1>1, <1>2, <1>3 DEF WholeStep

\* Copies of images are images.
LEMMA CopyImagesWhole ==
  ASSUME SharingInv, NEW r \in Requests, CopyImages(r)
  PROVE  WholeStep(0)
<1>1. PICK q : q = request[r]
  OBVIOUS
<1>2. DOMAIN request = Requests /\ DOMAIN q = RequestFields
  BY <1>1, PromiseOf DEF Promise
<1>3. PICK p, g, b : /\ p = q.copy /\ g = q.read + 1
                     /\ b = (store[p].groups[g].pictured \/ PicturedGroup(store, q.groups[g].id))
  OBVIOUS
<1>4. PICK x : x = [q EXCEPT !.read = g]
  OBVIOUS
<1>5. /\ q.step = "copyImages" /\ torn' = torn
      /\ store' = [store EXCEPT ![p].groups[g].pictured = b]
      /\ Answer(r) \/ request' = [request EXCEPT ![r] = x]
  BY <1>1, <1>2, <1>3, <1>4 DEF CopyImages
<1>6. b \in BOOLEAN
  BY <1>3, Zenon
<1>7. x.step = "copyImages"
  BY <1>2, <1>4, <1>5 DEF RequestFields
<1>8. NoNewReading
  BY <1>2, <1>5, <1>7, AnswerReadsNot, OneRequestReadsNot DEF ReadSteps
<1> QED
  BY <1>5, <1>6, <1>8, PicturedWhole

\* What owners do to their patterns.
LEMMA OwnersWhole ==
  ASSUME SharingInv,
         \/ \E u \in Owners, name \in Names, form \in Forms : CreatePattern(u, name, form)
         \/ \E p \in DOMAIN store :
              \/ \E name \in Names, form \in Forms : SavePattern(p, name, form)
              \/ DeletePattern(p)
              \/ \E g \in DOMAIN store[p].groups : AddImage(p, g) \/ RemoveImage(p, g)
  PROVE  \E p : WholeStep(p)
<1>1. ASSUME NEW u \in Owners, NEW name \in Names, NEW form \in Forms,
             CreatePattern(u, name, form)
      PROVE  \E p : WholeStep(p)
  <2>1. PICK p : p = count.patterns + 1
    OBVIOUS
  <2>2. /\ PatternStep(p) /\ p \notin DOMAIN store
        /\ OwnRows(store'[p].stitches, store'[p].groups)
    BY <1>1, <2>1, WrittenRows
  <2>3. request' = request /\ torn' = torn
    BY <1>1 DEF CreatePattern
  <2> QED
    BY <2>2, <2>3 DEF WholeStep
<1>2. ASSUME NEW p \in DOMAIN store, NEW name \in Names, NEW form \in Forms,
             SavePattern(p, name, form)
      PROVE  WholeStep(p)
  <2>1. PatternStep(p) /\ OwnRows(store'[p].stitches, store'[p].groups)
    BY <1>2, SavedRows
  <2>2. request' = request
    BY <1>2 DEF SavePattern
  <2>3. ~ torn' => ~ torn /\ ~ BetweenQueries(p)
    <3>1. torn' = (torn \/ BetweenQueries(p))
      BY <1>2 DEF SavePattern
    <3> QED
      BY <3>1, Zenon
  <2> QED
    BY <2>1, <2>2, <2>3 DEF WholeStep
<1>3. ASSUME NEW p \in DOMAIN store, DeletePattern(p)
      PROVE  WholeStep(p)
  <2>1. PatternStep(p) /\ p \notin DOMAIN store'
    BY <1>3, DeletedRows
  <2>2. request' = request
    BY <1>3 DEF DeletePattern
  <2>3. ~ torn' => ~ torn /\ ~ BetweenQueries(p)
    <3>1. torn' = (torn \/ BetweenQueries(p))
      BY <1>3 DEF DeletePattern
    <3> QED
      BY <3>1, Zenon
  <2> QED
    BY <2>1, <2>2, <2>3 DEF WholeStep
<1>4. ASSUME NEW p \in DOMAIN store, NEW g \in DOMAIN store[p].groups,
             AddImage(p, g) \/ RemoveImage(p, g)
      PROVE  WholeStep(0)
  <2>1. PICK i : i = g
    OBVIOUS
  <2>2. PICK b : /\ b \in BOOLEAN /\ store' = [store EXCEPT ![p].groups[i].pictured = b]
                 /\ request' = request /\ torn' = torn
    BY <1>4, <2>1 DEF AddImage, RemoveImage
  <2>3. NoNewReading
    BY <2>2 DEF NoNewReading
  <2> QED
    BY <2>2, <2>3, PicturedWhole
<1> QED
  BY <1>1, <1>2, <1>3, <1>4

\* Every step is one of these.
LEMMA EveryStepWhole ==
  ASSUME SharingInv, WholeInv, [Next]_vars
  PROVE  \E p : WholeStep(p)
<1>1. ASSUME store' = store, torn' = torn, NoNewReading
      PROVE  WholeStep(0)
  <2>1. PatternStep(0) /\ 0 \notin DOMAIN store /\ 0 \notin DOMAIN store'
    BY <1>1, StoreLeft, StoreRows
  <2>2. \A s \in Requests : request'[s] = request[s] \/ ReadSoFar(store', request'[s])
    BY <1>1, NothingRead DEF NoNewReading
  <2> QED
    BY <1>1, <2>1, <2>2 DEF WholeStep
<1>2. CASE UNCHANGED vars
  <2>1. store' = store /\ torn' = torn /\ request' = request
    BY <1>2 DEF vars
  <2> QED
    BY <1>1, <2>1 DEF NoNewReading
<1>3. CASE \E r \in Requests : GetPattern(r) \/ LoadStitches(r) \/ LoadGroups(r) \/ LoadEntries(r)
  BY <1>3, GetPatternReads, LoadStitchesReads, LoadGroupsReads, LoadEntriesReads
<1>4. CASE \E r \in Requests : CreateCopy(r) \/ CopyImages(r)
  BY <1>4, CreateCopyWhole, CopyImagesWhole
<1>5. CASE \/ \E u \in Owners, name \in Names, form \in Forms : CreatePattern(u, name, form)
           \/ \E p \in DOMAIN store :
                \/ \E name \in Names, form \in Forms : SavePattern(p, name, form)
                \/ DeletePattern(p)
                \/ \E g \in DOMAIN store[p].groups : AddImage(p, g) \/ RemoveImage(p, g)
  BY <1>5, OwnersWhole
<1>6. CASE /\ Next
           /\ \A r \in Requests : /\ ~ GetPattern(r) /\ ~ LoadStitches(r) /\ ~ LoadGroups(r)
                                  /\ ~ LoadEntries(r) /\ ~ CreateCopy(r) /\ ~ CopyImages(r)
           /\ \A u \in Owners, name \in Names, form \in Forms : ~ CreatePattern(u, name, form)
           /\ \A p \in DOMAIN store :
                /\ \A name \in Names, form \in Forms : ~ SavePattern(p, name, form)
                /\ ~ DeletePattern(p)
                /\ \A g \in DOMAIN store[p].groups : ~ AddImage(p, g) /\ ~ RemoveImage(p, g)
  BY <1>1, <1>6, OtherStepsRead
<1> QED
  BY <1>2, <1>3, <1>4, <1>5, <1>6

\* The second inductive invariant: rows apart, and what requests have read as
\* it is stored, unless a save or a deletion came between.
THEOREM WholeInvHolds == Spec => []WholeInv
<1>1. Init => WholeInv
  <2> SUFFICES ASSUME Init PROVE WholeInv
    OBVIOUS
  <2>1. DOMAIN store = {} /\ \A r \in Requests : request[r] = Idle
    BY DEF Init
  <2>2. \A r \in Requests : ReadSoFar(store, request[r])
    BY <2>1, NothingRead DEF Idle, ReadSteps
  <2> QED
    BY <2>1, <2>2 DEF WholeInv, AllWhole, Apart
<1>2. SharingInv /\ WholeInv /\ [Next]_vars => WholeInv'
  BY EveryStepWhole, WholeStays DEF WholeStep
<1> QED
  BY <1>1, <1>2, SharingInvHolds, PTL DEF Spec

\* A copy refers to stitches of its own, unless a save or a deletion fell
\* between the queries of a copy.
THEOREM CopiesStandAlone == Spec => []CopiesAreIndependent
<1>1. WholeInv => CopiesAreIndependent
  BY DEF WholeInv, AllWhole, OwnRows, CopiesAreIndependent
<1> QED
  BY <1>1, WholeInvHolds, PTL

\* Every pattern is what an owner once submitted, under the same condition.
THEOREM NoHalfCopies == Spec => []CopiesAreWhole
<1>1. WholeInv => CopiesAreWhole
  <2> SUFFICES ASSUME WholeInv, ~ torn, NEW p \in DOMAIN store
               PROVE  Shown(store, p) \in Forms
    BY DEF CopiesAreWhole
  <2>1. Apart(store) /\ OwnRows(store[p].stitches, store[p].groups)
    BY DEF WholeInv, AllWhole
  <2>2. PICK s, v : s = store /\ v = s[p].stitches
    OBVIOUS
  <2>3. \A i \in EntryIds(s[p].groups) : v[i] = StitchOf(s, i)
    BY <2>1, <2>2, StitchFound DEF OwnRows
  <2>4. Shown(s, p) = ShownWith(v, s[p].groups)
    BY <2>3, ShownIs
  <2> QED
    BY <2>1, <2>2, <2>4 DEF OwnRows
<1> QED
  BY <1>1, WholeInvHolds, PTL

\* The images of a received pattern change only when its owner adds or removes
\* one, and while the request that made the pattern copies them.
LEMMA ReceivedKeepImages ==
  ASSUME SharingInv, [Next]_vars, NEW c \in DOMAIN store, IsReceived(c)
  PROVE  \/ store'[c] = store[c]
         \/ \E g \in DOMAIN store[c].groups : AddImage(c, g) \/ RemoveImage(c, g)
         \/ \E r \in Requests : request[r].copy = c /\ CopyImages(r)
<1> DEFINE Kept == store'[c] = store[c]
<1>1. c \in 1 .. count.patterns /\ count.patterns \in Nat
  BY DEF SharingInv, StoreTyped, CountTyped
<1>2. ASSUME NEW x, store' = With(store, count.patterns + 1, x)
      PROVE  Kept
  BY <1>1, <1>2 DEF With
<1>3. CASE store' = store
  BY <1>3
<1>4. CASE \E r \in Requests : GetPattern(r) \/ LoadStitches(r) \/ LoadGroups(r) \/ LoadEntries(r)
  BY <1>4 DEF GetPattern, LoadStitches, LoadGroups, LoadEntries
<1>5. ASSUME NEW r \in Requests, CreateCopy(r)
      PROVE  Kept
  <2>1. PICK u, q : u = SentBy[r] /\ q = request[r]
    OBVIOUS
  <2>2. PICK x, top : x = CopyBy(u, q) /\ top = LastRow(q)
    OBVIOUS
  <2>3. CopyMade(r, u, q, x, top)
    BY <1>5, <2>1, <2>2, CopyCreated
  <2> QED
    BY <1>2, <2>3 DEF CopyMade
<1>6. ASSUME NEW r \in Requests, CopyImages(r)
      PROVE  Kept \/ request[r].copy = c
  BY <1>6 DEF CopyImages
<1>7. ASSUME NEW u \in Owners, NEW name \in Names, NEW form \in Forms,
             CreatePattern(u, name, form)
      PROVE  Kept
  BY <1>2, <1>7 DEF CreatePattern
<1>8. ASSUME NEW p \in DOMAIN store, NEW name \in Names, NEW form \in Forms,
             SavePattern(p, name, form)
      PROVE  Kept
  BY <1>8 DEF SavePattern, IsReceived
<1>9. ASSUME NEW p \in DOMAIN store, DeletePattern(p)
      PROVE  Kept
  BY <1>9 DEF DeletePattern, IsReceived, Without
<1>10. ASSUME NEW p \in DOMAIN store, NEW g \in DOMAIN store[p].groups,
              AddImage(p, g) \/ RemoveImage(p, g), p # c
       PROVE  Kept
  BY <1>10 DEF AddImage, RemoveImage
<1>11. CASE UNCHANGED vars
  BY <1>11 DEF vars
<1>12. CASE /\ Next
            /\ \A r \in Requests : /\ ~ GetPattern(r) /\ ~ LoadStitches(r) /\ ~ LoadGroups(r)
                                   /\ ~ LoadEntries(r) /\ ~ CreateCopy(r) /\ ~ CopyImages(r)
            /\ \A u \in Owners, name \in Names, form \in Forms : ~ CreatePattern(u, name, form)
            /\ \A p \in DOMAIN store :
                 /\ \A name \in Names, form \in Forms : ~ SavePattern(p, name, form)
                 /\ ~ DeletePattern(p)
                 /\ \A g \in DOMAIN store[p].groups : ~ AddImage(p, g) /\ ~ RemoveImage(p, g)
  BY <1>3, <1>12, OtherStepsRead
<1> QED
  BY <1>4, <1>5, <1>6, <1>7, <1>8, <1>9, <1>10, <1>11, <1>12

\* Received patterns stay as they were saved, names and stitches: none of them is
\* edited, and nothing that is done to another pattern, even the deletion of the
\* original, shows in them.  Their images are those that the save copied, until
\* their owner adds or removes some.
THEOREM ReceivedStay == Spec => ReceivedStandAlone
<1> DEFINE Stays(c) ==
      /\ c \in DOMAIN store'
      /\ store'[c].name = store[c].name
      /\ Shown(store', c) = Shown(store, c)
      /\ \/ WithImages(c)' = WithImages(c)
         \/ \E g \in DOMAIN store[c].groups : AddImage(c, g) \/ RemoveImage(c, g)
         \/ \E r \in Requests : request[r].copy = c /\ CopyImages(r)
<1>1. ASSUME SharingInv, WholeInv, WholeInv', [Next]_vars
      PROVE  \A c \in DOMAIN store : IsReceived(c) => Stays(c)
  <2>1. PICK p : WholeStep(p)
    BY <1>1, EveryStepWhole
  <2>2. PICK s, t : s = store /\ t = store'
    OBVIOUS
  <2>3. Apart(s) /\ Apart(t)
    BY <1>1, <2>2 DEF WholeInv, Apart
  <2>4. /\ OthersKept(s, t, p)
        /\ \A q \in DOMAIN s \ {p} : t[q].name = s[q].name
        /\ p \in DOMAIN s => s[p].from = Nobody
    BY <2>1, <2>2 DEF WholeStep, PatternStep
  <2>5. ASSUME NEW c \in DOMAIN s, s[c].from # Nobody
        PROVE  c \in DOMAIN t /\ t[c].name = s[c].name /\ Shown(t, c) = Shown(s, c)
    <3>1. c \in DOMAIN s \ {p}
      BY <2>4, <2>5
    <3>2. c \in DOMAIN t /\ t[c].name = s[c].name
      BY <2>4, <3>1 DEF OthersKept
    <3>3. Shown(t, c) = Shown(s, c)
      BY <2>3, <2>4, <3>1, ShownStays
    <3> QED
      BY <3>2, <3>3
  <2>6. ASSUME NEW c \in DOMAIN store, store'[c] = store[c]
        PROVE  WithImages(c)' = WithImages(c)
    BY <2>6 DEF WithImages
  <2>7. SUFFICES ASSUME NEW c \in DOMAIN store, IsReceived(c)
                 PROVE  Stays(c)
    OBVIOUS
  <2>8. /\ c \in DOMAIN store' /\ store'[c].name = store[c].name
        /\ Shown(store', c) = Shown(store, c)
    BY <2>2, <2>5, <2>7 DEF IsReceived
  <2> QED
    BY <1>1, <2>6, <2>7, <2>8, ReceivedKeepImages
<1>2. SharingInv /\ WholeInv /\ WholeInv' /\ [Next]_vars =>
        [\A c \in DOMAIN store : IsReceived(c) => Stays(c)]_vars
  BY <1>1
<1> QED
  BY <1>2, SharingInvHolds, WholeInvHolds, PTL DEF Spec, ReceivedStandAlone
=============================================================================
