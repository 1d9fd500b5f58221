--------------------------- MODULE WorkSessionProofs ---------------------------
(***************************************************************************)
(* Proofs about WorkSession, for every set of valid patterns and every     *)
(* number of requests, sessions and saves: whatever the requests in        *)
(* progress hold copies of, what they write is in order.                   *)
(***************************************************************************)
EXTENDS WorkSession, SequenceTheorems, PatternNavigationProofs

\* The pattern, while there is one.
StoredType == [save : 0 .. MaxEdits, groups : Patterns]

StoredTyped == stored # NoRow => stored \in StoredType

\* completed_at is set exactly in completed rows.
Stamped(row) == row.stamped <=> row.status = "completed"

\* A row that the pattern bears: one of its positions, if it was never edited.
RowInOrder(row) ==
  /\ Stamped(row)
  /\ stored # NoRow /\ stored.save = 0 => RowFits(row)

\* The table: rows only of sessions that were started, and only of a pattern
\* that is there.
SessionsInOrder ==
  /\ started \in 0 .. MaxSessions
  /\ sessions \in [SessionIds -> Row \cup {NoRow}]
  /\ \A id \in SessionIds : sessions[id] # NoRow =>
       id <= started /\ stored # NoRow /\ RowInOrder(sessions[id])

\* The steps a request can be at.
RequestSteps == {"idle", "readPattern", "readGroups", "readEntries", "write", "delete"}

\* What a request knows.
RequestType ==
  [step : RequestSteps, op : Operations \cup {"none"}, id : 0 .. MaxSessions,
   row : Row \cup {NoRow}, copy : Seq(InstructionGroup), save : 0 .. MaxEdits, loaded : Nat]

\* The copy of a save's groups, of which the first n have their entries.
CopiedUpTo(copy, n, groups) ==
  /\ Len(copy) = Len(groups)
  /\ \A i \in 1 .. Len(groups) : /\ copy[i].repeat = groups[i].repeat
                                 /\ i <= n => copy[i] = groups[i]

\* What a request can rely on, however old its copies are.
RequestPromise(q) ==
  /\ q.op \in Operations \ {"start"} => q.row # NoRow /\ q.id \in SessionIds /\ q.id <= started
  /\ q.row # NoRow => RowInOrder(q.row)
  /\ q.loaded <= Len(q.copy)
  /\ q.step \in {"readPattern", "readGroups"} => q.loaded = 0
  /\ q.step = "write" => q.loaded = Len(q.copy)
  /\ stored # NoRow /\ q.step \in {"readEntries", "write"} =>
       /\ q.save <= stored.save
       /\ q.save = stored.save => CopiedUpTo(q.copy, q.loaded, stored.groups)

\* Every request is typed and can rely on its promise.
RequestsHonest ==
  /\ request \in [Requests -> RequestType]
  /\ \A r \in Requests : RequestPromise(request[r])

\* The inductive invariant.
WorkSessionInv == StoredTyped /\ SessionsInOrder /\ RequestsHonest

-----------------------------------------------------------------------------
\* The groups of the stored pattern are valid.
LEMMA StoredValid ==
  ASSUME StoredTyped, stored # NoRow
  PROVE  /\ stored.save \in 0 .. MaxEdits /\ stored.groups \in Patterns
         /\ ValidPattern(stored.groups) /\ stored.groups \in Seq(InstructionGroup)
         /\ Len(stored.groups) \in Nat /\ Len(stored.groups) > 0
<1>1. stored.save \in 0 .. MaxEdits /\ stored.groups \in Patterns
  BY DEF StoredTyped, StoredType
<1>2. ValidPattern(stored.groups)
  BY <1>1, WorkSessionAssumptions DEF WorkSessionAssumptions
<1>3. stored.groups \in Seq(InstructionGroup) /\ stored.groups # << >>
  BY <1>2 DEF ValidPattern
<1>4. Len(stored.groups) \in Nat /\ Len(stored.groups) > 0
  BY <1>3
<1>5. QED
  BY <1>1, <1>2, <1>3, <1>4

\* A request that has been answered.
LEMMA IdleHonest == Idle \in RequestType /\ RequestPromise(Idle) /\ Idle.step = "idle"
<1>1. << >> \in Seq(InstructionGroup) /\ Len(<< >>) = 0
  OBVIOUS
<1>2. 0 \in 0 .. MaxEdits /\ 0 \in 0 .. MaxSessions
  BY WorkSessionAssumptions DEF WorkSessionAssumptions
<1>3. Idle \in RequestType
  BY <1>1, <1>2 DEF Idle, RequestType, RequestSteps
<1>4. RequestPromise(Idle)
  BY <1>1 DEF Idle, RequestPromise, Operations, Navigations
<1>5. QED
  BY <1>3, <1>4 DEF Idle

\* The invariant holds initially.
LEMMA WorkSessionInit == Init => WorkSessionInv
<1> SUFFICES ASSUME Init PROVE WorkSessionInv
  OBVIOUS
<1>1. StoredTyped
  BY WorkSessionAssumptions DEF Init, StoredTyped, StoredType, WorkSessionAssumptions
<1>2. SessionsInOrder
  BY WorkSessionAssumptions DEF Init, SessionsInOrder, WorkSessionAssumptions
<1>3. RequestsHonest
  BY IdleHonest DEF Init, RequestsHonest
<1>4. QED
  BY <1>1, <1>2, <1>3 DEF WorkSessionInv

\* What the owner does to the pattern.
StoredMoves ==
  \/ stored' = stored
  \/ stored' = NoRow
  \/ stored # NoRow /\ stored' # NoRow /\ stored'.save = stored.save + 1

\* Rows stay in order when the pattern is saved or deleted.
LEMMA RowStaysInOrder ==
  ASSUME StoredTyped, StoredMoves, NEW row, RowInOrder(row)
  PROVE  RowInOrder(row)'
<1>1. CASE stored' = stored
  BY <1>1 DEF RowInOrder, RowFits
<1>2. CASE stored' = NoRow
  BY <1>2 DEF RowInOrder
<1>3. CASE stored # NoRow /\ stored' # NoRow /\ stored'.save = stored.save + 1
  <2>1. stored.save \in Nat
    BY <1>3, StoredValid, WorkSessionAssumptions DEF WorkSessionAssumptions
  <2>2. stored'.save # 0
    BY <1>3, <2>1
  <2>3. QED
    BY <2>2 DEF RowInOrder
<1>4. QED
  BY <1>1, <1>2, <1>3 DEF StoredMoves

\* What a request relies on stays true whatever the others do.
LEMMA PromiseKept ==
  ASSUME StoredTyped, StoredMoves, started \in Nat, started' \in Nat, started <= started',
         NEW q \in RequestType, RequestPromise(q)
  PROVE  RequestPromise(q)'
<1>1. q.row # NoRow => RowInOrder(q.row)'
  <2>1. SUFFICES ASSUME q.row # NoRow PROVE RowInOrder(q.row)'
    OBVIOUS
  <2>2. RowInOrder(q.row)
    BY <2>1 DEF RequestPromise
  <2>3. PICK row : row = q.row
    OBVIOUS
  <2>4. RowInOrder(row)'
    BY <2>2, <2>3, RowStaysInOrder
  <2>5. QED
    BY <2>3, <2>4 DEF RowInOrder
<1>2. q.id \in 0 .. MaxSessions /\ q.save \in 0 .. MaxEdits
  BY DEF RequestType
<1>3. q.op \in Operations \ {"start"} =>
        q.row # NoRow /\ q.id \in SessionIds /\ q.id <= started'
  BY <1>2, WorkSessionAssumptions DEF RequestPromise, SessionIds, WorkSessionAssumptions
<1>4. ASSUME stored' # NoRow, q.step \in {"readEntries", "write"}
      PROVE  /\ q.save <= stored'.save
             /\ q.save = stored'.save => CopiedUpTo(q.copy, q.loaded, stored'.groups)
  <2>1. CASE stored' = stored
    BY <1>4, <2>1 DEF RequestPromise
  <2>2. CASE stored # NoRow /\ stored'.save = stored.save + 1
    <3>1. stored.save \in 0 .. MaxEdits /\ q.save <= stored.save
      BY <1>4, <2>2, StoredValid DEF RequestPromise
    <3>2. q.save \in Nat /\ stored.save \in Nat
      BY <1>2, <3>1, WorkSessionAssumptions DEF WorkSessionAssumptions
    <3>3. q.save < stored'.save
      BY <2>2, <3>1, <3>2
    <3>4. QED
      BY <2>2, <3>2, <3>3
  <2>3. QED
    BY <1>4, <2>1, <2>2 DEF StoredMoves
<1>5. QED
  BY <1>1, <1>3, <1>4 DEF RequestPromise

\* A step of one request, which leaves the pattern alone.
LEMMA RequestGoesOn ==
  ASSUME WorkSessionInv, stored' = stored, SessionsInOrder', started <= started',
         NEW r \in Requests, NEW q \in RequestType, RequestPromise(q)',
         request' = [request EXCEPT ![r] = q]
  PROVE  WorkSessionInv'
<1>1. StoredTyped' /\ StoredMoves
  BY DEF WorkSessionInv, StoredTyped, StoredMoves
<1>2. request \in [Requests -> RequestType]
  BY DEF WorkSessionInv, RequestsHonest
<1>3. started \in Nat /\ started' \in Nat
  BY WorkSessionAssumptions DEF WorkSessionInv, SessionsInOrder, WorkSessionAssumptions
<1>4. ASSUME NEW s \in Requests PROVE RequestPromise(request[s])'
  <2>1. CASE s = r
    <3>1. request'[s] = q
      BY <1>2, <2>1
    <3>2. QED
      BY <3>1 DEF RequestPromise
  <2>2. CASE s # r
    <3>1. PICK t \in RequestType : t = request[s] /\ t = request'[s]
      BY <1>2, <2>2
    <3>2. RequestPromise(t)
      BY <3>1 DEF WorkSessionInv, RequestsHonest
    <3>3. RequestPromise(t)'
      BY <1>1, <1>3, <3>2, PromiseKept DEF WorkSessionInv
    <3>4. QED
      BY <3>1, <3>3 DEF RequestPromise
  <2>3. QED
    BY <2>1, <2>2
<1>5. RequestsHonest'
  BY <1>2, <1>4 DEF RequestsHonest
<1>6. QED
  BY <1>1, <1>5 DEF WorkSessionInv

\* A step of one request that touches no session.
LEMMA RequestReads ==
  ASSUME WorkSessionInv, UNCHANGED << stored, sessions, started >>,
         NEW r \in Requests, NEW q \in RequestType, RequestPromise(q),
         request' = [request EXCEPT ![r] = q]
  PROVE  WorkSessionInv'
<1>1. started \in Nat
  BY WorkSessionAssumptions DEF WorkSessionInv, SessionsInOrder, WorkSessionAssumptions
<1>2. SessionsInOrder'
  BY DEF WorkSessionInv, SessionsInOrder, RowInOrder, RowFits
<1>3. RequestPromise(q)'
  BY <1>1, PromiseKept DEF WorkSessionInv, StoredMoves
<1>4. stored' = stored /\ started <= started'
  BY <1>1
<1>5. QED
  BY <1>2, <1>3, <1>4, RequestGoesOn

-----------------------------------------------------------------------------
\* What is known of a request.
LEMMA RequestHas ==
  ASSUME WorkSessionInv, NEW r \in Requests
  PROVE  /\ request \in [Requests -> RequestType]
         /\ request[r] \in RequestType /\ RequestPromise(request[r])
         /\ StoredTyped /\ SessionsInOrder
BY DEF WorkSessionInv, RequestsHonest

\* An answer that touches no session.
LEMMA AnswerKeeps ==
  ASSUME WorkSessionInv, UNCHANGED << stored, sessions, started >>,
         NEW r \in Requests, Answer(r)
  PROVE  WorkSessionInv'
BY IdleHonest, RequestReads DEF Answer

\* A request begins with nothing, or with the row as it is now.
LEMMA BeginKeeps ==
  ASSUME WorkSessionInv, NEW r \in Requests,
         \/ BeginStart(r)
         \/ \E op \in Operations \ {"start"}, id \in SessionIds : ReadSession(r, op, id)
  PROVE  WorkSessionInv'
<1>1. CASE BeginStart(r)
  <2> DEFINE q == [Idle EXCEPT !.step = "readPattern", !.op = "start"]
  <2>1. /\ q \in RequestType /\ q.step = "readPattern" /\ q.op = "start" /\ q.row = NoRow
        /\ q.copy = << >> /\ q.loaded = 0
    BY IdleHonest DEF Idle, RequestType, RequestSteps, Operations
  <2>2. request' = [request EXCEPT ![r] = q] /\ UNCHANGED << stored, sessions, started >>
    BY <1>1 DEF BeginStart
  <2> HIDE DEF q
  <2>3. RequestPromise(q)
    BY <2>1 DEF RequestPromise
  <2>4. QED
    BY <2>1, <2>2, <2>3, RequestReads
<1>2. ASSUME NEW op \in Operations \ {"start"}, NEW id \in SessionIds, ReadSession(r, op, id)
      PROVE  WorkSessionInv'
  <2> DEFINE step == IF op = "abandon" THEN "delete" ELSE "readPattern"
             q == [Idle EXCEPT !.step = step, !.op = op, !.id = id, !.row = sessions[id]]
  <2>1. /\ sessions[id] # NoRow /\ sessions[id] \in Row /\ id <= started
        /\ RowInOrder(sessions[id])
    BY <1>2 DEF ReadSession, WorkSessionInv, SessionsInOrder
  <2>2. /\ q \in RequestType /\ q.step \in {"delete", "readPattern"} /\ q.op = op
        /\ q.row = sessions[id] /\ q.id = id /\ q.copy = << >> /\ q.loaded = 0
    <3>1. step \in RequestSteps /\ step \in {"delete", "readPattern"}
      BY DEF RequestSteps
    <3>2. id \in 0 .. MaxSessions
      BY WorkSessionAssumptions DEF SessionIds, WorkSessionAssumptions
    <3> HIDE DEF step
    <3>3. QED
      BY <2>1, <3>1, <3>2, IdleHonest DEF Idle, RequestType
  <2>3. request' = [request EXCEPT ![r] = q] /\ UNCHANGED << stored, sessions, started >>
    BY <1>2 DEF ReadSession
  <2> HIDE DEF q
  <2>4. RequestPromise(q)
    BY <2>1, <2>2 DEF RequestPromise
  <2>5. QED
    BY <2>2, <2>3, <2>4, RequestReads
<1>3. QED
  BY <1>1, <1>2

\* The header query changes the step at most.
LEMMA ReadPatternKeeps ==
  ASSUME WorkSessionInv, NEW r \in Requests, ReadPattern(r)
  PROVE  WorkSessionInv'
<1>1. CASE stored = NoRow
  BY <1>1, AnswerKeeps DEF ReadPattern
<1>2. CASE stored # NoRow
  <2>1. PICK q \in RequestType : q = request[r] /\ RequestPromise(q) /\ q.step = "readPattern"
    BY RequestHas DEF ReadPattern
  <2> DEFINE p == [q EXCEPT !.step = "readGroups"]
  <2>2. request' = [request EXCEPT ![r] = p] /\ UNCHANGED << stored, sessions, started >>
    BY <1>2, <2>1, RequestHas DEF ReadPattern
  <2>3. /\ p \in RequestType /\ p.step = "readGroups" /\ p.op = q.op /\ p.id = q.id
        /\ p.row = q.row /\ p.copy = q.copy /\ p.loaded = q.loaded
    BY DEF RequestType, RequestSteps
  <2> HIDE DEF p
  <2>4. RequestPromise(p)
    BY <2>1, <2>3 DEF RequestPromise
  <2>5. QED
    BY <2>2, <2>3, <2>4, RequestReads
<1>3. QED
  BY <1>1, <1>2

\* The groups query: a copy of the headers of the save that is stored now.
LEMMA ReadGroupsKeeps ==
  ASSUME WorkSessionInv, NEW r \in Requests, ReadGroups(r)
  PROVE  WorkSessionInv'
<1>1. PICK q \in RequestType : q = request[r] /\ RequestPromise(q) /\ q.step = "readGroups"
  BY RequestHas DEF ReadGroups
<1> DEFINE save == IF stored = NoRow THEN 0 ELSE stored.save
           copy == IF stored = NoRow THEN << >> ELSE GroupHeaders(stored.groups)
           p == [q EXCEPT !.step = "readEntries", !.save = save, !.copy = copy]
<1>2. request' = [request EXCEPT ![r] = p] /\ UNCHANGED << stored, sessions, started >>
  BY <1>1, RequestHas DEF ReadGroups
<1>3. /\ save \in 0 .. MaxEdits /\ copy \in Seq(InstructionGroup)
      /\ stored # NoRow => save = stored.save /\ CopiedUpTo(copy, 0, stored.groups)
  <2>1. CASE stored = NoRow
    BY <2>1, WorkSessionAssumptions DEF WorkSessionAssumptions
  <2>2. CASE stored # NoRow
    <3>1. stored.save \in 0 .. MaxEdits /\ stored.groups \in Seq(InstructionGroup)
      BY <2>2, StoredValid DEF WorkSessionInv
    <3> DEFINE groups == stored.groups
    <3>2. copy = [i \in 1 .. Len(groups) |-> [repeat |-> groups[i].repeat, entries |-> << >>]]
      BY <2>2, <3>1 DEF GroupHeaders
    <3>3. \A i \in 1 .. Len(groups) : groups[i].repeat \in Nat \ {0}
      <4>1. \A i \in 1 .. Len(groups) : groups[i] \in InstructionGroup
        BY <3>1
      <4>2. QED
        BY <4>1 DEF InstructionGroup
    <3>4. \A i \in 1 .. Len(groups) :
            [repeat |-> groups[i].repeat, entries |-> << >>] \in InstructionGroup
      BY <3>3 DEF InstructionGroup
    <3>5. Len(groups) \in Nat
      BY <3>1
    <3> HIDE DEF copy, groups
    <3>6. copy \in Seq(InstructionGroup) /\ Len(copy) = Len(groups)
      BY <3>2, <3>4, <3>5
    <3>7. CopiedUpTo(copy, 0, groups)
      BY <3>2, <3>5, <3>6 DEF CopiedUpTo
    <3>8. QED
      BY <2>2, <3>1, <3>6, <3>7 DEF groups
  <2>3. QED
    BY <2>1, <2>2
<1> HIDE DEF save, copy
<1>4. /\ p \in RequestType /\ p.step = "readEntries" /\ p.op = q.op /\ p.id = q.id
      /\ p.row = q.row /\ p.copy = copy /\ p.loaded = q.loaded /\ p.save = save
  BY <1>3 DEF RequestType, RequestSteps
<1>5. q.loaded = 0 /\ Len(copy) \in Nat
  BY <1>1, <1>3 DEF RequestPromise
<1> HIDE DEF p
<1>6. stored # NoRow => save <= stored.save
  BY <1>3, WorkSessionAssumptions DEF WorkSessionAssumptions
<1>7. RequestPromise(p)
  BY <1>1, <1>3, <1>4, <1>5, <1>6 DEF RequestPromise
<1>8. QED
  BY <1>2, <1>4, <1>7, RequestReads

\* The entries query of one group: of this save they are all the group has, of an
\* earlier one none are found.
LEMMA ReadEntriesKeeps ==
  ASSUME WorkSessionInv, NEW r \in Requests, ReadEntries(r)
  PROVE  WorkSessionInv'
<1>1. PICK q \in RequestType : q = request[r] /\ RequestPromise(q) /\ q.step = "readEntries"
  BY RequestHas DEF ReadEntries
<1>2. /\ q.copy \in Seq(InstructionGroup) /\ Len(q.copy) \in Nat /\ q.loaded \in Nat
      /\ q.loaded <= Len(q.copy)
  BY <1>1 DEF RequestType, RequestPromise
<1>3. UNCHANGED << stored, sessions, started >>
  BY DEF ReadEntries
<1>4. CASE q.loaded >= Len(q.copy)
  <2> DEFINE p == [q EXCEPT !.step = "write"]
  <2>1. request' = [request EXCEPT ![r] = p]
    BY <1>1, <1>2, <1>4, RequestHas DEF ReadEntries
  <2>2. /\ p \in RequestType /\ p.step = "write" /\ p.op = q.op /\ p.id = q.id
        /\ p.row = q.row /\ p.copy = q.copy /\ p.loaded = q.loaded /\ p.save = q.save
    BY DEF RequestType, RequestSteps
  <2> HIDE DEF p
  <2>3. RequestPromise(p)
    BY <1>1, <1>2, <1>4, <2>2 DEF RequestPromise
  <2>4. QED
    BY <1>3, <2>1, <2>2, <2>3, RequestReads
<1>5. CASE q.loaded < Len(q.copy)
  <2> DEFINE i == q.loaded + 1
             found == EntriesById(i, q.save)
             group == [q.copy[i] EXCEPT !.entries = found]
             copy == [q.copy EXCEPT ![i] = group]
             p == [q EXCEPT !.copy = copy, !.loaded = i]
  <2>1. request' = [request EXCEPT ![r] = p]
    BY <1>1, <1>5, RequestHas DEF ReadEntries
  <2>2. i \in 1 .. Len(q.copy) /\ i \in Nat
    BY <1>2, <1>5
  <2>3. q.copy[i] \in InstructionGroup
    BY <1>2, <2>2
  <2>4. stored # NoRow /\ q.save = stored.save => CopiedUpTo(q.copy, q.loaded, stored.groups)
    BY <1>1 DEF RequestPromise
  <2>5. CASE stored # NoRow /\ q.save = stored.save
    <3>1. /\ stored.groups \in Seq(InstructionGroup) /\ Len(stored.groups) = Len(q.copy)
          /\ q.copy[i].repeat = stored.groups[i].repeat
      BY <2>2, <2>4, <2>5, StoredValid DEF WorkSessionInv, CopiedUpTo
    <3>2. stored.groups[i] \in InstructionGroup /\ found = stored.groups[i].entries
      BY <2>2, <2>5, <3>1 DEF EntriesById
    <3>3. group = stored.groups[i]
      BY <2>3, <3>1, <3>2 DEF InstructionGroup
    <3> HIDE DEF group
    <3>4. copy \in Seq(InstructionGroup) /\ Len(copy) = Len(q.copy)
      BY <1>2, <2>2, <3>2, <3>3, ExceptSeq
    <3>5. CopiedUpTo(copy, i, stored.groups)
      <4> SUFFICES ASSUME NEW j \in 1 .. Len(stored.groups)
                   PROVE  /\ copy[j].repeat = stored.groups[j].repeat
                          /\ j <= i => copy[j] = stored.groups[j]
        BY <3>1, <3>4 DEF CopiedUpTo
      <4>1. CASE j = i
        BY <1>2, <2>2, <3>3, <4>1
      <4>2. CASE j # i
        <5>1. copy[j] = q.copy[j] /\ (j <= i => j <= q.loaded)
          BY <1>2, <2>2, <3>1, <4>2
        <5>2. QED
          BY <2>4, <2>5, <5>1 DEF CopiedUpTo
      <4>3. QED
        BY <4>1, <4>2
    <3> HIDE DEF copy, i
    <3>6. /\ p \in RequestType /\ p.step = q.step /\ p.op = q.op /\ p.id = q.id
          /\ p.row = q.row /\ p.copy = copy /\ p.loaded = i /\ p.save = q.save
      BY <2>2, <3>4 DEF RequestType
    <3> HIDE DEF p
    <3>7. i <= Len(copy)
      BY <2>2, <3>4
    <3>8. RequestPromise(p)
      BY <1>1, <2>5, <3>5, <3>6, <3>7 DEF RequestPromise
    <3>9. QED
      BY <1>3, <2>1, <3>6, <3>8, RequestReads
  <2>6. CASE ~ (stored # NoRow /\ q.save = stored.save)
    <3>1. found = << >> /\ << >> \in Seq(StitchEntry)
      BY <2>6 DEF EntriesById
    <3> HIDE DEF found
    <3>2. group \in InstructionGroup
      BY <2>3, <3>1 DEF InstructionGroup
    <3> HIDE DEF group
    <3>3. copy \in Seq(InstructionGroup) /\ Len(copy) = Len(q.copy)
      BY <1>2, <2>2, <3>2, ExceptSeq
    <3> HIDE DEF copy, i
    <3>4. /\ p \in RequestType /\ p.step = q.step /\ p.op = q.op /\ p.id = q.id
          /\ p.row = q.row /\ p.copy = copy /\ p.loaded = i /\ p.save = q.save
      BY <2>2, <3>3 DEF RequestType
    <3> HIDE DEF p
    <3>5. i <= Len(copy)
      BY <2>2, <3>3
    <3>6. RequestPromise(p)
      BY <1>1, <2>6, <3>4, <3>5 DEF RequestPromise
    <3>7. QED
      BY <1>3, <2>1, <3>4, <3>6, RequestReads
  <2>7. QED
    BY <2>5, <2>6
<1>6. QED
  BY <1>2, <1>4, <1>5

-----------------------------------------------------------------------------
\* A request that comes to its write has all of its save's groups.
LEMMA WholeCopy ==
  ASSUME StoredTyped, stored # NoRow, NEW q \in RequestType, RequestPromise(q),
         q.step = "write", q.save = stored.save
  PROVE  q.copy = stored.groups
<1>1. stored.groups \in Seq(InstructionGroup)
  BY StoredValid
<1>2. q.copy \in Seq(InstructionGroup) /\ Len(q.copy) \in Nat
  BY DEF RequestType
<1>3. CopiedUpTo(q.copy, Len(q.copy), stored.groups)
  BY DEF RequestPromise
<1>4. Len(q.copy) = Len(stored.groups) /\ \A i \in 1 .. Len(q.copy) : q.copy[i] = stored.groups[i]
  BY <1>2, <1>3 DEF CopiedUpTo
<1>5. QED
  BY <1>1, <1>2, <1>4, SeqEqual

\* A pattern that was never edited is what a request has copied when it writes.
LEMMA UneditedCopy ==
  ASSUME StoredTyped, stored # NoRow, stored.save = 0, NEW q \in RequestType,
         RequestPromise(q), q.step = "write"
  PROVE  q.copy = stored.groups
<1>1. q.save \in Nat /\ q.save <= 0
  BY WorkSessionAssumptions DEF RequestType, RequestPromise, WorkSessionAssumptions
<1>2. q.save = stored.save
  BY <1>1
<1>3. QED
  BY <1>2, WholeCopy

\* The row a navigation writes is in order, whatever it was computed from.
LEMMA UpdatedInOrder ==
  ASSUME StoredTyped, NEW q \in RequestType, RequestPromise(q), q.step = "write",
         q.op \in Navigations, Allowed(q.op, q.row), ~ NavigationPanics(q)
  PROVE  /\ Updated(q.op, q.copy, q.row) \in Row
         /\ RowInOrder(Updated(q.op, q.copy, q.row))
<1> DEFINE copy == q.copy
           row == q.row
<1>1. copy \in Seq(InstructionGroup)
  BY DEF RequestType
<1>2. row \in Row /\ RowInOrder(row) /\ row.pos \in Position
  BY DEF RequestType, RequestPromise, Navigations, Operations, Row
<1>3. Stamped(row) /\ row.stamped \in BOOLEAN
  BY <1>2 DEF RowInOrder, Row
<1>4. ASSUME stored # NoRow, stored.save = 0
      PROVE  /\ ValidPattern(copy) /\ copy = stored.groups /\ FitsPattern(copy, row.pos)
             /\ row.status = "completed" <=> PastEnd(copy, row.pos)
  <2>1. copy = stored.groups /\ ValidPattern(copy)
    BY <1>4, StoredValid, UneditedCopy
  <2>2. RowFits(row)
    BY <1>2, <1>4 DEF RowInOrder
  <2>3. QED
    BY <2>1, <2>2 DEF RowFits
<1>5. CASE q.op = "next"
  <2> DEFINE there == NavigateForward(copy, row.pos)
  <2>1. row.status = "active" /\ there \in Position /\ ~ row.stamped
    BY <1>1, <1>2, <1>3, <1>5, ForwardTyped DEF Allowed, Stamped
  <2>2. ASSUME stored # NoRow, stored.save = 0 PROVE FitsPattern(copy, there)
    <3>1. ValidPattern(copy) /\ FitsPattern(copy, row.pos) /\ ~ PastEnd(copy, row.pos)
      BY <1>4, <2>1, <2>2
    <3>2. QED
      BY <3>1, ForwardFits
  <2> HIDE DEF there
  <2>3. CASE PastEnd(copy, there)
    <3>1. Updated(q.op, copy, row) = [pos |-> there, status |-> "completed", stamped |-> TRUE]
      BY <1>5, <2>3 DEF Updated, Moved, there
    <3>2. QED
      BY <1>4, <2>1, <2>2, <2>3, <3>1 DEF Row, RowInOrder, Stamped, RowFits
  <2>4. CASE ~ PastEnd(copy, there)
    <3> DEFINE new == [row EXCEPT !.pos = there]
    <3>1. Updated(q.op, copy, row) = new
      BY <1>5, <2>4 DEF Updated, Moved, there
    <3>2. new \in Row /\ new.pos = there /\ new.status = "active" /\ ~ new.stamped
      BY <1>2, <2>1 DEF Row
    <3> HIDE DEF new
    <3>3. QED
      BY <1>4, <2>2, <2>4, <3>1, <3>2 DEF RowInOrder, Stamped, RowFits
  <2>5. QED
    BY <2>3, <2>4
<1>6. CASE q.op = "prev"
  <2> DEFINE there == NavigateBackward(copy, row.pos)
             new == [row EXCEPT !.pos = there]
  <2>1. row.status = "active" /\ ~ row.stamped /\ ~ BackwardPanics(copy, row.pos)
    BY <1>3, <1>6 DEF Allowed, Stamped, NavigationPanics
  <2>2. there \in Position
    BY <1>1, <1>2, <2>1, BackwardTyped
  <2>3. ASSUME stored # NoRow, stored.save = 0
        PROVE  FitsPattern(copy, there) /\ ~ PastEnd(copy, there)
    <3>1. ValidPattern(copy) /\ FitsPattern(copy, row.pos) /\ ~ PastEnd(copy, row.pos)
      BY <1>4, <2>1, <2>3
    <3>2. QED
      BY <3>1, BackwardFits, BackwardNotPastEnd
  <2>4. Updated(q.op, copy, row) = new
    BY <1>6 DEF Updated
  <2> HIDE DEF there
  <2>5. new \in Row /\ new.pos = there /\ new.status = "active" /\ ~ new.stamped
    BY <1>2, <2>1, <2>2 DEF Row
  <2> HIDE DEF new
  <2>6. QED
    BY <1>4, <2>3, <2>4, <2>5 DEF RowInOrder, Stamped, RowFits
<1>7. ASSUME NEW status \in {"active", "paused"}, row.status # "completed"
      PROVE  LET new == [row EXCEPT !.status = status]
             IN  new \in Row /\ RowInOrder(new)
  <2> DEFINE new == [row EXCEPT !.status = status]
  <2>1. /\ new \in Row /\ new.pos = row.pos /\ new.status = status
        /\ new.stamped = row.stamped /\ ~ row.stamped
    BY <1>2, <1>3, <1>7 DEF Row, Stamped
  <2> HIDE DEF new
  <2>2. RowInOrder(new)
    BY <1>4, <1>7, <2>1 DEF RowInOrder, Stamped, RowFits
  <2>3. QED
    BY <2>1, <2>2 DEF new
<1>8. CASE q.op = "pause"
  <2>1. row.status = "active" /\ Updated(q.op, copy, row) = [row EXCEPT !.status = "paused"]
    BY <1>8 DEF Updated, Allowed
  <2>2. QED
    BY <1>7, <2>1
<1>9. CASE q.op = "resume"
  <2>1. row.status = "paused" /\ Updated(q.op, copy, row) = [row EXCEPT !.status = "active"]
    BY <1>9 DEF Updated, Allowed
  <2>2. QED
    BY <1>7, <2>1
<1>10. QED
  BY <1>5, <1>6, <1>8, <1>9 DEF Navigations

\* An answer to a request that has changed the sessions.
LEMMA WriteKeeps ==
  ASSUME WorkSessionInv, stored' = stored, SessionsInOrder', started <= started',
         NEW r \in Requests, Answer(r)
  PROVE  WorkSessionInv'
<1>1. started \in Nat /\ started' \in Nat
  BY WorkSessionAssumptions DEF WorkSessionInv, SessionsInOrder, WorkSessionAssumptions
<1>2. RequestPromise(Idle)'
  <2>1. PICK q \in RequestType : q = Idle
    BY IdleHonest
  <2>2. RequestPromise(q)'
    BY <1>1, <2>1, IdleHonest, PromiseKept DEF WorkSessionInv, StoredMoves
  <2>3. QED
    BY <2>1, <2>2 DEF RequestPromise
<1>3. QED
  BY <1>2, IdleHonest, RequestGoesOn DEF Answer

\* The UPDATE of a navigation.
LEMMA UpdateSessionKeeps ==
  ASSUME WorkSessionInv, NEW r \in Requests, UpdateSession(r)
  PROVE  WorkSessionInv'
<1>1. PICK q \in RequestType : /\ q = request[r] /\ RequestPromise(q) /\ q.step = "write"
                               /\ q.op \in Navigations
  BY RequestHas DEF UpdateSession
<1>2. stored' = stored /\ started' = started /\ Answer(r) /\ StoredTyped /\ SessionsInOrder
  BY DEF UpdateSession, WorkSessionInv
<1>3. started <= started'
  BY <1>2, WorkSessionAssumptions DEF SessionsInOrder, WorkSessionAssumptions
<1>4. SessionsInOrder'
  <2>1. CASE sessions' = sessions
    BY <1>2, <2>1 DEF SessionsInOrder, RowInOrder, RowFits
  <2>2. CASE /\ Allowed(q.op, q.row) /\ ~ NavigationPanics(q) /\ sessions[q.id] # NoRow
             /\ sessions' = [sessions EXCEPT ![q.id] = Updated(q.op, q.copy, q.row)]
    <3> DEFINE new == Updated(q.op, q.copy, q.row)
    <3>1. new \in Row /\ RowInOrder(new)
      BY <1>1, <1>2, <2>2, UpdatedInOrder
    <3>2. q.id \in SessionIds
      BY <1>1 DEF RequestPromise, Navigations, Operations
    <3> HIDE DEF new
    <3>3. sessions' \in [SessionIds -> Row \cup {NoRow}]
      BY <1>2, <2>2, <3>1 DEF SessionsInOrder, new
    <3>4. ASSUME NEW id \in SessionIds, sessions'[id] # NoRow
          PROVE  id <= started' /\ stored' # NoRow /\ RowInOrder(sessions'[id])
      <4>1. sessions[id] # NoRow /\ (sessions'[id] = new \/ sessions'[id] = sessions[id])
        BY <1>2, <2>2, <3>4 DEF SessionsInOrder, new
      <4>2. QED
        BY <1>2, <3>1, <4>1 DEF SessionsInOrder
    <3>5. \A id \in SessionIds : sessions'[id] # NoRow =>
            id <= started' /\ stored' # NoRow /\ RowInOrder(sessions[id])'
      BY <1>2, <3>4 DEF RowInOrder, RowFits
    <3>6. QED
      BY <1>2, <3>3, <3>5 DEF SessionsInOrder
  <2>3. QED
    BY <1>1, <2>1, <2>2 DEF UpdateSession
<1>5. QED
  BY <1>2, <1>3, <1>4, WriteKeeps

\* The INSERT of Start: the first stitch of the pattern, which is still there.
LEMMA InsertSessionKeeps ==
  ASSUME WorkSessionInv, NEW r \in Requests, InsertSession(r)
  PROVE  WorkSessionInv'
<1>1. stored' = stored /\ Answer(r) /\ StoredTyped /\ SessionsInOrder
  BY DEF InsertSession, WorkSessionInv
<1>2. started \in Nat /\ MaxSessions \in Nat
  BY <1>1, WorkSessionAssumptions DEF SessionsInOrder, WorkSessionAssumptions
<1>3. CASE sessions' = sessions /\ started' = started
  <2>1. SessionsInOrder' /\ started <= started'
    BY <1>1, <1>2, <1>3 DEF SessionsInOrder, RowInOrder, RowFits
  <2>2. QED
    BY <1>1, <2>1, WriteKeeps
<1>4. CASE /\ stored # NoRow /\ started < MaxSessions /\ started' = started + 1
           /\ sessions' = [sessions EXCEPT ![started'] = NewSession]
  <2>1. Start \in Position /\ Start.gi = 0
    BY AtGroupIsPosition DEF Start
  <2>2. NewSession \in Row /\ RowInOrder(NewSession)
    <3>1. NewSession \in Row /\ Stamped(NewSession)
      BY <2>1 DEF NewSession, Row, Stamped
    <3>2. RowFits(NewSession)
      <4>1. ValidPattern(stored.groups) /\ Len(stored.groups) \in Nat /\ Len(stored.groups) > 0
        BY <1>1, <1>4, StoredValid
      <4>2. FitsPattern(stored.groups, Start) /\ ~ PastEnd(stored.groups, Start)
        BY <2>1, <4>1, GroupStartFits DEF Start, PastEnd
      <4>3. QED
        BY <4>2 DEF RowFits, NewSession
    <3>3. QED
      BY <3>1, <3>2 DEF RowInOrder
  <2>3. started' \in 0 .. MaxSessions /\ started' \in SessionIds /\ started <= started'
    BY <1>2, <1>4 DEF SessionIds
  <2>4. sessions' \in [SessionIds -> Row \cup {NoRow}]
    BY <1>1, <1>4, <2>2 DEF SessionsInOrder
  <2>5. ASSUME NEW id \in SessionIds, sessions'[id] # NoRow
        PROVE  id <= started' /\ stored' # NoRow /\ RowInOrder(sessions'[id])
    <3>1. CASE id = started'
      <4>1. sessions'[id] = NewSession
        BY <1>1, <1>4, <2>3, <3>1 DEF SessionsInOrder
      <4>2. QED
        BY <1>1, <1>2, <1>4, <2>2, <3>1, <4>1
    <3>2. CASE id # started'
      <4>1. sessions'[id] = sessions[id] /\ id \in Nat
        BY <1>1, <1>4, <3>2 DEF SessionsInOrder, SessionIds
      <4>2. id <= started /\ RowInOrder(sessions[id])
        BY <1>1, <2>5, <4>1 DEF SessionsInOrder
      <4>3. QED
        BY <1>1, <1>2, <1>4, <4>1, <4>2
    <3>3. QED
      BY <3>1, <3>2
  <2>6. \A id \in SessionIds : sessions'[id] # NoRow =>
          id <= started' /\ stored' # NoRow /\ RowInOrder(sessions[id])'
    BY <1>1, <2>5 DEF RowInOrder, RowFits
  <2>7. SessionsInOrder'
    BY <2>3, <2>4, <2>6 DEF SessionsInOrder
  <2>8. QED
    BY <1>1, <2>3, <2>7, WriteKeeps
<1>5. QED
  BY <1>3, <1>4 DEF InsertSession

\* Rows that stay or go leave the table in order.
LEMMA DeleteSessionKeeps ==
  ASSUME WorkSessionInv, NEW r \in Requests, DeleteSession(r)
  PROVE  WorkSessionInv'
<1>1. /\ stored' = stored /\ started' = started /\ Answer(r) /\ SessionsInOrder
      /\ sessions' = [sessions EXCEPT ![request[r].id] = NoRow]
  BY DEF DeleteSession, WorkSessionInv
<1>2. started <= started'
  BY <1>1, WorkSessionAssumptions DEF SessionsInOrder, WorkSessionAssumptions
<1>3. sessions' \in [SessionIds -> Row \cup {NoRow}]
  BY <1>1 DEF SessionsInOrder
<1>4. \A id \in SessionIds : sessions'[id] # NoRow => sessions'[id] = sessions[id]
  BY <1>1 DEF SessionsInOrder
<1>5. SessionsInOrder'
  BY <1>1, <1>3, <1>4 DEF SessionsInOrder, RowInOrder, RowFits
<1>6. QED
  BY <1>1, <1>2, <1>5, WriteKeeps

\* The owner saves or deletes the pattern while requests hold copies of it.
LEMMA OwnerKeeps ==
  ASSUME WorkSessionInv, SavePattern \/ DeletePattern
  PROVE  WorkSessionInv'
<1>1. /\ StoredTyped /\ SessionsInOrder /\ stored # NoRow /\ started \in Nat /\ MaxEdits \in Nat
      /\ stored.save \in 0 .. MaxEdits /\ stored.save < MaxEdits /\ started' = started
      /\ request' = request
  BY StoredValid, WorkSessionAssumptions
    DEF SavePattern, DeletePattern, WorkSessionInv, SessionsInOrder, WorkSessionAssumptions
<1>2. StoredTyped' /\ StoredMoves /\ SessionsInOrder'
  <2>1. CASE SavePattern
    <3>1. stored' \in [save : {stored.save + 1}, groups : Patterns]
      BY <2>1 DEF SavePattern
    <3>2. stored'.save = stored.save + 1 /\ stored' \in StoredType
      BY <1>1, <3>1 DEF StoredType
    <3>3. stored' # NoRow
      BY <3>2, WorkSessionAssumptions DEF StoredType, WorkSessionAssumptions
    <3>4. StoredTyped' /\ StoredMoves
      BY <1>1, <3>2, <3>3 DEF StoredTyped, StoredMoves
    <3>5. SessionsInOrder'
      <4>1. sessions' = sessions
        BY <2>1 DEF SavePattern
      <4>2. \A row : RowInOrder(row) => RowInOrder(row)'
        BY <1>1, <3>4, RowStaysInOrder
      <4>3. ASSUME NEW id \in SessionIds, sessions[id] # NoRow
            PROVE  id <= started /\ RowInOrder(sessions[id])'
        <5>1. PICK row : row = sessions[id] /\ RowInOrder(row)
          BY <1>1, <4>3 DEF SessionsInOrder
        <5>2. RowInOrder(row)' /\ row = sessions'[id]
          BY <4>1, <4>2, <5>1
        <5>3. QED
          BY <1>1, <4>3, <5>2 DEF SessionsInOrder, RowInOrder
      <4>4. QED
        BY <1>1, <3>3, <4>1, <4>3 DEF SessionsInOrder
    <3>6. QED
      BY <3>4, <3>5
  <2>2. CASE DeletePattern
    BY <1>1, <2>2 DEF DeletePattern, StoredTyped, StoredMoves, SessionsInOrder
  <2>3. QED
    BY <2>1, <2>2
<1>3. request \in [Requests -> RequestType]
  BY DEF WorkSessionInv, RequestsHonest
<1>4. ASSUME NEW s \in Requests PROVE RequestPromise(request[s])'
  <2>1. PICK t \in RequestType : t = request[s] /\ t = request'[s]
    BY <1>1, <1>3
  <2>2. RequestPromise(t)
    BY <2>1 DEF WorkSessionInv, RequestsHonest
  <2>3. started' \in Nat /\ started <= started'
    BY <1>1
  <2>4. RequestPromise(t)'
    BY <1>1, <1>2, <2>2, <2>3, PromiseKept
  <2>5. QED
    BY <2>1, <2>4 DEF RequestPromise
<1>5. QED
  BY <1>1, <1>2, <1>3, <1>4 DEF WorkSessionInv, RequestsHonest

\* Every step keeps the invariant.
LEMMA WorkSessionStep == WorkSessionInv /\ [Next]_vars => WorkSessionInv'
<1> SUFFICES ASSUME WorkSessionInv, [Next]_vars PROVE WorkSessionInv'
  OBVIOUS
<1>1. ASSUME NEW r \in Requests, Handle(r) PROVE WorkSessionInv'
  BY <1>1, BeginKeeps, ReadPatternKeeps, ReadGroupsKeeps, ReadEntriesKeeps, UpdateSessionKeeps,
     InsertSessionKeeps, DeleteSessionKeeps, AnswerKeeps DEF Handle, AnswerView, Abort
<1>2. CASE SavePattern \/ DeletePattern
  BY <1>2, OwnerKeeps
<1>3. CASE UNCHANGED vars
  <2>1. UNCHANGED << stored, sessions, started, request >>
    BY <1>3 DEF vars
  <2>2. \A row : RowInOrder(row)' <=> RowInOrder(row)
    BY <2>1 DEF RowInOrder, RowFits
  <2>3. \A q : RequestPromise(q)' <=> RequestPromise(q)
    BY <2>1, <2>2 DEF RequestPromise
  <2>4. StoredTyped' /\ SessionsInOrder' /\ RequestsHonest'
    BY <2>1 DEF WorkSessionInv, StoredTyped, SessionsInOrder, RequestsHonest, RequestPromise,
         RowInOrder, RowFits
  <2>5. QED
    BY <2>4 DEF WorkSessionInv
<1>4. QED
  BY <1>1, <1>2, <1>3 DEF Next

-----------------------------------------------------------------------------
\* The invariant holds in every state, whatever interleaves.
THEOREM WorkSessionInvHolds == Spec => []WorkSessionInv
BY WorkSessionInit, WorkSessionStep, PTL DEF Spec

\* Rows, requests and the pattern are well formed, though requests navigate on
\* torn copies: no counter of a row goes below 0.
THEOREM WorkSessionTypeCorrect == Spec => []TypeOK
<1>1. WorkSessionInv => TypeOK
  <2> SUFFICES ASSUME WorkSessionInv PROVE TypeOK
    OBVIOUS
  <2>1. stored # NoRow => stored \in [save : 0 .. MaxEdits, groups : Patterns]
    BY DEF WorkSessionInv, StoredTyped, StoredType
  <2>2. /\ started \in 0 .. MaxSessions
        /\ \A id \in SessionIds : sessions[id] # NoRow => sessions[id] \in Row /\ id <= started
    BY DEF WorkSessionInv, SessionsInOrder
  <2>3. ASSUME NEW r \in Requests
        PROVE  /\ request[r].step \in RequestSteps
               /\ request[r].op \in Operations \cup {"none"}
               /\ request[r].row # NoRow => request[r].row \in Row
               /\ request[r].loaded \in 0 .. Len(request[r].copy)
    <3>1. request[r] \in RequestType /\ RequestPromise(request[r])
      BY RequestHas
    <3>2. request[r].loaded \in Nat /\ Len(request[r].copy) \in Nat
      BY <3>1 DEF RequestType
    <3>3. QED
      BY <3>1, <3>2 DEF RequestType, RequestPromise
  <2>4. QED
    BY <2>1, <2>2, <2>3 DEF TypeOK, RequestSteps
<1>2. QED
  BY <1>1, WorkSessionInvHolds, PTL

\* completed_at is set exactly in completed rows, in the table and in every
\* copy that a request may still write back.
THEOREM CompletionAlwaysStamped == Spec => []CompletionIsStamped
<1>1. WorkSessionInv => CompletionIsStamped
  BY DEF WorkSessionInv, SessionsInOrder, RequestsHonest, RequestPromise, RowInOrder, Stamped,
         CompletionIsStamped, LiveRows, LoadedRows
<1>2. QED
  BY <1>1, WorkSessionInvHolds, PTL

\* No session outlives its pattern.
THEOREM SessionsKeepTheirPattern == Spec => []SessionsHaveTheirPattern
<1>1. WorkSessionInv => SessionsHaveTheirPattern
  BY DEF WorkSessionInv, SessionsInOrder, SessionsHaveTheirPattern, LiveRows
<1>2. QED
  BY <1>1, WorkSessionInvHolds, PTL

\* While the pattern was never edited, every stored row is one of its positions,
\* and completed exactly when past its end.
THEOREM RowsFitUneditedPattern == Spec => []StoredRowsFit
<1>1. WorkSessionInv => StoredRowsFit
  BY DEF WorkSessionInv, SessionsInOrder, RowInOrder, StoredRowsFit, LiveRows
<1>2. QED
  BY <1>1, WorkSessionInvHolds, PTL

\* No request brings back a row that was deleted.
THEOREM AbandonedStayAbandoned == Spec => AbandonedForGood
<1>1. WorkSessionInv /\ [Next]_vars =>
        \A id \in SessionIds : id <= started /\ sessions[id] = NoRow => sessions'[id] = NoRow
  <2> SUFFICES ASSUME WorkSessionInv, [Next]_vars, NEW id \in SessionIds,
                      id <= started, sessions[id] = NoRow
               PROVE  sessions'[id] = NoRow
    OBVIOUS
  <2>1. id \in Nat /\ started \in Nat /\ sessions \in [SessionIds -> Row \cup {NoRow}]
    BY WorkSessionAssumptions
      DEF WorkSessionInv, SessionsInOrder, SessionIds, WorkSessionAssumptions
  <2>2. ASSUME NEW r \in Requests, UpdateSession(r) PROVE sessions'[id] = NoRow
    BY <2>1, <2>2 DEF UpdateSession
  <2>3. ASSUME NEW r \in Requests, InsertSession(r) PROVE sessions'[id] = NoRow
    <3>1. sessions' = sessions \/ sessions' = [sessions EXCEPT ![started + 1] = NewSession]
      BY <2>3 DEF InsertSession
    <3>2. id # started + 1
      BY <2>1
    <3>3. QED
      BY <2>1, <3>1, <3>2
  <2>4. ASSUME NEW r \in Requests, DeleteSession(r) PROVE sessions'[id] = NoRow
    BY <2>1, <2>4 DEF DeleteSession
  <2>5. CASE sessions' = sessions
    BY <2>5
  <2>6. CASE DeletePattern
    BY <2>6 DEF DeletePattern
  <2>7. \/ sessions' = sessions \/ DeletePattern
        \/ \E r \in Requests : UpdateSession(r) \/ InsertSession(r) \/ DeleteSession(r)
    BY DEF Next, vars, Handle, BeginStart, ReadSession, ReadPattern, ReadGroups, ReadEntries,
           AnswerView, Abort, SavePattern
  <2>8. QED
    BY <2>2, <2>3, <2>4, <2>5, <2>6, <2>7
<1>2. QED
  BY <1>1, WorkSessionInvHolds, PTL DEF Spec, AbandonedForGood

-----------------------------------------------------------------------------
\* Navigation reads the same moves as this module.
LEMMA NavigatedMoves ==
  ASSUME NEW id, NEW p, NEW pos0
  PROVE  /\ Navigated(id)!NavigateForward(p, pos0) = NavigateForward(p, pos0)
         /\ Navigated(id)!NavigateBackward(p, pos0) = NavigateBackward(p, pos0)
         /\ Navigated(id)!PastEnd(p, pos0) <=> PastEnd(p, pos0)
<1>1. \A q, s : Navigated(id)!PastEnd(q, s) <=> PastEnd(q, s)
  BY DEF Navigated!PastEnd, PastEnd
<1>2. /\ \A a, b, c, d, e : Navigated(id)!At(a, b, c, d, e) = At(a, b, c, d, e)
      /\ \A g : Navigated(id)!AtGroup(g) = AtGroup(g)
      /\ Navigated(id)!Start = Start
      /\ \A q, g : Navigated(id)!GroupAt(q, g) = GroupAt(q, g)
      /\ \A q, g : Navigated(id)!EntriesAt(q, g) = EntriesAt(q, g)
      /\ \A q, g, e : Navigated(id)!EntryAt(q, g, e) = EntryAt(q, g, e)
      /\ \A q, g : Navigated(id)!IsEmptyGroup(q, g) <=> IsEmptyGroup(q, g)
  BY DEF Navigated!At, At, Navigated!AtGroup, AtGroup, Navigated!Start, Start,
         Navigated!GroupAt, GroupAt, Navigated!EntriesAt, EntriesAt, Navigated!EntryAt, EntryAt,
         Navigated!IsEmptyGroup, IsEmptyGroup
<1>3. /\ \A S : Navigated(id)!Min(S) = Min(S)
      /\ \A S : Navigated(id)!Max(S) = Max(S)
  BY DEF Navigated!Min, Min, Navigated!Max, Max
<1>4. /\ \A q, g : Navigated(id)!NonEmptyFrom(q, g) = NonEmptyFrom(q, g)
      /\ \A q, g : Navigated(id)!NonEmptyBefore(q, g) = NonEmptyBefore(q, g)
  BY <1>2 DEF Navigated!NonEmptyFrom, NonEmptyFrom, Navigated!NonEmptyBefore, NonEmptyBefore
<1>5. \A q, s : Navigated(id)!AdvanceGroup(q, s) = AdvanceGroup(q, s)
  BY <1>2, <1>3, <1>4 DEF Navigated!AdvanceGroup, AdvanceGroup
<1>6. \A q, s : Navigated(id)!AdvanceGroupRepeat(q, s) = AdvanceGroupRepeat(q, s)
  BY <1>2, <1>5 DEF Navigated!AdvanceGroupRepeat, AdvanceGroupRepeat
<1>7. \A q, s : Navigated(id)!AdvanceInGroup(q, s) = AdvanceInGroup(q, s)
  BY <1>2, <1>6 DEF Navigated!AdvanceInGroup, AdvanceInGroup
<1>8. Navigated(id)!NavigateForward(p, pos0) = NavigateForward(p, pos0)
  BY <1>1, <1>2, <1>5, <1>7 DEF Navigated!NavigateForward, NavigateForward
<1>9. \A q, g, r, e : Navigated(id)!EndOfEntry(q, g, r, e) = EndOfEntry(q, g, r, e)
  BY <1>2 DEF Navigated!EndOfEntry, EndOfEntry
<1>10. \A q, g, r : Navigated(id)!EndOfGroupRepeat(q, g, r) = EndOfGroupRepeat(q, g, r)
  BY <1>2, <1>9 DEF Navigated!EndOfGroupRepeat, EndOfGroupRepeat
<1>11. \A q, s : Navigated(id)!RetreatToPreviousGroup(q, s) = RetreatToPreviousGroup(q, s)
  BY <1>2, <1>3, <1>4, <1>10 DEF Navigated!RetreatToPreviousGroup, RetreatToPreviousGroup
<1>12. Navigated(id)!NavigateBackward(p, pos0) = NavigateBackward(p, pos0)
  BY <1>2, <1>9, <1>10, <1>11 DEF Navigated!NavigateBackward, NavigateBackward
<1>13. QED
  BY <1>1, <1>8, <1>12

\* What the UPDATE of an up-to-date request does is a step of Navigation.
LEMMA UpdateNavigates ==
  ASSUME NEW id \in SessionIds, NEW row \in Row, NEW op \in Navigations,
         sessions[id] = row, Allowed(op, row), stored' = stored,
         sessions'[id] = Updated(op, stored.groups, row)
  PROVE  Navigated(id)!Next
<1> DEFINE p == stored.groups
<1>1. p' = p
  OBVIOUS
<1>2. CASE op = "next"
  <2> DEFINE there == NavigateForward(p, row.pos)
  <2>1. row.status = "active" /\ sessions'[id] = Moved(p, row)
    BY <1>2 DEF Allowed, Updated
  <2>2. /\ sessions'[id].pos = there
        /\ sessions'[id].status = IF PastEnd(p, there) THEN "completed" ELSE row.status
    BY <2>1 DEF Moved, Row
  <2>3. Navigated(id)!Forward
    BY <1>1, <2>1, <2>2, NavigatedMoves DEF Navigated!Forward
  <2>4. QED
    BY <2>3 DEF Navigated!Next
<1>3. CASE op = "prev"
  <2>1. row.status = "active" /\ sessions'[id] = [row EXCEPT !.pos = NavigateBackward(p, row.pos)]
    BY <1>3 DEF Allowed, Updated
  <2>2. /\ sessions'[id].pos = NavigateBackward(p, row.pos)
        /\ sessions'[id].status = row.status
    BY <2>1 DEF Row
  <2>3. Navigated(id)!Backward
    BY <1>1, <2>1, <2>2, NavigatedMoves DEF Navigated!Backward
  <2>4. QED
    BY <2>3 DEF Navigated!Next
<1>4. CASE op = "pause"
  <2>1. row.status = "active" /\ sessions'[id] = [row EXCEPT !.status = "paused"]
    BY <1>4 DEF Allowed, Updated
  <2>2. sessions'[id].pos = row.pos /\ sessions'[id].status = "paused"
    BY <2>1 DEF Row
  <2>3. Navigated(id)!Pause
    BY <1>1, <2>1, <2>2 DEF Navigated!Pause
  <2>4. QED
    BY <2>3 DEF Navigated!Next
<1>5. CASE op = "resume"
  <2>1. row.status = "paused" /\ sessions'[id] = [row EXCEPT !.status = "active"]
    BY <1>5 DEF Allowed, Updated
  <2>2. sessions'[id].pos = row.pos /\ sessions'[id].status = "active"
    BY <2>1 DEF Row
  <2>3. Navigated(id)!Resume
    BY <1>1, <2>1, <2>2 DEF Navigated!Resume
  <2>4. QED
    BY <2>3 DEF Navigated!Next
<1>6. QED
  BY <1>2, <1>3, <1>4, <1>5 DEF Navigations

\* The step formula of RequestsNavigate.
NavigatesStep ==
  \A id \in SessionIds, r \in Requests :
    sessions[id] # NoRow /\ FinishesUpToDate(r, id) => [Navigated(id)!Next]_(sessions[id])

\* Whatever else is in progress, a request nobody has overtaken changes its
\* session by a step of Navigation.
THEOREM UpToDateRequestsNavigate == Spec => RequestsNavigate
<1>1. WorkSessionInv /\ [Next]_vars => NavigatesStep
  <2> SUFFICES ASSUME WorkSessionInv, [Next]_vars, NEW id \in SessionIds, NEW r \in Requests,
                      sessions[id] # NoRow, FinishesUpToDate(r, id),
                      sessions'[id] # sessions[id]
               PROVE  Navigated(id)!Next
    BY DEF NavigatesStep
  <2> DEFINE q == request[r]
  <2>1. /\ q.step = "write" /\ q.op \in Navigations /\ q.id = id /\ request'[r] = Idle
        /\ q.row = sessions[id] /\ q.copy = stored.groups /\ q # Idle
    BY IdleHonest DEF FinishesUpToDate
  <2>2. PICK s \in Requests : UpdateSession(s) \/ InsertSession(s) \/ DeleteSession(s)
    <3>1. request' # request /\ sessions' # sessions
      BY <2>1
    <3>2. QED
      BY <3>1 DEF Next, vars, Handle, BeginStart, ReadSession, ReadPattern, ReadGroups,
         ReadEntries, AnswerView, Abort, SavePattern, DeletePattern
  <2>3. s = r
    <3>1. request' = [request EXCEPT ![s] = Idle]
      BY <2>2 DEF UpdateSession, InsertSession, DeleteSession, Answer
    <3>2. QED
      BY <2>1, <3>1, RequestHas
  <2>4. UpdateSession(r)
    BY <2>1, <2>2, <2>3 DEF InsertSession, DeleteSession, Navigations
  <2>5. /\ stored' = stored /\ Allowed(q.op, q.row)
        /\ sessions' = [sessions EXCEPT ![q.id] = Updated(q.op, q.copy, q.row)]
    BY <2>4 DEF UpdateSession
  <2>6. sessions[id] \in Row /\ sessions'[id] = Updated(q.op, q.copy, q.row)
    BY <2>1, <2>5 DEF WorkSessionInv, SessionsInOrder
  <2>7. QED
    BY <2>1, <2>5, <2>6, UpdateNavigates
<1>2. QED
  BY <1>1, WorkSessionInvHolds, PTL DEF Spec, RequestsNavigate, NavigatesStep
===============================================================================
