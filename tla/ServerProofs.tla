----------------------------- MODULE ServerProofs -----------------------------
(***************************************************************************)
(* Proofs about Server, for every number of releases, users, requests and  *)
(* crashes: the log of migrations, what a serving process can rely on, the *)
(* refinement of StitchLibrary, and whose stitches a request changes.      *)
(***************************************************************************)
EXTENDS Server, FiniteSetTheorems, SequenceTheorems, TLAPS

\* A row of the table stitches.
RowType == [abbr : Abbreviations, owner : Users \cup {Nobody}, had : SUBSET Abbreviations]

\* Rows have ids that were issued.
RowsTyped ==
  /\ issued \in Nat
  /\ stitches \in [DOMAIN stitches -> RowType]
  /\ \A i \in DOMAIN stitches : i \in 1 .. issued /\ stitches[i].abbr \in stitches[i].had

\* What a process knows of itself.
ProcessType ==
  [phase : Phases, release : DOMAIN Releases \cup {0}, applied : SUBSET Nat, at : Nat]

\* A process runs a release there is, and drains only when it is to stop.
ProcessTyped ==
  /\ installed \in DOMAIN Releases /\ wanted \in BOOLEAN
  /\ server \in ProcessType
  /\ server.phase # "down" => server.release \in DOMAIN Releases
  /\ server.phase = "draining" => ~ wanted
  /\ crashes \in 0 .. MaxCrashes /\ stops \in 0 .. MaxStops

\* The log of migrations while a process works on it: what it has read is a
\* prefix 1 .. m, and it has recorded everything below its place or below m.
LogInOrder ==
  /\ ran \in Seq(Nat)
  /\ MigrationsOnceInOrder
  /\ server.phase = "migrate" =>
       /\ server.at \in 1 .. Migrations + 1
       /\ \E m \in Nat : /\ server.applied = 1 .. m
                         /\ Len(ran) = IF server.at > m THEN server.at - 1 ELSE m
  /\ server.phase \in {"seed", "seedInsert"} \/ Running => Migrations <= Len(ran)

\* The stitches below the place of the loop are predefined; at the insert, the
\* stitch at its place still is not.
SeededSoFar ==
  /\ server.phase \in {"seed", "seedInsert"} =>
       /\ server.at \in 1 .. Len(Predefined) + 1
       /\ \A n \in 1 .. server.at - 1 : IsPredefined(Predefined[n])
  /\ server.phase = "seedInsert" =>
       server.at <= Len(Predefined) /\ ~ IsPredefined(Predefined[server.at])
  /\ Running => \A n \in DOMAIN Predefined : IsPredefined(Predefined[n])

\* The steps a request can be at.
RequestSteps == {"idle", "get", "check", "write"}

\* What a request knows.
RequestType == [step : RequestSteps, op : {"none", "create", "update", "delete"},
                user : Users \cup {Nobody}, id : Nat, abbr : Abbreviations \cup {"none"}]

\* What a request has checked, which is still true when it writes: the stitch is
\* its user's own, and the abbreviation is not predefined, or the row's own.
RequestPromise(q) ==
  /\ q.user \in Users
  /\ q.step # "idle"
  /\ q.op = "create" => q.step # "get" /\ q.id = 0
  /\ q.op \in {"create", "update"} => q.abbr \in Abbreviations
  /\ q.step = "check" => q.op # "delete"
  /\ q.op # "none"
  /\ q.id <= issued
  /\ q.step # "get" /\ q.id \in DOMAIN stitches => stitches[q.id].owner = q.user
  /\ q.step = "write" /\ q.op = "create" => ~ IsPredefined(q.abbr)
  /\ q.step = "write" /\ q.op = "update" /\ q.id \in DOMAIN stitches =>
       ~ IsPredefined(q.abbr) \/ q.abbr \in stitches[q.id].had

\* Requests in progress are in a process that serves, and can rely on that.
RequestsHonest ==
  /\ request \in [Requests -> RequestType]
  /\ \A r \in Requests : request[r] # Idle => Running /\ RequestPromise(request[r])

\* The inductive invariant.
ServerInv == RowsTyped /\ ProcessTyped /\ LogInOrder /\ SeededSoFar /\ RequestsHonest

-----------------------------------------------------------------------------
\* Rows after an INSERT.
LEMMA WithRow ==
  ASSUME NEW S, NEW rows, rows \in [DOMAIN rows -> S], NEW id, NEW s \in S
  PROVE  /\ With(rows, id, s) \in [DOMAIN rows \cup {id} -> S]
         /\ DOMAIN With(rows, id, s) = DOMAIN rows \cup {id}
         /\ With(rows, id, s)[id] = s
         /\ \A i \in DOMAIN rows : i # id => With(rows, id, s)[i] = rows[i]
BY DEF With

\* The row an INSERT writes.
LEMMA NewRow ==
  ASSUME NEW a \in Abbreviations, NEW owner \in Users \cup {Nobody}
  PROVE  /\ Stitch(a, owner) \in RowType
         /\ Stitch(a, owner).abbr = a /\ Stitch(a, owner).owner = owner
         /\ a \in Stitch(a, owner).had
BY DEF Stitch, RowType

\* An answered request is idle, and idle requests are typed.
LEMMA IdleTyped ==
  /\ Idle \in RequestType /\ Idle.step = "idle" /\ Idle.id = 0 /\ Idle.op = "none"
BY DEF Idle, RequestType, RequestSteps

\* What a request may do to the rows.
RowsKept ==
  /\ issued <= issued'
  /\ \A a : IsPredefined(a)' <=> IsPredefined(a)
  /\ \A i \in DOMAIN stitches' :
       \/ i > issued
       \/ /\ i \in DOMAIN stitches
          /\ stitches'[i].owner = stitches[i].owner
          /\ stitches[i].had \subseteq stitches'[i].had

\* A step that leaves the table alone keeps it for the requests.
LEMMA UnchangedKept ==
  ASSUME RowsTyped, UNCHANGED << stitches, issued >>
  PROVE  RowsTyped' /\ RowsKept
BY DEF RowsTyped, RowsKept, IsPredefined

\* An INSERT takes an id nothing has, and leaves the other rows.
LEMMA InsertedTyped ==
  ASSUME RowsTyped, NEW a \in Abbreviations, NEW owner \in Users \cup {Nobody},
         Inserted(Stitch(a, owner))
  PROVE  /\ RowsTyped'
         /\ issued' = issued + 1 /\ issued' \notin DOMAIN stitches
         /\ DOMAIN stitches' = DOMAIN stitches \cup {issued'}
         /\ stitches'[issued'] = Stitch(a, owner)
         /\ \A i \in DOMAIN stitches : stitches'[i] = stitches[i]
<1> DEFINE s == Stitch(a, owner)
<1>1. s \in RowType /\ s.abbr \in s.had
  BY NewRow
<1>2. issued' = issued + 1 /\ stitches' = With(stitches, issued', s)
  BY DEF Inserted
<1>3. /\ issued \in Nat /\ stitches \in [DOMAIN stitches -> RowType]
      /\ \A i \in DOMAIN stitches : i \in 1 .. issued
  BY DEF RowsTyped
<1>4. issued' \notin DOMAIN stitches
  BY <1>2, <1>3
<1> HIDE DEF s
<1>5. /\ stitches' \in [DOMAIN stitches \cup {issued'} -> RowType]
      /\ DOMAIN stitches' = DOMAIN stitches \cup {issued'}
      /\ stitches'[issued'] = s
      /\ \A i \in DOMAIN stitches : i # issued' => stitches'[i] = stitches[i]
  BY <1>1, <1>2, <1>3 DEF With
<1>6. \A i \in DOMAIN stitches : stitches'[i] = stitches[i]
  BY <1>4, <1>5
<1>7. RowsTyped'
  BY <1>1, <1>2, <1>3, <1>5, <1>6 DEF RowsTyped
<1>8. QED
  BY <1>2, <1>4, <1>5, <1>6, <1>7 DEF s

\* The INSERT of a user's stitch predefines nothing.
LEMMA InsertedKept ==
  ASSUME RowsTyped, NEW a \in Abbreviations, NEW u \in Users, Inserted(Stitch(a, u))
  PROVE  RowsTyped' /\ RowsKept
<1>1. /\ RowsTyped'
      /\ issued' = issued + 1 /\ issued' \notin DOMAIN stitches
      /\ DOMAIN stitches' = DOMAIN stitches \cup {issued'}
      /\ stitches'[issued'] = Stitch(a, u)
      /\ \A i \in DOMAIN stitches : stitches'[i] = stitches[i]
  BY InsertedTyped
<1>2. stitches'[issued'].owner # Nobody
  BY <1>1, NewRow, ServerAssumptions DEF ServerAssumptions
<1>3. \A b : IsPredefined(b)' <=> IsPredefined(b)
  BY <1>1, <1>2 DEF IsPredefined
<1>4. issued \in Nat
  BY DEF RowsTyped
<1>5. QED
  BY <1>1, <1>3, <1>4 DEF RowsKept

\* What was promised to a request is not undone by another.
LEMMA PromiseKept ==
  ASSUME RowsTyped, RowsTyped', RowsKept, NEW q \in RequestType, RequestPromise(q)
  PROVE  RequestPromise(q)'
<1>1. q.id \in Nat /\ q.id <= issued /\ issued \in Nat /\ issued' \in Nat /\ issued <= issued'
  BY DEF RequestType, RequestPromise, RowsTyped, RowsKept
<1>2. q.id <= issued'
  BY <1>1
<1>3. ASSUME q.id \in DOMAIN stitches'
      PROVE  /\ q.id \in DOMAIN stitches
             /\ stitches'[q.id].owner = stitches[q.id].owner
             /\ stitches[q.id].had \subseteq stitches'[q.id].had
  BY <1>1, <1>3 DEF RowsKept
<1>4. \A a : IsPredefined(a)' <=> IsPredefined(a)
  BY DEF RowsKept
<1>5. QED
  BY <1>2, <1>3, <1>4 DEF RequestPromise

\* A step of one request, while the server runs.
LEMMA RequestGoesOn ==
  ASSUME ServerInv, Running, server' = server, RowsTyped', RowsKept,
         UNCHANGED << operator, crashes, recorded, ran >>,
         NEW r \in Requests, NEW q \in RequestType,
         request' = [request EXCEPT ![r] = q],
         q = Idle \/ RequestPromise(q)'
  PROVE  ServerInv'
<1>1. ProcessTyped'
  BY DEF ServerInv, ProcessTyped, operator
<1>2. LogInOrder'
  BY DEF ServerInv, LogInOrder, MigrationsOnceInOrder, Migrations, Running
<1>3. SeededSoFar'
  BY DEF ServerInv, SeededSoFar, Running, RowsKept, Predefined
<1>4. request \in [Requests -> RequestType] /\ request' \in [Requests -> RequestType]
  BY DEF ServerInv, RequestsHonest
<1>5. ASSUME NEW s \in Requests, request'[s] # Idle
      PROVE  Running' /\ RequestPromise(request[s])'
  <2>1. Running'
    BY DEF Running
  <2>2. CASE s = r
    <3>1. q # Idle /\ request'[s] = q
      BY <1>4, <1>5, <2>2
    <3>2. QED
      BY <2>1, <3>1 DEF RequestPromise
  <2>3. CASE s # r
    <3>1. request'[s] = request[s] /\ request[s] \in RequestType
      BY <1>4, <2>3
    <3>2. RequestPromise(request[s])
      BY <1>5, <3>1 DEF ServerInv, RequestsHonest
    <3>3. PICK p \in RequestType : p = request[s] /\ request'[s] = p
      BY <3>1
    <3>4. RequestPromise(p)
      BY <3>2, <3>3
    <3>5. RequestPromise(p)'
      BY <3>3, <3>4, PromiseKept DEF ServerInv
    <3>6. QED
      BY <2>1, <3>3, <3>5 DEF RequestPromise
  <2>4. QED
    BY <2>2, <2>3
<1>6. QED
  BY <1>1, <1>2, <1>3, <1>4, <1>5 DEF ServerInv, RequestsHonest

-----------------------------------------------------------------------------
\* The inductive invariant holds before the first start.
LEMMA ServerInvInit == Init => ServerInv
<1> SUFFICES ASSUME Init PROVE ServerInv
  OBVIOUS
<1>1. RowsTyped
  BY DEF Init, RowsTyped
<1>2. ProcessTyped
  BY ServerAssumptions DEF ProcessType, Init, ProcessTyped, Phases, Down, ServerAssumptions
<1>3. LogInOrder
  BY DEF Init, LogInOrder, MigrationsOnceInOrder, Down, Running
<1>4. SeededSoFar
  BY DEF Init, SeededSoFar, Down, Running
<1>5. RequestsHonest
  BY IdleTyped DEF Init, RequestsHonest
<1>6. QED
  BY <1>1, <1>2, <1>3, <1>4, <1>5 DEF ServerInv

\* No request is in progress in a process that does not serve.
LEMMA NobodyWaits ==
  ASSUME RequestsHonest, ~ Running, UNCHANGED request
  PROVE  RequestsHonest'
BY DEF RequestsHonest

\* A release has its migrations and its predefined stitches.
LEMMA ReleaseTyped ==
  ASSUME ProcessTyped, server.phase # "down"
  PROVE  /\ Migrations \in Nat \ {0}
         /\ Predefined \in Seq(Abbreviations)
         /\ Len(Predefined) \in Nat
         /\ DOMAIN Predefined = 1 .. Len(Predefined)
<1>1. server.release \in DOMAIN Releases
  BY DEF ProcessTyped
<1>2. Predefined \in Seq(Abbreviations) /\ Migrations \in Nat \ {0}
  BY <1>1, ServerAssumptions DEF ServerAssumptions, Predefined, Migrations
<1>3. QED
  BY <1>2

\* The start of a process keeps the invariant.
LEMMA StartKeeps ==
  ASSUME ServerInv, StartProcess
  PROVE  ServerInv'
<1>1. RowsTyped'
  BY UnchangedKept DEF ServerInv, StartProcess, database
<1>2. ProcessTyped'
  BY DEF ProcessType, ServerInv, ProcessTyped, StartProcess, operator, Down, Phases
<1>3. server'.phase = "readApplied" /\ UNCHANGED << recorded, ran >>
  BY DEF StartProcess, Down, database
<1>4. LogInOrder'
  BY <1>3 DEF ServerInv, LogInOrder, MigrationsOnceInOrder, Running
<1>5. SeededSoFar'
  BY <1>3 DEF SeededSoFar, Running
<1>6. RequestsHonest'
  BY NobodyWaits DEF ServerInv, StartProcess, Running
<1>7. QED
  BY <1>1, <1>2, <1>4, <1>5, <1>6 DEF ServerInv

\* What a process reads of the log is a prefix.
LEMMA ReadAppliedKeeps ==
  ASSUME ServerInv, ReadApplied
  PROVE  ServerInv'
<1>0. server \in ProcessType
  BY DEF ServerInv, ProcessTyped
<1>1. RowsTyped'
  BY UnchangedKept DEF ServerInv, ReadApplied, database
<1>2. /\ recorded = 1 .. Len(ran) /\ Len(ran) \in Nat
      /\ server'.phase = "migrate" /\ server'.applied = recorded /\ server'.at = 1
      /\ server'.release = server.release /\ UNCHANGED << recorded, ran >>
  BY <1>0 DEF ServerInv, LogInOrder, MigrationsOnceInOrder, ReadApplied, database
<1>3. ProcessTyped'
  <2>1. recorded \in SUBSET Nat
    BY <1>2
  <2>2. QED
    BY <2>1 DEF ProcessType, ServerInv, ProcessTyped, ReadApplied, operator, Phases
<1>4. LogInOrder'
  <2>1. Migrations' = Migrations /\ Migrations \in Nat
    BY <1>2, ReleaseTyped DEF Migrations, ReadApplied, ServerInv
  <2>2. server'.at \in 1 .. Migrations' + 1
    BY <1>2, <2>1
  <2>3. Len(ran)' = IF server'.at > Len(ran) THEN server'.at - 1 ELSE Len(ran)
    BY <1>2
  <2>4. server'.applied = 1 .. Len(ran)
    BY <1>2
  <2>5. QED
    BY <1>2, <2>2, <2>3, <2>4 DEF ServerInv, LogInOrder, MigrationsOnceInOrder, Running
<1>5. SeededSoFar'
  BY <1>2 DEF SeededSoFar, Running
<1>6. RequestsHonest'
  BY NobodyWaits DEF ServerInv, ReadApplied, Running
<1>7. QED
  BY <1>1, <1>3, <1>4, <1>5, <1>6 DEF ServerInv

\* A migration that is not in the log is the one after its end.
LEMMA ApplyMigrationKeeps ==
  ASSUME ServerInv, ApplyMigration
  PROVE  ServerInv'
<1>0. /\ server \in ProcessType
      /\ server.phase = "migrate" /\ server.at \in Nat /\ server.at <= Migrations
      /\ Migrations \in Nat
  BY ReleaseTyped DEF ProcessType, ServerInv, ProcessTyped, ApplyMigration
<1>1. RowsTyped'
  BY UnchangedKept DEF ServerInv, ApplyMigration
<1>2. /\ server'.phase = "migrate" /\ server'.applied = server.applied
      /\ server'.at = server.at + 1 /\ server'.release = server.release
      /\ server' \in ProcessType
  BY <1>0 DEF ProcessType, ApplyMigration
<1>3. ProcessTyped'
  BY <1>0, <1>2 DEF ServerInv, ProcessTyped, ApplyMigration, operator
<1>4. LogInOrder'
  <2>1. PICK m \in Nat : /\ server.applied = 1 .. m
                         /\ Len(ran) = IF server.at > m THEN server.at - 1 ELSE m
    BY <1>0 DEF ServerInv, LogInOrder
  <2>2. server.at \in 1 .. Migrations + 1
    BY <1>0 DEF ServerInv, LogInOrder
  <2>3. ran \in Seq(Nat) /\ ran = [n \in 1 .. Len(ran) |-> n] /\ recorded = 1 .. Len(ran)
        /\ Len(ran) \in Nat
    <3>1. ran \in Seq(Nat)
      BY DEF ServerInv, LogInOrder
    <3>2. Len(ran) \in Nat
      BY <3>1
    <3>3. QED
      BY <3>1, <3>2 DEF ServerInv, LogInOrder, MigrationsOnceInOrder
  <2>4. Migrations' = Migrations
    BY <1>2 DEF Migrations
  <2>5. ~ (server'.phase \in {"seed", "seedInsert"} \/ Running')
    BY <1>2 DEF Running
  <2>6. server'.at \in 1 .. Migrations' + 1
    BY <1>0, <1>2, <2>2, <2>4
  <2>7. CASE server.at \in server.applied
    <3>1. UNCHANGED << recorded, ran >>
      BY <2>7 DEF ApplyMigration
    <3>2. Len(ran)' = IF server'.at > m THEN server'.at - 1 ELSE m
      BY <1>0, <1>2, <2>1, <2>7, <3>1
    <3>3. QED
      BY <1>2, <2>1, <2>3, <2>5, <2>6, <3>1, <3>2 DEF LogInOrder, MigrationsOnceInOrder
  <2>8. CASE server.at \notin server.applied
    <3>1. recorded' = recorded \cup {server.at} /\ ran' = Append(ran, server.at)
      BY <2>8 DEF ApplyMigration
    <3>2. server.at > m /\ Len(ran) = server.at - 1
      BY <2>1, <2>2, <2>8, <1>0
    <3>3. ran' \in Seq(Nat) /\ Len(ran') = server.at
      BY <1>0, <2>3, <3>1, <3>2
    <3>4. ran' = [n \in 1 .. Len(ran') |-> n]
      BY <1>0, <2>3, <3>1, <3>2, <3>3
    <3>5. recorded' = 1 .. Len(ran')
      BY <1>0, <2>3, <3>1, <3>2, <3>3
    <3>6. Len(ran') = IF server'.at > m THEN server'.at - 1 ELSE m
      BY <1>0, <1>2, <3>2, <3>3
    <3>7. QED
      BY <1>2, <2>1, <2>5, <2>6, <3>3, <3>4, <3>5, <3>6 DEF LogInOrder, MigrationsOnceInOrder
  <2>9. QED
    BY <2>7, <2>8
<1>5. SeededSoFar'
  BY <1>2 DEF SeededSoFar, Running
<1>6. RequestsHonest'
  BY NobodyWaits DEF ServerInv, ApplyMigration, Running
<1>7. QED
  BY <1>1, <1>3, <1>4, <1>5, <1>6 DEF ServerInv

\* At the end of the loop the log covers the release.
LEMMA MigrationsDoneKeeps ==
  ASSUME ServerInv, MigrationsDone
  PROVE  ServerInv'
<1>0. /\ server \in ProcessType
      /\ server.phase = "migrate" /\ server.at > Migrations /\ Migrations \in Nat
  BY ReleaseTyped DEF ServerInv, ProcessTyped, MigrationsDone
<1>1. RowsTyped'
  BY UnchangedKept DEF ServerInv, MigrationsDone, database
<1>2. /\ server'.phase = "seed" /\ server'.at = 1 /\ server'.release = server.release
      /\ server' \in ProcessType
      /\ UNCHANGED << recorded, ran >>
  BY <1>0 DEF ProcessType, MigrationsDone, database, Phases
<1>3. ProcessTyped'
  BY <1>0, <1>2 DEF ServerInv, ProcessTyped, MigrationsDone, operator
<1>4. LogInOrder'
  <2>1. PICK m \in Nat : Len(ran) = IF server.at > m THEN server.at - 1 ELSE m
    BY <1>0 DEF ServerInv, LogInOrder
  <2>2. Migrations <= Len(ran)
    BY <1>0, <2>1 DEF ProcessType
  <2>3. Migrations' = Migrations
    BY <1>2 DEF Migrations
  <2>4. QED
    BY <1>2, <2>2, <2>3 DEF ServerInv, LogInOrder, MigrationsOnceInOrder
<1>5. SeededSoFar'
  <2>1. Predefined' = Predefined /\ Len(Predefined) \in Nat
    BY <1>0, <1>2, ReleaseTyped DEF Predefined, ServerInv
  <2>2. QED
    BY <1>2, <2>1 DEF SeededSoFar, Running
<1>6. RequestsHonest'
  BY NobodyWaits DEF ServerInv, MigrationsDone, Running
<1>7. QED
  BY <1>1, <1>3, <1>4, <1>5, <1>6 DEF ServerInv

\* A lookup passes over a stitch that is predefined, or finds that it is not.
LEMMA SeedLookupKeeps ==
  ASSUME ServerInv, SeedLookup
  PROVE  ServerInv'
<1>0. /\ server \in ProcessType
      /\ server.phase = "seed" /\ server.at \in Nat /\ server.at <= Len(Predefined)
      /\ Len(Predefined) \in Nat
      /\ server.at \in 1 .. Len(Predefined) + 1
      /\ \A n \in 1 .. server.at - 1 : IsPredefined(Predefined[n])
      /\ Migrations <= Len(ran)
  BY ReleaseTyped DEF ServerInv, ProcessTyped, SeededSoFar, LogInOrder, SeedLookup
<1>1. RowsTyped'
  BY UnchangedKept DEF ServerInv, SeedLookup, database
<1>2. /\ server'.phase \in {"seed", "seedInsert"} /\ server'.release = server.release
      /\ server' \in ProcessType
      /\ UNCHANGED << recorded, ran, stitches >>
  BY <1>0 DEF ProcessType, SeedLookup, database, Phases
<1>3. ProcessTyped'
  BY <1>0, <1>2 DEF ServerInv, ProcessTyped, SeedLookup, operator
<1>4. LogInOrder'
  <2>1. Migrations' = Migrations
    BY <1>2 DEF Migrations
  <2>2. QED
    BY <1>0, <1>2, <2>1 DEF ServerInv, LogInOrder, MigrationsOnceInOrder
<1>5. SeededSoFar'
  <2>1. Predefined' = Predefined
    BY <1>2 DEF Predefined
  <2>2. \A a : IsPredefined(a)' <=> IsPredefined(a)
    BY <1>2 DEF IsPredefined
  <2>3. CASE IsPredefined(Predefined[server.at])
    <3>1. server'.phase = "seed" /\ server'.at = server.at + 1
      BY <1>0, <2>3 DEF SeedLookup
    <3>2. \A n \in 1 .. server'.at - 1 : IsPredefined(Predefined[n])
      BY <1>0, <2>3, <3>1
    <3>3. server'.at \in 1 .. Len(Predefined) + 1
      BY <1>0, <3>1
    <3>4. QED
      BY <2>1, <2>2, <3>1, <3>2, <3>3 DEF SeededSoFar, Running
  <2>4. CASE ~ IsPredefined(Predefined[server.at])
    <3>1. server'.phase = "seedInsert" /\ server'.at = server.at
      BY <1>0, <2>4 DEF SeedLookup
    <3>2. QED
      BY <1>0, <2>1, <2>2, <2>4, <3>1 DEF SeededSoFar, Running
  <2>5. QED
    BY <2>3, <2>4
<1>6. RequestsHonest'
  BY NobodyWaits DEF ServerInv, SeedLookup, Running
<1>7. QED
  BY <1>1, <1>3, <1>4, <1>5, <1>6 DEF ServerInv

\* Seeding a stitch makes it predefined, and the others stay so.
LEMMA SeedInsertKeeps ==
  ASSUME ServerInv, SeedInsert
  PROVE  ServerInv'
<1>0. /\ server \in ProcessType
      /\ server.phase = "seedInsert" /\ server.at \in Nat /\ server.at <= Len(Predefined)
      /\ Predefined \in Seq(Abbreviations)
      /\ Len(Predefined) \in Nat
      /\ server.at \in 1 .. Len(Predefined) + 1
      /\ \A n \in 1 .. server.at - 1 : IsPredefined(Predefined[n])
      /\ Migrations <= Len(ran)
  BY ReleaseTyped DEF ServerInv, ProcessTyped, SeededSoFar, LogInOrder, SeedInsert
<1>1. Predefined[server.at] \in Abbreviations
  BY <1>0
<1>2. /\ RowsTyped'
      /\ issued' = issued + 1 /\ issued' \notin DOMAIN stitches
      /\ DOMAIN stitches' = DOMAIN stitches \cup {issued'}
      /\ stitches'[issued'] = Stitch(Predefined[server.at], Nobody)
      /\ \A i \in DOMAIN stitches : stitches'[i] = stitches[i]
  BY <1>1, InsertedTyped DEF ServerInv, SeedInsert
<1>3. /\ server'.phase = "seed" /\ server'.release = server.release
      /\ server'.at = server.at + 1
      /\ server' \in ProcessType
      /\ UNCHANGED << recorded, ran >>
  <2>1. server' = [server EXCEPT !.phase = "seed", !.at = server.at + 1] /\ "seed" \in Phases
    BY DEF SeedInsert, Phases
  <2>2. server.at + 1 \in Nat
    BY <1>0
  <2> DEFINE next == server.at + 1
  <2> HIDE DEF next
  <2>3. server' = [server EXCEPT !.phase = "seed", !.at = next] /\ next \in Nat
    BY <2>1, <2>2 DEF next
  <2>4. /\ server'.phase = "seed" /\ server'.release = server.release /\ server'.at = next
        /\ server' \in ProcessType
    BY <1>0, <2>1, <2>3 DEF ProcessType
  <2>5. QED
    BY <2>4 DEF SeedInsert, next
<1>4. ProcessTyped'
  BY <1>0, <1>3 DEF ServerInv, ProcessTyped, SeedInsert, operator
<1>5. LogInOrder'
  <2>1. Migrations' = Migrations
    BY <1>3 DEF Migrations
  <2>2. QED
    BY <1>0, <1>3, <2>1 DEF ServerInv, LogInOrder, MigrationsOnceInOrder
<1>6. SeededSoFar'
  <2>1. Predefined' = Predefined
    BY <1>3 DEF Predefined
  <2>2. \A a : IsPredefined(a) => IsPredefined(a)'
    BY <1>2 DEF IsPredefined
  <2>4. \A n \in 1 .. server'.at - 1 : IsPredefined(Predefined[n])'
    <3>1. ASSUME NEW n \in 1 .. server'.at - 1 PROVE IsPredefined(Predefined[n])'
      <4>1. CASE n = server.at
        <5>1. stitches'[issued'].owner = Nobody /\ stitches'[issued'].abbr = Predefined[n]
          BY <1>1, <1>2, <4>1, NewRow
        <5>2. QED
          BY <1>2, <2>1, <5>1 DEF IsPredefined
      <4>2. CASE n # server.at
        <5>1. IsPredefined(Predefined[n])
          BY <1>0, <1>3, <4>2
        <5>2. PICK i \in DOMAIN stitches :
                 stitches[i].owner = Nobody /\ stitches[i].abbr = Predefined[n]
          BY <5>1 DEF IsPredefined
        <5>3. QED
          BY <1>2, <2>1, <5>2 DEF IsPredefined
      <4>3. QED
        BY <4>1, <4>2
    <3>2. QED
      BY <3>1
  <2>5. server'.at \in 1 .. Len(Predefined) + 1
    BY <1>0, <1>3
  <2>6. QED
    BY <1>3, <2>1, <2>4, <2>5 DEF SeededSoFar, Running
<1>7. RequestsHonest'
  BY NobodyWaits, <1>0 DEF ServerInv, SeedInsert, Running
<1>8. QED
  BY <1>2, <1>4, <1>5, <1>6, <1>7 DEF ServerInv

\* A process that begins to serve has seeded everything.
LEMMA ListenKeeps ==
  ASSUME ServerInv, Listen
  PROVE  ServerInv'
<1>0. /\ server \in ProcessType
      /\ server.phase = "seed" /\ server.at > Len(Predefined)
      /\ Len(Predefined) \in Nat
      /\ server.at \in 1 .. Len(Predefined) + 1
      /\ \A n \in 1 .. server.at - 1 : IsPredefined(Predefined[n])
      /\ Migrations <= Len(ran)
      /\ DOMAIN Predefined = 1 .. Len(Predefined)
  BY ReleaseTyped DEF ServerInv, ProcessTyped, SeededSoFar, LogInOrder, Listen
<1>1. RowsTyped'
  BY UnchangedKept DEF ServerInv, Listen, database
<1>2. /\ server'.phase = "serving" /\ server'.release = server.release
      /\ server' \in ProcessType
      /\ UNCHANGED << recorded, ran, stitches >>
  BY <1>0 DEF ProcessType, Listen, database, Phases
<1>3. ProcessTyped'
  BY <1>0, <1>2 DEF ServerInv, ProcessTyped, Listen, operator
<1>4. LogInOrder'
  <2>1. Migrations' = Migrations
    BY <1>2 DEF Migrations
  <2>2. QED
    BY <1>0, <1>2, <2>1 DEF ServerInv, LogInOrder, MigrationsOnceInOrder
<1>5. SeededSoFar'
  <2>1. Predefined' = Predefined
    BY <1>2 DEF Predefined
  <2>2. \A a : IsPredefined(a)' <=> IsPredefined(a)
    BY <1>2 DEF IsPredefined
  <2>3. \A n \in DOMAIN Predefined : IsPredefined(Predefined[n])
    BY <1>0
  <2>4. QED
    BY <1>2, <2>1, <2>2, <2>3 DEF SeededSoFar
<1>6. RequestsHonest'
  BY <1>0 DEF ServerInv, Listen, RequestsHonest, Running
<1>7. QED
  BY <1>1, <1>3, <1>4, <1>5, <1>6 DEF ServerInv

\* A process ends, with all requests in progress.
LEMMA EndKeeps ==
  ASSUME ServerInv, UNCHANGED database, ProcessTyped', server'.phase = "down",
         NoRequests \/ (~ Running /\ UNCHANGED request)
  PROVE  ServerInv'
<1>1. RowsTyped'
  BY UnchangedKept DEF ServerInv, database
<1>2. LogInOrder'
  BY DEF ServerInv, LogInOrder, MigrationsOnceInOrder, database, Running
<1>3. SeededSoFar'
  BY DEF SeededSoFar, Running
<1>4. RequestsHonest'
  <2>1. CASE NoRequests
    BY <2>1, IdleTyped DEF NoRequests, RequestsHonest
  <2>2. CASE ~ Running /\ UNCHANGED request
    BY <2>2, NobodyWaits DEF ServerInv
  <2>3. QED
    BY <2>1, <2>2
<1>5. QED
  BY <1>1, <1>2, <1>3, <1>4 DEF ServerInv

\* A process that has ended is typed.
LEMMA DownTyped ==
  /\ Down \in ProcessType
  /\ Down.phase = "down"
BY DEF ProcessType, Down, Phases

\* Kills, stops, restarts and shutdowns keep the invariant.
LEMMA OperationKeeps ==
  ASSUME ServerInv, Crash \/ Stop \/ Resume \/ Shutdown
  PROVE  ServerInv'
<1>0. ProcessTyped
  BY DEF ServerInv
<1>1. CASE Crash
  <2>1. crashes' \in 0 .. MaxCrashes
    BY <1>0, <1>1, ServerAssumptions DEF ProcessTyped, Crash, ServerAssumptions
  <2>2. ProcessTyped'
    BY <1>0, <1>1, <2>1, DownTyped DEF ProcessTyped, Crash, operator
  <2>3. UNCHANGED database /\ server'.phase = "down" /\ NoRequests
    BY <1>1, DownTyped DEF Crash
  <2>4. QED
    BY <2>2, <2>3, EndKeeps
<1>2. CASE Stop
  <2>1. stops' \in 0 .. MaxStops
    BY <1>0, <1>2, ServerAssumptions DEF ProcessTyped, Stop, ServerAssumptions
  <2>2. CASE server.phase = "serving"
    <3>1. /\ server' = [server EXCEPT !.phase = "draining"]
          /\ server'.phase = "draining" /\ server'.release = server.release
          /\ server' \in ProcessType
      BY <1>0, <1>2, <2>2 DEF ProcessType, Stop, ProcessTyped, Phases
    <3>2. ProcessTyped'
      BY <1>0, <1>2, <2>1, <2>2, <3>1 DEF ProcessTyped, Stop
    <3>3. RowsTyped'
      BY <1>2, UnchangedKept DEF ServerInv, Stop, database
    <3>4. Migrations' = Migrations /\ Predefined' = Predefined
      BY <3>1 DEF Migrations, Predefined
    <3>5. LogInOrder'
      BY <1>2, <2>2, <3>1, <3>4
        DEF ServerInv, LogInOrder, MigrationsOnceInOrder, Stop, database, Running
    <3>6. SeededSoFar'
      <4>1. \A a : IsPredefined(a)' <=> IsPredefined(a)
        BY <1>2 DEF IsPredefined, Stop, database
      <4>2. QED
        BY <2>2, <3>1, <3>4, <4>1 DEF ServerInv, SeededSoFar, Running
    <3>7. RequestsHonest'
      <4>1. \A q : RequestPromise(q)' <=> RequestPromise(q)
        BY <1>2 DEF RequestPromise, IsPredefined, Stop, database
      <4>2. QED
        BY <1>2, <3>1, <4>1 DEF ServerInv, RequestsHonest, Running, Stop, RequestPromise,
             IsPredefined, database
    <3>8. QED
      BY <3>2, <3>3, <3>5, <3>6, <3>7 DEF ServerInv
  <2>3. CASE server.phase # "serving" /\ server.phase # "draining"
    <3>1. server' = Down /\ ~ Running
      BY <1>2, <2>3 DEF Stop, Running
    <3>2. ProcessTyped'
      BY <1>0, <1>2, <2>1, <3>1, DownTyped DEF ProcessTyped, Stop
    <3>3. QED
      BY <1>2, <3>1, <3>2, EndKeeps, DownTyped DEF Stop
  <2>4. CASE server.phase = "draining"
    BY <1>0, <1>2, <2>4 DEF ProcessTyped, Stop
  <2>5. QED
    BY <2>2, <2>3, <2>4
<1>3. CASE Resume
  <2>1. ProcessTyped'
    BY <1>0, <1>3 DEF ProcessTyped, Resume
  <2>2. QED
    BY <1>3, <2>1, EndKeeps DEF Resume, Running
<1>4. CASE Shutdown
  <2>1. ProcessTyped'
    BY <1>0, <1>4, DownTyped DEF ProcessTyped, Shutdown, operator
  <2>2. UNCHANGED database /\ server'.phase = "down" /\ NoRequests
    BY <1>4, DownTyped DEF Shutdown
  <2>3. QED
    BY <2>1, <2>2, EndKeeps
<1>5. QED
  BY <1>1, <1>2, <1>3, <1>4

-----------------------------------------------------------------------------
\* A request that is not idle, is typed and has what was promised to it.
LEMMA RequestHas ==
  ASSUME ServerInv, NEW r \in Requests, request[r].step # "idle"
  PROVE  /\ request[r] \in RequestType /\ request[r] # Idle
         /\ RequestPromise(request[r]) /\ Running
         /\ request[r].user \in Users /\ request[r].user # Nobody
         /\ issued \in Nat /\ request[r].id \in Nat /\ request[r].id <= issued
<1>1. request[r] \in RequestType /\ request[r] # Idle
  BY IdleTyped DEF ServerInv, RequestsHonest
<1>2. RequestPromise(request[r]) /\ Running
  BY <1>1 DEF ServerInv, RequestsHonest
<1>3. request[r].user \in Users /\ request[r].id <= issued
  BY <1>2 DEF RequestPromise
<1>4. QED
  BY <1>1, <1>2, <1>3, ServerAssumptions
    DEF ServerAssumptions, RequestType, ServerInv, RowsTyped

\* A new request has only been promised what its user could see.
LEMMA BeginKeeps ==
  ASSUME ServerInv, NEW r \in Requests, NEW u \in Users,
         \/ \E a \in Abbreviations : BeginCreate(r, u, a)
         \/ \E id \in DOMAIN stitches :
              BeginDelete(r, u, id) \/ \E a \in Abbreviations : BeginUpdate(r, u, id, a)
  PROVE  ServerInv'
<1>0. RowsTyped /\ issued \in Nat /\ \A i \in DOMAIN stitches : i \in 1 .. issued
  BY DEF ServerInv, RowsTyped
<1>1. /\ server.phase = "serving" /\ server' = server /\ UNCHANGED << stitches, issued >>
      /\ UNCHANGED << operator, crashes, recorded, ran >>
  BY DEF BeginCreate, BeginUpdate, BeginDelete, database
<1>2. RowsTyped' /\ RowsKept
  BY <1>0, <1>1, UnchangedKept
<1>3. PICK q \in RequestType : request' = [request EXCEPT ![r] = q] /\ RequestPromise(q)
  <2>1. CASE \E a \in Abbreviations : BeginCreate(r, u, a)
    <3>1. PICK a \in Abbreviations : BeginCreate(r, u, a)
      BY <2>1
    <3> DEFINE q == [Idle EXCEPT !.step = "check", !.op = "create", !.user = u, !.abbr = a]
    <3>2. /\ q \in RequestType /\ q.step = "check" /\ q.op = "create" /\ q.user = u
          /\ q.abbr = a /\ q.id = 0
      BY DEF Idle, RequestType, RequestSteps
    <3>3. request' = [request EXCEPT ![r] = q]
      BY <3>1 DEF BeginCreate
    <3> HIDE DEF q
    <3>4. ~ (q.id \in DOMAIN stitches)
      BY <1>0, <3>2
    <3>5. RequestPromise(q)
      BY <1>0, <3>2, <3>4 DEF RequestPromise
    <3>6. QED
      BY <3>2, <3>3, <3>5
  <2>2. CASE \E id \in DOMAIN stitches : BeginDelete(r, u, id)
    <3>1. PICK id \in DOMAIN stitches : BeginDelete(r, u, id)
      BY <2>2
    <3> DEFINE q == [Idle EXCEPT !.step = "get", !.op = "delete", !.user = u, !.id = id]
    <3>2. id \in Nat /\ id <= issued
      BY <1>0
    <3>3. /\ q \in RequestType /\ q.step = "get" /\ q.op = "delete" /\ q.user = u
          /\ q.id = id
      BY <3>2 DEF Idle, RequestType, RequestSteps
    <3>4. request' = [request EXCEPT ![r] = q]
      BY <3>1 DEF BeginDelete
    <3> HIDE DEF q
    <3>5. RequestPromise(q)
      BY <3>2, <3>3 DEF RequestPromise
    <3>6. QED
      BY <3>3, <3>4, <3>5
  <2>3. CASE \E id \in DOMAIN stitches : \E a \in Abbreviations : BeginUpdate(r, u, id, a)
    <3>1. PICK id \in DOMAIN stitches, a \in Abbreviations : BeginUpdate(r, u, id, a)
      BY <2>3
    <3> DEFINE q == [step |-> "get", op |-> "update", user |-> u, id |-> id, abbr |-> a]
    <3>2. id \in Nat /\ id <= issued
      BY <1>0
    <3>3. /\ q \in RequestType /\ q.step = "get" /\ q.op = "update" /\ q.user = u
          /\ q.id = id /\ q.abbr = a
      BY <3>2 DEF RequestType, RequestSteps
    <3>4. request' = [request EXCEPT ![r] = q]
      BY <3>1 DEF BeginUpdate
    <3> HIDE DEF q
    <3>5. RequestPromise(q)
      BY <3>2, <3>3 DEF RequestPromise
    <3>6. QED
      BY <3>3, <3>4, <3>5
  <2>4. QED
    BY <2>1, <2>2, <2>3
<1>4. RequestPromise(q)'
  BY <1>0, <1>2, <1>3, PromiseKept
<1>5. QED
  BY <1>1, <1>2, <1>3, <1>4, RequestGoesOn DEF Running

\* A step of a request that reads leaves it with what it has found.
LEMMA ReadKeeps ==
  ASSUME ServerInv, NEW r \in Requests,
         GetStitch(r) \/ CheckReserved(r) \/ Abort(r)
  PROVE  ServerInv'
<1>1. /\ server' = server /\ UNCHANGED << stitches, issued >>
      /\ UNCHANGED << operator, crashes, recorded, ran >>
  BY DEF GetStitch, CheckReserved, Abort, database
<1>2. RowsTyped /\ RowsTyped' /\ RowsKept
  BY <1>1, UnchangedKept DEF ServerInv
<1>3. request \in [Requests -> RequestType] /\ Running
  <2>1. request[r] # Idle
    BY IdleTyped DEF GetStitch, CheckReserved, Abort
  <2>2. QED
    BY <2>1 DEF ServerInv, RequestsHonest
<1>4. CASE request' = [request EXCEPT ![r] = Idle]
  BY <1>1, <1>2, <1>3, <1>4, IdleTyped, RequestGoesOn
<1>5. ASSUME NEW step \in {"check", "write"}, GoOn(r, step),
             request[r].step # "idle", request[r].op # "none",
             step = "check" => request[r].op # "delete",
             request[r].id \in DOMAIN stitches => stitches[request[r].id].owner = request[r].user,
             step = "write" /\ request[r].op = "create" => ~ IsPredefined(request[r].abbr),
             step = "write" /\ request[r].op = "update" /\ request[r].id \in DOMAIN stitches =>
               ~ IsPredefined(request[r].abbr) \/ request[r].abbr \in stitches[request[r].id].had
      PROVE  ServerInv'
  <2>1. PICK q \in RequestType : q = request[r]
    BY <1>3
  <2> DEFINE p == [q EXCEPT !.step = step]
  <2>2. /\ p \in RequestType /\ p.step = step /\ p.op = q.op /\ p.user = q.user
        /\ p.id = q.id /\ p.abbr = q.abbr
    BY <1>5 DEF RequestType, RequestSteps
  <2>3. request' = [request EXCEPT ![r] = p]
    BY <1>3, <1>5, <2>1 DEF GoOn
  <2> HIDE DEF p
  <2>4. RequestPromise(q)
    BY <1>5, <2>1, RequestHas
  <2>5. RequestPromise(p)
    BY <1>5, <2>1, <2>2, <2>4 DEF RequestPromise
  <2>6. PICK t \in RequestType : t = p
    BY <2>2
  <2>7. RequestPromise(t)'
    BY <1>2, <2>5, <2>6, PromiseKept
  <2>8. QED
    BY <1>1, <1>2, <1>3, <2>3, <2>6, <2>7, RequestGoesOn
<1>6. CASE GetStitch(r)
  <2> DEFINE q == request[r]
  <2>1. q.step = "get"
    BY <1>6 DEF GetStitch
  <2>2. RequestPromise(q)
    BY <2>1, RequestHas
  <2>3. q.op \in {"update", "delete"}
    BY <1>3, <2>1, <2>2 DEF RequestType, RequestPromise
  <2>4. CASE q.id \notin DOMAIN stitches \/ stitches[q.id].owner # q.user
    BY <1>4, <1>6, <2>4 DEF GetStitch, Answer
  <2>5. CASE q.id \in DOMAIN stitches /\ stitches[q.id].owner = q.user
    <3>1. stitches[q.id].abbr \in stitches[q.id].had
      BY <1>2, <2>5 DEF RowsTyped
    <3>2. CASE q.op = "delete"
      <4>1. GoOn(r, "write")
        BY <1>6, <2>5, <3>2 DEF GetStitch
      <4>2. QED
        BY <1>5, <2>1, <2>5, <3>2, <4>1
    <3>3. CASE q.op = "update" /\ q.abbr = stitches[q.id].abbr
      <4>1. GoOn(r, "write")
        BY <1>6, <2>5, <3>3 DEF GetStitch
      <4>2. QED
        BY <1>5, <2>1, <2>5, <3>1, <3>3, <4>1
    <3>4. CASE q.op = "update" /\ q.abbr # stitches[q.id].abbr
      <4>1. GoOn(r, "check")
        BY <1>6, <2>5, <3>4 DEF GetStitch
      <4>2. QED
        BY <1>5, <2>1, <2>5, <3>4, <4>1
    <3>5. QED
      BY <2>3, <3>2, <3>3, <3>4
  <2>6. QED
    BY <2>4, <2>5
<1>7. CASE CheckReserved(r)
  <2> DEFINE q == request[r]
  <2>1. q.step = "check"
    BY <1>7 DEF CheckReserved
  <2>2. RequestPromise(q)
    BY <2>1, RequestHas
  <2>3. CASE IsPredefined(q.abbr)
    BY <1>4, <1>7, <2>3 DEF CheckReserved, Answer
  <2>4. CASE ~ IsPredefined(q.abbr)
    <3>1. GoOn(r, "write")
      BY <1>7, <2>4 DEF CheckReserved
    <3>2. q.op # "none" /\ (q.id \in DOMAIN stitches => stitches[q.id].owner = q.user)
      BY <2>1, <2>2 DEF RequestPromise
    <3>3. QED
      BY <1>5, <2>1, <2>4, <3>1, <3>2
  <2>5. QED
    BY <2>3, <2>4
<1>8. CASE Abort(r)
  BY <1>4, <1>8 DEF Abort, Answer
<1>9. QED
  BY <1>6, <1>7, <1>8

\* A write: what it does to the rows, for the others.
LEMMA WriteKeepsRows ==
  ASSUME ServerInv, NEW r \in Requests,
         InsertStitch(r) \/ UpdateStitch(r) \/ DeleteStitch(r)
  PROVE  RowsTyped' /\ RowsKept
<1> DEFINE q == request[r]
<1>1. q.step = "write"
  BY DEF InsertStitch, UpdateStitch, DeleteStitch
<1>2. RowsTyped /\ RequestPromise(q) /\ q.user \in Users /\ q.user # Nobody
  BY <1>1, RequestHas DEF ServerInv
<1>3. CASE InsertStitch(r)
  <2>1. q.abbr \in Abbreviations
    BY <1>2, <1>3 DEF InsertStitch, RequestPromise
  <2>2. CASE Taken(q.user, q.abbr, 0)
    BY <1>2, <1>3, <2>2, UnchangedKept DEF InsertStitch
  <2>3. CASE ~ Taken(q.user, q.abbr, 0)
    <3>1. Inserted(Stitch(q.abbr, q.user))
      BY <1>3, <2>3 DEF InsertStitch
    <3>2. QED
      BY <1>2, <2>1, <3>1, InsertedKept
  <2>4. QED
    BY <2>2, <2>3
<1>4. CASE UpdateStitch(r)
  <2>1. q.abbr \in Abbreviations /\ issued' = issued
    BY <1>2, <1>4 DEF UpdateStitch, RequestPromise
  <2>2. CASE stitches' = stitches
    BY <1>2, <2>1, <2>2, UnchangedKept
  <2>3. CASE /\ q.id \in DOMAIN stitches
             /\ stitches' = [stitches EXCEPT ![q.id].abbr = q.abbr,
                                             ![q.id].had = @ \cup {q.abbr}]
    <3>1. stitches[q.id].owner = q.user
      BY <1>1, <1>2, <2>3 DEF RequestPromise
    <3> DEFINE row == [stitches[q.id] EXCEPT !.abbr = q.abbr, !.had = @ \cup {q.abbr}]
    <3>2. /\ row \in RowType /\ row.owner = q.user /\ q.abbr \in row.had /\ row.abbr = q.abbr
          /\ stitches[q.id].had \subseteq row.had
      BY <1>2, <2>1, <2>3, <3>1 DEF RowsTyped, RowType
    <3>3. stitches' = [stitches EXCEPT ![q.id] = row]
      BY <2>3
    <3> HIDE DEF row
    <3>4. RowsTyped'
      BY <1>2, <2>1, <2>3, <3>2, <3>3 DEF RowsTyped
    <3>5. /\ DOMAIN stitches' = DOMAIN stitches /\ stitches'[q.id] = row
          /\ \A i \in DOMAIN stitches : i # q.id => stitches'[i] = stitches[i]
      BY <1>2, <2>3, <3>3 DEF RowsTyped
    <3>6. \A a : IsPredefined(a)' <=> IsPredefined(a)
      BY <1>2, <3>1, <3>2, <3>5 DEF IsPredefined
    <3>7. issued <= issued'
      BY <1>2, <2>1 DEF RowsTyped
    <3>8. \A i \in DOMAIN stitches' :
            /\ i \in DOMAIN stitches
            /\ stitches'[i].owner = stitches[i].owner
            /\ stitches[i].had \subseteq stitches'[i].had
      BY <3>1, <3>2, <3>5
    <3>9. QED
      BY <3>4, <3>6, <3>7, <3>8 DEF RowsKept
  <2>4. QED
    BY <1>4, <2>2, <2>3 DEF UpdateStitch
<1>5. CASE DeleteStitch(r)
  <2>1. stitches' = [i \in DOMAIN stitches \ {q.id} |-> stitches[i]] /\ issued' = issued
    BY <1>5 DEF DeleteStitch
  <2>2. q.id \in DOMAIN stitches => stitches[q.id].owner # Nobody
    BY <1>1, <1>2 DEF RequestPromise
  <2>3. RowsTyped'
    BY <1>2, <2>1 DEF RowsTyped
  <2>4. \A a : IsPredefined(a)' <=> IsPredefined(a)
    BY <2>1, <2>2 DEF IsPredefined
  <2>5. QED
    BY <1>2, <2>1, <2>3, <2>4 DEF RowsKept, RowsTyped
<1>6. QED
  BY <1>3, <1>4, <1>5

\* A write keeps the invariant.
LEMMA WriteKeeps ==
  ASSUME ServerInv, NEW r \in Requests,
         InsertStitch(r) \/ UpdateStitch(r) \/ DeleteStitch(r)
  PROVE  ServerInv'
<1>1. /\ server' = server /\ request' = [request EXCEPT ![r] = Idle]
      /\ UNCHANGED << operator, crashes, recorded, ran >> /\ request[r].step = "write"
  BY DEF InsertStitch, UpdateStitch, DeleteStitch, Answer
<1>2. RowsTyped' /\ RowsKept
  BY WriteKeepsRows
<1>3. Running
  BY <1>1, RequestHas
<1>4. QED
  BY <1>1, <1>2, <1>3, IdleTyped, RequestGoesOn

-----------------------------------------------------------------------------
\* Every step keeps the invariant.
LEMMA ServerInvStep == ServerInv /\ [Next]_vars => ServerInv'
<1> SUFFICES ASSUME ServerInv, [Next]_vars PROVE ServerInv'
  OBVIOUS
<1>1. CASE StartProcess
  BY <1>1, StartKeeps
<1>2. CASE BootStep
  BY <1>2, ReadAppliedKeeps, ApplyMigrationKeeps, MigrationsDoneKeeps, SeedLookupKeeps,
     SeedInsertKeeps, ListenKeeps DEF BootStep
<1>3. CASE Crash \/ Stop \/ Resume \/ Shutdown
  BY <1>3, OperationKeeps
<1>4. CASE \E r \in Requests : Handle(r)
  BY <1>4, BeginKeeps, ReadKeeps, WriteKeeps DEF Handle
<1>5. CASE UNCHANGED vars
  <2>1. RowsTyped'
    BY <1>5, UnchangedKept DEF ServerInv, vars
  <2>2. ProcessTyped' /\ LogInOrder'
    BY <1>5 DEF ServerInv, ProcessTyped, LogInOrder, MigrationsOnceInOrder, vars, Running,
         Migrations
  <2>3. SeededSoFar'
    BY <1>5 DEF ServerInv, SeededSoFar, vars, Running, Predefined, IsPredefined
  <2>4. RequestsHonest'
    BY <1>5 DEF ServerInv, RequestsHonest, vars, Running, RequestPromise, IsPredefined
  <2>5. QED
    BY <2>1, <2>2, <2>3, <2>4 DEF ServerInv
<1>6. QED
  BY <1>1, <1>2, <1>3, <1>4, <1>5 DEF Next

\* The inductive invariant holds in every state the server reaches.
THEOREM ServerInvHolds == Spec => []ServerInv
BY ServerInvInit, ServerInvStep, PTL DEF Spec

\* Whatever releases have run, and wherever they were killed, the migrations of
\* the log took effect once each and in order.
THEOREM MigrationsHappenOnceInOrder == Spec => []MigrationsOnceInOrder
<1>1. ServerInv => MigrationsOnceInOrder
  BY DEF ServerInv, LogInOrder
<1>2. QED
  BY <1>1, ServerInvHolds, PTL

\* A process that answers requests has every table its release needs and every
\* stitch it predefines, even one that deletes and renames run beside.
THEOREM ReadyWhenServing == Spec => []ServingIsReady
<1>1. ServerInv => ServingIsReady
  <2> SUFFICES ASSUME ServerInv, Running PROVE ServingIsReady
    BY DEF ServingIsReady
  <2>1. recorded = 1 .. Len(ran) /\ Migrations <= Len(ran) /\ ran \in Seq(Nat)
    BY DEF ServerInv, LogInOrder, MigrationsOnceInOrder
  <2>2. Migrations \in Nat
    BY ReleaseTyped DEF ServerInv, Running
  <2>3. Len(ran) \in Nat
    BY <2>1
  <2>4. 1 .. Migrations \subseteq recorded
    BY <2>1, <2>2, <2>3
  <2>5. \A n \in DOMAIN Predefined : IsPredefined(Predefined[n])
    BY DEF ServerInv, SeededSoFar
  <2>6. QED
    BY <2>4, <2>5 DEF ServingIsReady
<1>2. QED
  BY <1>1, ServerInvHolds, PTL

-----------------------------------------------------------------------------
\* The table is only touched by the seeding and the writes of requests.
LEMMA OnlyWritesTouchRows ==
  ASSUME [Next]_vars
  PROVE  \/ UNCHANGED << stitches, issued >>
         \/ SeedInsert
         \/ \E r \in Requests : InsertStitch(r) \/ UpdateStitch(r) \/ DeleteStitch(r)
BY DEF Next, vars, database, BootStep, StartProcess, ReadApplied, ApplyMigration,
       MigrationsDone, SeedLookup, Listen, Crash, Stop, Resume, Shutdown, Handle,
       BeginCreate, BeginUpdate, BeginDelete, GetStitch, CheckReserved, Abort

\* What StitchLibrary calls reserved is what the code's lookup finds.
LEMMA ReservedMeansPredefined ==
  ASSUME NEW a
  PROVE  a \in Library!Reserved <=> IsPredefined(a)
BY DEF Library!Reserved, Library!AbbreviationsOf, IsPredefined

\* An INSERT is a new stitch of the library.
LEMMA InsertedIsNew ==
  ASSUME RowsTyped, NEW s, Inserted(s)
  PROVE  issued' \in DOMAIN stitches' /\ Library!NewStitch(issued', s)
<1>1. issued' = issued + 1 /\ stitches' = With(stitches, issued', s)
  BY DEF Inserted
<1>2. issued' \notin DOMAIN stitches
  BY <1>1 DEF RowsTyped
<1>3. issued' \in DOMAIN stitches'
  BY <1>1 DEF With
<1>4. stitches' = Library!With(stitches, issued', s)
  BY <1>1 DEF With, Library!With
<1>5. QED
  BY <1>2, <1>3, <1>4 DEF Library!NewStitch

\* Seeding is the library's Predefine: the lookup is still true at the insert.
LEMMA SeedIsPredefine ==
  ASSUME ServerInv, SeedInsert
  PROVE  Library!LibraryNext
<1> DEFINE a == Predefined[server.at]
<1>1. a \in Abbreviations /\ ~ IsPredefined(a)
  <2>1. server.at \in 1 .. Len(Predefined) /\ ~ IsPredefined(a)
    <3>1. Len(Predefined) \in Nat
      BY ReleaseTyped DEF ServerInv, SeedInsert
    <3>2. QED
      BY <3>1 DEF ServerInv, SeededSoFar, SeedInsert
  <2>2. Predefined \in Seq(Abbreviations)
    BY ReleaseTyped DEF ServerInv, SeedInsert
  <2>3. QED
    BY <2>1, <2>2
<1>2. Inserted(Library!Stitch(a, Nobody))
  BY DEF SeedInsert, Library!Stitch, Stitch
<1> HIDE DEF a
<1>3. issued' \in DOMAIN stitches' /\ Library!NewStitch(issued', Library!Stitch(a, Nobody))
  BY <1>2, InsertedIsNew DEF ServerInv
<1>4. Library!Predefine(issued', a)
  BY <1>1, <1>3, ReservedMeansPredefined DEF Library!Predefine
<1>5. QED
  BY <1>1, <1>3, <1>4 DEF Library!LibraryNext

\* A write is the library's Add, Rename or Remove, or changes nothing, though what
\* it has checked was true some steps ago.
LEMMA WriteIsLibraryStep ==
  ASSUME ServerInv, NEW r \in Requests,
         InsertStitch(r) \/ UpdateStitch(r) \/ DeleteStitch(r)
  PROVE  Library!LibraryNext \/ UNCHANGED stitches
<1> DEFINE q == request[r]
<1>1. q.step = "write"
  BY DEF InsertStitch, UpdateStitch, DeleteStitch
<1>2. /\ RowsTyped /\ RequestPromise(q) /\ q.user \in Users /\ q.user # Nobody
      /\ \A i \in DOMAIN stitches : i # 0
  BY <1>1, RequestHas DEF ServerInv, RowsTyped
<1>3. CASE InsertStitch(r)
  <2>1. CASE Taken(q.user, q.abbr, 0)
    BY <1>3, <2>1 DEF InsertStitch
  <2>2. CASE ~ Taken(q.user, q.abbr, 0)
    <3>1. Inserted(Library!Stitch(q.abbr, q.user))
      BY <1>3, <2>2 DEF InsertStitch, Stitch, Library!Stitch
    <3>2. /\ issued' \in DOMAIN stitches'
          /\ Library!NewStitch(issued', Library!Stitch(q.abbr, q.user))
      BY <1>2, <3>1, InsertedIsNew
    <3>3. q.abbr \in Abbreviations /\ ~ IsPredefined(q.abbr)
      BY <1>2, <1>3 DEF InsertStitch, RequestPromise
    <3>4. q.abbr \notin Library!AbbreviationsOf(q.user)
      BY <1>2, <2>2 DEF Taken, Library!AbbreviationsOf
    <3>5. Library!Add(issued', q.user, q.abbr)
      BY <3>2, <3>3, <3>4, ReservedMeansPredefined DEF Library!Add
    <3>6. QED
      BY <1>2, <3>2, <3>3, <3>5 DEF Library!LibraryNext
  <2>3. QED
    BY <2>1, <2>2
<1>4. CASE UpdateStitch(r)
  <2>1. CASE stitches' = stitches
    BY <2>1
  <2>2. CASE /\ q.id \in DOMAIN stitches /\ ~ Taken(q.user, q.abbr, q.id)
             /\ stitches' = [stitches EXCEPT ![q.id].abbr = q.abbr,
                                             ![q.id].had = @ \cup {q.abbr}]
    <3>1. /\ q.abbr \in Abbreviations /\ stitches[q.id].owner = q.user
          /\ (~ IsPredefined(q.abbr) \/ q.abbr \in stitches[q.id].had)
      BY <1>1, <1>2, <1>4, <2>2 DEF RequestPromise, UpdateStitch
    <3>2. CASE stitches[q.id].abbr = q.abbr
      <4> DEFINE row == stitches[q.id]
      <4>1. row \in RowType /\ q.abbr \in row.had
        BY <1>2, <2>2, <3>2 DEF RowsTyped
      <4>2. row.had \cup {q.abbr} = row.had
        BY <4>1
      <4>3. [row EXCEPT !.abbr = q.abbr, !.had = row.had \cup {q.abbr}] = row
        BY <3>2, <4>1, <4>2 DEF RowType
      <4>4. stitches' = [stitches EXCEPT ![q.id] =
                           [row EXCEPT !.abbr = q.abbr, !.had = row.had \cup {q.abbr}]]
        BY <2>2
      <4>5. stitches' = stitches
        BY <1>2, <2>2, <4>3, <4>4 DEF RowsTyped
      <4>6. QED
        BY <4>5
    <3>3. CASE stitches[q.id].abbr # q.abbr
      <4>1. q.abbr \notin Library!AbbreviationsOf(stitches[q.id].owner)
        BY <2>2, <3>1, <3>3 DEF Taken, Library!AbbreviationsOf
      <4>2. Library!Rename(q.id, q.abbr)
        BY <1>2, <2>2, <3>1, <4>1, ReservedMeansPredefined DEF Library!Rename
      <4>3. QED
        BY <2>2, <3>1, <4>2 DEF Library!LibraryNext
    <3>4. QED
      BY <3>2, <3>3
  <2>3. QED
    BY <1>4, <2>1, <2>2 DEF UpdateStitch
<1>5. CASE DeleteStitch(r)
  <2>1. stitches' = [i \in DOMAIN stitches \ {q.id} |-> stitches[i]]
    BY <1>5 DEF DeleteStitch
  <2>2. CASE q.id \in DOMAIN stitches
    <3>1. stitches[q.id].owner # Nobody
      BY <1>1, <1>2, <2>2 DEF RequestPromise
    <3>2. QED
      BY <2>1, <2>2, <3>1 DEF Library!Remove, Library!LibraryNext
  <2>3. CASE q.id \notin DOMAIN stitches
    BY <1>2, <2>1, <2>3 DEF RowsTyped
  <2>4. QED
    BY <2>2, <2>3
<1>6. QED
  BY <1>3, <1>4, <1>5

\* The stitches change only as StitchLibrary allows: nothing is predefined twice,
\* and nobody takes an abbreviation that is predefined.
THEOREM LibraryImplemented == Spec => ImplementsLibrary
<1>1. Init => Library!LibraryInit
  BY DEF Init, Library!LibraryInit
<1>2. ServerInv /\ [Next]_vars => [Library!LibraryNext]_stitches
  BY OnlyWritesTouchRows, SeedIsPredefine, WriteIsLibraryStep
<1>3. QED
  BY <1>1, <1>2, ServerInvHolds, PTL DEF Spec, ImplementsLibrary, Library!LibrarySpec

\* The step formula of OnlyOwnStitchesChange.
OwnStitchStep ==
  \A i \in DOMAIN stitches :
    i \notin DOMAIN stitches' \/ stitches'[i] # stitches[i] =>
      \E r \in Requests : /\ request[r].step = "write" /\ request'[r] = Idle
                        /\ request[r].user = stitches[i].owner

\* The row a request changes or deletes by id is one of its own user's.
THEOREM OthersStitchesStay == Spec => OnlyOwnStitchesChange
<1>1. ServerInv /\ [Next]_vars => [OwnStitchStep]_vars
  <2> SUFFICES ASSUME ServerInv, [Next]_vars, NEW i \in DOMAIN stitches,
                      i \notin DOMAIN stitches' \/ stitches'[i] # stitches[i]
               PROVE  \E r \in Requests :
                        /\ request[r].step = "write" /\ request'[r] = Idle
                        /\ request[r].user = stitches[i].owner
    BY DEF OwnStitchStep
  <2>1. ~ UNCHANGED << stitches, issued >>
    OBVIOUS
  <2>2. \A s : RowsTyped /\ Inserted(s) =>
           i \in DOMAIN stitches' /\ stitches'[i] = stitches[i]
    <3> SUFFICES ASSUME NEW s, RowsTyped, Inserted(s)
                 PROVE  i \in DOMAIN stitches' /\ stitches'[i] = stitches[i]
      OBVIOUS
    <3>1. issued' = issued + 1 /\ stitches' = With(stitches, issued', s)
      BY DEF Inserted
    <3>2. i # issued'
      BY <3>1 DEF RowsTyped
    <3>3. QED
      BY <3>1, <3>2 DEF With
  <2>3. PICK r \in Requests : InsertStitch(r) \/ UpdateStitch(r) \/ DeleteStitch(r)
    BY <2>1, <2>2, OnlyWritesTouchRows DEF SeedInsert, ServerInv
  <2> DEFINE q == request[r]
  <2>4. q.step = "write" /\ request' = [request EXCEPT ![r] = Idle]
    BY <2>3 DEF InsertStitch, UpdateStitch, DeleteStitch, Answer
  <2>5. request'[r] = Idle
    BY <2>4 DEF ServerInv, RequestsHonest
  <2>6. ~ InsertStitch(r)
    BY <2>1, <2>2 DEF InsertStitch, ServerInv
  <2>7. i = q.id
    <3>1. CASE UpdateStitch(r)
      <4>1. stitches' = stitches \/
              stitches' = [stitches EXCEPT ![q.id].abbr = q.abbr, ![q.id].had = @ \cup {q.abbr}]
        BY <3>1 DEF UpdateStitch
      <4>2. QED
        BY <4>1
    <3>2. CASE DeleteStitch(r)
      <4>1. stitches' = [j \in DOMAIN stitches \ {q.id} |-> stitches[j]]
        BY <3>2 DEF DeleteStitch
      <4>2. QED
        BY <4>1
    <3>3. QED
      BY <2>3, <2>6, <3>1, <3>2
  <2>8. q.user = stitches[i].owner
    BY <2>4, <2>7, RequestHas DEF RequestPromise
  <2>9. QED
    BY <2>4, <2>5, <2>8
<1>2. QED
  BY <1>1, ServerInvHolds, PTL DEF Spec, OnlyOwnStitchesChange, OwnStitchStep

-----------------------------------------------------------------------------
\* The requests that may still take an id.
Creates == {r \in Requests : request[r].op = "create"}

\* The abbreviations that may still take an id of their own.
Unseeded == {a \in Abbreviations : ~ IsPredefined(a)}

\* The ids issued, and those still to come, stay within the bound.
IdsCovered ==
  issued + Cardinality(Creates) + Cardinality(Unseeded)
    <= MaxIds + Cardinality(Requests) + Cardinality(Abbreviations)

\* The bound counts requests and abbreviations: there are finitely many.
FiniteInstance == IsFiniteSet(Requests) /\ IsFiniteSet(Abbreviations)

\* Every step keeps the ids within the bound.
LEMMA IdsStep ==
  ASSUME FiniteInstance, ServerInv, [Next]_vars, IdsCovered
  PROVE  IdsCovered'
<1> DEFINE R == Cardinality(Requests)
           A == Cardinality(Abbreviations)
           C == Cardinality(Creates)
           U == Cardinality(Unseeded)
<1>1. /\ IsFiniteSet(Creates) /\ IsFiniteSet(Creates')
      /\ IsFiniteSet(Unseeded) /\ IsFiniteSet(Unseeded')
      /\ R \in Nat /\ A \in Nat /\ C \in Nat /\ C' \in Nat /\ U \in Nat /\ U' \in Nat
      /\ C' <= R /\ U <= A
  <2>1. Creates \subseteq Requests /\ Creates' \subseteq Requests
    BY DEF Creates
  <2>2. Unseeded \subseteq Abbreviations /\ Unseeded' \subseteq Abbreviations
    BY DEF Unseeded
  <2>3. QED
    BY <2>1, <2>2, FS_Subset, FS_CardinalityType DEF FiniteInstance
<1>2. /\ issued \in Nat /\ RowsTyped /\ request \in [Requests -> RequestType]
      /\ MaxIds \in Nat
  BY ServerAssumptions DEF ServerInv, RowsTyped, RequestsHonest, ServerAssumptions
<1>3. SUFFICES issued' + C' + U' <= issued + C + U \/ issued' + C' + U' <= MaxIds + R + A
  <2>1. issued' \in Nat
    BY ServerInvStep DEF ServerInv, RowsTyped
  <2>2. issued + C + U <= MaxIds + R + A
    BY DEF IdsCovered
  <2>3. issued' + C' + U' <= MaxIds + R + A
    BY <1>1, <1>2, <1>3, <2>1, <2>2
  <2>4. QED
    BY <2>3 DEF IdsCovered
<1>4. ASSUME Creates' \subseteq Creates PROVE C' <= C
  BY <1>1, <1>4, FS_Subset
<1>5. ASSUME RowsKept, issued' = issued, Creates' \subseteq Creates
      PROVE  issued' + C' + U' <= issued + C + U
  <2>1. Unseeded' = Unseeded
    BY <1>5 DEF RowsKept, Unseeded
  <2>2. U' = U /\ C' <= C
    BY <1>4, <1>5, <2>1
  <2>3. QED
    BY <1>1, <1>2, <1>5, <2>2
<1>6. ASSUME UNCHANGED << stitches, issued >>, Creates' \subseteq Creates
      PROVE  issued' + C' + U' <= issued + C + U
  BY <1>2, <1>5, <1>6, UnchangedKept
<1>7. CASE SeedInsert
  <2> DEFINE a == Predefined[server.at]
  <2>1. a \in Abbreviations /\ ~ IsPredefined(a)
    <3>1. server.at \in 1 .. Len(Predefined) /\ ~ IsPredefined(a)
      <4>1. Len(Predefined) \in Nat
        BY <1>7, ReleaseTyped DEF ServerInv, SeedInsert
      <4>2. QED
        BY <1>7, <4>1 DEF ServerInv, SeededSoFar, SeedInsert
    <3>2. Predefined \in Seq(Abbreviations)
      BY <1>7, ReleaseTyped DEF ServerInv, SeedInsert
    <3>3. QED
      BY <3>1, <3>2
  <2>2. Inserted(Stitch(a, Nobody)) /\ Creates' = Creates
    BY <1>7 DEF SeedInsert, Creates
  <2> HIDE DEF a
  <2>3. /\ issued' = issued + 1
        /\ DOMAIN stitches' = DOMAIN stitches \cup {issued'}
        /\ stitches'[issued'] = Stitch(a, Nobody)
        /\ \A i \in DOMAIN stitches : stitches'[i] = stitches[i]
    BY <1>2, <2>1, <2>2, InsertedTyped
  <2>4. \A b : IsPredefined(b) => IsPredefined(b)'
    BY <2>3 DEF IsPredefined
  <2>5. a \notin Unseeded'
    <3>1. stitches'[issued'].owner = Nobody /\ stitches'[issued'].abbr = a
      BY <2>1, <2>3, NewRow
    <3>2. \E i \in DOMAIN stitches' : stitches'[i].owner = Nobody /\ stitches'[i].abbr = a
      BY <2>3, <3>1
    <3>3. QED
      BY <3>2 DEF Unseeded, IsPredefined
  <2>6. a \in Unseeded /\ Unseeded' \subseteq Unseeded \ {a}
    BY <2>1, <2>4, <2>5 DEF Unseeded
  <2>7. U' <= U - 1
    <3>1. IsFiniteSet(Unseeded \ {a}) /\ Cardinality(Unseeded \ {a}) = U - 1
      BY <1>1, <2>6, FS_RemoveElement
    <3>2. QED
      BY <2>6, <3>1, FS_Subset
  <2>8. QED
    BY <1>1, <1>2, <2>2, <2>3, <2>7
<1>8. ASSUME NEW r \in Requests, \E u \in Users, a \in Abbreviations : BeginCreate(r, u, a)
      PROVE  issued' + C' + U' <= MaxIds + R + A
  <2>1. issued < MaxIds /\ UNCHANGED << stitches, issued >>
    BY <1>8 DEF BeginCreate, database
  <2>2. Unseeded' = Unseeded
    BY <2>1 DEF Unseeded, IsPredefined
  <2>3. QED
    BY <1>1, <1>2, <2>1, <2>2
<1>9. ASSUME NEW r \in Requests, InsertStitch(r) \/ UpdateStitch(r) \/ DeleteStitch(r)
      PROVE  issued' + C' + U' <= issued + C + U
  <2>1. RowsKept
    BY <1>9, WriteKeepsRows
  <2>2. request' = [request EXCEPT ![r] = Idle]
    BY <1>9 DEF InsertStitch, UpdateStitch, DeleteStitch, Answer
  <2>3. Creates' = Creates \ {r}
    BY <1>2, <2>2, IdleTyped DEF Creates
  <2>4. CASE issued' = issued
    BY <1>5, <2>1, <2>3, <2>4
  <2>5. CASE issued' # issued
    <3>1. InsertStitch(r) /\ issued' = issued + 1
      BY <1>9, <2>5 DEF InsertStitch, UpdateStitch, DeleteStitch, Inserted
    <3>2. r \in Creates
      BY <3>1 DEF InsertStitch, Creates
    <3>3. C' = C - 1
      BY <1>1, <2>3, <3>2, FS_RemoveElement
    <3>4. Unseeded' = Unseeded
      BY <2>1 DEF RowsKept, Unseeded
    <3>5. QED
      BY <1>1, <1>2, <3>1, <3>3, <3>4
  <2>6. QED
    BY <2>4, <2>5
<1>10. ASSUME NEW r \in Requests, NEW u \in Users, NEW id \in DOMAIN stitches,
              BeginDelete(r, u, id) \/ \E a \in Abbreviations : BeginUpdate(r, u, id, a)
       PROVE  issued' + C' + U' <= issued + C + U
  <2>1. PICK q : request' = [request EXCEPT ![r] = q] /\ q.op # "create"
    <3>1. CASE BeginDelete(r, u, id)
      <4> DEFINE q == [Idle EXCEPT !.step = "get", !.op = "delete", !.user = u, !.id = id]
      <4>1. q.op = "delete"
        BY DEF Idle
      <4>2. QED
        BY <3>1, <4>1 DEF BeginDelete
    <3>2. CASE \E a \in Abbreviations : BeginUpdate(r, u, id, a)
      <4>1. PICK a \in Abbreviations : BeginUpdate(r, u, id, a)
        BY <3>2
      <4> DEFINE q == [step |-> "get", op |-> "update", user |-> u, id |-> id, abbr |-> a]
      <4>2. q.op # "create" /\ request' = [request EXCEPT ![r] = q]
        BY <4>1 DEF BeginUpdate
      <4>3. QED
        BY <4>2
    <3>3. QED
      BY <1>10, <3>1, <3>2
  <2>2. Creates' \subseteq Creates
    BY <1>2, <2>1 DEF Creates
  <2>3. QED
    BY <1>6, <1>10, <2>2 DEF BeginDelete, BeginUpdate, database
<1>11. ASSUME NEW r \in Requests, GetStitch(r) \/ CheckReserved(r) \/ Abort(r)
       PROVE  issued' + C' + U' <= issued + C + U
  <2>1. PICK step \in RequestSteps : Answer(r) \/ GoOn(r, step)
    BY <1>11 DEF GetStitch, CheckReserved, Abort, RequestSteps
  <2>2. Creates' \subseteq Creates
    <3>1. CASE Answer(r)
      BY <1>2, <3>1, IdleTyped DEF Creates, Answer
    <3>2. CASE GoOn(r, step)
      <4>1. [request[r] EXCEPT !.step = step].op = request[r].op
        BY <1>2 DEF RequestType
      <4>2. request' = [request EXCEPT ![r] = [request[r] EXCEPT !.step = step]]
        BY <3>2 DEF GoOn
      <4>3. QED
        BY <1>2, <4>1, <4>2 DEF Creates
    <3>3. QED
      BY <2>1, <3>1, <3>2
  <2>3. QED
    BY <1>6, <1>11, <2>2 DEF GetStitch, CheckReserved, Abort, database
<1>12. CASE UNCHANGED << stitches, issued, request >>
  BY <1>6, <1>12 DEF Creates
<1>13. CASE UNCHANGED << stitches, issued >> /\ NoRequests
  <2>1. Creates' = {}
    BY <1>13, IdleTyped DEF NoRequests, Creates
  <2>2. QED
    BY <1>6, <1>13, <2>1
<1>14. \/ UNCHANGED << stitches, issued, request >>
       \/ UNCHANGED << stitches, issued >> /\ NoRequests
       \/ SeedInsert
       \/ \E r \in Requests : Handle(r)
  BY DEF Next, vars, database, BootStep, StartProcess, ReadApplied, ApplyMigration,
         MigrationsDone, SeedLookup, Listen, Crash, Stop, Resume, Shutdown
<1>15. QED
  BY <1>7, <1>8, <1>9, <1>10, <1>11, <1>12, <1>13, <1>14 DEF Handle

\* Types, the ids of rows, and the ids used up: each stitch is seeded once however
\* often the process is killed, and requests run only in a process that serves.
THEOREM ServerTypeCorrect ==
  ASSUME FiniteInstance
  PROVE  Spec => []TypeOK
<1>1. Init => IdsCovered
  <2> SUFFICES ASSUME Init PROVE IdsCovered
    OBVIOUS
  <2>1. Creates = {} /\ Unseeded = Abbreviations
    BY IdleTyped DEF Init, Creates, Unseeded, IsPredefined
  <2>2. issued = 0 /\ Cardinality(Creates) = 0
    BY <2>1, FS_EmptySet DEF Init
  <2>3. Cardinality(Requests) \in Nat /\ Cardinality(Abbreviations) \in Nat /\ MaxIds \in Nat
    BY FS_CardinalityType, ServerAssumptions DEF FiniteInstance, ServerAssumptions
  <2>4. QED
    BY <2>1, <2>2, <2>3 DEF IdsCovered
<1>2. IdsCovered /\ ServerInv /\ [Next]_vars => IdsCovered'
  BY IdsStep
<1>3. ServerInv /\ IdsCovered => TypeOK
  <2> SUFFICES ASSUME ServerInv, IdsCovered PROVE TypeOK
    OBVIOUS
  <2>1. issued \in 0 .. MaxIds + Cardinality(Requests) + Cardinality(Abbreviations)
    <3>1. Creates \subseteq Requests /\ Unseeded \subseteq Abbreviations
      BY DEF Creates, Unseeded
    <3>2. /\ Cardinality(Creates) \in Nat /\ Cardinality(Unseeded) \in Nat
          /\ Cardinality(Requests) \in Nat /\ Cardinality(Abbreviations) \in Nat
      BY <3>1, FS_Subset, FS_CardinalityType DEF FiniteInstance
    <3>3. issued \in Nat /\ MaxIds \in Nat
      BY ServerAssumptions DEF ServerInv, RowsTyped, ServerAssumptions
    <3>4. QED
      BY <3>2, <3>3 DEF IdsCovered
  <2>2. \A i \in DOMAIN stitches :
          /\ i \in 1 .. issued
          /\ stitches[i].owner \in Users \cup {Nobody} /\ stitches[i].abbr \in Abbreviations
    BY DEF ServerInv, RowsTyped, RowType
  <2>3. server.phase \in Phases
    BY DEF ProcessType, ServerInv, ProcessTyped
  <2>4. QED
    BY <2>1, <2>2, <2>3 DEF TypeOK, ServerInv, ProcessTyped, RequestsHonest
<1>4. QED
  BY <1>1, <1>2, <1>3, ServerInvHolds, PTL DEF Spec
===============================================================================
