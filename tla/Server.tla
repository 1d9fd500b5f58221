-------------------------------- MODULE Server --------------------------------
(***************************************************************************)
(* The server process from start to exit (main.go), the migrations and the *)
(* predefined stitches it writes before it serves, and the requests that   *)
(* change the stitch library, which live and die with it.                  *)
(*                                                                         *)
(* Start-up is a sequence of SQL statements and transactions on the        *)
(* database file; the process can be killed between any two of them, is    *)
(* restarted (docker-compose.yml, "restart: unless-stopped"), and may be   *)
(* replaced by another release.  A statement, or a transaction, happens    *)
(* as a whole or not at all.  One process runs at a time: the container is *)
(* stopped before its successor is started.                                *)
(***************************************************************************)
EXTENDS Integers, Sequences, FiniteSets

CONSTANTS
  Users, Abbreviations, Nobody,
  Requests,     \* slots for requests in progress
  Releases,     \* for each release the number of its migrations, and the
                \* abbreviations it predefines, in order
  MaxCrashes,   \* bound: times the process is killed or exits with an error
  MaxStops,     \* bound: times the operator stops it
  MaxIds        \* bound: no stitch is made by a user after so many ids

ASSUME ServerAssumptions ==
  /\ Nobody \notin Users
  /\ Releases # << >>
  /\ \A n \in DOMAIN Releases :
       /\ Releases[n].migrations \in Nat \ {0}
       /\ Releases[n].predefined \in Seq(Abbreviations)
  /\ MaxCrashes \in Nat /\ MaxStops \in Nat /\ MaxIds \in Nat

VARIABLES
  installed,  \* the release of the image
  wanted,     \* the operator wants the server to run
  server,     \* the process: its phase, its release, what it has read and where it is
  recorded,   \* the table schema_migrations
  ran,        \* for checking only: the migrations that took effect, in order
  stitches,   \* the table stitches: a function from ids to rows
  issued,     \* ids issued by AUTOINCREMENT
  request,    \* what each request in progress knows, and its next step
  crashes, stops

database == << recorded, ran, stitches, issued >>
operator == << installed, wanted, stops >>
vars == << installed, wanted, server, recorded, ran, stitches, issued, request,
           crashes, stops >>

\* A row: `had' is for checking only, every abbreviation the row has had.
Stitch(a, owner) == [abbr |-> a, owner |-> owner, had |-> {a}]

Down == [phase |-> "down", release |-> 0, applied |-> {}, at |-> 0]

Idle == [step |-> "idle", op |-> "none", user |-> Nobody, id |-> 0, abbr |-> "none"]

Init ==
  /\ installed \in DOMAIN Releases
  /\ wanted = TRUE
  /\ server = Down
  /\ recorded = {}
  /\ ran = << >>
  /\ stitches = << >>
  /\ issued = 0
  /\ request = [r \in Requests |-> Idle]
  /\ crashes = 0
  /\ stops = 0

NoRequests == request' = [r \in Requests |-> Idle]

-----------------------------------------------------------------------------
(***************************************************************************)
(* Start-up.                                                               *)
(***************************************************************************)

\* The container starts: main reads its configuration and opens the database.
StartProcess ==
  /\ server.phase = "down" /\ wanted
  /\ server' = [Down EXCEPT !.phase = "readApplied", !.release = installed]
  /\ UNCHANGED << database, operator, request, crashes >>

\* ensureMigrationsTable and getAppliedMigrations.  That the table exists and
\* is empty, or does not exist, makes no difference.
ReadApplied ==
  /\ server.phase = "readApplied"
  /\ server' = [server EXCEPT !.phase = "migrate", !.applied = recorded, !.at = 1]
  /\ UNCHANGED << database, operator, request, crashes >>

Migrations == Releases[server.release].migrations
Predefined == Releases[server.release].predefined

\* Executes and records in two steps: the process may be killed in between.
ApplyUnrecorded ==
  /\ server.phase = "migrate" /\ server.at <= Migrations
  /\ IF server.at \in server.applied
       THEN server' = [server EXCEPT !.at = @ + 1] /\ UNCHANGED << recorded, ran >>
       ELSE /\ ran' = Append(ran, server.at)
            /\ \/ recorded' = recorded \cup {server.at} /\ server' = [server EXCEPT !.at = @ + 1]
               \/ recorded' = recorded /\ server' = Down
  /\ UNCHANGED << stitches, issued, operator, request, crashes >>

\* One turn of the loop over the sorted files: skip, or execute and record in
\* one transaction.
ApplyMigration ==
  /\ server.phase = "migrate" /\ server.at <= Migrations
  /\ IF server.at \in server.applied
       THEN UNCHANGED << recorded, ran >>
       ELSE recorded' = recorded \cup {server.at} /\ ran' = Append(ran, server.at)
  /\ server' = [server EXCEPT !.at = @ + 1]
  /\ UNCHANGED << stitches, issued, operator, request, crashes >>

MigrationsDone ==
  /\ server.phase = "migrate" /\ server.at > Migrations
  /\ server' = [server EXCEPT !.phase = "seed", !.at = 1]
  /\ UNCHANGED << database, operator, request, crashes >>

\* GetByAbbreviation(abbreviation, nil): WHERE user_id IS NULL.
IsPredefined(a) == \E i \in DOMAIN stitches : stitches[i].owner = Nobody /\ stitches[i].abbr = a

\* Skips what anybody has.
SeedLookupAnyOwner ==
  /\ server.phase = "seed" /\ server.at <= Len(Predefined)
  /\ server' = IF \E i \in DOMAIN stitches : stitches[i].abbr = Predefined[server.at]
                 THEN [server EXCEPT !.at = @ + 1]
                 ELSE [server EXCEPT !.phase = "seedInsert"]
  /\ UNCHANGED << database, operator, request, crashes >>

\* Inserts without looking.
SeedWithoutLookup ==
  /\ server.phase = "seed" /\ server.at <= Len(Predefined)
  /\ server' = [server EXCEPT !.phase = "seedInsert"]
  /\ UNCHANGED << database, operator, request, crashes >>

\* Takes a stitch that is there for an error, and exits.
SeedLookupOrExit ==
  /\ server.phase = "seed" /\ server.at <= Len(Predefined)
  /\ server' = IF IsPredefined(Predefined[server.at]) THEN Down
                 ELSE [server EXCEPT !.phase = "seedInsert"]
  /\ UNCHANGED << database, operator, request, crashes >>

\* One turn of SeedPredefined: look up ...
SeedLookup ==
  /\ server.phase = "seed" /\ server.at <= Len(Predefined)
  /\ server' = IF IsPredefined(Predefined[server.at])
                 THEN [server EXCEPT !.at = @ + 1]
                 ELSE [server EXCEPT !.phase = "seedInsert"]
  /\ UNCHANGED << database, operator, request, crashes >>

With(rows, id, s) == [i \in DOMAIN rows \cup {id} |-> IF i = id THEN s ELSE rows[i]]

\* Takes the id after the number of rows, which deletions lower.
InsertedByCount(s) ==
  LET id == Cardinality(DOMAIN stitches) + 1
  IN  stitches' = With(stitches, id, s) /\ issued' = id

\* INSERT: AUTOINCREMENT never issues an id again.
Inserted(s) == issued' = issued + 1 /\ stitches' = With(stitches, issued', s)

\* ... and insert.  UNIQUE(abbreviation, user_id) does not bind rows whose
\* user_id is NULL: nothing but the lookup keeps a second one out.
SeedInsert ==
  /\ server.phase = "seedInsert"
  /\ Inserted(Stitch(Predefined[server.at], Nobody))
  /\ server' = [server EXCEPT !.phase = "seed", !.at = @ + 1]
  /\ UNCHANGED << recorded, ran, operator, request, crashes >>

\* ListenAndServe; from here on SIGTERM is caught.
Listen ==
  /\ server.phase = "seed" /\ server.at > Len(Predefined)
  /\ server' = [server EXCEPT !.phase = "serving", !.at = 0, !.applied = {}]
  /\ UNCHANGED << database, operator, request, crashes >>

-----------------------------------------------------------------------------
(***************************************************************************)
(* The end of a process.                                                   *)
(***************************************************************************)

\* The process is killed, or a statement of its start-up fails and it exits:
\* whatever is in progress ends with it, at any point.
Crash ==
  /\ server.phase # "down"
  /\ crashes < MaxCrashes
  /\ crashes' = crashes + 1
  /\ server' = Down
  /\ NoRequests
  /\ UNCHANGED << database, operator >>

\* The operator stops the container: SIGTERM, which ends a process that is
\* starting up and makes one that serves shut down.
Stop ==
  /\ wanted /\ stops < MaxStops
  /\ wanted' = FALSE
  /\ stops' = stops + 1
  /\ server' = IF server.phase = "serving" THEN [server EXCEPT !.phase = "draining"] ELSE Down
  /\ UNCHANGED << database, installed, request, crashes >>

\* The operator has it started again, perhaps in another release.
Resume ==
  /\ ~ wanted /\ server.phase = "down"
  /\ wanted' = TRUE
  /\ installed' \in DOMAIN Releases
  /\ UNCHANGED << database, server, request, crashes, stops >>

\* Waits for the last request, however long it takes.
ShutdownPatiently ==
  /\ server.phase = "draining"
  /\ request = [r \in Requests |-> Idle]
  /\ server' = Down
  /\ NoRequests
  /\ UNCHANGED << database, operator, crashes >>

\* Shutdown takes no new connection and returns when the last request has been
\* answered, or after five seconds; main then exits, which ends those left.
Shutdown ==
  /\ server.phase = "draining"
  /\ server' = Down
  /\ NoRequests
  /\ UNCHANGED << database, operator, crashes >>

-----------------------------------------------------------------------------
(***************************************************************************)
(* Requests to the stitch library (internal/service/stitch.go).            *)
(***************************************************************************)

Running == server.phase \in {"serving", "draining"}

GoOn(r, step) == request' = [request EXCEPT ![r].step = step]
Answer(r)     == request' = [request EXCEPT ![r] = Idle]

\* A valid form; one that is not is answered at once.
BeginCreate(r, u, a) ==
  /\ server.phase = "serving" /\ request[r] = Idle
  /\ issued < MaxIds
  /\ request' = [request EXCEPT ![r] =
       [Idle EXCEPT !.step = "check", !.op = "create", !.user = u, !.abbr = a]]
  /\ UNCHANGED << database, operator, server, crashes >>

BeginUpdate(r, u, id, a) ==
  /\ server.phase = "serving" /\ request[r] = Idle
  /\ request' = [request EXCEPT ![r] =
       [step |-> "get", op |-> "update", user |-> u, id |-> id, abbr |-> a]]
  /\ UNCHANGED << database, operator, server, crashes >>

BeginDelete(r, u, id) ==
  /\ server.phase = "serving" /\ request[r] = Idle
  /\ request' = [request EXCEPT ![r] =
       [Idle EXCEPT !.step = "get", !.op = "delete", !.user = u, !.id = id]]
  /\ UNCHANGED << database, operator, server, crashes >>

\* GetByID, and the check that the stitch is the user's own.  Only a changed
\* abbreviation is checked.
GetStitch(r) ==
  LET q == request[r]
  IN  /\ q.step = "get"
      /\ IF q.id \notin DOMAIN stitches \/ stitches[q.id].owner # q.user THEN Answer(r)
         ELSE GoOn(r, CASE q.op = "delete" -> "write"
                        [] q.abbr = stitches[q.id].abbr -> "write"
                        [] OTHER -> "check")
      /\ UNCHANGED << database, operator, server, crashes >>

\* Checks nothing.
CheckNothing(r) ==
  /\ request[r].step = "check"
  /\ GoOn(r, "write")
  /\ UNCHANGED << database, operator, server, crashes >>

CheckReserved(r) ==
  LET q == request[r]
  IN  /\ q.step = "check"
      /\ IF IsPredefined(q.abbr) THEN Answer(r) ELSE GoOn(r, "write")
      /\ UNCHANGED << database, operator, server, crashes >>

\* UNIQUE(abbreviation, user_id), for a row of u other than id.
Taken(u, a, id) ==
  \E i \in DOMAIN stitches \ {id} : stitches[i].owner = u /\ stitches[i].abbr = a

InsertStitch(r) ==
  LET q == request[r]
  IN  /\ q.step = "write" /\ q.op = "create"
      /\ IF Taken(q.user, q.abbr, 0) THEN UNCHANGED << stitches, issued >>
         ELSE Inserted(Stitch(q.abbr, q.user))
      /\ Answer(r)
      /\ UNCHANGED << recorded, ran, operator, server, crashes >>

\* UPDATE ... WHERE id: a row that has gone is "not found".
UpdateStitch(r) ==
  LET q == request[r]
  IN  /\ q.step = "write" /\ q.op = "update"
      /\ stitches' =
           IF q.id \notin DOMAIN stitches \/ Taken(q.user, q.abbr, q.id) THEN stitches
           ELSE [stitches EXCEPT ![q.id].abbr = q.abbr, ![q.id].had = @ \cup {q.abbr}]
      /\ Answer(r)
      /\ UNCHANGED << recorded, ran, issued, operator, server, crashes >>

DeleteStitch(r) ==
  LET q == request[r]
  IN  /\ q.step = "write" /\ q.op = "delete"
      /\ stitches' = [i \in DOMAIN stitches \ {q.id} |-> stitches[i]]
      /\ Answer(r)
      /\ UNCHANGED << recorded, ran, issued, operator, server, crashes >>

\* The client disconnects.
Abort(r) ==
  /\ request[r] # Idle
  /\ Answer(r)
  /\ UNCHANGED << database, operator, server, crashes >>

-----------------------------------------------------------------------------
BootStep ==
  \/ ReadApplied \/ ApplyMigration \/ MigrationsDone
  \/ SeedLookup \/ SeedInsert \/ Listen

Handle(r) ==
  \/ \E u \in Users :
       \/ \E a \in Abbreviations : BeginCreate(r, u, a)
       \/ \E id \in DOMAIN stitches :
            BeginDelete(r, u, id) \/ \E a \in Abbreviations : BeginUpdate(r, u, id, a)
  \/ GetStitch(r) \/ CheckReserved(r)
  \/ InsertStitch(r) \/ UpdateStitch(r) \/ DeleteStitch(r)
  \/ Abort(r)

Next ==
  \/ StartProcess \/ BootStep
  \/ Crash \/ Stop \/ Resume \/ Shutdown
  \/ \E r \in Requests : Handle(r)

\* The supervisor restarts the process, and the process goes on.  Requests get
\* no fairness: a client may keep one waiting for ever.
Fairness == WF_vars(StartProcess) /\ WF_vars(BootStep) /\ WF_vars(Shutdown)

Spec == Init /\ [][Next]_vars /\ Fairness

-----------------------------------------------------------------------------
Phases == {"down", "readApplied", "migrate", "seed", "seedInsert", "serving", "draining"}

\* Rows have ids that were issued, each predefined stitch takes one id however
\* often it is seeded, and requests run in a process that serves.
TypeOK ==
  /\ installed \in DOMAIN Releases /\ wanted \in BOOLEAN
  /\ server.phase \in Phases
  /\ \A i \in DOMAIN stitches :
       /\ i \in 1 .. issued
       /\ stitches[i].owner \in Users \cup {Nobody} /\ stitches[i].abbr \in Abbreviations
  /\ issued \in 0 .. MaxIds + Cardinality(Requests) + Cardinality(Abbreviations)
  /\ crashes \in 0 .. MaxCrashes /\ stops \in 0 .. MaxStops
  /\ \A r \in Requests : request[r] # Idle => Running

\* runner.go:14, "tracks applied migrations": each migration takes effect once,
\* and in order, whatever releases have run and wherever they were killed.
MigrationsOnceInOrder ==
  /\ ran = [n \in 1 .. Len(ran) |-> n]
  /\ recorded = 1 .. Len(ran)

\* A process that answers requests has all the tables its release needs, and
\* every stitch it predefines, though users may have taken the abbreviation.
ServingIsReady ==
  Running => /\ 1 .. Migrations \subseteq recorded
             /\ \A n \in DOMAIN Predefined : IsPredefined(Predefined[n])

\* The table changes only as StitchLibrary allows.  No stitch is predefined
\* twice, however often the process is killed and restarted while it seeds
\* (service/stitch.go:165, "It is idempotent"), and nobody takes an abbreviation
\* that is predefined, though the check for it and the write are two statements
\* with anything in between.  No constraint sees to either; the lookups do, and
\* the order of main, which seeds before it serves.
Library == INSTANCE StitchLibrary WITH library <- stitches

ImplementsLibrary == Library!LibrarySpec

\* A request reads the owner of a stitch, and later writes by id: the row it
\* changes or deletes is still a stitch of its own user.
OnlyOwnStitchesChange ==
  [][\A i \in DOMAIN stitches :
       i \notin DOMAIN stitches' \/ stitches'[i] # stitches[i] =>
         \E r \in Requests : /\ request[r].step = "write" /\ request'[r] = Idle
                           /\ request[r].user = stitches[i].owner]_vars

\* A server that is wanted serves in the end, wherever earlier processes were
\* killed: whatever they left in the database, the start-up can go on from it.
ServesInTheEnd == wanted ~> (server.phase = "serving" \/ ~ wanted)

\* main.go:93, "Graceful shutdown": a shutdown ends, even with a client that
\* keeps its request open for ever.
ShutdownEnds == server.phase = "draining" ~> server.phase = "down"

=============================================================================
