----------------------------- MODULE WorkSession -----------------------------
(***************************************************************************)
(* The sessions of one pattern, as the HTTP handlers of                    *)
(* internal/handler/worksession.go run them, while its owner may also edit *)
(* or delete the pattern.                                                  *)
(*                                                                         *)
(* SetMaxOpenConns(1) makes every SQL statement, and every transaction, an *)
(* atomic step; a request is a sequence of such steps, and the steps of    *)
(* different requests interleave.  Between its steps a request works on    *)
(* copies: the session row it loaded, and the pattern that                 *)
(* patternRepo.GetByID put together from several queries outside any       *)
(* transaction.                                                            *)
(*                                                                         *)
(* All requests are the owner's: a request of another user is answered     *)
(* "Not Found" after its first read, or in Start after its last one, and   *)
(* changes nothing.                                                        *)
(***************************************************************************)
EXTENDS PatternNavigation

CONSTANTS
  Patterns,     \* the contents the pattern can be given by its owner
  Requests,     \* slots for requests in progress
  MaxSessions,  \* bound: sessions ever started
  MaxEdits,     \* bound: times the pattern is saved or deleted
  NoRow         \* what a query for a missing row returns

ASSUME WorkSessionAssumptions ==
  /\ \A p \in Patterns : ValidPattern(p)
  /\ MaxSessions \in Nat /\ MaxEdits \in Nat
  /\ NoRow \notin [save : 0 .. MaxEdits, groups : Patterns]

VARIABLES
  stored,    \* the pattern: its groups, and which save they come from; or NoRow
  sessions,  \* the table work_sessions
  started,   \* sessions inserted so far; AUTOINCREMENT never reuses an id
  request    \* what each request in progress has read, and its next step

vars == << stored, sessions, started, request >>

SessionIds == 1 .. MaxSessions

Navigations == {"next", "prev", "pause", "resume"}
Operations  == Navigations \cup {"start", "view", "abandon"}

(***************************************************************************)
(* A row: position, status, and whether completed_at is set.               *)
(***************************************************************************)
NewSession == [pos |-> Start, status |-> "active", stamped |-> FALSE]

\* A request: its next step, what it is for, the session id and the copy of
\* its row, the copy of the pattern so far (`save' identifies the groups the
\* header query found, `loaded' how many of them have their entries).
Idle == [step |-> "idle", op |-> "none", id |-> 0, row |-> NoRow,
         copy |-> << >>, save |-> 0, loaded |-> 0]

Init ==
  /\ stored \in [save : {0}, groups : Patterns]
  /\ sessions = [id \in SessionIds |-> NoRow]
  /\ started = 0
  /\ request = [r \in Requests |-> Idle]

Answer(r) == request' = [request EXCEPT ![r] = Idle]

-----------------------------------------------------------------------------
(***************************************************************************)
(* Loading.                                                                *)
(***************************************************************************)

\* HandleStart begins with the pattern; there is no session to load.
BeginStart(r) ==
  /\ request[r] = Idle
  /\ started < MaxSessions
  /\ request' = [request EXCEPT ![r] = [Idle EXCEPT !.step = "readPattern", !.op = "start"]]
  /\ UNCHANGED << stored, sessions, started >>

\* Every other handler begins with workSessionRepo.GetByID.  An unknown id is
\* answered at once; only ids that have existed are tried here.
ReadSession(r, op, id) ==
  /\ request[r] = Idle
  /\ sessions[id] # NoRow
  /\ request' = [request EXCEPT ![r] =
       [Idle EXCEPT !.step = IF op = "abandon" THEN "delete" ELSE "readPattern",
                    !.op = op, !.id = id, !.row = sessions[id]]]
  /\ UNCHANGED << stored, sessions, started >>

\* The first query of patternRepo.GetByID: does the pattern exist?
ReadPattern(r) ==
  /\ request[r].step = "readPattern"
  /\ IF stored = NoRow THEN Answer(r)
     ELSE request' = [request EXCEPT ![r].step = "readGroups"]
  /\ UNCHANGED << stored, sessions, started >>

\* The groups, without their entries, as loadGroups first sees them.
GroupHeaders(p) == [i \in DOMAIN p |-> [repeat |-> p[i].repeat, entries |-> << >>]]

\* loadGroups: one query for the groups, by the pattern's id ...
ReadGroups(r) ==
  /\ request[r].step = "readGroups"
  /\ request' = [request EXCEPT
       ![r].step = "readEntries",
       ![r].save = IF stored = NoRow THEN 0 ELSE stored.save,
       ![r].copy = IF stored = NoRow THEN << >> ELSE GroupHeaders(stored.groups)]
  /\ UNCHANGED << stored, sessions, started >>

\* The entries of group i as the query by group id finds them: a save of the
\* pattern deletes the groups and inserts new ones, and so does away with the
\* ids an earlier query returned.
EntriesById(i, save) ==
  IF stored # NoRow /\ stored.save = save THEN stored.groups[i].entries ELSE << >>

\* ... then one query per group for its entries, by the group's id.
ReadEntries(r) ==
  LET q == request[r]
      i == q.loaded + 1
  IN  /\ q.step = "readEntries"
      /\ IF q.loaded < Len(q.copy)
           THEN request' = [request EXCEPT
                  ![r].copy[i].entries = EntriesById(i, q.save),
                  ![r].loaded = i]
           ELSE request' = [request EXCEPT ![r].step = "write"]
      /\ UNCHANGED << stored, sessions, started >>

-----------------------------------------------------------------------------
(***************************************************************************)
(* Writing.  Navigation works on the copies; then a single UPDATE writes   *)
(* all five counters, the status and completed_at of the copy.             *)
(***************************************************************************)

\* The row a request would write.  A status that does not allow the operation
\* leads to a redirect (next, prev) or an error (pause, resume) instead.
AllowedAlways(op, row) == row.status # "completed"

Allowed(op, row) ==
  IF op = "resume" THEN row.status = "paused" ELSE row.status = "active"

\* Leaves completed_at as it was.
MovedUnstamped(p, row) ==
  LET there == NavigateForward(p, row.pos)
  IN  [row EXCEPT !.pos = there,
                  !.status = IF PastEnd(p, there) THEN "completed" ELSE @]

\* Looks for the end before the move instead of after it.
MovedCompletesLate(p, row) ==
  IF PastEnd(p, row.pos)
    THEN [row EXCEPT !.status = "completed", !.stamped = TRUE]
    ELSE [row EXCEPT !.pos = NavigateForward(p, row.pos)]

Moved(p, row) ==
  LET there == NavigateForward(p, row.pos)
  IN  IF PastEnd(p, there)
        THEN [pos |-> there, status |-> "completed", stamped |-> TRUE]
        ELSE [row EXCEPT !.pos = there]

Updated(op, p, row) ==
  CASE op = "next"   -> Moved(p, row)
    [] op = "prev"   -> [row EXCEPT !.pos = NavigateBackward(p, row.pos)]
    [] op = "pause"  -> [row EXCEPT !.status = "paused"]
    [] op = "resume" -> [row EXCEPT !.status = "active"]

\* NavigateBackward may panic on the copies; net/http recovers and drops the
\* connection, so nothing is written.
NavigationPanics(q) == q.op = "prev" /\ BackwardPanics(q.copy, q.row.pos)

\* workSessionRepo.Update inserts the row when there is none to update.
UpsertSession(r) ==
  LET q == request[r]
  IN  /\ q.step = "write" /\ q.op \in Navigations
      /\ sessions' = IF Allowed(q.op, q.row) /\ ~ NavigationPanics(q)
                       THEN [sessions EXCEPT ![q.id] = Updated(q.op, q.copy, q.row)]
                       ELSE sessions
      /\ Answer(r)
      /\ UNCHANGED << stored, started >>

\* HandleForward, HandleBackward, HandlePause, HandleResume: navigate, UPDATE,
\* answer.  An UPDATE that finds no row is an error and changes nothing.
UpdateSession(r) ==
  LET q == request[r]
  IN  /\ q.step = "write" /\ q.op \in Navigations
      /\ sessions' =
           IF Allowed(q.op, q.row) /\ ~ NavigationPanics(q) /\ sessions[q.id] # NoRow
             THEN [sessions EXCEPT ![q.id] = Updated(q.op, q.copy, q.row)]
             ELSE sessions
      /\ Answer(r)
      /\ UNCHANGED << stored, started >>

\* HandleView only renders.
AnswerView(r) ==
  /\ request[r].step = "write" /\ request[r].op = "view"
  /\ Answer(r)
  /\ UNCHANGED << stored, sessions, started >>

\* The INSERT of Start without the foreign key to the pattern.
InsertUnreferenced(r) ==
  /\ request[r].step = "write" /\ request[r].op = "start"
  /\ IF request[r].copy # << >> /\ started < MaxSessions
       THEN /\ started' = started + 1
            /\ sessions' = [sessions EXCEPT ![started'] = NewSession]
       ELSE UNCHANGED << sessions, started >>
  /\ Answer(r)
  /\ UNCHANGED stored

\* Start refuses a pattern without groups; the foreign key on pattern_id
\* refuses a session for a pattern that is gone by now.
InsertSession(r) ==
  /\ request[r].step = "write" /\ request[r].op = "start"
  /\ IF request[r].copy # << >> /\ stored # NoRow /\ started < MaxSessions
       THEN /\ started' = started + 1
            /\ sessions' = [sessions EXCEPT ![started'] = NewSession]
       ELSE UNCHANGED << sessions, started >>
  /\ Answer(r)
  /\ UNCHANGED stored

\* HandleAbandon: DELETE by id; a row already gone is an error.
DeleteSession(r) ==
  /\ request[r].step = "delete"
  /\ sessions' = [sessions EXCEPT ![request[r].id] = NoRow]
  /\ Answer(r)
  /\ UNCHANGED << stored, started >>

\* The client goes away, or the server stops, between two steps: the context
\* of the request is cancelled and its remaining statements are not executed.
Abort(r) ==
  /\ request[r] # Idle
  /\ Answer(r)
  /\ UNCHANGED << stored, sessions, started >>

-----------------------------------------------------------------------------
(***************************************************************************)
(* The pattern's owner.                                                    *)
(***************************************************************************)

\* patternRepo.Update commits in one transaction and touches no session.
SavePattern ==
  /\ stored # NoRow
  /\ stored.save < MaxEdits
  /\ stored' \in [save : {stored.save + 1}, groups : Patterns]
  /\ UNCHANGED << sessions, started, request >>

\* patternRepo.Delete: the sessions go with it, ON DELETE CASCADE.
DeletePattern ==
  /\ stored # NoRow
  /\ stored.save < MaxEdits
  /\ stored' = NoRow
  /\ sessions' = [id \in SessionIds |-> NoRow]
  /\ UNCHANGED << started, request >>

-----------------------------------------------------------------------------
Handle(r) ==
  \/ BeginStart(r)
  \/ \E op \in Operations \ {"start"}, id \in SessionIds : ReadSession(r, op, id)
  \/ ReadPattern(r) \/ ReadGroups(r) \/ ReadEntries(r)
  \/ UpdateSession(r) \/ AnswerView(r) \/ InsertSession(r) \/ DeleteSession(r)
  \/ Abort(r)

Next ==
  \/ \E r \in Requests : Handle(r)
  \/ SavePattern
  \/ DeletePattern

Spec == Init /\ [][Next]_vars

-----------------------------------------------------------------------------
Row == [pos : Position, status : {"active", "paused", "completed"}, stamped : BOOLEAN]

\* Every stored row and every request in progress is well formed.
TypeOK ==
  /\ stored # NoRow => stored \in [save : 0 .. MaxEdits, groups : Patterns]
  /\ started \in 0 .. MaxSessions
  /\ \A id \in SessionIds : sessions[id] # NoRow => sessions[id] \in Row /\ id <= started
  /\ \A r \in Requests :
       /\ request[r].step \in {"idle", "readPattern", "readGroups", "readEntries",
                              "write", "delete"}
       /\ request[r].op \in Operations \cup {"none"}
       /\ request[r].row # NoRow => request[r].row \in Row
       /\ request[r].loaded \in 0 .. Len(request[r].copy)

\* Rows, and the copies requests hold of them.
LiveRows == {sessions[id] : id \in SessionIds} \ {NoRow}
LoadedRows == {request[r].row : r \in Requests} \ {NoRow}

\* A session is listed as completed, with the time of its completion, or it is
\* not completed and has no such time - whatever stale copies are written
\* back, because the status and completed_at are written by one UPDATE.
CompletionIsStamped ==
  \A row \in LiveRows \cup LoadedRows : row.stamped <=> row.status = "completed"

\* No session outlives its pattern, not even one whose Start had already read
\* the pattern when it was deleted.
SessionsHaveTheirPattern == LiveRows # {} => stored # NoRow

\* An abandoned session stays abandoned: no navigation or pause still in
\* progress brings its row back.
AbandonedForGood ==
  [][\A id \in SessionIds :
       id <= started /\ sessions[id] = NoRow => sessions'[id] = NoRow]_vars

\* As long as the pattern has not been edited, whatever requests interleave:
\* each stored row is a position of the pattern, completed exactly when past
\* the end, so that no request indexes out of range.
RowFits(row) ==
  FitsPattern(stored.groups, row.pos)
    /\ (row.status = "completed" <=> PastEnd(stored.groups, row.pos))

StoredRowsFit ==
  stored # NoRow /\ stored.save = 0 => \A row \in LiveRows : RowFits(row)

\* A request finishes whose copies of the row and of the pattern are what is
\* stored: nobody has overtaken it, and the row is a position of the pattern.
FinishesUpToDate(r, id) ==
  /\ request[r].step = "write" /\ request[r].op \in Navigations /\ request[r].id = id
  /\ request'[r] = Idle
  /\ request[r].row = sessions[id]
  /\ stored # NoRow /\ request[r].copy = stored.groups
  /\ RowFits(sessions[id])

\* One session of the pattern, as Navigation has it.
Navigated(id) == INSTANCE Navigation WITH
  pattern <- stored.groups, pos <- sessions[id].pos, status <- sessions[id].status

\* Whatever else is in progress, a request nobody has overtaken changes its
\* session by a step of Navigation, and so of the single stitch counter that
\* Navigation implements.  In particular it never changes a completed session.
RequestsNavigate ==
  [][\A id \in SessionIds, r \in Requests :
       sessions[id] # NoRow /\ FinishesUpToDate(r, id) =>
         [Navigated(id)!Next]_(sessions[id])]_vars

-----------------------------------------------------------------------------
(***************************************************************************)
(* What a document says, and the code does not keep.                       *)
(***************************************************************************)

\* What a request whose copies are complete is about to do: HandleView computes
\* the progress of the row it loaded; the others compute the progress of the
\* row they have written, after their UPDATE has found it.
RequestPanics(q) ==
  \/ q.op = "view" /\ ProgressPanics(q.copy, q.row.pos)
  \/ /\ q.op \in Navigations /\ Allowed(q.op, q.row)
     /\ \/ NavigationPanics(q)
        \/ sessions[q.id] # NoRow /\ ProgressPanics(q.copy, Updated(q.op, q.copy, q.row).pos)

\* imp.md:861: "The work session tracker already handles out-of-bounds indices
\* gracefully": no request on an edited pattern indexes out of range, not even
\* one that has read all of the edited pattern.
TrackerNeverPanics ==
  \A r \in Requests :
    request[r].step = "write" /\ stored # NoRow /\ request[r].copy = stored.groups
      => ~ RequestPanics(request[r])

=============================================================================
