# Stitch Map: specifications, model checking and proofs

Stitch Map is a Go web application for crochet patterns: users write patterns,
work through them stitch by stitch, attach photos to their parts, and share
them.  It runs as one process over one SQLite database.  This directory holds
TLA+ models of its logic, TLC configurations that check them on small
instances, and proofs checked by TLAPS.  Paths below are relative to the root
of the repository.

## How the system runs, and what that means for the models

* `net/http` serves every request in a goroutine of its own.  Handlers share no
  memory except the rate limiter's map (under a mutex); all other state is in
  the database.
* `db.SetMaxOpenConns(1)` (`internal/repository/sqlite/sqlite.go:75`) leaves one
  connection: one SQL statement, or one transaction, is an atomic step, and
  between two statements of a request any other request may run.  A request
  keeps *copies* of what it read; this is where the hard behaviour comes from.
* Only `patternRepo.Create`, `patternRepo.Update` and the migrations use
  transactions.  `patternRepo.GetByID` is several queries and is not one.
* A handler that panics is recovered by `net/http`; a cancelled request stops
  between two statements.  There are no background jobs except the rate
  limiter's cleanup, no retries and no message queues.
* The process may be killed between any two statements, in its start-up too.
  `docker-compose.yml:15` has it restarted, and it must go on from whatever is
  in the database.  This, and its shutdown, is where something must *eventually*
  happen; a session, an upload or a save advances only when its user clicks.
* The browser is the other process of the system.  It keeps the form of the
  editor and the cookie, sends several requests at once, and may get their
  answers in another order, or not at all.

## Inventory

| Component | State | Operations | What is hard | What makes it correct |
|---|---|---|---|---|
| Work session navigation (`service/worksession.go`) | five nested counters | NavigateForward, NavigateBackward, ComputeProgress, labels | carries and borrows at five boundaries, groups without entries | the position stays in the pattern; counters, labels and bars agree |
| Work session requests (`handler/worksession.go`, `repository/sqlite/worksession.go`) | table `work_sessions` | start, view, next, prev, pause, resume, abandon | lost updates, edits and deletion of the pattern, torn reads | rows are positions of the pattern; who is not overtaken changes no completed session; no row outlives its pattern |
| Patterns (`service/pattern.go`, `repository/sqlite/pattern.go`, `handler/pattern.go`) | `patterns`, `instruction_groups`, `pattern_stitches`, `stitch_entries` | create, view, edit, delete, duplicate | delete-and-reinsert under new ids, torn reads by duplicate | entries refer to stitches of their own pattern; received patterns stand alone |
| Images (`service/image.go`, `repository/sqlite/pattern_image.go`, `filestore.go`) | `pattern_images`, `file_blobs` | upload, serve, delete, carried over by edits, copied by shares | count-then-insert, two tables without a transaction, edits that renumber groups | every image has its blob, at most five per part, images stay with their part while it keeps its place |
| Sharing (`service/share.go`, `repository/sqlite/share.go`, `handler/share.go`) | `pattern_shares` | global and e-mail links, revoke, preview, save | check-then-insert, revoke against a save in progress | links are reused, one copy per viewer, and only for who was invited; copies are independent |
| Editor (`view/pattern_editor_templ.go`, `handler/pattern.go`, `service/pattern.go`) | the form in the browser | open, add and remove parts and entries, select, submit, show again | fragments that overtake each other or are lost, sparse indices, a library that changes meanwhile | no two rows share an index; what is saved is what was shown; forms show what was selected |
| Stitch library (`service/stitch.go`, `repository/sqlite/stitch.go`) | `stitches` | create, update, delete custom stitches, seed | checks before writes, an index that does not bind predefined stitches, seeding cut off and repeated, upgrades | one meaning for an abbreviation, per owner; predefined once; only one's own stitches change |
| Accounts (`service/auth.go`, `handler/middleware.go`, `handler/auth.go`) | `users`, a signed token in a cookie | register, login, logout, authenticate | registrations that race, answers that overtake each other, tokens that outlive the logout | who registered can log in; a request acts for who logged in; password checks are bounded |
| Rate limiter (`service/ratelimit.go`) | a token bucket per client, in memory | Allow, cleanup | cleanup forgets a bucket that may not be full | no more than capacity + rate * time requests pass |
| Migrations (`repository/sqlite/migrations`) | `schema_migrations` | Run at start-up | crash between two migrations, upgrades | each applied once, in order |
| Start-up and shutdown (`main.go`) | the phase of the process | open, migrate, seed, serve, drain | crashes anywhere, clients that hold up a shutdown | serves only when ready, serves in the end, a shutdown ends |
| Text rendering, pages (`service/renderer.go`, `view/`) | none, the editor apart | formatting | - | - |

PROJECT.json lists the hazards of each component with the line where they bite.

## Modules

| Module | What it is |
|---|---|
| `PatternNavigation` | patterns, positions, and every pure function of `service/worksession.go` and the stitch counts of `service/pattern.go`, as operators |
| `StitchCursor` | abstract specification: a session is one counter on a line of stitches |
| `Navigation` | one session of one pattern: the four operations of the service; implements `StitchCursor` |
| `PatternNavigationProofs` | lemmas about the functions of `PatternNavigation` |
| `NavigationProofs` | TLAPS proofs about `Navigation` |
| `WorkSession` | the table `work_sessions` of a pattern under concurrent requests, edits, deletion and cancelled requests |
| `WorkSessionProofs` | TLAPS proofs about `WorkSession` |
| `EagerBucket` | abstract specification: buckets refilled on every tick and never forgotten |
| `RateLimiter` | `Allow` and `cleanup` under the mutex; implements `EagerBucket` |
| `Images` | the tables `pattern_images` and `file_blobs` of a pattern under uploads, deletions and saves |
| `ImagesProofs` | TLAPS proofs about `Images` |
| `PatternTables` | the rows of a stored pattern, and what insertion, remapping of ids and the queries do to them |
| `Sharing` | links, saves of shared patterns, duplicates, edits and deletions over a store of patterns |
| `SharingProofs` | TLAPS proofs about `PatternTables` and `Sharing` |
| `StitchLibrary` | abstract specification: abbreviations, what they mean to whom, and how that may change |
| `Server` | the process from start to exit, migrations, seeding, and the requests that change the library; implements `StitchLibrary` |
| `ServerProofs` | TLAPS proofs about `Server` |
| `Editor` | a pattern written in the browser and saved, while the library changes as `StitchLibrary` allows |
| `EditorProofs` | TLAPS proofs about `Editor` |
| `Accounts` | registration, login, logout and authentication, behind `RateLimiter` |
| `AccountsProofs` | TLAPS proofs about `RateLimiter` and `Accounts` |
| `MCNavigation`, `MCWorkSession`, `MCImages`, `MCSharing`, `MCServer`, `MCEditor`, `MCAccounts` | finite patterns, forms, users, releases and credentials for TLC |

Who uses whom: `Navigation` and `WorkSession` extend `PatternNavigation`;
`Navigation` instantiates `StitchCursor`, and `WorkSession` instantiates
`Navigation` for each row of its table.  `Accounts` extends `RateLimiter`, which
instantiates `EagerBucket`.  `Server` and `Editor` meet in `StitchLibrary`: the
one is shown to implement it, the other relies on nothing else.  `Sharing`
extends `PatternTables`.  `Images` stands alone: its parts are the groups of one
pattern.  Proofs are in modules of their own, one for each component;
`NavigationProofs` and `WorkSessionProofs` share the lemmas of
`PatternNavigationProofs`.

In each module a few definitions stand beside the ones of the code with one
guard, one assignment or one statement changed (`AllowAnyRest`, `SeedWithoutLookup`
and their like).  No specification uses them.  PROJECT.json lists them as
mutants: each property is violated when the definition it names is exchanged
for its mutant.

### PatternNavigation, Navigation, StitchCursor

A pattern is a sequence of groups `[repeat, entries]`, an entry is
`[count, repeat, stitch]`; ids, labels, notes and the mapping from stitch ids
to abbreviations are dropped, because navigation reads none of them.  A
position is the record of the five counters, from 0 as in the code.  Loops that
skip empty groups (`advanceGroup` by recursion, `retreatToPreviousGroup`,
`getPrevStitchAbbr` and `getNextStitchAbbr` by `for`) are written as the least or
greatest index of a set of non-empty groups.  Slice accesses that Go would
reject are the operators `BackwardPanics` and `ProgressPanics`.

`Navigation` has the actions `Forward` (AdvanceSession), `Backward`
(RetreatSession), `Pause` and `Resume`.  `StitchCursor` is what they promise:
the pattern written out stitch by stitch, and a counter on it that Next raises
and Back lowers by exactly one.

### WorkSession

A request is a record with its next step, the session row it loaded and the
pattern as far as it has read it.  The steps are the SQL statements:
`ReadSession`, `ReadPattern`, `ReadGroups`, one `ReadEntries` per group, then
`UpdateSession`, `InsertSession`, `AnswerView` or `DeleteSession`.  `SavePattern`
and `DeletePattern` are the transactions of the owner's edits; their requests'
own reads do not matter here, and a save brings new group ids, which is why the
entries of an old group id come back empty (`EntriesById`).  `Abort` is a client
that disconnects or a server that stops: `DeleteSession` or `UpdateSession` then
never happen.  All requests are those of the owner; a request of another user
changes nothing.

`RequestsNavigate` ties the rows to `Navigation` while requests overlap: a
request whose copies of the row and of the pattern are still what is stored
changes the row by a step of `Navigation`.  It says nothing of one that has been
overtaken, because the code promises nothing then.

### RateLimiter, EagerBucket

The clock is a natural number.  The floating-point tokens are counted in a unit
of which `Cost` make one token, so that a rate may be a fraction of a token per
tick; rounding is left out.  `Allow` and `Cleanup` are one action each, being
critical sections of one mutex.  The ticker of `cleanup` is `due`: it fires every
`CleanupEvery` ticks whether or not the last round has been taken, and the
goroutine takes it at any later time.  `window` is a history variable:
`OpenWindow` starts, at any moment, to count the requests of one client that
pass.

`EagerBucket` has a clock, and a level for every client that is refilled on every
tick of it.  The refinement maps the level to what the bucket in the map would
hold if it were used now (`Level`), and to a full bucket for a client that is not
in the map.

### Images

One pattern.  A row of `pattern_images` is known by the key of its bytes and by
the place of its group; its id changes with every save, so requests remember the
edition they read.  `Upload` is `BeginUpload`, `CountImages`, `SaveFile`,
`CreateImage` and, when the row is rejected because its group has gone,
`CleanUpFile`; `Delete` is `BeginDelete`, `GetImage`, `DeleteFile`, `DeleteImage`.
`SavePattern` is the transaction of `patternRepo.Update`: the cascade drops the
rows, `restoreImages` re-inserts those whose sort order still has a group, and
drops the bytes of the rest.  `DeletePattern` leaves the bytes where they are, as
the code does.  `of` and `before` are history fields: the part an image was
uploaded to, which is the one that the index in the URL names when the request
is resolved, and the parts before it.  The program knows a part by its place only.
So `ImagesStayWithPart` and `SavesKeepImagesInPlace` say what becomes of an image
while its part and those before it are kept (`LeavesInPlace`), whatever else is
added or removed; when one before it goes, the image moves to a later part, or is
lost, which `SavesKeepImages` is about.  `strays` is another: the keys of uploads
and deletions that did not run to their end, of deletions that a save has
overtaken, and of the images of a deleted pattern.  These are the ways in which
bytes and rows come apart, and `NoOrphans` and `RowsHaveBytes` say that there are
no others.

### PatternTables and Sharing

A stored pattern has stitch rows by id and groups with ids of their own, whose
entries refer to stitch rows.  The foreign key from entries to stitches has no
cascade: `HeldByOthers` is the condition under which a save or a deletion is
rolled back.

A request makes a link for one recipient or for anyone (`ListLinks`, then
`InsertLink`), revokes one or all of them, saves a shared pattern
(`GetShared`, `ListShared`, and the copy) or duplicates a pattern of its own.
The copy is read by `GetPattern`, `LoadStitches`, `LoadGroups` and one
`LoadEntries` per group, written by `Create`, and followed by one `CopyImages`
per group, outside the transaction.  Ids are issued in order and never reused.
`invited` (who ever had a link to what), `torn` (a save or a deletion fell
between the queries of a copy) and `renamed` (the patterns that were saved under
another name) are history variables.

A slot of `Requests` belongs to a user (`SentBy`), and `SlotsOf` are the requests
that a user may have in progress at once.  Nothing in the code, and no UNIQUE
constraint, keeps two of them from both finding no link, or no earlier copy.  So
`LinksAreReused` and `SavedOnce` count: there are no more equal links, or copies
of a pattern, than slots of the user, however many requests follow each other;
with one slot they say that there is one.

`AddImage` and `RemoveImage` are the uploads and deletions of `Images`, of which
only matters whether a group has images.  Their handlers check who owns the
pattern and not whether it was received, and so does the model.

### StitchLibrary and Server

`StitchLibrary` is what users are promised: rows by id, of users or of nobody,
that appear, are renamed and disappear, with the abbreviations reserved that are
predefined at the time.  `had` remembers what a stitch has been called: a
release may predefine an abbreviation that users already have, whose stitches
keep it and may return to it.

`Server` is `main` as a sequence of phases.  `StartProcess` opens the database;
`ReadApplied` and one `ApplyMigration` per file are `migrations.Run`, a file and
its record being one transaction; `SeedLookup` and `SeedInsert` are one turn of
`SeedPredefined`; `Listen` begins to serve.  `Crash` ends the process at any
point, with its requests; `Stop` is SIGTERM, and `Shutdown` the return of
`srv.Shutdown`, with or without requests left.  `Resume` starts it again, perhaps
in another release.  `BeginCreate`, `BeginUpdate` and `BeginDelete` are followed
by `GetStitch`, `CheckReserved` and the write, one statement each.  What a
migration does to the rows is left out, and so is every failure of a statement
other than by a constraint; a failing start-up is a `Crash`.

### Editor

`page` is the form as the browser shows it: parts with an index `gi` and entries
with an index `ei`, which are parts of the names of their fields.  Buttons ask the
server for fragments (`AddPart`, `AddEntry`) numbered by one signal, which
`Deliver` appends and `Lose` drops; removal happens in the browser.  `Submit`
parses the form by sorting the indices it finds (`CollectFormIndices`, the
increasing sequence of a set, and `Parsed`), then come `Validate`, one `Resolve`
per library stitch, and `StorePattern`.  Each may refuse, and the form is rendered
again from what its entries hold by then (`Rerender`): ids of library stitches,
or, after a refusal by the database, indices of a slice.  A row is a stitch and
nothing else: counts, repeats, labels and notes travel with it.  `meant` is a
history field, the stitch the user last selected in the row.

### Accounts

`Accounts` extends `RateLimiter`: `Submit` and `ShowForm` contain `Allow` for the
address of the browser.  A request then waits its turn for `InsertUser`, or for
`CheckPassword` (`GetByEmail`, the comparison and the token are one action: an
account never changes).  Answers with a cookie are steps of their own
(`SetCookie`), so that those to one browser arrive in any order.  `Visit` is any
request of a page that needs a user: it takes the cookie along, and
`Authenticate` and `Serve` follow.  A password stands for its hash and a token for
its signed text; that hashes do not collide and signatures cannot be forged is
what bcrypt and HMAC promise.  `promised`, `checked`, `late` and the last three
fields of a token are history.  `Observe` begins to count, at any moment, the
passwords that are checked for an address, and notes in `late` how many logins have
been let through and wait for the check (`Waiting`): they count as well.

## Runs

### Those that pass

| Run | Shows | Instance |
|---|---|---|
| `navigation` | positions fit, labels and bars agree with the moves, refinement of `StitchCursor` | all patterns of up to 2 groups with up to 2 entries of 4 shapes and repeats up to 2, and all 4-group patterns over one empty and one full group |
| `requests_and_edits` | rows stay well formed and, until an edit, positions of the pattern; completed exactly when stamped; no session without its pattern; abandoned sessions stay away; a request nobody has overtaken moves by a step of `Navigation` | two requests, one session, one save or deletion between two patterns, requests cut off anywhere |
| `accounts` | no window lets more requests through than a full bucket and the refill; from any instant on no more passwords are checked than that and those of the logins waiting then; no stale bucket stays; refinement of `EagerBucket`; who registered can log in; a request acts for who logged in | two browsers behind one address, two requests, two credentials for one e-mail address and one for another, one that the rules refuse; a token of 2 units, capacity 3, rate 1, stale after 3 ticks, cleanup on every tick, 4 ticks, tokens of 2 ticks, 2 accounts |
| `images` | a part exceeds its limit by one image at most; images stay with their part, and are kept, while it and those before it are; bytes and rows come apart only as `strays` names | two requests, limit 1, 3 images, 3 saves among five forms of up to three parts (`AnyPartChanges`), requests cut off anywhere, the pattern may be deleted |
| `sharing_links` | links belong to a pattern; no more equal links, and no more copies of one pattern for one viewer, than this user has requests in progress at once | two users who both write and save, one with two requests and one with a single one; 1 pattern written, 3 in all, 2 links, 4 of both together (`MaxStored`) |
| `sharing_copies` | only who was invited receives; copies are whole and have stitches of their own; received patterns stand alone | an owner and a viewer with a request each, and a third user as a recipient; 1 pattern written, 2 in all, 1 link, 1 save between two forms and two names, 1 image, added and removed |
| `server` | migrations once and in order; a server that answers is ready; refinement of `StitchLibrary`; users change their own stitches only; the server serves in the end, and a shutdown ends | two users with two requests, two abbreviations; a release with 2 migrations and one predefined stitch and one with 3 and two; 2 crashes, 2 stops, user stitches up to id 3 |
| `editor` | no two rows share an index; forms show what was selected; what is saved is what was shown | one user whose library has one abbreviation twice; a new pattern, or a stored one of three rows; 2 clicks, 1 change of the library, 2 submissions |

Why these bounds are enough for the cases that matter:

* *Navigation.*  Each counter has at most two values below its limit, so each
  carry, each borrow, and each "not yet" is taken; four groups are enough for an
  empty group at the start, two in a row, and one at the end.
* *Work sessions.*  Two requests suffice for a lost update (one read, one write
  in between); a third adds only another writer of the same kind.  One save is
  enough to make both a stored position and a read in progress stale.
* *Accounts.*  A capacity that is no multiple of a token leaves a rest that does
  not pay; a bucket can be emptied, forgotten, and used again within the four
  ticks, with the cleanup on time or late.  `StaleAfter` 3 is the least for which
  `CleanupIsLate` holds.  Two requests of one browser suffice for an answer that
  overtakes another, two of different browsers for a race to an e-mail address;
  a token runs out in the middle of the four ticks.
* *Images.*  With a limit of 1, two uploads can count before either inserts, and
  a third key remains for an upload after a cut-off one.  The five forms let the
  first part go, the one in the middle, and the last ones, so that images move to
  later parts and back to a place that was theirs; three saves are enough for a
  part to go, for another to come to its place, and for that one to go again.
* *Sharing.*  Two links are enough for two equal ones and for a link of one
  recipient beside a link for anyone; a second one is a violation where the owner
  has one request.  Three patterns are the original and two copies of it, or a
  copy and a duplicate; both bounds are reached.  `MaxStored` leaves out only that
  three patterns and two links come together.  The saves, names and images
  of `sharing_copies` are not in `sharing_links`: the theorems about `SavedOnce` and
  `LinksAreReused` cover them.  `TwoForms` has the same stitches in
  one part and in two, so that a mixture of both is neither.
* *Server.*  Two crashes let a start-up be cut off twice, once on top of what an
  earlier one left; two stops allow an upgrade and the way back.  The second
  release predefines an abbreviation users may have taken under the first.
* *Editor.*  Two clicks are enough for one fragment to overtake another, for one
  to arrive for a part that has gone, and for indices of different lengths
  (rendered ones begin at 0, added ones beyond 100); two submissions for one that
  is refused and one of the form that is shown then.

`CHECK_DEADLOCK FALSE` is used where the system rightly stops: a completed
session has no further step; the bounds on time, sessions, edits, keys, links,
patterns, accounts, clicks, crashes and stops end the others.  That no server
waits for ever is the subject of `ServesInTheEnd` and `ShutdownEnds`; in the other
models every step is a user's choice, and nothing waits for another step.

### Those that find a violation

Each checks what a comment or a document says; PROJECT.json quotes it.

| Run | What the code does instead |
|---|---|
| `panic_after_edit` | a session is stored at the third entry of a group, an edit cuts the group down to one, and Back indexes the second (`worksession.go:206`) |
| `images_part_removed` | removing a part other than the last gives its images to the next part, and destroys the images of the last, which was kept |
| `torn_copy` | a save between the query of the stitches and that of the groups leaves a copy that refers to the original's stitches, which can from then on be neither saved nor deleted |
| `images_not_copied` | no image is copied: `copyImages` looks for them under the ids of the copy's own groups, with which `insertGroups` has overwritten the original's |

### Limits of what the passing runs say

The conditions in the properties and in the instances are there because the
code does not do better.  Known from the models, without a run of their own:

* imp.md:281 says that received patterns are immutable and that the "service layer
  rejects all mutation operations" on them.  This does not hold of images: the
  handlers of uploads and deletions (`internal/handler/image.go:30` and `:149`)
  check the owner only.  `ReceivedStandAlone` allows exactly this;
* the page of a session that `panic_after_edit` is about panics as Back does
  (`worksession.go:428`), and Back does so, too, with a group index that lies two or
  more beyond the end of the edited pattern (`:231`), where the page is guarded;
* a request that loaded a session before another one completed it writes its row
  back, and the session is active again;
* two overlapping Next requests count as one, and a Next that loaded the row
  before a pause undoes it (both write the whole row);
* a Next whose copy of the pattern was read across a save finds groups without
  entries and can complete the session; so can a Next from a group index the
  edited pattern does not have;
* Back at the first stitch of a pattern that begins with empty groups is
  refused but moves the stored position into the first group;
* two uploads to one part that count at the same time exceed its limit by one;
  `LimitHolds` says that each further upload at the same time adds one at most;
* after a deletion a new image may sort before or level with an older one,
  because its order is the number of images;
* an upload cut off between bytes and row, and the deletion of a pattern, leave
  bytes nobody refers to; a save between the two statements of a deletion, or a
  cut there, leaves a row without bytes.  Nothing repairs either;
* two requests of one owner can make a link twice, two saves of one viewer two
  copies (`LinksAreReused` and `SavedOnce` bound them), and a rename of the original
  defeats the check for an earlier copy, which compares names;
* a save that had read a link when it was revoked still makes its copy;
* a save that is cut off before its images are copied leaves a copy without them,
  which cannot be saved again;
* logins are let through first and checked later, so more passwords can be checked
  at a time than the limiter lets through in that time (`late`);
* fragments of the editor that overtake each other show their rows in another
  order than the save puts them in; `SavedAsShown` leaves such forms out;
* a form that is shown again because the database refused it selects stitches by
  indices of a slice: the comment at `internal/handler/pattern.go:446` says the
  entries hold library ids.  `FormsKeepSelections` leaves these forms out, too;
* after an upgrade that predefines an abbreviation a user has, a pattern with
  both stitches is refused by `UNIQUE(pattern_id, abbreviation)`;
* a token stays valid for its 24 hours after a logout, and a login whose answer
  arrives after that of a logout leaves the browser logged in;
* a rate of zero is not "never": the cleanup forgets the empty bucket, and the
  client gets a full one (`CleanupIsLate` excludes it).

## Fairness

`Server` is the one module with fairness, and with liveness.

* `WF(StartProcess)`: the supervisor restarts the process
  (`docker-compose.yml:15`, `restart: unless-stopped`) until the operator stops
  it, which is why `ServesInTheEnd` ends at "or it is not wanted any more".
* `WF(BootStep)`: `main` runs its statements one after the other, and none of
  them waits for a user.  A statement that fails is a `Crash`.
* `WF(Shutdown)`: `srv.Shutdown` has a context of five seconds (`main.go:108`).
  `ShutdownPatiently`, its mutant, waits for the last request, and `ShutdownEnds`
  fails: no fairness is given to requests, whose clients may do nothing for ever.

That crashes end is the bound `MaxCrashes`; a server that is killed during every
start-up does not serve.  Weak fairness is enough, since each of the three stays
enabled until it is taken, or the process ends.

All other steps are a user's click or a statement of a request that may be
cancelled.  The one goroutine that is not a request, the cleanup, has no property
that needs it to run: `StaleBucketsGo` says what holds once it has.

## Proofs

All theorems are about every value of the constants that satisfies the
assumptions in the modules:

| Assumption | What it says | Why the code justifies it |
|---|---|---|
| `PatternsAssumption`, `WorkSessionAssumptions` | patterns are valid; a pattern that is not there is none of them | `PatternService.validate` refuses the others |
| `RateLimiterAssumptions` | a token costs something, the period of the cleanup is at least one tick | the constants of `handler/routes.go` |
| `AccountsAssumptions` | credentials are pairs of an e-mail address and a password; finitely many requests | the fields of the form |
| `SharingAssumptions` | forms are sequences of groups with at least one, each a sequence of stitches; finitely many requests | `validate`, again |
| `ServerAssumptions` | there is a release; each has migrations and a list of stitches; nobody is no user | the embedded files of `migrations/`, the list in `service/stitch.go` |
| `ImagesAssumptions` | forms have at least one part, each once and in order | `validate`, and the form sorts its parts |
| `EditorAssumptions` | libraries have typed rows under positive ids; the entries of a stored pattern refer to its stitches | `AUTOINCREMENT`, and the foreign key from entries to stitches (`migrations/007_self_contained_patterns.sql`) |

Each proof has the same plan.  The properties are seldom inductive: the invariant
of a module says in addition what each request in progress can still rely on,
however old its copies are (`RequestPromise`, `Promise`, `HonestRequest`,
`NotYetSaved`, ...).  There is a lemma per action, and under it a step per conjunct
that the action can disturb; the theorems follow from the invariant.

**`NavigationProofs`**, for every set of valid patterns of any size:

* `PositionAlwaysFits`: `Spec => []PositionFits`;
* `NavigationNeverPanics`: `Spec => []NeverPanics`;
* `LabelsAreTrue`: `Spec => []LabelsAgree`;
* `BarsAgree`: `Spec => []GroupBarsAgree`;
* `CursorImplemented`: `Spec => ImplementsCursor`.

`PositionFits` is inductive as it stands: `FitsPattern` is the strengthening,
since it bounds all five counters at once (a borrow from one needs the limits of
the others) and admits the start of an empty group, where a session can begin
and to which Back can return.  The next three follow from it alone.
`PatternNavigationProofs` has a lemma per function (`ForwardFits`, `BackwardFits`,
`AdvanceGroupFits`, `RetreatToPreviousGroupFits`, ...), one case per branch of the
code.  `AdvanceGroup` and `RetreatToPreviousGroup` need that a non-empty set of
naturals has a least element and a bounded one a greatest (`MinOfNaturals`,
`MaxOfNaturals`, from the well-foundedness of `<` on the naturals).

The bars and the refinement need sums over patterns of any length, and so
induction.  The induction theorems of the library take a predicate as a parameter;
`NaturalsByInduction` takes the set of the numbers that have the property instead.
From it come the existence and the equations of the recursive function in
`PrefixSum` (`SumExists`, `PrefixSumSteps`) and all that is used of sums.  Then:
Next works exactly one stitch (`ForwardCounts`, which follows the carry through the
five counters); what is worked stays below the total until the end
(`CompletedBelow`); and Next after Back is where it was (`ForwardUndoesBackward`),
so that Back unworks exactly one stitch (`BackwardCounts`).  `CursorInv` adds to
`PositionFits` that a running session is in a group without entries only at the
very start.  Without it the step would be false: Next in such a group works no
stitch, which is no step of the cursor if stitches come before.

**`WorkSessionProofs`**, for any patterns, requests, sessions and edits:

* `WorkSessionTypeCorrect`: `Spec => []TypeOK`;
* `CompletionAlwaysStamped`: `Spec => []CompletionIsStamped`;
* `SessionsKeepTheirPattern`: `Spec => []SessionsHaveTheirPattern`;
* `RowsFitUneditedPattern`: `Spec => []StoredRowsFit`;
* `AbandonedStayAbandoned`: `Spec => AbandonedForGood`;
* `UpToDateRequestsNavigate`: `Spec => RequestsNavigate`.

`WorkSessionInv` adds to the rows what the requests carry.  The copy of a row may
be out of date, but it is a row that was in order; and the copy of the groups is,
up to the group read last, that of the save it names (`CopiedUpTo`).  This is what
makes an update of an old row harmless to `CompletionIsStamped`, and, while the
pattern is not edited, to `StoredRowsFit`, where the lemmas of
`PatternNavigationProofs` come in.  `UpToDateRequestsNavigate` is the refinement
of `Navigation` by requests that nobody has overtaken: with a complete copy of the
pattern (`WholeCopy`) the write is exactly `Forward`, `Backward`, `Pause` or
`Resume`.

**`AccountsProofs`**, first of the limiter by itself, for every number of clients
and every cost, capacity, rate and period:

* `LimiterTypeCorrect`: `Spec => []TypeOK`;
* `WindowIsBounded`: `CleanupIsLate => (Spec => []WindowBound)`;
* `RateLimiterIsEager`: `CleanupIsLate => (Spec => ImplementsEagerBucket)`;
* `StaleBucketsAreDropped`: `Spec => []StaleBucketsGo`.

`CleanupIsLate` says that a stale bucket has had the time to fill up
(`Capacity <= Rate * StaleAfter`).  It holds for the limiter of the program, 10
tokens at one per second with ten minutes (`handler/routes.go:22`), and is
needed: with rate zero both theorems are false.  The bound is not inductive: the invariant
(`LimiterInv`) adds that the requests passed *and what the bucket still holds*
are together no more than the capacity and the refill (`Balance`).  The lemmas
say what each action does to the level of every bucket (`LevelAfterAllow`,
`LevelAfterTick`, `LevelAfterCleanup`); the refinement follows from the same
three.  The last theorem needs no condition; its invariant (`RecentlyCleaned`)
places the cleanup that has run last between two multiples of the period.

Then of the accounts behind it, for any number of addresses, browsers, credentials
and requests:

* `AccountsRunLimiter`: `AccountsSpec => Spec`, the specification of the limiter;
* `AccountsWindowIsBounded`: `CleanupIsLate => (AccountsSpec => []WindowBound)`;
* `PasswordChecksAreBounded`:
  `CleanupIsLate => (AccountsSpec => []ChecksAreBounded)`;
* `WhoRegisteredMayLogIn`: `AccountsSpec => RegisteredMayLogIn`;
* `AccountsTypeCorrect`: `AccountsSpec => []AccountsTypeOK`;
* `RequestsActForTheirUser`: `AccountsSpec => ActsForWhoLoggedIn`.

The first says that every step of `Accounts` is one of `RateLimiter` or leaves it
alone, and carries `WindowIsBounded` over.  The bound on password checks needs
more than the bound on requests let through, because a request is checked later,
and some that are checked were let through before the count began (`late`):
`CheckedInv` adds the logins that still wait (`Waiting`) to the passwords checked,
and together they are no more than what the window has let through and `late`.
`Replaced` is the
lemma behind it, on what one request's going on does to the number that wait.
`PromisesKept` is the invariant of the fourth: accounts have distinct e-mail
addresses, and whoever was told to log in has one; the step that could break it
is `InsertUser`, and its guard is the UNIQUE index.  The last two rest on
`AuthInv`: a token is honest (`HonestToken`) wherever it is, in the cookie of a
browser, in an answer that may still be overtaken, or in a request; so the order
in which answers arrive does not matter.

**`ImagesProofs`**, for any number of requests, images and saves:

* `NothingIsOrphaned`: `Spec => []NoOrphans`;
* `ImagesTypeCorrect`: `Spec => []TypeOK`;
* `BytesStayWithRows`: `Spec => []RowsHaveBytes`;
* `LimitKept`: `Spec => []LimitHolds`, if there are requests, finitely many;
* `PartsKeepTheirImages`: `Spec => []ImagesStayWithPart`;
* `SavesDropNoImageInPlace`: `Spec => SavesKeepImagesInPlace`.

`NoOrphans` needs (`OrphanInv`) that a deletion which comes to the row has
removed the bytes before, and that no key is issued twice, so that they do not
come back; otherwise its last step could drop the row of existing bytes.
Cut-off requests and the deletion of the pattern are covered: `NoOrphans` has the
bytes they leave in `strays`.  `ImagesInv` adds that no two rows share a key and
that the key of an upload in progress is nobody else's (`KeysApart`).  The limit
is not inductive, because an upload inserts its row long after it has counted:
`RoomKept` bounds the images of a part together with the uploads that are past
the count.  The last two need no condition on the forms.  Their invariant
(`StayInv`) says of every image that the part at its place is its own or a later
one, and that, while its part and those that were before it are there, no other
part stands before it.  The form keeps the order of the parts and adds new ones at
the end; hence a save that keeps all of them leaves them at their places
(`SaveKeepsPlaces`).

**`ServerProofs`**, for any releases, users, abbreviations and requests:

* `MigrationsHappenOnceInOrder`: `Spec => []MigrationsOnceInOrder`;
* `ReadyWhenServing`: `Spec => []ServingIsReady`;
* `LibraryImplemented`: `Spec => ImplementsLibrary`;
* `OthersStitchesStay`: `Spec => OnlyOwnStitchesChange`;
* `ServerTypeCorrect`: `Spec => []TypeOK`, if requests and abbreviations are
  finitely many (the bound on ids counts them: `IdsCovered`).

`ServerInv` has three parts beside the types.  `LogInOrder`: what a process has
read of the log is a prefix, and everything below its place, or below that
prefix, is recorded.  `SeededSoFar`: the stitches before the place of the loop are
predefined, and at its insert the one at its place still is not, because nothing
else runs then.  `RequestsHonest`: there are requests only while the process
serves, and what a request has checked still holds when it writes, because
seeding is over and owners do not change.  The refinement is proved action by
action: `SeedInsert` and the three writes are steps of `StitchLibrary`, all others
stutter.

**`SharingProofs`**, for any number of users, patterns, links and requests:

* `SharingTypeCorrect`: `Spec => []TypeOK`;
* `ReceiversWereInvited`: `Spec => []OnlyInvitedReceive`;
* `LinksAreNotRepeated`: `Spec => []LinksAreReused`;
* `CopiesAreNotRepeated`: `Spec => []SavedOnce`;
* `CopiesStandAlone`: `Spec => []CopiesAreIndependent`;
* `NoHalfCopies`: `Spec => []CopiesAreWhole`;
* `ReceivedStay`: `Spec => ReceivedStandAlone`.

Three invariants, each on top of the first.  `SharingInv`: links lead to stored
patterns that their owners wrote and are for users who were invited, and a
request past its check has an owner, or an invited user, behind it.  `LinkRoom` and
`CopyInv` count: the equal links, or copies, that are stored and the requests that
are past the look for one are together no more than the slots of the user.  A
request gets past the look only when nothing is stored, and its slot then counts
for what it inserts (`OneMade`); whatever goes leaves room (`FewerLeft`).  The code
looks for a copy by name; as long as a pattern is not renamed, the names that it,
its copies and the requests that save it have are one (`NamesFrom`).
`WholeInv`: stored patterns never share rows (`Apart`), and unless `torn`, what a
request has read so far is what is stored (`ReadSoFar`).  `Apart` needs no such
condition, and is why received patterns do not change even where a save fell
between the queries: the foreign key holds what a torn copy refers to.  The
lemmas on the way are about the operators of `PatternTables`: the ids that an
insertion issues are new and distinct (`NewIdsType`, `InsertedFresh`), remapped
entries refer to inserted rows, and a pattern shows the same after them as before.

**`EditorProofs`**, for any libraries and stored patterns, and any number of
clicks, changes of the library and saves:

* `EditorInvHolds`: `Spec => []EditorInv`;
* `EditorTypeCorrect`: `Spec => []TypeOK`;
* `SelectionsAreKept`: `Spec => []FormsKeepSelections`;
* `SavesAreAsShown`: `Spec => SavedAsShown`.

That no two rows share an index is not inductive, since fragments arrive late:
`EditorInv` adds that each has a number nobody else has, below the next one
(`FragmentsFresh`; `NextIsBeyond` is the lemma about `editorNextSignalIndex`).  Until
one overtakes another the numbers increase down the form, and a fragment lies
beyond the rows that it will come after (`InOrder`).  `FormCarried` is what a save
can rely on: its form holds what was meant and, in that order, what is shown.

Two groups of lemmas stand behind this.  `CollectedInOrder` and
`IncreasingMovesNone` (a finite set of naturals has an increasing sequence, and an
increasing map of 1 .. n into itself moves nothing) give `FormParsed`: parsing
takes every row once and, if the numbers increase, in the order shown.
`FlattenedHasAll` and `LookUp` say that when nothing is left to look up, every
stitch of the form has been found, so that `IndexOf` is the place of a copy of it.

### Only model-checked

`ServesInTheEnd` and `ShutdownEnds` of `Server`: they are liveness under fairness,
which needs ENABLED, and that is out of the prover's reach.  Every other property
of a passing run is proved.

The four violations have no theorem; where a condition excludes them, it is named
above.

## What is left out of the modelled parts

Time stamps except whether `completed_at` is set; the list queries; HTML and
server-sent events, apart from the fragments of the editor; requests of users who
do not own what they ask for (answered 404 without effect) except in `Server`;
failures of single SQL statements other than those of the constraints; the
contents, types and sizes of images; which address the rate limiter takes for a
client; counts, labels and notes of a pattern in `Sharing` and `Editor`; what a
migration does to the rows.  `Editor` has one window: opening the form is one step
(`OpenEdit`), although `GetByID` reads the pattern in several queries
(`internal/repository/sqlite/pattern.go:61`), because no other window saves the same
pattern in between.  Such reads are taken apart in `Sharing` and `WorkSession`, where
others save meanwhile.

Not modelled: the dashboard, the home page, the health check and the other pages
read and render, and keep no state; `service/renderer.go` formats a pattern as
text.

## Plan

Every part that keeps state is modelled, and all its safety properties are proved,
some under the conditions named with them.  What is left, should it ever be wanted:

1. The hazards without a property (PROJECT.json says why each has none).
2. The other direction of `NavigationProofs`: that Back undoes Next, which holds
   between any two stitches but not around groups without entries.
