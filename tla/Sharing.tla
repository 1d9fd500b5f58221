------------------------------- MODULE Sharing -------------------------------
(***************************************************************************)
(* Sharing and copying of patterns: share links (pattern_shares), saving a *)
(* shared pattern to the viewer's library, and duplicating a pattern of    *)
(* one's own, all while the owner edits and deletes patterns.              *)
(*                                                                         *)
(* A request is a sequence of SQL statements and keeps what it has read;   *)
(* only patternRepo.Create, Update and Delete are atomic.  A statement     *)
(* whose result no later step uses (users never change, and neither do the *)
(* owner and the origin of a pattern) is taken together with the one       *)
(* before it.                                                              *)
(***************************************************************************)
EXTENDS PatternTables

CONSTANTS
  Users,        \* a user's e-mail address stands for the user
  Owners,       \* the users who write patterns
  Names,        \* of patterns, as sequences of words
  Forms,        \* what the editor submits: groups of entries, an entry is a stitch
  Requests,     \* slots for requests in progress
  SentBy,       \* the user of each slot
  MaxPatterns,  \* bound: patterns ever stored
  MaxWritten,   \* bound: those of them that are no copies
  MaxLinks,     \* bound: links ever created
  MaxStored,    \* bound: patterns and links together
  MaxSaves,     \* bound: saves of patterns
  MaxImages     \* bound: images ever uploaded

ASSUME SharingAssumptions ==
  /\ {"nobody", "anyone"} \cap Users = {}
  /\ Owners \subseteq Users
  /\ IsFiniteSet(Requests) /\ SentBy \in [Requests -> Users]
  /\ \A f \in Forms : f # << >> /\ f \in Seq(Seq(DOMAIN StitchesOf(f)))
  /\ MaxPatterns \in Nat /\ MaxWritten \in Nat
  /\ MaxLinks \in Nat /\ MaxStored \in Nat
  /\ MaxSaves \in Nat /\ MaxImages \in Nat

Nobody == "nobody"
Anyone == "anyone"   \* the recipient of a global link
NoName == << >>   \* a name is a sequence of words

VARIABLES
  store,    \* the patterns with their rows, by pattern id
  links,    \* the table pattern_shares, by token
  request,  \* what each request in progress knows, and its next step
  count,    \* ids issued: patterns (those written), links, rows of patterns; saves; images
  invited,  \* history: << p, u >> once there was a link for u to p
  torn,     \* history: a pattern was saved or deleted between the queries of a copy
  renamed   \* history: the patterns that were saved under another name

vars == << store, links, request, count, invited, torn, renamed >>

Idle == [step |-> "idle", pattern |-> 0, for |-> Nobody, token |-> 0,
         from |-> Nobody, name |-> NoName,
         stitches |-> << >>, groups |-> << >>, read |-> 0, copy |-> 0]

Init ==
  /\ store = << >>
  /\ links = << >>
  /\ request = [r \in Requests |-> Idle]
  /\ count = [patterns |-> 0, written |-> 0, links |-> 0, rows |-> 0, saves |-> 0, images |-> 0]
  /\ invited = {}
  /\ torn = FALSE
  /\ renamed = {}

With(f, k, v)  == [x \in DOMAIN f \cup {k} |-> IF x = k THEN v ELSE f[x]]
Without(f, ks) == [x \in DOMAIN f \ ks |-> f[x]]

Begin(r, q)   == request[r] = Idle /\ request' = [request EXCEPT ![r] = q]
GoOn(r, step) == request' = [request EXCEPT ![r].step = step]
Answer(r)     == request' = [request EXCEPT ![r] = Idle]

\* Nothing is stored beyond the bound.
Room == count.patterns + count.links < MaxStored

OwnPattern(p, u) == p \in DOMAIN store /\ store[p].user = u /\ store[p].from = Nobody
LinksOf(p)       == {t \in DOMAIN links : links[t].pattern = p}

-----------------------------------------------------------------------------
(***************************************************************************)
(* Links: CreateGlobalShare, CreateEmailShare, RevokeShareForPattern,      *)
(* RevokeAllShares.                                                        *)
(***************************************************************************)

\* The checks of the pattern; "cannot share with yourself".
BeginShare(r, p, for) ==
  /\ OwnPattern(p, SentBy[r])
  /\ for # SentBy[r]
  /\ Begin(r, [Idle EXCEPT !.step = "listLinks", !.pattern = p, !.for = for])
  /\ UNCHANGED << store, links, count, invited, torn, renamed >>

\* Compares the kind of the links only, not the recipient.
ListLinksByKind(r) ==
  LET q == request[r]
  IN  /\ q.step = "listLinks"
      /\ IF \E t \in LinksOf(q.pattern) : links[t].for = Anyone /\ q.for = Anyone
           THEN Answer(r) ELSE GoOn(r, "insertLink")
      /\ UNCHANGED << store, links, count, invited, torn, renamed >>

\* "If one already exists, returns it (idempotent)."
ListLinks(r) ==
  LET q == request[r]
  IN  /\ q.step = "listLinks"
      /\ IF \E t \in LinksOf(q.pattern) : links[t].for = q.for
           THEN Answer(r) ELSE GoOn(r, "insertLink")
      /\ UNCHANGED << store, links, count, invited, torn, renamed >>

Recipients(for) == IF for = Anyone THEN Users ELSE {for}

\* Inserts the link without the foreign key.
InsertLinkUnreferenced(r) ==
  LET q == request[r]  token == count.links + 1
  IN  /\ q.step = "insertLink"
      /\ token <= MaxLinks /\ Room
      /\ links' = With(links, token, [pattern |-> q.pattern, for |-> q.for])
      /\ count' = [count EXCEPT !.links = token]
      /\ invited' = invited \cup {q.pattern} \X Recipients(q.for)
      /\ Answer(r)
      /\ UNCHANGED << store, torn, renamed >>

\* The token is 32 random bytes.  The foreign key rejects a link to a pattern
\* deleted in the meantime.
InsertLink(r) ==
  LET q == request[r]  token == count.links + 1
  IN  /\ q.step = "insertLink"
      /\ token <= MaxLinks /\ Room
      /\ IF q.pattern \in DOMAIN store
           THEN /\ links' = With(links, token, [pattern |-> q.pattern, for |-> q.for])
                /\ count' = [count EXCEPT !.links = token]
                /\ invited' = invited \cup {q.pattern} \X Recipients(q.for)
           ELSE UNCHANGED << links, count, invited >>
      /\ Answer(r)
      /\ UNCHANGED << store, torn, renamed >>

\* The check of the owner; the link is named by its id.
BeginRevoke(r, token) ==
  /\ store[links[token].pattern].user = SentBy[r]
  /\ Begin(r, [Idle EXCEPT !.step = "deleteLink", !.token = token])
  /\ UNCHANGED << store, links, count, invited, torn, renamed >>

DeleteLink(r) ==
  /\ request[r].step = "deleteLink"
  /\ links' = Without(links, {request[r].token})
  /\ Answer(r)
  /\ UNCHANGED << store, count, invited, torn, renamed >>

BeginRevokeAll(r, p) ==
  /\ store[p].user = SentBy[r]
  /\ Begin(r, [Idle EXCEPT !.step = "deleteLinks", !.pattern = p])
  /\ UNCHANGED << store, links, count, invited, torn, renamed >>

DeleteLinks(r) ==
  /\ request[r].step = "deleteLinks"
  /\ links' = Without(links, LinksOf(request[r].pattern))
  /\ Answer(r)
  /\ UNCHANGED << store, count, invited, torn, renamed >>

-----------------------------------------------------------------------------
(***************************************************************************)
(* Copies: SaveSharedPattern and Duplicate.                                *)
(***************************************************************************)

\* Takes any link for a global one.
BeginSaveUnchecked(r, token) ==
  /\ Begin(r, [Idle EXCEPT !.step = "getShared", !.pattern = links[token].pattern])
  /\ UNCHANGED << store, links, count, invited, torn, renamed >>

\* GetByToken; "Enforce email-bound access."
BeginSave(r, token) ==
  /\ links[token].for \in {Anyone, SentBy[r]}
  /\ Begin(r, [Idle EXCEPT !.step = "getShared", !.pattern = links[token].pattern])
  /\ UNCHANGED << store, links, count, invited, torn, renamed >>

\* "Don't allow saving your own pattern."
GetShared(r) ==
  LET p == request[r].pattern
  IN  /\ request[r].step = "getShared"
      /\ IF p \in DOMAIN store /\ store[p].user # SentBy[r]
           THEN request' = [request EXCEPT ![r].step = "listShared",
                              ![r].from = store[p].user, ![r].name = store[p].name]
           ELSE Answer(r)
      /\ UNCHANGED << store, links, count, invited, torn, renamed >>

Received(u, from, name) ==
  {c \in DOMAIN store : store[c].user = u /\ store[c].from = from /\ store[c].name = name}

\* Looks for the copy among the owner's patterns.
ListSharedOfOwner(r) ==
  LET q == request[r]
  IN  /\ q.step = "listShared"
      /\ IF Received(q.from, q.from, q.name) # {} THEN Answer(r) ELSE GoOn(r, "getPattern")
      /\ UNCHANGED << store, links, count, invited, torn, renamed >>

\* "has the viewer already saved this pattern from the same owner?"
ListShared(r) ==
  LET q == request[r]
  IN  /\ q.step = "listShared"
      /\ IF Received(SentBy[r], q.from, q.name) # {} THEN Answer(r) ELSE GoOn(r, "getPattern")
      /\ UNCHANGED << store, links, count, invited, torn, renamed >>

\* PatternService.Duplicate: its own read of the pattern checks the owner.
BeginDuplicate(r, p) ==
  /\ OwnPattern(p, SentBy[r])
  /\ Begin(r, [Idle EXCEPT !.step = "getPattern", !.pattern = p])
  /\ UNCHANGED << store, links, count, invited, torn, renamed >>

\* patternRepo.GetByID, one query after the other: the pattern, ...
GetPattern(r) ==
  LET p == request[r].pattern
  IN  /\ request[r].step = "getPattern"
      /\ IF p \in DOMAIN store
           THEN request' = [request EXCEPT ![r].step = "loadStitches", ![r].name = store[p].name]
           ELSE Answer(r)
      /\ UNCHANGED << store, links, count, invited, torn, renamed >>

\* Loads none.
LoadNoStitches(r) ==
  /\ request[r].step = "loadStitches"
  /\ GoOn(r, "loadGroups")
  /\ UNCHANGED << store, links, count, invited, torn, renamed >>

\* ... its stitches, ...
LoadStitches(r) ==
  LET p == request[r].pattern
  IN  /\ request[r].step = "loadStitches"
      /\ request' = [request EXCEPT ![r].step = "loadGroups",
           ![r].stitches = IF p \in DOMAIN store THEN store[p].stitches ELSE << >>]
      /\ UNCHANGED << store, links, count, invited, torn, renamed >>

\* ... its groups, ...
LoadGroups(r) ==
  LET p == request[r].pattern
  IN  /\ request[r].step = "loadGroups"
      /\ IF p \in DOMAIN store
           THEN request' = [request EXCEPT
                  ![r].step = IF store[p].groups = << >> THEN "create" ELSE "loadEntries",
                  ![r].groups = [g \in DOMAIN store[p].groups |->
                                   [id |-> store[p].groups[g].id, entries |-> << >>]]]
           ELSE GoOn(r, "create")
      /\ UNCHANGED << store, links, count, invited, torn, renamed >>

\* Leaves the last group without its entries.
LoadEntriesButLast(r) ==
  LET q == request[r]  g == q.read + 1
  IN  /\ q.step = "loadEntries"
      /\ request' = [request EXCEPT
           ![r].step = IF g + 1 >= Len(q.groups) THEN "create" ELSE "loadEntries",
           ![r].read = g,
           ![r].groups[g].entries = EntriesOfGroup(store, q.groups[g].id)]
      /\ UNCHANGED << store, links, count, invited, torn, renamed >>

\* ... and the entries of each group by its id.
LoadEntries(r) ==
  LET q == request[r]  g == q.read + 1
  IN  /\ q.step = "loadEntries"
      /\ request' = [request EXCEPT
           ![r].step = IF g = Len(q.groups) THEN "create" ELSE "loadEntries",
           ![r].read = g,
           ![r].groups[g].entries = EntriesOfGroup(store, q.groups[g].id)]
      /\ UNCHANGED << store, links, count, invited, torn, renamed >>

\* A pattern of user u, received from a user or Nobody, with new rows; of is,
\* for checking only, the pattern it is a copy of.
NewPattern(u, from, name, stitches, groups, of) ==
  [user |-> u, from |-> from, name |-> name,
   stitches |-> InsertedStitches(stitches, count.rows),
   groups |-> InsertedGroups(stitches, groups, count.rows),
   of |-> of]

\* patternRepo.Create is rolled back if an entry refers to no stitch.
Referenced(pattern) ==
  EntryIds(pattern.groups) \subseteq StitchIds(store) \cup DOMAIN pattern.stitches

Counted(stitches, groups) ==
  [count EXCEPT !.patterns = @ + 1, !.rows = LastIssued(stitches, groups, @)]

\* Duplicate adds a word to the name, DuplicateAsShared keeps it.
CopyName(q) == IF q.from = Nobody THEN Append(q.name, "(Copy)") ELSE q.name

\* Create as called by Duplicate and by DuplicateAsShared.  The copy shares the
\* slice of groups with the pattern it was read from: the ids of the new groups
\* replace those that were read.
CreateCopy(r) ==
  LET q       == request[r]
      copy    == count.patterns + 1
      entries == [g \in DOMAIN q.groups |-> q.groups[g].entries]
      pattern == NewPattern(SentBy[r], q.from, CopyName(q), q.stitches, entries, q.pattern)
      done    == q.from = Nobody \/ q.groups = << >>
  IN  /\ q.step = "create"
      /\ copy <= MaxPatterns /\ Room
      /\ IF Referenced(pattern)
           THEN /\ store' = With(store, copy, pattern)
                /\ count' = Counted(q.stitches, entries)
                /\ request' = [request EXCEPT ![r] =
                     IF done THEN Idle
                     ELSE [q EXCEPT !.step = "copyImages", !.copy = copy, !.read = 0,
                            !.groups = [g \in DOMAIN @ |-> [@[g] EXCEPT !.id = pattern.groups[g].id]]]]
           ELSE Answer(r) /\ UNCHANGED << store, count >>
      /\ UNCHANGED << links, invited, torn, renamed >>

\* copyImages, for one group: the images of its id go to the copy's group.
CopyImages(r) ==
  LET q == request[r]  g == q.read + 1
  IN  /\ q.step = "copyImages"
      /\ store' = [store EXCEPT ![q.copy].groups[g].pictured =
                     @ \/ PicturedGroup(store, q.groups[g].id)]
      /\ IF g = Len(q.groups) THEN Answer(r) ELSE request' = [request EXCEPT ![r].read = g]
      /\ UNCHANGED << links, count, invited, torn, renamed >>

-----------------------------------------------------------------------------
(***************************************************************************)
(* What owners do to patterns: PatternService.Create, Update and Delete,   *)
(* a transaction each, and the images of a group (module Images).         *)
(***************************************************************************)

CreatePattern(u, name, form) ==
  /\ count.patterns < MaxPatterns /\ count.written < MaxWritten /\ Room
  /\ store' = With(store, count.patterns + 1,
                    NewPattern(u, Nobody, name, StitchesOf(form), form, 0))
  /\ count' = [Counted(StitchesOf(form), form) EXCEPT !.written = @ + 1]
  /\ UNCHANGED << links, request, invited, torn, renamed >>

\* Some request has read a part of pattern p.
BetweenQueries(p) ==
  \E r \in Requests : /\ request[r].pattern = p
                      /\ request[r].step \in {"loadStitches", "loadGroups", "loadEntries"}

\* Saves received patterns, too.
SaveAny(p, name, form) ==
  /\ count.saves < MaxSaves
  /\ ~HeldByOthers(store, p)
  /\ store' = [store EXCEPT
       ![p].name = name,
       ![p].stitches = InsertedStitches(StitchesOf(form), count.rows),
       ![p].groups = WithImagesOf(InsertedGroups(StitchesOf(form), form, count.rows), @)]
  /\ count' = [count EXCEPT !.saves = @ + 1, !.rows = LastIssued(StitchesOf(form), form, @)]
  /\ torn' = (torn \/ BetweenQueries(p))
  /\ renamed' = IF name = store[p].name THEN renamed ELSE renamed \cup {p}
  /\ UNCHANGED << links, request, invited >>

\* Rolled back if other patterns' entries refer to the stitches it deletes.
SavePattern(p, name, form) ==
  /\ store[p].from = Nobody
  /\ count.saves < MaxSaves
  /\ ~HeldByOthers(store, p)
  /\ store' = [store EXCEPT
       ![p].name = name,
       ![p].stitches = InsertedStitches(StitchesOf(form), count.rows),
       ![p].groups = WithImagesOf(InsertedGroups(StitchesOf(form), form, count.rows), @)]
  /\ count' = [count EXCEPT !.saves = @ + 1, !.rows = LastIssued(StitchesOf(form), form, @)]
  /\ torn' = (torn \/ BetweenQueries(p))
  /\ renamed' = IF name = store[p].name THEN renamed ELSE renamed \cup {p}
  /\ UNCHANGED << links, request, invited >>

\* Links go by cascade.  Refused like a save.
DeletePattern(p) ==
  /\ store[p].from = Nobody
  /\ ~HeldByOthers(store, p)
  /\ store' = Without(store, {p})
  /\ links' = Without(links, LinksOf(p))
  /\ torn' = (torn \/ BetweenQueries(p))
  /\ UNCHANGED << request, count, invited, renamed >>

\* Also to a received pattern: the upload checks the user only.
AddImage(p, g) ==
  /\ count.images < MaxImages
  /\ store' = [store EXCEPT ![p].groups[g].pictured = TRUE]
  /\ count' = [count EXCEPT !.images = @ + 1]
  /\ UNCHANGED << links, request, invited, torn, renamed >>

\* The last image of a group is deleted; this checks the user only, too.
RemoveImage(p, g) ==
  /\ store[p].groups[g].pictured
  /\ store' = [store EXCEPT ![p].groups[g].pictured = FALSE]
  /\ UNCHANGED << links, request, count, invited, torn, renamed >>

\* The client disconnects, or the server stops: no statement follows.
Abort(r) ==
  /\ request[r] # Idle
  /\ Answer(r)
  /\ UNCHANGED << store, links, count, invited, torn, renamed >>

-----------------------------------------------------------------------------
Next ==
  \/ \E r \in Requests :
       \/ \E p \in DOMAIN store, for \in Users \cup {Anyone} : BeginShare(r, p, for)
       \/ ListLinks(r) \/ InsertLink(r)
       \/ \E token \in DOMAIN links : BeginRevoke(r, token) \/ BeginSave(r, token)
       \/ \E p \in DOMAIN store : BeginRevokeAll(r, p) \/ BeginDuplicate(r, p)
       \/ DeleteLink(r) \/ DeleteLinks(r)
       \/ GetShared(r) \/ ListShared(r)
       \/ GetPattern(r) \/ LoadStitches(r) \/ LoadGroups(r) \/ LoadEntries(r)
       \/ CreateCopy(r) \/ CopyImages(r)
       \/ Abort(r)
  \/ \E u \in Owners, name \in Names, form \in Forms : CreatePattern(u, name, form)
  \/ \E p \in DOMAIN store :
       \/ \E name \in Names, form \in Forms : SavePattern(p, name, form)
       \/ DeletePattern(p)
       \/ \E g \in DOMAIN store[p].groups : AddImage(p, g) \/ RemoveImage(p, g)

Spec == Init /\ [][Next]_vars

-----------------------------------------------------------------------------
Steps == {"idle", "listLinks", "insertLink", "deleteLink", "deleteLinks", "getShared",
          "listShared", "getPattern", "loadStitches", "loadGroups", "loadEntries",
          "create", "copyImages"}

\* Every link has its pattern, which is none that was received.
TypeOK ==
  /\ DOMAIN store \subseteq 1 .. count.patterns
  /\ \A p \in DOMAIN store :
       /\ store[p].user \in Users
       /\ store[p].from \in (Users \ {store[p].user}) \cup {Nobody}
       /\ DOMAIN store[p].stitches \subseteq 1 .. count.rows
       /\ \A g \in DOMAIN store[p].groups : store[p].groups[g].id \in 1 .. count.rows
  /\ DOMAIN links \subseteq 1 .. count.links
  /\ \A t \in DOMAIN links :
       /\ links[t].pattern \in DOMAIN store
       /\ store[links[t].pattern].from = Nobody
       /\ links[t].for \in (Users \ {store[links[t].pattern].user}) \cup {Anyone}
  /\ \A r \in Requests : request[r].step \in Steps
  /\ torn \in BOOLEAN

IsReceived(p) == store[p].from # Nobody

\* The requests that user u may have in progress at once.
SlotsOf(u) == {r \in Requests : SentBy[r] = u}

\* service/share.go:26 and :67, "If one already exists, returns it
\* (idempotent)": equal links come only from requests of the owner that were in
\* progress at once; an owner with one request at a time has one for everybody
\* and one for each recipient, however links are revoked in between.
LinksAreReused ==
  \A t \in DOMAIN links :
    Cardinality({s \in DOMAIN links : links[s] = links[t]})
      <= Cardinality(SlotsOf(store[links[t].pattern].user))

\* The copies that user u received of pattern p, from a given user.
CopiesOf(p, u, from) ==
  {c \in DOMAIN store : /\ IsReceived(c) /\ store[c].of = p
                        /\ store[c].user = u /\ store[c].from = from}

\* imp.md:290, "A user cannot save the same shared pattern twice": second copies
\* come only from requests of the user that were in progress at once, unless the
\* pattern was renamed.
SavedOnce ==
  \A c \in DOMAIN store : IsReceived(c) /\ store[c].of \notin renamed =>
    Cardinality(CopiesOf(store[c].of, store[c].user, store[c].from))
      <= Cardinality(SlotsOf(store[c].user))

\* A user has a copy only of a pattern that was shared with everybody or with
\* this very user, however links are made, revoked and followed.
OnlyInvitedReceive ==
  \A c \in DOMAIN store : IsReceived(c) => << store[c].of, store[c].user >> \in invited

\* imp.md:16, "Saving duplicates the entire pattern": a copy is something its
\* owner once submitted, unless a save fell between the queries that read it.
CopiesAreWhole == ~torn => \A p \in DOMAIN store : Shown(store, p) \in Forms

\* imp.md:16, "The snapshot is fully independent": its entries refer to stitches
\* of its own, so that nothing holds the original's, unless a save fell between
\* the queries that read it.
CopiesAreIndependent ==
  ~torn => \A p \in DOMAIN store : EntryIds(store[p].groups) \subseteq DOMAIN store[p].stitches

\* The same, for copies made while the owner saves.
CopiesAlwaysIndependent ==
  \A p \in DOMAIN store : EntryIds(store[p].groups) \subseteq DOMAIN store[p].stitches

WithImages(p) == {g \in DOMAIN store[p].groups : store[p].groups[g].pictured}

\* imp.md:16, "edits or deletion of the original have no effect on saved copies":
\* a received pattern stays, with its name and stitches.  It is not immutable:
\* its owner may change its images, which are otherwise those that the save
\* copied when it made the pattern.
ReceivedStandAlone ==
  [][\A c \in DOMAIN store : IsReceived(c) =>
       /\ c \in DOMAIN store'
       /\ store'[c].name = store[c].name
       /\ Shown(store', c) = Shown(store, c)
       /\ \/ WithImages(c)' = WithImages(c)
          \/ \E g \in DOMAIN store[c].groups : AddImage(c, g) \/ RemoveImage(c, g)
          \/ \E r \in Requests : request[r].copy = c /\ CopyImages(r)]_vars

\* repository/sqlite/pattern.go:448, "copyImages duplicates all pattern_images
\* and their file_blobs from the original pattern to the duplicate": when it has
\* gone through a group, the copy has the images of the original's group.
CopiesHaveImages ==
  [][\A r \in Requests : CopyImages(r) /\ ~torn =>
       LET q == request[r]  g == q.read + 1
       IN  q.pattern \in DOMAIN store /\ g \in DOMAIN store[q.pattern].groups
             /\ store[q.pattern].groups[g].pictured
           => store'[q.copy].groups[g].pictured]_vars
=============================================================================
