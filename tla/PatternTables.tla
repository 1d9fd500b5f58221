---------------------------- MODULE PatternTables ----------------------------
(***************************************************************************)
(* Stored patterns, and what the transactions of patternRepo do to them    *)
(* (internal/repository/sqlite/pattern.go).                                *)
(*                                                                         *)
(* A stored pattern has the rows of pattern_stitches, a function from row  *)
(* ids to stitches, and its instruction_groups in order, each with its id, *)
(* with the stitch row id of each of its entries, and whether it has       *)
(* images.  Counts, labels and notes do not matter here.                   *)
(***************************************************************************)
EXTENDS Naturals, Sequences, FiniteSets

\* Entries refer to stitches by key: a form by the stitch itself (the code: by
\* its index in PatternStitches), a pattern read from the database by row id.
Group(id, entries, pictured) == [id |-> id, entries |-> entries, pictured |-> pictured]

\* resolvePatternStitches: each stitch of a form once.  A form is a sequence of
\* groups, each the sequence of the stitches of its entries.
StitchesOf(form) ==
  LET used == UNION {{form[g][e] : e \in DOMAIN form[g]} : g \in DOMAIN form}
  IN  [s \in used |-> s]

\* insertPatternStitches: the new row id of each key, after the last id issued.
\* Nothing depends on the order of the ids.
NewIds(keys, last) ==
  CHOOSE f \in [keys -> last + 1 .. last + Cardinality(keys)] :
    \A k \in keys, l \in keys : f[k] = f[l] => k = l

\* insertGroups: an entry whose key is not in psMap keeps it.
Remapped(entries, ids) ==
  [e \in DOMAIN entries |->
     IF entries[e] \in DOMAIN ids THEN ids[entries[e]] ELSE entries[e]]

InsertedStitches(stitches, last) ==
  LET ids == NewIds(DOMAIN stitches, last)
  IN  [i \in {ids[k] : k \in DOMAIN stitches} |->
         stitches[CHOOSE k \in DOMAIN stitches : ids[k] = i]]

\* groups: the entries of each group, by key.
InsertedGroups(stitches, groups, last) ==
  LET ids == NewIds(DOMAIN stitches, last)
  IN  [g \in DOMAIN groups |->
         Group(last + Cardinality(DOMAIN stitches) + g, Remapped(groups[g], ids), FALSE)]

\* The last id issued after such an insertion.
LastIssued(stitches, groups, last) ==
  last + Cardinality(DOMAIN stitches) + Len(groups)

\* restoreImages: the images of a group go to the new group at its place.
WithImagesOf(groups, old) ==
  [g \in DOMAIN groups |->
     [groups[g] EXCEPT !.pictured = g \in DOMAIN old /\ old[g].pictured]]

-----------------------------------------------------------------------------
(***************************************************************************)
(* Queries and foreign keys over a store, a function from pattern ids to   *)
(* stored patterns.                                                        *)
(***************************************************************************)

StitchIds(store) == UNION {DOMAIN store[p].stitches : p \in DOMAIN store}

EntryIds(groups) ==
  UNION {{groups[g].entries[e] : e \in DOMAIN groups[g].entries} : g \in DOMAIN groups}

\* The table instruction_groups.
GroupsOf(store) ==
  UNION {{store[p].groups[g] : g \in DOMAIN store[p].groups} : p \in DOMAIN store}

\* loadEntries: the entries of a group id, none if the group has gone.
EntriesOfGroup(store, id) ==
  LET found == {group \in GroupsOf(store) : group.id = id}
  IN  IF found = {} THEN << >> ELSE (CHOOSE group \in found : TRUE).entries

\* pattern_images of a group id.
PicturedGroup(store, id) ==
  \E p \in DOMAIN store : \E g \in DOMAIN store[p].groups :
    store[p].groups[g].id = id /\ store[p].groups[g].pictured

\* stitch_entries REFERENCES pattern_stitches without a cascade: the stitches of
\* p cannot be deleted while an entry of another pattern refers to them.
HeldByOthers(store, p) ==
  \E q \in DOMAIN store \ {p} : EntryIds(store[q].groups) \cap DOMAIN store[p].stitches # {}

\* A pattern as its readers see it: the stitch of every entry.
Shown(store, p) ==
  LET stitch(i) == LET home == CHOOSE q \in DOMAIN store : i \in DOMAIN store[q].stitches
                   IN  store[home].stitches[i]
      groups == store[p].groups
  IN  [g \in DOMAIN groups |->
         [e \in DOMAIN groups[g].entries |-> stitch(groups[g].entries[e])]]
=============================================================================
