---------------------------- MODULE MCNavigation ----------------------------
(***************************************************************************)
(* All patterns of up to MaxGroups groups, each with up to MaxEntries      *)
(* entries drawn from EntryShapes and a repeat of up to MaxRepeat.         *)
(***************************************************************************)
EXTENDS Navigation

CONSTANTS MaxGroups, MaxEntries, MaxRepeat

EntryShapes ==
  { [count |-> 1, repeat |-> 1, stitch |-> "ch"],
    [count |-> 2, repeat |-> 1, stitch |-> "sc"],
    [count |-> 1, repeat |-> 2, stitch |-> "hdc"],
    [count |-> 2, repeat |-> 2, stitch |-> "dc"] }

Groups ==
  [repeat : 1 .. MaxRepeat,
   entries : UNION {[1 .. n -> EntryShapes] : n \in 0 .. MaxEntries}]

AllPatterns == UNION {[1 .. n -> Groups] : n \in 1 .. MaxGroups}

\* Three groups, some without entries, at the start, in the middle, at the end.
EmptyGroup == [repeat |-> 2, entries |-> << >>]
SmallGroup == [repeat |-> 2, entries |-> << [count |-> 1, repeat |-> 2, stitch |-> "sc"],
                                            [count |-> 2, repeat |-> 1, stitch |-> "dc"] >>]
SparsePatterns == [1 .. 4 -> {EmptyGroup, SmallGroup}]

BoundedPatterns == AllPatterns \cup SparsePatterns

=============================================================================
