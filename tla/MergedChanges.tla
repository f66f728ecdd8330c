---------------------------- MODULE MergedChanges ----------------------------
(***************************************************************************)
(* The change sets of Realm's Results, whichever rows a comparison takes   *)
(* for moved: what calculate makes of a commit once it has decided that,   *)
(* how the sets nobody has taken are merged, and what is finalized.  A     *)
(* Results reports a row that moved as deleted and inserted, so the moves  *)
(* of LinkLists are left out.  ChangeSets decides which rows moved, and is *)
(* checked to be this.  Row numbers count from 0, sequences from 1.        *)
(***************************************************************************)
EXTENDS Integers, Sequences, Functions, IndexSets, RealmChanges

CONSTANT Key  \* keys of the objects the Results may hold

ASSUME KeyAssumption == Key \subseteq Nat /\ IsFiniteSet(Key)

VARIABLES
  base,     \* the rows whoever takes the change set has
  rows,     \* the rows now
  touched,  \* objects written since base
  commits,  \* how many comparisons were merged
  set       \* the change set they made: accumulated_changes

vars == <<base, rows, touched, commits, set>>

Orders == {order \in UNION {[1 .. n -> Key] : n \in 0 .. Cardinality(Key)} : IsInjective(order)}

RowNumbers(order) == 0 .. Len(order) - 1

Nothing == [deletions |-> {}, insertions |-> {}, modifications |-> {}]

\* The row numbers in order of the objects of K.
RowsOf(order, K) == {i - 1 : i \in {j \in DOMAIN order : order[j] \in K}}
-----------------------------------------------------------------------------
\* A slip: the modified rows are numbered as they were.
CalculateInOld(prev, next, written, moved) ==
  LET kept == Range(prev) \cap Range(next)
  IN [deletions     |-> RowsOf(prev, (Range(prev) \ kept) \cup moved),
      insertions    |-> RowsOf(next, (Range(next) \ kept) \cup moved),
      modifications |-> RowsOf(prev, written \cap kept)]

\* calculate: the rows prev have become next, the objects of written changed and
\* those of moved are to be taken out and put back.
Calculate(prev, next, written, moved) ==
  LET kept == Range(prev) \cap Range(next)
  IN [deletions     |-> RowsOf(prev, (Range(prev) \ kept) \cup moved),
      insertions    |-> RowsOf(next, (Range(next) \ kept) \cup moved),
      modifications |-> RowsOf(next, written \cap kept)]

\* A slip: the new deletions are not shifted by the old insertions.
MergeUnshifted(old, new) ==
  [deletions     |-> old.deletions \cup new.deletions,
   insertions    |-> InsertAt(EraseAt(old.insertions, new.deletions), new.insertions),
   modifications |-> ShiftForInsertAt(EraseAt(old.modifications, new.deletions), new.insertions)
                       \cup new.modifications]

\* merge; sets that are empty are no special case here.
Merge(old, new) ==
  [deletions     |-> AddShiftedBy(old.deletions, old.insertions, new.deletions),
   insertions    |-> InsertAt(EraseAt(old.insertions, new.deletions), new.insertions),
   modifications |-> ShiftForInsertAt(EraseAt(old.modifications, new.deletions), new.insertions)
                       \cup new.modifications]

\* A slip: the inserted rows are not taken out before positions are counted back.
FinalizeUnerased(s) ==
  [deletions        |-> s.deletions,
   insertions       |-> s.insertions,
   modifications    |-> ShiftForInsertAt(s.modifications \ s.insertions, s.deletions),
   modificationsNew |-> s.modifications \ s.insertions]

\* finalize
Finalize(s) ==
  [deletions        |-> s.deletions,
   insertions       |-> s.insertions,
   modifications    |-> ShiftForInsertAt(EraseAt(s.modifications, s.insertions), s.deletions),
   modificationsNew |-> s.modifications \ s.insertions]

\* The objects of K are in the same order before and after.
SameOrder(prev, next, K) ==
  \A i, j \in DOMAIN prev : i < j /\ prev[i] \in K /\ prev[j] \in K =>
    \A k, l \in DOMAIN next : next[k] = prev[i] /\ next[l] = prev[j] => k < l

\* Which objects a comparison may take for moved: the others kept their order,
\* and none did when all kept it.
Movable(prev, next) ==
  LET kept == Range(prev) \cap Range(next)
  IN IF SameOrder(prev, next, kept) THEN {{}}
     ELSE {moved \in SUBSET kept : SameOrder(prev, next, kept \ moved)}
-----------------------------------------------------------------------------
Init ==
  /\ rows \in Orders /\ base = rows
  /\ touched = {} /\ commits = 0 /\ set = Nothing

\* A commit and its comparison, added to what was not taken.
Commit(next, written, moved) ==
  /\ rows' = next
  /\ touched' = touched \cup written
  /\ commits' = commits + 1
  /\ set' = Merge(set, Calculate(rows, next, written, moved))
  /\ UNCHANGED base

\* The change set is taken.
Deliver ==
  /\ commits > 0
  /\ base' = rows
  /\ touched' = {} /\ commits' = 0 /\ set' = Nothing
  /\ UNCHANGED rows

AnyCommit ==
  /\ rows' \in Orders
  /\ \E written \in SUBSET Range(rows'), moved \in Movable(rows, rows') :
       Commit(rows', written, moved)

\* The rows a comparison leaves in place keep their order, and it moves none when
\* all did: calculate_moves_sorted is held to this, and what is said of change
\* sets below rests on no more.
AnyMovesSpec == Init /\ [][AnyCommit \/ Deliver]_vars
-----------------------------------------------------------------------------
(* Properties *)

\* verify_changeset: once the deleted rows are taken out of those before and the
\* inserted ones out of those after, as many are left, and what is left at a place
\* in the one is left there in the other.
Applies(s, before, after) ==
  /\ s.deletions \subseteq RowNumbers(before)
  /\ s.insertions \subseteq RowNumbers(after)
  /\ Len(before) - Cardinality(s.deletions) = Len(after) - Cardinality(s.insertions)
  /\ \A i \in RowNumbers(before) \ s.deletions, j \in RowNumbers(after) \ s.insertions :
       Unshift(s.deletions, i) = Unshift(s.insertions, j) => before[i + 1] = after[j + 1]

\* Deleting and then inserting leads from the rows the observer has to the rows
\* there are, for the change set of one commit and of any number merged.
SetApplies == Applies(set, base, rows)

\* Every object that stayed in place and was written, in whichever commit, is
\* reported modified and no other, where it was and where it is.
SetReloads ==
  LET final == Finalize(set)
      moved == {rows[i + 1] : i \in set.insertions}
      reloaded == (touched \cap Range(base) \cap Range(rows)) \ moved
  IN /\ final.modifications = RowsOf(base, reloaded)
     /\ final.modificationsNew = RowsOf(rows, reloaded)

Ascends(order) == \A i, j \in DOMAIN order : i < j => order[i] < order[j]

\* What module Friends takes a notification to say (RealmChanges), said by one
\* commit's change set of rows in the order of their keys.
ReportsChanges ==
  commits = 1 /\ Ascends(base) /\ Ascends(rows) =>
    LET final == Finalize(set)
        changes == Changes([k \in Key |-> k], Range(base), Range(rows), touched)
    IN /\ final.deletions = changes.deletions
       /\ final.insertions = changes.insertions
       /\ final.modifications = changes.reloads
=============================================================================
