------------------------------ MODULE IndexSets ------------------------------
(***************************************************************************)
(* What Realm's IndexSet does to the set of row numbers it stands for.     *)
(* ChunkedIndexSet shows that the chunks of ranges it is made of do this.  *)
(***************************************************************************)
EXTENDS Naturals, FiniteSets

Below(S, i) == Cardinality({j \in S : j < i})

\* shift: where row i is once the rows of S are inserted.
Shift(S, i) == CHOOSE x \in i .. i + Cardinality(S) : x \notin S /\ x = i + Below(S, x)

\* unshift: where row i is once the rows of S are deleted, i not among them.
Unshift(S, i) == i - Below(S, i)

\* insert_at: the rows P are inserted, and are in the set.
InsertAt(S, P) == P \cup {Shift(P, i) : i \in S}

\* shift_for_insert_at: the rows P are inserted, and are not in the set.
ShiftForInsertAt(S, P) == {Shift(P, i) : i \in S}

\* erase_at: the rows P are deleted, from the table and from the set.
EraseAt(S, P) == {Unshift(P, i) : i \in S \ P}

\* add_shifted_by: S holds deleted rows; the rows V, numbered after S was deleted
\* and I inserted, are deleted too.  Those of I were never there before.
AddShiftedBy(S, I, V) == S \cup {Shift(S, Unshift(I, i)) : i \in V \ I}
=============================================================================
