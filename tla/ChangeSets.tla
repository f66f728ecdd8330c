----------------------------- MODULE ChangeSets -----------------------------
(***************************************************************************)
(* How the comparison of a Results decides which rows moved, in the change *)
(* sets of MergedChanges: by the longest runs of rows common to the order  *)
(* before a commit and the order after it.                                 *)
(***************************************************************************)
EXTENDS MergedChanges, FiniteSetsExt

CONSTANTS
  MaxWritten, \* bound on the objects one commit writes
  MaxCommits  \* bound on the commits nobody has taken

ASSUME MaxAssumption == MaxWritten \in Nat /\ MaxCommits \in Nat \ {0}
-----------------------------------------------------------------------------
(* The objects in both, in their order a before and b after: which of them *)
(* moved is decided by their longest common runs.                          *)

\* The objects of K in their order: the rows left once the others' are taken out.
Kept(order, K) ==
  LET gone == RowsOf(order, Range(order) \ K)
  IN [n \in 1 .. Len(order) - Cardinality(gone) |-> order[Shift(gone, n - 1) + 1]]

\* What is searched for a match: the rows of a from begin1 and of b from begin2,
\* each up to the one before its end.
Blocks(a, b) ==
  {block \in [begin1 : 1 .. Len(a) + 1, end1 : 1 .. Len(a) + 1,
              begin2 : 1 .. Len(b) + 1, end2 : 1 .. Len(b) + 1] :
     block.begin1 <= block.end1 /\ block.begin2 <= block.end2}

\* IndexSet::count of a set whose ranges fit in one chunk, as the rows of a list of
\* friends do. Beyond it count is ChunkedIndexSet's Count, which may be too small;
\* that would decide ties in another way, and nothing proved here depends on those.
CountIn(modified, first, end) == Cardinality({i \in modified : first <= i /\ i < end})

\* The modified rows of the block of the best match, counted from its start as
\* if that were its end; a start below row 0 wraps around and counts nothing.
ModifiedOfBest(modified, best) ==
  IF best.j < best.size THEN 0
  ELSE CountIn(modified, best.j - best.size, best.j)

\* One row of find_longest_match: the run that ends at a[i] and b[j].
LongerMatch(a, b, block, modified, acc, i) ==
  LET j == CHOOSE k \in DOMAIN b : b[k] = a[i]
      size == IF acc.j + 1 = j /\ acc.len > 0 THEN acc.len + 1 ELSE 1
      best == acc.best
      bestModified == IF best.modified = -1 THEN ModifiedOfBest(modified, best) ELSE best.modified
      count == CountIn(modified, j - size, j)
      Ending(n) == [i |-> i - size + 1, j |-> j - size + 1, size |-> size, modified |-> n]
  IN IF j < block.begin2 \/ j >= block.end2 THEN [j |-> 0, len |-> 0, best |-> best]
     ELSE [j |-> j, len |-> size,
           best |-> IF size > best.size THEN Ending(-1)
                    ELSE IF size < best.size THEN best
                    ELSE IF count < bestModified THEN Ending(count)
                    ELSE [i |-> best.i, j |-> best.j, size |-> size, modified |-> bestModified]]

FindLongestMatch(a, b, block, modified) ==
  LET NoMatch == [i |-> block.begin1, j |-> block.begin2, size |-> 0, modified |-> 0]
      after[i \in block.begin1 - 1 .. block.end1 - 1] ==
        IF i < block.begin1 THEN [j |-> 0, len |-> 0, best |-> NoMatch]
        ELSE LongerMatch(a, b, block, modified, after[i - 1], i)
  IN after[block.end1 - 1].best

Before(block, m) ==
  [begin1 |-> block.begin1, end1 |-> m.i, begin2 |-> block.begin2, end2 |-> m.j]
Behind(block, m) ==
  [begin1 |-> m.i + m.size, end1 |-> block.end1, begin2 |-> m.j + m.size, end2 |-> block.end2]

\* A slip: the match of a later row may lie before that of an earlier one.
FindMatchesAnywhere(a, b, modified) ==
  [block \in Blocks(a, b) |->
     {FindLongestMatch(a, b, [block EXCEPT !.begin1 = i, !.end1 = i + 1], modified) :
        i \in block.begin1 .. block.end1 - 1}]

\* find_longest_matches; behind the match the end in b is compared with both.
FindLongestMatches(a, b, modified) ==
  LET found[block \in Blocks(a, b)] ==
        LET m == FindLongestMatch(a, b, block, modified)
        IN IF m.size = 0 THEN {}
           ELSE {m} \cup (IF m.i > block.begin1 /\ m.j > block.begin2
                          THEN found[Before(block, m)] ELSE {})
                    \cup (IF m.i + m.size < block.end2 /\ m.j + m.size < block.end2
                          THEN found[Behind(block, m)] ELSE {})
  IN found

AllFrom(a, b, first) ==
  [begin1 |-> first, end1 |-> Len(a) + 1, begin2 |-> first, end2 |-> Len(b) + 1]

\* calculate_moves_sorted: the objects that must be taken out and put back.  Rows
\* in table order, for which the code skips this, have none.
Moved(a, b, modified) ==
  LET different == {i \in DOMAIN a : a[i] # b[i]}
      first == Min(different)
      matches == FindLongestMatches(a, b, modified)[AllFrom(a, b, first)]
  IN IF different = {} THEN {}
     ELSE {a[i] : i \in {j \in first .. Len(a) :
                           \A m \in matches : j \notin m.i .. m.i + m.size - 1}}
-----------------------------------------------------------------------------
\* The objects calculate takes for moved.
MovedIn(prev, next, written) ==
  LET kept == Range(prev) \cap Range(next)
  IN Moved(Kept(prev, kept), Kept(next, kept), RowsOf(next, written \cap kept))

Next ==
  \/ /\ commits < MaxCommits
     /\ \E next \in Orders : \E written \in SUBSET Range(next) :
          /\ Cardinality(written) <= MaxWritten
          /\ Commit(next, written, MovedIn(rows, next, written))
  \/ Deliver

Spec == Init /\ [][Next]_vars
-----------------------------------------------------------------------------
(* Properties *)

\* "Given two equal-length matches, prefer the one with fewer modified rows."
PrefersFewerModified ==
  LET kept == Range(base) \cap Range(rows)
      a == Kept(base, kept)
      b == Kept(rows, kept)
      best == FindLongestMatch(a, b, AllFrom(a, b, 1), RowsOf(rows, touched \cap kept))
      Written(j, size) == Cardinality({k \in j .. j + size - 1 : b[k] \in touched})
  IN \A i, j \in 1 .. Len(a) + 1 - best.size :
       (\A k \in 0 .. best.size - 1 : a[i + k] = b[j + k])
         => Written(best.j, best.size) <= Written(j, best.size)
=============================================================================
