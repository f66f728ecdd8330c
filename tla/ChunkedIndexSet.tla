--------------------------- MODULE ChunkedIndexSet ---------------------------
(***************************************************************************)
(* Realm's IndexSet: a set of row numbers kept as ranges <<first, second>> *)
(* (second is not in the range), the ranges in chunks of at most MaxSize.  *)
(* Each chunk also holds its first and last bounds and how many rows it    *)
(* stands for.  The operations are those a change set of Results uses; the *)
(* hints at which a search may begin are left out.                         *)
(***************************************************************************)
EXTENDS Integers, Sequences, FiniteSetsExt, IndexSets

CONSTANTS
  MaxSize,  \* ChunkedRangeVector::max_size, the ranges in a chunk
  Bound     \* bound on the row numbers

\* index_set.hpp has 4 and 256; ensure_space needs it even.
ASSUME MaxSizeAssumption == MaxSize \in Nat \ {0} /\ MaxSize % 2 = 0
ASSUME BoundAssumption == Bound \in Nat

VARIABLES
  data,  \* m_data
  rows   \* the rows it stands for

vars == <<data, rows>>

Seqs == INSTANCE SequencesExt

Row == 0 .. Bound - 1

\* A loop over row numbers, ascending.
Each(Step(_, _), start) ==
  LET done[n \in 0 .. Bound] == IF n = 0 THEN start ELSE Step(done[n - 1], n - 1)
  IN done[Bound]

SumOf(q) ==
  LET sum[k \in 0 .. Len(q)] == IF k = 0 THEN 0 ELSE sum[k - 1] + q[k]
  IN sum[Len(q)]

Size(range) == range[2] - range[1]

Total(ranges) == SumOf([k \in DOMAIN ranges |-> Size(ranges[k])])

Chunk(ranges, count) ==
  [data |-> ranges, begin |-> ranges[1][1], end |-> ranges[Len(ranges)][2], count |-> count]

\* The ranges of an IndexSet that holds S.
Ranges(S) ==
  {r \in S \X (1 .. Bound) :
     r[1] < r[2] /\ r[1] .. r[2] - 1 \subseteq S /\ r[1] - 1 \notin S /\ r[2] \notin S}
-----------------------------------------------------------------------------
(* One range at a time.  A position is a chunk and an offset in its data;  *)
(* the end is <<Len(s) + 1, 1>>.                                           *)

End(s) == <<Len(s) + 1, 1>>

At(s, pos) == s[pos[1]].data[pos[2]]

Positions(s) == UNION {{c} \X DOMAIN s[c].data : c \in DOMAIN s}

Indexes(s) == UNION {At(s, pos)[1] .. At(s, pos)[2] - 1 : pos \in Positions(s)}

\* A slip: the range that ends where the row begins is taken for one that holds it.
FindTouching(s, i) ==
  LET after == {c \in DOMAIN s : s[c].end >= i}
  IN IF after = {} THEN End(s)
     ELSE LET ranges == s[Min(after)].data
          IN <<Min(after), Min({o \in DOMAIN ranges : ranges[o][2] >= i})>>

\* find: the range that holds the row, or the first one after it.
Find(s, i) ==
  LET after == {c \in DOMAIN s : s[c].end > i}
  IN IF after = {} THEN End(s)
     ELSE LET ranges == s[Min(after)].data
          IN <<Min(after), Min({o \in DOMAIN ranges : ranges[o][2] > i})>>

Following(s, pos) == IF pos[2] < Len(s[pos[1]].data) THEN <<pos[1], pos[2] + 1>>
                     ELSE <<pos[1] + 1, 1>>

Preceding(s, pos) == IF pos[2] > 1 THEN <<pos[1], pos[2] - 1>>
                     ELSE <<pos[1] - 1, Len(s[pos[1] - 1].data)>>

\* set, adjust: another range, the chunk's summary with it.
PutRange(s, pos, range) ==
  [s EXCEPT ![pos[1]] = Chunk([@.data EXCEPT ![pos[2]] = range],
                              @.count - Size(At(s, pos)) + Size(range))]

\* erase: a chunk without ranges goes away.
EraseRange(s, pos) ==
  LET chunk == s[pos[1]]
      rest == Seqs!RemoveAt(chunk.data, pos[2])
  IN IF rest = <<>> THEN Seqs!RemoveAt(s, pos[1])
     ELSE [s EXCEPT ![pos[1]] = Chunk(rest, chunk.count - Size(At(s, pos)))]

\* ensure_space, of a full chunk: its second half becomes a chunk.
Split(s, c) ==
  LET full == s[c].data
      left == MaxSize - MaxSize \div 2
      moved == SubSeq(full, left + 1, MaxSize)
  IN SubSeq(s, 1, c - 1)
       \o <<Chunk(SubSeq(full, 1, left), s[c].count - Total(moved)),
            Chunk(moved, Total(moved))>>
       \o SubSeq(s, c + 1, Len(s))

InsertIn(s, c, o, range) ==
  [s EXCEPT ![c] = Chunk(Seqs!InsertAt(@.data, o, range), @.count + Size(range))]

\* insert, before the position; push_back at the end.
InsertRange(s, pos, range) ==
  LET c == pos[1]
      o == pos[2]
      last == Len(s)
      half == MaxSize \div 2
  IN CASE pos = End(s) ->
            IF s # <<>> /\ Len(s[last].data) < MaxSize
            THEN InsertIn(s, last, Len(s[last].data) + 1, range)
            ELSE Append(s, Chunk(<<range>>, Size(range)))
       [] pos # End(s) /\ Len(s[c].data) < MaxSize -> InsertIn(s, c, o, range)
       [] pos # End(s) /\ Len(s[c].data) >= MaxSize ->
            IF o - 1 >= half THEN InsertIn(Split(s, c), c + 1, o - half, range)
            ELSE InsertIn(Split(s, c), c, o, range)

\* do_add, where find found the place.
DoAdd(s, i) ==
  LET pos == Find(s, i)
      valid == pos # End(s)
      prev == Preceding(s, pos)
  IN CASE valid /\ At(s, pos)[1] <= i -> s
       [] pos # <<1, 1>> /\ At(s, prev)[2] = i
            -> IF valid /\ At(s, pos)[1] = i + 1
               THEN PutRange(EraseRange(s, pos), prev, <<At(s, prev)[1], At(s, pos)[2]>>)
               ELSE PutRange(s, prev, <<At(s, prev)[1], i + 1>>)
       [] OTHER -> IF valid /\ At(s, pos)[1] = i + 1
                   THEN PutRange(s, pos, <<i, At(s, pos)[2]>>)
                   ELSE InsertRange(s, pos, <<i, i + 1>>)

\* The loop of do_remove, of the rows from b to e - 1, once.  Its begin moves up to
\* the range it finds: no row is between.
Trim(s, b, e) ==
  LET pos == Find(s, b)
      range == At(s, pos)
      from == Max({range[1], b})
      cut == PutRange(s, pos, <<range[1], from>>)
  IN IF pos = End(s) \/ range[1] >= e THEN s
     ELSE CASE range[1] < from /\ range[2] > e ->
                 InsertRange(cut, Following(cut, pos), <<e, range[2]>>)
            [] range[1] = from /\ range[2] <= e -> EraseRange(s, pos)
            [] range[1] = from /\ range[2] > e -> PutRange(s, pos, <<e, range[2]>>)
            [] range[1] < from /\ range[2] <= e -> cut

\* do_remove: e - b times are enough, each removes a row.
DoRemove(s, b, e) ==
  LET trimmed[k \in 0 .. e - b] == IF k = 0 THEN s ELSE Trim(trimmed[k - 1], b, e)
  IN trimmed[e - b]

\* add, of each row of a set.
AddAll(s, S) ==
  LET Step(t, i) == IF i \in S THEN DoAdd(t, i) ELSE t IN Each(Step, s)

\* remove, of each range of a set.
RemoveAll(s, S) ==
  LET Step(t, b) == IF \E r \in Ranges(S) : r[1] = b
                    THEN DoRemove(t, b, (CHOOSE r \in Ranges(S) : r[1] = b)[2]) ELSE t
  IN Each(Step, s)
-----------------------------------------------------------------------------
(* All ranges at once: the result is built anew.                           *)

\* The chunks the builder of a set like old plans for.
Planned(old) == SumOf([c \in DOMAIN old |-> Len(old[c].data)]) \div MaxSize + 1

\* ChunkedRangeVectorBuilder::push_back
PushBack(s, range, planned) ==
  LET n == Len(s)
      last == s[n]
      m == Len(last.data)
      more == last.count + Size(range)
  IN CASE s = <<>> -> <<Chunk(<<range>>, Size(range))>>
       [] s # <<>> /\ range[1] = last.end ->
            [s EXCEPT ![n] = Chunk([last.data EXCEPT ![m] = <<last.data[m][1], range[2]>>], more)]
       [] s # <<>> /\ range[1] # last.end /\ m < MaxSize ->
            [s EXCEPT ![n] = Chunk(Append(last.data, range), more)]
       [] s # <<>> /\ range[1] # last.end /\ m >= MaxSize ->
            Append(s, Chunk(<<range>>, IF n < planned THEN Size(range) ELSE 1))

PushRow(s, i, planned) == PushBack(s, <<i, i + 1>>, planned)

\* Ranges that lie apart, the lower ones first.
PushAll(s, ranges, planned) ==
  LET Step(t, i) == IF \E r \in ranges : r[1] = i
                    THEN PushBack(t, CHOOSE r \in ranges : r[1] = i, planned) ELSE t
  IN Each(Step, s)

\* The loops of insert_at, which keeps the positions S, and shift_for_insert_at, by
\* the row i that is next in the result.
WalkInserted(old, S, kept) ==
  LET mine == Indexes(old)
      planned == Planned(old)
      Step(w, i) ==
        IF i \in S
        THEN [built |-> IF kept THEN PushRow(w.built, i, planned) ELSE w.built,
              shift |-> w.shift + 1]
        ELSE IF i - w.shift \in mine
        THEN [built |-> PushRow(w.built, i, planned), shift |-> w.shift]
        ELSE w
  IN Each(Step, [built |-> <<>>, shift |-> 0]).built

\* The loop of erase_at, by the row i of the set.
WalkErased(old, S) ==
  LET mine == Indexes(old)
      planned == Planned(old)
      Step(w, i) ==
        IF i \in S THEN [built |-> w.built, shift |-> w.shift + 1]
        ELSE IF i \in mine
        THEN [built |-> PushRow(w.built, i - w.shift, planned), shift |-> w.shift]
        ELSE w
  IN Each(Step, [built |-> <<>>, shift |-> 0]).built

\* The loop of add_shifted_by, by the row i of values: left are its own rows that
\* are not pushed yet.  A range is passed when its first row is.
WalkShifted(old, I, V) ==
  LET planned == Planned(old)
      Singles(S) == {<<x, x + 1>> : x \in S}
      Passed(w, i) == {x \in w.left : x - Below(w.left, x) <= i - w.newShift + w.oldShift}
      Step(w, i) ==
        IF i \in I
        THEN [built |-> w.built, left |-> w.left, oldShift |-> w.oldShift, newShift |-> w.newShift + 1]
        ELSE IF i \in V
        THEN LET passed == Passed(w, i)
                 oldShift == w.oldShift + Cardinality(passed)
             IN [built |-> PushRow(PushAll(w.built, Singles(passed), planned),
                                   i - w.newShift + oldShift, planned),
                 left |-> w.left \ passed, oldShift |-> oldShift, newShift |-> w.newShift]
        ELSE w
      end == Each(Step, [built |-> <<>>, left |-> Indexes(old), oldShift |-> 0, newShift |-> 0])
      ranges == {At(old, pos) : pos \in Positions(old)}
  IN PushAll(end.built, {r \in ranges : r[1] \in end.left}, planned)
-----------------------------------------------------------------------------
(* Counting *)

\* The rows below j of the ranges from offset o on.
CountIn(ranges, o, j) ==
  SumOf([k \in 1 .. Len(ranges) - o + 1 |->
           Min({ranges[o + k - 1][2], j}) - Min({ranges[o + k - 1][1], j})])

\* The rest of count, from the start of chunk c: chunks, then ranges.
CountFrom(s, c, j) ==
  LET later == {k \in c .. Len(s) : s[k].end > j}
      rest == IF later = {} THEN Len(s) + 1 ELSE Min(later)
      whole == SumOf([k \in 1 .. rest - c |-> s[c + k - 1].count])
  IN IF later = {} THEN whole ELSE whole + CountIn(s[rest].data, 1, j)

\* A slip: the range the count starts in is counted from its start.
CountFromItsStart(s, i, j) ==
  LET pos == Find(s, i) IN
  IF pos = End(s) THEN 0 ELSE CountFrom(s, pos[1], j)

\* count, of the rows from i to j - 1.
Count(s, i, j) ==
  LET pos == Find(s, i)
      range == At(s, pos)
      start == Max({range[1], i})
      next == pos[1] + 1
      rest == range[2] - start + CountIn(s[pos[1]].data, pos[2] + 1, j)
  IN CASE pos = End(s) -> 0
       [] pos # End(s) /\ range[2] >= j -> IF range[1] >= j THEN 0 ELSE j - start
       [] pos # End(s) /\ range[2] < j /\ i <= range[1] /\ pos[2] = 1 -> CountFrom(s, pos[1], j)
       [] pos # End(s) /\ range[2] < j /\ ~(i <= range[1] /\ pos[2] = 1) ->
            IF s[pos[1]].end >= j \/ next > Len(s) \/ s[next].data[1][2] >= j
            THEN rest ELSE rest + CountFrom(s, next, j)
-----------------------------------------------------------------------------
Init == data = <<>> /\ rows = {}

\* add, of another set.
AddRows(S) ==
  /\ data' = AddAll(data, S)
  /\ rows' = rows \cup S

\* remove, of another set.
RemoveRows(S) ==
  /\ data' = RemoveAll(data, S)
  /\ rows' = rows \ S

\* insert_at; a set without rows becomes a copy of the positions, here in chunks as
\* add lays them.
InsertRows(S) ==
  /\ InsertAt(rows, S) \subseteq Row
  /\ rows' = InsertAt(rows, S)
  /\ data' = IF S = {} THEN data
             ELSE IF data = <<>> THEN AddAll(data, S) ELSE WalkInserted(data, S, TRUE)

ShiftRows(S) ==
  /\ ShiftForInsertAt(rows, S) \subseteq Row
  /\ rows' = ShiftForInsertAt(rows, S)
  /\ data' = IF data = <<>> \/ S = {} \/ Min(S) >= data[Len(data)].end THEN data
             ELSE WalkInserted(data, S, FALSE)

EraseRows(S) ==
  /\ rows' = EraseAt(rows, S)
  /\ data' = IF data = <<>> \/ S = {} THEN data ELSE WalkErased(data, S)

AddShiftedRows(I, V) ==
  /\ AddShiftedBy(rows, I, V) \subseteq Row
  /\ rows' = AddShiftedBy(rows, I, V)
  /\ data' = IF V = {} THEN data ELSE WalkShifted(data, I, V)

Next ==
  \E S \in SUBSET Row :
     \/ AddRows(S) \/ RemoveRows(S) \/ InsertRows(S) \/ ShiftRows(S) \/ EraseRows(S)
     \/ \E V \in SUBSET Row : AddShiftedRows(S, V)

Spec == Init /\ [][Next]_vars
-----------------------------------------------------------------------------
(* Properties *)

\* Every operation does to the rows what IndexSets says, however the ranges came to
\* lie in the chunks; and what verify() asserts holds but for the counts: ranges are
\* not empty and do not touch, also from chunk to chunk, and a chunk has ranges, not
\* too many, between its bounds.
Verified ==
  /\ Indexes(data) = rows
  /\ \A pos \in Positions(data) : At(data, pos)[1] < At(data, pos)[2]
  /\ \A p, q \in Positions(data) :
        p[1] < q[1] \/ (p[1] = q[1] /\ p[2] < q[2]) => At(data, p)[2] < At(data, q)[1]
  /\ \A c \in DOMAIN data :
        /\ Len(data[c].data) \in 1 .. MaxSize
        /\ data[c].begin = data[c].data[1][1]
        /\ data[c].end = data[c].data[Len(data[c].data)][2]

\* The last assertion of verify(): a chunk's count is that of its ranges.
CountsVerified == \A c \in DOMAIN data : data[c].count = Total(data[c].data)

\* "Counts the number of indices in the set in the given range."
CountsRows ==
  CountsVerified =>
    \A j \in 0 .. Bound : \A i \in 0 .. j : Count(data, i, j) = Cardinality({k \in rows : i <= k /\ k < j})

\* The same of every range that does not end in the first range of a chunk after
\* the one it starts in.
CountsOtherRows ==
  CountsVerified =>
    \A j \in 0 .. Bound : \A i \in 0 .. j :
      \/ Count(data, i, j) = Cardinality({k \in rows : i <= k /\ k < j})
      \/ \E c \in DOMAIN data : c > Find(data, i)[1] /\ j \in data[c].begin + 1 .. data[c].data[1][2]
=============================================================================
