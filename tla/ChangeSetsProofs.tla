-------------------------- MODULE ChangeSetsProofs --------------------------
(***************************************************************************)
(* Realm's change sets, for every set of keys, every number of merged      *)
(* commits and whichever rows their comparisons took for moved: the set    *)
(* leads from the rows the observer has to the rows there are, and reports *)
(* what was written.  And what a comparison takes for moved, for any two   *)
(* orders of any objects: the rest of what is in both kept its order, so   *)
(* the change sets of module ChangeSets are those of MergedChanges.        *)
(***************************************************************************)
EXTENDS ChangeSets, IndexSetsProofs

\* An order of objects is a sequence without repetitions.
LEMMA OrderParts ==
  ASSUME NEW order \in Orders
  PROVE  /\ Len(order) \in Nat /\ DOMAIN order = 1 .. Len(order)
         /\ \A i \in DOMAIN order : order[i] \in Key
         /\ \A i, j \in DOMAIN order : order[i] = order[j] => i = j
<1>1. IsInjective(order) /\ order \in UNION {[1 .. n -> Key] : n \in 0 .. Cardinality(Key)}
  BY DEF Orders
<1>2. PICK n \in 0 .. Cardinality(Key) : order \in [1 .. n -> Key]
  BY <1>1
<1>3. Cardinality(Key) \in Nat
  BY KeyAssumption, FS_CardinalityType
<1>4. n \in Nat
  BY <1>2, <1>3
<1>5. Len(order) = n /\ DOMAIN order = 1 .. n
  BY <1>2, <1>4
<1> QED BY <1>1, <1>2, <1>4, <1>5 DEF IsInjective

\* Row numbers count from 0, places in a sequence from 1.
LEMMA RowParts ==
  ASSUME NEW order \in Orders
  PROVE  /\ RowNumbers(order) \in SUBSET Nat
         /\ \A i \in Nat : i \in RowNumbers(order) <=> i < Len(order)
         /\ \A i \in RowNumbers(order) : i + 1 \in DOMAIN order
         /\ \A i \in DOMAIN order : /\ i - 1 \in RowNumbers(order) /\ (i - 1) + 1 = i
                                    /\ i \in Nat /\ i # 0
         /\ \A i, j \in RowNumbers(order) : order[i + 1] = order[j + 1] => i = j
<1>1. /\ Len(order) \in Nat /\ DOMAIN order = 1 .. Len(order)
      /\ \A i, j \in DOMAIN order : order[i] = order[j] => i = j
  BY OrderParts
<1>2. /\ RowNumbers(order) \in SUBSET Nat
      /\ \A i \in Nat : i \in RowNumbers(order) <=> i < Len(order)
  <2>1. \A i \in 0 .. Len(order) - 1 : i \in Nat
    BY <1>1
  <2>2. \A i \in Nat : i \in 0 .. Len(order) - 1 <=> i < Len(order)
    BY <1>1
  <2> QED BY <2>1, <2>2 DEF RowNumbers
<1>3. ASSUME NEW i \in RowNumbers(order)
      PROVE  i + 1 \in DOMAIN order
  BY <1>1, <1>2, <1>3
<1>4. ASSUME NEW i \in DOMAIN order
      PROVE  /\ i - 1 \in RowNumbers(order) /\ (i - 1) + 1 = i
             /\ i \in Nat /\ i # 0
  <2>1. i \in Nat /\ 1 <= i /\ i <= Len(order)
    BY <1>1
  <2>2. i - 1 \in Nat /\ i - 1 < Len(order) /\ (i - 1) + 1 = i /\ i # 0
    BY <1>1, <2>1
  <2> QED BY <1>2, <2>1, <2>2
<1>5. ASSUME NEW i \in RowNumbers(order), NEW j \in RowNumbers(order),
             order[i + 1] = order[j + 1]
      PROVE  i = j
  <2>1. i + 1 = j + 1
    BY <1>1, <1>3, <1>5
  <2>2. i \in Nat /\ j \in Nat
    BY <1>2
  <2> QED BY <2>1, <2>2
<1> QED BY <1>2, <1>3, <1>4, <1>5

\* RowsOf are the rows that hold an object of K.
LEMMA RowsOfIs ==
  ASSUME NEW order \in Orders, NEW K, NEW i
  PROVE  i \in RowsOf(order, K) <=> i \in RowNumbers(order) /\ order[i + 1] \in K
<1>1. ASSUME NEW j \in DOMAIN order, order[j] \in K, i = j - 1
      PROVE  i \in RowNumbers(order) /\ order[i + 1] \in K
  BY <1>1, RowParts
<1>2. ASSUME i \in RowNumbers(order), order[i + 1] \in K
      PROVE  i + 1 \in DOMAIN order /\ order[i + 1] \in K /\ i = (i + 1) - 1
  <2>1. i \in Nat /\ i + 1 \in DOMAIN order
    BY <1>2, RowParts
  <2> QED BY <1>2, <2>1
<1> QED BY <1>1, <1>2 DEF RowsOf

\* The objects of an order are those of its rows.
LEMMA RangeOfRows ==
  ASSUME NEW order \in Orders, NEW k
  PROVE  k \in Range(order) <=> \E i \in RowNumbers(order) : order[i + 1] = k
<1>1. ASSUME NEW j \in DOMAIN order, order[j] = k
      PROVE  \E i \in RowNumbers(order) : order[i + 1] = k
  <2>1. j - 1 \in RowNumbers(order) /\ (j - 1) + 1 = j
    BY RowParts
  <2>2. order[(j - 1) + 1] = k
    BY <1>1, <2>1
  <2> QED BY <2>1, <2>2
<1>2. ASSUME NEW i \in RowNumbers(order), order[i + 1] = k
      PROVE  \E j \in DOMAIN order : order[j] = k
  BY <1>2, RowParts
<1> QED BY <1>1, <1>2 DEF Range

\* What is the same row before and after is a row of both or of neither, and of
\* both with the same object.
Leads(D, I, before, after) ==
  \A x, z : Same(D, I, x, z) =>
    /\ x \in RowNumbers(before) <=> z \in RowNumbers(after)
    /\ x \in RowNumbers(before) => before[x + 1] = after[z + 1]

\* What a change set that applies says of each row.
LEMMA AppliesSame ==
  ASSUME NEW before \in Orders, NEW after \in Orders, NEW s, Applies(s, before, after)
  PROVE  /\ s.deletions \in SUBSET Nat /\ IsFiniteSet(s.deletions)
         /\ s.insertions \in SUBSET Nat /\ IsFiniteSet(s.insertions)
         /\ Cardinality(s.deletions) \in Nat /\ Cardinality(s.insertions) \in Nat
         /\ Len(before) - Cardinality(s.deletions) = Len(after) - Cardinality(s.insertions)
         /\ Leads(s.deletions, s.insertions, before, after)
<1> DEFINE D == s.deletions
           I == s.insertions
           n == Len(before)
           m == Len(after)
<1>1. /\ D \subseteq RowNumbers(before) /\ I \subseteq RowNumbers(after)
      /\ n - Cardinality(D) = m - Cardinality(I)
      /\ \A i \in RowNumbers(before) \ D, j \in RowNumbers(after) \ I :
           Unshift(D, i) = Unshift(I, j) => before[i + 1] = after[j + 1]
  BY DEF Applies
<1>2. n \in Nat /\ m \in Nat
  BY OrderParts
<1>3. D \in SUBSET (0 .. n - 1) /\ I \in SUBSET (0 .. m - 1)
  BY <1>1 DEF RowNumbers
<1> HIDE DEF D, I, n, m
<1>4. n \in Nat \ D /\ m \in Nat \ I
  BY <1>2, <1>3
<1>5. /\ IsFiniteSet(D) /\ Cardinality(D) \in Nat
      /\ IsFiniteSet(I) /\ Cardinality(I) \in Nat
  BY <1>2, <1>3, <1>4, UnshiftBound
<1>6. ASSUME NEW x, NEW z, Same(D, I, x, z)
      PROVE  /\ x \in RowNumbers(before) <=> z \in RowNumbers(after)
             /\ x \in RowNumbers(before) => before[x + 1] = after[z + 1]
  <2>1. x \in Nat \ D /\ z \in Nat \ I /\ Unshift(D, x) = Unshift(I, z)
    BY <1>6 DEF Same
  <2>2. /\ x < n <=> Unshift(D, x) < n - Cardinality(D)
        /\ z < m <=> Unshift(I, z) < m - Cardinality(I)
    BY <1>2, <1>3, <2>1, UnshiftBound
  <2>3. x < n <=> z < m
    BY <1>1, <2>1, <2>2
  <2>4. (x \in RowNumbers(before) <=> x < n) /\ (z \in RowNumbers(after) <=> z < m)
    BY <2>1, RowParts DEF n, m
  <2> QED BY <1>1, <2>1, <2>3, <2>4
<1>7. D \in SUBSET Nat /\ I \in SUBSET Nat
  BY <1>1, RowParts
<1>8. Leads(D, I, before, after)
  BY <1>6 DEF Leads
<1> QED BY <1>1, <1>5, <1>7, <1>8 DEF D, I, n, m

\* A change set that says so applies.
LEMMA SameApplies ==
  ASSUME NEW before \in Orders, NEW after \in Orders, NEW s,
         s.deletions \subseteq RowNumbers(before), s.insertions \subseteq RowNumbers(after),
         Len(before) - Cardinality(s.deletions) = Len(after) - Cardinality(s.insertions),
         \A x \in RowNumbers(before), z \in RowNumbers(after) :
           Same(s.deletions, s.insertions, x, z) => before[x + 1] = after[z + 1]
  PROVE  Applies(s, before, after)
<1>1. \A i \in RowNumbers(before) \ s.deletions, j \in RowNumbers(after) \ s.insertions :
        Unshift(s.deletions, i) = Unshift(s.insertions, j) => before[i + 1] = after[j + 1]
  <2> TAKE i \in RowNumbers(before) \ s.deletions, j \in RowNumbers(after) \ s.insertions
  <2>1. i \in Nat \ s.deletions /\ j \in Nat \ s.insertions
    BY RowParts
  <2> QED BY <2>1 DEF Same
<1> QED BY <1>1 DEF Applies

\* The rows of one order that hold what stays, and the rows of another, in the
\* same order: they are the same rows once those of the rest are taken out.
LEMMA StayIsSame ==
  ASSUME NEW prev \in Orders, NEW next \in Orders,
         NEW stay, stay \subseteq Range(prev), stay \subseteq Range(next),
         SameOrder(prev, next, stay),
         NEW D \in SUBSET RowNumbers(prev), NEW I \in SUBSET RowNumbers(next),
         \A i \in RowNumbers(prev) : i \in D <=> prev[i + 1] \notin stay,
         \A i \in RowNumbers(next) : i \in I <=> next[i + 1] \notin stay
  PROVE  /\ Same(D, I, Len(prev), Len(next))
         /\ \A x \in RowNumbers(prev), z \in RowNumbers(next) :
              Same(D, I, x, z) => prev[x + 1] = next[z + 1]
<1> DEFINE n == Len(prev)
           m == Len(next)
           At(x) == CHOOSE z \in RowNumbers(next) : next[z + 1] = prev[x + 1]
           f == [x \in Nat \ D |-> IF x < n THEN At(x) ELSE (x - n) + m]
<1>1. n \in Nat /\ m \in Nat
  BY OrderParts
<1>2. D \in SUBSET Nat /\ I \in SUBSET Nat
  BY RowParts
<1>3. ASSUME NEW x \in Nat \ D, x < n
      PROVE  /\ x \in RowNumbers(prev) /\ prev[x + 1] \in stay
             /\ At(x) \in RowNumbers(next) /\ next[At(x) + 1] = prev[x + 1]
             /\ At(x) \in Nat \ I /\ At(x) < m
  <2>1. x \in RowNumbers(prev) /\ prev[x + 1] \in stay
    BY <1>3, RowParts
  <2>2. \E z \in RowNumbers(next) : next[z + 1] = prev[x + 1]
    BY <2>1, RangeOfRows
  <2>3. At(x) \in RowNumbers(next) /\ next[At(x) + 1] = prev[x + 1]
    BY <2>2
  <2> HIDE DEF At
  <2>4. At(x) \notin I /\ At(x) \in Nat /\ At(x) < m
    BY <2>1, <2>3, RowParts
  <2> QED BY <2>1, <2>3, <2>4
<1> HIDE DEF n, m, At
<1>4. ASSUME NEW x \in Nat \ D, x < n
      PROVE  f[x] = At(x)
  BY <1>4
<1>5. ASSUME NEW x \in Nat \ D, ~(x < n)
      PROVE  f[x] = (x - n) + m /\ f[x] \in Nat \ I /\ ~(f[x] < m)
  <2>1. f[x] = (x - n) + m
    BY <1>5
  <2>2. f[x] \in Nat /\ ~(f[x] < m)
    BY <1>1, <1>5, <2>1
  <2>3. f[x] \notin I
    BY <2>2, RowParts DEF m
  <2> QED BY <2>1, <2>2, <2>3
<1>6. f \in [Nat \ D -> Nat \ I]
  <2>1. \A x \in Nat \ D : f[x] \in Nat \ I
    BY <1>3, <1>4, <1>5
  <2> QED BY <2>1
<1> HIDE DEF f
<1>7. ASSUME NEW x \in Nat \ D, NEW y \in Nat \ D, x < y
      PROVE  f[x] < f[y]
  <2>1. CASE y < n
    <3>1. x < n
      BY <2>1, <1>7, <1>1
    <3>2. /\ x + 1 \in DOMAIN prev /\ y + 1 \in DOMAIN prev
          /\ prev[x + 1] \in stay /\ prev[y + 1] \in stay
      BY <2>1, <3>1, <1>3, RowParts
    <3>3. x + 1 < y + 1
      BY <1>7
    <3>4. /\ At(x) + 1 \in DOMAIN next /\ next[At(x) + 1] = prev[x + 1]
          /\ At(y) + 1 \in DOMAIN next /\ next[At(y) + 1] = prev[y + 1]
      BY <2>1, <3>1, <1>3, RowParts
    <3>5. At(x) + 1 < At(y) + 1
      BY <3>2, <3>3, <3>4 DEF SameOrder
    <3>6. At(x) \in Nat /\ At(y) \in Nat
      BY <2>1, <3>1, <1>3
    <3>7. At(x) < At(y)
      BY <3>5, <3>6
    <3> QED BY <2>1, <3>1, <3>7, <1>4
  <2>2. CASE ~(y < n) /\ x < n
    <3>1. f[x] < m /\ f[x] \in Nat
      BY <2>2, <1>3, <1>4
    <3>2. ~(f[y] < m) /\ f[y] \in Nat
      BY <2>2, <1>5
    <3> QED BY <3>1, <3>2, <1>1
  <2>3. CASE ~(y < n) /\ ~(x < n)
    <3>1. f[x] = (x - n) + m /\ f[y] = (y - n) + m
      BY <2>3, <1>5
    <3> QED BY <3>1, <1>1, <1>7
  <2> QED BY <2>1, <2>2, <2>3
<1>8. \A x, y \in Nat \ D : x < y <=> f[x] < f[y]
  <2> TAKE x, y \in Nat \ D
  <2>1. (x < y => f[x] < f[y]) /\ (y < x => f[y] < f[x]) /\ (x = y => f[x] = f[y])
    BY <1>7
  <2>2. f[x] \in Nat /\ f[y] \in Nat
    BY <1>6
  <2> QED BY <2>1, <2>2
<1>9. \A z \in Nat \ I : \E x \in Nat \ D : f[x] = z
  <2> TAKE z \in Nat \ I
  <2>1. CASE z < m
    <3>1. z \in RowNumbers(next) /\ next[z + 1] \in stay
      BY <2>1, RowParts DEF m
    <3>2. PICK x \in RowNumbers(prev) : prev[x + 1] = next[z + 1]
      BY <3>1, RangeOfRows
    <3>3. x \in Nat \ D /\ x < n
      BY <3>1, <3>2, RowParts DEF n
    <3>4. At(x) \in RowNumbers(next) /\ next[At(x) + 1] = next[z + 1]
      BY <3>2, <3>3, <1>3
    <3>5. At(x) = z
      BY <3>1, <3>4, RowParts
    <3> QED BY <3>3, <3>5, <1>4
  <2>2. CASE ~(z < m)
    <3>1. (z - m) + n \in Nat /\ ~((z - m) + n < n) /\ (((z - m) + n) - n) + m = z
      BY <2>2, <1>1
    <3>2. (z - m) + n \notin D
      BY <3>1, RowParts DEF n
    <3> QED BY <3>1, <3>2, <1>5
  <2> QED BY <2>1, <2>2
<1>10. \A x \in Nat \ D : Same(D, I, x, f[x])
  BY <1>2, <1>6, <1>8, <1>9, OrderIsSame
<1>11. Same(D, I, n, m)
  <2>1. n \in Nat \ D /\ ~(n < n)
    <3>1. n \in Nat /\ ~(n < n)
      BY <1>1
    <3> QED BY <3>1, RowParts DEF n
  <2>2. f[n] = (n - n) + m
    BY <2>1, <1>5
  <2>3. f[n] = m
    BY <2>2, <1>1
  <2> QED BY <2>1, <2>3, <1>10
<1>12. ASSUME NEW x \in RowNumbers(prev), NEW z \in RowNumbers(next), Same(D, I, x, z)
       PROVE  prev[x + 1] = next[z + 1]
  <2>1. x \in Nat \ D
    BY <1>12 DEF Same
  <2>2. x < n
    BY <2>1, RowParts DEF n
  <2>3. z = f[x]
    BY <1>2, <1>10, <1>12, <2>1, SameOnce
  <2> QED BY <2>1, <2>2, <2>3, <1>3, <1>4
<1> QED BY <1>11, <1>12 DEF n, m

\* calculate's change set leads from the rows before the commit to those after,
\* whichever objects it took for moved of those it may.
THEOREM CalculateApplies ==
  ASSUME NEW prev \in Orders, NEW next \in Orders, NEW written,
         NEW moved \in Movable(prev, next)
  PROVE  Applies(Calculate(prev, next, written, moved), prev, next)
<1> DEFINE kept == Range(prev) \cap Range(next)
           stay == kept \ moved
           s == Calculate(prev, next, written, moved)
           D == RowsOf(prev, (Range(prev) \ kept) \cup moved)
           I == RowsOf(next, (Range(next) \ kept) \cup moved)
<1>1. moved \in SUBSET kept /\ SameOrder(prev, next, stay)
  <2>1. CASE SameOrder(prev, next, kept)
    <3>1. moved = {} /\ stay = kept
      BY <2>1 DEF Movable
    <3> QED BY <2>1, <3>1
  <2>2. CASE ~SameOrder(prev, next, kept)
    BY <2>2 DEF Movable
  <2> QED BY <2>1, <2>2
<1>2. s.deletions = D /\ s.insertions = I
  BY DEF Calculate
<1>3. \A i \in RowNumbers(prev) : prev[i + 1] \in Range(prev)
  BY RangeOfRows
<1>4. \A i \in RowNumbers(next) : next[i + 1] \in Range(next)
  BY RangeOfRows
<1>5. /\ D \in SUBSET RowNumbers(prev)
      /\ \A i \in RowNumbers(prev) : i \in D <=> prev[i + 1] \notin stay
  BY <1>1, <1>3, RowsOfIs
<1>6. /\ I \in SUBSET RowNumbers(next)
      /\ \A i \in RowNumbers(next) : i \in I <=> next[i + 1] \notin stay
  BY <1>1, <1>4, RowsOfIs
<1>7. stay \subseteq Range(prev) /\ stay \subseteq Range(next)
  OBVIOUS
<1> HIDE DEF stay, D, I, kept, s
<1>8. /\ Same(D, I, Len(prev), Len(next))
      /\ \A x \in RowNumbers(prev), z \in RowNumbers(next) :
           Same(D, I, x, z) => prev[x + 1] = next[z + 1]
  BY <1>1, <1>5, <1>6, <1>7, StayIsSame
<1>9. Len(prev) - Cardinality(D) = Len(next) - Cardinality(I)
  <2>1. Len(prev) \in Nat /\ Len(next) \in Nat
    BY OrderParts
  <2>2. D \subseteq 0 .. Len(prev) - 1 /\ I \subseteq 0 .. Len(next) - 1
    BY <1>5, <1>6 DEF RowNumbers
  <2>3. D \in SUBSET Nat /\ I \in SUBSET Nat
    BY <1>5, <1>6, RowParts
  <2>4. /\ Below(D, Len(prev)) = Cardinality(D)
        /\ Below(I, Len(next)) = Cardinality(I)
    BY <2>1, <2>2, <2>3, BelowType
  <2> QED BY <2>4, <1>8 DEF Same, Unshift
<1> QED BY <1>2, <1>5, <1>6, <1>8, <1>9, SameApplies DEF s

\* merge's change set leads from the rows before the older of two to the rows
\* after the newer, when the two lead to and from the rows in between.
THEOREM MergeApplies ==
  ASSUME NEW before \in Orders, NEW between \in Orders, NEW after \in Orders,
         NEW old, Applies(old, before, between),
         NEW new, Applies(new, between, after)
  PROVE  Applies(Merge(old, new), before, after)
<1> DEFINE D1 == old.deletions
           I1 == old.insertions
           D2 == new.deletions
           I2 == new.insertions
           D == AddShiftedBy(D1, I1, D2)
           I == InsertAt(EraseAt(I1, D2), I2)
           s == Merge(old, new)
<1>1. s.deletions = D /\ s.insertions = I
  BY DEF Merge
<1>2. /\ D1 \in SUBSET Nat /\ IsFiniteSet(D1) /\ I1 \in SUBSET Nat /\ IsFiniteSet(I1)
      /\ Cardinality(D1) \in Nat /\ Cardinality(I1) \in Nat
      /\ Len(before) - Cardinality(D1) = Len(between) - Cardinality(I1)
      /\ Leads(D1, I1, before, between)
  BY AppliesSame
<1>3. /\ D2 \in SUBSET Nat /\ IsFiniteSet(D2) /\ I2 \in SUBSET Nat /\ IsFiniteSet(I2)
      /\ Cardinality(D2) \in Nat /\ Cardinality(I2) \in Nat
      /\ Len(between) - Cardinality(D2) = Len(after) - Cardinality(I2)
      /\ Leads(D2, I2, between, after)
  BY AppliesSame
<1>4. /\ D1 \subseteq RowNumbers(before) /\ I1 \subseteq RowNumbers(between)
      /\ D2 \subseteq RowNumbers(between) /\ I2 \subseteq RowNumbers(after)
  BY DEF Applies
<1> HIDE DEF D1, I1, D2, I2
<1>5. D \subseteq RowNumbers(before)
  <2> SUFFICES ASSUME NEW x \in D PROVE x \in RowNumbers(before)
    OBVIOUS
  <2>1. x \in D1 \/ \E v \in D2 : Same(D1, I1, x, v)
    BY <1>2, <1>3, AddedRows
  <2> QED BY <2>1, <1>2, <1>4 DEF Leads
<1>6. I \subseteq RowNumbers(after)
  <2> SUFFICES ASSUME NEW z \in I PROVE z \in RowNumbers(after)
    OBVIOUS
  <2>1. z \in I2 \/ \E u \in I1 : Same(D2, I2, u, z)
    BY <1>2, <1>3, InsertedRows
  <2> QED BY <2>1, <1>3, <1>4 DEF Leads
<1>7. /\ Cardinality(D) = Cardinality(D1) + Cardinality(D2 \ I1)
      /\ Cardinality(I) = Cardinality(I2) + Cardinality(I1 \ D2)
  <2>1. /\ D1 \in SUBSET Nat /\ IsFiniteSet(D1) /\ I1 \in SUBSET Nat /\ IsFiniteSet(I1)
        /\ D2 \in SUBSET Nat /\ IsFiniteSet(D2) /\ I2 \in SUBSET Nat /\ IsFiniteSet(I2)
    BY <1>2, <1>3
  <2>2. Together(D, D1, D2 \ I1) /\ Together(I, I2, I1 \ D2)
    BY <2>1, MergedCount
  <2> QED BY <2>2 DEF Together
<1>8. ASSUME NEW x \in RowNumbers(before), NEW z \in RowNumbers(after), Same(D, I, x, z)
      PROVE  before[x + 1] = after[z + 1]
  <2>1. PICK y : Same(D1, I1, x, y) /\ Same(D2, I2, y, z)
    BY <1>2, <1>3, <1>8, MergedIsBoth
  <2> QED BY <2>1, <1>2, <1>3 DEF Leads
<1> HIDE DEF D, I
<1>9. Len(before) - Cardinality(D) = Len(after) - Cardinality(I)
  <2>1. Len(before) \in Nat /\ Len(between) \in Nat /\ Len(after) \in Nat
    BY OrderParts
  <2>2. /\ Cardinality(D2 \ I1) = Cardinality(D2) - Cardinality(D2 \cap I1)
        /\ Cardinality(I1 \ D2) = Cardinality(I1) - Cardinality(I1 \cap D2)
    BY <1>2, <1>3, FS_Difference
  <2>3. IsFiniteSet(D2 \cap I1) /\ Cardinality(D2 \cap I1) \in Nat
    BY <1>3, FS_Intersection, FS_CardinalityType
  <2>4. Cardinality(I1 \cap D2) = Cardinality(D2 \cap I1)
    <3>1. I1 \cap D2 = D2 \cap I1
      OBVIOUS
    <3> QED BY <3>1
  <2> HIDE DEF s
  <2>5. /\ Cardinality(D1) \in Nat /\ Cardinality(I1) \in Nat
        /\ Cardinality(D2) \in Nat /\ Cardinality(I2) \in Nat
    BY <1>2, <1>3
  <2>6. /\ Cardinality(D) = Cardinality(D1) + (Cardinality(D2) - Cardinality(D2 \cap I1))
        /\ Cardinality(I) = Cardinality(I2) + (Cardinality(I1) - Cardinality(D2 \cap I1))
    BY <1>7, <2>2, <2>4
  <2>7. /\ Len(before) - Cardinality(D1) = Len(between) - Cardinality(I1)
        /\ Len(between) - Cardinality(D2) = Len(after) - Cardinality(I2)
    BY <1>2, <1>3
  <2> DEFINE a == Len(before)
             b == Len(between)
             c == Len(after)
             d1 == Cardinality(D1)
             i1 == Cardinality(I1)
             d2 == Cardinality(D2)
             i2 == Cardinality(I2)
             both == Cardinality(D2 \cap I1)
             d == Cardinality(D)
             i == Cardinality(I)
  <2>8. /\ a \in Nat /\ b \in Nat /\ c \in Nat /\ both \in Nat
        /\ d1 \in Nat /\ i1 \in Nat /\ d2 \in Nat /\ i2 \in Nat
    BY <2>1, <2>3, <2>5
  <2>9. /\ d = d1 + (d2 - both) /\ i = i2 + (i1 - both)
        /\ a - d1 = b - i1 /\ b - d2 = c - i2
    BY <2>6, <2>7
  <2> HIDE DEF a, b, c, d1, i1, d2, i2, both, d, i
  <2>10. a - d = c - i
    BY <2>8, <2>9
  <2> QED BY <2>10 DEF a, c, d, i
<1> QED BY <1>1, <1>5, <1>6, <1>8, <1>9, SameApplies DEF s

\* With nothing to shift by, row numbers stay as they are.
LEMMA ShiftOfNone ==
  ASSUME NEW i \in Nat
  PROVE  Unshift({}, i) = i /\ Shift({}, i) = i
<1>1. IsFiniteSet({}) /\ Cardinality({}) = 0 /\ {} \in SUBSET Nat
  BY FS_EmptySet
<1>2. Unshift({}, i) = i
  <2>1. {j \in {} : j < i} = {}
    OBVIOUS
  <2> QED BY <1>1, <2>1 DEF Unshift, Below
<1>3. Shift({}, Unshift({}, i)) = i
  BY <1>1, ShiftBack
<1> QED BY <1>2, <1>3

\* No change leads from rows to the same rows.
LEMMA NothingApplies ==
  ASSUME NEW order \in Orders
  PROVE  Applies(Nothing, order, order)
<1>1. Nothing.deletions = {} /\ Nothing.insertions = {}
  BY DEF Nothing
<1>2. \A x \in RowNumbers(order), z \in RowNumbers(order) :
        Same({}, {}, x, z) => order[x + 1] = order[z + 1]
  <2> TAKE x \in RowNumbers(order), z \in RowNumbers(order)
  <2>1. x \in Nat /\ z \in Nat
    BY RowParts
  <2>2. Unshift({}, x) = x /\ Unshift({}, z) = z
    BY <2>1, ShiftOfNone
  <2> QED BY <2>2 DEF Same
<1> QED BY <1>1, <1>2, SameApplies

\* The first change set is taken over as it is.
LEMMA MergeIntoNothing ==
  ASSUME NEW new, new.deletions \in SUBSET Nat, new.insertions \in SUBSET Nat
  PROVE  /\ Merge(Nothing, new).deletions = new.deletions
         /\ Merge(Nothing, new).insertions = new.insertions
<1>1. /\ Merge(Nothing, new).deletions = AddShiftedBy({}, {}, new.deletions)
      /\ Merge(Nothing, new).insertions = InsertAt(EraseAt({}, new.deletions), new.insertions)
  BY DEF Merge, Nothing
<1>2. \A i \in new.deletions : Shift({}, Unshift({}, i)) = i
  BY ShiftOfNone
<1>3. AddShiftedBy({}, {}, new.deletions) = new.deletions
  BY <1>2 DEF AddShiftedBy
<1>4. InsertAt(EraseAt({}, new.deletions), new.insertions) = new.insertions
  BY DEF InsertAt, EraseAt
<1> QED BY <1>1, <1>3, <1>4
-----------------------------------------------------------------------------
(* The inductive invariant *)

\* What the variables hold.
Types == base \in Orders /\ rows \in Orders /\ commits \in Nat

\* A row that was not inserted is modified just when its object is of K.
Modifies(s, order, K) ==
  /\ s.modifications \subseteq RowNumbers(order)
  /\ \A i \in RowNumbers(order) \ s.insertions :
       i \in s.modifications <=> order[i + 1] \in K

\* The modifications are the written rows, whichever are inserted as well: what
\* erase_at and shift_for_insert_at keep true in merge.
ModifiesWritten == Modifies(set, rows, touched)

\* Nothing was merged yet.
StartsEmpty == commits = 0 => base = rows /\ set = Nothing

\* The one change set of a commit that moved nothing deletes what is gone and
\* inserts what is new.
OneCommitSet ==
  commits = 1 /\ SameOrder(base, rows, Range(base) \cap Range(rows)) =>
    /\ set.deletions = RowsOf(base, Range(base) \ Range(rows))
    /\ set.insertions = RowsOf(rows, Range(rows) \ Range(base))

IInv == Types /\ SetApplies /\ ModifiesWritten /\ StartsEmpty /\ OneCommitSet

LEMMA InitIInv == Init => IInv
<1> SUFFICES ASSUME Init PROVE IInv
  OBVIOUS
<1>1. /\ rows \in Orders /\ base = rows
      /\ touched = {} /\ commits = 0 /\ set = Nothing
  BY DEF Init
<1>2. Types
  BY <1>1 DEF Types
<1>3. SetApplies
  BY <1>1, NothingApplies DEF SetApplies
<1>4. ModifiesWritten
  BY <1>1 DEF ModifiesWritten, Modifies, Nothing
<1>5. StartsEmpty /\ OneCommitSet
  BY <1>1 DEF StartsEmpty, OneCommitSet
<1> QED BY <1>2, <1>3, <1>4, <1>5 DEF IInv

\* What merge makes of the modifications, when the older ones are the rows of
\* written objects and the newer ones those that stayed and were written.
LEMMA MergeModifies ==
  ASSUME NEW before \in Orders, NEW between \in Orders, NEW after \in Orders,
         NEW old, Applies(old, before, between),
         NEW new, Applies(new, between, after),
         NEW was, NEW written,
         Modifies(old, between, was),
         new.modifications = RowsOf(after, written \cap (Range(between) \cap Range(after)))
  PROVE  Modifies(Merge(old, new), after, was \cup written)
<1> DEFINE I1 == old.insertions
           M1 == old.modifications
           D2 == new.deletions
           I2 == new.insertions
           M2 == new.modifications
           I == InsertAt(EraseAt(I1, D2), I2)
           M == ShiftForInsertAt(EraseAt(M1, D2), I2) \cup M2
<1>1. Merge(old, new).insertions = I /\ Merge(old, new).modifications = M
  BY DEF Merge
<1>2. /\ I1 \in SUBSET Nat
      /\ D2 \in SUBSET Nat /\ IsFiniteSet(D2) /\ I2 \in SUBSET Nat /\ IsFiniteSet(I2)
      /\ Leads(D2, I2, between, after)
  BY AppliesSame
<1>3. M1 \in SUBSET Nat /\ M1 \subseteq RowNumbers(between)
  BY RowParts DEF Modifies
<1>4. \A i : i \in M2 <=> i \in RowNumbers(after)
                            /\ after[i + 1] \in written \cap (Range(between) \cap Range(after))
  BY RowsOfIs
<1>5. \A i \in RowNumbers(between) \ I1 : i \in M1 <=> between[i + 1] \in was
  BY DEF Modifies
<1>6. M = {Shift(I2, Unshift(D2, i)) : i \in M1 \ D2} \cup M2
  BY DEF ShiftForInsertAt, EraseAt
<1> HIDE DEF I1, M1, D2, I2, M2, M
<1>7. \A z : z \in M <=> z \in M2 \/ \E y \in M1 : Same(D2, I2, y, z)
  <2> TAKE z
  <2>1. ASSUME NEW y \in M1 \ D2, z = Shift(I2, Unshift(D2, y))
        PROVE  Same(D2, I2, y, z)
    BY <2>1, <1>2, <1>3, SameAfter
  <2>2. ASSUME NEW y \in M1, Same(D2, I2, y, z)
        PROVE  y \in M1 \ D2 /\ z = Shift(I2, Unshift(D2, y))
    <3>1. y \in Nat \ D2
      BY <2>2 DEF Same
    <3>2. Same(D2, I2, y, Shift(I2, Unshift(D2, y)))
      BY <3>1, <1>2, SameAfter
    <3> QED BY <2>2, <3>1, <3>2, <1>2, SameOnce
  <2> QED BY <1>6, <2>1, <2>2
<1>8. M \subseteq RowNumbers(after)
  BY <1>2, <1>3, <1>4, <1>7 DEF Leads
<1>9. ASSUME NEW z \in RowNumbers(after) \ I
      PROVE  z \in M <=> after[z + 1] \in was \cup written
  <2>1. z \in Nat
    BY RowParts
  <2>2. z \notin I2 /\ ~ \E u \in I1 : Same(D2, I2, u, z)
    BY <1>2, <1>9, InsertedRows
  <2>3. PICK y : Same(D2, I2, y, z)
    BY <1>2, <2>1, <2>2, SameBefore
  <2>4. y \in RowNumbers(between) \ I1 /\ between[y + 1] = after[z + 1]
    <3>1. /\ y \in RowNumbers(between) <=> z \in RowNumbers(after)
          /\ y \in RowNumbers(between) => between[y + 1] = after[z + 1]
      BY <1>2, <2>3 DEF Leads
    <3>2. y \notin I1
      BY <2>2, <2>3
    <3> QED BY <3>1, <3>2
  <2>5. after[z + 1] \in Range(between) \cap Range(after)
    BY <2>4, RangeOfRows
  <2>6. z \in M2 <=> after[z + 1] \in written
    BY <2>5, <1>4
  <2>7. (\E w \in M1 : Same(D2, I2, w, z)) <=> y \in M1
    BY <1>2, <2>3, SameOnce
  <2>8. y \in M1 <=> after[z + 1] \in was
    BY <2>4, <1>5
  <2> QED BY <1>7, <2>6, <2>7, <2>8
<1> QED BY <1>1, <1>8, <1>9 DEF Modifies

\* The rows a comparison takes out and puts back are kept ones, none of them when
\* all kept their order.
LEMMA MovedParts ==
  ASSUME NEW prev \in Orders, NEW next \in Orders, NEW moved \in Movable(prev, next)
  PROVE  /\ moved \subseteq Range(prev) \cap Range(next)
         /\ SameOrder(prev, next, Range(prev) \cap Range(next)) => moved = {}
<1>1. CASE SameOrder(prev, next, Range(prev) \cap Range(next))
  BY <1>1 DEF Movable
<1>2. CASE ~SameOrder(prev, next, Range(prev) \cap Range(next))
  BY <1>2 DEF Movable
<1> QED BY <1>1, <1>2

LEMMA CommitKeepsIInv ==
  IInv /\ AnyCommit => IInv'
<1> SUFFICES ASSUME IInv, AnyCommit PROVE IInv'
  OBVIOUS
<1>1. Types /\ SetApplies /\ ModifiesWritten /\ StartsEmpty /\ OneCommitSet
  BY DEF IInv
<1>2. rows' \in Orders
  BY DEF AnyCommit
<1>3. PICK written \in SUBSET Range(rows'), moved \in Movable(rows, rows') :
        Commit(rows', written, moved)
  BY DEF AnyCommit
<1> DEFINE new == Calculate(rows, rows', written, moved)
<1>4. /\ touched' = touched \cup written /\ commits' = commits + 1
      /\ set' = Merge(set, new) /\ base' = base
  BY <1>3 DEF Commit
<1>5. base \in Orders /\ rows \in Orders /\ commits \in Nat
  BY <1>1 DEF Types
<1>6. Applies(new, rows, rows')
  BY <1>2, <1>5, CalculateApplies
<1>7. Applies(set, base, rows)
  BY <1>1 DEF SetApplies
<1>8. new.modifications = RowsOf(rows', written \cap (Range(rows) \cap Range(rows')))
  BY DEF Calculate
<1>9. /\ new.deletions = RowsOf(rows, (Range(rows) \ (Range(rows) \cap Range(rows'))) \cup moved)
      /\ new.insertions = RowsOf(rows', (Range(rows') \ (Range(rows) \cap Range(rows'))) \cup moved)
  BY DEF Calculate
<1> HIDE DEF new
<1>10. Applies(Merge(set, new), base, rows')
  BY <1>2, <1>5, <1>6, <1>7, MergeApplies
<1>11. Modifies(set, rows, touched)
  BY <1>1 DEF ModifiesWritten
<1>12. Modifies(Merge(set, new), rows', touched \cup written)
  BY <1>2, <1>5, <1>6, <1>7, <1>8, <1>11, MergeModifies
<1>13. Types'
  BY <1>2, <1>4, <1>5 DEF Types
<1>14. SetApplies'
  BY <1>4, <1>10 DEF SetApplies
<1>15. ModifiesWritten'
  BY <1>4, <1>12 DEF ModifiesWritten
<1>16. StartsEmpty'
  BY <1>4, <1>5 DEF StartsEmpty
<1>17. OneCommitSet'
  <2> SUFFICES ASSUME commits' = 1, SameOrder(base, rows', Range(base) \cap Range(rows'))
               PROVE  /\ set'.deletions = RowsOf(base, Range(base) \ Range(rows'))
                      /\ set'.insertions = RowsOf(rows', Range(rows') \ Range(base))
    BY <1>4 DEF OneCommitSet
  <2>1. commits = 0
    BY <1>4, <1>5
  <2>2. base = rows /\ set = Nothing
    BY <2>1, <1>1 DEF StartsEmpty
  <2>3. moved = {}
    BY <2>2, <1>2, <1>5, MovedParts
  <2>4. /\ new.deletions = RowsOf(base, Range(base) \ Range(rows'))
        /\ new.insertions = RowsOf(rows', Range(rows') \ Range(base))
    <3>1. /\ (Range(rows) \ (Range(rows) \cap Range(rows'))) \cup moved = Range(base) \ Range(rows')
          /\ (Range(rows') \ (Range(rows) \cap Range(rows'))) \cup moved = Range(rows') \ Range(base)
      BY <2>2, <2>3
    <3> QED BY <3>1, <1>9, <2>2
  <2>5. new.deletions \in SUBSET Nat /\ new.insertions \in SUBSET Nat
    BY <1>2, <1>5, <1>6, AppliesSame
  <2>6. /\ Merge(Nothing, new).deletions = new.deletions
        /\ Merge(Nothing, new).insertions = new.insertions
    BY <2>5, MergeIntoNothing
  <2> QED BY <2>2, <2>4, <2>6, <1>4
<1> QED BY <1>13, <1>14, <1>15, <1>16, <1>17 DEF IInv

LEMMA DeliverKeepsIInv ==
  IInv /\ Deliver => IInv'
<1> SUFFICES ASSUME IInv, Deliver PROVE IInv'
  OBVIOUS
<1>1. /\ base' = rows /\ rows' = rows
      /\ touched' = {} /\ commits' = 0 /\ set' = Nothing
  BY DEF Deliver
<1>2. rows \in Orders
  BY DEF IInv, Types
<1>3. Types'
  BY <1>1, <1>2 DEF Types
<1>4. SetApplies'
  BY <1>1, <1>2, NothingApplies DEF SetApplies
<1>5. ModifiesWritten'
  BY <1>1 DEF ModifiesWritten, Modifies, Nothing
<1>6. StartsEmpty' /\ OneCommitSet'
  BY <1>1 DEF StartsEmpty, OneCommitSet
<1> QED BY <1>3, <1>4, <1>5, <1>6 DEF IInv

LEMMA StutterKeepsIInv ==
  IInv /\ UNCHANGED vars => IInv'
<1> SUFFICES ASSUME IInv, UNCHANGED vars PROVE IInv'
  OBVIOUS
<1>1. /\ base' = base /\ rows' = rows /\ touched' = touched
      /\ commits' = commits /\ set' = set
  BY DEF vars
<1>2. Types /\ SetApplies /\ ModifiesWritten /\ StartsEmpty /\ OneCommitSet
  BY DEF IInv
<1>3. Types' /\ SetApplies' /\ ModifiesWritten'
  BY <1>1, <1>2 DEF Types, SetApplies, ModifiesWritten
<1>4. StartsEmpty' /\ OneCommitSet'
  BY <1>1, <1>2 DEF StartsEmpty, OneCommitSet
<1> QED BY <1>3, <1>4 DEF IInv

\* The invariant holds however rows are taken for moved.
THEOREM Invariant == AnyMovesSpec => []IInv
<1>1. IInv /\ [AnyCommit \/ Deliver]_vars => IInv'
  BY CommitKeepsIInv, DeliverKeepsIInv, StutterKeepsIInv
<1> QED BY <1>1, InitIInv, PTL DEF AnyMovesSpec

\* Any number of merged change sets, applied as one, leads from the rows whoever
\* takes it has to the rows there are.
THEOREM AlwaysApplies == AnyMovesSpec => []SetApplies
<1>1. IInv => SetApplies
  BY DEF IInv
<1> QED BY <1>1, Invariant, PTL
-----------------------------------------------------------------------------
\* What finalize reports: the rows of the written objects that stayed, where they
\* were and where they are.
LEMMA IInvReloads == IInv => SetReloads
<1> SUFFICES ASSUME IInv PROVE SetReloads
  OBVIOUS
<1> DEFINE D == set.deletions
           I == set.insertions
           M == set.modifications
           moved == {rows[i + 1] : i \in I}
           reloaded == (touched \cap Range(base) \cap Range(rows)) \ moved
           final == Finalize(set)
<1>1. base \in Orders /\ rows \in Orders /\ M \subseteq RowNumbers(rows)
  BY DEF IInv, Types, ModifiesWritten, Modifies
<1>2. Applies(set, base, rows)
  BY DEF IInv, SetApplies
<1>3. \A i \in RowNumbers(rows) \ I : i \in M <=> rows[i + 1] \in touched
  BY DEF IInv, ModifiesWritten, Modifies
<1>4. /\ D \in SUBSET Nat /\ IsFiniteSet(D) /\ I \in SUBSET Nat /\ IsFiniteSet(I)
      /\ Leads(D, I, base, rows)
  BY <1>1, <1>2, AppliesSame
<1>5. I \subseteq RowNumbers(rows)
  BY <1>2 DEF Applies
<1>6. /\ final.modifications = {Shift(D, Unshift(I, i)) : i \in M \ I}
      /\ final.modificationsNew = M \ I
  BY DEF Finalize, ShiftForInsertAt, EraseAt
<1> HIDE DEF D, I, M, final
<1>7. ASSUME NEW z \in RowNumbers(rows) \ I
      PROVE  \E x \in RowNumbers(base) : Same(D, I, x, z) /\ base[x + 1] = rows[z + 1]
  <2>1. z \in Nat \ I
    BY <1>1, RowParts
  <2>2. PICK x : Same(D, I, x, z)
    BY <1>4, <2>1, SameBefore
  <2> QED BY <1>4, <2>2 DEF Leads
<1>8. \A z \in RowNumbers(rows) : rows[z + 1] \in moved <=> z \in I
  <2>1. \A i, z \in RowNumbers(rows) : rows[i + 1] = rows[z + 1] => i = z
    BY <1>1, RowParts
  <2>2. ASSUME NEW z \in RowNumbers(rows), rows[z + 1] \in moved
        PROVE  z \in I
    <3>1. PICK i \in I : rows[z + 1] = rows[i + 1]
      BY <2>2
    <3>2. z = i
      BY <3>1, <2>1, <1>5
    <3> QED BY <3>2
  <2> QED BY <2>2
<1> HIDE DEF moved
<1>9. ASSUME NEW z \in RowNumbers(rows)
      PROVE  z \in M \ I <=> rows[z + 1] \in reloaded
  <2>1. CASE z \in I
    BY <2>1, <1>8
  <2>2. CASE z \notin I
    <3>1. PICK x \in RowNumbers(base) : base[x + 1] = rows[z + 1]
      BY <2>2, <1>7
    <3>2. rows[z + 1] \in Range(base) /\ rows[z + 1] \in Range(rows)
      BY <1>1, <3>1, RangeOfRows
    <3> QED BY <2>2, <3>2, <1>3, <1>8
  <2> QED BY <2>1, <2>2
<1>10. final.modificationsNew = RowsOf(rows, reloaded)
  <2>1. \A z : z \in M \ I <=> z \in RowNumbers(rows) /\ rows[z + 1] \in reloaded
    BY <1>1, <1>9
  <2>2. \A z : z \in RowsOf(rows, reloaded) <=> z \in RowNumbers(rows) /\ rows[z + 1] \in reloaded
    BY <1>1, RowsOfIs
  <2> QED BY <1>6, <2>1, <2>2
<1>11. ASSUME NEW x, NEW z \in M \ I
       PROVE  x = Shift(D, Unshift(I, z)) <=> x \in RowNumbers(base) /\ base[x + 1] = rows[z + 1]
  <2>1. z \in RowNumbers(rows) \ I /\ z \in Nat \ I
    BY <1>1, RowParts
  <2>2. PICK y \in RowNumbers(base) : Same(D, I, y, z) /\ base[y + 1] = rows[z + 1]
    BY <2>1, <1>7
  <2>3. Same(D, I, Shift(D, Unshift(I, z)), z)
    BY <2>1, <1>4, SameBefore
  <2>4. Shift(D, Unshift(I, z)) = y
    BY <2>2, <2>3, <1>4, SameOnce
  <2>5. x \in RowNumbers(base) /\ base[x + 1] = rows[z + 1] => x = y
    BY <1>1, <2>2, RowParts
  <2> QED BY <2>2, <2>4, <2>5
<1>12. final.modifications = RowsOf(base, reloaded)
  <2>1. ASSUME NEW x, x \in final.modifications
        PROVE  x \in RowNumbers(base) /\ base[x + 1] \in reloaded
    <3>1. PICK z \in M \ I : x = Shift(D, Unshift(I, z))
      BY <1>6, <2>1
    <3>2. x \in RowNumbers(base) /\ base[x + 1] = rows[z + 1]
      BY <3>1, <1>11
    <3>3. rows[z + 1] \in reloaded
      BY <1>1, <1>9
    <3> QED BY <3>2, <3>3
  <2>2. ASSUME NEW x, x \in RowNumbers(base), base[x + 1] \in reloaded
        PROVE  x \in final.modifications
    <3>1. PICK z \in RowNumbers(rows) : rows[z + 1] = base[x + 1]
      BY <1>1, <2>2, RangeOfRows
    <3>2. z \in M \ I
      BY <1>9, <2>2, <3>1
    <3>3. x = Shift(D, Unshift(I, z))
      BY <1>11, <2>2, <3>1, <3>2
    <3> QED BY <1>6, <3>2, <3>3
  <2>3. \A x : x \in RowsOf(base, reloaded) <=> x \in RowNumbers(base) /\ base[x + 1] \in reloaded
    BY <1>1, RowsOfIs
  <2> QED BY <2>1, <2>2, <2>3
<1> QED BY <1>10, <1>12 DEF SetReloads, final, moved, I

\* Whatever was merged, the objects that stayed and were written are reported
\* modified, at their old and at their new rows, and no others.
THEOREM AlwaysReloads == AnyMovesSpec => []SetReloads
BY IInvReloads, Invariant, PTL
-----------------------------------------------------------------------------
(* Rows in the order of their keys *)

\* In such an order an object's row is its position, as module RealmChanges
\* counts it.
LEMMA RowIsPosition ==
  ASSUME NEW order \in Orders, Ascends(order), NEW i \in RowNumbers(order)
  PROVE  Position([k \in Key |-> k], order[i + 1], Range(order)) = i
<1> DEFINE Key1 == [k \in Key |-> k]
           Lower == {g \in Range(order) : Key1[g] < Key1[order[i + 1]]}
           f == [j \in 1 .. i |-> order[j]]
<1>1. /\ i \in Nat /\ i + 1 \in DOMAIN order /\ DOMAIN order = 1 .. Len(order)
      /\ Len(order) \in Nat /\ i < Len(order)
      /\ \A j \in DOMAIN order : order[j] \in Key
      /\ \A j, l \in DOMAIN order : order[j] = order[l] => j = l
  BY OrderParts, RowParts
<1>2. \A j : j \in 1 .. i <=> j \in DOMAIN order /\ j < i + 1
  BY <1>1
<1>3. \A j \in DOMAIN order : Key1[order[j]] = order[j] /\ order[j] \in Nat
  BY <1>1, KeyAssumption
<1>4. \A j \in DOMAIN order : order[j] < order[i + 1] <=> j < i + 1
  <2> TAKE j \in DOMAIN order
  <2>1. j < i + 1 => order[j] < order[i + 1]
    BY <1>1 DEF Ascends
  <2>2. i + 1 < j => order[i + 1] < order[j]
    BY <1>1 DEF Ascends
  <2>3. j \in Nat /\ i + 1 \in Nat /\ order[j] \in Nat /\ order[i + 1] \in Nat
    <3>1. j \in Nat /\ i + 1 \in Nat
      BY <1>1
    <3>2. order[j] \in Nat /\ order[i + 1] \in Nat
      BY <1>1, <1>3
    <3> QED BY <3>1, <3>2
  <2>4. j < i + 1 \/ i + 1 < j \/ j = i + 1
    BY <2>3
  <2>5. j = i + 1 => order[j] = order[i + 1]
    OBVIOUS
  <2> QED BY <2>1, <2>2, <2>3, <2>4, <2>5
<1>5. Lower = {f[j] : j \in 1 .. i}
  <2>1. \A j \in 1 .. i : f[j] = order[j]
    OBVIOUS
  <2>2. \A g : g \in Range(order) <=> \E j \in DOMAIN order : order[j] = g
    BY DEF Range
  <2> HIDE DEF f, Key1
  <2>3. ASSUME NEW g \in Lower
        PROVE  \E j \in 1 .. i : f[j] = g
    <3>1. PICK j \in DOMAIN order : order[j] = g
      BY <2>2
    <3>2. order[j] < order[i + 1]
      BY <3>1, <1>1, <1>3
    <3> QED BY <3>1, <3>2, <1>2, <1>4, <2>1
  <2>4. ASSUME NEW j \in 1 .. i
        PROVE  f[j] \in Lower
    <3>1. j \in DOMAIN order /\ f[j] = order[j] /\ order[j] < order[i + 1]
      BY <1>2, <1>4, <2>1
    <3>2. Key1[order[j]] < Key1[order[i + 1]] /\ order[j] \in Range(order)
      BY <3>1, <1>1, <1>3, <2>2
    <3> QED BY <3>1, <3>2
  <2> QED BY <2>3, <2>4
<1>6. \A j, l \in 1 .. i : f[j] = f[l] => j = l
  <2> TAKE j, l \in 1 .. i
  <2>1. j \in DOMAIN order /\ l \in DOMAIN order /\ f[j] = order[j] /\ f[l] = order[l]
    BY <1>2
  <2> QED BY <2>1, <1>1
<1>7. DOMAIN f = 1 .. i /\ f = [j \in 1 .. i |-> f[j]]
  OBVIOUS
<1>8. IsFiniteSet(1 .. i) /\ Cardinality(1 .. i) = i
  <2>1. 1 \in Int /\ i \in Int /\ (IF 1 > i THEN 0 ELSE i - 1 + 1) = i
    BY <1>1
  <2> QED BY <2>1, FS_Interval
<1>9. Cardinality({f[j] : j \in 1 .. i}) = Cardinality(1 .. i)
  <2> DEFINE S == 1 .. i
  <2>1. /\ DOMAIN f = S /\ f = [j \in S |-> f[j]] /\ IsFiniteSet(S)
        /\ \A j, l \in S : f[j] = f[l] => j = l
    BY <1>6, <1>7, <1>8
  <2> HIDE DEF f, S
  <2>2. Cardinality({f[j] : j \in S}) = Cardinality(S)
    BY <2>1, ImageCount
  <2> QED BY <2>2 DEF S
<1>10. Position(Key1, order[i + 1], Range(order)) = Cardinality(Lower)
  BY DEF Position
<1> QED BY <1>5, <1>8, <1>9, <1>10

\* The rows of some of the objects are their positions.
LEMMA RowsArePositions ==
  ASSUME NEW order \in Orders, Ascends(order), NEW K \in SUBSET Range(order)
  PROVE  Positions([k \in Key |-> k], K, Range(order)) = RowsOf(order, K)
<1> DEFINE P(k) == Position([l \in Key |-> l], k, Range(order))
<1>1. \A i \in RowNumbers(order) : P(order[i + 1]) = i
  BY RowIsPosition
<1>2. Positions([k \in Key |-> k], K, Range(order)) = {P(k) : k \in K}
  BY DEF Positions
<1> HIDE DEF P
<1>3. ASSUME NEW k \in K
      PROVE  P(k) \in RowsOf(order, K)
  <2>1. PICK i \in RowNumbers(order) : order[i + 1] = k
    BY RangeOfRows
  <2> QED BY <2>1, <1>1, RowsOfIs
<1>4. ASSUME NEW i \in RowsOf(order, K)
      PROVE  \E k \in K : P(k) = i
  <2>1. i \in RowNumbers(order) /\ order[i + 1] \in K
    BY RowsOfIs
  <2> QED BY <2>1, <1>1
<1> QED BY <1>2, <1>3, <1>4

\* Both in the order of their keys, before and after have what they share in one
\* order.
LEMMA AscendingIsSame ==
  ASSUME NEW prev \in Orders, Ascends(prev), NEW next \in Orders, Ascends(next), NEW K
  PROVE  SameOrder(prev, next, K)
<1> SUFFICES ASSUME NEW i \in DOMAIN prev, NEW j \in DOMAIN prev, i < j,
                    NEW k \in DOMAIN next, NEW l \in DOMAIN next,
                    next[k] = prev[i], next[l] = prev[j]
             PROVE  k < l
  BY DEF SameOrder
<1>1. prev[i] < prev[j]
  BY DEF Ascends
<1>2. l < k => next[l] < next[k]
  BY DEF Ascends
<1>3. l = k => next[l] = next[k]
  OBVIOUS
<1>4. /\ prev[i] \in Nat /\ prev[j] \in Nat /\ k \in Nat /\ l \in Nat
  <2>1. DOMAIN next = 1 .. Len(next) /\ Len(next) \in Nat
    BY OrderParts
  <2>2. k \in Nat /\ l \in Nat
    BY <2>1
  <2>3. prev[i] \in Key /\ prev[j] \in Key
    BY OrderParts
  <2> QED BY <2>2, <2>3, KeyAssumption
<1> QED BY <1>1, <1>2, <1>3, <1>4

LEMMA IInvReports == IInv => ReportsChanges
<1> SUFFICES ASSUME IInv, commits = 1, Ascends(base), Ascends(rows)
             PROVE  LET final == Finalize(set)
                        changes == Changes([k \in Key |-> k], Range(base), Range(rows), touched)
                    IN /\ final.deletions = changes.deletions
                       /\ final.insertions = changes.insertions
                       /\ final.modifications = changes.reloads
  BY DEF ReportsChanges
<1> DEFINE final == Finalize(set)
           gone == Range(base) \ Range(rows)
           come == Range(rows) \ Range(base)
           written == touched \cap Range(base) \cap Range(rows)
           moved == {rows[i + 1] : i \in set.insertions}
<1>1. base \in Orders /\ rows \in Orders
  BY DEF IInv, Types
<1>2. SameOrder(base, rows, Range(base) \cap Range(rows))
  BY <1>1, AscendingIsSame
<1>3. set.deletions = RowsOf(base, gone) /\ set.insertions = RowsOf(rows, come)
  BY <1>2 DEF IInv, OneCommitSet
<1>4. final.deletions = RowsOf(base, gone) /\ final.insertions = RowsOf(rows, come)
  BY <1>3 DEF Finalize
<1>5. final.modifications = RowsOf(base, written)
  <2>1. final.modifications = RowsOf(base, written \ moved)
    BY IInvReloads DEF SetReloads
  <2>2. \A i \in set.insertions : rows[i + 1] \in come
    BY <1>1, <1>3, RowsOfIs
  <2>3. written \ moved = written
    BY <2>2
  <2> QED BY <2>1, <2>3
<1>6. /\ Positions([k \in Key |-> k], gone, Range(base)) = RowsOf(base, gone)
      /\ Positions([k \in Key |-> k], written, Range(base)) = RowsOf(base, written)
      /\ Positions([k \in Key |-> k], come, Range(rows)) = RowsOf(rows, come)
  <2>1. gone \in SUBSET Range(base) /\ written \in SUBSET Range(base) /\ come \in SUBSET Range(rows)
    OBVIOUS
  <2> HIDE DEF gone, written, come
  <2> QED BY <1>1, <2>1, RowsArePositions
<1> QED BY <1>4, <1>5, <1>6 DEF Changes

\* For rows in the order of their keys, one commit's change set is the
\* notification the friends screen relies on.
THEOREM AlwaysReports == AnyMovesSpec => []ReportsChanges
BY IInvReports, Invariant, PTL
-----------------------------------------------------------------------------
(* find_longest_match *)

\* What is known before its first row.
NoRows(block) ==
  [j |-> 0, len |-> 0,
   best |-> [i |-> block.begin1, j |-> block.begin2, size |-> 0, modified |-> 0]]

\* What is known after each row up to row n.
AfterRows(a, b, block, modified, after, n) ==
  after = [i \in block.begin1 - 1 .. n |->
             IF i < block.begin1 THEN NoRows(block)
             ELSE LongerMatch(a, b, block, modified, after[i - 1], i)]

LEMMA BlockParts ==
  ASSUME NEW a, NEW b, Len(a) \in Nat, Len(b) \in Nat, NEW block \in Blocks(a, b)
  PROVE  /\ block.begin1 \in Nat /\ block.end1 \in Nat /\ block.begin2 \in Nat /\ block.end2 \in Nat
         /\ 1 <= block.begin1 /\ block.begin1 <= block.end1 /\ block.end1 <= Len(a) + 1
         /\ 1 <= block.begin2 /\ block.begin2 <= block.end2 /\ block.end2 <= Len(b) + 1
BY DEF Blocks

\* The rows are searched one after the other.
LEMMA RowsAreSearched ==
  ASSUME NEW a, NEW b, Len(a) \in Nat, Len(b) \in Nat, NEW block \in Blocks(a, b), NEW modified
  PROVE  \E after : /\ AfterRows(a, b, block, modified, after, block.end1 - 1)
                    /\ FindLongestMatch(a, b, block, modified) = after[block.end1 - 1].best
<1> DEFINE first == block.begin1
           Row(acc, i) == LongerMatch(a, b, block, modified, acc, i)
           Is(f, n) == f = [i \in first - 1 .. n |->
                              IF i < first THEN NoRows(block) ELSE Row(f[i - 1], i)]
           Bad == {n \in Nat : first - 1 <= n /\ ~ \E f : Is(f, n)}
<1>1. first \in Nat /\ 1 <= first /\ block.end1 \in Nat /\ first <= block.end1
  BY BlockParts
<1> HIDE DEF first, Row
<1>2. ASSUME Bad # {}
      PROVE  FALSE
  <2>1. PICK n \in Bad : \A m \in Bad : n <= m
    BY <1>2, LeastRow
  <2>2. n \in Nat /\ first - 1 <= n /\ ~ \E f : Is(f, n)
    BY <2>1
  <2>3. CASE n = first - 1
    <3> DEFINE g == [i \in first - 1 .. n |-> NoRows(block)]
    <3>1. \A i \in first - 1 .. n : i < first
      BY <1>1, <2>3
    <3>2. Is(g, n)
      BY <3>1
    <3> QED BY <3>2, <2>2
  <2>4. CASE first <= n
    <3>1. n - 1 \in Nat /\ first - 1 <= n - 1 /\ ~(n <= n - 1)
      BY <2>2, <2>4, <1>1
    <3>2. PICK f : Is(f, n - 1)
      BY <3>1, <2>1
    <3> DEFINE g == [i \in first - 1 .. n |-> IF i = n THEN Row(f[n - 1], n) ELSE f[i]]
    <3>3. ASSUME NEW i \in first - 1 .. n
          PROVE  g[i] = IF i < first THEN NoRows(block) ELSE Row(g[i - 1], i)
      <4>1. CASE i = n
        <5>1. n - 1 \in first - 1 .. n /\ n - 1 # n /\ ~(n < first)
          BY <3>1, <2>2, <2>4, <1>1
        <5>2. g[n - 1] = f[n - 1]
          BY <5>1
        <5> QED BY <4>1, <5>1, <5>2
      <4>2. CASE i # n
        <5>1. i \in first - 1 .. n - 1
          BY <4>2, <2>2, <1>1
        <5>2. g[i] = f[i] /\ f[i] = IF i < first THEN NoRows(block) ELSE Row(f[i - 1], i)
          BY <3>2, <4>2, <5>1
        <5>3. ~(i < first) => i - 1 \in first - 1 .. n /\ i - 1 # n
          BY <5>1, <2>2, <1>1
        <5> QED BY <5>2, <5>3
      <4> QED BY <4>1, <4>2
    <3>4. Is(g, n)
      BY <3>3
    <3> QED BY <3>4, <2>2
  <2>5. n = first - 1 \/ first <= n
    BY <2>2, <1>1
  <2> QED BY <2>3, <2>4, <2>5
<1>3. block.end1 - 1 \in Nat /\ first - 1 <= block.end1 - 1
  BY <1>1
<1>4. \E f : Is(f, block.end1 - 1)
  BY <1>2, <1>3
<1> DEFINE after == CHOOSE f : Is(f, block.end1 - 1)
<1>5. Is(after, block.end1 - 1)
  BY <1>4
<1>6. AfterRows(a, b, block, modified, after, block.end1 - 1)
  BY <1>5 DEF AfterRows, first, Row
<1>7. FindLongestMatch(a, b, block, modified) = after[block.end1 - 1].best
  BY DEF FindLongestMatch, first, Row, NoRows
<1> QED BY <1>6, <1>7

\* The size rows of a from i are those of b from j.
Common(a, b, i, j, size) == \A k \in 0 .. size - 1 : a[i + k] = b[j + k]

\* A match is a common run inside the rows searched, of a up to row last.
MatchIn(a, b, block, m, last) ==
  /\ m.i \in Nat /\ m.j \in Nat /\ m.size \in Nat
  /\ block.begin1 <= m.i /\ m.i + m.size <= last + 1
  /\ block.begin2 <= m.j /\ m.j + m.size <= block.end2
  /\ Common(a, b, m.i, m.j, m.size)

\* What is known after row i: the best match so far, and the run that ends there.
KnownAfter(a, b, block, acc, i) ==
  /\ acc.j \in Nat /\ acc.len \in Nat
  /\ acc.len > 0 => /\ acc.len <= acc.j
                    /\ MatchIn(a, b, block, [i |-> i - acc.len + 1, j |-> acc.j - acc.len + 1, size |-> acc.len], i)
  /\ MatchIn(a, b, block, acc.best, i)

\* The run that ends in a row is one row longer if the row before ended one next
\* to it.
LEMMA RunGrows ==
  ASSUME NEW a, NEW b, NEW i \in Nat, NEW j \in Nat, NEW size \in Nat,
         size < i, size < j, a[i] = b[j], Common(a, b, i - size, j - size, size)
  PROVE  Common(a, b, i - size, j - size, size + 1)
<1> SUFFICES ASSUME NEW k \in 0 .. (size + 1) - 1
             PROVE  a[(i - size) + k] = b[(j - size) + k]
  BY DEF Common
<1>1. CASE k = size
  <2>1. (i - size) + k = i /\ (j - size) + k = j
    BY <1>1
  <2> QED BY <2>1
<1>2. CASE k # size
  <2>1. k \in 0 .. size - 1
    BY <1>2
  <2> QED BY <2>1 DEF Common
<1> QED BY <1>1, <1>2

\* One row keeps what is known.
LEMMA RowKeepsKnown ==
  ASSUME NEW a, NEW b, Len(a) \in Nat, Len(b) \in Nat, NEW block \in Blocks(a, b), NEW modified,
         DOMAIN b = 1 .. Len(b),
         NEW i \in block.begin1 .. block.end1 - 1, \E k \in DOMAIN b : b[k] = a[i],
         NEW acc, KnownAfter(a, b, block, acc, i - 1)
  PROVE  KnownAfter(a, b, block, LongerMatch(a, b, block, modified, acc, i), i)
<1> DEFINE j == CHOOSE k \in DOMAIN b : b[k] = a[i]
           size == IF acc.j + 1 = j /\ acc.len > 0 THEN acc.len + 1 ELSE 1
           best == acc.best
           bestModified == IF best.modified = -1 THEN ModifiedOfBest(modified, best) ELSE best.modified
           count == CountIn(modified, j - size, j)
           Ending(n) == [i |-> i - size + 1, j |-> j - size + 1, size |-> size, modified |-> n]
           next == LongerMatch(a, b, block, modified, acc, i)
<1>1. /\ block.begin1 \in Nat /\ block.begin2 \in Nat /\ block.end2 \in Nat /\ i \in Nat
      /\ 1 <= block.begin1 /\ block.begin1 <= i /\ 1 <= block.begin2
  BY BlockParts
<1>2. j \in Nat /\ b[j] = a[i]
  <2>1. j \in DOMAIN b /\ b[j] = a[i]
    OBVIOUS
  <2> HIDE DEF j
  <2> QED BY <2>1
<1> HIDE DEF j
<1>3. next = IF j < block.begin2 \/ j >= block.end2 THEN [j |-> 0, len |-> 0, best |-> best]
             ELSE [j |-> j, len |-> size,
                   best |-> IF size > best.size THEN Ending(-1)
                            ELSE IF size < best.size THEN best
                            ELSE IF count < bestModified THEN Ending(count)
                            ELSE [i |-> best.i, j |-> best.j, size |-> size, modified |-> bestModified]]
  BY DEF LongerMatch, j
<1> HIDE DEF bestModified, count
<1>4. CASE j < block.begin2 \/ j >= block.end2
  <2>1. next = [j |-> 0, len |-> 0, best |-> best]
    BY <1>3, <1>4
  <2>2. next.j = 0 /\ next.len = 0 /\ next.best = best
    BY <2>1
  <2>3. MatchIn(a, b, block, best, i - 1) /\ i - 1 + 1 = i /\ i < i + 1
    BY <1>1 DEF KnownAfter
  <2>4. MatchIn(a, b, block, best, i)
    <3>1. best.i \in Nat /\ best.size \in Nat /\ best.i + best.size <= i
      BY <2>3 DEF MatchIn
    <3>2. best.i + best.size <= i + 1
      BY <1>1, <3>1
    <3> QED BY <2>3, <3>2 DEF MatchIn
  <2> QED BY <2>2, <2>4 DEF KnownAfter
<1>5. /\ MatchIn(a, b, block, best, i)
      /\ best.i \in Nat /\ best.j \in Nat /\ best.size \in Nat
  <2>1. MatchIn(a, b, block, best, i - 1) /\ i - 1 + 1 = i
    BY <1>1 DEF KnownAfter
  <2>2. best.i \in Nat /\ best.size \in Nat /\ best.i + best.size <= i
    BY <2>1 DEF MatchIn
  <2>3. best.i + best.size <= i + 1
    BY <1>1, <2>2
  <2> QED BY <2>1, <2>3 DEF MatchIn
<1>6. CASE ~(j < block.begin2 \/ j >= block.end2)
  <2>1. block.begin2 <= j /\ j < block.end2
    BY <1>1, <1>2, <1>6
  <2>2. /\ size \in Nat /\ 1 <= size /\ size <= j
        /\ block.begin1 <= i - size + 1 /\ block.begin2 <= j - size + 1
        /\ Common(a, b, i - size + 1, j - size + 1, size)
    <3>1. CASE acc.j + 1 = j /\ acc.len > 0
      <4>1. /\ acc.j \in Nat /\ acc.len \in Nat /\ acc.len <= acc.j
            /\ MatchIn(a, b, block, [i |-> (i - 1) - acc.len + 1, j |-> acc.j - acc.len + 1, size |-> acc.len], i - 1)
        BY <3>1 DEF KnownAfter
      <4>2. /\ (i - 1) - acc.len + 1 = i - acc.len /\ acc.j - acc.len + 1 = j - acc.len
        <5>1. i \in Nat /\ acc.len \in Nat
          BY <1>1, <4>1
        <5>2. j \in Nat /\ acc.j \in Nat /\ acc.j + 1 = j
          BY <1>2, <3>1, <4>1
        <5>3. (i - 1) - acc.len + 1 = i - acc.len
          BY <5>1
        <5>4. acc.j - acc.len + 1 = j - acc.len
          BY <5>1, <5>2
        <5> QED BY <5>3, <5>4
      <4>3. /\ block.begin1 <= i - acc.len /\ block.begin2 <= j - acc.len
            /\ Common(a, b, i - acc.len, j - acc.len, acc.len)
        BY <4>1, <4>2 DEF MatchIn
      <4>4. acc.len < i /\ acc.len < j
        <5>1. acc.j \in Nat /\ acc.len \in Nat /\ acc.len <= acc.j /\ acc.j + 1 = j
          BY <3>1, <4>1
        <5>2. acc.len \in Nat /\ block.begin1 <= i - acc.len
          BY <4>1, <4>3
        <5>3. acc.len < i
          BY <5>2, <1>1
        <5>4. acc.len < j
          BY <5>1, <1>2
        <5> QED BY <5>3, <5>4
      <4>5. Common(a, b, i - acc.len, j - acc.len, acc.len + 1)
        BY <4>1, <4>3, <4>4, <1>1, <1>2, RunGrows
      <4>6. size = acc.len + 1
        BY <3>1
      <4> HIDE DEF size
      <4>7. acc.len \in Nat /\ i \in Nat /\ j \in Nat
        BY <4>1, <1>1, <1>2
      <4>8. i - size + 1 = i - acc.len /\ j - size + 1 = j - acc.len
        <5>1. i - (acc.len + 1) + 1 = i - acc.len
          BY <4>7
        <5>2. j - (acc.len + 1) + 1 = j - acc.len
          BY <4>7
        <5> QED BY <5>1, <5>2, <4>6
      <4>9. size \in Nat /\ 1 <= size /\ size <= j
        BY <4>4, <4>6, <4>7
      <4> QED BY <4>3, <4>5, <4>6, <4>8, <4>9
    <3>2. CASE ~(acc.j + 1 = j /\ acc.len > 0)
      <4>1. size = 1
        BY <3>2
      <4> HIDE DEF size
      <4>2. i - size + 1 = i /\ j - size + 1 = j /\ 1 <= j
        BY <4>1, <1>1, <1>2, <2>1
      <4>3. Common(a, b, i, j, 1)
        <5>1. \A k \in 0 .. 1 - 1 : i + k = i /\ j + k = j
          BY <1>1, <1>2
        <5> QED BY <5>1, <1>2 DEF Common
      <4> QED BY <4>1, <4>2, <4>3, <1>1, <2>1
    <3> QED BY <3>1, <3>2
  <2> HIDE DEF size, best
  <2>3. \A n : MatchIn(a, b, block, Ending(n), i)
    <3>1. /\ i - size + 1 \in Nat /\ j - size + 1 \in Nat
          /\ (i - size + 1) + size <= i + 1 /\ (j - size + 1) + size <= block.end2
      BY <1>1, <1>2, <2>1, <2>2
    <3> QED BY <2>2, <3>1 DEF MatchIn
  <2>4. next = [j |-> j, len |-> size,
                best |-> IF size > best.size THEN Ending(-1)
                         ELSE IF size < best.size THEN best
                         ELSE IF count < bestModified THEN Ending(count)
                         ELSE [i |-> best.i, j |-> best.j, size |-> size, modified |-> bestModified]]
    BY <1>3, <1>6
  <2>5. next.j = j /\ next.len = size
    BY <2>4
  <2>6. MatchIn(a, b, block, next.best, i)
    <3>1. CASE size > best.size
      <4>1. next.best = Ending(-1)
        BY <2>4, <3>1
      <4> QED BY <2>3, <4>1
    <3>2. CASE size < best.size
      <4>1. next.best = best
        BY <2>4, <3>2, <2>2, <1>5
      <4> QED BY <4>1, <1>5
    <3>3. CASE size = best.size
      <4>1. ~(size > best.size) /\ ~(size < best.size)
        BY <3>3, <2>2
      <4>2. \/ next.best = Ending(count)
            \/ next.best = [i |-> best.i, j |-> best.j, size |-> size, modified |-> bestModified]
        BY <2>4, <4>1
      <4>3. MatchIn(a, b, block, [i |-> best.i, j |-> best.j, size |-> size, modified |-> bestModified], i)
        BY <1>5, <3>3 DEF MatchIn
      <4> QED BY <4>2, <4>3, <2>3
    <3> QED BY <3>1, <3>2, <3>3, <2>2, <1>5
  <2>7. MatchIn(a, b, block, [i |-> i - size + 1, j |-> j - size + 1, size |-> size], i)
    BY <2>3 DEF MatchIn
  <2> QED BY <2>2, <2>5, <2>6, <2>7, <1>2 DEF KnownAfter
<1> QED BY <1>4, <1>6

\* What is compared: two sequences of which the second holds what the first does.
Comparable(a, b) ==
  /\ Len(a) \in Nat /\ DOMAIN a = 1 .. Len(a)
  /\ Len(b) \in Nat /\ DOMAIN b = 1 .. Len(b)
  /\ \A i \in DOMAIN a : \E k \in DOMAIN b : b[k] = a[i]

\* find_longest_match finds a run common to both, inside what it searched: what
\* its assertions say.
THEOREM MatchIsInBlock ==
  ASSUME NEW a, NEW b, Comparable(a, b), NEW block \in Blocks(a, b), NEW modified
  PROVE  LET m == FindLongestMatch(a, b, block, modified)
         IN /\ MatchIn(a, b, block, m, block.end1 - 1)
            /\ m.i + m.size <= block.end1
<1> DEFINE first == block.begin1
           last == block.end1 - 1
           m == FindLongestMatch(a, b, block, modified)
<1>1. /\ first \in Nat /\ 1 <= first /\ block.end1 \in Nat /\ first <= block.end1
      /\ block.begin2 \in Nat /\ block.end2 \in Nat /\ block.begin2 <= block.end2
      /\ block.end1 <= Len(a) + 1
      /\ Len(a) \in Nat /\ Len(b) \in Nat /\ DOMAIN a = 1 .. Len(a) /\ DOMAIN b = 1 .. Len(b)
  BY BlockParts DEF Comparable
<1>2. PICK after : /\ AfterRows(a, b, block, modified, after, last)
                   /\ m = after[last].best
  BY <1>1, RowsAreSearched
<1>3. ASSUME NEW i \in first - 1 .. last
      PROVE  after[i] = IF i < first THEN NoRows(block)
                        ELSE LongerMatch(a, b, block, modified, after[i - 1], i)
  BY <1>2, <1>3 DEF AfterRows
<1> DEFINE Bad == {i \in Nat : i \in first - 1 .. last /\ ~KnownAfter(a, b, block, after[i], i)}
<1>4. ASSUME Bad # {}
      PROVE  FALSE
  <2>1. PICK i \in Bad : \A k \in Bad : i <= k
    BY <1>4, LeastRow
  <2>2. i \in first - 1 .. last /\ i \in Nat /\ ~KnownAfter(a, b, block, after[i], i)
    BY <2>1
  <2>3. CASE i < first
    <3>1. after[i] = NoRows(block)
      BY <1>3, <2>2, <2>3
    <3>2. i = first - 1 /\ first + 0 <= i + 1 /\ block.begin2 + 0 <= block.end2
      BY <1>1, <2>2, <2>3
    <3>3. Common(a, b, first, block.begin2, 0)
      <4>1. \A k \in 0 .. 0 - 1 : FALSE
        OBVIOUS
      <4> QED BY <4>1 DEF Common
    <3>4. MatchIn(a, b, block, NoRows(block).best, i)
      BY <1>1, <3>2, <3>3 DEF MatchIn, NoRows
    <3>5. NoRows(block).j = 0 /\ NoRows(block).len = 0
      BY DEF NoRows
    <3>6. KnownAfter(a, b, block, NoRows(block), i)
      BY <3>4, <3>5 DEF KnownAfter
    <3> QED BY <3>1, <3>6, <2>2
  <2>4. CASE ~(i < first)
    <3>1. i - 1 \in Nat /\ i - 1 \in first - 1 .. last /\ ~(i <= i - 1) /\ i \in first .. last
      BY <1>1, <2>2, <2>4
    <3>2. KnownAfter(a, b, block, after[i - 1], i - 1)
      BY <2>1, <3>1
    <3>3. i \in DOMAIN a
      BY <1>1, <3>1
    <3>4. \E k \in DOMAIN b : b[k] = a[i]
      BY <3>3 DEF Comparable
    <3>5. KnownAfter(a, b, block, LongerMatch(a, b, block, modified, after[i - 1], i), i)
      BY <1>1, <3>1, <3>2, <3>4, RowKeepsKnown
    <3> QED BY <1>3, <2>2, <2>4, <3>5
  <2> QED BY <2>3, <2>4
<1>5. last \in Nat /\ last \in first - 1 .. last
  BY <1>1
<1>6. KnownAfter(a, b, block, after[last], last)
  BY <1>4, <1>5
<1>7. MatchIn(a, b, block, m, last)
  BY <1>2, <1>6 DEF KnownAfter
<1>8. m.i + m.size <= block.end1
  <2>1. m.i \in Nat /\ m.size \in Nat /\ m.i + m.size <= last + 1
    BY <1>7 DEF MatchIn
  <2> QED BY <2>1, <1>1
<1> QED BY <1>7, <1>8

\* A run of size rows, common to both and inside what is searched, that ends in
\* row i of a and row q of b.
RunEnds(a, b, block, i, q, size) ==
  /\ block.begin1 <= i - size + 1 /\ block.begin2 <= q - size + 1 /\ q < block.end2
  /\ Common(a, b, i - size + 1, q - size + 1, size)

\* The run known after row i is the longest that ends there, and the best match no
\* shorter than any so far.
LongestAfter(a, b, block, acc, i) ==
  /\ acc.len \in Nat /\ acc.best.size \in Nat
  /\ \A q \in Nat, size \in Nat \ {0} :
       RunEnds(a, b, block, i, q, size) => acc.j = q /\ size <= acc.len
  /\ \A p \in block.begin1 .. i, q \in Nat, size \in Nat \ {0} :
       RunEnds(a, b, block, p, q, size) => size <= acc.best.size

\* One row keeps it so.
LEMMA RowKeepsLongest ==
  ASSUME NEW a, NEW b, Len(a) \in Nat, Len(b) \in Nat, NEW block \in Blocks(a, b), NEW modified,
         DOMAIN b = 1 .. Len(b), \A k, l \in DOMAIN b : b[k] = b[l] => k = l,
         NEW i \in block.begin1 .. block.end1 - 1, \E k \in DOMAIN b : b[k] = a[i],
         NEW acc, LongestAfter(a, b, block, acc, i - 1)
  PROVE  LongestAfter(a, b, block, LongerMatch(a, b, block, modified, acc, i), i)
<1> DEFINE j == CHOOSE k \in DOMAIN b : b[k] = a[i]
           size == IF acc.j + 1 = j /\ acc.len > 0 THEN acc.len + 1 ELSE 1
           best == acc.best
           bestModified == IF best.modified = -1 THEN ModifiedOfBest(modified, best) ELSE best.modified
           count == CountIn(modified, j - size, j)
           Ending(n) == [i |-> i - size + 1, j |-> j - size + 1, size |-> size, modified |-> n]
           next == LongerMatch(a, b, block, modified, acc, i)
           Outside == j < block.begin2 \/ j >= block.end2
<1>1. /\ block.begin1 \in Nat /\ block.begin2 \in Nat /\ block.end2 \in Nat /\ i \in Nat
      /\ 1 <= block.begin1 /\ block.begin1 <= i /\ 1 <= block.begin2 /\ block.end2 <= Len(b) + 1
  BY BlockParts
<1>2. j \in DOMAIN b /\ b[j] = a[i]
  OBVIOUS
<1> HIDE DEF j
<1>3. next = IF Outside THEN [j |-> 0, len |-> 0, best |-> best]
             ELSE [j |-> j, len |-> size,
                   best |-> IF size > best.size THEN Ending(-1)
                            ELSE IF size < best.size THEN best
                            ELSE IF count < bestModified THEN Ending(count)
                            ELSE [i |-> best.i, j |-> best.j, size |-> size, modified |-> bestModified]]
  BY DEF LongerMatch, j
<1>4. acc.len \in Nat /\ best.size \in Nat /\ j \in Nat
  BY <1>2 DEF LongestAfter
<1>5. size \in Nat /\ 1 <= size
  BY <1>4
<1>6. /\ next.best.size \in Nat /\ best.size <= next.best.size /\ next.len \in Nat
      /\ ~Outside => next.j = j /\ next.len = size /\ size <= next.best.size
  <2> HIDE DEF size, best, bestModified, count
  <2>1. CASE Outside
    <3>1. next.best = best /\ next.len = 0
      BY <1>3, <2>1
    <3> QED BY <1>4, <2>1, <3>1
  <2>2. CASE ~Outside
    <3> HIDE DEF next, Outside
    <3>1. /\ next.j = j /\ next.len = size
          /\ next.best = IF size > best.size THEN Ending(-1)
                         ELSE IF size < best.size THEN best
                         ELSE IF count < bestModified THEN Ending(count)
                         ELSE [i |-> best.i, j |-> best.j, size |-> size, modified |-> bestModified]
      BY <1>3, <2>2
    <3>2. \/ next.best.size = size /\ best.size <= size
          \/ next.best.size = best.size /\ size < best.size
      BY <1>4, <1>5, <3>1
    <3>3. size \in Nat /\ best.size \in Nat
      BY <1>4, <1>5
    <3>4. next.best.size \in Nat /\ best.size <= next.best.size /\ size <= next.best.size
      BY <3>2, <3>3
    <3> QED BY <3>1, <3>3, <3>4
  <2> QED BY <2>1, <2>2
<1> HIDE DEF next
\* The runs that end in row i end in row j, and are one row longer than one that
\* ended in the row before.
<1>7. ASSUME NEW q \in Nat, NEW n \in Nat \ {0}, RunEnds(a, b, block, i, q, n)
      PROVE  q = j /\ ~Outside /\ n <= size
  <2>1. /\ block.begin1 <= i - n + 1 /\ block.begin2 <= q - n + 1 /\ q < block.end2
        /\ \A k \in 0 .. n - 1 : a[(i - n + 1) + k] = b[(q - n + 1) + k]
    BY <1>7 DEF RunEnds, Common
  <2>2. block.begin2 <= q /\ q \in DOMAIN b
    <3>1. block.begin2 \in Nat /\ 1 <= block.begin2 /\ block.begin2 <= q - n + 1
      BY <1>1, <2>1
    <3>2. block.begin2 <= q /\ 1 <= q
      BY <3>1
    <3>3. block.end2 \in Nat /\ Len(b) \in Nat /\ q < block.end2 /\ block.end2 <= Len(b) + 1
      BY <1>1, <2>1
    <3>4. q <= Len(b)
      BY <3>3
    <3>5. q \in 1 .. Len(b)
      BY <3>2, <3>3, <3>4
    <3> QED BY <3>2, <3>5
  <2>3. a[i] = b[q]
    <3>1. n - 1 \in 0 .. n - 1 /\ (i - n + 1) + (n - 1) = i /\ (q - n + 1) + (n - 1) = q
      BY <1>1
    <3>2. a[(i - n + 1) + (n - 1)] = b[(q - n + 1) + (n - 1)]
      BY <2>1, <3>1
    <3> QED BY <3>1, <3>2
  <2>4. q = j
    BY <1>2, <2>2, <2>3
  <2>5. ~Outside
    BY <1>1, <1>4, <2>1, <2>2, <2>4
  <2>6. CASE n = 1
    BY <1>5, <2>4, <2>5, <2>6
  <2>7. CASE n # 1
    <3>1. /\ n - 1 \in Nat \ {0} /\ q - 1 \in Nat
          /\ (i - 1) - (n - 1) + 1 = i - n + 1 /\ (q - 1) - (n - 1) + 1 = q - n + 1
          /\ q - 1 < block.end2
      BY <1>1, <2>1, <2>2, <2>7
    <3>2. \A k \in 0 .. (n - 1) - 1 : k \in 0 .. n - 1
      OBVIOUS
    <3>3. RunEnds(a, b, block, i - 1, q - 1, n - 1)
      BY <2>1, <3>1, <3>2 DEF RunEnds, Common
    <3>4. acc.j = q - 1 /\ n - 1 <= acc.len
      BY <3>1, <3>3 DEF LongestAfter
    <3>5. acc.j + 1 = j /\ acc.len > 0
      BY <1>4, <2>4, <3>1, <3>4
    <3>6. size = acc.len + 1
      BY <3>5
    <3> HIDE DEF size
    <3>7. n <= size
      BY <1>4, <3>4, <3>6
    <3> QED BY <2>4, <2>5, <3>7
  <2> QED BY <2>6, <2>7
<1> HIDE DEF size, best, Outside
<1>8. ASSUME NEW q \in Nat, NEW n \in Nat \ {0}, RunEnds(a, b, block, i, q, n)
      PROVE  next.j = q /\ n <= next.len /\ n <= next.best.size
  BY <1>5, <1>6, <1>7, <1>8
<1>9. ASSUME NEW p \in block.begin1 .. i, NEW q \in Nat, NEW n \in Nat \ {0},
             RunEnds(a, b, block, p, q, n)
      PROVE  n <= next.best.size
  <2>1. CASE p = i
    BY <1>8, <1>9, <2>1
  <2>2. CASE p # i
    <3>1. p \in block.begin1 .. i - 1
      BY <1>1, <2>2
    <3>2. n <= best.size
      BY <1>9, <3>1 DEF LongestAfter, best
    <3> QED BY <3>2, <1>4, <1>6
  <2> QED BY <2>1, <2>2
<1> QED BY <1>6, <1>8, <1>9 DEF LongestAfter, next

\* What find_longest_match finds is the longest there is: no run common to both
\* and inside what it searched is longer, whichever it prefers among equals.
THEOREM MatchIsLongest ==
  ASSUME NEW a, NEW b, Comparable(a, b), \A k, l \in DOMAIN b : b[k] = b[l] => k = l,
         NEW block \in Blocks(a, b), NEW modified,
         NEW p \in block.begin1 .. block.end1 - 1, NEW q \in Nat, NEW size \in Nat \ {0},
         RunEnds(a, b, block, p, q, size)
  PROVE  size <= FindLongestMatch(a, b, block, modified).size
<1> DEFINE first == block.begin1
           last == block.end1 - 1
           m == FindLongestMatch(a, b, block, modified)
<1>1. /\ first \in Nat /\ 1 <= first /\ block.end1 \in Nat /\ first <= block.end1
      /\ block.end1 <= Len(a) + 1
      /\ Len(a) \in Nat /\ Len(b) \in Nat /\ DOMAIN a = 1 .. Len(a) /\ DOMAIN b = 1 .. Len(b)
  BY BlockParts DEF Comparable
<1>2. PICK after : /\ AfterRows(a, b, block, modified, after, last)
                   /\ m = after[last].best
  BY <1>1, RowsAreSearched
<1>3. ASSUME NEW i \in first - 1 .. last
      PROVE  after[i] = IF i < first THEN NoRows(block)
                        ELSE LongerMatch(a, b, block, modified, after[i - 1], i)
  BY <1>2, <1>3 DEF AfterRows
<1> DEFINE Bad == {i \in Nat : i \in first - 1 .. last /\ ~LongestAfter(a, b, block, after[i], i)}
<1>4. ASSUME Bad # {}
      PROVE  FALSE
  <2>1. PICK i \in Bad : \A k \in Bad : i <= k
    BY <1>4, LeastRow
  <2>2. i \in first - 1 .. last /\ i \in Nat /\ ~LongestAfter(a, b, block, after[i], i)
    BY <2>1
  <2>3. CASE i < first
    <3>1. after[i] = NoRows(block)
      BY <1>3, <2>2, <2>3
    <3>2. \A n \in Nat \ {0}, k \in Nat : ~RunEnds(a, b, block, i, k, n)
      <4> TAKE n \in Nat \ {0}, k \in Nat
      <4>1. ~(block.begin1 <= i - n + 1)
        BY <1>1, <2>2, <2>3
      <4> QED BY <4>1 DEF RunEnds
    <3>3. \A k \in block.begin1 .. i : FALSE
      BY <1>1, <2>2, <2>3
    <3>4. NoRows(block).len = 0 /\ NoRows(block).best.size = 0
      BY DEF NoRows
    <3>5. LongestAfter(a, b, block, NoRows(block), i)
      BY <3>2, <3>3, <3>4 DEF LongestAfter
    <3> QED BY <3>1, <3>5, <2>2
  <2>4. CASE ~(i < first)
    <3>1. i - 1 \in Nat /\ i - 1 \in first - 1 .. last /\ ~(i <= i - 1) /\ i \in first .. last
      BY <1>1, <2>2, <2>4
    <3>2. LongestAfter(a, b, block, after[i - 1], i - 1)
      BY <2>1, <3>1
    <3>3. i \in DOMAIN a
      BY <1>1, <3>1
    <3>4. \E k \in DOMAIN b : b[k] = a[i]
      BY <3>3 DEF Comparable
    <3>5. LongestAfter(a, b, block, LongerMatch(a, b, block, modified, after[i - 1], i), i)
      BY <1>1, <3>1, <3>2, <3>4, RowKeepsLongest
    <3> QED BY <1>3, <2>2, <2>4, <3>5
  <2> QED BY <2>3, <2>4
<1>5. last \in Nat /\ last \in first - 1 .. last
  BY <1>1
<1>6. LongestAfter(a, b, block, after[last], last)
  BY <1>4, <1>5
<1> QED BY <1>2, <1>6 DEF LongestAfter
-----------------------------------------------------------------------------
(* find_longest_matches *)

\* The matches of a block, those before and behind the longest being found.
MatchesIn(a, b, modified, found, block) ==
  LET m == FindLongestMatch(a, b, block, modified)
  IN IF m.size = 0 THEN {}
     ELSE {m} \cup (IF m.i > block.begin1 /\ m.j > block.begin2
                    THEN found[Before(block, m)] ELSE {})
              \cup (IF m.i + m.size < block.end2 /\ m.j + m.size < block.end2
                    THEN found[Behind(block, m)] ELSE {})

\* The blocks of at most n rows of a.
Upto(a, b, n) == {block \in Blocks(a, b) : block.end1 - block.begin1 <= n}

\* What is left to search before and behind a match is smaller.
LEMMA BlocksShrink ==
  ASSUME NEW a, NEW b, Comparable(a, b), NEW block \in Blocks(a, b), NEW modified,
         NEW m, m = FindLongestMatch(a, b, block, modified), m.size # 0,
         NEW n \in Nat, block \in Upto(a, b, n)
  PROVE  /\ m.i > block.begin1 /\ m.j > block.begin2 => Before(block, m) \in Upto(a, b, n - 1)
         /\ m.i + m.size < block.end2 /\ m.j + m.size < block.end2
              => Behind(block, m) \in Upto(a, b, n - 1)
         /\ n - 1 \in Nat
<1>1. /\ block.begin1 \in Nat /\ block.end1 \in Nat /\ block.begin2 \in Nat /\ block.end2 \in Nat
      /\ 1 <= block.begin1 /\ block.begin1 <= block.end1 /\ block.end1 <= Len(a) + 1
      /\ 1 <= block.begin2 /\ block.begin2 <= block.end2 /\ block.end2 <= Len(b) + 1
      /\ Len(a) \in Nat /\ Len(b) \in Nat
      /\ block.end1 - block.begin1 <= n
  BY BlockParts DEF Comparable, Upto
<1>2. /\ m.i \in Nat /\ m.j \in Nat /\ m.size \in Nat
      /\ block.begin1 <= m.i /\ m.i + m.size <= block.end1
      /\ block.begin2 <= m.j /\ m.j + m.size <= block.end2
  BY MatchIsInBlock DEF MatchIn
<1>3. 1 <= m.size
  BY <1>2
<1> DEFINE r == m.i
           s == m.j
           t == m.size
           p == block.begin1
           q == block.end1
           u == block.begin2
           v == block.end2
           A == Len(a)
           B == Len(b)
<1>4. /\ p \in Nat /\ q \in Nat /\ r \in Nat /\ t \in Nat /\ A \in Nat
      /\ 1 <= p /\ p <= r /\ r + t <= q /\ q <= A + 1 /\ 1 <= t /\ q - p <= n
  BY <1>1, <1>2, <1>3
<1>5. /\ u \in Nat /\ v \in Nat /\ s \in Nat /\ t \in Nat /\ B \in Nat
      /\ 1 <= u /\ u <= s /\ s + t <= v /\ v <= B + 1 /\ 1 <= t
  BY <1>1, <1>2, <1>3
<1> HIDE DEF r, s, t, p, q, u, v, A, B
<1>6. ASSUME r > p, s > u
      PROVE  Before(block, m) \in Upto(a, b, n - 1)
  <2>1. Before(block, m) = [begin1 |-> p, end1 |-> r, begin2 |-> u, end2 |-> s]
    BY DEF Before, p, r, u, s
  <2>2. p \in 1 .. A + 1 /\ r \in 1 .. A + 1
    BY <1>4
  <2>3. r - p <= n - 1
    BY <1>4
  <2>4. u \in 1 .. B + 1 /\ s \in 1 .. B + 1
    BY <1>5
  <2>5. Before(block, m) \in Blocks(a, b)
    BY <1>4, <1>5, <2>1, <2>2, <2>4 DEF Blocks, A, B
  <2>6. Before(block, m).end1 - Before(block, m).begin1 = r - p
    BY <2>1
  <2> QED BY <2>3, <2>5, <2>6 DEF Upto
<1>7. ASSUME s + t < v
      PROVE  Behind(block, m) \in Upto(a, b, n - 1)
  <2>1. Behind(block, m) = [begin1 |-> r + t, end1 |-> q, begin2 |-> s + t, end2 |-> v]
    BY DEF Behind, r, s, t, q, v
  <2>2. r + t \in 1 .. A + 1 /\ q \in 1 .. A + 1
    BY <1>4
  <2>3. q - (r + t) <= n - 1
    BY <1>4
  <2>4. s + t \in 1 .. B + 1 /\ v \in 1 .. B + 1
    BY <1>5
  <2>5. r + t <= q /\ s + t <= v
    BY <1>4, <1>5
  <2>6. Behind(block, m) \in Blocks(a, b)
    BY <2>1, <2>2, <2>4, <2>5 DEF Blocks, A, B
  <2>7. Behind(block, m).end1 - Behind(block, m).begin1 = q - (r + t)
    BY <2>1
  <2> QED BY <2>3, <2>6, <2>7 DEF Upto
<1>8. n - 1 \in Nat
  BY <1>1, <1>2, <1>3
<1> QED BY <1>6, <1>7, <1>8 DEF p, r, s, t, u, v

\* What is found in a block depends on what is found in smaller ones only.
LEMMA SmallerDecide ==
  ASSUME NEW a, NEW b, Comparable(a, b), NEW modified, NEW n \in Nat, NEW f, NEW g,
         \A block \in Upto(a, b, n - 1) : f[block] = g[block],
         NEW block \in Upto(a, b, n)
  PROVE  MatchesIn(a, b, modified, f, block) = MatchesIn(a, b, modified, g, block)
<1> DEFINE m == FindLongestMatch(a, b, block, modified)
<1>1. CASE m.size = 0
  BY <1>1 DEF MatchesIn
<1>2. CASE m.size # 0
  <2>1. block \in Blocks(a, b)
    BY DEF Upto
  <2>2. /\ m.i > block.begin1 /\ m.j > block.begin2 => Before(block, m) \in Upto(a, b, n - 1)
        /\ m.i + m.size < block.end2 /\ m.j + m.size < block.end2
             => Behind(block, m) \in Upto(a, b, n - 1)
    BY <1>2, <2>1, BlocksShrink
  <2> HIDE DEF m
  <2>3. /\ m.i > block.begin1 /\ m.j > block.begin2 => f[Before(block, m)] = g[Before(block, m)]
        /\ m.i + m.size < block.end2 /\ m.j + m.size < block.end2
             => f[Behind(block, m)] = g[Behind(block, m)]
    BY <2>2
  <2>4. \A h : MatchesIn(a, b, modified, h, block) =
                 {m} \cup (IF m.i > block.begin1 /\ m.j > block.begin2
                           THEN h[Before(block, m)] ELSE {})
                     \cup (IF m.i + m.size < block.end2 /\ m.j + m.size < block.end2
                           THEN h[Behind(block, m)] ELSE {})
    BY <1>2 DEF MatchesIn, m
  <2> QED BY <2>3, <2>4
<1> QED BY <1>1, <1>2

\* The recursion of find_longest_matches ends, and finds what it says.
LEMMA MatchesAreFound ==
  ASSUME NEW a, NEW b, Comparable(a, b), NEW modified, NEW block \in Blocks(a, b)
  PROVE  LET found == FindLongestMatches(a, b, modified)
         IN found[block] = MatchesIn(a, b, modified, found, block)
<1> DEFINE Is(f, n) == f = [part \in Upto(a, b, n) |-> MatchesIn(a, b, modified, f, part)]
           Bad == {n \in Nat : ~ \E f : Is(f, n)}
<1>1. ASSUME Bad # {}
      PROVE  FALSE
  <2>1. PICK n \in Bad : \A k \in Bad : n <= k
    BY <1>1, LeastRow
  <2>2. n \in Nat /\ ~ \E f : Is(f, n)
    BY <2>1
  <2>3. \E g : \A part \in Upto(a, b, n - 1) : g[part] = MatchesIn(a, b, modified, g, part)
    <3>1. CASE n = 0
      <4>1. \A part \in Blocks(a, b) : ~(part.end1 - part.begin1 <= n - 1)
        <5> TAKE part \in Blocks(a, b)
        <5>1. part.begin1 \in Nat /\ part.end1 \in Nat /\ part.begin1 <= part.end1
          BY BlockParts DEF Comparable
        <5> QED BY <5>1, <3>1
      <4> QED BY <4>1 DEF Upto
    <3>2. CASE n # 0
      <4>1. n - 1 \in Nat /\ ~(n <= n - 1)
        BY <2>2, <3>2
      <4>2. PICK g : Is(g, n - 1)
        BY <4>1, <2>1
      <4> QED BY <4>2
    <3> QED BY <3>1, <3>2
  <2>4. PICK g : \A part \in Upto(a, b, n - 1) : g[part] = MatchesIn(a, b, modified, g, part)
    BY <2>3
  <2> DEFINE h == [part \in Upto(a, b, n) |-> MatchesIn(a, b, modified, g, part)]
  <2>5. \A part \in Upto(a, b, n - 1) : g[part] = h[part]
    <3>1. \A part \in Blocks(a, b) : part.end1 - part.begin1 <= n - 1 => part.end1 - part.begin1 <= n
      <4> TAKE part \in Blocks(a, b)
      <4>1. part.begin1 \in Nat /\ part.end1 \in Nat
        BY BlockParts DEF Comparable
      <4> QED BY <4>1, <2>2
    <3>2. \A part \in Upto(a, b, n - 1) : part \in Upto(a, b, n)
      BY <3>1 DEF Upto
    <3> QED BY <3>2, <2>4
  <2>6. \A part \in Upto(a, b, n) : h[part] = MatchesIn(a, b, modified, h, part)
    <3> TAKE part \in Upto(a, b, n)
    <3>1. h[part] = MatchesIn(a, b, modified, g, part)
      OBVIOUS
    <3> HIDE DEF h
    <3> QED BY <3>1, <2>2, <2>5, SmallerDecide
  <2>7. Is(h, n)
    BY <2>6
  <2> QED BY <2>2, <2>7
<1>2. Len(a) \in Nat
  BY DEF Comparable
<1>3. \E f : Is(f, Len(a))
  BY <1>1, <1>2
<1>4. Upto(a, b, Len(a)) = Blocks(a, b)
  <2>1. \A part \in Blocks(a, b) : part.end1 - part.begin1 <= Len(a)
    <3> TAKE part \in Blocks(a, b)
    <3>1. /\ part.begin1 \in Nat /\ part.end1 \in Nat
          /\ 1 <= part.begin1 /\ part.end1 <= Len(a) + 1
      BY BlockParts DEF Comparable
    <3> QED BY <3>1, <1>2
  <2> QED BY <2>1 DEF Upto
<1> DEFINE IsAll(f) == f = [part \in Blocks(a, b) |-> MatchesIn(a, b, modified, f, part)]
           found == CHOOSE f : IsAll(f)
<1>5. IsAll(found)
  BY <1>3, <1>4
<1>6. FindLongestMatches(a, b, modified) = found
  BY DEF FindLongestMatches, MatchesIn
<1>7. found[block] = MatchesIn(a, b, modified, found, block)
  BY <1>5
<1> QED BY <1>6, <1>7
-----------------------------------------------------------------------------
(* The matches found *)

\* One match lies before another, in both.
Precedes(m, p) == m.i + m.size <= p.i /\ m.j + m.size <= p.j

\* Matches in a block: common runs, of which one precedes the other.
MatchesOf(a, b, block, matches) ==
  /\ \A m \in matches : MatchIn(a, b, block, m, block.end1 - 1) /\ m.size # 0
  /\ \A m, p \in matches : m = p \/ Precedes(m, p) \/ Precedes(p, m)

\* A match before or behind the longest one lies in the block too, and does not
\* cross it.
LEMMA PartsDoNotCross ==
  ASSUME NEW a, NEW b, Comparable(a, b), NEW block \in Blocks(a, b), NEW m,
         MatchIn(a, b, block, m, block.end1 - 1), NEW p
  PROVE  /\ MatchIn(a, b, Before(block, m), p, Before(block, m).end1 - 1)
              => MatchIn(a, b, block, p, block.end1 - 1) /\ Precedes(p, m)
         /\ MatchIn(a, b, Behind(block, m), p, Behind(block, m).end1 - 1)
              => MatchIn(a, b, block, p, block.end1 - 1) /\ Precedes(m, p)
<1>1. /\ block.begin1 \in Nat /\ block.end1 \in Nat /\ block.begin2 \in Nat /\ block.end2 \in Nat
  BY BlockParts DEF Comparable
<1>2. /\ m.i \in Nat /\ m.j \in Nat /\ m.size \in Nat
      /\ block.begin1 <= m.i /\ m.i + m.size <= (block.end1 - 1) + 1
      /\ block.begin2 <= m.j /\ m.j + m.size <= block.end2
  BY DEF MatchIn
<1>3. m.i + m.size <= block.end1
  BY <1>1, <1>2
<1>4. ASSUME MatchIn(a, b, Before(block, m), p, Before(block, m).end1 - 1)
      PROVE  MatchIn(a, b, block, p, block.end1 - 1) /\ Precedes(p, m)
  <2>1. /\ Before(block, m).begin1 = block.begin1 /\ Before(block, m).end1 = m.i
        /\ Before(block, m).begin2 = block.begin2 /\ Before(block, m).end2 = m.j
    BY DEF Before
  <2>2. /\ p.i \in Nat /\ p.j \in Nat /\ p.size \in Nat /\ Common(a, b, p.i, p.j, p.size)
        /\ block.begin1 <= p.i /\ p.i + p.size <= (m.i - 1) + 1
        /\ block.begin2 <= p.j /\ p.j + p.size <= m.j
    BY <1>4, <2>1 DEF MatchIn
  <2>3. p.i + p.size <= m.i /\ p.j + p.size <= m.j
    BY <1>2, <2>2
  <2>4. p.i + p.size <= (block.end1 - 1) + 1
    BY <1>1, <1>2, <1>3, <2>2, <2>3
  <2>5. p.j + p.size <= block.end2
    BY <1>1, <1>2, <2>2, <2>3
  <2> QED BY <2>2, <2>3, <2>4, <2>5 DEF MatchIn, Precedes
<1>5. ASSUME MatchIn(a, b, Behind(block, m), p, Behind(block, m).end1 - 1)
      PROVE  MatchIn(a, b, block, p, block.end1 - 1) /\ Precedes(m, p)
  <2>1. /\ Behind(block, m).begin1 = m.i + m.size /\ Behind(block, m).end1 = block.end1
        /\ Behind(block, m).begin2 = m.j + m.size /\ Behind(block, m).end2 = block.end2
    BY DEF Behind
  <2>2. /\ p.i \in Nat /\ p.j \in Nat /\ p.size \in Nat /\ Common(a, b, p.i, p.j, p.size)
        /\ m.i + m.size <= p.i /\ p.i + p.size <= (block.end1 - 1) + 1
        /\ m.j + m.size <= p.j /\ p.j + p.size <= block.end2
    BY <1>5, <2>1 DEF MatchIn
  <2>3. block.begin1 <= p.i
    BY <1>1, <1>2, <2>2
  <2>4. block.begin2 <= p.j
    BY <1>1, <1>2, <2>2
  <2> QED BY <2>2, <2>3, <2>4 DEF MatchIn, Precedes
<1> QED BY <1>4, <1>5

\* find_longest_matches finds common runs that do not cross.
THEOREM MatchesDoNotCross ==
  ASSUME NEW a, NEW b, Comparable(a, b), NEW modified, NEW block \in Blocks(a, b)
  PROVE  MatchesOf(a, b, block, FindLongestMatches(a, b, modified)[block])
<1> DEFINE found == FindLongestMatches(a, b, modified)
           Bad == {n \in Nat : \E part \in Upto(a, b, n) : ~MatchesOf(a, b, part, found[part])}
<1>1. ASSUME Bad # {}
      PROVE  FALSE
  <2>1. PICK n \in Bad : \A k \in Bad : n <= k
    BY <1>1, LeastRow
  <2>2. n \in Nat
    BY <2>1
  <2>3. PICK part \in Upto(a, b, n) : ~MatchesOf(a, b, part, found[part])
    BY <2>1
  <2>4. part \in Blocks(a, b)
    BY DEF Upto
  <2> DEFINE m == FindLongestMatch(a, b, part, modified)
             before == IF m.i > part.begin1 /\ m.j > part.begin2 THEN found[Before(part, m)] ELSE {}
             behind == IF m.i + m.size < part.end2 /\ m.j + m.size < part.end2
                       THEN found[Behind(part, m)] ELSE {}
  <2>5. found[part] = MatchesIn(a, b, modified, found, part)
    BY <2>4, MatchesAreFound
  <2>6. CASE m.size = 0
    <3>1. found[part] = {}
      BY <2>5, <2>6 DEF MatchesIn
    <3> QED BY <3>1, <2>3 DEF MatchesOf
  <2>7. CASE m.size # 0
    <3>1. found[part] = {m} \cup before \cup behind
      BY <2>5, <2>7 DEF MatchesIn
    <3>2. MatchIn(a, b, part, m, part.end1 - 1)
      BY <2>4, MatchIsInBlock
    <3>3. /\ m.i > part.begin1 /\ m.j > part.begin2 => Before(part, m) \in Upto(a, b, n - 1)
          /\ m.i + m.size < part.end2 /\ m.j + m.size < part.end2
               => Behind(part, m) \in Upto(a, b, n - 1)
          /\ n - 1 \in Nat
      BY <2>2, <2>4, <2>7, BlocksShrink
    <3> HIDE DEF m, found
    <3>4. \A q \in Upto(a, b, n - 1) : MatchesOf(a, b, q, found[q])
      <4>1. ~(n <= n - 1)
        BY <2>2
      <4> QED BY <4>1, <3>3, <2>1
    <3>5. before = {} \/ MatchesOf(a, b, Before(part, m), before)
      BY <3>3, <3>4
    <3>6. behind = {} \/ MatchesOf(a, b, Behind(part, m), behind)
      BY <3>3, <3>4
    <3> HIDE DEF before, behind
    <3>7. /\ \A p \in before : MatchIn(a, b, part, p, part.end1 - 1) /\ p.size # 0 /\ Precedes(p, m)
          /\ \A p, q \in before : p = q \/ Precedes(p, q) \/ Precedes(q, p)
      BY <2>4, <3>2, <3>5, PartsDoNotCross DEF MatchesOf
    <3>8. /\ \A p \in behind : MatchIn(a, b, part, p, part.end1 - 1) /\ p.size # 0 /\ Precedes(m, p)
          /\ \A p, q \in behind : p = q \/ Precedes(p, q) \/ Precedes(q, p)
      BY <2>4, <3>2, <3>6, PartsDoNotCross DEF MatchesOf
    <3>9. \A p \in before, q \in behind : Precedes(p, q)
      <4> TAKE p \in before, q \in behind
      <4>1. /\ p.i + p.size <= m.i /\ p.j + p.size <= m.j
            /\ m.i + m.size <= q.i /\ m.j + m.size <= q.j
        BY <3>7, <3>8 DEF Precedes
      <4>2. /\ p.i \in Nat /\ p.j \in Nat /\ p.size \in Nat
            /\ q.i \in Nat /\ q.j \in Nat
            /\ m.i \in Nat /\ m.j \in Nat /\ m.size \in Nat
        BY <3>2, <3>7, <3>8 DEF MatchIn
      <4>3. p.i + p.size <= q.i
        BY <4>1, <4>2
      <4>4. p.j + p.size <= q.j
        BY <4>1, <4>2
      <4> QED BY <4>3, <4>4 DEF Precedes
    <3>10. \A p, q \in found[part] : p = q \/ Precedes(p, q) \/ Precedes(q, p)
      BY <3>1, <3>7, <3>8, <3>9
    <3>11. \A p \in found[part] : MatchIn(a, b, part, p, part.end1 - 1) /\ p.size # 0
      BY <2>7, <3>1, <3>2, <3>7, <3>8
    <3> QED BY <3>10, <3>11, <2>3 DEF MatchesOf
  <2> QED BY <2>6, <2>7
<1>2. Len(a) \in Nat
  BY DEF Comparable
<1>3. block \in Upto(a, b, Len(a))
  <2>1. /\ block.begin1 \in Nat /\ block.end1 \in Nat
        /\ 1 <= block.begin1 /\ block.end1 <= Len(a) + 1
    BY BlockParts DEF Comparable
  <2>2. block.end1 - block.begin1 <= Len(a)
    BY <2>1, <1>2
  <2> QED BY <2>2 DEF Upto
<1> QED BY <1>1, <1>2, <1>3
-----------------------------------------------------------------------------
(* calculate_moves_sorted *)

\* The same objects, each once, in two orders.
Rearranged(a, b) ==
  /\ Comparable(a, b) /\ Len(a) = Len(b)
  /\ \A i, j \in DOMAIN a : a[i] = a[j] => i = j
  /\ \A i, j \in DOMAIN b : b[i] = b[j] => i = j

\* Row i of a is in match m, which has its object in row k of b.
InMatch(m, i, k) == m.i <= i /\ i < m.i + m.size /\ k = m.j + (i - m.i)

\* An object that is not moved is in one of the rows nothing changed before, or
\* in a match.
LEMMA RestIsMatched ==
  ASSUME NEW a, NEW b, Rearranged(a, b), NEW first \in DOMAIN a,
         \A i \in DOMAIN a : i < first => a[i] = b[i],
         NEW matches, MatchesOf(a, b, AllFrom(a, b, first), matches),
         NEW i \in DOMAIN a, NEW k \in DOMAIN b, b[k] = a[i],
         i < first \/ \E m \in matches : i \in m.i .. m.i + m.size - 1
  PROVE  \/ i < first /\ k = i
         \/ first <= i /\ \E m \in matches : InMatch(m, i, k)
<1>1. /\ Len(a) \in Nat /\ DOMAIN a = 1 .. Len(a) /\ DOMAIN b = 1 .. Len(a)
      /\ \A p, q \in DOMAIN b : b[p] = b[q] => p = q
  BY DEF Rearranged, Comparable
<1>2. first \in Nat /\ i \in Nat /\ k \in Nat
  BY <1>1
<1>3. CASE i < first
  <2>1. a[i] = b[i] /\ i \in DOMAIN b
    BY <1>1, <1>3
  <2> QED BY <1>1, <1>3, <2>1
<1>4. CASE ~(i < first)
  <2>1. PICK m \in matches : i \in m.i .. m.i + m.size - 1
    BY <1>4
  <2>2. /\ m.i \in Nat /\ m.j \in Nat /\ m.size \in Nat
        /\ first <= m.j /\ m.j + m.size <= Len(b) + 1
        /\ Common(a, b, m.i, m.j, m.size)
    BY DEF MatchesOf, MatchIn, AllFrom
  <2>3. m.i <= i /\ i < m.i + m.size
    BY <2>1, <2>2, <1>2
  <2> DEFINE t == i - m.i
  <2>4. t \in 0 .. m.size - 1 /\ m.i + t = i
    <3>1. m.i \in Nat /\ m.size \in Nat /\ i \in Nat
      BY <2>2, <1>2
    <3> QED BY <3>1, <2>3
  <2>5. Len(b) = Len(a)
    BY DEF Rearranged
  <2> HIDE DEF t
  <2>6. m.j + t \in DOMAIN b
    <3>1. /\ first \in Nat /\ 1 <= first /\ Len(a) \in Nat
          /\ m.j \in Nat /\ m.size \in Nat /\ first <= m.j /\ m.j + m.size <= Len(a) + 1
      BY <1>1, <2>2, <2>5
    <3>2. t \in Nat /\ t <= m.size - 1
      BY <2>4, <3>1
    <3>3. m.j + t \in 1 .. Len(a)
      BY <3>1, <3>2
    <3> QED BY <3>3, <1>1
  <2>7. a[i] = b[m.j + t]
    BY <2>2, <2>4 DEF Common
  <2>8. k = m.j + t
    BY <1>1, <2>6, <2>7
  <2>9. first <= i
    BY <1>2, <1>4
  <2> QED BY <2>3, <2>8, <2>9 DEF InMatch, t
<1> QED BY <1>3, <1>4

\* Rows of matches that do not cross are in one order.
LEMMA MatchedInOrder ==
  ASSUME NEW m, NEW p,
         m.i \in Nat, m.j \in Nat, m.size \in Nat, p.i \in Nat, p.j \in Nat, p.size \in Nat,
         m = p \/ Precedes(m, p) \/ Precedes(p, m),
         NEW i \in Nat, NEW k \in Nat, NEW j \in Nat, NEW l \in Nat, i < j,
         InMatch(m, i, k), InMatch(p, j, l)
  PROVE  k < l
<1>1. /\ m.i <= i /\ i < m.i + m.size /\ k = m.j + (i - m.i)
      /\ p.i <= j /\ j < p.i + p.size /\ l = p.j + (j - p.i)
  BY DEF InMatch
<1>2. CASE m = p
  BY <1>1, <1>2
<1>3. CASE Precedes(m, p)
  <2>1. m.j + m.size <= p.j
    BY <1>3 DEF Precedes
  <2>2. k < m.j + m.size
    BY <1>1
  <2>3. p.j <= l
    BY <1>1
  <2> QED BY <2>1, <2>2, <2>3
<1>4. CASE Precedes(p, m)
  <2>1. p.i + p.size <= m.i
    BY <1>4 DEF Precedes
  <2> QED BY <1>1, <2>1
<1> QED BY <1>2, <1>3, <1>4

\* The objects that are not taken for moved have the same order in both, and
\* none is when nothing changed.
THEOREM RestKeepsOrder ==
  ASSUME NEW a, NEW b, Rearranged(a, b), NEW modified
  PROVE  /\ (\A i \in DOMAIN a : a[i] = b[i]) => Moved(a, b, modified) = {}
         /\ \A x \in Moved(a, b, modified) : \E i \in DOMAIN a : a[i] = x
         /\ \A i, j \in DOMAIN a, k, l \in DOMAIN b :
              /\ i < j
              /\ a[i] \notin Moved(a, b, modified) /\ a[j] \notin Moved(a, b, modified)
              /\ b[k] = a[i] /\ b[l] = a[j]
              => k < l
<1> DEFINE different == {i \in DOMAIN a : a[i] # b[i]}
           first == Min(different)
           matches == FindLongestMatches(a, b, modified)[AllFrom(a, b, first)]
           Unmatched == {j \in first .. Len(a) : \A m \in matches : j \notin m.i .. m.i + m.size - 1}
<1>1. /\ Len(a) \in Nat /\ DOMAIN a = 1 .. Len(a) /\ DOMAIN b = 1 .. Len(a) /\ Len(b) = Len(a)
      /\ \A p, q \in DOMAIN b : b[p] = b[q] => p = q
      /\ Comparable(a, b)
  BY DEF Rearranged, Comparable
<1>2. Moved(a, b, modified) = IF different = {} THEN {} ELSE {a[i] : i \in Unmatched}
  BY DEF Moved
<1>3. CASE different = {}
  <2>1. Moved(a, b, modified) = {}
    BY <1>2, <1>3
  <2>2. \A i \in DOMAIN a, k \in DOMAIN b : b[k] = a[i] => k = i
    <3>1. \A i \in DOMAIN a : a[i] = b[i] /\ i \in DOMAIN b
      BY <1>1, <1>3
    <3> QED BY <1>1, <3>1
  <2> QED BY <2>1, <2>2
<1>4. CASE different # {}
  <2>1. first \in different /\ \A i \in different : first <= i
    <3>1. \E i \in different : \A j \in different : i <= j
      <4>1. different \in SUBSET Nat
        BY <1>1
      <4> HIDE DEF different
      <4> QED BY <4>1, <1>4, LeastRow
    <3> HIDE DEF different
    <3> QED BY <3>1 DEF Min
  <2>2. first \in DOMAIN a /\ first \in Nat
    BY <1>1, <2>1
  <2>3. \A i \in DOMAIN a : i < first => a[i] = b[i]
    BY <1>1, <2>1, <2>2
  <2> HIDE DEF different, first
  <2>4. AllFrom(a, b, first) \in Blocks(a, b)
    <3>1. /\ first \in 1 .. Len(a) + 1 /\ Len(a) + 1 \in 1 .. Len(a) + 1 /\ first <= Len(a) + 1
      BY <1>1, <2>2
    <3> QED BY <3>1, <1>1 DEF AllFrom, Blocks
  <2>5. MatchesOf(a, b, AllFrom(a, b, first), matches)
    BY <1>1, <2>4, MatchesDoNotCross
  <2> HIDE DEF matches
  <2>6. Moved(a, b, modified) = {a[i] : i \in Unmatched}
    BY <1>2, <1>4
  <2>7. ASSUME NEW i \in DOMAIN a, a[i] \notin Moved(a, b, modified), NEW k \in DOMAIN b, b[k] = a[i]
        PROVE  \/ i < first /\ k = i
               \/ first <= i /\ \E m \in matches : InMatch(m, i, k)
    <3>1. i < first \/ i \in first .. Len(a)
      BY <1>1, <2>2
    <3>2. i \notin Unmatched
      BY <2>6, <2>7
    <3>3. i < first \/ \E m \in matches : i \in m.i .. m.i + m.size - 1
      BY <3>1, <3>2
    <3> QED BY <2>2, <2>3, <2>5, <2>7, <3>3, RestIsMatched
  <2>8. ASSUME NEW i \in DOMAIN a, NEW j \in DOMAIN a, NEW k \in DOMAIN b, NEW l \in DOMAIN b,
               i < j, a[i] \notin Moved(a, b, modified), a[j] \notin Moved(a, b, modified),
               b[k] = a[i], b[l] = a[j]
        PROVE  k < l
    <3>1. i \in Nat /\ j \in Nat /\ k \in Nat /\ l \in Nat
      BY <1>1
    <3>2. \A m \in matches : m.i \in Nat /\ m.j \in Nat /\ m.size \in Nat /\ first <= m.j
      BY <2>5 DEF MatchesOf, MatchIn, AllFrom
    <3>3. CASE j < first
      <4>1. i < first /\ ~(first <= i) /\ ~(first <= j)
        BY <3>1, <3>3, <2>2, <2>8
      <4> QED BY <4>1, <2>7, <2>8
    <3>4. CASE ~(j < first) /\ i < first
      <4>1. k = i
        <5>1. ~(first <= i)
          BY <3>1, <3>4, <2>2
        <5> QED BY <5>1, <2>7, <2>8
      <4>2. PICK m \in matches : InMatch(m, j, l)
        BY <3>4, <2>7, <2>8
      <4>3. m.i <= j /\ l = m.j + (j - m.i) /\ m.i \in Nat /\ m.j \in Nat /\ first <= m.j
        BY <4>2, <3>2 DEF InMatch
      <4> QED BY <4>1, <4>3, <3>1, <3>4, <2>2
    <3>5. CASE ~(j < first) /\ ~(i < first)
      <4>1. PICK m \in matches : InMatch(m, i, k)
        BY <3>5, <2>7, <2>8
      <4>2. PICK p \in matches : InMatch(p, j, l)
        BY <3>5, <2>7, <2>8
      <4>3. m = p \/ Precedes(m, p) \/ Precedes(p, m)
        BY <2>5 DEF MatchesOf
      <4> QED BY <4>1, <4>2, <4>3, <3>1, <3>2, <2>8, MatchedInOrder
    <3> QED BY <3>3, <3>4, <3>5
  <2>9. \A x \in Moved(a, b, modified) : \E i \in DOMAIN a : a[i] = x
    <3>1. \A i \in Unmatched : i \in DOMAIN a
      BY <1>1, <2>2
    <3> QED BY <3>1, <2>6
  <2>10. ~ \A i \in DOMAIN a : a[i] = b[i]
    BY <1>4 DEF different
  <2> QED BY <2>8, <2>9, <2>10
<1> QED BY <1>3, <1>4
-----------------------------------------------------------------------------
(* The rows compared *)

Gone(order, K) == RowsOf(order, Range(order) \ K)

\* Row i of an order is row Unshift(Gone(order, K), i) of its objects in K.
LEMMA KeptParts ==
  ASSUME NEW order \in Orders, NEW K \in SUBSET Range(order)
  PROVE  /\ Gone(order, K) \in SUBSET Nat
         /\ \A i \in RowNumbers(order) : order[i + 1] \in K <=> i \notin Gone(order, K)
         /\ Len(Kept(order, K)) \in Nat /\ DOMAIN Kept(order, K) = 1 .. Len(Kept(order, K))
         /\ \A i \in RowNumbers(order) : order[i + 1] \in K =>
              /\ Unshift(Gone(order, K), i) + 1 \in DOMAIN Kept(order, K)
              /\ Kept(order, K)[Unshift(Gone(order, K), i) + 1] = order[i + 1]
         /\ \A n \in DOMAIN Kept(order, K) : \E i \in RowNumbers(order) :
              order[i + 1] \in K /\ n = Unshift(Gone(order, K), i) + 1
<1> DEFINE G == Gone(order, K)
           N == Len(order)
           s == Kept(order, K)
<1>1. N \in Nat /\ RowNumbers(order) = 0 .. N - 1
  BY OrderParts DEF RowNumbers
<1>2. \A i : i \in G <=> i \in RowNumbers(order) /\ order[i + 1] \notin K
  <2>1. \A i \in RowNumbers(order) : order[i + 1] \in Range(order)
    BY RangeOfRows
  <2> QED BY <2>1, RowsOfIs DEF Gone
<1> HIDE DEF G
<1>3. G \in SUBSET (0 .. N - 1) /\ G \in SUBSET Nat
  BY <1>1, <1>2
<1>4. /\ IsFiniteSet(G) /\ Cardinality(G) \in Nat /\ Cardinality(G) <= N
      /\ \A x \in Nat \ G : x < N <=> Unshift(G, x) < N - Cardinality(G)
  <2>1. N \in Nat \ G
    BY <1>1, <1>2
  <2> QED BY <1>1, <1>3, <2>1, UnshiftBound
<1> DEFINE c == N - Cardinality(G)
<1>5. c \in Nat
  BY <1>1, <1>4
<1>6. s = [n \in 1 .. c |-> order[Shift(G, n - 1) + 1]]
  BY DEF Kept, G, Gone
<1> HIDE DEF c, s, N
<1>7. Len(s) = c /\ DOMAIN s = 1 .. c
  BY <1>5, <1>6
<1>8. ASSUME NEW n \in 1 .. c
      PROVE  /\ Shift(G, n - 1) \in RowNumbers(order) /\ order[Shift(G, n - 1) + 1] \in K
             /\ Unshift(G, Shift(G, n - 1)) = n - 1
  <2>1. n - 1 \in Nat /\ n - 1 < c
    BY <1>5
  <2>2. Shift(G, n - 1) \in Nat \ G /\ Unshift(G, Shift(G, n - 1)) = n - 1
    BY <1>3, <1>4, <2>1, ShiftIs
  <2>3. Shift(G, n - 1) < N
    BY <1>4, <2>1, <2>2 DEF c
  <2>4. Shift(G, n - 1) \in RowNumbers(order)
    BY <2>2, <2>3, RowParts DEF N
  <2> QED BY <1>2, <2>2, <2>4
<1>9. ASSUME NEW i \in RowNumbers(order), order[i + 1] \in K
      PROVE  Unshift(G, i) + 1 \in DOMAIN s /\ s[Unshift(G, i) + 1] = order[i + 1]
  <2>1. i \in Nat \ G /\ i < N
    BY <1>2, <1>9, RowParts DEF N
  <2>2. Unshift(G, i) \in Nat /\ Unshift(G, i) < c
    BY <1>3, <1>4, <2>1, UnshiftType DEF c
  <2> DEFINE u == Unshift(G, i)
  <2>3. u + 1 \in 1 .. c /\ (u + 1) - 1 = u
    BY <2>2, <1>5
  <2>4. Unshift(G, Shift(G, u)) = u /\ Shift(G, u) \in Nat \ G
    BY <1>3, <1>4, <2>2, ShiftIs
  <2>5. Shift(G, u) = i
    BY <1>3, <2>1, <2>4, UnshiftOrders
  <2> HIDE DEF u
  <2>6. s[u + 1] = order[i + 1]
    BY <1>6, <2>3, <2>5
  <2> QED BY <1>7, <2>3, <2>6 DEF u
<1>10. ASSUME NEW n \in 1 .. c
       PROVE  \E i \in RowNumbers(order) : order[i + 1] \in K /\ n = Unshift(G, i) + 1
  <2>1. n = (n - 1) + 1
    BY <1>5
  <2> QED BY <1>8, <2>1
<1> QED BY <1>2, <1>3, <1>5, <1>7, <1>9, <1>10 DEF G, s

\* They are the objects of K, each once.
LEMMA KeptCounts ==
  ASSUME NEW order \in Orders, NEW K \in SUBSET Range(order)
  PROVE  /\ \A n \in DOMAIN Kept(order, K) : Kept(order, K)[n] \in K
         /\ \A k \in K : \E n \in DOMAIN Kept(order, K) : Kept(order, K)[n] = k
         /\ \A n, p \in DOMAIN Kept(order, K) : Kept(order, K)[n] = Kept(order, K)[p] => n = p
         /\ Len(Kept(order, K)) = Cardinality(K)
<1> DEFINE s == Kept(order, K)
           u(i) == Unshift(Gone(order, K), i) + 1
<1>1. /\ Len(s) \in Nat /\ DOMAIN s = 1 .. Len(s)
      /\ \A i \in RowNumbers(order) : order[i + 1] \in K => u(i) \in DOMAIN s /\ s[u(i)] = order[i + 1]
      /\ \A n \in DOMAIN s : \E i \in RowNumbers(order) : order[i + 1] \in K /\ n = u(i)
  BY KeptParts
<1>2. s = [n \in 1 .. Len(s) |-> s[n]]
  <2>1. s = [n \in DOMAIN s |-> s[n]]
    BY DEF Kept
  <2> QED BY <2>1, <1>1
<1> HIDE DEF s, u
<1>3. \A n \in DOMAIN s : s[n] \in K
  BY <1>1
<1>4. \A k \in K : \E n \in DOMAIN s : s[n] = k
  <2> TAKE k \in K
  <2>1. PICK i \in RowNumbers(order) : order[i + 1] = k
    BY RangeOfRows
  <2> QED BY <2>1, <1>1
<1>5. \A n, p \in DOMAIN s : s[n] = s[p] => n = p
  <2> TAKE n, p \in DOMAIN s
  <2>1. PICK i \in RowNumbers(order) : n = u(i) /\ s[n] = order[i + 1]
    BY <1>1
  <2>2. PICK j \in RowNumbers(order) : p = u(j) /\ s[p] = order[j + 1]
    BY <1>1
  <2> QED BY <2>1, <2>2, RowParts
<1>6. Len(s) = Cardinality(K)
  <2> DEFINE S == 1 .. Len(s)
  <2>1. IsFiniteSet(S) /\ Cardinality(S) = Len(s)
    <3>1. 1 \in Int /\ Len(s) \in Int /\ (IF 1 > Len(s) THEN 0 ELSE Len(s) - 1 + 1) = Len(s)
      BY <1>1
    <3> QED BY <3>1, FS_Interval
  <2>2. DOMAIN s = S /\ s = [n \in S |-> s[n]]
    BY <1>1, <1>2
  <2>3. K = {s[n] : n \in S}
    BY <1>3, <1>4, <2>2
  <2>4. /\ IsFiniteSet(S) /\ DOMAIN s = S /\ s = [n \in S |-> s[n]]
        /\ \A n, p \in S : s[n] = s[p] => n = p
    BY <1>5, <2>1, <2>2
  <2> HIDE DEF S
  <2>5. Cardinality({s[n] : n \in S}) = Cardinality(S)
    BY <2>4, ImageCount
  <2> QED BY <2>1, <2>3, <2>5
<1> QED BY <1>3, <1>4, <1>5, <1>6 DEF s

LEMMA KeptIsRearranged ==
  ASSUME NEW prev \in Orders, NEW next \in Orders,
         NEW K \in SUBSET (Range(prev) \cap Range(next))
  PROVE  Rearranged(Kept(prev, K), Kept(next, K))
<1> DEFINE a == Kept(prev, K)
           b == Kept(next, K)
<1>1. K \in SUBSET Range(prev) /\ K \in SUBSET Range(next)
  OBVIOUS
<1>2. /\ Len(a) \in Nat /\ DOMAIN a = 1 .. Len(a) /\ Len(b) \in Nat /\ DOMAIN b = 1 .. Len(b)
  BY <1>1, KeptParts
<1>3. /\ \A n \in DOMAIN a : a[n] \in K
      /\ \A n, p \in DOMAIN a : a[n] = a[p] => n = p
      /\ Len(a) = Cardinality(K)
  BY <1>1, KeptCounts
<1>4. /\ \A k \in K : \E n \in DOMAIN b : b[n] = k
      /\ \A n, p \in DOMAIN b : b[n] = b[p] => n = p
      /\ Len(b) = Cardinality(K)
  BY <1>1, KeptCounts
<1> HIDE DEF a, b
<1>5. Comparable(a, b)
  BY <1>2, <1>3, <1>4 DEF Comparable
<1>6. Rearranged(a, b)
  BY <1>3, <1>4, <1>5 DEF Rearranged
<1> QED BY <1>6 DEF a, b

\* What the comparison takes for moved it may take for moved: no object when all
\* that stayed kept their order, and otherwise enough for the rest to have kept it.
THEOREM MovedIsMovable ==
  ASSUME NEW prev \in Orders, NEW next \in Orders, NEW written
  PROVE  MovedIn(prev, next, written) \in Movable(prev, next)
<1> DEFINE K == Range(prev) \cap Range(next)
           a == Kept(prev, K)
           b == Kept(next, K)
           D == Gone(prev, K)
           I == Gone(next, K)
           moved == MovedIn(prev, next, written)
<1>1. moved = Moved(a, b, RowsOf(next, written \cap K))
  BY DEF MovedIn
<1>2. K \in SUBSET Range(prev) /\ K \in SUBSET Range(next) /\ K \in SUBSET (Range(prev) \cap Range(next))
  OBVIOUS
<1> HIDE DEF K, moved
<1>3. Rearranged(a, b)
  BY <1>2, KeptIsRearranged
<1>4. /\ D \in SUBSET Nat
      /\ \A i \in RowNumbers(prev) : prev[i + 1] \in K <=> i \notin D
      /\ Len(a) \in Nat /\ DOMAIN a = 1 .. Len(a)
      /\ \A i \in RowNumbers(prev) : prev[i + 1] \in K =>
           Unshift(D, i) + 1 \in DOMAIN a /\ a[Unshift(D, i) + 1] = prev[i + 1]
      /\ \A n \in DOMAIN a : \E i \in RowNumbers(prev) :
           prev[i + 1] \in K /\ n = Unshift(D, i) + 1
  BY <1>2, KeptParts
<1>5. /\ I \in SUBSET Nat
      /\ \A i \in RowNumbers(next) : next[i + 1] \in K <=> i \notin I
      /\ Len(b) \in Nat /\ DOMAIN b = 1 .. Len(b)
      /\ \A i \in RowNumbers(next) : next[i + 1] \in K =>
           Unshift(I, i) + 1 \in DOMAIN b /\ b[Unshift(I, i) + 1] = next[i + 1]
      /\ \A n \in DOMAIN b : \E i \in RowNumbers(next) :
           next[i + 1] \in K /\ n = Unshift(I, i) + 1
  BY <1>2, KeptParts
<1>6. D \in SUBSET RowNumbers(prev) /\ I \in SUBSET RowNumbers(next)
  BY RowsOfIs DEF Gone
<1>7. /\ (\A n \in DOMAIN a : a[n] = b[n]) => moved = {}
      /\ \A x \in moved : \E n \in DOMAIN a : a[n] = x
      /\ \A n, p \in DOMAIN a, q, r \in DOMAIN b :
           n < p /\ a[n] \notin moved /\ a[p] \notin moved /\ b[q] = a[n] /\ b[r] = a[p] => q < r
  BY <1>1, <1>3, RestKeepsOrder
<1>8. DOMAIN b = DOMAIN a
  BY <1>3, <1>4, <1>5 DEF Rearranged
<1> HIDE DEF a, b, D, I
<1>9. ASSUME SameOrder(prev, next, K)
      PROVE  moved = {}
  <2>1. \A x \in RowNumbers(prev), z \in RowNumbers(next) :
          Same(D, I, x, z) => prev[x + 1] = next[z + 1]
    <3>1. K \subseteq Range(prev) /\ K \subseteq Range(next)
      BY <1>2
    <3>2. /\ \A i \in RowNumbers(prev) : i \in D <=> prev[i + 1] \notin K
          /\ \A i \in RowNumbers(next) : i \in I <=> next[i + 1] \notin K
      BY <1>4, <1>5
    <3> QED BY <3>1, <3>2, <1>6, <1>9, StayIsSame
  <2>2. ASSUME NEW n \in DOMAIN a
        PROVE  a[n] = b[n]
    <3>1. PICK i \in RowNumbers(prev) : prev[i + 1] \in K /\ n = Unshift(D, i) + 1
      BY <1>4
    <3>2. PICK z \in RowNumbers(next) : next[z + 1] \in K /\ n = Unshift(I, z) + 1
      BY <1>5, <1>8
    <3>3. a[n] = prev[i + 1] /\ b[n] = next[z + 1]
      BY <1>4, <1>5, <3>1, <3>2
    <3>4. i \in Nat \ D /\ z \in Nat \ I
      BY <1>4, <1>5, <3>1, <3>2, RowParts
    <3>5. Unshift(D, i) \in Nat /\ Unshift(I, z) \in Nat
      BY <1>4, <1>5, <3>4, UnshiftType
    <3>6. Unshift(D, i) = Unshift(I, z)
      BY <3>1, <3>2, <3>5
    <3> QED BY <2>1, <3>3, <3>4, <3>6 DEF Same
  <2> QED BY <2>2, <1>7
<1>10. moved \in SUBSET K
  <2>1. \A n \in DOMAIN a : a[n] \in K
    BY <1>4
  <2> QED BY <2>1, <1>7
<1>11. SameOrder(prev, next, K \ moved)
  <2> SUFFICES ASSUME NEW i \in DOMAIN prev, NEW j \in DOMAIN prev, i < j,
                      prev[i] \in K \ moved, prev[j] \in K \ moved,
                      NEW k \in DOMAIN next, NEW l \in DOMAIN next,
                      next[k] = prev[i], next[l] = prev[j]
               PROVE  k < l
    BY DEF SameOrder
  <2>1. /\ i - 1 \in RowNumbers(prev) /\ (i - 1) + 1 = i /\ i \in Nat
        /\ j - 1 \in RowNumbers(prev) /\ (j - 1) + 1 = j /\ j \in Nat
        /\ k - 1 \in RowNumbers(next) /\ (k - 1) + 1 = k /\ k \in Nat
        /\ l - 1 \in RowNumbers(next) /\ (l - 1) + 1 = l /\ l \in Nat
    BY RowParts
  <2>2. /\ i - 1 \in Nat \ D /\ j - 1 \in Nat \ D /\ k - 1 \in Nat \ I /\ l - 1 \in Nat \ I
    BY <1>4, <1>5, <2>1, RowParts
  <2> DEFINE n == Unshift(D, i - 1)
             p == Unshift(D, j - 1)
             q == Unshift(I, k - 1)
             r == Unshift(I, l - 1)
  <2>3. /\ n + 1 \in DOMAIN a /\ a[n + 1] = prev[i]
        /\ p + 1 \in DOMAIN a /\ a[p + 1] = prev[j]
    BY <1>4, <2>1
  <2>4. /\ q + 1 \in DOMAIN b /\ b[q + 1] = next[k]
        /\ r + 1 \in DOMAIN b /\ b[r + 1] = next[l]
    BY <1>5, <2>1
  <2>5. n \in Nat /\ p \in Nat /\ q \in Nat /\ r \in Nat
    BY <1>4, <1>5, <2>2, UnshiftType
  <2>6. n < p
    <3>1. i - 1 < j - 1
      BY <2>1
    <3> QED BY <3>1, <1>4, <2>2, UnshiftOrders
  <2>7. k - 1 < l - 1 <=> q < r
    BY <1>5, <2>2, UnshiftOrders
  <2> HIDE DEF n, p, q, r
  <2>8. n + 1 < p + 1
    BY <2>5, <2>6
  <2>9. q + 1 < r + 1
    BY <1>7, <2>3, <2>4, <2>8
  <2>10. q < r
    BY <2>5, <2>9
  <2> QED BY <2>1, <2>7, <2>10
<1>12. moved \in IF SameOrder(prev, next, K) THEN {{}}
                 ELSE {m \in SUBSET K : SameOrder(prev, next, K \ m)}
  BY <1>9, <1>10, <1>11
<1> QED BY <1>12 DEF Movable, K, moved
-----------------------------------------------------------------------------
\* Module ChangeSets makes the change sets of MergedChanges, however many objects
\* a commit writes and however many commits are merged: whatever find_longest_match
\* prefers, what calculate takes for moved it may.
THEOREM MovesAreAny == Spec => AnyMovesSpec
<1>1. Init /\ [][Next]_vars => [][AnyCommit \/ Deliver]_vars
  <2>1. Init => IInv
    BY InitIInv
  <2>2. IInv /\ [Next]_vars => IInv' /\ [AnyCommit \/ Deliver]_vars
    <3> SUFFICES ASSUME IInv, [Next]_vars
                 PROVE  IInv' /\ [AnyCommit \/ Deliver]_vars
      OBVIOUS
    <3>1. rows \in Orders
      BY DEF IInv, Types
    <3>2. ASSUME NEW next \in Orders, NEW written \in SUBSET Range(next),
                 Commit(next, written, MovedIn(rows, next, written))
          PROVE  AnyCommit
      <4>1. MovedIn(rows, next, written) \in Movable(rows, next)
        BY <3>1, MovedIsMovable
      <4>2. rows' = next
        BY <3>2 DEF Commit
      <4> QED BY <3>2, <4>1, <4>2 DEF AnyCommit
    <3>3. CASE Next
      <4>1. AnyCommit \/ Deliver
        BY <3>2, <3>3 DEF Next
      <4> QED BY <4>1, CommitKeepsIInv, DeliverKeepsIInv
    <3>4. CASE UNCHANGED vars
      BY <3>4, StutterKeepsIInv
    <3> QED BY <3>3, <3>4
  <2> QED BY <2>1, <2>2, PTL
<1> QED BY <1>1, PTL DEF Spec, AnyMovesSpec

\* So whoever takes a change set of ChangeSets is led from the rows it has to the
\* rows there are, is told of every object that was written and of no other, and
\* of one commit is told what module Friends takes it to be told.
THEOREM AlwaysRight == Spec => [](SetApplies /\ SetReloads /\ ReportsChanges)
BY MovesAreAny, AlwaysApplies, AlwaysReloads, AlwaysReports, PTL
=============================================================================
