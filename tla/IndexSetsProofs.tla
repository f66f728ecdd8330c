--------------------------- MODULE IndexSetsProofs ---------------------------
(***************************************************************************)
(* What shifting and unshifting row numbers is, for every finite set of    *)
(* rows: unshift counts the rows that are not in the set, shift finds the  *)
(* row back, and deletions and insertions that follow one another are the  *)
(* deletions and insertions merge makes of them.                           *)
(***************************************************************************)
EXTENDS IndexSets, FiniteSetTheorems, FunctionTheorems, TLAPS

\* A set of naturals that is not empty has a least member.
LEMMA LeastRow ==
  ASSUME NEW S \in SUBSET Nat, S # {}
  PROVE  \E m \in S : \A n \in S : m <= n
<1> DEFINE before == {p \in Nat \X Nat : p[1] < p[2]}
<1>1. IsWellFoundedOn(before, Nat)
  BY NatLessThanWellFounded DEF OpToRel
<1>2. PICK m \in S : \A n \in S : ~ (<<n, m>> \in before)
  BY <1>1, WFMin
<1>3. \A n \in S : m <= n
  <2> TAKE n \in S
  <2>1. m \in Nat /\ n \in Nat /\ ~(n < m)
    BY <1>2
  <2> QED BY <2>1
<1> QED BY <1>3

\* The rows of S before row i are finitely many, at most i, and those of a
\* finite set at most all of it.
LEMMA BelowType ==
  ASSUME NEW S \in SUBSET Nat, NEW i \in Nat
  PROVE  /\ IsFiniteSet({j \in S : j < i})
         /\ Below(S, i) \in Nat /\ Below(S, i) <= i
         /\ IsFiniteSet(S) => Cardinality(S) \in Nat /\ Below(S, i) <= Cardinality(S)
         /\ S \subseteq 0 .. i - 1 => Below(S, i) = Cardinality(S)
<1> DEFINE B == {j \in S : j < i}
<1>1. IsFiniteSet(0 .. i - 1) /\ Cardinality(0 .. i - 1) = i
  BY FS_Interval
<1>2. B \in SUBSET (0 .. i - 1)
  <2>1. \A j \in B : j \in Nat /\ j < i
    OBVIOUS
  <2>2. \A j \in Nat : j < i => j \in 0 .. i - 1
    OBVIOUS
  <2> QED BY <2>1, <2>2
<1>3. IsFiniteSet(B) /\ Cardinality(B) <= i
  BY <1>1, <1>2, FS_Subset
<1>4. Cardinality(B) \in Nat
  BY <1>3, FS_CardinalityType
<1>5. ASSUME IsFiniteSet(S)
      PROVE  Cardinality(S) \in Nat /\ Cardinality(B) <= Cardinality(S)
  BY <1>5, FS_CardinalityType, FS_Subset
<1>6. ASSUME S \subseteq 0 .. i - 1
      PROVE  B = S
  <2>1. \A j \in 0 .. i - 1 : j < i
    OBVIOUS
  <2> QED BY <1>6, <2>1
<1> QED BY <1>3, <1>4, <1>5, <1>6 DEF Below

\* unshift gives a row number, not larger than the one it is given.
LEMMA UnshiftType ==
  ASSUME NEW S \in SUBSET Nat, NEW i \in Nat
  PROVE  Unshift(S, i) \in Nat /\ Unshift(S, i) <= i
<1>1. Below(S, i) \in Nat /\ Below(S, i) <= i
  BY BelowType
<1> QED BY <1>1 DEF Unshift

\* Between two rows unshift grows by the rows between them that are not in S.
LEMMA UnshiftGrows ==
  ASSUME NEW S \in SUBSET Nat, NEW i \in Nat, NEW j \in Nat, i <= j
  PROVE  /\ Unshift(S, i) <= Unshift(S, j)
         /\ i \notin S /\ i < j => Unshift(S, i) < Unshift(S, j)
         /\ j = i + 1 => Unshift(S, j) = IF i \in S THEN Unshift(S, i) ELSE Unshift(S, i) + 1
<1> DEFINE Bi == {k \in S : k < i}
           Bj == {k \in S : k < j}
           M  == {k \in S : i <= k /\ k < j}
<1>1. IsFiniteSet(Bi) /\ IsFiniteSet(Bj)
  BY BelowType
<1>2. M \in SUBSET Bj
  OBVIOUS
<1>3. IsFiniteSet(M)
  BY <1>1, <1>2, FS_Subset
<1>4. Bj = Bi \cup M /\ Bi \cap M = {}
  <2>1. \A k \in S : k < j <=> (k < i \/ (i <= k /\ k < j))
    OBVIOUS
  <2>2. \A k \in S : ~(k < i /\ i <= k)
    OBVIOUS
  <2> QED BY <2>1, <2>2
<1>5. Cardinality({}) = 0
  BY FS_EmptySet
<1>6. Cardinality(Bj) = Cardinality(Bi) + Cardinality(M) - Cardinality(Bi \cap M)
  BY <1>1, <1>3, <1>4, FS_Union
<1>7. Cardinality(Bj) = Cardinality(Bi) + Cardinality(M) - 0
  BY <1>4, <1>5, <1>6
<1>8. Cardinality(Bi) \in Nat /\ Cardinality(M) \in Nat /\ Cardinality(Bj) \in Nat
  BY <1>1, <1>3, FS_CardinalityType
<1>9. Unshift(S, i) = i - Cardinality(Bi) /\ Unshift(S, j) = j - Cardinality(Bj)
  BY DEF Unshift, Below
<1>10. Cardinality(M) <= j - i
  <2>1. M \in SUBSET (i .. j - 1)
    <3>1. \A k \in M : k \in Nat /\ i <= k /\ k < j
      OBVIOUS
    <3>2. \A k \in Nat : i <= k /\ k < j => k \in i .. j - 1
      OBVIOUS
    <3> QED BY <3>1, <3>2
  <2>2. IsFiniteSet(i .. j - 1) /\ Cardinality(i .. j - 1) = IF i > j - 1 THEN 0 ELSE (j - 1) - i + 1
    BY FS_Interval
  <2>3. Cardinality(M) <= Cardinality(i .. j - 1)
    BY <2>1, <2>2, FS_Subset
  <2> QED BY <2>2, <2>3, <1>8
<1>11. ASSUME i \notin S, i < j
       PROVE  Cardinality(M) <= j - i - 1
  <2>1. M \in SUBSET (i + 1 .. j - 1)
    <3>1. \A k \in M : k # i /\ i <= k /\ k < j /\ k \in Nat
      BY <1>11
    <3>2. \A k \in Nat : k # i /\ i <= k /\ k < j => k \in i + 1 .. j - 1
      OBVIOUS
    <3> QED BY <3>1, <3>2
  <2>2. i + 1 \in Int /\ j - 1 \in Int
    OBVIOUS
  <2>3. IsFiniteSet(i + 1 .. j - 1) /\ Cardinality(i + 1 .. j - 1) = IF i + 1 > j - 1 THEN 0 ELSE (j - 1) - (i + 1) + 1
    BY <2>2, FS_Interval
  <2>4. Cardinality(M) <= Cardinality(i + 1 .. j - 1)
    BY <2>1, <2>3, FS_Subset
  <2> QED BY <2>3, <2>4, <1>8, <1>11
<1>12. ASSUME i \in S, j = i + 1
       PROVE  Cardinality(M) = 1
  <2>1. M = {i}
    <3>1. \A k \in S : (i <= k /\ k < j) <=> k = i
      BY <1>12
    <3> QED BY <3>1, <1>12
  <2> QED BY <2>1, FS_Singleton
<1> HIDE DEF Bi, Bj, M
<1> QED BY <1>7, <1>8, <1>9, <1>10, <1>11, <1>12

\* Rows that are not in S keep their order, and stay apart.
LEMMA UnshiftOrders ==
  ASSUME NEW S \in SUBSET Nat, NEW i \in Nat \ S, NEW j \in Nat \ S
  PROVE  /\ i < j <=> Unshift(S, i) < Unshift(S, j)
         /\ i = j <=> Unshift(S, i) = Unshift(S, j)
<1>1. i < j => Unshift(S, i) < Unshift(S, j)
  BY UnshiftGrows
<1>2. j < i => Unshift(S, j) < Unshift(S, i)
  BY UnshiftGrows
<1>3. i = j => Unshift(S, i) = Unshift(S, j)
  OBVIOUS
<1>4. Unshift(S, i) \in Nat /\ Unshift(S, j) \in Nat
  BY UnshiftType
<1> QED BY <1>1, <1>2, <1>3, <1>4

\* Every row number is what unshift makes of a row that is not in S.
LEMMA UnshiftOnto ==
  ASSUME NEW S \in SUBSET Nat, IsFiniteSet(S), NEW k \in Nat
  PROVE  \E x \in k .. k + Cardinality(S) : x \notin S /\ Unshift(S, x) = k
<1> DEFINE n == Cardinality(S)
           T == {m \in Nat : k < Unshift(S, m + 1)}
<1>1. n \in Nat
  BY FS_CardinalityType
<1>2. k + n \in T
  <2>1. k + n + 1 \in Nat
    BY <1>1
  <2>2. Below(S, k + n + 1) \in Nat /\ Below(S, k + n + 1) <= n
    BY <2>1, BelowType
  <2>3. Unshift(S, k + n + 1) = (k + n + 1) - Below(S, k + n + 1)
    BY DEF Unshift
  <2>4. k < Unshift(S, k + n + 1)
    BY <2>2, <2>3, <1>1
  <2> QED BY <2>4, <1>1
<1>3. PICK m \in T : \A o \in T : m <= o
  <2>1. T \in SUBSET Nat /\ T # {}
    BY <1>2
  <2> QED BY <2>1, LeastRow
<1>4. m \in Nat /\ m <= k + n /\ k < Unshift(S, m + 1)
  BY <1>2, <1>3
<1>5. Unshift(S, m) \in Nat /\ Unshift(S, m) <= m /\ Unshift(S, m + 1) \in Nat
  BY <1>4, UnshiftType
<1>6. Unshift(S, m) <= k
  <2>1. CASE m = 0
    BY <2>1, <1>5
  <2>2. CASE m # 0
    <3>1. m - 1 \in Nat /\ (m - 1) + 1 = m /\ ~(m <= m - 1)
      BY <2>2, <1>4
    <3>2. m - 1 \notin T
      BY <3>1, <1>3
    <3>3. ~(k < Unshift(S, m))
      BY <3>1, <3>2
    <3> QED BY <3>3, <1>5
  <2> QED BY <2>1, <2>2
<1>7. Unshift(S, m + 1) = IF m \in S THEN Unshift(S, m) ELSE Unshift(S, m) + 1
  BY <1>4, UnshiftGrows
<1>8. m \notin S /\ Unshift(S, m) = k
  BY <1>4, <1>5, <1>6, <1>7
<1>9. m \in k .. k + n
  BY <1>1, <1>4, <1>5, <1>8
<1> QED BY <1>8, <1>9

\* shift finds that row: it is not in S, and unshift undoes it.
LEMMA ShiftIs ==
  ASSUME NEW S \in SUBSET Nat, IsFiniteSet(S), NEW k \in Nat
  PROVE  Shift(S, k) \in Nat \ S /\ Unshift(S, Shift(S, k)) = k
<1>1. PICK x \in k .. k + Cardinality(S) : x \notin S /\ Unshift(S, x) = k
  BY UnshiftOnto
<1>2. Cardinality(S) \in Nat
  BY FS_CardinalityType
<1>3. \A y \in k .. k + Cardinality(S) : y \in Nat /\ Below(S, y) \in Nat
  <2> TAKE y \in k .. k + Cardinality(S)
  <2>1. y \in Nat
    BY <1>2
  <2> QED BY <2>1, BelowType
<1>4. \A y \in k .. k + Cardinality(S) : y = k + Below(S, y) <=> Unshift(S, y) = k
  BY <1>3 DEF Unshift
<1>5. \E y \in k .. k + Cardinality(S) : y \notin S /\ y = k + Below(S, y)
  BY <1>1, <1>4
<1>6. /\ Shift(S, k) \in k .. k + Cardinality(S)
      /\ Shift(S, k) \notin S
      /\ Shift(S, k) = k + Below(S, Shift(S, k))
  BY <1>5 DEF Shift
<1>7. Unshift(S, Shift(S, k)) = k
  BY <1>4, <1>6
<1> QED BY <1>3, <1>6, <1>7

\* shift undoes unshift.
LEMMA ShiftBack ==
  ASSUME NEW S \in SUBSET Nat, IsFiniteSet(S), NEW x \in Nat \ S
  PROVE  Shift(S, Unshift(S, x)) = x
<1>1. Unshift(S, x) \in Nat
  BY UnshiftType
<1>2. /\ Shift(S, Unshift(S, x)) \in Nat \ S
      /\ Unshift(S, Shift(S, Unshift(S, x))) = Unshift(S, x)
  BY <1>1, ShiftIs
<1> DEFINE y == Shift(S, Unshift(S, x))
<1> HIDE DEF y
<1>3. y \in Nat \ S /\ Unshift(S, y) = Unshift(S, x)
  BY <1>2 DEF y
<1>4. y = x
  BY <1>3, UnshiftOrders
<1> QED BY <1>4 DEF y

\* Of n rows some of which are in S, unshift makes the numbers of the rest.
LEMMA UnshiftBound ==
  ASSUME NEW n \in Nat, NEW S \in SUBSET (0 .. n - 1), NEW x \in Nat \ S
  PROVE  /\ IsFiniteSet(S) /\ Cardinality(S) \in Nat /\ Cardinality(S) <= n
         /\ x < n <=> Unshift(S, x) < n - Cardinality(S)
<1>0. S \in SUBSET Nat
  OBVIOUS
<1>1. IsFiniteSet(0 .. n - 1)
  BY FS_Interval
<1>2. IsFiniteSet(S)
  BY <1>1, FS_Subset
<1>3. Cardinality(S) \in Nat /\ Below(S, n) = Cardinality(S) /\ Below(S, n) <= n
  BY <1>0, <1>2, BelowType
<1>4. Unshift(S, n) = n - Cardinality(S) /\ Unshift(S, n) \in Nat /\ Unshift(S, x) \in Nat
  BY <1>0, <1>3, UnshiftType DEF Unshift
<1>5. n \notin S
  OBVIOUS
<1>6. x < n <=> Unshift(S, x) < Unshift(S, n)
  BY <1>0, <1>5, UnshiftOrders
<1> QED BY <1>2, <1>3, <1>4, <1>6
-----------------------------------------------------------------------------
(* Deletions D and insertions I between two tables: which row is still which. *)

\* Row x before is row z after: neither is deleted nor inserted, and as many
\* rows that are not precede the one as the other.
Same(D, I, x, z) == x \in Nat \ D /\ z \in Nat \ I /\ Unshift(D, x) = Unshift(I, z)

\* A row is one row at most in the other table, and the order is kept.
LEMMA SameOnce ==
  ASSUME NEW D \in SUBSET Nat, NEW I \in SUBSET Nat,
         NEW x, NEW y, NEW z, NEW w, Same(D, I, x, z), Same(D, I, y, w)
  PROVE  /\ x = y <=> z = w
         /\ x < y <=> z < w
<1>1. /\ x \in Nat \ D /\ z \in Nat \ I /\ y \in Nat \ D /\ w \in Nat \ I
      /\ Unshift(D, x) = Unshift(I, z) /\ Unshift(D, y) = Unshift(I, w)
  BY DEF Same
<1>2. /\ x < y <=> Unshift(D, x) < Unshift(D, y)
      /\ x = y <=> Unshift(D, x) = Unshift(D, y)
  BY <1>1, UnshiftOrders
<1>3. /\ z < w <=> Unshift(I, z) < Unshift(I, w)
      /\ z = w <=> Unshift(I, z) = Unshift(I, w)
  BY <1>1, UnshiftOrders
<1> QED BY <1>1, <1>2, <1>3

\* Every row that is not deleted is a row after.
LEMMA SameAfter ==
  ASSUME NEW D \in SUBSET Nat, NEW I \in SUBSET Nat, IsFiniteSet(I), NEW x \in Nat \ D
  PROVE  Same(D, I, x, Shift(I, Unshift(D, x)))
<1>1. Unshift(D, x) \in Nat
  BY UnshiftType
<1>2. /\ Shift(I, Unshift(D, x)) \in Nat \ I
      /\ Unshift(I, Shift(I, Unshift(D, x))) = Unshift(D, x)
  BY <1>1, ShiftIs
<1> QED BY <1>2 DEF Same

\* Every row that is not inserted was a row before.
LEMMA SameBefore ==
  ASSUME NEW D \in SUBSET Nat, NEW I \in SUBSET Nat, IsFiniteSet(D), NEW z \in Nat \ I
  PROVE  Same(D, I, Shift(D, Unshift(I, z)), z)
<1>1. Unshift(I, z) \in Nat
  BY UnshiftType
<1>2. /\ Shift(D, Unshift(I, z)) \in Nat \ D
      /\ Unshift(D, Shift(D, Unshift(I, z))) = Unshift(I, z)
  BY <1>1, ShiftIs
<1> QED BY <1>2 DEF Same

\* unshift counts the rows before that are not in the set.
LEMMA UnshiftCounts ==
  ASSUME NEW S \in SUBSET Nat, NEW i \in Nat
  PROVE  /\ IsFiniteSet((0 .. i - 1) \ S)
         /\ Unshift(S, i) = Cardinality((0 .. i - 1) \ S)
<1>1. IsFiniteSet(0 .. i - 1) /\ Cardinality(0 .. i - 1) = i
  BY FS_Interval
<1>2. (0 .. i - 1) \cap S = {j \in S : j < i}
  <2>1. \A j \in Nat : j \in 0 .. i - 1 <=> j < i
    OBVIOUS
  <2>2. \A j \in 0 .. i - 1 : j \in Nat
    OBVIOUS
  <2> QED BY <2>1, <2>2
<1>3. /\ IsFiniteSet((0 .. i - 1) \ S)
      /\ Cardinality((0 .. i - 1) \ S) = Cardinality(0 .. i - 1) - Cardinality((0 .. i - 1) \cap S)
  BY <1>1, FS_Difference
<1> QED BY <1>1, <1>2, <1>3 DEF Unshift, Below

\* What takes the rows that are not in D to those that are not in I, all of them
\* and in order, takes every row to the one that is the same.
LEMMA OrderIsSame ==
  ASSUME NEW D \in SUBSET Nat, NEW I \in SUBSET Nat, NEW f \in [Nat \ D -> Nat \ I],
         \A x, y \in Nat \ D : x < y <=> f[x] < f[y],
         \A z \in Nat \ I : \E x \in Nat \ D : f[x] = z,
         NEW x \in Nat \ D
  PROVE  Same(D, I, x, f[x])
<1> DEFINE A == (0 .. x - 1) \ D
           C == (0 .. f[x] - 1) \ I
           g == [y \in A |-> f[y]]
<1>0. x \in Nat /\ f[x] \in Nat \ I
  OBVIOUS
<1>1. /\ IsFiniteSet(A) /\ Unshift(D, x) = Cardinality(A)
      /\ IsFiniteSet(C) /\ Unshift(I, f[x]) = Cardinality(C)
  BY <1>0, UnshiftCounts
<1>2. \A y : y \in A <=> y \in Nat \ D /\ y < x
  <2>1. \A y \in Nat : y \in 0 .. x - 1 <=> y < x
    BY <1>0
  <2>2. \A y \in 0 .. x - 1 : y \in Nat
    BY <1>0
  <2> QED BY <2>1, <2>2
<1>3. \A z : z \in C <=> z \in Nat \ I /\ z < f[x]
  <2>1. \A z \in Nat : z \in 0 .. f[x] - 1 <=> z < f[x]
    BY <1>0
  <2>2. \A z \in 0 .. f[x] - 1 : z \in Nat
    BY <1>0
  <2> QED BY <2>1, <2>2
<1> HIDE DEF A, C
<1>4. g \in [A -> C]
  BY <1>2, <1>3
<1>5. \A a, b \in A : g[a] = g[b] => a = b
  <2> TAKE a, b \in A
  <2>1. a \in Nat \ D /\ b \in Nat \ D /\ g[a] = f[a] /\ g[b] = f[b]
    BY <1>2
  <2>2. (a < b <=> f[a] < f[b]) /\ (b < a <=> f[b] < f[a]) /\ f[a] \in Nat /\ f[b] \in Nat
    BY <2>1
  <2> HIDE DEF g
  <2> QED BY <2>1, <2>2
<1>6. \A c \in C : \E a \in A : g[a] = c
  <2> TAKE c \in C
  <2>1. c \in Nat \ I /\ c < f[x]
    BY <1>3
  <2>2. PICK a \in Nat \ D : f[a] = c
    BY <2>1
  <2>3. a < x
    BY <2>1, <2>2
  <2>4. a \in A /\ g[a] = c
    BY <2>2, <2>3, <1>2
  <2> QED BY <2>4
<1> HIDE DEF g
<1>7. g \in Bijection(A, C)
  BY <1>4, <1>5, <1>6, Fun_IsBij
<1>8. Cardinality(A) = Cardinality(C)
  BY <1>1, <1>7, FS_Bijection DEF ExistsBijection
<1> QED BY <1>0, <1>1, <1>8 DEF Same

\* An injection's image has as many elements.
LEMMA ImageCount ==
  ASSUME NEW S, IsFiniteSet(S), NEW f, DOMAIN f = S, f = [s \in S |-> f[s]],
         \A a, b \in S : f[a] = f[b] => a = b
  PROVE  IsFiniteSet({f[s] : s \in S}) /\ Cardinality({f[s] : s \in S}) = Cardinality(S)
<1> DEFINE T == {f[s] : s \in S}
<1>1. f \in [S -> T]
  OBVIOUS
<1>2. \A t \in T : \E s \in S : f[s] = t
  OBVIOUS
<1> HIDE DEF T
<1>3. f \in Bijection(S, T)
  BY <1>1, <1>2, Fun_IsBij
<1>4. IsFiniteSet(T) /\ Cardinality(T) = Cardinality(S)
  BY <1>3, FS_Bijection DEF ExistsBijection
<1> QED BY <1>4 DEF T
-----------------------------------------------------------------------------
(* One step deletes D1 and inserts I1, the next deletes D2 and inserts I2.    *)

\* add_shifted_by adds the rows that are rows of D2 after the first step.
LEMMA AddedRows ==
  ASSUME NEW D1 \in SUBSET Nat, NEW I1 \in SUBSET Nat, NEW D2 \in SUBSET Nat,
         IsFiniteSet(D1), NEW x
  PROVE  x \in AddShiftedBy(D1, I1, D2) <=>
           x \in D1 \/ \E v \in D2 : Same(D1, I1, x, v)
<1>1. ASSUME NEW v \in D2 \ I1, x = Shift(D1, Unshift(I1, v))
      PROVE  Same(D1, I1, x, v)
  BY <1>1, SameBefore
<1>2. ASSUME NEW v \in D2, Same(D1, I1, x, v)
      PROVE  v \in D2 \ I1 /\ x = Shift(D1, Unshift(I1, v))
  <2>1. v \in D2 \ I1
    BY <1>2 DEF Same
  <2>2. Same(D1, I1, Shift(D1, Unshift(I1, v)), v)
    BY <2>1, SameBefore
  <2> QED BY <1>2, <2>1, <2>2, SameOnce
<1> QED BY <1>1, <1>2 DEF AddShiftedBy

\* What is inserted in the end was inserted last, or first and is still there.
LEMMA InsertedRows ==
  ASSUME NEW I1 \in SUBSET Nat, NEW D2 \in SUBSET Nat, NEW I2 \in SUBSET Nat,
         IsFiniteSet(I2), NEW z
  PROVE  z \in InsertAt(EraseAt(I1, D2), I2) <=>
           z \in I2 \/ \E u \in I1 : Same(D2, I2, u, z)
<1>1. ASSUME NEW u \in I1 \ D2, z = Shift(I2, Unshift(D2, u))
      PROVE  Same(D2, I2, u, z)
  BY <1>1, SameAfter
<1>2. ASSUME NEW u \in I1, Same(D2, I2, u, z)
      PROVE  u \in I1 \ D2 /\ z = Shift(I2, Unshift(D2, u))
  <2>1. u \in I1 \ D2
    BY <1>2 DEF Same
  <2>2. Same(D2, I2, u, Shift(I2, Unshift(D2, u)))
    BY <2>1, SameAfter
  <2> QED BY <1>2, <2>1, <2>2, SameOnce
<1>3. z \in InsertAt(EraseAt(I1, D2), I2) <=>
        z \in I2 \/ \E u \in I1 \ D2 : z = Shift(I2, Unshift(D2, u))
  BY DEF InsertAt, EraseAt
<1> QED BY <1>1, <1>2, <1>3

\* A row that is not deleted by both steps is one in between, and one after.
LEMMA MergedForward ==
  ASSUME NEW D1 \in SUBSET Nat, NEW I1 \in SUBSET Nat, IsFiniteSet(D1), IsFiniteSet(I1),
         NEW D2 \in SUBSET Nat, NEW I2 \in SUBSET Nat, IsFiniteSet(D2), IsFiniteSet(I2),
         NEW x \in Nat \ AddShiftedBy(D1, I1, D2)
  PROVE  \E y, z : /\ Same(D1, I1, x, y) /\ Same(D2, I2, y, z)
                   /\ z \in Nat \ InsertAt(EraseAt(I1, D2), I2)
<1>1. x \in Nat \ D1 /\ ~ \E v \in D2 : Same(D1, I1, x, v)
  BY AddedRows
<1>2. PICK y : Same(D1, I1, x, y)
  BY <1>1, SameAfter
<1>3. y \in Nat \ D2 /\ y \notin I1
  BY <1>1, <1>2 DEF Same
<1>4. PICK z : Same(D2, I2, y, z)
  BY <1>3, SameAfter
<1>5. z \in Nat \ I2
  BY <1>4 DEF Same
<1>6. ~ \E u \in I1 : Same(D2, I2, u, z)
  BY <1>3, <1>4, SameOnce
<1>7. z \notin InsertAt(EraseAt(I1, D2), I2)
  BY <1>5, <1>6, InsertedRows
<1> QED BY <1>2, <1>4, <1>5, <1>7

\* A row that is not inserted by both steps was one in between, and one before.
LEMMA MergedBackward ==
  ASSUME NEW D1 \in SUBSET Nat, NEW I1 \in SUBSET Nat, IsFiniteSet(D1), IsFiniteSet(I1),
         NEW D2 \in SUBSET Nat, NEW I2 \in SUBSET Nat, IsFiniteSet(D2), IsFiniteSet(I2),
         NEW z \in Nat \ InsertAt(EraseAt(I1, D2), I2)
  PROVE  \E x, y : /\ Same(D1, I1, x, y) /\ Same(D2, I2, y, z)
                   /\ x \in Nat \ AddShiftedBy(D1, I1, D2)
<1>1. z \in Nat \ I2 /\ ~ \E u \in I1 : Same(D2, I2, u, z)
  BY InsertedRows
<1>2. PICK y : Same(D2, I2, y, z)
  BY <1>1, SameBefore
<1>3. y \in Nat \ I1 /\ y \notin D2
  BY <1>1, <1>2 DEF Same
<1>4. PICK x : Same(D1, I1, x, y)
  BY <1>3, SameBefore
<1>5. x \in Nat \ D1
  BY <1>4 DEF Same
<1>6. ~ \E v \in D2 : Same(D1, I1, x, v)
  BY <1>3, <1>4, SameOnce
<1>7. x \notin AddShiftedBy(D1, I1, D2)
  BY <1>5, <1>6, AddedRows
<1> QED BY <1>2, <1>4, <1>5, <1>7

\* A set has as many members as two others together.
Together(S, A, B) == Cardinality(S) = Cardinality(A) + Cardinality(B)

\* The merged sets are finite, and what the second step deletes of the first's
\* insertions counts for neither.
LEMMA MergedCount ==
  ASSUME NEW D1 \in SUBSET Nat, NEW I1 \in SUBSET Nat, IsFiniteSet(D1), IsFiniteSet(I1),
         NEW D2 \in SUBSET Nat, NEW I2 \in SUBSET Nat, IsFiniteSet(D2), IsFiniteSet(I2)
  PROVE  /\ AddShiftedBy(D1, I1, D2) \in SUBSET Nat
         /\ IsFiniteSet(AddShiftedBy(D1, I1, D2))
         /\ Together(AddShiftedBy(D1, I1, D2), D1, D2 \ I1)
         /\ InsertAt(EraseAt(I1, D2), I2) \in SUBSET Nat
         /\ IsFiniteSet(InsertAt(EraseAt(I1, D2), I2))
         /\ Together(InsertAt(EraseAt(I1, D2), I2), I2, I1 \ D2)
<1> DEFINE f == [v \in D2 \ I1 |-> Shift(D1, Unshift(I1, v))]
           F == {f[v] : v \in D2 \ I1}
           g == [u \in I1 \ D2 |-> Shift(I2, Unshift(D2, u))]
           G == {g[u] : u \in I1 \ D2}
<1>1. AddShiftedBy(D1, I1, D2) = D1 \cup F
  BY DEF AddShiftedBy
<1>2. InsertAt(EraseAt(I1, D2), I2) = I2 \cup G
  BY DEF InsertAt, EraseAt
<1>3. IsFiniteSet(D2 \ I1) /\ IsFiniteSet(I1 \ D2)
  BY FS_Difference
<1>4. \A v \in D2 \ I1 : Same(D1, I1, f[v], v)
  BY SameBefore
<1>5. \A u \in I1 \ D2 : Same(D2, I2, u, g[u])
  BY SameAfter
<1>6. DOMAIN f = D2 \ I1 /\ f = [v \in D2 \ I1 |-> f[v]]
  OBVIOUS
<1>7. DOMAIN g = I1 \ D2 /\ g = [u \in I1 \ D2 |-> g[u]]
  OBVIOUS
<1> HIDE DEF f, g
<1>8. \A v, w \in D2 \ I1 : f[v] = f[w] => v = w
  BY <1>4, SameOnce
<1>9. \A u, w \in I1 \ D2 : g[u] = g[w] => u = w
  BY <1>5, SameOnce
<1>10. IsFiniteSet(F) /\ Cardinality(F) = Cardinality(D2 \ I1)
  BY <1>3, <1>6, <1>8, ImageCount
<1>11. IsFiniteSet(G) /\ Cardinality(G) = Cardinality(I1 \ D2)
  BY <1>3, <1>7, <1>9, ImageCount
<1>12. \A v \in D2 \ I1 : f[v] \in Nat \ D1
  BY <1>4 DEF Same
<1>13. \A u \in I1 \ D2 : g[u] \in Nat \ I2
  BY <1>5 DEF Same
<1>14. F \in SUBSET Nat /\ D1 \cap F = {} /\ G \in SUBSET Nat /\ I2 \cap G = {}
  BY <1>12, <1>13
<1> HIDE DEF F, G
<1>15. /\ IsFiniteSet(D1 \cup F) /\ IsFiniteSet(I2 \cup G)
       /\ Cardinality(D1 \cup F) = Cardinality(D1) + Cardinality(F) - Cardinality(D1 \cap F)
       /\ Cardinality(I2 \cup G) = Cardinality(I2) + Cardinality(G) - Cardinality(I2 \cap G)
  BY <1>10, <1>11, FS_Union
<1>16. /\ Cardinality({}) = 0 /\ Cardinality(D1) \in Nat /\ Cardinality(F) \in Nat
       /\ Cardinality(I2) \in Nat /\ Cardinality(G) \in Nat
  BY <1>10, <1>11, FS_EmptySet, FS_CardinalityType
<1>17. /\ Cardinality(D1 \cup F) = Cardinality(D1) + Cardinality(F)
       /\ Cardinality(I2 \cup G) = Cardinality(I2) + Cardinality(G)
  <2>1. Cardinality(D1 \cap F) = 0 /\ Cardinality(I2 \cap G) = 0
    BY <1>14, <1>16
  <2> QED BY <1>15, <1>16, <2>1
<1>18. D1 \cup F \in SUBSET Nat /\ I2 \cup G \in SUBSET Nat
  BY <1>14
<1>19. Together(D1 \cup F, D1, D2 \ I1) /\ Together(I2 \cup G, I2, I1 \ D2)
  BY <1>10, <1>11, <1>17 DEF Together
<1> QED BY <1>1, <1>2, <1>15, <1>18, <1>19

\* What merge makes of the deletions and insertions of two steps says of every
\* row what the two say one after the other.
THEOREM MergedIsBoth ==
  ASSUME NEW D1 \in SUBSET Nat, NEW I1 \in SUBSET Nat, IsFiniteSet(D1), IsFiniteSet(I1),
         NEW D2 \in SUBSET Nat, NEW I2 \in SUBSET Nat, IsFiniteSet(D2), IsFiniteSet(I2),
         NEW x, NEW z
  PROVE  Same(AddShiftedBy(D1, I1, D2), InsertAt(EraseAt(I1, D2), I2), x, z) <=>
           \E y : Same(D1, I1, x, y) /\ Same(D2, I2, y, z)
<1> DEFINE D == AddShiftedBy(D1, I1, D2)
           I == InsertAt(EraseAt(I1, D2), I2)
           Both(p, q) == \E y : Same(D1, I1, p, y) /\ Same(D2, I2, y, q)
           f == [p \in Nat \ D |-> CHOOSE q : q \in Nat \ I /\ Both(p, q)]
<1>1. D \in SUBSET Nat /\ I \in SUBSET Nat
  BY MergedCount
<1>2. \A p \in Nat \ D : \E q \in Nat \ I : Both(p, q)
  BY MergedForward
<1>3. \A q \in Nat \ I : \E p \in Nat \ D : Both(p, q)
  BY MergedBackward
<1>4. ASSUME NEW p, NEW q, Both(p, q)
      PROVE  p \in Nat \ D
  <2>1. PICK y : Same(D1, I1, p, y) /\ Same(D2, I2, y, q)
    BY <1>4
  <2>2. p \in Nat \ D1 /\ y \notin D2
    BY <2>1 DEF Same
  <2>3. ~ \E v \in D2 : Same(D1, I1, p, v)
    BY <2>1, <2>2, SameOnce
  <2>4. p \notin D
    BY <2>2, <2>3, AddedRows
  <2> QED BY <2>2, <2>4
<1>5. ASSUME NEW p, NEW q, NEW r, NEW t, Both(p, q), Both(r, t)
      PROVE  (p = r <=> q = t) /\ (p < r <=> q < t)
  <2>1. PICK y : Same(D1, I1, p, y) /\ Same(D2, I2, y, q)
    BY <1>5
  <2>2. PICK w : Same(D1, I1, r, w) /\ Same(D2, I2, w, t)
    BY <1>5
  <2>3. (p = r <=> y = w) /\ (p < r <=> y < w)
    BY <2>1, <2>2, SameOnce
  <2>4. (y = w <=> q = t) /\ (y < w <=> q < t)
    BY <2>1, <2>2, SameOnce
  <2> QED BY <2>3, <2>4
<1> HIDE DEF D, I, Both
<1>6. \A p \in Nat \ D : f[p] \in Nat \ I /\ Both(p, f[p])
  BY <1>2
<1>7. f \in [Nat \ D -> Nat \ I]
  BY <1>6
<1> HIDE DEF f
<1>8. \A p, r \in Nat \ D : p < r <=> f[p] < f[r]
  BY <1>5, <1>6
<1>9. \A q \in Nat \ I : \E p \in Nat \ D : f[p] = q
  BY <1>3, <1>5, <1>6
<1>10. \A p \in Nat \ D : Same(D, I, p, f[p])
  BY <1>1, <1>7, <1>8, <1>9, OrderIsSame
<1>11. Same(D, I, x, z) => Both(x, z)
  <2> HAVE Same(D, I, x, z)
  <2>1. x \in Nat \ D
    BY DEF Same
  <2>2. z = f[x]
    BY <1>1, <1>10, <2>1, SameOnce
  <2> QED BY <1>6, <2>1, <2>2
<1>12. Both(x, z) => Same(D, I, x, z)
  <2> HAVE Both(x, z)
  <2>1. x \in Nat \ D
    BY <1>4
  <2>2. z = f[x]
    BY <1>5, <1>6, <2>1
  <2> QED BY <1>10, <2>1, <2>2
<1> QED BY <1>11, <1>12 DEF D, I, Both
=============================================================================
