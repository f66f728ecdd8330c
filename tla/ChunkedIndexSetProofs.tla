------------------------ MODULE ChunkedIndexSetProofs ------------------------
(***************************************************************************)
(* Realm's IndexSet, for every size of a chunk and every bound on the row  *)
(* numbers: whatever operations follow on each other, the ranges in their  *)
(* chunks are laid as verify() wants them and hold the rows that IndexSets *)
(* says; and count is right but in one case.                               *)
(***************************************************************************)
EXTENDS ChunkedIndexSet, IndexSetsProofs, SequenceTheorems
-----------------------------------------------------------------------------
(* Sequences                                                               *)

\* What SequencesExt's InsertAt and RemoveAt make of a sequence, element by element.
LEMMA InsertedSeq ==
  ASSUME NEW X, NEW s \in Seq(X), NEW x \in X, NEW o \in 1 .. Len(s) + 1
  PROVE  /\ Seqs!InsertAt(s, o, x) \in Seq(X)
         /\ Len(Seqs!InsertAt(s, o, x)) = Len(s) + 1
         /\ \A k \in 1 .. Len(s) + 1 :
               Seqs!InsertAt(s, o, x)[k] = IF k < o THEN s[k] ELSE IF k = o THEN x ELSE s[k - 1]
<1> DEFINE n == Len(s)
           a == SubSeq(s, 1, o - 1)
           b == <<x>>
           c == SubSeq(s, o, n)
<1>1. n \in Nat /\ o \in Int /\ o >= 1 /\ o <= n + 1
  BY LenProperties
<1>2. \A k \in 1 .. n : s[k] \in X
  BY ElementOfSeq
<1>3. a \in Seq(X) /\ Len(a) = o - 1 /\ \A k \in 1 .. o - 1 : a[k] = s[k]
  <2>1. \A k \in 1 .. o - 1 : s[k] \in X
    BY <1>1, <1>2
  <2>2. /\ a \in Seq(X) /\ Len(a) = (IF 1 <= o - 1 THEN o - 1 - 1 + 1 ELSE 0)
        /\ \A k \in 1 .. o - 1 - 1 + 1 : a[k] = s[1 + k - 1]
    BY <1>1, <2>1, SubSeqProperties
  <2> HIDE DEF a
  <2>3. \A k \in 1 .. o - 1 : 1 + k - 1 = k /\ k \in 1 .. o - 1 - 1 + 1
    BY <1>1
  <2> QED BY <1>1, <2>2, <2>3
<1>4. b \in Seq(X) /\ Len(b) = 1 /\ b[1] = x
  OBVIOUS
<1>5. c \in Seq(X) /\ Len(c) = n - o + 1 /\ \A k \in 1 .. n - o + 1 : c[k] = s[o + k - 1]
  <2>1. \A k \in o .. n : s[k] \in X
    BY <1>1, <1>2
  <2>2. /\ c \in Seq(X) /\ Len(c) = (IF o <= n THEN n - o + 1 ELSE 0)
        /\ \A k \in 1 .. n - o + 1 : c[k] = s[o + k - 1]
    BY <1>1, <2>1, SubSeqProperties
  <2> HIDE DEF c
  <2> QED BY <1>1, <2>2
<1> HIDE DEF a, b, c
<1>6. /\ a \o b \in Seq(X) /\ Len(a \o b) = o
      /\ \A k \in 1 .. o : (a \o b)[k] = IF k <= o - 1 THEN a[k] ELSE b[k - (o - 1)]
  <2>1. /\ a \o b \in Seq(X) /\ Len(a \o b) = Len(a) + Len(b)
        /\ \A k \in 1 .. Len(a) + Len(b) : (a \o b)[k] = IF k <= Len(a) THEN a[k] ELSE b[k - Len(a)]
    BY <1>3, <1>4, ConcatProperties
  <2>2. Len(a) + Len(b) = o
    BY <1>1, <1>3, <1>4
  <2> QED BY <2>1, <2>2, <1>3
<1> DEFINE ab == a \o b
<1> HIDE DEF ab
<1>7. /\ ab \o c \in Seq(X) /\ Len(ab \o c) = n + 1
      /\ \A k \in 1 .. n + 1 : (ab \o c)[k] = IF k <= o THEN ab[k] ELSE c[k - o]
  <2>1. ab \in Seq(X) /\ Len(ab) = o
    BY <1>6 DEF ab
  <2>2. /\ ab \o c \in Seq(X) /\ Len(ab \o c) = Len(ab) + Len(c)
        /\ \A k \in 1 .. Len(ab) + Len(c) : (ab \o c)[k] = IF k <= Len(ab) THEN ab[k] ELSE c[k - Len(ab)]
    BY <1>5, <2>1, ConcatProperties
  <2>3. Len(ab) + Len(c) = n + 1
    BY <1>1, <1>5, <2>1
  <2> QED BY <2>1, <2>2, <2>3
<1>8. Seqs!InsertAt(s, o, x) = ab \o c
  BY DEF Seqs!InsertAt, ab, a, b, c
<1>9. ASSUME NEW k \in 1 .. n + 1
      PROVE  (ab \o c)[k] = IF k < o THEN s[k] ELSE IF k = o THEN x ELSE s[k - 1]
  <2>1. CASE k < o
    <3>1. k <= o /\ k \in 1 .. o /\ k <= o - 1 /\ k \in 1 .. o - 1
      BY <1>1, <2>1
    <3> QED BY <1>7, <1>6, <1>3, <3>1, <2>1 DEF ab
  <2>2. CASE k = o
    <3>1. k <= o /\ k \in 1 .. o /\ ~(k <= o - 1) /\ k - (o - 1) = 1
      BY <1>1, <2>2
    <3>2. (ab \o c)[k] = ab[k]
      BY <1>7, <3>1
    <3>3. ab[k] = b[k - (o - 1)]
      BY <1>6, <3>1 DEF ab
    <3> QED BY <1>4, <3>1, <3>2, <3>3, <2>2, <1>1
  <2>3. CASE k > o
    <3>1. ~(k <= o) /\ k - o \in 1 .. n - o + 1 /\ o + (k - o) - 1 = k - 1
      BY <1>1, <2>3
    <3> QED BY <1>7, <1>5, <3>1, <2>3, <1>1
  <2>4. k < o \/ k = o \/ k > o
    BY <1>1
  <2> QED BY <2>1, <2>2, <2>3, <2>4
<1> QED BY <1>7, <1>8, <1>9

\* The same of an element taken out.
LEMMA RemovedSeq ==
  ASSUME NEW X, NEW s \in Seq(X), NEW o \in 1 .. Len(s)
  PROVE  /\ Seqs!RemoveAt(s, o) \in Seq(X)
         /\ Len(Seqs!RemoveAt(s, o)) = Len(s) - 1
         /\ \A k \in 1 .. Len(s) - 1 : Seqs!RemoveAt(s, o)[k] = IF k < o THEN s[k] ELSE s[k + 1]
<1> DEFINE n == Len(s)
           a == SubSeq(s, 1, o - 1)
           c == SubSeq(s, o + 1, n)
<1>1. n \in Nat /\ o \in Int /\ o >= 1 /\ o <= n
  BY LenProperties
<1>2. \A k \in 1 .. n : s[k] \in X
  BY ElementOfSeq
<1>3. a \in Seq(X) /\ Len(a) = o - 1 /\ \A k \in 1 .. o - 1 : a[k] = s[k]
  <2>1. \A k \in 1 .. o - 1 : s[k] \in X
    BY <1>1, <1>2
  <2>2. /\ a \in Seq(X) /\ Len(a) = (IF 1 <= o - 1 THEN o - 1 - 1 + 1 ELSE 0)
        /\ \A k \in 1 .. o - 1 - 1 + 1 : a[k] = s[1 + k - 1]
    BY <1>1, <2>1, SubSeqProperties
  <2> HIDE DEF a
  <2>3. \A k \in 1 .. o - 1 : 1 + k - 1 = k /\ k \in 1 .. o - 1 - 1 + 1
    BY <1>1
  <2> QED BY <1>1, <2>2, <2>3
<1>5. c \in Seq(X) /\ Len(c) = n - o /\ \A k \in 1 .. n - o : c[k] = s[o + k]
  <2>1. \A k \in o + 1 .. n : s[k] \in X
    BY <1>1, <1>2
  <2>2. /\ c \in Seq(X) /\ Len(c) = (IF o + 1 <= n THEN n - (o + 1) + 1 ELSE 0)
        /\ \A k \in 1 .. n - (o + 1) + 1 : c[k] = s[o + 1 + k - 1]
    BY <1>1, <2>1, SubSeqProperties
  <2> HIDE DEF c
  <2>3. \A k \in 1 .. n - o : o + 1 + k - 1 = o + k /\ k \in 1 .. n - (o + 1) + 1
    BY <1>1
  <2> QED BY <1>1, <2>2, <2>3
<1> HIDE DEF a, c
<1>7. /\ a \o c \in Seq(X) /\ Len(a \o c) = n - 1
      /\ \A k \in 1 .. n - 1 : (a \o c)[k] = IF k <= o - 1 THEN a[k] ELSE c[k - (o - 1)]
  <2>2. /\ a \o c \in Seq(X) /\ Len(a \o c) = Len(a) + Len(c)
        /\ \A k \in 1 .. Len(a) + Len(c) : (a \o c)[k] = IF k <= Len(a) THEN a[k] ELSE c[k - Len(a)]
    BY <1>5, <1>3, ConcatProperties
  <2>3. Len(a) + Len(c) = n - 1
    BY <1>1, <1>3, <1>5
  <2> QED BY <1>3, <2>2, <2>3
<1>8. Seqs!RemoveAt(s, o) = a \o c
  BY DEF Seqs!RemoveAt, a, c
<1>9. ASSUME NEW k \in 1 .. n - 1
      PROVE  (a \o c)[k] = IF k < o THEN s[k] ELSE s[k + 1]
  <2>1. CASE k < o
    <3>1. k <= o - 1 /\ k \in 1 .. o - 1
      BY <1>1, <2>1
    <3> QED BY <1>7, <1>3, <3>1, <2>1
  <2>3. CASE k >= o
    <3>1. ~(k <= o - 1) /\ ~(k < o) /\ k - (o - 1) \in 1 .. n - o /\ o + (k - (o - 1)) = k + 1
      BY <1>1, <2>3
    <3> QED BY <1>7, <1>5, <3>1
  <2>4. k < o \/ k >= o
    BY <1>1
  <2> QED BY <2>1, <2>3, <2>4
<1> QED BY <1>7, <1>8, <1>9

\* The same of SubSeq within a sequence, and of a sequence with two elements in the
\* place of one.
LEMMA SubSequence ==
  ASSUME NEW X, NEW s \in Seq(X), NEW a \in Nat \ {0}, NEW b \in Nat, a <= b + 1, b <= Len(s)
  PROVE  /\ SubSeq(s, a, b) \in Seq(X)
         /\ Len(SubSeq(s, a, b)) = b - a + 1
         /\ \A k \in 1 .. b - a + 1 : SubSeq(s, a, b)[k] = s[a + k - 1]
<1>1. Len(s) \in Nat /\ a \in Int /\ b \in Int
  BY LenProperties
<1>2. \A k \in 1 .. Len(s) : s[k] \in X
  BY ElementOfSeq
<1>3. \A k \in a .. b : k \in 1 .. Len(s)
  BY <1>1
<1>4. /\ SubSeq(s, a, b) \in Seq(X)
      /\ Len(SubSeq(s, a, b)) = (IF a <= b THEN b - a + 1 ELSE 0)
      /\ \A k \in 1 .. b - a + 1 : SubSeq(s, a, b)[k] = s[a + k - 1]
  BY <1>1, <1>2, <1>3, SubSeqProperties
<1>5. (IF a <= b THEN b - a + 1 ELSE 0) = b - a + 1
  BY <1>1
<1> QED BY <1>4, <1>5

\* A sequence with two elements in the place of the one at c.
Doubled(s, c, x, y) == SubSeq(s, 1, c - 1) \o <<x, y>> \o SubSeq(s, c + 1, Len(s))

\* It has one element more, and those after c have moved on by one.
LEMMA DoubledSeq ==
  ASSUME NEW X, NEW s \in Seq(X), NEW x \in X, NEW y \in X, NEW c \in 1 .. Len(s)
  PROVE  /\ Doubled(s, c, x, y) \in Seq(X)
         /\ Len(Doubled(s, c, x, y)) = Len(s) + 1
         /\ \A k \in 1 .. Len(s) + 1 :
               Doubled(s, c, x, y)[k] = IF k < c THEN s[k] ELSE IF k = c THEN x ELSE IF k = c + 1 THEN y ELSE s[k - 1]
<1> DEFINE n == Len(s)
           p == SubSeq(s, 1, c - 1)
           q == <<x, y>>
           r == SubSeq(s, c + 1, n)
<1>1. n \in Nat /\ c \in Int /\ c >= 1 /\ c <= n
  BY LenProperties
<1>2. p \in Seq(X) /\ Len(p) = c - 1 /\ \A k \in 1 .. c - 1 : p[k] = s[k]
  <2>1. c - 1 \in Nat /\ 1 \in Nat \ {0} /\ 1 <= c - 1 + 1 /\ c - 1 <= Len(s)
    BY <1>1
  <2>2. p \in Seq(X) /\ Len(p) = c - 1 - 1 + 1 /\ \A k \in 1 .. c - 1 - 1 + 1 : p[k] = s[1 + k - 1]
    BY <2>1, SubSequence
  <2>3. c - 1 - 1 + 1 = c - 1 /\ \A k \in 1 .. c - 1 : 1 + k - 1 = k
    BY <1>1
  <2> HIDE DEF p
  <2> QED BY <2>2, <2>3
<1>3. q \in Seq(X) /\ Len(q) = 2 /\ q[1] = x /\ q[2] = y
  OBVIOUS
<1>4. r \in Seq(X) /\ Len(r) = n - c /\ \A k \in 1 .. n - c : r[k] = s[c + k]
  <2>1. c + 1 \in Nat \ {0} /\ n \in Nat /\ c + 1 <= n + 1 /\ n <= Len(s)
    BY <1>1
  <2>2. r \in Seq(X) /\ Len(r) = n - (c + 1) + 1 /\ \A k \in 1 .. n - (c + 1) + 1 : r[k] = s[c + 1 + k - 1]
    BY <2>1, SubSequence
  <2>3. n - (c + 1) + 1 = n - c /\ \A k \in 1 .. n - c : c + 1 + k - 1 = c + k
    BY <1>1
  <2> HIDE DEF r
  <2> QED BY <2>2, <2>3
<1> HIDE DEF p, q, r
<1> DEFINE pq == p \o q
<1>5. /\ pq \in Seq(X) /\ Len(pq) = c + 1
      /\ \A k \in 1 .. c + 1 : pq[k] = IF k <= c - 1 THEN p[k] ELSE q[k - (c - 1)]
  <2>1. /\ pq \in Seq(X) /\ Len(pq) = Len(p) + Len(q)
        /\ \A k \in 1 .. Len(p) + Len(q) : pq[k] = IF k <= Len(p) THEN p[k] ELSE q[k - Len(p)]
    BY <1>2, <1>3, ConcatProperties
  <2>2. Len(p) + Len(q) = c + 1
    BY <1>1, <1>2, <1>3
  <2> HIDE DEF pq
  <2> QED BY <1>2, <2>1, <2>2
<1> HIDE DEF pq
<1>6. /\ pq \o r \in Seq(X) /\ Len(pq \o r) = n + 1
      /\ \A k \in 1 .. n + 1 : (pq \o r)[k] = IF k <= c + 1 THEN pq[k] ELSE r[k - (c + 1)]
  <2>1. /\ pq \o r \in Seq(X) /\ Len(pq \o r) = Len(pq) + Len(r)
        /\ \A k \in 1 .. Len(pq) + Len(r) : (pq \o r)[k] = IF k <= Len(pq) THEN pq[k] ELSE r[k - Len(pq)]
    BY <1>4, <1>5, ConcatProperties
  <2>2. Len(pq) + Len(r) = n + 1
    BY <1>1, <1>4, <1>5
  <2> QED BY <1>5, <2>1, <2>2
<1>7. ASSUME NEW k \in 1 .. n + 1
      PROVE  (pq \o r)[k] = IF k < c THEN s[k] ELSE IF k = c THEN x ELSE IF k = c + 1 THEN y ELSE s[k - 1]
  <2>1. CASE k < c
    <3>1. k <= c + 1 /\ k \in 1 .. c + 1 /\ k <= c - 1 /\ k \in 1 .. c - 1
      BY <1>1, <2>1
    <3> QED BY <1>2, <1>5, <1>6, <3>1, <2>1
  <2>2. CASE k = c \/ k = c + 1
    <3>1. k <= c + 1 /\ k \in 1 .. c + 1 /\ ~(k <= c - 1) /\ ~(k < c)
      BY <1>1, <2>2
    <3>2. (pq \o r)[k] = q[k - (c - 1)]
      BY <1>5, <1>6, <3>1
    <3>3. (k = c => k - (c - 1) = 1) /\ (k = c + 1 => k - (c - 1) = 2 /\ k # c)
      BY <1>1
    <3> QED BY <1>3, <3>1, <3>2, <3>3, <2>2
  <2>3. CASE k > c + 1
    <3>1. ~(k <= c + 1) /\ k - (c + 1) \in 1 .. n - c /\ c + (k - (c + 1)) = k - 1 /\ k # c /\ k # c + 1 /\ ~(k < c)
      BY <1>1, <2>3
    <3> QED BY <1>4, <1>6, <3>1
  <2>4. k < c \/ k = c \/ k = c + 1 \/ k > c + 1
    BY <1>1
  <2> QED BY <2>1, <2>2, <2>3, <2>4
<1>8. Doubled(s, c, x, y) = pq \o r
  BY DEF Doubled, pq, p, q, r
<1> QED BY <1>6, <1>7, <1>8
-----------------------------------------------------------------------------
(* Ranges in a row                                                         *)

\* The row lies in the range.
In(r, i) == r[1] <= i /\ i < r[2]

\* Ranges that are not empty, ascend and do not touch; the rows they hold.
Ordered(d) ==
  /\ d \in Seq(Nat \X Nat)
  /\ Len(d) >= 1
  /\ \A o \in 1 .. Len(d) : d[o][1] < d[o][2]
  /\ \A o, n \in 1 .. Len(d) : o < n => d[o][2] < d[n][1]

\* The row lies in one of the ranges.
Holds(d, i) == \E o \in 1 .. Len(d) : In(d[o], i)

\* What Ordered says of every range: its bounds are numbers.
LEMMA OrderedType ==
  ASSUME NEW d, Ordered(d)
  PROVE  /\ Len(d) \in Nat \ {0} /\ d # <<>>
         /\ DOMAIN d = 1 .. Len(d)
         /\ \A o \in 1 .. Len(d) : d[o] \in Nat \X Nat /\ d[o][1] \in Nat /\ d[o][2] \in Nat
         /\ 1 \in 1 .. Len(d) /\ Len(d) \in 1 .. Len(d)
<1>1. d \in Seq(Nat \X Nat) /\ Len(d) >= 1
  BY DEF Ordered
<1>2. Len(d) \in Nat /\ DOMAIN d = 1 .. Len(d)
  BY <1>1, LenProperties
<1>3. Len(<<>>) = 0
  OBVIOUS
<1>4. \A o \in 1 .. Len(d) : d[o] \in Nat \X Nat
  BY <1>1, ElementOfSeq
<1>5. \A r \in Nat \X Nat : r[1] \in Nat /\ r[2] \in Nat
  OBVIOUS
<1>6. Len(d) \in Nat \ {0} /\ 1 \in 1 .. Len(d) /\ Len(d) \in 1 .. Len(d)
  BY <1>1, <1>2
<1>7. d # <<>>
  BY <1>1, <1>3
<1> QED BY <1>2, <1>4, <1>5, <1>6, <1>7

\* They all lie between the first bound and the last.
LEMMA OrderedBounds ==
  ASSUME NEW d, Ordered(d)
  PROVE  /\ \A o \in 1 .. Len(d) : d[1][1] <= d[o][1] /\ d[o][2] <= d[Len(d)][2]
         /\ d[1][1] < d[Len(d)][2]
         /\ \A i \in Nat : Holds(d, i) => d[1][1] <= i /\ i < d[Len(d)][2]
         /\ Holds(d, d[1][1]) /\ Holds(d, d[Len(d)][2] - 1)
<1> DEFINE n == Len(d)
<1>1. /\ n \in Nat \ {0} /\ 1 \in 1 .. n /\ n \in 1 .. n
      /\ \A o \in 1 .. n : d[o][1] \in Nat /\ d[o][2] \in Nat
  BY OrderedType
<1>2. /\ \A o \in 1 .. n : d[o][1] < d[o][2]
      /\ \A o, m \in 1 .. n : o < m => d[o][2] < d[m][1]
  BY DEF Ordered
<1> HIDE DEF n
<1>3. ASSUME NEW o \in 1 .. n
      PROVE  d[1][1] <= d[o][1] /\ d[o][2] <= d[n][2]
  <2>1. (o = 1 \/ 1 < o) /\ (o = n \/ o < n)
    BY <1>1
  <2>2. 1 < o => d[1][2] < d[o][1]
    BY <1>1, <1>2
  <2>3. o < n => d[o][2] < d[n][1]
    BY <1>1, <1>2
  <2>4. d[1][1] < d[1][2] /\ d[n][1] < d[n][2]
    BY <1>1, <1>2
  <2>5. d[1][1] \in Nat /\ d[1][2] \in Nat /\ d[n][1] \in Nat /\ d[n][2] \in Nat /\ d[o][1] \in Nat /\ d[o][2] \in Nat
    BY <1>1
  <2> QED BY <2>1, <2>2, <2>3, <2>4, <2>5
<1>4. d[1][1] < d[n][2]
  BY <1>1, <1>2, <1>3
<1>5. ASSUME NEW i \in Nat, Holds(d, i)
      PROVE  d[1][1] <= i /\ i < d[n][2]
  <2>1. PICK o \in 1 .. n : d[o][1] <= i /\ i < d[o][2]
    BY <1>5 DEF Holds, In, n
  <2>2. d[1][1] <= d[o][1] /\ d[o][2] <= d[n][2]
    BY <1>3
  <2>3. d[1][1] \in Nat /\ d[n][2] \in Nat /\ d[o][1] \in Nat /\ d[o][2] \in Nat
    BY <1>1
  <2> QED BY <2>1, <2>2, <2>3
<1>6. Holds(d, d[1][1])
  <2>1. d[1][1] <= d[1][1] /\ d[1][1] < d[1][2]
    BY <1>1, <1>2
  <2> QED BY <2>1, <1>1 DEF Holds, In, n
<1>7. Holds(d, d[n][2] - 1)
  <2>1. d[n][1] <= d[n][2] - 1 /\ d[n][2] - 1 < d[n][2]
    BY <1>1, <1>2
  <2> QED BY <2>1, <1>1 DEF Holds, In, n
<1> QED BY <1>3, <1>4, <1>5, <1>6, <1>7 DEF n

\* One range put in the place of another, between its neighbours.
LEMMA PutOrdered ==
  ASSUME NEW d, Ordered(d), NEW o \in 1 .. Len(d), NEW r \in Nat \X Nat, r[1] < r[2],
         \A k \in 1 .. Len(d) : k < o => d[k][2] < r[1],
         \A k \in 1 .. Len(d) : o < k => r[2] < d[k][1]
  PROVE  LET e == [d EXCEPT ![o] = r] IN
         /\ Ordered(e) /\ Len(e) = Len(d)
         /\ \A k \in 1 .. Len(d) : e[k] = IF k = o THEN r ELSE d[k]
         /\ \A i \in Nat : Holds(e, i) <=> (Holds(d, i) /\ ~In(d[o], i)) \/ In(r, i)
<1> DEFINE n == Len(d)
           e == [d EXCEPT ![o] = r]
<1>1. /\ n \in Nat \ {0} /\ d \in Seq(Nat \X Nat)
      /\ \A k \in 1 .. n : d[k][1] \in Nat /\ d[k][2] \in Nat
  BY OrderedType DEF Ordered
<1>2. e \in Seq(Nat \X Nat) /\ Len(e) = n /\ \A k \in 1 .. n : e[k] = IF k = o THEN r ELSE d[k]
  BY <1>1, ExceptSeq
<1>3. /\ \A k \in 1 .. n : d[k][1] < d[k][2]
      /\ \A k, m \in 1 .. n : k < m => d[k][2] < d[m][1]
  BY DEF Ordered
<1>4. r[1] \in Nat /\ r[2] \in Nat
  OBVIOUS
<1> HIDE DEF e
<1>5. \A k \in 1 .. n : e[k][1] < e[k][2]
  BY <1>2, <1>3
<1>6. ASSUME NEW k \in 1 .. n, NEW m \in 1 .. n, k < m
      PROVE  e[k][2] < e[m][1]
  <2>1. k # m
    BY <1>6, <1>1
  <2>2. CASE k = o
    BY <2>1, <2>2, <1>2, <1>6
  <2>3. CASE m = o
    BY <2>1, <2>3, <1>2, <1>6
  <2>4. CASE k # o /\ m # o
    BY <2>4, <1>2, <1>3, <1>6
  <2> QED BY <2>2, <2>3, <2>4
<1>7. Ordered(e)
  <2>1. Len(e) >= 1
    BY <1>1, <1>2
  <2> QED BY <1>2, <1>5, <1>6, <2>1 DEF Ordered
<1>8. ASSUME NEW i \in Nat
      PROVE  Holds(e, i) <=> (Holds(d, i) /\ ~In(d[o], i)) \/ In(r, i)
  <2>1. Holds(e, i) <=> \E k \in 1 .. n : In(e[k], i)
    BY <1>2 DEF Holds
  <2>2. In(r, i) => Holds(e, i)
    BY <2>1, <1>2 DEF n
  <2>3. ASSUME Holds(d, i), ~In(d[o], i)
        PROVE  Holds(e, i)
    <3>1. PICK k \in 1 .. n : In(d[k], i)
      BY <2>3 DEF Holds
    <3> QED BY <3>1, <2>1, <2>3, <1>2
  <2>4. ASSUME Holds(e, i), ~In(r, i)
        PROVE  Holds(d, i) /\ ~In(d[o], i)
    <3>1. PICK k \in 1 .. n : In(e[k], i)
      BY <2>1, <2>4
    <3>2. k # o /\ In(d[k], i)
      BY <3>1, <2>4, <1>2
    <3>3. k < o => d[k][2] < d[o][1]
      BY <1>3
    <3>4. o < k => d[o][2] < d[k][1]
      BY <1>3
    <3>5. k < o \/ o < k
      BY <3>2, <1>1
    <3>6. d[o][1] \in Nat /\ d[o][2] \in Nat /\ d[k][1] \in Nat /\ d[k][2] \in Nat
      BY <1>1
    <3>7. ~In(d[o], i)
      <4> DEFINE a == d[o][1]
                 b == d[o][2]
                 x == d[k][1]
                 y == d[k][2]
      <4>1. x <= i /\ i < y
        BY <3>2 DEF In
      <4>2. y < a \/ b < x
        BY <3>3, <3>4, <3>5
      <4>3. a \in Nat /\ b \in Nat /\ x \in Nat /\ y \in Nat
        BY <3>6
      <4> HIDE DEF a, b, x, y
      <4>4. ~(a <= i /\ i < b)
        BY <4>1, <4>2, <4>3
      <4> QED BY <4>4 DEF In, a, b
    <3> QED BY <3>2, <3>7 DEF Holds
  <2> QED BY <2>2, <2>3, <2>4
<1> QED BY <1>2, <1>7, <1>8 DEF e

\* A range put between others.
LEMMA InsertOrdered ==
  ASSUME NEW d, Ordered(d), NEW o \in 1 .. Len(d) + 1, NEW r \in Nat \X Nat, r[1] < r[2],
         \A k \in 1 .. Len(d) : k < o => d[k][2] < r[1],
         \A k \in 1 .. Len(d) : o <= k => r[2] < d[k][1]
  PROVE  LET e == Seqs!InsertAt(d, o, r) IN
         /\ Ordered(e) /\ Len(e) = Len(d) + 1
         /\ e[1] = (IF o = 1 THEN r ELSE d[1])
         /\ e[Len(e)] = (IF o = Len(d) + 1 THEN r ELSE d[Len(d)])
         /\ \A i \in Nat : Holds(e, i) <=> Holds(d, i) \/ In(r, i)
<1> DEFINE n == Len(d)
           e == Seqs!InsertAt(d, o, r)
<1>1. /\ n \in Nat \ {0} /\ d \in Seq(Nat \X Nat)
      /\ \A k \in 1 .. n : d[k][1] \in Nat /\ d[k][2] \in Nat
  BY OrderedType DEF Ordered
<1>2. /\ e \in Seq(Nat \X Nat) /\ Len(e) = n + 1
      /\ \A k \in 1 .. n + 1 : e[k] = IF k < o THEN d[k] ELSE IF k = o THEN r ELSE d[k - 1]
  <2> DEFINE X == Nat \X Nat
  <2>1. d \in Seq(X) /\ r \in X /\ o \in 1 .. Len(d) + 1
    BY <1>1
  <2> HIDE DEF n, e, X
  <2>2. /\ Seqs!InsertAt(d, o, r) \in Seq(X) /\ Len(Seqs!InsertAt(d, o, r)) = Len(d) + 1
        /\ \A k \in 1 .. Len(d) + 1 :
              Seqs!InsertAt(d, o, r)[k] = IF k < o THEN d[k] ELSE IF k = o THEN r ELSE d[k - 1]
    BY <2>1, InsertedSeq
  <2> QED BY <2>2 DEF n, e, X
<1>3. /\ \A k \in 1 .. n : d[k][1] < d[k][2]
      /\ \A k, m \in 1 .. n : k < m => d[k][2] < d[m][1]
  BY DEF Ordered
<1>4. r[1] \in Nat /\ r[2] \in Nat /\ o \in 1 .. n + 1
  OBVIOUS
<1> HIDE DEF e
<1>e1. \A k \in 1 .. n + 1 : k < o => k \in 1 .. n /\ e[k] = d[k]
  BY <1>1, <1>2, <1>4
<1>e2. \A k \in 1 .. n + 1 : o < k => k - 1 \in 1 .. n /\ o <= k - 1 /\ e[k] = d[k - 1]
  <2> TAKE k \in 1 .. n + 1
  <2> HAVE o < k
  <2>1. k - 1 \in 1 .. n /\ o <= k - 1 /\ ~(k < o) /\ k # o
    BY <1>1, <1>4
  <2> QED BY <2>1, <1>2
<1>e3. e[o] = r
  <2>1. ~(o < o)
    BY <1>4, <1>1
  <2> QED BY <1>2, <1>4, <2>1
<1>e4. \A k \in 1 .. n + 1 : k < o \/ k = o \/ o < k
  BY <1>1, <1>4
<1>5. \A k \in 1 .. n + 1 : e[k][1] < e[k][2]
  BY <1>e1, <1>e2, <1>e3, <1>e4, <1>3
<1>6. ASSUME NEW k \in 1 .. n + 1, NEW m \in 1 .. n + 1, k < m
      PROVE  e[k][2] < e[m][1]
  <2>1. CASE m < o
    <3>1. k < o
      BY <2>1, <1>6, <1>1, <1>4
    <3> QED BY <3>1, <2>1, <1>e1, <1>3, <1>6
  <2>2. CASE m = o
    BY <2>2, <1>6, <1>e1, <1>e3
  <2>3. CASE o < m /\ k < o
    <3>1. k \in 1 .. n /\ m - 1 \in 1 .. n /\ e[k] = d[k] /\ e[m] = d[m - 1]
      BY <2>3, <1>e1, <1>e2
    <3>2. k < m - 1
      BY <2>3, <1>4, <1>1
    <3> QED BY <3>1, <3>2, <1>3
  <2>4. CASE o < m /\ k = o
    BY <2>4, <1>e2, <1>e3
  <2>5. CASE o < m /\ o < k
    <3>1. k - 1 \in 1 .. n /\ m - 1 \in 1 .. n /\ e[k] = d[k - 1] /\ e[m] = d[m - 1]
      BY <2>5, <1>e2
    <3>2. k - 1 < m - 1
      BY <1>6, <1>4, <1>1
    <3> QED BY <3>1, <3>2, <1>3
  <2> QED BY <2>1, <2>2, <2>3, <2>4, <2>5, <1>e4
<1>7. Ordered(e)
  <2>1. Len(e) >= 1
    BY <1>1, <1>2
  <2> QED BY <1>2, <1>5, <1>6, <2>1 DEF Ordered
<1>8. e[1] = (IF o = 1 THEN r ELSE d[1]) /\ e[n + 1] = (IF o = n + 1 THEN r ELSE d[n])
  <2>1. 1 \in 1 .. n + 1 /\ n + 1 \in 1 .. n + 1 /\ (o = 1 \/ 1 < o) /\ (o = n + 1 \/ o < n + 1) /\ n + 1 - 1 = n
    BY <1>1, <1>4
  <2> QED BY <2>1, <1>e1, <1>e2, <1>e3
<1>9. ASSUME NEW i \in Nat
      PROVE  Holds(e, i) <=> Holds(d, i) \/ In(r, i)
  <2>1. Holds(e, i) <=> \E k \in 1 .. n + 1 : In(e[k], i)
    BY <1>2 DEF Holds
  <2>2. In(r, i) => Holds(e, i)
    BY <2>1, <1>e3, <1>4
  <2>3. ASSUME Holds(d, i)
        PROVE  Holds(e, i)
    <3>1. PICK k \in 1 .. n : In(d[k], i)
      BY <2>3 DEF Holds
    <3>2. CASE k < o
      <4>1. k \in 1 .. n + 1
        BY <1>1
      <4> QED BY <4>1, <3>1, <3>2, <1>e1, <2>1
    <3>3. CASE o <= k
      <4>1. k + 1 \in 1 .. n + 1 /\ o < k + 1 /\ k + 1 - 1 = k
        BY <3>3, <1>1, <1>4
      <4>2. e[k + 1] = d[k]
        BY <4>1, <1>e2
      <4> QED BY <4>1, <4>2, <3>1, <2>1
    <3>4. k < o \/ o <= k
      BY <1>1, <1>4
    <3> QED BY <3>2, <3>3, <3>4
  <2>4. ASSUME Holds(e, i)
        PROVE  Holds(d, i) \/ In(r, i)
    <3>1. PICK k \in 1 .. n + 1 : In(e[k], i)
      BY <2>1, <2>4
    <3> QED BY <3>1, <1>e1, <1>e2, <1>e3, <1>e4 DEF Holds
  <2> QED BY <2>2, <2>3, <2>4
<1> QED BY <1>2, <1>7, <1>8, <1>9 DEF e

\* A range taken away, and others left.
LEMMA RemoveOrdered ==
  ASSUME NEW d, Ordered(d), NEW o \in 1 .. Len(d), Len(d) # 1
  PROVE  LET e == Seqs!RemoveAt(d, o) IN
         /\ Ordered(e) /\ Len(e) = Len(d) - 1
         /\ d[1][1] <= e[1][1] /\ e[Len(e)][2] <= d[Len(d)][2]
         /\ \A k \in 1 .. Len(d) : k < o => e[k] = d[k]
         /\ \A i \in Nat : Holds(e, i) <=> Holds(d, i) /\ ~In(d[o], i)
<1> DEFINE n == Len(d)
           e == Seqs!RemoveAt(d, o)
<1>1. /\ n \in Nat \ {0} /\ d \in Seq(Nat \X Nat)
      /\ \A k \in 1 .. n : d[k][1] \in Nat /\ d[k][2] \in Nat
  BY OrderedType DEF Ordered
<1>2. /\ e \in Seq(Nat \X Nat) /\ Len(e) = n - 1
      /\ \A k \in 1 .. n - 1 : e[k] = IF k < o THEN d[k] ELSE d[k + 1]
  BY <1>1, RemovedSeq
<1>3. /\ \A k \in 1 .. n : d[k][1] < d[k][2]
      /\ \A k, m \in 1 .. n : k < m => d[k][2] < d[m][1]
  BY DEF Ordered
<1>4. o \in 1 .. n /\ n # 1
  OBVIOUS
<1>0. n \in Nat \ {0}
  BY <1>1
<1> HIDE DEF e
<1>e1. \A k \in 1 .. n - 1 : k < o => k \in 1 .. n /\ e[k] = d[k]
  <2> TAKE k \in 1 .. n - 1
  <2> HAVE k < o
  <2>1. k \in 1 .. n
    BY <1>0
  <2> QED BY <2>1, <1>2
<1>e2. \A k \in 1 .. n - 1 : o <= k => k + 1 \in 1 .. n /\ o < k + 1 /\ e[k] = d[k + 1]
  <2> TAKE k \in 1 .. n - 1
  <2> HAVE o <= k
  <2>1. k + 1 \in 1 .. n /\ o < k + 1 /\ ~(k < o)
    BY <1>1, <1>4
  <2> QED BY <2>1, <1>2
<1>e4. \A k \in 1 .. n - 1 : k < o \/ o <= k
  BY <1>1, <1>4
<1>5. \A k \in 1 .. n - 1 : e[k][1] < e[k][2]
  BY <1>e1, <1>e2, <1>e4, <1>3
<1>6. ASSUME NEW k \in 1 .. n - 1, NEW m \in 1 .. n - 1, k < m
      PROVE  e[k][2] < e[m][1]
  <2>1. CASE m < o
    <3>1. k < o
      BY <2>1, <1>6, <1>1, <1>4
    <3> QED BY <3>1, <2>1, <1>e1, <1>3, <1>6
  <2>3. CASE o <= m /\ k < o
    <3>1. k \in 1 .. n /\ m + 1 \in 1 .. n /\ e[k] = d[k] /\ e[m] = d[m + 1]
      BY <2>3, <1>e1, <1>e2
    <3>2. k < m + 1
      BY <2>3, <1>4, <1>1
    <3> QED BY <3>1, <3>2, <1>3
  <2>5. CASE o <= m /\ o <= k
    <3>1. k + 1 \in 1 .. n /\ m + 1 \in 1 .. n /\ e[k] = d[k + 1] /\ e[m] = d[m + 1]
      BY <2>5, <1>e2
    <3>2. k + 1 < m + 1
      BY <1>6, <1>4, <1>1
    <3> QED BY <3>1, <3>2, <1>3
  <2> QED BY <2>1, <2>3, <2>5, <1>e4
<1>7. Ordered(e)
  <2>1. Len(e) >= 1
    BY <1>1, <1>2, <1>4
  <2> QED BY <1>2, <1>5, <1>6, <2>1 DEF Ordered
<1>8. d[1][1] <= e[1][1] /\ e[n - 1][2] <= d[n][2]
  <2>1. 1 \in 1 .. n - 1 /\ n - 1 \in 1 .. n - 1
    <3> HIDE DEF n
    <3> QED BY <1>0, <1>4
  <2>2. \A k \in 1 .. n - 1 : \E m \in 1 .. n : e[k] = d[m]
    BY <1>e1, <1>e2, <1>e4
  <2> QED BY <2>1, <2>2, OrderedBounds
<1>9. ASSUME NEW i \in Nat
      PROVE  Holds(e, i) <=> Holds(d, i) /\ ~In(d[o], i)
  <2>1. Holds(e, i) <=> \E k \in 1 .. n - 1 : In(e[k], i)
    BY <1>2 DEF Holds
  <2>3. ASSUME Holds(d, i), ~In(d[o], i)
        PROVE  Holds(e, i)
    <3>1. PICK k \in 1 .. n : In(d[k], i)
      BY <2>3 DEF Holds
    <3>2. CASE k < o
      <4>1. k \in 1 .. n - 1
        BY <1>1, <3>2, <1>4
      <4> QED BY <4>1, <3>1, <3>2, <1>e1, <2>1
    <3>3. CASE o < k
      <4>1. k - 1 \in 1 .. n - 1 /\ o <= k - 1 /\ k - 1 + 1 = k
        BY <3>3, <1>1, <1>4
      <4> QED BY <4>1, <3>1, <1>e2, <2>1
    <3>4. k < o \/ o < k
      BY <1>1, <1>4, <2>3, <3>1
    <3> QED BY <3>2, <3>3, <3>4
  <2>4. ASSUME Holds(e, i)
        PROVE  Holds(d, i) /\ ~In(d[o], i)
    <3>1. PICK k \in 1 .. n - 1 : In(e[k], i)
      BY <2>1, <2>4
    <3>2. PICK m \in 1 .. n : In(d[m], i) /\ (m < o \/ o < m)
      BY <3>1, <1>e1, <1>e2, <1>e4
    <3>3. m < o => d[m][2] < d[o][1]
      BY <1>3
    <3>4. o < m => d[o][2] < d[m][1]
      BY <1>3
    <3>6. d[o][1] \in Nat /\ d[o][2] \in Nat /\ d[m][1] \in Nat /\ d[m][2] \in Nat
      BY <1>1
    <3>7. ~In(d[o], i)
      <4> DEFINE a == d[o][1]
                 b == d[o][2]
                 x == d[m][1]
                 y == d[m][2]
      <4>1. x <= i /\ i < y
        BY <3>2 DEF In
      <4>2. y < a \/ b < x
        BY <3>2, <3>3, <3>4
      <4>3. a \in Nat /\ b \in Nat /\ x \in Nat /\ y \in Nat
        BY <3>6
      <4> HIDE DEF a, b, x, y
      <4>4. ~(a <= i /\ i < b)
        BY <4>1, <4>2, <4>3
      <4> QED BY <4>4 DEF In, a, b
    <3> QED BY <3>2, <3>7 DEF Holds
  <2> QED BY <2>3, <2>4
<1>10. \A k \in 1 .. n : k < o => e[k] = d[k]
  <2> TAKE k \in 1 .. n
  <2> HAVE k < o
  <2>1. k \in 1 .. n - 1
    BY <1>1, <1>4
  <2> QED BY <2>1, <1>e1
<1> QED BY <1>2, <1>7, <1>8, <1>9, <1>10 DEF e

\* Append is InsertAt the end.
LEMMA AppendIsInsert ==
  ASSUME NEW X, NEW s \in Seq(X), NEW x \in X
  PROVE  Append(s, x) = Seqs!InsertAt(s, Len(s) + 1, x)
<1> DEFINE n == Len(s)
           t == Append(s, x)
           u == Seqs!InsertAt(s, n + 1, x)
<1>1. n \in Nat
  BY LenProperties
<1>2. t \in Seq(X) /\ Len(t) = n + 1 /\ \A k \in 1 .. n : t[k] = s[k]
  BY <1>1
<1>3. t[n + 1] = x
  BY <1>1
<1>4. n + 1 \in 1 .. Len(s) + 1
  BY <1>1
<1>5. /\ u \in Seq(X) /\ Len(u) = n + 1
      /\ \A k \in 1 .. n + 1 : u[k] = IF k < n + 1 THEN s[k] ELSE IF k = n + 1 THEN x ELSE s[k - 1]
  BY <1>4, InsertedSeq
<1> HIDE DEF t, u
<1>6. \A k \in 1 .. Len(t) : t[k] = u[k]
  <2> TAKE k \in 1 .. Len(t)
  <2>1. k \in 1 .. n + 1
    BY <1>2
  <2>2. CASE k < n + 1
    <3>1. k \in 1 .. n
      BY <2>1, <2>2, <1>1
    <3> QED BY <3>1, <2>1, <2>2, <1>2, <1>5
  <2>3. CASE k = n + 1
    <3>1. ~(k < n + 1)
      BY <2>3, <1>1
    <3> QED BY <3>1, <2>1, <2>3, <1>3, <1>5
  <2>4. k < n + 1 \/ k = n + 1
    BY <2>1, <1>1
  <2> QED BY <2>2, <2>3, <2>4
<1> QED BY <1>2, <1>5, <1>6, SeqEqual DEF t, u

\* Ranges in a row, cut out.
LEMMA SubOrdered ==
  ASSUME NEW d, Ordered(d), NEW a \in 1 .. Len(d), NEW b \in 1 .. Len(d), a <= b
  PROVE  LET e == SubSeq(d, a, b) IN
         /\ Ordered(e) /\ Len(e) = b - a + 1
         /\ e[1] = d[a] /\ e[Len(e)] = d[b]
         /\ \A k \in 1 .. b - a + 1 : e[k] = d[a + k - 1]
         /\ \A i \in Nat : Holds(e, i) <=> \E o \in a .. b : In(d[o], i)
<1> DEFINE n == Len(d)
           e == SubSeq(d, a, b)
           m == b - a + 1
<1>1. n \in Nat \ {0} /\ d \in Seq(Nat \X Nat)
  BY OrderedType DEF Ordered
<1>2. a \in Nat \ {0} /\ b \in Nat /\ a <= b + 1 /\ b <= Len(d) /\ m \in Nat \ {0}
  BY <1>1
<1>3. e \in Seq(Nat \X Nat) /\ Len(e) = m /\ \A k \in 1 .. m : e[k] = d[a + k - 1]
  <2> DEFINE X == Nat \X Nat
  <2>1. d \in Seq(X)
    BY <1>1
  <2> HIDE DEF X, n, m
  <2>2. /\ SubSeq(d, a, b) \in Seq(X) /\ Len(SubSeq(d, a, b)) = b - a + 1
        /\ \A k \in 1 .. b - a + 1 : SubSeq(d, a, b)[k] = d[a + k - 1]
    BY <2>1, <1>2, SubSequence
  <2> QED BY <2>2 DEF X, m
<1>4. /\ \A k \in 1 .. n : d[k][1] < d[k][2]
      /\ \A k, j \in 1 .. n : k < j => d[k][2] < d[j][1]
  BY DEF Ordered
<1>5. \A k \in 1 .. m : a + k - 1 \in 1 .. n /\ a + k - 1 \in a .. b
  BY <1>1, <1>2
<1>6. \A k, j \in 1 .. m : k < j => a + k - 1 < a + j - 1
  BY <1>1, <1>2
<1> HIDE DEF e, m
<1>7. Ordered(e)
  <2>1. Len(e) >= 1
    BY <1>2, <1>3
  <2>2. \A k \in 1 .. m : e[k][1] < e[k][2]
    BY <1>3, <1>4, <1>5
  <2>3. \A k, j \in 1 .. m : k < j => e[k][2] < e[j][1]
    BY <1>3, <1>4, <1>5, <1>6
  <2> QED BY <1>3, <2>1, <2>2, <2>3 DEF Ordered
<1>8. e[1] = d[a] /\ e[m] = d[b]
  <2>1. 1 \in 1 .. m /\ m \in 1 .. m /\ a + 1 - 1 = a /\ a + m - 1 = b
    BY <1>2 DEF m
  <2> QED BY <2>1, <1>3
<1>9. ASSUME NEW i \in Nat
      PROVE  Holds(e, i) <=> \E o \in a .. b : In(d[o], i)
  <2>1. Holds(e, i) <=> \E k \in 1 .. m : In(e[k], i)
    BY <1>3 DEF Holds
  <2>2. ASSUME Holds(e, i)
        PROVE  \E o \in a .. b : In(d[o], i)
    BY <2>1, <2>2, <1>3, <1>5
  <2>3. ASSUME NEW o \in a .. b, In(d[o], i)
        PROVE  Holds(e, i)
    <3>1. o - a + 1 \in 1 .. m /\ a + (o - a + 1) - 1 = o
      BY <1>2 DEF m
    <3>2. e[o - a + 1] = d[o]
      BY <3>1, <1>3
    <3> QED BY <3>1, <3>2, <2>1, <2>3
  <2> QED BY <2>2, <2>3
<1> QED BY <1>3, <1>7, <1>8, <1>9 DEF e, m
-----------------------------------------------------------------------------
(* Chunks                                                                  *)

\* What a chunk consists of.
ChunkSet == [data : Seq(Nat \X Nat), begin : Nat, end : Nat, count : Int]

\* A chunk as verify() wants it, but for its count.
Fits(k) ==
  /\ k \in ChunkSet
  /\ Ordered(k.data)
  /\ Len(k.data) <= MaxSize
  /\ k.begin = k.data[1][1]
  /\ k.end = k.data[Len(k.data)][2]

\* Chunks as verify() wants them, but for their counts: m_data between two calls.
Laid(s) ==
  /\ s \in Seq(ChunkSet)
  /\ \A c \in 1 .. Len(s) : Fits(s[c])
  /\ \A c, e \in 1 .. Len(s) : c < e => s[c].end < s[e].begin

\* The row lies in a range of one of the chunks.
Has(s, i) == \E c \in 1 .. Len(s) : Holds(s[c].data, i)

\* Chunk sums ranges up the way verify() wants it.
LEMMA ChunkFits ==
  ASSUME NEW d, Ordered(d), Len(d) <= MaxSize, NEW n \in Int
  PROVE  /\ Fits(Chunk(d, n))
         /\ Chunk(d, n).data = d /\ Chunk(d, n).count = n
         /\ Chunk(d, n).begin = d[1][1] /\ Chunk(d, n).end = d[Len(d)][2]
<1>1. d \in Seq(Nat \X Nat) /\ d[1][1] \in Nat /\ d[Len(d)][2] \in Nat
  BY OrderedType DEF Ordered
<1> DEFINE b == d[1][1]
           e == d[Len(d)][2]
           k == [data |-> d, begin |-> b, end |-> e, count |-> n]
<1>2. Chunk(d, n) = k
  BY DEF Chunk
<1>3. k.data = d /\ k.begin = b /\ k.end = e /\ k.count = n
  OBVIOUS
<1>4. k \in ChunkSet
  <2> HIDE DEF b, e
  <2>1. b \in Nat /\ e \in Nat
    BY <1>1 DEF b, e
  <2> DEFINE X == Seq(Nat \X Nat)
  <2>2. d \in X
    BY <1>1
  <2> HIDE DEF X
  <2>3. k \in [data : X, begin : Nat, end : Nat, count : Int]
    BY <2>1, <2>2
  <2> QED BY <2>3 DEF ChunkSet, X
<1> HIDE DEF k
<1> QED BY <1>2, <1>3, <1>4 DEF Fits

\* What a chunk that fits has, where its rows lie, and that its bounds' rows are there.
LEMMA FitsType ==
  ASSUME NEW k, Fits(k)
  PROVE  /\ k \in ChunkSet /\ Ordered(k.data) /\ Len(k.data) \in 1 .. MaxSize
         /\ k.begin \in Nat /\ k.end \in Nat /\ k.count \in Int /\ k.begin < k.end
         /\ \A i \in Nat : Holds(k.data, i) => k.begin <= i /\ i < k.end
         /\ Holds(k.data, k.begin) /\ Holds(k.data, k.end - 1)
         /\ k.begin = k.data[1][1] /\ k.end = k.data[Len(k.data)][2]
<1>1. k \in ChunkSet /\ Ordered(k.data) /\ Len(k.data) <= MaxSize
  BY DEF Fits
<1>2. Len(k.data) \in Nat \ {0}
  BY <1>1, OrderedType
<1>3. k.begin \in Nat /\ k.end \in Nat /\ k.count \in Int
  BY <1>1 DEF ChunkSet
<1>4. k.begin = k.data[1][1] /\ k.end = k.data[Len(k.data)][2]
  BY DEF Fits
<1>5. Len(k.data) \in 1 .. MaxSize
  BY <1>1, <1>2, MaxSizeAssumption
<1> QED BY <1>1, <1>3, <1>4, <1>5, OrderedBounds

\* The same of every chunk of those that are laid.
LEMMA LaidType ==
  ASSUME NEW s, Laid(s)
  PROVE  /\ Len(s) \in Nat /\ s \in Seq(ChunkSet) /\ DOMAIN s = 1 .. Len(s)
         /\ \A c \in 1 .. Len(s) : Fits(s[c])
         /\ \A c, e \in 1 .. Len(s) : c < e => s[c].end < s[e].begin
         /\ \A c \in 1 .. Len(s) : /\ s[c].begin \in Nat /\ s[c].end \in Nat /\ s[c].begin < s[c].end
                                   /\ \A i \in Nat : Holds(s[c].data, i) => s[c].begin <= i /\ i < s[c].end
<1>1. s \in Seq(ChunkSet)
  BY DEF Laid
<1>2. Len(s) \in Nat /\ DOMAIN s = 1 .. Len(s)
  BY <1>1, LenProperties
<1>3. \A c \in 1 .. Len(s) : Fits(s[c])
  BY DEF Laid
<1>4. \A c \in 1 .. Len(s) : /\ s[c].begin \in Nat /\ s[c].end \in Nat /\ s[c].begin < s[c].end
                             /\ \A i \in Nat : Holds(s[c].data, i) => s[c].begin <= i /\ i < s[c].end
  BY <1>3, FitsType
<1> QED BY <1>1, <1>2, <1>3, <1>4 DEF Laid

\* A chunk put in the place of another.
LEMMA PutChunk ==
  ASSUME NEW s, Laid(s), NEW c \in 1 .. Len(s), NEW k, Fits(k),
         \A a \in 1 .. Len(s) : a < c => s[a].end < k.begin,
         \A a \in 1 .. Len(s) : c < a => k.end < s[a].begin
  PROVE  LET t == [s EXCEPT ![c] = k] IN
         /\ Laid(t) /\ Len(t) = Len(s)
         /\ \A a \in 1 .. Len(s) : t[a] = IF a = c THEN k ELSE s[a]
         /\ \A i \in Nat : Has(t, i) <=> (Has(s, i) /\ ~Holds(s[c].data, i)) \/ Holds(k.data, i)
<1> DEFINE n == Len(s)
           t == [s EXCEPT ![c] = k]
<1>1. /\ n \in Nat /\ s \in Seq(ChunkSet)
      /\ \A a \in 1 .. n : Fits(s[a])
      /\ \A a, e \in 1 .. n : a < e => s[a].end < s[e].begin
  BY LaidType
<1>2. k \in ChunkSet
  BY FitsType
<1>3. t \in Seq(ChunkSet) /\ Len(t) = n /\ \A a \in 1 .. n : t[a] = IF a = c THEN k ELSE s[a]
  BY <1>1, <1>2, ExceptSeq
<1> HIDE DEF t
<1>4. \A a \in 1 .. n : Fits(t[a])
  BY <1>1, <1>3
<1>5. ASSUME NEW a \in 1 .. n, NEW e \in 1 .. n, a < e
      PROVE  t[a].end < t[e].begin
  <2>1. a # e
    BY <1>5, <1>1
  <2>2. CASE a = c
    BY <2>1, <2>2, <1>3, <1>5
  <2>3. CASE e = c
    BY <2>1, <2>3, <1>3, <1>5
  <2>4. CASE a # c /\ e # c
    BY <2>4, <1>1, <1>3, <1>5
  <2> QED BY <2>2, <2>3, <2>4
<1>6. Laid(t)
  BY <1>3, <1>4, <1>5 DEF Laid
<1>7. ASSUME NEW i \in Nat
      PROVE  Has(t, i) <=> (Has(s, i) /\ ~Holds(s[c].data, i)) \/ Holds(k.data, i)
  <2>1. Has(t, i) <=> \E a \in 1 .. n : Holds(t[a].data, i)
    BY <1>3 DEF Has
  <2>2. Holds(k.data, i) => Has(t, i)
    BY <2>1, <1>3
  <2>3. ASSUME Has(s, i), ~Holds(s[c].data, i)
        PROVE  Has(t, i)
    <3>1. PICK a \in 1 .. n : Holds(s[a].data, i)
      BY <2>3 DEF Has
    <3> QED BY <3>1, <2>1, <2>3, <1>3
  <2>4. ASSUME Has(t, i), ~Holds(k.data, i)
        PROVE  Has(s, i) /\ ~Holds(s[c].data, i)
    <3>1. PICK a \in 1 .. n : Holds(t[a].data, i)
      BY <2>1, <2>4
    <3>2. a # c /\ Holds(s[a].data, i)
      BY <3>1, <2>4, <1>3
    <3>3. s[a].begin <= i /\ i < s[a].end
      BY <3>2, LaidType
    <3>4. Holds(s[c].data, i) => s[c].begin <= i /\ i < s[c].end
      BY LaidType
    <3>5. /\ a < c => s[a].end < s[c].begin
          /\ c < a => s[c].end < s[a].begin
      BY <1>1
    <3>6. a < c \/ c < a
      BY <3>2, <1>1
    <3>7. s[a].begin \in Nat /\ s[a].end \in Nat /\ s[c].begin \in Nat /\ s[c].end \in Nat
      BY LaidType
    <3>8. ~(s[c].begin <= i /\ i < s[c].end)
      BY <3>3, <3>5, <3>6, <3>7
    <3> QED BY <3>2, <3>4, <3>8 DEF Has
  <2> QED BY <2>2, <2>3, <2>4
<1> QED BY <1>3, <1>6, <1>7 DEF t

\* A chunk taken away.
LEMMA RemoveChunk ==
  ASSUME NEW s, Laid(s), NEW c \in 1 .. Len(s)
  PROVE  LET t == Seqs!RemoveAt(s, c) IN
         /\ Laid(t) /\ Len(t) = Len(s) - 1
         /\ \A a \in 1 .. Len(s) : a < c => t[a] = s[a]
         /\ \A i \in Nat : Has(t, i) <=> Has(s, i) /\ ~Holds(s[c].data, i)
<1> DEFINE n == Len(s)
           t == Seqs!RemoveAt(s, c)
<1>1. /\ s \in Seq(ChunkSet)
      /\ \A a \in 1 .. n : Fits(s[a])
      /\ \A a, e \in 1 .. n : a < e => s[a].end < s[e].begin
  BY LaidType
<1>0. n \in Nat
  BY LaidType
<1>2. t \in Seq(ChunkSet) /\ Len(t) = n - 1 /\ \A a \in 1 .. n - 1 : t[a] = IF a < c THEN s[a] ELSE s[a + 1]
  BY <1>1, RemovedSeq
<1> HIDE DEF t
<1>3. \A a \in 1 .. n - 1 : a < c => a \in 1 .. n /\ t[a] = s[a]
  <2> TAKE a \in 1 .. n - 1
  <2> HAVE a < c
  <2>1. a \in 1 .. n
    BY <1>0
  <2> QED BY <2>1, <1>2
<1>4. \A a \in 1 .. n - 1 : c <= a => a + 1 \in 1 .. n /\ c < a + 1 /\ t[a] = s[a + 1]
  <2> TAKE a \in 1 .. n - 1
  <2> HAVE c <= a
  <2>1. a + 1 \in 1 .. n /\ c < a + 1 /\ ~(a < c)
    BY <1>0
  <2> QED BY <2>1, <1>2
<1>5. \A a \in 1 .. n - 1 : a < c \/ c <= a
  BY <1>0
<1>6. \A a \in 1 .. n - 1 : Fits(t[a])
  BY <1>1, <1>3, <1>4, <1>5
<1>7. ASSUME NEW a \in 1 .. n - 1, NEW e \in 1 .. n - 1, a < e
      PROVE  t[a].end < t[e].begin
  <2>1. CASE e < c
    <3>1. a < c
      BY <2>1, <1>7, <1>0
    <3> QED BY <3>1, <2>1, <1>3, <1>1, <1>7
  <2>2. CASE a < c /\ c <= e
    <3>1. a \in 1 .. n /\ e + 1 \in 1 .. n /\ t[a] = s[a] /\ t[e] = s[e + 1]
      BY <2>2, <1>3, <1>4
    <3>2. a < e + 1
      BY <1>7, <1>0
    <3> QED BY <3>1, <3>2, <1>1
  <2>3. CASE c <= a /\ c <= e
    <3>1. a + 1 \in 1 .. n /\ e + 1 \in 1 .. n /\ t[a] = s[a + 1] /\ t[e] = s[e + 1]
      BY <2>3, <1>4
    <3>2. a + 1 < e + 1
      BY <1>7, <1>0
    <3> QED BY <3>1, <3>2, <1>1
  <2> QED BY <2>1, <2>2, <2>3, <1>5
<1>8. Laid(t)
  BY <1>2, <1>6, <1>7 DEF Laid
<1>9. ASSUME NEW i \in Nat
      PROVE  Has(t, i) <=> Has(s, i) /\ ~Holds(s[c].data, i)
  <2>1. Has(t, i) <=> \E a \in 1 .. n - 1 : Holds(t[a].data, i)
    BY <1>2 DEF Has
  <2>2. ASSUME Has(s, i), ~Holds(s[c].data, i)
        PROVE  Has(t, i)
    <3>1. PICK a \in 1 .. n : Holds(s[a].data, i)
      BY <2>2 DEF Has
    <3>2. CASE a < c
      <4>1. a \in 1 .. n - 1
        BY <1>0, <3>2
      <4> QED BY <4>1, <3>1, <3>2, <1>3, <2>1
    <3>3. CASE c < a
      <4>1. a - 1 \in 1 .. n - 1 /\ c <= a - 1 /\ a - 1 + 1 = a
        BY <1>0, <3>3
      <4>2. t[a - 1] = s[a]
        BY <4>1, <1>4
      <4> QED BY <4>1, <4>2, <3>1, <2>1
    <3>4. a # c
      BY <3>1, <2>2
    <3>5. a < c \/ c < a
      BY <3>4, <1>0
    <3> QED BY <3>2, <3>3, <3>5
  <2>3. ASSUME Has(t, i)
        PROVE  Has(s, i) /\ ~Holds(s[c].data, i)
    <3>1. PICK b \in 1 .. n - 1 : Holds(t[b].data, i)
      BY <2>1, <2>3
    <3>2. PICK a \in 1 .. n : Holds(s[a].data, i) /\ (a < c \/ c < a)
      BY <3>1, <1>3, <1>4, <1>5
    <3>3. s[a].begin <= i /\ i < s[a].end
      BY <3>2, LaidType
    <3>4. Holds(s[c].data, i) => s[c].begin <= i /\ i < s[c].end
      BY LaidType
    <3>5. /\ a < c => s[a].end < s[c].begin
          /\ c < a => s[c].end < s[a].begin
      BY <1>1
    <3>7. s[a].begin \in Nat /\ s[a].end \in Nat /\ s[c].begin \in Nat /\ s[c].end \in Nat
      BY LaidType
    <3>8. ~(s[c].begin <= i /\ i < s[c].end)
      BY <3>2, <3>3, <3>5, <3>7
    <3> QED BY <3>2, <3>4, <3>8 DEF Has
  <2> QED BY <2>2, <2>3
<1>10. \A a \in 1 .. n : a < c => t[a] = s[a]
  <2> TAKE a \in 1 .. n
  <2> HAVE a < c
  <2>1. a \in 1 .. n - 1
    BY <1>0
  <2> QED BY <2>1, <1>3
<1> QED BY <1>2, <1>8, <1>9, <1>10 DEF t

\* Two chunks put in the place of one that holds the same rows.
LEMMA DoubleChunk ==
  ASSUME NEW s, Laid(s), NEW c \in 1 .. Len(s), NEW x, Fits(x), NEW y, Fits(y),
         x.end < y.begin, x.begin = s[c].begin, y.end = s[c].end,
         \A i \in Nat : Holds(s[c].data, i) <=> Holds(x.data, i) \/ Holds(y.data, i)
  PROVE  LET t == Doubled(s, c, x, y) IN
         /\ Laid(t) /\ Len(t) = Len(s) + 1
         /\ t[c] = x /\ t[c + 1] = y
         /\ \A a \in 1 .. Len(s) : a < c => t[a] = s[a]
         /\ \A a \in 1 .. Len(s) : c < a => t[a + 1] = s[a]
         /\ \A i \in Nat : Has(t, i) <=> Has(s, i)
<1> DEFINE n == Len(s)
           t == Doubled(s, c, x, y)
<1>0. n \in Nat /\ c \in 1 .. n
  BY LaidType
<1>1. /\ s \in Seq(ChunkSet)
      /\ \A a \in 1 .. n : Fits(s[a])
      /\ \A a, e \in 1 .. n : a < e => s[a].end < s[e].begin
  BY LaidType
<1>2. x \in ChunkSet /\ y \in ChunkSet
  BY FitsType
<1>3. /\ t \in Seq(ChunkSet) /\ Len(t) = n + 1
      /\ \A k \in 1 .. n + 1 :
            t[k] = IF k < c THEN s[k] ELSE IF k = c THEN x ELSE IF k = c + 1 THEN y ELSE s[k - 1]
  <2> HIDE DEF n, t
  <2>1. /\ Doubled(s, c, x, y) \in Seq(ChunkSet) /\ Len(Doubled(s, c, x, y)) = Len(s) + 1
        /\ \A k \in 1 .. Len(s) + 1 :
              Doubled(s, c, x, y)[k] =
                 IF k < c THEN s[k] ELSE IF k = c THEN x ELSE IF k = c + 1 THEN y ELSE s[k - 1]
    BY <1>1, <1>2, DoubledSeq
  <2> QED BY <2>1 DEF n, t
<1> HIDE DEF t
<1>4. \A a \in 1 .. n + 1 : a < c => a \in 1 .. n /\ t[a] = s[a]
  <2> TAKE a \in 1 .. n + 1
  <2> HAVE a < c
  <2>1. a \in 1 .. n
    BY <1>0
  <2> QED BY <2>1, <1>3
<1>5. t[c] = x /\ t[c + 1] = y
  <2>1. c \in 1 .. n + 1 /\ ~(c < c) /\ c + 1 \in 1 .. n + 1 /\ ~(c + 1 < c) /\ c + 1 # c
    BY <1>0
  <2> QED BY <2>1, <1>3
<1>6. \A a \in 1 .. n + 1 : c + 1 < a => a - 1 \in 1 .. n /\ c < a - 1 /\ t[a] = s[a - 1]
  <2> TAKE a \in 1 .. n + 1
  <2> HAVE c + 1 < a
  <2>1. a - 1 \in 1 .. n /\ c < a - 1 /\ ~(a < c) /\ a # c /\ a # c + 1
    BY <1>0
  <2> QED BY <2>1, <1>3
<1>7. \A a \in 1 .. n + 1 : a < c \/ a = c \/ a = c + 1 \/ c + 1 < a
  BY <1>0
<1>8. \A a \in 1 .. n + 1 : Fits(t[a])
  BY <1>1, <1>4, <1>5, <1>6, <1>7
<1>9. ASSUME NEW a \in 1 .. n + 1, NEW e \in 1 .. n + 1, a < e
      PROVE  t[a].end < t[e].begin
  <2>0. /\ x.begin \in Nat /\ x.end \in Nat /\ y.begin \in Nat /\ y.end \in Nat
        /\ x.begin < x.end /\ y.begin < y.end
    BY FitsType
  <2>1. CASE e < c
    <3>1. a < c
      BY <2>1, <1>9, <1>0
    <3> QED BY <3>1, <2>1, <1>4, <1>1, <1>9
  <2>2. CASE a < c /\ ~(e < c)
    <3>1. a \in 1 .. n /\ t[a] = s[a]
      BY <2>2, <1>4
    <3>2. s[a].end < s[c].begin /\ s[a].end \in Nat
      BY <3>1, <2>2, <1>1, LaidType
    <3>3. CASE e = c
      BY <3>1, <3>2, <3>3, <1>5
    <3>4. CASE e = c + 1
      <4>1. s[a].end < y.begin
        BY <3>2, <2>0
      <4> QED BY <4>1, <3>1, <3>4, <1>5
    <3>5. CASE c + 1 < e
      <4>1. e - 1 \in 1 .. n /\ t[e] = s[e - 1]
        BY <3>5, <1>6
      <4>2. a < e - 1
        BY <3>5, <2>2, <1>0
      <4> QED BY <4>1, <4>2, <3>1, <1>1
    <3> QED BY <3>3, <3>4, <3>5, <1>7, <2>2
  <2>3. CASE a = c \/ a = c + 1
    <3>1. CASE a = c /\ e = c + 1
      BY <3>1, <1>5
    <3>2. CASE c + 1 < e
      <4>1. e - 1 \in 1 .. n /\ t[e] = s[e - 1] /\ c < e - 1
        BY <3>2, <1>6
      <4>2. s[c].end < s[e - 1].begin /\ s[e - 1].begin \in Nat
        BY <4>1, <1>1, LaidType
      <4>3. x.end < s[e - 1].begin /\ y.end < s[e - 1].begin
        BY <4>2, <2>0
      <4> QED BY <4>1, <4>3, <2>3, <1>5
    <3>3. (a = c /\ e = c + 1) \/ c + 1 < e
      BY <2>3, <1>9, <1>0
    <3> QED BY <3>1, <3>2, <3>3
  <2>4. CASE c + 1 < a
    <3>1. a - 1 \in 1 .. n /\ t[a] = s[a - 1]
      BY <2>4, <1>6
    <3>2. c + 1 < e /\ a - 1 < e - 1
      BY <2>4, <1>9, <1>0
    <3>3. e - 1 \in 1 .. n /\ t[e] = s[e - 1]
      BY <3>2, <1>6
    <3> QED BY <3>1, <3>2, <3>3, <1>1
  <2> QED BY <2>1, <2>2, <2>3, <2>4, <1>7
<1>10. Laid(t)
  BY <1>3, <1>8, <1>9 DEF Laid
<1>11. \A a \in 1 .. n : a < c => t[a] = s[a]
  <2> TAKE a \in 1 .. n
  <2> HAVE a < c
  <2>1. a \in 1 .. n + 1
    BY <1>0
  <2> QED BY <2>1, <1>4
<1>12. \A a \in 1 .. n : c < a => t[a + 1] = s[a]
  <2> TAKE a \in 1 .. n
  <2> HAVE c < a
  <2>1. a + 1 \in 1 .. n + 1 /\ c + 1 < a + 1 /\ a + 1 - 1 = a
    BY <1>0
  <2> QED BY <2>1, <1>6
<1>13. ASSUME NEW i \in Nat
       PROVE  Has(t, i) <=> Has(s, i)
  <2>1. Has(t, i) <=> \E a \in 1 .. n + 1 : Holds(t[a].data, i)
    BY <1>3 DEF Has
  <2>2. Has(s, i) <=> \E a \in 1 .. n : Holds(s[a].data, i)
    BY DEF Has
  <2>3. Holds(s[c].data, i) <=> Holds(x.data, i) \/ Holds(y.data, i)
    OBVIOUS
  <2>4. ASSUME Has(s, i)
        PROVE  Has(t, i)
    <3>1. PICK a \in 1 .. n : Holds(s[a].data, i)
      BY <2>4, <2>2
    <3>2. a \in 1 .. n + 1 /\ a + 1 \in 1 .. n + 1 /\ c \in 1 .. n + 1 /\ c + 1 \in 1 .. n + 1
      BY <1>0
    <3>3. a < c \/ a = c \/ c < a
      BY <1>0
    <3> QED BY <3>1, <3>2, <3>3, <2>1, <2>3, <1>5, <1>11, <1>12
  <2>5. ASSUME Has(t, i)
        PROVE  Has(s, i)
    <3>1. PICK a \in 1 .. n + 1 : Holds(t[a].data, i)
      BY <2>5, <2>1
    <3> QED BY <3>1, <2>2, <2>3, <1>0, <1>4, <1>5, <1>6, <1>7
  <2> QED BY <2>4, <2>5
<1> QED BY <1>3, <1>5, <1>10, <1>11, <1>12, <1>13 DEF t

\* A chunk added after the others.
LEMMA AppendChunk ==
  ASSUME NEW s, Laid(s), NEW k, Fits(k), \A a \in 1 .. Len(s) : s[a].end < k.begin
  PROVE  /\ Laid(Append(s, k)) /\ Len(Append(s, k)) = Len(s) + 1
         /\ \A i \in Nat : Has(Append(s, k), i) <=> Has(s, i) \/ Holds(k.data, i)
<1> DEFINE n == Len(s)
           t == Append(s, k)
<1>0. n \in Nat
  BY LaidType
<1>1. /\ s \in Seq(ChunkSet)
      /\ \A a \in 1 .. n : Fits(s[a])
      /\ \A a, e \in 1 .. n : a < e => s[a].end < s[e].begin
  BY LaidType
<1>2. k \in ChunkSet
  BY FitsType
<1>3. t \in Seq(ChunkSet) /\ Len(t) = n + 1 /\ t[n + 1] = k /\ \A a \in 1 .. n : t[a] = s[a]
  BY <1>0, <1>1, <1>2
<1> HIDE DEF t
<1>4. \A a \in 1 .. n + 1 : a \in 1 .. n \/ a = n + 1
  BY <1>0
<1>5. \A a \in 1 .. n + 1 : Fits(t[a])
  BY <1>1, <1>3, <1>4
<1>6. ASSUME NEW a \in 1 .. n + 1, NEW e \in 1 .. n + 1, a < e
      PROVE  t[a].end < t[e].begin
  <2>1. a \in 1 .. n
    BY <1>6, <1>0
  <2> QED BY <2>1, <1>1, <1>3, <1>4, <1>6
<1>7. Laid(t)
  BY <1>3, <1>5, <1>6 DEF Laid
<1>8. ASSUME NEW i \in Nat
      PROVE  Has(t, i) <=> Has(s, i) \/ Holds(k.data, i)
  <2>1. Has(t, i) <=> \E a \in 1 .. n + 1 : Holds(t[a].data, i)
    BY <1>3 DEF Has
  <2>2. Has(s, i) <=> \E a \in 1 .. n : Holds(s[a].data, i)
    BY DEF Has
  <2>3. \A a \in 1 .. n : a \in 1 .. n + 1
    BY <1>0
  <2>4. n + 1 \in 1 .. n + 1
    BY <1>0
  <2> QED BY <2>1, <2>2, <2>3, <2>4, <1>3, <1>4
<1> QED BY <1>3, <1>7, <1>8 DEF t
-----------------------------------------------------------------------------
(* Sums                                                                    *)

\* The sums of the first elements of a sequence, as SumOf computes them.
Sums(q, sum) ==
  /\ \A k \in 0 .. Len(q) : sum[k] \in Int
  /\ sum[0] = 0
  /\ \A k \in 1 .. Len(q) : sum[k] = sum[k - 1] + q[k]

\* SumOf is the last of the sums of the first elements.
LEMMA SumOfSums ==
  ASSUME NEW q \in Seq(Int)
  PROVE  \E sum : Sums(q, sum) /\ SumOf(q) = sum[Len(q)]
<1> DEFINE Is(g, n) == g = [k \in 0 .. n |-> IF k = 0 THEN 0 ELSE g[k - 1] + q[k]]
           Bad == {n \in Nat : ~ \E g : Is(g, n)}
<1>0. Len(q) \in Nat /\ \A k \in 1 .. Len(q) : q[k] \in Int
  BY LenProperties, ElementOfSeq
<1>1. ASSUME Bad # {}
      PROVE  FALSE
  <2>1. PICK n \in Bad : \A m \in Bad : n <= m
    BY <1>1, LeastRow
  <2>2. n \in Nat /\ ~ \E g : Is(g, n)
    BY <2>1
  <2>3. CASE n = 0
    <3> DEFINE h == [k \in 0 .. n |-> 0]
    <3>1. \A k \in 0 .. n : k = 0
      BY <2>3
    <3>2. Is(h, n)
      BY <3>1
    <3> QED BY <3>2, <2>2
  <2>4. CASE n # 0
    <3>1. n - 1 \in Nat /\ ~(n <= n - 1)
      BY <2>2, <2>4
    <3>2. PICK f : Is(f, n - 1)
      BY <3>1, <2>1
    <3> DEFINE h == [k \in 0 .. n |-> IF k = n THEN f[n - 1] + q[n] ELSE f[k]]
    <3>3. ASSUME NEW k \in 0 .. n
          PROVE  h[k] = IF k = 0 THEN 0 ELSE h[k - 1] + q[k]
      <4>1. CASE k = n
        <5>1. n - 1 \in 0 .. n /\ n - 1 # n
          BY <3>1, <2>2
        <5>2. h[n - 1] = f[n - 1]
          BY <5>1
        <5> QED BY <4>1, <5>2, <2>4
      <4>2. CASE k # n
        <5>1. k \in 0 .. n - 1
          BY <4>2, <2>2
        <5>2. h[k] = f[k] /\ f[k] = IF k = 0 THEN 0 ELSE f[k - 1] + q[k]
          BY <3>2, <4>2, <5>1
        <5>3. k # 0 => k - 1 \in 0 .. n /\ k - 1 # n
          BY <5>1, <2>2
        <5> QED BY <5>2, <5>3
      <4> QED BY <4>1, <4>2
    <3>4. Is(h, n)
      BY <3>3
    <3> QED BY <3>4, <2>2
  <2> QED BY <2>3, <2>4
<1>2. \E g : Is(g, Len(q))
  BY <1>0, <1>1
<1> DEFINE sum == CHOOSE g : Is(g, Len(q))
<1>3. Is(sum, Len(q))
  BY <1>2
<1>4. SumOf(q) = sum[Len(q)]
  BY DEF SumOf
<1> HIDE DEF sum
<1>5. \A k \in 0 .. Len(q) : sum[k] = IF k = 0 THEN 0 ELSE sum[k - 1] + q[k]
  <2> TAKE k \in 0 .. Len(q)
  <2> QED BY <1>3
<1> HIDE DEF Is
<1>6. sum[0] = 0
  <2>1. 0 \in 0 .. Len(q)
    BY <1>0
  <2> QED BY <2>1, <1>5
<1>7. \A k \in 1 .. Len(q) : sum[k] = sum[k - 1] + q[k]
  <2> TAKE k \in 1 .. Len(q)
  <2>1. k \in 0 .. Len(q) /\ k # 0
    BY <1>0
  <2> QED BY <2>1, <1>5
<1>8. \A k \in 0 .. Len(q) : sum[k] \in Int
  <2> DEFINE B == {k \in Nat : k \in 0 .. Len(q) /\ sum[k] \notin Int}
  <2>1. SUFFICES ASSUME B # {}
                 PROVE  FALSE
    BY <1>0
  <2>2. PICK k \in B : \A m \in B : k <= m
    BY <2>1, LeastRow
  <2>3. k # 0
    BY <2>2, <1>6
  <2>4. k \in 1 .. Len(q) /\ k - 1 \in Nat /\ k - 1 \in 0 .. Len(q) /\ ~(k <= k - 1)
    BY <2>2, <2>3, <1>0
  <2>5. sum[k - 1] \in Int
    BY <2>2, <2>4
  <2>6. sum[k] = sum[k - 1] + q[k] /\ q[k] \in Int
    BY <2>4, <1>7, <1>0
  <2> QED BY <2>2, <2>5, <2>6
<1>9. Sums(q, sum)
  BY <1>6, <1>7, <1>8 DEF Sums
<1> QED BY <1>4, <1>9

\* A sequence of the differences between steps sums up to the whole way.
LEMMA SumTelescopes ==
  ASSUME NEW q \in Seq(Int), NEW b, \A k \in 0 .. Len(q) : b[k] \in Int,
         \A k \in 1 .. Len(q) : q[k] = b[k] - b[k - 1]
  PROVE  SumOf(q) = b[Len(q)] - b[0]
<1>0. Len(q) \in Nat
  BY LenProperties
<1>1. PICK sum : Sums(q, sum) /\ SumOf(q) = sum[Len(q)]
  BY SumOfSums
<1> DEFINE B == {k \in Nat : k \in 0 .. Len(q) /\ sum[k] # b[k] - b[0]}
<1>2. ASSUME B # {}
      PROVE  FALSE
  <2>2. PICK k \in B : \A m \in B : k <= m
    BY <1>2, LeastRow
  <2>0. 0 \in 0 .. Len(q)
    BY <1>0
  <2>1. sum[0] = 0 /\ b[0] \in Int
    BY <1>1, <2>0 DEF Sums
  <2>3. k # 0
    BY <2>1, <2>2
  <2>4. k \in 1 .. Len(q) /\ k - 1 \in Nat /\ k - 1 \in 0 .. Len(q) /\ ~(k <= k - 1) /\ k \in 0 .. Len(q)
    BY <2>2, <2>3, <1>0
  <2>5. sum[k - 1] = b[k - 1] - b[0]
    BY <2>2, <2>4
  <2>6. sum[k] = sum[k - 1] + q[k] /\ q[k] = b[k] - b[k - 1] /\ b[k] \in Int /\ b[k - 1] \in Int
    BY <2>4, <1>1 DEF Sums
  <2>7. sum[k] = b[k] - b[0]
    BY <2>1, <2>5, <2>6
  <2> QED BY <2>2, <2>7
<1>3. Len(q) \in 0 .. Len(q)
  BY <1>0
<1> QED BY <1>0, <1>1, <1>2, <1>3

\* A sum of integers is one.
LEMMA SumOfType ==
  ASSUME NEW q \in Seq(Int)
  PROVE  SumOf(q) \in Int
<1>0. Len(q) \in Nat
  BY LenProperties
<1>1. PICK sum : Sums(q, sum) /\ SumOf(q) = sum[Len(q)]
  BY SumOfSums
<1>2. Len(q) \in 0 .. Len(q)
  BY <1>0
<1> QED BY <1>1, <1>2 DEF Sums

\* The lengths of ranges, as a sequence.
LEMMA TotalType ==
  ASSUME NEW d, Ordered(d)
  PROVE  Total(d) \in Int
<1> DEFINE q == [k \in DOMAIN d |-> Size(d[k])]
<1>1. /\ Len(d) \in Nat /\ DOMAIN d = 1 .. Len(d)
      /\ \A o \in 1 .. Len(d) : d[o][1] \in Nat /\ d[o][2] \in Nat
  BY OrderedType
<1>2. \A k \in 1 .. Len(d) : Size(d[k]) \in Int
  BY <1>1 DEF Size
<1>3. q = [k \in 1 .. Len(d) |-> Size(d[k])]
  BY <1>1
<1>4. q \in Seq(Int)
  <2>1. q \in [1 .. Len(d) -> Int]
    BY <1>2, <1>3
  <2> QED BY <2>1, <1>1
<1> HIDE DEF q
<1>5. SumOf(q) \in Int
  BY <1>4, SumOfType
<1> QED BY <1>5 DEF Total, q
-----------------------------------------------------------------------------
(* Positions                                                               *)

\* A position is a chunk and an offset in it; Indexes are the rows that lie in a range.
LEMMA PositionsOf ==
  ASSUME NEW s, Laid(s)
  PROVE  /\ \A pos \in Positions(s) : /\ pos = <<pos[1], pos[2]>>
                                      /\ pos[1] \in 1 .. Len(s)
                                      /\ pos[2] \in 1 .. Len(s[pos[1]].data)
         /\ \A c \in 1 .. Len(s) : \A o \in 1 .. Len(s[c].data) : <<c, o>> \in Positions(s)
         /\ \A i : i \in Indexes(s) <=> i \in Nat /\ Has(s, i)
<1>1. DOMAIN s = 1 .. Len(s)
  BY LaidType
<1>2. \A c \in 1 .. Len(s) : DOMAIN s[c].data = 1 .. Len(s[c].data)
  <2> TAKE c \in 1 .. Len(s)
  <2>1. Ordered(s[c].data)
    BY LaidType, FitsType
  <2> QED BY <2>1, OrderedType
<1>3. \A pos \in Positions(s) : /\ pos = <<pos[1], pos[2]>>
                                /\ pos[1] \in 1 .. Len(s)
                                /\ pos[2] \in 1 .. Len(s[pos[1]].data)
  <2> TAKE pos \in Positions(s)
  <2>1. PICK c \in DOMAIN s : pos \in {c} \X DOMAIN s[c].data
    BY DEF Positions
  <2>2. pos = <<pos[1], pos[2]>> /\ pos[1] = c /\ pos[2] \in DOMAIN s[c].data
    BY <2>1
  <2> QED BY <1>1, <1>2, <2>1, <2>2
<1>4. \A c \in 1 .. Len(s) : \A o \in 1 .. Len(s[c].data) : <<c, o>> \in Positions(s)
  <2> TAKE c \in 1 .. Len(s)
  <2> TAKE o \in 1 .. Len(s[c].data)
  <2>1. <<c, o>> \in {c} \X DOMAIN s[c].data
    BY <1>2
  <2> QED BY <1>1, <2>1 DEF Positions
<1>5. \A c \in 1 .. Len(s) : \A o \in 1 .. Len(s[c].data) :
         s[c].data[o][1] \in Nat /\ s[c].data[o][2] \in Nat
  <2> TAKE c \in 1 .. Len(s)
  <2>1. Ordered(s[c].data)
    BY LaidType, FitsType
  <2> QED BY <2>1, OrderedType
<1>6. \A a, b \in Nat : \A i : i \in a .. b - 1 <=> i \in Nat /\ a <= i /\ i < b
  OBVIOUS
<1>7. ASSUME NEW i
      PROVE  i \in Indexes(s) <=> i \in Nat /\ Has(s, i)
  <2>1. ASSUME i \in Indexes(s)
        PROVE  i \in Nat /\ Has(s, i)
    <3>1. PICK pos \in Positions(s) : i \in At(s, pos)[1] .. At(s, pos)[2] - 1
      BY <2>1 DEF Indexes
    <3>2. pos[1] \in 1 .. Len(s) /\ pos[2] \in 1 .. Len(s[pos[1]].data)
      BY <1>3
    <3> DEFINE r == s[pos[1]].data[pos[2]]
    <3>3. i \in Nat /\ r[1] <= i /\ i < r[2]
      <4>1. r[1] \in Nat /\ r[2] \in Nat
        BY <3>2, <1>5
      <4>2. i \in r[1] .. r[2] - 1
        BY <3>1 DEF At
      <4> HIDE DEF r
      <4> QED BY <4>1, <4>2
    <3> QED BY <3>2, <3>3 DEF Has, Holds, In
  <2>2. ASSUME i \in Nat, Has(s, i)
        PROVE  i \in Indexes(s)
    <3>1. PICK c \in 1 .. Len(s) : Holds(s[c].data, i)
      BY <2>2 DEF Has
    <3>2. PICK o \in 1 .. Len(s[c].data) : In(s[c].data[o], i)
      BY <3>1 DEF Holds
    <3> DEFINE r == s[c].data[o]
    <3>3. i \in r[1] .. r[2] - 1
      <4>1. r[1] \in Nat /\ r[2] \in Nat
        BY <1>5
      <4>2. r[1] <= i /\ i < r[2]
        BY <3>2 DEF In
      <4> HIDE DEF r
      <4> QED BY <4>1, <4>2, <2>2
    <3>4. At(s, <<c, o>>) = r
      BY DEF At
    <3> QED BY <3>3, <3>4, <1>4 DEF Indexes
  <2> QED BY <2>1, <2>2
<1> QED BY <1>3, <1>4, <1>7

\* Every range before the position ends below x; every one after it begins above x.
Under(s, c, o, x) ==
  \A a \in 1 .. Len(s) : \A b \in 1 .. Len(s[a].data) :
     a < c \/ (a = c /\ b < o) => s[a].data[b][2] < x

\* Every range after the position begins above x.
Over(s, c, o, x) ==
  \A a \in 1 .. Len(s) : \A b \in 1 .. Len(s[a].data) :
     c < a \/ (a = c /\ o < b) => x < s[a].data[b][1]

\* Ranges come in their order, also from chunk to chunk.
LEMMA RangesApart ==
  ASSUME NEW s, Laid(s), NEW c \in 1 .. Len(s), NEW o \in 1 .. Len(s[c].data)
  PROVE  /\ s[c].data[o] \in Nat \X Nat
         /\ s[c].data[o][1] \in Nat /\ s[c].data[o][2] \in Nat
         /\ s[c].data[o][1] < s[c].data[o][2]
         /\ s[c].begin <= s[c].data[o][1] /\ s[c].data[o][2] <= s[c].end
         /\ Under(s, c, o, s[c].data[o][1])
         /\ Over(s, c, o, s[c].data[o][2])
<1>1. \A a \in 1 .. Len(s) : Fits(s[a])
  BY LaidType
<1>2. \A a \in 1 .. Len(s) :
         /\ Ordered(s[a].data) /\ s[a].begin \in Nat /\ s[a].end \in Nat
         /\ \A b \in 1 .. Len(s[a].data) :
               /\ s[a].data[b] \in Nat \X Nat /\ s[a].data[b][1] \in Nat /\ s[a].data[b][2] \in Nat
               /\ s[a].data[b][1] < s[a].data[b][2]
               /\ s[a].begin <= s[a].data[b][1] /\ s[a].data[b][2] <= s[a].end
  <2> TAKE a \in 1 .. Len(s)
  <2>1. /\ Ordered(s[a].data) /\ s[a].begin \in Nat /\ s[a].end \in Nat
        /\ s[a].begin = s[a].data[1][1] /\ s[a].end = s[a].data[Len(s[a].data)][2]
    BY <1>1, FitsType
  <2>2. \A b \in 1 .. Len(s[a].data) :
            s[a].data[b] \in Nat \X Nat /\ s[a].data[b][1] \in Nat /\ s[a].data[b][2] \in Nat
    BY <2>1, OrderedType
  <2>3. \A b \in 1 .. Len(s[a].data) : s[a].data[b][1] < s[a].data[b][2]
    BY <2>1 DEF Ordered
  <2>4. \A b \in 1 .. Len(s[a].data) :
            s[a].data[1][1] <= s[a].data[b][1] /\ s[a].data[b][2] <= s[a].data[Len(s[a].data)][2]
    BY <2>1, OrderedBounds
  <2> QED BY <2>1, <2>2, <2>3, <2>4
<1>3. \A a, e \in 1 .. Len(s) : a < e => s[a].end < s[e].begin
  BY LaidType
<1>4. \A b, d \in 1 .. Len(s[c].data) : b < d => s[c].data[b][2] < s[c].data[d][1]
  BY <1>2 DEF Ordered
<1>5. Under(s, c, o, s[c].data[o][1])
  <2> SUFFICES ASSUME NEW a \in 1 .. Len(s), NEW b \in 1 .. Len(s[a].data), a < c \/ (a = c /\ b < o)
               PROVE  s[a].data[b][2] < s[c].data[o][1]
    BY DEF Under
  <2>1. CASE a < c
    <3>1. s[a].data[b][2] <= s[a].end /\ s[a].end < s[c].begin /\ s[c].begin <= s[c].data[o][1]
      BY <2>1, <1>2, <1>3
    <3>2. s[a].data[b][2] \in Nat /\ s[a].end \in Nat /\ s[c].begin \in Nat /\ s[c].data[o][1] \in Nat
      BY <1>2
    <3> DEFINE f == s[a].data[b][2]
               g == s[a].end
               h == s[c].begin
               e == s[c].data[o][1]
    <3>3. f \in Nat /\ g \in Nat /\ h \in Nat /\ e \in Nat /\ f <= g /\ g < h /\ h <= e
      BY <3>1, <3>2
    <3> HIDE DEF e, f, g, h
    <3>4. f < e
      BY <3>3
    <3> QED BY <3>4 DEF e, f
  <2>2. CASE a = c /\ b < o
    BY <2>2, <1>4
  <2> QED BY <2>1, <2>2
<1>6. Over(s, c, o, s[c].data[o][2])
  <2> SUFFICES ASSUME NEW a \in 1 .. Len(s), NEW b \in 1 .. Len(s[a].data), c < a \/ (a = c /\ o < b)
               PROVE  s[c].data[o][2] < s[a].data[b][1]
    BY DEF Over
  <2>1. CASE c < a
    <3> DEFINE x == s[c].data[o][2]
               y == s[a].data[b][1]
               e == s[c].end
               f == s[a].begin
    <3>1. x <= e /\ e < f /\ f <= y
      BY <2>1, <1>2, <1>3
    <3>2. x \in Nat /\ e \in Nat /\ f \in Nat /\ y \in Nat
      BY <1>2
    <3> HIDE DEF x, y, e, f
    <3>3. x < y
      BY <3>1, <3>2
    <3> QED BY <3>3 DEF x, y
  <2>2. CASE a = c /\ o < b
    BY <2>2, <1>4
  <2> QED BY <2>1, <2>2
<1> QED BY <1>2, <1>5, <1>6

\* The least element of a set of numbers.
LEMMA MinIsLeast ==
  ASSUME NEW S \in SUBSET Nat, S # {}
  PROVE  Min(S) \in S /\ \A x \in S : Min(S) <= x
BY LeastRow DEF Min

\* What find finds.
LEMMA FindsRange ==
  ASSUME NEW s, Laid(s), NEW i \in Nat
  PROVE  LET pos == Find(s, i) IN
         \/ pos = End(s) /\ \A c \in 1 .. Len(s) : s[c].end <= i
         \/ /\ pos # End(s) /\ pos \in Positions(s)
            /\ \A c \in 1 .. Len(s) : c < pos[1] => s[c].end <= i
            /\ At(s, pos)[2] > i
            /\ \A o \in 1 .. Len(s[pos[1]].data) : o < pos[2] => s[pos[1]].data[o][2] <= i
<1> DEFINE after == {c \in DOMAIN s : s[c].end > i}
<1>1. Len(s) \in Nat /\ DOMAIN s = 1 .. Len(s) /\ \A c \in 1 .. Len(s) : s[c].end \in Nat
  BY LaidType
<1>2. after \in SUBSET Nat
  BY <1>1
<1>3. \A c \in 1 .. Len(s) : c \notin after => s[c].end <= i
  BY <1>1
<1>4. CASE after = {}
  BY <1>3, <1>4 DEF Find
<1>5. CASE after # {}
  <2> DEFINE m == Min(after)
             ranges == s[m].data
             late == {o \in DOMAIN ranges : ranges[o][2] > i}
  <2>1. m \in after /\ \A c \in after : m <= c
    BY <1>2, <1>5, MinIsLeast
  <2>2. m \in 1 .. Len(s) /\ s[m].end > i
    BY <2>1, <1>1
  <2>3. Find(s, i) = <<m, Min(late)>>
    BY <1>5 DEF Find
  <2> HIDE DEF after, m
  <2>4. Ordered(ranges) /\ s[m].end = ranges[Len(ranges)][2]
    BY <2>2, LaidType, FitsType
  <2>5. /\ DOMAIN ranges = 1 .. Len(ranges) /\ Len(ranges) \in 1 .. Len(ranges)
        /\ \A o \in 1 .. Len(ranges) : ranges[o][2] \in Nat
    BY <2>4, OrderedType
  <2>6. late \in SUBSET Nat /\ Len(ranges) \in late
    BY <2>2, <2>4, <2>5
  <2>7. Min(late) \in late /\ \A o \in late : Min(late) <= o
    BY <2>6, MinIsLeast
  <2> DEFINE l == Min(late)
  <2>8. l \in 1 .. Len(ranges) /\ ranges[l][2] > i
    BY <2>7, <2>5
  <2>9. \A o \in 1 .. Len(ranges) : o < l => ranges[o][2] <= i
    <3> TAKE o \in 1 .. Len(ranges)
    <3> HAVE o < l
    <3>1. ~(l <= o)
      BY <2>8
    <3>2. o \in late => l <= o
      BY <2>7
    <3> HIDE DEF l, late
    <3>3. o \notin late
      BY <3>1, <3>2
    <3> USE DEF l, late
    <3> QED BY <3>3, <2>5
  <2>10. \A c \in 1 .. Len(s) : c < m => s[c].end <= i
    <3> TAKE c \in 1 .. Len(s)
    <3> HAVE c < m
    <3>1. c \notin after
      BY <2>1, <2>2
    <3> QED BY <3>1, <1>3
  <2> HIDE DEF l
  <2>11. <<m, l>> \in Positions(s)
    BY <2>2, <2>8, PositionsOf
  <2>12. <<m, l>> # End(s)
    <3>1. m # Len(s) + 1
      BY <2>2, <1>1
    <3> QED BY <3>1 DEF End
  <2>13. Find(s, i) = <<m, l>>
    BY <2>3 DEF l
  <2>14. At(s, <<m, l>>) = ranges[l]
    BY DEF At
  <2> DEFINE pos == <<m, l>>
  <2>15. pos[1] = m /\ pos[2] = l
    OBVIOUS
  <2> QED BY <2>8, <2>9, <2>10, <2>11, <2>12, <2>13, <2>14
<1> QED BY <1>4, <1>5
-----------------------------------------------------------------------------
(* Ranges put, taken away and inserted                                     *)

\* What a position splits a set into, by chunks.
LEMMA UnderChunks ==
  ASSUME NEW s, Laid(s), NEW c \in 1 .. Len(s), NEW o \in 1 .. Len(s[c].data) + 1, NEW x \in Nat,
         Under(s, c, o, x)
  PROVE  /\ \A a \in 1 .. Len(s) : a < c => s[a].end < x
         /\ \A b \in 1 .. Len(s[c].data) : b < o => s[c].data[b][2] < x
<1>1. ASSUME NEW a \in 1 .. Len(s), a < c
      PROVE  s[a].end < x
  <2>1. Ordered(s[a].data) /\ s[a].end = s[a].data[Len(s[a].data)][2]
    BY LaidType, FitsType
  <2>2. Len(s[a].data) \in 1 .. Len(s[a].data)
    BY <2>1, OrderedType
  <2> QED BY <1>1, <2>1, <2>2 DEF Under
<1> QED BY <1>1 DEF Under

\* The same of what comes after the position.
LEMMA OverChunks ==
  ASSUME NEW s, Laid(s), NEW c \in 1 .. Len(s), NEW o \in 0 .. Len(s[c].data), NEW x \in Nat,
         Over(s, c, o, x)
  PROVE  /\ \A a \in 1 .. Len(s) : c < a => x < s[a].begin
         /\ \A b \in 1 .. Len(s[c].data) : o < b => x < s[c].data[b][1]
<1>1. ASSUME NEW a \in 1 .. Len(s), c < a
      PROVE  x < s[a].begin
  <2>1. Ordered(s[a].data) /\ s[a].begin = s[a].data[1][1]
    BY LaidType, FitsType
  <2>2. 1 \in 1 .. Len(s[a].data)
    BY <2>1, OrderedType
  <2> QED BY <1>1, <2>1, <2>2 DEF Over
<1> QED BY <1>1 DEF Over

\* set, adjust: a range is put in the place of another, between its neighbours.
LEMMA PutRangeLaid ==
  ASSUME NEW s, Laid(s), NEW c \in 1 .. Len(s), NEW o \in 1 .. Len(s[c].data),
         NEW r \in Nat \X Nat, r[1] < r[2],
         Under(s, c, o, r[1]), Over(s, c, o, r[2])
  PROVE  LET t == PutRange(s, <<c, o>>, r) IN
         /\ Laid(t) /\ Len(t) = Len(s)
         /\ Len(t[c].data) = Len(s[c].data)
         /\ \A a \in 1 .. Len(s) : a # c => t[a] = s[a]
         /\ \A b \in 1 .. Len(s[c].data) : t[c].data[b] = IF b = o THEN r ELSE s[c].data[b]
         /\ \A i \in Nat : Has(t, i) <=> (Has(s, i) /\ ~In(s[c].data[o], i)) \/ In(r, i)
<1> DEFINE d == s[c].data
           e == [d EXCEPT ![o] = r]
           n == s[c].count - Size(d[o]) + Size(r)
           k == Chunk(e, n)
           t == PutRange(s, <<c, o>>, r)
<1>0. Len(s) \in Nat /\ DOMAIN s = 1 .. Len(s) /\ Fits(s[c])
  BY LaidType
<1>1. Ordered(d) /\ Len(d) \in 1 .. MaxSize /\ s[c].count \in Int
      /\ s[c].begin = d[1][1] /\ s[c].end = d[Len(d)][2]
  BY <1>0, FitsType
<1>2. r[1] \in Nat /\ r[2] \in Nat
  OBVIOUS
<1>3. /\ \A a \in 1 .. Len(s) : a < c => s[a].end < r[1]
      /\ \A b \in 1 .. Len(d) : b < o => d[b][2] < r[1]
  <2>1. o \in 1 .. Len(d) + 1
    BY <1>1
  <2> QED BY <1>2, <2>1, UnderChunks
<1>4. /\ \A a \in 1 .. Len(s) : c < a => r[2] < s[a].begin
      /\ \A b \in 1 .. Len(d) : o < b => r[2] < d[b][1]
  <2>1. o \in 0 .. Len(d)
    BY <1>1
  <2> QED BY <1>2, <2>1, OverChunks
<1>5. /\ Ordered(e) /\ Len(e) = Len(d)
      /\ \A b \in 1 .. Len(d) : e[b] = IF b = o THEN r ELSE d[b]
      /\ \A i \in Nat : Holds(e, i) <=> (Holds(d, i) /\ ~In(d[o], i)) \/ In(r, i)
  BY <1>1, <1>3, <1>4, PutOrdered
<1>6. n \in Int
  <2>1. d[o][1] \in Nat /\ d[o][2] \in Nat
    BY <1>1, OrderedType
  <2>2. Size(d[o]) \in Int
    BY <2>1 DEF Size
  <2>3. Size(r) \in Int
    BY <1>2 DEF Size
  <2> HIDE DEF d
  <2> QED BY <1>1, <2>2, <2>3
<1>7. t = [s EXCEPT ![c] = k]
  <2> DEFINE pos == <<c, o>>
  <2>1. pos[1] = c /\ pos[2] = o
    OBVIOUS
  <2>2. At(s, pos) = d[o]
    BY DEF At
  <2> HIDE DEF pos
  <2>3. PutRange(s, pos, r) = [s EXCEPT ![c] = Chunk([d EXCEPT ![o] = r], s[c].count - Size(d[o]) + Size(r))]
    BY <2>1, <2>2 DEF PutRange
  <2> QED BY <2>3 DEF pos
<1> HIDE DEF e, n
<1>8. /\ Fits(k) /\ k.data = e /\ k.begin = e[1][1] /\ k.end = e[Len(e)][2]
  <2>1. Len(e) <= MaxSize
    BY <1>1, <1>5
  <2> QED BY <1>5, <1>6, <2>1, ChunkFits
<1>9. 1 \in 1 .. Len(d) /\ Len(d) \in 1 .. Len(d)
  BY <1>1, OrderedType
<1>10. e[1] = (IF o = 1 THEN r ELSE d[1]) /\ e[Len(e)] = (IF o = Len(d) THEN r ELSE d[Len(d)])
  BY <1>5, <1>9
<1> HIDE DEF k, t
<1>11. \A a \in 1 .. Len(s) : a < c => s[a].end < k.begin
  BY <1>1, <1>3, <1>8, <1>10, LaidType
<1>12. \A a \in 1 .. Len(s) : c < a => k.end < s[a].begin
  BY <1>1, <1>4, <1>8, <1>10, LaidType
<1>13. /\ Laid([s EXCEPT ![c] = k]) /\ Len([s EXCEPT ![c] = k]) = Len(s)
       /\ \A a \in 1 .. Len(s) : [s EXCEPT ![c] = k][a] = IF a = c THEN k ELSE s[a]
       /\ \A i \in Nat : Has([s EXCEPT ![c] = k], i) <=> (Has(s, i) /\ ~Holds(s[c].data, i)) \/ Holds(k.data, i)
  BY <1>8, <1>11, <1>12, PutChunk
<1>14. t[c] = k
  BY <1>7, <1>13
<1>15. ASSUME NEW i \in Nat
       PROVE  Has(t, i) <=> (Has(s, i) /\ ~In(d[o], i)) \/ In(r, i)
  <2>1. Has(t, i) <=> (Has(s, i) /\ ~Holds(d, i)) \/ Holds(e, i)
    BY <1>7, <1>8, <1>13
  <2>2. In(d[o], i) => Holds(d, i)
    BY DEF Holds
  <2>3. Holds(d, i) => Has(s, i)
    BY DEF Has
  <2>4. Holds(e, i) <=> (Holds(d, i) /\ ~In(d[o], i)) \/ In(r, i)
    BY <1>5
  <2> QED BY <2>1, <2>2, <2>3, <2>4
<1> QED BY <1>5, <1>7, <1>8, <1>13, <1>14, <1>15 DEF t

\* erase: a range is taken away, with its chunk if that has no other.
LEMMA EraseRangeLaid ==
  ASSUME NEW s, Laid(s), NEW c \in 1 .. Len(s), NEW o \in 1 .. Len(s[c].data)
  PROVE  LET t == EraseRange(s, <<c, o>>) IN
         /\ Laid(t)
         /\ \A i \in Nat : Has(t, i) <=> Has(s, i) /\ ~In(s[c].data[o], i)
         /\ \A a \in 1 .. Len(s) : a < c => a \in 1 .. Len(t) /\ t[a] = s[a]
         /\ \A b \in 1 .. Len(s[c].data) : b < o =>
               c \in 1 .. Len(t) /\ b \in 1 .. Len(t[c].data) /\ t[c].data[b] = s[c].data[b]
<1> DEFINE d == s[c].data
           e == Seqs!RemoveAt(d, o)
           n == s[c].count - Size(d[o])
           k == Chunk(e, n)
           t == EraseRange(s, <<c, o>>)
<1>0. Len(s) \in Nat /\ DOMAIN s = 1 .. Len(s) /\ Fits(s[c])
  BY LaidType
<1>1. Ordered(d) /\ Len(d) \in 1 .. MaxSize /\ s[c].count \in Int
      /\ s[c].begin = d[1][1] /\ s[c].end = d[Len(d)][2] /\ s[c].begin \in Nat /\ s[c].end \in Nat
  BY <1>0, FitsType
<1>2. d \in Seq(Nat \X Nat) /\ Len(d) \in Nat
  BY <1>1, OrderedType DEF Ordered
<1>3. t = IF e = <<>> THEN Seqs!RemoveAt(s, c) ELSE [s EXCEPT ![c] = k]
  <2> DEFINE pos == <<c, o>>
  <2>1. pos[1] = c /\ pos[2] = o
    OBVIOUS
  <2>2. At(s, pos) = d[o]
    BY DEF At
  <2> HIDE DEF pos
  <2>3. EraseRange(s, pos) = IF Seqs!RemoveAt(d, o) = <<>> THEN Seqs!RemoveAt(s, c)
                             ELSE [s EXCEPT ![c] = Chunk(Seqs!RemoveAt(d, o), s[c].count - Size(d[o]))]
    BY <2>1, <2>2 DEF EraseRange
  <2> QED BY <2>3 DEF pos
<1>4. Len(e) = Len(d) - 1
  <2> DEFINE X == Nat \X Nat
  <2>1. d \in Seq(X)
    BY <1>2
  <2> HIDE DEF X, d
  <2> QED BY <2>1, RemovedSeq DEF d
<1> HIDE DEF e, n, t
<1>5. \A i \in Nat : Holds(d, i) => Has(s, i)
  BY DEF Has
<1>6. \A i \in Nat : In(d[o], i) => Holds(d, i)
  BY DEF Holds
<1>7. CASE Len(d) = 1
  <2>1. e = <<>>
    <3>1. Len(e) = 0
      BY <1>4, <1>7
    <3>2. e \in Seq(Nat \X Nat)
      <4> DEFINE X == Nat \X Nat
      <4>1. d \in Seq(X)
        BY <1>2
      <4> HIDE DEF X, d
      <4>2. e \in Seq(X)
        BY <4>1, RemovedSeq DEF d, e
      <4> QED BY <4>2 DEF X
    <3> QED BY <3>1, <3>2, EmptySeq
  <2>2. t = Seqs!RemoveAt(s, c)
    BY <1>3, <2>1
  <2>3. /\ Laid(t) /\ Len(t) = Len(s) - 1
        /\ \A a \in 1 .. Len(s) : a < c => t[a] = s[a]
        /\ \A i \in Nat : Has(t, i) <=> Has(s, i) /\ ~Holds(d, i)
    BY <2>2, RemoveChunk
  <2>4. o = 1
    BY <1>7
  <2>5. \A i \in Nat : Holds(d, i) => In(d[o], i)
    <3> TAKE i \in Nat
    <3> HAVE Holds(d, i)
    <3>1. PICK b \in 1 .. Len(d) : In(d[b], i)
      BY DEF Holds
    <3>2. b = o
      BY <1>7, <2>4
    <3> QED BY <3>1, <3>2
  <2>6. \A a \in 1 .. Len(s) : a < c => a \in 1 .. Len(t)
    BY <1>0, <2>3
  <2>7. \A b \in 1 .. Len(d) : ~(b < o)
    BY <1>7, <2>4
  <2> QED BY <1>6, <2>3, <2>5, <2>6, <2>7 DEF t
<1>8. CASE Len(d) # 1
  <2>1. /\ Ordered(e) /\ d[1][1] <= e[1][1] /\ e[Len(e)][2] <= d[Len(d)][2]
        /\ \A b \in 1 .. Len(d) : b < o => e[b] = d[b]
        /\ \A i \in Nat : Holds(e, i) <=> Holds(d, i) /\ ~In(d[o], i)
    BY <1>1, <1>8, RemoveOrdered DEF e
  <2>2. n \in Int
    <3>1. d[o][1] \in Nat /\ d[o][2] \in Nat
      BY <1>1, OrderedType
    <3> QED BY <1>1, <3>1 DEF Size, n
  <2>3. e # <<>>
    BY <2>1, OrderedType
  <2>4. /\ Fits(k) /\ k.data = e /\ k.begin = e[1][1] /\ k.end = e[Len(e)][2]
    <3>1. Len(e) <= MaxSize
      BY <1>1, <1>4, MaxSizeAssumption
    <3> QED BY <2>1, <2>2, <3>1, ChunkFits
  <2> HIDE DEF k
  <2>5. k.begin \in Nat /\ k.end \in Nat
    BY <2>4, FitsType
  <2>6. \A a \in 1 .. Len(s) : a < c => s[a].end < k.begin
    <3> TAKE a \in 1 .. Len(s)
    <3> HAVE a < c
    <3>1. s[a].end < s[c].begin /\ s[a].end \in Nat
      BY LaidType
    <3>2. s[c].begin <= k.begin
      BY <1>1, <2>1, <2>4
    <3>3. s[c].begin \in Nat
      BY LaidType
    <3> DEFINE x == s[a].end
               y == s[c].begin
               z == k.begin
    <3>4. x \in Nat /\ y \in Nat /\ z \in Nat /\ x < y /\ y <= z
      BY <3>1, <3>2, <3>3, <2>5
    <3> HIDE DEF x, y, z
    <3>5. x < z
      BY <3>4
    <3> QED BY <3>5 DEF x, z
  <2>7. \A a \in 1 .. Len(s) : c < a => k.end < s[a].begin
    <3> TAKE a \in 1 .. Len(s)
    <3> HAVE c < a
    <3>1. s[c].end < s[a].begin /\ s[a].begin \in Nat
      BY LaidType
    <3>2. k.end <= s[c].end
      BY <1>1, <2>1, <2>4
    <3> QED BY <3>1, <3>2, <1>1, <2>5
  <2>8. t = [s EXCEPT ![c] = k]
    BY <1>3, <2>3
  <2>9. /\ Laid(t) /\ Len(t) = Len(s)
        /\ \A a \in 1 .. Len(s) : t[a] = IF a = c THEN k ELSE s[a]
        /\ \A i \in Nat : Has(t, i) <=> (Has(s, i) /\ ~Holds(d, i)) \/ Holds(k.data, i)
    <3>1. /\ Laid([s EXCEPT ![c] = k]) /\ Len([s EXCEPT ![c] = k]) = Len(s)
          /\ \A a \in 1 .. Len(s) : [s EXCEPT ![c] = k][a] = IF a = c THEN k ELSE s[a]
          /\ \A i \in Nat : Has([s EXCEPT ![c] = k], i) <=> (Has(s, i) /\ ~Holds(s[c].data, i)) \/ Holds(k.data, i)
      BY <2>4, <2>6, <2>7, PutChunk
    <3> QED BY <3>1, <2>8
  <2>10. t[c].data = e
    BY <2>4, <2>9
  <2>11. ASSUME NEW i \in Nat
         PROVE  Has(t, i) <=> Has(s, i) /\ ~In(d[o], i)
    <3>1. Has(t, i) <=> (Has(s, i) /\ ~Holds(d, i)) \/ Holds(e, i)
      BY <2>4, <2>9
    <3>2. Holds(e, i) <=> Holds(d, i) /\ ~In(d[o], i)
      BY <2>1
    <3> QED BY <3>1, <3>2, <1>5, <1>6
  <2>12. ASSUME NEW b \in 1 .. Len(d), b < o
         PROVE  c \in 1 .. Len(t) /\ b \in 1 .. Len(t[c].data) /\ t[c].data[b] = d[b]
    <3>1. b \in 1 .. Len(e)
      BY <2>12, <1>2, <1>4
    <3> QED BY <3>1, <2>1, <2>9, <2>10, <2>12
  <2>13. \A a \in 1 .. Len(s) : a < c => a \in 1 .. Len(t) /\ t[a] = s[a]
    <3> TAKE a \in 1 .. Len(s)
    <3> HAVE a < c
    <3>1. a # c
      BY <1>0
    <3> QED BY <3>1, <2>9
  <2> QED BY <2>9, <2>11, <2>12, <2>13 DEF t
<1> QED BY <1>7, <1>8

\* Both halves of a full chunk have ranges, and equally many.
LEMMA HalfSize ==
  /\ MaxSize \in Nat \ {0}
  /\ MaxSize \div 2 \in Nat \ {0}
  /\ MaxSize = 2 * (MaxSize \div 2)
BY MaxSizeAssumption

\* A range is inserted in a chunk with space, between its neighbours.
LEMMA InsertInLaid ==
  ASSUME NEW s, Laid(s), NEW c \in 1 .. Len(s), Len(s[c].data) < MaxSize,
         NEW o \in 1 .. Len(s[c].data) + 1, NEW r \in Nat \X Nat, r[1] < r[2],
         \A b \in 1 .. Len(s[c].data) : b < o => s[c].data[b][2] < r[1],
         \A b \in 1 .. Len(s[c].data) : o <= b => r[2] < s[c].data[b][1],
         \A a \in 1 .. Len(s) : a < c => s[a].end < r[1],
         \A a \in 1 .. Len(s) : c < a => r[2] < s[a].begin
  PROVE  /\ Laid(InsertIn(s, c, o, r))
         /\ \A i \in Nat : Has(InsertIn(s, c, o, r), i) <=> Has(s, i) \/ In(r, i)
<1> DEFINE d == s[c].data
           e == Seqs!InsertAt(d, o, r)
           n == s[c].count + Size(r)
           k == Chunk(e, n)
           t == InsertIn(s, c, o, r)
<1>0. Len(s) \in Nat /\ DOMAIN s = 1 .. Len(s) /\ Fits(s[c])
  BY LaidType
<1>1. Ordered(d) /\ Len(d) \in 1 .. MaxSize /\ s[c].count \in Int
      /\ s[c].begin = d[1][1] /\ s[c].end = d[Len(d)][2] /\ s[c].begin \in Nat /\ s[c].end \in Nat
  BY <1>0, FitsType
<1>2. r[1] \in Nat /\ r[2] \in Nat
  OBVIOUS
<1>3. /\ Ordered(e) /\ Len(e) = Len(d) + 1
      /\ e[1] = (IF o = 1 THEN r ELSE d[1])
      /\ e[Len(e)] = (IF o = Len(d) + 1 THEN r ELSE d[Len(d)])
      /\ \A i \in Nat : Holds(e, i) <=> Holds(d, i) \/ In(r, i)
  BY <1>1, InsertOrdered
<1>4. n \in Int
  BY <1>1, <1>2 DEF Size
<1>5. t = [s EXCEPT ![c] = k]
  BY <1>0 DEF InsertIn
<1> HIDE DEF e, n
<1>6. /\ Fits(k) /\ k.data = e /\ k.begin = e[1][1] /\ k.end = e[Len(e)][2]
  <2>1. Len(e) <= MaxSize
    BY <1>1, <1>3, MaxSizeAssumption
  <2> QED BY <1>3, <1>4, <2>1, ChunkFits
<1> HIDE DEF k, t
<1>7. \A a \in 1 .. Len(s) : a < c => s[a].end < k.begin
  BY <1>1, <1>3, <1>6, LaidType
<1>8. \A a \in 1 .. Len(s) : c < a => k.end < s[a].begin
  BY <1>1, <1>3, <1>6, LaidType
<1>9. /\ Laid([s EXCEPT ![c] = k])
      /\ \A i \in Nat : Has([s EXCEPT ![c] = k], i) <=> (Has(s, i) /\ ~Holds(s[c].data, i)) \/ Holds(k.data, i)
  BY <1>6, <1>7, <1>8, PutChunk
<1>10. ASSUME NEW i \in Nat
       PROVE  Has(t, i) <=> Has(s, i) \/ In(r, i)
  <2>1. Has(t, i) <=> (Has(s, i) /\ ~Holds(d, i)) \/ Holds(e, i)
    BY <1>5, <1>6, <1>9
  <2>2. Holds(d, i) => Has(s, i)
    BY DEF Has
  <2>3. Holds(e, i) <=> Holds(d, i) \/ In(r, i)
    BY <1>3
  <2> QED BY <2>1, <2>2, <2>3
<1> QED BY <1>5, <1>9, <1>10 DEF t

\* ensure_space: a full chunk becomes two, of its halves.
LEMMA SplitLaid ==
  ASSUME NEW s, Laid(s), NEW c \in 1 .. Len(s), Len(s[c].data) = MaxSize,
         NEW half, half = MaxSize \div 2
  PROVE  LET t == Split(s, c) IN
         /\ Laid(t) /\ Len(t) = Len(s) + 1
         /\ \A a \in 1 .. Len(s) : a < c => t[a] = s[a]
         /\ \A a \in 1 .. Len(s) : c < a => t[a + 1] = s[a]
         /\ Len(t[c].data) = half /\ Len(t[c + 1].data) = half
         /\ \A b \in 1 .. half : t[c].data[b] = s[c].data[b] /\ t[c + 1].data[b] = s[c].data[half + b]
         /\ t[c].end = s[c].data[half][2] /\ t[c + 1].begin = s[c].data[half + 1][1]
         /\ \A i \in Nat : Has(t, i) <=> Has(s, i)
<1> DEFINE d == s[c].data
           p == SubSeq(d, 1, half)
           q == SubSeq(d, half + 1, MaxSize)
           n == s[c].count - Total(q)
           m == Total(q)
           x == Chunk(p, n)
           y == Chunk(q, m)
           t == Split(s, c)
<1>0. Len(s) \in Nat /\ DOMAIN s = 1 .. Len(s) /\ Fits(s[c])
  BY LaidType
<1>1. Ordered(d) /\ Len(d) = MaxSize /\ s[c].count \in Int
      /\ s[c].begin = d[1][1] /\ s[c].end = d[Len(d)][2]
  BY <1>0, FitsType
<1>2. half \in Nat \ {0} /\ MaxSize = 2 * half /\ MaxSize \in Nat
  BY HalfSize
<1>3. /\ Ordered(p) /\ Len(p) = half
      /\ p[1] = d[1] /\ p[Len(p)] = d[half]
      /\ \A b \in 1 .. half : p[b] = d[b]
      /\ \A i \in Nat : Holds(p, i) <=> \E o \in 1 .. half : In(d[o], i)
  <2>1. 1 \in 1 .. Len(d) /\ half \in 1 .. Len(d) /\ 1 <= half /\ half - 1 + 1 = half
    BY <1>1, <1>2
  <2>2. LET e == SubSeq(d, 1, half) IN
        /\ Ordered(e) /\ Len(e) = half - 1 + 1
        /\ e[1] = d[1] /\ e[Len(e)] = d[half]
        /\ \A b \in 1 .. half - 1 + 1 : e[b] = d[1 + b - 1]
        /\ \A i \in Nat : Holds(e, i) <=> \E o \in 1 .. half : In(d[o], i)
    <3> HIDE DEF d, p
    <3>1. Ordered(d) /\ 1 \in 1 .. Len(d) /\ half \in 1 .. Len(d) /\ 1 <= half
      BY <1>1, <2>1
    <3> QED BY <3>1, SubOrdered
  <2>3. /\ Ordered(p) /\ Len(p) = half - 1 + 1
        /\ p[1] = d[1] /\ p[Len(p)] = d[half]
        /\ \A b \in 1 .. half - 1 + 1 : p[b] = d[1 + b - 1]
        /\ \A i \in Nat : Holds(p, i) <=> \E o \in 1 .. half : In(d[o], i)
    <3> HIDE DEF d
    <3> QED BY <2>2
  <2> HIDE DEF d, p
  <2>4. \A b \in 1 .. half : 1 + b - 1 = b
    OBVIOUS
  <2>5. \A b \in 1 .. half : p[b] = d[b]
    BY <2>1, <2>3, <2>4
  <2>6. Len(p) = half
    BY <2>1, <2>3
  <2> QED BY <2>3, <2>5, <2>6
<1>4. /\ Ordered(q) /\ Len(q) = half
      /\ q[1] = d[half + 1] /\ q[Len(q)] = d[MaxSize]
      /\ \A b \in 1 .. half : q[b] = d[half + b]
      /\ \A i \in Nat : Holds(q, i) <=> \E o \in half + 1 .. MaxSize : In(d[o], i)
  <2>1. half + 1 \in 1 .. Len(d) /\ MaxSize \in 1 .. Len(d) /\ half + 1 <= MaxSize /\ MaxSize - (half + 1) + 1 = half
    <3>1. Len(d) = MaxSize
      BY <1>1
    <3> HIDE DEF d
    <3>2. /\ half + 1 \in 1 .. MaxSize /\ MaxSize \in 1 .. MaxSize
          /\ half + 1 <= MaxSize /\ MaxSize - (half + 1) + 1 = half
      BY <1>2
    <3> QED BY <3>1, <3>2
  <2>2. /\ Ordered(q) /\ Len(q) = MaxSize - (half + 1) + 1
        /\ q[1] = d[half + 1] /\ q[Len(q)] = d[MaxSize]
        /\ \A b \in 1 .. MaxSize - (half + 1) + 1 : q[b] = d[half + 1 + b - 1]
        /\ \A i \in Nat : Holds(q, i) <=> \E o \in half + 1 .. MaxSize : In(d[o], i)
    <3> HIDE DEF d
    <3> QED BY <1>1, <2>1, SubOrdered
  <2>3. \A b \in 1 .. half : half + 1 + b - 1 = half + b
    BY <1>2
  <2> QED BY <2>1, <2>2, <2>3
<1>5. t = Doubled(s, c, x, y)
  <2>1. MaxSize - MaxSize \div 2 = half
    BY <1>2
  <2> QED BY <2>1 DEF Split, Doubled
<1>6. \A i \in Nat : Holds(d, i) <=> Holds(p, i) \/ Holds(q, i)
  <2> TAKE i \in Nat
  <2>1. \A o \in 1 .. Len(d) : o \in 1 .. half \/ o \in half + 1 .. MaxSize
    BY <1>1, <1>2
  <2>2. \A o \in 1 .. half : o \in 1 .. Len(d)
    BY <1>1, <1>2
  <2>3. \A o \in half + 1 .. MaxSize : o \in 1 .. Len(d)
    BY <1>1, <1>2
  <2> QED BY <1>3, <1>4, <2>1, <2>2, <2>3 DEF Holds
<1> HIDE DEF p, q, n, m
<1>7. m \in Int /\ n \in Int
  <2>1. Total(q) \in Int
    BY <1>4, TotalType
  <2> QED BY <1>1, <2>1 DEF m, n
<1>8. /\ Fits(x) /\ x.data = p /\ x.begin = p[1][1] /\ x.end = p[Len(p)][2]
      /\ Fits(y) /\ y.data = q /\ y.begin = q[1][1] /\ y.end = q[Len(q)][2]
  <2>1. half <= MaxSize
    BY <1>2
  <2> QED BY <1>3, <1>4, <1>7, <2>1, ChunkFits
<1> HIDE DEF x, y, t
<1>9. x.begin = s[c].begin /\ y.end = s[c].end /\ x.end = d[half][2] /\ y.begin = d[half + 1][1]
  <2> HIDE DEF d, p, q
  <2>1. x.begin = d[1][1] /\ x.end = d[half][2]
    BY <1>3, <1>8
  <2>2. y.begin = d[half + 1][1] /\ y.end = d[MaxSize][2]
    BY <1>4, <1>8
  <2> QED BY <1>1, <2>1, <2>2
<1>10. x.end < y.begin
  <2>1. half \in 1 .. Len(d) /\ half + 1 \in 1 .. Len(d) /\ half < half + 1
    <3> HIDE DEF d
    <3> QED BY <1>1, <1>2
  <2>2. \A a, b \in 1 .. Len(d) : a < b => d[a][2] < d[b][1]
    BY <1>1 DEF Ordered
  <2> HIDE DEF d
  <2>3. d[half][2] < d[half + 1][1]
    BY <2>1, <2>2
  <2> QED BY <1>9, <2>3
<1>11. /\ Laid(Doubled(s, c, x, y)) /\ Len(Doubled(s, c, x, y)) = Len(s) + 1
       /\ Doubled(s, c, x, y)[c] = x /\ Doubled(s, c, x, y)[c + 1] = y
       /\ \A a \in 1 .. Len(s) : a < c => Doubled(s, c, x, y)[a] = s[a]
       /\ \A a \in 1 .. Len(s) : c < a => Doubled(s, c, x, y)[a + 1] = s[a]
       /\ \A i \in Nat : Has(Doubled(s, c, x, y), i) <=> Has(s, i)
  <2>1. \A i \in Nat : Holds(s[c].data, i) <=> Holds(x.data, i) \/ Holds(y.data, i)
    BY <1>6, <1>8
  <2> QED BY <2>1, <1>8, <1>9, <1>10, DoubleChunk
<1>12. t[c].data = p /\ t[c + 1].data = q /\ t[c].end = d[half][2] /\ t[c + 1].begin = d[half + 1][1]
  BY <1>5, <1>8, <1>9, <1>11
<1>13. \A b \in 1 .. half : t[c].data[b] = d[b] /\ t[c + 1].data[b] = d[half + b]
  BY <1>3, <1>4, <1>12
<1>14. Len(t[c].data) = half /\ Len(t[c + 1].data) = half
  BY <1>3, <1>4, <1>12
<1> QED BY <1>5, <1>11, <1>12, <1>13, <1>14 DEF t

\* A range of one.
LEMMA SingleRange ==
  ASSUME NEW r \in Nat \X Nat, r[1] < r[2]
  PROVE  /\ Fits(Chunk(<<r>>, Size(r))) /\ Chunk(<<r>>, Size(r)).data = <<r>>
         /\ Chunk(<<r>>, Size(r)).begin = r[1] /\ Chunk(<<r>>, Size(r)).end = r[2]
         /\ \A i \in Nat : Holds(<<r>>, i) <=> In(r, i)
<1> DEFINE X == Nat \X Nat
<1>1. r \in X
  OBVIOUS
<1> HIDE DEF X
<1>2. <<r>> \in Seq(X) /\ Len(<<r>>) = 1 /\ <<r>>[1] = r
  BY <1>1
<1>3. Ordered(<<r>>)
  BY <1>2 DEF Ordered, X
<1>4. Size(r) \in Int
  BY DEF Size
<1>5. Len(<<r>>) <= MaxSize
  BY <1>2, MaxSizeAssumption
<1>6. \A i \in Nat : Holds(<<r>>, i) <=> In(r, i)
  BY <1>2 DEF Holds
<1> DEFINE d == <<r>>
           n == Size(r)
<1>7. Ordered(d) /\ n \in Int /\ Len(d) <= MaxSize /\ Len(d) = 1 /\ d[1] = r
  BY <1>2, <1>3, <1>4, <1>5
<1> HIDE DEF d, n
<1>8. Fits(Chunk(d, n)) /\ Chunk(d, n).data = d /\ Chunk(d, n).begin = r[1] /\ Chunk(d, n).end = r[2]
  <2>1. /\ Fits(Chunk(d, n)) /\ Chunk(d, n).data = d
        /\ Chunk(d, n).begin = d[1][1] /\ Chunk(d, n).end = d[Len(d)][2]
    BY <1>7, ChunkFits
  <2>2. d[1] = r /\ d[Len(d)] = r
    BY <1>7
  <2> QED BY <2>1, <2>2
<1> QED BY <1>6, <1>8 DEF d, n

\* insert at the end: push_back.
LEMMA InsertAtEndLaid ==
  ASSUME NEW s, Laid(s), NEW r \in Nat \X Nat, r[1] < r[2],
         \A a \in 1 .. Len(s) : s[a].end < r[1]
  PROVE  /\ Laid(InsertRange(s, End(s), r))
         /\ \A i \in Nat : Has(InsertRange(s, End(s), r), i) <=> Has(s, i) \/ In(r, i)
<1> DEFINE t == InsertRange(s, End(s), r)
           last == Len(s)
           d == s[last].data
<1>0. Len(s) \in Nat /\ DOMAIN s = 1 .. Len(s)
  BY LaidType
<1>9. t = IF s # <<>> /\ Len(s[Len(s)].data) < MaxSize
          THEN InsertIn(s, Len(s), Len(s[Len(s)].data) + 1, r)
          ELSE Append(s, Chunk(<<r>>, Size(r)))
  <2> DEFINE pos == End(s)
  <2>1. pos = End(s) /\ ~(pos # End(s))
    OBVIOUS
  <2> HIDE DEF pos
  <2>2. InsertRange(s, pos, r) = IF s # <<>> /\ Len(s[Len(s)].data) < MaxSize
                                 THEN InsertIn(s, Len(s), Len(s[Len(s)].data) + 1, r)
                                 ELSE Append(s, Chunk(<<r>>, Size(r)))
    BY <2>1, Zenon DEF InsertRange
  <2> QED BY <2>1, <2>2
<1>1. CASE s # <<>> /\ Len(d) < MaxSize
  <2>1. t = InsertIn(s, last, Len(d) + 1, r)
    BY <1>1, <1>9, Zenon
  <2>2. last \in 1 .. Len(s)
    BY <1>0, <1>1, LaidType, EmptySeq
  <2>3. Ordered(d) /\ Len(d) \in Nat /\ s[last].end = d[Len(d)][2]
    BY <2>2, LaidType, FitsType
  <2>4. \A b \in 1 .. Len(d) : d[b][2] <= d[Len(d)][2] /\ d[b][2] \in Nat
    BY <2>3, OrderedBounds, OrderedType
  <2>5. r[1] \in Nat /\ s[last].end < r[1] /\ d[Len(d)][2] \in Nat
    BY <2>2, <2>3, LaidType
  <2>6. \A b \in 1 .. Len(d) : d[b][2] < r[1]
    BY <2>3, <2>4, <2>5
  <2>7. Len(d) + 1 \in 1 .. Len(d) + 1 /\ \A b \in 1 .. Len(d) : ~(Len(d) + 1 <= b)
    BY <2>3
  <2>8. \A a \in 1 .. Len(s) : ~(last < a)
    BY <1>0
  <2> DEFINE o == Len(d) + 1
  <2>9. o \in 1 .. Len(d) + 1 /\ (\A b \in 1 .. Len(d) : ~(o <= b)) /\ t = InsertIn(s, last, o, r)
    BY <2>1, <2>7
  <2>10. \A a \in 1 .. Len(s) : a < last => s[a].end < r[1]
    OBVIOUS
  <2> HIDE DEF t, last, o
  <2>11. /\ Laid(InsertIn(s, last, o, r))
         /\ \A i \in Nat : Has(InsertIn(s, last, o, r), i) <=> Has(s, i) \/ In(r, i)
    BY <1>1, <2>2, <2>6, <2>8, <2>9, <2>10, InsertInLaid
  <2> QED BY <2>9, <2>11 DEF t
<1>2. CASE ~(s # <<>> /\ Len(d) < MaxSize)
  <2> DEFINE k == Chunk(<<r>>, Size(r))
  <2>1. t = Append(s, k)
    BY <1>2, <1>9, Zenon
  <2>2. Fits(k) /\ k.data = <<r>> /\ k.begin = r[1] /\ \A i \in Nat : Holds(<<r>>, i) <=> In(r, i)
    BY SingleRange
  <2> HIDE DEF k
  <2>3. \A a \in 1 .. Len(s) : s[a].end < k.begin
    BY <2>2
  <2>4. /\ Laid(Append(s, k))
        /\ \A i \in Nat : Has(Append(s, k), i) <=> Has(s, i) \/ Holds(k.data, i)
    BY <2>2, <2>3, AppendChunk
  <2> QED BY <2>1, <2>2, <2>4
<1> QED BY <1>1, <1>2

\* insert before a range.
LEMMA InsertBeforeLaid ==
  ASSUME NEW s, Laid(s), NEW c \in 1 .. Len(s), NEW o \in 1 .. Len(s[c].data),
         NEW r \in Nat \X Nat, r[1] < r[2],
         Under(s, c, o, r[1]), r[2] < s[c].data[o][1]
  PROVE  /\ Laid(InsertRange(s, <<c, o>>, r))
         /\ \A i \in Nat : Has(InsertRange(s, <<c, o>>, r), i) <=> Has(s, i) \/ In(r, i)
<1> DEFINE t == InsertRange(s, <<c, o>>, r)
           d == s[c].data
           half == MaxSize \div 2
<1>0. Len(s) \in Nat /\ DOMAIN s = 1 .. Len(s)
  BY LaidType
<1>1. Ordered(d) /\ Len(d) \in 1 .. MaxSize
      /\ s[c].begin = d[1][1] /\ s[c].end = d[Len(d)][2]
  BY LaidType, FitsType
<1>2. r[1] \in Nat /\ r[2] \in Nat
  OBVIOUS
<1>3. /\ \A a \in 1 .. Len(s) : a < c => s[a].end < r[1]
      /\ \A b \in 1 .. Len(d) : b < o => d[b][2] < r[1]
  <2>1. o \in 1 .. Len(d) + 1
    BY <1>1
  <2> QED BY <1>2, <2>1, UnderChunks
<1>4. \A b \in 1 .. Len(d) : o <= b => r[2] < d[b][1]
  <2> TAKE b \in 1 .. Len(d)
  <2> HAVE o <= b
  <2>1. d[o][1] \in Nat /\ d[o][2] \in Nat /\ d[o][1] < d[o][2] /\ d[b][1] \in Nat
    BY <1>1, OrderedType DEF Ordered
  <2>2. o < b => d[o][2] < d[b][1]
    BY <1>1 DEF Ordered
  <2>3. o < b \/ o = b
    BY <1>1
  <2> QED BY <1>2, <2>1, <2>2, <2>3
<1>5. \A a \in 1 .. Len(s) : c < a => r[2] < s[a].begin
  <2> TAKE a \in 1 .. Len(s)
  <2> HAVE c < a
  <2>1. s[c].end < s[a].begin /\ s[c].end \in Nat /\ s[a].begin \in Nat
    BY LaidType
  <2>2. d[o][1] < s[c].end /\ d[o][1] \in Nat
    <3> DEFINE f == d[o][1]
               g == d[o][2]
               e == s[c].end
    <3>1. f \in Nat /\ g \in Nat /\ f < g /\ g <= e
      BY RangesApart
    <3>2. e \in Nat
      BY <2>1
    <3> HIDE DEF d, e, f, g
    <3>3. f < e
      BY <3>1, <3>2
    <3> QED BY <3>1, <3>3 DEF e, f
  <2>3. r[2] < d[o][1]
    OBVIOUS
  <2> DEFINE u == r[2]
             v == d[o][1]
             w == s[c].end
             z == s[a].begin
  <2>4. u \in Nat /\ v \in Nat /\ w \in Nat /\ z \in Nat /\ u < v /\ v < w /\ w < z
    BY <1>2, <2>1, <2>2, <2>3
  <2> HIDE DEF d, u, v, w, z
  <2>5. u < z
    BY <2>4
  <2> QED BY <2>5 DEF u, z
<1>6. <<c, o>> # End(s)
  BY <1>0 DEF End
<1>9. /\ Len(d) < MaxSize => t = InsertIn(s, c, o, r)
      /\ Len(d) >= MaxSize => t = IF o - 1 >= half THEN InsertIn(Split(s, c), c + 1, o - half, r)
                                 ELSE InsertIn(Split(s, c), c, o, r)
  <2> DEFINE pos == <<c, o>>
  <2>1. pos # End(s) /\ ~(pos = End(s)) /\ pos[1] = c /\ pos[2] = o
    BY <1>6
  <2>2. Len(d) < MaxSize <=> ~(Len(d) >= MaxSize)
    BY <1>1, HalfSize
  <2> HIDE DEF pos
  <2>3. Len(d) < MaxSize => InsertRange(s, pos, r) = InsertIn(s, pos[1], pos[2], r)
    BY <2>1, <2>2, Zenon DEF InsertRange
  <2>4. Len(d) >= MaxSize =>
          InsertRange(s, pos, r) = IF pos[2] - 1 >= MaxSize \div 2
                                   THEN InsertIn(Split(s, pos[1]), pos[1] + 1, pos[2] - MaxSize \div 2, r)
                                   ELSE InsertIn(Split(s, pos[1]), pos[1], pos[2], r)
    BY <2>1, <2>2, Zenon DEF InsertRange
  <2> HIDE DEF half
  <2> QED BY <2>1, <2>3, <2>4 DEF pos, half
<1>7. CASE Len(d) < MaxSize
  <2>1. t = InsertIn(s, c, o, r)
    BY <1>7, <1>9
  <2>2. o \in 1 .. Len(d) + 1
    BY <1>1
  <2> HIDE DEF t
  <2>3. /\ Laid(InsertIn(s, c, o, r))
        /\ \A i \in Nat : Has(InsertIn(s, c, o, r), i) <=> Has(s, i) \/ In(r, i)
    BY <1>3, <1>4, <1>5, <1>7, <2>2, InsertInLaid
  <2> QED BY <2>1, <2>3 DEF t
<1>8. CASE ~(Len(d) < MaxSize)
  <2> DEFINE u == Split(s, c)
  <2>1. Len(d) = MaxSize /\ MaxSize \in Nat /\ half \in Nat \ {0} /\ MaxSize = 2 * half /\ Len(d) >= MaxSize
    BY <1>1, <1>8, HalfSize
  <2>2. /\ Laid(u) /\ Len(u) = Len(s) + 1
        /\ \A a \in 1 .. Len(s) : a < c => u[a] = s[a]
        /\ \A a \in 1 .. Len(s) : c < a => u[a + 1] = s[a]
        /\ Len(u[c].data) = half /\ Len(u[c + 1].data) = half
        /\ \A b \in 1 .. half : u[c].data[b] = d[b] /\ u[c + 1].data[b] = d[half + b]
        /\ u[c].end = d[half][2] /\ u[c + 1].begin = d[half + 1][1]
        /\ \A i \in Nat : Has(u, i) <=> Has(s, i)
    BY <2>1, SplitLaid
  <2>3. half < MaxSize /\ half \in 1 .. Len(d) /\ half + 1 \in 1 .. Len(d)
    BY <2>1
  <2>4. \A a \in 1 .. Len(u) : /\ a < c => a \in 1 .. Len(s)
                               /\ c + 1 < a => a - 1 \in 1 .. Len(s) /\ c < a - 1 /\ (a - 1) + 1 = a
                               /\ a = c \/ a = c + 1 \/ a < c \/ c + 1 < a
    <3> HIDE DEF u, t, d, half
    <3> TAKE a \in 1 .. Len(u)
    <3>1. Len(s) \in Nat /\ Len(u) = Len(s) + 1 /\ c \in 1 .. Len(s) /\ a \in 1 .. Len(u)
      BY <1>0, <2>2
    <3>2. a < c => a \in 1 .. Len(s)
      BY <3>1
    <3>3. c + 1 < a => a - 1 \in 1 .. Len(s) /\ c < a - 1 /\ (a - 1) + 1 = a
      BY <3>1
    <3>4. a = c \/ a = c + 1 \/ a < c \/ c + 1 < a
      BY <3>1
    <3> QED BY <3>2, <3>3, <3>4
  <2>5. c \in 1 .. Len(u) /\ c + 1 \in 1 .. Len(u)
    BY <1>0, <2>2
  <2>6. ASSUME NEW a \in 1 .. Len(u), c + 1 < a
        PROVE  r[2] < u[a].begin
    <3>1. u[(a - 1) + 1] = s[a - 1]
      BY <2>2, <2>4, <2>6
    <3> QED BY <1>5, <2>4, <2>6, <3>1
  <2>7. \A a \in 1 .. Len(u) : a < c => u[a].end < r[1]
    BY <1>3, <2>2, <2>4
  <2>8. CASE o - 1 >= half
    <3> DEFINE p == o - half
    <3>1. t = InsertIn(u, c + 1, p, r)
      BY <1>9, <2>1, <2>8
    <3>2. p \in 1 .. half + 1 /\ half < o
      BY <1>1, <2>1, <2>8
    <3>3. ASSUME NEW b \in 1 .. half
          PROVE  /\ half + b \in 1 .. Len(d)
                 /\ b < p => half + b < o
                 /\ p <= b => o <= half + b
      <4> HIDE DEF t, u, d, half
      <4>1. half \in Nat /\ Len(d) = 2 * half /\ b \in 1 .. half /\ o \in Int
        BY <1>1, <2>1
      <4>2. half + b \in 1 .. Len(d)
        BY <4>1
      <4>3. b < p => half + b < o
        BY <4>1
      <4>4. p <= b => o <= half + b
        BY <4>1
      <4> QED BY <4>2, <4>3, <4>4
    <3>4. \A b \in 1 .. half : b < p => u[c + 1].data[b][2] < r[1]
      BY <1>3, <2>2, <3>3
    <3>5. \A b \in 1 .. half : p <= b => r[2] < u[c + 1].data[b][1]
      BY <1>4, <2>2, <3>3
    <3>6. u[c].end < r[1]
      BY <1>3, <2>2, <2>3, <3>2
    <3>7. \A a \in 1 .. Len(u) : a < c + 1 => u[a].end < r[1]
      <4>1. \A a \in 1 .. Len(u) : a < c + 1 => a < c \/ a = c
        BY <2>2, <2>4
      <4> QED BY <4>1, <2>7, <3>6
    <3> HIDE DEF t, u, p, half
    <3>8. /\ Laid(InsertIn(u, c + 1, p, r))
          /\ \A i \in Nat : Has(InsertIn(u, c + 1, p, r), i) <=> Has(u, i) \/ In(r, i)
      <4> DEFINE e == c + 1
      <4>1. /\ e \in 1 .. Len(u) /\ Len(u[e].data) = half /\ half < MaxSize
            /\ p \in 1 .. half + 1
            /\ \A b \in 1 .. half : b < p => u[e].data[b][2] < r[1]
            /\ \A b \in 1 .. half : p <= b => r[2] < u[e].data[b][1]
            /\ \A a \in 1 .. Len(u) : a < e => u[a].end < r[1]
            /\ \A a \in 1 .. Len(u) : e < a => r[2] < u[a].begin
        BY <2>2, <2>3, <2>5, <2>6, <3>2, <3>4, <3>5, <3>7
      <4> HIDE DEF e
      <4>2. /\ Laid(InsertIn(u, e, p, r))
            /\ \A i \in Nat : Has(InsertIn(u, e, p, r), i) <=> Has(u, i) \/ In(r, i)
        <5>1. /\ Len(u[e].data) < MaxSize
              /\ p \in 1 .. Len(u[e].data) + 1
              /\ \A b \in 1 .. Len(u[e].data) : b < p => u[e].data[b][2] < r[1]
              /\ \A b \in 1 .. Len(u[e].data) : p <= b => r[2] < u[e].data[b][1]
          BY <4>1
        <5>2. Laid(u)
          BY <2>2
        <5> QED BY <4>1, <5>1, <5>2, InsertInLaid
      <4> QED BY <4>2 DEF e
    <3> QED BY <2>2, <3>1, <3>8 DEF t
  <2>9. CASE ~(o - 1 >= half)
    <3>1. t = InsertIn(u, c, o, r)
      BY <1>9, <2>1, <2>9
    <3>2. o \in 1 .. half + 1 /\ o <= half + 1 /\ o <= half
      BY <1>1, <2>1, <2>9
    <3>3. \A b \in 1 .. half : b \in 1 .. Len(d)
      BY <2>1
    <3>4. \A b \in 1 .. half : b < o => u[c].data[b][2] < r[1]
      BY <1>3, <2>2, <3>3
    <3>5. \A b \in 1 .. half : o <= b => r[2] < u[c].data[b][1]
      BY <1>4, <2>2, <3>3
    <3>6. r[2] < u[c + 1].begin
      BY <1>4, <2>2, <2>3, <3>2
    <3>7. \A a \in 1 .. Len(u) : c < a => r[2] < u[a].begin
      <4>1. \A a \in 1 .. Len(u) : c < a => c + 1 < a \/ a = c + 1
        BY <2>2, <2>4
      <4> QED BY <4>1, <2>6, <3>6
    <3> HIDE DEF t, u, half
    <3>8. /\ Laid(InsertIn(u, c, o, r))
          /\ \A i \in Nat : Has(InsertIn(u, c, o, r), i) <=> Has(u, i) \/ In(r, i)
      <4>1. /\ Len(u[c].data) < MaxSize
            /\ o \in 1 .. Len(u[c].data) + 1
            /\ \A b \in 1 .. Len(u[c].data) : b < o => u[c].data[b][2] < r[1]
            /\ \A b \in 1 .. Len(u[c].data) : o <= b => r[2] < u[c].data[b][1]
        BY <2>2, <2>3, <2>5, <3>2, <3>4, <3>5
      <4>2. Laid(u) /\ c \in 1 .. Len(u)
        BY <2>2, <2>3
      <4> QED BY <2>7, <3>7, <4>1, <4>2, InsertInLaid
    <3> QED BY <2>2, <3>1, <3>8 DEF t
  <2> QED BY <2>8, <2>9
<1> QED BY <1>7, <1>8
-----------------------------------------------------------------------------
(* The same by the rows they hold                                          *)

\* Row i lies in a range before range o of chunk c, in that range, or in one after it.
Around(s, c, o, i) ==
  \E a \in 1 .. Len(s) : \E b \in 1 .. Len(s[a].data) :
     /\ In(s[a].data[b], i)
     /\ \/ a < c \/ (a = c /\ b < o)
        \/ a = c /\ b = o
        \/ c < a \/ (a = c /\ o < b)

\* So does every row that the chunks have.
LEMMA RowAround ==
  ASSUME NEW s, Laid(s), NEW c \in 1 .. Len(s), NEW o \in 1 .. Len(s[c].data),
         NEW i \in Nat, Has(s, i)
  PROVE  Around(s, c, o, i)
<1>1. PICK a \in 1 .. Len(s) : Holds(s[a].data, i)
  BY DEF Has
<1>2. PICK b \in 1 .. Len(s[a].data) : In(s[a].data[b], i)
  BY <1>1 DEF Holds
<1>3. Len(s) \in Nat /\ Len(s[a].data) \in Nat /\ Len(s[c].data) \in Nat
  BY LaidType, FitsType
<1>4. \/ a < c \/ (a = c /\ b < o)
      \/ a = c /\ b = o
      \/ c < a \/ (a = c /\ o < b)
  BY <1>3
<1> QED BY <1>2, <1>4 DEF Around

\* A range, and the rows it does not touch.
LEMMA RowsBeside ==
  ASSUME NEW s, Laid(s), NEW c \in 1 .. Len(s), NEW o \in 1 .. Len(s[c].data),
         NEW r, r = s[c].data[o]
  PROVE  /\ \A i \in Nat : In(r, i) => Has(s, i)
         /\ ~Has(s, r[2])
         /\ \A i \in Nat : i + 1 = r[1] => ~Has(s, i)
<1>1. /\ r[1] \in Nat /\ r[2] \in Nat /\ r[1] < r[2]
      /\ Under(s, c, o, r[1]) /\ Over(s, c, o, r[2])
  BY RangesApart
<1>2. \A i \in Nat : In(r, i) => Has(s, i)
  BY DEF Has, Holds
<1>4. ASSUME NEW i \in Nat, Has(s, i)
      PROVE  i + 1 < r[1] \/ In(r, i) \/ r[2] < i
  <2>0. Around(s, c, o, i)
    BY <1>4, RowAround
  <2>1. PICK a \in 1 .. Len(s) : \E b \in 1 .. Len(s[a].data) :
                  /\ In(s[a].data[b], i)
                  /\ \/ a < c \/ (a = c /\ b < o)
                     \/ a = c /\ b = o
                     \/ c < a \/ (a = c /\ o < b)
    BY <2>0 DEF Around
  <2>2. PICK b \in 1 .. Len(s[a].data) :
                  /\ In(s[a].data[b], i)
                  /\ \/ a < c \/ (a = c /\ b < o)
                     \/ a = c /\ b = o
                     \/ c < a \/ (a = c /\ o < b)
    BY <2>1
  <2>3. s[a].data[b][1] \in Nat /\ s[a].data[b][2] \in Nat
    BY RangesApart
  <2>4. CASE a < c \/ (a = c /\ b < o)
    <3> DEFINE y == s[a].data[b][2]
               x == r[1]
    <3>1. y < x
      BY <1>1, <2>4 DEF Under
    <3>2. i < y /\ x \in Nat /\ y \in Nat
      BY <2>2, <2>3, <1>1 DEF In
    <3> HIDE DEF x, y
    <3>3. i + 1 < x
      BY <3>1, <3>2
    <3> QED BY <3>3 DEF x
  <2>5. CASE a = c /\ b = o
    BY <2>2, <2>5
  <2>6. CASE c < a \/ (a = c /\ o < b)
    <3>1. r[2] < s[a].data[b][1]
      BY <1>1, <2>6 DEF Over
    <3>2. s[a].data[b][1] <= i
      BY <2>2 DEF In
    <3> DEFINE q == s[a].data[b]
    <3>3. r[2] < q[1] /\ q[1] <= i /\ q[1] \in Nat
      BY <3>1, <3>2, <2>3
    <3> HIDE DEF q
    <3>4. r[2] < i
      BY <3>3, <1>1
    <3> QED BY <3>4
  <2> QED BY <2>2, <2>4, <2>5, <2>6
<1>5. ~Has(s, r[2])
  BY <1>1, <1>4 DEF In
<1>6. \A i \in Nat : i + 1 = r[1] => ~Has(s, i)
  BY <1>1, <1>4 DEF In
<1> QED BY <1>2, <1>5, <1>6

\* Where no range is follows from where no row is.
LEMMA UnderRows ==
  ASSUME NEW s, Laid(s), NEW c \in 1 .. Len(s), NEW o \in 1 .. Len(s[c].data), NEW x \in Nat,
         \A i \in Nat : Has(s, i) /\ i < s[c].data[o][1] => i + 1 < x
  PROVE  Under(s, c, o, x)
<1>1. ASSUME NEW a \in 1 .. Len(s), NEW b \in 1 .. Len(s[a].data), a < c \/ (a = c /\ b < o)
      PROVE  s[a].data[b][2] < x
  <2> DEFINE q == s[a].data[b]
             r == s[c].data[o]
  <2>1. q[1] \in Nat /\ q[2] \in Nat /\ q[1] < q[2]
    BY RangesApart
  <2>2. r[1] \in Nat /\ Under(s, c, o, r[1])
    BY RangesApart
  <2>3. q[2] < r[1]
    <3> DEFINE z == r[1]
    <3>1. Under(s, c, o, z)
      BY <2>2
    <3> HIDE DEF z
    <3>2. q[2] < z
      BY <1>1, <3>1 DEF Under
    <3> QED BY <3>2 DEF z
  <2>4. q[2] - 1 \in Nat /\ In(q, q[2] - 1)
    <3> HIDE DEF q
    <3> QED BY <2>1 DEF In
  <2>5. Has(s, q[2] - 1)
    BY <2>4 DEF Has, Holds
  <2> HIDE DEF q, r
  <2>6. q[2] - 1 < r[1] /\ q[2] - 1 + 1 = q[2]
    BY <2>1, <2>2, <2>3
  <2>7. q[2] - 1 + 1 < x
    BY <2>4, <2>5, <2>6 DEF r
  <2>8. q[2] < x
    BY <2>6, <2>7
  <2> QED BY <2>8 DEF q
<1> QED BY <1>1 DEF Under

\* The same of what comes after the position.
LEMMA OverRows ==
  ASSUME NEW s, Laid(s), NEW c \in 1 .. Len(s), NEW o \in 1 .. Len(s[c].data), NEW y \in Nat,
         \A i \in Nat : Has(s, i) /\ s[c].data[o][2] <= i => y < i
  PROVE  Over(s, c, o, y)
<1>1. ASSUME NEW a \in 1 .. Len(s), NEW b \in 1 .. Len(s[a].data), c < a \/ (a = c /\ o < b)
      PROVE  y < s[a].data[b][1]
  <2> DEFINE q == s[a].data[b]
             r == s[c].data[o]
  <2>1. q[1] \in Nat /\ q[2] \in Nat /\ q[1] < q[2]
    BY RangesApart
  <2>2. r[2] \in Nat /\ Over(s, c, o, r[2])
    BY RangesApart
  <2>3. r[2] < q[1]
    BY <1>1, <2>2 DEF Over
  <2>4. In(q, q[1])
    BY <2>1 DEF In
  <2>5. Has(s, q[1])
    BY <2>4 DEF Has, Holds
  <2> HIDE DEF q, r
  <2>6. r[2] <= q[1]
    BY <2>1, <2>2, <2>3
  <2>7. y < q[1]
    BY <2>1, <2>5, <2>6 DEF r
  <2> QED BY <2>7 DEF q
<1> QED BY <1>1 DEF Over

\* The same of all ranges, for one that goes to the end.
LEMMA EndRows ==
  ASSUME NEW s, Laid(s), NEW x \in Nat, \A i \in Nat : Has(s, i) => i + 1 < x
  PROVE  \A a \in 1 .. Len(s) : s[a].end < x
<1> TAKE a \in 1 .. Len(s)
<1>1. s[a].end \in Nat /\ s[a].begin \in Nat /\ s[a].begin < s[a].end /\ Holds(s[a].data, s[a].end - 1)
  BY LaidType, FitsType
<1>2. Has(s, s[a].end - 1)
  BY <1>1 DEF Has
<1>3. s[a].end - 1 \in Nat /\ s[a].end - 1 + 1 = s[a].end
  BY <1>1
<1> QED BY <1>2, <1>3

\* find, of rows.
LEMMA FindsRows ==
  ASSUME NEW s, Laid(s), NEW i \in Nat
  PROVE  LET pos == Find(s, i) IN
         \/ pos = End(s) /\ \A k \in Nat : Has(s, k) => k < i
         \/ /\ pos # End(s) /\ pos \in Positions(s)
            /\ i < At(s, pos)[2]
            /\ \A k \in Nat : Has(s, k) /\ k < At(s, pos)[1] => k < i
<1> DEFINE pos == Find(s, i)
           c == pos[1]
           o == pos[2]
           r == At(s, pos)
<1>1. \/ pos = End(s) /\ \A a \in 1 .. Len(s) : s[a].end <= i
      \/ /\ pos # End(s) /\ pos \in Positions(s)
         /\ \A a \in 1 .. Len(s) : a < c => s[a].end <= i
         /\ r[2] > i
         /\ \A b \in 1 .. Len(s[c].data) : b < o => s[c].data[b][2] <= i
  BY FindsRange
<1> HIDE DEF pos
<1>2. CASE pos = End(s) /\ \A a \in 1 .. Len(s) : s[a].end <= i
  <2>1. ASSUME NEW k \in Nat, Has(s, k)
        PROVE  k < i
    <3>1. PICK a \in 1 .. Len(s) : Holds(s[a].data, k)
      BY <2>1 DEF Has
    <3>2. k < s[a].end /\ s[a].end \in Nat
      BY <3>1, LaidType
    <3> QED BY <3>2, <1>2
  <2> QED BY <1>2, <2>1 DEF pos
<1>3. CASE pos # End(s)
  <2>1. /\ pos \in Positions(s)
        /\ \A a \in 1 .. Len(s) : a < c => s[a].end <= i
        /\ r[2] > i
        /\ \A b \in 1 .. Len(s[c].data) : b < o => s[c].data[b][2] <= i
    BY <1>1, <1>3
  <2>2. c \in 1 .. Len(s) /\ o \in 1 .. Len(s[c].data) /\ r = s[c].data[o]
    BY <2>1, PositionsOf DEF At
  <2>3. r[1] \in Nat /\ r[2] \in Nat /\ Over(s, c, o, r[2]) /\ r[1] < r[2]
    BY <2>2, RangesApart
  <2> HIDE DEF c, o, r
  <2>4. ASSUME NEW k \in Nat, Has(s, k), k < r[1]
        PROVE  k < i
    <3>0. PICK a \in 1 .. Len(s) : \E b \in 1 .. Len(s[a].data) :
                    /\ In(s[a].data[b], k)
                    /\ \/ a < c \/ (a = c /\ b < o)
                       \/ a = c /\ b = o
                       \/ c < a \/ (a = c /\ o < b)
      BY <2>2, <2>4, RowAround DEF Around
    <3>1. PICK b \in 1 .. Len(s[a].data) :
                    /\ In(s[a].data[b], k)
                    /\ \/ a < c \/ (a = c /\ b < o)
                       \/ a = c /\ b = o
                       \/ c < a \/ (a = c /\ o < b)
      BY <3>0
    <3>2. s[a].data[b][1] \in Nat /\ s[a].data[b][2] \in Nat /\ s[a].data[b][2] <= s[a].end /\ s[a].end \in Nat
      BY RangesApart, LaidType
    <3>3. CASE a < c
      BY <3>1, <3>2, <3>3, <2>1 DEF In
    <3>4. CASE a = c /\ b < o
      BY <3>1, <3>2, <3>4, <2>1 DEF In
    <3>5. CASE a = c /\ b = o
      BY <3>1, <3>5, <2>2, <2>3, <2>4 DEF In
    <3>6. CASE c < a \/ (a = c /\ o < b)
      <4>1. r[2] < s[a].data[b][1]
        BY <3>6, <2>3 DEF Over
      <4> QED BY <4>1, <3>1, <3>2, <2>3, <2>4 DEF In
    <3> QED BY <3>1, <3>3, <3>4, <3>5, <3>6
  <2>5. r[2] > i => i < r[2]
    BY <2>3
  <2> QED BY <1>3, <2>1, <2>4, <2>5 DEF pos, r
<1> QED BY <1>1, <1>2, <1>3

\* The range before a position.
LEMMA PrecedingRange ==
  ASSUME NEW s, Laid(s), NEW pos, pos \in Positions(s) \/ pos = End(s), pos # <<1, 1>>,
         NEW prev, prev = Preceding(s, pos)
  PROVE  /\ prev \in Positions(s)
         /\ prev[1] < pos[1] \/ (prev[1] = pos[1] /\ prev[2] < pos[2])
         /\ \A k \in Nat : Has(s, k) => \/ k < At(s, prev)[2]
                                        \/ pos \in Positions(s) /\ At(s, pos)[1] <= k
<1> DEFINE c == pos[1]
           o == pos[2]
           a == prev[1]
           b == prev[2]
<1>0. Len(s) \in Nat /\ DOMAIN s = 1 .. Len(s) /\ \A e \in 1 .. Len(s) : Len(s[e].data) \in Nat \ {0}
  BY LaidType, FitsType
<1>1. \/ pos \in Positions(s) /\ c \in 1 .. Len(s) /\ o \in 1 .. Len(s[c].data) /\ pos = <<c, o>>
      \/ pos = End(s) /\ c = Len(s) + 1 /\ o = 1 /\ pos = <<c, o>>
  BY PositionsOf DEF End
<1>2. prev = IF o > 1 THEN <<c, o - 1>> ELSE <<c - 1, Len(s[c - 1].data)>>
  BY DEF Preceding
<1>3. c = 1 => o > 1
  <2>1. c = 1 => o # 1
    BY <1>1
  <2> HIDE DEF c, o
  <2>2. o \in Nat \ {0}
    BY <1>0, <1>1
  <2> QED BY <2>1, <2>2
<1> HIDE DEF c, o
<1>4. CASE o > 1
  <2>1. pos \in Positions(s) /\ c \in 1 .. Len(s) /\ o \in 1 .. Len(s[c].data) /\ pos = <<c, o>>
    BY <1>1, <1>4
  <2>2. a = c /\ b = o - 1 /\ prev = <<c, b>>
    BY <1>2, <1>4
  <2> HIDE DEF a, b
  <2>3. b \in 1 .. Len(s[c].data)
    BY <1>0, <1>4, <2>1, <2>2
  <2>4. prev \in Positions(s)
    BY <2>1, <2>2, <2>3, PositionsOf
  <2> DEFINE p == s[c].data[b]
             r == s[c].data[o]
  <2>6. ASSUME NEW k \in Nat, Has(s, k)
        PROVE  k < p[2] \/ r[1] <= k
    <3>1. PICK e \in 1 .. Len(s) : \E f \in 1 .. Len(s[e].data) :
                    /\ In(s[e].data[f], k)
                    /\ \/ e < c \/ (e = c /\ f < o)
                       \/ e = c /\ f = o
                       \/ c < e \/ (e = c /\ o < f)
      <4>1. Around(s, c, o, k)
        BY <2>1, <2>6, RowAround
      <4> QED BY <4>1 DEF Around
    <3>2. PICK f \in 1 .. Len(s[e].data) :
                    /\ In(s[e].data[f], k)
                    /\ \/ e < c \/ (e = c /\ f < o)
                       \/ e = c /\ f = o
                       \/ c < e \/ (e = c /\ o < f)
      BY <3>1
    <3> DEFINE q == s[e].data[f]
    <3>3. /\ q[1] \in Nat /\ q[2] \in Nat
          /\ p[1] \in Nat /\ p[2] \in Nat /\ p[1] < p[2] /\ Under(s, c, b, p[1])
          /\ r[1] \in Nat /\ r[2] \in Nat /\ r[1] < r[2] /\ Over(s, c, o, r[2])
      BY <2>1, <2>3, RangesApart
    <3>4. q[1] <= k /\ k < q[2]
      BY <3>2 DEF In
    <3>5. \/ e < c \/ (e = c /\ f < b)
          \/ e = c /\ f = b
          \/ e = c /\ f = o
          \/ c < e \/ (e = c /\ o < f)
      BY <3>2, <2>2, <2>1, <1>0
    <3>6. CASE e < c \/ (e = c /\ f < b)
      <4>1. q[2] < p[1]
        BY <3>6, <3>3 DEF Under
      <4> HIDE DEF q, p, r
      <4> QED BY <4>1, <3>3, <3>4
    <3>7. CASE e = c /\ f = b
      BY <3>7, <3>4
    <3>8. CASE e = c /\ f = o
      BY <3>8, <3>4
    <3>9. CASE c < e \/ (e = c /\ o < f)
      <4>1. r[2] < q[1]
        BY <3>9, <3>3 DEF Over
      <4> HIDE DEF q, p, r
      <4> QED BY <4>1, <3>3, <3>4
    <3> QED BY <3>5, <3>6, <3>7, <3>8, <3>9
  <2>5. At(s, prev) = p /\ At(s, pos) = r
    BY <2>1, <2>2 DEF At
  <2> HIDE DEF p, r
  <2>7. a = c /\ b < o
    BY <2>1, <2>2
  <2> QED BY <2>1, <2>4, <2>5, <2>6, <2>7 DEF a, b, c, o
<1>5. CASE ~(o > 1)
  <2> DEFINE d == c - 1
             n == Len(s[d].data)
  <2>1. a = d /\ b = n /\ prev = <<d, n>>
    BY <1>2, <1>5
  <2>2. d \in 1 .. Len(s)
    BY <1>0, <1>1, <1>3, <1>5
  <2>3. n \in 1 .. n /\ n \in Nat
    BY <1>0, <2>2
  <2>4. prev \in Positions(s)
    BY <2>1, <2>2, <2>3, PositionsOf
  <2>5. o = 1
    BY <1>0, <1>1, <1>5
  <2>6. d < c
    BY <1>1, <1>0
  <2> DEFINE p == s[d].data[n]
             r == s[c].data[o]
  <2>7. ASSUME NEW k \in Nat, Has(s, k)
        PROVE  k < p[2] \/ (pos \in Positions(s) /\ r[1] <= k)
    <3>1. PICK e \in 1 .. Len(s) : \E f \in 1 .. Len(s[e].data) :
                    /\ In(s[e].data[f], k)
                    /\ \/ e < d \/ (e = d /\ f < n)
                       \/ e = d /\ f = n
                       \/ d < e \/ (e = d /\ n < f)
      <4> n \in 1 .. Len(s[d].data)
        BY <2>3
      <4> HIDE DEF n, d, p, r
      <4> QED BY <2>2, <2>7, RowAround DEF Around
    <3>2. PICK f \in 1 .. Len(s[e].data) :
                    /\ In(s[e].data[f], k)
                    /\ \/ e < d \/ (e = d /\ f < n)
                       \/ e = d /\ f = n
                       \/ d < e \/ (e = d /\ n < f)
      BY <3>1
    <3> DEFINE q == s[e].data[f]
    <3>3. /\ q[1] \in Nat /\ q[2] \in Nat
          /\ p[1] \in Nat /\ p[2] \in Nat /\ p[1] < p[2] /\ Under(s, d, n, p[1])
      BY <2>2, <2>3, RangesApart
    <3>4. q[1] <= k /\ k < q[2]
      BY <3>2 DEF In
    <3>5. CASE e < d \/ (e = d /\ f < n)
      <4>1. q[2] < p[1]
        BY <3>5, <3>3 DEF Under
      <4> HIDE DEF q, p, r
      <4> QED BY <4>1, <3>3, <3>4
    <3>6. CASE e = d /\ f = n
      BY <3>6, <3>4
    <3>7. CASE d < e \/ (e = d /\ n < f)
      <4>1. ~(e = d /\ n < f)
        BY <2>3
      <4>2. d < e
        BY <3>7, <4>1
      <4>3. c <= e
        BY <4>2, <2>2, <1>0, <1>1
      <4>4. pos \in Positions(s) /\ c \in 1 .. Len(s) /\ o \in 1 .. Len(s[c].data)
        BY <1>0, <1>1, <4>3
      <4>5. r[1] \in Nat /\ r[2] \in Nat /\ r[1] < r[2] /\ Over(s, c, o, r[2])
        BY <4>4, RangesApart
      <4>6. c < e \/ (e = c /\ o < f) \/ (e = c /\ f = o)
        BY <4>3, <2>5, <1>0, <4>4
      <4>7. CASE c < e \/ (e = c /\ o < f)
        <5> DEFINE x == r[1]
                   y == r[2]
                   z == q[1]
        <5>1. y < z
          BY <4>7, <4>5 DEF Over
        <5>2. x \in Nat /\ y \in Nat /\ z \in Nat /\ x < y /\ z <= k
          BY <4>5, <3>3, <3>4
        <5> HIDE DEF x, y, z
        <5>3. x <= k
          BY <5>1, <5>2
        <5> QED BY <5>3, <4>4 DEF x
      <4>8. CASE e = c /\ f = o
        BY <4>8, <4>4, <3>4
      <4> QED BY <4>6, <4>7, <4>8
    <3> QED BY <3>2, <3>5, <3>6, <3>7
  <2>8. At(s, prev) = p /\ At(s, pos) = r
    BY <2>1 DEF At, c, o
  <2> HIDE DEF d, n, p, r
  <2>9. a < c
    BY <2>1, <2>6
  <2> QED BY <2>4, <2>7, <2>8, <2>9 DEF a, c
<1> QED BY <1>4, <1>5

\* Before the first range there is no row.
LEMMA FirstRows ==
  ASSUME NEW s, Laid(s), <<1, 1>> \in Positions(s), NEW k \in Nat, Has(s, k)
  PROVE  At(s, <<1, 1>>)[1] <= k
<1>0. 1 \in 1 .. Len(s) /\ 1 \in 1 .. Len(s[1].data)
  BY PositionsOf
<1>1. PICK e \in 1 .. Len(s) : Holds(s[e].data, k)
  BY DEF Has
<1>2. s[e].begin <= k /\ s[e].begin \in Nat /\ s[1].begin \in Nat /\ s[1].end \in Nat /\ s[1].begin < s[1].end
  BY <1>0, <1>1, LaidType
<1>3. 1 < e => s[1].end < s[e].begin
  BY <1>0, LaidType
<1>4. e = 1 \/ 1 < e
  BY LaidType
<1>5. s[1].begin = s[1].data[1][1]
  BY <1>0, LaidType, FitsType
<1>6. At(s, <<1, 1>>) = s[1].data[1]
  BY DEF At
<1> QED BY <1>2, <1>3, <1>4, <1>5, <1>6

\* A range, and the rows it does not touch, by its position.
LEMMA RowsAt ==
  ASSUME NEW s, Laid(s), NEW pos \in Positions(s)
  PROVE  /\ At(s, pos) \in Nat \X Nat
         /\ At(s, pos)[1] \in Nat /\ At(s, pos)[2] \in Nat /\ At(s, pos)[1] < At(s, pos)[2]
         /\ \A i \in Nat : In(At(s, pos), i) => Has(s, i)
         /\ ~Has(s, At(s, pos)[2])
         /\ \A i \in Nat : i + 1 = At(s, pos)[1] => ~Has(s, i)
<1> DEFINE c == pos[1]
           o == pos[2]
           r == s[c].data[o]
<1>1. c \in 1 .. Len(s) /\ o \in 1 .. Len(s[c].data) /\ At(s, pos) = r
  BY PositionsOf DEF At
<1> HIDE DEF c, o
<1>2. r \in Nat \X Nat /\ r[1] \in Nat /\ r[2] \in Nat /\ r[1] < r[2]
  BY <1>1, RangesApart
<1>3. /\ \A i \in Nat : In(r, i) => Has(s, i)
      /\ ~Has(s, r[2])
      /\ \A i \in Nat : i + 1 = r[1] => ~Has(s, i)
  BY <1>1, RowsBeside
<1> QED BY <1>1, <1>2, <1>3

\* Ranges of two positions do not touch, whichever chunks they are in.
LEMMA ApartAt ==
  ASSUME NEW s, Laid(s), NEW p \in Positions(s), NEW q \in Positions(s),
         p[1] < q[1] \/ (p[1] = q[1] /\ p[2] < q[2])
  PROVE  At(s, p)[2] < At(s, q)[1]
<1> DEFINE a == p[1]
           b == p[2]
           c == q[1]
           o == q[2]
<1>1. /\ a \in 1 .. Len(s) /\ b \in 1 .. Len(s[a].data) /\ At(s, p) = s[a].data[b]
      /\ c \in 1 .. Len(s) /\ o \in 1 .. Len(s[c].data) /\ At(s, q) = s[c].data[o]
      /\ a < c \/ (a = c /\ b < o)
  BY PositionsOf DEF At
<1> HIDE DEF a, b, c, o
<1>2. Under(s, c, o, s[c].data[o][1])
  BY <1>1, RangesApart
<1> QED BY <1>1, <1>2 DEF Under

\* set and adjust, of rows: one range's rows make way for another's.
LEMMA PutRows ==
  ASSUME NEW s, Laid(s), NEW pos \in Positions(s), NEW r \in Nat \X Nat, r[1] < r[2],
         \A i \in Nat : Has(s, i) /\ i < At(s, pos)[1] => i + 1 < r[1],
         \A i \in Nat : Has(s, i) /\ At(s, pos)[2] <= i => r[2] < i
  PROVE  /\ Laid(PutRange(s, pos, r))
         /\ pos \in Positions(PutRange(s, pos, r)) /\ At(PutRange(s, pos, r), pos) = r
         /\ \A i \in Nat : Has(PutRange(s, pos, r), i) <=> (Has(s, i) /\ ~In(At(s, pos), i)) \/ In(r, i)
<1> DEFINE c == pos[1]
           o == pos[2]
<1>1. c \in 1 .. Len(s) /\ o \in 1 .. Len(s[c].data) /\ At(s, pos) = s[c].data[o] /\ pos = <<c, o>>
  BY PositionsOf DEF At
<1> HIDE DEF c, o
<1>2. r[1] \in Nat /\ r[2] \in Nat
  OBVIOUS
<1>3. Under(s, c, o, r[1])
  BY <1>1, <1>2, UnderRows
<1>4. Over(s, c, o, r[2])
  BY <1>1, <1>2, OverRows
<1>5. /\ Laid(PutRange(s, <<c, o>>, r)) /\ Len(PutRange(s, <<c, o>>, r)) = Len(s)
      /\ Len(PutRange(s, <<c, o>>, r)[c].data) = Len(s[c].data)
      /\ \A a \in 1 .. Len(s) : a # c => PutRange(s, <<c, o>>, r)[a] = s[a]
      /\ \A b \in 1 .. Len(s[c].data) : PutRange(s, <<c, o>>, r)[c].data[b] = IF b = o THEN r ELSE s[c].data[b]
      /\ \A i \in Nat : Has(PutRange(s, <<c, o>>, r), i) <=> (Has(s, i) /\ ~In(s[c].data[o], i)) \/ In(r, i)
  BY <1>1, <1>3, <1>4, PutRangeLaid
<1> DEFINE t == PutRange(s, pos, r)
<1>6. /\ Laid(t) /\ Len(t) = Len(s) /\ Len(t[c].data) = Len(s[c].data) /\ t[c].data[o] = r
      /\ \A i \in Nat : Has(t, i) <=> (Has(s, i) /\ ~In(At(s, pos), i)) \/ In(r, i)
  BY <1>1, <1>5
<1> HIDE DEF t
<1>7. pos \in Positions(t)
  <2>1. <<c, o>> \in Positions(t)
    BY <1>1, <1>6, PositionsOf
  <2> QED BY <2>1, <1>1
<1>8. At(t, pos) = r
  <2>1. pos[1] = c /\ pos[2] = o
    BY <1>1
  <2> QED BY <2>1, <1>6 DEF At
<1> QED BY <1>6, <1>7, <1>8 DEF t

\* erase, of rows: the range's rows go, and what comes before stays in its position.
LEMMA EraseRowsAt ==
  ASSUME NEW s, Laid(s), NEW pos \in Positions(s)
  PROVE  /\ Laid(EraseRange(s, pos))
         /\ \A i \in Nat : Has(EraseRange(s, pos), i) <=> Has(s, i) /\ ~In(At(s, pos), i)
         /\ \A prev \in Positions(s) :
               prev[1] < pos[1] \/ (prev[1] = pos[1] /\ prev[2] < pos[2]) =>
               /\ prev \in Positions(EraseRange(s, pos))
               /\ At(EraseRange(s, pos), prev) = At(s, prev)
<1> DEFINE c == pos[1]
           o == pos[2]
           t == EraseRange(s, pos)
<1>1. c \in 1 .. Len(s) /\ o \in 1 .. Len(s[c].data) /\ At(s, pos) = s[c].data[o] /\ pos = <<c, o>>
  BY PositionsOf DEF At
<1> HIDE DEF c, o
<1>2. /\ Laid(EraseRange(s, <<c, o>>))
      /\ \A i \in Nat : Has(EraseRange(s, <<c, o>>), i) <=> Has(s, i) /\ ~In(s[c].data[o], i)
      /\ \A a \in 1 .. Len(s) : a < c => a \in 1 .. Len(EraseRange(s, <<c, o>>)) /\ EraseRange(s, <<c, o>>)[a] = s[a]
      /\ \A b \in 1 .. Len(s[c].data) : b < o =>
            /\ c \in 1 .. Len(EraseRange(s, <<c, o>>))
            /\ b \in 1 .. Len(EraseRange(s, <<c, o>>)[c].data)
            /\ EraseRange(s, <<c, o>>)[c].data[b] = s[c].data[b]
  BY <1>1, EraseRangeLaid
<1>3. /\ Laid(t)
      /\ \A i \in Nat : Has(t, i) <=> Has(s, i) /\ ~In(s[c].data[o], i)
      /\ \A a \in 1 .. Len(s) : a < c => a \in 1 .. Len(t) /\ t[a] = s[a]
      /\ \A b \in 1 .. Len(s[c].data) : b < o =>
            c \in 1 .. Len(t) /\ b \in 1 .. Len(t[c].data) /\ t[c].data[b] = s[c].data[b]
  BY <1>1, <1>2
<1> HIDE DEF t
<1>4. ASSUME NEW prev \in Positions(s), prev[1] < c \/ (prev[1] = c /\ prev[2] < o)
      PROVE  prev \in Positions(t) /\ At(t, prev) = At(s, prev)
  <2> DEFINE a == prev[1]
             b == prev[2]
  <2>1. a \in 1 .. Len(s) /\ b \in 1 .. Len(s[a].data) /\ At(s, prev) = s[a].data[b] /\ prev = <<a, b>>
    BY PositionsOf DEF At
  <2> HIDE DEF a, b
  <2>2. a \in 1 .. Len(t) /\ b \in 1 .. Len(t[a].data) /\ t[a].data[b] = s[a].data[b]
    BY <2>1, <1>3, <1>4 DEF a, b
  <2>3. prev \in Positions(t)
    BY <2>1, <2>2, <1>3, PositionsOf
  <2>4. At(t, prev) = t[a].data[b]
    BY DEF At, a, b
  <2> QED BY <2>1, <2>2, <2>3, <2>4
<1> QED BY <1>1, <1>3, <1>4 DEF t, c, o

\* insert, of rows: a range is added before the position.
LEMMA InsertRowsAt ==
  ASSUME NEW s, Laid(s), NEW pos \in Positions(s), NEW r \in Nat \X Nat, r[1] < r[2],
         \A i \in Nat : Has(s, i) /\ i < At(s, pos)[1] => i + 1 < r[1],
         r[2] < At(s, pos)[1]
  PROVE  /\ Laid(InsertRange(s, pos, r))
         /\ \A i \in Nat : Has(InsertRange(s, pos, r), i) <=> Has(s, i) \/ In(r, i)
<1> DEFINE c == pos[1]
           o == pos[2]
<1>1. c \in 1 .. Len(s) /\ o \in 1 .. Len(s[c].data) /\ At(s, pos) = s[c].data[o] /\ pos = <<c, o>>
  BY PositionsOf DEF At
<1> HIDE DEF c, o
<1>2. r[1] \in Nat /\ r[2] \in Nat
  OBVIOUS
<1>3. Under(s, c, o, r[1])
  BY <1>1, <1>2, UnderRows
<1>5. /\ Laid(InsertRange(s, <<c, o>>, r))
      /\ \A i \in Nat : Has(InsertRange(s, <<c, o>>, r), i) <=> Has(s, i) \/ In(r, i)
  BY <1>1, <1>3, InsertBeforeLaid
<1> QED BY <1>1, <1>5

\* push_back, of rows: a range is added at the end.
LEMMA InsertRowsEnd ==
  ASSUME NEW s, Laid(s), NEW r \in Nat \X Nat, r[1] < r[2],
         \A i \in Nat : Has(s, i) => i + 1 < r[1]
  PROVE  /\ Laid(InsertRange(s, End(s), r))
         /\ \A i \in Nat : Has(InsertRange(s, End(s), r), i) <=> Has(s, i) \/ In(r, i)
<1>1. r[1] \in Nat
  OBVIOUS
<1>2. \A a \in 1 .. Len(s) : s[a].end < r[1]
  BY <1>1, EndRows
<1> QED BY <1>2, InsertAtEndLaid

\* do_add adds a row.
THEOREM DoAddAdds ==
  ASSUME NEW s, Laid(s), NEW i \in Nat
  PROVE  /\ Laid(DoAdd(s, i))
         /\ \A k \in Nat : Has(DoAdd(s, i), k) <=> Has(s, k) \/ k = i
<1> DEFINE pos == Find(s, i)
           valid == pos # End(s)
           prev == Preceding(s, pos)
           r == At(s, pos)
           p == At(s, prev)
           t == DoAdd(s, i)
           A == valid /\ r[1] <= i
           B == pos # <<1, 1>> /\ p[2] = i
           J == valid /\ r[1] = i + 1
<1>1. \/ pos = End(s) /\ (\A k \in Nat : Has(s, k) => k < i)
      \/ /\ valid /\ pos \in Positions(s) /\ i < r[2]
         /\ \A k \in Nat : Has(s, k) /\ k < r[1] => k < i
  BY FindsRows
<1>2. valid <=> pos \in Positions(s)
  <2>1. End(s) \notin Positions(s)
    <3>1. Len(s) + 1 \notin 1 .. Len(s) /\ End(s)[1] = Len(s) + 1
      BY LaidType DEF End
    <3> QED BY <3>1, PositionsOf
  <2> HIDE DEF pos
  <2> QED BY <1>1, <2>1
<1> HIDE DEF pos
<1>3. valid => /\ r \in Nat \X Nat
               /\ r[1] \in Nat /\ r[2] \in Nat /\ r[1] < r[2]
               /\ \A k \in Nat : In(r, k) => Has(s, k)
               /\ ~Has(s, r[2])
               /\ \A k \in Nat : k + 1 = r[1] => ~Has(s, k)
  BY <1>2, RowsAt
<1>4. pos # <<1, 1>> =>
        /\ prev \in Positions(s)
        /\ prev[1] < pos[1] \/ (prev[1] = pos[1] /\ prev[2] < pos[2])
        /\ \A k \in Nat : Has(s, k) => k < p[2] \/ (valid /\ r[1] <= k)
  BY <1>1, <1>2, PrecedingRange
<1>5. pos # <<1, 1>> =>
        /\ p \in Nat \X Nat
        /\ p[1] \in Nat /\ p[2] \in Nat /\ p[1] < p[2]
        /\ \A k \in Nat : In(p, k) => Has(s, k)
        /\ ~Has(s, p[2])
  BY <1>4, RowsAt
<1>6. pos = <<1, 1>> => \A k \in Nat : Has(s, k) => valid /\ r[1] <= k
  <2> SUFFICES ASSUME pos = <<1, 1>>, NEW k \in Nat, Has(s, k)
               PROVE  valid /\ r[1] <= k
    OBVIOUS
  <2>1. valid
    <3>1. pos[1] = 1
      OBVIOUS
    <3>2. PICK a \in 1 .. Len(s) : Holds(s[a].data, k)
      BY DEF Has
    <3>3. Len(s) + 1 # 1
      BY <3>2, LaidType
    <3> QED BY <3>1, <3>3 DEF End
  <2> QED BY <2>1, <1>2, FirstRows
<1> HIDE DEF prev
<1>10. valid /\ pos # <<1, 1>> => p[2] < r[1]
  BY <1>2, <1>4, ApartAt
<1>7. ~(A /\ B)
  <2> SUFFICES ASSUME A, B PROVE FALSE
    OBVIOUS
  <2> HIDE DEF p, r
  <2> QED BY <1>3, <1>5, <1>10
<1>8. /\ A => t = s
      /\ ~A /\ B /\ J => t = PutRange(EraseRange(s, pos), prev, <<p[1], r[2]>>)
      /\ ~A /\ B /\ ~J => t = PutRange(s, prev, <<p[1], i + 1>>)
      /\ ~A /\ ~B /\ J => t = PutRange(s, pos, <<i, r[2]>>)
      /\ ~A /\ ~B /\ ~J => t = InsertRange(s, pos, <<i, i + 1>>)
  <2>1. A => t = s
    BY <1>7, Zenon DEF DoAdd, pos, prev
  <2>2. ~A /\ B => t = IF J THEN PutRange(EraseRange(s, pos), prev, <<p[1], r[2]>>)
                       ELSE PutRange(s, prev, <<p[1], i + 1>>)
    BY Zenon DEF DoAdd, pos, prev
  <2>3. ~A /\ ~B => t = IF J THEN PutRange(s, pos, <<i, r[2]>>)
                        ELSE InsertRange(s, pos, <<i, i + 1>>)
    BY Zenon DEF DoAdd, pos, prev
  <2> HIDE DEF A, B, J, t, p, r
  <2> QED BY <2>1, <2>2, <2>3
<1> HIDE DEF t, p, r
<1>9. ~B => \A k \in Nat : Has(s, k) /\ (valid => k < r[1]) => k + 1 < i
  <2> SUFFICES ASSUME ~B, NEW k \in Nat, Has(s, k), valid => k < r[1]
               PROVE  k + 1 < i
    OBVIOUS
  <2>1. pos # <<1, 1>>
    BY <1>3, <1>6
  <2>2. p[2] # i /\ p[1] \in Nat /\ p[2] \in Nat /\ p[1] < p[2]
    BY <2>1, <1>5
  <2>3. k < p[2]
    BY <2>1, <1>3, <1>4
  <2>4. p[2] - 1 \in Nat /\ In(p, p[2] - 1) /\ p[2] - 1 + 1 = p[2]
    BY <2>2 DEF In
  <2>5. Has(s, p[2] - 1)
    BY <2>1, <2>4, <1>5
  <2>6. p[2] - 1 < i
    <3>1. CASE ~valid
      BY <3>1, <1>1, <2>4, <2>5
    <3>2. CASE valid
      <4>1. p[2] - 1 < r[1]
        BY <3>2, <2>1, <2>2, <1>3, <1>10
      <4> QED BY <3>2, <4>1, <1>1, <2>4, <2>5
    <3> QED BY <3>1, <3>2
  <2> QED BY <2>2, <2>3, <2>6
<1>11. CASE A
  <2>1. In(r, i)
    BY <1>1, <1>11 DEF In
  <2>2. Has(s, i)
    BY <1>3, <1>11, <2>1
  <2> QED BY <2>2, <1>8, <1>11 DEF t
<1>12. CASE ~A /\ B /\ J
  <2> DEFINE u == EraseRange(s, pos)
             new == <<p[1], r[2]>>
  <2>1. /\ pos # <<1, 1>> /\ valid /\ p[2] = i /\ r[1] = i + 1
        /\ p[1] \in Nat /\ r[2] \in Nat /\ p[1] < i /\ i + 1 < r[2]
    BY <1>3, <1>5, <1>12
  <2>2. new \in Nat \X Nat /\ new[1] = p[1] /\ new[2] = r[2] /\ new[1] < new[2]
    BY <2>1
  <2>3. /\ Laid(u)
        /\ \A k \in Nat : Has(u, k) <=> Has(s, k) /\ ~In(r, k)
        /\ prev \in Positions(u) /\ At(u, prev) = p
    BY <1>2, <1>4, <2>1, EraseRowsAt DEF p, r
  <2>4. t = PutRange(u, prev, new)
    BY <1>8, <1>12
  <2> HIDE DEF u, new
  <2>5. \A k \in Nat : Has(u, k) /\ k < p[1] => k + 1 < new[1]
    <3> TAKE k \in Nat
    <3> HAVE Has(u, k) /\ k < p[1]
    <3>1. k + 1 # p[1]
      BY <2>3, RowsAt
    <3> QED BY <3>1, <2>1, <2>2
  <2>6. \A k \in Nat : Has(u, k) /\ p[2] <= k => new[2] < k
    <3> TAKE k \in Nat
    <3> HAVE Has(u, k) /\ p[2] <= k
    <3>1. Has(s, k) /\ ~In(r, k)
      BY <2>3
    <3>2. r[1] <= k
      BY <3>1, <2>1, <1>4
    <3>3. r[2] <= k
      BY <3>1, <3>2, <2>1 DEF In
    <3>4. r[2] # k
      BY <3>1, <2>1, <1>3
    <3> QED BY <3>3, <3>4, <2>1, <2>2
  <2>7. /\ Laid(PutRange(u, prev, new))
        /\ \A k \in Nat : Has(PutRange(u, prev, new), k) <=> (Has(u, k) /\ ~In(At(u, prev), k)) \/ In(new, k)
    BY <2>2, <2>3, <2>5, <2>6, PutRows
  <2>8. ASSUME NEW k \in Nat
        PROVE  Has(t, k) <=> Has(s, k) \/ k = i
    <3>1. Has(t, k) <=> (Has(s, k) /\ ~In(r, k) /\ ~In(p, k)) \/ In(new, k)
      BY <2>3, <2>4, <2>7
    <3>2. In(new, k) <=> In(p, k) \/ k = i \/ In(r, k)
      BY <2>1, <2>2 DEF In
    <3>3. (In(p, k) => Has(s, k)) /\ (In(r, k) => Has(s, k))
      BY <1>3, <1>5, <2>1
    <3> QED BY <3>1, <3>2, <3>3
  <2> QED BY <2>4, <2>7, <2>8 DEF t
<1>13. CASE ~A /\ B /\ ~J
  <2> DEFINE new == <<p[1], i + 1>>
  <2>1. /\ pos # <<1, 1>> /\ p[2] = i
        /\ p[1] \in Nat /\ p[1] < i
    BY <1>5, <1>13
  <2>2. new \in Nat \X Nat /\ new[1] = p[1] /\ new[2] = i + 1 /\ new[1] < new[2]
    BY <2>1
  <2>3. t = PutRange(s, prev, new) /\ prev \in Positions(s)
    BY <1>4, <1>8, <1>13, <2>1
  <2> HIDE DEF new
  <2>5. \A k \in Nat : Has(s, k) /\ k < p[1] => k + 1 < new[1]
    <3> TAKE k \in Nat
    <3> HAVE Has(s, k) /\ k < p[1]
    <3>1. k + 1 # p[1]
      BY <2>3, RowsAt DEF p
    <3> QED BY <3>1, <2>1, <2>2
  <2>6. \A k \in Nat : Has(s, k) /\ p[2] <= k => new[2] < k
    <3> TAKE k \in Nat
    <3> HAVE Has(s, k) /\ p[2] <= k
    <3>1. valid /\ r[1] <= k
      BY <2>1, <1>4
    <3>2. i < r[1] /\ r[1] # i + 1 /\ r[1] \in Nat
      BY <3>1, <1>3, <1>13
    <3> QED BY <3>1, <3>2, <2>1, <2>2
  <2>7. /\ Laid(PutRange(s, prev, new))
        /\ \A k \in Nat : Has(PutRange(s, prev, new), k) <=> (Has(s, k) /\ ~In(p, k)) \/ In(new, k)
    BY <2>2, <2>3, <2>5, <2>6, PutRows DEF p
  <2>8. ASSUME NEW k \in Nat
        PROVE  Has(t, k) <=> Has(s, k) \/ k = i
    <3>1. Has(t, k) <=> (Has(s, k) /\ ~In(p, k)) \/ In(new, k)
      BY <2>3, <2>7
    <3>2. In(new, k) <=> In(p, k) \/ k = i
      BY <2>1, <2>2 DEF In
    <3>3. In(p, k) => Has(s, k)
      BY <1>5, <2>1
    <3> QED BY <3>1, <3>2, <3>3
  <2> QED BY <2>3, <2>7, <2>8 DEF t
<1>14. CASE ~A /\ ~B /\ J
  <2> DEFINE new == <<i, r[2]>>
  <2>1. /\ valid /\ r[1] = i + 1 /\ r[2] \in Nat /\ i + 1 < r[2] /\ pos \in Positions(s)
    BY <1>2, <1>3, <1>14
  <2>2. new \in Nat \X Nat /\ new[1] = i /\ new[2] = r[2] /\ new[1] < new[2]
    BY <2>1
  <2>3. t = PutRange(s, pos, new)
    BY <1>8, <1>14
  <2> HIDE DEF new
  <2>5. \A k \in Nat : Has(s, k) /\ k < r[1] => k + 1 < new[1]
    BY <1>9, <1>14, <2>2
  <2>6. \A k \in Nat : Has(s, k) /\ r[2] <= k => new[2] < k
    <3> TAKE k \in Nat
    <3> HAVE Has(s, k) /\ r[2] <= k
    <3>1. k # r[2]
      BY <1>3, <2>1
    <3> QED BY <3>1, <2>1, <2>2
  <2>7. /\ Laid(PutRange(s, pos, new))
        /\ \A k \in Nat : Has(PutRange(s, pos, new), k) <=> (Has(s, k) /\ ~In(r, k)) \/ In(new, k)
    BY <2>1, <2>2, <2>5, <2>6, PutRows DEF r
  <2>8. ASSUME NEW k \in Nat
        PROVE  Has(t, k) <=> Has(s, k) \/ k = i
    <3>1. Has(t, k) <=> (Has(s, k) /\ ~In(r, k)) \/ In(new, k)
      BY <2>3, <2>7
    <3>2. In(new, k) <=> In(r, k) \/ k = i
      BY <2>1, <2>2 DEF In
    <3>3. In(r, k) => Has(s, k)
      BY <1>3, <2>1
    <3> QED BY <3>1, <3>2, <3>3
  <2> QED BY <2>3, <2>7, <2>8 DEF t
<1>15. CASE ~A /\ ~B /\ ~J
  <2> DEFINE new == <<i, i + 1>>
  <2>2. new \in Nat \X Nat /\ new[1] = i /\ new[2] = i + 1 /\ new[1] < new[2]
    OBVIOUS
  <2>3. t = InsertRange(s, pos, new)
    BY <1>8, <1>15
  <2>4. \A k \in Nat : In(new, k) <=> k = i
    BY DEF In
  <2> HIDE DEF new
  <2>5. CASE valid
    <3>1. i < r[1] /\ r[1] # i + 1 /\ r[1] \in Nat /\ pos \in Positions(s)
      BY <1>2, <1>3, <1>15, <2>5
    <3>2. new[2] < r[1]
      BY <3>1, <2>2
    <3>3. \A k \in Nat : Has(s, k) /\ k < r[1] => k + 1 < new[1]
      BY <1>9, <1>15, <2>2
    <3>4. /\ Laid(InsertRange(s, pos, new))
          /\ \A k \in Nat : Has(InsertRange(s, pos, new), k) <=> Has(s, k) \/ In(new, k)
      BY <2>2, <3>1, <3>2, <3>3, InsertRowsAt DEF r
    <3> QED BY <2>3, <2>4, <3>4 DEF t
  <2>6. CASE ~valid
    <3>1. \A k \in Nat : Has(s, k) => k + 1 < new[1]
      BY <1>9, <1>15, <2>2, <2>6
    <3>2. /\ Laid(InsertRange(s, End(s), new))
          /\ \A k \in Nat : Has(InsertRange(s, End(s), new), k) <=> Has(s, k) \/ In(new, k)
      BY <2>2, <3>1, InsertRowsEnd
    <3> QED BY <2>3, <2>4, <2>6, <3>2 DEF t
  <2> QED BY <2>5, <2>6
<1> QED BY <1>11, <1>12, <1>13, <1>14, <1>15

\* The range after a position.
LEMMA FollowingRange ==
  ASSUME NEW s, Laid(s), NEW pos \in Positions(s), NEW next, next = Following(s, pos)
  PROVE  /\ next \in Positions(s) \/ next = End(s)
         /\ next \in Positions(s) => At(s, pos)[2] < At(s, next)[1]
         /\ \A k \in Nat : Has(s, k) => \/ k < At(s, pos)[2]
                                        \/ next \in Positions(s) /\ At(s, next)[1] <= k
<1> DEFINE c == pos[1]
           o == pos[2]
           a == next[1]
           b == next[2]
<1>0. Len(s) \in Nat /\ DOMAIN s = 1 .. Len(s) /\ \A e \in 1 .. Len(s) : Len(s[e].data) \in Nat \ {0}
  BY LaidType, FitsType
<1>1. c \in 1 .. Len(s) /\ o \in 1 .. Len(s[c].data) /\ pos = <<c, o>>
  BY PositionsOf
<1>2. next = IF o < Len(s[c].data) THEN <<c, o + 1>> ELSE <<c + 1, 1>>
  BY DEF Following
<1> HIDE DEF c, o
<1>3. a = (IF o < Len(s[c].data) THEN c ELSE c + 1) /\ b = (IF o < Len(s[c].data) THEN o + 1 ELSE 1) /\ next = <<a, b>>
  BY <1>2
<1> HIDE DEF a, b
<1>4. \/ a \in 1 .. Len(s) /\ b \in 1 .. Len(s[a].data)
      \/ a = Len(s) + 1 /\ b = 1
  BY <1>0, <1>1, <1>3
<1>5. next \in Positions(s) \/ (a = Len(s) + 1 /\ next = End(s))
  BY <1>3, <1>4, PositionsOf DEF End
<1>6. next \in Positions(s) <=> a \in 1 .. Len(s) /\ b \in 1 .. Len(s[a].data)
  BY <1>3, PositionsOf DEF a, b
<1>7. c < a \/ (c = a /\ o < b)
  BY <1>0, <1>1, <1>3
<1>8. next \in Positions(s) => At(s, pos)[2] < At(s, next)[1]
  BY <1>7, ApartAt DEF a, b, c, o
<1>9. At(s, pos) = s[c].data[o] /\ At(s, next) = s[a].data[b]
  BY DEF At, a, b, c, o
<1>10. ASSUME NEW k \in Nat, Has(s, k), ~(k < At(s, pos)[2])
       PROVE  next \in Positions(s) /\ At(s, next)[1] <= k
  <2>1. PICK e \in 1 .. Len(s) : \E f \in 1 .. Len(s[e].data) :
                  /\ In(s[e].data[f], k)
                  /\ \/ e < c \/ (e = c /\ f < o)
                     \/ e = c /\ f = o
                     \/ c < e \/ (e = c /\ o < f)
    BY <1>1, <1>10, RowAround DEF Around
  <2>2. PICK f \in 1 .. Len(s[e].data) :
                  /\ In(s[e].data[f], k)
                  /\ \/ e < c \/ (e = c /\ f < o)
                     \/ e = c /\ f = o
                     \/ c < e \/ (e = c /\ o < f)
    BY <2>1
  <2> DEFINE q == s[e].data[f]
             p == s[c].data[o]
             r == s[a].data[b]
  <2>3. /\ q[1] \in Nat /\ q[2] \in Nat
        /\ p[1] \in Nat /\ p[2] \in Nat /\ p[1] < p[2] /\ Under(s, c, o, p[1])
    BY <1>1, RangesApart
  <2>4. q[1] <= k /\ k < q[2] /\ ~(k < p[2])
    BY <1>9, <1>10, <2>2 DEF In
  <2>5. ~(e < c \/ (e = c /\ f < o))
    <3> SUFFICES ASSUME e < c \/ (e = c /\ f < o) PROVE FALSE
      OBVIOUS
    <3>1. q[2] < p[1]
      BY <2>3 DEF Under
    <3> HIDE DEF p, q, r
    <3> QED BY <3>1, <2>3, <2>4
  <2>6. ~(e = c /\ f = o)
    BY <2>4
  <2>7. c < e \/ (e = c /\ o < f)
    BY <2>2, <2>5, <2>6
  <2>8. a <= e /\ a \in 1 .. Len(s) /\ (a < e \/ (a = e /\ (b < f \/ b = f)))
    <3>1. e \in Nat /\ f \in Nat /\ c \in Nat /\ o \in Nat /\ e <= Len(s) /\ f >= 1
      BY <1>0, <1>1
    <3>2. e = c => f <= Len(s[c].data)
      BY <1>0
    <3>3. Len(s[c].data) \in Nat
      BY <1>0, <1>1
    <3>4. CASE o < Len(s[c].data)
      <4>1. a = c /\ b = o + 1
        BY <3>4, <1>3
      <4> HIDE DEF q, p, r
      <4> QED BY <4>1, <3>1, <2>7, <1>1
    <3>5. CASE ~(o < Len(s[c].data))
      <4>1. a = c + 1 /\ b = 1
        BY <3>5, <1>3
      <4>2. c < e
        BY <3>1, <3>2, <3>3, <3>5, <2>7
      <4> HIDE DEF q, p, r
      <4> QED BY <4>1, <4>2, <3>1, <1>0, <1>1
    <3> QED BY <3>4, <3>5
  <2>9. b \in 1 .. Len(s[a].data)
    BY <1>0, <1>4, <2>8
  <2>10. r[1] \in Nat /\ r[2] \in Nat /\ r[1] < r[2] /\ Over(s, a, b, r[2])
    BY <2>8, <2>9, RangesApart
  <2>11. CASE a < e \/ (a = e /\ b < f)
    <3>1. r[2] < q[1]
      BY <2>11, <2>10 DEF Over
    <3>2. r[1] <= k
      <4> HIDE DEF p, q, r
      <4> QED BY <3>1, <2>3, <2>4, <2>10
    <3> QED BY <3>2, <2>8, <2>9, <1>6, <1>9
  <2>12. CASE a = e /\ b = f
    BY <2>12, <2>4, <2>8, <2>9, <1>6, <1>9
  <2> QED BY <2>8, <2>11, <2>12
<1> QED BY <1>5, <1>8, <1>10

\* The greater of two numbers.
LEMMA MaxOfTwo ==
  ASSUME NEW a \in Int, NEW b \in Int
  PROVE  Max({a, b}) = IF a < b THEN b ELSE a
BY DEF Max
-----------------------------------------------------------------------------
(* Loops                                                                   *)

\* The stages of a loop of n steps g[1], g[2], ... from start.
Runs(f, n, start, g) == f = [k \in 0 .. n |-> IF k = 0 THEN start ELSE g[k][f[k - 1]]]

\* Step k of a loop, g[k], leads from the set of stage k - 1 to that of stage k:
\* the recursive function exists and is in the set of its stage everywhere.
LEMMA Iterated ==
  ASSUME NEW n \in Nat, NEW T, NEW g, NEW start \in T[0],
         \A k \in 1 .. n : \A t \in T[k - 1] : g[k][t] \in T[k]
  PROVE  \E f : Runs(f, n, start, g) /\ \A k \in 0 .. n : f[k] \in T[k]
<1> DEFINE Is(f, m) == /\ f = [k \in 0 .. m |-> IF k = 0 THEN start ELSE g[k][f[k - 1]]]
                       /\ \A k \in 0 .. m : f[k] \in T[k]
           Bad == {m \in Nat : m <= n /\ ~ \E f : Is(f, m)}
<1>1. ASSUME Bad # {}
      PROVE  FALSE
  <2>1. PICK m \in Bad : \A b \in Bad : m <= b
    BY <1>1, LeastRow
  <2>2. m \in Nat /\ m <= n /\ ~ \E f : Is(f, m)
    BY <2>1
  <2>3. CASE m = 0
    <3> DEFINE h == [k \in 0 .. m |-> start]
    <3>1. \A k \in 0 .. m : k = 0
      BY <2>3
    <3>2. Is(h, m)
      BY <3>1
    <3> QED BY <3>2, <2>2
  <2>4. CASE m # 0
    <3>1. m - 1 \in Nat /\ ~(m <= m - 1) /\ m - 1 <= n /\ m \in 1 .. n /\ m - 1 \in 0 .. m - 1
      BY <2>2, <2>4
    <3>2. PICK f : Is(f, m - 1)
      BY <3>1, <2>1
    <3> DEFINE h == [k \in 0 .. m |-> IF k = m THEN g[m][f[m - 1]] ELSE f[k]]
    <3>3. ASSUME NEW k \in 0 .. m
          PROVE  h[k] = (IF k = 0 THEN start ELSE g[k][h[k - 1]]) /\ h[k] \in T[k]
      <4>1. CASE k = m
        <5>1. m - 1 \in 0 .. m /\ m - 1 # m
          BY <3>1, <2>2
        <5>2. h[m - 1] = f[m - 1]
          BY <5>1
        <5>3. f[m - 1] \in T[m - 1]
          BY <3>1, <3>2
        <5>4. g[m][f[m - 1]] \in T[m]
          BY <5>3, <3>1
        <5>5. h[k] = g[m][f[m - 1]]
          BY <4>1
        <5> HIDE DEF h
        <5> QED BY <4>1, <5>2, <5>4, <5>5, <2>4
      <4>2. CASE k # m
        <5>1. k \in 0 .. m - 1
          BY <4>2, <2>2
        <5>2. h[k] = f[k]
          BY <4>2
        <5>3. f[k] = (IF k = 0 THEN start ELSE g[k][f[k - 1]]) /\ f[k] \in T[k]
          BY <3>2, <5>1
        <5>4. k # 0 => k - 1 \in 0 .. m /\ k - 1 # m
          BY <5>1, <2>2
        <5>5. k # 0 => h[k - 1] = f[k - 1]
          BY <5>4
        <5> HIDE DEF h
        <5> QED BY <5>2, <5>3, <5>5
      <4> QED BY <4>1, <4>2
    <3>4. Is(h, m)
      BY <3>3
    <3> QED BY <3>4, <2>2
  <2> QED BY <2>3, <2>4
<1>2. \E f : Is(f, n)
  <2>1. n \notin Bad
    BY <1>1
  <2> QED BY <2>1
<1> QED BY <1>2 DEF Runs

\* An invariant of its stages.
LEMMA Staged ==
  ASSUME NEW n \in Nat, NEW T, NEW f, f[0] \in T[0],
         \A k \in 1 .. n : f[k - 1] \in T[k - 1] => f[k] \in T[k]
  PROVE  \A k \in 0 .. n : f[k] \in T[k]
<1> DEFINE B == {k \in Nat : k <= n /\ f[k] \notin T[k]}
<1>1. SUFFICES ASSUME B # {}
               PROVE  FALSE
  BY SMT
<1>2. PICK k \in B : \A m \in B : k <= m
  BY <1>1, LeastRow
<1>3. k # 0
  BY <1>2
<1>4. k \in 1 .. n /\ k - 1 \in Nat /\ k - 1 <= n /\ ~(k <= k - 1)
  BY <1>2, <1>3
<1>5. f[k - 1] \in T[k - 1]
  BY <1>2, <1>4
<1> QED BY <1>2, <1>4, <1>5

\* The loop of do_remove takes away the next range's rows.
LEMMA TrimTakes ==
  ASSUME NEW s, Laid(s), NEW b \in Nat, NEW e \in Nat, b < e
  PROVE  LET t == Trim(s, b, e) IN
         /\ Laid(t)
         /\ \A k \in Nat : Has(t, k) => Has(s, k)
         /\ \A k \in Nat : Has(s, k) /\ ~(b <= k /\ k < e) => Has(t, k)
         /\ \A m \in Nat : b <= m /\ (\A k \in Nat : Has(s, k) /\ b <= k /\ k < e => m <= k)
                             => \A k \in Nat : Has(t, k) /\ b <= k /\ k < e => m + 1 <= k
<1> DEFINE pos == Find(s, b)
           range == At(s, pos)
           from == Max({range[1], b})
           new == <<range[1], from>>
           right == <<e, range[2]>>
           cut == PutRange(s, pos, new)
           next == Following(cut, pos)
           t == Trim(s, b, e)
<1>1. \/ pos = End(s) /\ (\A k \in Nat : Has(s, k) => k < b)
      \/ /\ pos # End(s) /\ pos \in Positions(s) /\ b < range[2]
         /\ \A k \in Nat : Has(s, k) /\ k < range[1] => k < b
  BY FindsRows
<1> HIDE DEF pos
<1>2. CASE pos = End(s)
  <2>1. t = s
    BY <1>2 DEF Trim, pos
  <2>2. \A k \in Nat : ~(Has(s, k) /\ b <= k)
    BY <1>1, <1>2
  <2> HIDE DEF t
  <2> QED BY <2>1, <2>2 DEF t
<1>3. CASE pos # End(s)
  <2>1. /\ pos \in Positions(s) /\ b < range[2]
        /\ \A k \in Nat : Has(s, k) /\ k < range[1] => k < b
    BY <1>1, <1>3
  <2>2. /\ range \in Nat \X Nat
        /\ range[1] \in Nat /\ range[2] \in Nat /\ range[1] < range[2]
        /\ \A k \in Nat : In(range, k) => Has(s, k)
        /\ ~Has(s, range[2])
        /\ \A k \in Nat : k + 1 = range[1] => ~Has(s, k)
    BY <2>1, RowsAt
  <2>3. from = IF range[1] < b THEN b ELSE range[1]
    BY <2>2, MaxOfTwo
  <2> HIDE DEF from
  <2>4. CASE range[1] >= e
    <3>1. t = s
      BY <2>4 DEF Trim, pos
    <3>2. \A k \in Nat : ~(Has(s, k) /\ b <= k /\ k < e)
      BY <2>1, <2>2, <2>4
    <3> HIDE DEF t
    <3> QED BY <3>1, <3>2 DEF t
  <2>5. CASE ~(range[1] >= e)
    <3>1. from \in Nat /\ range[1] <= from /\ b <= from /\ from < e /\ from < range[2] /\ (range[1] < from => from = b)
      BY <2>1, <2>2, <2>3, <2>5
    <3>2. t = CASE range[1] < from /\ range[2] > e -> InsertRange(cut, next, right)
                [] range[1] = from /\ range[2] <= e -> EraseRange(s, pos)
                [] range[1] = from /\ range[2] > e -> PutRange(s, pos, right)
                [] range[1] < from /\ range[2] <= e -> cut
      BY <1>3, <2>5, Zenon DEF Trim, pos, from
    <3> DEFINE Leaves(k) == Has(t, k) <=> Has(s, k) /\ ~(In(range, k) /\ from <= k /\ k < e)
    <3> HIDE DEF t, next, cut, new, right, range
    <3>3. SUFFICES /\ Laid(t)
                   /\ \A k \in Nat : Leaves(k)
      <4> SUFFICES ASSUME Laid(t), \A k \in Nat : Leaves(k)
                   PROVE  /\ Laid(t)
                          /\ \A k \in Nat : Has(t, k) => Has(s, k)
                          /\ \A k \in Nat : Has(s, k) /\ ~(b <= k /\ k < e) => Has(t, k)
                          /\ \A m \in Nat : b <= m /\ (\A k \in Nat : Has(s, k) /\ b <= k /\ k < e => m <= k)
                                              => \A k \in Nat : Has(t, k) /\ b <= k /\ k < e => m + 1 <= k
        BY DEF t
      <4>1. \A k \in Nat : Has(s, k) /\ ~(b <= k /\ k < e) => Has(t, k)
        BY <3>1
      <4>2. ASSUME NEW m \in Nat, b <= m, \A k \in Nat : Has(s, k) /\ b <= k /\ k < e => m <= k,
                   NEW k \in Nat, Has(t, k), b <= k, k < e
            PROVE  m + 1 <= k
        <5>1. In(range, from)
          BY <3>1 DEF In
        <5>2. m <= from
          BY <5>1, <2>2, <3>1, <4>2
        <5>3. Has(s, k) /\ ~(In(range, k) /\ from <= k)
          BY <4>2
        <5>4. range[1] <= k
          BY <5>3, <2>1, <4>2, <2>2
        <5>5. CASE k < from
          BY <5>4, <5>5, <3>1, <4>2, <2>2
        <5>6. CASE ~(k < from)
          <6>1. range[2] <= k
            BY <5>3, <5>4, <5>6, <2>2, <3>1 DEF In
          <6> QED BY <6>1, <5>2, <3>1, <2>2
        <5> QED BY <5>5, <5>6
      <4> QED BY <4>1, <4>2
    <3>4. \/ range[1] < from /\ range[2] > e
          \/ range[1] = from /\ range[2] <= e
          \/ range[1] = from /\ range[2] > e
          \/ range[1] < from /\ range[2] <= e
      BY <2>2, <3>1
    <3>5. /\ range[1] < from => ~(range[1] = from)
          /\ range[2] > e => ~(range[2] <= e)
      BY <2>2, <3>1
    <3>6. ASSUME range[1] < from
          PROVE  /\ Laid(cut) /\ pos \in Positions(cut) /\ At(cut, pos) = new
                 /\ \A k \in Nat : Has(cut, k) <=> (Has(s, k) /\ ~In(range, k)) \/ In(new, k)
                 /\ new[1] = range[1] /\ new[2] = from
      <4>1. new \in Nat \X Nat /\ new[1] = range[1] /\ new[2] = from /\ new[1] < new[2]
        BY <2>2, <3>1, <3>6 DEF new
      <4>2. \A k \in Nat : Has(s, k) /\ k < range[1] => k + 1 < new[1]
        BY <4>1, <2>2
      <4>3. \A k \in Nat : Has(s, k) /\ range[2] <= k => new[2] < k
        BY <4>1, <2>2, <3>1
      <4>4. /\ Laid(PutRange(s, pos, new))
            /\ pos \in Positions(PutRange(s, pos, new)) /\ At(PutRange(s, pos, new), pos) = new
            /\ \A k \in Nat : Has(PutRange(s, pos, new), k) <=> (Has(s, k) /\ ~In(range, k)) \/ In(new, k)
        BY <2>1, <4>1, <4>2, <4>3, PutRows DEF range
      <4> QED BY <4>1, <4>4 DEF cut
    <3>7. ASSUME range[2] > e
          PROVE  right \in Nat \X Nat /\ right[1] = e /\ right[2] = range[2] /\ right[1] < right[2]
      BY <2>2, <3>7 DEF right
    <3>8. CASE range[1] < from /\ range[2] > e
      <4>1. t = InsertRange(cut, next, right)
        BY <3>2, <3>5, <3>8, Zenon
      <4>2. /\ next \in Positions(cut) \/ next = End(cut)
            /\ next \in Positions(cut) => new[2] < At(cut, next)[1]
            /\ \A k \in Nat : Has(cut, k) => \/ k < new[2]
                                             \/ next \in Positions(cut) /\ At(cut, next)[1] <= k
        BY <3>6, <3>8, FollowingRange DEF next
      <4>3. ASSUME NEW k \in Nat
            PROVE  (Has(cut, k) \/ In(right, k)) <=> Has(s, k) /\ ~(In(range, k) /\ from <= k /\ k < e)
        <5>1. (In(new, k) <=> range[1] <= k /\ k < from) /\ (In(right, k) <=> e <= k /\ k < range[2])
          BY <3>6, <3>7, <3>8 DEF In
        <5>2. In(new, k) \/ In(right, k) <=> In(range, k) /\ ~(from <= k /\ k < e)
          BY <5>1, <2>2, <3>1, <3>8 DEF In
        <5> QED BY <5>2, <3>6, <3>8, <2>2
      <4>4. CASE next \in Positions(cut)
        <5> DEFINE f == At(cut, next)
        <5>1. f[1] \in Nat /\ f[2] \in Nat /\ f[1] < f[2] /\ \A k \in Nat : In(f, k) => Has(cut, k)
          BY <4>4, <3>6, <3>8, RowsAt
        <5>2. Has(cut, f[1]) /\ from < f[1]
          BY <5>1, <4>2, <4>4, <3>6, <3>8 DEF In
        <5> HIDE DEF f
        <5>3. Has(s, f[1]) /\ ~In(range, f[1])
          BY <5>1, <5>2, <3>1, <3>6, <3>8, <2>2 DEF In
        <5>4. range[2] < f[1]
          BY <5>1, <5>2, <5>3, <2>2, <3>1 DEF In
        <5>5. \A k \in Nat : Has(cut, k) /\ k < f[1] => k + 1 < right[1]
          BY <4>2, <5>1, <3>1, <3>6, <3>7, <3>8 DEF f
        <5>6. /\ Laid(InsertRange(cut, next, right))
              /\ \A k \in Nat : Has(InsertRange(cut, next, right), k) <=> Has(cut, k) \/ In(right, k)
          BY <4>4, <5>4, <5>5, <3>6, <3>7, <3>8, InsertRowsAt DEF f
        <5> QED BY <5>6, <4>1, <4>3
      <4>5. CASE next \notin Positions(cut)
        <5>1. \A k \in Nat : Has(cut, k) => k + 1 < right[1]
          BY <4>2, <4>5, <3>1, <3>6, <3>7, <3>8
        <5>2. /\ Laid(InsertRange(cut, End(cut), right))
              /\ \A k \in Nat : Has(InsertRange(cut, End(cut), right), k) <=> Has(cut, k) \/ In(right, k)
          BY <5>1, <3>6, <3>7, <3>8, InsertRowsEnd
        <5> QED BY <5>2, <4>1, <4>2, <4>3, <4>5
      <4> QED BY <4>4, <4>5
    <3>9. CASE range[1] = from /\ range[2] <= e
      <4>1. t = EraseRange(s, pos)
        BY <3>2, <3>5, <3>9, Zenon
      <4>2. \A k \in Nat : In(range, k) => from <= k /\ k < e
        BY <3>9, <2>2 DEF In
      <4>3. Laid(t) /\ \A k \in Nat : Has(t, k) <=> Has(s, k) /\ ~In(range, k)
        BY <4>1, <2>1, EraseRowsAt DEF range
      <4> QED BY <4>2, <4>3
    <3>10. CASE range[1] = from /\ range[2] > e
      <4>1. t = PutRange(s, pos, right)
        BY <3>2, <3>5, <3>10, Zenon
      <4>2. \A k \in Nat : Has(s, k) /\ k < range[1] => k + 1 < right[1]
        BY <3>1, <3>7, <3>10, <2>2
      <4>3. \A k \in Nat : Has(s, k) /\ range[2] <= k => right[2] < k
        <5> TAKE k \in Nat
        <5> HAVE Has(s, k) /\ range[2] <= k
        <5>1. k # range[2]
          BY <2>2
        <5> QED BY <5>1, <2>2, <3>7, <3>10
      <4>4. /\ Laid(PutRange(s, pos, right))
            /\ \A k \in Nat : Has(PutRange(s, pos, right), k) <=> (Has(s, k) /\ ~In(range, k)) \/ In(right, k)
        BY <2>1, <3>7, <3>10, <4>2, <4>3, PutRows DEF range
      <4>5. ASSUME NEW k \in Nat
            PROVE  Leaves(k)
        <5>1. In(right, k) <=> In(range, k) /\ ~(from <= k /\ k < e)
          BY <2>2, <3>1, <3>7, <3>10 DEF In
        <5> QED BY <5>1, <4>1, <4>4, <2>2
      <4> QED BY <4>1, <4>4, <4>5
    <3>11. CASE range[1] < from /\ range[2] <= e
      <4>1. t = cut
        BY <3>2, <3>5, <3>11, Zenon
      <4>2. ASSUME NEW k \in Nat
            PROVE  Leaves(k)
        <5>1. In(new, k) <=> In(range, k) /\ ~(from <= k /\ k < e)
          BY <2>2, <3>1, <3>6, <3>11 DEF In
        <5> QED BY <5>1, <4>1, <3>6, <3>11, <2>2
      <4> QED BY <4>1, <4>2, <3>6, <3>11
    <3> QED BY <3>4, <3>8, <3>9, <3>10, <3>11
  <2> QED BY <2>4, <2>5
<1> QED BY <1>2, <1>3

\* do_remove takes away the rows from b to e - 1: after k turns of its loop none of
\* them is left below b + k.
THEOREM DoRemoveTakes ==
  ASSUME NEW s, Laid(s), NEW b \in Nat, NEW e \in Nat, b < e
  PROVE  /\ Laid(DoRemove(s, b, e))
         /\ \A x \in Nat : Has(DoRemove(s, b, e), x) <=> Has(s, x) /\ ~(b <= x /\ x < e)
<1> DEFINE n == e - b
           Good(t, k) == /\ Laid(t)
                         /\ \A x \in Nat : Has(t, x) => Has(s, x)
                         /\ \A x \in Nat : Has(s, x) /\ ~(b <= x /\ x < e) => Has(t, x)
                         /\ \A x \in Nat : Has(t, x) /\ b <= x /\ x < e => b + k <= x
           T == [k \in 0 .. n |-> {t \in Seq(ChunkSet) : Good(t, k)}]
           g == [k \in 1 .. n |-> [t \in T[k - 1] |-> Trim(t, b, e)]]
           Is(f) == f = [k \in 0 .. n |-> IF k = 0 THEN s ELSE Trim(f[k - 1], b, e)]
           trimmed == CHOOSE f : Is(f)
<1>0. n \in Nat /\ \A k \in 1 .. n : k \in Nat /\ k - 1 \in 0 .. n /\ k \in 0 .. n /\ k # 0
  OBVIOUS
<1>1. s \in T[0]
  <2>1. 0 \in 0 .. n /\ s \in Seq(ChunkSet)
    BY <1>0, LaidType
  <2>2. Good(s, 0)
    OBVIOUS
  <2> HIDE DEF Good
  <2> QED BY <2>1, <2>2
<1>2. ASSUME NEW k \in 1 .. n, NEW t \in T[k - 1]
      PROVE  Trim(t, b, e) \in T[k]
  <2>1. Good(t, k - 1)
    <3> HIDE DEF Good, n
    <3> QED BY <1>0
  <2> DEFINE u == Trim(t, b, e)
             m == b + (k - 1)
  <2>2. m \in Nat /\ b <= m /\ m + 1 = b + k
    BY <1>0
  <2>3. \A x \in Nat : Has(t, x) /\ b <= x /\ x < e => m <= x
    BY <2>1
  <2>4. /\ Laid(u)
        /\ \A x \in Nat : Has(u, x) => Has(t, x)
        /\ \A x \in Nat : Has(t, x) /\ ~(b <= x /\ x < e) => Has(u, x)
        /\ \A y \in Nat : b <= y /\ (\A x \in Nat : Has(t, x) /\ b <= x /\ x < e => y <= x)
                            => \A x \in Nat : Has(u, x) /\ b <= x /\ x < e => y + 1 <= x
    BY <2>1, TrimTakes
  <2> HIDE DEF u, m
  <2>5. \A x \in Nat : Has(u, x) /\ b <= x /\ x < e => b + k <= x
    BY <2>2, <2>3, <2>4
  <2>6. Good(u, k)
    BY <2>1, <2>4, <2>5
  <2>7. u \in Seq(ChunkSet) /\ k \in 0 .. n
    BY <1>0, <2>4, LaidType
  <2> HIDE DEF Good, n
  <2> QED BY <2>6, <2>7 DEF u
<1> HIDE DEF T, n
<1>3. \A k \in 1 .. n : \A t \in T[k - 1] : g[k][t] \in T[k]
  BY <1>2
<1> HIDE DEF g
<1>4. PICK f : Runs(f, n, s, g) /\ \A k \in 0 .. n : f[k] \in T[k]
  BY <1>0, <1>1, <1>3, Iterated
<1>5. \A k \in 0 .. n : k # 0 => g[k][f[k - 1]] = Trim(f[k - 1], b, e)
  <2> TAKE k \in 0 .. n
  <2> HAVE k # 0
  <2>1. k \in 1 .. n
    BY <1>0
  <2>2. f[k - 1] \in T[k - 1]
    BY <1>0, <1>4, <2>1
  <2> QED BY <2>1, <2>2 DEF g
<1>6. Is(f)
  BY <1>4, <1>5 DEF Runs
<1>7. Is(trimmed)
  BY <1>6
<1>8. DoRemove(s, b, e) = trimmed[n]
  BY DEF DoRemove, n
<1> HIDE DEF trimmed
<1>9. trimmed[0] = s /\ \A k \in 1 .. n : trimmed[k] = Trim(trimmed[k - 1], b, e)
  <2>1. \A k \in 0 .. n : trimmed[k] = IF k = 0 THEN s ELSE Trim(trimmed[k - 1], b, e)
    BY <1>7
  <2>2. 0 \in 0 .. n
    BY <1>0
  <2> HIDE DEF Is
  <2> QED BY <2>1, <2>2, <1>0
<1> HIDE DEF Is
<1>10. \A k \in 0 .. n : trimmed[k] \in T[k]
  BY <1>0, <1>1, <1>2, <1>9, Staged
<1>11. n \in 0 .. n /\ b + n = e
  BY <1>0 DEF n
<1>12. Good(trimmed[n], n)
  <2>1. trimmed[n] \in T[n]
    BY <1>10, <1>11
  <2> HIDE DEF Good
  <2> QED BY <2>1, <1>11 DEF T
<1> DEFINE u == trimmed[n]
<1> HIDE DEF u
<1>13. Good(u, n)
  BY <1>12 DEF u
<1>14. ASSUME NEW x \in Nat
       PROVE  Has(u, x) <=> Has(s, x) /\ ~(b <= x /\ x < e)
  BY <1>11, <1>13
<1> QED BY <1>8, <1>13, <1>14 DEF u

\* add, of another set.
LEMMA EachAdded ==
  ASSUME NEW s, Laid(s), NEW S \in SUBSET Row
  PROVE  Laid(AddAll(s, S)) /\ \A x \in Nat : Has(AddAll(s, S), x) <=> Has(s, x) \/ x \in S
<1> DEFINE n == Bound
           u == AddAll(s, S)
           Good(t, k) == Laid(t) /\ \A x \in Nat : Has(t, x) <=> Has(s, x) \/ (x \in S /\ x < k)
           Step(t, i) == IF i \in S THEN DoAdd(t, i) ELSE t
           T == [k \in 0 .. n |-> {t \in Seq(ChunkSet) : Good(t, k)}]
           g == [k \in 1 .. n |-> [t \in T[k - 1] |-> Step(t, k - 1)]]
           Is(f) == f = [k \in 0 .. n |-> IF k = 0 THEN s ELSE Step(f[k - 1], k - 1)]
           done == CHOOSE f : Is(f)
<1>0. n \in Nat /\ \A k \in 1 .. n : k \in Nat /\ k - 1 \in Nat /\ k - 1 \in 0 .. n /\ k \in 0 .. n /\ k # 0
  BY BoundAssumption
<1>a. S \subseteq Nat /\ \A x \in S : x < n
  BY BoundAssumption DEF Row
<1>1. s \in T[0]
  <2>1. 0 \in 0 .. n /\ s \in Seq(ChunkSet)
    BY <1>0, LaidType
  <2>2. Good(s, 0)
    BY <1>a
  <2> HIDE DEF Good
  <2> QED BY <2>1, <2>2
<1>2. ASSUME NEW k \in 1 .. n, NEW t \in T[k - 1]
      PROVE  Step(t, k - 1) \in T[k]
  <2>1. Good(t, k - 1)
    <3> HIDE DEF Good, n
    <3> QED BY <1>0
  <2> DEFINE v == Step(t, k - 1)
             i == k - 1
  <2>2. i \in Nat /\ \A x \in Nat : x < k <=> x < i \/ x = i
    BY <1>0
  <2>3. Laid(v) /\ \A x \in Nat : Has(v, x) <=> Has(t, x) \/ (x = i /\ i \in S)
    <3>1. CASE i \in S
      <4>1. /\ Laid(DoAdd(t, i))
            /\ \A x \in Nat : Has(DoAdd(t, i), x) <=> Has(t, x) \/ x = i
        <5> HIDE DEF i
        <5> QED BY <2>1, <2>2, DoAddAdds
      <4> QED BY <3>1, <4>1
    <3>2. CASE i \notin S
      BY <3>2, <2>1
    <3> QED BY <3>1, <3>2
  <2> HIDE DEF v, i
  <2>6. Good(v, k)
    BY <2>1, <2>2, <2>3 DEF i
  <2>7. v \in Seq(ChunkSet) /\ k \in 0 .. n
    BY <1>0, <2>3, LaidType
  <2> HIDE DEF Good, n
  <2> QED BY <2>6, <2>7 DEF v
<1> HIDE DEF T, Step, n
<1>3. \A k \in 1 .. n : \A t \in T[k - 1] : g[k][t] \in T[k]
  BY <1>2
<1> HIDE DEF g
<1>4. PICK f : Runs(f, n, s, g) /\ \A k \in 0 .. n : f[k] \in T[k]
  BY <1>0, <1>1, <1>3, Iterated
<1>5. \A k \in 0 .. n : k # 0 => g[k][f[k - 1]] = Step(f[k - 1], k - 1)
  <2> TAKE k \in 0 .. n
  <2> HAVE k # 0
  <2>1. k \in 1 .. n
    BY <1>0
  <2>2. f[k - 1] \in T[k - 1]
    BY <1>0, <1>4, <2>1
  <2> QED BY <2>1, <2>2 DEF g
<1>6. Is(f)
  BY <1>4, <1>5 DEF Runs
<1>7. Is(done)
  BY <1>6
<1>8. u = done[n]
  BY DEF AddAll, Each, n, Step
<1> HIDE DEF done, u
<1>9. done[0] = s /\ \A k \in 1 .. n : done[k] = Step(done[k - 1], k - 1)
  <2>1. \A k \in 0 .. n : done[k] = IF k = 0 THEN s ELSE Step(done[k - 1], k - 1)
    BY <1>7
  <2>2. 0 \in 0 .. n
    BY <1>0
  <2> HIDE DEF Is
  <2> QED BY <2>1, <2>2, <1>0
<1> HIDE DEF Is
<1>10. \A k \in 0 .. n : done[k] \in T[k]
  BY <1>0, <1>1, <1>2, <1>9, Staged
<1>12. Good(u, n)
  <2>1. n \in 0 .. n /\ done[n] \in T[n]
    BY <1>0, <1>10
  <2> HIDE DEF Good
  <2> QED BY <2>1, <1>8 DEF T
<1> QED BY <1>12, <1>a DEF n, u

\* The ranges of a set hold its rows.
LEMMA RangesOf ==
  ASSUME NEW S \in SUBSET Row
  PROVE  /\ \A r \in Ranges(S) : /\ r \in Nat \X Nat /\ r[1] \in Nat /\ r[2] \in Nat
                                 /\ r[1] < r[2] /\ r[1] < Bound
                                 /\ \A x \in Nat : In(r, x) => x \in S
         /\ \A r, q \in Ranges(S) : r[1] = q[1] => r = q
         /\ \A x \in S : \E r \in Ranges(S) : In(r, x)
<1>0. Bound \in Nat /\ S \subseteq Nat /\ \A x \in S : x < Bound
  BY BoundAssumption DEF Row
<1>1. ASSUME NEW r \in Ranges(S)
      PROVE  /\ r \in Nat \X Nat /\ r[1] \in Nat /\ r[2] \in Nat /\ r = <<r[1], r[2]>>
             /\ r[1] < r[2] /\ r[1] < Bound /\ r[2] \notin S
             /\ \A x \in Nat : In(r, x) => x \in S
  <2>1. /\ r \in S \X (1 .. Bound) /\ r[1] < r[2] /\ r[1] .. r[2] - 1 \subseteq S /\ r[2] \notin S
    BY DEF Ranges
  <2>2. r[1] \in S /\ r[2] \in 1 .. Bound /\ r = <<r[1], r[2]>>
    BY <2>1
  <2>3. r[1] \in Nat /\ r[1] < Bound /\ r[2] \in Nat
    BY <1>0, <2>2
  <2>4. r \in Nat \X Nat
    BY <2>2, <2>3
  <2>5. ASSUME NEW x \in Nat, In(r, x)
        PROVE  x \in S
    <3>1. x \in r[1] .. r[2] - 1
      BY <2>3, <2>5 DEF In
    <3> QED BY <2>1, <3>1
  <2> QED BY <2>1, <2>2, <2>3, <2>4, <2>5
<1>2. ASSUME NEW r \in Ranges(S), NEW q \in Ranges(S), r[1] = q[1]
      PROVE  r = q
  <2>1. ~(r[2] < q[2])
    <3> SUFFICES ASSUME r[2] < q[2] PROVE FALSE
      OBVIOUS
    <3>1. In(q, r[2])
      BY <1>1, <1>2 DEF In
    <3> QED BY <3>1, <1>1
  <2>2. ~(q[2] < r[2])
    <3> SUFFICES ASSUME q[2] < r[2] PROVE FALSE
      OBVIOUS
    <3>1. In(r, q[2])
      BY <1>1, <1>2 DEF In
    <3> QED BY <3>1, <1>1
  <2>3. r[2] = q[2]
    BY <1>1, <2>1, <2>2
  <2> QED BY <1>1, <1>2, <2>3
<1>3. ASSUME NEW x \in S
      PROVE  \E r \in Ranges(S) : In(r, x)
  <2> DEFINE L == {m \in Nat : m <= x /\ \A y \in Nat : m <= y /\ y <= x => y \in S}
             H == {m \in Nat : x < m /\ m \notin S}
  <2>0. x \in Nat /\ x < Bound
    BY <1>0
  <2>1. x \in L
    BY <2>0
  <2>2. Bound \in H
    BY <1>0, <2>0
  <2>3. PICK lo \in L : \A m \in L : lo <= m
    <3>1. L \in SUBSET Nat /\ L # {}
      BY <2>1
    <3> HIDE DEF L
    <3> QED BY <3>1, LeastRow
  <2>4. PICK hi \in H : \A m \in H : hi <= m
    <3>1. H \in SUBSET Nat /\ H # {}
      BY <2>2
    <3> HIDE DEF H
    <3> QED BY <3>1, LeastRow
  <2>5. lo \in Nat /\ lo <= x /\ lo \in S /\ \A y \in Nat : lo <= y /\ y <= x => y \in S
    BY <2>3
  <2>6. hi \in Nat /\ x < hi /\ hi \notin S /\ hi <= Bound
    BY <2>2, <2>4
  <2>7. lo - 1 \notin S
    <3> SUFFICES ASSUME lo - 1 \in S PROVE FALSE
      OBVIOUS
    <3>1. lo - 1 \in Nat /\ ~(lo <= lo - 1) /\ lo - 1 <= x
      BY <1>0, <2>0, <2>5
    <3>2. \A y \in Nat : lo - 1 <= y /\ y <= x => y = lo - 1 \/ lo <= y
      BY <2>0, <2>5
    <3>3. lo - 1 \in L
      BY <3>1, <3>2, <2>5
    <3> QED BY <3>1, <3>3, <2>3
  <2>8. \A y \in lo .. hi - 1 : y \in S
    <3> TAKE y \in lo .. hi - 1
    <3>1. y \in Nat /\ lo <= y /\ y < hi
      BY <2>5, <2>6
    <3>2. CASE y <= x
      BY <3>1, <3>2, <2>5
    <3>3. CASE ~(y <= x)
      <4>1. x < y /\ ~(hi <= y)
        BY <3>1, <3>3, <2>0, <2>6
      <4> QED BY <3>1, <4>1, <2>4
    <3> QED BY <3>2, <3>3
  <2> DEFINE r == <<lo, hi>>
  <2>9. hi \in 1 .. Bound /\ lo < hi /\ lo .. hi - 1 \subseteq S
    BY <1>0, <2>0, <2>5, <2>6, <2>8
  <2>10. r \in S \X (1 .. Bound) /\ r[1] = lo /\ r[2] = hi
    BY <2>5, <2>9
  <2> HIDE DEF r
  <2>11. r \in Ranges(S)
    BY <2>6, <2>7, <2>9, <2>10 DEF Ranges
  <2>12. In(r, x)
    BY <2>5, <2>6, <2>10 DEF In
  <2> QED BY <2>11, <2>12
<1> QED BY <1>1, <1>2, <1>3

\* remove, of another set.
LEMMA EachRemoved ==
  ASSUME NEW s, Laid(s), NEW S \in SUBSET Row
  PROVE  Laid(RemoveAll(s, S)) /\ \A x \in Nat : Has(RemoveAll(s, S), x) <=> Has(s, x) /\ x \notin S
<1> DEFINE n == Bound
           u == RemoveAll(s, S)
           Gone(k, x) == \E r \in Ranges(S) : r[1] < k /\ In(r, x)
           Good(t, k) == Laid(t) /\ \A x \in Nat : Has(t, x) <=> Has(s, x) /\ ~Gone(k, x)
           Starts(b) == \E r \in Ranges(S) : r[1] = b
           From(b) == CHOOSE r \in Ranges(S) : r[1] = b
           Step(t, b) == IF Starts(b) THEN DoRemove(t, b, From(b)[2]) ELSE t
           T == [k \in 0 .. n |-> {t \in Seq(ChunkSet) : Good(t, k)}]
           g == [k \in 1 .. n |-> [t \in T[k - 1] |-> Step(t, k - 1)]]
           Is(f) == f = [k \in 0 .. n |-> IF k = 0 THEN s ELSE Step(f[k - 1], k - 1)]
           done == CHOOSE f : Is(f)
<1>0. n \in Nat /\ \A k \in 1 .. n : k \in Nat /\ k - 1 \in Nat /\ k - 1 \in 0 .. n /\ k \in 0 .. n /\ k # 0
  BY BoundAssumption
<1>1. s \in T[0]
  <2>1. 0 \in 0 .. n /\ s \in Seq(ChunkSet)
    BY <1>0, LaidType
  <2>2. \A x \in Nat : ~Gone(0, x)
    BY RangesOf
  <2> HIDE DEF Gone
  <2>3. Good(s, 0)
    BY <2>2
  <2> HIDE DEF Good
  <2> QED BY <2>1, <2>3
<1>2. ASSUME NEW k \in 1 .. n, NEW t \in T[k - 1]
      PROVE  Step(t, k - 1) \in T[k]
  <2>1. Good(t, k - 1)
    <3> HIDE DEF Good, n
    <3> QED BY <1>0
  <2> DEFINE b == k - 1
             v == Step(t, b)
  <2>2. b \in Nat /\ k \in Nat /\ \A y \in Nat : y < k <=> y < b \/ y = b
    BY <1>0
  <2> HIDE DEF b
  <2>3. ASSUME NEW x \in Nat
        PROVE  Gone(k, x) <=> Gone(b, x) \/ \E r \in Ranges(S) : r[1] = b /\ In(r, x)
    <3>1. \A r \in Ranges(S) : r[1] < k <=> r[1] < b \/ r[1] = b
      BY <2>2, RangesOf
    <3> QED BY <3>1
  <2>4. ASSUME Starts(b)
        PROVE  Good(v, k)
    <3> DEFINE r == From(b)
    <3>1. r \in Ranges(S) /\ r[1] = b
      BY <2>4
    <3>2. \A x \in Nat : (\E q \in Ranges(S) : q[1] = b /\ In(q, x)) <=> In(r, x)
      <4> HIDE DEF r
      <4> QED BY <3>1, RangesOf
    <3>3. v = DoRemove(t, b, r[2])
      BY <2>4
    <3> HIDE DEF r, v, Gone
    <3>4. r[2] \in Nat /\ b < r[2]
      BY <3>1, RangesOf
    <3>5. /\ Laid(DoRemove(t, b, r[2]))
          /\ \A x \in Nat : Has(DoRemove(t, b, r[2]), x) <=> Has(t, x) /\ ~(b <= x /\ x < r[2])
      BY <2>1, <2>2, <3>4, DoRemoveTakes
    <3>6. \A x \in Nat : In(r, x) <=> b <= x /\ x < r[2]
      BY <3>1 DEF In
    <3>7. Good(t, b)
      BY <2>1 DEF b
    <3> QED BY <2>3, <3>2, <3>3, <3>5, <3>6, <3>7
  <2>5. ASSUME ~Starts(b)
        PROVE  Good(v, k)
    <3>1. v = t
      BY <2>5
    <3>2. \A x \in Nat : Gone(k, x) <=> Gone(b, x)
      BY <2>3, <2>5
    <3>3. Good(t, b)
      BY <2>1 DEF b
    <3> HIDE DEF v, Gone
    <3> QED BY <3>1, <3>2, <3>3
  <2>6. Good(v, k)
    BY <2>4, <2>5
  <2>7. v \in Seq(ChunkSet) /\ k \in 0 .. n
    BY <1>0, <2>6, LaidType
  <2> HIDE DEF Good, n
  <2> QED BY <2>6, <2>7 DEF v, b
<1> HIDE DEF T, Step, n
<1>3. \A k \in 1 .. n : \A t \in T[k - 1] : g[k][t] \in T[k]
  BY <1>2
<1> HIDE DEF g
<1>4. PICK f : Runs(f, n, s, g) /\ \A k \in 0 .. n : f[k] \in T[k]
  BY <1>0, <1>1, <1>3, Iterated
<1>5. \A k \in 0 .. n : k # 0 => g[k][f[k - 1]] = Step(f[k - 1], k - 1)
  <2> TAKE k \in 0 .. n
  <2> HAVE k # 0
  <2>1. k \in 1 .. n
    BY <1>0
  <2>2. f[k - 1] \in T[k - 1]
    BY <1>0, <1>4, <2>1
  <2> QED BY <2>1, <2>2 DEF g
<1>6. Is(f)
  BY <1>4, <1>5 DEF Runs
<1>7. Is(done)
  BY <1>6
<1>8. u = done[n]
  BY DEF RemoveAll, Each, n, Step
<1> HIDE DEF done, u
<1>9. done[0] = s /\ \A k \in 1 .. n : done[k] = Step(done[k - 1], k - 1)
  <2>1. \A k \in 0 .. n : done[k] = IF k = 0 THEN s ELSE Step(done[k - 1], k - 1)
    BY <1>7
  <2>2. 0 \in 0 .. n
    BY <1>0
  <2> HIDE DEF Is
  <2> QED BY <2>1, <2>2, <1>0
<1> HIDE DEF Is
<1>10. \A k \in 0 .. n : done[k] \in T[k]
  BY <1>0, <1>1, <1>2, <1>9, Staged
<1>12. Good(u, n)
  <2>1. n \in 0 .. n /\ done[n] \in T[n]
    BY <1>0, <1>10
  <2> HIDE DEF Good
  <2> QED BY <2>1, <1>8 DEF T
<1>13. \A x \in Nat : Gone(n, x) <=> x \in S
  BY RangesOf DEF n
<1> HIDE DEF Gone
<1> QED BY <1>12, <1>13 DEF u
-----------------------------------------------------------------------------
(* The builder                                                             *)

\* The end of the last chunk is the end of the rows.
LEMMA LastEnd ==
  ASSUME NEW s, Laid(s), s # <<>>
  PROVE  /\ Len(s) \in 1 .. Len(s) /\ Len(s) \in Nat
         /\ Len(s[Len(s)].data) \in 1 .. Len(s[Len(s)].data)
         /\ s[Len(s)].end = s[Len(s)].data[Len(s[Len(s)].data)][2]
         /\ s[Len(s)].end \in Nat /\ s[Len(s)].count \in Int
         /\ \A i \in Nat : Has(s, i) => i < s[Len(s)].end
         /\ Has(s, s[Len(s)].end - 1)
         /\ \A a \in 1 .. Len(s) : s[a].end <= s[Len(s)].end
<1> DEFINE n == Len(s)
<1>1. n \in Nat /\ n \in 1 .. n
  <2>1. n \in Nat /\ s \in Seq(ChunkSet)
    BY LaidType
  <2>2. n # 0
    BY <2>1, EmptySeq
  <2> QED BY <2>1, <2>2
<1> HIDE DEF n
<1>2. n \in 1 .. Len(s)
  BY <1>1 DEF n
<1>3. Fits(s[n]) /\ s[n].end \in Nat /\ s[n].begin \in Nat /\ s[n].begin < s[n].end
  BY <1>2, LaidType
<1>4. /\ Ordered(s[n].data) /\ s[n].count \in Int /\ s[n].end = s[n].data[Len(s[n].data)][2]
      /\ Holds(s[n].data, s[n].end - 1)
  BY <1>3, FitsType
<1>5. Len(s[n].data) \in 1 .. Len(s[n].data)
  BY <1>4, OrderedType
<1>6. ASSUME NEW a \in 1 .. Len(s)
      PROVE  s[a].end <= s[n].end
  <2>1. a < n => s[a].end < s[n].begin
    BY <1>2, LaidType
  <2>2. s[a].end \in Nat
    BY LaidType
  <2>3. a < n \/ a = n
    BY <1>1 DEF n
  <2> QED BY <2>1, <2>2, <2>3, <1>3
<1>7. ASSUME NEW i \in Nat, Has(s, i)
      PROVE  i < s[n].end
  <2>1. PICK a \in 1 .. Len(s) : Holds(s[a].data, i)
    BY <1>7 DEF Has
  <2>2. i < s[a].end /\ s[a].end \in Nat
    BY <2>1, LaidType
  <2> QED BY <2>2, <1>3, <1>6
<1>8. Has(s, s[n].end - 1)
  BY <1>2, <1>4 DEF Has
<1> QED BY <1>1, <1>3, <1>4, <1>5, <1>6, <1>7, <1>8 DEF n

\* ChunkedRangeVectorBuilder::push_back adds a range after the others.
LEMMA PushBackAdds ==
  ASSUME NEW s, Laid(s), NEW r \in Nat \X Nat, r[1] < r[2], NEW planned,
         \A i \in Nat : Has(s, i) => i < r[1]
  PROVE  /\ Laid(PushBack(s, r, planned))
         /\ \A i \in Nat : Has(PushBack(s, r, planned), i) <=> Has(s, i) \/ In(r, i)
<1> DEFINE t == PushBack(s, r, planned)
           n == Len(s)
           last == s[n]
           m == Len(last.data)
           more == last.count + Size(r)
           new == <<last.data[m][1], r[2]>>
           k(x) == Chunk(<<r>>, x)
           x == IF n < planned THEN Size(r) ELSE 1
<1>0. r[1] \in Nat /\ r[2] \in Nat /\ Size(r) \in Int
  BY DEF Size
<1>1. /\ s = <<>> => t = <<k(Size(r))>>
      /\ s # <<>> /\ r[1] = last.end => t = [s EXCEPT ![n] = Chunk([last.data EXCEPT ![m] = new], more)]
      /\ s # <<>> /\ r[1] # last.end /\ m < MaxSize => t = [s EXCEPT ![n] = Chunk(Append(last.data, r), more)]
      /\ s # <<>> /\ r[1] # last.end /\ ~(m < MaxSize) => t = Append(s, k(x))
  <2>1. s # <<>> => (m < MaxSize <=> ~(m >= MaxSize))
    <3> SUFFICES ASSUME s # <<>> PROVE m < MaxSize <=> ~(m >= MaxSize)
      OBVIOUS
    <3>1. m \in Int /\ MaxSize \in Int
      BY LastEnd, HalfSize
    <3> HIDE DEF m
    <3> QED BY <3>1
  <2>2. s = <<>> => t = <<k(Size(r))>>
    BY Zenon DEF PushBack
  <2>3. s # <<>> /\ r[1] = last.end => t = [s EXCEPT ![n] = Chunk([last.data EXCEPT ![m] = new], more)]
    BY Zenon DEF PushBack
  <2>4. s # <<>> /\ r[1] # last.end /\ m < MaxSize => t = [s EXCEPT ![n] = Chunk(Append(last.data, r), more)]
    BY <2>1, Zenon DEF PushBack
  <2>5. s # <<>> /\ r[1] # last.end /\ ~(m < MaxSize) => t = Append(s, k(x))
    BY <2>1, Zenon DEF PushBack
  <2> QED BY <2>2, <2>3, <2>4, <2>5
<1> HIDE DEF t
<1>2. ASSUME NEW y \in Int
      PROVE  /\ Fits(k(y)) /\ k(y).data = <<r>> /\ k(y).begin = r[1]
             /\ \A i \in Nat : Holds(<<r>>, i) <=> In(r, i)
  <2>1. /\ Fits(Chunk(<<r>>, Size(r))) /\ \A i \in Nat : Holds(<<r>>, i) <=> In(r, i)
        /\ Chunk(<<r>>, Size(r)).data = <<r>>
    BY SingleRange
  <2> DEFINE d == <<r>>
  <2>2. d[1] = r
    OBVIOUS
  <2>3. Ordered(d) /\ Len(d) <= MaxSize
    BY <2>1 DEF Fits
  <2> HIDE DEF d
  <2>4. Fits(Chunk(d, y)) /\ Chunk(d, y).data = d /\ Chunk(d, y).begin = d[1][1]
    BY <2>3, ChunkFits
  <2> QED BY <2>1, <2>2, <2>4 DEF d
<1>3. CASE s = <<>>
  <2> DEFINE c == k(Size(r))
  <2>1. Fits(c) /\ c.data = <<r>> /\ \A i \in Nat : Holds(<<r>>, i) <=> In(r, i)
    BY <1>0, <1>2
  <2> HIDE DEF c
  <2>2. t = Append(s, c)
    BY <1>1, <1>3 DEF c
  <2>3. \A a \in 1 .. Len(s) : s[a].end < c.begin
    BY <1>3
  <2>4. /\ Laid(Append(s, c))
        /\ \A i \in Nat : Has(Append(s, c), i) <=> Has(s, i) \/ Holds(c.data, i)
    BY <2>1, <2>3, AppendChunk
  <2> QED BY <2>1, <2>2, <2>4 DEF t
<1>4. CASE s # <<>>
  <2>1. /\ n \in 1 .. n /\ n \in Nat /\ m \in 1 .. m /\ m \in Nat
        /\ last.end = last.data[m][2]
        /\ last.end \in Nat /\ last.count \in Int
        /\ \A i \in Nat : Has(s, i) => i < last.end
        /\ Has(s, last.end - 1)
        /\ \A a \in 1 .. n : s[a].end <= last.end
    <3>1. m \in 1 .. m
      BY <1>4, LastEnd
    <3>2. m \in Nat
      <4> HIDE DEF m
      <4> QED BY <3>1
    <3> QED BY <3>1, <3>2, <1>4, LastEnd
  <2>2. Fits(last) /\ Ordered(last.data) /\ last.begin \in Nat /\ last.begin < last.end
    BY <2>1, LaidType, FitsType
  <2>3. last.end <= r[1]
    <3>1. last.end - 1 \in Nat
      BY <2>1, <2>2
    <3>2. last.end - 1 < r[1]
      BY <2>1, <3>1
    <3> QED BY <1>0, <2>1, <3>2
  <2> DEFINE pos == <<n, m>>
             old == last.data[m]
  <2>4. pos \in Positions(s) /\ At(s, pos) = old
    BY <2>1, PositionsOf DEF At
  <2>5. old[1] \in Nat /\ old[2] \in Nat /\ old[1] < old[2] /\ old[2] = last.end
    BY <2>1, <2>4, RowsAt
  <2>6. CASE r[1] = last.end
    <3>1. new \in Nat \X Nat /\ new[1] = old[1] /\ new[2] = r[2] /\ new[1] < new[2]
      BY <1>0, <2>5, <2>6
    <3>2. more = last.count - Size(old) + Size(new)
      <4> DEFINE q == last.count
      <4>1. q \in Int /\ more = q + Size(r)
        BY <2>1
      <4>2. old[2] = r[1]
        BY <2>5, <2>6
      <4> HIDE DEF new, old, q, more
      <4>3. Size(old) = old[2] - old[1] /\ Size(new) = new[2] - new[1] /\ Size(r) = r[2] - r[1]
        BY DEF Size
      <4>4. more = q - Size(old) + Size(new)
        BY <1>0, <2>5, <3>1, <4>1, <4>2, <4>3
      <4> QED BY <4>4 DEF q
    <3>3. t = [s EXCEPT ![n] = Chunk([last.data EXCEPT ![m] = new], last.count - Size(old) + Size(new))]
      BY <1>1, <1>4, <2>6, <3>2
    <3>4. pos[1] = n /\ pos[2] = m
      OBVIOUS
    <3> HIDE DEF pos, new
    <3>5. t = PutRange(s, pos, new)
      BY <3>3, <3>4, <2>4 DEF PutRange
    <3>6. \A i \in Nat : Has(s, i) /\ i < old[1] => i + 1 < new[1]
      <4>1. \A i \in Nat : i + 1 = old[1] => ~Has(s, i)
        BY <2>4, RowsAt
      <4> HIDE DEF old
      <4> QED BY <4>1, <3>1, <2>5
    <3>7. \A i \in Nat : Has(s, i) => ~(old[2] <= i)
      <4> HIDE DEF old, last
      <4> QED BY <2>1, <2>5
    <3>8. /\ Laid(PutRange(s, pos, new))
          /\ \A i \in Nat : Has(PutRange(s, pos, new), i) <=> (Has(s, i) /\ ~In(old, i)) \/ In(new, i)
      <4> HIDE DEF old
      <4> QED BY <2>4, <3>1, <3>6, <3>7, PutRows
    <3>9. \A i \in Nat : In(old, i) => Has(s, i)
      BY <2>4, RowsAt
    <3>10. \A i \in Nat : In(new, i) <=> In(old, i) \/ In(r, i)
      <4> HIDE DEF old, last
      <4> QED BY <1>0, <2>5, <2>6, <3>1 DEF In
    <3> HIDE DEF old
    <3> QED BY <3>5, <3>8, <3>9, <3>10 DEF t
  <2>7. CASE r[1] # last.end
    <3>1. \A a \in 1 .. Len(s) : s[a].end < r[1]
      <4> TAKE a \in 1 .. Len(s)
      <4>1. s[a].end \in Nat /\ s[a].end <= last.end
        BY <2>1, LaidType
      <4> DEFINE u == r[1]
                 v == last.end
                 w == s[a].end
      <4>2. u \in Nat /\ v \in Nat /\ w \in Nat /\ w <= v /\ v <= u /\ v # u
        <5> HIDE DEF last
        <5> QED BY <4>1, <1>0, <2>1, <2>3, <2>7
      <4> HIDE DEF last, u, v, w
      <4>3. w < u
        BY <4>2
      <4> QED BY <4>3 DEF u, w
    <3>2. CASE m < MaxSize
      <4>1. t = [s EXCEPT ![n] = Chunk(Append(last.data, r), more)]
        BY <1>1, <1>4, <2>7, <3>2
      <4>2. Append(last.data, r) = Seqs!InsertAt(last.data, m + 1, r)
        <5> DEFINE X == Nat \X Nat
                   d == last.data
        <5>1. d \in Seq(X) /\ r \in X
          BY <2>2 DEF Ordered
        <5> HIDE DEF X, d
        <5> QED BY <5>1, AppendIsInsert DEF d
      <4>3. t = InsertIn(s, n, m + 1, r)
        BY <4>1, <4>2 DEF InsertIn
      <4> DEFINE o == m + 1
      <4>4. o \in 1 .. Len(s[n].data) + 1 /\ \A b \in 1 .. Len(s[n].data) : ~(o <= b)
        <5> HIDE DEF n
        <5> QED BY <2>1
      <4>5. \A b \in 1 .. Len(s[n].data) : s[n].data[b][2] < r[1]
        <5> TAKE b \in 1 .. Len(s[n].data)
        <5>1. s[n].data[b][2] <= last.end /\ s[n].data[b][2] \in Nat
          BY <2>1, RangesApart
        <5>2. last.end < r[1]
          <6> HIDE DEF last
          <6> QED BY <1>0, <2>1, <2>3, <2>7
        <5> HIDE DEF last
        <5> QED BY <5>1, <5>2, <1>0, <2>1
      <4>6. \A a \in 1 .. Len(s) : ~(n < a)
        BY <2>1
      <4>7. n \in 1 .. Len(s) /\ Len(s[n].data) < MaxSize
        BY <2>1, <3>2
      <4> HIDE DEF n, o
      <4>8. /\ Laid(InsertIn(s, n, o, r))
            /\ \A i \in Nat : Has(InsertIn(s, n, o, r), i) <=> Has(s, i) \/ In(r, i)
        BY <3>1, <4>4, <4>5, <4>6, <4>7, InsertInLaid
      <4> QED BY <4>3, <4>8 DEF t, o
    <3>3. CASE ~(m < MaxSize)
      <4> DEFINE c == k(x)
      <4>1. x \in Int
        BY <1>0
      <4>2. t = Append(s, c)
        BY <1>1, <1>4, <2>7, <3>3
      <4> HIDE DEF x
      <4>3. Fits(c) /\ c.data = <<r>> /\ c.begin = r[1] /\ \A i \in Nat : Holds(<<r>>, i) <=> In(r, i)
        BY <4>1, <1>2
      <4> HIDE DEF c
      <4>4. \A a \in 1 .. Len(s) : s[a].end < c.begin
        BY <3>1, <4>3
      <4>5. /\ Laid(Append(s, c))
            /\ \A i \in Nat : Has(Append(s, c), i) <=> Has(s, i) \/ Holds(c.data, i)
        BY <4>3, <4>4, AppendChunk
      <4> QED BY <4>2, <4>3, <4>5 DEF t
    <3> QED BY <3>2, <3>3
  <2> QED BY <2>6, <2>7
<1> QED BY <1>3, <1>4
-----------------------------------------------------------------------------
(* The loops over all ranges                                               *)

\* push_back of one row.
LEMMA PushRowAdds ==
  ASSUME NEW s, Laid(s), NEW i \in Nat, NEW planned, \A x \in Nat : Has(s, x) => x < i
  PROVE  /\ Laid(PushRow(s, i, planned))
         /\ \A x \in Nat : Has(PushRow(s, i, planned), x) <=> Has(s, x) \/ x = i
<1> DEFINE r == <<i, i + 1>>
<1>1. r \in Nat \X Nat /\ r[1] = i /\ r[2] = i + 1 /\ r[1] < r[2] /\ \A x \in Nat : In(r, x) <=> x = i
  BY DEF In
<1>2. PushRow(s, i, planned) = PushBack(s, r, planned)
  BY DEF PushRow
<1> HIDE DEF r
<1>3. /\ Laid(PushBack(s, r, planned))
      /\ \A x \in Nat : Has(PushBack(s, r, planned), x) <=> Has(s, x) \/ In(r, x)
  BY <1>1, PushBackAdds
<1> QED BY <1>1, <1>2, <1>3

\* Ranges that lie apart.
Apart(ranges) ==
  /\ \A r \in ranges : r \in Nat \X Nat /\ r[1] \in Nat /\ r[2] \in Nat /\ r[1] < r[2] /\ r[1] < Bound
  /\ \A r, q \in ranges : r[1] < q[1] => r[2] <= q[1]
  /\ \A r, q \in ranges : r[1] = q[1] => r = q

\* push_back of ranges that lie apart, in their order.
LEMMA PushAllAdds ==
  ASSUME NEW s, Laid(s), NEW ranges, Apart(ranges), NEW planned,
         \A x \in Nat : \A r \in ranges : Has(s, x) => x < r[1]
  PROVE  /\ Laid(PushAll(s, ranges, planned))
         /\ \A x \in Nat : Has(PushAll(s, ranges, planned), x) <=> Has(s, x) \/ \E r \in ranges : In(r, x)
<1> DEFINE n == Bound
           u == PushAll(s, ranges, planned)
           Pushed(k, x) == \E r \in ranges : r[1] < k /\ In(r, x)
           Good(t, k) == Laid(t) /\ \A x \in Nat : Has(t, x) <=> Has(s, x) \/ Pushed(k, x)
           Starts(b) == \E r \in ranges : r[1] = b
           From(b) == CHOOSE r \in ranges : r[1] = b
           Step(t, b) == IF Starts(b) THEN PushBack(t, From(b), planned) ELSE t
           T == [k \in 0 .. n |-> {t \in Seq(ChunkSet) : Good(t, k)}]
           g == [k \in 1 .. n |-> [t \in T[k - 1] |-> Step(t, k - 1)]]
           Is(f) == f = [k \in 0 .. n |-> IF k = 0 THEN s ELSE Step(f[k - 1], k - 1)]
           done == CHOOSE f : Is(f)
<1>0. n \in Nat /\ \A k \in 1 .. n : k \in Nat /\ k - 1 \in Nat /\ k - 1 \in 0 .. n /\ k \in 0 .. n /\ k # 0
  BY BoundAssumption
<1>a. /\ \A r \in ranges : r \in Nat \X Nat /\ r[1] \in Nat /\ r[2] \in Nat /\ r[1] < r[2] /\ r[1] < n
      /\ \A r, q \in ranges : r[1] < q[1] => r[2] <= q[1]
      /\ \A r, q \in ranges : r[1] = q[1] => r = q
  BY DEF Apart
<1>1. s \in T[0]
  <2>1. 0 \in 0 .. n /\ s \in Seq(ChunkSet)
    BY <1>0, LaidType
  <2>2. \A x \in Nat : ~Pushed(0, x)
    BY <1>a
  <2> HIDE DEF Pushed
  <2>3. Good(s, 0)
    BY <2>2
  <2> HIDE DEF Good
  <2> QED BY <2>1, <2>3
<1>2. ASSUME NEW k \in 1 .. n, NEW t \in T[k - 1]
      PROVE  Step(t, k - 1) \in T[k]
  <2>1. Good(t, k - 1)
    <3> HIDE DEF Good, n
    <3> QED BY <1>0
  <2> DEFINE b == k - 1
             v == Step(t, b)
  <2>2. b \in Nat /\ k \in Nat /\ \A y \in Nat : y < k <=> y < b \/ y = b
    BY <1>0
  <2>a. Good(t, b)
    BY <2>1
  <2> HIDE DEF b
  <2>3. ASSUME NEW x \in Nat
        PROVE  Pushed(k, x) <=> Pushed(b, x) \/ \E r \in ranges : r[1] = b /\ In(r, x)
    <3>1. \A r \in ranges : r[1] < k <=> r[1] < b \/ r[1] = b
      BY <2>2, <1>a
    <3> QED BY <3>1
  <2>4. ASSUME Starts(b)
        PROVE  Good(v, k)
    <3> DEFINE r == From(b)
    <3>1. r \in ranges /\ r[1] = b
      BY <2>4
    <3>2. \A x \in Nat : (\E q \in ranges : q[1] = b /\ In(q, x)) <=> In(r, x)
      <4> HIDE DEF r
      <4> QED BY <3>1, <1>a
    <3>3. v = PushBack(t, r, planned)
      BY <2>4
    <3> HIDE DEF r, v
    <3>4. ASSUME NEW x \in Nat, Pushed(b, x)
          PROVE  x < r[1]
      <4>1. PICK q \in ranges : q[1] < b /\ In(q, x)
        BY <3>4
      <4>2. q[2] <= r[1] /\ q[2] \in Nat /\ r[1] \in Nat /\ x < q[2]
        BY <4>1, <3>1, <1>a DEF In
      <4> QED BY <4>2
    <3> HIDE DEF Pushed
    <3>5. \A x \in Nat : Has(t, x) => x < r[1]
      BY <2>a, <3>1, <3>4
    <3>6. /\ Laid(PushBack(t, r, planned))
          /\ \A x \in Nat : Has(PushBack(t, r, planned), x) <=> Has(t, x) \/ In(r, x)
      BY <2>a, <3>1, <3>5, <1>a, PushBackAdds
    <3> QED BY <2>3, <2>a, <3>2, <3>3, <3>6
  <2>5. ASSUME ~Starts(b)
        PROVE  Good(v, k)
    <3>1. v = t
      BY <2>5
    <3>2. \A x \in Nat : Pushed(k, x) <=> Pushed(b, x)
      BY <2>3, <2>5
    <3> HIDE DEF v, Pushed
    <3> QED BY <3>1, <3>2, <2>a
  <2>6. Good(v, k)
    BY <2>4, <2>5
  <2>7. v \in Seq(ChunkSet) /\ k \in 0 .. n
    BY <1>0, <2>6, LaidType
  <2> HIDE DEF Good, n
  <2> QED BY <2>6, <2>7 DEF v, b
<1> HIDE DEF T, Step, n
<1>3. \A k \in 1 .. n : \A t \in T[k - 1] : g[k][t] \in T[k]
  BY <1>2
<1> HIDE DEF g
<1>4. PICK f : Runs(f, n, s, g) /\ \A k \in 0 .. n : f[k] \in T[k]
  BY <1>0, <1>1, <1>3, Iterated
<1>5. \A k \in 0 .. n : k # 0 => g[k][f[k - 1]] = Step(f[k - 1], k - 1)
  <2> TAKE k \in 0 .. n
  <2> HAVE k # 0
  <2>1. k \in 1 .. n
    BY <1>0
  <2>2. f[k - 1] \in T[k - 1]
    BY <1>0, <1>4, <2>1
  <2> QED BY <2>1, <2>2 DEF g
<1>6. Is(f)
  BY <1>4, <1>5 DEF Runs
<1>7. Is(done)
  BY <1>6
<1>8. u = done[n]
  BY DEF PushAll, Each, n, Step
<1> HIDE DEF done, u
<1>9. done[0] = s /\ \A k \in 1 .. n : done[k] = Step(done[k - 1], k - 1)
  <2>1. \A k \in 0 .. n : done[k] = IF k = 0 THEN s ELSE Step(done[k - 1], k - 1)
    BY <1>7
  <2>2. 0 \in 0 .. n
    BY <1>0
  <2> HIDE DEF Is
  <2> QED BY <2>1, <2>2, <1>0
<1> HIDE DEF Is
<1>10. \A k \in 0 .. n : done[k] \in T[k]
  BY <1>0, <1>1, <1>2, <1>9, Staged
<1>12. Good(u, n)
  <2>1. n \in 0 .. n /\ done[n] \in T[n]
    BY <1>0, <1>10
  <2> HIDE DEF Good
  <2> QED BY <2>1, <1>8 DEF T
<1>13. \A x \in Nat : Pushed(n, x) <=> \E r \in ranges : In(r, x)
  BY <1>a
<1> HIDE DEF Pushed
<1> QED BY <1>12, <1>13 DEF u

\* The shift of a loop counts the rows of the other set.
LEMMA BelowStep ==
  ASSUME NEW S \in SUBSET Nat, NEW i \in Nat
  PROVE  /\ Below(S, 0) = 0
         /\ Below(S, i + 1) = IF i \in S THEN Below(S, i) + 1 ELSE Below(S, i)
         /\ i - Below(S, i) = Unshift(S, i)
<1> DEFINE j == i + 1
<1>0. i \in Nat /\ j \in Nat /\ j = i + 1 /\ i <= j /\ 0 \in Nat
  OBVIOUS
<1> HIDE DEF j
<1>1. Below(S, i) \in Nat
  BY <1>0, BelowType
<1>2. Below(S, j) \in Nat
  BY <1>0, BelowType
<1>3. Below(S, 0) \in Nat /\ Below(S, 0) <= 0
  BY <1>0, BelowType
<1>4. Unshift(S, j) = IF i \in S THEN Unshift(S, i) ELSE Unshift(S, i) + 1
  BY <1>0, UnshiftGrows
<1>5. Unshift(S, j) = j - Below(S, j)
  BY DEF Unshift
<1>6. Unshift(S, i) = i - Below(S, i)
  BY DEF Unshift
<1>7. Below(S, 0) = 0
  BY <1>3
<1>8. Below(S, j) = IF i \in S THEN Below(S, i) + 1 ELSE Below(S, i)
  <2> DEFINE a == Below(S, i)
             b == Below(S, j)
  <2>1. a \in Nat /\ b \in Nat
    BY <1>1, <1>2
  <2>2. j - b = IF i \in S THEN i - a ELSE i - a + 1
    BY <1>4, <1>5, <1>6
  <2> HIDE DEF a, b
  <2>3. b = IF i \in S THEN a + 1 ELSE a
    BY <1>0, <2>1, <2>2
  <2> QED BY <2>3 DEF a, b
<1> QED BY <1>6, <1>7, <1>8 DEF j

\* What insert_at and shift_for_insert_at build: a row that is not a new one is there
\* if the row it was before the shift was there.
LEMMA WalkInsertedIs ==
  ASSUME NEW old, Laid(old), NEW S \in SUBSET Nat, NEW kept \in BOOLEAN
  PROVE  /\ Laid(WalkInserted(old, S, kept))
         /\ \A x \in Nat : Has(WalkInserted(old, S, kept), x) <=>
               x < Bound /\ IF x \in S THEN kept ELSE Has(old, Unshift(S, x))
<1> DEFINE n == Bound
           mine == Indexes(old)
           planned == Planned(old)
           u == WalkInserted(old, S, kept)
           Mine(x) == IF x \in S THEN kept ELSE Has(old, Unshift(S, x))
           Good(w, k) == /\ Laid(w.built) /\ w.shift = Below(S, k)
                         /\ \A x \in Nat : Has(w.built, x) <=> x < k /\ Mine(x)
           Step(w, i) ==
             IF i \in S
             THEN [built |-> IF kept THEN PushRow(w.built, i, planned) ELSE w.built,
                   shift |-> w.shift + 1]
             ELSE IF i - w.shift \in mine
             THEN [built |-> PushRow(w.built, i, planned), shift |-> w.shift]
             ELSE w
           W == [built : Seq(ChunkSet), shift : Nat]
           start == [built |-> <<>>, shift |-> 0]
           T == [k \in 0 .. n |-> {w \in W : Good(w, k)}]
           g == [k \in 1 .. n |-> [t \in T[k - 1] |-> Step(t, k - 1)]]
           Is(f) == f = [k \in 0 .. n |-> IF k = 0 THEN start ELSE Step(f[k - 1], k - 1)]
           done == CHOOSE f : Is(f)
<1>0. n \in Nat /\ \A k \in 1 .. n : k \in Nat /\ k - 1 \in Nat /\ k - 1 \in 0 .. n /\ k \in 0 .. n /\ k # 0
  BY BoundAssumption
<1>1. start \in T[0]
  <2>1. 0 \in 0 .. n /\ start \in W /\ start.built = <<>> /\ start.shift = 0
    BY <1>0
  <2>2. Laid(<<>>) /\ \A x : ~Has(<<>>, x)
    BY DEF Laid, Has
  <2>3. \A x \in Nat : ~(x < 0)
    OBVIOUS
  <2> HIDE DEF Mine, start, W
  <2>4. Good(start, 0)
    BY <2>1, <2>2, <2>3, BelowStep
  <2> HIDE DEF Good
  <2> QED BY <2>1, <2>4
<1>2. ASSUME NEW k \in 1 .. n, NEW t \in T[k - 1]
      PROVE  Step(t, k - 1) \in T[k]
  <2>1. Good(t, k - 1) /\ t \in W
    <3> HIDE DEF Good, W, n
    <3> QED BY <1>0
  <2> DEFINE i == k - 1
             v == Step(t, i)
  <2>2. i \in Nat /\ k \in Nat /\ k = i + 1 /\ (\A y \in Nat : y < k <=> y < i \/ y = i) /\ ~(i < i)
    BY <1>0
  <2>3. Good(t, i)
    BY <2>1
  <2> HIDE DEF i, Mine
  <2>4. /\ Below(S, k) = (IF i \in S THEN t.shift + 1 ELSE t.shift)
        /\ i - t.shift = Unshift(S, i)
        /\ Below(S, k) \in Nat /\ t.shift \in Nat
    <3>1. t.shift = Below(S, i)
      BY <2>3
    <3> HIDE DEF Good, Step, W, T, start, planned, mine
    <3>2. /\ Below(S, 0) = 0
          /\ Below(S, i + 1) = IF i \in S THEN Below(S, i) + 1 ELSE Below(S, i)
          /\ i - Below(S, i) = Unshift(S, i)
      BY <2>2, BelowStep
    <3>3. Below(S, i) \in Nat
      BY <2>2, BelowType
    <3>4. Below(S, k) \in Nat
      BY <2>2, BelowType
    <3> QED BY <2>2, <3>1, <3>2, <3>3, <3>4
  <2>5. i - t.shift \in mine <=> Has(old, Unshift(S, i))
    BY <2>2, <2>4, PositionsOf, UnshiftType
  <2>6. /\ Laid(PushRow(t.built, i, planned))
        /\ \A x \in Nat : Has(PushRow(t.built, i, planned), x) <=> Has(t.built, x) \/ x = i
    <3>1. \A x \in Nat : Has(t.built, x) => x < i
      BY <2>3
    <3>2. Laid(t.built)
      BY <2>3
    <3> HIDE DEF Good, planned
    <3> QED BY <2>2, <3>1, <3>2, PushRowAdds
  <2>7. Mine(i) <=> IF i \in S THEN kept ELSE i - t.shift \in mine
    BY <2>5 DEF Mine
  <2> HIDE DEF mine, planned
  <2>8. /\ v.built = IF Mine(i) THEN PushRow(t.built, i, planned) ELSE t.built
        /\ v.shift = IF i \in S THEN t.shift + 1 ELSE t.shift
        /\ v = [built |-> v.built, shift |-> v.shift]
    BY <2>1, <2>7
  <2> HIDE DEF v
  <2>9. Laid(v.built) /\ \A x \in Nat : Has(v.built, x) <=> Has(t.built, x) \/ (x = i /\ Mine(i))
    BY <2>3, <2>6, <2>8
  <2>10. Good(v, k)
    BY <2>2, <2>3, <2>4, <2>8, <2>9
  <2>11. v \in W /\ k \in 0 .. n
    <3>1. v.built \in Seq(ChunkSet) /\ v.shift \in Nat
      BY <2>4, <2>8, <2>9, LaidType
    <3> QED BY <3>1, <2>8, <1>0
  <2> HIDE DEF Good, n, W
  <2> QED BY <2>10, <2>11 DEF v, i
<1> HIDE DEF T, Step, n, start, planned, mine
<1>3. \A k \in 1 .. n : \A t \in T[k - 1] : g[k][t] \in T[k]
  BY <1>2
<1> HIDE DEF g
<1>4. PICK f : Runs(f, n, start, g) /\ \A k \in 0 .. n : f[k] \in T[k]
  BY <1>0, <1>1, <1>3, Iterated
<1>5. \A k \in 0 .. n : k # 0 => g[k][f[k - 1]] = Step(f[k - 1], k - 1)
  <2> TAKE k \in 0 .. n
  <2> HAVE k # 0
  <2>1. k \in 1 .. n
    BY <1>0
  <2>2. f[k - 1] \in T[k - 1]
    BY <1>0, <1>4, <2>1
  <2> QED BY <2>1, <2>2 DEF g
<1>6. Is(f)
  BY <1>4, <1>5 DEF Runs
<1>7. Is(done)
  BY <1>6
<1>8. u = done[n].built
  BY DEF WalkInserted, Each, n, Step, start, planned, mine
<1> HIDE DEF done, u
<1>9. done[0] = start /\ \A k \in 1 .. n : done[k] = Step(done[k - 1], k - 1)
  <2>1. \A k \in 0 .. n : done[k] = IF k = 0 THEN start ELSE Step(done[k - 1], k - 1)
    BY <1>7
  <2>2. 0 \in 0 .. n
    BY <1>0
  <2> HIDE DEF Is
  <2> QED BY <2>1, <2>2, <1>0
<1> HIDE DEF Is
<1>10. \A k \in 0 .. n : done[k] \in T[k]
  BY <1>0, <1>1, <1>2, <1>9, Staged
<1>12. Good(done[n], n)
  <2>1. n \in 0 .. n /\ done[n] \in T[n]
    BY <1>0, <1>10
  <2> HIDE DEF Good
  <2> QED BY <2>1 DEF T
<1> QED BY <1>8, <1>12 DEF u, n

\* What erase_at leaves.
LEMMA WalkErasedIs ==
  ASSUME NEW old, Laid(old), NEW S \in SUBSET Nat
  PROVE  /\ Laid(WalkErased(old, S))
         /\ \A x \in Nat : Has(WalkErased(old, S), x) <=>
               \E i \in Nat : i < Bound /\ Has(old, i) /\ i \notin S /\ x = Unshift(S, i)
<1> DEFINE n == Bound
           mine == Indexes(old)
           planned == Planned(old)
           u == WalkErased(old, S)
           Stays(i) == Has(old, i) /\ i \notin S
           Moved(k, x) == \E i \in Nat : i < k /\ Stays(i) /\ x = Unshift(S, i)
           Good(w, k) == /\ Laid(w.built) /\ w.shift = Below(S, k)
                         /\ \A x \in Nat : Has(w.built, x) <=> Moved(k, x)
           Step(w, i) ==
             IF i \in S THEN [built |-> w.built, shift |-> w.shift + 1]
             ELSE IF i \in mine
             THEN [built |-> PushRow(w.built, i - w.shift, planned), shift |-> w.shift]
             ELSE w
           W == [built : Seq(ChunkSet), shift : Nat]
           start == [built |-> <<>>, shift |-> 0]
           T == [k \in 0 .. n |-> {w \in W : Good(w, k)}]
           g == [k \in 1 .. n |-> [t \in T[k - 1] |-> Step(t, k - 1)]]
           Is(f) == f = [k \in 0 .. n |-> IF k = 0 THEN start ELSE Step(f[k - 1], k - 1)]
           done == CHOOSE f : Is(f)
<1>0. n \in Nat /\ \A k \in 1 .. n : k \in Nat /\ k - 1 \in Nat /\ k - 1 \in 0 .. n /\ k \in 0 .. n /\ k # 0
  BY BoundAssumption
<1>1. start \in T[0]
  <2>1. 0 \in 0 .. n /\ start \in W /\ start.built = <<>> /\ start.shift = 0
    BY <1>0
  <2>2. Laid(<<>>) /\ \A x : ~Has(<<>>, x)
    BY DEF Laid, Has
  <2>3. \A x \in Nat : ~Moved(0, x)
    OBVIOUS
  <2> HIDE DEF Moved, start, W
  <2>4. Good(start, 0)
    BY <2>1, <2>2, <2>3, BelowStep
  <2> HIDE DEF Good
  <2> QED BY <2>1, <2>4
<1>2. ASSUME NEW k \in 1 .. n, NEW t \in T[k - 1]
      PROVE  Step(t, k - 1) \in T[k]
  <2>1. Good(t, k - 1) /\ t \in W
    <3> HIDE DEF Good, W, n
    <3> QED BY <1>0
  <2> DEFINE i == k - 1
             v == Step(t, i)
  <2>2. i \in Nat /\ k \in Nat /\ k = i + 1 /\ (\A y \in Nat : y < k <=> y < i \/ y = i) /\ ~(i < i)
    BY <1>0
  <2>3. Good(t, i)
    BY <2>1
  <2> HIDE DEF i
  <2>4. /\ Below(S, k) = (IF i \in S THEN t.shift + 1 ELSE t.shift)
        /\ i - t.shift = Unshift(S, i)
        /\ Below(S, k) \in Nat /\ t.shift \in Nat
    <3>1. t.shift = Below(S, i)
      BY <2>3
    <3> HIDE DEF Good, Step, W, T, start, planned, mine
    <3>2. /\ Below(S, 0) = 0
          /\ Below(S, i + 1) = IF i \in S THEN Below(S, i) + 1 ELSE Below(S, i)
          /\ i - Below(S, i) = Unshift(S, i)
      BY <2>2, BelowStep
    <3>3. Below(S, i) \in Nat
      BY <2>2, BelowType
    <3>4. Below(S, k) \in Nat
      BY <2>2, BelowType
    <3> QED BY <2>2, <3>1, <3>2, <3>3, <3>4
  <2>5. i \in mine <=> Has(old, i)
    BY <2>2, PositionsOf
  <2> DEFINE z == Unshift(S, i)
  <2>6. i \notin S => /\ Laid(PushRow(t.built, z, planned))
                      /\ \A x \in Nat : Has(PushRow(t.built, z, planned), x) <=> Has(t.built, x) \/ x = z
    <3> SUFFICES ASSUME i \notin S
                 PROVE  /\ Laid(PushRow(t.built, z, planned))
                        /\ \A x \in Nat : Has(PushRow(t.built, z, planned), x) <=> Has(t.built, x) \/ x = z
      OBVIOUS
    <3>1. ASSUME NEW x \in Nat, Has(t.built, x)
          PROVE  x < z
      <4>1. PICK j \in Nat : j < i /\ j \notin S /\ x = Unshift(S, j)
        BY <2>3, <3>1
      <4> QED BY <2>2, <4>1, UnshiftOrders
    <3>2. Laid(t.built)
      BY <2>3
    <3>3. z \in Nat
      BY <2>2, UnshiftType
    <3> HIDE DEF Good, planned, z
    <3> QED BY <3>1, <3>2, <3>3, PushRowAdds
  <2>7. \A x \in Nat : Moved(k, x) <=> Moved(i, x) \/ (Stays(i) /\ x = z)
    <3> HIDE DEF Stays
    <3> QED BY <2>2
  <2> HIDE DEF mine, planned, Moved
  <2>8. /\ v.built = IF Stays(i) THEN PushRow(t.built, z, planned) ELSE t.built
        /\ v.shift = IF i \in S THEN t.shift + 1 ELSE t.shift
        /\ v = [built |-> v.built, shift |-> v.shift]
    BY <2>1, <2>4, <2>5
  <2> HIDE DEF v, z
  <2>9. Laid(v.built) /\ \A x \in Nat : Has(v.built, x) <=> Has(t.built, x) \/ (x = z /\ Stays(i))
    BY <2>3, <2>6, <2>8
  <2>10. Good(v, k)
    BY <2>2, <2>3, <2>4, <2>7, <2>8, <2>9
  <2>11. v \in W /\ k \in 0 .. n
    <3>1. v.built \in Seq(ChunkSet) /\ v.shift \in Nat
      BY <2>4, <2>8, <2>9, LaidType
    <3> QED BY <3>1, <2>8, <1>0
  <2> HIDE DEF Good, n, W
  <2> QED BY <2>10, <2>11 DEF v, i
<1> HIDE DEF T, Step, n, start, planned, mine
<1>3. \A k \in 1 .. n : \A t \in T[k - 1] : g[k][t] \in T[k]
  BY <1>2
<1> HIDE DEF g
<1>4. PICK f : Runs(f, n, start, g) /\ \A k \in 0 .. n : f[k] \in T[k]
  BY <1>0, <1>1, <1>3, Iterated
<1>5. \A k \in 0 .. n : k # 0 => g[k][f[k - 1]] = Step(f[k - 1], k - 1)
  <2> TAKE k \in 0 .. n
  <2> HAVE k # 0
  <2>1. k \in 1 .. n
    BY <1>0
  <2>2. f[k - 1] \in T[k - 1]
    BY <1>0, <1>4, <2>1
  <2> QED BY <2>1, <2>2 DEF g
<1>6. Is(f)
  BY <1>4, <1>5 DEF Runs
<1>7. Is(done)
  BY <1>6
<1>8. u = done[n].built
  BY DEF WalkErased, Each, n, Step, start, planned, mine
<1> HIDE DEF done, u
<1>9. done[0] = start /\ \A k \in 1 .. n : done[k] = Step(done[k - 1], k - 1)
  <2>1. \A k \in 0 .. n : done[k] = IF k = 0 THEN start ELSE Step(done[k - 1], k - 1)
    BY <1>7
  <2>2. 0 \in 0 .. n
    BY <1>0
  <2> HIDE DEF Is
  <2> QED BY <2>1, <2>2, <1>0
<1> HIDE DEF Is
<1>10. \A k \in 0 .. n : done[k] \in T[k]
  BY <1>0, <1>1, <1>2, <1>9, Staged
<1>12. Good(done[n], n)
  <2>1. n \in 0 .. n /\ done[n] \in T[n]
    BY <1>0, <1>10
  <2> HIDE DEF Good
  <2> QED BY <2>1 DEF T
<1> QED BY <1>8, <1>12 DEF u, n

\* Where a row z goes when the rows of O are put back: after those that stand at z or
\* lower without the others.
LEMMA ShiftedRow ==
  ASSUME NEW O \in SUBSET Nat, IsFiniteSet(O), NEW z \in Nat
  PROVE  /\ Shift(O, z) \in Nat \ O
         /\ Shift(O, z) = z + Below(O, Shift(O, z))
         /\ \A x \in O : Unshift(O, x) <= z <=> x < Shift(O, z)
<1> DEFINE y == Shift(O, z)
<1>1. y \in Nat \ O /\ Unshift(O, y) = z
  BY ShiftIs
<1> HIDE DEF y
<1>2. Below(O, y) \in Nat /\ y = z + Below(O, y)
  <2>1. Below(O, y) \in Nat
    BY <1>1, BelowType
  <2>2. z = y - Below(O, y)
    BY <1>1 DEF Unshift
  <2> QED BY <1>1, <2>1, <2>2
<1>3. ASSUME NEW x \in O
      PROVE  Unshift(O, x) <= z <=> x < y
  <2>1. Unshift(O, x) \in Nat /\ x \in Nat
    BY UnshiftType
  <2>2. x < y => Unshift(O, x) <= z
    BY <1>1, <2>1, UnshiftGrows
  <2>3. y < x => z < Unshift(O, x)
    BY <1>1, <2>1, UnshiftGrows
  <2>4. x < y \/ y < x
    BY <1>1, <2>1
  <2> QED BY <1>1, <2>1, <2>2, <2>3, <2>4
<1> QED BY <1>1, <1>2, <1>3 DEF y

\* Of the rows that are not done with, those the loop of add_shifted_by passes before
\* it pushes z.
Passing(O, G, z) == {x \in O \ G : x - Below(O \ G, x) <= z + Cardinality(G)}

\* Of the rows O those of G, the first ones, are done with.  Those that come before
\* where z goes are counted without them.
LEMMA PassedRows ==
  ASSUME NEW O \in SUBSET Nat, IsFiniteSet(O), NEW z \in Nat, NEW G \in SUBSET O,
         \A x \in O \ G : \A y \in G : y < x,
         \A y \in G : y < Shift(O, z)
  PROVE  /\ \A x \in Passing(O, G, z) : x < Shift(O, z)
         /\ G \cup Passing(O, G, z) = {x \in O : x < Shift(O, z)}
         /\ Cardinality(G) \in Nat /\ Cardinality(Passing(O, G, z)) \in Nat
         /\ Cardinality(G \cup Passing(O, G, z)) = Cardinality(G) + Cardinality(Passing(O, G, z))
         /\ Shift(O, z) = z + (Cardinality(G) + Cardinality(Passing(O, G, z)))
<1> DEFINE c == Cardinality(G)
           y == Shift(O, z)
           L == O \ G
           P == {x \in L : x - Below(L, x) <= z + c}
<1>1. IsFiniteSet(G) /\ c \in Nat /\ G \in SUBSET Nat /\ L \in SUBSET Nat /\ IsFiniteSet(L)
  BY FS_Subset, FS_CardinalityType
<1>2. ASSUME NEW x \in L
      PROVE  x - Below(L, x) <= z + c <=> Unshift(O, x) <= z
  <2> DEFINE A == {j \in O : j < x}
             B == {j \in L : j < x}
  <2>1. IsFiniteSet(A) /\ x \in Nat /\ Cardinality(A) \in Nat
    BY BelowType, FS_CardinalityType
  <2>2. B = A \ G /\ A \cap G = G
    OBVIOUS
  <2>3. Cardinality(B) = Cardinality(A) - Cardinality(A \cap G)
    BY <2>1, <2>2, FS_Difference
  <2>4. Below(L, x) = Cardinality(B) /\ Unshift(O, x) = x - Cardinality(A)
    BY DEF Below, Unshift
  <2>5. Cardinality(B) = Cardinality(A) - c
    BY <2>2, <2>3
  <2> HIDE DEF A, B, c
  <2> QED BY <1>1, <2>1, <2>4, <2>5
<1>3. y \in Nat \ O /\ y = z + Below(O, y) /\ \A x \in O : Unshift(O, x) <= z <=> x < y
  BY ShiftedRow
<1>4. P = {x \in L : x < y}
  <2> HIDE DEF c, y
  <2> QED BY <1>2, <1>3
<1>5. G \cup P = {x \in O : x < y}
  BY <1>4
<1>6. IsFiniteSet(P) /\ Cardinality(P) \in Nat /\ G \cap P = {}
  BY <1>1, <1>4, FS_Subset, FS_CardinalityType
<1>7. Cardinality(G \cup P) = c + Cardinality(P)
  <2>1. Cardinality(G \cup P) = Cardinality(G) + Cardinality(P) - Cardinality(G \cap P)
    BY <1>1, <1>6, FS_Union
  <2>2. Cardinality(G \cap P) = 0
    BY <1>6, FS_EmptySet
  <2> HIDE DEF P
  <2> QED BY <1>1, <1>6, <2>1, <2>2
<1>8. y = z + (c + Cardinality(P))
  <2>1. Below(O, y) = Cardinality(G \cup P)
    BY <1>5 DEF Below
  <2> HIDE DEF P, y
  <2> QED BY <1>3, <1>7, <2>1
<1>9. \A x \in P : x < y
  BY <1>4
<1>10. Passing(O, G, z) = P
  BY DEF Passing
<1> HIDE DEF P
<1> QED BY <1>1, <1>5, <1>6, <1>7, <1>8, <1>9, <1>10

\* Where add_shifted_by puts a row of values.
Back(O, I, i) == Shift(O, Unshift(I, i))

\* It is not where a row was, and keeps the order of the values.
LEMMA BackOrders ==
  ASSUME NEW O \in SUBSET Nat, IsFiniteSet(O), NEW I \in SUBSET Nat,
         NEW i \in Nat \ I, NEW j \in Nat \ I
  PROVE  /\ Back(O, I, i) \in Nat \ O /\ Back(O, I, j) \in Nat \ O
         /\ i < j => Back(O, I, i) < Back(O, I, j)
<1> DEFINE x == Back(O, I, i)
           y == Back(O, I, j)
<1>1. Unshift(I, i) \in Nat /\ Unshift(I, j) \in Nat
  BY UnshiftType
<1>2. x \in Nat \ O /\ Unshift(O, x) = Unshift(I, i)
  BY <1>1, ShiftIs DEF Back
<1>3. y \in Nat \ O /\ Unshift(O, y) = Unshift(I, j)
  BY <1>1, ShiftIs DEF Back
<1> HIDE DEF x, y
<1>4. i < j => x < y
  <2>1. x < y <=> Unshift(O, x) < Unshift(O, y)
    BY <1>2, <1>3, UnshiftOrders
  <2>2. i < j <=> Unshift(I, i) < Unshift(I, j)
    BY UnshiftOrders
  <2> QED BY <1>2, <1>3, <2>1, <2>2
<1> QED BY <1>2, <1>3, <1>4 DEF x, y

\* Rows pushed one by one.
LEMMA PushSingles ==
  ASSUME NEW s, Laid(s), NEW P \in SUBSET Row, NEW planned,
         \A x \in Nat : \A p \in P : Has(s, x) => x < p
  PROVE  LET t == PushAll(s, {<<p, p + 1>> : p \in P}, planned) IN
         /\ Laid(t)
         /\ \A x \in Nat : Has(t, x) <=> Has(s, x) \/ x \in P
<1> DEFINE R == {<<p, p + 1>> : p \in P}
<1>1. \A p \in P : p \in Nat /\ p < Bound
  BY BoundAssumption DEF Row
<1>2. /\ \A r \in R : r[1] \in P /\ r = <<r[1], r[1] + 1>> /\ r[2] = r[1] + 1
      /\ \A p \in P : \E r \in R : r[1] = p
  <2>1. ASSUME NEW r \in R
        PROVE  r[1] \in P /\ r = <<r[1], r[1] + 1>> /\ r[2] = r[1] + 1
    <3>1. PICK p \in P : r = <<p, p + 1>>
      OBVIOUS
    <3>2. r[1] = p /\ r[2] = p + 1
      BY <3>1
    <3> HIDE DEF R
    <3> QED BY <3>1, <3>2
  <2>2. ASSUME NEW p \in P
        PROVE  \E r \in R : r[1] = p
    <3> DEFINE q == <<p, p + 1>>
    <3>1. q \in R /\ q[1] = p
      OBVIOUS
    <3> QED BY <3>1
  <2> HIDE DEF R
  <2> QED BY <2>1, <2>2
<1> HIDE DEF R
<1>3. Apart(R)
  <2>1. \A r \in R : r \in Nat \X Nat /\ r[1] \in Nat /\ r[2] \in Nat /\ r[1] < r[2] /\ r[1] < Bound
    <3> TAKE r \in R
    <3>1. r[1] \in Nat /\ r[1] + 1 \in Nat /\ r[1] < r[1] + 1 /\ r[1] < Bound
      BY <1>1, <1>2
    <3>2. <<r[1], r[1] + 1>> \in Nat \X Nat
      BY <3>1
    <3> QED BY <1>2, <3>1, <3>2
  <2>2. \A r, q \in R : r[1] < q[1] => r[2] <= q[1]
    BY <1>1, <1>2
  <2>3. \A r, q \in R : r[1] = q[1] => r = q
    BY <1>2
  <2> QED BY <2>1, <2>2, <2>3 DEF Apart
<1>4. \A x \in Nat : (\E r \in R : In(r, x)) <=> x \in P
  <2> TAKE x \in Nat
  <2>1. \A r \in R : In(r, x) <=> x = r[1]
    BY <1>1, <1>2 DEF In
  <2> QED BY <1>2, <2>1
<1>5. \A x \in Nat : \A r \in R : Has(s, x) => x < r[1]
  BY <1>2
<1>6. /\ Laid(PushAll(s, R, planned))
      /\ \A x \in Nat : Has(PushAll(s, R, planned), x) <=> Has(s, x) \/ \E r \in R : In(r, x)
  BY <1>3, <1>5, PushAllAdds
<1> QED BY <1>4, <1>6 DEF R

\* The rows that add_shifted_by passed when it comes to row k of values.
Gone(O, I, V, k) == {x \in O : \E j \in V : j \notin I /\ j < k /\ x < Back(O, I, j)}

\* The values pushed before row k of values, each where it went.
Moved(O, I, V, k, x) == \E j \in V : j \notin I /\ j < k /\ x = Back(O, I, j)

\* What was passed or pushed before row k comes before all that is still to come.
LEMMA GoneFirst ==
  ASSUME NEW O \in SUBSET Nat, IsFiniteSet(O), NEW I \in SUBSET Nat, NEW V \in SUBSET Nat, NEW k \in Nat
  PROVE  /\ \A x \in O \ Gone(O, I, V, k) : /\ \A y \in Gone(O, I, V, k) : y < x
                                            /\ \A y \in Nat : Moved(O, I, V, k, y) => y < x
         /\ \A i \in Nat \ I : k <= i => /\ \A y \in Gone(O, I, V, k) : y < Back(O, I, i)
                                         /\ \A y \in Nat : Moved(O, I, V, k, y) => y < Back(O, I, i)
<1>1. ASSUME NEW x \in O \ Gone(O, I, V, k), NEW j \in V, j \notin I, j < k
      PROVE  Back(O, I, j) \in Nat /\ Back(O, I, j) < x
  <2>1. Back(O, I, j) \in Nat \ O
    BY <1>1, BackOrders
  <2>2. ~(x < Back(O, I, j))
    BY <1>1 DEF Gone
  <2> QED BY <2>1, <2>2
<1>2. ASSUME NEW i \in Nat \ I, k <= i, NEW j \in V, j \notin I, j < k
      PROVE  /\ Back(O, I, j) \in Nat /\ Back(O, I, i) \in Nat
             /\ Back(O, I, j) < Back(O, I, i)
  <2>1. j \in Nat \ I /\ j < i
    BY <1>2
  <2> QED BY <2>1, BackOrders
<1>3. \A y \in Gone(O, I, V, k) : y \in Nat /\ \E j \in V : j \notin I /\ j < k /\ y < Back(O, I, j)
  BY DEF Gone
<1>4. ASSUME NEW x \in O \ Gone(O, I, V, k), NEW y \in Gone(O, I, V, k)
      PROVE  y < x
  <2>1. PICK j \in V : j \notin I /\ j < k /\ y < Back(O, I, j)
    BY <1>3
  <2>2. Back(O, I, j) \in Nat /\ Back(O, I, j) < x
    BY <1>1, <2>1
  <2> QED BY <1>3, <2>1, <2>2
<1>5. ASSUME NEW i \in Nat \ I, k <= i, NEW y \in Gone(O, I, V, k)
      PROVE  y < Back(O, I, i)
  <2>1. PICK j \in V : j \notin I /\ j < k /\ y < Back(O, I, j)
    BY <1>3
  <2>2. Back(O, I, j) \in Nat /\ Back(O, I, i) \in Nat /\ Back(O, I, j) < Back(O, I, i)
    BY <1>2, <1>5, <2>1
  <2> QED BY <1>3, <2>1, <2>2
<1>6. \A y : Moved(O, I, V, k, y) => \E j \in V : j \notin I /\ j < k /\ y = Back(O, I, j)
  BY DEF Moved
<1>7. ASSUME NEW x \in O \ Gone(O, I, V, k), NEW y \in Nat, Moved(O, I, V, k, y)
      PROVE  y < x
  BY <1>1, <1>6, <1>7
<1>8. ASSUME NEW i \in Nat \ I, k <= i, NEW y \in Nat, Moved(O, I, V, k, y)
      PROVE  y < Back(O, I, i)
  BY <1>2, <1>6, <1>8
<1> QED BY <1>4, <1>5, <1>7, <1>8

\* One row of values more.
LEMMA GoneNext ==
  ASSUME NEW O \in SUBSET Nat, IsFiniteSet(O), NEW I \in SUBSET Nat, NEW V \in SUBSET Nat, NEW i \in Nat
  PROVE  /\ ~(i \in V /\ i \notin I) => /\ Gone(O, I, V, i + 1) = Gone(O, I, V, i)
                                        /\ \A x \in Nat : Moved(O, I, V, i + 1, x) <=> Moved(O, I, V, i, x)
         /\ i \in V /\ i \notin I => /\ Gone(O, I, V, i + 1) = {x \in O : x < Back(O, I, i)}
                                     /\ \A x \in Nat : Moved(O, I, V, i + 1, x) <=>
                                          Moved(O, I, V, i, x) \/ x = Back(O, I, i)
<1>1. \A j \in V : j < i + 1 <=> j < i \/ j = i
  OBVIOUS
<1>2. \A x : Moved(O, I, V, i + 1, x) <=>
               Moved(O, I, V, i, x) \/ (i \in V /\ i \notin I /\ x = Back(O, I, i))
  BY <1>1 DEF Moved
<1>3. \A x \in O : x \in Gone(O, I, V, i + 1) <=>
               x \in Gone(O, I, V, i) \/ (i \in V /\ i \notin I /\ x < Back(O, I, i))
  BY <1>1 DEF Gone
<1>4. Gone(O, I, V, i + 1) \subseteq O /\ Gone(O, I, V, i) \subseteq O
  BY DEF Gone
<1>5. i \notin I => \A y \in Gone(O, I, V, i) : y < Back(O, I, i)
  BY GoneFirst
<1> QED BY <1>2, <1>3, <1>4, <1>5

\* Every row is in the range of a position.
LEMMA RowAtSome ==
  ASSUME NEW s, Laid(s), NEW x, Has(s, x)
  PROVE  \E pos \in Positions(s) : In(At(s, pos), x)
<1>1. PICK c \in 1 .. Len(s) : Holds(s[c].data, x)
  BY DEF Has
<1>2. PICK o \in 1 .. Len(s[c].data) : In(s[c].data[o], x)
  BY <1>1 DEF Holds
<1> DEFINE pos == <<c, o>>
<1>3. pos \in Positions(s)
  BY PositionsOf
<1>4. At(s, pos) = s[c].data[o]
  BY DEF At
<1> HIDE DEF pos
<1> QED BY <1>2, <1>3, <1>4

\* The ranges of two positions.
LEMMA RangesOrdered ==
  ASSUME NEW s, Laid(s), NEW p \in Positions(s), NEW q \in Positions(s)
  PROVE  /\ At(s, p)[1] < At(s, q)[1] => At(s, p)[2] < At(s, q)[1]
         /\ At(s, p)[1] = At(s, q)[1] => p = q
<1>1. /\ p = <<p[1], p[2]>> /\ p[1] \in Nat /\ p[2] \in Nat
      /\ q = <<q[1], q[2]>> /\ q[1] \in Nat /\ q[2] \in Nat
  BY PositionsOf
<1> DEFINE First(a, b) == a[1] < b[1] \/ (a[1] = b[1] /\ a[2] < b[2])
<1>2. p = q \/ First(p, q) \/ First(q, p)
  <2>1. p[1] < q[1] \/ q[1] < p[1] \/ p[1] = q[1]
    BY <1>1
  <2>2. p[2] < q[2] \/ q[2] < p[2] \/ p[2] = q[2]
    BY <1>1
  <2>3. p[1] = q[1] /\ p[2] = q[2] => p = q
    BY <1>1, Zenon
  <2> QED BY <2>1, <2>2, <2>3
<1>3. First(p, q) => At(s, p)[2] < At(s, q)[1]
  BY ApartAt
<1>4. First(q, p) => At(s, q)[2] < At(s, p)[1]
  BY ApartAt
<1>5. /\ At(s, p)[1] \in Nat /\ At(s, p)[2] \in Nat /\ At(s, p)[1] < At(s, p)[2]
      /\ At(s, q)[1] \in Nat /\ At(s, q)[2] \in Nat /\ At(s, q)[1] < At(s, q)[2]
  BY RowsAt
<1> HIDE DEF First
<1>6. At(s, p)[1] < At(s, q)[1] => At(s, p)[2] < At(s, q)[1]
  <2>1. p = q => ~(At(s, p)[1] < At(s, q)[1])
    BY <1>5
  <2> QED BY <1>2, <1>3, <1>4, <1>5, <2>1
<1>7. At(s, p)[1] = At(s, q)[1] => p = q
  BY <1>2, <1>3, <1>4, <1>5
<1> QED BY <1>6, <1>7

\* What add_shifted_by makes.
THEOREM WalkShiftedIs ==
  ASSUME NEW old, Laid(old), Indexes(old) \in SUBSET Row, NEW I \in SUBSET Row, NEW V \in SUBSET Row
  PROVE  /\ Laid(WalkShifted(old, I, V))
         /\ \A x \in Nat : Has(WalkShifted(old, I, V), x) <=>
               Has(old, x) \/ \E j \in V : j \notin I /\ x = Back(Indexes(old), I, j)
<1> DEFINE n == Bound
           O == Indexes(old)
           planned == Planned(old)
           u == WalkShifted(old, I, V)
           G(k) == Gone(O, I, V, k)
           M(k, x) == Moved(O, I, V, k, x)
           Good(w, k) == /\ Laid(w.built) /\ w.left = O \ G(k) /\ w.oldShift = Cardinality(G(k))
                         /\ w.newShift = Below(I, k)
                         /\ \A x \in Nat : Has(w.built, x) <=> x \in G(k) \/ M(k, x)
           Singles(S) == {<<x, x + 1>> : x \in S}
           Passed(w, i) == {x \in w.left : x - Below(w.left, x) <= i - w.newShift + w.oldShift}
           Put(w, i) ==
             [built |-> PushRow(PushAll(w.built, Singles(Passed(w, i)), planned),
                                i - w.newShift + (w.oldShift + Cardinality(Passed(w, i))), planned),
              left |-> w.left \ Passed(w, i), oldShift |-> w.oldShift + Cardinality(Passed(w, i)),
              newShift |-> w.newShift]
           Step(w, i) ==
             IF i \in I
             THEN [built |-> w.built, left |-> w.left, oldShift |-> w.oldShift, newShift |-> w.newShift + 1]
             ELSE IF i \in V THEN Put(w, i) ELSE w
           W == [built : Seq(ChunkSet), left : SUBSET Nat, oldShift : Nat, newShift : Nat]
           start == [built |-> <<>>, left |-> O, oldShift |-> 0, newShift |-> 0]
           T == [k \in 0 .. n |-> {w \in W : Good(w, k)}]
           g == [k \in 1 .. n |-> [t \in T[k - 1] |-> Step(t, k - 1)]]
           Is(f) == f = [k \in 0 .. n |-> IF k = 0 THEN start ELSE Step(f[k - 1], k - 1)]
           done == CHOOSE f : Is(f)
           ranges == {At(old, pos) : pos \in Positions(old)}
<1>0. n \in Nat /\ \A k \in 1 .. n : k \in Nat /\ k - 1 \in Nat /\ k - 1 \in 0 .. n /\ k \in 0 .. n /\ k # 0
  BY BoundAssumption
<1>a. /\ O \in SUBSET Nat /\ IsFiniteSet(O) /\ O \in SUBSET Row /\ I \in SUBSET Nat /\ V \in SUBSET Nat
      /\ \A x \in Nat : Has(old, x) <=> x \in O
  <2>1. Row \in SUBSET Nat /\ IsFiniteSet(Row)
    BY BoundAssumption, FS_Interval DEF Row
  <2>2. \A x \in Nat : Has(old, x) <=> x \in O
    BY PositionsOf
  <2> HIDE DEF O
  <2> QED BY <2>1, <2>2, FS_Subset DEF O
<1>b. ASSUME NEW k
      PROVE  G(k) \in SUBSET O /\ G(k) \in SUBSET Nat /\ IsFiniteSet(G(k)) /\ Cardinality(G(k)) \in Nat
  <2>1. G(k) \in SUBSET O
    BY DEF Gone
  <2> HIDE DEF G, O
  <2> QED BY <1>a, <2>1, FS_Subset, FS_CardinalityType
<1> HIDE DEF O
<1>1. start \in T[0]
  <2>1. /\ start.built = <<>> /\ start.left = O /\ start.oldShift = 0 /\ start.newShift = 0
        /\ start \in W /\ 0 \in 0 .. n
    BY <1>0, <1>a
  <2>2. Laid(<<>>) /\ \A x : ~Has(<<>>, x)
    BY DEF Laid, Has
  <2>3. G(0) = {} /\ \A x \in Nat : ~M(0, x)
    <3>1. \A j \in V : ~(j < 0)
      BY <1>a
    <3> QED BY <3>1 DEF Gone, Moved
  <2>4. Cardinality({}) = 0 /\ Below(I, 0) = 0
    <3>1. Below(I, 0) = 0
      BY <1>a, BelowStep
    <3> QED BY <3>1, FS_EmptySet
  <2> HIDE DEF G, M, start, W
  <2>5. Good(start, 0)
    BY <2>1, <2>2, <2>3, <2>4
  <2> HIDE DEF Good
  <2> QED BY <2>1, <2>5
<1>2. ASSUME NEW k \in 1 .. n, NEW t \in T[k - 1]
      PROVE  Step(t, k - 1) \in T[k]
  <2>1. Good(t, k - 1) /\ t \in W
    <3> HIDE DEF Good, W, n
    <3> QED BY <1>0
  <2> DEFINE i == k - 1
             v == Step(t, i)
  <2>2. i \in Nat /\ k \in Nat /\ k = i + 1 /\ i <= i
    BY <1>0
  <2>3. Good(t, i)
    BY <2>1
  <2> HIDE DEF i
  <2>4. /\ Laid(t.built) /\ t.left = O \ G(i) /\ t.oldShift = Cardinality(G(i))
        /\ t.newShift = Below(I, i)
        /\ \A x \in Nat : Has(t.built, x) <=> x \in G(i) \/ M(i, x)
    BY <2>3
  <2>5. /\ Below(I, k) = (IF i \in I THEN t.newShift + 1 ELSE t.newShift)
        /\ i - t.newShift = Unshift(I, i)
        /\ Below(I, k) \in Nat /\ t.newShift \in Nat
    <3> HIDE DEF Good, Step, W, T, start, planned, v
    <3>2. /\ Below(I, 0) = 0
          /\ Below(I, i + 1) = IF i \in I THEN Below(I, i) + 1 ELSE Below(I, i)
          /\ i - Below(I, i) = Unshift(I, i)
      BY <1>a, <2>2, BelowStep
    <3>3. Below(I, i) \in Nat
      BY <1>a, <2>2, BelowType
    <3>4. Below(I, k) \in Nat
      BY <1>a, <2>2, BelowType
    <3> QED BY <2>2, <2>4, <3>2, <3>3, <3>4
  <2>6. /\ ~(i \in V /\ i \notin I) => G(k) = G(i) /\ \A x \in Nat : M(k, x) <=> M(i, x)
        /\ i \in V /\ i \notin I => /\ G(k) = {x \in O : x < Back(O, I, i)}
                                    /\ \A x \in Nat : M(k, x) <=> M(i, x) \/ x = Back(O, I, i)
    <3>1. /\ ~(i \in V /\ i \notin I) => /\ Gone(O, I, V, i + 1) = Gone(O, I, V, i)
                                         /\ \A x \in Nat : Moved(O, I, V, i + 1, x) <=> Moved(O, I, V, i, x)
          /\ i \in V /\ i \notin I => /\ Gone(O, I, V, i + 1) = {x \in O : x < Back(O, I, i)}
                                      /\ \A x \in Nat : Moved(O, I, V, i + 1, x) <=>
                                           Moved(O, I, V, i, x) \/ x = Back(O, I, i)
      BY <1>a, <2>2, GoneNext
    <3> QED BY <2>2, <3>1
  <2>7. /\ \A x \in O \ G(i) : \A y \in G(i) : y < x
        /\ \A x \in O \ G(i) : \A y \in Nat : M(i, y) => y < x
        /\ i \notin I => /\ \A y \in G(i) : y < Back(O, I, i)
                         /\ \A y \in Nat : M(i, y) => y < Back(O, I, i)
    BY <1>a, <2>2, GoneFirst
  <2> HIDE DEF M
  <2>8. CASE i \in I
    <3>1. v = [built |-> t.built, left |-> t.left, oldShift |-> t.oldShift, newShift |-> t.newShift + 1]
      BY <2>8
    <3> HIDE DEF v, G
    <3>2. v.built = t.built /\ v.left = t.left /\ v.oldShift = t.oldShift /\ v.newShift = t.newShift + 1
      BY <3>1
    <3>3. Good(v, k)
      BY <2>4, <2>5, <2>6, <2>8, <3>2
    <3>4. v \in W /\ k \in 0 .. n
      BY <1>0, <2>1, <2>5, <3>1
    <3> HIDE DEF Good, W, n
    <3> QED BY <3>3, <3>4 DEF v, i
  <2>9. CASE i \notin I /\ i \notin V
    <3>1. v = t
      BY <2>9
    <3> HIDE DEF v, G
    <3>3. Good(v, k)
      BY <2>4, <2>5, <2>6, <2>9, <3>1
    <3>4. v \in W /\ k \in 0 .. n
      BY <1>0, <2>1, <3>1
    <3> HIDE DEF Good, W, n
    <3> QED BY <3>3, <3>4 DEF v, i
  <2>10. CASE i \notin I /\ i \in V
    <3> DEFINE z == Unshift(I, i)
               y == Shift(O, z)
               H == G(i)
               P == Passed(t, i)
               b1 == PushAll(t.built, Singles(P), planned)
    <3>1. z \in Nat
      BY <1>a, <2>2, UnshiftType
    <3>2. Back(O, I, i) = y
      BY DEF Back
    <3>3. H \in SUBSET O /\ Cardinality(H) \in Nat
      BY <1>b
    <3>4. P = {x \in O \ H : x - Below(O \ H, x) <= z + Cardinality(H)}
      <4> HIDE DEF G, z
      <4>1. i - t.newShift + t.oldShift = z + Cardinality(H)
        BY <2>4, <2>5 DEF z
      <4> QED BY <2>4, <4>1
    <3>5. \A x \in O \ H : \A q \in H : q < x
      BY <2>7
    <3>6. \A q \in H : q < Shift(O, z)
      BY <2>7, <2>10, <3>2
    <3>v. /\ v.built = PushRow(b1, i - t.newShift + (t.oldShift + Cardinality(P)), planned)
          /\ v.left = t.left \ P /\ v.oldShift = t.oldShift + Cardinality(P) /\ v.newShift = t.newShift
          /\ v = [built |-> v.built, left |-> v.left, oldShift |-> v.oldShift, newShift |-> v.newShift]
      <4>1. v = Put(t, i)
        BY <2>10
      <4> HIDE DEF Passed, Singles, v
      <4> QED BY <4>1
    <3> HIDE DEF z, y, H, P, Passed, v
    <3>7. /\ \A x \in P : x < y
          /\ H \cup P = {x \in O : x < y}
          /\ Cardinality(H) \in Nat /\ Cardinality(P) \in Nat
          /\ Cardinality(H \cup P) = Cardinality(H) + Cardinality(P)
          /\ y = z + (Cardinality(H) + Cardinality(P))
      <4> DEFINE Q == Passing(O, H, z)
      <4>1. /\ \A x \in Passing(O, H, z) : x < Shift(O, z)
            /\ H \cup Passing(O, H, z) = {x \in O : x < Shift(O, z)}
            /\ Cardinality(H) \in Nat /\ Cardinality(Passing(O, H, z)) \in Nat
            /\ Cardinality(H \cup Passing(O, H, z)) = Cardinality(H) + Cardinality(Passing(O, H, z))
            /\ Shift(O, z) = z + (Cardinality(H) + Cardinality(Passing(O, H, z)))
        <5>1. H \in SUBSET O /\ O \in SUBSET Nat /\ IsFiniteSet(O) /\ z \in Nat
          BY <1>a, <3>1, <3>3
        <5> QED BY <3>5, <3>6, <5>1, PassedRows
      <4>2. P = Q
        BY <3>4 DEF Passing
      <4> HIDE DEF Q
      <4> QED BY <4>1, <4>2 DEF y, Q
    <3>8. i - t.newShift + (t.oldShift + Cardinality(P)) = y
      BY <2>4, <2>5, <3>7 DEF z, H
    <3>9. P \in SUBSET O /\ P \in SUBSET Row /\ \A p \in P : p \in O \ H
      BY <1>a, <3>4
    <3>10. \A x \in Nat : \A p \in P : Has(t.built, x) => x < p
      BY <2>4, <2>7, <3>5, <3>9 DEF H
    <3>11. /\ Laid(b1)
           /\ \A x \in Nat : Has(b1, x) <=> Has(t.built, x) \/ x \in P
      BY <2>4, <3>9, <3>10, PushSingles
    <3> HIDE DEF b1
    <3>12. y \in Nat /\ \A x \in Nat : Has(b1, x) => x < y
      <4>1. y \in Nat
        BY <3>1, <3>7
      <4>2. \A x \in Nat : M(i, x) => x < y
        BY <2>7, <2>10, <3>2
      <4>3. \A x \in H : x < y
        BY <3>6 DEF y
      <4> QED BY <2>4, <3>7, <3>11, <4>1, <4>2, <4>3 DEF H
    <3>13. /\ Laid(PushRow(b1, y, planned))
           /\ \A x \in Nat : Has(PushRow(b1, y, planned), x) <=> Has(b1, x) \/ x = y
      BY <3>11, <3>12, PushRowAdds
    <3>14. v.built = PushRow(b1, y, planned)
      BY <3>v, <3>8
    <3>15. G(k) = H \cup P
      BY <2>6, <2>10, <3>2, <3>7
    <3>16. \A x \in Nat : M(k, x) <=> M(i, x) \/ x = y
      BY <2>6, <2>10, <3>2
    <3>17. G(i) = H
      BY DEF H
    <3> HIDE DEF G
    <3>18. /\ Laid(v.built)
           /\ \A x \in Nat : Has(v.built, x) <=> x \in G(k) \/ M(k, x)
      BY <2>4, <3>11, <3>13, <3>14, <3>15, <3>16, <3>17
    <3>19. v.left = O \ G(k)
      BY <2>4, <3>v, <3>15, <3>17
    <3>20. v.oldShift = Cardinality(G(k)) /\ v.newShift = Below(I, k)
      BY <2>4, <2>5, <2>10, <3>v, <3>7, <3>15, <3>17
    <3>21. Good(v, k)
      BY <3>18, <3>19, <3>20
    <3>22. v \in W /\ k \in 0 .. n
      <4>1. v.built \in Seq(ChunkSet)
        BY <3>18, LaidType
      <4>2. v.left \in SUBSET Nat
        BY <1>a, <3>19
      <4>3. v.oldShift \in Nat /\ v.newShift \in Nat
        BY <1>b, <2>5, <3>v, <3>20
      <4> QED BY <4>1, <4>2, <4>3, <3>v, <1>0
    <3> HIDE DEF Good, W, n
    <3> QED BY <3>21, <3>22 DEF v, i
  <2> QED BY <2>8, <2>9, <2>10
<1> HIDE DEF T, Step, n, start, planned, ranges
<1>3. \A k \in 1 .. n : \A t \in T[k - 1] : g[k][t] \in T[k]
  BY <1>2
<1> HIDE DEF g
<1>4. PICK f : Runs(f, n, start, g) /\ \A k \in 0 .. n : f[k] \in T[k]
  BY <1>0, <1>1, <1>3, Iterated
<1>5. \A k \in 0 .. n : k # 0 => g[k][f[k - 1]] = Step(f[k - 1], k - 1)
  <2> TAKE k \in 0 .. n
  <2> HAVE k # 0
  <2>1. k \in 1 .. n
    BY <1>0
  <2>2. f[k - 1] \in T[k - 1]
    BY <1>0, <1>4, <2>1
  <2> QED BY <2>1, <2>2 DEF g
<1>6. Is(f)
  BY <1>4, <1>5 DEF Runs
<1>7. Is(done)
  BY <1>6
<1>8. u = PushAll(done[n].built, {r \in ranges : r[1] \in done[n].left}, planned)
  BY DEF WalkShifted, Each, n, Step, start, planned, O, ranges, Put, Passed, Singles
<1> HIDE DEF done, u
<1>9. done[0] = start /\ \A k \in 1 .. n : done[k] = Step(done[k - 1], k - 1)
  <2>1. \A k \in 0 .. n : done[k] = IF k = 0 THEN start ELSE Step(done[k - 1], k - 1)
    BY <1>7
  <2>2. 0 \in 0 .. n
    BY <1>0
  <2> HIDE DEF Is
  <2> QED BY <2>1, <2>2, <1>0
<1> HIDE DEF Is
<1>10. \A k \in 0 .. n : done[k] \in T[k]
  BY <1>0, <1>1, <1>2, <1>9, Staged
<1> DEFINE w == done[n]
           R == {r \in ranges : r[1] \in w.left}
<1>12. Good(w, n)
  <2>1. n \in 0 .. n /\ done[n] \in T[n]
    BY <1>0, <1>10
  <2> HIDE DEF Good
  <2> QED BY <2>1 DEF T
<1>13. /\ \A x \in O \ G(n) : \A y \in G(n) : y < x
       /\ \A x \in O \ G(n) : \A y \in Nat : M(n, y) => y < x
  BY <1>0, <1>a, GoneFirst
<1>14. /\ Laid(w.built) /\ w.left = O \ G(n)
       /\ \A x \in Nat : Has(w.built, x) <=> x \in G(n) \/ M(n, x)
  BY <1>12
<1>15. \A r \in R : /\ r \in Nat \X Nat /\ r[1] \in Nat /\ r[2] \in Nat /\ r[1] < r[2]
                    /\ r[1] \in O \ G(n)
                    /\ \A x \in Nat : In(r, x) => x \in O
  <2> TAKE r \in R
  <2>1. r \in ranges /\ r[1] \in w.left
    OBVIOUS
  <2>2. PICK pos \in Positions(old) : r = At(old, pos)
    BY <2>1 DEF ranges
  <2>3. /\ r \in Nat \X Nat /\ r[1] \in Nat /\ r[2] \in Nat /\ r[1] < r[2]
        /\ \A x \in Nat : In(r, x) => Has(old, x)
    BY <2>2, RowsAt
  <2> QED BY <1>a, <1>14, <2>1, <2>3
<1>16. Apart(R)
  <2>1. \A r \in R : r[1] < Bound
    <3>1. \A x \in Row : x < Bound
      BY BoundAssumption DEF Row
    <3> HIDE DEF R
    <3> QED BY <1>a, <1>15, <3>1
  <2>2. \A r, q \in ranges : /\ r[1] < q[1] => r[2] <= q[1]
                             /\ r[1] = q[1] => r = q
    <3> SUFFICES ASSUME NEW p \in Positions(old), NEW q \in Positions(old)
                 PROVE  /\ At(old, p)[1] < At(old, q)[1] => At(old, p)[2] <= At(old, q)[1]
                        /\ At(old, p)[1] = At(old, q)[1] => At(old, p) = At(old, q)
      BY DEF ranges
    <3>1. /\ At(old, p)[1] < At(old, q)[1] => At(old, p)[2] < At(old, q)[1]
          /\ At(old, p)[1] = At(old, q)[1] => p = q
      BY RangesOrdered
    <3>2. At(old, p)[2] \in Nat /\ At(old, q)[1] \in Nat
      BY RowsAt
    <3> QED BY <3>1, <3>2
  <2> QED BY <1>15, <2>1, <2>2 DEF Apart
<1>17. \A x \in Nat : \A r \in R : Has(w.built, x) => x < r[1]
  BY <1>13, <1>14, <1>15
<1>18. /\ Laid(PushAll(w.built, R, planned))
       /\ \A x \in Nat : Has(PushAll(w.built, R, planned), x) <=> Has(w.built, x) \/ \E r \in R : In(r, x)
  <2> DEFINE b == w.built
  <2>1. Laid(b) /\ \A x \in Nat : \A r \in R : Has(b, x) => x < r[1]
    BY <1>14, <1>17
  <2> HIDE DEF b, R
  <2>2. /\ Laid(PushAll(b, R, planned))
        /\ \A x \in Nat : Has(PushAll(b, R, planned), x) <=> Has(b, x) \/ \E r \in R : In(r, x)
    BY <1>16, <2>1, PushAllAdds
  <2> QED BY <2>2 DEF b
<1>19. ASSUME NEW x \in O
       PROVE  x \in G(n) \/ \E r \in R : In(r, x)
  <2>0. x \in Nat /\ Has(old, x)
    BY <1>a
  <2>1. PICK pos \in Positions(old) : In(At(old, pos), x)
    BY <2>0, RowAtSome
  <2> DEFINE r == At(old, pos)
  <2>2. r \in ranges
    BY DEF ranges
  <2>3. r[1] \in Nat /\ r[2] \in Nat /\ r[1] <= x /\ \A y \in Nat : r[1] <= y /\ y <= x => y \in O
    BY <2>0, <2>1, <1>a, RowsAt DEF In
  <2>4. r[1] \in O
    BY <2>0, <2>3
  <2>5. CASE r[1] \in O \ G(n)
    <3>1. r \in R
      BY <1>14, <2>2, <2>5
    <3> QED BY <2>1, <3>1
  <2>6. CASE r[1] \in G(n)
    <3>1. PICK j \in V : j \notin I /\ j < n /\ r[1] < Back(O, I, j)
      BY <2>6 DEF Gone
    <3>2. Back(O, I, j) \in Nat \ O
      BY <1>a, <3>1, BackOrders
    <3>3. x < Back(O, I, j)
      BY <2>0, <2>3, <3>1, <3>2
    <3> QED BY <3>1, <3>3 DEF Gone
  <2> QED BY <2>4, <2>5, <2>6
<1>20. \A x \in Nat : M(n, x) <=> \E j \in V : j \notin I /\ x = Back(O, I, j)
  <2>1. \A j \in V : j < n
    BY <1>0 DEF Row, n
  <2> QED BY <2>1 DEF Moved
<1>21. u = PushAll(w.built, R, planned)
  BY <1>8
<1>22. \A x \in Nat : Has(u, x) <=> x \in G(n) \/ M(n, x) \/ \E r \in R : In(r, x)
  BY <1>14, <1>18, <1>21
<1>23. G(n) \subseteq O
  BY <1>b
<1>24. ASSUME NEW x \in Nat
       PROVE  Has(u, x) <=> x \in O \/ M(n, x)
  <2> HIDE DEF G, M, R
  <2> QED BY <1>15, <1>19, <1>22, <1>23
<1>25. \A x \in Nat : Has(u, x) <=> Has(old, x) \/ \E j \in V : j \notin I /\ x = Back(O, I, j)
  <2> HIDE DEF M
  <2> QED BY <1>a, <1>20, <1>24
<1> QED BY <1>18, <1>21, <1>25 DEF u, O
-----------------------------------------------------------------------------
(* The inductive invariant                                                 *)

\* The rows that were moved, and those that are moved there.
LEMMA ShiftedRows ==
  ASSUME NEW M \in SUBSET Nat, NEW S \in SUBSET Nat, IsFiniteSet(S)
  PROVE  /\ ShiftForInsertAt(M, S) \in SUBSET Nat
         /\ \A x \in Nat : x \in ShiftForInsertAt(M, S) <=> x \notin S /\ Unshift(S, x) \in M
         /\ InsertAt(M, S) = S \cup ShiftForInsertAt(M, S)
         /\ (\A x \in M : \A y \in S : x < y) => ShiftForInsertAt(M, S) = M
<1> DEFINE A == ShiftForInsertAt(M, S)
<1>1. A = {Shift(S, i) : i \in M} /\ InsertAt(M, S) = S \cup A
  BY DEF ShiftForInsertAt, InsertAt
<1> HIDE DEF A
<1>2. \A i \in M : Shift(S, i) \in Nat \ S /\ Unshift(S, Shift(S, i)) = i
  BY ShiftIs
<1>3. A \in SUBSET Nat
  BY <1>1, <1>2
<1>4. ASSUME NEW x \in Nat
      PROVE  x \in A <=> x \notin S /\ Unshift(S, x) \in M
  <2>1. x \in A => x \notin S /\ Unshift(S, x) \in M
    BY <1>1, <1>2
  <2>2. x \notin S => Shift(S, Unshift(S, x)) = x
    BY ShiftBack
  <2> QED BY <1>1, <2>1, <2>2
<1>5. ASSUME \A x \in M : \A y \in S : x < y
      PROVE  A = M
  <2>1. ASSUME NEW x \in M
        PROVE  Shift(S, x) = x
    <3>1. x \in Nat \ S
      BY <1>5
    <3>2. {j \in S : j < x} = {}
      <4>1. \A j \in S : ~(j < x)
        <5> TAKE j \in S
        <5>1. x < j /\ j \in Nat /\ x \in Nat
          BY <1>5
        <5> QED BY <5>1
      <4> QED BY <4>1
    <3>3. Below(S, x) = 0
      BY <3>2, FS_EmptySet DEF Below
    <3>4. Unshift(S, x) = x
      BY <3>1, <3>3 DEF Unshift
    <3> QED BY <3>1, <3>4, ShiftBack
  <2> QED BY <1>1, <2>1
<1> QED BY <1>1, <1>3, <1>4, <1>5 DEF A

\* Rows that a sequence of chunks has are those that lie in its ranges.
LEMMA HasIs ==
  ASSUME NEW s, Laid(s), NEW M \in SUBSET Nat
  PROVE  Indexes(s) = M <=> \A x \in Nat : Has(s, x) <=> x \in M
BY PositionsOf

\* The chunks are laid as they must be and hold the rows they stand for.
IInv == Laid(data) /\ Indexes(data) = rows /\ rows \in SUBSET Row

\* A set of rows is a finite set of numbers.
LEMMA Rows ==
  ASSUME NEW S \in SUBSET Row
  PROVE  S \in SUBSET Nat /\ IsFiniteSet(S)
<1>1. Row \in SUBSET Nat /\ IsFiniteSet(Row)
  BY BoundAssumption, FS_Interval DEF Row
<1> QED BY <1>1, FS_Subset

\* insert_at keeps it: the rows are those IndexSets!InsertAt names.
LEMMA InsertedInd ==
  ASSUME IInv, NEW S \in SUBSET Row, InsertRows(S)
  PROVE  IInv'
<1>1. /\ Laid(data) /\ rows \in SUBSET Nat /\ S \in SUBSET Nat /\ IsFiniteSet(S)
      /\ \A x \in Nat : Has(data, x) <=> x \in rows
  BY Rows, HasIs DEF IInv
<1> DEFINE A == ShiftForInsertAt(rows, S)
           s == WalkInserted(data, S, TRUE)
<1>2. /\ A \in SUBSET Nat
      /\ \A x \in Nat : x \in A <=> x \notin S /\ Unshift(S, x) \in rows
      /\ InsertAt(rows, S) = S \cup A
      /\ (\A x \in rows : \A y \in S : x < y) => A = rows
  BY <1>1, ShiftedRows
<1>3. rows' = S \cup A /\ rows' \in SUBSET Row /\ rows' \in SUBSET Nat
  BY <1>2, Rows DEF InsertRows
<1>4. CASE S = {}
  <2>1. data' = data /\ rows' = rows
    BY <1>2, <1>3, <1>4 DEF InsertRows
  <2> QED BY <2>1 DEF IInv
<1>5. CASE S # {} /\ data = <<>>
  <2>1. data' = AddAll(data, S)
    BY <1>5 DEF InsertRows
  <2>2. Laid(AddAll(data, S)) /\ \A x \in Nat : Has(AddAll(data, S), x) <=> Has(data, x) \/ x \in S
    BY <1>1, EachAdded
  <2>3. rows = {}
    <3>1. \A x : ~Has(<<>>, x)
      BY DEF Has
    <3> QED BY <1>1, <1>5, <3>1
  <2>4. rows' = S
    BY <1>2, <1>3, <2>3
  <2> HIDE DEF A
  <2>5. \A x \in Nat : Has(AddAll(data, S), x) <=> x \in rows'
    BY <1>1, <2>2, <2>3, <2>4
  <2>6. Indexes(AddAll(data, S)) = rows'
    BY <1>3, <2>2, <2>5, HasIs
  <2> QED BY <1>3, <2>1, <2>2, <2>6 DEF IInv
<1>6. CASE S # {} /\ data # <<>>
  <2>1. data' = s
    BY <1>6 DEF InsertRows
  <2>2. /\ Laid(s)
        /\ \A x \in Nat : Has(s, x) <=> x < Bound /\ IF x \in S THEN TRUE ELSE Has(data, Unshift(S, x))
    BY <1>1, WalkInsertedIs
  <2>3. \A x \in Nat : x \in Row <=> x < Bound
    BY BoundAssumption DEF Row
  <2>4. \A x \in Nat : Unshift(S, x) \in Nat
    BY <1>1, UnshiftType
  <2> HIDE DEF s, A
  <2>5. \A x \in Nat : Has(s, x) <=> x \in rows'
    BY <1>1, <1>2, <1>3, <2>2, <2>3, <2>4
  <2>6. Indexes(s) = rows'
    BY <1>3, <2>2, <2>5, HasIs
  <2> QED BY <1>3, <2>1, <2>2, <2>6 DEF IInv
<1> QED BY <1>4, <1>5, <1>6

\* shift_for_insert_at keeps it, also where it returns early: then no row would move.
LEMMA ShiftedInd ==
  ASSUME IInv, NEW S \in SUBSET Row, ShiftRows(S)
  PROVE  IInv'
<1>1. /\ Laid(data) /\ rows \in SUBSET Nat /\ S \in SUBSET Nat /\ IsFiniteSet(S)
      /\ \A x \in Nat : Has(data, x) <=> x \in rows
  BY Rows, HasIs DEF IInv
<1> DEFINE A == ShiftForInsertAt(rows, S)
           s == WalkInserted(data, S, FALSE)
           Early == data = <<>> \/ S = {} \/ Min(S) >= data[Len(data)].end
<1>2. /\ A \in SUBSET Nat
      /\ \A x \in Nat : x \in A <=> x \notin S /\ Unshift(S, x) \in rows
      /\ InsertAt(rows, S) = S \cup A
      /\ (\A x \in rows : \A y \in S : x < y) => A = rows
  BY <1>1, ShiftedRows
<1>3. rows' = A /\ rows' \in SUBSET Row /\ rows' \in SUBSET Nat
  BY <1>2, Rows DEF ShiftRows
<1>4. CASE Early
  <2>1. \A x \in rows : \A y \in S : x < y
    <3>1. data = <<>> => rows = {}
      <4>1. \A x : ~Has(<<>>, x)
        BY DEF Has
      <4> QED BY <1>1, <4>1
    <3>2. ASSUME data # <<>>, S # {}, NEW x \in rows, NEW y \in S
          PROVE  x < y
      <4> DEFINE e == data[Len(data)].end
      <4>1. e \in Nat /\ \A i \in Nat : Has(data, i) => i < e
        BY <1>1, <3>2, LastEnd
      <4>2. Min(S) \in S /\ \A z \in S : Min(S) <= z
        BY <1>1, <3>2, MinIsLeast
      <4>3. Min(S) >= e /\ Min(S) \in Nat /\ Min(S) <= y /\ y \in Nat /\ x \in Nat
        BY <1>1, <1>4, <3>2, <4>2
      <4>4. x < e
        BY <1>1, <4>1
      <4> HIDE DEF e
      <4> QED BY <4>1, <4>3, <4>4
    <3> QED BY <3>1, <3>2
  <2>2. data' = data /\ rows' = rows
    <3>1. data' = data
      BY <1>4 DEF ShiftRows
    <3> QED BY <1>2, <1>3, <2>1, <3>1
  <2> QED BY <2>2 DEF IInv
<1>5. CASE ~Early
  <2>1. data' = s
    BY <1>5 DEF ShiftRows
  <2>2. /\ Laid(s)
        /\ \A x \in Nat : Has(s, x) <=> x < Bound /\ IF x \in S THEN FALSE ELSE Has(data, Unshift(S, x))
    BY <1>1, WalkInsertedIs
  <2>3. \A x \in Nat : x \in Row <=> x < Bound
    BY BoundAssumption DEF Row
  <2>4. \A x \in Nat : Unshift(S, x) \in Nat
    BY <1>1, UnshiftType
  <2> HIDE DEF s, A
  <2>5. \A x \in Nat : Has(s, x) <=> x \in rows'
    BY <1>1, <1>2, <1>3, <2>2, <2>3, <2>4
  <2>6. Indexes(s) = rows'
    BY <1>3, <2>2, <2>5, HasIs
  <2> QED BY <1>3, <2>1, <2>2, <2>6 DEF IInv
<1> QED BY <1>4, <1>5

\* erase_at keeps it, also where it returns early.
LEMMA ErasedInd ==
  ASSUME IInv, NEW S \in SUBSET Row, EraseRows(S)
  PROVE  IInv'
<1>1. /\ Laid(data) /\ rows \in SUBSET Row /\ rows \in SUBSET Nat /\ S \in SUBSET Nat /\ IsFiniteSet(S)
      /\ \A x \in Nat : Has(data, x) <=> x \in rows
  BY Rows, HasIs DEF IInv
<1> DEFINE s == WalkErased(data, S)
<1>2. rows' = {Unshift(S, i) : i \in rows \ S}
  BY DEF EraseRows, EraseAt
<1>3. rows' \in SUBSET Row /\ rows' \in SUBSET Nat
  <2>1. ASSUME NEW i \in rows
        PROVE  Unshift(S, i) \in Row
    <3>1. i \in Nat /\ i < Bound
      BY <1>1, BoundAssumption DEF Row
    <3>2. Unshift(S, i) \in Nat /\ Unshift(S, i) <= i
      BY <1>1, UnshiftType
    <3> QED BY <3>1, <3>2, BoundAssumption DEF Row
  <2>2. rows' \in SUBSET Row
    BY <1>2, <2>1
  <2> QED BY <2>2, Rows
<1>4. CASE data = <<>> \/ S = {}
  <2>1. data = <<>> => rows = {}
    <3>1. \A x : ~Has(<<>>, x)
      BY DEF Has
    <3> QED BY <1>1, <3>1
  <2>2. S = {} => \A i \in Nat : Unshift(S, i) = i
    <3>1. \A i : {j \in {} : j < i} = {}
      OBVIOUS
    <3>2. \A i : Below({}, i) = 0
      BY <3>1, FS_EmptySet DEF Below
    <3> QED BY <3>2 DEF Unshift
  <2>3. data' = data
    BY <1>4 DEF EraseRows
  <2>4. rows' = rows
    BY <1>1, <1>2, <1>4, <2>1, <2>2
  <2> QED BY <2>3, <2>4 DEF IInv
<1>5. CASE ~(data = <<>> \/ S = {})
  <2>1. data' = s
    BY <1>5 DEF EraseRows
  <2>2. /\ Laid(s)
        /\ \A x \in Nat : Has(s, x) <=>
             \E i \in Nat : i < Bound /\ Has(data, i) /\ i \notin S /\ x = Unshift(S, i)
    BY <1>1, WalkErasedIs
  <2>3. \A i \in rows : i \in Nat /\ i < Bound
    BY <1>1, BoundAssumption DEF Row
  <2> HIDE DEF s
  <2>5. \A x \in Nat : Has(s, x) <=> x \in rows'
    BY <1>1, <1>2, <2>2, <2>3
  <2>6. Indexes(s) = rows'
    BY <1>3, <2>2, <2>5, HasIs
  <2> QED BY <1>3, <2>1, <2>2, <2>6 DEF IInv
<1> QED BY <1>4, <1>5

\* add_shifted_by keeps it.
LEMMA AddedShiftedInd ==
  ASSUME IInv, NEW S \in SUBSET Row, NEW V \in SUBSET Row, AddShiftedRows(S, V)
  PROVE  IInv'
<1>1. /\ Laid(data) /\ Indexes(data) = rows /\ rows \in SUBSET Row /\ rows \in SUBSET Nat
      /\ \A x \in Nat : Has(data, x) <=> x \in rows
  BY Rows, HasIs DEF IInv
<1> DEFINE s == WalkShifted(data, S, V)
<1>2. rows' = rows \cup {Shift(rows, Unshift(S, i)) : i \in V \ S}
  BY DEF AddShiftedRows, AddShiftedBy
<1>3. rows' \in SUBSET Row /\ rows' \in SUBSET Nat
  BY Rows DEF AddShiftedRows
<1>4. CASE V = {}
  BY <1>2, <1>4 DEF AddShiftedRows, IInv
<1>5. CASE V # {}
  <2>1. data' = s
    BY <1>5 DEF AddShiftedRows
  <2>2. /\ Laid(s)
        /\ \A x \in Nat : Has(s, x) <=>
             Has(data, x) \/ \E j \in V : j \notin S /\ x = Back(Indexes(data), S, j)
    <3>1. Indexes(data) \in SUBSET Row /\ Laid(data)
      BY <1>1
    <3>2. /\ Laid(WalkShifted(data, S, V))
          /\ \A x \in Nat : Has(WalkShifted(data, S, V), x) <=>
               Has(data, x) \/ \E j \in V : j \notin S /\ x = Back(Indexes(data), S, j)
      BY <3>1, WalkShiftedIs
    <3> QED BY <3>2
  <2> HIDE DEF s
  <2>5. \A x \in Nat : Has(s, x) <=> x \in rows'
    BY <1>1, <1>2, <2>2 DEF Back
  <2>6. Indexes(s) = rows'
    BY <1>3, <2>2, <2>5, HasIs
  <2> QED BY <1>3, <2>1, <2>2, <2>6 DEF IInv
<1> QED BY <1>4, <1>5

\* add keeps it.
LEMMA AddedInd ==
  ASSUME IInv, NEW S \in SUBSET Row, AddRows(S)
  PROVE  IInv'
<1>1. Laid(data) /\ \A x \in Nat : Has(data, x) <=> x \in rows
  BY Rows, HasIs DEF IInv
<1> DEFINE s == AddAll(data, S)
<1>2. data' = s /\ rows' = rows \cup S /\ rows' \in SUBSET Row /\ rows' \in SUBSET Nat
  <2>1. data' = s /\ rows' = rows \cup S /\ rows' \in SUBSET Row
    BY DEF AddRows, IInv
  <2> QED BY <2>1, Rows
<1>3. Laid(s) /\ \A x \in Nat : Has(s, x) <=> Has(data, x) \/ x \in S
  BY <1>1, EachAdded
<1> HIDE DEF s
<1>4. \A x \in Nat : Has(s, x) <=> x \in rows'
  BY <1>1, <1>2, <1>3
<1>5. Indexes(s) = rows'
  BY <1>2, <1>3, <1>4, HasIs
<1> QED BY <1>2, <1>3, <1>5 DEF IInv

\* remove keeps it.
LEMMA RemovedInd ==
  ASSUME IInv, NEW S \in SUBSET Row, RemoveRows(S)
  PROVE  IInv'
<1>1. Laid(data) /\ \A x \in Nat : Has(data, x) <=> x \in rows
  BY Rows, HasIs DEF IInv
<1> DEFINE s == RemoveAll(data, S)
<1>2. data' = s /\ rows' = rows \ S /\ rows' \in SUBSET Row /\ rows' \in SUBSET Nat
  <2>1. data' = s /\ rows' = rows \ S /\ rows' \in SUBSET Row
    BY DEF RemoveRows, IInv
  <2> QED BY <2>1, Rows
<1>3. Laid(s) /\ \A x \in Nat : Has(s, x) <=> Has(data, x) /\ x \notin S
  BY <1>1, EachRemoved
<1> HIDE DEF s
<1>4. \A x \in Nat : Has(s, x) <=> x \in rows'
  BY <1>1, <1>2, <1>3
<1>5. Indexes(s) = rows'
  BY <1>2, <1>3, <1>4, HasIs
<1> QED BY <1>2, <1>3, <1>5 DEF IInv

\* However the operations follow on each other, the chunks are laid as they must be and
\* hold the rows IndexSets says: for every size of a chunk and every bound on the rows.
THEOREM Inductive == Spec => []IInv
<1>1. Init => IInv
  <2>1. Laid(<<>>) /\ \A x : ~Has(<<>>, x)
    BY DEF Laid, Has
  <2>2. Indexes(<<>>) = {}
    BY <2>1, HasIs
  <2> QED BY <2>1, <2>2 DEF Init, IInv
<1>2. IInv /\ [Next]_vars => IInv'
  <2> SUFFICES ASSUME IInv, [Next]_vars
               PROVE  IInv'
    OBVIOUS
  <2>1. CASE UNCHANGED vars
    BY <2>1 DEF vars, IInv
  <2>2. ASSUME NEW S \in SUBSET Row, AddRows(S)
        PROVE  IInv'
    BY <2>2, AddedInd
  <2>3. ASSUME NEW S \in SUBSET Row, RemoveRows(S)
        PROVE  IInv'
    BY <2>3, RemovedInd
  <2>4. ASSUME NEW S \in SUBSET Row, InsertRows(S)
        PROVE  IInv'
    BY <2>4, InsertedInd
  <2>5. ASSUME NEW S \in SUBSET Row, ShiftRows(S)
        PROVE  IInv'
    BY <2>5, ShiftedInd
  <2>6. ASSUME NEW S \in SUBSET Row, EraseRows(S)
        PROVE  IInv'
    BY <2>6, ErasedInd
  <2>7. ASSUME NEW S \in SUBSET Row, NEW V \in SUBSET Row, AddShiftedRows(S, V)
        PROVE  IInv'
    BY <2>7, AddedShiftedInd
  <2> QED BY <2>1, <2>2, <2>3, <2>4, <2>5, <2>6, <2>7 DEF Next
<1> QED BY <1>1, <1>2, PTL DEF Spec

\* What verify() asserts of the ranges and the chunks' bounds holds after every
\* operation, and the rows are those the operations are meant to leave.
THEOREM VerifiedAlways == Spec => []Verified
<1>1. IInv => Verified
  <2> SUFFICES ASSUME IInv
               PROVE  Verified
    OBVIOUS
  <2>1. Laid(data)
    BY DEF IInv
  <2>2. \A pos \in Positions(data) : At(data, pos)[1] < At(data, pos)[2]
    BY <2>1, RowsAt
  <2>3. \A p, q \in Positions(data) :
          p[1] < q[1] \/ (p[1] = q[1] /\ p[2] < q[2]) => At(data, p)[2] < At(data, q)[1]
    BY <2>1, ApartAt
  <2>4. \A c \in DOMAIN data :
          /\ Len(data[c].data) \in 1 .. MaxSize
          /\ data[c].begin = data[c].data[1][1]
          /\ data[c].end = data[c].data[Len(data[c].data)][2]
    BY <2>1, LaidType, FitsType
  <2> QED BY <2>2, <2>3, <2>4 DEF IInv, Verified
<1> QED BY <1>1, Inductive, PTL
-----------------------------------------------------------------------------
(* Counting                                                                *)

(* Counting *)

\* The lower of a bound and the end of the count.
Upto(x, j) == IF x <= j THEN x ELSE j

\* The rows below x.
Up(s, x) == Below({k \in Nat : Has(s, k)}, x)

\* Upto is what count computes with std::min.
LEMMA MinOfTwo ==
  ASSUME NEW a \in Int, NEW b \in Int
  PROVE  Min({a, b}) = Upto(a, b)
BY DEF Min, Upto

\* Between two rows lie as many as there are, none, or all there can be.
LEMMA BelowBetween ==
  ASSUME NEW M \in SUBSET Nat, NEW x \in Nat, NEW y \in Nat, x <= y
  PROVE  /\ Below(M, x) \in Nat /\ Below(M, y) \in Nat
         /\ Below(M, y) = Below(M, x) + Cardinality({k \in M : x <= k /\ k < y})
         /\ (\A k \in M : ~(x <= k /\ k < y)) => Below(M, y) = Below(M, x)
         /\ (\A k \in Nat : x <= k /\ k < y => k \in M) => Below(M, y) - Below(M, x) = y - x
<1> DEFINE A == {k \in M : k < x}
           B == {k \in M : k < y}
           C == {k \in M : x <= k /\ k < y}
<1>1. /\ IsFiniteSet(A) /\ IsFiniteSet(B)
      /\ Below(M, x) \in Nat /\ Below(M, y) \in Nat
  BY BelowType
<1>2. Below(M, x) = Cardinality(A) /\ Below(M, y) = Cardinality(B)
  BY DEF Below
<1>3. C = B \ A /\ B \cap A = A
  <2>1. \A k \in M : (k < x => k < y) /\ (x <= k <=> ~(k < x))
    OBVIOUS
  <2>2. C = B \ A
    BY <2>1
  <2>3. B \cap A = A
    BY <2>1
  <2> QED BY <2>2, <2>3
<1>4. Cardinality(C) = Cardinality(B) - Cardinality(A)
  <2> HIDE DEF A, B, C
  <2>1. Cardinality(B \ A) = Cardinality(B) - Cardinality(B \cap A)
    BY <1>1, FS_Difference
  <2> QED BY <1>3, <2>1
<1>5. Below(M, y) = Below(M, x) + Cardinality(C)
  <2> HIDE DEF A, B, C
  <2> QED BY <1>1, <1>2, <1>4
<1>6. ASSUME \A k \in M : ~(x <= k /\ k < y)
      PROVE  Below(M, y) = Below(M, x)
  <2>1. C = {}
    BY <1>6
  <2>2. Cardinality(C) = 0
    BY <2>1, FS_EmptySet
  <2> HIDE DEF C
  <2> QED BY <1>1, <1>5, <2>2
<1>7. ASSUME \A k \in Nat : x <= k /\ k < y => k \in M
      PROVE  Below(M, y) - Below(M, x) = y - x
  <2> DEFINE z == y - 1
  <2>1. z \in Int /\ z = y - 1
    OBVIOUS
  <2> HIDE DEF z
  <2>2. C = x .. z
    <3>1. \A k \in C : k \in x .. z
      BY <2>1
    <3>2. \A k \in x .. z : k \in Nat /\ x <= k /\ k < y
      BY <2>1
    <3> QED BY <1>7, <3>1, <3>2
  <2>3. Cardinality(C) = IF x > z THEN 0 ELSE z - x + 1
    <3>1. Cardinality(x .. z) = IF x > z THEN 0 ELSE z - x + 1
      <4>1. x \in Int /\ z \in Int
        BY <2>1
      <4> QED BY <4>1, FS_Interval
    <3> HIDE DEF C
    <3> QED BY <2>2, <3>1
  <2> HIDE DEF C
  <2>4. Cardinality(C) = y - x
    BY <2>1, <2>3
  <2> QED BY <1>1, <1>5, <2>4
<1> QED BY <1>1, <1>5, <1>6, <1>7

\* The same of the rows that chunks hold.
LEMMA UpBetween ==
  ASSUME NEW s, NEW x \in Nat, NEW y \in Nat, x <= y
  PROVE  /\ Up(s, x) \in Nat /\ Up(s, y) \in Nat
         /\ (\A k \in Nat : x <= k /\ k < y => ~Has(s, k)) => Up(s, y) = Up(s, x)
         /\ (\A k \in Nat : x <= k /\ k < y => Has(s, k)) => Up(s, y) - Up(s, x) = y - x
<1> DEFINE M == {k \in Nat : Has(s, k)}
<1>1. M \in SUBSET Nat /\ \A k \in Nat : k \in M <=> Has(s, k)
  OBVIOUS
<1>2. Up(s, x) = Below(M, x) /\ Up(s, y) = Below(M, y)
  BY DEF Up
<1> HIDE DEF M
<1>3. /\ Below(M, x) \in Nat /\ Below(M, y) \in Nat
      /\ Below(M, y) = Below(M, x) + Cardinality({k \in M : x <= k /\ k < y})
      /\ (\A k \in M : ~(x <= k /\ k < y)) => Below(M, y) = Below(M, x)
      /\ (\A k \in Nat : x <= k /\ k < y => k \in M) => Below(M, y) - Below(M, x) = y - x
  BY <1>1, BelowBetween
<1> QED BY <1>1, <1>2, <1>3

\* No row of those between x and y that are below j is a row, or each is.
LEMMA UpUpto ==
  ASSUME NEW s, NEW x \in Nat, NEW y \in Nat, x <= y, NEW j \in Nat
  PROVE  /\ Upto(x, j) \in Nat /\ Upto(y, j) \in Nat
         /\ Up(s, Upto(x, j)) \in Nat /\ Up(s, Upto(y, j)) \in Nat
         /\ (\A k \in Nat : x <= k /\ k < y => ~Has(s, k)) => Up(s, Upto(y, j)) = Up(s, Upto(x, j))
         /\ (\A k \in Nat : x <= k /\ k < y => Has(s, k)) =>
               Up(s, Upto(y, j)) - Up(s, Upto(x, j)) = Upto(y, j) - Upto(x, j)
<1> DEFINE a == Upto(x, j)
           b == Upto(y, j)
<1>1. a \in Nat /\ b \in Nat /\ a <= b /\ \A k \in Nat : a <= k /\ k < b => x <= k /\ k < y
  BY DEF Upto
<1> HIDE DEF a, b
<1>2. /\ Up(s, a) \in Nat /\ Up(s, b) \in Nat
      /\ (\A k \in Nat : a <= k /\ k < b => ~Has(s, k)) => Up(s, b) = Up(s, a)
      /\ (\A k \in Nat : a <= k /\ k < b => Has(s, k)) => Up(s, b) - Up(s, a) = b - a
  BY <1>1, UpBetween
<1> QED BY <1>1, <1>2 DEF a, b

\* Between two ranges of a chunk, and between two chunks, are no rows.
LEMMA NoRows ==
  ASSUME NEW s, Laid(s), NEW c \in 1 .. Len(s)
  PROVE  /\ \A o \in 1 .. Len(s[c].data) : o + 1 \in 1 .. Len(s[c].data) =>
              /\ s[c].data[o][2] <= s[c].data[o + 1][1]
              /\ \A k \in Nat : s[c].data[o][2] <= k /\ k < s[c].data[o + 1][1] => ~Has(s, k)
         /\ c + 1 \in 1 .. Len(s) =>
              /\ s[c].end <= s[c + 1].begin
              /\ \A k \in Nat : s[c].end <= k /\ k < s[c + 1].begin => ~Has(s, k)
<1>1. ASSUME NEW o \in 1 .. Len(s[c].data), o + 1 \in 1 .. Len(s[c].data)
      PROVE  /\ s[c].data[o][2] <= s[c].data[o + 1][1]
             /\ \A k \in Nat : s[c].data[o][2] <= k /\ k < s[c].data[o + 1][1] => ~Has(s, k)
  <2> DEFINE m == o + 1
             r == s[c].data[o]
             q == s[c].data[m]
  <2>0. m \in 1 .. Len(s[c].data) /\ o < m /\ \A b \in 1 .. Len(s[c].data) : o < b => b = m \/ m < b
    BY <1>1
  <2> HIDE DEF m
  <2>1. /\ r[1] \in Nat /\ r[2] \in Nat /\ r[1] < r[2]
        /\ Under(s, c, o, r[1]) /\ Over(s, c, o, r[2])
    BY RangesApart
  <2>2. /\ q[1] \in Nat /\ q[2] \in Nat /\ q[1] < q[2]
        /\ Under(s, c, m, q[1]) /\ Over(s, c, m, q[2])
    BY <2>0, RangesApart
  <2>3. r[2] < q[1]
    BY <2>0, <2>1 DEF Over
  <2>4. ASSUME NEW k \in Nat, r[2] <= k, k < q[1], Has(s, k)
        PROVE  FALSE
    <3>1. PICK a \in 1 .. Len(s) : \E b \in 1 .. Len(s[a].data) :
                 /\ In(s[a].data[b], k)
                 /\ \/ a < c \/ (a = c /\ b < o)
                    \/ a = c /\ b = o
                    \/ c < a \/ (a = c /\ o < b)
      BY <2>4, RowAround DEF Around
    <3>2. PICK b \in 1 .. Len(s[a].data) :
                 /\ In(s[a].data[b], k)
                 /\ \/ a < c \/ (a = c /\ b < o)
                    \/ a = c /\ b = o
                    \/ c < a \/ (a = c /\ o < b)
      BY <3>1
    <3> DEFINE p == s[a].data[b]
    <3>3. p[1] \in Nat /\ p[2] \in Nat /\ p[1] <= k /\ k < p[2]
      BY <3>2, RangesApart DEF In
    <3>4. (a < c \/ (a = c /\ b < o)) => p[2] < r[1]
      BY <2>1 DEF Under
    <3>5. (a = c /\ b = o) => p = r
      OBVIOUS
    <3>6. (c < a \/ (a = c /\ o < b)) => p = q \/ q[2] < p[1]
      <4>1. c < a \/ (a = c /\ m < b) => q[2] < p[1]
        BY <2>2 DEF Over
      <4> QED BY <2>0, <4>1
    <3>7. (c < a \/ (a = c /\ o < b)) => p[1] > k
      <4> DEFINE x == p[1]
                 y == q[1]
                 z == q[2]
      <4>1. (c < a \/ (a = c /\ o < b)) => x = y \/ z < x
        BY <3>6
      <4>2. x \in Nat /\ y \in Nat /\ z \in Nat /\ y < z /\ k < y
        BY <2>2, <2>4, <3>3
      <4> HIDE DEF x, y, z
      <4>3. (c < a \/ (a = c /\ o < b)) => x > k
        BY <4>1, <4>2
      <4> QED BY <4>3 DEF x
    <3> DEFINE x == p[1]
               y == p[2]
               z == r[1]
               w == r[2]
    <3>8. /\ x \in Nat /\ y \in Nat /\ z \in Nat /\ w \in Nat
          /\ z < w /\ w <= k /\ x <= k /\ k < y
      BY <2>1, <2>4, <3>3
    <3>9. \/ y < z
          \/ y = w
          \/ x > k
      BY <3>2, <3>4, <3>5, <3>7
    <3> HIDE DEF x, y, z, w
    <3> QED BY <3>8, <3>9
  <2> QED BY <2>1, <2>2, <2>3, <2>4 DEF m
<1>2. ASSUME c + 1 \in 1 .. Len(s)
      PROVE  /\ s[c].end <= s[c + 1].begin
             /\ \A k \in Nat : s[c].end <= k /\ k < s[c + 1].begin => ~Has(s, k)
  <2> DEFINE e == c + 1
  <2>0. /\ e \in 1 .. Len(s) /\ c < e
        /\ \A a \in 1 .. Len(s) : a < c \/ a = c \/ a = e \/ e < a
    BY <1>2
  <2> HIDE DEF e
  <2>1. s[c].end < s[e].begin
    BY <2>0, LaidType
  <2>2. /\ s[c].begin \in Nat /\ s[c].end \in Nat /\ s[c].begin < s[c].end
        /\ s[e].begin \in Nat /\ s[e].end \in Nat /\ s[e].begin < s[e].end
    BY <2>0, LaidType
  <2>3. ASSUME NEW k \in Nat, s[c].end <= k, k < s[e].begin, Has(s, k)
        PROVE  FALSE
    <3>1. PICK a \in 1 .. Len(s) : Holds(s[a].data, k)
      BY <2>3 DEF Has
    <3>2. s[a].begin \in Nat /\ s[a].end \in Nat /\ s[a].begin <= k /\ k < s[a].end
      BY <3>1, LaidType
    <3>3. (a < c => s[a].end < s[c].begin) /\ (e < a => s[e].end < s[a].begin)
      BY <2>0, LaidType
    <3>4. a < c \/ a = c \/ a = e \/ e < a
      BY <2>0
    <3> QED BY <2>2, <2>3, <3>2, <3>3, <3>4
  <2> QED BY <2>1, <2>2, <2>3 DEF e
<1> QED BY <1>1, <1>2

\* The sum of the rows below j of ranges in a row, and of their lengths.
LEMMA RangesUp ==
  ASSUME NEW s, Laid(s), NEW c \in 1 .. Len(s), NEW j \in Nat
  PROVE  /\ \A o \in 1 .. Len(s[c].data) :
              LET r == s[c].data[o] IN
              /\ r[1] \in Nat /\ r[2] \in Nat
              /\ Up(s, Upto(r[1], j)) \in Nat /\ Up(s, Upto(r[2], j)) \in Nat
              /\ Up(s, Upto(r[2], j)) - Up(s, Upto(r[1], j)) = Upto(r[2], j) - Upto(r[1], j)
         /\ \A o \in 1 .. Len(s[c].data) : o + 1 \in 1 .. Len(s[c].data) =>
              Up(s, Upto(s[c].data[o + 1][1], j)) = Up(s, Upto(s[c].data[o][2], j))
         /\ c + 1 \in 1 .. Len(s) => Up(s, Upto(s[c + 1].begin, j)) = Up(s, Upto(s[c].end, j))
<1>1. ASSUME NEW o \in 1 .. Len(s[c].data)
      PROVE  LET r == s[c].data[o] IN
             /\ r[1] \in Nat /\ r[2] \in Nat
             /\ Up(s, Upto(r[1], j)) \in Nat /\ Up(s, Upto(r[2], j)) \in Nat
             /\ Up(s, Upto(r[2], j)) - Up(s, Upto(r[1], j)) = Upto(r[2], j) - Upto(r[1], j)
  <2> DEFINE r == s[c].data[o]
             x == r[1]
             y == r[2]
  <2>1. x \in Nat /\ y \in Nat /\ x < y /\ x <= y
    <3>1. x \in Nat /\ y \in Nat /\ x < y
      BY RangesApart
    <3> HIDE DEF x, y
    <3> QED BY <3>1
  <2>2. \A k \in Nat : x <= k /\ k < y => Has(s, k)
    <3>1. \A k \in Nat : In(s[c].data[o], k) => Has(s, k)
      BY DEF Has, Holds
    <3> QED BY <3>1 DEF In
  <2> HIDE DEF x, y
  <2>3. /\ Up(s, Upto(x, j)) \in Nat /\ Up(s, Upto(y, j)) \in Nat
        /\ (\A k \in Nat : x <= k /\ k < y => Has(s, k)) =>
               Up(s, Upto(y, j)) - Up(s, Upto(x, j)) = Upto(y, j) - Upto(x, j)
    BY <2>1, UpUpto
  <2> QED BY <2>1, <2>2, <2>3 DEF x, y
<1>2. ASSUME NEW o \in 1 .. Len(s[c].data), o + 1 \in 1 .. Len(s[c].data)
      PROVE  Up(s, Upto(s[c].data[o + 1][1], j)) = Up(s, Upto(s[c].data[o][2], j))
  <2> DEFINE m == o + 1
             x == s[c].data[o][2]
             y == s[c].data[m][1]
  <2>1. m \in 1 .. Len(s[c].data)
    BY <1>2
  <2>2. x <= y /\ \A k \in Nat : x <= k /\ k < y => ~Has(s, k)
    BY <1>2, NoRows
  <2> HIDE DEF m
  <2>3. x \in Nat /\ y \in Nat
    BY <2>1, RangesApart
  <2> HIDE DEF x, y
  <2>4. (\A k \in Nat : x <= k /\ k < y => ~Has(s, k)) => Up(s, Upto(y, j)) = Up(s, Upto(x, j))
    BY <2>2, <2>3, UpUpto
  <2> QED BY <2>2, <2>4 DEF x, y, m
<1>3. ASSUME c + 1 \in 1 .. Len(s)
      PROVE  Up(s, Upto(s[c + 1].begin, j)) = Up(s, Upto(s[c].end, j))
  <2> DEFINE m == c + 1
             x == s[c].end
             y == s[m].begin
  <2>1. m \in 1 .. Len(s)
    BY <1>3
  <2>2. x <= y /\ \A k \in Nat : x <= k /\ k < y => ~Has(s, k)
    BY <1>3, NoRows
  <2> HIDE DEF m
  <2>3. x \in Nat /\ y \in Nat
    BY <2>1, LaidType
  <2> HIDE DEF x, y
  <2>4. (\A k \in Nat : x <= k /\ k < y => ~Has(s, k)) => Up(s, Upto(y, j)) = Up(s, Upto(x, j))
    BY <2>2, <2>3, UpUpto
  <2> QED BY <2>2, <2>4 DEF x, y, m
<1> QED BY <1>1, <1>2, <1>3

\* A function on 1 .. n is a sequence.
LEMMA SumSeq ==
  ASSUME NEW n \in Nat, NEW q \in [1 .. n -> Int]
  PROVE  q \in Seq(Int) /\ Len(q) = n
<1>1. q \in Seq(Int)
  OBVIOUS
<1>2. Len(q) \in Nat /\ DOMAIN q = 1 .. Len(q)
  BY <1>1, LenProperties
<1> DEFINE m == Len(q)
<1>3. m \in Nat /\ 1 .. m = 1 .. n
  BY <1>2
<1> HIDE DEF m
<1>4. m <= n
  <2>1. m # 0 => m \in 1 .. m
    BY <1>3
  <2>2. m # 0 => m \in 1 .. n
    BY <1>3, <2>1
  <2> QED BY <1>3, <2>2
<1>5. n <= m
  <2>1. n # 0 => n \in 1 .. n
    OBVIOUS
  <2>2. n # 0 => n \in 1 .. m
    BY <1>3, <2>1
  <2> QED BY <1>3, <2>2
<1>6. m = n
  BY <1>3, <1>4, <1>5
<1> QED BY <1>1, <1>6 DEF m

\* What CountIn counts, from the range after the o-th.
LEMMA CountInIs ==
  ASSUME NEW s, Laid(s), NEW c \in 1 .. Len(s), NEW j \in Nat, NEW o \in 0 .. Len(s[c].data)
  PROVE  CountIn(s[c].data, o + 1, j) =
           Up(s, Upto(s[c].end, j)) - Up(s, Upto(IF o = 0 THEN s[c].begin ELSE s[c].data[o][2], j))
<1> DEFINE d == s[c].data
           L == Len(d)
           n == L - o
           q == [k \in 1 .. n |-> Min({d[o + k][2], j}) - Min({d[o + k][1], j})]
           F(x) == Up(s, Upto(x, j))
           b == [k \in 0 .. n |-> IF o + k = 0 THEN F(d[1][1]) ELSE F(d[o + k][2])]
<1>1. /\ L \in Nat /\ 1 \in 1 .. L /\ L \in 1 .. L
      /\ s[c].begin = d[1][1] /\ s[c].end = d[L][2]
  <2>1. Fits(s[c])
    BY LaidType
  <2>2. Ordered(d) /\ s[c].begin = d[1][1] /\ s[c].end = d[L][2]
    BY <2>1, FitsType
  <2> QED BY <2>2, OrderedType
<1>2. \A m \in 1 .. L : /\ d[m][1] \in Nat /\ d[m][2] \in Nat
                        /\ F(d[m][1]) \in Nat /\ F(d[m][2]) \in Nat
                        /\ F(d[m][2]) - F(d[m][1]) = Upto(d[m][2], j) - Upto(d[m][1], j)
  BY RangesUp
<1>3. \A m \in 1 .. L : m + 1 \in 1 .. L => F(d[m + 1][1]) = F(d[m][2])
  BY RangesUp
<1> HIDE DEF F, d
<1>4. n \in Nat /\ o \in Nat /\ o <= L
  <2>1. o \in 0 .. L
    BY DEF d
  <2> HIDE DEF L
  <2> QED BY <1>1, <2>1
<1> HIDE DEF L
<1>5. \A k \in 1 .. n : o + k \in 1 .. L /\ k \in Nat /\ o + k # 0 /\ o + (k - 1) \in Nat /\ k - 1 \in 0 .. n /\ k \in 0 .. n
  BY <1>1, <1>4
<1> HIDE DEF n
<1>6. CountIn(d, o + 1, j) = SumOf(q)
  <2>1. L - (o + 1) + 1 = n
    BY <1>1, <1>4 DEF n
  <2>2. \A k \in 1 .. n : o + 1 + k - 1 = o + k
    BY <1>4, <1>5
  <2>3. [k \in 1 .. L - (o + 1) + 1 |-> Min({d[o + 1 + k - 1][2], j}) - Min({d[o + 1 + k - 1][1], j})] = q
    <3> DEFINE f == [k \in 1 .. n |-> Min({d[o + 1 + k - 1][2], j}) - Min({d[o + 1 + k - 1][1], j})]
    <3>1. \A k \in 1 .. n : f[k] = q[k]
      BY <2>2
    <3>2. f = q
      BY <3>1
    <3> HIDE DEF q
    <3> QED BY <2>1, <3>2
  <2> HIDE DEF q
  <2>4. CountIn(d, o + 1, j) =
          SumOf([k \in 1 .. Len(d) - (o + 1) + 1 |-> Min({d[o + 1 + k - 1][2], j}) - Min({d[o + 1 + k - 1][1], j})])
    BY DEF CountIn
  <2> QED BY <2>3, <2>4 DEF L
<1>7. \A k \in 1 .. n : q[k] = F(d[o + k][2]) - F(d[o + k][1]) /\ q[k] \in Int
  <2> TAKE k \in 1 .. n
  <2> DEFINE r == d[o + k]
  <2>1. /\ r[1] \in Nat /\ r[2] \in Nat
        /\ F(r[1]) \in Nat /\ F(r[2]) \in Nat
        /\ F(r[2]) - F(r[1]) = Upto(r[2], j) - Upto(r[1], j)
    BY <1>2, <1>5
  <2>2. q[k] = Min({r[2], j}) - Min({r[1], j})
    OBVIOUS
  <2> HIDE DEF r, q
  <2>3. Min({r[2], j}) = Upto(r[2], j) /\ Min({r[1], j}) = Upto(r[1], j)
    <3>1. r[1] \in Int /\ r[2] \in Int /\ j \in Int
      BY <2>1
    <3> QED BY <3>1, MinOfTwo
  <2>4. q[k] = F(r[2]) - F(r[1]) /\ q[k] \in Int
    BY <2>1, <2>2, <2>3
  <2> QED BY <2>4 DEF r
<1>8. q \in Seq(Int) /\ Len(q) = n
  <2>1. q \in [1 .. n -> Int]
    BY <1>7
  <2> HIDE DEF q
  <2> QED BY <1>4, <2>1, SumSeq
<1> HIDE DEF q
<1>9. \A k \in 0 .. n : b[k] \in Int
  <2> TAKE k \in 0 .. n
  <2>1. k \in Nat /\ (o + k # 0 => o + k \in 1 .. L)
    BY <1>1, <1>4 DEF n
  <2>2. b[k] = IF o + k = 0 THEN F(d[1][1]) ELSE F(d[o + k][2])
    OBVIOUS
  <2>3. F(d[1][1]) \in Int
    BY <1>1, <1>2
  <2>4. o + k # 0 => F(d[o + k][2]) \in Int
    BY <1>2, <2>1
  <2> HIDE DEF b
  <2> QED BY <2>2, <2>3, <2>4
<1>10. \A k \in 1 .. n : q[k] = b[k] - b[k - 1]
  <2> TAKE k \in 1 .. n
  <2> DEFINE m == o + (k - 1)
  <2>1. /\ m \in Nat /\ o + k = m + 1 /\ m + 1 \in 1 .. L /\ (m # 0 => m \in 1 .. L)
        /\ k - 1 \in 0 .. n /\ k \in 0 .. n /\ m + 1 # 0
    BY <1>1, <1>4, <1>5
  <2>2. b[k] = F(d[m + 1][2])
    <3>1. b[k] = IF o + k = 0 THEN F(d[1][1]) ELSE F(d[o + k][2])
      BY <2>1
    <3> HIDE DEF b, m
    <3> QED BY <2>1, <3>1
  <2>3. b[k - 1] = IF m = 0 THEN F(d[1][1]) ELSE F(d[m][2])
    BY <2>1
  <2>4. q[k] = F(d[m + 1][2]) - F(d[m + 1][1])
    <3> HIDE DEF m
    <3> QED BY <1>7, <2>1
  <2> HIDE DEF b, m
  <2>5. b[k - 1] = F(d[m + 1][1])
    <3>1. m = 0 => m + 1 = 1
      BY <2>1
    <3>2. m # 0 => F(d[m + 1][1]) = F(d[m][2])
      BY <1>3, <2>1
    <3> QED BY <2>3, <3>1, <3>2
  <2> QED BY <2>2, <2>4, <2>5
<1>11. b[0] = (IF o = 0 THEN F(d[1][1]) ELSE F(d[o][2])) /\ b[n] = F(d[L][2])
  <2>1. 0 \in 0 .. n /\ n \in 0 .. n /\ o + 0 = o /\ o + n = L /\ L # 0
    BY <1>1, <1>4 DEF n
  <2>2. b[0] = IF o + 0 = 0 THEN F(d[1][1]) ELSE F(d[o + 0][2])
    BY <2>1
  <2>3. b[n] = IF o + n = 0 THEN F(d[1][1]) ELSE F(d[o + n][2])
    BY <2>1
  <2> HIDE DEF b
  <2> QED BY <2>1, <2>2, <2>3
<1> HIDE DEF b
<1>12. SumOf(q) = b[Len(q)] - b[0]
  BY <1>8, <1>9, <1>10, SumTelescopes
<1>13. SumOf(q) = F(d[L][2]) - (IF o = 0 THEN F(d[1][1]) ELSE F(d[o][2]))
  BY <1>8, <1>11, <1>12
<1> QED BY <1>1, <1>6, <1>13 DEF F, d

\* What a chunk stands for.
LEMMA TotalIs ==
  ASSUME NEW s, Laid(s), NEW c \in 1 .. Len(s)
  PROVE  Total(s[c].data) = Up(s, s[c].end) - Up(s, s[c].begin)
<1> DEFINE d == s[c].data
           j == s[c].end
           q == [k \in 1 .. Len(d) |-> Min({d[k][2], j}) - Min({d[k][1], j})]
           p == [k \in DOMAIN d |-> Size(d[k])]
<1>1. Ordered(d) /\ j \in Nat /\ s[c].begin \in Nat /\ s[c].begin < j
  BY LaidType, FitsType
<1>2. DOMAIN d = 1 .. Len(d) /\ Len(d) \in Nat
  BY <1>1, OrderedType
<1>3. \A k \in 1 .. Len(d) : Min({d[k][2], j}) - Min({d[k][1], j}) = Size(d[k])
  <2> TAKE k \in 1 .. Len(d)
  <2> DEFINE x == d[k][1]
             y == d[k][2]
  <2>1. x \in Nat /\ y \in Nat /\ x < y /\ y <= j
    BY RangesApart
  <2>2. Size(d[k]) = y - x
    BY DEF Size
  <2> HIDE DEF x, y, j
  <2>3. Min({y, j}) = Upto(y, j) /\ Min({x, j}) = Upto(x, j)
    BY <1>1, <2>1, MinOfTwo
  <2>4. Upto(y, j) = y /\ Upto(x, j) = x
    BY <1>1, <2>1 DEF Upto
  <2> QED BY <2>2, <2>3, <2>4 DEF x, y
<1>4. p = q
  BY <1>2, <1>3
<1>5. Total(d) = SumOf(p)
  BY DEF Total
<1> HIDE DEF p
<1>6. CountIn(d, 1, j) = SumOf(q)
  <2>1. Len(d) - 1 + 1 = Len(d) /\ \A k \in 1 .. Len(d) : 1 + k - 1 = k
    BY <1>2
  <2> DEFINE f == [k \in 1 .. Len(d) |-> Min({d[1 + k - 1][2], j}) - Min({d[1 + k - 1][1], j})]
  <2>2. f = q
    BY <2>1
  <2>3. CountIn(d, 1, j) =
          SumOf([k \in 1 .. Len(d) - 1 + 1 |-> Min({d[1 + k - 1][2], j}) - Min({d[1 + k - 1][1], j})])
    BY DEF CountIn
  <2> HIDE DEF q, d, j
  <2>4. [k \in 1 .. Len(d) - 1 + 1 |-> Min({d[1 + k - 1][2], j}) - Min({d[1 + k - 1][1], j})] = f
    BY <2>1
  <2> HIDE DEF f
  <2> QED BY <2>2, <2>3, <2>4
<1> HIDE DEF q
<1>7. CountIn(d, 1, j) = Up(s, Upto(j, j)) - Up(s, Upto(s[c].begin, j))
  <2> DEFINE o == 0
  <2>1. o \in 0 .. Len(s[c].data) /\ o + 1 = 1 /\ o = 0
    BY <1>2
  <2> HIDE DEF o
  <2>2. CountIn(s[c].data, o + 1, j) =
           Up(s, Upto(s[c].end, j)) - Up(s, Upto(IF o = 0 THEN s[c].begin ELSE s[c].data[o][2], j))
    BY <1>1, <2>1, CountInIs
  <2> QED BY <2>1, <2>2
<1>8. Upto(j, j) = j /\ Upto(s[c].begin, j) = s[c].begin
  <2> DEFINE x == s[c].begin
  <2>1. x \in Nat /\ x < j /\ j \in Nat
    BY <1>1
  <2> HIDE DEF x, j
  <2>2. Upto(j, j) = j /\ Upto(x, j) = x
    BY <2>1 DEF Upto
  <2> QED BY <2>2 DEF x
<1> QED BY <1>4, <1>5, <1>6, <1>7, <1>8

\* Each chunk's count is that of its ranges.
Counted(s) == \A a \in 1 .. Len(s) : s[a].count = Total(s[a].data)

\* The counts of chunks in a row.
LEMMA WholeIs ==
  ASSUME NEW s, Laid(s), Counted(s), NEW c \in 1 .. Len(s), NEW e \in c .. Len(s) + 1
  PROVE  SumOf([k \in 1 .. e - c |-> s[c + k - 1].count]) =
           IF e = c THEN 0 ELSE Up(s, s[e - 1].end) - Up(s, s[c].begin)
<1> DEFINE L == Len(s)
           n == e - c
           q == [k \in 1 .. n |-> s[c + k - 1].count]
           b == [k \in 0 .. n |-> IF k = 0 THEN Up(s, s[c].begin) ELSE Up(s, s[c + k - 1].end)]
<1>1. L \in Nat
  BY LaidType
<1>2. \A a \in 1 .. L : /\ s[a].begin \in Nat /\ s[a].end \in Nat
                        /\ Up(s, s[a].begin) \in Nat /\ Up(s, s[a].end) \in Nat
                        /\ s[a].count = Up(s, s[a].end) - Up(s, s[a].begin)
  <2> TAKE a \in 1 .. L
  <2> DEFINE x == s[a].begin
             y == s[a].end
  <2>1. x \in Nat /\ y \in Nat /\ x < y
    BY LaidType
  <2>2. s[a].count = Up(s, y) - Up(s, x)
    BY TotalIs DEF Counted
  <2> HIDE DEF x, y
  <2>3. x <= y
    BY <2>1
  <2>4. Up(s, x) \in Nat /\ Up(s, y) \in Nat
    BY <2>1, <2>3, UpBetween
  <2> QED BY <2>1, <2>2, <2>4 DEF x, y
<1>3. \A a \in 1 .. L : a + 1 \in 1 .. L => Up(s, s[a + 1].begin) = Up(s, s[a].end)
  <2> TAKE a \in 1 .. L
  <2> HAVE a + 1 \in 1 .. L
  <2> DEFINE m == a + 1
             x == s[a].end
             y == s[m].begin
  <2>1. m \in 1 .. L
    OBVIOUS
  <2>2. x <= y /\ \A k \in Nat : x <= k /\ k < y => ~Has(s, k)
    BY NoRows
  <2> HIDE DEF m
  <2>3. x \in Nat /\ y \in Nat
    BY <1>2, <2>1
  <2> HIDE DEF x, y
  <2>4. (\A k \in Nat : x <= k /\ k < y => ~Has(s, k)) => Up(s, y) = Up(s, x)
    BY <2>2, <2>3, UpBetween
  <2> QED BY <2>2, <2>4 DEF x, y, m
<1>4. n \in Nat /\ c \in 1 .. L /\ e = c + n /\ c \in Nat
  <2>1. e \in c .. L + 1 /\ c \in 1 .. L
    OBVIOUS
  <2> HIDE DEF L
  <2> QED BY <1>1, <2>1
<1>5. \A k \in 1 .. n : k \in Nat /\ k - 1 \in 0 .. n /\ k \in 0 .. n /\ k # 0 /\ c + k - 1 \in 1 .. L
  <2>1. n + c <= L + 1
    BY <1>1, <1>4
  <2> HIDE DEF L, n
  <2> QED BY <1>1, <1>4, <2>1
<1> HIDE DEF n, L
<1>6. q \in Seq(Int) /\ Len(q) = n
  <2>1. \A k \in 1 .. n : s[c + k - 1].count \in Int
    BY <1>2, <1>5
  <2>2. q \in [1 .. n -> Int]
    BY <2>1
  <2> HIDE DEF q
  <2> QED BY <1>4, <2>2, SumSeq
<1>7. \A k \in 0 .. n : b[k] \in Int
  <2> TAKE k \in 0 .. n
  <2>1. b[k] = IF k = 0 THEN Up(s, s[c].begin) ELSE Up(s, s[c + k - 1].end)
    OBVIOUS
  <2>2. k = 0 \/ k \in 1 .. n
    BY <1>4
  <2> HIDE DEF b
  <2> QED BY <1>2, <1>4, <1>5, <2>1, <2>2
<1>8. \A k \in 1 .. n : q[k] = b[k] - b[k - 1]
  <2> TAKE k \in 1 .. n
  <2> DEFINE m == c + k - 1
             h == k - 1
  <2>1. /\ m \in 1 .. L /\ h \in 0 .. n /\ k \in 0 .. n /\ k # 0
        /\ (h = 0 => m = c) /\ (h # 0 => m - 1 \in 1 .. L /\ m - 1 + 1 = m /\ c + h - 1 = m - 1)
    <3>1. m \in 1 .. L /\ h \in 0 .. n /\ k \in 0 .. n /\ k # 0 /\ k \in Nat
      BY <1>5
    <3>2. h = 0 => m = c
      BY <1>4, <3>1
    <3>3. h # 0 => m - 1 \in 1 .. L
      <4>1. m - 1 = c + h - 1 /\ h \in Nat
        BY <1>4, <3>1
      <4>2. h # 0 => h >= 1
        BY <4>1
      <4> QED BY <1>1, <1>4, <3>1, <4>1, <4>2
    <3>4. m - 1 + 1 = m /\ c + h - 1 = m - 1
      BY <1>4, <3>1
    <3> QED BY <3>1, <3>2, <3>3, <3>4
  <2>2. q[k] = Up(s, s[m].end) - Up(s, s[m].begin)
    BY <1>2, <2>1
  <2>3. b[k] = Up(s, s[m].end)
    BY <2>1
  <2>4. b[h] = IF h = 0 THEN Up(s, s[c].begin) ELSE Up(s, s[c + h - 1].end)
    BY <2>1
  <2> HIDE DEF b, m, h, q
  <2>5. h # 0 => Up(s, s[m].begin) = Up(s, s[m - 1].end)
    <3> SUFFICES ASSUME h # 0 PROVE Up(s, s[m].begin) = Up(s, s[m - 1].end)
      OBVIOUS
    <3> DEFINE a == m - 1
    <3>1. a \in 1 .. L /\ a + 1 = m /\ a + 1 \in 1 .. L
      BY <2>1
    <3> HIDE DEF a
    <3> QED BY <1>3, <3>1 DEF a
  <2>6. b[h] = Up(s, s[m].begin)
    BY <2>1, <2>4, <2>5
  <2> QED BY <2>2, <2>3, <2>6 DEF h
<1>9. b[0] = Up(s, s[c].begin) /\ (n # 0 => b[n] = Up(s, s[e - 1].end))
  <2>1. 0 \in 0 .. n /\ n \in 0 .. n /\ c + n - 1 = e - 1
    BY <1>4
  <2>2. b[0] = Up(s, s[c].begin)
    BY <2>1
  <2>3. b[n] = IF n = 0 THEN Up(s, s[c].begin) ELSE Up(s, s[c + n - 1].end)
    BY <2>1
  <2> HIDE DEF b
  <2> QED BY <2>1, <2>2, <2>3
<1> HIDE DEF q, b
<1>10. SumOf(q) = b[Len(q)] - b[0]
  BY <1>6, <1>7, <1>8, SumTelescopes
<1>11. b[0] \in Int /\ (e = c <=> n = 0)
  <2>1. 0 \in 0 .. n
    BY <1>4
  <2>2. b[0] \in Int
    BY <1>7, <2>1
  <2> QED BY <1>4, <2>2
<1>12. n = 0 => b[n] - b[0] = 0
  BY <1>11
<1> QED BY <1>6, <1>9, <1>10, <1>11, <1>12 DEF q, n

\* count, from the start of a chunk.
LEMMA CountFromIs ==
  ASSUME NEW s, Laid(s), Counted(s), NEW c \in 1 .. Len(s), NEW j \in Nat
  PROVE  CountFrom(s, c, j) = Up(s, j) - Up(s, Upto(s[c].begin, j))
<1> DEFINE L == Len(s)
           later == {k \in c .. L : s[k].end > j}
           e == IF later = {} THEN L + 1 ELSE Min(later)
           whole == SumOf([k \in 1 .. e - c |-> s[c + k - 1].count])
           x == s[c].begin
<1>1. L \in Nat /\ c \in 1 .. L /\ c \in Nat
  BY LaidType
<1>2. CountFrom(s, c, j) = IF later = {} THEN whole ELSE whole + CountIn(s[e].data, 1, j)
  BY DEF CountFrom
<1>3. \A a \in 1 .. L : /\ s[a].begin \in Nat /\ s[a].end \in Nat /\ s[a].begin < s[a].end
                        /\ Up(s, s[a].begin) \in Nat /\ Up(s, s[a].end) \in Nat
  <2> TAKE a \in 1 .. L
  <2> DEFINE v == s[a].begin
             w == s[a].end
  <2>1. v \in Nat /\ w \in Nat /\ v < w
    BY LaidType
  <2> HIDE DEF v, w
  <2>2. v <= w
    BY <2>1
  <2>3. Up(s, v) \in Nat /\ Up(s, w) \in Nat
    BY <2>1, <2>2, UpBetween
  <2> QED BY <2>1, <2>3 DEF v, w
<1>4. later # {} => e \in later /\ \A k \in later : e <= k
  <2>1. later \in SUBSET Nat
    <3> HIDE DEF L
    <3> QED BY <1>1
  <2> HIDE DEF later
  <2> QED BY <2>1, MinIsLeast
<1>5. e \in c .. L + 1 /\ e \in Nat
  <2>1. later = {} => e = L + 1
    OBVIOUS
  <2>2. later # {} => e \in c .. L
    BY <1>4
  <2> HIDE DEF e, later, L
  <2> QED BY <1>1, <2>1, <2>2
<1>6. \A a \in c .. L : a < e => s[a].end <= j
  <2> TAKE a \in c .. L
  <2>0. a \in 1 .. L /\ a \in Nat
    <3> HIDE DEF L
    <3> QED BY <1>1
  <2>1. a \in later <=> s[a].end > j
    OBVIOUS
  <2>2. s[a].end \in Nat
    BY <1>3, <2>0
  <2>3. a \in later => ~(a < e)
    <3> HIDE DEF e
    <3> QED BY <1>4, <1>5, <2>0
  <2> HIDE DEF later, e
  <2> QED BY <2>1, <2>2, <2>3
<1>7. whole = IF e = c THEN 0 ELSE Up(s, s[e - 1].end) - Up(s, s[c].begin)
  <2>1. e \in c .. Len(s) + 1
    BY <1>5
  <2> HIDE DEF e
  <2> QED BY <2>1, WholeIs
<1> HIDE DEF whole
<1>8. e # c => Upto(x, j) = x
  <2>1. e # c => c < e
    <3> HIDE DEF e
    <3> QED BY <1>1, <1>5
  <2>2. c \in c .. L
    BY <1>1
  <2>3. x \in Nat /\ s[c].end \in Nat /\ x < s[c].end
    BY <1>3
  <2>4. e # c => s[c].end <= j
    BY <1>6, <2>1, <2>2
  <2> HIDE DEF e, x
  <2> QED BY <2>3, <2>4 DEF Upto
<1>9. CASE later = {}
  <2>1. e = L + 1 /\ e # c /\ e - 1 = L /\ L \in c .. L /\ L < e /\ L \in 1 .. L
    <3>1. e = L + 1
      BY <1>9
    <3> HIDE DEF e, L, later
    <3> QED BY <3>1, <1>1
  <2> DEFINE y == s[L].end
  <2>2. y <= j /\ y \in Nat
    BY <1>3, <1>6, <2>1
  <2>3. \A k \in Nat : Has(s, k) => k < y
    <3>1. s # <<>>
      BY <1>1
    <3> QED BY <3>1, LastEnd
  <2>4. CountFrom(s, c, j) = Up(s, y) - Up(s, x)
    BY <1>2, <1>7, <1>9, <2>1
  <2> HIDE DEF y
  <2>5. \A k \in Nat : y <= k /\ k < j => ~Has(s, k)
    <3>1. \A k \in Nat : y <= k => ~(k < y)
      BY <2>2
    <3> QED BY <2>3, <3>1
  <2>6. Up(s, j) = Up(s, y)
    BY <2>2, <2>5, UpBetween
  <2>7. Upto(x, j) = x
    BY <1>8, <2>1
  <2> HIDE DEF x
  <2> QED BY <2>4, <2>6, <2>7 DEF x
<1>10. CASE later # {}
  <2> DEFINE y == s[e].end
             z == s[e].begin
  <2>1. e \in later /\ e \in 1 .. L
    <3>1. e \in later
      BY <1>4, <1>10
    <3>2. e \in c .. L
      BY <3>1
    <3> HIDE DEF e, L, later
    <3> QED BY <1>1, <3>1, <3>2
  <2>2. y \in Nat /\ z \in Nat /\ y > j
    BY <1>3, <2>1
  <2>3. CountFrom(s, c, j) = whole + CountIn(s[e].data, 1, j)
    BY <1>2, <1>10
  <2>4. CountIn(s[e].data, 1, j) = Up(s, Upto(y, j)) - Up(s, Upto(z, j))
    <3> DEFINE o == 0
    <3>1. o \in 0 .. Len(s[e].data) /\ o + 1 = 1 /\ o = 0
      <4>1. Len(s[e].data) \in Nat
        BY <2>1, LaidType, FitsType
      <4> QED BY <4>1
    <3> HIDE DEF o, e
    <3>2. CountIn(s[e].data, o + 1, j) =
           Up(s, Upto(s[e].end, j)) - Up(s, Upto(IF o = 0 THEN s[e].begin ELSE s[e].data[o][2], j))
      BY <2>1, <3>1, CountInIs
    <3> QED BY <3>1, <3>2
  <2>5. Upto(y, j) = j
    <3> HIDE DEF y
    <3> QED BY <2>2 DEF Upto
  <2>6. /\ Up(s, j) \in Nat /\ Up(s, Upto(z, j)) \in Nat
        /\ Up(s, x) \in Nat
    <3>1. z <= y
      <4>1. z < y
        BY <1>3, <2>1
      <4> HIDE DEF y, z
      <4> QED BY <2>2, <4>1
    <3>2. Up(s, Upto(z, j)) \in Nat /\ Up(s, Upto(y, j)) \in Nat
      <4> HIDE DEF z, y
      <4> QED BY <2>2, <3>1, UpUpto
    <3>3. Up(s, x) \in Nat
      BY <1>1, <1>3
    <3> QED BY <2>5, <3>2, <3>3
  <2>7. CASE e = c
    <3>1. whole = 0 /\ z = x
      BY <1>7, <2>7
    <3> HIDE DEF x, y, z, e, later
    <3> QED BY <2>3, <2>4, <2>5, <2>6, <3>1 DEF x
  <2>8. CASE e # c
    <3> DEFINE m == e - 1
               w == s[m].end
    <3>1. m \in c .. L /\ m \in 1 .. L /\ m < e /\ m + 1 = e /\ m + 1 \in 1 .. L
      <4> HIDE DEF e, L
      <4> QED BY <1>1, <1>5, <2>1, <2>8
    <3>2. whole = Up(s, w) - Up(s, x)
      BY <1>7, <2>8
    <3>3. w <= j
      BY <1>6, <3>1
    <3>4. Up(s, Upto(s[m + 1].begin, j)) = Up(s, Upto(s[m].end, j))
      <4> HIDE DEF m
      <4> QED BY <3>1, RangesUp
    <3>5. z = s[m + 1].begin
      BY <3>1
    <3>6. w \in Nat /\ Up(s, w) \in Nat
      BY <1>3, <3>1
    <3> HIDE DEF e, m
    <3>7. Up(s, Upto(z, j)) = Up(s, Upto(w, j))
      BY <3>4, <3>5
    <3> HIDE DEF w, z, x, y
    <3>8. Upto(w, j) = w
      BY <3>3, <3>6 DEF Upto
    <3>9. Upto(x, j) = x
      BY <1>8, <2>8 DEF x
    <3>10. CountFrom(s, c, j) = Up(s, w) - Up(s, x) + (Up(s, j) - Up(s, w))
      BY <2>3, <2>4, <2>5, <3>2, <3>7, <3>8
    <3>11. CountFrom(s, c, j) = Up(s, j) - Up(s, x)
      BY <2>6, <3>6, <3>10
    <3> QED BY <3>9, <3>11 DEF x
  <2> QED BY <2>7, <2>8
<1> QED BY <1>9, <1>10

\* What count counts, but for the ranges that end in the first range of a later chunk.
THEOREM CountIs ==
  ASSUME NEW s, Laid(s), Counted(s), NEW j \in Nat, NEW i \in Nat, i <= j
  PROVE  \/ Count(s, i, j) = Up(s, j) - Up(s, i)
         \/ \E c \in 1 .. Len(s) : c > Find(s, i)[1] /\ j \in s[c].begin + 1 .. s[c].data[1][2]
<1> DEFINE pos == Find(s, i)
           range == At(s, pos)
           start == Max({range[1], i})
           c == pos[1]
           o == pos[2]
           next == c + 1
           part == CountIn(s[c].data, o + 1, j)
           rest == range[2] - start + part
           u == Count(s, i, j)
           Valid == pos # End(s)
           Ends == range[2] >= j
           Goes == range[2] < j
           First == i <= range[1] /\ o = 1
           Stops == s[c].end >= j \/ next > Len(s) \/ s[next].data[1][2] >= j
<1>1. /\ pos = End(s) => u = 0
      /\ Valid /\ Ends => u = IF range[1] >= j THEN 0 ELSE j - start
      /\ Valid /\ ~Ends /\ Goes /\ First => u = CountFrom(s, c, j)
      /\ Valid /\ ~Ends /\ Goes /\ ~First => u = IF Stops THEN rest ELSE rest + CountFrom(s, next, j)
  <2>0. Valid => ~(Ends /\ Goes)
    <3> SUFFICES ASSUME Valid PROVE ~(Ends /\ Goes)
      OBVIOUS
    <3> DEFINE y == range[2]
    <3>1. pos \in Positions(s)
      BY FindsRows
    <3>2. y \in Nat
      BY <3>1, RowsAt
    <3> HIDE DEF y
    <3>3. ~(y >= j /\ y < j)
      BY <3>2
    <3> QED BY <3>3 DEF y
  <2>1. pos = End(s) => u = 0
    BY Zenon DEF Count
  <2>2. Valid /\ Ends => u = IF range[1] >= j THEN 0 ELSE j - start
    BY <2>0, Zenon DEF Count
  <2>3. Valid /\ ~Ends /\ Goes /\ First => u = CountFrom(s, c, j)
    BY Zenon DEF Count
  <2>4. Valid /\ ~Ends /\ Goes /\ ~First => u = IF Stops THEN rest ELSE rest + CountFrom(s, next, j)
    BY Zenon DEF Count
  <2> QED BY <2>1, <2>2, <2>3, <2>4
<1> HIDE DEF u
<1>2. Up(s, i) \in Nat /\ Up(s, j) \in Nat
  BY UpBetween
<1>3. CASE pos = End(s)
  <2>1. \A k \in Nat : Has(s, k) => k < i
    BY <1>3, FindsRows
  <2>2. \A k \in Nat : i <= k /\ k < j => ~Has(s, k)
    <3>1. \A k \in Nat : i <= k => ~(k < i)
      OBVIOUS
    <3> QED BY <2>1, <3>1
  <2>3. Up(s, j) = Up(s, i)
    BY <2>2, UpBetween
  <2> QED BY <1>1, <1>2, <1>3, <2>3 DEF u
<1>4. CASE Valid
  <2> DEFINE x == range[1]
             y == range[2]
  <2>1. /\ pos \in Positions(s) /\ i < y
        /\ \A k \in Nat : Has(s, k) /\ k < x => k < i
    BY <1>4, FindsRows
  <2>2. x \in Nat /\ y \in Nat /\ x < y /\ \A k \in Nat : In(range, k) => Has(s, k)
    BY <2>1, RowsAt
  <2>3. c \in 1 .. Len(s) /\ o \in 1 .. Len(s[c].data) /\ range = s[c].data[o]
    BY <2>1, PositionsOf DEF At
  <2>4. start = (IF x < i THEN i ELSE x) /\ start \in Nat /\ i <= start /\ start < y
    <3>1. x \in Int /\ i \in Int
      BY <2>2
    <3>2. start = IF x < i THEN i ELSE x
      BY <3>1, MaxOfTwo
    <3> HIDE DEF x, y, start
    <3> QED BY <2>1, <2>2, <3>2
  <2>5. \A k \in Nat : x <= k /\ k < y => Has(s, k)
    BY <2>2 DEF In
  <2> HIDE DEF start, x, y
  <2>6. \A k \in Nat : i <= k /\ k < start => ~Has(s, k)
    <3>1. \A k \in Nat : i <= k /\ k < start => k < x /\ ~(k < i)
      BY <2>2, <2>4
    <3> QED BY <2>1, <3>1
  <2>7. Up(s, start) = Up(s, i) /\ Up(s, start) \in Nat
    BY <2>4, <2>6, UpBetween
  <2>8. Up(s, y) - Up(s, start) = y - start /\ Up(s, y) \in Nat
    <3>1. \A k \in Nat : start <= k /\ k < y => Has(s, k)
      BY <2>2, <2>4, <2>5
    <3>2. start <= y
      BY <2>2, <2>4
    <3> QED BY <2>2, <2>4, <3>1, <3>2, UpBetween
  <2>9. CASE y >= j
    <3>1. u = IF x >= j THEN 0 ELSE j - start
      BY <1>1, <1>4, <2>9 DEF x, y
    <3>2. CASE x >= j
      <4>1. \A k \in Nat : i <= k /\ k < j => ~Has(s, k)
        <5>1. \A k \in Nat : i <= k /\ k < j => k < x /\ ~(k < i)
          BY <2>2, <3>2
        <5> QED BY <2>1, <5>1 DEF x
      <4>2. Up(s, j) = Up(s, i)
        BY <4>1, UpBetween
      <4> QED BY <1>2, <3>1, <3>2, <4>2 DEF u
    <3>3. CASE ~(x >= j)
      <4>1. start <= j /\ \A k \in Nat : start <= k /\ k < j => Has(s, k)
        <5>1. start <= j
          BY <2>2, <2>4, <3>3
        <5>2. \A k \in Nat : start <= k /\ k < j => x <= k /\ k < y
          BY <2>2, <2>4, <2>9
        <5> QED BY <2>5, <5>1, <5>2
      <4>2. Up(s, j) - Up(s, start) = j - start
        BY <2>4, <4>1, UpBetween
      <4> QED BY <2>7, <3>1, <3>3, <4>2 DEF u
    <3> QED BY <3>2, <3>3
  <2>10. CASE ~(y >= j)
    <3>0. y < j
      BY <2>2, <2>10
    <3> DEFINE b == s[c].begin
               e == s[c].end
    <3>1. b \in Nat /\ e \in Nat /\ b < e /\ b <= x /\ y <= e /\ b = s[c].data[1][1]
      <4>1. b \in Nat /\ e \in Nat /\ b < e /\ Fits(s[c])
        BY <2>3, LaidType
      <4>2. b = s[c].data[1][1]
        BY <4>1, FitsType
      <4>3. b <= x /\ y <= e
        BY <2>3, RangesApart DEF x, y
      <4> QED BY <4>1, <4>2, <4>3
    <3>2. part = Up(s, Upto(e, j)) - Up(s, y)
      <4>1. o \in 0 .. Len(s[c].data) /\ o # 0
        <5>1. Len(s[c].data) \in Nat
          BY <2>3, LaidType, FitsType
        <5> QED BY <2>3, <5>1
      <4> HIDE DEF pos
      <4>2. CountIn(s[c].data, o + 1, j) =
              Up(s, Upto(s[c].end, j)) - Up(s, Upto(IF o = 0 THEN s[c].begin ELSE s[c].data[o][2], j))
        BY <2>3, <4>1, CountInIs
      <4>3. s[c].data[o][2] = y
        BY <2>3 DEF y
      <4>4. Upto(y, j) = y
        BY <2>2, <3>0 DEF Upto
      <4> QED BY <4>1, <4>2, <4>3, <4>4
    <3> HIDE DEF part
    <3>3. Up(s, Upto(e, j)) \in Nat
      <4> DEFINE m == Upto(e, j)
      <4>1. m \in Nat /\ m <= m
        <5>1. m \in Nat
          BY <3>1 DEF Upto
        <5> HIDE DEF m
        <5> QED BY <5>1
      <4> HIDE DEF m
      <4> QED BY <4>1, UpBetween DEF m
    <3>4. rest = Up(s, Upto(e, j)) - Up(s, i)
      <4>1. rest = y - start + (Up(s, Upto(e, j)) - Up(s, y))
        BY <3>2 DEF y
      <4> DEFINE f == Up(s, Upto(e, j))
      <4> HIDE DEF rest, f
      <4>2. rest = y - start + (f - Up(s, y))
        BY <4>1 DEF f
      <4>3. f \in Nat
        BY <3>3 DEF f
      <4>4. rest = f - Up(s, i)
        BY <1>2, <2>2, <2>4, <2>7, <2>8, <4>2, <4>3
      <4> QED BY <4>4 DEF f
    <3> HIDE DEF rest
    <3>5. CASE First
      <4>1. u = CountFrom(s, c, j)
        BY <1>1, <1>4, <2>10, <3>0, <3>5 DEF y
      <4>2. CountFrom(s, c, j) = Up(s, j) - Up(s, Upto(b, j))
        <5> HIDE DEF c
        <5> QED BY <2>3, CountFromIs DEF c
      <4>3. b = x /\ i <= x
        BY <2>3, <3>1, <3>5 DEF x
      <4> HIDE DEF b
      <4>4. Upto(b, j) = x /\ start = x
        BY <2>2, <2>4, <3>0, <4>3 DEF Upto
      <4> QED BY <2>7, <4>1, <4>2, <4>4 DEF u
    <3>6. CASE ~First
      <4>1. u = IF Stops THEN rest ELSE rest + CountFrom(s, next, j)
        BY <1>1, <1>4, <2>10, <3>0, <3>6 DEF y
      <4>2. CASE e >= j
        <5>1. Stops
          BY <4>2
        <5>2. Upto(e, j) = j
          <6> HIDE DEF e
          <6> QED BY <3>1, <4>2 DEF Upto
        <5> QED BY <3>4, <4>1, <5>1, <5>2 DEF u
      <4>3. CASE ~(e >= j)
        <5>1. e < j /\ Upto(e, j) = e
          <6> HIDE DEF e
          <6> QED BY <3>1, <4>3 DEF Upto
        <5>2. Up(s, e) \in Nat /\ rest = Up(s, e) - Up(s, i)
          BY <3>3, <3>4, <5>1
        <5>3. CASE next > Len(s)
          <6>1. c = Len(s) /\ s # <<>>
            <7>1. Len(s) \in Nat
              BY LaidType
            <7>2. c = Len(s)
              <8> HIDE DEF c
              <8> QED BY <2>3, <5>3, <7>1
            <7>3. Len(s) # 0
              <8> HIDE DEF c
              <8> QED BY <2>3, <7>1, <7>2
            <7> QED BY <7>2, <7>3
          <6>2. \A k \in Nat : Has(s, k) => k < e
            BY <6>1, LastEnd
          <6> HIDE DEF e
          <6>3. e <= j /\ \A k \in Nat : e <= k /\ k < j => ~Has(s, k)
            <7>1. \A k \in Nat : e <= k => ~(k < e)
              BY <3>1
            <7>2. e <= j
              BY <3>1, <5>1
            <7> QED BY <6>2, <7>1, <7>2
          <6>4. Up(s, j) = Up(s, e)
            BY <3>1, <6>3, UpBetween
          <6>5. u = rest
            BY <4>1, <5>3
          <6> QED BY <5>2, <6>4, <6>5 DEF u
        <5>4. CASE ~(next > Len(s))
          <6>1. next \in 1 .. Len(s) /\ next > c
            <7>1. Len(s) \in Nat
              BY LaidType
            <7> HIDE DEF c
            <7> QED BY <2>3, <5>4, <7>1
          <6> DEFINE z == s[next].begin
                     w == s[next].data[1][2]
          <6>2. z \in Nat /\ w \in Nat /\ z < w
            <7>1. 1 \in 1 .. Len(s[next].data) /\ s[next].begin = s[next].data[1][1]
              BY <6>1, LaidType, FitsType, OrderedType
            <7> HIDE DEF next
            <7> QED BY <6>1, <7>1, RangesApart
          <6>3. e <= z /\ \A k \in Nat : e <= k /\ k < z => ~Has(s, k)
            <7> HIDE DEF c
            <7> QED BY <2>3, <6>1, NoRows
          <6> HIDE DEF e
          <6>4. CASE w >= j
            <7>1. u = rest
              BY <4>1, <6>4
            <7>2. CASE j <= z
              <8>1. e <= j /\ \A k \in Nat : e <= k /\ k < j => ~Has(s, k)
                <9>1. \A k \in Nat : e <= k /\ k < j => k < z
                  <10> HIDE DEF z
                  <10> QED BY <6>2, <7>2
                <9>2. e <= j
                  BY <3>1, <5>1
                <9> QED BY <6>3, <9>1, <9>2
              <8>2. Up(s, j) = Up(s, e)
                BY <3>1, <8>1, UpBetween
              <8> QED BY <5>2, <7>1, <8>2 DEF u
            <7>3. CASE ~(j <= z)
              <8>1. j \in z + 1 .. w
                <9> HIDE DEF z, w
                <9> QED BY <6>2, <6>4, <7>3
              <8> QED BY <6>1, <8>1
            <7> QED BY <7>2, <7>3
          <6>5. CASE ~(w >= j)
            <7>1. ~Stops
              BY <4>3, <5>4, <6>5 DEF e
            <7>2. u = rest + CountFrom(s, next, j)
              BY <4>1, <7>1
            <7>3. CountFrom(s, next, j) = Up(s, j) - Up(s, Upto(z, j))
              <8> HIDE DEF next
              <8> QED BY <6>1, CountFromIs DEF next
            <7> HIDE DEF z, w
            <7>4. Upto(z, j) = z
              BY <6>2, <6>5 DEF Upto
            <7>5. Up(s, z) = Up(s, e)
              BY <3>1, <6>2, <6>3, UpBetween
            <7> DEFINE f == CountFrom(s, next, j)
            <7>6. u = rest + f /\ f = Up(s, j) - Up(s, e)
              BY <7>2, <7>3, <7>4, <7>5
            <7> HIDE DEF f
            <7>7. u = Up(s, j) - Up(s, i)
              BY <1>2, <5>2, <7>6
            <7> QED BY <7>7 DEF u
          <6> QED BY <6>4, <6>5
        <5> QED BY <5>3, <5>4
      <4> QED BY <4>2, <4>3
    <3> QED BY <3>5, <3>6
  <2> QED BY <2>9, <2>10
<1> QED BY <1>3, <1>4

\* Where the chunks' counts are right, count is the number of rows in the range, unless
\* the range ends in the first range of a chunk after the one it starts in: the only
\* case in which count is wrong.
THEOREM CountsOtherRowsAlways == Spec => []CountsOtherRows
<1>1. IInv => CountsOtherRows
  <2> SUFFICES ASSUME IInv, CountsVerified, NEW j \in 0 .. Bound, NEW i \in 0 .. j
               PROVE  \/ Count(data, i, j) = Cardinality({k \in rows : i <= k /\ k < j})
                      \/ \E c \in DOMAIN data :
                            c > Find(data, i)[1] /\ j \in data[c].begin + 1 .. data[c].data[1][2]
    BY DEF CountsOtherRows
  <2>1. Laid(data) /\ rows \in SUBSET Nat /\ \A x \in Nat : Has(data, x) <=> x \in rows
    BY Rows, HasIs DEF IInv
  <2>2. DOMAIN data = 1 .. Len(data)
    BY <2>1, LaidType
  <2>3. Counted(data)
    BY <2>2 DEF Counted, CountsVerified
  <2>4. i \in Nat /\ j \in Nat /\ i <= j
    BY BoundAssumption
  <2>5. \/ Count(data, i, j) = Up(data, j) - Up(data, i)
        \/ \E c \in 1 .. Len(data) : c > Find(data, i)[1] /\ j \in data[c].begin + 1 .. data[c].data[1][2]
    BY <2>1, <2>3, <2>4, CountIs
  <2>6. Up(data, j) - Up(data, i) = Cardinality({k \in rows : i <= k /\ k < j})
    <3> DEFINE n == Cardinality({k \in rows : i <= k /\ k < j})
    <3>1. /\ Below(rows, i) \in Nat /\ Below(rows, j) \in Nat
          /\ Below(rows, j) = Below(rows, i) + Cardinality({k \in rows : i <= k /\ k < j})
          /\ (\A k \in rows : ~(i <= k /\ k < j)) => Below(rows, j) = Below(rows, i)
          /\ (\A k \in Nat : i <= k /\ k < j => k \in rows) => Below(rows, j) - Below(rows, i) = j - i
      BY <2>1, <2>4, BelowBetween
    <3>2. {k \in Nat : Has(data, k)} = rows
      BY <2>1
    <3>3. Up(data, i) = Below(rows, i) /\ Up(data, j) = Below(rows, j)
      BY <3>2 DEF Up
    <3>4. n \in Nat
      <4>1. IsFiniteSet({k \in rows : i <= k /\ k < j})
        BY <2>1, Rows, FS_Subset DEF IInv
      <4> QED BY <4>1, FS_CardinalityType
    <3>5. Below(rows, j) = Below(rows, i) + n
      BY <3>1
    <3> HIDE DEF n
    <3>6. Up(data, j) - Up(data, i) = n
      BY <3>1, <3>3, <3>4, <3>5
    <3> QED BY <3>6 DEF n
  <2> QED BY <2>2, <2>5, <2>6
<1> QED BY <1>1, Inductive, PTL
=============================================================================
