--------------------------- MODULE NewsFeedProofs ---------------------------
(***************************************************************************)
(* The news screen, for every set of answers: the sections are the posts   *)
(* with known authors, and no section the table asks for is out of bounds. *)
(***************************************************************************)
EXTENDS NewsFeed, FiniteSetTheorems, TLAPS

\* A set of naturals that is not empty has a least member.
LEMMA LeastOf ==
  ASSUME NEW S \in SUBSET Nat, S # {}
  PROVE  \E m \in S : \A n \in S : m <= n
<1> DEFINE less == {p \in Nat \X Nat : p[1] < p[2]}
<1>1. IsWellFoundedOn(less, Nat)
  BY NatLessThanWellFounded DEF OpToRel
<1>2. \E m \in S : \A n \in S : ~ (<<n, m>> \in less)
  BY <1>1, WFMin
<1>3. PICK m \in S : \A n \in S : ~ (<<n, m>> \in less)
  BY <1>2
<1>4. \A n \in S : m <= n
  <2> SUFFICES ASSUME NEW n \in S PROVE m <= n
    OBVIOUS
  <2>1. m \in Nat /\ n \in Nat /\ ~(n < m)
    BY <1>3
  <2> QED BY <2>1
<1> QED BY <1>4

\* The first place of an identifier in a sequence, 0 when it is not there.
LEMMA FirstPlace ==
  ASSUME NEW seq \in Seq(Nat), NEW id \in Int,
         NEW at, at = SelectInSeq(seq, LAMBDA one : one = id)
  PROVE  \/ at = 0 /\ \A i \in DOMAIN seq : seq[i] # id
         \/ at \in DOMAIN seq /\ at # 0 /\ seq[at] = id
<1> DEFINE I == {i \in 1..Len(seq) : seq[i] = id}
<1>1. at = IF I # {} THEN Min(I) ELSE 0
  BY DEF SelectInSeq
<1>2. CASE I = {}
  BY <1>1, <1>2
<1>3. CASE I # {}
  <2>1. I \in SUBSET Nat
    OBVIOUS
  <2>2. \E m \in I : \A n \in I : m <= n
    BY <2>1, <1>3, LeastOf
  <2>3. Min(I) \in I
    BY <2>2 DEF Min
  <2> QED BY <1>1, <1>3, <2>3
<1> QED BY <1>2, <1>3

\* What the answers, and the screen before one, are made of.
LEMMA FeedParts ==
  ASSUME TypeOK
  PROVE  /\ feed.posts \in Seq(Int \cup {Nil})
         /\ feed.groups \in Seq(Nat) /\ feed.profiles \in Seq(Nat)
         /\ Len(feed.posts) \in Nat
<1>1. /\ NoFeed.posts \in Seq(Int \cup {Nil})
      /\ NoFeed.groups \in Seq(Nat) /\ NoFeed.profiles \in Seq(Nat)
  BY DEF NoFeed
<1>2. feed \in Feed \cup {NoFeed}
  BY DEF TypeOK
<1>3. /\ feed.posts \in Seq(Int \cup {Nil})
      /\ feed.groups \in Seq(Nat) /\ feed.profiles \in Seq(Nat)
  BY <1>1, <1>2, FeedAssumption
<1> QED BY <1>3

\* getCreator finds someone just when the author was sent along, and finds
\* the author.
LEMMA CreatorIsAuthor ==
  ASSUME TypeOK, NEW source \in Int \cup {Nil}
  PROVE  /\ HasCreator(source) <=> Known(source)
         /\ HasCreator(source) =>
              GetCreator(source) \in Creator /\ Wrote(GetCreator(source), source)
<1>1. feed.groups \in Seq(Nat) /\ feed.profiles \in Seq(Nat)
  BY FeedParts
<1>2. CASE source = Nil
  BY <1>2 DEF HasCreator, IndexOf, Known
<1>3. CASE source # Nil /\ source < 0
  <2>1. source \in Int /\ IdOf(source) = -source
    BY <1>3 DEF IdOf
  <2> DEFINE at == SelectInSeq(feed.groups, LAMBDA id : id = IdOf(source))
  <2>2. \/ at = 0 /\ \A i \in DOMAIN feed.groups : feed.groups[i] # IdOf(source)
        \/ at \in DOMAIN feed.groups /\ at # 0 /\ feed.groups[at] = IdOf(source)
    <3>1. IdOf(source) \in Int
      BY <2>1
    <3> HIDE DEF IdOf
    <3> QED BY <1>1, <3>1, FirstPlace
  <2>3. IndexOf(source) = at
    BY <1>3 DEF IndexOf
  <2> HIDE DEF at
  <2>4. \A i \in DOMAIN feed.profiles : feed.profiles[i] # source
    <3>1. \A i \in DOMAIN feed.profiles : feed.profiles[i] \in Nat
      BY <1>1
    <3> QED BY <3>1, <2>1, <1>3
  <2>5. HasCreator(source) <=> Known(source)
    BY <1>3, <2>1, <2>2, <2>3, <2>4 DEF HasCreator, Known
  <2>6. ASSUME HasCreator(source)
        PROVE  GetCreator(source) \in Creator /\ Wrote(GetCreator(source), source)
    <3>1. at \in Nat \ {0} /\ feed.groups[at] = -source
      BY <2>6, <2>1, <2>2, <2>3, <1>1 DEF HasCreator
    <3>2. GetCreator(source) = [of |-> "groups", at |-> at]
      BY <1>3, <2>3 DEF GetCreator
    <3> QED BY <3>1, <3>2 DEF Creator, Wrote
  <2> QED BY <2>5, <2>6
<1>4. CASE source # Nil /\ ~(source < 0)
  <2>1. source \in Int /\ IdOf(source) = source
    BY <1>4 DEF IdOf
  <2> DEFINE at == SelectInSeq(feed.profiles, LAMBDA id : id = IdOf(source))
  <2>2. \/ at = 0 /\ \A i \in DOMAIN feed.profiles : feed.profiles[i] # IdOf(source)
        \/ at \in DOMAIN feed.profiles /\ at # 0 /\ feed.profiles[at] = IdOf(source)
    <3>1. IdOf(source) \in Int
      BY <2>1
    <3> HIDE DEF IdOf
    <3> QED BY <1>1, <3>1, FirstPlace
  <2>3. IndexOf(source) = at
    BY <1>4 DEF IndexOf
  <2> HIDE DEF at
  <2>5. HasCreator(source) <=> Known(source)
    BY <1>4, <2>1, <2>2, <2>3 DEF HasCreator, Known
  <2>6. ASSUME HasCreator(source)
        PROVE  GetCreator(source) \in Creator /\ Wrote(GetCreator(source), source)
    <3>1. at \in Nat \ {0} /\ feed.profiles[at] = source
      BY <2>6, <2>1, <2>2, <2>3, <1>1 DEF HasCreator
    <3>2. GetCreator(source) = [of |-> "profiles", at |-> at]
      BY <1>4, <2>3 DEF GetCreator
    <3> QED BY <3>1, <3>2 DEF Creator, Wrote
  <2> QED BY <2>5, <2>6
<1> QED BY <1>2, <1>3, <1>4
-----------------------------------------------------------------------------
\* Before the answer there is nothing to read, and no block to read it.
Waiting ==
  /\ job = "none" <=> request # "answered"
  /\ request # "answered" => feed = NoFeed /\ next = 1 /\ sections = <<>>

\* An append is of a post of the feed whose author is known.
Appending ==
  job = "appending" => next <= Len(feed.posts) /\ Known(feed.posts[next])

\* The table was never told of a section that is not there or being added.
ToldIsThere == told <= Len(sections) + (IF job = "appending" THEN 1 ELSE 0)

IInv == TypeOK /\ Waiting /\ Appending /\ SectionsFollowFeed /\ ToldIsThere

\* The posts of a shorter stretch are among those of a longer one, and the
\* next post adds one if its author is known.
LEMMA KnownGrows ==
  ASSUME TypeOK, NEW n \in Nat
  PROVE  /\ IsFiniteSet(KnownUpTo(n)) /\ Cardinality(KnownUpTo(n)) \in Nat
         /\ n > 0 => KnownUpTo(n) = IF Known(feed.posts[n])
                                    THEN KnownUpTo(n - 1) \cup {n} ELSE KnownUpTo(n - 1)
         /\ n > 0 => Cardinality(KnownUpTo(n)) =
                       Cardinality(KnownUpTo(n - 1)) + (IF Known(feed.posts[n]) THEN 1 ELSE 0)
<1>1. \A k \in Int : IsFiniteSet(KnownUpTo(k)) /\ Cardinality(KnownUpTo(k)) \in Nat
  <2> SUFFICES ASSUME NEW k \in Int
               PROVE  IsFiniteSet(KnownUpTo(k)) /\ Cardinality(KnownUpTo(k)) \in Nat
    OBVIOUS
  <2>1. IsFiniteSet(1..k) /\ KnownUpTo(k) \in SUBSET (1..k)
    BY FS_Interval DEF KnownUpTo
  <2>2. IsFiniteSet(KnownUpTo(k))
    BY <2>1, FS_Subset
  <2> QED BY <2>2, FS_CardinalityType
<1>2. ASSUME n > 0
      PROVE  KnownUpTo(n) = IF Known(feed.posts[n])
                            THEN KnownUpTo(n - 1) \cup {n} ELSE KnownUpTo(n - 1)
  <2>1. 1..n = (1..(n - 1)) \cup {n}
    BY <1>2
  <2> QED BY <2>1 DEF KnownUpTo
<1>3. ASSUME n > 0
      PROVE  Cardinality(KnownUpTo(n)) =
               Cardinality(KnownUpTo(n - 1)) + (IF Known(feed.posts[n]) THEN 1 ELSE 0)
  <2>1. IsFiniteSet(KnownUpTo(n - 1)) /\ Cardinality(KnownUpTo(n - 1)) \in Nat
    BY <1>1
  <2>2. n \notin KnownUpTo(n - 1)
    BY DEF KnownUpTo
  <2>3. Cardinality(KnownUpTo(n - 1) \cup {n}) = Cardinality(KnownUpTo(n - 1)) + 1
    BY <2>1, <2>2, FS_AddElement
  <2>4. CASE Known(feed.posts[n])
    BY <1>2, <1>3, <2>3, <2>4
  <2>5. CASE ~Known(feed.posts[n])
    <3>1. KnownUpTo(n) = KnownUpTo(n - 1)
      BY <1>2, <1>3, <2>5
    <3> QED BY <3>1, <2>1, <2>5
  <2> QED BY <2>4, <2>5
<1> QED BY <1>1, <1>2, <1>3

\* The invariant holds in every state.
THEOREM Invariance == Spec => []IInv
<1>1. Init => IInv
  <2> SUFFICES ASSUME Init PROVE IInv
    OBVIOUS
  <2>1. Len(feed.posts) = 0 /\ Len(sections) = 0 /\ sections \in Seq(Creator)
    BY DEF Init, NoFeed
  <2>2. TypeOK
    BY <2>1 DEF Init, TypeOK
  <2>3. KnownUpTo(next - 1) = {} /\ Cardinality(KnownUpTo(next - 1)) = 0
    <3>1. KnownUpTo(next - 1) = {}
      BY DEF Init, KnownUpTo
    <3> QED BY <3>1, FS_EmptySet
  <2>4. SectionsFollowFeed
    BY <2>1, <2>3 DEF SectionsFollowFeed
  <2>5. Waiting /\ Appending /\ ToldIsThere
    BY <2>1 DEF Init, Waiting, Appending, ToldIsThere
  <2> QED BY <2>2, <2>4, <2>5 DEF IInv
<1>2. IInv /\ [Next]_vars => IInv'
  <2> SUFFICES ASSUME IInv, [Next]_vars PROVE IInv'
    OBVIOUS
  <2>t. TypeOK /\ Waiting /\ Appending /\ SectionsFollowFeed /\ ToldIsThere
    BY DEF IInv
  <2>l. /\ feed.posts \in Seq(Int \cup {Nil}) /\ Len(feed.posts) \in Nat
        /\ sections \in Seq(Creator) /\ Len(sections) \in Nat /\ next \in Nat \ {0}
        /\ Len(sections) < next /\ next <= Len(feed.posts) + 1
        /\ told \in Nat /\ asking \in Nat /\ asking <= told /\ told <= Len(feed.posts)
    <3>1. feed.posts \in Seq(Int \cup {Nil}) /\ Len(feed.posts) \in Nat
      BY <2>t, FeedParts
    <3>2. sections \in Seq(Creator) /\ Len(sections) \in Nat /\ Len(sections) < next
      BY <2>t DEF TypeOK
    <3>3. next \in 1..(Len(feed.posts) + 1) /\ told \in 0..Len(feed.posts) /\ asking \in 0..told
      BY <2>t DEF TypeOK
    <3>4. next \in Nat \ {0} /\ next <= Len(feed.posts) + 1
      BY <3>1, <3>3
    <3>5. told \in Nat /\ told <= Len(feed.posts)
      BY <3>1, <3>3
    <3>6. asking \in Nat /\ asking <= told
      BY <3>3, <3>5
    <3> QED BY <3>1, <3>2, <3>4, <3>5, <3>6
  <2>f. ASSUME feed' = feed, sections' = sections, next' = next PROVE SectionsFollowFeed'
    <3>1. \A i : (KnownUpTo(i))' = KnownUpTo(i)
      BY <2>f DEF KnownUpTo, Known
    <3>2. (KnownUpTo(next - 1))' = KnownUpTo(next - 1)
      BY <2>f DEF KnownUpTo, Known
    <3> QED BY <2>f, <2>t, <3>1, <3>2 DEF SectionsFollowFeed, Wrote
  <2>1. ASSUME NEW answer \in Feed, Respond(answer) PROVE IInv'
    <3>1. /\ feed' = answer /\ next' = 1 /\ sections' = <<>> /\ told' = 0 /\ asking' = 0
          /\ job' = "loop" /\ request' = "answered" /\ alive' = alive /\ needed' = needed
      <4>1. told = 0
        BY <2>1, <2>t, <2>l DEF Respond, Waiting, NoFeed
      <4> QED BY <4>1, <2>1, <2>t, <2>l DEF Respond, Waiting, table
    <3>2. Len(sections') = 0 /\ sections' \in Seq(Creator) /\ Len(answer.posts) \in Nat
      BY <3>1, FeedAssumption
    <3>3. TypeOK'
      BY <3>1, <3>2, <2>t DEF TypeOK
    <3>4. (KnownUpTo(next - 1))' = {} /\ Cardinality((KnownUpTo(next - 1))') = 0
      <4>1. (KnownUpTo(next - 1))' = {}
        BY <3>1 DEF KnownUpTo
      <4> QED BY <4>1, FS_EmptySet
    <3>5. SectionsFollowFeed'
      BY <3>2, <3>4 DEF SectionsFollowFeed
    <3>6. Waiting' /\ Appending' /\ ToldIsThere'
      BY <3>1, <3>2 DEF Waiting, Appending, ToldIsThere
    <3> QED BY <3>3, <3>5, <3>6 DEF IInv
  <2>2. CASE Fail
    <3>1. /\ UNCHANGED <<alive, feed, job, next, sections, needed, told, asking>>
          /\ request = "inflight" /\ request' = "failed"
      BY <2>2 DEF Fail, table
    <3>2. TypeOK'
      BY <3>1, <2>t DEF TypeOK
    <3>3. Waiting' /\ ToldIsThere'
      BY <3>1, <2>t DEF Waiting, ToldIsThere
    <3>4. Appending'
      BY <3>1, <2>t DEF Waiting, Appending
    <3> QED BY <3>1, <3>2, <3>3, <3>4, <2>f DEF IInv
  <2>3. CASE SkipPost
    <3>1. /\ UNCHANGED <<alive, request, feed, job, sections, needed, told, asking>>
          /\ job = "loop" /\ next' = next + 1 /\ next <= Len(feed.posts)
          /\ ~HasCreator(feed.posts[next])
      BY <2>3 DEF SkipPost, InLoop, table
    <3>2. TypeOK'
      BY <3>1, <2>t, <2>l DEF TypeOK
    <3>3. Waiting' /\ Appending' /\ ToldIsThere'
      BY <3>1, <2>t DEF Waiting, Appending, ToldIsThere
    <3>4. ~Known(feed.posts[next])
      <4>1. feed.posts[next] \in Int \cup {Nil}
        BY <3>1, <2>l
      <4> QED BY <4>1, <3>1, <2>t, CreatorIsAuthor
    <3>5. KnownUpTo(next) = KnownUpTo(next - 1)
      BY <3>4, <2>t, <2>l, KnownGrows
    <3>6. (KnownUpTo(next - 1))' = KnownUpTo(next - 1)
      <4>1. next' - 1 = next
        BY <3>1, <2>l
      <4>2. (KnownUpTo(next - 1))' = KnownUpTo(next)
        BY <3>1, <4>1 DEF KnownUpTo, Known
      <4> QED BY <3>5, <4>2
    <3>7. SectionsFollowFeed'
      <4>1. \A i : (KnownUpTo(i))' = KnownUpTo(i)
        BY <3>1 DEF KnownUpTo, Known
      <4> QED BY <3>1, <3>6, <4>1, <2>t DEF SectionsFollowFeed, Wrote
    <3> QED BY <3>2, <3>3, <3>7 DEF IInv
  <2>4. CASE AppendBegin
    <3>1. /\ UNCHANGED <<alive, request, feed, next, sections, needed, told, asking>>
          /\ job = "loop" /\ job' = "appending" /\ next <= Len(feed.posts)
          /\ HasCreator(feed.posts[next])
      BY <2>4 DEF AppendBegin, InLoop, table
    <3>2. TypeOK'
      BY <3>1, <2>t DEF TypeOK
    <3>3. Waiting'
      BY <3>1, <2>t DEF Waiting
    <3>4. Appending'
      <4>1. feed.posts[next] \in Int \cup {Nil}
        BY <3>1, <2>l
      <4>2. Known(feed.posts[next])
        BY <4>1, <3>1, <2>t, CreatorIsAuthor
      <4> QED BY <4>2, <3>1 DEF Appending, Known
    <3>5. ToldIsThere'
      BY <3>1, <2>t, <2>l DEF ToldIsThere
    <3> QED BY <3>1, <3>2, <3>3, <3>4, <3>5, <2>f DEF IInv
  <2>5. CASE AppendEnd
    <3> DEFINE post == feed.posts[next]
    <3>1. /\ UNCHANGED <<alive, request, feed, needed, told, asking>>
          /\ job = "appending" /\ job' = "loop" /\ next' = next + 1
          /\ sections' = Append(sections, GetCreator(post))
      BY <2>5 DEF AppendEnd, table
    <3>2. next <= Len(feed.posts) /\ Known(post)
      BY <3>1, <2>t DEF Appending
    <3>3. post \in Int \cup {Nil}
      BY <3>2, <2>l
    <3>4. GetCreator(post) \in Creator /\ Wrote(GetCreator(post), post)
      BY <3>2, <3>3, <2>t, CreatorIsAuthor
    <3>5. /\ sections' \in Seq(Creator) /\ Len(sections') = Len(sections) + 1
          /\ \A k \in 1..Len(sections) : sections'[k] = sections[k]
          /\ sections'[Len(sections) + 1] = GetCreator(post)
      <4>1. GetCreator(post) \in Creator
        BY <3>4
      <4> HIDE DEF post
      <4> QED BY <3>1, <4>1, <2>l
    <3>6. TypeOK'
      BY <3>1, <3>2, <3>5, <2>t, <2>l DEF TypeOK
    <3>7. Waiting' /\ Appending'
      BY <3>1, <2>t DEF Waiting, Appending
    <3>8. ToldIsThere'
      BY <3>1, <3>5, <2>t, <2>l DEF ToldIsThere
    <3>9. /\ KnownUpTo(next) = KnownUpTo(next - 1) \cup {next}
          /\ Cardinality(KnownUpTo(next)) = Len(sections) + 1
      <4>1. Cardinality(KnownUpTo(next - 1)) = Len(sections)
        BY <2>t DEF SectionsFollowFeed
      <4>2. KnownUpTo(next) = KnownUpTo(next - 1) \cup {next}
        BY <3>2, <2>t, <2>l, KnownGrows
      <4>3. Cardinality(KnownUpTo(next)) = Cardinality(KnownUpTo(next - 1)) + 1
        BY <3>2, <2>t, <2>l, KnownGrows
      <4> QED BY <4>1, <4>2, <4>3
    <3>10. \A n \in Nat : (KnownUpTo(n))' = KnownUpTo(n)
      BY <3>1 DEF KnownUpTo, Known
    <3>11. next' - 1 = next
      BY <3>1, <2>l
    <3>12. ASSUME NEW i \in KnownUpTo(next)
           PROVE  Wrote(sections'[Cardinality(KnownUpTo(i))], feed.posts[i])
      <4>1. CASE i = next
        BY <4>1, <3>4, <3>5, <3>9
      <4>2. CASE i # next
        <5>1. i \in KnownUpTo(next - 1)
          BY <4>2, <3>9
        <5>2. i \in Nat \ {0} /\ i <= next - 1 /\ Known(feed.posts[i])
          BY <5>1, <2>l DEF KnownUpTo
        <5>3. Cardinality(KnownUpTo(i)) \in 1..Len(sections)
          <6>1. /\ Cardinality(KnownUpTo(i)) = Cardinality(KnownUpTo(i - 1)) + 1
                /\ Cardinality(KnownUpTo(i)) \in Nat
            BY <5>2, <2>t, KnownGrows
          <6>2. Cardinality(KnownUpTo(i - 1)) \in Nat
            <7>1. i - 1 \in Nat
              BY <5>2
            <7> QED BY <7>1, <2>t, KnownGrows
          <6>3. Cardinality(KnownUpTo(i)) <= Cardinality(KnownUpTo(next - 1))
            <7>1. next - 1 \in Nat
              BY <2>l
            <7>2. IsFiniteSet(KnownUpTo(next - 1))
              BY <7>1, <2>t, KnownGrows
            <7>3. KnownUpTo(i) \in SUBSET KnownUpTo(next - 1)
              BY <5>2, <7>1 DEF KnownUpTo
            <7> QED BY <7>2, <7>3, FS_Subset
          <6>4. Cardinality(KnownUpTo(next - 1)) = Len(sections)
            BY <2>t DEF SectionsFollowFeed
          <6> QED BY <6>1, <6>2, <6>3, <6>4, <2>l
        <5>4. sections'[Cardinality(KnownUpTo(i))] = sections[Cardinality(KnownUpTo(i))]
          BY <5>3, <3>5
        <5> QED BY <5>1, <5>4, <2>t DEF SectionsFollowFeed
      <4> QED BY <4>1, <4>2
    <3>13. SectionsFollowFeed'
      <4>1. (KnownUpTo(next - 1))' = KnownUpTo(next)
        BY <3>1, <3>11 DEF KnownUpTo, Known
      <4>2. ASSUME NEW i \in KnownUpTo(next)
            PROVE  (Wrote(sections[Cardinality(KnownUpTo(i))], feed.posts[i]))'
        <5>1. i \in Nat
          BY <2>l DEF KnownUpTo
        <5>2. (KnownUpTo(i))' = KnownUpTo(i)
          BY <5>1, <3>10
        <5> QED BY <5>2, <3>12, <3>1 DEF Wrote
      <4> QED BY <4>1, <4>2, <3>5, <3>9 DEF SectionsFollowFeed
    <3> QED BY <3>6, <3>7, <3>8, <3>13 DEF IInv
  <2>6. CASE EndLoop
    <3>1. /\ UNCHANGED <<alive, request, feed, next, sections, needed, told, asking>>
          /\ job = "loop" /\ job' = "reload"
      BY <2>6 DEF EndLoop, table
    <3>2. TypeOK' /\ Waiting' /\ Appending' /\ ToldIsThere'
      BY <3>1, <2>t DEF TypeOK, Waiting, Appending, Known, ToldIsThere
    <3> QED BY <3>1, <3>2, <2>f DEF IInv
  <2>7. CASE Reload
    <3>1. /\ UNCHANGED <<request, feed, next, sections, told, asking>>
          /\ job = "reload" /\ job' \in {"reload", "done"}
          /\ alive' \in BOOLEAN /\ needed' \in BOOLEAN
      BY <2>7, <2>t DEF Reload, TypeOK
    <3>2. TypeOK' /\ Waiting' /\ Appending' /\ ToldIsThere'
      BY <3>1, <2>t DEF TypeOK, Waiting, Appending, Known, ToldIsThere
    <3> QED BY <3>1, <3>2, <2>f DEF IInv
  <2>8. CASE LayoutBegin
    <3>1. /\ UNCHANGED <<alive, request, feed, job, next, sections>>
          /\ needed' = FALSE /\ told' \in Counts
          /\ asking' = IF told' = 0 THEN 0 ELSE 1
      BY <2>8 DEF LayoutBegin
    <3>2. /\ told' \in Nat
          /\ told' <= Len(sections) + (IF job = "appending" THEN 1 ELSE 0)
      BY <3>1, <2>l DEF Counts
    <3>3. told' <= Len(feed.posts) /\ asking' \in 0..told'
      <4>1. job = "appending" => next <= Len(feed.posts)
        BY <2>t DEF Appending
      <4>2. told' <= Len(feed.posts)
        BY <3>2, <4>1, <2>l
      <4> QED BY <3>1, <3>2, <4>2
    <3>4. TypeOK'
      <4>1. told' \in 0..Len(feed.posts)
        BY <3>2, <3>3, <2>l
      <4> QED BY <3>1, <3>3, <4>1, <2>t DEF TypeOK
    <3>5. Waiting'
      BY <3>1, <2>t DEF Waiting
    <3>6. Appending'
      BY <3>1, <2>t DEF Appending, Known
    <3>7. ToldIsThere'
      BY <3>1, <3>2 DEF ToldIsThere
    <3> QED BY <3>1, <3>4, <3>5, <3>6, <3>7, <2>f DEF IInv
  <2>9. CASE LayoutRows
    <3>1. /\ UNCHANGED <<alive, request, feed, job, next, sections, needed, told>>
          /\ asking # 0 /\ asking' = IF asking = told THEN 0 ELSE asking + 1
      BY <2>9 DEF LayoutRows
    <3>2. asking' \in 0..told
      BY <3>1, <2>l
    <3>3. TypeOK'
      BY <3>1, <3>2, <2>t DEF TypeOK
    <3>4. Waiting' /\ ToldIsThere'
      BY <3>1, <2>t DEF Waiting, ToldIsThere
    <3>5. Appending'
      BY <3>1, <2>t DEF Appending, Known
    <3> QED BY <3>1, <3>3, <3>4, <3>5, <2>f DEF IInv
  <2>10. CASE ReadTorn \/ UNCHANGED vars
    <3>1. /\ UNCHANGED <<request, feed, job, next, sections, needed, told, asking>>
          /\ alive' \in BOOLEAN
      BY <2>10, <2>t DEF ReadTorn, vars, table, TypeOK
    <3>2. TypeOK' /\ Waiting' /\ ToldIsThere'
      BY <3>1, <2>t DEF TypeOK, Waiting, ToldIsThere
    <3>3. Appending'
      BY <3>1, <2>t DEF Appending, Known
    <3> QED BY <3>1, <3>2, <3>3, <2>f DEF IInv
  <2> QED BY <2>1, <2>2, <2>3, <2>4, <2>5, <2>6, <2>7, <2>8, <2>9, <2>10
     DEF Next, Network, Global, Main
<1> QED BY <1>1, <1>2, PTL DEF Spec

\* Every variable of the news screen keeps its type.
THEOREM TypeCorrect == Spec => []TypeOK
<1>1. IInv => TypeOK
  BY DEF IInv
<1> QED BY <1>1, Invariance, PTL

\* The sections are the posts read so far whose author is known, in the order
\* of the feed, each with its author, whatever the answer holds.
THEOREM SectionsAreTheFeed == Spec => []SectionsFollowFeed
<1>1. IInv => SectionsFollowFeed
  BY DEF IInv
<1> QED BY <1>1, Invariance, PTL

\* However the layout on the main thread falls among the appends on the global
\* queue, the table asks for no section beyond those there or being added.
THEOREM NoSectionOutOfBounds == Spec => []LayoutStaysInBounds
<1>1. IInv => LayoutStaysInBounds
  <2> SUFFICES ASSUME IInv PROVE LayoutStaysInBounds
    OBVIOUS
  <2>1. asking \in Nat /\ told \in Nat /\ asking <= told /\ Len(sections) \in Nat
    BY FeedParts DEF IInv, TypeOK
  <2>2. told <= Len(sections) + (IF job = "appending" THEN 1 ELSE 0)
    BY DEF IInv, ToldIsThere
  <2> QED BY <2>1, <2>2 DEF LayoutStaysInBounds, Counts
<1> QED BY <1>1, Invariance, PTL
=============================================================================
