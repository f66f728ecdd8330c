--------------------------- MODULE FriendsProofs ---------------------------
(***************************************************************************)
(* The friends screen, for every set of friends, order of object keys,     *)
(* size of the important section and set of search texts.                  *)
(***************************************************************************)
EXTENDS Friends, FiniteSetTheorems, TLAPS

-----------------------------------------------------------------------------
(***************************************************************************)
(* What the positions of a Realm notification are, for every finite        *)
(* collection and every key.                                               *)
(***************************************************************************)

\* A key that orders the objects of a collection.
Orders(key, S) ==
  /\ \A f \in S : key[f] \in Nat
  /\ \A f, g \in S : key[f] = key[g] => f = g

\* An object's position is a row of its collection: no notification names a
\* row that the version it speaks of does not have.
THEOREM PositionIsARow ==
  ASSUME NEW S, IsFiniteSet(S), NEW key, Orders(key, S), NEW f \in S
  PROVE  Position(key, f, S) \in Nat /\ Position(key, f, S) < Cardinality(S)
<1> DEFINE Before == {g \in S : key[g] < key[f]}
<1>1. Before \in SUBSET S /\ f \notin Before
  BY DEF Orders
<1>2. /\ IsFiniteSet(Before)
      /\ Cardinality(Before) <= Cardinality(S)
      /\ Cardinality(Before) # Cardinality(S)
  BY <1>1, FS_Subset
<1>3. Cardinality(Before) \in Nat /\ Cardinality(S) \in Nat
  BY <1>2, FS_CardinalityType
<1> QED BY <1>2, <1>3 DEF Position

\* Of two objects the one with the smaller key comes first.
LEMMA PositionFollowsKey ==
  ASSUME NEW S, IsFiniteSet(S), NEW key, Orders(key, S),
         NEW f \in S, NEW g \in S, key[f] < key[g]
  PROVE  Position(key, f, S) < Position(key, g, S)
<1> DEFINE BeforeF == {h \in S : key[h] < key[f]}
           BeforeG == {h \in S : key[h] < key[g]}
<1>1. BeforeF \in SUBSET BeforeG /\ f \in BeforeG /\ f \notin BeforeF
  BY DEF Orders
<1>2. IsFiniteSet(BeforeG)
  BY FS_Subset
<1>3. /\ IsFiniteSet(BeforeF)
      /\ Cardinality(BeforeF) <= Cardinality(BeforeG)
      /\ Cardinality(BeforeF) # Cardinality(BeforeG)
  BY <1>1, <1>2, FS_Subset
<1>4. Cardinality(BeforeF) \in Nat /\ Cardinality(BeforeG) \in Nat
  BY <1>2, <1>3, FS_CardinalityType
<1> QED BY <1>3, <1>4 DEF Position

\* No two objects share a row.
LEMMA PositionIsInjective ==
  ASSUME NEW S, IsFiniteSet(S), NEW key, Orders(key, S),
         NEW f \in S, NEW g \in S, Position(key, f, S) = Position(key, g, S)
  PROVE  f = g
<1>1. SUFFICES ASSUME key[f] # key[g] PROVE FALSE
  BY DEF Orders
<1>2. Position(key, f, S) \in Nat
  BY PositionIsARow
<1>3. CASE key[f] < key[g]
  BY <1>2, <1>3, PositionFollowsKey
<1>4. CASE key[g] < key[f]
  BY <1>2, <1>4, PositionFollowsKey
<1> QED BY <1>1, <1>3, <1>4 DEF Orders

\* A notification has one row for each object it speaks of.
THEOREM PositionsCount ==
  ASSUME NEW S, IsFiniteSet(S), NEW key, Orders(key, S), NEW F \in SUBSET S
  PROVE  Cardinality(Positions(key, F, S)) = Cardinality(F)
<1> DEFINE P == Positions(key, F, S)
           m == [f \in F |-> Position(key, f, S)]
<1>1. IsFiniteSet(F)
  BY FS_Subset
<1>2. m \in Surjection(F, P)
  BY DEF Surjection, Positions
<1>3. m \in Injection(F, P)
  <2>1. \A f, g \in F : m[f] = m[g] => f = g
    BY PositionIsInjective
  <2> QED BY <1>2, <2>1 DEF Injection, IsInjective, Surjection
<1>4. ExistsBijection(F, P)
  BY <1>2, <1>3 DEF ExistsBijection, Bijection
<1> QED BY <1>1, <1>4, FS_Bijection

\* A collection that grew: its notification inserts as many rows as it gained
\* and deletes none.
THEOREM GrowthCounts ==
  ASSUME NEW new, IsFiniteSet(new), NEW old \in SUBSET new,
         NEW written, NEW key, Orders(key, new)
  PROVE  /\ Changes(key, old, new, written).deletions = {}
         /\ Cardinality(new) =
              Cardinality(old) + Cardinality(Changes(key, old, new, written).insertions)
<1>1. /\ Cardinality(new \ old) = Cardinality(new) - Cardinality(old)
      /\ Cardinality(old) \in Nat /\ Cardinality(new) \in Nat
  <2>1. new \cap old = old
    OBVIOUS
  <2>2. IsFiniteSet(old)
    BY FS_Subset
  <2> QED BY <2>1, <2>2, FS_Difference, FS_CardinalityType
<1>2. Cardinality(Positions(key, new \ old, new)) = Cardinality(new \ old)
  BY PositionsCount
<1>3. Positions(key, old \ new, old) = {}
  BY DEF Positions
<1>4. /\ Changes(key, old, new, written).deletions = Positions(key, old \ new, old)
      /\ Changes(key, old, new, written).insertions = Positions(key, new \ old, new)
  BY DEF Changes
<1>5. Cardinality(new) = Cardinality(old) + Cardinality(new \ old)
  BY <1>1
<1> QED BY <1>2, <1>3, <1>4, <1>5
-----------------------------------------------------------------------------
(***************************************************************************)
(* Row counts.                                                             *)
(***************************************************************************)
\* A list is about friends, of whom there are finitely many.
LEMMA ListIsFinite ==
  ASSUME NEW list \in List
  PROVE  /\ DOMAIN list \in SUBSET Friend
         /\ IsFiniteSet(DOMAIN list)
         /\ Cardinality(DOMAIN list) \in Nat
<1>1. DOMAIN list \in SUBSET Friend
  BY DEF List
<1> QED BY <1>1, FriendAssumption, FS_Subset, FS_CardinalityType

\* The friends a search finds are some of those on the list.
LEMMA FilteredIsFinite ==
  ASSUME NEW list \in List, NEW text \in Text
  PROVE  /\ IsFiniteSet(Filtered(list, text))
         /\ Cardinality(Filtered(list, text)) \in Nat
<1>1. Filtered(list, text) \in SUBSET DOMAIN list
  BY DEF Filtered
<1> QED BY <1>1, ListIsFinite, FS_Subset, FS_CardinalityType

\* The empty list, and a list that an answer is added to, are lists.
LEMMA EmptyListType == EmptyList \in List /\ DOMAIN EmptyList = {}
<1>1. EmptyList \in [{} -> Name] /\ {} \in SUBSET Friend
  BY DEF EmptyList
<1> QED BY <1>1 DEF List

LEMMA UpsertType ==
  ASSUME NEW list \in List, NEW friends \in List
  PROVE  /\ Upsert(list, friends) \in List
         /\ DOMAIN Upsert(list, friends) = DOMAIN list \cup DOMAIN friends
         /\ \A f \in DOMAIN list \ DOMAIN friends : Upsert(list, friends)[f] = list[f]
<1>1. PICK F \in SUBSET Friend, G \in SUBSET Friend :
        list \in [F -> Name] /\ friends \in [G -> Name]
  BY DEF List
<1>2. Upsert(list, friends) \in [F \cup G -> Name] /\ F \cup G \in SUBSET Friend
  BY <1>1 DEF Upsert
<1> QED BY <1>1, <1>2 DEF List, Upsert

\* The data source answers with row counts.
LEMMA RowsOfType ==
  ASSUME NEW list \in List, NEW text \in Text \cup {NoText}
  PROVE  RowsOf(list, text) \in Seq(Nat)
<1>1. CASE text = NoText
  <2>1. Cardinality(DOMAIN list) \in Nat
    BY ListIsFinite
  <2>2. ClippedCount(Cardinality(DOMAIN list)) \in Nat
    BY <2>1, ImportantAssumption DEF ClippedCount
  <2> QED BY <1>1, <2>1, <2>2 DEF RowsOf
<1>2. CASE text # NoText
  <2>1. Cardinality(Filtered(list, text)) \in Nat
    BY <1>2, FilteredIsFinite
  <2> QED BY <1>2, <2>1 DEF RowsOf
<1> QED BY <1>1, <1>2
-----------------------------------------------------------------------------
(***************************************************************************)
(* The main queue.                                                         *)
(***************************************************************************)
KindsOf(q) == {q[i].kind : i \in DOMAIN q}

Distinct(q) == \A i, j \in DOMAIN q : q[i].kind = q[j].kind => i = j

\* Queueing an answer of a kind that is not waiting keeps the kinds distinct.
LEMMA AppendKinds ==
  ASSUME NEW q \in Seq(Answer), NEW a \in Answer
  PROVE  /\ Append(q, a) \in Seq(Answer)
         /\ KindsOf(Append(q, a)) = KindsOf(q) \cup {a.kind}
         /\ Distinct(q) /\ a.kind \notin KindsOf(q) => Distinct(Append(q, a))
<1> DEFINE r == Append(q, a)
<1>1. /\ r \in Seq(Answer) /\ Len(r) = Len(q) + 1 /\ Len(q) \in Nat
      /\ r[Len(q) + 1] = a /\ \A i \in 1..Len(q) : r[i] = q[i]
      /\ DOMAIN q = 1..Len(q) /\ DOMAIN r = 1..(Len(q) + 1)
  OBVIOUS
<1> HIDE DEF r
<1>2. KindsOf(r) = KindsOf(q) \cup {a.kind}
  BY <1>1 DEF KindsOf
<1>3. ASSUME Distinct(q), a.kind \notin KindsOf(q)
      PROVE  Distinct(r)
  BY <1>1, <1>3 DEF KindsOf, Distinct
<1> QED BY <1>1, <1>2, <1>3 DEF r

\* Taking the oldest answer removes its kind, when kinds are distinct.
LEMMA TailKinds ==
  ASSUME NEW q \in Seq(Answer), q # <<>>
  PROVE  /\ Tail(q) \in Seq(Answer)
         /\ Head(q) \in Answer
         /\ Head(q).kind \in KindsOf(q)
         /\ Distinct(q) => /\ KindsOf(Tail(q)) = KindsOf(q) \ {Head(q).kind}
                           /\ Distinct(Tail(q))
<1> DEFINE r == Tail(q)
<1>1. /\ r \in Seq(Answer) /\ Len(q) \in Nat /\ Len(q) > 0 /\ Len(r) = Len(q) - 1
      /\ Head(q) = q[1] /\ \A i \in 1..Len(r) : r[i] = q[i + 1]
      /\ DOMAIN q = 1..Len(q) /\ DOMAIN r = 1..(Len(q) - 1)
      /\ Head(q) \in Answer
  OBVIOUS
<1> HIDE DEF r
<1>2. Head(q).kind \in KindsOf(q)
  BY <1>1 DEF KindsOf
<1>3. ASSUME Distinct(q)
      PROVE  KindsOf(r) = KindsOf(q) \ {Head(q).kind} /\ Distinct(r)
  <2>1. Distinct(r)
    <3>1. SUFFICES ASSUME NEW i \in DOMAIN r, NEW j \in DOMAIN r,
                          r[i].kind = r[j].kind
                   PROVE  i = j
      BY DEF Distinct
    <3>2. /\ i + 1 \in DOMAIN q /\ j + 1 \in DOMAIN q
          /\ r[i] = q[i + 1] /\ r[j] = q[j + 1]
      BY <1>1
    <3>3. i + 1 = j + 1
      BY <1>3, <3>1, <3>2 DEF Distinct
    <3> QED BY <1>1, <3>3
  <2>2. KindsOf(r) \subseteq KindsOf(q) \ {Head(q).kind}
    <3>1. SUFFICES ASSUME NEW i \in DOMAIN r
                   PROVE  r[i].kind \in KindsOf(q) /\ r[i].kind # q[1].kind
      BY <1>1 DEF KindsOf
    <3>2. i + 1 \in DOMAIN q /\ 1 \in DOMAIN q /\ i + 1 # 1 /\ r[i] = q[i + 1]
      BY <1>1
    <3> QED BY <1>3, <3>2 DEF KindsOf, Distinct
  <2>3. ASSUME NEW k \in KindsOf(q), k # Head(q).kind
        PROVE  k \in KindsOf(r)
    <3>1. PICK i \in DOMAIN q : k = q[i].kind
      BY DEF KindsOf
    <3>2. i - 1 \in DOMAIN r /\ r[i - 1] = q[i]
      BY <1>1, <2>3, <3>1
    <3> QED BY <3>1, <3>2 DEF KindsOf
  <2> QED BY <2>1, <2>2, <2>3
<1> QED BY <1>1, <1>2, <1>3 DEF r
-----------------------------------------------------------------------------
(***************************************************************************)
(* The inductive invariant.  The three invariants of the runs need two     *)
(* facts more: an `.initial` call still to come means that nothing was     *)
(* written since viewDidLoad, and a list emptied behind the table's back   *)
(* is being refreshed.                                                     *)
(***************************************************************************)
InitialSeesAll == Running /\ open /\ initial => seen = store /\ touched = {}

ClearedListIsRefreshing ==
  Running /\ open /\ store = EmptyList /\ seen # EmptyList => refreshing

IInv ==
  /\ TypeOK
  /\ TableOneCommitBehind
  /\ OneCommitPerNotification
  /\ OneLoadPerKind
  /\ InitialSeesAll
  /\ ClearedListIsRefreshing

\* The part of the invariant about the list and the table.
ListInv ==
  /\ TableOneCommitBehind
  /\ OneCommitPerNotification
  /\ InitialSeesAll

\* A delivered notification leaves the table at the version it announces.
LEMMA DeliveryCatchesUp ==
  ASSUME TypeOK, ListInv, Running, open
  PROVE  /\ ShownAfterDelivery = RowsOf(store, search)
         /\ ShownAfterDelivery \in Seq(Nat)
<1>1. ShownAfterDelivery = RowsOf(store, search)
  <2>1. CASE Changed
    BY <2>1 DEF ShownAfterDelivery
  <2>2. CASE ~Changed
    <3>1. seen = store
      BY <2>2 DEF Changed, ListInv, InitialSeesAll, TypeOK
    <3> QED BY <2>2, <3>1 DEF ShownAfterDelivery, ListInv, TableOneCommitBehind
  <2> QED BY <2>1, <2>2
<1> QED BY <1>1, RowsOfType DEF TypeOK

\* What a write reports modified was stored, and takes in what it writes again.
LEMMA RewrittenFriends ==
  ASSUME NEW written, NEW S \in Rewritten(written)
  PROVE  S \subseteq DOMAIN store /\ written \cap DOMAIN store \subseteq S
BY DEF Rewritten

\* What realm.write leaves behind, whether it commits, throws, finds no Realm
\* or ends the process.
LEMMA WriteTypes ==
  ASSUME TypeOK, ListInv, Running,
         NEW content \in List, NEW written \in SUBSET Friend,
         Write(content, written)
  PROVE  /\ app' \in {"running", "batchUpdate"}
         /\ store' \in List /\ seen' \in List
         /\ touched' \subseteq Friend /\ initial' \in BOOLEAN
         /\ shown' \in Seq(Nat)
<1>1. CASE open /\ BatchesAccepted
  <2>1. shown' \in Seq(Nat)
    BY <1>1, DeliveryCatchesUp DEF Write
  <2>2. DOMAIN store \subseteq Friend
    BY DEF TypeOK, List
  <2>3. touched' \subseteq Friend
    BY <1>1, <2>2, RewrittenFriends DEF Write
  <2> QED BY <1>1, <2>1, <2>3 DEF Write, TypeOK, Running
<1>2. CASE open /\ ~BatchesAccepted
  BY <1>2 DEF Write, TypeOK, observed
<1>3. CASE ~open
  BY <1>3 DEF Write, TypeOK, observed, Running
<1> QED BY <1>1, <1>2, <1>3

\* The content of a write that adds the friends of written.
Grows(content, written) ==
  /\ DOMAIN store \subseteq DOMAIN content
  /\ \A f \in DOMAIN store \ written : content[f] = store[f]

\* A write that clears the list or lets it grow keeps the table one commit
\* behind, and the pending notification about one commit.
LEMMA WriteKeepsList ==
  ASSUME TypeOK, ListInv, Running,
         NEW content \in List, NEW written \in SUBSET Friend,
         content = EmptyList \/ Grows(content, written),
         Write(content, written), UNCHANGED <<open, search>>
  PROVE  ListInv'
<1>1. CASE open /\ BatchesAccepted
  <2>1. shown' = RowsOf(store, search) /\ seen' = store /\ ~initial'
    BY <1>1, DeliveryCatchesUp DEF Write
  <2>2. shown' = RowsOf(seen', search')
    BY <2>1
  <2>3. \/ store' = EmptyList
        \/ /\ DOMAIN seen' \subseteq DOMAIN store' /\ touched' \subseteq DOMAIN seen'
           /\ \A f \in DOMAIN seen' \ touched' : store'[f] = seen'[f]
    <3>1. CASE store' = content /\ touched' \in Rewritten(written)
      <4>1. touched' \subseteq DOMAIN store /\ written \cap DOMAIN store \subseteq touched'
        BY <3>1, RewrittenFriends
      <4> QED BY <2>1, <3>1, <4>1 DEF Grows
    <3>2. CASE store' = store /\ touched' = {}
      BY <2>1, <3>2
    <3> QED BY <1>1, <3>1, <3>2 DEF Write
  <2> QED
    BY <2>1, <2>2, <2>3
    DEF ListInv, TableOneCommitBehind, OneCommitPerNotification, InitialSeesAll
<1>2. CASE open /\ ~BatchesAccepted
  BY <1>2 DEF Write, Running, ListInv, TableOneCommitBehind,
              OneCommitPerNotification, InitialSeesAll
<1>3. CASE ~open
  BY <1>3 DEF Write, Running, ListInv, TableOneCommitBehind,
              OneCommitPerNotification, InitialSeesAll
<1> QED BY <1>1, <1>2, <1>3
-----------------------------------------------------------------------------
\* OneLoadPerKind in terms of the lemmas about the main queue.
LEMMA OneLoadIsDistinct ==
  OneLoadPerKind <=>
    (Running => /\ inflight \cap KindsOf(mainQueue) = {}
                /\ Distinct(mainQueue)
                /\ "refresh" \in inflight \cup KindsOf(mainQueue) => refreshing)
BY DEF OneLoadPerKind, Outstanding, Waiting, KindsOf, Distinct, Running

\* The invariant holds when the screen is first shown.
LEMMA InitIInv == Init => IInv
<1> SUFFICES ASSUME Init PROVE IInv
  OBVIOUS
<1>1. TypeOK
  <2>1. RowsOf(EmptyList, NoText) \in Seq(Nat)
    BY RowsOfType, EmptyListType
  <2>2. mainQueue \in Seq(Answer)
    BY DEF Init
  <2> QED BY <2>1, <2>2, EmptyListType DEF Init, TypeOK, Kind
<1>2. TableOneCommitBehind /\ OneCommitPerNotification /\ InitialSeesAll
  BY DEF Init, TableOneCommitBehind, OneCommitPerNotification, InitialSeesAll
<1>3. OneLoadPerKind
  BY DEF Init, OneLoadPerKind, Outstanding, Waiting
<1>4. ClearedListIsRefreshing
  BY DEF Init, ClearedListIsRefreshing
<1> QED BY <1>1, <1>2, <1>3, <1>4 DEF IInv

\* A delivery keeps the invariant.
LEMMA DeliverIInv == IInv /\ Deliver => IInv'
<1> SUFFICES ASSUME IInv, Deliver PROVE IInv'
  OBVIOUS
<1> USE DEF Deliver, observed, requests
<1>1. ListInv /\ TypeOK /\ Running /\ open
  BY DEF IInv, ListInv
<1>2. /\ ShownAfterDelivery = RowsOf(store, search)
      /\ ShownAfterDelivery \in Seq(Nat)
  BY <1>1, DeliveryCatchesUp
<1>3. TypeOK'
  BY <1>1, <1>2 DEF TypeOK
<1>4. TableOneCommitBehind'
  BY <1>1, <1>2 DEF TableOneCommitBehind, Running
<1>5. OneCommitPerNotification' /\ InitialSeesAll'
  BY <1>1 DEF ListInv, OneCommitPerNotification, InitialSeesAll, Running
<1>6. OneLoadPerKind'
  BY DEF IInv, OneLoadPerKind, Outstanding, Waiting, Running
<1>7. ClearedListIsRefreshing'
  BY DEF IInv, ClearedListIsRefreshing, Running
<1> QED BY <1>3, <1>4, <1>5, <1>6, <1>7 DEF IInv

\* A pull to refresh keeps the invariant.
LEMMA RefreshIInv == IInv /\ Refresh => IInv'
<1> SUFFICES ASSUME IInv, Refresh PROVE IInv'
  OBVIOUS
<1> USE DEF Refresh
<1>1. ListInv /\ TypeOK /\ Running
  BY DEF IInv, ListInv
<1>2. ListInv'
  BY <1>1, EmptyListType, WriteKeepsList
<1>3. TypeOK'
  BY <1>1, EmptyListType, WriteTypes DEF TypeOK, Kind
<1>4. OneLoadPerKind'
  <2>1. "refresh" \notin KindsOf(mainQueue) /\ "refresh" \notin inflight
    BY <1>1, OneLoadIsDistinct DEF IInv, CanPull
  <2> QED
    BY <1>1, <2>1 DEF IInv, OneLoadPerKind, Outstanding, Waiting, Running, KindsOf
<1>5. ClearedListIsRefreshing'
  BY DEF ClearedListIsRefreshing
<1> QED BY <1>2, <1>3, <1>4, <1>5 DEF IInv, ListInv

\* The answer or the failure of a request keeps the invariant.
LEMMA SettleIInv ==
  ASSUME IInv, NEW kind \in Kind, Settle(kind)
  PROVE  IInv'
<1> USE DEF observed
<1>1. CASE Fail(kind)
  <2> USE <1>1 DEF Fail
  <2>1. TypeOK'
    BY DEF IInv, TypeOK
  <2>2. OneLoadPerKind'
    BY DEF IInv, OneLoadPerKind, Outstanding, Waiting, Running
  <2>3. (ListInv /\ ClearedListIsRefreshing)'
    BY DEF IInv, ListInv, TableOneCommitBehind, OneCommitPerNotification,
           InitialSeesAll, ClearedListIsRefreshing, Running
  <2> QED BY <2>1, <2>2, <2>3 DEF IInv, ListInv
<1>2. ASSUME NEW friends \in List, Respond(kind, friends)
      PROVE  IInv'
  <2> DEFINE answer == [kind |-> kind, friends |-> friends]
  <2> USE <1>2 DEF Respond
  <2>1. answer \in Answer /\ mainQueue \in Seq(Answer)
    BY DEF Answer, IInv, TypeOK
  <2>2. TypeOK'
    BY <2>1, AppendKinds DEF IInv, TypeOK
  <2>3. OneLoadPerKind'
    <3>1. /\ Running /\ kind \notin KindsOf(mainQueue) /\ Distinct(mainQueue)
          /\ inflight \cap KindsOf(mainQueue) = {}
          /\ "refresh" \in inflight \cup KindsOf(mainQueue) => refreshing
      BY OneLoadIsDistinct DEF IInv
    <3>2. /\ KindsOf(mainQueue') = KindsOf(mainQueue) \cup {kind}
          /\ Distinct(mainQueue')
      BY <2>1, <3>1, AppendKinds
    <3>3. /\ inflight' \cap KindsOf(mainQueue') = {}
          /\ "refresh" \in inflight' \cup KindsOf(mainQueue') => refreshing'
      BY <3>1, <3>2
    <3> QED
      BY <3>2, <3>3 DEF OneLoadPerKind, Outstanding, Waiting, KindsOf, Distinct, Running
  <2>4. (ListInv /\ ClearedListIsRefreshing)'
    BY DEF IInv, ListInv, TableOneCommitBehind, OneCommitPerNotification,
           InitialSeesAll, ClearedListIsRefreshing, Running
  <2> QED BY <2>2, <2>3, <2>4 DEF IInv, ListInv
<1> QED BY <1>1, <1>2 DEF Settle

\* Taking an answer in keeps the invariant.
LEMMA RunMainIInv == IInv /\ RunMain => IInv'
<1> SUFFICES ASSUME IInv, RunMain PROVE IInv'
  OBVIOUS
<1> DEFINE answer == Head(mainQueue)
<1>1. /\ ListInv /\ TypeOK /\ Running /\ mainQueue \in Seq(Answer) /\ mainQueue # <<>>
      /\ OneLoadPerKind /\ ClearedListIsRefreshing
  BY DEF IInv, ListInv, RunMain, TypeOK
<1>2. answer \in Answer /\ answer.friends \in List /\ answer.kind \in Kind
  BY <1>1, TailKinds DEF Answer
<1>3. /\ Write(Merged(answer.friends), DOMAIN answer.friends)
      /\ refreshing' = (refreshing /\ ~(EndsRefresh(answer) /\ app' = "running"))
      /\ mainQueue' = Tail(mainQueue)
      /\ UNCHANGED <<open, search, inflight>>
  BY DEF RunMain
<1> HIDE DEF answer
<1>4. /\ Merged(answer.friends) \in List /\ DOMAIN answer.friends \in SUBSET Friend
      /\ Grows(Merged(answer.friends), DOMAIN answer.friends)
      /\ DOMAIN store \subseteq DOMAIN Merged(answer.friends)
  <2>1. store \in List
    BY <1>1 DEF TypeOK
  <2>2. /\ Merged(answer.friends) \in List
        /\ DOMAIN Merged(answer.friends) = DOMAIN store \cup DOMAIN answer.friends
        /\ \A f \in DOMAIN store \ DOMAIN answer.friends :
             Merged(answer.friends)[f] = store[f]
    BY <1>2, <2>1, UpsertType DEF Merged
  <2>3. DOMAIN answer.friends \in SUBSET Friend
    BY <1>2, ListIsFinite
  <2> QED BY <2>2, <2>3 DEF Grows
<1>5. ListInv'
  BY <1>1, <1>2, <1>3, <1>4, WriteKeepsList
<1>6. TypeOK'
  BY <1>1, <1>2, <1>3, <1>4, WriteTypes, TailKinds DEF TypeOK
<1>7. OneLoadPerKind'
  <2>1. /\ KindsOf(mainQueue') = KindsOf(mainQueue) \ {answer.kind}
        /\ Distinct(mainQueue')
        /\ answer.kind \in KindsOf(mainQueue)
    BY <1>1, <1>3, TailKinds, OneLoadIsDistinct DEF answer
  <2>2. /\ inflight \cap KindsOf(mainQueue) = {}
        /\ "refresh" \in inflight \cup KindsOf(mainQueue) => refreshing
    BY <1>1, OneLoadIsDistinct
  <2>3. /\ inflight' \cap KindsOf(mainQueue') = {}
        /\ "refresh" \in inflight' \cup KindsOf(mainQueue') => refreshing'
    BY <1>3, <2>1, <2>2 DEF EndsRefresh
  <2> QED
    BY <2>1, <2>3 DEF OneLoadPerKind, Outstanding, Waiting, KindsOf, Distinct, Running
<1>8. ClearedListIsRefreshing'
  \* The write delivered what was pending; it cleared nothing.
  <2>1. CASE open /\ BatchesAccepted
    <3>1. seen' = store /\ (store' = Merged(answer.friends) \/ store' = store)
      BY <1>3, <2>1 DEF Write
    <3>2. store' = EmptyList => store = EmptyList
      <4>1. SUFFICES ASSUME store' = Merged(answer.friends), store' = EmptyList
                     PROVE  store = EmptyList
        BY <3>1
      <4>2. DOMAIN store = {} /\ store \in List
        BY <1>1, <1>4, <4>1, EmptyListType DEF TypeOK
      <4> QED BY <4>2 DEF List, EmptyList
    <3> QED BY <3>1, <3>2 DEF ClearedListIsRefreshing
  <2>2. CASE ~(open /\ BatchesAccepted)
    BY <1>1, <1>3, <2>2 DEF Write, ClearedListIsRefreshing, Running
  <2> QED BY <2>1, <2>2
<1> QED BY <1>5, <1>6, <1>7, <1>8 DEF IInv, ListInv

\* The search, the end and the start of a process keep the invariant.
LEMMA ProcessIInv ==
  ASSUME IInv,
         \/ \E text \in Text \cup {NoText} : UpdateSearch(text)
         \/ \E row \in 0..(Cardinality(Friend) - 1) : CellForRowAt(row)
         \/ Kill
         \/ Relaunch
  PROVE  IInv'
<1> USE DEF observed, requests
<1>1. ASSUME NEW text \in Text \cup {NoText}, UpdateSearch(text)
      PROVE  IInv'
  <2> USE <1>1 DEF UpdateSearch
  <2>1. TypeOK'
    <3>1. Visible \in List
      BY EmptyListType DEF IInv, TypeOK, Visible
    <3> QED BY <3>1, RowsOfType DEF IInv, TypeOK
  <2>2. TableOneCommitBehind'
    BY DEF TableOneCommitBehind, Visible
  <2>3. (OneCommitPerNotification /\ InitialSeesAll /\ ClearedListIsRefreshing)'
    BY DEF IInv, OneCommitPerNotification, InitialSeesAll,
           ClearedListIsRefreshing, Running
  <2>4. OneLoadPerKind'
    BY DEF IInv, OneLoadPerKind, Outstanding, Waiting, Running
  <2> QED BY <2>1, <2>2, <2>3, <2>4 DEF IInv
<1>2. ASSUME Kill \/ \E row \in 0..(Cardinality(Friend) - 1) : CellForRowAt(row)
      PROVE  IInv'
  BY <1>2 DEF Kill, CellForRowAt, IInv, TypeOK, Running, TableOneCommitBehind,
              OneCommitPerNotification, InitialSeesAll, OneLoadPerKind,
              ClearedListIsRefreshing
<1>3. ASSUME Relaunch
      PROVE  IInv'
  <2> USE <1>3 DEF Relaunch, Start
  <2>1. TypeOK'
    <3>1. RowsOf(IF open' THEN store ELSE EmptyList, NoText) \in Seq(Nat)
      BY RowsOfType, EmptyListType DEF IInv, TypeOK
    <3>2. mainQueue' \in Seq(Answer)
      OBVIOUS
    <3> QED BY <3>1, <3>2 DEF IInv, TypeOK, Kind
  <2>2. (TableOneCommitBehind /\ OneCommitPerNotification /\ InitialSeesAll)'
    BY DEF IInv, TypeOK, TableOneCommitBehind, OneCommitPerNotification, InitialSeesAll
  <2>3. OneLoadPerKind'
    BY DEF OneLoadPerKind, Outstanding, Waiting
  <2>4. ClearedListIsRefreshing'
    BY DEF ClearedListIsRefreshing
  <2> QED BY <2>1, <2>2, <2>3, <2>4 DEF IInv
<1> QED BY <1>1, <1>2, <1>3

\* Every step keeps the invariant.
LEMMA NextIInv == IInv /\ [Next]_vars => IInv'
<1> SUFFICES ASSUME IInv, [Next]_vars PROVE IInv'
  OBVIOUS
<1>1. CASE Deliver
  BY <1>1, DeliverIInv
<1>2. CASE Refresh
  BY <1>2, RefreshIInv
<1>3. CASE RunMain
  BY <1>3, RunMainIInv
<1>4. ASSUME NEW kind \in Kind,
             Fail(kind) \/ \E friends \in List : Respond(kind, friends)
      PROVE  IInv'
  BY <1>4, SettleIInv DEF Settle
<1>5. CASE \/ \E text \in Text \cup {NoText} : UpdateSearch(text)
           \/ \E row \in 0..(Cardinality(Friend) - 1) : CellForRowAt(row)
           \/ Kill
           \/ Relaunch
  BY <1>5, ProcessIInv
<1>6. CASE UNCHANGED vars
  BY <1>6 DEF vars, IInv, TypeOK, Running, TableOneCommitBehind,
              OneCommitPerNotification, InitialSeesAll, OneLoadPerKind,
              Outstanding, Waiting, ClearedListIsRefreshing
<1> QED BY <1>1, <1>2, <1>3, <1>4, <1>5, <1>6 DEF Next

\* The inductive invariant holds in every reachable state.
THEOREM Invariance == Spec => []IInv
BY InitIInv, NextIInv, PTL DEF Spec

\* Every variable of the screen keeps its type.
THEOREM TypeCorrect == Spec => []TypeOK
<1>1. IInv => TypeOK
  BY DEF IInv
<1> QED BY <1>1, Invariance, PTL

\* The table shows the Realm file or the version before its last commit.
THEOREM TableIsOneCommitBehind == Spec => []TableOneCommitBehind
<1>1. IInv => TableOneCommitBehind
  BY DEF IInv
<1> QED BY <1>1, Invariance, PTL

\* A notification never mixes the clear of a refresh with its answer.
THEOREM NotificationsAreSingleCommits == Spec => []OneCommitPerNotification
<1>1. IInv => OneCommitPerNotification
  BY DEF IInv
<1> QED BY <1>1, Invariance, PTL

\* No load is outstanding twice, and a refresh spins while its load is.
THEOREM LoadsAreDistinct == Spec => []OneLoadPerKind
<1>1. IInv => OneLoadPerKind
  BY DEF IInv
<1> QED BY <1>1, Invariance, PTL
-----------------------------------------------------------------------------
(***************************************************************************)
(* What a step never does.                                                 *)
(***************************************************************************)
\* Only a step of the table asking for a cell leaves the bounds of a Results.
LEMMA OutOfRangeIsACell ==
  ASSUME Next, Running, app' = "outOfRange"
  PROVE  \E row \in 0..(Cardinality(Friend) - 1) : CellForRowAt(row)
BY DEF Next, Running, Deliver, Refresh, Write, Respond, Fail, RunMain,
       UpdateSearch, Kill, Relaunch

\* A search over a list that only grew finds no fewer, unless a friend it had
\* found was renamed.
LEMMA FilteredIsMonotonic ==
  ASSUME NEW old \in List, NEW new \in List, NEW text \in Text,
         \A f \in Filtered(old, text) : f \in Filtered(new, text)
  PROVE  Cardinality(Filtered(old, text)) <= Cardinality(Filtered(new, text))
BY FilteredIsFinite, FS_Subset

\* The filtered branch of cellForRowAt leaves its bounds only before the
\* notification of a commit that cleared the list or renamed a found friend.
THEOREM CellTrapIsBeforeNotification == Spec => CellTrapBeforeNotification
<1> DEFINE Trap ==
      (Running /\ app' = "outOfRange") =>
        /\ search # NoText
        /\ \/ store = EmptyList /\ seen # EmptyList /\ refreshing
           \/ \E f \in touched : f \in Filtered(seen, search) \ Filtered(store, search)
<1>1. IInv /\ [Next]_vars => [Trap]_vars
  <2> SUFFICES ASSUME IInv, Next, Running, app' = "outOfRange"
               PROVE  Trap
    BY DEF vars
  <2>1. PICK row \in 0..(Cardinality(Friend) - 1) : CellForRowAt(row)
    BY OutOfRangeIsACell
  <2>2. /\ search \in Text /\ open /\ search # NoText
        /\ store \in List /\ seen \in List /\ row \in Int
        /\ row < shown[first] /\ row >= Cardinality(Filtered(store, search))
    BY <2>1, FriendAssumption, FS_CardinalityType DEF CellForRowAt, IInv, TypeOK, Visible
  <2>3. /\ Cardinality(Filtered(store, search)) \in Nat
        /\ Cardinality(Filtered(seen, search)) \in Nat
    BY <2>2, FilteredIsFinite
  <2>4. shown = RowsOf(seen, search)
    <3>1. shown # RowsOf(store, search)
      BY <2>2, <2>3 DEF RowsOf, first
    <3> QED BY <2>2, <3>1 DEF IInv, TableOneCommitBehind
  <2>5. Cardinality(Filtered(store, search)) < Cardinality(Filtered(seen, search))
    BY <2>2, <2>3, <2>4 DEF RowsOf, first
  <2>6. PICK f \in Filtered(seen, search) : f \notin Filtered(store, search)
    BY <2>2, <2>3, <2>5, FilteredIsMonotonic
  <2>7. CASE store = EmptyList
    <3>1. seen # EmptyList
      BY <2>6, EmptyListType DEF Filtered
    <3> QED BY <2>2, <2>7, <3>1 DEF IInv, ClearedListIsRefreshing
  <2>8. CASE store # EmptyList
    <3>1. DOMAIN seen \subseteq DOMAIN store
          /\ \A g \in DOMAIN seen \ touched : store[g] = seen[g]
      BY <2>2, <2>8 DEF IInv, OneCommitPerNotification
    <3>2. f \in touched
      BY <2>6, <3>1 DEF Filtered
    <3> QED BY <2>2, <2>6, <3>2
  <2> QED BY <2>7, <2>8
<1> QED BY <1>1, Invariance, PTL DEF Spec, CellTrapBeforeNotification

\* A control that spins for a failed refresh spins until the process ends.
THEOREM FailedRefreshNeverEnds == Spec => FailedRefreshIsTerminal
<1>1. IInv /\ [Next]_vars => [Stuck => Stuck' \/ ~Running']_vars
  <2> SUFFICES ASSUME IInv, Next, Stuck, Running'
               PROVE  Stuck'
    BY DEF vars
  <2> USE DEF observed, requests
  <2>1. /\ Running /\ refreshing
        /\ "refresh" \notin inflight /\ "refresh" \notin KindsOf(mainQueue)
    BY DEF Stuck, Outstanding, Waiting, KindsOf
  <2>2. SUFFICES refreshing' /\ "refresh" \notin inflight' \cup KindsOf(mainQueue')
    BY DEF Stuck, Outstanding, Waiting, KindsOf
  <2>3. CASE RunMain
    <3>1. mainQueue \in Seq(Answer) /\ mainQueue # <<>> /\ Distinct(mainQueue)
      BY <2>1, <2>3, OneLoadIsDistinct DEF RunMain, IInv, TypeOK
    <3>2. /\ Head(mainQueue).kind \in KindsOf(mainQueue)
          /\ KindsOf(Tail(mainQueue)) \subseteq KindsOf(mainQueue)
      BY <3>1, TailKinds
    <3> QED BY <2>1, <2>3, <3>2 DEF RunMain, EndsRefresh
  <2>4. ASSUME NEW kind \in Kind, NEW friends \in List, Respond(kind, friends)
        PROVE  refreshing' /\ "refresh" \notin inflight' \cup KindsOf(mainQueue')
    <3>1. mainQueue \in Seq(Answer) /\ [kind |-> kind, friends |-> friends] \in Answer
      BY DEF IInv, TypeOK, Answer
    <3>2. KindsOf(mainQueue') = KindsOf(mainQueue) \cup {kind}
      BY <2>4, <3>1, AppendKinds DEF Respond
    <3> QED BY <2>1, <2>4, <3>2 DEF Respond
  <2>5. ASSUME NEW kind \in Kind, Fail(kind)
        PROVE  refreshing' /\ "refresh" \notin inflight' \cup KindsOf(mainQueue')
    BY <2>1, <2>5 DEF Fail
  <2>6. CASE Deliver \/ \E text \in Text \cup {NoText} : UpdateSearch(text)
    BY <2>1, <2>6 DEF Deliver, UpdateSearch
  <2>7. CASE \/ \E row \in 0..(Cardinality(Friend) - 1) : CellForRowAt(row)
             \/ Kill
             \/ Relaunch
             \/ Refresh
    BY <2>1, <2>7 DEF CellForRowAt, Kill, Relaunch, Refresh, CanPull, Running
  <2> QED BY <2>3, <2>4, <2>5, <2>6, <2>7 DEF Next
<1> QED BY <1>1, Invariance, PTL DEF Spec, FailedRefreshIsTerminal
-----------------------------------------------------------------------------
(***************************************************************************)
(* Which table updates are accepted.                                       *)
(***************************************************************************)
\* Both orders of the list are orders: by identifier and by object key.
LEMMA BothKeysOrder ==
  ASSUME NEW S \in SUBSET Friend
  PROVE  Orders(Id, S) /\ Orders(ObjectKey, S)
BY FriendAssumption, ObjectKeyAssumption DEF Orders, Id

\* The rows of an update that only adds friends exist.
LEMMA GrowthRowsExist ==
  ASSUME NEW new \in SUBSET Friend, NEW old \in SUBSET new,
         NEW again \in SUBSET old, NEW key, Orders(key, new)
  PROVE  /\ \A r \in Changes(key, old, new, again).reloads :
              r \in Nat /\ r < Cardinality(old)
         /\ \A r \in Changes(key, old, new, again).insertions :
              r \in Nat /\ r < Cardinality(new)
<1>1. IsFiniteSet(new) /\ IsFiniteSet(old) /\ Orders(key, old)
  BY FriendAssumption, FS_Subset DEF Orders
<1>2. /\ Changes(key, old, new, again).reloads = Positions(key, again, old)
      /\ Changes(key, old, new, again).insertions = Positions(key, new \ old, new)
  <2>1. again \cap old \cap new = again
    OBVIOUS
  <2> QED BY <2>1 DEF Changes
<1>3. \A f \in old : Position(key, f, old) \in Nat /\ Position(key, f, old) < Cardinality(old)
  BY <1>1, PositionIsARow
<1>4. \A f \in new : Position(key, f, new) \in Nat /\ Position(key, f, new) < Cardinality(new)
  BY <1>1, PositionIsARow
<1> QED BY <1>2, <1>3, <1>4 DEF Positions

\* Both facts about a list that grew, for either order.
LEMMA GrowthFacts ==
  ASSUME NEW new \in SUBSET Friend, NEW old \in SUBSET new,
         NEW again \in SUBSET old, NEW key, Orders(key, new)
  PROVE  /\ Changes(key, old, new, again).deletions = {}
         /\ Cardinality(Changes(key, old, new, again).insertions) =
              Cardinality(new \ old)
         /\ \A r \in Changes(key, old, new, again).reloads :
              r \in Nat /\ r < Cardinality(old)
         /\ \A r \in Changes(key, old, new, again).insertions :
              r \in Nat /\ r < Cardinality(new)
<1>1. IsFiniteSet(new)
  BY FriendAssumption, FS_Subset
<1>2. Changes(key, old, new, again).deletions = {}
  BY <1>1, GrowthCounts
<1>3. Cardinality(Changes(key, old, new, again).insertions) = Cardinality(new \ old)
  BY <1>1, PositionsCount DEF Changes
<1>4. /\ \A r \in Changes(key, old, new, again).reloads :
           r \in Nat /\ r < Cardinality(old)
      /\ \A r \in Changes(key, old, new, again).insertions :
           r \in Nat /\ r < Cardinality(new)
  BY GrowthRowsExist
<1> QED BY <1>2, <1>3, <1>4

\* Without a search, a table that shows the list as it was, and a list that
\* kept its friends and gained new ones only below a full important section:
\* both updates are accepted.
LEMMA GrowthBelowTheTopIsAccepted ==
  ASSUME TypeOK,
         search = NoText, shown = RowsOf(seen, NoText),
         DOMAIN seen \subseteq DOMAIN store, touched \subseteq DOMAIN seen,
         Cardinality(DOMAIN seen) < Important => DOMAIN seen = DOMAIN store,
         \A f \in DOMAIN store \ DOMAIN seen :
           ~(Position(ObjectKey, f, DOMAIN store) < Important)
  PROVE  BatchesAccepted
<1> DEFINE S == DOMAIN seen
           T == DOMAIN store
           s == Cardinality(S)
           t == Cardinality(T)
           sorted == SortedBatch
           unsorted == ChangesBy(ObjectKey)
           now == <<1, ClippedCount(t), t>>
<1>1. /\ T \in SUBSET Friend /\ S \in SUBSET T /\ touched \in SUBSET S
      /\ IsFiniteSet(T) /\ s \in Nat /\ t \in Nat
      /\ Important \in Nat /\ Important > 0
  BY ListIsFinite, ImportantAssumption DEF TypeOK
<1>2. Orders(Id, T) /\ Orders(ObjectKey, T)
  BY <1>1, BothKeysOrder
<1>3. sorted = Changes(Id, S, T, touched) /\ unsorted = Changes(ObjectKey, S, T, touched)
  BY DEF SortedBatch, ChangesBy
<1>4. /\ sorted.deletions = {} /\ t = s + Cardinality(sorted.insertions)
      /\ \A r \in sorted.reloads : r < s
      /\ \A r \in sorted.insertions : r < t
  <2>1. sorted.deletions = {}
    BY <1>1, <1>2, <1>3, GrowthFacts
  <2>2. t = s + Cardinality(sorted.insertions)
    <3>1. T \in SUBSET Friend /\ S \in SUBSET T /\ touched \in SUBSET S /\ Orders(Id, T)
      BY <1>1, <1>2
    <3> HIDE DEF S, T, sorted
    <3>2. Cardinality(Changes(Id, S, T, touched).insertions) = Cardinality(T \ S)
      BY <3>1, GrowthFacts
    <3>3. T \cap S = S /\ IsFiniteSet(T) /\ IsFiniteSet(S)
      BY <1>1, FS_Subset
    <3>4. Cardinality(T \ S) = Cardinality(T) - Cardinality(S)
      BY <3>3, FS_Difference
    <3>5. Cardinality(S) \in Nat /\ Cardinality(T) \in Nat
      BY <3>3, FS_CardinalityType
    <3>6. Cardinality(T) = Cardinality(S) + Cardinality(T \ S)
      BY <3>4, <3>5
    <3> QED BY <1>3, <3>2, <3>6 DEF s, t
  <2>3. /\ \A r \in sorted.reloads : r < s
        /\ \A r \in sorted.insertions : r < t
    BY <1>1, <1>2, <1>3, GrowthFacts
  <2> QED BY <2>1, <2>2, <2>3
<1>5. /\ unsorted.deletions = {}
      /\ \A r \in unsorted.reloads : r \in Nat /\ r < s
  <2> HIDE DEF S, T, unsorted
  <2>1. Changes(ObjectKey, S, T, touched).deletions = {}
    BY <1>1, <1>2, GrowthFacts
  <2>2. \A r \in Changes(ObjectKey, S, T, touched).reloads :
          r \in Nat /\ r < Cardinality(S)
    BY <1>1, <1>2, GrowthFacts
  <2> QED BY <1>3, <2>1, <2>2 DEF s
<1>6. unsorted.insertions = Positions(ObjectKey, T \ S, T)
  BY <1>3 DEF Changes
<1>7. s <= t /\ ClippedCount(s) = ClippedCount(t)
  <2>1. s <= t
    BY <1>1, FS_Subset
  <2>2. CASE s < Important
    <3>1. S = T
      BY <2>2
    <3> QED BY <1>1, <3>1
  <2>3. CASE ~(s < Important)
    BY <1>1, <2>1, <2>3 DEF ClippedCount
  <2> QED BY <2>1, <2>2, <2>3
<1>8. RowsOf(store, search) = now /\ shown = <<1, ClippedCount(s), s>>
  BY DEF RowsOf
<1>9. UnsortedBatch.deletions = {} /\ UnsortedBatch.insertions = {}
  <2>1. \A r \in unsorted.insertions : ~(r < Important)
    BY <1>6 DEF Positions
  <2> QED BY <1>5, <2>1 DEF UnsortedBatch, Top
<1>10. \A r \in UnsortedBatch.reloads : r < ClippedCount(t)
  <2>1. \A r \in UnsortedBatch.reloads : r \in Nat /\ r < s /\ r < Important
    BY <1>5 DEF UnsortedBatch, Top
  <2> QED BY <1>1, <1>7, <2>1 DEF ClippedCount
<1> HIDE DEF S, T, s, t, sorted, unsorted
<1>11. Accepts(shown, now, third, sorted)
  <2>1. EditsInRange(shown, now, third, sorted)
    BY <1>4, <1>8 DEF EditsInRange, third
  <2>2. CountsAddUp(shown, now, third, sorted)
    <3>1. t + Cardinality(sorted.deletions) = s + Cardinality(sorted.insertions)
      BY <1>1, <1>4, FS_EmptySet
    <3>2. DOMAIN shown = 1..3 /\ DOMAIN now = 1..3
      BY <1>8
    <3> QED BY <1>7, <1>8, <3>1, <3>2 DEF CountsAddUp, third
  <2> QED BY <2>1, <2>2 DEF Accepts
<1>12. Accepts(now, now, second, UnsortedBatch)
  <2>1. EditsInRange(now, now, second, UnsortedBatch)
    BY <1>9, <1>10 DEF EditsInRange, second
  <2>2. CountsAddUp(now, now, second, UnsortedBatch)
    <3>1. /\ Cardinality(UnsortedBatch.deletions) = 0
          /\ Cardinality(UnsortedBatch.insertions) = 0
      BY <1>9, FS_EmptySet
    <3>2. ClippedCount(t) \in Nat
      BY <1>1 DEF ClippedCount
    <3> QED BY <3>1, <3>2 DEF CountsAddUp, second
  <2> QED BY <2>1, <2>2 DEF Accepts
<1> QED BY <1>8, <1>11, <1>12 DEF BatchesAccepted, sorted

\* Only the delivery of a notification, in a turn of its own or before a
\* write, ends the process in a table update.
LEMMA BatchCrashIsADelivery ==
  ASSUME Next, Running, app' = "batchUpdate"
  PROVE  open /\ ~BatchesAccepted
BY DEF Next, Running, Deliver, Refresh, Write, Respond, Fail, RunMain,
       UpdateSearch, CellForRowAt, Kill, Relaunch

\* A table update ends the process only for the causes BatchCrashCauses lists.
THEOREM BatchCrashesHaveCauses == Spec => BatchCrashCauses
<1> DEFINE Cause ==
      \/ search # NoText
      \/ store = EmptyList
      \/ Cardinality(DOMAIN seen) < Important /\ DOMAIN seen # DOMAIN store
      \/ \E f \in DOMAIN store \ DOMAIN seen :
           Position(ObjectKey, f, DOMAIN store) < Important
      \/ shown # RowsOf(seen, NoText)
<1>1. IInv /\ [Next]_vars => [(Running /\ app' = "batchUpdate") => Cause]_vars
  <2> SUFFICES ASSUME IInv, Next, Running, app' = "batchUpdate", ~Cause
               PROVE  FALSE
    BY DEF vars
  <2>1. open /\ ~BatchesAccepted
    BY BatchCrashIsADelivery
  <2>2. DOMAIN seen \subseteq DOMAIN store /\ touched \subseteq DOMAIN seen
    BY <2>1 DEF IInv, OneCommitPerNotification
  <2>3. BatchesAccepted
    BY <2>2, GrowthBelowTheTopIsAccepted DEF IInv
  <2> QED BY <2>1, <2>3
<1> QED BY <1>1, Invariance, PTL DEF Spec, BatchCrashCauses
-----------------------------------------------------------------------------
(***************************************************************************)
(* The list is a FriendCache.                                              *)
(***************************************************************************)
\* What a write does to the durable list, and when it ends the process.
LEMMA WriteOutcome ==
  ASSUME Running,
         NEW content \in List, NEW written \in SUBSET Friend,
         Write(content, written)
  PROVE  \/ app' = "running" /\ store' \in {store, content}
         \/ app' = "batchUpdate" /\ store' = store
BY DEF Write, Running

\* A step that ends the process and leaves the list alone is the end of the
\* process in the abstract.
LEMMA EndIsDie ==
  ASSUME Running, ~Running', store' = store
  PROVE  Cache!Die
BY DEF Cache!Die, Outstanding

\* A refresh asks for a new list, or ends the process.
LEMMA RefreshImplements ==
  ASSUME IInv, Refresh
  PROVE  Cache!Next
<1>1. /\ Running /\ ~refreshing /\ Write(EmptyList, {})
      /\ inflight' = IF app' = "running" THEN inflight \cup {"refresh"} ELSE inflight
      /\ mainQueue' = mainQueue
  BY DEF Refresh, CanPull
<1>2. CASE app' = "running" /\ store' \in {store, EmptyList}
  <2>1. "refresh" \notin Outstanding
    BY <1>1 DEF IInv, OneLoadPerKind
  <2>2. Outstanding' = Outstanding \cup {"refresh"}
    BY <1>1, <1>2 DEF Outstanding, Waiting, Running
  <2> QED BY <1>1, <1>2, <2>1, <2>2 DEF Cache!Next, Cache!Ask, Cache!EmptyList, EmptyList, Running
<1>3. CASE app' = "batchUpdate" /\ store' = store
  BY <1>1, <1>3, EndIsDie DEF Running, Cache!Next
<1> QED BY <1>1, <1>2, <1>3, EmptyListType, WriteOutcome

\* An answer that waits for the main queue is still outstanding.
LEMMA RespondImplements ==
  ASSUME IInv, NEW kind \in Kind, NEW friends \in List,
         Respond(kind, friends)
  PROVE  UNCHANGED Cache!vars
<1>1. mainQueue \in Seq(Answer) /\ [kind |-> kind, friends |-> friends] \in Answer
  BY DEF IInv, TypeOK, Answer
<1>2. KindsOf(mainQueue') = KindsOf(mainQueue) \cup {kind}
  BY <1>1, AppendKinds DEF Respond
<1>3. inflight' \cup KindsOf(mainQueue') = inflight \cup KindsOf(mainQueue)
  BY <1>2 DEF Respond
<1>4. Running' = Running /\ store' = store
  BY DEF Respond, Running
<1>5. Outstanding' = Outstanding
  BY <1>3, <1>4 DEF Outstanding, Waiting, KindsOf
<1> QED BY <1>4, <1>5 DEF Cache!vars

\* A failed request is given up.
LEMMA FailImplements ==
  ASSUME IInv, NEW kind \in Kind, Fail(kind)
  PROVE  Cache!Next
<1>1. kind \in Outstanding /\ Outstanding' = Outstanding \ {kind}
  BY DEF IInv, OneLoadPerKind, Fail, Outstanding, Waiting, Running
<1> QED BY <1>1 DEF Fail, Running, Cache!Next, Cache!GiveUp

\* The main queue takes an outstanding answer in, or ends the process.
LEMMA RunMainImplements ==
  ASSUME IInv, RunMain
  PROVE  Cache!Next
<1> DEFINE answer == Head(mainQueue)
<1>1. /\ Running /\ mainQueue \in Seq(Answer) /\ mainQueue # <<>>
      /\ Distinct(mainQueue) /\ inflight \cap KindsOf(mainQueue) = {}
      /\ store \in List
  BY OneLoadIsDistinct DEF IInv, TypeOK, RunMain
<1>2. /\ answer \in Answer /\ answer.kind \in KindsOf(mainQueue)
      /\ KindsOf(Tail(mainQueue)) = KindsOf(mainQueue) \ {answer.kind}
  BY <1>1, TailKinds
<1>3. /\ Write(Merged(answer.friends), DOMAIN answer.friends)
      /\ mainQueue' = Tail(mainQueue) /\ inflight' = inflight
  BY DEF RunMain
<1> HIDE DEF answer
<1>4. /\ answer.friends \in List /\ answer.kind \in Kind
      /\ Merged(answer.friends) \in List /\ DOMAIN answer.friends \in SUBSET Friend
  BY <1>1, <1>2, UpsertType, ListIsFinite DEF Answer, Merged
<1>5. CASE app' = "running" /\ store' \in {store, Merged(answer.friends)}
  <2>1. answer.kind \in Outstanding /\ Outstanding' = Outstanding \ {answer.kind}
    BY <1>1, <1>2, <1>3, <1>5 DEF Outstanding, Waiting, KindsOf, Running
  <2>2. Cache!Merge(answer.kind, answer.friends)
    BY <1>1, <1>4, <1>5, <2>1 DEF Cache!Merge, Cache!Upsert, Merged, Upsert, Running
  <2> QED BY <1>4, <2>2 DEF Cache!Next, Cache!List, List
<1>6. CASE app' = "batchUpdate" /\ store' = store
  BY <1>1, <1>6, EndIsDie DEF Running, Cache!Next
<1> QED BY <1>1, <1>3, <1>4, <1>5, <1>6, WriteOutcome

\* Every step of the screen is a step of the abstract list or leaves it alone.
LEMMA StepImplements ==
  ASSUME IInv, [Next]_vars
  PROVE  [Cache!Next]_(Cache!vars)
<1> USE DEF observed, requests
<1>1. CASE Refresh
  BY <1>1, RefreshImplements
<1>2. CASE RunMain
  BY <1>2, RunMainImplements
<1>3. ASSUME NEW kind \in Kind, Fail(kind)
      PROVE  Cache!Next
  BY <1>3, FailImplements
<1>4. ASSUME NEW kind \in Kind, NEW friends \in List, Respond(kind, friends)
      PROVE  UNCHANGED Cache!vars
  BY <1>4, RespondImplements
<1>5. CASE Deliver
  <2>1. CASE app' = app
    BY <1>5, <2>1 DEF Deliver, Cache!vars, Outstanding, Waiting, Running
  <2>2. CASE app' = "batchUpdate"
    BY <1>5, <2>2, EndIsDie DEF Deliver, Running, Cache!Next
  <2> QED BY <1>5, <2>1, <2>2 DEF Deliver
<1>6. CASE Kill \/ \E row \in 0..(Cardinality(Friend) - 1) : CellForRowAt(row)
  BY <1>6, EndIsDie DEF Kill, CellForRowAt, Running, Cache!Next
<1>7. CASE (\E text \in Text \cup {NoText} : UpdateSearch(text)) \/ UNCHANGED vars
  BY <1>7 DEF UpdateSearch, vars, Cache!vars, Outstanding, Waiting, Running
<1>8. CASE Relaunch
  <2>1. Outstanding' = {"initial"}
    BY <1>8 DEF Relaunch, Start, Outstanding, Waiting, Running
  <2> QED BY <1>8, <2>1 DEF Relaunch, Start, Running, Cache!Next, Cache!Restart
<1> QED BY <1>1, <1>2, <1>3, <1>4, <1>5, <1>6, <1>7, <1>8 DEF Next

\* The durable list of friends is only ever emptied by a refresh or grown by
\* a whole, outstanding answer, whatever ends the process and whenever.
THEOREM ListIsAFriendCache == Spec => CacheSpec
<1>1. Init => Cache!Init
  BY DEF Init, Cache!Init, Cache!EmptyList, EmptyList, Outstanding, Waiting, Running
<1>2. IInv /\ [Next]_vars => [Cache!Next]_(Cache!vars)
  BY StepImplements
<1> QED BY <1>1, <1>2, Invariance, PTL DEF Spec, CacheSpec, Cache!Spec
=============================================================================
