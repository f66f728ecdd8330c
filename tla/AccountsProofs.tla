--------------------------- MODULE AccountsProofs ---------------------------
(***************************************************************************)
(* Sessions, requests and the friends accounts leave to each other, for    *)
(* every set of accounts and friends, every set of strings and every       *)
(* fragment the login page can end with.                                   *)
(***************************************************************************)
EXTENDS Accounts, TLAPS

\* The process whose tabs are up signed in since the list was last cleared, or
\* cleared it itself.
Inherits == process = "tabs" => session.token \in heirs

IInv ==
  /\ TypeOK
  /\ RequestsAreOfTheSession
  /\ ClearedOfOtherAccounts
  /\ Inherits

AllKinds == OfFriends \cup OfGroups \cup {"newsfeed"}

\* What a request says of the session it was built in.
LEMMA RequestOfSession ==
  ASSUME NEW kind \in AllKinds, NEW who \in [token : Value, userId : Value]
  PROVE  /\ Request(kind, who) \in [kind : AllKinds, token : Value, user : Value \cup {Absent}]
         /\ Request(kind, who).kind = kind
         /\ Request(kind, who).token = who.token
BY DEF Request

\* A request built while the tabs are up leaves the others of the same session.
LEMMA AskingKeepsRequests ==
  ASSUME TypeOK, RequestsAreOfTheSession, process = "tabs", NEW kind \in AllKinds,
         UNCHANGED <<process, session>>,
         requests' = requests \cup {Request(kind, session)}
  PROVE  /\ RequestsAreOfTheSession'
         /\ requests' \subseteq [kind : AllKinds, token : Value, user : Value \cup {Absent}]
<1>1. session \in [token : Value, userId : Value]
      /\ requests \subseteq [kind : AllKinds, token : Value, user : Value \cup {Absent}]
  BY DEF TypeOK, AllKinds
<1>2. \A r \in requests : r = Request(r.kind, session)
  BY DEF RequestsAreOfTheSession
<1>3. Request(kind, session) \in [kind : AllKinds, token : Value, user : Value \cup {Absent}]
      /\ Request(kind, session).kind = kind
  BY <1>1, RequestOfSession
<1>4. \A r \in requests' : r = Request(r.kind, session)'
  BY <1>2, <1>3 DEF Request
<1> QED BY <1>1, <1>3, <1>4 DEF RequestsAreOfTheSession

\* The invariant holds in every state.
THEOREM Invariance == Spec => []IInv
<1>1. Init => IInv
  <2> SUFFICES ASSUME Init PROVE IInv
    OBVIOUS
  <2>1. SignedOut \in [token : Value, userId : Value]
    BY ValueAssumption DEF SignedOut
  <2>2. TypeOK
    BY <2>1 DEF Init, TypeOK
  <2> QED BY <2>2 DEF Init, IInv, RequestsAreOfTheSession, ClearedOfOtherAccounts, Inherits
<1>2. IInv /\ [Next]_vars => IInv'
  <2> SUFFICES ASSUME IInv, [Next]_vars PROVE IInv'
    OBVIOUS
  <2> USE DEF IInv
  <2>k. "newsfeed" \in AllKinds /\ "friends" \in AllKinds /\ "refresh" \in AllKinds
        /\ OfGroups \subseteq AllKinds
    BY DEF AllKinds, OfFriends
  <2>1. ASSUME NEW fragment \in Fragment, Trap(fragment) PROVE IInv'
    BY <2>1 DEF Trap, TypeOK, RequestsAreOfTheSession, ClearedOfOtherAccounts, Inherits
  <2>2. ASSUME NEW fragment \in Fragment, SignIn(fragment) PROVE IInv'
    <3> DEFINE who == [token  |-> Param(fragment, "access_token"),
                       userId |-> Param(fragment, "user_id")]
    <3>1. /\ process = "login" /\ process' = "tabs" /\ session' = who
          /\ requests' = requests \cup {Request("friends", who)}
          /\ heirs' = heirs \cup {who.token}
          /\ opened' = {"friends"} /\ UNCHANGED <<blocks, refreshing, file>>
      BY <2>2 DEF SignIn, OpenTabs
    <3>2. who \in [token : Value, userId : Value] /\ who.token \in Value
      BY <2>2, ValueAssumption DEF SignIn, Grants
    <3> HIDE DEF who
    <3>3. requests' = {Request("friends", who)}
      BY <3>1 DEF RequestsAreOfTheSession
    <3>4. Request("friends", who) \in [kind : AllKinds, token : Value, user : Value \cup {Absent}]
          /\ Request("friends", who).kind = "friends"
      BY <2>k, <3>2, RequestOfSession
    <3>5. TypeOK'
      BY <3>1, <3>2, <3>3, <3>4 DEF TypeOK, AllKinds
    <3>6. RequestsAreOfTheSession'
      BY <3>1, <3>3, <3>4 DEF RequestsAreOfTheSession, Request
    <3>7. ClearedOfOtherAccounts'
      BY <3>1 DEF ClearedOfOtherAccounts, FriendsFor
    <3> QED BY <3>1, <3>5, <3>6, <3>7 DEF Inherits
  <2>3. ASSUME OpenNews PROVE IInv'
    BY <2>3, <2>k, AskingKeepsRequests
    DEF OpenNews, TypeOK, AllKinds, ClearedOfOtherAccounts, Inherits
  <2>4. ASSUME OpenGroups PROVE IInv'
    BY <2>4 DEF OpenGroups, TypeOK, RequestsAreOfTheSession, ClearedOfOtherAccounts, Inherits, Request
  <2>5. ASSUME NEW kind \in OfGroups, Build(kind) PROVE IInv'
    BY <2>5, <2>k, AskingKeepsRequests
    DEF Build, TypeOK, AllKinds, ClearedOfOtherAccounts, Inherits
  <2>6. ASSUME Pull PROVE IInv'
    <3>1. RequestsAreOfTheSession'
          /\ requests' \subseteq [kind : AllKinds, token : Value, user : Value \cup {Absent}]
      BY <2>6, <2>k, AskingKeepsRequests DEF Pull
    <3>2. session.token \in Value
      BY DEF TypeOK
    <3>3. TypeOK'
      BY <2>6, <3>1, <3>2 DEF Pull, TypeOK, AllKinds
    <3>4. ClearedOfOtherAccounts' /\ Inherits'
      BY <2>6 DEF Pull, ClearedOfOtherAccounts, Inherits
    <3> QED BY <3>1, <3>3, <3>4
  <2>7. ASSUME NEW request \in requests, NEW friends \in SUBSET Friend, Answer(request, friends)
        PROVE  IInv'
    <3>1. /\ process = "tabs" /\ request.token \in Account
          /\ friends \subseteq FriendsOf[request.token] /\ file' \subseteq file \cup friends
          /\ requests' \subseteq requests /\ refreshing' \in BOOLEAN
          /\ UNCHANGED <<process, session, opened, blocks, heirs>>
      BY <2>7 DEF Answer, TypeOK
    <3>2. request.token = session.token
      BY <3>1 DEF RequestsAreOfTheSession, Request
    <3>3. friends \subseteq FriendsFor(session.token) /\ session.token \in heirs
      BY <3>1, <3>2 DEF FriendsFor, Inherits
    <3>4. TypeOK'
      BY <3>1 DEF TypeOK
    <3>5. RequestsAreOfTheSession'
      BY <3>1 DEF RequestsAreOfTheSession, Request
    <3>6. ClearedOfOtherAccounts'
      BY <3>1, <3>3 DEF ClearedOfOtherAccounts, FriendsFor
    <3> QED BY <3>1, <3>4, <3>5, <3>6 DEF Inherits
  <2>8. ASSUME NEW request \in requests, Fail(request) PROVE IInv'
    BY <2>8 DEF Fail, TypeOK, RequestsAreOfTheSession, ClearedOfOtherAccounts, Inherits, Request
  <2>9. ASSUME End PROVE IInv'
    BY <2>9 DEF End, TypeOK, RequestsAreOfTheSession, ClearedOfOtherAccounts, Inherits
  <2>10. ASSUME Relaunch PROVE IInv'
    BY <2>10, ValueAssumption
    DEF Relaunch, TypeOK, RequestsAreOfTheSession, ClearedOfOtherAccounts, Inherits, SignedOut
  <2>11. CASE UNCHANGED vars
    BY <2>11 DEF vars, TypeOK, RequestsAreOfTheSession, ClearedOfOtherAccounts, Inherits, Request
  <2> QED BY <2>1, <2>2, <2>3, <2>4, <2>5, <2>6, <2>7, <2>8, <2>9, <2>10, <2>11 DEF Next
<1> QED BY <1>1, <1>2, PTL DEF Spec

\* Every variable has its type: a session, and a request built of it, has a string
\* for its token and one for its id, whatever the fragment held.
THEOREM TypeCorrect == Spec => []TypeOK
<1>1. IInv => TypeOK
  BY DEF IInv
<1> QED BY <1>1, Invariance, PTL

\* Whatever the network has was asked in the session of the process there is.
THEOREM RequestsAreOwn == Spec => []RequestsAreOfTheSession
<1>1. IInv => RequestsAreOfTheSession
  BY DEF IInv
<1> QED BY <1>1, Invariance, PTL

\* Friends of an account signed in before the list was last cleared are gone
\* for good, unless they are friends of an account that came after, too.
THEOREM ClearsAreFinal == Spec => []ClearedOfOtherAccounts
<1>1. IInv => ClearedOfOtherAccounts
  BY DEF IInv
<1> QED BY <1>1, Invariance, PTL

\* No launch adds friends of an account other than its own to the list.
THEOREM FriendsAreOwn == Spec => OnlyOwnFriendsAreAdded
<1>1. IInv /\ [Next]_vars =>
        (file' \ file # {} => process = "tabs" /\ file' \ file \subseteq FriendsFor(session.token))
  <2> SUFFICES ASSUME IInv, [Next]_vars, file' \ file # {}
               PROVE  process = "tabs" /\ file' \ file \subseteq FriendsFor(session.token)
    OBVIOUS
  <2>1. PICK request \in requests, friends \in SUBSET Friend : Answer(request, friends)
    BY DEF Next, vars, Trap, SignIn, OpenNews, OpenGroups, Build, Pull, Fail, End, Relaunch
  <2>2. /\ process = "tabs" /\ request.token \in Account
        /\ friends \subseteq FriendsOf[request.token] /\ file' \ file \subseteq friends
    BY <2>1 DEF Answer
  <2>3. request.token = session.token
    BY <2>2 DEF IInv, RequestsAreOfTheSession, Request
  <2> QED BY <2>2, <2>3 DEF FriendsFor
<1> QED BY <1>1, Invariance, PTL DEF Spec, OnlyOwnFriendsAreAdded
=============================================================================
