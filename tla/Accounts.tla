------------------------------ MODULE Accounts ------------------------------
(***************************************************************************)
(* From the login page to the screens: VKLoginController reads the session *)
(* out of a URL, the segue brings up the tab bar, and every screen builds  *)
(* its requests from Session.shared.  The session lives as long as the     *)
(* process, the Realm file of friends lives on, so the account of one      *)
(* launch finds the friends of the account before it.  An answer and its   *)
(* turn of the main queue are one step here (Friends has both).            *)
(***************************************************************************)
EXTENDS Naturals, SequencesExt

CONSTANTS
  Value,      \* the strings a key of a fragment may have
  Empty,      \* the empty one, which a session begins with
  Number,     \* those that Int() parses
  Absent,     \* what a dictionary, or a request, has for a key it has not
  Bare,       \* what a piece of a fragment without "=" has for a value
  Account,    \* the tokens that the server granted, each to an account of its own
  Friend, FriendsOf,  \* who may be whose friend
  Fragment    \* fragments of /blank.html: sequences of pieces, key and value

ASSUME ValueAssumption ==
  /\ Empty \in Value /\ Number \subseteq Value \ {Empty} /\ Account \subseteq Value \ {Empty}
  /\ Absent \notin Value /\ Bare \notin Value
ASSUME FriendsOfAssumption == FriendsOf \in [Account -> SUBSET Friend]

VARIABLES
  process,    \* what the process shows, or how it ended
  session,    \* Session.shared
  opened,     \* the screens whose viewDidLoad has run
  blocks,     \* requests of the groups screen still to be built
  requests,   \* requests with the network
  refreshing, \* the refresh control of the friends screen spins
  file,       \* the friends in the Realm file
  heirs       \* history: tokens signed in since the file was last cleared, and
              \* that of the process that cleared it

vars == <<process, session, opened, blocks, requests, refreshing, file, heirs>>

SignedOut == [token |-> Empty, userId |-> Empty]

OfFriends == {"friends", "refresh"}
OfGroups  == {"groups", "invites"}

Request(kind, who) ==
  [kind |-> kind, token |-> who.token,
   user |-> IF kind \in OfGroups THEN who.userId ELSE Absent]

\* The friends a token brings: none when no account was granted it.
FriendsFor(token) == IF token \in Account THEN FriendsOf[token] ELSE {}

TypeOK ==
  /\ process \in {"login", "tabs", "trapped", "ended"}
  /\ session \in [token : Value, userId : Value]
  /\ opened \subseteq {"friends", "groups", "newsfeed"}
  /\ blocks \subseteq OfGroups
  /\ requests \subseteq
       [kind : OfFriends \cup OfGroups \cup {"newsfeed"},
        token : Value, user : Value \cup {Absent}]
  /\ refreshing \in BOOLEAN
  /\ file \subseteq Friend
  /\ heirs \subseteq Value

Init ==
  /\ process = "login"
  /\ session = SignedOut
  /\ opened = {} /\ blocks = {} /\ requests = {} /\ refreshing = FALSE
  /\ file = {} /\ heirs = {}
-----------------------------------------------------------------------------
(***************************************************************************)
(* decidePolicyFor navigationResponse, at the page of the redirect_uri.    *)
(***************************************************************************)
\* The dictionary of a fragment: a later piece replaces an earlier one.
Param(fragment, key) ==
  LET i == SelectLastInSeq(fragment, LAMBDA piece : piece.key = key)
  IN  IF i = 0 THEN Absent ELSE fragment[i].value

IsMalformed(fragment) == \E i \in DOMAIN fragment : fragment[i].value = Bare

\* A slip: the user_id is not looked at.
GrantsToken(fragment) == Param(fragment, "access_token") \in Value

\* Any token at all, the empty string included, and a user_id that is a number.
Grants(fragment) ==
  Param(fragment, "access_token") \in Value /\ Param(fragment, "user_id") \in Number

\* A slip: the segue comes before the session is filled.
OpenFirst(who) == requests' = requests \cup {Request("friends", session)}

\* The friends are the first tab: RunTheAppSegue loads them.
OpenTabs(who) == requests' = requests \cup {Request("friends", who)}

\* param[1] of a piece without "=" is out of bounds.
Trap(fragment) ==
  /\ process = "login" /\ IsMalformed(fragment)
  /\ process' = "trapped"
  /\ UNCHANGED <<session, opened, blocks, requests, refreshing, file, heirs>>

SignIn(fragment) ==
  /\ process = "login" /\ ~IsMalformed(fragment) /\ Grants(fragment)
  /\ LET who == [token  |-> Param(fragment, "access_token"),
                 userId |-> Param(fragment, "user_id")]
     IN  /\ session' = who /\ OpenTabs(who)
         /\ heirs' = heirs \cup {who.token}
  /\ process' = "tabs" /\ opened' = {"friends"}
  /\ UNCHANGED <<blocks, refreshing, file>>
-----------------------------------------------------------------------------
(***************************************************************************)
(* The screens.                                                            *)
(***************************************************************************)
\* A tab's first appearance runs its viewDidLoad.
OpenNews ==
  /\ process = "tabs" /\ "newsfeed" \notin opened
  /\ opened' = opened \cup {"newsfeed"}
  /\ requests' = requests \cup {Request("newsfeed", session)}
  /\ UNCHANGED <<process, session, blocks, refreshing, file, heirs>>

OpenGroups ==
  /\ process = "tabs" /\ "groups" \notin opened
  /\ opened' = opened \cup {"groups"}
  /\ blocks' = OfGroups
  /\ UNCHANGED <<process, session, requests, refreshing, file, heirs>>

\* loadGroups and loadInvitations read the session on a global queue.
Build(kind) ==
  /\ process = "tabs" /\ kind \in blocks
  /\ blocks' = blocks \ {kind}
  /\ requests' = requests \cup {Request(kind, session)}
  /\ UNCHANGED <<process, session, opened, refreshing, file, heirs>>

\* A pull clears the list, if the write commits, and asks for a new one.
Pull ==
  /\ process = "tabs" /\ ~refreshing
  /\ refreshing' = TRUE
  /\ \/ file' = {} /\ heirs' = {session.token}
     \/ UNCHANGED <<file, heirs>>
  /\ requests' = requests \cup {Request("refresh", session)}
  /\ UNCHANGED <<process, session, opened, blocks>>

\* The server answers with friends of the account the token is of; they are
\* merged into the file, if the write commits.  To a token of no account it has
\* no answer that decodes.
Answer(request, friends) ==
  /\ process = "tabs" /\ request \in requests /\ request.token \in Account
  /\ friends \subseteq FriendsOf[request.token]
  /\ IF request.kind \in OfFriends
     THEN file' \in {file, file \cup friends}
     ELSE friends = {} /\ UNCHANGED file
  /\ requests' = requests \ {request}
  /\ refreshing' = (refreshing /\ request.kind # "refresh")
  /\ UNCHANGED <<process, session, opened, blocks, heirs>>

Fail(request) ==
  /\ process = "tabs" /\ request \in requests
  /\ requests' = requests \ {request}
  /\ UNCHANGED <<process, session, opened, blocks, refreshing, file, heirs>>

\* The process ends: killed, or in one of the crashes of Friends or NewsFeed.
End ==
  /\ process \in {"login", "tabs"}
  /\ process' = "ended"
  /\ UNCHANGED <<session, opened, blocks, requests, refreshing, file, heirs>>

\* A slip: requests of the process before are finished by this one.
RelaunchResuming ==
  /\ process \in {"trapped", "ended"}
  /\ process' = "login"
  /\ session' = SignedOut
  /\ opened' = {} /\ blocks' = {} /\ refreshing' = FALSE
  /\ UNCHANGED <<requests, file, heirs>>

\* A new process starts at the login page with an empty session.
Relaunch ==
  /\ process \in {"trapped", "ended"}
  /\ process' = "login"
  /\ session' = SignedOut
  /\ opened' = {} /\ blocks' = {} /\ requests' = {} /\ refreshing' = FALSE
  /\ UNCHANGED <<file, heirs>>
-----------------------------------------------------------------------------
Next ==
  \/ \E fragment \in Fragment : Trap(fragment) \/ SignIn(fragment)
  \/ OpenNews
  \/ OpenGroups
  \/ \E kind \in OfGroups : Build(kind)
  \/ Pull
  \/ \E request \in requests, friends \in SUBSET Friend : Answer(request, friends)
  \/ \E request \in requests : Fail(request)
  \/ End
  \/ Relaunch

Spec == Init /\ [][Next]_vars
-----------------------------------------------------------------------------
(***************************************************************************)
(* What must be true.                                                      *)
(***************************************************************************)
\* Every request, whenever and on whichever thread it was built, carries the
\* token and the user_id of the session of this process: none is built before
\* the sign-in, and none outlives the process it was built in.
RequestsAreOfTheSession ==
  /\ process = "login" => requests = {}
  /\ process = "tabs" => \A r \in requests : r = Request(r.kind, session)

\* The list takes in friends of the account that is signed in and of no other.
OnlyOwnFriendsAreAdded ==
  [][file' \ file # {} =>
       process = "tabs" /\ file' \ file \subseteq FriendsFor(session.token)]_vars

\* Nothing binds the Realm file to an account, so what an earlier account left
\* stays under the next; but only until a refresh has cleared the list. From
\* then on whatever is in it is of the account that refreshed or of one that
\* signed in later, whichever answers were still out, in this process or in one
\* that ended before they came.
ClearedOfOtherAccounts ==
  file \subseteq UNION {FriendsFor(token) : token \in heirs}
=============================================================================
