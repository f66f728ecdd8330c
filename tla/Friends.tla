------------------------------ MODULE Friends ------------------------------
(***************************************************************************)
(* The friends screen: MyFriendsViewController over the Realm file that    *)
(* RealmService opens and the answers NetworkService brings.  Everything   *)
(* but the network runs on the main thread, in turns: a Realm notification,*)
(* a queued completion, a pull to refresh, a change of the search text, a  *)
(* table asking for a cell.  The Realm file outlives the process.          *)
(***************************************************************************)
EXTENDS RealmChanges, TableView

CONSTANTS
  Friend,     \* identifiers of the user's possible friends
  ObjectKey,  \* order of the unsorted Results: Realm's object keys
  Important,  \* rows of the "most important friends" section (5 in the code)
  Name,       \* what a friend may be called
  Text,       \* search texts that are not empty
  Matches,    \* the names of which the first or the last part begins with a text
  NoText      \* the search field is empty or inactive

ASSUME FriendAssumption == Friend \subseteq Nat /\ IsFiniteSet(Friend)
ASSUME ObjectKeyAssumption ==
  /\ ObjectKey \in [Friend -> Nat]
  /\ \A f, g \in Friend : ObjectKey[f] = ObjectKey[g] => f = g
ASSUME ImportantAssumption == Important \in Nat \ {0}
ASSUME TextAssumption == NoText \notin Text /\ Matches \in [Text -> SUBSET Name]

VARIABLES
  app,        \* how the process is doing
  open,       \* RealmService.shared is not nil in this process
  store,      \* the Realm file: the names of the friends in it
  seen,       \* the same at the last delivered notification
  touched,    \* friends written again since then, themselves or their city
  initial,    \* the observers' `.initial` call is still to come
  shown,      \* row counts the table was last told
  search,     \* text filteredFriendCellModels was built for, or NoText
  inflight,   \* loads whose request is with the network
  mainQueue,  \* answers handed to DispatchQueue.main, oldest first
  refreshing  \* the refresh control spins

vars == <<app, open, store, seen, touched, initial, shown, search,
          inflight, mainQueue, refreshing>>

observed == <<seen, touched, initial>>
requests == <<inflight, mainQueue>>

\* The load of viewDidLoad and the load of a pull to refresh.
Kind == {"initial", "refresh"}

\* Lists of friends by identifier, in the Realm file and in an answer.
EmptyList == [f \in {} |-> f]
List == UNION {[F -> Name] : F \in SUBSET Friend}
Answer == [kind : Kind, friends : List]

Running == app = "running"

\* Sections.allCases, counted from 1.
first  == 1
second == 2
third  == 3

\* friendCellModels is sorted by the key path "id".
Id == [f \in Friend |-> f]

TypeOK ==
  /\ app \in {"running", "killed", "batchUpdate", "outOfRange"}
  /\ open \in BOOLEAN
  /\ store \in List
  /\ seen \in List
  /\ touched \subseteq Friend
  /\ initial \in BOOLEAN
  /\ shown \in Seq(Nat)
  /\ search \in Text \cup {NoText}
  /\ inflight \subseteq Kind
  /\ mainQueue \in Seq(Answer)
  /\ refreshing \in BOOLEAN
-----------------------------------------------------------------------------
(***************************************************************************)
(* The data source.  The Results are live, so it always answers from the   *)
(* Realm file; with no Realm there is nothing to show.                     *)
(***************************************************************************)
ClippedCount(n) == IF n < Important THEN n ELSE Important

\* The filtered Results of a text.
Filtered(list, text) == {f \in DOMAIN list : list[f] \in Matches[text]}

\* A slip: section third lists only the friends section second has no room for.
RowsOfTheRest(list, text) ==
  IF text = NoText
  THEN LET n == Cardinality(DOMAIN list) IN <<1, ClippedCount(n), n - Important>>
  ELSE <<Cardinality(Filtered(list, text))>>

\* A slip: while filtering, the rows of the whole list are counted.
RowsOfAll(list, text) ==
  LET n == Cardinality(DOMAIN list)
  IN  IF text = NoText THEN <<1, ClippedCount(n), n>> ELSE <<n>>

\* numberOfSections and numberOfRowsInSection over a list.
RowsOf(list, text) ==
  IF text = NoText
  THEN LET n == Cardinality(DOMAIN list) IN <<1, ClippedCount(n), n>>
  ELSE <<Cardinality(Filtered(list, text))>>

Visible == IF open THEN store ELSE EmptyList
-----------------------------------------------------------------------------
(***************************************************************************)
(* Notifications.  Realm delivers a commit's notification in a turn of its *)
(* own, and before any later write.  The sorted observer is called first   *)
(* and edits section third; the unsorted one edits the first Important     *)
(* rows of section second.                                                 *)
(***************************************************************************)
\* A slip: the unsorted observer edits rows its section does not show.
WholeBatch(batch) == batch

Top(batch) ==
  [deletions  |-> {r \in batch.deletions : r < Important},
   insertions |-> {r \in batch.insertions : r < Important},
   reloads    |-> {r \in batch.reloads : r < Important}]

Changed == ~initial /\ (seen # store \/ touched # {})

ChangesBy(key) == Changes(key, DOMAIN seen, DOMAIN store, touched)
SortedBatch   == ChangesBy(Id)
UnsortedBatch == Top(ChangesBy(ObjectKey))

\* Both endUpdates calls return.
BatchesAccepted ==
  LET now == RowsOf(store, search)
  IN  Changed => /\ Accepts(shown, now, third, SortedBatch)
                 /\ Accepts(now, now, second, UnsortedBatch)

\* A slip: the observers leave the table alone.
ShownUnedited == shown

\* What the table was told once the pending notification is delivered.
ShownAfterDelivery == IF Changed THEN RowsOf(store, search) ELSE shown

\* The notification of the last commit arrives in its own turn.
Deliver ==
  /\ Running /\ open /\ (initial \/ Changed)
  /\ \/ /\ BatchesAccepted
        /\ shown' = ShownAfterDelivery
        /\ seen' = store /\ touched' = {} /\ initial' = FALSE
        /\ UNCHANGED app
     \/ /\ ~BatchesAccepted
        /\ app' = "batchUpdate"
        /\ UNCHANGED <<observed, shown>>
  /\ UNCHANGED <<open, store, search, requests, refreshing>>

\* A slip: a write that does not deliver the pending notification first.
WriteUnannounced(content, written) ==
  /\ store' = IF open THEN content ELSE store
  /\ touched' = IF open THEN touched \cup (written \cap DOMAIN store) ELSE touched
  /\ UNCHANGED <<app, seen, initial, shown>>

\* The stored friends a write reports modified: those it writes again, and others
\* whose city, an object with a key of its own, it writes again with them.
Rewritten(written) ==
  IF written = {} THEN {{}}
  ELSE {S \in SUBSET DOMAIN store : written \cap DOMAIN store \subseteq S}

\* realm.write: deliver what is pending, then commit the new content,
\* rewriting the friends of written, or throw (the callers use try?).
Write(content, written) ==
  \/ /\ open /\ BatchesAccepted
     /\ shown' = ShownAfterDelivery
     /\ seen' = store /\ initial' = FALSE
     /\ \/ store' = content /\ touched' \in Rewritten(written)
        \/ UNCHANGED store /\ touched' = {}
     /\ UNCHANGED app
  \/ /\ open /\ ~BatchesAccepted
     /\ app' = "batchUpdate"
     /\ UNCHANGED <<store, observed, shown>>
  \/ /\ ~open
     /\ UNCHANGED <<app, store, observed, shown>>
-----------------------------------------------------------------------------
(***************************************************************************)
(* The handlers.                                                           *)
(***************************************************************************)
\* A slip: a pull counts while the control spins.
CanAlwaysPull == TRUE

\* UIKit sends `.valueChanged` only when the control starts to spin.
CanPull == ~refreshing

\* refresh(_:): try? deleteAll(), then ask the network for a new list.
Refresh ==
  /\ Running /\ CanPull
  /\ refreshing' = TRUE
  /\ Write(EmptyList, {})
  /\ inflight' = IF app' = "running" THEN inflight \cup {"refresh"} ELSE inflight
  /\ UNCHANGED <<open, search, mainQueue>>

\* The network answers; the completion on the global queue hands the answer
\* to the main queue.
Respond(kind, friends) ==
  /\ Running /\ kind \in inflight
  /\ inflight' = inflight \ {kind}
  /\ mainQueue' = Append(mainQueue, [kind |-> kind, friends |-> friends])
  /\ UNCHANGED <<app, open, store, observed, shown, search, refreshing>>

\* The request fails or times out: loadData only prints the error.
Fail(kind) ==
  /\ Running /\ kind \in inflight
  /\ inflight' = inflight \ {kind}
  /\ UNCHANGED <<app, open, store, observed, shown, search, mainQueue, refreshing>>

\* A slip: the friends of an answer replace the list.
Replaced(friends) == friends

\* realm.add(objects, update: .all): upsert by primary key.
Merged(friends) == Upsert(store, friends)

\* A slip: any answer ends the spinning.
EndsWithAny(answer) == TRUE

\* A slip: the completion is called only when there is a Realm to write to.
EndsIfStored(answer) == answer.kind = "refresh" /\ open

\* Only the load of a refresh has a completion, which calls endRefreshing.
EndsRefresh(answer) == answer.kind = "refresh"

\* The block of loadDataFromNetwork: try? add(objects:), then the completion.
RunMain ==
  /\ Running /\ mainQueue # <<>>
  /\ LET answer == Head(mainQueue)
     IN  /\ Write(Merged(answer.friends), DOMAIN answer.friends)
         /\ refreshing' = (refreshing /\ ~(EndsRefresh(answer) /\ app' = "running"))
  /\ mainQueue' = Tail(mainQueue)
  /\ UNCHANGED <<open, search, inflight>>

\* updateSearchResults: a new filter, and the table reloads its counts.
UpdateSearch(text) ==
  /\ Running
  /\ search' = text
  /\ shown' = RowsOf(Visible, text)
  /\ UNCHANGED <<app, open, store, observed, requests, refreshing>>

\* cellForRowAt, for a row the table believes in.  Sections second and third
\* compare the row with the count; the filtered branch does not, and the
\* subscript of a Results out of its bounds ends the process.
CellForRowAt(row) ==
  /\ Running /\ search # NoText
  /\ row < shown[first]
  /\ row >= Cardinality(Filtered(Visible, search))
  /\ open
  /\ app' = "outOfRange"
  /\ UNCHANGED <<open, store, observed, shown, search, requests, refreshing>>

\* The user or the system ends the process.
Kill ==
  /\ Running
  /\ app' = "killed"
  /\ UNCHANGED <<open, store, observed, shown, search, requests, refreshing>>

\* A fresh process and viewDidLoad: observe, and load from the network.
Start ==
  /\ app' = "running"
  /\ open' \in BOOLEAN
  /\ seen' = store /\ touched' = {} /\ initial' = open'
  /\ search' = NoText
  /\ shown' = RowsOf(IF open' THEN store ELSE EmptyList, NoText)
  /\ inflight' = {"initial"} /\ mainQueue' = <<>>
  /\ refreshing' = FALSE

Relaunch == ~Running /\ Start /\ UNCHANGED store
-----------------------------------------------------------------------------
\* The first launch finds no Realm file.
Init ==
  /\ app = "running"
  /\ open \in BOOLEAN
  /\ store = EmptyList /\ seen = EmptyList /\ touched = {} /\ initial = open
  /\ search = NoText
  /\ shown = RowsOf(EmptyList, NoText)
  /\ inflight = {"initial"} /\ mainQueue = <<>>
  /\ refreshing = FALSE

Next ==
  \/ Deliver
  \/ Refresh
  \/ \E kind \in Kind, friends \in List : Respond(kind, friends)
  \/ \E kind \in Kind : Fail(kind)
  \/ RunMain
  \/ \E text \in Text \cup {NoText} : UpdateSearch(text)
  \/ \E row \in 0..(Cardinality(Friend) - 1) : CellForRowAt(row)
  \/ Kill
  \/ Relaunch

\* A request is answered or times out (NetworkService sets 20 seconds).
Settle(kind) == Fail(kind) \/ \E friends \in List : Respond(kind, friends)

\* The main run loop serves its queue and Realm's notifier; the network
\* settles every request.  Nothing makes the user act or the process start.
Fairness ==
  /\ WF_vars(Deliver)
  /\ WF_vars(RunMain)
  /\ \A kind \in Kind : WF_vars(Settle(kind))

Spec == Init /\ [][Next]_vars /\ Fairness
-----------------------------------------------------------------------------
(***************************************************************************)
(* What must be true.                                                      *)
(***************************************************************************)
\* Loads that will still reach the list: with the network, or answered and
\* waiting for the main queue.
Waiting == {mainQueue[i].kind : i \in DOMAIN mainQueue}
Outstanding == IF Running THEN inflight \cup Waiting ELSE {}

\* The rows the table was told are those of the Realm file or those of the
\* version before its last commit, never older: a notification is delivered
\* before the next write (refresh, loadDataFromNetwork), so two commits never
\* share one batch, and updateSearchResults only ever moves the table ahead.
TableOneCommitBehind ==
  Running /\ open => shown \in {RowsOf(seen, search), RowsOf(store, search)}

\* A notification describes one commit: a clear of the list, or growth. Were
\* the clear of a refresh and the answer that follows it delivered together,
\* one batch would delete and insert rows at once.
OneCommitPerNotification ==
  Running /\ open =>
    \/ store = EmptyList
    \/ /\ DOMAIN seen \subseteq DOMAIN store /\ touched \subseteq DOMAIN seen
       /\ \A f \in DOMAIN seen \ touched : store[f] = seen[f]

\* A load is outstanding at most once, and while the load of a refresh is
\* outstanding the control spins, so the user cannot start another one.
OneLoadPerKind ==
  Running =>
    /\ inflight \cap Waiting = {}
    /\ \A i, j \in DOMAIN mainQueue : mainQueue[i].kind = mainQueue[j].kind => i = j
    /\ "refresh" \in Outstanding => refreshing

\* What makes a table update end the process: a search is on (the table has
\* one section, the observers edit the second and third); the list was emptied;
\* the important section was not full, or a new friend lands in it; or a reload
\* of the table had shown the commit before its notification.  So new friends
\* below the important rows, and friends only written again, are harmless.
BatchCrashCauses ==
  [][(Running /\ app' = "batchUpdate") =>
       \/ search # NoText
       \/ store = EmptyList
       \/ Cardinality(DOMAIN seen) < Important /\ DOMAIN seen # DOMAIN store
       \/ \E f \in DOMAIN store \ DOMAIN seen :
            Position(ObjectKey, f, DOMAIN store) < Important
       \/ shown # RowsOf(seen, NoText)]_vars

\* The unguarded subscript of the filtered branch goes out of bounds only
\* before a commit's notification: a refresh cleared the list, or an answer
\* renamed a friend the search had found.
CellTrapBeforeNotification ==
  [][(Running /\ app' = "outOfRange") =>
       /\ search # NoText
       /\ \/ store = EmptyList /\ seen # EmptyList /\ refreshing
          \/ \E f \in touched : f \in Filtered(seen, search) \ Filtered(store, search)]_vars

\* A refresh whose request failed leaves the control spinning until the
\* process ends: nothing else in the program ends it.
Stuck == Running /\ refreshing /\ "refresh" \notin Outstanding
FailedRefreshIsTerminal == [][Stuck => Stuck' \/ ~Running']_vars

\* The list in the Realm file is a FriendCache, across crashes and restarts.
Cache == INSTANCE FriendCache
           WITH cache <- store, alive <- Running, wanted <- Outstanding
CacheSpec == Cache!Spec

\* The table catches up with the Realm file, or the process ends.
TableCatchesUp ==
  (Running /\ open) ~> (shown = RowsOf(store, search) \/ ~Running)

\* Once the answer of a refresh waits for the main queue, the control stops:
\* the completion is called whether the write commits, throws or has no Realm.
AnsweredRefreshEnds ==
  (Running /\ "refresh" \in Waiting) ~> (~refreshing \/ ~Running)

\* RealmCollectionChange says its index arrays "can be passed as-is to a table
\* view's batch update functions": the updates made from them are accepted.
BatchUpdatesAccepted == app # "batchUpdate"
=============================================================================
