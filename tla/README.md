# A verification project for the VK client

The repository holds an iOS client of the VK social network, written in Swift:
a login page, a tab bar with the user's friends, groups and news, a Realm file
that keeps the friends between launches, and a thin network layer over
Alamofire. About 1900 lines under `src/vk/vk` are compiled (the Sources phase
of `vk.xcodeproj/project.pbxproj`); the files named `... 2.swift` and
`... 3.swift` are stale copies outside the target, and `src/vk/Pods` is vendored.

Of the vendored pods one keeps state with the program: Realm, whose object store
compares the friends after every commit and tells the screen what changed. What the
friends screen needs of it (one commit per notification, none lost, none twice,
positions that add up) is the hardest code below the screen, so the part of it the
screen drives is modelled too, from its source in `Pods/Realm`.

The modules here model what that code does with its state, check it with TLC on
small instances and prove for every instance the properties of the friends screen,
of the notifications under it, of the session, of the groups and of the news. Paths below are relative to
`src/vk/vk`; those that begin with `object-store` or `impl` are in
`src/vk/Pods/Realm` (`Realm/ObjectStore/src` and `include/impl`).

## 1. The system

| Part | Files | State | Operations |
|---|---|---|---|
| Friends screen | `Screens/User Friends/MyFriendsViewController.swift` | the filtered Results, the refresh control, two notification tokens, the table's row counts | viewDidLoad, two observers, refresh, loadDataFromNetwork, the data source, the search |
| Realm file | `Servises/RealmService.swift`, `UserFriendModel`, `City` | the stored friends, across launches | open (may fail), add with `update: .all`, getObjects (live), deleteAll |
| Network service | `Servises/Network Service/NetworkService.swift`, `VKRequestParametrs.swift` | requests with the network | loadData: a completion on a global queue, or a printed error |
| Session | `Servises/Session.swift` | token and user id, as long as the process | set at sign-in, read by each request |
| Login page | `Screens/Log In/VKLoginController.swift` | the page shown | decidePolicyFor navigationResponse: parse the fragment, fill the session, segue |
| Groups screen | `GroupsNetworkManager.swift`, `GroupsViewModel.swift`, `MyGroupsViewController.swift` | a DispatchGroup, two optional answers, the HUD, the cells | loadData: two blocks on a global queue, two completions, one notify block |
| News screen | `NewsViewController.swift`, `NewsViewModel.swift`, `SectionModel.swift`, `Creator.swift` | postModels, the table's counts | setUpAsync on a global queue, reloadData from there, the data source on the main thread |
| Realm notifications | `realm_coordinator.cpp`, `collection_notifier.cpp`, `results_notifier.cpp`, `shared_realm.cpp`, `results.cpp` | the coordinator's two lists of notifiers, three versions, the worker's copies, each notifier's accumulated changes and callback | observe, invalidate, begin and commit of a write, `Realm::notify`, the worker's `on_change` |
| Realm change sets | `collection_change_builder.cpp` | deletions, insertions, modifications | calculate, merge, finalize |
| Realm index sets | `index_set.cpp`, `index_set.hpp` | chunks of ranges with a summary each | add, insert_at, shift_for_insert_at, erase_at, add_shifted_by, remove, set, count, the builder |
| Views, delegates, decoding | cells, headers, AppDelegate, SceneDelegate, the Codable models | none of interest | none modelled |

How they meet:

* Login fills `Session.shared`, then performs `RunTheAppSegue`. Friends is the
  first tab and loads at once; Groups and News load when their tab first
  appears. Screens live until the process ends, so each `viewDidLoad` runs once
  in a process.
* Every request reads the session when it is built. An answer comes back on a
  global queue. Friends hops to the main queue before it touches Realm; Groups
  writes properties from the global queue and joins with a DispatchGroup; News
  goes to another global queue and changes the array its table reads.
* Realm is used on the main thread only. A write delivers the notification still
  pending before it commits, so each notification covers one commit. The two
  observers of the friends screen are called one after the other, the sorted
  list's first.
* Under the token, the main thread registers a notifier per observed Results with
  the coordinator, writes, and wakes a worker thread after each commit. The worker
  copies the lists under `m_notifier_mutex`, compares without it, hands the changes
  over under it and signals the run loop, which delivers. A write that begins while
  an observer is behind waits for the worker, holding the write lock, and delivers
  before it commits. `Friends` takes the outcome for granted, `RealmObserver` states
  it, `RealmNotifier` shows where it comes from.
* The table asks the data source at times of its own: at `endUpdates`, after
  `reloadData`, when a cell comes on the screen.

### What is hard, and what makes each part correct

* **Friends**: one commit is shown in two sections by two batches; the Results
  are live, so the data source is always ahead of the batch being made; a search
  changes the number of sections under the observers; a refresh clears the list
  before it knows of a new one; the first load and a refresh race; the process
  may die in between. Correct means: the table lags by at most one commit and
  catches up; only named situations can end the process; a load is taken in whole
  and once; nothing but a refresh shrinks the list.
* **Groups**: `enter` runs inside the blocks, `leave` runs before the answer is
  kept, failures call nobody. Correct means: the counter equals what is owed in
  every order, the notify block runs after both answers, a success has both.
* **News**: a Swift array is appended to off the main thread. Correct means: the
  sections are the posts with known authors in order, no section asked for is out
  of bounds, the table ends up with all of them.
* **Accounts**: the session is volatile, the file is not, and the login page takes
  any string for a token. Correct means: every request is of the session of its
  process; only friends of the account signed in are added; what an earlier account
  left is gone once a refresh has cleared the list, whatever was still on its way.
* **Realm notifications**: a worker that works on copies while the main thread
  registers, drops and writes; two versions to advance from; a version to skip that
  may outlive who was to skip it; packages taken and then given up. Correct means:
  every commit that changed the collection is told once, at its version, before the
  next; the code's assertions hold; a writer that waits is let go.
* **Realm change sets**: each set speaks of rows the one before has shifted, and two
  numberings, old and new, meet in `finalize`. Correct means: delete and insert lead
  from the rows the observer has to the rows there are, and exactly what was written
  and stayed is reloaded, at its old place.
* **Realm index sets**: chunks with a redundant summary, changed while walked. Correct
  means: every operation does to the rows what a set would, and the summary is right.

`PROJECT.json` lists the hazards at their lines with the properties that watch them.

## 2. Modules

| Module | Models |
|---|---|
| `TableView` | UIKit's acceptance rule for a batch of edits (external, from its use) |
| `RealmChanges` | positions of a notification, upsert (external, from its use) |
| `Friends` | the friends screen with the Realm file, the main queue and the network |
| `FriendCache` | what the screen promises of the durable list (abstract) |
| `FriendsProofs` | their theorems, those about `RealmChanges` first |
| `GroupsLoad` | `GroupsNetworkManager.loadData` and its threads |
| `GroupsReport` | what `loadData` promises its caller (abstract) |
| `NewsFeed` | the news screen and its race |
| `Accounts` | login, session, requests of all screens, the file across accounts |
| `RealmObserver` | what Realm promises its observers (abstract) |
| `RealmNotifier` | the coordinator, its worker, the notifiers and the main thread's writes |
| `RealmNotifierProofs`, `AccountsProofs`, `GroupsLoadProofs`, `NewsFeedProofs` | theirs |
| `IndexSets` | what an index set does to the rows it stands for (abstract) |
| `ChunkedIndexSet` | the chunks of ranges, their walks and their builder |
| `MergedChanges` | calculate, merge and finalize of a Results' change set, whichever rows moved |
| `ChangeSets` | how the comparison decides which rows moved |
| `IndexSetsProofs`, `ChunkedIndexSetProofs`, `ChangeSetsProofs` | their theorems, in the last those about `MergedChanges` first |
| `MCFriends`, `MCNewsFeed`, `MCAccounts`, `MCRealmNotifier` | instances for TLC |

Operators whose comment begins "A slip" are mistakes a change to the code could
make; each run's property is shown to be violated when the slip stands for the
definition after it. No specification uses them.

### Friends

The list is a function from friends to names: `store` is the Realm file, `seen`
the version the observers know, `touched` the friends written again since.
`shown` is the table's row counts: three sections (a button row, at most
`Important` rows of the unsorted Results, all of the sorted ones), or one while
filtering. `mainQueue` holds the answers handed to `DispatchQueue.main`.

| Code | Action |
|---|---|
| observers of `createNotifications` (96-159) | `Deliver`, and inside `Write` |
| `refresh` (163-170) with `deleteAll` | `Refresh` |
| `NetworkService.loadData` answer, failure | `Respond`, `Fail` |
| the main-queue block of `loadDataFromNetwork` (197-200) | `RunMain` |
| `updateSearchResults` (366-375) | `UpdateSearch` |
| `cellForRowAt` out of bounds (245) | `CellForRowAt` |
| end of the process, next launch with `viewDidLoad` | `Kill`, `Relaunch` |

`Write` is `realm.write`: the pending notification is delivered first and may end
the process; then the write commits or throws (callers use `try?`); without a
Realm nothing happens. Whether a batch is accepted is computed, by `Accepts`, from
the table's counts, the data source's counts and the notification's rows. The
order of the unsorted Results is the constant `ObjectKey`, since Realm orders
by object key and promises no relation to the identifier. Names stand for the
fields a search compares: `Matches` gives the names a text selects.
A `City` is an object with a key of its own and is written again with the friend, so a
write may report other friends of that city modified as well: `Rewritten` leaves open
which. `app` starts at the friends screen; what precedes it in a launch is in `Accounts`.

Assumed of UIKit: a refresh control sends `.valueChanged` only when it is not
already refreshing; `refreshControl` of a UITableViewController is the one set on
its table; a data source that answers `endUpdates` with counts the edits do not
explain raises NSInternalInconsistencyException, which nobody catches.

### GroupsLoad

`count` is the DispatchGroup's counter: `async(group:)` and `enter()` add, the end
of a block and `leave()` take. Each thread's accesses are separate actions: a
block enters, sends, ends; a completion leaves, then keeps; the notify block reads
`groups`, then `invitations`. A property read while it is set is nil or the value.
What the caller sees implements `GroupsReport`.

### NewsFeed

The loop of `setUp` takes a post at a time. An append has a beginning and an end; a
read of the array's count between them returns either count or ends the process
(`ReadTorn`), the outcomes of the data race that matter here. `reloadData` off the
main thread asks for another layout, or ends the process when a layout is running.
A layout reads `numberOfSections` and then the rows of each section. Sections have
no rows: the initialiser of `SectionModel` is empty. The posts themselves are
their `source_id`s, and a creator is the group or profile at an index of the answer.

### Accounts

A fragment is a sequence of pieces; `Param` is the dictionary built of it, which tells
a key without a value (`Absent`) from an empty one (`Empty`). `Grants` is the code's
check: any string for a token, the empty one and one of no account among them, and a
user id that `Int()` parses (`Number`). `Account` are the tokens the server knows; it
answers requests with any other token by an error object, which does not decode, so they only
`Fail`. The two assignments to the session and the segue run in one turn of the main
thread and are one step, `SignIn`; `OpenTabs` is its order, the session before the
segue. A process signs in once: the tab bar is presented over the whole screen
(`Main.storyboard:111`), and navigation behind it is not modelled. `Answer` merges the
main queue's turn into the arrival, which `Friends` keeps apart, and the crashes of
`Friends` and `NewsFeed` are its `End`. `heirs` is a history variable: who signed in
since the file was last cleared, and who cleared it; no action reads it.

### RealmNotifier

One Realm on one thread, as in the program. A version counts the commits of the file;
`changed` are those that changed what the Results hold, and a change set is the set of
the commits it stands for, so what `RealmNotifier` leaves out is which rows they
touched, and `ChangeSets` is about those. Each action is one critical section of
`m_notifier_mutex`, or the work between two:

| Code | Action |
|---|---|
| `Results::prepare_async`, `register_notifier` | `Register` (`Observe`, or `Evaluate` when rows are read) |
| `add_callback`, `remove_callback`, `unregister` | `AddCallback`, `RemoveCallback`, `Unregister` |
| `begin_transaction` up to its wait; the wait's wake-up | `Begin`, `WaitForNotifiers` |
| `NotifierPackage::package_and_wait` | `PackageAndWait` |
| `Realm::notify` with `process_available_async` | `Notify` |
| `after_advance`, one notifier at a time | `AfterAdvance`, `NothingToDeliver` |
| `commit_write` | `CommitWrite` |
| `run_async_notifiers`: to its first unlock, the skipped version, all, the handover | `Wake` or `WakeForNothing`; `RunSkip`, `HandOverSkip`; `RunAll`; `HandOver` |

The name of a notifier stands for the object; a dead one's name can be taken again
once no list and no copy has it, as memory can. `PackageAndWait` keeps the code's
choice of the notifier packaged last: when that one is of an older version all
packages are given up, though their changes are no longer accumulated;
`HandedOverTogether` is why that never happens to an observer. `seen` and `told` only
record what the callback was given, and with `latest`, `changed` and `observer` they
are the variables of `RealmObserver`, which `KeepsThePromise` instantiates by name.

### MergedChanges, ChangeSets, IndexSets, ChunkedIndexSet

`MergedChanges` takes an ordered collection from any order of the objects to any other,
one commit at a time, and merges each commit's set into the one nobody has taken, as
`add_changes` does. A Results counts an object that moved as deleted and inserted.
`Calculate` is told which ones; `Movable` are those it may be told: the others kept their
order, and none is moved when all kept it. `ChangeSets` is the code's own decision:
`FindLongestMatches`, translated with its tie-breaking. That it decides within `Movable`
is `AnyMovesSpec`, the specification of `MergedChanges`, checked and proved of `ChangeSets`
as a refinement. The row loop and the recursion are recursive functions, of rows and of
the `Blocks` searched, so that they can be proved about. Index sets are sets of row numbers, with the operations of `IndexSets`.
`ChunkedIndexSet` is the layer under them: sequences of chunks with `begin`, `end` and
`count`, walked and changed range by range; each step is one operation with any
argument, on every layout earlier operations have left. A position is a chunk and an
offset in it. Loops over row numbers, over the values of a set and over the turns of
`do_remove` are recursive functions (`Each`, `DoRemove`), not RECURSIVE operators, so that
they can be proved about; a loop that the code runs over two sets at once (`insert_at`,
`erase_at`, `add_shifted_by`) is run by the row that is next, which visits both in the same
order. `max_size` is 4 in a debug build and 4096/16 = 256 in a release build
(`index_set.hpp:103`, `:105`); `ensure_space` splits a full chunk in halves, hence
`MaxSizeAssumption` asks for an even number. `insert_at` into a set without rows copies the
positions, here in chunks as `add` lays them. `RealmChanges`, on which
`Friends` rests, is in turn what `MergedChanges` says of one commit (`ReportsChanges`).

## 3. Runs

| Run | Bounds | Shows |
|---|---|---|
| `friends` | 3 friends, `Important` = 2, one name, one text | the table lags one commit at most; loads are distinct; what can end the process in a table update; a failed refresh never ends; the table catches up; an answered refresh ends |
| `friends_renamed` | 2 friends, `Important` = 1, two names of which the text selects one | notifications are single commits; the filtered subscript fails only before one; the file refines `FriendCache` |
| `friends_batch` | as `friends` | violated: see Findings |
| `groups` | none: the model is finite | counter, notify, success, the window of a wrong error, `GroupsReport` |
| `news` | feeds of up to 3 posts, 4 combinations of groups and profiles with repeated and shared ids | sections follow the feed, layouts stay in bounds, the feed is shown |
| `notifier` | 2 notifiers, 3 versions | delivery is the promise of `RealmObserver`, with its liveness; the assertions of the worker; one version for all; one commit per call; a waiting writer begins |
| `change_sets` | 4 objects, 1 written per commit, 2 commits not taken | the set applies, reloads exactly what was written, is what `Friends` takes it for; the moved rows are rows that may be moved (`AnyMovesSpec`) |
| `change_sets_ties` | 3 objects, 1 commit | violated: see Findings |
| `index_sets` | rows 0 to 5, chunks of 2 ranges | every operation does what `IndexSets` says and keeps chunks well formed; which counts are right |
| `index_sets_count`, `index_sets_builder` | as `index_sets` | violated: see Findings |
| `accounts` | 2 accounts, 3 friends of whom one is common, 10 fragments, among them an empty token and one of nobody | requests are of the session, only own friends are added, and a refresh rids the list of another account's for good |

Why the bounds are enough: with three friends and two important rows the important
section can be empty, not full, full and overfull, and an insertion can fall above
and below its edge; `ObjectKey` orders the friends differently from their
identifiers, so the two observers report different rows. A load is outstanding at most once (`OneLoadPerKind`),
so the main queue is short without a bound. With two names an answer can take a
friend out of a search. Three posts put an unknown author before, between and after
known ones. Two accounts and a common friend distinguish whose answer arrived.

Two notifiers are the two observers of the friends screen, and enough for one to be new
while the other has run, for one to die under the worker, and for two versions to meet
in one package. Three versions allow two commits, the second begun while the worker
still brings the first, so a version is skipped, and skipped late. With chunks of two
ranges and six rows a set has up to three ranges in two chunks: a chunk overflows, empties,
splits in the middle and at its end, and an operation crosses from one to the next.
With four objects a block of two can move across another of two, with equal matches;
two commits are the least that need a merge, and a merged set is again merged into.

Fairness. `RealmNotifier`: both threads are scheduled (weak fairness of `Worker` and of
what the main thread does by itself), and the run loop comes to a signalled source
however often the user makes it do something else (strong fairness of `Notify`). Nobody
has to write or to observe, so the run does not check deadlock. `Friends`: the run loop serves the main queue and Realm's notifier, and
requests settle, since NetworkService sets a timeout of 20 seconds and Alamofire
reports it as a failure. Nothing makes a user search, pull or relaunch. `GroupsLoad`
and `NewsFeed`: threads that can run do run, and requests settle. `Accounts` has
safety properties only.

`groups` and `news` do not check deadlock: one load happens and the system stops.

## 4. Findings

* `friends_batch`: Realm's documentation (`src/vk/Pods/RealmSwift/RealmSwift/RealmCollection.swift:57-58`)
  says that a notification's index arrays "can be passed as-is to a table view's
  batch update functions". The friends screen passes them to two batches of two
  sections, cutting one off at row 5. At the first `endUpdates` both sections have
  changed already; so the first answer into an empty list, a refresh of a list that
  was not empty, an insertion into the first five rows and any commit during a
  search end the process. `BatchCrashCauses`, which is proved, is the complete list.
* `index_sets_count`: `IndexSet::count(start, end)` (`index_set.cpp:301`) leaves out the
  part of a chunk's first range below `end` when the count ends in that range and began in
  an earlier chunk. `CountsOtherRows` shows that it is right otherwise.
* `index_sets_builder`: `ChunkedRangeVectorBuilder::push_back` (`index_set.cpp:244`) gives a
  chunk beyond those it planned for the count 1, so the summary that `verify()` asserts
  (`index_set.cpp:190`) is wrong after an `add_shifted_by` that outgrows the plan.
* `change_sets_ties`: the comment at `collection_change_builder.cpp:447` says that of two
  matches of equal length the one with fewer modified rows is preferred; the count of the
  best match so far is made over the wrong rows (line 450), so it need not be. Also at work
  there: what is behind a match in the old rows is compared with the end of the new ones.
  Both only make a change set larger than it need be: `SetApplies` holds.
  The first two need more ranges than fit in one chunk, 256 in a release build, which the
  change sets of a list of friends do not have.
* Shown by properties that hold, and contradicted by no document:
  a failed refresh leaves an empty list and an endless spinner
  (`FailedRefreshIsTerminal`); a failed groups request is never reported and the HUD
  stays (`FailureIsNeverReported`); `loadGroupsError` and `loadInvitationsError`
  are reported only for requests that were answered (`ErrorsOnlyInWindow`); friends
  of an earlier account stay in the list until a refresh clears it, and no longer
  (`ClearedOfOtherAccounts`).

## 5. Proofs

`FriendsProofs` proves, for every finite set of friends, every object-key order,
every `Important` > 0, every names and texts, from the four assumptions `Friends`
states on its constants:

* `TypeCorrect`, `TableIsOneCommitBehind`, `NotificationsAreSingleCommits`,
  `LoadsAreDistinct`: the invariants of the runs;
* `CellTrapIsBeforeNotification`, `FailedRefreshNeverEnds`, `BatchCrashesHaveCauses`:
  the action properties;
* `ListIsAFriendCache`: the refinement.

The invariants are not inductive one by one. `IInv` joins them with two facts more:
while an `.initial` call is still to come nothing was written since `viewDidLoad`
(`InitialSeesAll`: otherwise the delivery that consumes it would leave the table
behind), and a list emptied behind the table's back is being refreshed
(`ClearedListIsRefreshing`, which the filtered subscript's theorem needs). Each
action preserves `IInv` in a lemma of its own; `Write` has its own lemmas since
`Refresh` and `RunMain` share it. `Invariance` puts them together; the theorems
follow from it.

`BatchCrashesHaveCauses` says when UIKit's rule is met, so it needs counting. Only a
delivery can end the process so (`BatchCrashIsADelivery`). When none of the five
causes holds, the list only grew, below a full important section, and the table
shows the version before: then `GrowthBelowTheTopIsAccepted` shows that both batches
add up and stay in range. It rests on what is proved of `RealmChanges`: the rows of a
notification are rows of the list (`PositionIsARow`), there are as many as objects
(`PositionsCount`, by a bijection), and growth inserts exactly what was gained
(`GrowthCounts`).

`RealmNotifierProofs` proves, for every set of notifiers and every number of versions,
from `MaxVersionAssumption` alone:

* `VersionsAgree`, `ComparisonsAgree`, `AssertionsHold`, `OneCommitAtATime`,
  `DeliveriesAreCurrent`, `TypeCorrect`: the run's invariants;
* `WorkerAdvances`: the action property;
* `NothingLostOrRepeated`: the safety half of the refinement, `Promise!Init` and
  `[][Promise!Next]`; its liveness is model-checked.

Its `IInv` has a part per question. `Lists`: what is observed is alive and on one of the
two lists; whoever has run is on `notifiers` and is not one the worker has just added.
`Passes`: the version the worker is at exists exactly while it has notifiers, never exceeds
its target, and a version to skip is the latest or of nobody. `Versions`: whoever has run
has one common version, the worker's unless a comparison is waiting to be handed over.
`Comparisons`: that comparison holds exactly the commits between the two. `Deliveries`: what
is accumulated or packaged is exactly what the observer has not seen up to its version, and
what it has not seen at all is at most the last commit. `Writes`: from the moment a writer
has packaged until it commits, every observer is at the latest version with nothing left.
The last part is what makes the one before inductive: a commit adds one version to observers
that lack none. `Watched` covers the time between registration and callback, when a notifier
already runs and the first call is still to come. Each group of actions preserves `IInv` in
a lemma (`ResultsKeep`, `MainThreadKeeps`, `WorkerKeeps`), one step per action.

`AccountsProofs` proves `RequestsAreOwn`, `ClearsAreFinal`, `FriendsAreOwn` and the type
invariant for every set of strings, accounts and friends and every fragment, from
`ValueAssumption` and `FriendsOfAssumption`; nothing is assumed of what a fragment says.
The invariant adds `Inherits`: while the tabs are up the session's token is among the
heirs, which is why an answer that arrives after the clear adds friends of an heir only.

`GroupsLoadProofs` proves every safety property of `groups` and the refinement of
`GroupsReport`. The module has no constants and TLC explores all of it, so what the proof
adds is the reason: a block exists from loadData's turn at it on, a request from the
block's (`Turns`), so once loadData has returned a counter of zero can only mean that both
blocks have ended and both completions have left (`NothingOwed`), and after that nothing
enters the group again (`Quiet`).

`NewsFeedProofs` proves the invariants of `news` for every set of answers, from
`FeedAssumption`. What `getCreator` finds is shown to be the author (`CreatorIsAuthor`,
by the least member of a set of places); an append then adds one section for the one
known post it is of (`KnownGrows`). The bound of a layout needs that the table was never
told more than is there or being added (`ToldIsThere`).

`IndexSetsProofs` says what `shift` and `unshift` are, for every finite set of row numbers.
`Unshift` counts the rows that are not in the set (`UnshiftGrows`, `UnshiftCounts`), so it
is strictly increasing on them (`UnshiftOrders`); every number is a count (`UnshiftOnto`,
by the least row whose count is larger), so `Shift`, a CHOOSE, finds a row and is the
inverse (`ShiftIs`, `ShiftBack`). `Same(D, I, x, z)` says that row x before is row z after
the deletions D and the insertions I. An increasing map from all rows outside D onto all
rows outside I can only be `Same` (`OrderIsSame`), and following two steps one after the
other is such a map for the sets that `merge` makes of them: `MergedIsBoth`.

The first half of `ChangeSetsProofs` proves the three invariants of `change_sets` of every behaviour of
`AnyMovesSpec`, for every finite set of keys, any number of commits that nobody has taken
and any number of objects written, from `KeyAssumption`. `CalculateApplies`: a comparison's
set applies because what stays put keeps its order. `MergeApplies`: two sets merged apply
over both steps, by `MergedIsBoth` and by counting what each deletes and inserts
(`MergedCount`). `IInv` needs two facts beyond `SetApplies`. `ModifiesWritten` is what makes
`SetReloads` inductive: merged modifications must be right also for rows that `finalize`
will not report, and rows inserted since base have to be excepted, or an object deleted and
put back would break it. `OneCommitSet` says that a first commit that moved nothing deletes
what is gone and inserts what is new; in the order of the keys these rows are positions
(`RowsArePositions`), hence `AlwaysReports`. So what `Friends` assumes of a notification, on
which `BatchCrashesHaveCauses` rests, is proved of Realm's own merging.

Its second half proves that `ChangeSets` implements `AnyMovesSpec` (`MovesAreAny`), so
that all of this holds of the code's own choice of moved rows, for any two orders of any
objects (`AlwaysRight`). Each recursion is shown to have the solution its definition says
by a least counterexample (`RowsAreSearched` over the rows, `MatchesAreFound` over the size
of the block), since an induction theorem cannot be instantiated. Along the rows
`KnownAfter` is kept: the run in progress and the best match are common runs inside what is
searched (`MatchIsInBlock`, which is what the code asserts); and `LongestAfter`: no run so
far is longer (`MatchIsLongest`). What lies before and behind a match cannot cross it
(`PartsDoNotCross`), hence no two matches cross (`MatchesDoNotCross`), and rows in them keep
their order (`RestKeepsOrder`). None of this uses which of two equally long runs is
preferred, nor what the modified rows are: the divergence that `change_sets_ties` shows can
make a reload of a move or the reverse, but never a wrong row. Nor does it use the first conjunct of the test
behind a match, which compares an end in `a` with the end of the block in `b`: a match
missed there is reported as rows moved.

`ChunkedIndexSetProofs` proves both invariants of `index_sets` for every even size of a
chunk and every bound on the row numbers: `VerifiedAlways` and `CountsOtherRowsAlways`.
`IInv` is that m_data is `Laid` and holds exactly `rows`, which are below the bound. `Laid`
says what `Verified` asserts, in the form an operation needs: each chunk `Fits`, that is,
its ranges are `Ordered` (not empty, ascending, apart), one to `MaxSize` of them, between
its `begin` and `end`; and a chunk ends before the next begins. It says nothing of the
counts, which `index_sets_builder` shows to be wrong at times: what a chunk counts has no
influence on where rows are. `Has(s, i)` is that row i lies in a range of s. Every operator
is then shown to keep `Laid` and to change `Has` in the way its name says:

* one level at a time, for sequences (`InsertedSeq`, `RemovedSeq`), ranges in a chunk
  (`PutOrdered`, `InsertOrdered`, `RemoveOrdered`, `SubOrdered`), chunks (`PutChunk`,
  `RemoveChunk`, `DoubleChunk`, `AppendChunk`) and positions (`PutRangeLaid`,
  `EraseRangeLaid`, `SplitLaid`, `InsertBeforeLaid`, `InsertAtEndLaid`), whose hypotheses are
  about neighbouring ranges (`Under`, `Over`);
* then with hypotheses about rows alone (`UnderRows`, `OverRows`, `FindsRows`,
  `PrecedingRange`, `FollowingRange`), which is what an operation knows: that no row is
  between two places, not which ranges lie around them. From these follow `DoAddAdds`,
  where a row extends, joins or makes a range, and `TrimTakes`, one turn of `do_remove`'s
  loop;
* then the loops. A recursive function exists and keeps an invariant of its stages
  (`Iterated`, `Staged`, both by a least counterexample). `DoRemoveTakes`: after k turns no row of
  the range is left below its begin + k, so that its length in turns is enough. The builder
  needs that ranges come in ascending order (`PushBackAdds`); the walks of `insert_at`,
  `shift_for_insert_at` and `erase_at` push where `Shift` and `Unshift` of `IndexSetsProofs`
  say (`WalkInsertedIs`, `WalkErasedIs`). In `add_shifted_by` the rows passed before row k of
  the values are those below the places of the values so far (`Gone`, `PassedRows`), which
  is how a running count of passed rows comes to be the inverse of `unshift`
  (`WalkShiftedIs`).

`CountsOtherRowsAlways` is by sums that telescope. With `Up(s, x)`, the rows below x, a range
contributes `Up` of its end less `Up` of its begin, and nothing is between one range and the
next (`NoRows`, `RangesUp`); so the ranges of a chunk add up (`CountInIs`), its right count is
the difference over the whole chunk (`TotalIs`), chunks add up (`WholeIs`, `CountFromIs`), and
the branches of `count` meet (`CountIs`). The one branch that does not is the early return of
line 301, and the theorem names when it is taken wrongly; a finding below shows that it is.

Every safety invariant and action property of a passing run is now a theorem. Checked by
TLC only: the liveness properties and the liveness half of the refinements, which are out of the prover's
reach.

## 6. Not modelled

Decoding of answers beyond success and failure; cells, headers, heights and the age
text of `FriendCell`; building the authorisation URL; `loadJSON`, `add(object:)`,
`delete(object:)`, `CustomLoginViewController`, `FriendsViewModel` and the photos
screen, which nobody uses; migration of the Realm schema; navigation of the login page
behind the tab bar; the header count of the third section, which is stale until UIKit
displays it again.

Of Realm: `need_to_run` (`results_notifier.cpp:102-117`), by which the worker may pass over
a notifier without a callback whose rows nobody read: what such a one remembers is never
compared, since in this program a callback is given at the registration or never, and the
first run, which may come before the callback, is never passed over; what `IndexSet::count`
misses beyond one chunk where a comparison counts modified rows: `CountIn` of
`ChangeSets` is exact, as it is up to 256 ranges, and decides only between equal matches,
on which nothing proved depends; other Realm instances, threads and processes, and what only they reach
(`advance_to_ready`, a Realm behind the file's version); `cancel_transaction`; the error of
a worker that cannot open its Realm (`m_async_error`); `suppress_next` and notification
skipping; sync; the moves and columns of LinkLists and the single-row operations of
IndexSet that only LinkLists and key-value observing use; the hints at which `find`
begins. The storage core under the object store is a binary, of which the repository has
only the headers. The other pods (Firebase, gRPC, BoringSSL, SDWebImage, Alamofire,
JGProgressHUD) are third-party code that shares no state with the program; they are most
of the repository's lines, and the share of lines modelled stays small because of them.

## 7. Plan

Done: `RealmChanges`, `TableView`, `Friends`, `FriendCache`; `GroupsLoad`,
`GroupsReport`; `NewsFeed`; `Accounts`; `RealmObserver`, `RealmNotifier`; the proofs of all
of these; `IndexSets`, `ChunkedIndexSet`, `MergedChanges`, `ChangeSets`, and their proofs.

Next, in this order:

1. `ChunkedIndexSet`: the operations on one index, which LinkLists use.
2. `RealmNotifier`: a second Realm on another thread, with `advance_to_ready` and
   notifiers that are behind; `cancel_transaction`.
3. A composition of `Accounts` with `Friends`, so that answers of an account and the
   batches they make are in one state space.
4. `NewsFeed`: an abstract specification (a table that follows a growing list) and the
   refinement.
