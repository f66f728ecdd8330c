---------------------------- MODULE RealmNotifier ----------------------------
(***************************************************************************)
(* The notifications of Realm's object store, as the friends screen drives *)
(* them: one Realm, on the main thread, and the coordinator's worker,      *)
(* which compares the Results after every commit and hands the changes     *)
(* over.  The two share m_notifier_mutex; each action is one critical      *)
(* section or the work between two of them.                                *)
(*                                                                         *)
(* A change set is the set of the commits it stands for.  Which rows those *)
(* commits changed is the subject of ChangeSets.                           *)
(***************************************************************************)
EXTENDS Naturals, FiniteSets

CONSTANTS
  Notifier,   \* notifiers, each of one Results; a dead one's name is free again
  MaxVersion  \* bound on the versions of the file

ASSUME MaxVersionAssumption == MaxVersion \in Nat \ {0}

VARIABLES
  latest,        \* version of the file, which the only Realm is always at
  changed,       \* versions whose commit changed what the Results hold
  \* the notifiers
  alive,         \* those whose Results exist (m_realm is set)
  observer,      \* their callback: "none", "awaiting" its first call, "initialized"
  version,       \* m_sg_version
  hasRun,        \* those with m_has_run
  previous,      \* version m_previous_rows is of
  change,        \* m_change
  accumulated,   \* accumulated_changes of the callback
  toDeliver,     \* changes_to_deliver of the callback
  seen,          \* version at which the callback was last called
  told,          \* commits its last call told it of
  \* the coordinator
  newNotifiers,  \* m_new_notifiers
  notifiers,     \* m_notifiers
  skipVersion,   \* m_notifier_skip_version, or NoVersion
  notifierSg,    \* version of m_notifier_sg, or NoVersion
  advancerSg,    \* version of m_advancer_sg, or NoVersion
  \* the worker thread and its locals
  worker,        \* "waiting", "run skip", "hand skip", "run", "hand"
  signalled,     \* the pipe it waits on was written to
  target,        \* version it brings the notifiers to
  skipTo,        \* its copy of the skip version
  running,       \* its copy of m_notifiers
  added,         \* the new notifiers it took
  \* the main thread and its locals
  main,          \* "idle", "observe", "close", "begin", "waiting", "before write",
                 \* "write", "notify"
  package,       \* notifiers it is working on
  scheduled      \* its run loop was told to call Realm::notify

notifierVars == <<alive, observer, version, hasRun, previous, change,
                  accumulated, toDeliver, seen, told>>
coordinatorVars == <<newNotifiers, notifiers, skipVersion, notifierSg, advancerSg>>
workerVars == <<worker, signalled, target, skipTo, running, added>>
mainVars == <<main, package, scheduled>>
vars == <<latest, changed, notifierVars, coordinatorVars, workerVars, mainVars>>

NoVersion == 0

Version == 1 .. MaxVersion

\* A slip: the Results is taken to differ whenever the version does.
AllCommits(from, to) == {v \in Version : from < v /\ v <= to}

\* The commits that changed the Results after version from, up to version to.
Commits(from, to) == {v \in changed : from < v /\ v <= to}

TypeOK ==
  /\ latest \in Version /\ changed \subseteq 1 .. latest
  /\ alive \subseteq Notifier /\ hasRun \subseteq Notifier
  /\ observer \in [Notifier -> {"none", "awaiting", "initialized"}]
  /\ version \in [Notifier -> 1 .. latest] /\ previous \in [Notifier -> 1 .. latest]
  /\ change \in [Notifier -> SUBSET changed] /\ accumulated \in [Notifier -> SUBSET changed]
  /\ toDeliver \in [Notifier -> SUBSET changed]
  /\ seen \in [Notifier -> 1 .. latest] /\ told \in [Notifier -> SUBSET changed]
  /\ newNotifiers \subseteq Notifier /\ notifiers \subseteq Notifier
  /\ skipVersion \in 0 .. latest /\ notifierSg \in 0 .. latest /\ advancerSg \in 0 .. latest
  /\ target \in 0 .. latest /\ skipTo \in 0 .. latest
  /\ worker \in {"waiting", "run skip", "hand skip", "run", "hand"}
  /\ running \subseteq Notifier /\ added \subseteq Notifier
  /\ main \in {"idle", "observe", "close", "begin", "waiting", "before write", "write",
               "notify"}
  /\ package \subseteq Notifier
  /\ signalled \in BOOLEAN /\ scheduled \in BOOLEAN

Init ==
  /\ latest = 1 /\ changed = {}
  /\ alive = {} /\ hasRun = {}
  /\ observer = [n \in Notifier |-> "none"]
  /\ version = [n \in Notifier |-> 1]
  /\ previous = [n \in Notifier |-> 1]
  /\ seen = [n \in Notifier |-> 1]
  /\ change = [n \in Notifier |-> {}]
  /\ accumulated = [n \in Notifier |-> {}]
  /\ toDeliver = [n \in Notifier |-> {}]
  /\ told = [n \in Notifier |-> {}]
  /\ newNotifiers = {} /\ notifiers = {}
  /\ skipVersion = NoVersion /\ notifierSg = NoVersion /\ advancerSg = NoVersion
  /\ worker = "waiting" /\ signalled = FALSE
  /\ target = NoVersion /\ skipTo = NoVersion /\ running = {} /\ added = {}
  /\ main = "idle" /\ package = {} /\ scheduled = FALSE
-----------------------------------------------------------------------------
(* The main thread: Results and their observers *)

HaveCallbacks(n) == observer[n] # "none"

NotifiersForRealm == (newNotifiers \cup notifiers) \cap alive

Free(n) == n \notin alive \cup newNotifiers \cup notifiers \cup running \cup added

\* pin_version: the oldest version a new notifier needs.
PinVersion(v) == IF advancerSg = NoVersion \/ v < advancerSg THEN v ELSE advancerSg

\* Results::prepare_async, for an observer or because the rows are read.
Register(n, next) ==
  /\ main = "idle"
  /\ Free(n)
  /\ alive' = alive \cup {n}
  /\ version' = [version EXCEPT ![n] = latest]
  /\ hasRun' = hasRun \ {n}
  /\ accumulated' = [accumulated EXCEPT ![n] = {}]
  /\ toDeliver' = [toDeliver EXCEPT ![n] = {}]
  /\ change' = [change EXCEPT ![n] = {}]
  /\ advancerSg' = PinVersion(latest)
  /\ newNotifiers' = newNotifiers \cup {n}
  /\ main' = next
  /\ package' = IF next = "observe" THEN {n} ELSE {}
  /\ UNCHANGED <<latest, changed, observer, previous, seen, told, notifiers,
                 skipVersion, notifierSg, workerVars, scheduled>>

\* The row of a Results that nobody observes is read.
Evaluate(n) == Register(n, "idle")

\* observe: the notifier is registered, and then given its callback.
Observe(n) == Register(n, "observe")

\* add_callback, which wakes the worker for the first call.
AddCallback(n) ==
  /\ main = "observe" /\ n \in package
  /\ observer' = [observer EXCEPT ![n] = "awaiting"]
  /\ signalled' = TRUE
  /\ main' = "idle" /\ package' = {}
  /\ UNCHANGED <<latest, changed, alive, version, hasRun, previous, change, accumulated,
                 toDeliver, seen, told, coordinatorVars, worker, target, skipTo,
                 running, added, scheduled>>

\* NotificationToken.invalidate, in deinit of the screen.
RemoveCallback(n) ==
  /\ main = "idle"
  /\ HaveCallbacks(n)
  /\ observer' = [observer EXCEPT ![n] = "none"]
  /\ accumulated' = [accumulated EXCEPT ![n] = {}]
  /\ toDeliver' = [toDeliver EXCEPT ![n] = {}]
  /\ told' = [told EXCEPT ![n] = {}]
  /\ main' = "close" /\ package' = {n}
  /\ UNCHANGED <<latest, changed, alive, version, hasRun, previous, change, seen,
                 coordinatorVars, workerVars, scheduled>>

\* The Results goes away, with its callback or because nothing observed it.
Unregister(n) ==
  /\ \/ main = "close" /\ n \in package
     \/ main = "idle" /\ n \in alive /\ ~HaveCallbacks(n)
  /\ alive' = alive \ {n}
  /\ main' = "idle" /\ package' = {}
  /\ UNCHANGED <<latest, changed, observer, version, hasRun, previous, change, accumulated,
                 toDeliver, seen, told, coordinatorVars, workerVars, scheduled>>
-----------------------------------------------------------------------------
(* The main thread: deliveries and writes *)

\* A slip: what is delivered stays accumulated.
PackageAgain(S) ==
  /\ toDeliver' = [n \in Notifier |-> IF n \in S THEN accumulated[n] ELSE toDeliver[n]]
  /\ UNCHANGED <<latest, changed, alive, observer, version, hasRun, previous, change,
                 accumulated, seen, told, coordinatorVars, workerVars>>

\* package_for_delivery
PackageForDelivery(S) ==
  /\ toDeliver' = [n \in Notifier |-> IF n \in S THEN accumulated[n] ELSE toDeliver[n]]
  /\ accumulated' = [n \in Notifier |-> IF n \in S THEN {} ELSE accumulated[n]]
  /\ UNCHANGED <<latest, changed, alive, observer, version, hasRun, previous, change,
                 seen, told, coordinatorVars, workerVars>>

\* A slip: the write begins as one begun in a callback does, without notifiers.
BeginSilently ==
  /\ main = "idle"
  /\ latest < MaxVersion
  /\ main' = "begin"
  /\ package' = {}
  /\ UNCHANGED <<latest, changed, notifierVars, coordinatorVars, workerVars, scheduled>>

\* realm.write: begin_transaction, up to the wait for the notifiers.
Begin ==
  /\ main = "idle"
  /\ latest < MaxVersion
  /\ main' = "begin"
  /\ package' = NotifiersForRealm
  /\ UNCHANGED <<latest, changed, notifierVars, coordinatorVars, workerVars, scheduled>>

\* A slip: the writer only waits for a run, of whatever version.
HasRunAtAll(n) == HaveCallbacks(n) => n \in hasRun

\* What the writer waits for, holding the write lock.
Ready(n) == HaveCallbacks(n) => n \in hasRun /\ version[n] >= latest

\* wait_for_notifiers: the worker is woken before the first wait.
WaitForNotifiers ==
  /\ main = "begin"
  /\ \E n \in package : ~Ready(n)
  /\ main' = "waiting"
  /\ signalled' = TRUE
  /\ UNCHANGED <<latest, changed, notifierVars, coordinatorVars, worker, target, skipTo,
                 running, added, package, scheduled>>

\* package_and_wait packages what has run, and gives up all of it when the
\* notifier packaged last is of an older version.
PackageAndWait ==
  /\ main \in {"begin", "waiting"}
  /\ \A n \in package : Ready(n)
  /\ LET packaged == package \cap hasRun \cap alive IN
     /\ PackageForDelivery(packaged)
     /\ \/ packaged = {} /\ package' = {}
        \/ \E last \in packaged :
              package' = IF version[last] < latest THEN {} ELSE packaged
  /\ main' = "before write"
  /\ UNCHANGED scheduled

\* What process_available_async delivers.
Available == {n \in NotifiersForRealm \cap hasRun : version[n] = latest}

\* The run loop calls Realm::notify: the Realm is at the latest version.
Notify ==
  /\ main = "idle" /\ scheduled
  /\ scheduled' = FALSE
  /\ PackageForDelivery(Available)
  /\ package' = Available
  /\ main' = IF Available = {} THEN "idle" ELSE "notify"

\* The callback is called: the first time with the collection as it is, and
\* then when there are changes.
Call(n) ==
  IF observer[n] = "none" \/ (observer[n] = "initialized" /\ toDeliver[n] = {})
  THEN UNCHANGED <<observer, toDeliver, seen, told>>
  ELSE /\ observer' = [observer EXCEPT ![n] = "initialized"]
       /\ told' = [told EXCEPT ![n] = IF observer[n] = "awaiting" THEN {} ELSE toDeliver[n]]
       /\ toDeliver' = [toDeliver EXCEPT ![n] = {}]
       /\ seen' = [seen EXCEPT ![n] = latest]

\* after_advance, one notifier after the other and no lock held.
AfterAdvance(n) ==
  /\ main \in {"before write", "notify"}
  /\ n \in package
  /\ Call(n)
  /\ package' = package \ {n}
  /\ main' = IF package # {n} THEN main ELSE IF main = "notify" THEN "idle" ELSE "write"
  /\ UNCHANGED <<latest, changed, alive, version, hasRun, previous, change, accumulated,
                 coordinatorVars, workerVars, scheduled>>

\* The write transaction begins when nothing is left to deliver.
NothingToDeliver ==
  /\ main = "before write" /\ package = {}
  /\ main' = "write"
  /\ UNCHANGED <<latest, changed, notifierVars, coordinatorVars, workerVars, package, scheduled>>

\* commit_write; the commit need not change the Results.
CommitWrite ==
  /\ main = "write"
  /\ latest' = latest + 1
  /\ changed' \in {changed, changed \cup {latest'}}
  /\ skipVersion' = IF notifiers \cap alive # {} THEN latest' ELSE skipVersion
  /\ signalled' = TRUE
  /\ main' = "idle"
  /\ UNCHANGED <<notifierVars, newNotifiers, notifiers, notifierSg, advancerSg,
                 worker, target, skipTo, running, added, package, scheduled>>
-----------------------------------------------------------------------------
(* The worker: RealmCoordinator::on_change *)

\* A slip: the version to skip outlives the notifiers that were to skip it.
CleanUpOnly(S) ==
  /\ notifiers' = S \cap alive
  /\ newNotifiers' = newNotifiers \cap alive
  /\ advancerSg' = IF newNotifiers # {} /\ newNotifiers \cap alive = {}
                   THEN NoVersion ELSE advancerSg
  /\ notifierSg' = IF S # {} /\ S \cap alive = {} THEN NoVersion ELSE notifierSg
  /\ UNCHANGED skipVersion

\* clean_up_dead_notifiers, of the notifiers in S.
CleanUp(S) ==
  /\ notifiers' = S \cap alive
  /\ newNotifiers' = newNotifiers \cap alive
  /\ advancerSg' = IF newNotifiers # {} /\ newNotifiers \cap alive = {}
                   THEN NoVersion ELSE advancerSg
  /\ LET emptied == S # {} /\ S \cap alive = {} IN
     /\ notifierSg' = IF emptied THEN NoVersion ELSE notifierSg
     /\ skipVersion' = IF emptied THEN NoVersion ELSE skipVersion

\* run_async_notifiers up to its first unlock, with nothing left to run.
WakeForNothing ==
  /\ worker = "waiting" /\ signalled
  /\ signalled' = FALSE
  /\ (notifiers \cup newNotifiers) \cap alive = {}
  /\ CleanUp(notifiers)
  /\ scheduled' = TRUE
  /\ UNCHANGED <<latest, changed, notifierVars, worker, target, skipTo, running, added,
                 main, package>>

\* A slip: the new notifiers stay at the version they were made at.
TargetPinned == IF newNotifiers \cap alive # {} THEN advancerSg ELSE latest

\* The version the pass brings every notifier to.
Target == latest

\* The same with notifiers to run.  The new ones are advanced to the latest
\* version and the others follow, by way of the version to skip.
Wake ==
  /\ worker = "waiting" /\ signalled
  /\ signalled' = FALSE
  /\ (notifiers \cup newNotifiers) \cap alive # {}
  /\ running' = notifiers \cap alive
  /\ added' = newNotifiers \cap alive
  /\ notifiers' = running' \cup added'
  /\ newNotifiers' = {}
  /\ advancerSg' = NoVersion
  /\ LET emptied == notifiers # {} /\ running' = {} IN
     /\ notifierSg' = IF emptied \/ notifierSg = NoVersion THEN latest ELSE notifierSg
     /\ skipTo' = IF emptied THEN NoVersion ELSE skipVersion
  /\ skipVersion' = NoVersion
  /\ target' = Target
  /\ worker' = IF skipTo' = NoVersion THEN "run" ELSE "run skip"
  /\ UNCHANGED <<latest, changed, notifierVars, mainVars>>

\* A slip: the rows compared with are never replaced.
RunForgetful(S, v) ==
  /\ change' = [n \in Notifier |->
                  IF n \in S \cap alive \cap hasRun /\ HaveCallbacks(n)
                  THEN Commits(previous[n], v) ELSE change[n]]
  /\ previous' = [n \in Notifier |-> IF n \in (S \cap alive) \ hasRun THEN v ELSE previous[n]]
  /\ notifierSg' = v
  /\ UNCHANGED <<latest, changed, alive, observer, version, hasRun, accumulated, toDeliver,
                 seen, told, newNotifiers, notifiers, skipVersion, advancerSg,
                 signalled, target, skipTo, running, added, mainVars>>

\* ResultsNotifier::run of the notifiers in S at version v: what was never
\* compared or has no callback is only remembered. need_to_run may leave out one
\* that has no callback and whose rows nobody read; what that one then remembers
\* is compared with nothing, for a callback comes with the registration or never.
Run(S, v) ==
  /\ change' = [n \in Notifier |->
                  IF n \in S \cap alive \cap hasRun /\ HaveCallbacks(n)
                  THEN Commits(previous[n], v) ELSE change[n]]
  /\ previous' = [n \in Notifier |-> IF n \in S \cap alive THEN v ELSE previous[n]]
  /\ notifierSg' = v
  /\ UNCHANGED <<latest, changed, alive, observer, version, hasRun, accumulated, toDeliver,
                 seen, told, newNotifiers, notifiers, skipVersion, advancerSg,
                 signalled, target, skipTo, running, added, mainVars>>

\* A slip: after its first run a notifier still has the version it was made at.
PrepareFirstHandover(S) ==
  /\ version' = [n \in Notifier |-> IF n \in S \cap hasRun THEN notifierSg ELSE version[n]]
  /\ accumulated' = [n \in Notifier |->
                       IF n \in S /\ HaveCallbacks(n)
                       THEN accumulated[n] \cup change[n] ELSE accumulated[n]]
  /\ change' = [n \in Notifier |-> IF n \in S THEN {} ELSE change[n]]
  /\ hasRun' = hasRun \cup S
  /\ UNCHANGED <<latest, changed, alive, observer, previous, toDeliver, seen, told>>

\* prepare_handover of the notifiers in S
PrepareHandover(S) ==
  /\ version' = [n \in Notifier |-> IF n \in S THEN notifierSg ELSE version[n]]
  /\ accumulated' = [n \in Notifier |->
                       IF n \in S /\ HaveCallbacks(n)
                       THEN accumulated[n] \cup change[n] ELSE accumulated[n]]
  /\ change' = [n \in Notifier |-> IF n \in S THEN {} ELSE change[n]]
  /\ hasRun' = hasRun \cup S
  /\ UNCHANGED <<latest, changed, alive, observer, previous, toDeliver, seen, told>>

RunSkip ==
  /\ worker = "run skip"
  /\ Run(running, skipTo)
  /\ worker' = "hand skip"

HandOverSkip ==
  /\ worker = "hand skip"
  /\ PrepareHandover(running)
  /\ worker' = "run"
  /\ UNCHANGED <<coordinatorVars, signalled, target, skipTo, running, added, mainVars>>

RunAll ==
  /\ worker = "run"
  /\ Run(running \cup added, target)
  /\ worker' = "hand"

\* The last critical section; then every Realm is told to look.
HandOver ==
  /\ worker = "hand"
  /\ PrepareHandover(running \cup added)
  /\ CleanUp(notifiers)
  /\ worker' = "waiting" /\ running' = {} /\ added' = {}
  /\ target' = NoVersion /\ skipTo' = NoVersion
  /\ scheduled' = TRUE
  /\ UNCHANGED <<signalled, main, package>>
-----------------------------------------------------------------------------
Worker == WakeForNothing \/ Wake \/ RunSkip \/ HandOverSkip \/ RunAll \/ HandOver

\* What the main thread does without the user.
MainContinues ==
  \/ \E n \in Notifier : AddCallback(n) \/ AfterAdvance(n)
  \/ \E n \in package : Unregister(n)
  \/ WaitForNotifiers \/ PackageAndWait \/ NothingToDeliver \/ CommitWrite

Next ==
  \/ \E n \in Notifier :
        Evaluate(n) \/ Observe(n) \/ RemoveCallback(n) \/ Unregister(n)
  \/ Begin \/ Notify \/ MainContinues \/ Worker

\* Both threads are scheduled, and the run loop comes to a signalled source
\* however often the user makes it do something else.
Spec ==
  Init /\ [][Next]_vars /\ WF_vars(Worker) /\ WF_vars(MainContinues) /\ SF_vars(Notify)
-----------------------------------------------------------------------------
(* Properties *)

\* What package_and_wait gives up when versions differ would be lost: whatever
\* has run was handed over at one and the same version.
HandedOverTogether ==
  \A n, m \in hasRun \cap (newNotifiers \cup notifiers) : version[n] = version[m]

\* A notifier reports the objects changed since m_notifier_sg's version and the
\* rows changed since m_previous_rows: the two are one version.
ComparedFromOneVersion ==
  \A n \in hasRun : HaveCallbacks(n) => previous[n] = notifierSg

\* The assertions of run_async_notifiers: the version to skip is one the worker
\* can reach with a notifier to run, and a new notifier has its version pinned.
WorkerAsserts ==
  /\ skipVersion # NoVersion => notifiers # {} /\ skipVersion <= latest
  /\ worker = "run skip" => running # {} /\ skipTo <= target
  /\ \A n \in newNotifiers : advancerSg \in 1 .. version[n]

\* A read transaction of the worker is never moved back (internal_advance_read
\* asserts it).
WorkerOnlyAdvances ==
  [][notifierSg # NoVersion /\ notifierSg' # NoVersion => notifierSg' >= notifierSg]_vars

\* No callback is told of two commits at once, as the friends table needs: its
\* observers take a change set for the difference from what they showed.
OneCommitPerCall ==
  \A n \in Notifier : Cardinality(accumulated[n] \cup toDeliver[n]) <= 1

\* A change is delivered while the Realm is at the version it leads to.
DeliveredInItsVersion ==
  \A n \in Notifier : toDeliver[n] # {} => toDeliver[n] = Commits(seen[n], latest)

\* The promise of RealmObserver: nothing is lost, told twice or told late.
Promise == INSTANCE RealmObserver
KeepsThePromise == Promise!Spec

\* A writer is never left waiting for the notifiers it needs.
WriterBegins == main \in {"begin", "waiting"} ~> main = "write"
=============================================================================
