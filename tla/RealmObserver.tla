---------------------------- MODULE RealmObserver ----------------------------
(***************************************************************************)
(* What Realm promises the friends screen about the observers of its       *)
(* Results, and what module Friends takes for granted: an observer is      *)
(* first told the collection as it is, then told once of each commit that  *)
(* changed it, and no commit follows another before every observer knows   *)
(* it.  RealmNotifier is shown to keep the promise.                        *)
(***************************************************************************)
EXTENDS Naturals

CONSTANTS
  Notifier,   \* one per observed Results
  MaxVersion  \* bound on the versions of the file

VARIABLES
  latest,     \* version of the file, which the only Realm is always at
  changed,    \* versions whose commit changed what the Results hold
  observer,   \* [Notifier -> {"none", "awaiting", "initialized"}]
  seen,       \* version at which the observer was last called
  told        \* commits its last call told it of

vars == <<latest, changed, observer, seen, told>>

\* The commits that changed the Results after version from, up to version to.
Commits(from, to) == {v \in changed : from < v /\ v <= to}

Unseen(n) == Commits(seen[n], latest)

UpToDate(n) == observer[n] = "none" \/ (observer[n] = "initialized" /\ Unseen(n) = {})

Init ==
  /\ latest = 1
  /\ changed = {}
  /\ observer = [n \in Notifier |-> "none"]
  /\ seen = [n \in Notifier |-> 1]
  /\ told = [n \in Notifier |-> {}]

Observe(n) ==
  /\ observer[n] = "none"
  /\ observer' = [observer EXCEPT ![n] = "awaiting"]
  /\ UNCHANGED <<latest, changed, seen, told>>

Close(n) ==
  /\ observer[n] # "none"
  /\ observer' = [observer EXCEPT ![n] = "none"]
  /\ told' = [told EXCEPT ![n] = {}]
  /\ UNCHANGED <<latest, changed, seen>>

Tell(n) ==
  /\ ~UpToDate(n)
  /\ observer' = [observer EXCEPT ![n] = "initialized"]
  /\ told' = [told EXCEPT ![n] = IF observer[n] = "awaiting" THEN {} ELSE Unseen(n)]
  /\ seen' = [seen EXCEPT ![n] = latest]
  /\ UNCHANGED <<latest, changed>>

Commit ==
  /\ latest < MaxVersion
  /\ \A n \in Notifier : UpToDate(n)
  /\ latest' = latest + 1
  /\ changed' \in {changed, changed \cup {latest'}}
  /\ UNCHANGED <<observer, seen, told>>

Next ==
  \/ \E n \in Notifier : Observe(n) \/ Close(n) \/ Tell(n)
  \/ Commit

\* An observer that stays is told in the end.
Spec == Init /\ [][Next]_vars /\ \A n \in Notifier : WF_vars(Tell(n))
=============================================================================
