------------------------ MODULE RealmNotifierProofs ------------------------
(***************************************************************************)
(* The notifications of Realm's object store, for every set of notifiers   *)
(* and every number of versions.                                           *)
(***************************************************************************)
EXTENDS RealmNotifier, FiniteSetTheorems, TLAPS

-----------------------------------------------------------------------------
(* The invariant *)

\* The commits of S after version from, up to version to.
Between(S, from, to) == {v \in S : from < v /\ v <= to}

\* Observed, or about to be.
Watched(n) == HaveCallbacks(n) \/ (main = "observe" /\ n \in package)

\* The worker has compared and not handed over.
Handing == worker \in {"hand skip", "hand"}

\* The lists the coordinator keeps, and what the worker took of them.
Lists ==
  /\ \A n \in Notifier : HaveCallbacks(n) => n \in alive
  /\ main \in {"observe", "close"} => \E n \in Notifier : package = {n} /\ ~HaveCallbacks(n)
  /\ main = "observe" => package \subseteq alive
  /\ alive \subseteq newNotifiers \cup notifiers
  /\ newNotifiers \cap notifiers = {}
  /\ worker = "waiting" => running = {} /\ added = {}
  /\ worker # "waiting" => running \cup added = notifiers
  /\ running \cap added = {}
  /\ newNotifiers \cap hasRun = {} /\ added \cap hasRun = {} /\ notifiers \ added \subseteq hasRun
  /\ main \in {"begin", "waiting"} => package = NotifiersForRealm

\* The versions the worker goes through.
Passes ==
  /\ notifiers # {} <=> notifierSg # 0
  /\ worker # "waiting" => 1 <= notifierSg /\ notifierSg <= target /\ skipTo \in {0, target}
  /\ worker \in {"run skip", "hand skip"} => skipTo = target /\ running # {}
  /\ Handing => notifierSg = target
  /\ skipVersion # 0 => notifiers # {} /\ (notifiers \cap alive = {} \/ skipVersion = latest)
  /\ main \in {"begin", "waiting", "before write", "write"} => latest < MaxVersion

\* What has run was handed over at one version, the worker's but for a run
\* that is not handed over.
Versions ==
  /\ \A n, m \in notifiers \ added : version[n] = version[m]
  /\ \A n \in notifiers \ added :
        /\ Handing => version[n] <= target
        /\ ~Handing => version[n] = notifierSg
  /\ \A n \in newNotifiers : 1 <= advancerSg /\ advancerSg <= version[n]

\* What the watched notifiers have compared.
Comparisons ==
  \A n \in Notifier : Watched(n) =>
    /\ n \in added => target = latest
    /\ n \in notifiers /\ (n \notin added \/ worker = "hand") => previous[n] = notifierSg
    /\ n \in hasRun /\ Handing => change[n] = Between(changed, version[n], target)
    /\ n \notin hasRun \/ ~Handing => change[n] = {}
    /\ version[n] + 1 >= latest

\* What they have accumulated.
Deliveries ==
  \A n \in Notifier :
    /\ ~HaveCallbacks(n) => accumulated[n] = {} /\ toDeliver[n] = {}
    /\ Watched(n) /\ observer[n] # "initialized" =>
          version[n] = latest /\ accumulated[n] = {} /\ toDeliver[n] = {}
    /\ observer[n] = "initialized" =>
          /\ n \in hasRun /\ seen[n] <= version[n]
          /\ Between(changed, seen[n], latest) \subseteq {latest}
          /\ accumulated[n] \cup toDeliver[n] = Between(changed, seen[n], version[n])
          /\ toDeliver[n] # {} => main \in {"before write", "notify"} /\ n \in package

\* What the main thread is doing with them.
Writes ==
  \A n \in Notifier : HaveCallbacks(n) =>
    /\ main \in {"before write", "notify"} /\ n \in package =>
          n \in hasRun /\ version[n] = latest /\ accumulated[n] = {}
    /\ main \in {"before write", "write"} => n \in hasRun /\ version[n] = latest
    /\ main = "write" \/ (main = "before write" /\ n \notin package) =>
          observer[n] = "initialized" /\ accumulated[n] = {}

\* The inductive invariant.
IInv == TypeOK /\ Lists /\ Passes /\ Versions /\ Comparisons /\ Deliveries /\ Writes

-----------------------------------------------------------------------------
(* Numbers, and the commits between two versions *)

\* Every version is one the file has had.
LEMMA Numbers ==
  ASSUME IInv
  PROVE  /\ latest \in Nat /\ latest >= 1
         /\ skipVersion \in Nat /\ notifierSg \in Nat /\ advancerSg \in Nat
         /\ target \in Nat /\ skipTo \in Nat
         /\ skipVersion <= latest /\ notifierSg <= latest /\ advancerSg <= latest
         /\ target <= latest /\ skipTo <= latest
         /\ version \in [Notifier -> Nat] /\ previous \in [Notifier -> Nat]
         /\ seen \in [Notifier -> Nat]
         /\ \A n \in Notifier : version[n] <= latest /\ previous[n] <= latest /\ seen[n] <= latest
         /\ \A n \in Notifier : version[n] >= 1 /\ previous[n] >= 1 /\ seen[n] >= 1
         /\ changed \subseteq Nat
<1>1. latest \in Nat /\ latest >= 1
  <2>1. latest \in Version
    BY DEF IInv, TypeOK
  <2> QED BY <2>1, MaxVersionAssumption DEF Version
<1>2. /\ {skipVersion, notifierSg, advancerSg, target, skipTo} \subseteq 0 .. latest
      /\ version \in [Notifier -> 1 .. latest] /\ previous \in [Notifier -> 1 .. latest]
      /\ seen \in [Notifier -> 1 .. latest] /\ changed \subseteq 1 .. latest
  BY DEF IInv, TypeOK
<1> QED BY <1>1, <1>2

\* The commits up to one version and those after it are all of them.
LEMMA BetweenFacts ==
  ASSUME NEW C, C \subseteq Nat, NEW a \in Nat, NEW b \in Nat, NEW c \in Nat
  PROVE  /\ b <= a => Between(C, a, b) = {}
         /\ a <= b /\ b <= c => Between(C, a, c) = Between(C, a, b) \cup Between(C, b, c)
<1>1. \A v \in C : v \in Nat
  OBVIOUS
<1>2. ASSUME b <= a, NEW v \in Between(C, a, b) PROVE FALSE
  BY <1>1, <1>2 DEF Between
<1>3. ASSUME a <= b, b <= c
      PROVE  Between(C, a, c) = Between(C, a, b) \cup Between(C, b, c)
  <2>1. ASSUME NEW v \in C
        PROVE  a < v /\ v <= c <=> (a < v /\ v <= b) \/ (b < v /\ v <= c)
    BY <1>1, <1>3
  <2> QED BY <2>1 DEF Between
<1> QED BY <1>2, <1>3

-----------------------------------------------------------------------------
(* Every step keeps the invariant *)

\* Results come and go, and so do their callbacks.
LEMMA ResultsKeep ==
  ASSUME IInv,
         \E n \in Notifier :
           \/ Evaluate(n) \/ Observe(n)
           \/ AddCallback(n) \/ RemoveCallback(n) \/ Unregister(n)
  PROVE  IInv'
<1>1. ASSUME NEW n \in Notifier, NEW next \in {"idle", "observe"}, Register(n, next) PROVE IInv'
  <2> USE <1>1
  <2>1. /\ main = "idle" /\ n \notin alive /\ n \notin newNotifiers /\ n \notin notifiers
        /\ n \notin running /\ n \notin added
    BY DEF Register, Free
  <2>2. /\ alive' = alive \cup {n} /\ newNotifiers' = newNotifiers \cup {n} /\ hasRun' = hasRun \ {n}
        /\ main' = next /\ package' \in {{n}, {}} /\ (main' = "observe" => package' = {n})
    BY DEF Register
  <2>3. /\ version' = [version EXCEPT ![n] = latest]
        /\ accumulated' = [accumulated EXCEPT ![n] = {}]
        /\ toDeliver' = [toDeliver EXCEPT ![n] = {}]
        /\ change' = [change EXCEPT ![n] = {}]
        /\ advancerSg' \in {latest, advancerSg}
    BY DEF Register, PinVersion
  <2>u. /\ UNCHANGED <<latest, changed, observer, previous, seen, told, notifiers, skipVersion, notifierSg>>
        /\ UNCHANGED <<worker, signalled, target, skipTo, running, added, scheduled>>
    BY DEF Register, workerVars
  <2>l. latest \in Nat /\ latest >= 1
    <3>1. latest \in Version
      BY DEF IInv, TypeOK
    <3> QED BY <3>1, MaxVersionAssumption DEF Version
  <2>4. TypeOK'
    <3>1. latest \in 1 .. latest /\ latest \in 0 .. latest
      BY <2>l
    <3>2. version' \in [Notifier -> 1 .. latest] /\ change' \in [Notifier -> SUBSET changed]
          /\ accumulated' \in [Notifier -> SUBSET changed] /\ toDeliver' \in [Notifier -> SUBSET changed]
      BY <2>3, <3>1 DEF IInv, TypeOK
    <3>3. advancerSg' \in 0 .. latest
      BY <2>3, <3>1 DEF IInv, TypeOK
    <3>4. alive' \subseteq Notifier /\ newNotifiers' \subseteq Notifier /\ hasRun' \subseteq Notifier
          /\ package' \subseteq Notifier /\ main' \in {"idle", "observe"}
      BY <2>2 DEF IInv, TypeOK
    <3> QED BY <2>u, <3>2, <3>3, <3>4 DEF IInv, TypeOK
  <2>5. Lists'
    <3>1. \A m \in Notifier : HaveCallbacks(m)' => m \in alive'
      BY <2>u, <2>2 DEF IInv, Lists, HaveCallbacks
    <3>2. main' \in {"observe", "close"} => \E m \in Notifier : package' = {m} /\ ~HaveCallbacks(m)'
      BY <2>u, <2>1, <2>2 DEF IInv, Lists, HaveCallbacks
    <3>3. main' = "observe" => package' \subseteq alive'
      BY <2>2
    <3>4. alive' \subseteq newNotifiers' \cup notifiers' /\ newNotifiers' \cap notifiers' = {}
      BY <2>u, <2>1, <2>2 DEF IInv, Lists
    <3>5. /\ worker' = "waiting" => running' = {} /\ added' = {}
          /\ worker' # "waiting" => running' \cup added' = notifiers'
          /\ running' \cap added' = {}
      BY <2>u DEF IInv, Lists
    <3>6. newNotifiers' \cap hasRun' = {} /\ added' \cap hasRun' = {} /\ notifiers' \ added' \subseteq hasRun'
      BY <2>u, <2>1, <2>2 DEF IInv, Lists
    <3>7. main' \notin {"begin", "waiting"}
      BY <2>2
    <3> QED BY <3>1, <3>2, <3>3, <3>4, <3>5, <3>6, <3>7 DEF Lists
  <2>6. Passes'
    <3>1. notifiers' = notifiers /\ notifiers' \cap alive' = notifiers \cap alive
      BY <2>1, <2>2 DEF Register
    <3> QED BY <3>1 DEF IInv, Passes, Handing, Register, workerVars
  <2>7. Versions'
    <3>1. \A m \in notifiers : version'[m] = version[m]
      BY <2>1, <2>3 DEF IInv, TypeOK
    <3>2. \A m \in newNotifiers : version'[m] = version[m]
      BY <2>1, <2>3 DEF IInv, TypeOK
    <3>3. version'[n] = latest
      BY <2>3 DEF IInv, TypeOK
    <3>4. ASSUME NEW m \in newNotifiers' PROVE 1 <= advancerSg' /\ advancerSg' <= version'[m]
      <4>1. advancerSg' = latest \/ (advancerSg' = advancerSg /\ advancerSg # 0 /\ advancerSg <= latest)
          <5>1. advancerSg' = PinVersion(latest)
          BY DEF Register
        <5>2. advancerSg \in 0 .. latest
          BY DEF IInv, TypeOK
        <5> QED BY <5>1, <5>2, <2>l DEF PinVersion, NoVersion
      <4>2. newNotifiers # {} => 1 <= advancerSg
        BY DEF IInv, Versions
      <4>3. CASE m = n
        <5>1. advancerSg \in 0 .. latest
          BY DEF IInv, TypeOK
        <5> QED BY <5>1, <4>1, <4>3, <3>3, <2>l
      <4>4. CASE m # n
        <5>1. m \in newNotifiers /\ m \in Notifier /\ version'[m] = version[m] /\ version[m] \in 1 .. latest
          BY <4>4, <2>2, <3>2 DEF IInv, TypeOK
        <5>2. 1 <= advancerSg /\ advancerSg <= version[m]
          BY <5>1 DEF IInv, Versions
        <5>3. advancerSg' = PinVersion(latest) /\ advancerSg \in 0 .. latest
          BY DEF Register, IInv, TypeOK
        <5> QED BY <5>1, <5>2, <5>3, <2>l DEF PinVersion, NoVersion
      <4> QED BY <4>3, <4>4
    <3>5. \A m \in notifiers \ added : version'[m] = version[m]
      BY <3>1
    <3>6. /\ \A m, k \in notifiers \ added : version'[m] = version'[k]
          /\ \A m \in notifiers \ added :
                /\ Handing => version'[m] <= target
                /\ ~Handing => version'[m] = notifierSg
      BY <3>5 DEF IInv, Versions
    <3> QED BY <2>u, <3>6, <3>4 DEF Versions, Handing
  <2>8. Comparisons'
    <3> SUFFICES ASSUME NEW m \in Notifier, Watched(m)' PROVE Comparisons!(m)'
      BY DEF Comparisons
    <3>1. CASE m = n
      <4>1. n \notin added' /\ n \notin notifiers' /\ n \notin hasRun'
        BY <2>1, <2>2, <2>u
      <4>2. change'[n] = {} /\ version'[n] = latest
        BY <2>3 DEF IInv, TypeOK
      <4> QED BY <3>1, <4>1, <4>2, <2>u, <2>l
    <3>2. CASE m # n
      BY <3>2, <2>1, <2>2, <2>3 DEF IInv, TypeOK, Comparisons, Watched, Handing, HaveCallbacks, Register, workerVars
    <3> QED BY <3>1, <3>2
  <2>9. Deliveries'
    <3> SUFFICES ASSUME NEW m \in Notifier PROVE Deliveries!(m)'
      BY DEF Deliveries
    <3>1. CASE m = n
      <4>1. observer[n] = "none"
        BY <2>1 DEF IInv, Lists, HaveCallbacks
      <4> QED BY <4>1, <3>1, <2>1, <2>2, <2>3 DEF IInv, TypeOK, Register, HaveCallbacks
    <3>2. CASE m # n
      BY <3>2, <2>1, <2>2, <2>3 DEF IInv, TypeOK, Deliveries, Watched, HaveCallbacks, Register
    <3> QED BY <3>1, <3>2
  <2>10. Writes'
    BY <2>2 DEF IInv, Writes, Register, HaveCallbacks
  <2> QED BY <2>4, <2>5, <2>6, <2>7, <2>8, <2>9, <2>10 DEF IInv
<1>2. ASSUME NEW n \in Notifier, AddCallback(n) PROVE IInv'
  <2> USE <1>2
  <2>1. /\ package = {n} /\ main = "observe" /\ ~HaveCallbacks(n) /\ Watched(n)
        /\ main' = "idle" /\ package' = {}
        /\ observer' = [observer EXCEPT ![n] = "awaiting"]
        /\ UNCHANGED <<latest, changed, alive, version, hasRun, previous, change, accumulated,
                       toDeliver, seen, told, coordinatorVars, worker, target, skipTo,
                       running, added, scheduled>>
    BY DEF AddCallback, IInv, Lists, HaveCallbacks, Watched
  <2>2. \A m \in Notifier : Watched(m)' => Watched(m)
    BY <2>1 DEF Watched, HaveCallbacks, IInv, TypeOK
  <2>3. TypeOK' /\ Lists' /\ Passes' /\ Versions' /\ Writes'
    <3>1. TypeOK'
      BY DEF AddCallback, IInv, TypeOK, coordinatorVars
    <3>2. Lists'
      BY DEF AddCallback, IInv, TypeOK, Lists, HaveCallbacks, NotifiersForRealm, coordinatorVars
    <3>3. Passes'
      BY DEF AddCallback, IInv, Passes, Handing, coordinatorVars
    <3>4. Versions'
      BY DEF AddCallback, IInv, Versions, Handing, coordinatorVars
    <3>5. Writes'
      BY DEF AddCallback, IInv, TypeOK, Writes, HaveCallbacks, coordinatorVars
    <3> QED BY <3>1, <3>2, <3>3, <3>4, <3>5
  <2>4. Comparisons'
    <3> SUFFICES ASSUME NEW m \in Notifier, Watched(m)' PROVE Comparisons!(m)'
      BY DEF Comparisons
    <3>1. Comparisons!(m)
      BY <2>2 DEF IInv, Comparisons
    <3> QED BY <3>1, <2>1, <2>2 DEF Handing, coordinatorVars
  <2>5. Deliveries'
    <3> SUFFICES ASSUME NEW m \in Notifier PROVE Deliveries!(m)'
      BY DEF Deliveries
    <3>1. Deliveries!(m)
      BY DEF IInv, Deliveries
    <3>2. CASE m = n
      BY <3>1, <3>2, <2>1 DEF HaveCallbacks, IInv, TypeOK
    <3>3. CASE m # n
      BY <3>1, <3>3, <2>1 DEF HaveCallbacks, Watched, IInv, TypeOK
    <3> QED BY <3>2, <3>3
  <2> QED BY <2>3, <2>4, <2>5 DEF IInv
<1>3. ASSUME NEW n \in Notifier, RemoveCallback(n) PROVE IInv'
  <2> USE <1>3
  <2>1. /\ main = "idle" /\ main' = "close" /\ package' = {n}
        /\ observer' = [observer EXCEPT ![n] = "none"]
        /\ UNCHANGED <<latest, changed, alive, version, hasRun, previous, change, seen,
                       coordinatorVars, workerVars, scheduled>>
    BY DEF RemoveCallback
  <2>2. \A m \in Notifier : Watched(m)' => Watched(m) /\ m # n
    BY <2>1 DEF Watched, HaveCallbacks, IInv, TypeOK
  <2>3. TypeOK' /\ Lists' /\ Passes' /\ Versions' /\ Writes'
    <3>1. TypeOK'
      BY DEF RemoveCallback, IInv, TypeOK, coordinatorVars, workerVars
    <3>2. Lists'
      BY DEF RemoveCallback, IInv, TypeOK, Lists, HaveCallbacks, NotifiersForRealm, coordinatorVars, workerVars
    <3>3. Passes'
      BY DEF RemoveCallback, IInv, Passes, Handing, coordinatorVars, workerVars
    <3>4. Versions'
      BY DEF RemoveCallback, IInv, Versions, Handing, coordinatorVars, workerVars
    <3>5. Writes'
      BY DEF RemoveCallback, IInv, TypeOK, Writes, HaveCallbacks, coordinatorVars
    <3> QED BY <3>1, <3>2, <3>3, <3>4, <3>5
  <2>4. Comparisons'
    <3> SUFFICES ASSUME NEW m \in Notifier, Watched(m)' PROVE Comparisons!(m)'
      BY DEF Comparisons
    <3>1. Comparisons!(m)
      BY <2>2 DEF IInv, Comparisons
    <3> QED BY <3>1, <2>1, <2>2 DEF Handing, coordinatorVars, workerVars
  <2>5. Deliveries'
    BY DEF RemoveCallback, IInv, TypeOK, Deliveries, Watched, HaveCallbacks
  <2> QED BY <2>3, <2>4, <2>5 DEF IInv
<1>4. ASSUME NEW n \in Notifier, Unregister(n) PROVE IInv'
  <2> USE <1>4
  <2>1. /\ main' = "idle" /\ package' = {} /\ alive' = alive \ {n} /\ ~HaveCallbacks(n)
        /\ main \in {"idle", "close"}
        /\ UNCHANGED <<latest, changed, observer, version, hasRun, previous, change, accumulated,
                       toDeliver, seen, told, coordinatorVars, workerVars, scheduled>>
    BY DEF Unregister, IInv, Lists
  <2>2. \A m \in Notifier : (HaveCallbacks(m)' <=> HaveCallbacks(m)) /\ (Watched(m)' <=> Watched(m))
    BY <2>1 DEF HaveCallbacks, Watched
  <2>3. TypeOK' /\ Lists'
    <3>1. TypeOK'
      BY <2>1 DEF IInv, TypeOK, coordinatorVars, workerVars
    <3>2. \A m \in Notifier : HaveCallbacks(m)' => m \in alive'
      BY <2>1, <2>2 DEF IInv, Lists
    <3> QED BY <3>1, <3>2, <2>1 DEF IInv, Lists, coordinatorVars, workerVars
  <2>4. Passes' /\ Versions'
    BY <2>1 DEF IInv, Passes, Versions, Handing, coordinatorVars, workerVars
  <2>5. Comparisons'
    BY <2>1, <2>2 DEF IInv, Comparisons, Handing, coordinatorVars, workerVars
  <2>6. Deliveries' /\ Writes'
    BY <2>1, <2>2 DEF IInv, Deliveries, Writes, coordinatorVars, workerVars
  <2> QED BY <2>3, <2>4, <2>5, <2>6 DEF IInv
<1> QED BY <1>1, <1>2, <1>3, <1>4 DEF Evaluate, Observe

\* The main thread delivers and writes.
LEMMA MainThreadKeeps ==
  ASSUME IInv,
         \/ Begin \/ WaitForNotifiers \/ PackageAndWait \/ Notify
         \/ \E n \in Notifier : AfterAdvance(n)
         \/ NothingToDeliver \/ CommitWrite
  PROVE  IInv'
<1>1. ASSUME Begin PROVE IInv'
  <2> USE <1>1
  <2>1. /\ main = "idle" /\ main' = "begin" /\ package' = NotifiersForRealm /\ latest < MaxVersion
        /\ UNCHANGED <<latest, changed, notifierVars, coordinatorVars, workerVars, scheduled>>
    BY DEF Begin
  <2>2. \A m \in Notifier : (HaveCallbacks(m)' <=> HaveCallbacks(m)) /\ (Watched(m)' <=> Watched(m))
    BY <2>1 DEF HaveCallbacks, Watched, notifierVars
  <2>3. TypeOK' /\ Lists'
    <3>1. TypeOK'
      BY <2>1 DEF IInv, TypeOK, NotifiersForRealm, notifierVars, coordinatorVars, workerVars
    <3> QED BY <3>1, <2>1, <2>2 DEF IInv, Lists, NotifiersForRealm, notifierVars, coordinatorVars, workerVars
  <2>4. Passes' /\ Versions'
    BY <2>1 DEF IInv, Passes, Versions, Handing, notifierVars, coordinatorVars, workerVars
  <2>5. Comparisons'
    BY <2>1, <2>2 DEF IInv, Comparisons, Handing, notifierVars, coordinatorVars, workerVars
  <2>6. Deliveries'
    BY <2>1, <2>2 DEF IInv, Deliveries, notifierVars
  <2>7. Writes'
    BY <2>1, <2>2 DEF IInv, Writes, HaveCallbacks, notifierVars
  <2> QED BY <2>3, <2>4, <2>5, <2>6, <2>7 DEF IInv
<1>2. ASSUME WaitForNotifiers PROVE IInv'
  <2> USE <1>2
  <2>1. /\ main = "begin" /\ main' = "waiting" /\ signalled' = TRUE
        /\ UNCHANGED <<latest, changed, notifierVars, coordinatorVars, worker, target, skipTo,
                       running, added, package, scheduled>>
    BY DEF WaitForNotifiers
  <2>2. \A m \in Notifier : (HaveCallbacks(m)' <=> HaveCallbacks(m)) /\ (Watched(m)' <=> Watched(m))
    BY <2>1 DEF HaveCallbacks, Watched, notifierVars
  <2>3. TypeOK' /\ Lists'
    <3>1. TypeOK'
      BY <2>1 DEF IInv, TypeOK, NotifiersForRealm, notifierVars, coordinatorVars, workerVars
    <3> QED BY <3>1, <2>1, <2>2 DEF IInv, Lists, NotifiersForRealm, notifierVars, coordinatorVars, workerVars
  <2>4. Passes' /\ Versions'
    BY <2>1 DEF IInv, Passes, Versions, Handing, notifierVars, coordinatorVars, workerVars
  <2>5. Comparisons'
    BY <2>1, <2>2 DEF IInv, Comparisons, Handing, notifierVars, coordinatorVars, workerVars
  <2>6. Deliveries'
    BY <2>1, <2>2 DEF IInv, Deliveries, notifierVars
  <2>7. Writes'
    BY <2>1, <2>2 DEF IInv, Writes, HaveCallbacks, notifierVars
  <2> QED BY <2>3, <2>4, <2>5, <2>6, <2>7 DEF IInv
<1>3. ASSUME PackageAndWait PROVE IInv'
  <2> USE <1>3
  <2> DEFINE packaged == package \cap hasRun \cap alive
  <2>1. /\ main \in {"begin", "waiting"} /\ main' = "before write"
        /\ toDeliver' = [n \in Notifier |-> IF n \in packaged THEN accumulated[n] ELSE toDeliver[n]]
        /\ accumulated' = [n \in Notifier |-> IF n \in packaged THEN {} ELSE accumulated[n]]
        /\ UNCHANGED <<latest, changed, alive, observer, version, hasRun, previous, change,
                       seen, told, coordinatorVars, workerVars, scheduled>>
    BY DEF PackageAndWait, PackageForDelivery
  <2>2. ASSUME NEW m \in Notifier, HaveCallbacks(m)
        PROVE  m \in packaged /\ m \in hasRun /\ version[m] = latest /\ package' = packaged
    <3>1. m \in alive /\ m \in newNotifiers \cup notifiers
      BY <2>2 DEF IInv, Lists
    <3>2. m \in package
      BY <3>1, <2>1 DEF IInv, Lists, NotifiersForRealm
    <3>3. m \in hasRun /\ version[m] >= latest
      BY <3>2, <2>2 DEF PackageAndWait, Ready
    <3>4. version[m] = latest
      BY <3>3, Numbers
    <3>5. m \in notifiers \ added
      BY <3>1, <3>3 DEF IInv, Lists
    <3>6. ASSUME NEW last \in packaged
          PROVE  version[last] = latest
      <4>1. last \in notifiers \ added
        BY DEF IInv, Lists
      <4> QED BY <4>1, <3>4, <3>5 DEF IInv, Versions
    <3>7. packaged # {} => \E last \in packaged :
                              package' = IF version[last] < latest THEN {} ELSE packaged
      BY DEF PackageAndWait
    <3>8. m \in packaged
      BY <3>1, <3>2, <3>3
    <3>9. ~(latest < latest)
      BY Numbers
    <3> HIDE DEF packaged
    <3>10. package' = packaged
      BY <3>6, <3>7, <3>8, <3>9
    <3> QED BY <3>3, <3>4, <3>8, <3>10
  <2>3. TypeOK' /\ Lists' /\ Passes' /\ Versions' /\ Comparisons'
    <3>1. TypeOK'
      BY DEF PackageAndWait, PackageForDelivery, IInv, TypeOK, coordinatorVars, workerVars
    <3>2. Lists'
      BY DEF PackageAndWait, PackageForDelivery, IInv, TypeOK, Lists, HaveCallbacks,
             NotifiersForRealm, coordinatorVars, workerVars
    <3>3. Passes'
      BY <2>1 DEF IInv, Passes, Handing, coordinatorVars, workerVars
    <3>4. Versions'
      BY <2>1 DEF IInv, Versions, Handing, coordinatorVars, workerVars
    <3>5. Comparisons'
      BY <2>1 DEF IInv, Comparisons, Watched, HaveCallbacks, Handing, coordinatorVars, workerVars
    <3> QED BY <3>1, <3>2, <3>3, <3>4, <3>5
  <2>4. Deliveries'
    <3> SUFFICES ASSUME NEW m \in Notifier PROVE Deliveries!(m)'
      BY DEF Deliveries
    <3>1. Deliveries!(m)
      BY DEF IInv, Deliveries
    <3>2. CASE HaveCallbacks(m)
      <4>1. toDeliver[m] = {}
        BY <3>1, <3>2, <2>1 DEF HaveCallbacks, Watched
      <4>2. accumulated'[m] = {} /\ toDeliver'[m] = accumulated[m] /\ m \in package'
        BY <3>2, <2>1, <2>2
      <4>3. accumulated'[m] \cup toDeliver'[m] = accumulated[m] \cup toDeliver[m]
        BY <4>1, <4>2
      <4> QED BY <3>1, <3>2, <2>1, <4>1, <4>2, <4>3 DEF HaveCallbacks, Watched
    <3>3. CASE ~HaveCallbacks(m)
      BY <3>1, <3>3, <2>1 DEF HaveCallbacks, Watched, IInv, TypeOK
    <3> QED BY <3>2, <3>3
  <2>5. Writes'
    <3> SUFFICES ASSUME NEW m \in Notifier, HaveCallbacks(m)' PROVE Writes!(m)'
      BY DEF Writes
    <3>1. HaveCallbacks(m)
      BY <2>1 DEF HaveCallbacks
    <3> QED BY <3>1, <2>1, <2>2
  <2> QED BY <2>3, <2>4, <2>5 DEF IInv
<1>4. ASSUME Notify PROVE IInv'
  <2> USE <1>4
  <2>1. /\ main = "idle" /\ package' = Available /\ scheduled' = FALSE
        /\ main' = IF Available = {} THEN "idle" ELSE "notify"
        /\ toDeliver' = [n \in Notifier |-> IF n \in Available THEN accumulated[n] ELSE toDeliver[n]]
        /\ accumulated' = [n \in Notifier |-> IF n \in Available THEN {} ELSE accumulated[n]]
        /\ UNCHANGED <<latest, changed, alive, observer, version, hasRun, previous, change,
                       seen, told, coordinatorVars, workerVars>>
    BY DEF Notify, PackageForDelivery
  <2>2. Available \subseteq hasRun /\ Available \subseteq Notifier
        /\ \A n \in Available : version[n] = latest
    BY DEF Available, NotifiersForRealm, IInv, TypeOK
  <2>3. \A m \in Notifier : (HaveCallbacks(m)' <=> HaveCallbacks(m)) /\ (Watched(m)' <=> HaveCallbacks(m))
    BY <2>1 DEF HaveCallbacks, Watched
  <2>4. TypeOK'
    <3>1. toDeliver' \in [Notifier -> SUBSET changed] /\ accumulated' \in [Notifier -> SUBSET changed]
      BY <2>1 DEF IInv, TypeOK
    <3> QED BY <3>1, <2>1, <2>2 DEF IInv, TypeOK, coordinatorVars, workerVars
  <2>5. Lists' /\ Passes' /\ Versions'
    <3>1. Lists'
      BY <2>1, <2>3 DEF IInv, Lists, coordinatorVars, workerVars
    <3> QED BY <3>1, <2>1 DEF IInv, Passes, Versions, Handing, coordinatorVars, workerVars
  <2>6. Comparisons'
    <3>1. \A m \in Notifier : Watched(m)' => Watched(m)
      BY <2>3 DEF Watched
    <3> QED BY <3>1, <2>1 DEF IInv, Comparisons, Handing, coordinatorVars, workerVars
  <2>7. Deliveries'
    <3> SUFFICES ASSUME NEW m \in Notifier PROVE Deliveries!(m)'
      BY DEF Deliveries
    <3>1. Deliveries!(m) /\ toDeliver[m] = {}
      BY <2>1 DEF IInv, Deliveries, HaveCallbacks, Watched, TypeOK
    <3>2. /\ accumulated[m] = {} => accumulated'[m] = {} /\ toDeliver'[m] = {}
          /\ accumulated'[m] \cup toDeliver'[m] = accumulated[m] \cup toDeliver[m]
          /\ toDeliver'[m] # {} => main' = "notify" /\ m \in package'
      BY <3>1, <2>1
    <3>3. Watched(m)' => Watched(m)
      BY <2>3 DEF Watched
    <3> QED BY <2>1, <2>3, <3>1, <3>2, <3>3
  <2>8. Writes'
    BY <2>1, <2>2, <2>3 DEF Writes
  <2> QED BY <2>4, <2>5, <2>6, <2>7, <2>8 DEF IInv
<1>5. ASSUME NEW n \in Notifier, AfterAdvance(n) PROVE IInv'
  <2> USE <1>5
  <2>1. /\ main \in {"before write", "notify"} /\ n \in package /\ package' = package \ {n}
        /\ main' = IF package # {n} THEN main ELSE IF main = "notify" THEN "idle" ELSE "write"
        /\ UNCHANGED <<latest, changed, alive, version, hasRun, previous, change, accumulated,
                       coordinatorVars, workerVars, scheduled>>
    BY DEF AfterAdvance
  <2>2. \/ /\ observer[n] = "none" \/ (observer[n] = "initialized" /\ toDeliver[n] = {})
           /\ UNCHANGED <<observer, toDeliver, seen, told>>
        \/ /\ HaveCallbacks(n)
           /\ observer' = [observer EXCEPT ![n] = "initialized"]
           /\ told' \in {[told EXCEPT ![n] = {}], [told EXCEPT ![n] = toDeliver[n]]}
           /\ toDeliver' = [toDeliver EXCEPT ![n] = {}]
           /\ seen' = [seen EXCEPT ![n] = latest]
    BY DEF AfterAdvance, Call, HaveCallbacks
  <2>3. \A m \in Notifier : (HaveCallbacks(m)' <=> HaveCallbacks(m)) /\ (Watched(m)' <=> HaveCallbacks(m))
    <3>1. main' # "observe"
      BY <2>1
    <3> QED BY <3>1, <2>2 DEF HaveCallbacks, Watched, IInv, TypeOK
  <2>4. HaveCallbacks(n) => n \in hasRun /\ version[n] = latest /\ accumulated[n] = {}
    BY <2>1 DEF IInv, Writes
  <2>5. TypeOK'
    <3>1. /\ observer' \in [Notifier -> {"none", "awaiting", "initialized"}]
          /\ told' \in [Notifier -> SUBSET changed] /\ toDeliver' \in [Notifier -> SUBSET changed]
      BY <2>2 DEF IInv, TypeOK
    <3>2. seen' \in [Notifier -> 1 .. latest]
      <4>1. seen \in [Notifier -> 1 .. latest]
        BY DEF IInv, TypeOK
      <4>2. latest \in 1 .. latest
        BY Numbers
      <4> QED BY <4>1, <4>2, <2>2
    <3>3. package' \subseteq Notifier /\ main' \in {"before write", "notify", "idle", "write"}
      BY <2>1 DEF IInv, TypeOK
    <3> QED BY <2>1, <3>1, <3>2, <3>3 DEF IInv, TypeOK, coordinatorVars, workerVars
  <2>6. Lists' /\ Passes' /\ Versions'
    <3>1. Lists'
      BY <2>1, <2>3 DEF IInv, Lists, coordinatorVars, workerVars
    <3>2. Passes'
      BY <2>1 DEF IInv, Passes, Handing, coordinatorVars, workerVars
    <3>3. Versions'
      BY <2>1 DEF IInv, Versions, Handing, coordinatorVars, workerVars
    <3> QED BY <3>1, <3>2, <3>3
  <2>7. Comparisons'
    <3> SUFFICES ASSUME NEW m \in Notifier, Watched(m)' PROVE Comparisons!(m)'
      BY DEF Comparisons
    <3>1. Watched(m)
      BY <2>3 DEF Watched
    <3>2. Comparisons!(m)
      BY DEF IInv, Comparisons
    <3> QED BY <2>1, <3>1, <3>2 DEF Handing, coordinatorVars, workerVars
  <2>8. Deliveries'
    <3> SUFFICES ASSUME NEW m \in Notifier PROVE Deliveries!(m)'
      BY DEF Deliveries
    <3>1. Deliveries!(m)
      BY DEF IInv, Deliveries
    <3>2. CASE m # n
      <4>1. observer'[m] = observer[m] /\ toDeliver'[m] = toDeliver[m] /\ seen'[m] = seen[m]
        BY <2>2, <3>2 DEF IInv, TypeOK
      <4>2. main \in {"before write", "notify"} /\ m \in package =>
              main' \in {"before write", "notify"} /\ m \in package'
        BY <2>1, <3>2
      <4>3. Watched(m)' => Watched(m)
        BY <2>3 DEF Watched
      <4> QED BY <2>1, <2>3, <3>1, <4>1, <4>2, <4>3
    <3>3. CASE m = n /\ UNCHANGED <<observer, toDeliver, seen, told>>
      <4>1. Watched(m)' => Watched(m)
        BY <2>3 DEF Watched
      <4>2. toDeliver[m] = {}
        BY <2>2, <3>1, <3>3 DEF HaveCallbacks, IInv, TypeOK
      <4> QED BY <2>1, <2>3, <3>1, <3>3, <4>1, <4>2
    <3>4. CASE m = n /\ HaveCallbacks(n) /\ observer' = [observer EXCEPT ![n] = "initialized"]
                     /\ toDeliver' = [toDeliver EXCEPT ![n] = {}]
                     /\ seen' = [seen EXCEPT ![n] = latest]
      <4>1. observer'[m] = "initialized" /\ toDeliver'[m] = {} /\ seen'[m] = latest
        BY <3>4 DEF IInv, TypeOK
      <4>2. Between(changed, latest, latest) = {}
        BY Numbers, BetweenFacts
      <4> QED BY <2>1, <2>3, <2>4, <3>4, <4>1, <4>2, Numbers
    <3> QED BY <2>2, <3>2, <3>3, <3>4
  <2>9. Writes'
    <3> SUFFICES ASSUME NEW m \in Notifier, HaveCallbacks(m)' PROVE Writes!(m)'
      BY DEF Writes
    <3>1. HaveCallbacks(m)
      BY <2>3
    <3>2. Writes!(m)
      BY DEF IInv, Writes
    <3>3. m = n => observer'[m] = "initialized"
      BY <3>1, <2>2 DEF HaveCallbacks, IInv, TypeOK
    <3>4. m # n => observer'[m] = observer[m]
      BY <2>2 DEF IInv, TypeOK
    <3> QED BY <2>1, <2>4, <3>1, <3>2, <3>3, <3>4
  <2> QED BY <2>5, <2>6, <2>7, <2>8, <2>9 DEF IInv
<1>6. ASSUME NothingToDeliver PROVE IInv'
  <2> USE <1>6
  <2>1. /\ main = "before write" /\ package = {} /\ main' = "write"
        /\ UNCHANGED <<latest, changed, notifierVars, coordinatorVars, workerVars, package,
                       scheduled>>
    BY DEF NothingToDeliver
  <2>2. \A m \in Notifier : (HaveCallbacks(m)' <=> HaveCallbacks(m)) /\ (Watched(m)' <=> Watched(m))
    BY <2>1 DEF HaveCallbacks, Watched, notifierVars
  <2>3. TypeOK' /\ Lists'
    <3>1. TypeOK'
      BY <2>1 DEF IInv, TypeOK, NotifiersForRealm, notifierVars, coordinatorVars, workerVars
    <3> QED BY <3>1, <2>1, <2>2 DEF IInv, Lists, NotifiersForRealm, notifierVars, coordinatorVars, workerVars
  <2>4. Passes' /\ Versions'
    BY <2>1 DEF IInv, Passes, Versions, Handing, notifierVars, coordinatorVars, workerVars
  <2>5. Comparisons'
    BY <2>1, <2>2 DEF IInv, Comparisons, Handing, notifierVars, coordinatorVars, workerVars
  <2>6. Deliveries'
    BY <2>1, <2>2 DEF IInv, Deliveries, notifierVars
  <2>7. Writes'
    BY <2>1, <2>2 DEF IInv, Writes, HaveCallbacks, notifierVars
  <2> QED BY <2>3, <2>4, <2>5, <2>6, <2>7 DEF IInv
<1>7. ASSUME CommitWrite PROVE IInv'
  <2> USE <1>7
  <2>1. /\ main = "write" /\ main' = "idle" /\ latest' = latest + 1
        /\ changed' \in {changed, changed \cup {latest + 1}}
        /\ skipVersion' = IF notifiers \cap alive # {} THEN latest + 1 ELSE skipVersion
        /\ signalled' = TRUE
        /\ UNCHANGED <<notifierVars, newNotifiers, notifiers, notifierSg, advancerSg,
                       worker, target, skipTo, running, added, package, scheduled>>
    BY DEF CommitWrite
  <2>2. ASSUME NEW m \in Notifier, HaveCallbacks(m)
        PROVE  m \in hasRun /\ version[m] = latest /\ observer[m] = "initialized"
               /\ accumulated[m] = {}
    BY <2>2, <2>1 DEF IInv, Writes
  <2>3. ASSUME NEW a \in Nat, NEW b \in Nat, b <= latest
        PROVE  Between(changed', a, b) = Between(changed, a, b)
    BY <2>1, <2>3, Numbers, BetweenFacts DEF Between
  <2>4. TypeOK'
    <3>1. latest' \in Version
      <4>1. latest < MaxVersion
        BY <2>1 DEF IInv, Passes
      <4> QED BY <4>1, <2>1, Numbers, MaxVersionAssumption DEF Version
    <3>2. changed' \subseteq 1 .. latest'
      <4>1. changed \subseteq 1 .. latest
        BY DEF IInv, TypeOK
      <4> QED BY <4>1, <2>1, Numbers
    <3>3. 1 .. latest \subseteq 1 .. latest' /\ 0 .. latest \subseteq 0 .. latest'
          /\ changed \subseteq changed' /\ skipVersion' \in 0 .. latest'
      BY <2>1, Numbers
    <3>4. /\ version' \in [Notifier -> 1 .. latest'] /\ previous' \in [Notifier -> 1 .. latest']
          /\ seen' \in [Notifier -> 1 .. latest']
      BY <2>1, <3>3 DEF IInv, TypeOK, notifierVars
    <3>5. /\ change' \in [Notifier -> SUBSET changed'] /\ told' \in [Notifier -> SUBSET changed']
          /\ accumulated' \in [Notifier -> SUBSET changed']
          /\ toDeliver' \in [Notifier -> SUBSET changed']
      BY <2>1, <3>3 DEF IInv, TypeOK, notifierVars
    <3>6. /\ notifierSg' \in 0 .. latest' /\ advancerSg' \in 0 .. latest'
          /\ target' \in 0 .. latest' /\ skipTo' \in 0 .. latest'
      BY <2>1, <3>3 DEF IInv, TypeOK
    <3>7. /\ alive' \subseteq Notifier /\ hasRun' \subseteq Notifier
          /\ observer' \in [Notifier -> {"none", "awaiting", "initialized"}]
          /\ newNotifiers' \subseteq Notifier /\ notifiers' \subseteq Notifier
          /\ worker' \in {"waiting", "run skip", "hand skip", "run", "hand"}
          /\ running' \subseteq Notifier /\ added' \subseteq Notifier
          /\ package' \subseteq Notifier /\ signalled' \in BOOLEAN /\ scheduled' \in BOOLEAN
      BY <2>1 DEF IInv, TypeOK, notifierVars
    <3> QED BY <2>1, <3>1, <3>2, <3>3, <3>4, <3>5, <3>6, <3>7 DEF TypeOK
  <2>5. Lists' /\ Passes' /\ Versions' /\ Writes'
    <3>1. Lists'
      BY <2>1 DEF IInv, TypeOK, Lists, HaveCallbacks, NotifiersForRealm, notifierVars
    <3>2. Passes'
      BY <2>1, Numbers DEF IInv, Passes, Handing, notifierVars
    <3>3. Versions'
      BY <2>1 DEF IInv, Versions, Handing, notifierVars
    <3>4. Writes'
      BY <2>1 DEF Writes
    <3> QED BY <3>1, <3>2, <3>3, <3>4
  <2>6. Comparisons'
    <3> SUFFICES ASSUME NEW m \in Notifier, Watched(m)' PROVE Comparisons!(m)'
      BY DEF Comparisons
    <3>1. HaveCallbacks(m) /\ Watched(m)
      BY <2>1 DEF Watched, HaveCallbacks, notifierVars
    <3>2. Comparisons!(m)
      BY <3>1 DEF IInv, Comparisons
    <3>3. m \in hasRun /\ version[m] = latest /\ m \notin added
      BY <3>1, <2>2 DEF IInv, Lists
    <3>4. Between(changed', version[m], target) = Between(changed, version[m], target)
      BY <2>3, Numbers
    <3>5. version'[m] + 1 >= latest'
      BY <3>3, <2>1, Numbers DEF notifierVars
    <3>6. UNCHANGED <<added, notifiers, worker, previous, notifierSg, hasRun, change, version, target>>
      BY <2>1 DEF notifierVars
    <3>7. Handing' <=> Handing
      BY <3>6 DEF Handing
    <3>8. m \in hasRun' /\ Handing' => change'[m] = Between(changed', version'[m], target')
      BY <3>1, <3>2, <3>4, <3>6, <3>7
    <3> QED BY <3>1, <3>2, <3>3, <3>5, <3>6, <3>7, <3>8
  <2>7. Deliveries'
    <3> SUFFICES ASSUME NEW m \in Notifier PROVE Deliveries!(m)'
      BY DEF Deliveries
    <3>1. Deliveries!(m)
      BY DEF IInv, Deliveries
    <3>2. CASE HaveCallbacks(m)
      <4>1. m \in hasRun /\ version[m] = latest /\ observer[m] = "initialized"
            /\ accumulated[m] = {} /\ toDeliver[m] = {}
        BY <3>1, <3>2, <2>1, <2>2
      <4>2. Between(changed, seen[m], latest) = {}
        BY <3>1, <4>1
      <4>3. Between(changed', seen[m], latest) = {}
        BY <4>2, <2>3, Numbers
      <4>4. changed' \subseteq Nat
        BY <2>1, Numbers
      <4>5. Between(changed', seen[m], latest + 1) \subseteq {latest + 1}
        <5> SUFFICES ASSUME NEW v \in Between(changed', seen[m], latest + 1)
                     PROVE  v = latest + 1
          OBVIOUS
        <5>1. v \in changed' /\ seen[m] < v /\ v <= latest + 1
          BY DEF Between
        <5>2. ~(v <= latest)
          BY <5>1, <4>3 DEF Between
        <5> QED BY <5>1, <5>2, <4>4, Numbers
      <4> QED BY <3>1, <4>1, <4>3, <4>5, <2>1 DEF HaveCallbacks, notifierVars
    <3>3. CASE ~HaveCallbacks(m)
      BY <3>1, <3>3, <2>1 DEF HaveCallbacks, Watched, notifierVars
    <3> QED BY <3>2, <3>3
  <2> QED BY <2>4, <2>5, <2>6, <2>7 DEF IInv
<1> QED BY <1>1, <1>2, <1>3, <1>4, <1>5, <1>6, <1>7

\* The worker compares and hands over.
LEMMA WorkerKeeps ==
  ASSUME IInv,
         Worker
  PROVE  IInv'
<1>1. ASSUME WakeForNothing PROVE IInv'
  <2> USE <1>1
  <2>1. /\ worker = "waiting" /\ running = {} /\ added = {} /\ alive = {}
        /\ \A n \in Notifier : ~HaveCallbacks(n) /\ ~Watched(n)
    BY DEF WakeForNothing, IInv, Lists, Watched
  <2>2. /\ notifiers' = {} /\ newNotifiers' = {} /\ notifierSg' = 0 /\ skipVersion' = 0
        /\ advancerSg' \in {0, advancerSg}
    <3>1. notifiers = {} => notifierSg = 0 /\ skipVersion = 0
      BY DEF IInv, Passes
    <3> QED BY <2>1, <3>1 DEF WakeForNothing, CleanUp, NoVersion
  <2>3. /\ signalled' = FALSE /\ scheduled' = TRUE
        /\ UNCHANGED <<latest, changed, notifierVars, worker, target, skipTo, running, added,
                       main, package>>
    BY DEF WakeForNothing
  <2>4. TypeOK'
    <3>1. {0, advancerSg} \subseteq 0 .. latest
      BY Numbers
    <3> QED BY <2>2, <2>3, <3>1 DEF IInv, TypeOK, notifierVars
  <2>5. \A n \in Notifier : ~HaveCallbacks(n)' /\ ~Watched(n)'
    BY <2>1, <2>3 DEF HaveCallbacks, Watched, notifierVars
  <2>6. Lists'
    BY <2>1, <2>2, <2>3, <2>5 DEF IInv, Lists, NotifiersForRealm, notifierVars
  <2>7. Passes' /\ Versions'
    BY <2>1, <2>2, <2>3 DEF IInv, Passes, Versions, Handing
  <2>8. Comparisons' /\ Writes'
    BY <2>5 DEF Comparisons, Writes
  <2>9. Deliveries'
    BY <2>1, <2>3, <2>5 DEF IInv, Deliveries, HaveCallbacks, notifierVars
  <2> QED BY <2>4, <2>6, <2>7, <2>8, <2>9 DEF IInv
<1>2. ASSUME Wake PROVE IInv'
  <2> USE <1>2
  <2>1. /\ worker = "waiting" /\ running = {} /\ added = {}
        /\ running' = notifiers \cap alive /\ added' = newNotifiers \cap alive
        /\ notifiers' = running' \cup added' /\ newNotifiers' = {}
        /\ notifiers' # {} /\ alive \subseteq notifiers'
        /\ advancerSg' = 0 /\ skipVersion' = 0 /\ target' = latest /\ signalled' = FALSE
        /\ notifierSg' \in {latest, notifierSg}
        /\ worker' = IF skipTo' = 0 THEN "run" ELSE "run skip"
        /\ UNCHANGED <<latest, changed, notifierVars, mainVars>>
    BY DEF Wake, Target, NoVersion, IInv, Lists
  <2>2. /\ notifierSg' # 0
        /\ skipTo' = 0 \/ (running' # {} /\ skipTo' = latest)
        /\ running' # {} => notifierSg' = notifierSg
    <3>1. notifiers = {} <=> notifierSg = 0
      BY DEF IInv, Passes
    <3>2. skipVersion # 0 => notifiers # {} /\ (notifiers \cap alive = {} \/ skipVersion = latest)
      BY DEF IInv, Passes
    <3>3. notifierSg' = IF (notifiers # {} /\ running' = {}) \/ notifierSg = 0 THEN latest ELSE notifierSg
      BY DEF Wake, NoVersion
    <3>4. skipTo' = IF notifiers # {} /\ running' = {} THEN 0 ELSE skipVersion
      BY DEF Wake, NoVersion
    <3>5. latest # 0
      BY Numbers
    <3>6. running' # {} => notifiers # {}
      BY <2>1
    <3> QED BY <2>1, <3>1, <3>2, <3>3, <3>4, <3>5, <3>6
  <2>3. TypeOK'
    <3>1. {0, latest, notifierSg} \subseteq 0 .. latest
      BY Numbers
    <3>2. skipTo' \in {0, latest}
      BY <2>2
    <3>3. running' \subseteq Notifier /\ added' \subseteq Notifier /\ notifiers' \subseteq Notifier
          /\ newNotifiers' \subseteq Notifier
      BY <2>1 DEF IInv, TypeOK
    <3>4. worker' \in {"run", "run skip"}
      BY <2>1
    <3> QED BY <2>1, <3>1, <3>2, <3>3, <3>4 DEF IInv, TypeOK, notifierVars, mainVars
  <2>4. \A n \in Notifier : (HaveCallbacks(n)' <=> HaveCallbacks(n)) /\ (Watched(n)' <=> Watched(n))
    BY <2>1 DEF HaveCallbacks, Watched, notifierVars, mainVars
  <2>5. Lists'
    <3>1. NotifiersForRealm = alive /\ NotifiersForRealm' = alive'
      BY <2>1 DEF IInv, Lists, NotifiersForRealm, notifierVars
    <3>2. running' \cap added' = {} /\ added' \cap hasRun = {} /\ running' \subseteq hasRun
      BY <2>1 DEF IInv, Lists
    <3> QED BY <2>1, <2>4, <3>1, <3>2 DEF IInv, Lists, notifierVars, mainVars
  <2>6. Passes'
    <3>1. worker' \in {"run", "run skip"} /\ ~Handing'
      BY <2>1 DEF Handing
    <3>2. 1 <= notifierSg' /\ notifierSg' <= target' /\ skipTo' \in {0, target'}
      <4>1. latest \in Nat /\ latest >= 1 /\ notifierSg \in Nat /\ notifierSg <= latest
        BY Numbers
      <4>2. target' = latest /\ notifierSg' \in {latest, notifierSg} /\ notifierSg' # 0
            /\ skipTo' \in {0, latest}
        BY <2>1, <2>2
      <4> QED BY <4>1, <4>2
    <3>3. worker' = "run skip" => skipTo' = target' /\ running' # {}
      BY <2>1, <2>2
    <3>4. main' \in {"begin", "waiting", "before write", "write"} => latest' < MaxVersion
      BY <2>1 DEF IInv, Passes, mainVars
    <3> QED BY <2>1, <2>2, <3>1, <3>2, <3>3, <3>4 DEF Passes
  <2>7. Versions'
    <3>1. \A n, m \in running' : version[n] = version[m]
      BY <2>1 DEF IInv, Versions
    <3>2. \A n \in running' : version[n] = notifierSg
      BY <2>1 DEF IInv, Versions, Handing
    <3>3. notifiers' \ added' \subseteq running' /\ ~Handing'
      BY <2>1 DEF Handing
    <3> QED BY <2>1, <2>2, <3>1, <3>2, <3>3 DEF Versions, notifierVars
  <2>8. Comparisons'
    <3> SUFFICES ASSUME NEW n \in Notifier, Watched(n)' PROVE Comparisons!(n)'
      BY DEF Comparisons
    <3>1. Watched(n) /\ Comparisons!(n)
      BY <2>4 DEF IInv, Comparisons
    <3>2. ~Handing /\ ~Handing' /\ worker' # "hand"
      BY <2>1 DEF Handing
    <3>3. n \in running' => n \in notifiers /\ notifierSg' = notifierSg
      BY <2>1, <2>2
    <3> QED BY <2>1, <3>1, <3>2, <3>3 DEF notifierVars
  <2>9. Deliveries' /\ Writes'
    BY <2>1, <2>4 DEF IInv, Deliveries, Writes, notifierVars, mainVars
  <2> QED BY <2>3, <2>5, <2>6, <2>7, <2>8, <2>9 DEF IInv
<1>3. ASSUME RunSkip \/ RunAll PROVE IInv'
  <2> USE <1>3
  <2> DEFINE S == IF worker = "run skip" THEN running ELSE running \cup added
  <2>1. /\ worker \in {"run skip", "run"} /\ ~Handing /\ Handing'
        /\ worker' = IF worker = "run skip" THEN "hand skip" ELSE "hand"
        /\ target >= 1 /\ notifierSg <= target /\ running \cup added = notifiers
        /\ (worker = "run skip" => skipTo = target /\ running # {}) /\ notifiers # {}
        /\ skipTo \in {0, target}
    <3>1. worker \in {"run skip", "run"} /\ worker' = IF worker = "run skip" THEN "hand skip" ELSE "hand"
      BY DEF RunSkip, RunAll
    <3>2. running \cup added = notifiers
      BY <3>1 DEF IInv, Lists
    <3>3. 1 <= notifierSg /\ notifierSg <= target /\ skipTo \in {0, target}
          /\ (worker = "run skip" => skipTo = target /\ running # {})
          /\ (notifiers # {} <=> notifierSg # 0)
      BY <3>1 DEF IInv, Passes
    <3>4. target >= 1 /\ notifierSg # 0
      <4>1. target \in Nat /\ notifierSg \in Nat
        BY Numbers
      <4>2. 1 <= notifierSg /\ notifierSg <= target
        BY <3>3
      <4> QED BY <4>1, <4>2
    <3> QED BY <3>1, <3>2, <3>3, <3>4 DEF Handing
  <2>2. /\ change' = [n \in Notifier |->
                        IF n \in S \cap alive \cap hasRun /\ HaveCallbacks(n)
                        THEN Between(changed, previous[n], target) ELSE change[n]]
        /\ previous' = [n \in Notifier |-> IF n \in S \cap alive THEN target ELSE previous[n]]
        /\ notifierSg' = target
        /\ UNCHANGED <<latest, changed, alive, observer, version, hasRun, accumulated, toDeliver,
                       seen, told, newNotifiers, notifiers, skipVersion, advancerSg,
                       signalled, target, skipTo, running, added, mainVars>>
    <3>1. CASE RunSkip
      <4>1. worker = "run skip" /\ Run(running, target)
        BY <3>1, <2>1 DEF RunSkip
      <4> QED BY <4>1 DEF Run, Commits, Between
    <3>2. CASE RunAll
      <4>1. worker = "run" /\ Run(running \cup added, target)
        BY <3>2 DEF RunAll
      <4> QED BY <4>1 DEF Run, Commits, Between
    <3> QED BY <3>1, <3>2
  <2>3. \A n \in Notifier : (HaveCallbacks(n)' <=> HaveCallbacks(n)) /\ (Watched(n)' <=> Watched(n))
    BY <2>2 DEF HaveCallbacks, Watched, mainVars
  <2>4. TypeOK'
    <3>1. change' \in [Notifier -> SUBSET changed]
      <4>1. \A n \in Notifier : Between(changed, previous[n], target) \subseteq changed
        BY DEF Between
      <4>2. change \in [Notifier -> SUBSET changed]
        BY DEF IInv, TypeOK
      <4> QED BY <2>2, <4>1, <4>2
    <3>2. previous' \in [Notifier -> 1 .. latest]
      <4>1. target \in 1 .. latest
        <5>1. target \in Nat /\ latest \in Nat /\ target <= latest
          BY Numbers
        <5>2. target >= 1
          BY <2>1
        <5> QED BY <5>1, <5>2
      <4>2. previous \in [Notifier -> 1 .. latest]
        BY DEF IInv, TypeOK
      <4> QED BY <2>2, <4>1, <4>2
    <3>3. notifierSg' \in 0 .. latest
      <4>1. target \in Nat /\ latest \in Nat /\ target <= latest
        BY Numbers
      <4>2. notifierSg' = target
        BY <2>2
      <4> QED BY <4>1, <4>2
    <3>4. worker' \in {"hand skip", "hand"}
      BY <2>1
    <3> QED BY <2>2, <3>1, <3>2, <3>3, <3>4 DEF IInv, TypeOK, mainVars
  <2>5. Lists' /\ Passes' /\ Versions'
    <3>1. Lists'
      BY <2>1, <2>2, <2>3 DEF IInv, Lists, NotifiersForRealm, mainVars
    <3>2. Passes'
      <4>1. notifierSg' # 0 /\ 1 <= notifierSg' /\ notifierSg' <= target'
        <5>1. target \in Nat /\ target >= 1
          BY <2>1, Numbers
        <5>2. notifierSg' = target /\ target' = target
          BY <2>2
        <5> QED BY <5>1, <5>2
      <4>2. worker' = "hand skip" => skipTo' = target' /\ running' # {}
        BY <2>1, <2>2
      <4> QED BY <2>1, <2>2, <4>1, <4>2 DEF IInv, Passes, mainVars
    <3>3. Versions'
      <4>1. \A n \in notifiers \ added : version[n] <= target
        BY <2>1, Numbers DEF IInv, Versions
      <4> QED BY <2>1, <2>2, <4>1 DEF IInv, Versions
    <3> QED BY <3>1, <3>2, <3>3
  <2>6. Comparisons'
    <3> SUFFICES ASSUME NEW n \in Notifier, Watched(n)' PROVE Comparisons!(n)'
      BY DEF Comparisons
    <3>1. Watched(n) /\ Comparisons!(n) /\ n \in alive
      BY <2>3 DEF IInv, Comparisons, Watched, Lists
    <3>2. n \in hasRun => n \in running /\ n \notin added /\ n \in S
      <4>1. n \in newNotifiers \cup notifiers
        BY <3>1 DEF IInv, Lists
      <4> QED BY <4>1, <2>1 DEF IInv, Lists
    <3>3. n \in added => target = latest
      BY <3>1
    <3>4. n \in notifiers /\ (n \notin added \/ worker' = "hand") => previous'[n] = target
      <4>1. n \in notifiers /\ (n \notin added \/ worker' = "hand") => n \in S
        BY <2>1
      <4> QED BY <4>1, <3>1, <2>2
    <3>5. n \in hasRun => change'[n] = Between(changed, version[n], target)
      <4> SUFFICES ASSUME n \in hasRun PROVE change'[n] = Between(changed, version[n], target)
        OBVIOUS
      <4>1. CASE HaveCallbacks(n)
        <5>1. previous[n] = notifierSg
          BY <3>1, <3>2, <2>1
        <5>2. version[n] = notifierSg
          BY <3>2, <2>1 DEF IInv, Versions
        <5> QED BY <4>1, <5>1, <5>2, <3>1, <3>2, <2>2
      <4>2. CASE ~HaveCallbacks(n)
        <5>1. version[n] = latest
          <6>1. observer[n] # "initialized"
            BY <4>2 DEF HaveCallbacks
          <6> QED BY <6>1, <3>1 DEF IInv, Deliveries
        <5>2. Between(changed, version[n], target) = {}
          BY <5>1, Numbers, BetweenFacts
        <5> QED BY <4>2, <5>2, <3>1, <2>1, <2>2
      <4> QED BY <4>1, <4>2
    <3>6. n \notin hasRun => change'[n] = {}
      BY <3>1, <2>2
    <3> QED BY <2>1, <2>2, <3>1, <3>3, <3>4, <3>5, <3>6
  <2>7. Deliveries' /\ Writes'
    BY <2>2, <2>3 DEF IInv, Deliveries, Writes, mainVars
  <2> QED BY <2>4, <2>5, <2>6, <2>7 DEF IInv
<1>4. ASSUME HandOverSkip \/ HandOver PROVE IInv'
  <2> USE <1>4
  <2> DEFINE S == IF worker = "hand skip" THEN running ELSE running \cup added
  <2>1. /\ worker \in {"hand skip", "hand"} /\ Handing /\ ~Handing'
        /\ target >= 1 /\ notifierSg = target /\ running \cup added = notifiers
        /\ notifiers # {} /\ S \subseteq notifiers /\ notifiers \ added = running
        /\ running \subseteq S /\ skipTo \in {0, target}
        /\ running \cap added = {} /\ running \subseteq hasRun
    <3>1. worker \in {"hand skip", "hand"} /\ worker' \in {"run", "waiting"}
      BY DEF HandOverSkip, HandOver
    <3>2. /\ running \cup added = notifiers /\ running \cap added = {}
          /\ notifiers \ added \subseteq hasRun
      BY <3>1 DEF IInv, Lists
    <3>3. 1 <= notifierSg /\ notifierSg = target /\ skipTo \in {0, target}
          /\ (notifiers # {} <=> notifierSg # 0)
      BY <3>1 DEF IInv, Passes, Handing
    <3>4. target >= 1 /\ notifierSg # 0
      BY <3>3, Numbers
    <3> QED BY <3>1, <3>2, <3>3, <3>4 DEF Handing
  <2>2. /\ version' = [n \in Notifier |-> IF n \in S THEN target ELSE version[n]]
        /\ accumulated' = [n \in Notifier |->
                             IF n \in S /\ HaveCallbacks(n)
                             THEN accumulated[n] \cup change[n] ELSE accumulated[n]]
        /\ change' = [n \in Notifier |-> IF n \in S THEN {} ELSE change[n]]
        /\ hasRun' = hasRun \cup S
        /\ UNCHANGED <<latest, changed, alive, observer, previous, toDeliver, seen, told>>
        /\ UNCHANGED <<main, package, signalled>>
    <3>1. CASE HandOverSkip
      <4>1. worker = "hand skip" /\ PrepareHandover(running)
        BY <3>1 DEF HandOverSkip
      <4> QED BY <4>1, <3>1, <2>1 DEF PrepareHandover, HandOverSkip, mainVars
    <3>2. CASE HandOver
      <4>1. worker = "hand" /\ PrepareHandover(running \cup added)
        BY <3>2 DEF HandOver
      <4> QED BY <4>1, <3>2, <2>1 DEF PrepareHandover, HandOver
    <3> QED BY <3>1, <3>2
  <2>3. /\ running' \in {running, {}} /\ added' \in {added, {}}
        /\ target' \in {target, 0} /\ skipTo' \in {skipTo, 0}
        /\ notifiers' \in {notifiers, notifiers \cap alive}
        /\ newNotifiers' \in {newNotifiers, newNotifiers \cap alive}
        /\ skipVersion' \in {skipVersion, 0} /\ advancerSg' \in {advancerSg, 0}
        /\ notifierSg' \in {notifierSg, 0} /\ (notifiers' \cap alive # {} => notifierSg' = notifierSg)
        /\ scheduled' \in {scheduled, TRUE}
    BY DEF HandOverSkip, HandOver, CleanUp, NoVersion, coordinatorVars, mainVars
  <2>4. \A n \in Notifier : (HaveCallbacks(n)' <=> HaveCallbacks(n)) /\ (Watched(n)' <=> Watched(n))
    BY <2>2 DEF HaveCallbacks, Watched
  <2>5. ASSUME NEW n \in Notifier, Watched(n)
        PROVE  /\ n \in alive /\ Comparisons!(n)
               /\ n \in S => /\ version[n] <= target /\ previous[n] = target
                             /\ change[n] = Between(changed, version[n], target)
               /\ n \notin S => n \notin hasRun /\ change[n] = {}
               /\ n \in added => target = latest
    <3>1. n \in alive /\ Comparisons!(n)
      BY <2>5 DEF IInv, Lists, Comparisons, Watched
    <3>2. n \in newNotifiers \cup notifiers
      BY <3>1 DEF IInv, Lists
    <3>3. n \in hasRun => n \in running
      BY <2>1, <3>2 DEF IInv, Lists
    <3>4. n \notin S => n \notin hasRun /\ change[n] = {}
      BY <2>5, <3>1, <3>3, <2>1
    <3>5. ASSUME n \in running
          PROVE  version[n] <= target /\ previous[n] = target
                 /\ change[n] = Between(changed, version[n], target)
      <4>1. n \in notifiers \ added /\ n \in hasRun
        BY <3>5, <2>1
      <4>2. version[n] <= target
        BY <4>1, <2>1 DEF IInv, Versions
      <4> QED BY <4>1, <4>2, <3>1, <2>1, <2>5
    <3>6. ASSUME n \in S, n \notin running
          PROVE  version[n] <= target /\ previous[n] = target
                 /\ change[n] = Between(changed, version[n], target)
      <4>1. n \in added /\ worker = "hand" /\ n \notin hasRun /\ target = latest
        BY <3>6, <2>1, <3>3, <3>1, <2>5
      <4>2. observer[n] # "initialized"
        BY <4>1 DEF IInv, Deliveries
      <4>3. version[n] = latest
        BY <4>2, <2>5 DEF IInv, Deliveries
      <4>4. Between(changed, latest, latest) = {}
        BY Numbers, BetweenFacts
      <4> QED BY <4>1, <4>3, <4>4, <3>1, <2>1, <2>5, Numbers
    <3> QED BY <3>1, <3>4, <3>5, <3>6, <2>5
  <2>6. ASSUME NEW n \in Notifier, Watched(n), version[n] = latest
        PROVE  version'[n] = latest /\ accumulated'[n] = accumulated[n]
    <3>1. CASE n \in S
      <4>1. target = latest /\ change[n] = Between(changed, latest, latest)
        <5>1. latest <= target /\ change[n] = Between(changed, latest, target)
          BY <2>5, <2>6, <3>1
        <5>2. target \in Nat /\ latest \in Nat /\ target <= latest
          BY Numbers
        <5>3. target = latest
          BY <5>1, <5>2
        <5> QED BY <5>1, <5>3
      <4>2. Between(changed, latest, latest) = {}
        BY Numbers, BetweenFacts
      <4> QED BY <2>2, <3>1, <4>1, <4>2
    <3>2. CASE n \notin S
      BY <2>2, <2>6, <3>2
    <3> QED BY <3>1, <3>2
  <2>7. TypeOK'
    <3>1. {0, skipVersion, notifierSg, advancerSg, target, skipTo} \subseteq 0 .. latest
      BY Numbers
    <3>2. version' \in [Notifier -> 1 .. latest]
      <4>1. target \in 1 .. latest
        <5>1. target \in Nat /\ latest \in Nat /\ target <= latest
          BY Numbers
        <5>2. target >= 1
          BY <2>1
        <5> QED BY <5>1, <5>2
      <4>2. version \in [Notifier -> 1 .. latest]
        BY DEF IInv, TypeOK
      <4> QED BY <2>2, <4>1, <4>2
    <3>3. accumulated' \in [Notifier -> SUBSET changed] /\ change' \in [Notifier -> SUBSET changed]
      <4>1. accumulated \in [Notifier -> SUBSET changed] /\ change \in [Notifier -> SUBSET changed]
        BY DEF IInv, TypeOK
      <4> QED BY <2>2, <4>1
    <3>4. /\ hasRun' \subseteq Notifier /\ notifiers' \subseteq Notifier
          /\ newNotifiers' \subseteq Notifier /\ running' \subseteq Notifier /\ added' \subseteq Notifier
      BY <2>1, <2>2, <2>3 DEF IInv, TypeOK
    <3>5. worker' \in {"run", "waiting"} /\ scheduled' \in BOOLEAN
      BY <2>3 DEF HandOverSkip, HandOver, IInv, TypeOK
    <3> QED BY <2>2, <2>3, <3>1, <3>2, <3>3, <3>4, <3>5 DEF IInv, TypeOK
  <2>8. Lists'
    <3>1. CASE HandOverSkip
      BY <3>1, <2>1, <2>2, <2>4 DEF IInv, Lists, NotifiersForRealm, HandOverSkip, coordinatorVars, mainVars
    <3>2. CASE HandOver
      <4>1. /\ notifiers' = notifiers \cap alive /\ newNotifiers' = newNotifiers \cap alive
            /\ worker' = "waiting" /\ running' = {} /\ added' = {} /\ worker = "hand"
        BY <3>2 DEF HandOver, CleanUp
      <4>2. NotifiersForRealm' = NotifiersForRealm
        BY <4>1, <2>2 DEF NotifiersForRealm
      <4>3. alive' \subseteq newNotifiers' \cup notifiers' /\ newNotifiers' \cap notifiers' = {}
        BY <4>1, <2>2 DEF IInv, Lists
      <4>4. newNotifiers' \cap hasRun' = {} /\ added' \cap hasRun' = {} /\ notifiers' \ added' \subseteq hasRun'
        BY <4>1, <2>1, <2>2 DEF IInv, Lists
      <4> QED BY <4>1, <4>2, <4>3, <4>4, <2>2, <2>4 DEF IInv, Lists
    <3> QED BY <3>1, <3>2
  <2>9. Passes'
    <3>1. CASE HandOverSkip
      <4>1. worker' = "run" /\ UNCHANGED <<coordinatorVars, target, skipTo, running, added, main, latest, alive>>
        BY <3>1, <2>2 DEF HandOverSkip, mainVars
      <4> QED BY <4>1, <2>1 DEF IInv, Passes, coordinatorVars, Handing
    <3>2. CASE HandOver
      <4>1. worker' = "waiting" /\ CleanUp(notifiers)
        BY <3>2 DEF HandOver
      <4>2. notifiers' # {} <=> notifierSg' # 0
        BY <4>1, <2>1 DEF CleanUp, NoVersion, IInv, Passes
      <4>3. skipVersion' # 0 => notifiers' # {} /\ skipVersion' = latest
        BY <4>1 DEF CleanUp, NoVersion, IInv, Passes
      <4> QED BY <4>1, <4>2, <4>3, <2>1, <2>2 DEF IInv, Passes
    <3> QED BY <3>1, <3>2
  <2>10. Versions'
    <3>1. notifiers' \ added' \subseteq S
      <4>1. worker = "hand skip" => added' = added /\ notifiers' = notifiers
        BY <2>1 DEF HandOverSkip, HandOver, coordinatorVars
      <4> QED BY <4>1, <2>1, <2>3
    <3>2. \A n \in notifiers' \ added' : version'[n] = target
      BY <3>1, <2>1, <2>2 DEF IInv, TypeOK
    <3>3. notifiers' # {} => notifierSg' = target
      BY <2>1, <2>3 DEF HandOverSkip, HandOver, CleanUp, coordinatorVars
    <3>4. \A n \in newNotifiers : n \notin S /\ version'[n] = version[n]
      BY <2>1, <2>2 DEF IInv, Lists, TypeOK
    <3>5. newNotifiers' # {} => advancerSg' = advancerSg
      BY DEF HandOverSkip, HandOver, CleanUp, coordinatorVars
    <3> QED BY <2>1, <2>3, <3>2, <3>3, <3>4, <3>5 DEF IInv, Versions
  <2>11. Comparisons'
    <3> SUFFICES ASSUME NEW n \in Notifier, Watched(n)' PROVE Comparisons!(n)'
      BY DEF Comparisons
    <3>1. Watched(n) /\ n \in alive /\ Comparisons!(n)
      BY <2>4, <2>5
    <3>2. n \in added' => target' = latest'
      BY <3>1, <2>2 DEF HandOverSkip, HandOver
    <3>3. n \in notifiers' /\ n \notin added' => previous'[n] = notifierSg'
      <4>1. n \in notifiers' => notifierSg' = target
        BY <3>1, <2>1, <2>3
      <4>2. n \in notifiers' /\ n \notin added' => n \in S
        BY <2>1, <2>3 DEF HandOverSkip, HandOver, coordinatorVars
      <4> QED BY <4>1, <4>2, <3>1, <2>2, <2>5
    <3>4. change'[n] = {}
      BY <3>1, <2>2, <2>5
    <3>5. version'[n] + 1 >= latest
      <4>1. n \in S => version'[n] = target /\ version[n] <= target
        BY <3>1, <2>2, <2>5
      <4>2. n \notin S => version'[n] = version[n]
        BY <2>2
      <4>3. version[n] + 1 >= latest
        BY <3>1
      <4>4. version[n] \in Nat /\ latest \in Nat /\ target \in Nat
        BY Numbers
      <4>5. CASE n \in S
        <5>1. version'[n] = target /\ version[n] <= target
          BY <4>1, <4>5
        <5>2. target + 1 >= latest
          BY <5>1, <4>3, <4>4
        <5> QED BY <5>1, <5>2
      <4>6. CASE n \notin S
        BY <4>2, <4>3, <4>6
      <4> QED BY <4>5, <4>6
    <3>6. worker' # "hand"
      BY <2>1 DEF Handing
    <3> QED BY <2>1, <2>2, <3>2, <3>3, <3>4, <3>5, <3>6
  <2>12. Deliveries'
    <3> SUFFICES ASSUME NEW n \in Notifier PROVE Deliveries!(n)'
      BY DEF Deliveries
    <3>1. Deliveries!(n)
      BY DEF IInv, Deliveries
    <3>2. CASE ~HaveCallbacks(n)
      <4>1. accumulated'[n] = accumulated[n] /\ observer[n] # "initialized"
        BY <3>2, <2>2 DEF HaveCallbacks
      <4> QED BY <2>2, <2>4, <2>6, <3>1, <3>2, <4>1
    <3>3. CASE observer[n] = "awaiting"
      <4>1. Watched(n) /\ HaveCallbacks(n)
        BY <3>3 DEF Watched, HaveCallbacks
      <4> QED BY <2>2, <2>4, <2>6, <3>1, <3>3, <4>1
    <3>4. CASE observer[n] = "initialized"
      <4>1. Watched(n) /\ HaveCallbacks(n) /\ n \in hasRun
        BY <3>1, <3>4 DEF Watched, HaveCallbacks
      <4>2. n \in S
        BY <4>1, <2>5
      <4>3. version'[n] = target /\ version[n] <= target /\ seen[n] <= version[n]
        BY <4>1, <4>2, <2>2, <2>5, <3>1, <3>4
      <4>4. seen[n] <= target
        BY <4>3, Numbers
      <4>5. Between(changed, seen[n], target)
              = Between(changed, seen[n], version[n]) \cup Between(changed, version[n], target)
        <5>1. seen[n] \in Nat /\ version[n] \in Nat /\ target \in Nat /\ changed \subseteq Nat
          BY Numbers
        <5>2. \A v \in changed : v \in Nat
          BY <5>1
        <5>3. ASSUME NEW v \in changed
              PROVE  seen[n] < v /\ v <= target
                       <=> (seen[n] < v /\ v <= version[n]) \/ (version[n] < v /\ v <= target)
          <6>1. v \in Nat /\ seen[n] \in Nat /\ version[n] \in Nat /\ target \in Nat
            BY <5>1, <5>2
          <6>2. seen[n] <= version[n] /\ version[n] <= target
            BY <4>3
          <6> QED BY <6>1, <6>2
        <5> QED BY <5>3 DEF Between
      <4>6. accumulated'[n] = accumulated[n] \cup Between(changed, version[n], target)
        BY <4>1, <4>2, <2>2, <2>5
      <4>7. accumulated'[n] \cup toDeliver[n] = Between(changed, seen[n], target)
        BY <4>5, <4>6, <3>1, <3>4
      <4> QED BY <2>2, <2>4, <3>1, <3>4, <4>1, <4>3, <4>4, <4>7
    <3> QED BY <3>2, <3>3, <3>4 DEF HaveCallbacks, IInv, TypeOK
  <2>13. Writes'
    <3> SUFFICES ASSUME NEW n \in Notifier, HaveCallbacks(n)' PROVE Writes!(n)'
      BY DEF Writes
    <3>1. HaveCallbacks(n) /\ Watched(n) /\ Writes!(n)
      BY <2>4 DEF IInv, Writes, Watched
    <3> QED BY <2>2, <2>6, <3>1
  <2> QED BY <2>7, <2>8, <2>9, <2>10, <2>11, <2>12, <2>13 DEF IInv
<1> QED BY <1>1, <1>2, <1>3, <1>4 DEF Worker

-----------------------------------------------------------------------------
(* What follows from it *)

\* The invariant holds in every state.
THEOREM Invariance == Spec => []IInv
<1>1. Init => IInv
  <2> SUFFICES ASSUME Init PROVE IInv
    OBVIOUS
  <2>1. 1 \in Version /\ 1 \in 1 .. 1 /\ 0 \in 0 .. 1
    BY MaxVersionAssumption DEF Version
  <2>2. TypeOK
    BY <2>1 DEF Init, TypeOK, NoVersion
  <2>3. \A n \in Notifier : ~HaveCallbacks(n) /\ ~Watched(n) /\ observer[n] = "none"
    BY DEF Init, HaveCallbacks, Watched
  <2>4. Lists /\ Passes /\ Versions
    BY <2>3 DEF Init, Lists, Passes, Versions, NoVersion, Handing
  <2>5. Comparisons /\ Deliveries /\ Writes
    BY <2>3 DEF Init, Comparisons, Deliveries, Writes
  <2> QED BY <2>2, <2>4, <2>5 DEF IInv
<1>2. IInv /\ [Next]_vars => IInv'
  <2> SUFFICES ASSUME IInv, [Next]_vars PROVE IInv'
    OBVIOUS
  <2>1. CASE UNCHANGED vars
    <3>1. TypeOK'
      BY <2>1 DEF vars, notifierVars, coordinatorVars, workerVars, mainVars, IInv, TypeOK
    <3>2. Lists' /\ Passes' /\ Versions'
      BY <2>1 DEF vars, notifierVars, coordinatorVars, workerVars, mainVars, IInv, Lists,
                  Passes, Versions, Handing, HaveCallbacks, NotifiersForRealm
    <3>3. Comparisons'
      BY <2>1 DEF vars, notifierVars, coordinatorVars, workerVars, mainVars, IInv,
                  Comparisons, Watched, Handing, HaveCallbacks
    <3>4. Deliveries' /\ Writes'
      BY <2>1 DEF vars, notifierVars, coordinatorVars, workerVars, mainVars, IInv,
                  Deliveries, Writes, Watched, HaveCallbacks
    <3> QED BY <3>1, <3>2, <3>3, <3>4 DEF IInv
  <2>2. CASE Next
    <3>1. CASE \E n \in Notifier : Evaluate(n) \/ Observe(n) \/ RemoveCallback(n) \/ Unregister(n)
      BY <3>1, ResultsKeep
    <3>2. CASE MainContinues
      <4>1. \A n \in package : n \in Notifier
        BY DEF IInv, TypeOK
      <4> QED BY <3>2, <4>1, ResultsKeep, MainThreadKeeps DEF MainContinues
    <3> QED BY <2>2, <3>1, <3>2, MainThreadKeeps, WorkerKeeps DEF Next
  <2> QED BY <2>1, <2>2
<1> QED BY <1>1, <1>2, PTL DEF Spec

\* Every variable has its type; whatever is reported is a commit of the file.
THEOREM TypeCorrect == Spec => []TypeOK
<1>1. IInv => TypeOK
  BY DEF IInv
<1> QED BY <1>1, Invariance, PTL

\* package_and_wait never gives a package up for an observer: what has run was
\* handed over at one version.
THEOREM VersionsAgree == Spec => []HandedOverTogether
<1>1. IInv => HandedOverTogether
  BY DEF IInv, Lists, Versions, HandedOverTogether
<1> QED BY <1>1, Invariance, PTL

\* Objects and rows are compared with what they were at one version.
THEOREM ComparisonsAgree == Spec => []ComparedFromOneVersion
<1>1. IInv => ComparedFromOneVersion
  <2> SUFFICES ASSUME IInv, NEW n \in hasRun, HaveCallbacks(n) PROVE previous[n] = notifierSg
    BY DEF ComparedFromOneVersion
  <2>1. n \in Notifier /\ Watched(n)
    BY DEF IInv, TypeOK, Watched
  <2>2. n \in notifiers /\ n \notin added
    BY <2>1 DEF IInv, Lists
  <2> QED BY <2>1, <2>2 DEF IInv, Comparisons
<1> QED BY <1>1, Invariance, PTL

\* The assertions of run_async_notifiers hold.
THEOREM AssertionsHold == Spec => []WorkerAsserts
<1>1. IInv => WorkerAsserts
  <2> SUFFICES ASSUME IInv PROVE WorkerAsserts
    OBVIOUS
  <2>1. skipVersion # 0 => notifiers # {} /\ skipVersion <= latest
    <3>1. skipVersion <= latest
      BY Numbers
    <3> QED BY <3>1 DEF IInv, Passes
  <2>2. worker = "run skip" => running # {} /\ skipTo <= target
    <3>1. worker = "run skip" => running # {} /\ skipTo = target
      BY DEF IInv, Passes
    <3>2. target <= target
      BY Numbers
    <3> QED BY <3>1, <3>2
  <2>3. ASSUME NEW n \in newNotifiers PROVE advancerSg \in 1 .. version[n]
    <3>1. 1 <= advancerSg /\ advancerSg <= version[n]
      BY DEF IInv, Versions
    <3>2. n \in Notifier
      BY DEF IInv, TypeOK
    <3>3. advancerSg \in Nat /\ version[n] \in Nat
      BY <3>2, Numbers
    <3> QED BY <3>1, <3>3
  <2> QED BY <2>1, <2>2, <2>3 DEF WorkerAsserts, NoVersion
<1> QED BY <1>1, Invariance, PTL

\* No callback is ever told of two commits at once.
THEOREM OneCommitAtATime == Spec => []OneCommitPerCall
<1>1. IInv => OneCommitPerCall
  <2> SUFFICES ASSUME IInv, NEW n \in Notifier
               PROVE  Cardinality(accumulated[n] \cup toDeliver[n]) <= 1
    BY DEF OneCommitPerCall
  <2>1. accumulated[n] \cup toDeliver[n] \subseteq {latest}
    <3>1. CASE observer[n] = "initialized"
      <4>1. Between(changed, seen[n], version[n]) \subseteq Between(changed, seen[n], latest)
        <5>1. seen[n] <= version[n] /\ version[n] <= latest
          BY <3>1, Numbers DEF IInv, Deliveries
        <5>2. seen[n] \in Nat /\ version[n] \in Nat /\ latest \in Nat /\ changed \subseteq Nat
          BY Numbers
        <5>3. Between(changed, seen[n], latest)
                = Between(changed, seen[n], version[n]) \cup Between(changed, version[n], latest)
          BY <5>1, <5>2, BetweenFacts
        <5> QED BY <5>3
      <4> QED BY <3>1, <4>1 DEF IInv, Deliveries
    <3>2. CASE observer[n] # "initialized"
      <4>1. accumulated[n] = {} /\ toDeliver[n] = {}
        BY <3>2 DEF IInv, Deliveries, Watched
      <4> QED BY <4>1
    <3> QED BY <3>1, <3>2
  <2>2. accumulated[n] \cup toDeliver[n] \in {{}, {latest}}
    BY <2>1
  <2>3. Cardinality({}) = 0 /\ Cardinality({latest}) = 1
    BY FS_EmptySet, FS_Singleton
  <2> QED BY <2>2, <2>3
<1> QED BY <1>1, Invariance, PTL

\* A callback is told of a commit at the version the commit made.
THEOREM DeliveriesAreCurrent == Spec => []DeliveredInItsVersion
<1>1. IInv => DeliveredInItsVersion
  <2> SUFFICES ASSUME IInv, NEW n \in Notifier, toDeliver[n] # {}
               PROVE  toDeliver[n] = Commits(seen[n], latest)
    BY DEF DeliveredInItsVersion
  <2>1. HaveCallbacks(n) /\ observer[n] = "initialized"
    BY DEF IInv, Deliveries, Watched
  <2>2. main \in {"before write", "notify"} /\ n \in package
    BY <2>1 DEF IInv, Deliveries
  <2>3. accumulated[n] = {} /\ version[n] = latest
    BY <2>1, <2>2 DEF IInv, Writes
  <2>4. accumulated[n] \cup toDeliver[n] = Between(changed, seen[n], version[n])
    BY <2>1 DEF IInv, Deliveries
  <2> QED BY <2>3, <2>4 DEF Between, Commits
<1> QED BY <1>1, Invariance, PTL

\* The worker's read transaction is never moved back.
THEOREM WorkerAdvances == Spec => WorkerOnlyAdvances
<1>1. IInv /\ [Next]_vars =>
        (notifierSg # NoVersion /\ notifierSg' # NoVersion => notifierSg' >= notifierSg)
  <2> SUFFICES ASSUME IInv, [Next]_vars
               PROVE  notifierSg' = 0 \/ notifierSg' >= notifierSg
    BY DEF NoVersion
  <2>1. notifierSg \in Nat /\ latest \in Nat /\ notifierSg <= latest /\ target \in Nat
    BY Numbers
  <2>2. notifierSg' \in {0, notifierSg, latest} \/ RunSkip \/ RunAll
    BY DEF Next, vars, MainContinues, Worker, Evaluate, Observe, Register, AddCallback,
           RemoveCallback, Unregister, Begin, WaitForNotifiers, PackageAndWait,
           PackageForDelivery, Notify, AfterAdvance, NothingToDeliver, CommitWrite,
           WakeForNothing, Wake, HandOverSkip, HandOver, CleanUp, NoVersion, coordinatorVars
  <2>3. ASSUME RunSkip \/ RunAll PROVE notifierSg' = target /\ notifierSg <= target
    <3>1. CASE RunSkip
      BY <3>1 DEF RunSkip, Run, IInv, Passes
    <3>2. CASE RunAll
      BY <3>2 DEF RunAll, Run, IInv, Passes
    <3> QED BY <2>3, <3>1, <3>2
  <2> QED BY <2>1, <2>2, <2>3
<1> QED BY <1>1, Invariance, PTL DEF Spec, WorkerOnlyAdvances

\* Every step is one the promise to the observers allows: told first how the
\* collection is, then of each commit once, before the next.
THEOREM NothingLostOrRepeated == Spec => Promise!Init /\ [][Promise!Next]_(Promise!vars)
<1>1. Init => Promise!Init
  BY DEF Init, Promise!Init
<1>2. IInv /\ [Next]_vars => [Promise!Next]_(Promise!vars)
  <2> SUFFICES ASSUME IInv, [Next]_vars PROVE [Promise!Next]_(Promise!vars)
    OBVIOUS
  <2>1. \/ UNCHANGED <<latest, changed, observer, seen, told>>
        \/ \E n \in Notifier : AddCallback(n) \/ RemoveCallback(n) \/ AfterAdvance(n)
        \/ CommitWrite
    BY DEF Next, vars, MainContinues, Worker, Evaluate, Observe, Register, Unregister, Begin,
           WaitForNotifiers, PackageAndWait, PackageForDelivery, Notify, NothingToDeliver,
           WakeForNothing, Wake, RunSkip, RunAll, Run, HandOverSkip, HandOver, PrepareHandover,
           notifierVars
  <2>2. ASSUME NEW n \in Notifier, AddCallback(n) PROVE Promise!Observe(n)
    BY <2>2 DEF AddCallback, Promise!Observe, IInv, Lists, HaveCallbacks
  <2>3. ASSUME NEW n \in Notifier, RemoveCallback(n) PROVE Promise!Close(n)
    BY <2>3 DEF RemoveCallback, Promise!Close, HaveCallbacks
  <2>4. ASSUME NEW n \in Notifier, AfterAdvance(n)
        PROVE  Promise!Tell(n) \/ UNCHANGED <<latest, changed, observer, seen, told>>
    <3>1. CASE observer[n] = "none" \/ (observer[n] = "initialized" /\ toDeliver[n] = {})
      BY <2>4, <3>1 DEF AfterAdvance, Call
    <3>2. CASE observer[n] # "none" /\ observer[n] # "initialized"
      BY <2>4, <3>2 DEF AfterAdvance, Call, Promise!Tell, Promise!UpToDate, IInv, TypeOK
    <3>3. CASE observer[n] = "initialized" /\ toDeliver[n] # {}
      <4>1. toDeliver[n] = Promise!Unseen(n)
        <5>1. HaveCallbacks(n) /\ main \in {"before write", "notify"} /\ n \in package
          BY <2>4, <3>3 DEF HaveCallbacks, AfterAdvance
        <5>2. accumulated[n] = {} /\ version[n] = latest
          BY <5>1 DEF IInv, Writes
        <5>3. accumulated[n] \cup toDeliver[n] = Between(changed, seen[n], version[n])
          BY <3>3 DEF IInv, Deliveries
        <5> QED BY <5>2, <5>3 DEF Between, Promise!Unseen, Promise!Commits
      <4> QED BY <2>4, <3>3, <4>1 DEF AfterAdvance, Call, Promise!Tell, Promise!UpToDate
    <3> QED BY <3>1, <3>2, <3>3
  <2>5. ASSUME CommitWrite PROVE Promise!Commit
    <3>1. latest < MaxVersion
      BY <2>5 DEF CommitWrite, IInv, Passes
    <3>2. ASSUME NEW n \in Notifier PROVE Promise!UpToDate(n)
      <4>1. CASE HaveCallbacks(n)
        <5>1. observer[n] = "initialized" /\ accumulated[n] = {} /\ version[n] = latest
          BY <2>5, <4>1 DEF CommitWrite, IInv, Writes
        <5>2. toDeliver[n] = {}
          BY <2>5, <5>1 DEF CommitWrite, IInv, Deliveries
        <5>3. Between(changed, seen[n], latest) = {}
          BY <5>1, <5>2 DEF IInv, Deliveries
        <5> QED BY <5>1, <5>3 DEF Between, Promise!UpToDate, Promise!Unseen, Promise!Commits
      <4>2. CASE ~HaveCallbacks(n)
        BY <4>2 DEF HaveCallbacks, Promise!UpToDate
      <4> QED BY <4>1, <4>2
    <3> QED BY <2>5, <3>1, <3>2 DEF CommitWrite, Promise!Commit, notifierVars
  <2> QED BY <2>1, <2>2, <2>3, <2>4, <2>5 DEF Promise!Next, Promise!vars
<1> QED BY <1>1, <1>2, Invariance, PTL DEF Spec
=============================================================================
