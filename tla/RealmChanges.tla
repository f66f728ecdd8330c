---------------------------- MODULE RealmChanges ----------------------------
(***************************************************************************)
(* What MyFriendsViewController relies on from Realm's live Results and    *)
(* their notifications (a vendored pod, modelled from its use).  A Results *)
(* is the set of stored objects in the order of a key; a notification      *)
(* gives the positions that changed since the one before.                  *)
(***************************************************************************)
EXTENDS Naturals, FiniteSets

\* What is stored of objects with a primary key, and a write that adds new
\* values with update: .all: an object already there takes the new value.
Upsert(version, values) ==
  [f \in DOMAIN version \cup DOMAIN values |->
     IF f \in DOMAIN values THEN values[f] ELSE version[f]]

\* The row of object f in collection S ordered by key.
Position(key, f, S) == Cardinality({g \in S : key[g] < key[f]})

Positions(key, F, S) == {Position(key, f, S) : f \in F}

\* The `.update` notification between the collections old and new, the objects
\* of touched having been written again: deletions and modifications are
\* positions in the old collection, insertions in the new one.
Changes(key, old, new, touched) ==
  [deletions  |-> Positions(key, old \ new, old),
   insertions |-> Positions(key, new \ old, new),
   reloads    |-> Positions(key, touched \cap old \cap new, old)]
=============================================================================
