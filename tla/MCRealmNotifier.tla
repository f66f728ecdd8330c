--------------------------- MODULE MCRealmNotifier ---------------------------
(***************************************************************************)
(* The notifiers are alike: without liveness their names may be swapped.   *)
(***************************************************************************)
EXTENDS RealmNotifier, TLC

NotifierSymmetry == Permutations(Notifier)
=============================================================================
