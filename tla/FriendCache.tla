---------------------------- MODULE FriendCache ----------------------------
(***************************************************************************)
(* What the friends screen promises about the durable list of friends: it  *)
(* only ever changes by being emptied as a refresh asks for a new list, or *)
(* by taking in the whole answer of a request that is still wanted, each   *)
(* request at most once; the end of the process drops the requests and     *)
(* leaves the list as it is.                                               *)
(***************************************************************************)
EXTENDS RealmChanges

CONSTANTS Friend, Name, Kind

VARIABLES
  cache,   \* the friends kept in the file, with their names
  alive,   \* a process is running
  wanted   \* requests whose answer would still be taken in

vars == <<cache, alive, wanted>>

\* Lists of friends by identifier.
EmptyList == [f \in {} |-> f]
List == UNION {[F -> Name] : F \in SUBSET Friend}

Init == cache = EmptyList /\ alive = TRUE /\ wanted = {"initial"}

\* A refresh: the list is emptied (or could not be) and a new one is wanted.
Ask ==
  /\ alive /\ "refresh" \notin wanted
  /\ wanted' = wanted \cup {"refresh"}
  /\ cache' \in {cache, EmptyList}
  /\ UNCHANGED alive

\* The answer of a wanted request is taken in, whole or not at all.
Merge(kind, friends) ==
  /\ alive /\ kind \in wanted
  /\ wanted' = wanted \ {kind}
  /\ cache' \in {cache, Upsert(cache, friends)}
  /\ UNCHANGED alive

GiveUp(kind) ==
  /\ alive /\ kind \in wanted
  /\ wanted' = wanted \ {kind}
  /\ UNCHANGED <<cache, alive>>

Die == alive /\ alive' = FALSE /\ wanted' = {} /\ UNCHANGED cache

Restart == ~alive /\ alive' = TRUE /\ wanted' = {"initial"} /\ UNCHANGED cache

Next ==
  \/ Ask
  \/ \E kind \in Kind, friends \in List : Merge(kind, friends)
  \/ \E kind \in Kind : GiveUp(kind)
  \/ Die
  \/ Restart

Spec == Init /\ [][Next]_vars
=============================================================================
