---------------------------- MODULE GroupsReport ----------------------------
(***************************************************************************)
(* What GroupsNetworkManager.loadData delivers to its caller: at most one  *)
(* report, only when every request of the load has been answered, with the *)
(* progress HUD up from the start of the load until the report is made.    *)
(* A failed request leaves the caller without a report.                    *)
(***************************************************************************)
CONSTANTS
  Part,    \* the requests of a load
  Report   \* what can be reported

VARIABLES
  outcome,  \* of each request: "pending", "answered" or "failed"
  busy,     \* the HUD is up
  reports   \* the reports made, a set of at most one

vars == <<outcome, busy, reports>>

Init ==
  /\ outcome = [p \in Part |-> "pending"]
  /\ busy = FALSE
  /\ reports = {}

Begin == ~busy /\ busy' = TRUE /\ reports = {} /\ UNCHANGED <<outcome, reports>>

Settle(p, how) ==
  /\ busy /\ outcome[p] = "pending"
  /\ outcome' = [outcome EXCEPT ![p] = how]
  /\ UNCHANGED <<busy, reports>>

Conclude ==
  /\ busy /\ \A p \in Part : outcome[p] = "answered"
  /\ busy' = FALSE
  /\ \E r \in Report : reports' = {r}
  /\ UNCHANGED outcome

Next ==
  \/ Begin
  \/ \E p \in Part, how \in {"answered", "failed"} : Settle(p, how)
  \/ Conclude

Spec == Init /\ [][Next]_vars
=============================================================================
