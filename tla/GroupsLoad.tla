----------------------------- MODULE GroupsLoad -----------------------------
(***************************************************************************)
(* The load of the groups screen: GroupsNetworkManager.loadData on the     *)
(* main thread, the two blocks it puts on a global queue, the completions  *)
(* of the two requests on other global threads, and the notify block that  *)
(* reports on the main queue.  They meet in one DispatchGroup, a counter   *)
(* whose fall to zero queues the notify block.  MyGroupsViewController     *)
(* loads once, in viewDidLoad, and lives as long as the process.           *)
(***************************************************************************)
EXTENDS Naturals

VARIABLES
  main,     \* what loadData does next
  block,    \* the dispatched block of each request
  request,  \* each request, from its sending to its stored answer
  stored,   \* the properties groups and invitations are not nil
  count,    \* the DispatchGroup's counter
  notify,   \* the notify block
  hud,      \* the progress HUD is up
  result,   \* what the caller was told
  rows      \* the rows of section groups: none, or those of the answer

vars == <<main, block, request, stored, count, notify, hud, result, rows>>

Part == {"groups", "invitations"}
Errors == {"loadGroupsError", "loadInvitationsError"}

TypeOK ==
  /\ main \in {"show", "groups", "invitations", "notify", "returned"}
  /\ block \in [Part -> {"none", "queued", "entered", "sent", "ended"}]
  /\ request \in [Part -> {"none", "inflight", "failed", "arrived", "left", "kept"}]
  /\ stored \in [Part -> BOOLEAN]
  /\ count \in Nat
  /\ notify \in {"none", "registered", "queued", "readGroups", "done"}
  /\ hud \in BOOLEAN
  /\ result \in {"none", "sucsess"} \cup Errors
  /\ rows \in {"none", "answer"}

Init ==
  /\ main = "show"
  /\ block = [p \in Part |-> "none"]
  /\ request = [p \in Part |-> "none"]
  /\ stored = [p \in Part |-> FALSE]
  /\ count = 0
  /\ notify = "none"
  /\ hud = FALSE
  /\ result = "none"
  /\ rows = "none"
-----------------------------------------------------------------------------
(***************************************************************************)
(* DispatchGroup (a library): async(group:) and enter() add one, the end   *)
(* of a block and leave() take one; at zero a registered block is queued.  *)
(***************************************************************************)
Enter == count' = count + 1 /\ UNCHANGED notify

Leave ==
  /\ count' = count - 1
  /\ notify' = IF count = 1 /\ notify = "registered" THEN "queued" ELSE notify

\* A slip: the block is queued without waiting for the group.
RegisterNow == notify' = "queued" /\ UNCHANGED count

Register ==
  /\ notify' = IF count = 0 THEN "queued" ELSE "registered"
  /\ UNCHANGED count
-----------------------------------------------------------------------------
\* loadData on the main thread: the HUD, a block for each request, notify.
ShowHud ==
  /\ main = "show" /\ main' = "groups"
  /\ hud' = TRUE
  /\ UNCHANGED <<block, request, stored, count, notify, result, rows>>

Dispatch(p) ==
  /\ main = p
  /\ main' = IF p = "groups" THEN "invitations" ELSE "notify"
  /\ block' = [block EXCEPT ![p] = "queued"]
  /\ Enter
  /\ UNCHANGED <<request, stored, hud, result, rows>>

RegisterNotify ==
  /\ main = "notify" /\ main' = "returned"
  /\ Register
  /\ UNCHANGED <<block, request, stored, hud, result, rows>>

\* A slip: the block relies on async(group:) alone.
BlockSkipsEnter(p) ==
  /\ block[p] = "queued"
  /\ block' = [block EXCEPT ![p] = "entered"]
  /\ UNCHANGED <<main, request, stored, count, notify, hud, result, rows>>

\* A block enters the group again, sends its request and ends.
BlockEnter(p) ==
  /\ block[p] = "queued"
  /\ block' = [block EXCEPT ![p] = "entered"]
  /\ Enter
  /\ UNCHANGED <<main, request, stored, hud, result, rows>>

BlockSend(p) ==
  /\ block[p] = "entered"
  /\ block' = [block EXCEPT ![p] = "sent"]
  /\ request' = [request EXCEPT ![p] = "inflight"]
  /\ UNCHANGED <<main, stored, count, notify, hud, result, rows>>

BlockEnd(p) ==
  /\ block[p] = "sent"
  /\ block' = [block EXCEPT ![p] = "ended"]
  /\ Leave
  /\ UNCHANGED <<main, request, stored, hud, result, rows>>

\* NetworkService: an answer calls the completion, a failure is only printed.
Answer(p) ==
  /\ request[p] = "inflight"
  /\ request' = [request EXCEPT ![p] = "arrived"]
  /\ UNCHANGED <<main, block, stored, count, notify, hud, result, rows>>

\* A slip: a failure leaves the group as an answer does.
FailLeaves(p) ==
  /\ request[p] = "inflight"
  /\ request' = [request EXCEPT ![p] = "failed"]
  /\ Leave
  /\ UNCHANGED <<main, block, stored, hud, result, rows>>

Fail(p) ==
  /\ request[p] = "inflight"
  /\ request' = [request EXCEPT ![p] = "failed"]
  /\ UNCHANGED <<main, block, stored, count, notify, hud, result, rows>>

\* A slip: the completion does not leave the group.
CompletionStays(p) ==
  /\ request[p] = "arrived"
  /\ request' = [request EXCEPT ![p] = "left"]
  /\ UNCHANGED <<main, block, stored, count, notify, hud, result, rows>>

\* The completion leaves the group first and keeps the answer after.
CompletionLeave(p) ==
  /\ request[p] = "arrived"
  /\ request' = [request EXCEPT ![p] = "left"]
  /\ Leave
  /\ UNCHANGED <<main, block, stored, hud, result, rows>>

\* A slip: both completions keep their answer in the same property.
CompletionKeepsGroups(p) ==
  /\ request[p] = "left"
  /\ request' = [request EXCEPT ![p] = "kept"]
  /\ stored' = [stored EXCEPT !["groups"] = TRUE]
  /\ UNCHANGED <<main, block, count, notify, hud, result, rows>>

CompletionKeep(p) ==
  /\ request[p] = "left"
  /\ request' = [request EXCEPT ![p] = "kept"]
  /\ stored' = [stored EXCEPT ![p] = TRUE]
  /\ UNCHANGED <<main, block, count, notify, hud, result, rows>>

\* The notify block reads the two properties one after the other, while a
\* completion may still be about to write them.  The read of an optional that
\* is being set gives nil or the value: the discriminating word is one word.
NotifyGroups ==
  /\ notify = "queued"
  /\ hud' = FALSE
  /\ IF stored["groups"]
     THEN notify' = "readGroups" /\ UNCHANGED result
     ELSE notify' = "done" /\ result' = "loadGroupsError"
  /\ UNCHANGED <<main, block, request, stored, count, rows>>

\* A slip: the second guard is missing.
NotifyUnguarded ==
  /\ notify = "readGroups"
  /\ notify' = "done"
  /\ result' = "sucsess" /\ rows' = "answer"
  /\ UNCHANGED <<main, block, request, stored, count, hud>>

\* On success GroupsViewModel sets up its cells and reloads the table.
NotifyInvitations ==
  /\ notify = "readGroups"
  /\ notify' = "done"
  /\ IF stored["invitations"]
     THEN result' = "sucsess" /\ rows' = "answer"
     ELSE result' = "loadInvitationsError" /\ UNCHANGED rows
  /\ UNCHANGED <<main, block, request, stored, count, hud>>
-----------------------------------------------------------------------------
\* The main thread, the block of a request and its completion.
Main == ShowHud \/ (\E p \in Part : Dispatch(p)) \/ RegisterNotify
          \/ NotifyGroups \/ NotifyInvitations
Block(p) == BlockEnter(p) \/ BlockSend(p) \/ BlockEnd(p)
Network(p) == Answer(p) \/ Fail(p)
Completion(p) == CompletionLeave(p) \/ CompletionKeep(p)

Next == Main \/ \E p \in Part : Block(p) \/ Network(p) \/ Completion(p)

\* Threads run on and requests settle: a request has a timeout.
Fairness ==
  /\ WF_vars(Main)
  /\ \A p \in Part : WF_vars(Block(p)) /\ WF_vars(Network(p)) /\ WF_vars(Completion(p))

Spec == Init /\ [][Next]_vars /\ Fairness
-----------------------------------------------------------------------------
(***************************************************************************)
(* What must be true.                                                      *)
(***************************************************************************)
Answered(p) == request[p] \in {"left", "kept"}

\* What a request owes the group: async(group:)'s entry until its block ends,
\* and the block's own entry until a completion takes it back.
Owed(p) ==
  (IF block[p] \in {"queued", "entered", "sent"} THEN 1 ELSE 0)
    + (IF block[p] \in {"entered", "sent", "ended"} /\ ~Answered(p) THEN 1 ELSE 0)

\* The group counts the running blocks and the unanswered requests, in every
\* order in which blocks, answers and loadData itself may run: a leave() is
\* never one too many, which libdispatch would trap.
CountIsObligations == count = Owed("groups") + Owed("invitations")

\* The notify block is queued only when both requests were answered, even when
\* a block and its answer finish before loadData dispatches the other, and it
\* reports a success only of two answers that were kept.
NotifyAfterBoth ==
  /\ notify \in {"queued", "readGroups", "done"} => \A p \in Part : Answered(p)
  /\ result = "sucsess" => rows = "answer" /\ \A p \in Part : stored[p]

\* A failed request is never reported: the group is never left, the notify
\* block never runs and the HUD stays over the screen.
FailureIsNeverReported ==
  (\E p \in Part : request[p] = "failed") =>
    result = "none" /\ (main # "show" => hud)

\* loadGroupsError and loadInvitationsError never mean that a load failed:
\* they are reported only for a request that was answered, by a completion
\* that has left the group and not yet kept the answer.
Blamed == [e \in Errors |-> IF e = "loadGroupsError" THEN "groups" ELSE "invitations"]
ErrorsOnlyInWindow ==
  [][\A e \in Errors : result # e /\ result' = e => request[Blamed[e]] = "left"]_vars

\* loadData and its completions are a GroupsReport.
OutcomeOf(p) ==
  IF Answered(p) THEN "answered"
  ELSE IF request[p] = "failed" THEN "failed" ELSE "pending"
Promise == INSTANCE GroupsReport
             WITH Report <- {"sucsess"} \cup Errors,
                  outcome <- [p \in Part |-> OutcomeOf(p)],
                  busy <- hud \/ notify = "readGroups",
                  reports <- {result} \ {"none"}
ReportSpec == Promise!Spec

\* When both requests are answered the caller gets its report.
AnsweredLoadIsReported ==
  (\A p \in Part : request[p] \in {"arrived", "left", "kept"}) ~> result # "none"
=============================================================================
