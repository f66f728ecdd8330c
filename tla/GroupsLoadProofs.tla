-------------------------- MODULE GroupsLoadProofs --------------------------
(***************************************************************************)
(* The load of the groups screen, in every order its threads can take: the *)
(* DispatchGroup counts what is owed, and what the caller is told is a     *)
(* GroupsReport.                                                           *)
(***************************************************************************)
EXTENDS GroupsLoad, TLAPS

\* A block waits from loadData's turn at it on, a request from the block's.
Turns ==
  /\ block["groups"] = "none" <=> main \in {"show", "groups"}
  /\ block["invitations"] = "none" <=> main \in {"show", "groups", "invitations"}
  /\ \A p \in Part : request[p] = "none" <=> block[p] \in {"none", "queued", "entered"}
  /\ notify = "none" <=> main # "returned"

\* Once the notify block is queued nothing is owed, nor will be again.
Quiet ==
  notify \in {"queued", "readGroups", "done"} =>
    \A p \in Part : block[p] = "ended" /\ Answered(p)

\* A success reports two answers that were kept.
SuccessHasBoth ==
  result = "sucsess" => rows = "answer" /\ \A p \in Part : stored[p]

\* What has been kept, and what was read of it, is what the answers gave.
Reports ==
  /\ \A p \in Part : stored[p] <=> request[p] = "kept"
  /\ result = "none" <=> notify # "done"
  /\ hud <=> main # "show" /\ notify \in {"none", "registered", "queued"}
  /\ notify = "readGroups" => stored["groups"]
  /\ SuccessHasBoth

\* The variables but the counter, whose type is what CountIsObligations says.
Types ==
  /\ main \in {"show", "groups", "invitations", "notify", "returned"}
  /\ block \in [Part -> {"none", "queued", "entered", "sent", "ended"}]
  /\ request \in [Part -> {"none", "inflight", "failed", "arrived", "left", "kept"}]
  /\ stored \in [Part -> BOOLEAN]
  /\ notify \in {"none", "registered", "queued", "readGroups", "done"}
  /\ hud \in BOOLEAN
  /\ result \in {"none", "sucsess"} \cup Errors
  /\ rows \in {"none", "answer"}

IInv == Types /\ Turns /\ Quiet /\ Reports /\ CountIsObligations
-----------------------------------------------------------------------------
\* The counter is at zero after loadData has returned only when nothing is
\* owed: both blocks have ended and both requests were answered.
LEMMA NothingOwed ==
  Types /\ Turns /\ CountIsObligations /\ main = "returned" /\ count = 0 =>
    \A p \in Part : block[p] = "ended" /\ Answered(p)
<1> SUFFICES ASSUME Types, Turns, CountIsObligations, main = "returned", count = 0,
                    NEW p \in Part
             PROVE  block[p] = "ended" /\ Answered(p)
  OBVIOUS
<1>1. \A q \in Part : Owed(q) \in {0, 1, 2}
  BY DEF Owed
<1>2. Owed("groups") \in {0, 1, 2} /\ Owed("invitations") \in {0, 1, 2}
  BY <1>1 DEF Part
<1>3. Owed("groups") = 0 /\ Owed("invitations") = 0
  BY <1>2 DEF CountIsObligations
<1>4. Owed(p) = 0
  BY <1>3 DEF Part
<1>5. block[p] \in {"queued", "entered", "sent", "ended"}
  BY DEF Types, Turns, Part
<1>6. ~ block[p] \in {"queued", "entered", "sent"}
  BY <1>4 DEF Owed
<1>7. block[p] = "ended"
  BY <1>5, <1>6
<1>8. Answered(p)
  BY <1>4, <1>7 DEF Owed
<1> QED BY <1>7, <1>8

\* The invariant holds in every state.
THEOREM Invariance == Spec => []IInv
<1>1. Init => IInv
  <2> SUFFICES ASSUME Init PROVE IInv
    OBVIOUS
  <2>1. Types
    BY DEF Init, Types
  <2>2. Turns /\ Quiet /\ Reports
    BY DEF Init, Turns, Quiet, Reports, SuccessHasBoth, Part
  <2>3. CountIsObligations
    BY DEF Init, CountIsObligations, Owed, Part
  <2> QED BY <2>1, <2>2, <2>3 DEF IInv
<1>2. IInv /\ [Next]_vars => IInv'
  <2> SUFFICES ASSUME IInv, [Next]_vars PROVE IInv'
    OBVIOUS
  <2>t. Types /\ Turns /\ Quiet /\ Reports /\ CountIsObligations
    BY DEF IInv
  <2>n. (Types /\ Turns /\ CountIsObligations /\ main = "returned" /\ count = 0 =>
           \A p \in Part : block[p] = "ended" /\ Answered(p))'
    BY NothingOwed, PTL
  <2>1. CASE ShowHud
    <3>1. Types'
      BY <2>t, <2>1 DEF ShowHud, Types
    <3>2. Turns'
      BY <2>t, <2>1 DEF ShowHud, Types, Turns, Part
    <3>3. Reports'
      BY <2>t, <2>1 DEF ShowHud, Types, Turns, Quiet, Reports, SuccessHasBoth, Answered, Part
    <3>4. CountIsObligations'
      BY <2>t, <2>1 DEF ShowHud, Types, Turns, CountIsObligations, Owed, Answered, Part
    <3>5. Quiet'
      BY <2>t, <2>1 DEF ShowHud, Types, Turns, Quiet, Answered, Part
    <3> QED BY <3>1, <3>2, <3>3, <3>4, <3>5 DEF IInv
  <2>2. ASSUME NEW p \in Part, Dispatch(p) PROVE IInv'
    <3>1. Types'
      BY <2>t, <2>2 DEF Dispatch, Enter, Types
    <3>2. Turns'
      BY <2>t, <2>2 DEF Dispatch, Enter, Types, Turns, Part
    <3>3. Reports'
      BY <2>t, <2>2 DEF Dispatch, Enter, Types, Turns, Quiet, Reports, SuccessHasBoth, Answered, Part
    <3>4. CountIsObligations'
      BY <2>t, <2>2 DEF Dispatch, Enter, Types, Turns, CountIsObligations, Owed, Answered, Part
    <3>5. Quiet'
      BY <2>t, <2>2 DEF Dispatch, Enter, Types, Turns, Quiet, Answered, Part
    <3> QED BY <3>1, <3>2, <3>3, <3>4, <3>5 DEF IInv
  <2>3. CASE RegisterNotify
    <3>1. Types'
      BY <2>t, <2>3 DEF RegisterNotify, Register, Types
    <3>2. Turns'
      BY <2>t, <2>3 DEF RegisterNotify, Register, Types, Turns, Part
    <3>3. Reports'
      BY <2>t, <2>3 DEF RegisterNotify, Register, Types, Turns, Quiet, Reports, SuccessHasBoth, Answered, Part
    <3>4. CountIsObligations'
      BY <2>t, <2>3 DEF RegisterNotify, Register, Types, Turns, CountIsObligations, Owed, Answered, Part
    <3>5. Quiet'
      BY <2>t, <2>3, <2>n, <3>1, <3>2, <3>4
         DEF RegisterNotify, Register, Types, Turns, Quiet, CountIsObligations, Answered
    <3> QED BY <3>1, <3>2, <3>3, <3>4, <3>5 DEF IInv
  <2>4. CASE NotifyGroups
    <3>1. Types'
      BY <2>t, <2>4 DEF NotifyGroups, Errors, Types
    <3>2. Turns'
      BY <2>t, <2>4 DEF NotifyGroups, Errors, Types, Turns, Part
    <3>3. Reports'
      BY <2>t, <2>4 DEF NotifyGroups, Errors, Types, Turns, Quiet, Reports, SuccessHasBoth, Answered, Part
    <3>4. CountIsObligations'
      BY <2>t, <2>4 DEF NotifyGroups, Errors, Types, Turns, CountIsObligations, Owed, Answered, Part
    <3>5. Quiet'
      BY <2>t, <2>4 DEF NotifyGroups, Errors, Types, Turns, Quiet, Answered, Part
    <3> QED BY <3>1, <3>2, <3>3, <3>4, <3>5 DEF IInv
  <2>5. CASE NotifyInvitations
    <3>1. Types'
      BY <2>t, <2>5 DEF NotifyInvitations, Errors, Types
    <3>2. Turns'
      BY <2>t, <2>5 DEF NotifyInvitations, Errors, Types, Turns, Part
    <3>3. Reports'
      BY <2>t, <2>5 DEF NotifyInvitations, Errors, Types, Turns, Quiet, Reports, SuccessHasBoth, Answered, Part
    <3>4. CountIsObligations'
      BY <2>t, <2>5 DEF NotifyInvitations, Errors, Types, Turns, CountIsObligations, Owed, Answered, Part
    <3>5. Quiet'
      BY <2>t, <2>5 DEF NotifyInvitations, Errors, Types, Turns, Quiet, Answered, Part
    <3> QED BY <3>1, <3>2, <3>3, <3>4, <3>5 DEF IInv
  <2>6. ASSUME NEW p \in Part, BlockEnter(p) PROVE IInv'
    <3>1. Types'
      BY <2>t, <2>6 DEF BlockEnter, Enter, Types
    <3>2. Turns'
      BY <2>t, <2>6 DEF BlockEnter, Enter, Types, Turns, Part
    <3>3. Reports'
      BY <2>t, <2>6 DEF BlockEnter, Enter, Types, Turns, Quiet, Reports, SuccessHasBoth, Answered, Part
    <3>4. CountIsObligations'
      BY <2>t, <2>6 DEF BlockEnter, Enter, Types, Turns, CountIsObligations, Owed, Answered, Part
    <3>5. Quiet'
      BY <2>t, <2>6 DEF BlockEnter, Enter, Types, Turns, Quiet, Answered, Part
    <3> QED BY <3>1, <3>2, <3>3, <3>4, <3>5 DEF IInv
  <2>7. ASSUME NEW p \in Part, BlockSend(p) PROVE IInv'
    <3>1. Types'
      BY <2>t, <2>7 DEF BlockSend, Types
    <3>2. Turns'
      BY <2>t, <2>7 DEF BlockSend, Types, Turns, Part
    <3>3. Reports'
      BY <2>t, <2>7 DEF BlockSend, Types, Turns, Quiet, Reports, SuccessHasBoth, Answered, Part
    <3>4. CountIsObligations'
      BY <2>t, <2>7 DEF BlockSend, Types, Turns, CountIsObligations, Owed, Answered, Part
    <3>5. Quiet'
      BY <2>t, <2>7 DEF BlockSend, Types, Turns, Quiet, Answered, Part
    <3> QED BY <3>1, <3>2, <3>3, <3>4, <3>5 DEF IInv
  <2>8. ASSUME NEW p \in Part, BlockEnd(p) PROVE IInv'
    <3>1. Types'
      BY <2>t, <2>8 DEF BlockEnd, Leave, Types
    <3>2. Turns'
      BY <2>t, <2>8 DEF BlockEnd, Leave, Types, Turns, Part
    <3>3. Reports'
      BY <2>t, <2>8 DEF BlockEnd, Leave, Types, Turns, Quiet, Reports, SuccessHasBoth, Answered, Part
    <3>4. CountIsObligations'
      BY <2>t, <2>8 DEF BlockEnd, Leave, Types, Turns, CountIsObligations, Owed, Answered, Part
    <3>5. Quiet'
      BY <2>t, <2>8, <2>n, <3>1, <3>2, <3>4
         DEF BlockEnd, Leave, Types, Turns, Quiet, CountIsObligations, Answered
    <3> QED BY <3>1, <3>2, <3>3, <3>4, <3>5 DEF IInv
  <2>9. ASSUME NEW p \in Part, Answer(p) PROVE IInv'
    <3>1. Types'
      BY <2>t, <2>9 DEF Answer, Types
    <3>2. Turns'
      BY <2>t, <2>9 DEF Answer, Types, Turns, Part
    <3>3. Reports'
      BY <2>t, <2>9 DEF Answer, Types, Turns, Quiet, Reports, SuccessHasBoth, Answered, Part
    <3>4. CountIsObligations'
      BY <2>t, <2>9 DEF Answer, Types, Turns, CountIsObligations, Owed, Answered, Part
    <3>5. Quiet'
      BY <2>t, <2>9 DEF Answer, Types, Turns, Quiet, Answered, Part
    <3> QED BY <3>1, <3>2, <3>3, <3>4, <3>5 DEF IInv
  <2>10. ASSUME NEW p \in Part, Fail(p) PROVE IInv'
    <3>1. Types'
      BY <2>t, <2>10 DEF Fail, Types
    <3>2. Turns'
      BY <2>t, <2>10 DEF Fail, Types, Turns, Part
    <3>3. Reports'
      BY <2>t, <2>10 DEF Fail, Types, Turns, Quiet, Reports, SuccessHasBoth, Answered, Part
    <3>4. CountIsObligations'
      BY <2>t, <2>10 DEF Fail, Types, Turns, CountIsObligations, Owed, Answered, Part
    <3>5. Quiet'
      BY <2>t, <2>10 DEF Fail, Types, Turns, Quiet, Answered, Part
    <3> QED BY <3>1, <3>2, <3>3, <3>4, <3>5 DEF IInv
  <2>11. ASSUME NEW p \in Part, CompletionLeave(p) PROVE IInv'
    <3>1. Types'
      BY <2>t, <2>11 DEF CompletionLeave, Leave, Types
    <3>2. Turns'
      BY <2>t, <2>11 DEF CompletionLeave, Leave, Types, Turns, Part
    <3>3. Reports'
      BY <2>t, <2>11 DEF CompletionLeave, Leave, Types, Turns, Quiet, Reports, SuccessHasBoth, Answered, Part
    <3>4. CountIsObligations'
      BY <2>t, <2>11 DEF CompletionLeave, Leave, Types, Turns, CountIsObligations, Owed, Answered, Part
    <3>5. Quiet'
      BY <2>t, <2>11, <2>n, <3>1, <3>2, <3>4
         DEF CompletionLeave, Leave, Types, Turns, Quiet, CountIsObligations, Answered
    <3> QED BY <3>1, <3>2, <3>3, <3>4, <3>5 DEF IInv
  <2>12. ASSUME NEW p \in Part, CompletionKeep(p) PROVE IInv'
    <3>1. Types'
      BY <2>t, <2>12 DEF CompletionKeep, Types
    <3>2. Turns'
      BY <2>t, <2>12 DEF CompletionKeep, Types, Turns, Part
    <3>3. Reports'
      BY <2>t, <2>12 DEF CompletionKeep, Types, Turns, Quiet, Reports, SuccessHasBoth, Answered, Part
    <3>4. CountIsObligations'
      BY <2>t, <2>12 DEF CompletionKeep, Types, Turns, CountIsObligations, Owed, Answered, Part
    <3>5. Quiet'
      BY <2>t, <2>12 DEF CompletionKeep, Types, Turns, Quiet, Answered, Part
    <3> QED BY <3>1, <3>2, <3>3, <3>4, <3>5 DEF IInv
  <2>13. CASE UNCHANGED vars
    BY <2>t, <2>13 DEF vars, IInv, Types, Turns, Quiet, Reports, CountIsObligations, Owed,
       Answered, SuccessHasBoth
  <2> QED BY <2>1, <2>2, <2>3, <2>4, <2>5, <2>6, <2>7, <2>8, <2>9, <2>10, <2>11, <2>12, <2>13
     DEF Next, Main, Block, Network, Completion
<1> QED BY <1>1, <1>2, PTL DEF Spec

\* Every variable of the load keeps its type.
THEOREM TypeCorrect == Spec => []TypeOK
<1>1. IInv => TypeOK
  <2> SUFFICES ASSUME IInv PROVE TypeOK
    OBVIOUS
  <2>1. Owed("groups") \in Nat /\ Owed("invitations") \in Nat
    BY DEF Owed
  <2>2. count \in Nat
    BY <2>1 DEF IInv, CountIsObligations
  <2> QED BY <2>2 DEF IInv, Types, TypeOK
<1> QED BY <1>1, Invariance, PTL

\* The group's counter is what blocks and unanswered requests owe it, so no
\* leave() is one too many.
THEOREM CounterIsExact == Spec => []CountIsObligations
<1>1. IInv => CountIsObligations
  BY DEF IInv
<1> QED BY <1>1, Invariance, PTL

\* The notify block is queued only after both requests were answered, and a
\* success has both answers.
THEOREM NotifyWaitsForBoth == Spec => []NotifyAfterBoth
<1>1. IInv => NotifyAfterBoth
  BY DEF IInv, Quiet, Reports, SuccessHasBoth, NotifyAfterBoth
<1> QED BY <1>1, Invariance, PTL

\* After a failed request nobody is told anything, and the HUD stays.
THEOREM FailureIsSilent == Spec => []FailureIsNeverReported
<1>1. IInv => FailureIsNeverReported
  <2> SUFFICES ASSUME IInv, NEW p \in Part, request[p] = "failed"
               PROVE  result = "none" /\ (main # "show" => hud)
    BY DEF FailureIsNeverReported
  <2>1. ~ notify \in {"queued", "readGroups", "done"}
    BY DEF IInv, Quiet, Answered
  <2>2. notify \in {"none", "registered"}
    BY <2>1 DEF IInv, Types
  <2> QED BY <2>2 DEF IInv, Reports
<1> QED BY <1>1, Invariance, PTL

\* An error is reported only between a completion's leave and its keeping of
\* the answer.
THEOREM ErrorsMeanTheWindow == Spec => ErrorsOnlyInWindow
<1>1. IInv /\ [Next]_vars =>
        [\A e \in Errors : result # e /\ result' = e => request[Blamed[e]] = "left"]_vars
  <2> SUFFICES ASSUME IInv, Next, NEW e \in Errors, result # e, result' = e
               PROVE  request[Blamed[e]] = "left"
    BY DEF vars
  <2>1. Blamed["loadGroupsError"] = "groups" /\ Blamed["loadInvitationsError"] = "invitations"
    BY DEF Blamed, Errors
  <2>2. NotifyGroups \/ NotifyInvitations
    BY DEF Next, Main, Block, Network, Completion, ShowHud, Dispatch, RegisterNotify,
       BlockEnter, BlockSend, BlockEnd, Answer, Fail, CompletionLeave, CompletionKeep
  <2>3. \A p \in Part : Answered(p) /\ (stored[p] <=> request[p] = "kept")
    BY <2>2 DEF NotifyGroups, NotifyInvitations, IInv, Quiet, Reports
  <2>4. CASE NotifyGroups
    <3>1. e = "loadGroupsError" /\ ~stored["groups"]
      BY <2>4 DEF NotifyGroups, Errors
    <3> QED BY <2>1, <2>3, <3>1 DEF Part, Answered
  <2>5. CASE NotifyInvitations
    <3>1. e = "loadInvitationsError" /\ ~stored["invitations"]
      BY <2>5 DEF NotifyInvitations, Errors
    <3> QED BY <2>1, <2>3, <3>1 DEF Part, Answered
  <2> QED BY <2>2, <2>4, <2>5
<1> QED BY <1>1, Invariance, PTL DEF Spec, ErrorsOnlyInWindow
-----------------------------------------------------------------------------
(***************************************************************************)
(* The refinement of GroupsReport.                                         *)
(***************************************************************************)
outcomes == [p \in Part |-> OutcomeOf(p)]
busy == hud \/ notify = "readGroups"
reports == {result} \ {"none"}

\* The load seen by its caller begins once, settles its requests one by one,
\* and concludes once, when all of them were answered.
THEOREM CallerSeesAReport == Spec => ReportSpec
<1>1. Init => Promise!Init
  BY DEF Init, Promise!Init, OutcomeOf, Answered
<1>2. IInv /\ [Next]_vars => [Promise!Next]_Promise!vars
  <2> SUFFICES ASSUME IInv, [Next]_vars PROVE [Promise!Next]_Promise!vars
    OBVIOUS
  <2>t. Types /\ Turns /\ Quiet /\ Reports
    BY DEF IInv
  \* What leaves the requests' outcomes, the HUD and the report alone stutters.
  <2>s. ASSUME outcomes' = outcomes, busy' = busy, result' = result
        PROVE  [Promise!Next]_Promise!vars
    BY <2>s DEF outcomes, busy, Promise!vars
  <2>o. ASSUME request' = request PROVE outcomes' = outcomes
    BY <2>o DEF outcomes, OutcomeOf, Answered
  <2>1. CASE ShowHud
    <3>1. outcomes' = outcomes
      BY <2>1, <2>o DEF ShowHud
    <3>2. ~busy /\ busy' = TRUE /\ reports = {} /\ reports' = reports
      BY <2>1, <2>t DEF ShowHud, busy, reports, Turns, Reports
    <3> QED BY <3>1, <3>2 DEF Promise!Next, Promise!Begin, outcomes, busy, reports
  <2>2. ASSUME NEW p \in Part, Dispatch(p) \/ BlockEnter(p) \/ BlockEnd(p)
        PROVE  [Promise!Next]_Promise!vars
    <3>1. request' = request /\ hud' = hud /\ result' = result
      BY <2>2 DEF Dispatch, BlockEnter, BlockEnd
    <3>2. busy' = busy
      BY <2>2, <3>1 DEF Dispatch, BlockEnter, BlockEnd, Enter, Leave, busy
    <3> QED BY <2>s, <2>o, <3>1, <3>2
  <2>3. CASE RegisterNotify
    <3>1. request' = request /\ hud' = hud /\ result' = result
      BY <2>3 DEF RegisterNotify
    <3>2. busy' = busy
      BY <2>3, <2>t, <3>1 DEF RegisterNotify, Register, busy, Turns
    <3> QED BY <2>s, <2>o, <3>1, <3>2
  <2>4. ASSUME NEW p \in Part, BlockSend(p) \/ Answer(p) \/ CompletionKeep(p)
        PROVE  [Promise!Next]_Promise!vars
    <3>1. busy' = busy /\ result' = result
      BY <2>4 DEF BlockSend, Answer, CompletionKeep, busy
    <3>2. ASSUME NEW q \in Part PROVE (OutcomeOf(q))' = OutcomeOf(q)
      BY <2>4, <2>t DEF BlockSend, Answer, CompletionKeep, OutcomeOf, Answered, Types, Turns
    <3>3. outcomes' = outcomes
      BY <3>2 DEF outcomes
    <3> QED BY <2>s, <3>1, <3>3
  <2>5. ASSUME NEW p \in Part, Fail(p) \/ CompletionLeave(p)
        PROVE  [Promise!Next]_Promise!vars
    <3> DEFINE how == IF Fail(p) THEN "failed" ELSE "answered"
    <3>1. request[p] \in {"inflight", "arrived"} /\ hud' = hud /\ result' = result
      BY <2>5 DEF Fail, CompletionLeave
    <3>2. block[p] # "none" /\ ~Answered(p)
      BY <3>1, <2>t DEF Types, Turns, Answered
    <3>3. main # "show"
      BY <3>2, <2>t DEF Turns, Part
    <3>4. notify \in {"none", "registered"}
      BY <3>2, <2>t DEF Quiet, Types
    <3>5. busy
      BY <3>3, <3>4, <2>t DEF busy, Reports
    <3>6. busy' = busy
      BY <2>5, <3>1, <3>4, <3>5 DEF Fail, CompletionLeave, Leave, busy
    <3>7. OutcomeOf(p) = "pending"
      BY <3>1 DEF OutcomeOf, Answered
    <3>8. (OutcomeOf(p))' = how
      BY <2>5, <2>t DEF Fail, CompletionLeave, OutcomeOf, Answered, Types
    <3>9. ASSUME NEW q \in Part, q # p PROVE (OutcomeOf(q))' = OutcomeOf(q)
      BY <2>5, <3>9, <2>t DEF Fail, CompletionLeave, OutcomeOf, Answered, Types
    <3>10. outcomes' = [outcomes EXCEPT ![p] = how]
      BY <3>8, <3>9 DEF outcomes
    <3>11. outcomes[p] = "pending"
      BY <3>7 DEF outcomes
    <3>12. how \in {"answered", "failed"}
      OBVIOUS
    <3>13. Promise!Settle(p, how)
      BY <3>1, <3>5, <3>6, <3>10, <3>11 DEF Promise!Settle, outcomes, busy
    <3> QED BY <3>12, <3>13 DEF Promise!Next
  <2>6. CASE NotifyGroups \/ NotifyInvitations
    <3>1. outcomes' = outcomes
      BY <2>6, <2>o DEF NotifyGroups, NotifyInvitations
    <3>2. \A p \in Part : outcomes[p] = "answered"
      BY <2>6, <2>t DEF NotifyGroups, NotifyInvitations, Quiet, outcomes, OutcomeOf
    <3>3. busy
      BY <2>6, <2>t DEF NotifyGroups, NotifyInvitations, Turns, Reports, busy
    <3>4. CASE NotifyGroups /\ stored["groups"]
      <4>1. result' = result /\ busy' = busy
        BY <3>3, <3>4 DEF NotifyGroups, busy
      <4> QED BY <2>s, <3>1, <4>1
    <3>5. CASE NotifyGroups /\ ~stored["groups"]
      <4>1. busy' = FALSE /\ result' = "loadGroupsError"
        BY <3>5 DEF NotifyGroups, busy
      <4>2. reports' = {"loadGroupsError"}
        BY <4>1 DEF reports
      <4> QED BY <3>1, <3>2, <3>3, <4>1, <4>2
              DEF Promise!Next, Promise!Conclude, Errors, outcomes, busy, reports
    <3>6. CASE NotifyInvitations
      <4>1. hud = FALSE /\ busy' = FALSE
        BY <3>6, <2>t DEF NotifyInvitations, Reports, busy
      <4>2. PICK r \in {"sucsess", "loadInvitationsError"} : result' = r
        BY <3>6 DEF NotifyInvitations
      <4>3. reports' = {r}
        BY <4>2 DEF reports
      <4> QED BY <3>1, <3>2, <3>3, <4>1, <4>3
              DEF Promise!Next, Promise!Conclude, Errors, outcomes, busy, reports
    <3> QED BY <2>6, <3>4, <3>5, <3>6
  <2>7. CASE UNCHANGED vars
    BY <2>7, <2>s, <2>o DEF vars, busy
  <2> QED BY <2>1, <2>2, <2>3, <2>4, <2>5, <2>6, <2>7
     DEF Next, Main, Block, Network, Completion
<1> QED BY <1>1, <1>2, Invariance, PTL DEF Spec, ReportSpec, Promise!Spec
=============================================================================
