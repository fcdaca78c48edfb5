---------------------------- MODULE IntakeProofs ----------------------------
(***************************************************************************)
(* Proofs about Intake: what a request knows of its row between two of its *)
(* database calls, and from it that workflows run for committed rows only  *)
(* and that triage cannot be walked around, for any number of deliveries   *)
(* and of requests and whichever source each delivery has.                 *)
(***************************************************************************)
EXTENDS Intake, TLAPS

\* A row is moved in this module only before its workflow takes it over.
StatusOK ==
  \A d \in Deliveries : status[d] \in { Absent, "triage", "received", "rejected" }

\* Only with triage on does a webhook put a row in triage, and the poller never.
TriageOK ==
  \A d \in Deliveries :
    status[d] = "triage" => Source[d] # "poll" /\ (Source[d] = "webhook" => triageMode)

\* What holds of a row from the moment somebody may start its workflow.
Startable(d) ==
  /\ status[d] \in { "received", "rejected" } \/ (Source[d] = "import" /\ Exists(d))
  /\ triageMode /\ Source[d] = "webhook" => d \in accepted

\* What a request's earlier reads and writes still tell it of the row, with
\* other requests at work on the same row.
RequestOK ==
  \A r \in Requests :
    LET d == request[r].for IN
    /\ request[r].at \in { "check_move", "move", "write_rejected" } => Exists(d)
    /\ request[r].at = "start" => Startable(d)

\* A manual task's delivery_id stays its own until the row is committed.
FreshOK ==
  \A r \in Requests :
    LET d == request[r].for IN
    request[r].at \in { "dedupe", "create" } /\ Source[d] = "manual" =>
      /\ ~Exists(d)
      /\ \A q \in Requests :
           q # r /\ request[q].for = d => request[q].at \notin { "dedupe", "create" }

RunOK == \A d \in Deliveries : run[d] # "none" => Startable(d)

IInv == TypeOK /\ StatusOK /\ TriageOK /\ RequestOK /\ FreshOK /\ RunOK

\* The names the steps write, so that the proofs need not expand the enumerations.
LEMMA Names ==
  /\ Absent \notin Statuses
  /\ "triage" \in Statuses /\ "received" \in Statuses /\ "rejected" \in Statuses
  /\ "idle" \in Points /\ "dedupe" \in Points /\ "create" \in Points
  /\ "start" \in Points /\ "accept" \in Points /\ "check_move" \in Points
  /\ "move" \in Points /\ "reject" \in Points /\ "write_rejected" \in Points
BY DEF Absent, Statuses, Points

\* Nothing exists, nothing runs and nothing is asked for in the beginning.
LEMMA InvInit == Init => IInv
<1>1. SUFFICES ASSUME Init PROVE IInv
  OBVIOUS
<1>2. TypeOK
  BY <1>1, Names, IntakeAssumption DEF Init, TypeOK
<1>3. StatusOK /\ TriageOK /\ RunOK
  BY <1>1 DEF Init, StatusOK, TriageOK, RunOK, Absent
<1>4. RequestOK /\ FreshOK
  BY <1>1 DEF Init, RequestOK, FreshOK
<1> QED BY <1>2, <1>3, <1>4 DEF IInv

\* A request that only moves on, to a point where it knows no more than it did,
\* leaves the invariant alone.
LEMMA MovesOn ==
  ASSUME IInv, NEW r \in Requests,
         request' \in [ Requests -> [ at : Points, for : Deliveries ] ],
         request'[r].at \in { "idle", "accept", "reject" },
         \A q \in Requests : q # r => request'[q] = request[q],
         failures' \in 0..MaxFailures,
         UNCHANGED << triageMode, status, run, accepted >>
  PROVE  IInv'
<1>1. TypeOK'
  BY Names DEF IInv, TypeOK
<1>2. StatusOK' /\ TriageOK' /\ RunOK'
  BY DEF IInv, StatusOK, TriageOK, RunOK, Startable, Exists
<1>3. RequestOK'
  BY DEF IInv, TypeOK, RequestOK, Startable, Exists
<1>4. FreshOK'
  BY DEF IInv, TypeOK, FreshOK, Exists
<1> QED BY <1>1, <1>2, <1>3, <1>4 DEF IInv

\* A request that goes back to idle is one of those.
LEMMA GoesIdle ==
  ASSUME IInv, NEW r \in Requests, GoOn(r, "idle"), failures' \in 0..MaxFailures,
         UNCHANGED << triageMode, status, run, accepted >>
  PROVE  IInv'
<1>1. request' \in [ Requests -> [ at : Points, for : Deliveries ] ]
  BY Names DEF GoOn, IInv, TypeOK
<1>2. request'[r].at = "idle" /\ \A q \in Requests : q # r => request'[q] = request[q]
  BY DEF GoOn, IInv, TypeOK
<1> QED BY <1>1, <1>2, MovesOn

\* A delivery arrives: a manual one brings a delivery_id of its own.
LEMMA ArrivesStep ==
  ASSUME IInv, NEW r \in Requests, NEW d \in Deliveries, Arrives(r, d) PROVE IInv'
<1>1. TypeOK'
  BY Names DEF IInv, TypeOK, Arrives
<1>2. StatusOK' /\ TriageOK' /\ RunOK'
  BY DEF IInv, StatusOK, TriageOK, RunOK, Startable, Exists, Arrives
<1>3. RequestOK'
  BY DEF IInv, TypeOK, RequestOK, Startable, Exists, Arrives
<1>4. FreshOK'
  BY DEF IInv, TypeOK, FreshOK, Exists, Arrives, IsFresh, At
<1> QED BY <1>1, <1>2, <1>3, <1>4 DEF IInv

\* The duplicate check: what goes on to create is still no other's row.
LEMMA DedupedStep == ASSUME IInv, NEW r \in Requests, Deduped(r) PROVE IInv'
<1>1. CASE GoOn(r, "idle")
  BY <1>1, GoesIdle DEF Deduped, IInv, TypeOK
<1>2. CASE GoOn(r, "create")
  <2>1. TypeOK'
    BY <1>2, Names DEF IInv, TypeOK, Deduped, GoOn
  <2>2. StatusOK' /\ TriageOK' /\ RunOK'
    BY DEF IInv, StatusOK, TriageOK, RunOK, Startable, Exists, Deduped
  <2>3. RequestOK'
    BY <1>2 DEF IInv, TypeOK, RequestOK, Startable, Exists, Deduped, GoOn
  <2>4. FreshOK'
    BY <1>2 DEF IInv, TypeOK, FreshOK, Exists, Deduped, GoOn, At
  <2> QED BY <2>1, <2>2, <2>3, <2>4 DEF IInv
<1> QED BY <1>1, <1>2 DEF Deduped

\* The insert commits a row or finds one; only a row out of triage goes on to
\* its workflow.
LEMMA CreatedStep == ASSUME IInv, NEW r \in Requests, Created(r) PROVE IInv'
<1>0. PICK d \in Deliveries : d = request[r].for
  BY DEF IInv, TypeOK
<1>1. PICK triage \in TriageChoices(d) :
        /\ status' = IF Exists(d) THEN status
                     ELSE [ status EXCEPT ![d] = IF triage THEN "triage" ELSE "received" ]
        /\ GoOn(r, IF triage THEN "idle" ELSE "start")
  BY <1>0 DEF Created
<1>2. d \in Deliveries /\ request[r].at = "create"
  BY <1>0 DEF IInv, TypeOK, Created, At
<1>3. /\ triage \in BOOLEAN
      /\ Source[d] = "webhook" => triage = triageMode
      /\ Source[d] = "poll" => ~triage
  BY <1>2, IntakeAssumption DEF TriageChoices, Sources, IInv, TypeOK
<1>4. /\ ~Exists(d) => status'[d] = IF triage THEN "triage" ELSE "received"
      /\ Exists(d) => status'[d] = status[d]
      /\ \A e \in Deliveries : e # d => status'[e] = status[e]
      /\ \A e \in Deliveries : Exists(e) => status'[e] = status[e]
  BY <1>1, <1>2 DEF IInv, TypeOK, Exists
<1>5. TypeOK'
  <2>1. status' \in [ Deliveries -> Statuses \cup {Absent} ]
    BY <1>1, <1>2, Names DEF IInv, TypeOK
  <2>2. request' \in [ Requests -> [ at : Points, for : Deliveries ] ]
    BY <1>1, Names DEF IInv, TypeOK, GoOn
  <2> QED BY <2>1, <2>2 DEF IInv, TypeOK, Created
<1>6. StatusOK'
  BY <1>1, <1>4 DEF IInv, StatusOK
<1>7. TriageOK'
  BY <1>3, <1>4, IntakeAssumption DEF IInv, TriageOK, Created, Exists
<1>8. Exists(d)' /\ (\A e \in Deliveries : Exists(e) => Exists(e)')
  BY <1>2, <1>4 DEF Exists, Absent
<1>9. \A e \in Deliveries : Startable(e) => Startable(e)'
  BY <1>4, <1>8 DEF Startable, Exists, Created, Absent
<1>10. ~triage => Startable(d)'
  <2>1. SUFFICES ASSUME ~triage PROVE Startable(d)'
    OBVIOUS
  <2>2. Source[d] = "manual" => ~Exists(d)
    BY <1>0, <1>2 DEF IInv, FreshOK
  <2>3. Source[d] \in { "webhook", "poll" } /\ Exists(d) => status[d] \in { "received", "rejected" }
    BY <1>2, <1>3, <2>1 DEF IInv, StatusOK, TriageOK, Exists
  <2>4. status'[d] \in { "received", "rejected" } \/ (Source[d] = "import" /\ Exists(d)')
    BY <1>2, <1>4, <1>8, <2>1, <2>2, <2>3, IntakeAssumption DEF Sources
  <2>5. ~(triageMode' /\ Source[d] = "webhook")
    BY <1>3, <2>1 DEF Created
  <2> QED BY <2>4, <2>5 DEF Startable
<1>11. RequestOK'
  BY <1>0, <1>1, <1>8, <1>9, <1>10 DEF IInv, TypeOK, RequestOK, GoOn
<1>12. FreshOK'
  BY <1>0, <1>1, <1>2, <1>4 DEF IInv, TypeOK, FreshOK, GoOn, Exists
<1>13. RunOK'
  BY <1>9 DEF IInv, RunOK, Created
<1> QED BY <1>5, <1>6, <1>7, <1>11, <1>12, <1>13 DEF IInv

\* The workflow is started for the row the request has, if Temporal answers.
LEMMA StartStep ==
  ASSUME IInv, NEW r \in Requests, WorkflowStarts(r) PROVE IInv'
<1>1. request[r].for \in Deliveries /\ Startable(request[r].for)
  BY DEF IInv, TypeOK, RequestOK, WorkflowStarts, At
<1>2. TypeOK'
  BY Names DEF IInv, TypeOK, WorkflowStarts, GoOn
<1>3. StatusOK' /\ TriageOK'
  BY DEF IInv, StatusOK, TriageOK, WorkflowStarts
<1>4. RequestOK'
  BY DEF IInv, TypeOK, RequestOK, Startable, Exists, WorkflowStarts, GoOn
<1>5. FreshOK'
  BY DEF IInv, TypeOK, FreshOK, Exists, WorkflowStarts, GoOn
<1>6. RunOK'
  BY <1>1 DEF IInv, TypeOK, RunOK, Startable, Exists, WorkflowStarts
<1> QED BY <1>2, <1>3, <1>4, <1>5, <1>6 DEF IInv

\* Both decisions begin by reading the row, and go on only if it is in triage;
\* the acceptance reads it again.
LEMMA CheckStep ==
  ASSUME IInv, NEW r \in Requests, TriageChecked(r) \/ MoveChecked(r) PROVE IInv'
<1>1. request[r].for \in Deliveries /\ failures' \in 0..MaxFailures
      /\ UNCHANGED << triageMode, status, run, accepted >>
  BY DEF IInv, TypeOK, TriageChecked, MoveChecked
<1>2. CASE GoOn(r, "idle")
  BY <1>1, <1>2, GoesIdle
<1>3. ASSUME NEW at \in { "check_move", "move", "write_rejected" }, GoOn(r, at),
             Exists(request[r].for)
      PROVE  IInv'
  <2>1. TypeOK'
    BY <1>1, <1>3, Names DEF IInv, TypeOK, GoOn
  <2>2. StatusOK' /\ TriageOK' /\ RunOK'
    BY <1>1 DEF IInv, StatusOK, TriageOK, RunOK, Startable, Exists
  <2>3. RequestOK'
    BY <1>1, <1>3 DEF IInv, TypeOK, RequestOK, Startable, Exists, GoOn
  <2>4. FreshOK'
    BY <1>1, <1>3 DEF IInv, TypeOK, FreshOK, Exists, GoOn
  <2> QED BY <2>1, <2>2, <2>3, <2>4 DEF IInv
<1>4. CASE InTriage(request[r].for) /\ (GoOn(r, "check_move") \/ GoOn(r, "write_rejected"))
  BY <1>3, <1>4 DEF InTriage, Exists, Absent
<1>5. CASE At(r, "check_move") /\ GoOn(r, "move")
  BY <1>3, <1>5 DEF IInv, RequestOK, At
<1> QED BY <1>2, <1>4, <1>5 DEF TriageChecked, MoveChecked

\* The decision is written over whatever the row says by then, which is never
\* "absent": a workflow that was started stays startable.
LEMMA DecisionStep ==
  ASSUME IInv, NEW r \in Requests, Accepted(r) \/ Rejected(r) PROVE IInv'
<1>0. PICK d \in Deliveries : d = request[r].for
  BY DEF IInv, TypeOK
<1>1. d \in Deliveries /\ Exists(d) /\ request[r].at \in { "move", "write_rejected" }
  BY <1>0 DEF IInv, TypeOK, RequestOK, Accepted, Rejected, At
<1>2. /\ status'[d] \in { "received", "rejected" }
      /\ \A e \in Deliveries : e # d => status'[e] = status[e]
      /\ accepted \subseteq accepted'
      /\ UNCHANGED << triageMode, run >>
  BY <1>0, <1>1 DEF IInv, TypeOK, Accepted, Rejected
<1>3. TypeOK'
  <2>1. status' \in [ Deliveries -> Statuses \cup {Absent} ]
    BY <1>0, <1>1, Names DEF IInv, TypeOK, Accepted, Rejected
  <2>2. request' \in [ Requests -> [ at : Points, for : Deliveries ] ]
    BY Names DEF IInv, TypeOK, GoOn, Accepted, Rejected
  <2> QED BY <1>0, <1>1, <2>1, <2>2 DEF IInv, TypeOK, Accepted, Rejected
<1>4. StatusOK' /\ TriageOK'
  BY <1>2 DEF IInv, StatusOK, TriageOK
<1>5. \A e \in Deliveries : Exists(e) => Exists(e)'
  BY <1>2 DEF Exists, Absent
<1>6. \A e \in Deliveries : Startable(e) => Startable(e)'
  BY <1>2, <1>5 DEF Startable
<1>7. Accepted(r) => Startable(d)'
  <2>1. SUFFICES ASSUME Accepted(r) PROVE status'[d] = "received" /\ d \in accepted'
    BY <1>2 DEF Startable, GoOn, Accepted, IInv, TypeOK
  <2> QED BY <1>0, <1>1, <2>1 DEF Accepted, IInv, TypeOK
<1>8. request' = [ request EXCEPT ![r].at = IF Accepted(r) THEN "start" ELSE "idle" ]
  BY <1>1 DEF Accepted, Rejected, GoOn, At
<1>9. RequestOK'
  BY <1>0, <1>1, <1>5, <1>6, <1>7, <1>8 DEF IInv, TypeOK, RequestOK
<1>10. FreshOK'
  BY <1>1, <1>2, <1>8 DEF IInv, TypeOK, FreshOK, Exists
<1>11. RunOK'
  BY <1>2, <1>6 DEF IInv, RunOK
<1> QED BY <1>3, <1>4, <1>9, <1>10, <1>11 DEF IInv

\* Every step preserves the invariant.
LEMMA InvNext == IInv /\ [Next]_vars => IInv'
<1>1. SUFFICES ASSUME IInv, [Next]_vars PROVE IInv'
  OBVIOUS
<1>2. ASSUME NEW r \in Requests, Deduped(r) PROVE IInv'
  BY <1>1, <1>2, DedupedStep
<1>3. ASSUME NEW r \in Requests, Created(r) PROVE IInv'
  BY <1>1, <1>3, CreatedStep
<1>4. ASSUME NEW r \in Requests, WorkflowStarts(r) PROVE IInv'
  BY <1>1, <1>4, StartStep
<1>5. ASSUME NEW r \in Requests, StartFails(r) \/ Dies(r) PROVE IInv'
  <2>1. failures' \in 0..MaxFailures
    BY <1>1, <1>5, IntakeAssumption DEF IInv, TypeOK, StartFails, Dies
  <2> QED BY <1>1, <1>5, <2>1, GoesIdle DEF StartFails, Dies
<1>6. ASSUME NEW r \in Requests, TriageChecked(r) \/ MoveChecked(r) PROVE IInv'
  BY <1>1, <1>6, CheckStep
<1>7. ASSUME NEW r \in Requests, Accepted(r) \/ Rejected(r) PROVE IInv'
  BY <1>1, <1>7, DecisionStep
<1>8. ASSUME NEW r \in Requests, Ask(r) PROVE IInv'
  <2>1. PICK d \in Deliveries, what \in { "accept", "reject" } : Asks(r, d, what)
    BY <1>8 DEF Ask
  <2>2. failures' \in 0..MaxFailures
    BY <1>1, <2>1 DEF Asks, IInv, TypeOK
  <2>3. /\ request' \in [ Requests -> [ at : Points, for : Deliveries ] ]
        /\ request'[r].at \in { "idle", "accept", "reject" }
        /\ \A q \in Requests : q # r => request'[q] = request[q]
    BY <1>1, <2>1, Names DEF Asks, IInv, TypeOK
  <2> QED BY <1>1, <2>1, <2>2, <2>3, MovesOn DEF Asks
<1>9. ASSUME NEW d \in Deliveries, Arrival(d) PROVE IInv'
  BY <1>1, <1>9, ArrivesStep DEF Arrival
<1>10. ASSUME NEW d \in Deliveries, WorkflowCloses(d) PROVE IInv'
  <2> USE <1>1, <1>10 DEF WorkflowCloses
  <2>1. TypeOK'
    BY DEF IInv, TypeOK
  <2>2. StatusOK' /\ TriageOK' /\ FreshOK'
    BY DEF IInv, StatusOK, TriageOK, FreshOK, Exists
  <2>3. RequestOK'
    BY DEF IInv, RequestOK, Startable, Exists
  <2>4. RunOK'
    BY DEF IInv, TypeOK, RunOK, Startable, Exists
  <2> QED BY <2>1, <2>2, <2>3, <2>4 DEF IInv
<1>11. CASE UNCHANGED vars
  BY <1>1, <1>11 DEF vars, IInv, TypeOK, StatusOK, TriageOK, RequestOK, FreshOK, RunOK,
                     Startable, Exists
<1> QED
  BY <1>1, <1>2, <1>3, <1>4, <1>5, <1>6, <1>7, <1>8, <1>9, <1>10, <1>11 DEF Next, Serve

\* The invariant holds of every reachable state.
THEOREM Invariant == Spec => []IInv
<1>1. Init => IInv
  BY InvInit
<1>2. IInv /\ [Next]_vars => IInv'
  BY InvNext
<1> QED BY <1>1, <1>2, PTL DEF Spec

\* Every variable keeps its type.
THEOREM TypeCorrect == Spec => []TypeOK
<1>1. IInv => TypeOK
  BY DEF IInv
<1> QED BY <1>1, Invariant, PTL

\* A workflow runs only for a row that was committed and has left the triage,
\* the rows of imports excepted, however many requests overlap.
THEOREM CommittedTasksRun == Spec => []RunsCommittedTask
<1>1. IInv => RunsCommittedTask
  BY DEF IInv, RunOK, Startable, RunsCommittedTask
<1> QED BY <1>1, Invariant, PTL

\* While triage is on, no workflow of a webhook's row runs that nobody accepted.
THEOREM TriageIsKept == Spec => []TriageGate
<1>1. IInv => TriageGate
  BY DEF IInv, RunOK, Startable, TriageGate
<1> QED BY <1>1, Invariant, PTL

\* A request is past its checks of d from the points listed here on.
LEMMA PastChecks ==
  ASSUME NEW d \in Deliveries, PastCheck(d) = {}, NEW r \in Requests, request[r].for = d
  PROVE  request[r].at \notin { "create", "start", "check_move", "move", "write_rejected" }
BY DEF PastCheck

\* A task of a webhook or the poller whose workflow has closed, and that no
\* request is about to change, is a duplicate and out of triage: whatever asks
\* for it next turns back.
LEMMA SettledStep ==
  ASSUME IInv, Next, NEW d \in Deliveries,
         run[d] = "closed", PastCheck(d) = {}, Source[d] \in { "webhook", "poll" }
  PROVE  run'[d] = "closed" /\ status'[d] = status[d] /\ PastCheck(d)' = {}
<1>1. status[d] \in { "received", "rejected" }
  BY DEF IInv, RunOK, Startable
<1>2. Exists(d) /\ ~InTriage(d)
  BY <1>1 DEF Exists, InTriage, Absent
<1>3. ASSUME NEW r \in Requests, UNCHANGED << status, run >>,
             \A q \in Requests : q # r => request'[q] = request[q],
             request'[r].for = d =>
               request'[r].at \notin { "create", "start", "check_move", "move", "write_rejected" }
      PROVE  run'[d] = "closed" /\ status'[d] = status[d] /\ PastCheck(d)' = {}
  BY <1>3, PastChecks DEF PastCheck
<1>4. ASSUME NEW r \in Requests, Serve(r) \/ Dies(r) \/ Ask(r)
      PROVE  run'[d] = "closed" /\ status'[d] = status[d] /\ PastCheck(d)' = {}
  <2>1. CASE request[r].for = d /\ (Serve(r) \/ Dies(r))
    <3>1. request[r].at \notin { "create", "start", "check_move", "move", "write_rejected" }
      BY <2>1, PastChecks
    <3>2. CASE Deduped(r)
      <4>1. IsDuplicate(d)
        BY <1>2 DEF IsDuplicate
      <4> QED BY <1>3, <2>1, <3>2, <4>1 DEF Deduped, GoOn, IInv, TypeOK
    <3>3. CASE TriageChecked(r)
      BY <1>2, <1>3, <2>1, <3>3 DEF TriageChecked, GoOn, IInv, TypeOK
    <3>4. CASE Dies(r)
      BY <1>3, <2>1, <3>4 DEF Dies, GoOn, IInv, TypeOK
    <3> QED
      BY <2>1, <3>1, <3>2, <3>3, <3>4 DEF Serve, Created, WorkflowStarts, StartFails,
         MoveChecked, Accepted, Rejected, At
  <2>2. CASE request[r].for # d /\ (Serve(r) \/ Dies(r))
    <3>1. run'[d] = "closed" /\ status'[d] = status[d]
      BY <2>2 DEF Serve, Dies, Deduped, Created, WorkflowStarts, StartFails,
         TriageChecked, MoveChecked, Accepted, Rejected, IInv, TypeOK
    <3>2. /\ \A q \in Requests : q # r => request'[q] = request[q]
          /\ request'[r].for # d
      BY <2>2 DEF Serve, Dies, Deduped, Created, WorkflowStarts, StartFails,
         TriageChecked, MoveChecked, Accepted, Rejected, GoOn, IInv, TypeOK
    <3> QED BY <3>1, <3>2, PastChecks DEF PastCheck
  <2>3. CASE Ask(r)
    BY <1>3, <2>3 DEF Ask, Asks, IInv, TypeOK
  <2> QED BY <1>4, <2>1, <2>2, <2>3
<1>5. ASSUME NEW e \in Deliveries, Arrival(e)
      PROVE  run'[d] = "closed" /\ status'[d] = status[d] /\ PastCheck(d)' = {}
  BY <1>3, <1>5 DEF Arrival, Arrives, IInv, TypeOK
<1>6. ASSUME NEW e \in Deliveries, WorkflowCloses(e)
      PROVE  run'[d] = "closed" /\ status'[d] = status[d] /\ PastCheck(d)' = {}
  BY <1>6 DEF WorkflowCloses, PastCheck, IInv, TypeOK
<1> QED BY <1>4, <1>5, <1>6 DEF Next

\* Nothing that is delivered, accepted or rejected again revives a task of
\* GitHub's whose workflow has closed.
THEOREM FinishedStaysFinished == Spec => SettledForGood
<1>1. IInv /\ [Next]_vars =>
        [ \A d \in Deliveries :
            run[d] = "closed" /\ PastCheck(d) = {} /\ Source[d] \in { "webhook", "poll" }
              => run'[d] = "closed" /\ status'[d] = status[d] /\ PastCheck(d)' = {} ]_vars
  BY SettledStep
<1> QED BY <1>1, Invariant, PTL DEF Spec, SettledForGood

=============================================================================
