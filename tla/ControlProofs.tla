---------------------------- MODULE ControlProofs ---------------------------
(***************************************************************************)
(* Proofs about Control: the endpoints drive the workflow only as Pipeline *)
(* allows, so what PipelineProofs shows of the workflow holds of the       *)
(* composition, and a published task is not worked on again.               *)
(***************************************************************************)
EXTENDS Control, PipelineProofs

-----------------------------------------------------------------------------
(* The composition implements the workflow's own specification *)

\* What an endpoint's signal sets off is the workflow's handler of that name.
LEMMA HandledIsHandler ==
  ASSUME NEW kind \in Kinds, kind \notin Consoles, Handled(kind)
  PROVE  Handlers
<1>1. CASE kind \in Steerings \cup { "edit_issue" }
  BY <1>1 DEF Steerings, Handled, Handlers
<1>2. CASE kind \in DOMAIN Reviews
  <2>1. kind \notin Steerings \cup { "edit_issue" }
    BY <1>2 DEF Reviews, Steerings
  <2>2. Verdict(Reviews[kind])
    BY <2>1 DEF Handled, Steerings
  <2>3. Reviews[kind] \in Verdicts
    BY <1>2 DEF Reviews, Verdicts
  <2> QED
    BY <2>2, <2>3 DEF Handlers
<1> QED
  BY <1>1, <1>2, ControlAssumption

\* Every step of the composition is a step of the workflow or leaves it alone.
LEMMA WorkflowStep == [ControlNext]_controlVars => [Next]_vars
<1> SUFFICES ASSUME [ControlNext]_controlVars PROVE Next \/ UNCHANGED vars
  OBVIOUS
<1>1. CASE WorkflowSteps
  BY <1>1 DEF WorkflowSteps, Next
<1>2. CASE StatusAdvances
  BY <1>2 DEF StatusAdvances
<1>3. CASE Requests
  <2>1. PICK kind \in Kinds : Refuse(kind) \/ Admit(kind) \/ SignalHandled(kind) \/ SignalLost(kind)
    BY <1>3 DEF Requests
  <2>2. CASE SignalHandled(kind)
    BY <2>2, HandledIsHandler DEF SignalHandled, Next
  <2>3. CASE Refuse(kind) \/ Admit(kind) \/ SignalLost(kind)
    BY <2>3 DEF Refuse, Admit, SignalLost
  <2> QED
    BY <2>1, <2>2, <2>3
<1>4. CASE AllOver \/ UNCHANGED controlVars
  BY <1>4 DEF AllOver, controlVars
<1> QED
  BY <1>1, <1>2, <1>3, <1>4 DEF ControlNext

\* What people can send through the endpoints, whatever the row says and
\* whenever it arrives, is among what Pipeline allows for.
THEOREM ControlImplementsPipeline == ControlSpec => Spec
<1>1. ControlInit => Init
  BY DEF ControlInit
<1> QED
  BY <1>1, WorkflowStep, PTL DEF ControlSpec, Spec

\* So no request, late or refused, starts a stage while a pause, an abort or a
\* redirect is outstanding.
THEOREM RequestsHonourSteering == ControlSpec => SteeringHonoured
  BY ControlImplementsPipeline, SteeringIsHonoured

\* And none opens a way around a gate.
THEOREM RequestsKeepGates == ControlSpec => []GatedStages
  BY ControlImplementsPipeline, GatesHold

-----------------------------------------------------------------------------
(* A published task is not worked on again *)

\* Where the run can be once the row says "published": in the publish stage
\* and past its checkpoint, or over.
PastPublish ==
  \/ phase = "closed"
  \/ currentStep = "publish" /\ phase \in { "activity", "sync", "comment", "after", "monitor" }

PublishedOK == status = "published" => PastPublish

\* No checkpoint follows: whatever redirect or retry is pending is not applied.
LEMMA PastPublishStays ==
  ASSUME PastPublish, [Next]_vars
  PROVE  PastPublish' /\ ~(phase' = "activity" /\ phase # "activity")
<1> USE DEF PastPublish
<1>1. CASE Checkpoint
  BY <1>1 DEF Checkpoint, EnterHold, BeginStage, ReturnAborted, ContinueAsNew, AtDecision
<1>2. CASE Preparation \/ Readiness
  BY <1>2 DEF Preparation, IntakeAccepted, IntakeRejected, AfterIntake, ContextDone,
       AfterContext, TrustTierDone, Readiness, ReadinessProceeds, ReadinessEscalates,
       ReadinessHolds, ReadinessReevaluated, ReadinessTimeout, InActivity
<1>3. CASE Planning \/ Rework
  BY <1>3 DEF Planning, IntentDone, AfterIntent, RouterDone, AssemblerDone,
       PreflightApproves, PreflightObjects, ReassembleDone, SecondPreflightDone,
       Rework, ImplementDone, VerifyPasses, VerifyLoopsBack, VerifyExhausted, QaPasses,
       QaLoopsBack, QaExhausted, InActivity
<1>4. CASE Review
  BY <1>4 DEF Review, ApprovalRequested, AfterApprovalRequest, ReviewApproved,
       ReviewRejected, ReviewTimeout, EscalateDone, InActivity, InReview
<1>5. CASE Publication \/ AsideDone \/ ActivityFails
  BY <1>5 DEF Publication, PublishDone, MonitorStarts, Finish, AsideDone, ActivityFails,
       InActivity, FirstAside, Suspend, Return
<1>6. CASE Handlers \/ AuditRecorded
  BY <1>6 DEF Handlers, Verdict, ReadinessCleared, PauseTask, ResumeTask, AbortTask,
       RedirectTask, RetryStage, Steer, AuditRecorded
<1>7. CASE Closed \/ UNCHANGED vars
  BY <1>7 DEF Closed, vars
<1> QED
  BY <1>1, <1>2, <1>3, <1>4, <1>5, <1>6, <1>7 DEF Next, Coroutine

\* The row is written by the publish activity alone.
LEMMA StatusStep ==
  ASSUME [ControlNext]_controlVars
  PROVE  \/ status' = status
         \/ InActivity("publish") /\ UNCHANGED vars
  BY DEF ControlNext, WorkflowSteps, StatusAdvances, Requests, Refuse, Admit,
         SignalHandled, SignalLost, AllOver, controlVars

LEMMA PublishedStep == PublishedOK /\ [ControlNext]_controlVars => PublishedOK'
<1> SUFFICES ASSUME PublishedOK, [ControlNext]_controlVars PROVE PublishedOK'
  OBVIOUS
<1>1. CASE status' = status
  BY <1>1, WorkflowStep, PastPublishStays DEF PublishedOK
<1>2. CASE InActivity("publish") /\ UNCHANGED vars
  BY <1>2 DEF PublishedOK, PastPublish, InActivity, vars
<1> QED
  BY <1>1, <1>2, StatusStep

\* A redirect or a retry that was admitted before the publication starts no
\* stage after it, however late it is.
THEOREM PublishedStaysLast == ControlSpec => PublishedIsLast
<1>1. ControlInit => PublishedOK
  BY DEF ControlInit, PublishedOK
<1>2. PublishedOK /\ [ControlNext]_controlVars
        => [ phase' = "activity" /\ phase # "activity" => status # "published" ]_controlVars
  BY WorkflowStep, PastPublishStays DEF PublishedOK
<1> QED
  BY <1>1, <1>2, PublishedStep, PTL DEF ControlSpec, PublishedIsLast

=============================================================================
