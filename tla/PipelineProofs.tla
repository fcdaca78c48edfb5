--------------------------- MODULE PipelineProofs ---------------------------
(***************************************************************************)
(* Proofs about Pipeline: its inductive invariant, the safety properties   *)
(* that follow from it, and that it implements Delivery, for every value   *)
(* of the constants that satisfies PipelineAssumption.                     *)
(***************************************************************************)
EXTENDS Pipeline, TLAPS

\* The members of the enumerations, so that the other proofs need not expand
\* them.
LEMMA Names ==
  /\ "intake" \in Stages
  /\ "context" \in Stages
  /\ "readiness" \in Stages
  /\ "intent" \in Stages
  /\ "awaiting_intent_review" \in Stages
  /\ "router" \in Stages
  /\ "awaiting_routing_review" \in Stages
  /\ "assembler" \in Stages
  /\ "preflight" \in Stages
  /\ "implement" \in Stages
  /\ "verify" \in Stages
  /\ "qa" \in Stages
  /\ "awaiting_approval" \in Stages
  /\ "publish" \in Stages
  /\ "running" \in Outcomes
  /\ "success" \in Outcomes
  /\ "failed" \in Outcomes
  /\ "aborted" \in Outcomes
  /\ "intake_rejected" \in Outcomes
  /\ "readiness_escalated" \in Outcomes
  /\ "timeout" \in Outcomes
  /\ "review_rejected" \in Outcomes
  /\ "verify_exhausted" \in Outcomes
  /\ "qa_exhausted" \in Outcomes
  /\ "checkpoint" \in Phases
  /\ "hold" \in Phases
  /\ "activity" \in Phases
  /\ "sync" \in Phases
  /\ "comment" \in Phases
  /\ "after" \in Phases
  /\ "trust_tier" \in Phases
  /\ "reassemble" \in Phases
  /\ "second_preflight" \in Phases
  /\ "waiting" \in Phases
  /\ "escalate" \in Phases
  /\ "monitor" \in Phases
  /\ "closed" \in Phases
  /\ "readiness" \in Gates
  /\ "verify" \in Gates
  /\ "qa" \in Gates
  /\ "intent" \in Gates
  /\ "routing" \in Gates
  /\ "publish" \in Gates
  BY DEF Stages, Outcomes, Phases, Gates

\* A workflow that has not run yet satisfies the invariant.
LEMMA InvInit == Init => IInv
<1>1. SUFFICES ASSUME Init PROVE IInv
  OBVIOUS
<1>2. TypeOK
  <2>1. params \in PipelineInput
    BY <1>1, PipelineAssumption DEF Init
  <2>2. next \in Stages /\ phase \in Phases /\ outcome \in Outcomes
    BY <1>1, Names DEF Init
  <2>3. loopbacks \in [ verify : 0..MaxVerificationLoopbacks, qa : 0..MaxQaLoopbacks ]
    BY <1>1, PipelineAssumption DEF Init
  <2>4. evaluations \in 0..MaxReadinessEvaluations
    BY <1>1, PipelineAssumption DEF Init
  <2> QED
    BY <1>1, <2>1, <2>2, <2>3, <2>4 DEF Init, TypeOK
<1>3. PhaseOK /\ GatesOK
  BY <1>1, <1>2, PipelineAssumption DEF Init, PhaseOK, Here, Stages, GatesOK, Required
<1>4. ApprovalOK /\ OutcomeOK /\ ReworkOK
  BY <1>1, PipelineAssumption DEF Init, ApprovalOK, OutcomeOK, ReworkOK, Here
<1> QED BY <1>2, <1>3, <1>4 DEF IInv

\* A checkpoint begins the stage ahead, holds, or ends the run or starts it over.
LEMMA CheckpointStep == ASSUME IInv, Checkpoint PROVE IInv'
<1> USE DEF Checkpoint, EnterHold, BeginStage, ReturnAborted, ContinueAsNew,
            AtDecision, Return, AuditAtClose, steering, inbox, progress
<1>1. TypeOK'
  <2>1. loopbacks' \in [ verify : 0..MaxVerificationLoopbacks, qa : 0..MaxQaLoopbacks ]
    BY PipelineAssumption DEF TypeOK, IInv
  <2>2. evaluations' \in 0..MaxReadinessEvaluations
    BY PipelineAssumption DEF TypeOK, IInv
  <2>3. outcome' \in Outcomes /\ phase' \in Phases /\ next' \in Stages
    BY Names DEF TypeOK, IInv
  <2>4. currentStep' \in Stages \cup {NoStage}
    BY DEF TypeOK, IInv
  <2>5. verdicts' \subseteq Verdicts /\ passed' \subseteq Gates /\ attempts' \in Nat
    BY DEF TypeOK, IInv
  <2>6. redirectTarget' \in Stages \cup {NoStage} /\ retryClear' \in Stages \cup {NoStage}
    BY DEF TypeOK, IInv
  <2>7. /\ cleared' \in BOOLEAN /\ paused' \in BOOLEAN /\ aborted' \in BOOLEAN
        /\ params' \in PipelineInput /\ audit' \in { "idle", "scheduled", "lost" }
    BY DEF TypeOK, IInv
  <2> QED
    BY <2>1, <2>2, <2>3, <2>4, <2>5, <2>6, <2>7 DEF TypeOK
<1>2. PhaseOK'
  BY Names, PipelineAssumption DEF PhaseOK, Here, TypeOK, IInv
<1>3. GatesOK'
  BY DEF GatesOK, Required, NeedsApproval, Gates, PhaseOK, Here, IInv
<1>4. ApprovalOK'
  BY DEF ApprovalOK, NeedsApproval, GatesOK, Required, Gates, PhaseOK, Here, IInv
<1>5. OutcomeOK'
  BY DEF OutcomeOK, Required, GatesOK, Gates, PhaseOK, Here, IInv
<1>6. ReworkOK'
  BY DEF ReworkOK, TypeOK, PhaseOK, Here, IInv
<1> QED
  BY <1>1, <1>2, <1>3, <1>4, <1>5, <1>6 DEF IInv

\* Intake and context pass no gate.
LEMMA PreparationStep == ASSUME IInv, Preparation PROVE IInv'
<1> USE DEF Preparation, IntakeAccepted, IntakeRejected, AfterIntake,
            ContextDone, AfterContext, TrustTierDone, InActivity, Suspend,
            GoTo, Return, AuditAtClose, FirstAside, steering, inbox, progress
<1>1. TypeOK'
  BY Names DEF TypeOK, IInv
<1>2. PhaseOK'
  BY Names DEF PhaseOK, Here, IInv
<1>3. GatesOK'
  BY DEF GatesOK, Required, NeedsApproval, Gates, PhaseOK, Here, IInv
<1>4. ApprovalOK'
  BY DEF ApprovalOK, NeedsApproval, GatesOK, Required, Gates, PhaseOK, Here, IInv
<1>5. OutcomeOK'
  BY DEF OutcomeOK, Required, GatesOK, Gates, PhaseOK, Here, IInv
<1>6. ReworkOK'
  BY DEF ReworkOK, TypeOK, PhaseOK, Here, IInv
<1> QED
  BY <1>1, <1>2, <1>3, <1>4, <1>5, <1>6 DEF IInv

\* The readiness gate is passed by an evaluation that proceeds.
LEMMA ReadinessStep == ASSUME IInv, Readiness PROVE IInv'
<1> USE DEF Readiness, ReadinessProceeds, ReadinessEscalates, ReadinessHolds,
            ReadinessReevaluated, ReadinessTimeout, InActivity, GoTo, Return,
            AuditAtClose, steering, inbox, progress
<1>1. TypeOK'
  <2>1. evaluations' \in 0..MaxReadinessEvaluations
    BY PipelineAssumption DEF TypeOK, PhaseOK, Here, IInv
  <2> QED
    BY <2>1, Names DEF TypeOK, IInv
<1>2. PhaseOK'
  BY Names DEF PhaseOK, Here, IInv
<1>3. GatesOK'
  BY DEF GatesOK, Required, NeedsApproval, Gates, PhaseOK, Here, IInv
<1>4. ApprovalOK'
  BY DEF ApprovalOK, NeedsApproval, GatesOK, Required, Gates, PhaseOK, Here, IInv
<1>5. OutcomeOK'
  BY DEF OutcomeOK, Required, GatesOK, Gates, PhaseOK, Here, IInv
<1>6. ReworkOK'
  BY DEF ReworkOK, TypeOK, PhaseOK, Here, IInv
<1> QED
  BY <1>1, <1>2, <1>3, <1>4, <1>5, <1>6 DEF IInv

\* From the intent to the assembly, up to the reviews in between.
LEMMA PlanningStep == ASSUME IInv, Planning PROVE IInv'
<1> USE DEF Planning, IntentDone, AfterIntent, RouterDone, AssemblerDone,
            PreflightApproves, PreflightObjects, ReassembleDone,
            SecondPreflightDone, InActivity, GoTo, Suspend, FirstAside,
            steering, inbox, progress
<1>1. TypeOK'
  BY Names DEF TypeOK, IInv
<1>2. PhaseOK'
  BY Names DEF PhaseOK, Here, IInv, ReviewStages
<1>3. GatesOK'
  BY DEF GatesOK, Required, NeedsApproval, Gates, PhaseOK, Here, IInv
<1>4. ApprovalOK'
  BY DEF ApprovalOK, NeedsApproval, GatesOK, Required, Gates, PhaseOK, Here, IInv
<1>5. OutcomeOK'
  BY DEF OutcomeOK, Required, GatesOK, Gates, PhaseOK, Here, IInv
<1>6. ReworkOK'
  BY DEF ReworkOK, TypeOK, PhaseOK, Here, IInv
<1> QED
  BY <1>1, <1>2, <1>3, <1>4, <1>5, <1>6 DEF IInv

\* A new revision has passed nothing, and each loopback pays for one.
LEMMA ReworkStep == ASSUME IInv, Rework PROVE IInv'
<1> USE DEF Rework, ImplementDone, VerifyPasses, VerifyLoopsBack,
            VerifyExhausted, QaPasses, QaLoopsBack, QaExhausted, InActivity,
            GoTo, Return, AuditAtClose, steering, inbox, progress
<1>1. TypeOK'
  BY Names, PipelineAssumption DEF TypeOK, IInv
<1>2. PhaseOK'
  BY Names DEF PhaseOK, Here, IInv
<1>3. GatesOK'
  BY DEF GatesOK, Required, NeedsApproval, Gates, PhaseOK, Here, IInv
<1>4. ApprovalOK'
  BY DEF ApprovalOK, NeedsApproval, GatesOK, Required, Gates, PhaseOK, Here, IInv
<1>5. OutcomeOK'
  BY DEF OutcomeOK, Required, GatesOK, Gates, PhaseOK, Here, IInv
<1>6. ReworkOK'
  BY DEF ReworkOK, TypeOK, PhaseOK, Here, IInv
<1> QED
  BY <1>1, <1>2, <1>3, <1>4, <1>5, <1>6 DEF IInv

\* A review passes its own gate, or ends the run.
LEMMA ReviewStep == ASSUME IInv, Review PROVE IInv'
<1> USE DEF Review, ApprovalRequested, AfterApprovalRequest, ReviewApproved,
            ReviewRejected, ReviewTimeout, EscalateDone, InActivity, InReview,
            ReviewStages, ReviewOf, StageAfterReview, GoTo, Suspend, Return,
            AuditAtClose, FirstAside, steering, inbox, progress
<1>1. TypeOK'
  BY Names DEF TypeOK, IInv
<1>2. PhaseOK'
  BY Names DEF PhaseOK, Here, IInv
<1>3. GatesOK'
  BY DEF GatesOK, Required, NeedsApproval, Gates, PhaseOK, Here, IInv
<1>4. ApprovalOK'
  BY DEF ApprovalOK, NeedsApproval, GatesOK, Required, Gates, PhaseOK, Here, IInv
<1>5. OutcomeOK'
  BY DEF OutcomeOK, Required, GatesOK, Gates, PhaseOK, Here, IInv
<1>6. ReworkOK'
  BY DEF ReworkOK, TypeOK, PhaseOK, Here, IInv
<1> QED
  BY <1>1, <1>2, <1>3, <1>4, <1>5, <1>6 DEF IInv

\* A publication comes after every gate.
LEMMA PublicationStep == ASSUME IInv, Publication PROVE IInv'
<1> USE DEF Publication, PublishDone, MonitorStarts, Finish, InActivity,
            Suspend, Return, AuditAtClose, FirstAside, steering, inbox,
            progress
<1>1. TypeOK'
  BY Names DEF TypeOK, IInv
<1>2. PhaseOK'
  BY Names DEF PhaseOK, Here, IInv
<1>3. GatesOK'
  BY DEF GatesOK, Required, NeedsApproval, Gates, PhaseOK, Here, IInv
<1>4. ApprovalOK'
  BY DEF ApprovalOK, NeedsApproval, GatesOK, Required, Gates, PhaseOK, Here, IInv
<1>5. OutcomeOK'
  BY DEF OutcomeOK, Required, GatesOK, Gates, PhaseOK, Here, IInv
<1>6. ReworkOK'
  BY DEF ReworkOK, TypeOK, PhaseOK, Here, IInv
<1> QED
  BY <1>1, <1>2, <1>3, <1>4, <1>5, <1>6 DEF IInv

\* Best-effort activities change nothing but the phase.
LEMMA AsideDoneStep == ASSUME IInv, AsideDone PROVE IInv'
<1> USE DEF AsideDone, Suspend, steering, inbox, progress
<1>1. TypeOK'
  BY Names DEF TypeOK, IInv
<1>2. PhaseOK'
  BY Names DEF PhaseOK, Here, IInv
<1>3. GatesOK'
  BY DEF GatesOK, Required, NeedsApproval, Gates, PhaseOK, Here, IInv
<1>4. ApprovalOK'
  BY DEF ApprovalOK, NeedsApproval, GatesOK, Required, Gates, PhaseOK, Here, IInv
<1>5. OutcomeOK'
  BY DEF OutcomeOK, Required, GatesOK, Gates, PhaseOK, Here, IInv
<1>6. ReworkOK'
  BY DEF ReworkOK, TypeOK, PhaseOK, Here, IInv
<1> QED
  BY <1>1, <1>2, <1>3, <1>4, <1>5, <1>6 DEF IInv

\* A failed activity ends the run.
LEMMA ActivityFailsStep == ASSUME IInv, ActivityFails PROVE IInv'
<1> USE DEF ActivityFails, Return, AuditAtClose, steering, inbox, progress
<1>1. TypeOK'
  BY Names DEF TypeOK, IInv
<1>2. PhaseOK'
  BY Names DEF PhaseOK, Here, IInv
<1>3. GatesOK'
  BY DEF GatesOK, Required, NeedsApproval, Gates, PhaseOK, Here, IInv
<1>4. ApprovalOK'
  BY DEF ApprovalOK, NeedsApproval, GatesOK, Required, Gates, PhaseOK, Here, IInv
<1>5. OutcomeOK'
  BY DEF OutcomeOK, Required, GatesOK, Gates, PhaseOK, Here, IInv
<1>6. ReworkOK'
  BY DEF ReworkOK, TypeOK, PhaseOK, Here, IInv
<1> QED
  BY <1>1, <1>2, <1>3, <1>4, <1>5, <1>6 DEF IInv

\* A signal moves neither the coroutine nor its progress.
LEMMA HandlersStep == ASSUME IInv, Handlers PROVE IInv'
<1> USE DEF Handlers, Verdict, ReadinessCleared, PauseTask, ResumeTask,
            AbortTask, RedirectTask, RetryStage, Sent, Steer, steering, inbox,
            progress
<1>1. TypeOK'
  BY Names, PipelineAssumption DEF TypeOK, IInv
<1>2. PhaseOK'
  BY Names DEF PhaseOK, Here, IInv
<1>3. GatesOK'
  BY DEF GatesOK, Required, NeedsApproval, Gates, PhaseOK, Here, IInv
<1>4. ApprovalOK'
  BY DEF ApprovalOK, NeedsApproval, GatesOK, Required, Gates, PhaseOK, Here, IInv
<1>5. OutcomeOK'
  BY DEF OutcomeOK, Required, GatesOK, Gates, PhaseOK, Here, IInv
<1>6. ReworkOK'
  BY DEF ReworkOK, TypeOK, PhaseOK, Here, IInv
<1> QED
  BY <1>1, <1>2, <1>3, <1>4, <1>5, <1>6 DEF IInv

\* Nor does an audit record.
LEMMA AuditRecordedStep == ASSUME IInv, AuditRecorded PROVE IInv'
<1> USE DEF AuditRecorded, steering, inbox, progress
<1>1. TypeOK'
  BY Names DEF TypeOK, IInv
<1>2. PhaseOK'
  BY Names DEF PhaseOK, Here, IInv
<1>3. GatesOK'
  BY DEF GatesOK, Required, NeedsApproval, Gates, PhaseOK, Here, IInv
<1>4. ApprovalOK'
  BY DEF ApprovalOK, NeedsApproval, GatesOK, Required, Gates, PhaseOK, Here, IInv
<1>5. OutcomeOK'
  BY DEF OutcomeOK, Required, GatesOK, Gates, PhaseOK, Here, IInv
<1>6. ReworkOK'
  BY DEF ReworkOK, TypeOK, PhaseOK, Here, IInv
<1> QED
  BY <1>1, <1>2, <1>3, <1>4, <1>5, <1>6 DEF IInv

-----------------------------------------------------------------------------
\* IInv is inductive.
LEMMA InvStep == IInv /\ [Next]_vars => IInv'
<1> SUFFICES ASSUME IInv, [Next]_vars PROVE IInv'
  OBVIOUS
<1>1. CASE Coroutine
  BY <1>1, CheckpointStep, PreparationStep, ReadinessStep, PlanningStep, ReworkStep,
     ReviewStep, PublicationStep, AsideDoneStep, ActivityFailsStep DEF Coroutine
<1>2. CASE Handlers
  BY <1>2, HandlersStep
<1>3. CASE AuditRecorded
  BY <1>3, AuditRecordedStep
<1>4. CASE Closed \/ UNCHANGED vars
  BY <1>4 DEF Closed, vars, steering, inbox, progress, IInv, TypeOK, PhaseOK, GatesOK,
              ApprovalOK, OutcomeOK, ReworkOK, Here, Required, NeedsApproval
<1> QED
  BY <1>1, <1>2, <1>3, <1>4 DEF Next

\* IInv holds throughout: every coroutine step and every handler preserves it,
\* for all tiers, caps, configurations and sets of signals.
THEOREM Inductive == Spec => []IInv
  BY InvInit, InvStep, PTL DEF Spec

\* Type correctness of the workflow's state.
THEOREM TypeCorrect == Spec => []TypeOK
<1>1. IInv => TypeOK
  BY DEF IInv
<1> QED
  BY Inductive, <1>1, PTL

\* In every configuration, and whatever is signalled when, no stage works and
\* nothing is delivered before every gate configured ahead of it was passed.
THEOREM GatesHold == Spec => []GatedStages
<1>1. IInv => GatedStages
  BY DEF IInv, GatedStages, GatesOK, OutcomeOK, Here
<1> QED
  BY Inductive, <1>1, PTL

\* The two loopback caps bound the implementations of a run, whatever they are.
THEOREM ReworkIsBounded == Spec => []BoundedRework
<1>1. IInv => BoundedRework
  BY PipelineAssumption DEF IInv, TypeOK, ReworkOK, BoundedRework
<1> QED
  BY Inductive, <1>1, PTL

\* No checkpoint starts a stage while a pause, an abort or a redirect is
\* outstanding, in whatever order they came.
THEOREM SteeringIsHonoured == Spec => SteeringHonoured
<1>1. ASSUME [Next]_vars, phase' = "activity", phase # "activity"
      PROVE  ~paused /\ ~aborted /\ redirectTarget = NoStage
  <2>1. CASE BeginStage
    BY <2>1 DEF BeginStage, AtDecision, Released
  <2>2. CASE EnterHold \/ ReturnAborted \/ ContinueAsNew
    BY <1>1, <2>2 DEF EnterHold, ReturnAborted, ContinueAsNew, Return
  <2>3. CASE Coroutine /\ ~Checkpoint
    BY <1>1, <2>3 DEF Coroutine, Preparation, IntakeAccepted, IntakeRejected, AfterIntake,
         ContextDone, AfterContext, TrustTierDone, Readiness, ReadinessProceeds,
         ReadinessEscalates, ReadinessHolds, ReadinessReevaluated, ReadinessTimeout,
         Planning, IntentDone, AfterIntent, RouterDone, AssemblerDone, PreflightApproves,
         PreflightObjects, ReassembleDone, SecondPreflightDone, Rework, ImplementDone,
         VerifyPasses, VerifyLoopsBack, VerifyExhausted, QaPasses, QaLoopsBack, QaExhausted,
         Review, ApprovalRequested, AfterApprovalRequest, ReviewApproved, ReviewRejected,
         ReviewTimeout, EscalateDone, Publication, PublishDone, MonitorStarts, Finish,
         AsideDone, ActivityFails, FirstAside, InActivity, GoTo, Suspend, Return
  <2>4. CASE Handlers \/ AuditRecorded
    BY <1>1, <2>4 DEF Handlers, Verdict, ReadinessCleared, PauseTask, ResumeTask, AbortTask,
         RedirectTask, RetryStage, Steer, AuditRecorded
  <2>5. CASE Closed \/ UNCHANGED vars
    BY <1>1, <2>5 DEF Closed, vars
  <2> QED
    BY <1>1, <2>1, <2>2, <2>3, <2>4, <2>5 DEF Next, Coroutine, Checkpoint
<1>2. [Next]_vars => [ phase' = "activity" /\ phase # "activity"
                         => ~paused /\ ~aborted /\ redirectTarget = NoStage ]_vars
  BY <1>1
<1> QED
  BY <1>2, PTL DEF Spec, SteeringHonoured

-----------------------------------------------------------------------------
(* The pipeline implements Delivery *)

\* The abstract variables are constant on the steps that change neither the
\* gates passed nor the verdicts nor the outcome nor close the run.
LEMMA PromiseStutters ==
  ASSUME UNCHANGED << params, passed, verdicts, outcome >>, phase # "closed", phase' # "closed"
  PROVE  UNCHANGED Promise!vars
  BY DEF Promise!vars, NeedsApproval, SaidOfPublication

\* A verdict on the publication is said, one on the plans is nothing to Delivery.
LEMMA PromiseHears ==
  ASSUME NEW v \in Verdicts, Verdict(v)
  PROVE  Promise!Next \/ UNCHANGED Promise!vars
<1> USE DEF Verdict, Sent, progress, steering, NeedsApproval, SaidOfPublication
<1>1. PICK w \in { "approve", "reject" } : v[2] = w
  BY DEF Verdicts
<1>2. CASE v[1] = "publish"
  <2>1. v = << "publish", w >>
    BY <1>1, <1>2 DEF Verdicts
  <2>2. SaidOfPublication' = SaidOfPublication \cup {w}
    BY <1>1, <2>1
  <2>3. Promise!Say(w)
    BY <2>2 DEF Promise!Say
  <2> QED
    BY <1>1, <2>3 DEF Promise!Next
<1>3. CASE v[1] # "publish"
  <2>1. SaidOfPublication' = SaidOfPublication
    BY <1>3
  <2> QED
    BY <2>1 DEF Promise!vars
<1> QED
  BY <1>2, <1>3

\* A run that ends before its publication delivers nothing any more.
LEMMA PromiseFinishes ==
  ASSUME IInv, NEW result, Return(result), result # "success", UNCHANGED passed,
         phase \notin { "closed", "sync", "comment", "after", "monitor" }
  PROVE  Promise!Next
<1>1. outcome # "success"
  BY DEF IInv, OutcomeOK
<1>2. Promise!Finish
  BY <1>1 DEF Promise!Finish, Return, NeedsApproval, SaidOfPublication, inbox
<1> QED
  BY <1>2 DEF Promise!Next

\* Every step of the pipeline is a step of Delivery or changes nothing there.
LEMMA PromiseStep == IInv /\ [Next]_vars => [Promise!Next]_(Promise!vars)
<1> SUFFICES ASSUME IInv, [Next]_vars PROVE Promise!Next \/ UNCHANGED Promise!vars
  OBVIOUS
<1>1. CASE Checkpoint
  <2>1. CASE EnterHold \/ BeginStage
    BY <2>1, PromiseStutters DEF EnterHold, BeginStage, AtDecision, progress, inbox
  <2>2. CASE ReturnAborted
    BY <2>2, PromiseFinishes DEF ReturnAborted, AtDecision, progress
  <2>3. CASE ContinueAsNew
    <3>1. phase # "closed" /\ outcome # "success"
      BY <2>3 DEF ContinueAsNew, AtDecision, IInv, OutcomeOK
    <3>2. Promise!Restart
      BY <2>3, <3>1 DEF ContinueAsNew, Promise!Restart, Promise!Working, NeedsApproval,
           SaidOfPublication
    <3> QED
      BY <3>2 DEF Promise!Next
  <2> QED
    BY <1>1, <2>1, <2>2, <2>3 DEF Checkpoint
<1>2. CASE Preparation
  <2>1. CASE IntakeRejected
    BY <2>1, PromiseFinishes DEF IntakeRejected, InActivity, progress
  <2>2. CASE IntakeAccepted \/ AfterIntake \/ ContextDone \/ AfterContext \/ TrustTierDone
    BY <2>2, PromiseStutters DEF IntakeAccepted, AfterIntake, ContextDone, AfterContext,
         TrustTierDone, InActivity, Suspend, GoTo, FirstAside, progress, inbox
  <2> QED
    BY <1>2, <2>1, <2>2 DEF Preparation
<1>3. CASE Readiness
  <2>1. CASE ReadinessEscalates \/ ReadinessTimeout
    BY <2>1, PromiseFinishes DEF ReadinessEscalates, ReadinessTimeout, InActivity, progress
  <2>2. CASE ReadinessHolds \/ ReadinessReevaluated
    BY <2>2, PromiseStutters DEF ReadinessHolds, ReadinessReevaluated, InActivity, GoTo,
         progress, inbox
  <2>3. CASE ReadinessProceeds
    <3>1. UNCHANGED Promise!vars
      BY <2>3 DEF ReadinessProceeds, InActivity, GoTo, Promise!vars, NeedsApproval,
           SaidOfPublication, inbox
    <3> QED
      BY <3>1
  <2> QED
    BY <1>3, <2>1, <2>2, <2>3 DEF Readiness
<1>4. CASE Planning
  BY <1>4, PromiseStutters DEF Planning, IntentDone, AfterIntent, RouterDone, AssemblerDone,
       PreflightApproves, PreflightObjects, ReassembleDone, SecondPreflightDone, InActivity,
       GoTo, Suspend, FirstAside, progress, inbox
<1>5. CASE Rework
  <2> USE DEF InActivity, GoTo, Promise!Working, NeedsApproval, SaidOfPublication, inbox
  <2>1. CASE VerifyExhausted \/ QaExhausted
    BY <2>1, PromiseFinishes DEF VerifyExhausted, QaExhausted, progress
  <2>2. CASE VerifyLoopsBack \/ QaLoopsBack
    BY <2>2, PromiseStutters DEF VerifyLoopsBack, QaLoopsBack
  <2>3. CASE ImplementDone
    <3>1. Promise!Rework
      BY <2>3 DEF ImplementDone, Promise!Rework, IInv, OutcomeOK, ApprovalOK, Here
    <3> QED
      BY <3>1 DEF Promise!Next
  <2>4. CASE VerifyPasses \/ QaPasses
    <3>1. Promise!CheckPasses \/ UNCHANGED Promise!vars
      BY <2>4 DEF VerifyPasses, QaPasses, Promise!CheckPasses, Promise!vars, IInv, OutcomeOK
    <3> QED
      BY <3>1 DEF Promise!Next
  <2> QED
    BY <1>5, <2>1, <2>2, <2>3, <2>4 DEF Rework
<1>6. CASE Review
  <2>1. CASE ApprovalRequested \/ AfterApprovalRequest
    BY <2>1, PromiseStutters DEF ApprovalRequested, AfterApprovalRequest, InActivity,
         Suspend, FirstAside, progress, inbox
  <2>2. CASE ReviewApproved
    <3> USE <2>2 DEF ReviewApproved, InReview, ReviewStages, ReviewOf, GoTo, Said,
                    SaidOfPublication, inbox
    <3>1. CASE currentStep = "awaiting_approval"
      <4>1. NeedsApproval(params) /\ { "verify", "qa" } \subseteq passed
        BY <3>1 DEF IInv, PhaseOK, GatesOK, Required, Gates, Here
      <4>2. Promise!Accept
        BY <3>1, <4>1 DEF Promise!Accept, Promise!Working, IInv, OutcomeOK, NeedsApproval
      <4> QED
        BY <4>2 DEF Promise!Next
    <3>2. CASE currentStep \in { "intent", "router" }
      <4>1. UNCHANGED Promise!vars
        BY <3>2 DEF Promise!vars, NeedsApproval
      <4> QED
        BY <4>1
    <3> QED
      BY <3>1, <3>2
  <2>3. CASE ReviewRejected \/ EscalateDone
    BY <2>3, PromiseFinishes DEF ReviewRejected, EscalateDone, InReview, progress
  <2>4. CASE ReviewTimeout
    BY <2>4, PromiseFinishes, PromiseStutters DEF ReviewTimeout, InReview, Suspend, progress,
         inbox
  <2> QED
    BY <1>6, <2>1, <2>2, <2>3, <2>4 DEF Review
<1>7. CASE Publication
  <2>1. CASE PublishDone
    <3>1. /\ { "verify", "qa" } \subseteq passed
          /\ NeedsApproval(params) => "publish" \in passed
      BY <2>1 DEF PublishDone, InActivity, IInv, GatesOK, Required, Gates, Here
    <3>2. Promise!Deliver
      BY <2>1, <3>1 DEF PublishDone, InActivity, FirstAside, Promise!Deliver,
           Promise!Working, IInv, OutcomeOK, NeedsApproval, SaidOfPublication, progress, inbox
    <3> QED
      BY <3>2 DEF Promise!Next
  <2>2. CASE MonitorStarts
    BY <2>2, PromiseStutters DEF MonitorStarts, Suspend, progress, inbox
  <2>3. CASE Finish
    <3>1. outcome = "success" /\ phase # "closed"
      BY <2>3 DEF Finish, IInv, OutcomeOK, PhaseOK
    <3>2. Promise!Finish
      BY <2>3, <3>1 DEF Finish, Return, Promise!Finish, NeedsApproval, SaidOfPublication, progress,
           inbox
    <3> QED
      BY <3>2 DEF Promise!Next
  <2> QED
    BY <1>7, <2>1, <2>2, <2>3 DEF Publication
<1>8. CASE AsideDone
  BY <1>8, PromiseStutters DEF AsideDone, Suspend, progress, inbox
<1>9. CASE ActivityFails
  BY <1>9, PromiseFinishes DEF ActivityFails, progress
<1>10. CASE Handlers
  BY <1>10, PromiseStutters, PromiseHears DEF Handlers, ReadinessCleared, PauseTask,
       ResumeTask, AbortTask, RedirectTask, RetryStage, Sent, Steer, progress, inbox
<1>11. CASE AuditRecorded \/ Closed \/ UNCHANGED vars
  BY <1>11 DEF AuditRecorded, Closed, vars, progress, inbox, Promise!vars,
       NeedsApproval, SaidOfPublication
<1> QED
  BY <1>1, <1>2, <1>3, <1>4, <1>5, <1>6, <1>7, <1>8, <1>9, <1>10, <1>11 DEF Next, Coroutine

\* Whatever stages a task goes through and whatever is signalled on the way,
\* what leaves the pipeline was checked and, where a human decides, approved in
\* this run with no rejection by then; what was said stays said until a restart.
THEOREM ImplementsDelivery == Spec => KeepsPromise
<1>1. Init => Promise!Init
  <2> SUFFICES ASSUME Init PROVE Promise!Init
    OBVIOUS
  <2>1. NeedsApproval(params) \in BOOLEAN
    BY DEF NeedsApproval
  <2> QED
    BY <2>1 DEF Init, Promise!Init, SaidOfPublication
<1> QED
  BY <1>1, Inductive, PromiseStep, PTL DEF Spec, KeepsPromise, Promise!Spec

=============================================================================
