------------------------------ MODULE Pipeline ------------------------------
(***************************************************************************)
(* One task's TheStudioPipelineWorkflow (src/workflow/pipeline.py): the    *)
(* Temporal coroutine run(), the signal handlers that steer it, and the    *)
(* checkpoints between activities where the two meet.                      *)
(*                                                                         *)
(* The coroutine runs without interruption from one await to the next, and *)
(* a handler runs without interruption up to its own first await.  A state *)
(* is therefore a point where the coroutine is suspended; `phase' says on  *)
(* what.  Between the arrival of a result and the next checkpoint nothing  *)
(* but handlers can run, and they run as if the result had come later, so  *)
(* the arrival ("checkpoint", "after") is a state of its own.              *)
(***************************************************************************)
EXTENDS Naturals, FiniteSets

CONSTANTS
  Tiers,                     \* repo_tier values
  ApprovalTiers,             \* APPROVAL_REQUIRED_TIERS
  MaxVerificationLoopbacks,
  MaxQaLoopbacks,
  MaxReadinessEvaluations,
  Configurations,            \* the inputs a workflow may be started with
  Signals,                   \* the kinds of signal the outside sends
  RedirectTargets            \* the target_stage arguments of redirect_task

\* Position of each stage in the pipeline.
StageOrder ==
  [ intake |-> 1, context |-> 2, readiness |-> 3, intent |-> 4,
    awaiting_intent_review |-> 5, router |-> 6, awaiting_routing_review |-> 7,
    assembler |-> 8, preflight |-> 9, implement |-> 10, verify |-> 11,
    qa |-> 12, awaiting_approval |-> 13, publish |-> 14 ]

Stages == { "intake", "context", "readiness", "intent",
            "awaiting_intent_review", "router", "awaiting_routing_review",
            "assembler", "preflight", "implement", "verify", "qa",
            "awaiting_approval", "publish" }

NoStage == ""

\* The fields of PipelineInput that run() branches on.  start_from_stage and
\* clear_artifacts_for_stage are written by continue_as_new and read nowhere.
PipelineInput ==
  [ repo_tier : Tiers, preflight_tiers : SUBSET Tiers,
    readiness_gate_enabled : BOOLEAN, preflight_enabled : BOOLEAN,
    intent_review_enabled : BOOLEAN, routing_review_enabled : BOOLEAN,
    approval_auto_bypass : BOOLEAN, projects_v2_enabled : BOOLEAN,
    pipeline_comments_enabled : BOOLEAN ]

SteeringSignals == { "pause", "resume", "abort", "redirect", "retry" }

\* The three human reviews and the stage whose coroutine waits for each.
ReviewOf == [ intent |-> "intent", router |-> "routing",
              awaiting_approval |-> "publish" ]
ReviewStages == { "intent", "router", "awaiting_approval" }
Verdicts == { "intent", "routing", "publish" } \X { "approve", "reject" }

\* What can be passed on the way: automatic gates and human reviews.
Gates == { "readiness", "verify", "qa", "intent", "routing", "publish" }

Outcomes ==
  { "running", "success", "failed", "aborted", "intake_rejected",
    "readiness_escalated", "timeout", "review_rejected",
    "verify_exhausted", "qa_exhausted" }

Phases ==
  { "checkpoint",         \* about to enter _await_if_paused
    "hold",               \* held there by a pause
    "activity",           \* the stage's own activity is in flight
    "sync", "comment",    \* best-effort activities after it
    "after",              \* those are over
    "trust_tier", "reassemble", "second_preflight",
    "waiting",            \* wait_condition on a human
    "escalate", "monitor", "closed" }

ASSUME PipelineAssumption ==
  /\ MaxVerificationLoopbacks \in Nat
  /\ MaxQaLoopbacks \in Nat
  /\ MaxReadinessEvaluations \in Nat \ {0}
  /\ ApprovalTiers \subseteq Tiers
  /\ Configurations \subseteq PipelineInput
  /\ RedirectTargets \subseteq Stages

VARIABLES
  params,          \* PipelineInput of the run
  currentStep,     \* _current_step
  next,            \* the stage of the next checkpoint
  phase,
  verdicts,        \* the _approved / _rejected flags that are set
  cleared,         \* _readiness_cleared
  paused,          \* _paused
  aborted,         \* _aborted
  redirectTarget,  \* _redirect_target
  retryClear,      \* _retry_clear_stage
  loopbacks,       \* verification_loopbacks and qa_loopbacks
  evaluations,     \* evaluation_count
  outcome,         \* success and rejection_reason of the output
  audit,           \* persist_steering_audit_activity of the latest signal
  passed,          \* history: the gates passed in this run, by this revision
  attempts         \* history: implementations finished in this run

steering == << paused, aborted, redirectTarget, retryClear, audit >>
inbox    == << verdicts, cleared >>
progress == << loopbacks, evaluations, passed, attempts >>
vars == << params, currentStep, next, phase, outcome, steering, inbox, progress >>

TypeOK ==
  /\ params \in PipelineInput
  /\ currentStep \in Stages \cup {NoStage}
  /\ next \in Stages
  /\ phase \in Phases
  /\ verdicts \subseteq Verdicts
  /\ cleared \in BOOLEAN
  /\ paused \in BOOLEAN
  /\ aborted \in BOOLEAN
  /\ redirectTarget \in Stages \cup {NoStage}
  /\ retryClear \in Stages \cup {NoStage}
  /\ loopbacks \in [ verify : 0..MaxVerificationLoopbacks, qa : 0..MaxQaLoopbacks ]
  /\ evaluations \in 0..MaxReadinessEvaluations
  /\ outcome \in Outcomes
  /\ audit \in { "idle", "scheduled", "lost" }
  /\ passed \subseteq Gates
  /\ attempts \in Nat

-----------------------------------------------------------------------------
\* __init__: a workflow object that has not run yet.
Init ==
  /\ params \in Configurations
  /\ currentStep = NoStage
  /\ next = "intake"
  /\ phase = "checkpoint"
  /\ verdicts = {}
  /\ cleared = FALSE
  /\ paused = FALSE
  /\ aborted = FALSE
  /\ redirectTarget = NoStage
  /\ retryClear = NoStage
  /\ loopbacks = [ verify |-> 0, qa |-> 0 ]
  /\ evaluations = 0
  /\ outcome = "running"
  /\ audit = "idle"
  /\ passed = {}
  /\ attempts = 0

-----------------------------------------------------------------------------
\* A run that ends leaves a scheduled audit activity behind: the worker may
\* have picked it up already, or the service drops it with the run.
AuditAtClose == audit' \in IF audit = "scheduled" THEN {"scheduled", "lost"} ELSE {audit}

\* run() returns, or raises after an activity exhausted its retries.
Return(result) ==
  /\ phase' = "closed"
  /\ outcome' = result
  /\ AuditAtClose
  /\ UNCHANGED << params, currentStep, next, paused, aborted, redirectTarget,
                  retryClear, inbox >>

\* The coroutine reaches the checkpoint of stage s.
GoTo(s) ==
  /\ phase' = "checkpoint"
  /\ next' = s
  /\ UNCHANGED << params, currentStep, outcome, steering, inbox >>

\* The coroutine suspends on something else within the same stage.
Suspend(p) ==
  /\ phase' = p
  /\ UNCHANGED << params, currentStep, next, outcome, steering, inbox >>

InActivity(s) == phase = "activity" /\ currentStep = s

NeedsApproval(p) == p.repo_tier \in ApprovalTiers /\ ~p.approval_auto_bypass
\* preflight_tiers stands for the names in lower case, which is what is compared.
NeedsPreflight(p) == p.preflight_enabled /\ p.repo_tier \in p.preflight_tiers

-----------------------------------------------------------------------------
(* _await_if_paused *)

\* Mutants: the hold forgets to look at the abort flag; it does not hold.
ReleasedIgnoringAbort == ~paused \/ redirectTarget # NoStage
ReleasedAtOnce == TRUE

\* The hold: its wait_condition ends on resume, abort, redirect and retry.
Released == ~paused \/ aborted \/ redirectTarget # NoStage

EnterHold ==
  /\ phase = "checkpoint"
  /\ paused
  /\ phase' = "hold"
  /\ currentStep' = next
  /\ UNCHANGED << params, next, outcome, steering, inbox, progress >>

AtDecision ==
  \/ phase = "checkpoint" /\ ~paused
  \/ phase = "hold" /\ Released

\* No redirect and no abort: the stage's activity is scheduled.
BeginStage ==
  /\ AtDecision
  /\ redirectTarget = NoStage
  /\ ~aborted
  /\ phase' = "activity"
  /\ currentStep' = next
  /\ UNCHANGED << params, next, outcome, steering, inbox, progress >>

ReturnAborted ==
  /\ AtDecision
  /\ redirectTarget = NoStage
  /\ aborted
  /\ Return("aborted")
  /\ UNCHANGED progress

\* A pending redirect is applied before the abort flag is looked at: a new
\* workflow object with the same input starts again at intake.
ContinueAsNew ==
  /\ AtDecision
  /\ redirectTarget # NoStage
  /\ currentStep' = NoStage
  /\ next' = "intake"
  /\ phase' = "checkpoint"
  /\ verdicts' = {}
  /\ cleared' = FALSE
  /\ paused' = FALSE
  /\ aborted' = FALSE
  /\ redirectTarget' = NoStage
  /\ retryClear' = NoStage
  /\ loopbacks' = [ verify |-> 0, qa |-> 0 ]
  /\ evaluations' = 0
  /\ passed' = {}
  /\ attempts' = 0
  /\ AuditAtClose
  /\ UNCHANGED << params, outcome >>

-----------------------------------------------------------------------------
(* Best-effort activities after a stage: _sync_project_status and           *)
(* _post_pipeline_comment.  Their failure is swallowed, so only their       *)
(* awaits matter here.                                                      *)

Asides(s) ==
  { a \in { "sync", "comment" } :
      \/ /\ a = "sync"
         /\ params.projects_v2_enabled
         /\ s \in { "intake", "context", "intent", "awaiting_approval", "publish" }
      \/ /\ a = "comment"
         /\ params.pipeline_comments_enabled
         /\ s \in { "context", "publish" } }

FirstAside(s) == IF "sync" \in Asides(s) THEN "sync"
                 ELSE IF "comment" \in Asides(s) THEN "comment" ELSE "after"

AsideDone ==
  /\ \/ phase = "sync" /\ Suspend(IF "comment" \in Asides(currentStep)
                                  THEN "comment" ELSE "after")
     \/ phase = "comment" /\ Suspend("after")
  /\ UNCHANGED progress

-----------------------------------------------------------------------------
(* Intake, context, trust tier, readiness *)

IntakeAccepted ==
  /\ InActivity("intake")
  /\ Suspend(FirstAside("intake"))
  /\ UNCHANGED progress

IntakeRejected ==
  /\ InActivity("intake")
  /\ Return("intake_rejected")
  /\ UNCHANGED progress

AfterIntake ==
  /\ phase = "after" /\ currentStep = "intake"
  /\ GoTo("context")
  /\ UNCHANGED progress

ContextDone ==
  /\ InActivity("context")
  /\ Suspend(FirstAside("context"))
  /\ UNCHANGED progress

AfterContext ==
  /\ phase = "after" /\ currentStep = "context"
  /\ Suspend("trust_tier")
  /\ UNCHANGED progress

TrustTierDone ==
  /\ phase = "trust_tier"
  /\ GoTo(IF params.readiness_gate_enabled THEN "readiness" ELSE "intent")
  /\ UNCHANGED progress

ReadinessProceeds ==
  /\ InActivity("readiness")
  /\ evaluations' = evaluations + 1
  /\ passed' = passed \cup {"readiness"}
  /\ GoTo("intent")
  /\ UNCHANGED << loopbacks, attempts >>

ReadinessEscalates ==
  /\ InActivity("readiness")
  /\ evaluations + 1 >= MaxReadinessEvaluations
  /\ evaluations' = evaluations + 1
  /\ Return("readiness_escalated")
  /\ UNCHANGED << loopbacks, passed, attempts >>

\* The wait for readiness_cleared starts by resetting the flag: a signal that
\* came while the evaluation was in flight is forgotten.
ReadinessHolds ==
  /\ InActivity("readiness")
  /\ evaluations + 1 < MaxReadinessEvaluations
  /\ evaluations' = evaluations + 1
  /\ cleared' = FALSE
  /\ phase' = "waiting"
  /\ UNCHANGED << params, currentStep, next, outcome, steering, verdicts,
                  loopbacks, passed, attempts >>

ReadinessReevaluated ==
  /\ phase = "waiting" /\ currentStep = "readiness"
  /\ cleared
  /\ GoTo("readiness")
  /\ UNCHANGED progress

\* Mutant: the wait has no timeout.
ReadinessWaitsForever == FALSE

ReadinessTimeout ==
  /\ phase = "waiting" /\ currentStep = "readiness"
  /\ ~cleared
  /\ Return("timeout")
  /\ UNCHANGED progress

-----------------------------------------------------------------------------
(* Intent, routing, assembly, preflight *)

IntentDone ==
  /\ InActivity("intent")
  /\ Suspend(FirstAside("intent"))
  /\ UNCHANGED progress

AfterIntent ==
  /\ phase = "after" /\ currentStep = "intent"
  /\ IF params.intent_review_enabled THEN Suspend("waiting") ELSE GoTo("router")
  /\ UNCHANGED progress

RouterDone ==
  /\ InActivity("router")
  /\ IF params.routing_review_enabled THEN Suspend("waiting") ELSE GoTo("assembler")
  /\ UNCHANGED progress

AssemblerDone ==
  /\ InActivity("assembler")
  /\ GoTo(IF NeedsPreflight(params) THEN "preflight" ELSE "implement")
  /\ UNCHANGED progress

PreflightApproves ==
  /\ InActivity("preflight")
  /\ GoTo("implement")
  /\ UNCHANGED progress

\* One loopback to the assembler and a second review, with no checkpoint on
\* the way, and whatever the second review says the pipeline goes on.
PreflightObjects ==
  /\ InActivity("preflight")
  /\ Suspend("reassemble")
  /\ UNCHANGED progress

ReassembleDone ==
  /\ phase = "reassemble"
  /\ Suspend("second_preflight")
  /\ UNCHANGED progress

SecondPreflightDone ==
  /\ phase = "second_preflight"
  /\ GoTo("implement")
  /\ UNCHANGED progress

-----------------------------------------------------------------------------
(* The implement - verify - QA loop *)

ImplementDone ==
  /\ InActivity("implement")
  /\ attempts' = attempts + 1
  /\ passed' = passed \ { "verify", "qa" }
  /\ GoTo("verify")
  /\ UNCHANGED << loopbacks, evaluations >>

VerifyPasses ==
  /\ InActivity("verify")
  /\ passed' = passed \cup {"verify"}
  /\ GoTo("qa")
  /\ UNCHANGED << loopbacks, evaluations, attempts >>

\* Mutant: the cap is compared after the loopback it should prevent.
VerifyLoopsBackOnceMore ==
  /\ InActivity("verify")
  /\ loopbacks.verify <= MaxVerificationLoopbacks
  /\ loopbacks' = [ loopbacks EXCEPT !.verify = @ + 1 ]
  /\ GoTo("implement")
  /\ UNCHANGED << evaluations, passed, attempts >>

VerifyLoopsBack ==
  /\ InActivity("verify")
  /\ loopbacks.verify < MaxVerificationLoopbacks
  /\ loopbacks' = [ loopbacks EXCEPT !.verify = @ + 1 ]
  /\ GoTo("implement")
  /\ UNCHANGED << evaluations, passed, attempts >>

\* verify_activity never sets VerifyOutput.exhausted, so only the cap ends it.
VerifyExhausted ==
  /\ InActivity("verify")
  /\ loopbacks.verify >= MaxVerificationLoopbacks
  /\ Return("verify_exhausted")
  /\ UNCHANGED progress

\* Mutant: the tier is not asked for.
QaPassesToPublish ==
  /\ InActivity("qa")
  /\ passed' = passed \cup {"qa"}
  /\ GoTo("publish")
  /\ UNCHANGED << loopbacks, evaluations, attempts >>

QaPasses ==
  /\ InActivity("qa")
  /\ passed' = passed \cup {"qa"}
  /\ GoTo(IF NeedsApproval(params) THEN "awaiting_approval" ELSE "publish")
  /\ UNCHANGED << loopbacks, evaluations, attempts >>

\* Mutant: a QA loopback gives the verification its loopbacks back.
QaLoopsBackAfresh ==
  /\ InActivity("qa")
  /\ loopbacks.qa < MaxQaLoopbacks
  /\ loopbacks' = [ verify |-> 0, qa |-> loopbacks.qa + 1 ]
  /\ GoTo("implement")
  /\ UNCHANGED << evaluations, passed, attempts >>

QaLoopsBack ==
  /\ InActivity("qa")
  /\ loopbacks.qa < MaxQaLoopbacks
  /\ loopbacks' = [ loopbacks EXCEPT !.qa = @ + 1 ]
  /\ GoTo("implement")
  /\ UNCHANGED << evaluations, passed, attempts >>

QaExhausted ==
  /\ InActivity("qa")
  /\ loopbacks.qa >= MaxQaLoopbacks
  /\ Return("qa_exhausted")
  /\ UNCHANGED progress

-----------------------------------------------------------------------------
(* Human reviews: the intent spec, the routing, the publication *)

ApprovalRequested ==
  /\ InActivity("awaiting_approval")
  /\ Suspend(FirstAside("awaiting_approval"))
  /\ UNCHANGED progress

AfterApprovalRequest ==
  /\ phase = "after" /\ currentStep = "awaiting_approval"
  /\ Suspend("waiting")
  /\ UNCHANGED progress

StageAfterReview ==
  [ intent |-> "router", router |-> "assembler", awaiting_approval |-> "publish" ]

InReview == phase = "waiting" /\ currentStep \in ReviewStages
Said(verdict) == << ReviewOf[currentStep], verdict >> \in verdicts

\* Mutant: an approval wins over a rejection.
ReviewApprovedAnyway ==
  /\ InReview
  /\ Said("approve")
  /\ passed' = passed \cup { ReviewOf[currentStep] }
  /\ GoTo(StageAfterReview[currentStep])
  /\ UNCHANGED << loopbacks, evaluations, attempts >>

\* A verdict counts whenever it came, even before the wait.
ReviewApproved ==
  /\ InReview
  /\ Said("approve") /\ ~Said("reject")
  /\ passed' = passed \cup { ReviewOf[currentStep] }
  /\ GoTo(StageAfterReview[currentStep])
  /\ UNCHANGED << loopbacks, evaluations, attempts >>

ReviewRejected ==
  /\ InReview
  /\ Said("reject")
  /\ Return("review_rejected")
  /\ UNCHANGED progress

\* A verdict that is there when the coroutine resumes wins over the timer.
ReviewTimeout ==
  /\ InReview
  /\ ~Said("approve") /\ ~Said("reject")
  /\ IF currentStep = "awaiting_approval" THEN Suspend("escalate") ELSE Return("timeout")
  /\ UNCHANGED progress

EscalateDone ==
  /\ phase = "escalate"
  /\ Return("timeout")
  /\ UNCHANGED progress

-----------------------------------------------------------------------------
(* Publish *)

PublishDone ==
  /\ InActivity("publish")
  /\ phase' = FirstAside("publish")
  /\ outcome' = "success"
  /\ UNCHANGED << params, currentStep, next, steering, inbox, progress >>

\* With auto-merge enabled, a monitor activity before the return.
MonitorStarts ==
  /\ phase = "after" /\ currentStep = "publish"
  /\ Suspend("monitor")
  /\ UNCHANGED progress

\* Mutant: a redirect that is pending when the publication is over is applied.
FinishAtCheckpoint ==
  /\ \/ phase = "after" /\ currentStep = "publish"
     \/ phase = "monitor"
  /\ IF redirectTarget = NoStage THEN Return("success") ELSE GoTo("publish")
  /\ UNCHANGED progress

Finish ==
  /\ \/ phase = "after" /\ currentStep = "publish"
     \/ phase = "monitor"
  /\ Return("success")
  /\ UNCHANGED progress

\* An activity that must succeed has used up its attempts.
ActivityFails ==
  /\ phase \in { "activity", "trust_tier", "reassemble", "second_preflight", "escalate" }
  /\ Return("failed")
  /\ UNCHANGED progress

Checkpoint  == EnterHold \/ BeginStage \/ ReturnAborted \/ ContinueAsNew
Preparation == \/ IntakeAccepted \/ IntakeRejected \/ AfterIntake
               \/ ContextDone \/ AfterContext \/ TrustTierDone
Readiness   == \/ ReadinessProceeds \/ ReadinessEscalates \/ ReadinessHolds
               \/ ReadinessReevaluated \/ ReadinessTimeout
Planning    == \/ IntentDone \/ AfterIntent \/ RouterDone \/ AssemblerDone
               \/ PreflightApproves \/ PreflightObjects
               \/ ReassembleDone \/ SecondPreflightDone
Rework      == \/ ImplementDone
               \/ VerifyPasses \/ VerifyLoopsBack \/ VerifyExhausted
               \/ QaPasses \/ QaLoopsBack \/ QaExhausted
Review      == \/ ApprovalRequested \/ AfterApprovalRequest
               \/ ReviewApproved \/ ReviewRejected \/ ReviewTimeout \/ EscalateDone
Publication == PublishDone \/ MonitorStarts \/ Finish

Coroutine == \/ Checkpoint \/ Preparation \/ Readiness \/ Planning \/ Rework
             \/ Review \/ Publication \/ AsideDone \/ ActivityFails

-----------------------------------------------------------------------------
(* Signal handlers.  A closed run takes no signal. *)

Sent(kind) == kind \in Signals /\ phase # "closed"

\* approve_publish, reject_publish, approve_intent, reject_intent,
\* approve_routing, override_routing: each sets its own flag.
Verdict(v) ==
  /\ Sent("verdict")
  /\ verdicts' = verdicts \cup {v}
  /\ UNCHANGED << params, currentStep, next, phase, outcome, steering, cleared, progress >>

ReadinessCleared ==
  /\ Sent("readiness_cleared")
  /\ cleared' = TRUE
  /\ UNCHANGED << params, currentStep, next, phase, outcome, steering, verdicts, progress >>

\* A steering handler sets its fields and schedules its audit activity.
Steer == /\ audit' = "scheduled"
         /\ UNCHANGED << params, currentStep, next, phase, outcome, inbox, progress >>

PauseTask ==
  /\ Sent("pause")
  /\ paused' = TRUE
  /\ Steer
  /\ UNCHANGED << aborted, redirectTarget, retryClear >>

ResumeTask ==
  /\ Sent("resume")
  /\ paused' = FALSE
  /\ Steer
  /\ UNCHANGED << aborted, redirectTarget, retryClear >>

AbortTask ==
  /\ Sent("abort")
  /\ aborted' = TRUE
  /\ paused' = FALSE
  /\ Steer
  /\ UNCHANGED << redirectTarget, retryClear >>

\* Only backwards from the current step; before the first checkpoint every
\* stage counts as backwards.
RedirectTask(target) ==
  /\ Sent("redirect")
  /\ currentStep # NoStage => StageOrder[target] < StageOrder[currentStep]
  /\ redirectTarget' = target
  /\ paused' = FALSE
  /\ Steer
  /\ UNCHANGED << aborted, retryClear >>

RetryStage ==
  /\ Sent("retry")
  /\ currentStep # NoStage
  /\ redirectTarget' = currentStep
  /\ retryClear' = currentStep
  /\ paused' = FALSE
  /\ Steer
  /\ UNCHANGED aborted

AuditRecorded ==
  /\ audit = "scheduled"
  /\ audit' = "idle"
  /\ UNCHANGED << params, currentStep, next, phase, outcome, paused, aborted,
                  redirectTarget, retryClear, inbox, progress >>

Handlers ==
  \/ \E v \in Verdicts : Verdict(v)
  \/ ReadinessCleared
  \/ PauseTask \/ ResumeTask \/ AbortTask
  \/ \E t \in RedirectTargets : RedirectTask(t)
  \/ RetryStage

\* The run is over: nothing is left to do but an audit record.
Closed == phase = "closed" /\ UNCHANGED vars

Next == Coroutine \/ Handlers \/ AuditRecorded \/ Closed

Spec == Init /\ [][Next]_vars

\* The Temporal service delivers workflow tasks, bounds every activity by its
\* start-to-close timeout and attempts, and keeps timers: a coroutine that can
\* go on does.  Nothing is assumed of the people who send signals.
FairSpec == Spec /\ WF_vars(Coroutine)

-----------------------------------------------------------------------------
(* Properties *)

\* The gates that must be passed before the activity of stage s starts.
Required(p, s) ==
  { g \in Gates :
      \/ /\ g = "readiness" /\ p.readiness_gate_enabled
         /\ s \notin { "intake", "context", "readiness" }
      \/ /\ g = "intent" /\ p.intent_review_enabled
         /\ s \notin { "intake", "context", "readiness", "intent" }
      \/ /\ g = "routing" /\ p.routing_review_enabled
         /\ s \notin { "intake", "context", "readiness", "intent", "router" }
      \/ /\ g = "verify"
         /\ s \in { "qa", "awaiting_approval", "publish" }
      \/ /\ g = "qa"
         /\ s \in { "awaiting_approval", "publish" }
      \/ /\ g = "publish" /\ NeedsApproval(p)
         /\ s = "publish" }

\* No stage works, and nothing is delivered, before every gate configured
\* ahead of it was passed in this run, verification and QA by the revision at
\* hand: loopbacks, holds and restarts open no way around a gate.  That a human
\* review was passed says nothing of when its verdict was sent.
GatedStages ==
  /\ phase = "activity" => Required(params, currentStep) \subseteq passed
  /\ outcome = "success" => Required(params, "publish") \subseteq passed

\* The two loopback counters together bound the rework: a run implements at
\* most once per loopback of either kind and once more.
BoundedRework == attempts <= 1 + MaxVerificationLoopbacks + MaxQaLoopbacks

\* A checkpoint lets no stage start while a pause, an abort or a redirect is
\* outstanding, whichever of them came last and whatever it undid.  The trust
\* tier, the second assembly and the second preflight start without one.
SteeringHonoured ==
  [][ phase' = "activity" /\ phase # "activity"
        => ~paused /\ ~aborted /\ redirectTarget = NoStage ]_vars

\* What was said of the publication: _approved and _rejected, which no new
\* revision resets.
SaidOfPublication == { v \in { "approve", "reject" } : << "publish", v >> \in verdicts }

\* What a delivery promises, independently of stages and signals: no pull
\* request without the checks of its revision and, where the tier asks for it,
\* without a human's approval in this run that the wait took up and that no
\* rejection had met by then.  An approval sent before the revision existed
\* counts: run() looks at the flag, not at when it was set.
Promise == INSTANCE Delivery WITH
             needsApproval <- NeedsApproval(params),
             checked       <- { "verify", "qa" } \subseteq passed,
             said          <- SaidOfPublication,
             accepted      <- "publish" \in passed,
             delivered     <- outcome = "success",
             over          <- phase = "closed"
\* Delivery is implemented: the verdicts are the human's, as they were sent.
KeepsPromise == Promise!Spec

\* An abort is observed, whatever pauses come with it: the run ends, or it is
\* replaced by a new run: a redirect that is still pending at the checkpoint
\* is applied first, and the new run knows of no abort.
AbortObserved == aborted ~> (phase = "closed" \/ ~aborted)

\* Left alone by people a run still ends: only holds, by a pause nobody
\* lifts, or restarts can go on forever.
Terminates ==
  <>[](phase = "closed") \/ []<>(phase = "hold") \/ []<>(currentStep = NoStage)

-----------------------------------------------------------------------------
(* The inductive invariant behind these properties *)

\* The stage the coroutine is at: the one ahead, while it is at a checkpoint.
Here == IF phase \in { "checkpoint", "hold" } THEN next ELSE currentStep

\* Where the coroutine can be suspended in each phase.
PhaseOK ==
  /\ phase # "closed" => Here \in Stages
  /\ phase \in { "sync", "comment", "after" }
       => currentStep \in { "intake", "context", "intent", "awaiting_approval", "publish" }
  /\ phase = "waiting" => currentStep \in ReviewStages \cup { "readiness" }
  /\ phase = "trust_tier" => currentStep = "context"
  /\ phase \in { "reassemble", "second_preflight" } => currentStep = "preflight"
  /\ phase = "escalate" => currentStep = "awaiting_approval"
  /\ phase = "monitor" => currentStep = "publish"
  /\ phase # "closed" /\ Here = "awaiting_approval" => NeedsApproval(params)
  /\ phase # "closed" /\ Here \in { "intake", "context", "readiness" }
       => evaluations < MaxReadinessEvaluations

\* GatedStages at every point of the run and not only where it matters.
GatesOK == phase # "closed" => Required(params, Here) \subseteq passed

\* A human's approval is the last gate, and verification and QA stay passed.
ApprovalOK ==
  "publish" \in passed =>
    /\ NeedsApproval(params)
    /\ { "verify", "qa" } \subseteq passed
    /\ phase # "closed" => Here = "publish"

\* The verdict on the run agrees with where it is.
OutcomeOK ==
  /\ outcome = "success" =>
       /\ Required(params, "publish") \subseteq passed
       /\ phase \in { "sync", "comment", "after", "monitor", "closed" }
       /\ phase # "closed" => currentStep = "publish"
  /\ phase \notin { "closed" } => outcome \in { "running", "success" }
  /\ phase \in { "after", "sync", "comment", "monitor" } /\ currentStep = "publish"
       => outcome = "success"

\* Each loopback pays for one implementation, the first one is free.
ReworkOK ==
  IF phase # "closed" /\ Here \notin { "verify", "qa", "awaiting_approval", "publish" }
    THEN attempts <= loopbacks.verify + loopbacks.qa
    ELSE attempts <= 1 + loopbacks.verify + loopbacks.qa

IInv == TypeOK /\ PhaseOK /\ GatesOK /\ ApprovalOK /\ OutcomeOK /\ ReworkOK

=============================================================================
