------------------------------ MODULE Control -------------------------------
(***************************************************************************)
(* The workflow with the people who steer it: the endpoints of the         *)
(* steering dashboard, of the planning dashboard's reviews, of the         *)
(* approval API and of the admin console, and the webhook that reports an  *)
(* edited issue.  Each reads the TaskPacket row, refuses what the status   *)
(* does not admit, and then signals the workflow.  The row may have moved  *)
(* and the workflow may have ended between the two.                        *)
(*                                                                         *)
(* Signals reach the workflow on no other way here, so what Pipeline       *)
(* leaves open (any signal at any time) is what people can really send.    *)
(***************************************************************************)
EXTENDS Pipeline, TaskPacket

CONSTANT Kinds       \* the requests people make

VARIABLES
  status,    \* of the TaskPacket row
  onTheWay,  \* requests that were admitted and have not signalled yet
  refused    \* history: requests that were ever answered 409

controlVars == << vars, status, onTheWay, refused >>

Steerings == { "pause", "resume", "abort", "redirect", "retry" }
\* The console's signals, for which the workflow has no handler.
Consoles == { "rerun_verification", "send_to_agent", "escalate" }

\* Each review's request, and the verdict its signal stands for.
Reviews ==
  [ approve |-> << "publish", "approve" >>, reject |-> << "publish", "reject" >>,
    approve_intent |-> << "intent", "approve" >>, reject_intent |-> << "intent", "reject" >>,
    approve_routing |-> << "routing", "approve" >>, override_routing |-> << "routing", "reject" >> ]

ASSUME ControlAssumption ==
  Kinds \subseteq Steerings \cup Consoles \cup DOMAIN Reviews \cup { "edit_issue" }

\* _TERMINAL_STATUSES of the steering dashboard
TerminalStatuses ==
  { "published", "failed", "aborted", "rejected", "awaiting_approval_expired" }

\* The statuses in which an endpoint goes on to signal.
Admitting(kind) ==
  CASE kind = "pause"                           -> Statuses \ (TerminalStatuses \cup {"paused"})
    [] kind \in { "abort", "redirect", "retry" } -> Statuses \ TerminalStatuses
    [] kind = "resume"                          -> { "paused" }
    [] kind \in { "approve", "reject" }         -> { "awaiting_approval" }
    [] kind = "edit_issue"                      -> { "clarification_requested" }
    [] kind \in Consoles                        -> Statuses
    [] OTHER                                    -> { "intent_built" }

\* The statuses in which an endpoint says that the request was met before.
MetAlready(kind) ==
  CASE kind = "approve" -> { "published" }
    [] kind = "reject"  -> { "rejected" }
    [] OTHER            -> {}

ControlInit ==
  /\ Init
  /\ status = "received"
  /\ onTheWay = {}
  /\ refused = {}

-----------------------------------------------------------------------------
\* An endpoint reads the row and refuses (409).
Refuse(kind) ==
  /\ status \notin Admitting(kind) \cup MetAlready(kind)
  /\ refused' = refused \cup {kind}
  /\ UNCHANGED << vars, status, onTheWay >>

\* An endpoint reads the row and connects to Temporal.
Admit(kind) ==
  /\ status \in Admitting(kind)
  /\ onTheWay' = onTheWay \cup {kind}
  /\ UNCHANGED << vars, status, refused >>

\* What the workflow's handler does.  retry_stage is also what a reviewer who
\* requests changes of the pull request sends.
Handled(kind) ==
  CASE kind = "pause"      -> PauseTask
    [] kind = "resume"     -> ResumeTask
    [] kind = "abort"      -> AbortTask
    [] kind = "redirect"   -> \E t \in RedirectTargets : RedirectTask(t)
    [] kind = "retry"      -> RetryStage
    [] kind = "edit_issue" -> ReadinessCleared
    [] OTHER               -> Verdict(Reviews[kind])

\* The approval API addresses the workflow "pipeline-<id>", which nobody
\* starts: start_workflow takes the bare id.
Addressed(kind) == kind \notin { "approve", "reject" }

SignalHandled(kind) ==
  /\ kind \in onTheWay
  /\ Addressed(kind) /\ kind \notin Consoles
  /\ Handled(kind)
  /\ onTheWay' = onTheWay \ {kind}
  /\ UNCHANGED << status, refused >>

\* The service knows no open workflow of that id and the call raises, or the
\* handler ignores the signal, or there is none.
SignalLost(kind) ==
  /\ kind \in onTheWay
  /\ kind \notin Consoles /\ Addressed(kind) /\ phase # "closed" =>
       \/ kind = "redirect" /\ currentStep # NoStage
            /\ \E t \in RedirectTargets : StageOrder[t] >= StageOrder[currentStep]
       \/ kind = "retry" /\ currentStep = NoStage
  /\ onTheWay' = onTheWay \ {kind}
  /\ UNCHANGED << vars, status, refused >>

\* publish_activity takes the row through the status chain and publishes it.
\* It is the only stage that writes the status, whatever the workflow is at:
\* pauses, aborts, reviews and their time-outs leave the row as it is.
StatusAdvances ==
  /\ InActivity("publish")
  /\ status' = CASE status = "received"            -> "enriched"
                 [] status = "enriched"            -> "intent_built"
                 [] status = "intent_built"        -> "in_progress"
                 [] status = "in_progress"         -> "verification_passed"
                 [] OTHER                          -> "published"
  /\ UNCHANGED << vars, onTheWay, refused >>

WorkflowSteps == (Coroutine \/ AuditRecorded) /\ UNCHANGED << status, onTheWay, refused >>

Requests == \E kind \in Kinds : \/ Refuse(kind) \/ Admit(kind)
                                \/ SignalHandled(kind) \/ SignalLost(kind)

AllOver == phase = "closed" /\ UNCHANGED controlVars

ControlNext == WorkflowSteps \/ StatusAdvances \/ Requests \/ AllOver

ControlSpec == ControlInit /\ [][ControlNext]_controlVars

-----------------------------------------------------------------------------
(* Properties *)

\* A published task is not worked on again: a redirect or a retry that was
\* admitted before the publication and arrives during it, or after it, starts
\* no stage of the pipeline.
PublishedIsLast ==
  [][ phase' = "activity" /\ phase # "activity" => status # "published" ]_controlVars

\* The workflow is waiting for what the request brings.
AwaitedBy(kind) ==
  CASE kind = "resume"              -> phase = "hold"
    [] kind = "edit_issue"          -> phase = "waiting" /\ currentStep = "readiness"
    [] kind \in DOMAIN Reviews      -> InReview /\ ReviewOf[currentStep] = Reviews[kind][1]
    [] OTHER                        -> FALSE

\* "409 - task is not currently paused", "Task is not awaiting approval": an
\* endpoint refuses only what the workflow does not wait for.
RefusalIsTrue ==
  [][ \A kind \in Kinds : kind \in refused' \ refused => ~AwaitedBy(kind) ]_controlVars

=============================================================================
