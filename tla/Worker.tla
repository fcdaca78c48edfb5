------------------------------- MODULE Worker -------------------------------
(***************************************************************************)
(* The worker beside the workflow (src/workflow/worker.py): the activities *)
(* it registers with the Temporal server, and those run() waits for.  The  *)
(* service hands an activity only to a worker that registered it; for any  *)
(* other it reports a failure, attempt after attempt.                      *)
(***************************************************************************)
EXTENDS Pipeline

\* ACTIVITIES
Registered ==
  { "intake", "context", "readiness", "intent", "router", "assembler", "preflight",
    "implement", "verify", "qa", "publish", "post_approval_request",
    "update_project_status", "escalate_timeout", "persist_steering_audit",
    "monitor_post_merge" }

ActivityOf == [ s \in Stages |-> IF s = "awaiting_approval" THEN "post_approval_request" ELSE s ]

\* The activity whose result the coroutine needs to go on.  The failure of a
\* comment, of a board update and of the monitor is swallowed.
Awaited ==
  CASE phase = "activity"         -> { ActivityOf[currentStep] }
    [] phase = "trust_tier"       -> { "assign_trust_tier" }
    [] phase = "reassemble"       -> { "assembler" }
    [] phase = "second_preflight" -> { "preflight" }
    [] phase = "escalate"         -> { "escalate_timeout" }
    [] OTHER                      -> {}

\* "Temporal worker - registers workflow and activities with the Temporal
\* server" (worker.py): what a workflow waits for, some worker can run.
AwaitedIsServed == Awaited \subseteq Registered

=============================================================================
