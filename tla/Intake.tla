------------------------------- MODULE Intake -------------------------------
(***************************************************************************)
(* How one GitHub issue becomes TaskPackets and workflows: the webhook     *)
(* handler, the poller, the dashboard's import and manual creation, and    *)
(* the triage queue (src/ingress, src/dashboard/planning.py, tasks.py and  *)
(* github_router.py).  A request is a coroutine of the API process; each   *)
(* of its database calls and its call to Temporal is a step of its own.    *)
(***************************************************************************)
EXTENDS Naturals, FiniteSets, TaskPacket

CONSTANTS
  Deliveries,    \* delivery_ids; a TaskPacket is identified by its delivery
  Source,        \* where each delivery comes from
  Requests,      \* requests served at the same time
  TriageModes,   \* settings.triage_mode_enabled
  MaxFailures    \* bound: requests that die, calls to Temporal that fail

Sources == { "webhook", "poll", "import", "manual" }

ASSUME IntakeAssumption ==
  /\ Source \in [ Deliveries -> Sources ]
  /\ TriageModes \subseteq BOOLEAN
  /\ MaxFailures \in Nat

Absent == "absent"   \* no row

VARIABLES
  triageMode,
  status,      \* status column of the row of each delivery
  run,         \* the workflow whose id is that row's
  request,     \* what each request is at
  accepted,    \* history: the rows a person accepted
  failures

vars == << triageMode, status, run, request, accepted, failures >>

Points == { "idle",
            "dedupe", "create", "start",           \* a delivery
            "accept", "check_move", "move",        \* POST /tasks/{id}/accept
            "reject", "write_rejected" }           \* POST /tasks/{id}/reject

TypeOK ==
  /\ triageMode \in BOOLEAN
  /\ status \in [ Deliveries -> Statuses \cup {Absent} ]
  /\ run \in [ Deliveries -> { "none", "running", "closed" } ]
  /\ request \in [ Requests -> [ at : Points, for : Deliveries ] ]
  /\ accepted \subseteq Deliveries
  /\ failures \in 0..MaxFailures

Init ==
  /\ triageMode \in TriageModes
  /\ status = [ d \in Deliveries |-> Absent ]
  /\ run = [ d \in Deliveries |-> "none" ]
  /\ \E d \in Deliveries : request = [ r \in Requests |-> [ at |-> "idle", for |-> d ] ]
  /\ accepted = {}
  /\ failures = 0

GoOn(r, at) == request' = [ request EXCEPT ![r].at = at ]
At(r, at) == request[r].at = at
Exists(d) == status[d] # Absent

-----------------------------------------------------------------------------
(* A delivery: github_webhook, feed_issues_to_pipeline,                    *)
(* import_github_issues, create_manual_task                                *)

\* A manual task's delivery_id is new: no other request and no row has it.
IsFresh(d) == ~Exists(d) /\ \A r \in Requests : request[r].for = d => At(r, "idle")

Arrives(r, d) ==
  /\ At(r, "idle")
  /\ Source[d] = "manual" => IsFresh(d)
  /\ request' = [ request EXCEPT ![r] = [ at |-> "dedupe", for |-> d ] ]
  /\ UNCHANGED << triageMode, status, run, accepted, failures >>

\* Mutant: nothing is a duplicate.
NeverDuplicate(d) == FALSE

\* Webhook and poller look for the delivery, the import for any task of the
\* issue, and a manual task has a delivery_id nobody else has.
IsDuplicate(d) ==
  CASE Source[d] \in { "webhook", "poll" } -> Exists(d)
    [] Source[d] = "import" -> \E e \in Deliveries : Source[e] # "manual" /\ Exists(e)
    [] OTHER -> FALSE

Deduped(r) ==
  /\ At(r, "dedupe")
  /\ GoOn(r, IF IsDuplicate(request[r].for) THEN "idle" ELSE "create")
  /\ UNCHANGED << triageMode, status, run, accepted, failures >>

\* Mutant: the webhook handler has forgotten the mode, as the poller has.
TriageAsPolled(d) == IF Source[d] \in { "webhook", "poll" } THEN { FALSE } ELSE BOOLEAN

\* Whether a new row waits in triage: the poller knows no triage mode, and an
\* import or a manual task may be sent either way by the person who sends it.
TriageChoices(d) ==
  CASE Source[d] = "webhook" -> { triageMode }
    [] Source[d] = "poll"    -> { FALSE }
    [] OTHER                 -> BOOLEAN

\* Mutant: the workflow is started whether or not the row waits in triage.
CreatedAndStarted(r) ==
  LET d == request[r].for IN
  /\ At(r, "create")
  /\ \E triage \in TriageChoices(d) :
       status' = IF Exists(d) THEN status
                 ELSE [ status EXCEPT ![d] = IF triage THEN "triage" ELSE "received" ]
  /\ GoOn(r, "start")
  /\ UNCHANGED << triageMode, run, accepted, failures >>

\* INSERT ... ON CONFLICT DO NOTHING: a row that is there is kept and returned.
Created(r) ==
  LET d == request[r].for IN
  /\ At(r, "create")
  /\ \E triage \in TriageChoices(d) :
       /\ status' = IF Exists(d) THEN status
                    ELSE [ status EXCEPT ![d] = IF triage THEN "triage" ELSE "received" ]
       /\ GoOn(r, IF triage THEN "idle" ELSE "start")
  /\ UNCHANGED << triageMode, run, accepted, failures >>

\* start_workflow: the row's id is the workflow's.  Temporal refuses a second
\* workflow while the first one runs, and takes one after it closed; the
\* refusal is logged and swallowed.
WorkflowStarts(r) ==
  /\ At(r, "start")
  /\ run' = [ run EXCEPT ![request[r].for] = "running" ]
  /\ GoOn(r, "idle")
  /\ UNCHANGED << triageMode, status, accepted, failures >>

\* Temporal is not reachable: logged and swallowed as well.
StartFails(r) ==
  /\ At(r, "start")
  /\ failures < MaxFailures
  /\ failures' = failures + 1
  /\ GoOn(r, "idle")
  /\ UNCHANGED << triageMode, status, run, accepted >>

-----------------------------------------------------------------------------
(* Triage: accept_task and reject_task.  Both begin with _get_triage_task. *)

Asks(r, d, what) ==
  /\ At(r, "idle")
  /\ request' = [ request EXCEPT ![r] = [ at |-> what, for |-> d ] ]
  /\ UNCHANGED << triageMode, status, run, accepted, failures >>

InTriage(d) == status[d] = "triage"

TriageChecked(r) ==
  /\ \/ At(r, "accept") /\ GoOn(r, IF InTriage(request[r].for) THEN "check_move" ELSE "idle")
     \/ At(r, "reject") /\ GoOn(r, IF InTriage(request[r].for) THEN "write_rejected" ELSE "idle")
  /\ UNCHANGED << triageMode, status, run, accepted, failures >>

\* update_status reads the row again before it moves it.
MoveChecked(r) ==
  /\ At(r, "check_move")
  /\ GoOn(r, IF MayMove(status[request[r].for], "received") THEN "move" ELSE "idle")
  /\ UNCHANGED << triageMode, status, run, accepted, failures >>

Accepted(r) ==
  /\ At(r, "move")
  /\ status' = [ status EXCEPT ![request[r].for] = "received" ]
  /\ accepted' = accepted \cup { request[r].for }
  /\ GoOn(r, "start")
  /\ UNCHANGED << triageMode, run, failures >>

\* The row is written as it is: there is no update_status here.
Rejected(r) ==
  /\ At(r, "write_rejected")
  /\ status' = [ status EXCEPT ![request[r].for] = "rejected" ]
  /\ GoOn(r, "idle")
  /\ UNCHANGED << triageMode, run, accepted, failures >>

-----------------------------------------------------------------------------

Serve(r) ==
  \/ Deduped(r) \/ Created(r) \/ WorkflowStarts(r) \/ StartFails(r)
  \/ TriageChecked(r) \/ MoveChecked(r) \/ Accepted(r) \/ Rejected(r)

Arrival(d) == \E r \in Requests : Arrives(r, d)

Ask(r) == \E d \in Deliveries, what \in { "accept", "reject" } : Asks(r, d, what)

\* The API process restarts in the middle of a request.
Dies(r) ==
  /\ ~At(r, "idle")
  /\ failures < MaxFailures
  /\ failures' = failures + 1
  /\ GoOn(r, "idle")
  /\ UNCHANGED << triageMode, status, run, accepted >>

WorkflowCloses(d) ==
  /\ run[d] = "running"
  /\ run' = [ run EXCEPT ![d] = "closed" ]
  /\ UNCHANGED << triageMode, status, request, accepted, failures >>

Next ==
  \/ \E r \in Requests : Serve(r) \/ Ask(r) \/ Dies(r)
  \/ \E d \in Deliveries : Arrival(d) \/ WorkflowCloses(d)

Spec == Init /\ [][Next]_vars

-----------------------------------------------------------------------------
(* Properties *)

\* Requests that have looked at the row of d and will act on what they saw.
PastCheck(d) ==
  { r \in Requests : request[r].for = d
                     /\ request[r].at \in { "create", "start", "check_move", "move",
                                            "write_rejected" } }

\* A workflow runs for a row that was committed and has left the triage, so
\* its first activity finds its TaskPacket and no person's decision pending.
\* Imports are left out: of two that overlap, one may put the row in triage
\* and the other one, which wanted none, start the workflow of that row.
RunsCommittedTask ==
  \A d \in Deliveries :
    run[d] # "none" => \/ status[d] \in { "received", "rejected" }
                       \/ Source[d] = "import" /\ Exists(d)

\* While triage is on, what GitHub sends runs only after somebody accepted it,
\* whichever deliveries, acceptances and rejections overlap.
TriageGate ==
  \A d \in Deliveries :
    triageMode /\ Source[d] = "webhook" /\ run[d] # "none" => d \in accepted

\* What GitHub delivered and the poller found: once the task's workflow has
\* closed and nobody is past the checks any more, nothing that is delivered,
\* accepted or rejected again revives it.
SettledForGood ==
  [][ \A d \in Deliveries :
        run[d] = "closed" /\ PastCheck(d) = {} /\ Source[d] \in { "webhook", "poll" }
          => run'[d] = "closed" /\ status'[d] = status[d] /\ PastCheck(d)' = {} ]_vars

=============================================================================
