# TheStudio in TLA+

TheStudio turns a GitHub issue into a pull request. Nine steps, from intake to
publication, run as one Temporal workflow per task; people steer the workflow,
review its intent, its routing and its result, and see it in a dashboard. These
modules model the parts of that program whose correctness rests on the order of
events, check them with TLC on small instances, and prove with TLAPS what has
to hold for every size.

Paths below are relative to the repository's root (`src/workflow/pipeline.py`
is `workflow/pipeline.py` of the Python package `src`).

## 1. The system

| Component | State | Operations | Interacts with | What makes it correct |
|---|---|---|---|---|
| Pipeline workflow, `src/workflow/pipeline.py` | the fields of `TheStudioPipelineWorkflow`, the locals of `run()` | `run()`, 13 signal handlers, `_await_if_paused` | activities (calls), people and webhooks (signals), itself (`continue_as_new`) | no gate is bypassed; steering is honoured; rework is bounded; it ends |
| Worker, `src/workflow/worker.py` | the activities it registers | run activities | Temporal | what a workflow awaits can be run |
| TaskPacket, `src/models/taskpacket*.py` | one row per task | create, get, `update_*` with a transition check | everything | the status moves along `ALLOWED_TRANSITIONS` |
| Publisher, `src/publisher/publisher.py` | branch and pull request on GitHub, status and number in the row | `publish` and its retries | Temporal (attempts), GitHub, database, merge mode | what is published is complete; a retry repairs what an attempt left |
| Implementation and verification activities, `src/workflow/activities.py`, `src/verification/remote` | the task's branch, the evidence | generate, push file by file, verify remotely, QA | GitHub, containers, the workflow | what QA and the publisher are told is on the branch and was looked at |
| Container mode, `src/agent/container_manager.py`, `isolation_policy.py` | containers, their workspaces | launch, wait, collect, clean up, fall back | Docker, Temporal | in container mode no work in the process where the tier denies it; no container outlives its attempt unnoticed |
| Ingress, `src/ingress` | rows, poll cursor, merge status | webhook, poll cycle, re-evaluation, PR events | database, Temporal, GitHub | one task per delivery; nothing runs unaccepted; nothing is skipped; the merge status follows GitHub |
| Planning dashboard, `src/dashboard/{planning,tasks,github_router}.py` | rows in triage | accept, reject, edit, import, manual task, reviews | database, Temporal | decisions are not undone by each other |
| Steering and approval, `src/dashboard/steering.py`, `src/api/approval.py`, `src/admin/workflow_console.py` | audit log | read the row, refuse or signal | workflow | every decision reaches the workflow or is refused truthfully |
| Trust engine, `src/dashboard/trust_*.py` | rules, safety bounds, audit | evaluate, edit, answer the workflow | workflow, administrators | execute is earned by a rule and capped by the bounds |
| Repositories and compliance, `src/repo`, `src/compliance`, `src/admin/router.py` | one row per repository | register, promote, demote, override, pause, resume, change, delete | administrators, poller, publisher | no tier without its gate; a deletion is final |
| Model gateway, `src/admin/model_gateway.py`, `src/agent/framework.py` | spend and tokens per task (in memory), audit records | resolve, check, book | agents, administrators | sensitive work gets a strong model; the books agree |
| Settings and secrets, `src/admin/settings_service.py`, `src/repo/secrets.py` | encrypted rows, the key | set, delete, rotate, register, restart | administrators | no rotation loses a secret |
| Event stream, `src/dashboard/events.py`, `frontend/src/hooks` | one connection, the browser's last id | connect, replay, follow, skip | NATS, browser | no silent gap |
| Consumers, `src/dashboard/{gate_consumer,notification_generator,budget_checker}.py` | durable subscriptions, rows | receive, act, acknowledge | NATS, database | an acknowledged message had its effect |
| Outcome, `src/outcome` | signals, quarantine, dead letters | ingest, correct, replay, mark, delete | NATS, database | an event counts once, none is lost |
| Intent, `src/intent` | versions of a task's intent | store version 1, edit, refine | workflow, developers, publisher | an acknowledged change is in force; the head of the pull request has the code |
| Expert library, `src/experts` | experts and their versions | scan, sync, reload | manifests on disk, several instances | a synchronisation leaves the library as it was scanned |
| Routing and recruiting, `src/intake`, `src/routing`, `src/recruiting` | the library's rows, one task's plan | classify, select within a budget, ask for experts, recruit, escalate | expert library, workflow | what a task needs is covered, asked for or escalated |
| Context and readiness, `src/context`, `src/readiness` | an issue's text, what was found in it | score, decide, ask, judge again | submitter, workflow | who says more is not turned away for it |
| Assembly, preflight and QA, `src/assembler`, `src/preflight`, `src/qa` | plan, handoff, evidence | plan, look at the plan, judge, find defects | workflow, agents | what passes was agreed on and has its evidence |
| Side activities, `src/workflow/activities.py`, `src/publisher/pipeline_comment.py`, `src/approval` | status comment, audit rows, events | comment, audit, ask, escalate | GitHub, Slack, NATS, database | what a run says it says once; the audit is true |
| Reputation, `src/reputation`, `src/outcome` | records in memory and their rows | update, query, review tiers | tests, pages | no tier without its samples |
| Weekly budget, `src/dashboard/budget_checker.py` | cap, spend of the process, flags | check, pause all, choose cheaper models | agents, workflows, administrators | at the cap nothing announced goes on |
| Compliance checks and planes, `src/compliance`, `src/admin/compliance_scorecard.py` | one list of results, planes, cached scorecards | check, promote, pause, assign, show | administrators | a verdict is on its repository; a scorecard is not older than its time |
| Admin console, `src/admin/workflow_console.py`, `audit.py` | the audit log | list, rerun, send to the agent, escalate, read the log | Temporal, database | no run and no row is missed |
| Projects board, `src/github/projects_*.py`, `src/dashboard/github_router.py` | items and fields on GitHub | synchronise all | GitHub, people | an answer without errors left nothing out |
| Portfolio review, `src/meridian` | stored reviews, one open issue | collect, judge, store, show | GitHub, Temporal | the newest review is the one shown |
| Approval chat, `VerificationGate`, RBAC, metrics, pages, frontend | see section 6 | | | |

What is hard here: signals that arrive while the coroutine is suspended
somewhere else; attempts of an activity that Temporal gave up and that go on;
rows that are read, thought about over an await, and written by then under
another's hands; deliveries that are repeated, overlap, or come out of order;
lists that change while they are paged through; failures between a commit and
the call that should follow it; memory of a process that a restart empties.
The complete list, each at its line, is `hazards` in `PROJECT.json`.

## 2. The modules

```
                 Delivery  <--refines--  Pipeline  <--EXTENDS-- PipelineProofs
                                          ^     ^
                    MCPipeline -EXTENDS-> Worker  Control <--EXTENDS-- MCControl, ControlProofs
                                                  |
TaskPacket <--EXTENDS-- Control, Publication, Intake
                        Publication <--EXTENDS-- PublicationProofs
                        Intake      <--EXTENDS-- MCIntake, IntakeProofs
Outcome <--EXTENDS-- MCOutcome, OutcomeProofs

Services --INSTANCEs--> Repositories  TrustTier  ModelGateway  Secrets  Compliance
                        Planes  Budget  Console  Intents  Consultation  Readiness
                        Assembly  Revision  Isolation  Verification  SideActivities
                        PullRequests  Polling  EventStream  Consumers  Experts
                        Reputation  Board  Portfolio
Services <--EXTENDS-- MCServices
Services <--EXTENDS-- DashboardProofs, TaskProofs <--EXTENDS-- AdministrationProofs
```

### The workflow

**Delivery** is the abstract specification. People say what they say at any time
(`said`); a delivery leaves only for a revision that was checked and, where a
human decides, after the pipeline took up an approval no rejection had met
(`accepted`). Rework takes both away and leaves `said` as it is, a new start
forgets it too; what is delivered or over stays so. So Delivery does not promise
that the human saw the revision, because the code does not: `run()` waits for
`_approved`, which no loopback resets, and an approval that was sent before the
revision existed, or for one that QA then sent back, counts for the next one of
the run. A rejection that comes after the approval was taken up changes nothing
either.

**Pipeline** is one task's workflow. A coroutine of Temporal is suspended
only at an `await`, and handlers run only then, so a state is a point of
suspension: `phase` says on what, `currentStep` and `next` where.

| Variable | Code |
|---|---|
| `params` | `PipelineInput` |
| `currentStep` | `_current_step` (set at a checkpoint, so stale between an activity and the next checkpoint) |
| `verdicts`, `cleared` | `_approved`, `_rejected`, `_intent_*`, `_routing_*`; `_readiness_cleared` |
| `paused`, `aborted`, `redirectTarget`, `retryClear` | the fields of the same names |
| `loopbacks`, `evaluations` | locals of `run()` |
| `outcome` | `success` and `rejection_reason` of `PipelineOutput` |
| `audit` | the un-awaited `persist_steering_audit_activity` of the latest signal |
| `passed`, `attempts` | history: gates passed in this run by this revision; implementations finished |

`Checkpoint` is `_await_if_paused`, with its hold, `continue_as_new` before the
abort flag, and the abort. `Preparation`, `Readiness`, `Planning`, `Rework`,
`Review` and `Publication` are the stages in the order of `run()`; an activity
that must succeed may instead use up its attempts (`ActivityFails`).
`_sync_project_status`, `_post_pipeline_comment` and the post-merge monitor
swallow their failures, so they are only awaits. `Handlers` are the signals.
Left out: the texts that travel with a signal, the query handlers, the fields
of the output that nothing branches on.

**Worker** sets the activities the worker registers beside those the workflow
awaits.

**Control** composes the whole of Pipeline with the people who steer it: each
endpoint that sends a signal reads the row's status, refuses or goes on
(`Refuse`, `Admit`), and signals a moment later (`SignalHandled`, or
`SignalLost` where the id, the handler or the workflow does not exist). The row
is written by `publish_activity` alone while a workflow runs, which is why
`PAUSED`, `ABORTED` and `AWAITING_APPROVAL` are never seen by an endpoint.

### The task's row, publication and intake

**TaskPacket** is the status enumeration, `ALLOWED_TRANSITIONS`, and the check
every update makes. It has no actions: reading and committing are separate
steps of whoever calls it.

**Publication** is `publish_activity` with every attempt Temporal makes of it.
Each call to GitHub, each read of the row and each commit is a step. `attempt`
holds the locals of each attempt, `current` is the one the service waits for,
`result` what it told the workflow. `TimesOut` starts the next attempt and
leaves the old one running, as a start-to-close time-out without heartbeats
does; `Restart` ends all attempts of the worker and empties the merge modes,
which are a dictionary of the process; `CallFails` is an error at any point;
`HumanCloses` is a person closing a pull request; `RejectionCommits` is
`reject_task`, which read the row in triage, was overtaken by an acceptance, and
commits at any time. SQLAlchemy's sessions are
created with `expire_on_commit=False`; a row nobody refers to is read afresh,
and the one `publish` holds since line 405 is looked at again without a query,
both of which make `ChecksStatus` one read before one later write.
Left out: auto-merge (it needs `approval_received`, which the activity never
passes), the safety-bounds check (it only blocks auto-merge), timing events.

**Intake** is how an issue becomes rows and workflows. A request of the API or
the poller is a coroutine with its own session; each of its database calls and
its call to Temporal is a step. A row is identified by its delivery. `run` is
the workflow of that id, which Temporal refuses to start while one is open and
takes after it closed, the default of `start_workflow`. What a workflow does to
its row later is not part of this module: `status` ends at `received` or
`rejected`.

**Polling** is the poller's cycle of one repository: pages of a list that is
sorted by the time of the update and changes between two pages, the early
return on an old issue, the rate limit, the feeding of each issue in turn, and
`poll_since`. Every update of an issue is a tick of GitHub's clock. An issue
that could not be inserted is passed over for good (`excused`).

**PullRequests** is `pr_merge_status`: events that are late, lost, reordered or
in work at once, each read and committed apart, beside the publisher's commit
of the number, before which no event finds the row.

### The task's code

**Revision** is the branch between `implement_activity` and the publisher. Each
attempt of each implementation reads a file's sha, puts the file, and goes on;
an attempt that was given up goes on too until it is cancelled. `tip` is who
wrote each file's version on the branch, `reported` what the implementation
said it changed, `seen` what the verification looked at: a clone of the branch,
the default branch with the changed files, or nothing. People may remove a file
from the branch at any time (`Gone`); where the default branch is taken such a
file is skipped and the default branch's version stays. `removed` is the history of
what people removed.

**Isolation** is where an attempt works, in a container, in the worker's process
or not at all, and the container's life, Docker call by Docker call. `mode` is
the settings': with `agent_mode` "ralph" and with `agent_isolation` "process"
the tier's fallback is not asked. Any call may fail, the worker may die, and the next attempt starts.

**Intents** is the versions of one task's intent. `intent_activity` stores
version 1 at each of its executions and swallows a failure to; edits and
refinements of the dashboard read the latest version, store the next one and
move the row's pointer in separate commits, and are admitted while the row says
`intent_built`, which it does only while the publication passes through it. The
publisher reads the latest version twice, for the evidence and for the name of
the head, while the implementation always pushes to `v1`.

**Consultation** goes from an issue's labels to a plan of experts: the rules of
intake, or what an agent answers instead; the router, class by class, within
the role's budget; and the recruiter, which fills the gaps it reports while
others change the library. The application's own router activity hands the
router no experts and drops its requests; here the task is planned, recruits,
and is planned again, as the tests do it.

**Readiness** is what `context_activity` finds out about an issue, the six
scorers over what its text says, and the loop in which the submitter adds what
is missing. A text is told apart by what the scorers find in it; a sum of
floats that meets its threshold exactly may fall on either side.

**Assembly** goes from the intent's criteria to QA's verdict. Each of the
assembler, preflight and QA is an agent, which may answer anything of its
schema, or the rules it falls back on. Between them everything is strings: a
handoff's validation steps are joined by commas for the wire and taken apart
character by character, and without an LLM the plan is empty, so preflight
objects to it although its docstring promises to approve.

**Verification** is several remote verifications on one host, each step a
process of the worker or of a container. A time-out ends the wait and not the
process, and `pip install -e .` installs into the environment the worker's
processes share. **SideActivities** is what a run does beside its stages: the
status comment, the audit of a signal, the request for an approval, its
escalation, the board. Their attempts outlive their time-outs as publications do.

### Administration

**Repositories** is a repository's row and the overlapping requests that load,
decide and send the columns that differ from what they loaded; the promotion
service loads again between its gate and its write.

**TrustTier** is the rules and bounds administrators edit, and the activity
that reads them apart, evaluates, caps and commits. A condition holds, does not,
or cannot be evaluated.

**ModelGateway** is what agents of one task ask at once: class, fallback,
budget check, the model's answer, and the booking, with a Ralph session beside
them and administrators who switch providers.

**Secrets** is which key each secret is encrypted with, through set, delete,
rotation, registration and restart. A request selects its rows in one step and
commits in another.

**Experts** is `sync_experts`: a scan of the manifests, the stored hashes of the
active experts, and for each expert a create, an update or nothing, in one
session that commits with each of them and is never rolled back, so that a
failed flush makes everything after it fail. The top-level fields of an updated
expert are only flushed: the next commit of the session takes them along, the
end of the session loses them. Calls of several instances may overlap, and each
may die.

**Compliance** is the one checker that all requests share. It collects results
in a field of its own, and `MayOverlap` says when that field may be another
request's: when a check awaits something that really gives way, which it does
only with clients that nobody passes. **Planes** is the registry of execution
planes and the scorecards that are kept for an hour.

**Budget** is the consumer that compares the week's spend with the cap, pauses
every active workflow and lets cheaper models be chosen. **Console** is the
administrators' list of workflows, which asks Temporal for one status after the
other, the three things they may do to a run, and the audit log, which is read
page by page while rows are added.

**Reputation** is one expert's record in memory and its row, under overlapping
updates, restarts and queries that read the row back, and the tier a sustained
drift moves. Confidence is a function of the number of samples, so a threshold
for it is a number of samples: 0.3 takes 54 and 0.6 about 22,000, which makes
the thresholds for samples beside them moot.

### Around it

**Board** is the forced synchronisation of the Projects board, call by call,
with others at work and people who change the project. **Portfolio** is
Meridian's review: a board is read, judged, stored and shown in one issue, by an
activity whose attempts outlive their time-out.

**EventStream** is one browser tab: connection, replay from its last id, full
state, following, the skip of what cannot be read, disconnection with events on
the wire, and what the hooks apply. **Consumers** is one of the dashboard's
durable consumers (the three are alike): start that may fail, delivery and
redelivery, effect, acknowledgement, stop at any point.

**Outcome** is the ingestor of `src/outcome`: what becomes of the signals of
the two JetStream streams. A payload is described by the check of
`ingest_signal` that it fails (`Kind`) and by the event, task and timestamp that
identify its signal (`Key`). The stores are memory of one process, except
`rows`, the `outcome_signals` table; `Restart` empties them. Coroutines
interleave at awaits only. The consumers pass no existence checks, so a message
is settled in one step, and its row is saved in the next; a replay waits for the
task and the repository first, and other steps come in between. Nothing in the
application calls `replay_quarantined` or `mark_corrected` yet; they are
modelled as the tests call them. The admin page only marks events as replayed
and deletes them. Left out: reputation indicators and readiness misses, which
need callables that the consumers do not pass, and the removal of dead letters.

## 3. What TLC checks

Every configuration is explored completely.

| Run | Question | Instance and why it is enough |
|---|---|---|
| `gates` | Can any stage, or a delivery, get past its gates? `GatedStages`, `BoundedRework`, `KeepsPromise` (refinement of Delivery) | the code's own caps (2, 2, 3); 27 configurations: every feature on, each off in turn, none, the bypass, each tier; verdicts, readiness signals and retries at any time, so that every run may be restarted with what it has kept. 2.9 million states |
| `live` | Is an abort observed, does a run end? `AbortObserved`, `Terminates` | caps 1, 1, 2, so that each loop is taken and exhausted; pauses, aborts, redirects and verdicts. 534,000 states |
| `control` | What can the people who steer really bring about? `PublishedIsLast`, `SteeringHonoured` | the shortest pipeline, and one with a readiness gate, an intent review and an approval; pause, abort, redirect, retry and an intent review, each with a read that may be stale when its signal arrives; a target before and one after the first gates. 1.6 million states |
| `publication` | Does a publication survive its own retries? `PublishedMeansDelivered`, `RejectedIsNotPublished`, `RetryHeals`, `Answered` | the six attempts of the policy, two disturbances of any kind at any step, both kinds of tier, a row received, rejected, or rejected meanwhile, branch there or not, token or not. 760,000 states |
| `intake` | What do overlapping and repeated requests do? `RunsCommittedTask`, `TriageGate`, `SettledForGood` | a webhook delivery, a polled one and an import of the same issue, each any number of times, three requests at once (two that race and one that interferes), triage on or off, one failure. 2 million states up to symmetry of the requests |
| `outcome` | What becomes of a signal that is repeated, replayed, corrected or invalid? `CountedOnce`, `AckedIsKept`, `FailuresAccounted`, `ReplayedIsCounted`, `EachSettles` | one message of each of four kinds, two of them one event with two contents, in two streams; two replays, which may be of the same event; one edit; one acknowledgement lost or one restart; two attempts before an event is given up, so that a replay or a redelivery reaches the dead letter. 481,000 states |
| `services` | Does each component beside the pipeline keep its promise? See the next table | twenty-four instances in one run, 1.3 million states up to symmetry |

The components of `services` share no state, so their product would say
nothing and cost everything. `Services` gives them the same variables
`v1`, `v2`, ..., in the order of each module's own, and the initial state
chooses which one a behaviour is about (`focus`). A property reads "if it is
this component's behaviour, then ...". `MCServices` has the values of the
constants for TLC. Where two components have a constant of one name and
different values, Services names them apart (`CallContexts`, `IntakeAnswers`,
`PlanSteps`, `ReopenKinds`, `RunKinds`, `HookedRepos`, `FleetRepos`); where the
values are alike (`Requests`, `Runs`, `Tasks`) they share them. Deadlock is not checked there: several
of them come to an end (the last attempt is over, the published task is out of
the modelled code's hands) or meet their bound.

| Module | Properties | Instance |
|---|---|---|
| Repositories | `ExecuteIsGated`, `DeletionIsFinal` | one repository, two requests that may overlap at every await |
| TrustTier | `TiersAreSound` (`TierIsEarned`, `AnswerIsAudited`) | two tasks, two rules out of four shapes (execute on trial, execute for good, execute under a condition that cannot be evaluated, a rule that is off), packets that exceed one bound each; one edit, one failure |
| ModelGateway | `CallsAreSound` (`BooksAgree`, `SensitiveIsStrong`) | two runs, one provider of each class, five contexts; costs 2 and 3 below a limit of 5, so that two checks pass and the second booking is refused |
| Revision | `EvidenceIsTrue` (`EvidenceIsOnBranch`, `RemoteSawEvidence`) | two files, two attempts of each of two implementations, one fault beside any removals |
| Secrets | `Recoverable` | two settings beside the key, one repository, two requests, three keys: two rotations, or one and a restart with each key |
| PullRequests | `MergeStatusIsTrue` (`MergedIsMerged`, `FollowsGitHub`) | open, close, reopen, merge; two handlers at once |
| Polling | `NothingIsLost` (`NothingSkipped`) | two issues on pages of one, so that a page boundary lies between them; three updates |
| Isolation | `WorkIsContained` (`ContainedWhenDenied`, `NoStrays`) | two attempts, each mode, any failure of any call |
| EventStream | `NothingIsLost` (`NoSilentGap`) | four events and a replay gap of one: both replay and full state happen, twice |
| Consumers | `NothingIsLost` (`AckedHadEffect`) | two messages, two copies of each on their way |
| Experts | `LibraryIsSynced` | two experts, two texts, two calls that may follow each other or overlap, three versions: what the first created the second may update, deprecate, or find half done |
| Intents | `IntentIsServed` (`ChangePrevails`, `HeadHasCode`) | two requests of either kind; a cap of two versions, so that a refinement meets it; two executions of the activity, two attempts to publish |
| Consultation | `PlansAreComplete` (`PlanAccounts`) | a bug with three overlays, an issue without labels, and an agent's planner with classes that have no template; three experts, one of whom may hold the name a template would give; a risk that escalates |
| Readiness | `MoreIsBetter` (`MoreNeverHurts`) | texts that differ in one thing each scorer looks for, known and unknown risks, each complexity; the code's own three evaluations |
| Assembly | `PassedAsAgreed` | a criterion that can be judged and one that is too short, no experts and two who disagree, any agent's plan of two steps; one loopback |
| Reputation | `TrustIsEarned` | two updates at once, four indicators; confidence needs more samples than a tier does, as in the code |
| Board | `BoardIsSynced` (`AnsweredIsShown`) | two tasks, two synchronisations, a project without a field for the tier and one without an option for a tier; one disturbance |
| Portfolio | `ReviewIsShown`, `OneReport` (one property) | a board longer than a page, one with every risk, an empty one; two reviews of two attempts, one trouble |
| Verification | `EvidenceIsTrue` (`PassedOwnCode`), `WorkIsContained` (`LeavesNothing`) | two verifications, one trouble of any kind at any step |
| SideActivities | `AsidesAreTrue` (`OneStatus`, `AuditIsTrue`, `AskedOnce`) | two status updates, two signals, or an approval that is not given; two attempts; a page of two comments, so that a person's comment moves the marker off it; two troubles |
| Budget | `CallsAreSound` (`CapIsKept`, `CheapWhenNear`) | two tasks, a cap of two calls, so that the threshold and the cap are met by different calls; one trouble |
| Compliance | `ComplianceIsTrue` (`VerdictIsOwn`) | two repositories, one without rulesets, two requests of any kind |
| Planes | `ComplianceIsTrue` (`ShownWasSo`) | one repository on either of two planes, scorecards kept for two ticks |
| Console | `ConsoleIsTrue` (`ListIsWhole`, `LogIsWhole`) | two runs that start and end while one list is made, with and without filters; two requests and pages of one row; one trouble |

Five runs show where the code and its own words disagree; TLC finds each
within seconds.

| Run | The code | What it says |
|---|---|---|
| `served` | `run()` awaits `assign_trust_tier_activity`, which the worker does not register; every workflow fails there | the worker "registers workflow and activities" |
| `answered` | `resume_task` refuses unless the row says PAUSED, which nobody writes: who paused a task cannot resume it | "409 - task is not currently paused" |
| `failsclosed` | a remote verification that raises is replaced by the check that files were pushed | "gates fail closed" |
| `unseen` | the server names its events and unwraps them, the hook listens to unnamed ones that are wrapped | the hook "dispatches to the store" |
| `recorded` | a retry that finds the pull request never stores its number | the columns are "persisted by Publisher after PR creation" |

Every property of a passing run is accompanied by a mutant: a plausible slip in
one definition under which TLC finds the property violated. The mutated forms
stand before the definitions they change.

### What the properties leave out

Several properties exclude what the code does not attempt, and say so where
they stand. The reader of a green run should know:

- `RetryHeals` holds with one disturbance for six attempts, the policy's
  number, and for five; with four or three it does not, because an attempt that
  timed out in its chain of status transitions can write each of its remaining
  ones over the row of a later attempt. `PublishedMeansDelivered` leaves the
  lifecycle label out: only the attempt that creates the pull request sets it.
  `Answered` demands an answer, not a true one: the retry of an attempt that did
  publish is refused by the status machine, and the workflow reports a failure.
- `KeepsPromise` and `GatedStages` say that the wait for an approval took one up,
  not when it was sent: see Delivery above.
- `RejectedIsNotPublished` excuses the attempts that had read the row before the
  rejection was committed: `update_status` compares nothing when it writes, so
  such an attempt writes its transition, or `published`, over the rejection.
- `SteeringHonoured` is about the stages that begin with a checkpoint; the trust
  tier, the second assembly and the second preflight begin without one.
- `SteeringHonoured` and `AbortObserved` speak of one run of the workflow. An
  abort that arrives while a redirect or a retry is pending is forgotten with
  the run that `continue_as_new` replaces, although `abort_task` promises to
  return immediately; an audit activity no worker picked up is dropped when the
  run closes.
- `RunsCommittedTask` leaves imports out. A row whose workflow could not be
  started stays `received`, and its redelivery is a duplicate. A rejection that
  overlaps an acceptance moves `received` to `rejected`, which the table of
  transitions does not allow, and the workflow runs all the same.
- `CountedOnce` ends at a restart: the duplicate check knows memory only, and a
  redelivered signal is stored again. A message that cannot be decoded is
  acknowledged and kept nowhere; a signal of an unknown task counts when it
  comes from a stream; the button that says replay
  (`src/admin/ui_router.py`) replays nothing.
- `ExecuteIsGated` speaks of execute: a demotion that overlaps another one can
  write a higher tier than the row has by then.
- `TierIsEarned` is about the answer. The tier is set on a copy of the row that
  no session commits, `start_workflow` never passes the repository's tier, and
  what follows from `suggest` and `execute` in the workflow is therefore out of
  the application's reach; so is the isolation policy of `execute`.
- `BooksAgree` says that spend and tokens move together. It does not say that
  the spend stays within its limit: the budget is checked before the call and
  booked after it, and runs that check together overspend together.
- `ContainedWhenDenied` is about container mode. With `agent_mode` "ralph" the
  activity returns before it looks at the isolation, and works in the worker's
  process whatever the tier, `execute` included; so does `agent_isolation`
  "process". `src/agent/isolation_policy.py` forbids `execute` only to fall back.
- `EvidenceIsOnBranch` says the files are there unless people removed them, not
  that the branch is the version that was verified: an attempt that was given up
  may push after the verification. `RemoteSawEvidence` excuses removed files as
  well: the checks of a clone pass without them, those of the default branch on
  its own version (`src/verification/remote/diff_apply.py:96`). Ralph and
  container mode push nothing, and a container that could not be launched is
  returned as an implementation without files.
- `Recoverable` covers the settings. A rotation does not re-encrypt the
  repositories' webhook secrets, and two rotations at once or a replaced stored
  key are excluded.
- `NothingSkipped` excuses what the code skips: an issue whose row could not be
  inserted, and what moved over a page boundary when the cycle ended early or an
  issue was closed meanwhile.
- `AckedHadEffect` is about messages that stand for something: a consumer
  acknowledges one it has no use for, without a task or a cost update without a
  cost (`gate_consumer.py:28`, `notification_generator.py:86`), and has no effect.
- `NoSilentGap` excuses unreadable messages and what is published between a full
  state and the subscription after it. `NoStrays` excuses containers whose
  removal failed; `reap_orphans`, which would find them, is not called.
- `LibraryIsSynced` speaks of a call that nobody ran beside and that reports no
  error, of texts that differ in their hash, which leaves out the contents of
  `context_files` (`src/experts/manifest.py:32`), and of the versions: the fields of the last expert that a call updates
  are flushed after the commit and lost when the session closes
  (`src/experts/registrar.py:131`), and no later call repairs them, because the
  stored hash is the new one. An expert that was deprecated and comes back fails
  at its unique name, and every change after it in that call fails too.
- `PlanAccounts` speaks of whom the recruiter created. A deprecated expert it
  finds again is given a new version and stays deprecated
  (`src/recruiting/recruiter.py:140`), a shadow expert it finds is none the
  router takes, and a name a retired expert holds makes it raise and lose the
  rest of its batch.
- `MoreNeverHurts` excludes the first word on reproduction in an issue that is no
  bug. The gate may hold an issue and ask nothing; what the submitter adds is
  scored, but the intent is built from the text as first submitted
  (`src/workflow/pipeline.py:913`).
- `PassedAsAgreed` says nothing of what is sent back wrongly: the handoff that was
  taken apart by characters asks for evidence that cannot exist. Conflicts and
  `needs_intent_refinement` are read by nobody.
- `TrustIsEarned` allows samples to be lost: after a restart the first update
  starts from nothing and is stored over the row, and a filtered query puts an
  older row over a newer record.
- `AnsweredIsShown` is about the tier. Status and complexity map to nothing,
  because the rows' values and the mapping's keys differ in case and name, though
  the docstring names all three fields. Two first synchronisations race for the
  project's fields, and the second is refused.
- `ReviewIsShown` excludes a review that met trouble, or came after one that goes
  on. Only the board's first page is reviewed, a failed update of the issue is not
  noticed, and the failure rate never flags, because GitHub's state is compared
  with a status.
- `PassedOwnCode` and `LeavesNothing` exclude verifications that ran beside
  another one, or beside a process another one left: those do install into one
  environment, and may pass with the other task's code. No property covers them.
- `OneStatus` allows one more comment for each attempt that outlived its time, and
  for a discussion longer than a page. A request for approval that no channel took
  is answered as posted, an escalation that addressed nothing as escalated; an
  activity of these whose attempts all time out fails the run.
- `CapIsKept` speaks of calls that are announced, and only tests give a task the
  budget that announces them: in the program as it is the cap is never enforced.
  A task accepted after the check selected its rows is not paused until the next
  one; the spend is in memory and starts again at a restart.
- `VerdictIsOwn` holds because nothing the checker awaits gives way. Repositories
  of the database hand it no facts, so in the program none ever passes.
  `ShownWasSo` leaves out scorecards computed of asserted data, which are kept and
  served like fetched ones.
- `ListIsWhole` excludes a list one of whose queries failed: it is shown as if it
  were complete. A run that ends meanwhile may be shown twice, a list of one
  repository or of paused runs is always empty, and the step of a run is made up
  of its status: who is anywhere else is said to be at the verification.
- `HeadHasCode` leaves out a developer's change: one that is stored while the
  publication passes through `intent_built` gives the head a version whose
  branch nobody pushed to. `ChangePrevails` leaves out changes that ran beside
  another one: both read the same version and store the next, and which of the
  two is in force is the database's choice.
- The approval API signals `pipeline-<id>`, a workflow nobody starts, and
  answers 404; the console sends three signals without a handler, which the
  service accepts and the workflow never sees.

### Fairness

`Pipeline`: weak fairness of the coroutine. The Temporal service delivers
workflow tasks, ends every activity by its time-out and attempts, and fires
timers; each wait of `run()` has one, except the hold of a pause, which only
people end. Nothing is assumed of people, so `Terminates` allows a run to be
held or restarted by them for ever.

`Publication`: weak fairness of the attempt the service waits for, because the
HTTP client and the database bound every call. Nothing is assumed of an attempt
the service gave up.

`Outcome`: weak fairness of each consumer: the event loop runs both callbacks
and every database call returns. Nothing is assumed of operators.

`Control`, `Intake` and the modules of `services` state safety and assume no
fairness.

### Bounds

`MaxFailures` (Intake, TrustTier), `MaxDisturbances` (Publication, Outcome,
Board), `MaxFaults` (Revision) and `MaxTroubles` (Portfolio, Verification,
SideActivities, Budget, Compliance, Console) bound failures; `MaxReplays` and
`MaxEdits` (Outcome, TrustTier) what operators do, and with it the length of the
quarantine; `MaxPaid` (ModelGateway) and `MaxSpend` (Budget) what calls may cost
together; `MaxKey` (Secrets) the keys that are made; `MaxEvents` (PullRequests),
`MaxTime` (Polling), `MaxSeq` (EventStream), `MaxReceived` (Reputation),
`MaxReviews` (Portfolio), `MaxPeople` (SideActivities) and `MaxClock` (Console)
what happens outside; `MaxCopies` (Consumers) deliveries; `MaxVersion` (Experts,
Consultation) and `MaxRuns` (Intents) the versions that are stored.
`MaxLoopbacks` and `Tries` (Revision), `MaxAttempts` (Isolation, Portfolio),
`MaxVersions` and `MaxTries` (Intents), `MaxQaLoopbacks` (Assembly), `Tries` and
`PageSize` (SideActivities, Portfolio, Console), `Caps` and `Percent` (Budget) and
`Ttl` (Planes) are limits or settings of the code's own, made small;
`MaxEvaluations` (Readiness) is the code's own 3. `attempts` of Pipeline needs no bound: it is bounded
by the caps, which is what `BoundedRework` says.

## 4. What TLAPS proves

Each `...Proofs` module extends its component and proves for every value of the
constants, from the component's named assumption alone (the numbers are natural,
the sets are of their types), what the runs show for one. Every safety property
of the passing runs, and the types, is a theorem.

| Module | Theorems | The inductive invariant, and why it is needed |
|---|---|---|
| PipelineProofs | `TypeCorrect`, `GatesHold`, `ReworkIsBounded`, `SteeringIsHonoured`, `ImplementsDelivery` | `GatedStages` speaks of a stage that works; it has to be known at every point on the way there. `PhaseOK`: where the coroutine can be in each phase; `GatesOK`: the gates of the stage it is at are passed; `ApprovalOK`: an approval that was taken up is the last gate and nothing undoes the two before it; `OutcomeOK`: success goes with the publish stage; `ReworkOK`: each loopback has paid for one implementation, the first is free, and one more is allowed between an implementation and the next loopback |
| ControlProofs | `ControlImplementsPipeline`, `RequestsHonourSteering`, `RequestsKeepGates`, `PublishedStaysLast` | every step of the composition is a step of Pipeline or stutters, so Pipeline's theorems carry over; `PublishedOK`: once the row says published the run is past its last checkpoint, so no pending redirect is applied any more |
| PublicationProofs | `TypeCorrect`, `PublishedIsDelivered`, `RejectedStays` | `LocalOK(n)`: what attempt `n` has done to its pull request by the point it is at, whatever the others do to it; `IdleOK`: attempts that were not started hold nothing; `CountOK`: each pull request has an attempt that created it, which bounds their number; that nobody who reads a rejected row goes on to write takes one lemma per step; `DraftOK`: no tier below suggest marks anything ready |
| IntakeProofs | `TypeCorrect`, `CommittedTasksRun`, `TriageIsKept`, `FinishedStaysFinished` | `RequestOK`: what a request's earlier reads still tell it of the row while others work on it; `RunOK`: what holds of a row from the moment its workflow was started; `StatusOK`, `TriageOK`: the statuses this part of the program writes, and for whom; `FreshOK`: a manual task's id is its own. For every kind of source, the manual one included, which the instance of `intake` leaves out for its size |
| OutcomeProofs | `TypeCorrect`, `EventsCountOnce`, `AcknowledgedIsKept`, `FailuresBalance`, `ReplayedCounts` | `KeysOK` and `RowsOK` are the property; `SaversOK` makes them inductive: at most one coroutine is about to store a signal's row, and finds none. `KeptOK`: what a callback has in hand is kept before it is acknowledged; `MarksOK`: what a replay is about to mark is a signal; `LocalsOK`: what callbacks and replays hold. The balance of failures takes finite cardinalities: an event appended to the quarantine is one more of its payload |
The twenty-four components of `services` are proved in three modules, each
component with an inductive invariant `IInv` of its own that stands at the end of
its module, was checked by TLC first, and is a conjunction of named parts. An
instance's invariant holds while a behaviour is about it, `focus` never changes
(`FocusStays`), and so `Spec => [](focus = "poller" => Poller!IInv)`, and the
theorems, follow component by component. In these modules a component's variables
have the names Services gives them, and `Poller!` stands before its definitions;
the comment at the head of each section says which variable is which.

| Component | Theorem | The inductive invariant, and why it is needed |
|---|---|---|
| **DashboardProofs** | | |
| PullRequests | `RowTellsTheTruth` | `EventsOK`: each event has its own number, and the last one tells how things are; `MergedOK`: only what was merged is said to be, by an event on its way, in work, or by the row; `InTurn`, `UpToDate`: as long as nothing strayed, events are handled one by one, and the row or a hand holds what the newest one said |
| Polling, EventStream, Consumers | `NothingFallsBetween` | `PagesOK`: unless an issue closed, what the cycle has not read is on a page still to be read or newer than all it has read, because an update moves the others one place back; `PositionOK`, `WireOK`: the browser's position and what is on the wire are past known events only; `InHandOK`: what is to be acknowledged has had its effect |
| Board | `BoardShows` | `SyncOK`: of the fields only the tier is ever set, and a request that met nobody has shown every active task whose turn is over; this takes the lemma that no value of a row's status is a key of the mapping |
| Portfolio | `ReviewShows` | `CalmOK`: the one attempt of a calm run has stored what it judged before it looks for the open report, and finds it; `NeverTroubled`: without trouble there is at most one to find |
| Intents | `IntentPrevails` | `AloneOK`: beside a request that shares with nobody only the workflow stores, and only version 1; `NewestOK`: the acknowledged version is above all others but those stored since; `PublisherOK`: the head was noted from a stored version after the push |
| SideActivities | `AsidesAreSound` | `AddersOK`: each status comment was added by an attempt of its own, and of those that kept their time the later has found the earlier's, so that there is one adder beside those that were late; `CommentsOK`, `RowsOK`, `EventsOK`, `PostsOK`: what each attempt has found, stored, announced and posted; `OrderOK`: what the run awaits it awaits in turn |
| **TaskProofs** | | |
| Readiness | `MoreIsNoWorse` | the latest text has all that was judged; the work is in the lemmas: each of the six scores, the weighted sum and the list of what is missing is monotone in what a text says |
| Consultation | `PlansAccount` | `RecruitsOK`: who was recruited is there and not in shadow; the property is of one step, so that most is about the plan: the loop over the classes is shown to keep its account class by class |
| Assembly | `PassedWasAgreed` | `LookedAt`: where preflight is on, it has looked at the plan that is implemented |
| Isolation, Verification | `WorkStaysContained`, and the next | `InHandOK`: an attempt that met no failure has its container in hand when it cleans up; `Tidy`, `OwnCode`, `CompanyOK`: what a verification that met no trouble leaves, what one alone on the host has installed, and that two that are together know it |
| Revision | `EvidenceIsSound` | `PushedIsThere`, `ReportedIsThere`: what an attempt took for pushed stays on the branch or was removed by people; `SeenIsReported`: the checks run on all of it, but what people removed |
| Experts | `SyncIsWhole` | `RoundOK`: what a call that runs alone has dealt with is in force and the rest is as it knew it; `AloneOK`; `SessionsOK`: what a session has in hand is there; `NumbersOK`: while none overlapped a row has the number of its newest version. Two overlapping calls may leave a row behind its versions, and then the stored hash is looked for among all of them (`Behind`) |
| **AdministrationProofs** | | |
| Repositories | `ExecuteTakesAnOverride`, `DeletionStays` | `RequestOK`: a request under way had loaded a row that was not deleted, and only an override wants execute without having loaded it; it rests on the lemma that the compliance gate lets no promotion to execute through. `RowOK`: an insert is the first thing that happens to a row |
| Secrets | `SecretsSurvive` | `RotationOK`: while a rotation is under way, nothing needs the key of an earlier one, and it is the only one |
| Compliance, Planes | `ComplianceIsSound` | `OneAtWork` and `HalfDone`: one check at a time, whose list has the four results had before its first await; `CardsOK`: a card that says healthy by the registry's word is no younger than the time the plane was last healthy |
| TrustTier | `TiersAreEarned` | `FreshOK`: who has evaluated nothing knows no tier; `EmitOK`: the audit entry is written before the answer is given |
| ModelGateway, Budget | `CallsKeepTheBooks` | the gateway's properties are inductive as they stand; of the budget `PausesOK` and `RoutingOK` say what the check of the last message has still to do, and `CheckOK` that there is a message |
| Console | `ConsoleTellsAll` | `OwedOK`: a run that is due is on the list or a query that finds it is left, where `LeftOK` keeps the query for those at work before the others; `ReaderOK`: none of the rows that are due ranks before what was loaded unless it was loaded, for rows that come later rank before all of them |
| Reputation | `TrustTakesSamples` | each copy of the record, in memory, in the row, in the hands of an update, is of no more outcomes than were received; the sum of the weights has to be bounded with it, or a weight could not be |
| all | `StatesHaveTypes` | type correctness of every component, which is the first conjunct of each invariant |

What these proofs assume beyond the components' assumptions: `ComplianceIsSound`
has `Clients = {}`, as in `src/compliance/router.py` and `promotion.py`, which
construct the checker without any; with a client two checks do mix their
results. Symbols have to differ where the code compares them: in SideActivities
the answers of people are none of the requests.

Attempts that failed told what the invariants above have to say, and TLC what is
false: that cheaper models are enabled near the cap does not hold before anything
is spent if the percentage is 0, which `src/dashboard/models/budget_config.py`
admits (`ge=0.0`), so `CheapWhenNear` now asks for spend; that a row's number is
its newest version's fails once synchronisations overlapped, so `NumbersOK` and
`InForce` speak of it; and the last attempt of a job that was given up has to
count among those that outlived their time (`Late`), because it may post
afterwards.
Every proof that a step preserves an invariant has one step, or one lemma, per
action and under it one per conjunct the action can disturb. `ImplementsDelivery`
maps a verified revision that QA passed to `checked`, the verdicts on the
publication to `said` as they are sent, the end of the wait that took one up to
`accepted`, a new implementation to `Rework`, `continue_as_new` to `Restart`, and
everything else to a stutter.

Only model-checked: the liveness properties (`AbortObserved`, `Terminates`,
`RetryHeals`, `Answered`, `EachSettles`), which are out of this prover's reach.
Type correctness of Pipeline, Publication, Intake and Outcome is proved, and no
run repeats it. That a fold or a recursive function computes what it should for
every input would need induction over data; where a proof needs one (the rank of
an issue, the place of a row in the log), it takes the library's facts on finite
sets or well-founded orders instead.

## 5. How the parts fit

A webhook or the poller makes a row (Intake, Polling) and starts a workflow
(Pipeline), which people steer through endpoints that read that row (Control).
The workflow finds out what the issue is about and whether it is ready
(Readiness), states an intent (Intents), chooses experts (Consultation, from
Experts), plans (Assembly), asks for a tier (TrustTier), has code written
(Revision, Isolation, ModelGateway), verified (Verification) and judged
(Assembly), and publishes it (Publication); beside that it comments and audits
(SideActivities). Afterwards GitHub's events keep the
merge status (PullRequests). Events about all of it reach the browser
(EventStream), the dashboard's tables (Consumers) and the outcome store (Outcome).
Administrators change repositories (Repositories, Compliance, Planes), secrets
(Secrets) and budgets (Budget), and look at runs (Console) and the board (Board,
Portfolio) meanwhile.

Composed are Control with Pipeline, where the staleness between row and workflow
is the question, and Publication and Intake with the row's transitions. The
others meet at a value that is handed over once (a tier, a set of files, a
delivery), which the receiving module leaves open: Pipeline takes any result of
any activity, Publication any tier.

## 6. Not modelled, and why

- The approval chat is reached in `awaiting_approval`, a status nobody writes, and
  no migration creates its tables.
- `VerificationGate` is not called by the pipeline's `verify_activity`.
- Of reputation, the scheduler of the decay, which nobody calls, and the queries.
- The post-merge monitor never starts: publication never enables auto-merge.
- Calls that only tests make are modelled as the tests make them, and each module
  says so: recruiting, reputation, the portfolio review, planes, tasks with a
  budget.
- `writes_enabled` of a repository, the publisher's freeze
  (`thestudioarc/POLICIES.md:37`), is set and shown, but nothing decides by it, so
  Repositories has the column and no module has its effect.
- RBAC, metrics and the pages of `src/admin` and `src/dashboard` are role tables,
  queries and templates.
- The React frontend beyond its event hooks, and the vendored SDK. Of the agent's
  Ralph mode, ModelGateway has the booking, and Isolation that it works in the
  worker's process; its heartbeats, its own time-out and the state file of its
  loop are left out.

## 7. What the plan has left

1. Refinement: abstract specifications of the components of `services` whose
   promise is an interface (the poller, the consumers, the event stream), and
   the mappings under which they implement them, as Pipeline does Delivery.
2. Action properties that the runs check only as invariants of histories: what a
   step of a publication, of the outcome store or of a rotation may never do.
3. `VerificationGate` and the chat's cap: counts read and written in separate
   commits, once the pipeline or a status reaches them.
4. A Ralph run with its state store, which lacks methods the SDK calls.
