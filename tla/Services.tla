------------------------------ MODULE Services ------------------------------
(***************************************************************************)
(* The components that work beside the pipeline and share no state: one    *)
(* behaviour exercises one of them, `focus', chosen in the initial state.  *)
(* All of them use the same variables v1, v2, ..., in the order of their   *)
(* own `vars'; those a component has no use for stay 0.                    *)
(***************************************************************************)
EXTENDS Integers

\* What several components have: people's and other services' requests, runs of
\* a workflow or an activity, tasks.
CONSTANTS Requests, Runs, Tasks

VARIABLES focus, v1, v2, v3, v4, v5, v6, v7, v8, v9, v10, v11, v12

v == << focus, v1, v2, v3, v4, v5, v6, v7, v8, v9, v10, v11, v12 >>

-----------------------------------------------------------------------------
(* The instances, each after the constants that only it has; what they mean *)
(* and what is assumed of them is said in the component's module            *)

Repository == INSTANCE Repositories WITH
  registered <- v1, row <- v2, request <- v3, overridden <- v4

CONSTANTS Rules, Shapes, Packets, MaxEdits, MaxFailures
Trust == INSTANCE TrustTier WITH
  rules <- v1, bounds <- v2, task <- v3, audit <- v4, edits <- v5, failures <- v6
ASSUME TrustAssumption == Trust!TrustTierAssumption

CONSTANTS Providers, ClassOf, CallContexts, CostRouting, Costs, Limit, StepCap, MaxPaid
Gateway == INSTANCE ModelGateway WITH
  Contexts <- CallContexts,
  enabled <- v1, run <- v2, spend <- v3, tokens <- v4, audited <- v5, paid <- v6
ASSUME GatewayAssumption == Gateway!ModelGatewayAssumption

\* ImplementTries: the attempts of one implement activity, here and in Isolation.
CONSTANTS Paths, ImplementTries, MaxLoopbacks, MaxFaults
Branch == INSTANCE Revision WITH
  Tries <- ImplementTries,
  stage <- v1, attempt <- v2, current <- v3, tries <- v4, loopbacks <- v5, tip <- v6,
  reported <- v7, remote <- v8, seen <- v9, check <- v10, faults <- v11,
  removed <- v12
ASSUME BranchAssumption == Branch!RevisionAssumption

CONSTANTS Settings, HookedRepos, MaxKey
Setting == INSTANCE Secrets WITH
  Repos <- HookedRepos,
  env <- v1, cipher <- v2, stored <- v3, hook <- v4, request <- v5, made <- v6,
  held <- v7, meddled <- v8
ASSUME SettingAssumption == Setting!SecretsAssumption

CONSTANTS Handlers, MaxEvents
PullRequest == INSTANCE PullRequests WITH
  github <- v1, happened <- v2, pending <- v3, merge <- v4, handler <- v5,
  newest <- v6, strayed <- v7
ASSUME PullRequestAssumption == PullRequest!PullRequestsAssumption

CONSTANTS Issues, PerPage, MaxTime
Poller == INSTANCE Polling WITH
  issue <- v1, now <- v2, since <- v3, tasks <- v4, cycle <- v5, excused <- v6
ASSUME PollerAssumption == Poller!PollingAssumption

Container == INSTANCE Isolation WITH
  MaxAttempts <- ImplementTries,
  mode <- v1, fallback <- v2, attempt <- v3, container <- v4, result <- v5, botched <- v6
ASSUME ContainerAssumption == Container!IsolationAssumption

CONSTANTS MaxSeq, MaxGap
Events == INSTANCE EventStream WITH
  last <- v1, conn <- v2, wire <- v3, lastId <- v4, got <- v5, shown <- v6,
  reload <- v7, excused <- v8
ASSUME EventsAssumption == Events!EventStreamAssumption

CONSTANTS Messages, MaxCopies
Dashboard == INSTANCE Consumers WITH
  published <- v1, consumer <- v2, copies <- v3, atWork <- v4, effects <- v5,
  acked <- v6, failures <- v7
ASSUME DashboardAssumption == Dashboard!ConsumersAssumption

CONSTANTS Scanned, Manifests, MaxExpertVersion
Library == INSTANCE Experts WITH
  Experts <- Scanned, Texts <- Manifests, Syncs <- Requests, MaxVersion <- MaxExpertVersion,
  expert <- v1, versions <- v2, sync <- v3, shared <- v4
ASSUME LibraryAssumption == Library!ExpertsAssumption

CONSTANTS MaxVersions, MaxRuns, MaxTries
Intent == INSTANCE Intents WITH
  specs <- v1, pointer <- v2, status <- v3, workflow <- v4, request <- v5,
  publisher <- v6, pushed <- v7, shared <- v8, newest <- v9
ASSUME IntentAssumption == Intent!IntentsAssumption

CONSTANTS LabelLists, IntakeAnswers, IntakeFlags, SeedRows, Candidates, TemplateName, Confidences,
          MaxRecruitVersion
Consulted == INSTANCE Consultation WITH
  Answers <- IntakeAnswers,
  Issues <- LabelLists, FlagSets <- IntakeFlags, Experts <- Candidates,
  MaxVersion <- MaxRecruitVersion,
  library <- v1, task <- v2
ASSUME ConsultedAssumption == Consulted!ConsultationAssumption

CONSTANTS IssueTexts, ContextFlags, Complexities, TrustTiers, MaxEvaluations
Ready == INSTANCE Readiness WITH
  Texts <- IssueTexts, FlagSets <- ContextFlags,
  text <- v1, context <- v2, gate <- v3
ASSUME ReadyAssumption == Ready!ReadinessAssumption

CONSTANTS Criteria, Vague, Validations, Overlaps, PlanSteps, Checkpoint, CriteriaSets, Panels,
          AgentPlans, MaxQaLoopbacks
Assembled == INSTANCE Assembly WITH
  Steps <- PlanSteps,
  Intents <- CriteriaSets,
  asked <- v1, plan <- v2, task <- v3, reviewed <- v4, evidence <- v5
ASSUME AssembledAssumption == Assembled!AssemblyAssumption

CONSTANTS Outcomes, Bands, ReopenKinds, Decays, MinSamples, ConfidentFrom, MaxReceived
Reputed == INSTANCE Reputation WITH
  Reopens <- ReopenKinds,
  Updates <- Requests,
  received <- v1, memory <- v2, row <- v3, update <- v4, review <- v5
ASSUME ReputedAssumption == Reputed!ReputationAssumption

CONSTANTS BoardRows, Projects, MaxDisturbances
Shown == INSTANCE Board WITH
  Syncs <- Requests, Rows <- BoardRows,
  row <- v1, project <- v2, item <- v3, sync <- v4, noted <- v5, disturbances <- v6
ASSUME ShownAssumption == Shown!BoardAssumption

CONSTANTS Boards, ItemsPerPage, BlockedPercent, MaxHighRisk, RepoPercent, ReviewTries,
          MaxReviews, MaxReviewTroubles
Reviewed == INSTANCE Portfolio WITH
  PageSize <- ItemsPerPage, MaxAttempts <- ReviewTries, MaxTroubles <- MaxReviewTroubles,
  board <- v1, reviews <- v2, attempt <- v3, result <- v4, stored <- v5, reports <- v6,
  calm <- v7, troubles <- v8
ASSUME ReviewedAssumption == Reviewed!PortfolioAssumption

CONSTANT MaxRemoteTroubles
Verified == INSTANCE Verification WITH
  MaxTroubles <- MaxRemoteTroubles,
  run <- v1, directory <- v2, orphans <- v3, container <- v4, installed <- v5,
  verdict <- v6, tested <- v7, company <- v8, troubled <- v9, troubles <- v10
ASSUME VerifiedAssumption == Verified!VerificationAssumption

CONSTANTS Plans, JobTries, CommentsPerPage, MaxPeople, MaxJobTroubles
Aside == INSTANCE SideActivities WITH
  Tries <- JobTries, PageSize <- CommentsPerPage, MaxTroubles <- MaxJobTroubles,
  jobs <- v1, job <- v2, attempt <- v3, thread <- v4, rows <- v5, events <- v6,
  messages <- v7, botched <- v8, over <- v9, troubles <- v10
ASSUME AsideAssumption == Aside!SideActivitiesAssumption

CONSTANTS Caps, Percent, MaxSpend, MaxBudgetTroubles
Spending == INSTANCE Budget WITH
  MaxTroubles <- MaxBudgetTroubles,
  budgeted <- v1, task <- v2, spend <- v3, messages <- v4, config <- v5, checker <- v6,
  activated <- v7, routing <- v8, excused <- v9, uncounted <- v10, troubles <- v11
ASSUME SpendingAssumption == Spending!BudgetAssumption

CONSTANTS Repos, Clients, Facts, MaxChanges
Complied == INSTANCE Compliance WITH
  MaxTroubles <- MaxChanges,
  facts <- v1, workspaces <- v2, tools <- v3, results <- v4, request <- v5,
  verdict <- v6, blocked <- v7, troubles <- v8
ASSUME CompliedAssumption == Complied!ComplianceAssumption

CONSTANTS FleetRepos, Ttl
Plane == INSTANCE Planes WITH
  Repos <- FleetRepos, Ids <- Requests,
  status <- v1, assigned <- v2, stored <- v3, card <- v4, sick <- v5, shown <- v6
ASSUME PlaneAssumption == Plane!PlanesAssumption

CONSTANTS RunKinds, Filters, Endings, StuckAfter, RowsPerPage, MaxClock, MaxConsoleTroubles
Consoled == INSTANCE Console WITH
  Kinds <- RunKinds,
  PageSize <- RowsPerPage, MaxTroubles <- MaxConsoleTroubles,
  part <- v1, clock <- v2, run <- v3, listing <- v4, owed <- v5, was <- v6, request <- v7,
  rows <- v8, expired <- v9, reader <- v10, troubles <- v11
ASSUME ConsoledAssumption == Consoled!ConsoleAssumption

-----------------------------------------------------------------------------
Unused11 == v12 = 0
Unused10 == v11 = 0 /\ Unused11
Unused9 == v10 = 0 /\ Unused10
Unused8 == v9 = 0 /\ Unused9
Unused7 == v8 = 0 /\ Unused8
Unused6 == v7 = 0 /\ Unused7
Unused5 == v6 = 0 /\ Unused6
Unused4 == v5 = 0 /\ Unused5
Unused3 == v4 = 0 /\ Unused4
Unused2 == v3 = 0 /\ Unused3

Init ==
  \/ focus = "repository"   /\ Repository!Init  /\ Unused4
  \/ focus = "trust"        /\ Trust!Init       /\ Unused6
  \/ focus = "gateway"      /\ Gateway!Init     /\ Unused6
  \/ focus = "branch"       /\ Branch!Init
  \/ focus = "setting"      /\ Setting!Init     /\ Unused8
  \/ focus = "pull_request" /\ PullRequest!Init /\ Unused7
  \/ focus = "poller"       /\ Poller!Init      /\ Unused6
  \/ focus = "container"    /\ Container!Init   /\ Unused6
  \/ focus = "events"       /\ Events!Init      /\ Unused8
  \/ focus = "dashboard"    /\ Dashboard!Init   /\ Unused7
  \/ focus = "library"      /\ Library!Init     /\ Unused4
  \/ focus = "intent"       /\ Intent!Init      /\ Unused9
  \/ focus = "consulted"    /\ Consulted!Init   /\ Unused2
  \/ focus = "ready"        /\ Ready!Init       /\ Unused3
  \/ focus = "assembled"    /\ Assembled!Init   /\ Unused5
  \/ focus = "reputed"      /\ Reputed!Init     /\ Unused5
  \/ focus = "shown"        /\ Shown!Init       /\ Unused6
  \/ focus = "reviewed"     /\ Reviewed!Init    /\ Unused8
  \/ focus = "verified"     /\ Verified!Init    /\ Unused10
  \/ focus = "aside"        /\ Aside!Init       /\ Unused10
  \/ focus = "spending"     /\ Spending!Init    /\ Unused11
  \/ focus = "complied"     /\ Complied!Init    /\ Unused8
  \/ focus = "plane"        /\ Plane!Init       /\ Unused6
  \/ focus = "consoled"     /\ Consoled!Init    /\ Unused11

Kept2 == UNCHANGED << focus, v3, v4, v5, v6, v7, v8, v9, v10, v11, v12 >>
Kept3 == UNCHANGED << focus, v4, v5, v6, v7, v8, v9, v10, v11, v12 >>
Kept4 == UNCHANGED << focus, v5, v6, v7, v8, v9, v10, v11, v12 >>
Kept5 == UNCHANGED << focus, v6, v7, v8, v9, v10, v11, v12 >>
Kept6 == UNCHANGED << focus, v7, v8, v9, v10, v11, v12 >>
Kept7 == UNCHANGED << focus, v8, v9, v10, v11, v12 >>
Kept8 == UNCHANGED << focus, v9, v10, v11, v12 >>
Kept9 == UNCHANGED << focus, v10, v11, v12 >>
Kept10 == UNCHANGED << focus, v11, v12 >>
Kept11 == UNCHANGED << focus, v12 >>

Next ==
  \/ focus = "repository"   /\ Repository!Next  /\ Kept4
  \/ focus = "trust"        /\ Trust!Next       /\ Kept6
  \/ focus = "gateway"      /\ Gateway!Next     /\ Kept6
  \/ focus = "branch"       /\ Branch!Next      /\ UNCHANGED focus
  \/ focus = "setting"      /\ Setting!Next     /\ Kept8
  \/ focus = "pull_request" /\ PullRequest!Next /\ Kept7
  \/ focus = "poller"       /\ Poller!Next      /\ Kept6
  \/ focus = "container"    /\ Container!Next   /\ Kept6
  \/ focus = "events"       /\ Events!Next      /\ Kept8
  \/ focus = "dashboard"    /\ Dashboard!Next   /\ Kept7
  \/ focus = "library"      /\ Library!Next     /\ Kept4
  \/ focus = "intent"       /\ Intent!Next      /\ Kept9
  \/ focus = "consulted"    /\ Consulted!Next   /\ Kept2
  \/ focus = "ready"        /\ Ready!Next       /\ Kept3
  \/ focus = "assembled"    /\ Assembled!Next   /\ Kept5
  \/ focus = "reputed"      /\ Reputed!Next     /\ Kept5
  \/ focus = "shown"        /\ Shown!Next       /\ Kept6
  \/ focus = "reviewed"     /\ Reviewed!Next    /\ Kept8
  \/ focus = "verified"     /\ Verified!Next    /\ Kept10
  \/ focus = "aside"        /\ Aside!Next       /\ Kept10
  \/ focus = "spending"     /\ Spending!Next    /\ Kept11
  \/ focus = "complied"     /\ Complied!Next    /\ Kept8
  \/ focus = "plane"        /\ Plane!Next       /\ Kept6
  \/ focus = "consoled"     /\ Consoled!Next    /\ Kept11

Spec == Init /\ [][Next]_v

-----------------------------------------------------------------------------
(* The components' properties *)

\* The state of every component has its type.
TypeOK ==
  /\ focus = "repository"   => Repository!TypeOK
  /\ focus = "trust"        => Trust!TypeOK
  /\ focus = "gateway"      => Gateway!TypeOK
  /\ focus = "branch"       => Branch!TypeOK
  /\ focus = "setting"      => Setting!TypeOK
  /\ focus = "pull_request" => PullRequest!TypeOK
  /\ focus = "poller"       => Poller!TypeOK
  /\ focus = "container"    => Container!TypeOK
  /\ focus = "events"       => Events!TypeOK
  /\ focus = "dashboard"    => Dashboard!TypeOK
  /\ focus = "library"      => Library!TypeOK
  /\ focus = "intent"       => Intent!TypeOK
  /\ focus = "consulted"    => Consulted!TypeOK
  /\ focus = "ready"        => Ready!TypeOK
  /\ focus = "assembled"    => Assembled!TypeOK
  /\ focus = "reputed"      => Reputed!TypeOK
  /\ focus = "shown"        => Shown!TypeOK
  /\ focus = "reviewed"     => Reviewed!TypeOK
  /\ focus = "verified"     => Verified!TypeOK
  /\ focus = "aside"        => Aside!TypeOK
  /\ focus = "spending"     => Spending!TypeOK
  /\ focus = "complied"     => Complied!TypeOK
  /\ focus = "plane"        => Plane!TypeOK
  /\ focus = "consoled"     => Consoled!TypeOK

\* src/compliance: execute is reached through an administrator's override only.
ExecuteIsGated == focus = "repository" => Repository!ExecuteIsGated
\* src/repo/repository.py: a deletion is not undone by a request that overlaps it.
DeletionIsFinal == [][ focus = "repository" => Repository!StaysDeleted ]_v

\* src/dashboard/trust_engine.py: no task is at execute that did not earn it, and
\* a tier that was answered is in the audit log.
TiersAreSound == focus = "trust" => Trust!TierIsEarned /\ Trust!AnswerIsAudited

\* src/admin/model_gateway.py: spend and tokens are booked together, and sensitive
\* work gets a strong model or none; src/dashboard/budget_checker.py: at the cap
\* workflows are paused, and cheaper models are enabled before it.
CallsAreSound ==
  /\ focus = "gateway"  => Gateway!BooksAgree /\ Gateway!SensitiveIsStrong
  /\ focus = "spending" => Spending!CapIsKept /\ Spending!CheapWhenNear

\* src/workflow/activities.py, src/verification/remote: the evidence that QA sees is
\* on the branch and the remote verification saw all of it, but for what people have
\* removed; one without company passed the code it had cloned.
EvidenceIsTrue ==
  /\ focus = "branch"   => Branch!EvidenceIsOnBranch /\ Branch!RemoteSawEvidence
  /\ focus = "verified" => Verified!PassedOwnCode

\* src/admin/settings_service.py: a key rotation loses no secret.
Recoverable == focus = "setting" => Setting!Recoverable

\* src/ingress/webhook_handler.py: a pull request said to be merged is, and the row
\* follows GitHub's events.
MergeStatusIsTrue ==
  focus = "pull_request" => PullRequest!MergedIsMerged /\ PullRequest!FollowsGitHub

\* src/agent: in container mode nothing works in the worker's process where the tier
\* denies it, and an attempt takes its container with it; src/verification/remote:
\* nothing is left.
WorkIsContained ==
  /\ focus = "container" => Container!ContainedWhenDenied /\ Container!NoStrays
  /\ focus = "verified"  => Verified!LeavesNothing

\* src/ingress/poll: poll_since moves past no issue that was not seen;
\* src/dashboard/events.py: a tab that reconnects misses nothing unawares;
\* src/dashboard: a consumer acknowledges what it has acted on.
NothingIsLost ==
  /\ focus = "poller"    => Poller!NothingSkipped
  /\ focus = "events"    => Events!NoSilentGap
  /\ focus = "dashboard" => Dashboard!AckedHadEffect

\* src/workflow/activities.py: what a run says beside its stages it says once, and
\* the audit log has what was audited.
AsidesAreTrue ==
  focus = "aside" => Aside!OneStatus /\ Aside!AuditIsTrue /\ Aside!AskedOnce

\* src/admin: the console's list has every run it is to show, and who reads the audit
\* log to its end has read all of it.
ConsoleIsTrue == focus = "consoled" => Consoled!ListIsWhole /\ Consoled!LogIsWhole

\* src/compliance, src/admin/compliance_scorecard.py: a verdict is on the repository
\* asked for, and a scorecard shows what was so within its time.
ComplianceIsTrue ==
  /\ focus = "complied" => Complied!VerdictIsOwn
  /\ focus = "plane"    => Plane!ShownWasSo

\* src/experts/registrar.py: a synchronisation leaves the library as scanned.
LibraryIsSynced == [][ focus = "library" => Library!SyncsWhole ]_v

\* src/dashboard/planning.py: an acknowledged change of the intent is in force;
\* src/publisher/publisher.py: the head of the pull request has the code.
IntentIsServed == focus = "intent" => Intent!ChangePrevails /\ Intent!HeadHasCode

\* src/routing, src/recruiting: what a task needs is covered, asked for or escalated.
PlansAreComplete == [][ focus = "consulted" => Consulted!PlanAccounts ]_v

\* src/readiness: who says more is not turned away for it.
MoreIsBetter == [][ focus = "ready" => Ready!MoreNeverHurts ]_v

\* src/qa: what the rules let pass was agreed on, and there is evidence for it.
PassedAsAgreed == focus = "assembled" => Assembled!PassedAsAgreed

\* src/reputation: no tier without the samples it takes.
TrustIsEarned == focus = "reputed" => Reputed!TrustIsEarned

\* src/dashboard/github_router.py: a synchronisation of the board says what it left out.
BoardIsSynced == [][ focus = "shown" => Shown!AnsweredIsShown ]_v

\* src/meridian: a review is stored and shown, in one open issue.
ReviewIsShown == focus = "reviewed" => Reviewed!ReviewIsShown /\ Reviewed!OneReport

=============================================================================
