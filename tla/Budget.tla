------------------------------- MODULE Budget -------------------------------
(***************************************************************************)
(* The weekly budget (src/dashboard/budget_checker.py): a consumer that at *)
(* each pipeline.cost_update compares the week's spend with the cap, and   *)
(* pauses every active workflow or lets cheaper models be chosen.          *)
(*                                                                         *)
(* The spend is what the store of model calls in this process knows.  Only *)
(* calls made with a pipeline budget are announced; but for the tests no   *)
(* code gives a task one, so `budgeted' is empty in the program as it is.  *)
(*                                                                         *)
(* Messages are handled one at a time, in whatever order, and each of them *)
(* asks for the same: they are counted, not told apart.                    *)
(***************************************************************************)
EXTENDS Naturals, FiniteSets

CONSTANTS
  Tasks,
  Caps,          \* caps an administrator sets; every call costs 1
  Percent,       \* downgrade_threshold_percent
  MaxSpend,      \* bound: calls of a process that count, messages on their way
  MaxTroubles    \* bound: failing calls, restarts, changes by people

NoCap == 0

BudgetAssumption ==
  /\ Caps \subseteq Nat \ {NoCap} /\ Percent \in 0..100
  /\ MaxSpend \in Nat /\ MaxTroubles \in Nat

VARIABLES
  budgeted,     \* the tasks whose calls are announced
  task,         \* the status of each row, and whether its workflow is paused
  spend,        \* of the week, in the store of this process
  messages,     \* cost updates that are not acknowledged
  config,       \* the row of budget_config
  checker,      \* what the consumer is at, with what it has read
  activated,    \* _downgrade_activated
  routing,      \* cost_optimization_routing_enabled, in the settings
  excused,      \* history: tasks that no completed check has had to pause
  uncounted,    \* history: cheaper models that no check has had to enable
  troubles

vars == << budgeted, task, spend, messages, config, checker, activated, routing,
           excused, uncounted, troubles >>

IsConfig == [ cap : Caps \cup {NoCap}, pause : BOOLEAN, downgrade : BOOLEAN ]
Default == [ cap |-> NoCap, pause |-> FALSE, downgrade |-> FALSE ]
Idle == [ at |-> "idle", config |-> Default, spend |-> 0, todo |-> {} ]

TypeOK ==
  /\ budgeted \subseteq Tasks
  /\ task \in [ Tasks -> [ status : { "triage", "active", "over" }, paused : BOOLEAN ] ]
  /\ spend \in 0..MaxSpend /\ messages \in 0..MaxSpend
  /\ config \in IsConfig
  /\ checker \in [ at : { "idle", "load", "cap", "signal", "near" }, config : IsConfig,
                   spend : 0..MaxSpend, todo : SUBSET Tasks ]
  /\ activated \in BOOLEAN /\ routing \in BOOLEAN
  /\ excused \subseteq Tasks /\ uncounted \in BOOLEAN
  /\ troubles \in 0..MaxTroubles

Init ==
  /\ budgeted \in SUBSET Tasks
  /\ task \in [ Tasks -> [ status : { "triage", "active" }, paused : {FALSE} ] ]
  /\ spend = 0 /\ messages = 0
  /\ config \in { Default } \cup { [ cap |-> c, pause |-> TRUE, downgrade |-> TRUE ] : c \in Caps }
  /\ checker = Idle
  /\ activated = FALSE /\ routing = FALSE
  /\ excused = {} /\ uncounted = FALSE
  /\ troubles = 0

Trouble == troubles < MaxTroubles /\ troubles' = troubles + 1

\* Mutant: the cap is what may be spent.
ExceededBeyond(c, s) == c.pause /\ c.cap # NoCap /\ s > c.cap

\* Mutant: cheaper models only once it is spent.
NearAtCap(c, s) == c.downgrade /\ c.cap # NoCap /\ s >= c.cap

Exceeded(c, s) == c.pause /\ c.cap # NoCap /\ s >= c.cap
Near(c, s) == c.downgrade /\ c.cap # NoCap /\ s * 100 >= c.cap * Percent

-----------------------------------------------------------------------------
(* Model calls and tasks *)

\* AgentRunner.run: the call is audited before it is announced.
Calls(t) ==
  /\ task[t].status = "active"
  /\ spend < MaxSpend /\ messages < MaxSpend
  /\ spend' = spend + 1
  /\ IF t \in budgeted
       THEN messages' = messages + 1 /\ UNCHANGED << excused, uncounted >>
       ELSE excused' = Tasks /\ uncounted' = TRUE /\ UNCHANGED messages
  /\ UNCHANGED << budgeted, task, config, checker, activated, routing, troubles >>

\* emit_cost_update swallows the failure.
CallsUnheard(t) ==
  /\ task[t].status = "active" /\ t \in budgeted
  /\ spend < MaxSpend
  /\ spend' = spend + 1
  /\ excused' = Tasks /\ uncounted' = TRUE
  /\ Trouble
  /\ UNCHANGED << budgeted, task, messages, config, checker, activated, routing >>

\* get_spend_report: what is older than the window is not counted.
Ages ==
  /\ spend > 0
  /\ spend' = spend - 1
  /\ UNCHANGED << budgeted, task, messages, config, checker, activated, routing,
                  excused, uncounted, troubles >>

\* A task that is accepted after a check was not paused by it.
Moves(t) ==
  /\ \/ task[t].status = "triage" /\ task' = [ task EXCEPT ![t].status = "active" ]
     \/ task[t].status = "active" /\ task' = [ task EXCEPT ![t].status = "over" ]
  /\ excused' = excused \cup {t}
  /\ UNCHANGED << budgeted, spend, messages, config, checker, activated, routing,
                  uncounted, troubles >>

Resumes(t) ==
  /\ task[t].paused
  /\ task' = [ task EXCEPT ![t].paused = FALSE ]
  /\ excused' = excused \cup {t}
  /\ Trouble
  /\ UNCHANGED << budgeted, spend, messages, config, checker, activated, routing, uncounted >>

-----------------------------------------------------------------------------
(* Administrators *)

\* update_budget_config leaves what is not given, or given as null, as it is: a cap
\* can be changed and never be taken away.
Updated ==
  { [ cap |-> c, pause |-> p, downgrade |-> d ] :
      c \in Caps \cup {config.cap}, p \in BOOLEAN, d \in BOOLEAN }

\* Nothing is checked until the next call.
PutConfig ==
  /\ config' \in Updated
  /\ config' # config
  /\ excused' = Tasks /\ uncounted' = TRUE
  /\ Trouble
  /\ UNCHANGED << budgeted, task, spend, messages, checker, activated, routing >>

SwitchesOff ==
  /\ routing
  /\ routing' = FALSE
  /\ uncounted' = TRUE
  /\ Trouble
  /\ UNCHANGED << budgeted, task, spend, messages, config, checker, activated, excused >>

-----------------------------------------------------------------------------
(* The consumer *)

Receives ==
  /\ checker.at = "idle" /\ messages > 0
  /\ checker' = [ Idle EXCEPT !.at = "load" ]
  /\ UNCHANGED << budgeted, task, spend, messages, config, activated, routing,
                  excused, uncounted, troubles >>

\* get_budget_config, then get_spend_report.
Loads ==
  /\ checker.at = "load"
  /\ checker' = [ at |-> IF Exceeded(config, spend) THEN "cap" ELSE "near",
                  config |-> config, spend |-> spend, todo |-> {} ]
  /\ uncounted' = (uncounted /\ activated)
  /\ excused' = IF Exceeded(config, spend) THEN excused ELSE {}
  /\ UNCHANGED << budgeted, task, spend, messages, config, activated, routing, troubles >>

\* _pause_all_active_workflows selects the rows, then gets a client.
Selects ==
  /\ checker.at = "cap"
  /\ checker' = [ checker EXCEPT !.at = "signal",
                                 !.todo = { t \in Tasks : task[t].status = "active" } ]
  /\ excused' = {}
  /\ UNCHANGED << budgeted, task, spend, messages, config, activated, routing,
                  uncounted, troubles >>

NoClient ==
  /\ checker.at = "cap"
  /\ checker' = [ checker EXCEPT !.at = "near" ]
  /\ excused' = Tasks
  /\ Trouble
  /\ UNCHANGED << budgeted, task, spend, messages, config, activated, routing, uncounted >>

Signals(t) ==
  /\ checker.at = "signal" /\ t \in checker.todo
  /\ checker' = [ checker EXCEPT !.todo = @ \ {t} ]
  /\ task' = [ task EXCEPT ![t].paused = (task[t].status = "active") ]
  /\ UNCHANGED << budgeted, spend, messages, config, activated, routing,
                  excused, uncounted, troubles >>

\* Swallowed: the workflow may be over, or not have started.
SignalFails(t) ==
  /\ checker.at = "signal" /\ t \in checker.todo
  /\ checker' = [ checker EXCEPT !.todo = @ \ {t} ]
  /\ excused' = excused \cup {t}
  /\ Trouble
  /\ UNCHANGED << budgeted, task, spend, messages, config, activated, routing, uncounted >>

Signalled ==
  /\ checker.at = "signal" /\ checker.todo = {}
  /\ checker' = [ checker EXCEPT !.at = "near" ]
  /\ UNCHANGED << budgeted, task, spend, messages, config, activated, routing,
                  excused, uncounted, troubles >>

\* The message is acknowledged in any case.
Acks == messages' = messages - 1 /\ checker' = Idle

Downgrades ==
  /\ checker.at = "near"
  /\ LET enables == ~activated /\ Near(checker.config, checker.spend)
     IN activated' = (activated \/ enables) /\ routing' = (routing \/ enables)
  /\ Acks
  /\ UNCHANGED << budgeted, task, spend, config, excused, uncounted, troubles >>

\* _enable_cost_optimization_routing swallows its failure, and is not called again.
DowngradeFails ==
  /\ checker.at = "near" /\ ~activated /\ Near(checker.config, checker.spend)
  /\ activated' = TRUE /\ uncounted' = TRUE
  /\ Acks
  /\ Trouble
  /\ UNCHANGED << budgeted, task, spend, config, routing, excused >>

\* A query that fails ends the check; the message is acknowledged all the same.
CheckFails ==
  /\ checker.at \in { "load", "cap" }
  /\ excused' = Tasks /\ uncounted' = TRUE
  /\ Acks
  /\ Trouble
  /\ UNCHANGED << budgeted, task, spend, config, activated, routing >>

\* The store of calls and the flag are of the process; the message is redelivered.
Restarts ==
  /\ spend' = 0 /\ activated' = FALSE
  /\ checker' = Idle
  /\ Trouble
  /\ UNCHANGED << budgeted, task, messages, config, routing, excused, uncounted >>

-----------------------------------------------------------------------------
Next ==
  \/ \E t \in Tasks : \/ Calls(t) \/ CallsUnheard(t) \/ Moves(t) \/ Resumes(t)
                      \/ Signals(t) \/ SignalFails(t)
  \/ Ages \/ PutConfig \/ SwitchesOff
  \/ Receives \/ Loads \/ Selects \/ NoClient \/ Signalled
  \/ Downgrades \/ DowngradeFails \/ CheckFails \/ Restarts

Spec == Init /\ [][Next]_vars

-----------------------------------------------------------------------------
(* Properties *)

Checked == checker.at = "idle" /\ messages = 0

\* Once every cost update is handled and the week's spend has reached the cap, every
\* active workflow is paused, unless a failure, a change by people or a call that was
\* not announced came after the last check.
CapIsKept ==
  Checked /\ config.pause /\ config.cap # NoCap /\ spend >= config.cap =>
    \A t \in Tasks \ excused : task[t].status = "active" => task[t].paused

\* Likewise cheaper models are enabled once a call has brought the spend near the cap:
\* a threshold of 0 percent, which the code accepts, is reached by the first call.
CheapWhenNear ==
  Checked /\ spend > 0 /\ config.downgrade /\ config.cap # NoCap
    /\ spend * 100 >= config.cap * Percent
    => routing \/ uncounted

-----------------------------------------------------------------------------
(* The inductive invariant of the proofs *)

\* A check is of a message that is not acknowledged yet, and selects tasks to signal.
CheckOK == (checker.at # "idle" => messages > 0) /\ (checker.at # "signal" => checker.todo = {})

\* Nothing was announced since the check at hand, if any, has read the spend: it is
\* of the last message.  A check past these points has dealt with its task.
LastAt(places) == messages = 0 \/ (messages = 1 /\ checker.at \in places)

PausesOK ==
  LastAt({ "signal", "near" }) /\ Exceeded(config, spend) =>
    \A t \in Tasks \ excused :
      task[t].status = "active" => task[t].paused \/ t \in checker.todo

\* What the check is still going to do.
Enables == checker.at # "idle" /\ ~activated /\ Near(checker.config, checker.spend)

RoutingOK ==
  /\ activated => routing \/ uncounted
  /\ LastAt({ "cap", "signal", "near" }) /\ spend > 0 /\ Near(config, spend) =>
       routing \/ uncounted \/ Enables

IInv == TypeOK /\ CheckOK /\ PausesOK /\ RoutingOK

=============================================================================
