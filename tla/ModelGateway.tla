---------------------------- MODULE ModelGateway ----------------------------
(***************************************************************************)
(* What the agents working on one task ask of the model gateway            *)
(* (src/admin/model_gateway.py): AgentRunner.run (src/agent/framework.py)  *)
(* picks a provider and looks at the task's budget, awaits the model's     *)
(* answer, and books what it cost.  Meanwhile administrators switch        *)
(* providers off and on, and other runs for the same task check and book:  *)
(* a retried activity next to the attempt that timed out.                  *)
(***************************************************************************)
EXTENDS Integers

CONSTANTS
  Runs,
  Providers,
  ClassOf,      \* the model class of each provider
  Contexts,     \* what agents are run with
  CostRouting,  \* cost_optimization_routing_enabled
  Costs,        \* what one call may cost, and as many tokens it takes
  Limit,        \* per_task_max_spend
  StepCap,      \* per_step_token_cap
  MaxPaid       \* bound on what the calls cost together

Classes == { "fast", "balanced", "strong" }
Order == [ fast |-> 1, balanced |-> 2, strong |-> 3 ]

Steps == { "intent", "routing", "assembler", "preflight", "primary_agent" }

\* What the class of a call depends on: the step, whether the security overlay
\* is on, the tier execute, and a high complexity.
AgentContext == [ step : Steps, security : BOOLEAN, execute : BOOLEAN, complex : BOOLEAN ]

\* What the constants are taken to be, where this module is instantiated.
ModelGatewayAssumption ==
  /\ ClassOf \in [ Providers -> Classes ]
  /\ Contexts \subseteq AgentContext
  /\ CostRouting \in BOOLEAN
  /\ Costs \subseteq Nat \ {0}
  /\ Limit \in Nat \ {0} /\ StepCap \in Nat /\ MaxPaid \in Nat

VARIABLES
  enabled,  \* the providers that are switched on
  run,      \* each AgentRunner.run or Ralph session
  spend,    \* _task_spend of the task
  tokens,   \* _task_tokens of the task, per step
  audited,  \* cost of the records in the audit store
  paid      \* history: what the calls have cost

vars == << enabled, run, spend, tokens, audited, paid >>

Idle == [ at |-> "idle", class |-> "fast",
          context |-> [ step |-> "primary_agent", security |-> FALSE,
                        execute |-> FALSE, complex |-> FALSE ] ]

TypeOK ==
  /\ enabled \subseteq Providers
  /\ run \in [ Runs -> [ at : { "idle", "call", "ralph", "raised" }, context : AgentContext,
                         class : Classes ] ]
  /\ spend \in 0..Limit
  /\ tokens \in [ Steps -> 0..StepCap ]
  /\ audited \in Nat /\ paid \in Nat

Init ==
  /\ enabled = Providers
  /\ run = [ r \in Runs |-> Idle ]
  /\ spend = 0
  /\ tokens = [ s \in Steps |-> 0 ]
  /\ audited = 0 /\ paid = 0

-----------------------------------------------------------------------------
(* ModelRouter *)

\* DEFAULT_ROUTING_RULES; a step without a rule, preflight, is balanced.
DefaultClass(step) == IF CostRouting /\ step \in { "routing", "assembler" } THEN "fast" ELSE "balanced"

Overrides(c) ==
  { k \in Classes :
      /\ k = "strong"
      /\ \/ c.security /\ c.step \in { "intent", "assembler", "primary_agent" }
         \/ c.execute /\ c.step = "primary_agent"
         \/ c.complex }

\* resolve_class and the complexity override: the highest class that applies.
Required(c) ==
  CHOOSE k \in { DefaultClass(c.step) } \cup Overrides(c) :
    \A other \in { DefaultClass(c.step) } \cup Overrides(c) : Order[other] <= Order[k]

InClass(k) == { p \in enabled : ClassOf[p] = k }

\* Mutant: with nothing left in the class, any provider will do.
SelectableBelow(k) == IF InClass(k) # {} THEN InClass(k) ELSE enabled

\* select_model, then select_with_fallback: the class asked for, or else the
\* next higher one that has an enabled provider.
Selectable(k) ==
  { p \in enabled :
      /\ Order[ClassOf[p]] >= Order[k]
      /\ \A q \in enabled : Order[ClassOf[q]] >= Order[k] => Order[ClassOf[p]] <= Order[ClassOf[q]] }

-----------------------------------------------------------------------------
(* AgentRunner.run *)

CheckBudget == spend < Limit

\* Up to the await of the model.  Without a provider or a budget the agent's
\* fallback answers, and nothing changes here.
Begins(r, c) ==
  /\ run[r].at = "idle"
  /\ CheckBudget
  /\ \E p \in Selectable(Required(c)) :
       run' = [ run EXCEPT ![r] = [ at |-> "call", context |-> c, class |-> ClassOf[p] ] ]
  /\ UNCHANGED << enabled, spend, tokens, audited, paid >>

\* _implement_ralph: no provider of the router's, and no check before.
RalphBegins(r) ==
  /\ run[r].at = "idle"
  /\ run' = [ run EXCEPT ![r].at = "ralph" ]
  /\ UNCHANGED << enabled, spend, tokens, audited, paid >>

\* Mutant: a task that has not spent its limit may book what it likes.
RefusedOverLimit(step, cost) == spend > Limit \/ tokens[step] + cost > StepCap

Refused(step, cost) == spend + cost > Limit \/ tokens[step] + cost > StepCap

\* Mutant: the token cap is looked at when the spend has been added.
BooksSpendFirst(step, cost) ==
  /\ spend' = IF spend + cost > Limit THEN spend ELSE spend + cost
  /\ tokens' = IF Refused(step, cost) THEN tokens ELSE [ tokens EXCEPT ![step] = @ + cost ]

\* record_spend: all or nothing.
Books(step, cost) ==
  /\ spend' = IF Refused(step, cost) THEN spend ELSE spend + cost
  /\ tokens' = IF Refused(step, cost) THEN tokens ELSE [ tokens EXCEPT ![step] = @ + cost ]

\* The answer: the audit record, then the booking, which raises if it is
\* refused, and nobody in the activity catches that.  A Ralph run logs it.
Answers(r, cost) ==
  LET step == run[r].context.step IN
  /\ run[r].at \in { "call", "ralph" }
  /\ paid + cost <= MaxPaid
  /\ paid' = paid + cost
  /\ audited' = audited + cost
  /\ Books(step, cost)
  /\ run' = [ run EXCEPT ![r] = IF Refused(step, cost) /\ @.at = "call" THEN [ @ EXCEPT !.at = "raised" ]
                                                                       ELSE Idle ]
  /\ UNCHANGED enabled

\* The call raises: the fallback answers.
CallFails(r) ==
  /\ run[r].at \in { "call", "ralph" }
  /\ run' = [ run EXCEPT ![r] = Idle ]
  /\ UNCHANGED << enabled, spend, tokens, audited, paid >>

\* The activity failed; another attempt, or a later stage, runs an agent again.
Retries(r) ==
  /\ run[r].at = "raised"
  /\ run' = [ run EXCEPT ![r] = Idle ]
  /\ UNCHANGED << enabled, spend, tokens, audited, paid >>

\* An administrator's set_provider_enabled.
Switches(p) ==
  /\ enabled' = IF p \in enabled THEN enabled \ {p} ELSE enabled \cup {p}
  /\ UNCHANGED << run, spend, tokens, audited, paid >>

Next ==
  \/ \E r \in Runs : \/ \E c \in Contexts : Begins(r, c)
                     \/ RalphBegins(r) \/ CallFails(r) \/ Retries(r)
                     \/ \E cost \in Costs : Answers(r, cost)
  \/ \E p \in Providers : Switches(p)

Spec == Init /\ [][Next]_vars

-----------------------------------------------------------------------------
\* The task's spend and its tokens per step tell the same story: a booking that
\* is refused for either reason leaves no half behind, whatever ran meanwhile.
BooksAgree ==
  spend = tokens["intent"] + tokens["routing"] + tokens["assembler"]
            + tokens["preflight"] + tokens["primary_agent"]

\* Switching providers off never makes sensitive work cheaper: with the
\* security overlay, a high complexity, or on the developer's step at execute,
\* the model is a strong one or there is none.
SensitiveIsStrong ==
  \A r \in Runs :
    LET c == run[r].context IN
    run[r].at = "call"
      /\ ( c.complex \/ (c.security /\ c.step \in { "intent", "assembler", "primary_agent" })
                     \/ (c.execute /\ c.step = "primary_agent") )
    => run[r].class = "strong"

-----------------------------------------------------------------------------
(* The inductive invariant of the proofs *)

IInv == TypeOK /\ BooksAgree /\ SensitiveIsStrong

=============================================================================
