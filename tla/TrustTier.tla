------------------------------ MODULE TrustTier -----------------------------
(***************************************************************************)
(* The tier a task runs at: the trust rules and safety bounds that         *)
(* administrators edit (src/dashboard/trust_router.py), the activity that  *)
(* evaluates them (src/dashboard/trust_engine.py) and answers the          *)
(* workflow.  The activity reads rules, then bounds, and commits twice;    *)
(* edits and other evaluations come between.                               *)
(***************************************************************************)
EXTENDS Naturals

CONSTANTS
  Tasks,
  Rules,
  Shapes,       \* what the row of a rule may hold
  Packets,      \* what the evaluation looks at in a task
  MaxEdits,     \* bound: changes by administrators
  MaxFailures   \* bound: failing calls and dying workers

Tiers == { "observe", "suggest", "execute" }
Absent == "absent"

\* A condition holds of the packet, does not, or cannot be evaluated.
Conditions == { "met", "unmet", "broken" }
Rows == [ priority : Nat, conditions : SUBSET Conditions, tier : Tiers,
          active : BOOLEAN, dryRun : BOOLEAN ]

Counts == { Absent, "zero", "few", "many" }

\* What the constants are taken to be, where this module is instantiated.  A
\* packet relates a task to the bounds: its loopbacks exceed max_loopbacks, its
\* repository matches a pattern, and the lines of its scope are few or many
\* beside max_auto_merge_lines.
TrustTierAssumption ==
  /\ Shapes \subseteq Rows
  /\ Packets \subseteq [ loopbacks : BOOLEAN, pattern : BOOLEAN,
                         diffLines : Counts, changedLines : Counts ]
  /\ MaxEdits \in Nat /\ MaxFailures \in Nat

VARIABLES
  rules,       \* the rows of trust_tier_rules
  bounds,      \* the singleton trust_safety_bounds is there
  task,        \* each task: the point of its workflow, and what it knows
  audit,       \* the tier entries of the steering audit log
  edits, failures

vars == << rules, bounds, task, audit, edits, failures >>

Points == { "rules", "bounds", "commit", "audit", "emit", "publish" }
Results == [ raw : Tiers, tier : Tiers, capped : BOOLEAN ]
Observe == [ raw |-> "observe", tier |-> "observe", capped |-> FALSE ]

TypeOK ==
  /\ rules \in [ Rules -> Shapes ]
  /\ bounds \in BOOLEAN
  /\ task \in [ Tasks -> [ at : Points, packet : Packets, list : [ Rules -> Shapes ],
                           creates : BOOLEAN, result : Results ] ]
  /\ audit \subseteq [ task : Tasks, result : Results ]
  /\ edits \in 0..MaxEdits /\ failures \in 0..MaxFailures

Rank(tier) == CASE tier = "observe" -> 1 [] tier = "suggest" -> 2 [] tier = "execute" -> 3
AtMost(tier, cap) == IF Rank(tier) <= Rank(cap) THEN tier ELSE cap    \* _cap_tier

Init ==
  /\ rules \in [ Rules -> Shapes ]
  /\ bounds = FALSE
  /\ \E packet \in [ Tasks -> Packets ] :
       task = [ t \in Tasks |-> [ at |-> "rules", packet |-> packet[t],
                                  list |-> rules, creates |-> FALSE,
                                  result |-> Observe ] ]
  /\ audit = {}
  /\ edits = 0 /\ failures = 0

-----------------------------------------------------------------------------
(* evaluate_trust_tier *)

\* list_rules(active_only) and _rule_matches: a condition that cannot be
\* evaluated does not hold, a rule without conditions matches everything.
Matching(list) ==
  { r \in Rules : list[r].active /\ list[r].conditions \subseteq { "met" } }

First(list) ==
  { r \in Matching(list) : \A s \in Matching(list) : list[r].priority <= list[s].priority }

\* Mutant: a scope that has diff_lines is judged by them, be they none.
LinesOfDiff(packet) == IF packet.diffLines # Absent THEN packet.diffLines ELSE packet.changedLines

\* _scope_int(diff_lines) or _scope_int(changed_lines): 0 is no number of lines.
Lines(packet) ==
  IF packet.diffLines \notin { Absent, "zero" } THEN packet.diffLines ELSE packet.changedLines

Capped(packet) == packet.loopbacks \/ Lines(packet) = "many" \/ packet.pattern

\* Mutant: the dry run of a rule changes what is logged only.
TrialAsAssigned(shape) == shape.tier

Trial(shape) == IF shape.dryRun THEN AtMost(shape.tier, "suggest") ELSE shape.tier

\* The result by the rule r, and by the default tier if there is none.
ResultOf(raw, tier, packet) ==
  LET final == IF Capped(packet) THEN AtMost(tier, "suggest") ELSE tier
  IN [ raw |-> raw, tier |-> final, capped |-> final # tier ]

-----------------------------------------------------------------------------
(* assign_trust_tier_activity *)

ListsRules(t) ==
  /\ task[t].at = "rules"
  /\ task' = [ task EXCEPT ![t].at = "bounds", ![t].list = rules ]
  /\ UNCHANGED << rules, bounds, audit, edits, failures >>

\* get_safety_bounds inserts the singleton if there is none; the insert waits
\* for one of another session.
Evaluates(t) ==
  /\ task[t].at = "bounds"
  /\ \A s \in Tasks : ~bounds => ~task[s].creates
  /\ \E result \in IF First(task[t].list) = {} THEN { ResultOf("observe", "observe", task[t].packet) }
                   ELSE { ResultOf(task[t].list[r].tier, Trial(task[t].list[r]), task[t].packet) :
                            r \in First(task[t].list) } :
       task' = [ task EXCEPT ![t].at = "commit", ![t].creates = ~bounds, ![t].result = result ]
  /\ UNCHANGED << rules, bounds, audit, edits, failures >>

\* The tier is set on the copy that get_by_id returned: the commit stores the
\* singleton, if anything, and task_trust_tier stays NULL.
Commits(t) ==
  /\ task[t].at = "commit"
  /\ bounds' = (bounds \/ task[t].creates)
  /\ task' = [ task EXCEPT ![t].at = "audit", ![t].creates = FALSE ]
  /\ UNCHANGED << rules, audit, edits, failures >>

WritesAudit(t) ==
  /\ task[t].at = "audit"
  /\ audit' = audit \cup { [ task |-> t, result |-> task[t].result ] }
  /\ task' = [ task EXCEPT ![t].at = "emit" ]
  /\ UNCHANGED << rules, bounds, edits, failures >>

Answers(t) ==
  /\ task[t].at = "emit"
  /\ task' = [ task EXCEPT ![t].at = "publish" ]
  /\ UNCHANGED << rules, bounds, audit, edits, failures >>

Working(t) == task[t].at \in { "rules", "bounds", "commit", "audit", "emit" }

\* Mutant: a failure after the evaluation keeps its result.
FailsKeepingTier(t) ==
  /\ Working(t)
  /\ failures < MaxFailures /\ failures' = failures + 1
  /\ task' = [ task EXCEPT ![t].at = "publish", ![t].creates = FALSE ]
  /\ UNCHANGED << rules, bounds, audit, edits >>

\* Any exception: the answer is observe, whatever was committed before it.
Fails(t) ==
  /\ Working(t)
  /\ failures < MaxFailures /\ failures' = failures + 1
  /\ task' = [ task EXCEPT ![t].at = "publish", ![t].creates = FALSE, ![t].result = Observe ]
  /\ UNCHANGED << rules, bounds, audit, edits >>

\* The worker dies; the service runs the activity again.
Dies(t) ==
  /\ Working(t)
  /\ failures < MaxFailures /\ failures' = failures + 1
  /\ task' = [ task EXCEPT ![t].at = "rules", ![t].creates = FALSE, ![t].result = Observe ]
  /\ UNCHANGED << rules, bounds, audit, edits >>

-----------------------------------------------------------------------------
(* Administrators *)

Edits == edits < MaxEdits /\ edits' = edits + 1

\* create_rule, update_rule, delete_rule: one transaction each.  A rule that is
\* not there, or deleted, is one that is not active.
EditsRule(r) ==
  /\ Edits
  /\ \E shape \in Shapes : shape # rules[r] /\ rules' = [ rules EXCEPT ![r] = shape ]
  /\ UNCHANGED << bounds, task, audit, failures >>

Next ==
  \/ \E t \in Tasks : \/ ListsRules(t) \/ Evaluates(t) \/ Commits(t) \/ WritesAudit(t)
                      \/ Answers(t) \/ Fails(t) \/ Dies(t)
  \/ \E r \in Rules : EditsRule(r)

Spec == Init /\ [][Next]_vars

-----------------------------------------------------------------------------
\* In the list its evaluation read, a rule of the first priority among those that
\* match assigns execute and not on trial, and the task is within all bounds.
Earned(e) ==
  /\ ~e.packet.loopbacks /\ ~e.packet.pattern
  /\ e.packet.diffLines # "many"
  /\ e.packet.diffLines \in { Absent, "zero" } => e.packet.changedLines # "many"
  /\ \E r \in Rules :
       /\ e.list[r] \in { shape \in Shapes : shape.tier = "execute" /\ shape.active
                            /\ ~shape.dryRun /\ shape.conditions \subseteq { "met" } }
       /\ ~\E s \in Rules : /\ e.list[s].active
                            /\ e.list[s].conditions \subseteq { "met" }
                            /\ e.list[s].priority < e.list[r].priority

\* A task is at execute only if it earned it.
TierIsEarned == \A t \in Tasks : task[t].result.tier = "execute" => Earned(task[t])

\* A tier above observe that the workflow was answered stands in the audit log,
\* with the cap that shaped it, whatever failed or was repeated on the way.
AnswerIsAudited ==
  \A t \in Tasks : task[t].at = "publish" /\ task[t].result.tier # "observe" =>
    [ task |-> t, result |-> task[t].result ] \in audit

-----------------------------------------------------------------------------
(* The inductive invariant of the proofs *)

\* A run that has evaluated nothing yet knows no tier.
FreshOK == \A t \in Tasks : task[t].at \in { "rules", "bounds" } => task[t].result = Observe

\* The audit entry is written before the signal is sent.
EmitOK ==
  \A t \in Tasks : task[t].at = "emit" => [ task |-> t, result |-> task[t].result ] \in audit

IInv == TypeOK /\ FreshOK /\ EmitOK /\ TierIsEarned /\ AnswerIsAudited

=============================================================================
