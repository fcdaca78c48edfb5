------------------------------ MODULE Readiness ------------------------------
(***************************************************************************)
(* The readiness gate of one task: what context_activity finds out about   *)
(* the issue (src/context), how score_readiness judges its text            *)
(* (src/readiness), and the loop in which the submitter adds what is        *)
(* missing and the workflow judges again.                                  *)
(*                                                                         *)
(* A text is told apart by what the scorers find in it, on a scale of 100. *)
(* Overall scores are sums of floats: one that meets its threshold exactly *)
(* may come out on either side.                                            *)
(***************************************************************************)
EXTENDS Naturals, FiniteSets

CONSTANTS
  Texts,           \* what an issue may say
  FlagSets,        \* sets of risk flags the context may find
  Complexities,    \* "high" is in the scorer's tables only
  TrustTiers,      \* the repository's tier
  MaxEvaluations   \* MAX_READINESS_EVALUATIONS

Dimensions == { "goal_clarity", "acceptance_criteria", "scope_boundaries", "risk_coverage",
                "reproduction_context", "dependency_awareness" }

\* The flags whose terms the scorer knows; others count as covered.
KnownRisks == { "risk_security", "risk_data", "risk_performance", "risk_destructive",
                "risk_privileged_access", "risk_migration" }

ReadinessAssumption ==
  /\ Texts \subseteq [ goal : 0..100, criteria : { 0, 50, 80, 100 }, scope : { 0, 70, 100 },
                       risks : SUBSET KnownRisks, repro : 0..3, deps : BOOLEAN ]
  /\ \A flags \in FlagSets : IsFiniteSet(flags) /\ (flags # {} => 100 % Cardinality(flags) = 0)
  /\ Complexities \subseteq { "low", "medium", "high" }
  /\ MaxEvaluations \in Nat \ {0}

VARIABLES
  text,      \* what run() has judged, at first from its parameters, and what the
             \* latest signal said
  context,   \* what context_activity and the parameters say of the issue
  gate       \* the locals of the loop in run()

vars == << text, context, gate >>

\* What context_activity may find out.
Contexts == [ flags : FlagSets, complexity : Complexities, bug : BOOLEAN, trust : TrustTiers ]

TypeOK ==
  /\ text \in [ judged : Texts, latest : Texts ]
  /\ context \in Contexts
  /\ gate \in [ at : { "judge", "wait", "passed", "escalated", "timed_out" },
                evaluations : 0..MaxEvaluations, cleared : BOOLEAN ]

-----------------------------------------------------------------------------
(* score_readiness *)

\* Equal weights where the complexity is low.
Weight(complexity) ==
  CASE complexity = "low" -> [ d \in Dimensions |-> 1 ]
    [] complexity = "medium" ->
         [ goal_clarity |-> 15, acceptance_criteria |-> 25, scope_boundaries |-> 20,
           risk_coverage |-> 15, reproduction_context |-> 10, dependency_awareness |-> 15 ]
    [] complexity = "high" ->
         [ goal_clarity |-> 10, acceptance_criteria |-> 25, scope_boundaries |-> 20,
           risk_coverage |-> 15, reproduction_context |-> 10, dependency_awareness |-> 20 ]

PassThreshold == [ low |-> 40, medium |-> 50, high |-> 60 ]

Required(complexity) ==
  {"goal_clarity"} \cup (IF complexity = "low" THEN {} ELSE {"acceptance_criteria"})
                   \cup (IF complexity = "high" THEN {"scope_boundaries"} ELSE {})

MissingBelow ==
  [ goal_clarity |-> 30, acceptance_criteria |-> 30, scope_boundaries |-> 20,
    risk_coverage |-> 20, reproduction_context |-> 20, dependency_awareness |-> 20 ]

RiskCoverage(t, flags) ==
  IF flags = {} THEN 100
  ELSE (100 * Cardinality({ f \in flags : f \notin KnownRisks \/ f \in t.risks }))
         \div Cardinality(flags)

\* An issue that is no bug needs none, until it has some.
ReproductionContext(t, bug) ==
  IF t.repro = 0 /\ ~bug THEN 100
  ELSE CASE t.repro = 0 -> 0 [] t.repro = 1 -> 40 [] t.repro = 2 -> 70 [] t.repro = 3 -> 100

\* Mutant: what is missing is only accepted of simple issues that do not say it.
ScopeBoundariesStrict(t, complexity) ==
  IF t.scope = 70 /\ complexity = "low" THEN 0 ELSE IF t.scope > 0 THEN t.scope ELSE 50

ScopeBoundaries(t, complexity) ==
  IF t.scope > 0 THEN t.scope ELSE IF complexity = "low" THEN 50 ELSE 0

DependencyAwareness(t, complexity) ==
  IF complexity = "low" \/ t.deps THEN 100 ELSE IF complexity = "medium" THEN 30 ELSE 0

Scores(t, c) ==
  [ goal_clarity |-> t.goal, acceptance_criteria |-> t.criteria,
    scope_boundaries |-> ScopeBoundaries(t, c.complexity),
    risk_coverage |-> RiskCoverage(t, c.flags),
    reproduction_context |-> ReproductionContext(t, c.bug),
    dependency_awareness |-> DependencyAwareness(t, c.complexity) ]

Total(f) == f.goal_clarity + f.acceptance_criteria + f.scope_boundaries + f.risk_coverage
              + f.reproduction_context + f.dependency_awareness

\* The overall score and its threshold, both times the sum of the weights.
Overall(t, c) ==
  LET weight == Weight(c.complexity)  score == Scores(t, c)
  IN  Total([ d \in Dimensions |-> weight[d] * score[d] ])
Bar(c) == PassThreshold[c.complexity] * Total(Weight(c.complexity))

\* _decide_gate; the text may pass, and it is sure to.
MayPass(t, c) ==
  \/ c.trust = "observe"
  \/ (\A d \in Required(c.complexity) : Scores(t, c)[d] > 0) /\ Overall(t, c) >= Bar(c)
MustPass(t, c) == MayPass(t, c) /\ (c.trust = "observe" \/ Overall(t, c) > Bar(c))

\* The dimensions the submitter is asked about.
Missing(t, c) == { d \in Dimensions : Scores(t, c)[d] < MissingBelow[d] }

-----------------------------------------------------------------------------
(* The workflow *)

\* context_activity, and with it the complexity: "low" where the rules answer,
\* "medium" where the agent finds any flags.
Init ==
  /\ \E t \in Texts : text = [ judged |-> t, latest |-> t ]
  /\ context \in Contexts
  /\ gate = [ at |-> "judge", evaluations |-> 0, cleared |-> FALSE ]

\* readiness_activity judges what the workflow has, under the context it found at
\* first.  The flag is reset when the wait begins; the text of a signal stays, and is
\* taken when another signal ends the wait.
Passes ==
  /\ gate.at = "judge" /\ MayPass(text.judged, context)
  /\ gate' = [ gate EXCEPT !.at = "passed", !.evaluations = @ + 1 ]
  /\ UNCHANGED << text, context >>

Holds ==
  /\ gate.at = "judge" /\ ~MustPass(text.judged, context)
  /\ gate' = [ at |-> IF gate.evaluations + 1 >= MaxEvaluations THEN "escalated" ELSE "wait",
               evaluations |-> gate.evaluations + 1, cleared |-> FALSE ]
  /\ UNCHANGED << text, context >>

\* The second text says what the first says, or more.
SaysMore(s, t) ==
  /\ s.goal <= t.goal /\ s.criteria <= t.criteria /\ s.scope <= t.scope
  /\ s.risks \subseteq t.risks /\ s.repro <= t.repro /\ (s.deps => t.deps)

\* The submitter edits the issue, at any time; readiness_cleared brings the text.
Edits ==
  /\ gate.at \in { "judge", "wait" }
  /\ \E t \in Texts : SaysMore(text.latest, t) /\ text' = [ text EXCEPT !.latest = t ]
  /\ gate' = [ gate EXCEPT !.cleared = TRUE ]
  /\ UNCHANGED context

JudgesAgain ==
  /\ gate.at = "wait" /\ gate.cleared
  /\ gate' = [ gate EXCEPT !.at = "judge" ]
  /\ text' = [ text EXCEPT !.judged = text.latest ]
  /\ UNCHANGED context

TimesOut ==
  /\ gate.at = "wait" /\ ~gate.cleared
  /\ gate' = [ gate EXCEPT !.at = "timed_out" ]
  /\ UNCHANGED << text, context >>

Next == Passes \/ Holds \/ Edits \/ JudgesAgain \/ TimesOut

Spec == Init /\ [][Next]_vars

-----------------------------------------------------------------------------
(* Properties *)

\* Who says more is not turned away for it: a text that is judged again after edits
\* that took nothing out scores no less, and no dimension becomes one to ask about.
\* The exception is a first word on reproduction in an issue that is no bug, which
\* is then measured as one.
MoreNeverHurts ==
  LET before == text.judged  after == text'.judged IN
  after # before /\ (context.bug \/ before.repro > 0 \/ after.repro = 0)
    => /\ Overall(before, context) <= Overall(after, context)
       /\ Missing(after, context) \subseteq Missing(before, context)

MoreIsBetter == [][MoreNeverHurts]_vars

-----------------------------------------------------------------------------
(* The inductive invariant of the proofs *)

\* The text of the latest signal has all that was judged.
IInv ==
  /\ TypeOK
  /\ gate.at \in { "judge", "wait" } => gate.evaluations < MaxEvaluations
  /\ SaysMore(text.judged, text.latest)

=============================================================================
