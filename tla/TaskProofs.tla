----------------------------- MODULE TaskProofs -----------------------------
(***************************************************************************)
(* Proofs about the components of Services that a task passes through:     *)
(* whether it can be begun, whom it needs, what is planned and passed,     *)
(* where it is worked on, and which experts there are. Each has an         *)
(* inductive invariant of its own, IInv of its module; Services lets a     *)
(* behaviour exercise one component, so that a step of Services is a step  *)
(* of the component's and leaves the focus. In what follows a component's  *)
(* variables have the names that Services gives them, v1, v2, ...          *)
(***************************************************************************)
EXTENDS Services, FiniteSetTheorems, SequenceTheorems, WellFoundedInduction, TLAPS

\* A behaviour exercises one component.
LEMMA FocusStays == ASSUME [Next]_v PROVE focus' = focus
  BY DEF Next, v, Kept2, Kept3, Kept4, Kept5, Kept6, Kept7, Kept8, Kept9, Kept10, Kept11
(***************************************************************************)
(* Readiness: The gate that asks for more.  The monotony of every score is *)
(* what the lemmas are about; the invariant says that the latest text has  *)
(* all that was judged. The variables: v1 text, v2 context, v3 gate.       *)
(***************************************************************************)

\* The instance has its own finite sets and cardinalities, defined as those
\* that the library's theorems are about.
LEMMA ReadyFinite ==
  /\ \A S : Ready!IsFiniteSet(S) = IsFiniteSet(S)
  /\ \A S : Ready!Cardinality(S) = Cardinality(S)
<1>1. \A S : Ready!IsFiniteSet(S) = IsFiniteSet(S)
  BY DEF Ready!IsFiniteSet, IsFiniteSet
<1>2. \A S : Ready!Cardinality(S) = Cardinality(S)
  BY DEF Ready!Cardinality, Cardinality
<1> QED
  BY <1>1, <1>2

Judgements == [ at : { "judge", "wait", "passed", "escalated", "timed_out" },
                evaluations : 0..MaxEvaluations, cleared : BOOLEAN ]

LEMMA TextOK ==
  ASSUME Ready!ReadinessAssumption, NEW t \in IssueTexts
  PROVE  /\ t.goal \in 0..100 /\ t.criteria \in { 0, 50, 80, 100 } /\ t.scope \in { 0, 70, 100 }
         /\ t.risks \subseteq Ready!KnownRisks /\ t.repro \in 0..3 /\ t.deps \in BOOLEAN
  BY DEF Ready!ReadinessAssumption

LEMMA SaysItself ==
  ASSUME Ready!ReadinessAssumption, NEW t \in IssueTexts
  PROVE  Ready!SaysMore(t, t)
  BY TextOK DEF Ready!SaysMore

LEMMA SaysMoreStill ==
  ASSUME Ready!ReadinessAssumption, NEW s \in IssueTexts, NEW t \in IssueTexts,
         NEW u \in IssueTexts,
         Ready!SaysMore(s, t), Ready!SaysMore(t, u)
  PROVE  Ready!SaysMore(s, u)
<1>1. /\ s.goal \in Int /\ t.goal \in Int /\ u.goal \in Int
      /\ s.criteria \in Int /\ t.criteria \in Int /\ u.criteria \in Int
      /\ s.scope \in Int /\ t.scope \in Int /\ u.scope \in Int
      /\ s.repro \in Int /\ t.repro \in Int /\ u.repro \in Int
  BY TextOK
<1>2. s.goal <= u.goal /\ s.criteria <= u.criteria /\ s.scope <= u.scope /\ s.repro <= u.repro
  BY <1>1 DEF Ready!SaysMore
<1>3. s.risks \subseteq u.risks /\ (s.deps => u.deps)
  BY DEF Ready!SaysMore
<1> QED
  BY <1>2, <1>3 DEF Ready!SaysMore

-----------------------------------------------------------------------------
(* What more words do to the scores *)

LEMMA DivisionGrows ==
  ASSUME NEW a \in Nat, NEW b \in Nat, NEW n \in Nat \ {0}, a <= b
  PROVE  (100 * a) \div n <= (100 * b) \div n /\ (100 * a) \div n \in Nat
  OBVIOUS

LEMMA RisksGrow ==
  ASSUME Ready!ReadinessAssumption, NEW s \in IssueTexts, NEW t \in IssueTexts,
         Ready!SaysMore(s, t),
         NEW flags \in ContextFlags
  PROVE  Ready!RiskCoverage(s, flags) <= Ready!RiskCoverage(t, flags)
         /\ Ready!RiskCoverage(s, flags) \in Nat /\ Ready!RiskCoverage(t, flags) \in Nat
<1> DEFINE few == { f \in flags : f \notin Ready!KnownRisks \/ f \in s.risks }
           many == { f \in flags : f \notin Ready!KnownRisks \/ f \in t.risks }
<1>1. CASE flags = {}
  BY <1>1 DEF Ready!RiskCoverage
<1>2. CASE flags # {}
  <2>1. Ready!IsFiniteSet(flags) /\ few \subseteq many /\ many \subseteq flags
    BY DEF Ready!ReadinessAssumption, Ready!SaysMore
  <2>2. Ready!IsFiniteSet(many) /\ Ready!IsFiniteSet(few)
          /\ Ready!Cardinality(few) <= Ready!Cardinality(many)
    BY ReadyFinite, <2>1, FS_Subset
  <2>3. Ready!Cardinality(few) \in Nat /\ Ready!Cardinality(many) \in Nat
          /\ Ready!Cardinality(flags) \in Nat
    BY ReadyFinite, <2>1, <2>2, FS_CardinalityType
  <2>4. Ready!Cardinality(flags) # 0
    BY ReadyFinite, <1>2, <2>1, FS_EmptySet
  <2>5. Ready!RiskCoverage(s, flags)
          = (100 * Ready!Cardinality(few)) \div Ready!Cardinality(flags)
        /\ Ready!RiskCoverage(t, flags)
             = (100 * Ready!Cardinality(many)) \div Ready!Cardinality(flags)
    BY <1>2 DEF Ready!RiskCoverage
  <2> HIDE DEF few, many
  <2>6. (100 * Ready!Cardinality(many)) \div Ready!Cardinality(flags) \in Nat
    BY <2>3, <2>4, DivisionGrows
  <2> QED
    BY <2>2, <2>3, <2>4, <2>5, <2>6, DivisionGrows
<1> QED
  BY <1>1, <1>2

\* No score falls.
LEMMA ScoresGrow ==
  ASSUME Ready!ReadinessAssumption, NEW c \in Ready!Contexts, NEW s \in IssueTexts,
         NEW t \in IssueTexts,
         Ready!SaysMore(s, t), c.bug \/ s.repro > 0 \/ t.repro = 0
  PROVE  \A d \in Ready!Dimensions :
           Ready!Scores(s, c)[d] \in Nat /\ Ready!Scores(t, c)[d] \in Nat
             /\ Ready!Scores(s, c)[d] <= Ready!Scores(t, c)[d]
<1>1. /\ s.goal \in Nat /\ t.goal \in Nat /\ s.goal <= t.goal
      /\ s.criteria \in Nat /\ t.criteria \in Nat /\ s.criteria <= t.criteria
  BY TextOK DEF Ready!SaysMore
<1>2. /\ Ready!ScopeBoundaries(s, c.complexity) \in Nat
      /\ Ready!ScopeBoundaries(t, c.complexity) \in Nat
      /\ Ready!ScopeBoundaries(s, c.complexity) <= Ready!ScopeBoundaries(t, c.complexity)
  <2>1. s.scope \in { 0, 70, 100 } /\ t.scope \in { 0, 70, 100 } /\ s.scope <= t.scope
    BY TextOK DEF Ready!SaysMore
  <2> QED
    BY <2>1 DEF Ready!ScopeBoundaries
<1>3. /\ Ready!RiskCoverage(s, c.flags) \in Nat /\ Ready!RiskCoverage(t, c.flags) \in Nat
      /\ Ready!RiskCoverage(s, c.flags) <= Ready!RiskCoverage(t, c.flags)
  BY RisksGrow DEF Ready!Contexts
<1>4. /\ Ready!ReproductionContext(s, c.bug) \in Nat
      /\ Ready!ReproductionContext(t, c.bug) \in Nat
      /\ Ready!ReproductionContext(s, c.bug) <= Ready!ReproductionContext(t, c.bug)
  <2>1. s.repro \in 0..3 /\ t.repro \in 0..3 /\ s.repro <= t.repro
    BY TextOK DEF Ready!SaysMore
  <2>2. s.repro \in { 0, 1, 2, 3 } /\ t.repro \in { 0, 1, 2, 3 }
    BY <2>1
  <2>3. CASE s.repro = 0 /\ t.repro = 0
    BY <2>3 DEF Ready!ReproductionContext
  <2>4. CASE s.repro # 0
    BY <2>1, <2>2, <2>4 DEF Ready!ReproductionContext
  <2>5. CASE s.repro = 0 /\ t.repro # 0
    <3>1. c.bug
      BY <2>1, <2>5
    <3> QED
      BY <2>2, <2>5, <3>1 DEF Ready!ReproductionContext
  <2> QED
    BY <2>3, <2>4, <2>5
<1>5. /\ Ready!DependencyAwareness(s, c.complexity) \in Nat
      /\ Ready!DependencyAwareness(t, c.complexity) \in Nat
      /\ Ready!DependencyAwareness(s, c.complexity) <= Ready!DependencyAwareness(t, c.complexity)
  <2>1. s.deps => t.deps
    BY DEF Ready!SaysMore
  <2> QED
    BY <2>1 DEF Ready!DependencyAwareness
<1> QED
  BY <1>1, <1>2, <1>3, <1>4, <1>5 DEF Ready!Scores, Ready!Dimensions

\* Six scores, each no less than the other, weighed.
LEMMA WeighedGrows ==
  ASSUME NEW a1 \in Nat, NEW a2 \in Nat, NEW a3 \in Nat, NEW a4 \in Nat, NEW a5 \in Nat,
         NEW a6 \in Nat,
         NEW b1 \in Nat, NEW b2 \in Nat, NEW b3 \in Nat, NEW b4 \in Nat, NEW b5 \in Nat,
         NEW b6 \in Nat,
         a1 <= b1, a2 <= b2, a3 <= b3, a4 <= b4, a5 <= b5, a6 <= b6
  PROVE  /\ 1 * a1 + 1 * a2 + 1 * a3 + 1 * a4 + 1 * a5 + 1 * a6
              <= 1 * b1 + 1 * b2 + 1 * b3 + 1 * b4 + 1 * b5 + 1 * b6
         /\ 15 * a1 + 25 * a2 + 20 * a3 + 15 * a4 + 10 * a5 + 15 * a6
              <= 15 * b1 + 25 * b2 + 20 * b3 + 15 * b4 + 10 * b5 + 15 * b6
         /\ 10 * a1 + 25 * a2 + 20 * a3 + 15 * a4 + 10 * a5 + 20 * a6
              <= 10 * b1 + 25 * b2 + 20 * b3 + 15 * b4 + 10 * b5 + 20 * b6
  OBVIOUS

LEMMA OverallGrows ==
  ASSUME Ready!ReadinessAssumption, NEW c \in Ready!Contexts, NEW s \in IssueTexts,
         NEW t \in IssueTexts,
         \A d \in Ready!Dimensions :
           Ready!Scores(s, c)[d] \in Nat /\ Ready!Scores(t, c)[d] \in Nat
             /\ Ready!Scores(s, c)[d] <= Ready!Scores(t, c)[d]
  PROVE  Ready!Overall(s, c) <= Ready!Overall(t, c)
<1> DEFINE w == Ready!Weight(c.complexity)
           before == Ready!Scores(s, c)
           after == Ready!Scores(t, c)
<1>1. Ready!Overall(s, c) = w.goal_clarity * before.goal_clarity
        + w.acceptance_criteria * before.acceptance_criteria
        + w.scope_boundaries * before.scope_boundaries + w.risk_coverage * before.risk_coverage
        + w.reproduction_context * before.reproduction_context
        + w.dependency_awareness * before.dependency_awareness
  BY DEF Ready!Overall, Ready!Total, Ready!Dimensions
<1>2. Ready!Overall(t, c) = w.goal_clarity * after.goal_clarity
        + w.acceptance_criteria * after.acceptance_criteria
        + w.scope_boundaries * after.scope_boundaries + w.risk_coverage * after.risk_coverage
        + w.reproduction_context * after.reproduction_context
        + w.dependency_awareness * after.dependency_awareness
  BY DEF Ready!Overall, Ready!Total, Ready!Dimensions
<1>3. /\ before.goal_clarity \in Nat /\ after.goal_clarity \in Nat
      /\ before.goal_clarity <= after.goal_clarity
      /\ before.acceptance_criteria \in Nat /\ after.acceptance_criteria \in Nat
      /\ before.acceptance_criteria <= after.acceptance_criteria
      /\ before.scope_boundaries \in Nat /\ after.scope_boundaries \in Nat
      /\ before.scope_boundaries <= after.scope_boundaries
      /\ before.risk_coverage \in Nat /\ after.risk_coverage \in Nat
      /\ before.risk_coverage <= after.risk_coverage
      /\ before.reproduction_context \in Nat /\ after.reproduction_context \in Nat
      /\ before.reproduction_context <= after.reproduction_context
      /\ before.dependency_awareness \in Nat /\ after.dependency_awareness \in Nat
      /\ before.dependency_awareness <= after.dependency_awareness
  BY DEF Ready!Dimensions
<1>4. c.complexity \in { "low", "medium", "high" }
  BY DEF Ready!Contexts, Ready!ReadinessAssumption
<1> HIDE DEF before, after
<1>5. CASE c.complexity = "low"
  <2>1. w.goal_clarity = 1 /\ w.acceptance_criteria = 1 /\ w.scope_boundaries = 1
        /\ w.risk_coverage = 1 /\ w.reproduction_context = 1 /\ w.dependency_awareness = 1
    BY <1>5 DEF Ready!Weight, Ready!Dimensions
  <2> HIDE DEF w
  <2> QED
    BY <1>1, <1>2, <1>3, <2>1, WeighedGrows
<1>6. CASE c.complexity = "medium"
  <2>1. w.goal_clarity = 15 /\ w.acceptance_criteria = 25 /\ w.scope_boundaries = 20
        /\ w.risk_coverage = 15 /\ w.reproduction_context = 10 /\ w.dependency_awareness = 15
    BY <1>6 DEF Ready!Weight
  <2> HIDE DEF w
  <2> QED
    BY <1>1, <1>2, <1>3, <2>1, WeighedGrows
<1>7. CASE c.complexity = "high"
  <2>1. w.goal_clarity = 10 /\ w.acceptance_criteria = 25 /\ w.scope_boundaries = 20
        /\ w.risk_coverage = 15 /\ w.reproduction_context = 10 /\ w.dependency_awareness = 20
    BY <1>7 DEF Ready!Weight
  <2> HIDE DEF w
  <2> QED
    BY <1>1, <1>2, <1>3, <2>1, WeighedGrows
<1> QED
  BY <1>4, <1>5, <1>6, <1>7

LEMMA MissingShrinks ==
  ASSUME NEW c \in Ready!Contexts, NEW s \in IssueTexts, NEW t \in IssueTexts,
         \A d \in Ready!Dimensions :
           Ready!Scores(s, c)[d] \in Nat /\ Ready!Scores(t, c)[d] \in Nat
             /\ Ready!Scores(s, c)[d] <= Ready!Scores(t, c)[d]
  PROVE  Ready!Missing(t, c) \subseteq Ready!Missing(s, c)
<1>1. \A d \in Ready!Dimensions : Ready!MissingBelow[d] \in Nat
  BY DEF Ready!MissingBelow, Ready!Dimensions
<1> QED
  BY <1>1 DEF Ready!Missing

-----------------------------------------------------------------------------
LEMMA ReadyInvInit == ASSUME Ready!ReadinessAssumption, Ready!Init PROVE Ready!IInv
<1>1. PICK t \in IssueTexts : v1 = [ judged |-> t, latest |-> t ]
  BY DEF Ready!Init
<1>2. Ready!SaysMore(v1.judged, v1.latest)
  BY <1>1, SaysItself
<1> DEFINE no == FALSE
<1>3. no \in BOOLEAN /\ 0 \in 0..MaxEvaluations
        /\ v3 = [ at |-> "judge", evaluations |-> 0, cleared |-> no ]
  BY DEF Ready!Init, Ready!ReadinessAssumption
<1> HIDE DEF no
<1>4. v3 \in Judgements
  BY <1>3 DEF Judgements
<1> QED
  BY <1>1, <1>2, <1>3, <1>4
  DEF Ready!Init, Ready!IInv, Ready!TypeOK, Judgements, Ready!ReadinessAssumption

\* The workflow judges no more often than it may.
LEMMA GateOK ==
  ASSUME Ready!ReadinessAssumption, Ready!IInv, [Ready!Next]_Ready!vars
  PROVE  /\ v3' \in Judgements
         /\ v3'.at \in { "judge", "wait" } => v3'.evaluations < MaxEvaluations
<1> DEFINE no == FALSE
           yes == TRUE
<1>1. v3 \in Judgements /\ no \in BOOLEAN /\ yes \in BOOLEAN
  BY DEF Ready!IInv, Ready!TypeOK, Judgements
<1>2. v3.at = "judge" => v3.evaluations + 1 \in 0..MaxEvaluations
  BY <1>1 DEF Ready!IInv, Judgements, Ready!ReadinessAssumption
<1>3. CASE Ready!Passes
  <2>1. v3' = [ v3 EXCEPT !.at = "passed", !.evaluations = v3.evaluations + 1 ]
        /\ v3.evaluations + 1 \in 0..MaxEvaluations
    BY <1>1, <1>2, <1>3 DEF Ready!Passes, Judgements
  <2> QED
    BY <1>1, <2>1 DEF Ready!IInv, Judgements
<1>4. CASE Ready!Holds
  <2> DEFINE to == IF v3.evaluations + 1 >= MaxEvaluations THEN "escalated" ELSE "wait"
  <2>1. v3' = [ at |-> to, evaluations |-> v3.evaluations + 1, cleared |-> no ]
        /\ to \in { "escalated", "wait" } /\ v3.evaluations + 1 \in 0..MaxEvaluations
    BY <1>2, <1>4 DEF Ready!Holds
  <2>2. to = "wait" => v3.evaluations + 1 < MaxEvaluations
    <3>1. v3.evaluations \in Nat /\ MaxEvaluations \in Nat
      BY <1>1 DEF Judgements, Ready!ReadinessAssumption
    <3> QED
      BY <3>1
  <2> HIDE DEF to, no
  <2> QED
    BY <1>1, <2>1, <2>2 DEF Judgements
<1>5. CASE Ready!Edits
  <2>1. v3' = [ v3 EXCEPT !.cleared = yes ]
    BY <1>5 DEF Ready!Edits
  <2> HIDE DEF yes
  <2>2. v3' \in Judgements /\ v3'.at = v3.at /\ v3'.evaluations = v3.evaluations
    BY <1>1, <2>1 DEF Judgements
  <2> QED
    BY <2>2 DEF Ready!IInv
<1>6. CASE Ready!JudgesAgain
  BY <1>1, <1>6 DEF Ready!IInv, Ready!JudgesAgain, Judgements
<1>7. CASE Ready!TimesOut
  BY <1>1, <1>7 DEF Ready!IInv, Ready!TimesOut, Judgements
<1>8. CASE UNCHANGED Ready!vars
  BY <1>1, <1>8 DEF Ready!IInv, Ready!vars
<1> QED
  BY <1>3, <1>4, <1>5, <1>6, <1>7, <1>8 DEF Ready!Next

\* What is judged is what was judged before, or what the latest signal said.
LEMMA TextsOK ==
  ASSUME Ready!ReadinessAssumption, Ready!IInv, [Ready!Next]_Ready!vars
  PROVE  /\ v1' \in [ judged : IssueTexts, latest : IssueTexts ] /\ v2' = v2
         /\ Ready!SaysMore(v1'.judged, v1'.latest)
         /\ v1'.judged \in { v1.judged, v1.latest }
<1>1. v1 \in [ judged : IssueTexts, latest : IssueTexts ] /\ Ready!SaysMore(v1.judged, v1.latest)
  BY DEF Ready!IInv, Ready!TypeOK
<1>2. CASE Ready!Passes \/ Ready!Holds \/ Ready!TimesOut \/ UNCHANGED Ready!vars
  BY <1>1, <1>2 DEF Ready!Passes, Ready!Holds, Ready!TimesOut, Ready!vars
<1>3. CASE Ready!Edits
  <2>1. PICK t \in IssueTexts : Ready!SaysMore(v1.latest, t) /\ v1' = [ v1 EXCEPT !.latest = t ]
    BY <1>3 DEF Ready!Edits
  <2>2. v1' = [ judged |-> v1.judged, latest |-> t ]
    BY <1>1, <2>1
  <2>3. Ready!SaysMore(v1.judged, t)
    BY <1>1, <2>1, SaysMoreStill
  <2> QED
    BY <1>1, <1>3, <2>2, <2>3 DEF Ready!Edits
<1>4. CASE Ready!JudgesAgain
  <2>1. v1' = [ judged |-> v1.latest, latest |-> v1.latest ]
    BY <1>1, <1>4 DEF Ready!JudgesAgain
  <2> QED
    BY <1>1, <1>4, <2>1, SaysItself DEF Ready!JudgesAgain
<1> QED
  BY <1>2, <1>3, <1>4 DEF Ready!Next

LEMMA ReadyInvNext ==
  ASSUME Ready!ReadinessAssumption, Ready!IInv, [Ready!Next]_Ready!vars
  PROVE  Ready!IInv'
  BY GateOK, TextsOK DEF Ready!IInv, Ready!TypeOK, Judgements, Ready!SaysMore

LEMMA NeverHurts ==
  ASSUME Ready!ReadinessAssumption, Ready!IInv, [Ready!Next]_Ready!vars
  PROVE  Ready!MoreNeverHurts
<1> DEFINE before == v1.judged
           after == v1'.judged
<1>1. before \in IssueTexts /\ after \in IssueTexts /\ v2 \in Ready!Contexts
  BY TextsOK DEF Ready!IInv, Ready!TypeOK
<1>2. Ready!SaysMore(before, after)
  BY <1>1, TextsOK, SaysItself DEF Ready!IInv
<1> HIDE DEF before, after
<1>3. ASSUME v2.bug \/ before.repro > 0 \/ after.repro = 0
      PROVE  /\ Ready!Overall(before, v2) <= Ready!Overall(after, v2)
             /\ Ready!Missing(after, v2) \subseteq Ready!Missing(before, v2)
  BY <1>1, <1>2, <1>3, ScoresGrow, OverallGrows, MissingShrinks
<1> QED
  BY <1>3 DEF Ready!MoreNeverHurts, before, after

LEMMA ReadySteps ==
  ASSUME focus = "ready", [Next]_v
  PROVE  focus' = "ready" /\ [Ready!Next]_Ready!vars
  BY DEF Next, v, Ready!vars, Kept3

LEMMA ReadyInvariant == Spec => [](focus = "ready" => Ready!IInv)
<1> DEFINE Inv == focus = "ready" => Ready!IInv
<1>1. Init => Inv
  BY ReadyAssumption, ReadyInvInit DEF Init
<1>2. Inv /\ [Next]_v => Inv'
  BY ReadyAssumption, ReadyInvNext, ReadySteps, FocusStays
<1> QED
  BY <1>1, <1>2, PTL DEF Spec

\* src/readiness: whatever the texts and what the context finds in them, an issue that
\* is judged again after edits that took nothing out scores no less.
THEOREM MoreIsNoWorse == Spec => MoreIsBetter
<1>1. (focus = "ready" => Ready!IInv) /\ [Next]_v => [focus = "ready" => Ready!MoreNeverHurts]_v
  BY ReadyAssumption, ReadySteps, NeverHurts
<1> QED
  BY <1>1, ReadyInvariant, PTL DEF Spec, MoreIsBetter

(***************************************************************************)
(* Consultation: Rules, overlays and experts, and the classes that are     *)
(* recruited one by one.  The plan accounts for every class: the action    *)
(* property follows from what the plan is made of, and the invariant says  *)
(* that who was recruited is there. The variables: v1 library, v2 task.    *)
(***************************************************************************)

\* The instance has its own finite sets and cardinalities, defined as those
\* that the library's theorems are about.
LEMMA ConsultedFinite ==
  /\ \A S : Consulted!IsFiniteSet(S) = IsFiniteSet(S)
  /\ \A S : Consulted!Cardinality(S) = Cardinality(S)
<1>1. \A S : Consulted!IsFiniteSet(S) = IsFiniteSet(S)
  BY DEF Consulted!IsFiniteSet, IsFiniteSet
<1>2. \A S : Consulted!Cardinality(S) = Cardinality(S)
  BY DEF Consulted!Cardinality, Cardinality
<1> QED
  BY <1>1, <1>2

ExpertPlans == [ required : SUBSET Consulted!Classes, budget : Nat, best : SUBSET Candidates,
                 requested : SUBSET Consulted!Classes, high : BOOLEAN,
                 escalations : SUBSET { "critical", "high" } ]
Recruits ==
  [ at : { "new", "rejected", "classified", "recruiting", "search", "revive",
           "batched", "failed", "planned" },
    role : DOMAIN Consulted!MaxExperts, overlays : SUBSET Consulted!Overlays, plan : ExpertPlans,
    todo : SUBSET Consulted!Classes, created : SUBSET Candidates,
    found : [ expert : Candidates \cup {0}, version : 0..MaxRecruitVersion ] ]

LEMMA ConsultedTypeIs == Consulted!TypeOK
  <=> v1 \in [ Candidates -> Consulted!Rows ] /\ v2 \in Recruits
  BY DEF Consulted!TypeOK, Recruits, ExpertPlans

-----------------------------------------------------------------------------
(* The best of the candidates *)

ConsultedSmallerOf == { p \in Nat \X Nat : p[1] < p[2] }

\* Every set of numbers that is not empty has a least.
LEMMA ConsultedLeastOf ==
  ASSUME NEW S, S \subseteq Nat, S # {}
  PROVE  \E s \in S : \A t \in S : s <= t
<1>1. IsWellFoundedOn(ConsultedSmallerOf, Nat)
  BY NatLessThanWellFounded DEF ConsultedSmallerOf, OpToRel
<1>2. PICK s \in S : \A t \in S : ~(<< t, s >> \in ConsultedSmallerOf)
  BY <1>1, WFMin
<1>3. ASSUME NEW t \in S PROVE s <= t
  <2>1. t \in Nat /\ s \in Nat /\ ~(t < s)
    BY <1>2 DEF ConsultedSmallerOf
  <2> QED
    BY <2>1
<1> QED
  BY <1>3

\* What is bounded has a greatest.
LEMMA GreatestOf ==
  ASSUME NEW X, X # {}, NEW f, NEW n \in Nat, \A x \in X : f[x] \in 0..n
  PROVE  \E x \in X : \A y \in X : f[y] <= f[x]
<1> DEFINE S == { n - f[x] : x \in X }
<1>1. S \subseteq Nat /\ S # {}
  OBVIOUS
<1>2. PICK s \in S : \A t \in S : s <= t
  BY <1>1, ConsultedLeastOf
<1>3. PICK x \in X : s = n - f[x]
  OBVIOUS
<1>4. ASSUME NEW y \in X PROVE f[y] <= f[x]
  <2>1. s <= n - f[y]
    BY <1>2
  <2>2. f[y] \in Int /\ f[x] \in Int
    OBVIOUS
  <2> QED
    BY <1>3, <2>1, <2>2
<1> QED
  BY <1>4

LEMMA RowIs ==
  ASSUME Consulted!ConsultationAssumption, Consulted!TypeOK, NEW e \in Candidates,
         Consulted!Available(e)
  PROVE  /\ v1[e].tier \in { "probation", "trusted", "shadow" }
         /\ Consulted!TierScore[v1[e].tier] \in 1..3 /\ v1[e] # Consulted!NoRow /\ e \in Nat
<1>1. v1[e] \in Consulted!Rows /\ v1[e].state = "active"
  BY DEF Consulted!TypeOK, Consulted!Available
<1>2. v1[e] # Consulted!NoRow
  BY <1>1 DEF Consulted!NoRow
<1>3. v1[e].tier \in { "probation", "trusted", "shadow" }
  BY <1>1, <1>2 DEF Consulted!Rows, Consulted!TierScore
<1> QED
  BY <1>2, <1>3 DEF Consulted!TierScore, Consulted!ConsultationAssumption

LEMMA ScoreIs ==
  ASSUME NEW n \in 1..3, NEW c \in 0..100 PROVE n * (100 + c) \in 0..600
<1>1. n = 1 \/ n = 2 \/ n = 3
  OBVIOUS
<1> QED
  BY <1>1

\* The best of a class is one, if there is any at all.
LEMMA BestIs ==
  ASSUME Consulted!ConsultationAssumption, Consulted!TypeOK, NEW class,
         NEW confidence \in [ Candidates -> Confidences ]
  PROVE  /\ \A e \in Consulted!Best(class, confidence) :
              e \in Candidates /\ Consulted!Available(e) /\ v1[e].class = class
         /\ \/ Consulted!Best(class, confidence) = {}
                 /\ \A e \in Candidates : Consulted!Available(e) => v1[e].class # class
            \/ \E e \in Candidates : Consulted!Best(class, confidence) = {e}
<1> DEFINE candidates == { e \in Candidates : Consulted!Available(e) /\ v1[e].class = class }
           score == [ e \in candidates |-> Consulted!Score(v1[e], confidence[e]) ]
           top == { e \in candidates : \A f \in candidates :
                      Consulted!Score(v1[f], confidence[f]) <= Consulted!Score(v1[e], confidence[e]) }
           tier == [ e \in top |-> Consulted!TierScore[v1[e].tier] ]
           first == { e \in top : \A f \in top : tier[f] <= tier[e] }
<1>1. Consulted!Best(class, confidence) = { e \in top : \A f \in top : Consulted!Before(e, f) }
  BY DEF Consulted!Best
<1>2. \A e \in candidates : e \in Candidates /\ Consulted!Available(e) /\ v1[e].class = class
  OBVIOUS
<1>3. CASE candidates = {}
  BY <1>1, <1>3
<1>4. CASE candidates # {}
  <2>1. \A e \in candidates : score[e] \in 0..600
    <3>1. ASSUME NEW e \in candidates PROVE Consulted!Score(v1[e], confidence[e]) \in 0..600
      <4>1. confidence[e] \in 0..100
        BY DEF Consulted!ConsultationAssumption
      <4>2. Consulted!TierScore[v1[e].tier] \in 1..3
        BY RowIs
      <4> QED
        BY <4>1, <4>2, ScoreIs DEF Consulted!Score
    <3> QED
      BY <3>1
  <2>2. top # {}
    <3>1. PICK e \in candidates : \A f \in candidates : score[f] <= score[e]
      <4>1. 600 \in Nat
        OBVIOUS
      <4> HIDE DEF candidates, score
      <4> QED
        BY <1>4, <2>1, <4>1, GreatestOf
    <3> QED
      BY <3>1
  <2> HIDE DEF score
  <2>3. \A e \in top : tier[e] \in 0..3 /\ tier[e] = Consulted!TierScore[v1[e].tier] /\ e \in Nat
    BY RowIs
  <2>4. first # {}
    <3>1. PICK e \in top : \A f \in top : tier[f] <= tier[e]
      <4> HIDE DEF top, tier
      <4> QED
        BY <2>2, <2>3, GreatestOf
    <3> QED
      BY <3>1
  <2>5. first \subseteq Nat /\ first \subseteq top
    BY <2>3
  <2>6. PICK e \in first : \A f \in first : e <= f
    <3> HIDE DEF first
    <3> QED
      BY <2>4, <2>5, ConsultedLeastOf
  <2>7. \A f, g \in top :
          tier[f] > tier[g] <=> Consulted!TierScore[v1[f].tier] > Consulted!TierScore[v1[g].tier]
    BY <2>3
  <2>8. \A f, g \in top : tier[f] = tier[g] <=> v1[f].tier = v1[g].tier
    <3>1. \A f, g \in top : Consulted!TierScore[v1[f].tier] = Consulted!TierScore[v1[g].tier]
            => v1[f].tier = v1[g].tier
      <4>1. \A f \in top : v1[f].tier \in { "probation", "trusted", "shadow" }
        BY RowIs
      <4> QED
        BY <4>1 DEF Consulted!TierScore
    <3> QED
      BY <2>3, <3>1
  <2>9. \A f, g \in top :
          Consulted!Before(f, g) <=> tier[f] > tier[g] \/ (tier[f] = tier[g] /\ f <= g)
    BY <2>7, <2>8 DEF Consulted!Before
  <2>10. e \in top /\ e \in Candidates /\ (\A f \in top : tier[f] <= tier[e])
    BY <2>5
  <2> HIDE DEF tier, top
  <2>11. \A f \in top : Consulted!Before(e, f)
    <3>1. ASSUME NEW f \in top PROVE tier[e] > tier[f] \/ (tier[e] = tier[f] /\ e <= f)
      <4>1. tier[f] <= tier[e] /\ tier[f] \in Nat /\ tier[e] \in Nat
        BY <2>3, <2>10
      <4>2. CASE tier[f] = tier[e]
        <5>1. f \in first
          BY <2>10, <4>2
        <5> QED
          BY <2>6, <4>2, <5>1
      <4> QED
        BY <4>1, <4>2
    <3> QED
      BY <2>9, <2>10, <3>1
  <2>12. ASSUME NEW f \in top, \A g \in top : Consulted!Before(f, g) PROVE f = e
    <3>1. tier[f] > tier[e] \/ (tier[f] = tier[e] /\ f <= e)
      BY <2>9, <2>10, <2>12
    <3>2. tier[e] > tier[f] \/ (tier[e] = tier[f] /\ e <= f)
      BY <2>9, <2>10, <2>11, <2>12
    <3>3. tier[e] \in Nat /\ tier[f] \in Nat /\ e \in Nat /\ f \in Nat
      BY <2>3, <2>10
    <3> QED
      BY <3>1, <3>2, <3>3
  <2>13. Consulted!Best(class, confidence) = {e}
    BY <1>1, <2>10, <2>11, <2>12
  <2>14. e \in candidates
    BY <2>10 DEF top
  <2> QED
    BY <2>10, <2>13, <2>14
<1> QED
  BY <1>3, <1>4

-----------------------------------------------------------------------------
(* The loop over the classes *)

Turned(p, class, confidence) ==
  IF class \in p.required THEN Consulted!NextClass(p, class, confidence) ELSE p

\* What holds of a plan when the loop has come past some classes.
LoopOK(p, done, start) ==
  /\ p \in ExpertPlans /\ p.required = start.required /\ p.high = start.high
  /\ Consulted!IsFiniteSet(p.best) /\ p.budget + Consulted!Cardinality(p.best) = start.budget
  /\ \A e \in p.best : Consulted!Available(e) /\ v1[e].class \in done
  /\ p.requested \subseteq done
  /\ \A c \in p.requested : \A e \in Candidates : Consulted!Available(e) => v1[e].class # c
  /\ \A c \in done \cap p.required :
       c \in Consulted!Covered(p) \/ c \in p.requested \/ p.budget = 0

LEMMA TurnedIs ==
  ASSUME NEW p, NEW class, NEW confidence
  PROVE  Turned(p, class, confidence) =
           IF class \notin p.required \/ p.budget = 0 THEN p
           ELSE IF Consulted!Best(class, confidence) = {} THEN Consulted!Requesting(p, class)
           ELSE Consulted!Selecting(p, Consulted!Best(class, confidence))
  BY DEF Turned, Consulted!NextClass

LEMMA TurnOK ==
  ASSUME Consulted!ConsultationAssumption, Consulted!TypeOK,
         NEW confidence \in [ Candidates -> Confidences ],
         NEW start, NEW p, NEW done, LoopOK(p, done, start), NEW class \in Consulted!Classes,
         class \notin done
  PROVE  LoopOK(Turned(p, class, confidence), done \cup {class}, start)
<1> DEFINE best == Consulted!Best(class, confidence)
<1>1. p \in ExpertPlans
  BY DEF LoopOK
<1>2. /\ \A e \in best : e \in Candidates /\ Consulted!Available(e) /\ v1[e].class = class
      /\ \/ best = {} /\ \A e \in Candidates : Consulted!Available(e) => v1[e].class # class
         \/ \E e \in Candidates : best = {e}
  BY BestIs
<1> HIDE DEF best
<1>3. CASE class \notin p.required \/ p.budget = 0
  <2>1. Turned(p, class, confidence) = p
    BY <1>3, TurnedIs
  <2> QED
    BY <1>3, <2>1 DEF LoopOK
<1>4. CASE class \in p.required /\ p.budget # 0 /\ best = {}
  <2> DEFINE q == Consulted!Requesting(p, class)
  <2>1. Turned(p, class, confidence) = q
    BY <1>4, TurnedIs DEF best
  <2>2. /\ q \in ExpertPlans /\ q.required = p.required /\ q.high = p.high /\ q.best = p.best
        /\ q.budget = p.budget /\ q.requested = p.requested \cup {class}
    BY <1>1 DEF ExpertPlans, Consulted!Requesting
  <2> HIDE DEF q
  <2>3. Consulted!Covered(q) = Consulted!Covered(p)
    BY <2>2 DEF Consulted!Covered
  <2>4. LoopOK(q, done \cup {class}, start)
    BY <1>2, <1>4, <2>2, <2>3 DEF LoopOK
  <2> QED
    BY <2>1, <2>4
<1>5. CASE class \in p.required /\ p.budget # 0 /\ best # {}
  <2>1. PICK e \in Candidates : best = {e}
    BY <1>2, <1>5
  <2> DEFINE q == Consulted!Selecting(p, best)
  <2>2. Turned(p, class, confidence) = q
    BY <1>5, TurnedIs DEF best
  <2>3. p.budget \in Nat /\ p.budget - 1 \in Nat
    BY <1>1, <1>5 DEF ExpertPlans
  <2>4. /\ q \in ExpertPlans /\ q.required = p.required /\ q.high = p.high
        /\ q.best = p.best \cup {e} /\ q.budget = p.budget - 1 /\ q.requested = p.requested
    BY <1>1, <2>1, <2>3 DEF ExpertPlans, Consulted!Selecting
  <2> HIDE DEF q
  <2>5. e \notin p.best /\ Consulted!Available(e) /\ v1[e].class = class
    BY <1>2, <2>1 DEF LoopOK
  <2>6. Consulted!IsFiniteSet(q.best)
          /\ Consulted!Cardinality(q.best) = Consulted!Cardinality(p.best) + 1
    <3>1. Consulted!IsFiniteSet(p.best)
      BY DEF LoopOK
    <3>2. Consulted!IsFiniteSet(p.best \cup {e})
            /\ Consulted!Cardinality(p.best \cup {e}) = Consulted!Cardinality(p.best) + 1
      BY ConsultedFinite, <2>5, <3>1, FS_AddElement
    <3> QED
      BY <2>4, <3>2
  <2>7. Consulted!Cardinality(p.best) \in Nat
          /\ q.budget + Consulted!Cardinality(q.best) = p.budget + Consulted!Cardinality(p.best)
    <3>1. Consulted!Cardinality(p.best) \in Nat
      BY ConsultedFinite, FS_CardinalityType DEF LoopOK
    <3> QED
      BY <2>3, <2>4, <2>6, <3>1
  <2>8. Consulted!Covered(q) = Consulted!Covered(p) \cup {class}
    BY <2>4, <2>5 DEF Consulted!Covered
  <2>9. \A c \in (done \cup {class}) \cap q.required : c \in Consulted!Covered(q)
          \/ c \in q.requested
    BY <1>5, <2>4, <2>8 DEF LoopOK
  <2>10. LoopOK(q, done \cup {class}, start)
    BY <2>4, <2>5, <2>6, <2>7, <2>9 DEF LoopOK
  <2> QED
    BY <2>2, <2>10
<1> QED
  BY <1>3, <1>4, <1>5

\* The plan of a route: nobody is missing of whom the property would not say why.
LEMMA RouteOK ==
  ASSUME Consulted!ConsultationAssumption, Consulted!TypeOK,
         NEW role \in DOMAIN Consulted!MaxExperts, NEW overlays,
         NEW flags, NEW confidence \in [ Candidates -> Confidences ]
  PROVE  LET plan == Consulted!Route(role, overlays, flags, confidence)
             left == plan.required \ (Consulted!Covered(plan) \cup plan.requested)
         IN  /\ plan \in ExpertPlans
             /\ plan.budget + Consulted!Cardinality(plan.best) = Consulted!MaxExperts[role]
             /\ \A e \in plan.best : Consulted!Available(e)
             /\ \A c \in plan.requested :
                  \A e \in Candidates : Consulted!Available(e) => v1[e].class # c
             /\ left # {} => plan.budget = 0
             /\ left # {} /\ plan.high => "critical" \in plan.escalations
<1> DEFINE required == Consulted!RequiredClasses(overlays, flags)
           high == flags \cap Consulted!HighRisk # {}
           start == [ required |-> required, budget |-> Consulted!MaxExperts[role], best |-> {},
                      requested |-> {}, high |-> high, escalations |-> {} ]
           p1 == Turned(start, "business", confidence)
           p2 == Turned(p1, "compliance", confidence)
           p3 == Turned(p2, "partner", confidence)
           p4 == Turned(p3, "qa_validation", confidence)
           p5 == Turned(p4, "security", confidence)
           p6 == Turned(p5, "technical", confidence)
<1>1. required \subseteq Consulted!Classes
  BY DEF Consulted!RequiredClasses, Consulted!MandatoryClasses, Consulted!ExpertsOfOverlay,
         Consulted!Classes
<1>2. Consulted!MaxExperts[role] \in Nat
  BY DEF Consulted!MaxExperts
<1>a. high \in BOOLEAN
  OBVIOUS
<1> HIDE DEF required, high
<1>3. start \in ExpertPlans
  BY <1>1, <1>2, <1>a DEF ExpertPlans
<1>4. /\ start \in ExpertPlans /\ start.best = {} /\ start.requested = {}
      /\ start.required = required /\ start.budget = Consulted!MaxExperts[role]
      /\ start.high = high
  BY <1>3
<1> HIDE DEF start
<1>5. LoopOK(start, {}, start)
  BY ConsultedFinite, <1>2, <1>4, FS_EmptySet DEF LoopOK
<1>6. "business" \in Consulted!Classes /\ "compliance" \in Consulted!Classes
        /\ "partner" \in Consulted!Classes
      /\ "qa_validation" \in Consulted!Classes /\ "security" \in Consulted!Classes
      /\ "technical" \in Consulted!Classes
  BY DEF Consulted!Classes
<1>7. LoopOK(p1, {"business"}, start)
  BY <1>5, <1>6, TurnOK
<1>8. LoopOK(p2, { "business", "compliance" }, start)
  <2>1. {"business"} \cup {"compliance"} = { "business", "compliance" }
    OBVIOUS
  <2> HIDE DEF p1
  <2> QED
    BY <1>6, <1>7, <2>1, TurnOK
<1>9. LoopOK(p3, { "business", "compliance", "partner" }, start)
  <2>1. { "business", "compliance" } \cup {"partner"} = { "business", "compliance", "partner" }
    OBVIOUS
  <2> HIDE DEF p2
  <2> QED
    BY <1>6, <1>8, <2>1, TurnOK
<1>10. LoopOK(p4, { "business", "compliance", "partner", "qa_validation" }, start)
  <2>1. { "business", "compliance", "partner" } \cup {"qa_validation"}
          = { "business", "compliance", "partner", "qa_validation" }
    OBVIOUS
  <2> HIDE DEF p3
  <2> QED
    BY <1>6, <1>9, <2>1, TurnOK
<1>11. LoopOK(p5, { "business", "compliance", "partner", "qa_validation", "security" }, start)
  <2>1. { "business", "compliance", "partner", "qa_validation" } \cup {"security"}
          = { "business", "compliance", "partner", "qa_validation", "security" }
    OBVIOUS
  <2> HIDE DEF p4
  <2> QED
    BY <1>6, <1>10, <2>1, TurnOK
<1>12. LoopOK(p6, Consulted!Classes, start)
  <2>1. { "business", "compliance", "partner", "qa_validation", "security" } \cup {"technical"}
          = Consulted!Classes
    BY DEF Consulted!Classes
  <2> HIDE DEF p5
  <2> QED
    BY <1>6, <1>11, <2>1, TurnOK
<1> DEFINE Turn(p, class) == IF class
  \in required THEN Consulted!NextClass(p, class, confidence) ELSE p
<1>13. \A class : /\ Turned(start, class, confidence) = Turn(start, class)
                  /\ Turned(p1, class, confidence) = Turn(p1, class)
                  /\ Turned(p2, class, confidence) = Turn(p2, class)
                  /\ Turned(p3, class, confidence) = Turn(p3, class)
                  /\ Turned(p4, class, confidence) = Turn(p4, class)
                  /\ Turned(p5, class, confidence) = Turn(p5, class)
  <2>1. \A p : p.required = required => \A class : Turned(p, class, confidence) = Turn(p, class)
    BY DEF Turned
  <2>2. start.required = required /\ p1.required = required /\ p2.required = required
        /\ p3.required = required /\ p4.required = required /\ p5.required = required
    <3> HIDE DEF p1, p2, p3, p4, p5
    <3> QED
      BY <1>4, <1>7, <1>8, <1>9, <1>10, <1>11 DEF LoopOK
  <2> HIDE DEF p1, p2, p3, p4, p5, Turn
  <2> QED
    BY <2>1, <2>2
<1> DEFINE looped == Turn(Turn(Turn(Turn(Turn(Turn(start, "business"), "compliance"), "partner"),
                                         "qa_validation"), "security"), "technical")
<1>14. p6 = looped
  <2>1. p1 = Turn(start, "business")
    BY <1>13
  <2>2. p2 = Turn(p1, "compliance")
    BY <1>13
  <2>3. p3 = Turn(p2, "partner")
    BY <1>13
  <2>4. p4 = Turn(p3, "qa_validation")
    BY <1>13
  <2>5. p5 = Turn(p4, "security")
    BY <1>13
  <2>6. p6 = Turn(p5, "technical")
    BY <1>13
  <2> HIDE DEF p1, p2, p3, p4, p5, p6, Turn
  <2> QED
    BY <2>1, <2>2, <2>3, <2>4, <2>5, <2>6
<1>15. Consulted!Route(role, overlays, flags, confidence)
         = [ looped EXCEPT !.escalations = Consulted!Escalations(looped, confidence) ]
  BY DEF Consulted!Route, required, high, start
<1> HIDE DEF p6, looped
<1> DEFINE plan == [ p6 EXCEPT !.escalations = Consulted!Escalations(p6, confidence) ]
<1>16. p6 \in ExpertPlans
         /\ Consulted!Escalations(p6, confidence) \subseteq { "critical", "high" }
  BY <1>12 DEF LoopOK, Consulted!Escalations
<1>17. /\ plan \in ExpertPlans /\ plan.required = p6.required /\ plan.budget = p6.budget
       /\ plan.best = p6.best /\ plan.requested = p6.requested /\ plan.high = p6.high
       /\ plan.escalations = Consulted!Escalations(p6, confidence)
  BY <1>16 DEF ExpertPlans
<1>18. Consulted!Route(role, overlays, flags, confidence) = plan
  BY <1>14, <1>15
<1> HIDE DEF plan
<1>19. Consulted!Covered(plan) = Consulted!Covered(p6)
  BY <1>17 DEF Consulted!Covered
<1> DEFINE left == plan.required \ (Consulted!Covered(plan) \cup plan.requested)
<1>20. left # {} => plan.budget = 0
  <2>1. plan.required \subseteq Consulted!Classes
    BY <1>17 DEF ExpertPlans
  <2> QED
    BY <1>12, <1>17, <1>19, <2>1 DEF LoopOK
<1>21. left # {} /\ plan.high => "critical" \in plan.escalations
  <2>1. left # {} => p6.required \ Consulted!Covered(p6) # {}
    BY <1>17, <1>19
  <2> QED
    BY <1>17, <1>20, <2>1 DEF Consulted!Escalations
<1>22. /\ plan.budget + Consulted!Cardinality(plan.best) = Consulted!MaxExperts[role]
       /\ \A e \in plan.best : Consulted!Available(e)
       /\ \A c \in plan.requested :
            \A e \in Candidates : Consulted!Available(e) => v1[e].class # c
  BY <1>4, <1>12, <1>17 DEF LoopOK
<1> QED
  BY <1>17, <1>18, <1>20, <1>21, <1>22

\* And whoever was recruited and is still there is eligible.
LEMMA RoutesAccounts ==
  ASSUME Consulted!ConsultationAssumption, Consulted!IInv, Consulted!Routes
  PROVE  Consulted!PlanAccounts
<1>1. PICK flags \in IntakeFlags, confidence \in [ Candidates -> Confidences ] :
        v2' = [ v2 EXCEPT
                    !.plan = Consulted!Route(v2.role, v2.overlays, flags, confidence),
                    !.todo = Consulted!Route(v2.role, v2.overlays, flags, confidence).requested,
                    !.at = IF v2.at = "classified" THEN "recruiting" ELSE "planned" ]
  BY DEF Consulted!Routes
<1>2. v2 \in Recruits
  BY ConsultedTypeIs DEF Consulted!IInv
<1> DEFINE plan == Consulted!Route(v2.role, v2.overlays, flags, confidence)
           left == plan.required \ (Consulted!Covered(plan) \cup plan.requested)
<1>3. v2'.plan = plan
  BY <1>1, <1>2 DEF Recruits
<1>4. /\ plan.budget + Consulted!Cardinality(plan.best) = Consulted!MaxExperts[v2.role]
      /\ \A e \in plan.best : Consulted!Available(e)
      /\ \A c \in plan.requested : \A e \in Candidates : Consulted!Available(e) => v1[e].class # c
      /\ left # {} => plan.budget = 0
      /\ left # {} /\ plan.high => "critical" \in plan.escalations
  BY <1>2, RouteOK DEF Consulted!IInv, Recruits
<1> HIDE DEF plan
<1>5. \A e \in v2.created : v1[e].state = "active" => v1[e].class \notin plan.requested
  <2>1. \A e \in v2.created :
          e \in Candidates /\ (v1[e].state = "active" => Consulted!Available(e))
    BY <1>2 DEF Recruits, Consulted!IInv, Consulted!RecruitsOK, Consulted!Available
  <2> QED
    BY <1>4, <2>1
<1> QED
  BY <1>3, <1>4, <1>5 DEF Consulted!PlanAccounts

-----------------------------------------------------------------------------
LEMMA BaseRoleOK ==
  ASSUME Consulted!ConsultationAssumption,
         NEW labels \in LabelLists PROVE Consulted!BaseRole(labels)
           \in DOMAIN Consulted!MaxExperts
<1> DEFINE typed == { i \in DOMAIN labels : labels[i] \in DOMAIN Consulted!RoleOfLabel }
           least == CHOOSE i \in typed : \A j \in typed : i <= j
<1>1. CASE typed = {}
  BY <1>1 DEF Consulted!BaseRole, Consulted!MaxExperts
<1>2. CASE typed # {}
  <2>1. labels \in Seq(STRING)
    BY DEF Consulted!ConsultationAssumption
  <2>2. typed \subseteq Nat
    BY <2>1
  <2>3. \E i \in typed : \A j \in typed : i <= j
    <3> HIDE DEF typed
    <3> QED
      BY <1>2, <2>2, ConsultedLeastOf
  <2>4. least \in typed
    BY <2>3
  <2>5. labels[least] \in DOMAIN Consulted!RoleOfLabel
    BY <2>4
  <2>6. Consulted!RoleOfLabel[labels[least]] \in { "developer", "architect" }
    <3> HIDE DEF least
    <3> QED
      BY <2>5 DEF Consulted!RoleOfLabel
  <2>7. Consulted!BaseRole(labels) = Consulted!RoleOfLabel[labels[least]]
    BY <1>2 DEF Consulted!BaseRole
  <2> QED
    BY <2>6, <2>7 DEF Consulted!MaxExperts
<1> QED
  BY <1>1, <1>2

LEMMA OverlaysOK ==
  ASSUME NEW labels
  PROVE  Consulted!SelectedOverlays(labels) \subseteq Consulted!Overlays
<1>1. \A l \in DOMAIN Consulted!OverlayOfLabel : Consulted!OverlayOfLabel[l] \in
        { "security", "compliance", "billing", "infra", "partner_api", "migration" }
  BY DEF Consulted!OverlayOfLabel
<1> QED
  BY <1>1 DEF Consulted!SelectedOverlays, Consulted!Overlays, Consulted!ExpertsOfOverlay

LEMMA ConsultedInvInit ==
  ASSUME Consulted!ConsultationAssumption, Consulted!Init
  PROVE  Consulted!IInv
<1>1. v1 \in [ Candidates -> Consulted!Rows ]
  BY DEF Consulted!Init, Consulted!ConsultationAssumption
<1>2. Consulted!NoPlan \in ExpertPlans
  <2>1. FALSE \in BOOLEAN /\ 0 \in Nat
    OBVIOUS
  <2> QED
    BY <2>1 DEF Consulted!NoPlan, ExpertPlans
<1>3. v2 \in Recruits
  <2>1. 0 \in 0..MaxRecruitVersion /\ "developer" \in DOMAIN Consulted!MaxExperts
    BY DEF Consulted!ConsultationAssumption, Consulted!MaxExperts
  <2> QED
    BY <1>2, <2>1 DEF Consulted!Init, Recruits
<1>4. v2.at = "new" /\ v2.created = {}
  BY DEF Consulted!Init
<1> QED
  BY <1>1, <1>3, <1>4, ConsultedTypeIs DEF Consulted!IInv, Consulted!RecruitsOK

\* The task moves on; the library and whom it has recruited stay.
LEMMA MovesOn ==
  ASSUME Consulted!ConsultationAssumption, Consulted!IInv, UNCHANGED v1, v2' \in Recruits,
         v2'.created = v2.created, v2'.at \notin { "search", "revive" }
  PROVE  Consulted!IInv'
<1>1. Consulted!TypeOK'
  BY ConsultedTypeIs DEF Consulted!IInv, Consulted!TypeOK, Recruits, ExpertPlans
<1> QED
  BY <1>1 DEF Consulted!IInv, Consulted!RecruitsOK

LEMMA PlansStep ==
  ASSUME Consulted!ConsultationAssumption, Consulted!IInv,
         Consulted!Rejects \/ Consulted!Classifies \/ Consulted!BatchEnds
  PROVE  Consulted!IInv' /\ v2'.plan = v2.plan
<1>1. v2 \in Recruits
  BY ConsultedTypeIs DEF Consulted!IInv
<1>2. CASE Consulted!Rejects
  <2>1. v2' \in Recruits /\ v2'.created = v2.created /\ v2'.at = "rejected"
        /\ v2'.plan = v2.plan
    BY <1>1, <1>2 DEF Consulted!Rejects, Recruits
  <2> QED
    BY <1>2, <2>1, MovesOn DEF Consulted!Rejects
<1>3. CASE Consulted!BatchEnds
  <2>1. v2' \in Recruits /\ v2'.created = v2.created /\ v2'.at = "batched"
        /\ v2'.plan = v2.plan
    BY <1>1, <1>3 DEF Consulted!BatchEnds, Recruits
  <2> QED
    BY <1>3, <2>1, MovesOn DEF Consulted!BatchEnds
<1>4. CASE Consulted!Classifies
  <2>1. PICK role, overlays :
          /\ role \in DOMAIN Consulted!MaxExperts /\ overlays \subseteq Consulted!Overlays
          /\ v2' = [ v2 EXCEPT !.at = "classified", !.role = role, !.overlays = overlays ]
    <3>1. CASE \E labels \in LabelLists :
                 v2' = [ v2 EXCEPT !.at = "classified", !.role = Consulted!BaseRole(labels),
                                       !.overlays = Consulted!SelectedOverlays(labels) ]
      BY <3>1, BaseRoleOK, OverlaysOK
    <3>2. CASE \E answer \in IntakeAnswers :
                 v2' = [ v2 EXCEPT !.at = "classified", !.role = answer.role,
                                       !.overlays = answer.overlays ]
      BY <3>2 DEF Consulted!ConsultationAssumption
    <3> QED
      BY <1>4, <3>1, <3>2 DEF Consulted!Classifies
  <2>2. v2' \in Recruits /\ v2'.created = v2.created /\ v2'.at = "classified"
        /\ v2'.plan = v2.plan
    BY <1>1, <2>1 DEF Recruits
  <2> QED
    BY <1>4, <2>2, MovesOn DEF Consulted!Classifies
<1> QED
  BY <1>2, <1>3, <1>4

LEMMA RoutesStep ==
  ASSUME Consulted!ConsultationAssumption, Consulted!IInv, Consulted!Routes
  PROVE  Consulted!IInv'
<1>1. PICK flags \in IntakeFlags, confidence \in [ Candidates -> Confidences ] :
        v2' = [ v2 EXCEPT
                    !.plan = Consulted!Route(v2.role, v2.overlays, flags, confidence),
                    !.todo = Consulted!Route(v2.role, v2.overlays, flags, confidence).requested,
                    !.at = IF v2.at = "classified" THEN "recruiting" ELSE "planned" ]
  BY DEF Consulted!Routes
<1>2. v2 \in Recruits
  BY ConsultedTypeIs DEF Consulted!IInv
<1> DEFINE plan == Consulted!Route(v2.role, v2.overlays, flags, confidence)
           to == IF v2.at = "classified" THEN "recruiting" ELSE "planned"
<1>3. plan \in ExpertPlans
  BY <1>2, RouteOK DEF Consulted!IInv, Recruits
<1>4. to \in { "recruiting", "planned" } /\ plan.requested \subseteq Consulted!Classes
  BY <1>3 DEF ExpertPlans
<1> HIDE DEF plan, to
<1>5. v2' \in Recruits /\ v2'.created = v2.created /\ v2'.at = to
  BY <1>1, <1>2, <1>3, <1>4 DEF Recruits, plan, to
<1> QED
  BY <1>4, <1>5, MovesOn DEF Consulted!Routes

LEMMA HandledOK ==
  ASSUME Consulted!IInv
  PROVE  /\ Consulted!Handled \in Recruits /\ Consulted!Handled.created = v2.created
         /\ Consulted!Handled.at = "recruiting" /\ Consulted!Handled.plan = v2.plan
<1>1. v2 \in Recruits
  BY ConsultedTypeIs DEF Consulted!IInv
<1> QED
  BY <1>1 DEF Consulted!Handled, Recruits

LEMMA LooksStep ==
  ASSUME Consulted!ConsultationAssumption, Consulted!IInv,
         Consulted!LooksForExisting \/ Consulted!LooksForDeprecated
  PROVE  Consulted!IInv' /\ v2'.plan = v2.plan
<1>1. v2 \in Recruits /\ v1 \in [ Candidates -> Consulted!Rows ]
  BY ConsultedTypeIs DEF Consulted!IInv
<1>2. CASE v2' = Consulted!Handled /\ UNCHANGED v1
  BY <1>2, HandledOK, MovesOn
<1>3. CASE /\ v2' = [ v2 EXCEPT !.at = "search" ] /\ UNCHANGED v1
           /\ Consulted!NextRequest \in DOMAIN TemplateName
  <2>1. v2' \in Recruits /\ v2'.created = v2.created /\ v2'.plan = v2.plan
        /\ v2'.at = "search" /\ v2'.todo = v2.todo
    BY <1>1, <1>3 DEF Recruits
  <2>2. Consulted!NextRequest' = Consulted!NextRequest
    BY <2>1 DEF Consulted!NextRequest
  <2>3. Consulted!TypeOK'
    BY <1>1, <1>3, <2>1 DEF Consulted!TypeOK, Recruits, ExpertPlans
  <2> QED
    BY <1>3, <2>1, <2>2, <2>3 DEF Consulted!IInv, Consulted!RecruitsOK
<1>4. CASE Consulted!LooksForDeprecated
  <2>1. PICK e \in Candidates :
          /\ v1[e].state = "deprecated"
          /\ v2' = [ v2 EXCEPT !.at = "revive", !.found =
                         [ expert |-> e, version |-> v1[e].version ] ]
    BY <1>4 DEF Consulted!LooksForDeprecated
  <2>2. v1[e] # Consulted!NoRow /\ v1[e].version \in 1..MaxRecruitVersion
    BY <1>1, <2>1 DEF Consulted!Rows, Consulted!NoRow
  <2> DEFINE found == [ expert |-> e, version |-> v1[e].version ]
  <2>3. found \in [ expert : Candidates \cup {0}, version : 0..MaxRecruitVersion ]
        /\ found.expert = e /\ found.version \in 1..MaxRecruitVersion
    <3>1. v1[e].version \in 0..MaxRecruitVersion
      BY <2>2 DEF Consulted!ConsultationAssumption
    <3> QED
      BY <2>2, <3>1
  <2>4. v2' = [ v2 EXCEPT !.at = "revive", !.found = found ]
    BY <2>1
  <2> HIDE DEF found
  <2>5. v2' \in Recruits /\ v2'.created = v2.created /\ v2'.plan = v2.plan
        /\ v2'.at = "revive" /\ v2'.todo = v2.todo /\ v2'.found = found
    BY <1>1, <2>3, <2>4 DEF Recruits
  <2>6. Consulted!NextRequest' = Consulted!NextRequest
    BY <2>5 DEF Consulted!NextRequest
  <2>7. UNCHANGED v1 /\ v2.at = "search"
    BY <1>4 DEF Consulted!LooksForDeprecated
  <2>8. Consulted!TypeOK'
    BY <1>1, <2>5, <2>7 DEF Consulted!TypeOK, Recruits, ExpertPlans
  <2> QED
    BY <2>2, <2>3, <2>5, <2>6, <2>7, <2>8 DEF Consulted!IInv, Consulted!RecruitsOK
<1> QED
  BY <1>2, <1>3, <1>4 DEF Consulted!LooksForExisting, Consulted!Qualifies

\* A row is set that stays out of the shadow if it was recruited.
LEMMA RowSet ==
  ASSUME Consulted!ConsultationAssumption, Consulted!IInv, NEW e \in Candidates,
         NEW row \in Consulted!Rows, row # Consulted!NoRow,
         v1' = [ v1 EXCEPT ![e] = row ],
         v1[e] # Consulted!NoRow => row.tier = v1[e].tier,
         v2' \in Recruits, v2'.created \subseteq v2.created \cup {e},
         e \in v2'.created => e \in v2.created \/ row.tier # "shadow",
         \/ v2' = v2
         \/ v2'.at \notin { "search", "revive" }
  PROVE  Consulted!IInv'
<1>1. v1 \in [ Candidates -> Consulted!Rows ] /\ v2 \in Recruits
  BY ConsultedTypeIs DEF Consulted!IInv
<1>2. v1' \in [ Candidates -> Consulted!Rows ] /\ v1'[e] = row
      /\ \A f \in Candidates : f # e => v1'[f] = v1[f]
  BY <1>1
<1>3. Consulted!TypeOK'
  BY <1>2 DEF Consulted!TypeOK, Recruits, ExpertPlans
<1>4. \A f \in v2'.created : v1'[f] # Consulted!NoRow /\ v1'[f].tier # "shadow"
  <2>1. ASSUME NEW f \in v2'.created
        PROVE  v1'[f] # Consulted!NoRow /\ v1'[f].tier # "shadow"
    <3>1. f \in Candidates
      BY DEF Recruits
    <3>2. CASE f # e
      BY <1>2, <3>1, <3>2 DEF Consulted!IInv, Consulted!RecruitsOK
    <3>3. CASE f = e
      BY <1>2, <3>3 DEF Consulted!IInv, Consulted!RecruitsOK
    <3> QED
      BY <3>2, <3>3
  <2> QED
    BY <2>1
<1>5. CASE v2' = v2
  <2>1. Consulted!NextRequest' = Consulted!NextRequest
    BY <1>5 DEF Consulted!NextRequest
  <2>2. v2.at = "revive" => v1'[v2.found.expert] # Consulted!NoRow
    BY <1>2 DEF Consulted!IInv, Consulted!RecruitsOK
  <2> QED
    BY <1>3, <1>4, <1>5, <2>1, <2>2 DEF Consulted!IInv, Consulted!RecruitsOK
<1>6. CASE v2'.at \notin { "search", "revive" }
  BY <1>3, <1>4, <1>6 DEF Consulted!IInv, Consulted!RecruitsOK
<1> QED
  BY <1>5, <1>6

LEMMA NewExpertOK ==
  ASSUME Consulted!ConsultationAssumption, NEW class \in DOMAIN TemplateName
  PROVE  Consulted!NewExpert(class) \in Consulted!Rows
           /\ Consulted!NewExpert(class) # Consulted!NoRow
           /\ Consulted!NewExpert(class).tier # "shadow"
<1>1. class \in Consulted!Classes /\ 1 \in 1..MaxRecruitVersion
  BY DEF Consulted!ConsultationAssumption
<1>2. Consulted!NewExpert(class) \in Consulted!Rows
  BY <1>1 DEF Consulted!NewExpert, Consulted!Rows, Consulted!TierScore
<1>3. Consulted!NewExpert(class).state = "active" /\ Consulted!NewExpert(class).tier = "probation"
  BY DEF Consulted!NewExpert
<1> QED
  BY <1>2, <1>3 DEF Consulted!NoRow

LEMMA RevivesStep ==
  ASSUME Consulted!ConsultationAssumption, Consulted!IInv,
         Consulted!Revives PROVE Consulted!IInv' /\ v2'.plan = v2.plan
<1> DEFINE e == v2.found.expert
           version == v2.found.version
<1>1. v1 \in [ Candidates -> Consulted!Rows ] /\ e \in Candidates /\ v1[e] # Consulted!NoRow
      /\ version + 1 \in 1..MaxRecruitVersion
  BY ConsultedTypeIs
  DEF Consulted!IInv, Consulted!RecruitsOK, Consulted!Revives, Consulted!ConsultationAssumption
<1>2. v1[e] \in Consulted!Rows
  BY <1>1
<1>3. /\ v1'[e] = [ state |-> v1[e].state, class |-> v1[e].class,
                         tags |-> v1[e].tags, tier |-> v1[e].tier,
                         version |-> version + 1 ]
      /\ v1' = [ v1 EXCEPT ![e] = v1'[e] ]
  BY <1>1, <1>2 DEF Consulted!Revives, Consulted!Rows
<1>4. v1'[e] \in Consulted!Rows /\ v1'[e].tier = v1[e].tier
  BY <1>1, <1>2, <1>3 DEF Consulted!Rows
<1>5. v1'[e] # Consulted!NoRow
  BY <1>1, <1>2, <1>3 DEF Consulted!Rows, Consulted!NoRow
<1>6. v2' = Consulted!Handled
  BY DEF Consulted!Revives
<1> QED
  BY <1>1, <1>3, <1>4, <1>5, <1>6, HandledOK, RowSet

LEMMA ConsultedCreatesStep ==
  ASSUME Consulted!ConsultationAssumption, Consulted!IInv,
         Consulted!Creates PROVE Consulted!IInv' /\ v2'.plan = v2.plan
<1> DEFINE class == Consulted!NextRequest
           name == TemplateName[class]
<1>1. class \in DOMAIN TemplateName /\ name \in Candidates /\ v2 \in Recruits
  BY ConsultedTypeIs
  DEF Consulted!Creates, Consulted!IInv, Consulted!RecruitsOK, Consulted!ConsultationAssumption
<1>2. CASE v1[name] = Consulted!NoRow
  <2>1. v1' = [ v1 EXCEPT ![name] = Consulted!NewExpert(class) ]
        /\ v2' = [ Consulted!Handled EXCEPT !.created = Consulted!Handled.created \cup {name} ]
    BY <1>2 DEF Consulted!Creates
  <2>2. v2' \in Recruits /\ v2'.created = v2.created \cup {name}
        /\ v2'.at = "recruiting" /\ v2'.plan = v2.plan
    BY <1>1, <2>1, HandledOK DEF Recruits
  <2> QED
    BY <1>1, <1>2, <2>1, <2>2, NewExpertOK, RowSet
<1>3. CASE v1[name] # Consulted!NoRow
  <2>1. v2' = [ v2 EXCEPT !.at = "failed" ] /\ UNCHANGED v1
    BY <1>3 DEF Consulted!Creates
  <2>2. v2' \in Recruits /\ v2'.created = v2.created
        /\ v2'.at = "failed" /\ v2'.plan = v2.plan
    BY <1>1, <2>1 DEF Recruits
  <2> QED
    BY <2>1, <2>2, MovesOn
<1> QED
  BY <1>2, <1>3

LEMMA ConsultedOthersStep ==
  ASSUME Consulted!ConsultationAssumption, Consulted!IInv, NEW e \in Candidates,
         Consulted!Withdraws(e) \/ Consulted!RecruitedElsewhere(e)
  PROVE  Consulted!IInv' /\ v2'.plan = v2.plan
<1>1. v2 \in Recruits /\ v1 \in [ Candidates -> Consulted!Rows ] /\ v1[e] \in Consulted!Rows
        /\ v2' = v2
  BY ConsultedTypeIs DEF Consulted!IInv, Consulted!Withdraws, Consulted!RecruitedElsewhere
<1>2. CASE Consulted!Withdraws(e)
  <2>1. PICK s \in { "deprecated", "retired" } : v1' = [ v1 EXCEPT ![e].state = s ]
    BY <1>2 DEF Consulted!Withdraws
  <2>2. v1[e] # Consulted!NoRow
    BY <1>2 DEF Consulted!Withdraws
  <2>3. /\ v1'[e] = [ state |-> s, class |-> v1[e].class, tags |-> v1[e].tags,
                           tier |-> v1[e].tier, version |-> v1[e].version ]
        /\ v1' = [ v1 EXCEPT ![e] = v1'[e] ]
    BY <1>1, <2>1, <2>2 DEF Consulted!Rows
  <2>4. v1'[e] \in Consulted!Rows /\ v1'[e].tier = v1[e].tier /\ v1'[e].state = s
    BY <1>1, <2>2, <2>3 DEF Consulted!Rows
  <2>5. v1'[e] # Consulted!NoRow
    BY <2>4 DEF Consulted!NoRow
  <2> QED
    BY <1>1, <2>3, <2>4, <2>5, RowSet
<1>3. CASE Consulted!RecruitedElsewhere(e)
  <2>1. PICK c \in DOMAIN TemplateName : v1' = [ v1 EXCEPT ![e] = Consulted!NewExpert(c) ]
    BY <1>3 DEF Consulted!RecruitedElsewhere
  <2>2. v1[e] = Consulted!NoRow
    BY <1>3 DEF Consulted!RecruitedElsewhere
  <2> QED
    BY <1>1, <2>1, <2>2, NewExpertOK, RowSet
<1> QED
  BY <1>2, <1>3

LEMMA StepsOK ==
  ASSUME Consulted!ConsultationAssumption, Consulted!IInv, [Consulted!Next]_Consulted!vars
  PROVE  Consulted!IInv' /\ (Consulted!Routes \/ v2'.plan = v2.plan)
<1>1. CASE UNCHANGED Consulted!vars
  BY <1>1
  DEF Consulted!vars, Consulted!IInv, Consulted!TypeOK, Consulted!RecruitsOK,
      Consulted!NextRequest
<1> QED
  BY <1>1, PlansStep, RoutesStep, LooksStep, RevivesStep, ConsultedCreatesStep,
     ConsultedOthersStep
  DEF Consulted!Next

LEMMA ConsultedInvNext ==
  ASSUME Consulted!ConsultationAssumption, Consulted!IInv, [Consulted!Next]_Consulted!vars
  PROVE  Consulted!IInv'
  BY StepsOK

LEMMA Accounts ==
  ASSUME Consulted!ConsultationAssumption, Consulted!IInv, [Consulted!Next]_Consulted!vars
  PROVE  Consulted!PlanAccounts
<1>1. CASE Consulted!Routes
  BY <1>1, RoutesAccounts
<1>2. CASE v2'.plan = v2.plan
  BY <1>2 DEF Consulted!PlanAccounts
<1> QED
  BY <1>1, <1>2, StepsOK

LEMMA ConsultedSteps ==
  ASSUME focus = "consulted", [Next]_v
  PROVE  focus' = "consulted" /\ [Consulted!Next]_Consulted!vars
  BY DEF Next, v, Consulted!vars, Kept2

LEMMA ConsultedInvariant == Spec => [](focus = "consulted" => Consulted!IInv)
<1> DEFINE Inv == focus = "consulted" => Consulted!IInv
<1>1. Init => Inv
  BY ConsultedAssumption, ConsultedInvInit DEF Init
<1>2. Inv /\ [Next]_v => Inv'
  BY ConsultedAssumption, ConsultedInvNext, ConsultedSteps, FocusStays
<1> QED
  BY <1>1, <1>2, PTL DEF Spec

\* src/routing, src/recruiting: for whatever experts, labels, flags and confidences,
\* what a plan is to cover is covered, asked of the recruiter, or left for want of budget.
THEOREM PlansAccount == Spec => PlansAreComplete
<1>1. (focus = "consulted" => Consulted!IInv) /\ [Next]_v
        => [focus = "consulted" => Consulted!PlanAccounts]_v
  BY ConsultedAssumption, ConsultedSteps, Accounts
<1> QED
  BY <1>1, ConsultedInvariant, PTL DEF Spec, PlansAreComplete

(***************************************************************************)
(* Assembly: Plans, preflight and QA.  Where preflight is on it has looked *)
(* at the plan that is implemented. The variables: v1 asked, v2 plan, v3   *)
(* task, v4 reviewed, v5 evidence.                                         *)
(***************************************************************************)

Mentioned == UNION { s.mentions : s \in PlanSteps }
TaskRecords == [ at : { "assemble", "preflight", "implement", "qa", "passed", "failed" },
           preflight : BOOLEAN, objected : BOOLEAN, quoted : SUBSET Mentioned,
           loopbacks : 0..MaxQaLoopbacks, judge : { "none", "agent", "rules" } ]
Evidences == [ criteria : SUBSET Criteria, checks : SUBSET Assembled!Checks ]
PlanOK(p) ==
  /\ p.steps \subseteq PlanSteps /\ p.conflicts \subseteq SUBSET DOMAIN v1.panel
  /\ DOMAIN p.handoff \subseteq Criteria
  /\ \A c \in DOMAIN p.handoff : p.handoff[c] \subseteq Assembled!Checks

LEMMA AssembledTypeIs ==
  Assembled!TypeOK <=> /\ v1 \in [ criteria : CriteriaSets, panel : Panels ] /\ PlanOK(v2)
                       /\ v4 \in BOOLEAN /\ v3 \in TaskRecords /\ v5 \in Evidences
  BY DEF Assembled!TypeOK, PlanOK, TaskRecords, Evidences, Mentioned

LEMMA AssembledInvInit == ASSUME Assembled!AssemblyAssumption, Assembled!Init PROVE Assembled!IInv
<1>1. PlanOK(v2)
  BY DEF Assembled!Init, PlanOK, Assembled!NoPlan
<1> DEFINE no == FALSE
<1>2. no \in BOOLEAN /\ {no} = {FALSE} /\ v4 = no
  BY DEF Assembled!Init
<1> HIDE DEF no
<1>3. v3 \in TaskRecords
  <2>1. 0 \in 0..MaxQaLoopbacks
    BY DEF Assembled!AssemblyAssumption
  <2> QED
    BY <1>2, <2>1 DEF Assembled!Init, TaskRecords
<1>4. v5 \in Evidences
  BY DEF Assembled!Init, Evidences
<1>5. Assembled!TypeOK
  BY <1>1, <1>2, <1>3, <1>4, AssembledTypeIs DEF Assembled!Init
<1>6. v3.at = "assemble"
  BY DEF Assembled!Init
<1> QED
  BY <1>5, <1>6 DEF Assembled!IInv, Assembled!LookedAt, Assembled!PassedAsAgreed

\* What the rules assemble.
LEMMA AssembledOK ==
  ASSUME Assembled!AssemblyAssumption, Assembled!TypeOK,
         NEW constraints PROVE PlanOK(Assembled!Assembled(constraints))
<1> DEFINE p == Assembled!Assembled(constraints)
<1>1. p.steps = Assembled!StepsOf(v1.panel)
        /\ p.conflicts = Assembled!Unresolved(v1.panel, constraints)
      /\ p.handoff = [ c \in v1.criteria |-> Assembled!HandoffOf(c, v1.panel) ]
  BY DEF Assembled!Assembled
<1>2. v1.criteria \subseteq Criteria /\ v1.panel \in Panels
  BY DEF Assembled!TypeOK, Assembled!AssemblyAssumption
<1>3. Assembled!StepsOf(v1.panel) \subseteq PlanSteps
  <2>1. \A i \in DOMAIN v1.panel :
          /\ v1.panel[i].recommendations \subseteq PlanSteps
          /\ v1.panel[i].validations \subseteq Validations
    BY <1>2 DEF Assembled!AssemblyAssumption
  <2>2. \A x \in Validations : Checkpoint[x] \in PlanSteps
    BY DEF Assembled!AssemblyAssumption
  <2> QED
    BY <2>1, <2>2 DEF Assembled!StepsOf
<1>4. Assembled!Unresolved(v1.panel, constraints) \subseteq SUBSET DOMAIN v1.panel
  BY DEF Assembled!Unresolved
<1>5. ASSUME NEW c \in v1.criteria
      PROVE  Assembled!HandoffOf(c, v1.panel) \subseteq Assembled!Checks
  <2>1. Overlaps[c] \subseteq Validations /\ c \in Criteria
    BY <1>2 DEF Assembled!AssemblyAssumption
  <2> QED
    BY <2>1 DEF Assembled!HandoffOf, Assembled!Checks
<1> HIDE DEF p
<1>6. PlanOK(p)
  BY <1>1, <1>2, <1>3, <1>4, <1>5 DEF PlanOK
<1> QED
  BY <1>6 DEF p

LEMMA AssemblesStep ==
  ASSUME Assembled!AssemblyAssumption, Assembled!IInv, Assembled!Assembles
  PROVE  Assembled!IInv'
<1> DEFINE to == IF v3.preflight THEN "preflight" ELSE "implement"
<1>1. UNCHANGED << v1, v5 >> /\ v4' = FALSE
      /\ v3' = [ v3 EXCEPT !.at = to ]
  BY DEF Assembled!Assembles
<1>2. v3 \in TaskRecords
  BY AssembledTypeIs DEF Assembled!IInv
<1>3. to \in { "preflight", "implement" }
  OBVIOUS
<1>4. v3' \in TaskRecords /\ v3'.at = to /\ v3'.preflight = v3.preflight
  BY <1>1, <1>2, <1>3 DEF TaskRecords
<1>5. PlanOK(v2')
  <2>1. CASE v2' \in AgentPlans
    BY <2>1 DEF Assembled!AssemblyAssumption, PlanOK, Assembled!Checks
  <2>2. CASE v2' = Assembled!Assembled(v3.quoted)
    BY <2>2, AssembledOK DEF Assembled!IInv
  <2> QED
    BY <2>1, <2>2 DEF Assembled!Assembles
<1>6. Assembled!TypeOK'
  BY <1>1, <1>4, <1>5, AssembledTypeIs
  DEF Assembled!IInv, Assembled!TypeOK, PlanOK, TaskRecords, Mentioned
<1>7. v3'.preflight => v3'.at = "preflight"
  BY <1>4
<1>8. v3'.at # "passed"
  BY <1>3, <1>4
<1> QED
  BY <1>6, <1>7, <1>8 DEF Assembled!IInv, Assembled!LookedAt, Assembled!PassedAsAgreed

LEMMA ObjectsOK ==
  ASSUME Assembled!AssemblyAssumption, Assembled!IInv, NEW quoted \in SUBSET Mentioned,
         Assembled!ObjectsTo(quoted)
  PROVE  v3' \in TaskRecords /\ v3'.at \in { "implement", "assemble" }
<1> DEFINE to == IF v3.objected THEN "implement" ELSE "assemble"
           yes == TRUE
<1>1. yes \in BOOLEAN /\ to \in { "implement", "assemble" }
      /\ v3' = [ v3 EXCEPT !.at = to, !.objected = yes, !.quoted = quoted ]
  BY DEF Assembled!ObjectsTo
<1> HIDE DEF yes, to
<1>2. v3 \in TaskRecords
  BY AssembledTypeIs DEF Assembled!IInv
<1> QED
  BY <1>1, <1>2 DEF TaskRecords

LEMMA PreviewsStep ==
  ASSUME Assembled!AssemblyAssumption, Assembled!IInv, Assembled!Previews
  PROVE  Assembled!IInv'
<1>1. UNCHANGED << v1, v2, v5 >> /\ v4'
  BY DEF Assembled!Previews
<1>2. v4' \in BOOLEAN
  BY DEF Assembled!Previews
<1>3. v3 \in TaskRecords /\ v2.steps \subseteq PlanSteps
  BY AssembledTypeIs DEF Assembled!IInv, PlanOK
<1>4. v3' \in TaskRecords /\ v3'.at \in { "implement", "assemble" }
  <2>1. CASE v3' = [ v3 EXCEPT !.at = "implement" ]
    BY <1>3, <2>1 DEF TaskRecords
  <2>2. CASE Assembled!ObjectsTo(UNION { s.mentions : s \in Assembled!VagueSteps })
    <3>1. UNION { s.mentions : s \in Assembled!VagueSteps } \in SUBSET Mentioned
      BY <1>3 DEF Assembled!VagueSteps, Mentioned
    <3> QED
      BY <2>2, <3>1, ObjectsOK
  <2>3. CASE \E quoted \in SUBSET v2.steps :
               Assembled!ObjectsTo(UNION { s.mentions : s \in quoted })
    <3>1. PICK quoted \in SUBSET v2.steps :
            Assembled!ObjectsTo(UNION { s.mentions : s \in quoted })
      BY <2>3
    <3>2. UNION { s.mentions : s \in quoted } \in SUBSET Mentioned
      BY <1>3 DEF Mentioned
    <3> QED
      BY <3>1, <3>2, ObjectsOK
  <2> QED
    BY <2>1, <2>2, <2>3 DEF Assembled!Previews
<1>5. Assembled!TypeOK'
  BY <1>1, <1>2, <1>4 DEF Assembled!IInv, Assembled!TypeOK, TaskRecords, Mentioned
<1> QED
  BY <1>1, <1>4, <1>5 DEF Assembled!IInv, Assembled!LookedAt, Assembled!PassedAsAgreed

LEMMA AssembledImplementsStep ==
  ASSUME Assembled!AssemblyAssumption, Assembled!IInv, Assembled!Implements
  PROVE  Assembled!IInv'
<1>1. UNCHANGED << v1, v2, v4 >> /\ v3' = [ v3 EXCEPT !.at = "qa" ]
      /\ v3.at = "implement"
      /\ v5' \in [ criteria : SUBSET v1.criteria, checks : SUBSET Assembled!Checks ]
  BY DEF Assembled!Implements
<1>2. v3 \in TaskRecords /\ v1.criteria \subseteq Criteria
  BY AssembledTypeIs DEF Assembled!IInv, Assembled!AssemblyAssumption
<1>3. v3' \in TaskRecords /\ v3'.at = "qa" /\ v3'.preflight = v3.preflight
  BY <1>1, <1>2 DEF TaskRecords
<1>4. v5' \in Evidences
  BY <1>1, <1>2 DEF Evidences
<1>5. Assembled!TypeOK'
  BY <1>1, <1>3, <1>4 DEF Assembled!IInv, Assembled!TypeOK, TaskRecords, Mentioned, Evidences
<1> QED
  BY <1>1, <1>3, <1>5 DEF Assembled!IInv, Assembled!LookedAt, Assembled!PassedAsAgreed

LEMMA JudgedStep ==
  ASSUME Assembled!AssemblyAssumption, Assembled!IInv, v3.at = "qa",
         UNCHANGED << v1, v2, v4, v5 >>,
         NEW passed, NEW judge \in { "agent", "rules" }, Assembled!Judged(passed, judge),
         judge = "rules" /\ passed => Assembled!Validated
  PROVE  Assembled!IInv'
<1> DEFINE again == v3.loopbacks < MaxQaLoopbacks
           to == IF passed THEN "passed" ELSE IF again THEN "implement" ELSE "failed"
           count == IF ~passed /\ again THEN v3.loopbacks + 1 ELSE v3.loopbacks
<1>1. v3 \in TaskRecords
  BY AssembledTypeIs DEF Assembled!IInv
<1>2. v3' = [ at |-> to, preflight |-> v3.preflight, objected |-> v3.objected,
                quoted |-> v3.quoted, loopbacks |-> count, judge |-> judge ]
  BY <1>1 DEF Assembled!Judged, TaskRecords
<1>3. count \in 0..MaxQaLoopbacks
  BY <1>1 DEF TaskRecords, Assembled!AssemblyAssumption
<1>4. to \in { "passed", "implement", "failed" } /\ (to = "passed" => passed)
  OBVIOUS
<1> HIDE DEF to, count
<1>5. v3' \in TaskRecords /\ v3'.at = to /\ v3'.preflight = v3.preflight /\ v3'.judge = judge
  BY <1>1, <1>2, <1>3, <1>4 DEF TaskRecords
<1>6. Assembled!TypeOK'
  BY <1>5 DEF Assembled!IInv, Assembled!TypeOK, TaskRecords, Mentioned
<1>7. Assembled!LookedAt'
  BY <1>5 DEF Assembled!IInv, Assembled!LookedAt
<1>8. Assembled!Validated =>
        /\ v1.criteria # {}
        /\ \A c \in v1.criteria :
             /\ c \in v5.criteria \ Vague
             /\ c \in DOMAIN v2.handoff => v2.handoff[c] \subseteq v5.checks
  BY DEF Assembled!Validated, Assembled!CriterionPasses, Assembled!Satisfied
<1>9. Assembled!PassedAsAgreed'
  BY <1>4, <1>5, <1>7, <1>8 DEF Assembled!PassedAsAgreed, Assembled!LookedAt
<1> QED
  BY <1>6, <1>7, <1>9 DEF Assembled!IInv

LEMMA AssembledInvNext ==
  ASSUME Assembled!AssemblyAssumption, Assembled!IInv, [Assembled!Next]_Assembled!vars
  PROVE  Assembled!IInv'
<1>1. CASE UNCHANGED Assembled!vars
  BY <1>1
  DEF Assembled!vars, Assembled!IInv, Assembled!TypeOK, Assembled!LookedAt,
      Assembled!PassedAsAgreed
<1>2. CASE Assembled!Judges
  <2>1. CASE Assembled!Judged(Assembled!Validated, "rules")
    BY <1>2, <2>1, JudgedStep DEF Assembled!Judges
  <2>2. CASE \E passed \in BOOLEAN : Assembled!Judged(passed, "agent")
    BY <1>2, <2>2, JudgedStep DEF Assembled!Judges
  <2> QED
    BY <1>2, <2>1, <2>2 DEF Assembled!Judges
<1> QED
  BY <1>1, <1>2, AssemblesStep, PreviewsStep, AssembledImplementsStep DEF Assembled!Next

LEMMA AssembledSteps ==
  ASSUME focus = "assembled", [Next]_v
  PROVE  focus' = "assembled" /\ [Assembled!Next]_Assembled!vars
  BY DEF Next, v, Assembled!vars, Kept5

LEMMA AssembledInvariant == Spec => [](focus = "assembled" => Assembled!IInv)
<1> DEFINE Inv == focus = "assembled" => Assembled!IInv
<1>1. Init => Inv
  BY AssembledAssumption, AssembledInvInit DEF Init
<1>2. Inv /\ [Next]_v => Inv'
  BY AssembledAssumption, AssembledInvNext, AssembledSteps, FocusStays
<1> QED
  BY <1>1, <1>2, PTL DEF Spec

\* src/qa: whatever the criteria, the experts' plans and the agents' answers, what the
\* rules let pass was agreed on, and there is evidence for it.
THEOREM PassedWasAgreed == Spec => []PassedAsAgreed
<1>1. (focus = "assembled" => Assembled!IInv) => PassedAsAgreed
  BY DEF PassedAsAgreed, Assembled!IInv
<1> QED
  BY <1>1, AssembledInvariant, PTL

(***************************************************************************)
(* Isolation: Attempts and their containers.  An attempt that met no       *)
(* failure has its container while it is at it and has it in hand when it  *)
(* cleans up. The variables: v1 mode, v2 fallback, v3 attempt, v4          *)
(* container, v5 result, v6 botched.                                       *)
(***************************************************************************)

\* What is known of an attempt, of Docker and of a workspace.
ContainerEntry == [ at : {"idle"} \cup Container!AtWork \cup Container!Over, holds : BOOLEAN ]
States == { "none", "created", "running", "exited" }
Files == [ written : BOOLEAN, returned : { "nothing", "error", "partial", "whole" } ]

\* g is f with another value of the set S for one attempt.
ContainerTouches(f, g, a, S) == g = [ f EXCEPT ![a] = g[a] ] /\ g[a] \in S

LEMMA ContainerInvInit ==
  ASSUME Container!IsolationAssumption, Container!Init
  PROVE  Container!IInv
  BY DEF Container!Init, Container!IInv, Container!TypeOK, Container!InHandOK, Container!InHand,
         Container!ContainedWhenDenied

\* A step of one attempt keeps the invariant of all if it keeps its own.
LEMMA ContainerAttemptStep ==
  ASSUME Container!IsolationAssumption, Container!IInv, NEW a \in Container!Attempts,
         ContainerTouches(v3, v3', a, ContainerEntry), ContainerTouches(v4, v4', a, States),
         ContainerTouches(v5, v5', a, Files),
         v1' = v1, v2' = v2, v6' = v6 \/ v6' = v6 \cup {a},
         v1 = "container" /\ v2 = "deny" => v3'[a].at # "process",
         a \notin v6' =>
           /\ v3'[a].at \in { "wait", "collect", "cleanup" } => v3'[a].holds
           /\ v4'[a] # "none" =>
                v3'[a].at \in { "start", "wait", "collect", "cleanup" }
  PROVE  Container!IInv'
<1>1. \A b \in Container!Attempts : b # a => v3'[b] = v3[b] /\ v4'[b] = v4[b]
  BY DEF ContainerTouches, Container!IInv, Container!TypeOK
<1>2. v3' \in [ Container!Attempts -> ContainerEntry ] /\ v4' \in [ Container!Attempts -> States ]
      /\ v5' \in [ Container!Attempts -> Files ]
  BY DEF ContainerTouches, Container!IInv, Container!TypeOK, ContainerEntry, States, Files
<1>3. Container!TypeOK'
  BY <1>2 DEF Container!IInv, Container!TypeOK, ContainerEntry, States, Files
<1>4. Container!InHandOK'
  BY <1>1 DEF Container!IInv, Container!InHandOK, Container!InHand
<1>5. Container!ContainedWhenDenied'
  BY <1>1 DEF Container!IInv, Container!ContainedWhenDenied
<1> QED
  BY <1>3, <1>4, <1>5 DEF Container!IInv

LEMMA ContainerUnmoved ==
  ASSUME Container!IInv, NEW a \in Container!Attempts
  PROVE  /\ v3' = v3 => ContainerTouches(v3, v3', a, ContainerEntry)
         /\ v4' = v4 => ContainerTouches(v4, v4', a, States)
         /\ v5' = v5 => ContainerTouches(v5, v5', a, Files)
         /\ v3[a] \in ContainerEntry /\ v4[a] \in States /\ v5[a] \in Files
  BY DEF ContainerTouches, Container!IInv, Container!TypeOK, ContainerEntry, States, Files

LEMMA ContainerMovesTo ==
  ASSUME Container!IInv, NEW a \in Container!Attempts,
         NEW to \in {"idle"} \cup Container!AtWork \cup Container!Over, Container!Goes(a, to)
  PROVE  /\ v3'[a] = [ at |-> to, holds |-> v3[a].holds ]
         /\ ContainerTouches(v3, v3', a, ContainerEntry)
  BY DEF ContainerTouches, Container!Goes, Container!IInv, Container!TypeOK, ContainerEntry

LEMMA ReturnsWhat ==
  ASSUME Container!IInv, NEW a \in Container!Attempts,
         NEW what \in { "nothing", "error", "partial", "whole" },
         Container!Returns(a, what)
  PROVE  ContainerTouches(v5, v5', a, Files)
  BY DEF ContainerTouches, Container!Returns, Container!IInv, Container!TypeOK, Files

LEMMA ContainerIs ==
  ASSUME Container!IInv, NEW a \in Container!Attempts, NEW state \in States,
         v4' = [ v4 EXCEPT ![a] = state ]
  PROVE  ContainerTouches(v4, v4', a, States) /\ v4'[a] = state
  BY DEF ContainerTouches, Container!IInv, Container!TypeOK, States

LEMMA LaunchStep ==
  ASSUME Container!IsolationAssumption, Container!IInv, NEW a \in Container!Attempts,
         Container!WorksUnasked(a) \/ Container!Resolves(a) \/ Container!WorksInProcess(a)
           \/ Container!Creates(a) \/ Container!Starts(a)
  PROVE  Container!IInv'
<1>1. CASE Container!WorksUnasked(a) \/ Container!Resolves(a)
  <2>1. PICK to \in { "create", "raised", "process" } :
          Container!Goes(a, to) /\ (to = "process" => v1 # "container" \/ v2 = "allow")
    BY <1>1 DEF Container!WorksUnasked, Container!Resolves, Container!IInv, Container!TypeOK
  <2>2. to \in {"idle"} \cup Container!AtWork \cup Container!Over
    BY DEF Container!AtWork, Container!Over
  <2>3. UNCHANGED << v1, v2, v4, v5, v6 >> /\ v3[a].at = "idle"
    BY <1>1 DEF Container!WorksUnasked, Container!Resolves, Container!Begins
  <2>4. a \notin v6 => v4[a] = "none"
    BY <2>3 DEF Container!IInv, Container!InHandOK, Container!InHand
  <2>5. /\ v3'[a] = [ at |-> to, holds |-> v3[a].holds ]
        /\ ContainerTouches(v3, v3', a, ContainerEntry)
    BY <2>1, <2>2, ContainerMovesTo
  <2>6. ContainerTouches(v4, v4', a, States) /\ ContainerTouches(v5, v5', a, Files)
    BY <2>3, ContainerUnmoved
  <2> QED
    BY <2>1, <2>3, <2>4, <2>5, <2>6, ContainerAttemptStep
<1>2. CASE Container!WorksInProcess(a)
  <2>1. PICK to \in { "returned", "raised" } : Container!Goes(a, to)
    BY <1>2 DEF Container!WorksInProcess
  <2>2. to \in {"idle"} \cup Container!AtWork \cup Container!Over
    BY DEF Container!Over
  <2>3. UNCHANGED << v1, v2, v4, v5, v6 >> /\ v3[a].at = "process"
    BY <1>2 DEF Container!WorksInProcess
  <2>4. a \notin v6 => v4[a] = "none"
    BY <2>3 DEF Container!IInv, Container!InHandOK, Container!InHand
  <2>5. /\ v3'[a] = [ at |-> to, holds |-> v3[a].holds ]
        /\ ContainerTouches(v3, v3', a, ContainerEntry)
    BY <2>1, <2>2, ContainerMovesTo
  <2>6. ContainerTouches(v4, v4', a, States) /\ ContainerTouches(v5, v5', a, Files)
    BY <2>3, ContainerUnmoved
  <2> QED
    BY <2>1, <2>3, <2>4, <2>5, <2>6, ContainerAttemptStep
<1>3. CASE Container!Creates(a)
  <2>1. Container!Goes(a, "start")
          /\ "start" \in {"idle"} \cup Container!AtWork \cup Container!Over
          /\ "created" \in States
    BY <1>3 DEF Container!Creates, Container!AtWork, States
  <2>2. UNCHANGED << v1, v2, v5, v6 >>
        /\ v4' = [ v4 EXCEPT ![a] = "created" ]
    BY <1>3 DEF Container!Creates
  <2>3. /\ v3'[a] = [ at |-> "start", holds |-> v3[a].holds ]
        /\ ContainerTouches(v3, v3', a, ContainerEntry)
    BY <2>1, ContainerMovesTo
  <2>4. ContainerTouches(v4, v4', a, States) /\ ContainerTouches(v5, v5', a, Files)
    BY <2>1, <2>2, ContainerIs, ContainerUnmoved
  <2>5. v1' = v1 /\ v2' = v2 /\ v6' = v6
    BY <2>2
  <2> QED
    BY <2>3, <2>4, <2>5, ContainerAttemptStep
<1>4. CASE Container!Starts(a)
  <2>1. /\ v3'[a] = [ at |-> "wait", holds |-> TRUE ]
        /\ ContainerTouches(v3, v3', a, ContainerEntry) /\ "running" \in States
    BY <1>4
    DEF Container!Starts, Container!AtWork, States, ContainerTouches, Container!IInv,
        Container!TypeOK, ContainerEntry
  <2>2. UNCHANGED << v1, v2, v5, v6 >>
        /\ v4' = [ v4 EXCEPT ![a] = "running" ]
    BY <1>4 DEF Container!Starts
  <2>3. ContainerTouches(v4, v4', a, States) /\ ContainerTouches(v5, v5', a, Files)
    BY <2>1, <2>2, ContainerIs, ContainerUnmoved
  <2>4. v1' = v1 /\ v2' = v2 /\ v6' = v6
    BY <2>2
  <2> QED
    BY <2>1, <2>3, <2>4, ContainerAttemptStep
<1> QED
  BY <1>1, <1>2, <1>3, <1>4

LEMMA EndStep ==
  ASSUME Container!IsolationAssumption, Container!IInv, NEW a \in Container!Attempts,
         Container!Waited(a) \/ Container!TimesOut(a) \/ Container!Collects(a)
           \/ Container!CleansUp(a)
  PROVE  Container!IInv'
<1>1. { "collect", "cleanup", "returned" } \subseteq {"idle"} \cup Container!AtWork \cup Container!Over
      /\ "exited" \in States /\ "none" \in States
  BY DEF Container!AtWork, Container!Over, States
<1>2. a \notin v6 /\ v3[a].at \in { "wait", "collect", "cleanup" } => v3[a].holds
  BY DEF Container!IInv, Container!InHandOK, Container!InHand
<1>3. v1' = v1 /\ v2' = v2 /\ v6' = v6
  BY DEF Container!Waited, Container!TimesOut, Container!Collects, Container!CleansUp
<1>4. CASE Container!Waited(a)
  <2>1. Container!Goes(a, "collect") /\ UNCHANGED << v4, v5 >> /\ v3[a].at = "wait"
    BY <1>4 DEF Container!Waited
  <2>2. /\ v3'[a] = [ at |-> "collect", holds |-> v3[a].holds ]
        /\ ContainerTouches(v3, v3', a, ContainerEntry)
    BY <1>1, <2>1, ContainerMovesTo
  <2>3. ContainerTouches(v4, v4', a, States) /\ ContainerTouches(v5, v5', a, Files)
    BY <2>1, ContainerUnmoved
  <2> QED
    BY <1>2, <1>3, <2>1, <2>2, <2>3, ContainerAttemptStep
<1>5. CASE Container!TimesOut(a)
  <2>1. /\ Container!Goes(a, "cleanup") /\ v3[a].at = "wait"
        /\ v4' = [ v4 EXCEPT ![a] = "exited" ]
        /\ Container!Returns(a, IF v5[a].written THEN "partial" ELSE "nothing")
    BY <1>5 DEF Container!TimesOut
  <2>2. ContainerTouches(v5, v5', a, Files)
    BY <2>1, ReturnsWhat
  <2>3. /\ v3'[a] = [ at |-> "cleanup", holds |-> v3[a].holds ]
        /\ ContainerTouches(v3, v3', a, ContainerEntry)
    BY <1>1, <2>1, ContainerMovesTo
  <2>4. ContainerTouches(v4, v4', a, States)
    BY <1>1, <2>1, ContainerIs
  <2>5. a \notin v6 => v3[a].holds
    BY <1>2, <2>1
  <2> QED
    BY <1>3, <2>2, <2>3, <2>4, <2>5, ContainerAttemptStep
<1>6. CASE Container!Collects(a)
  <2>1. /\ Container!Goes(a, "cleanup") /\ v3[a].at = "collect" /\ v4' = v4
        /\ Container!Returns(a, IF v5[a].written THEN "whole" ELSE "nothing")
    BY <1>6 DEF Container!Collects
  <2>2. ContainerTouches(v5, v5', a, Files)
    BY <2>1, ReturnsWhat
  <2>3. /\ v3'[a] = [ at |-> "cleanup", holds |-> v3[a].holds ]
        /\ ContainerTouches(v3, v3', a, ContainerEntry)
    BY <1>1, <2>1, ContainerMovesTo
  <2>4. ContainerTouches(v4, v4', a, States)
    BY <2>1, ContainerUnmoved
  <2> QED
    BY <1>2, <1>3, <2>1, <2>2, <2>3, <2>4, ContainerAttemptStep
<1>7. CASE Container!CleansUp(a)
  <2>1. /\ Container!Goes(a, "returned") /\ v3[a].at = "cleanup" /\ v5' = v5
        /\ v4' = [ v4 EXCEPT ![a] = IF v3[a].holds THEN "none" ELSE @ ]
    BY <1>7 DEF Container!CleansUp
  <2>2. /\ ContainerTouches(v4, v4', a, States)
        /\ v3[a].holds => v4'[a] = "none"
    BY <1>1, <2>1 DEF ContainerTouches, Container!IInv, Container!TypeOK, States
  <2>3. /\ v3'[a] = [ at |-> "returned", holds |-> v3[a].holds ]
        /\ ContainerTouches(v3, v3', a, ContainerEntry)
    BY <1>1, <2>1, ContainerMovesTo
  <2>4. ContainerTouches(v5, v5', a, Files)
    BY <2>1, ContainerUnmoved
  <2>5. a \notin v6 => v4'[a] = "none"
    BY <1>2, <2>1, <2>2
  <2> QED
    BY <1>3, <2>2, <2>3, <2>4, <2>5, ContainerAttemptStep
<1> QED
  BY <1>4, <1>5, <1>6, <1>7

LEMMA ContainerStep ==
  ASSUME Container!IsolationAssumption, Container!IInv, NEW a \in Container!Attempts,
         Container!WritesResult(a) \/ Container!Exits(a)
  PROVE  Container!IInv'
<1>1. UNCHANGED << v1, v2, v3, v6 >> /\ v4[a] = "running"
  BY DEF Container!WritesResult, Container!Exits
<1>2. ContainerTouches(v5, v5', a, Files)
  BY DEF Container!WritesResult, Container!Exits, ContainerTouches, Container!IInv,
         Container!TypeOK, Files
<1>3. "exited" \in States
  BY DEF States
<1>4. ContainerTouches(v4, v4', a, States)
  BY <1>3, ContainerIs, ContainerUnmoved DEF Container!WritesResult, Container!Exits
<1>5. /\ v1 = "container" /\ v2 = "deny" => v3[a].at # "process"
      /\ a \notin v6 =>
           /\ v3[a].at \in { "wait", "collect", "cleanup" } => v3[a].holds
           /\ v3[a].at \in { "start", "wait", "collect", "cleanup" }
  BY <1>1 DEF Container!IInv, Container!ContainedWhenDenied, Container!InHandOK, Container!InHand
<1> QED
  BY <1>1, <1>2, <1>4, <1>5, ContainerUnmoved, ContainerAttemptStep

LEMMA FailureStep ==
  ASSUME Container!IsolationAssumption, Container!IInv, NEW a \in Container!Attempts,
         Container!DockerFails(a) \/ Container!WorkerDies(a)
  PROVE  Container!IInv'
<1>1. UNCHANGED << v1, v2, v4 >> /\ v6' = v6 \cup {a}
  BY DEF Container!DockerFails, Container!WorkerDies, Container!Botches
<1>2. PICK to \in { "cleanup", "returned", "dead" } : Container!Goes(a, to)
  BY DEF Container!DockerFails, Container!WorkerDies
<1>3. to \in {"idle"} \cup Container!AtWork \cup Container!Over
  BY DEF Container!AtWork, Container!Over
<1>4. ContainerTouches(v5, v5', a, Files)
  BY ReturnsWhat, ContainerUnmoved DEF Container!DockerFails, Container!WorkerDies
<1>5. /\ v3'[a] = [ at |-> to, holds |-> v3[a].holds ]
      /\ ContainerTouches(v3, v3', a, ContainerEntry)
  BY <1>2, <1>3, ContainerMovesTo
<1>6. ContainerTouches(v4, v4', a, States)
  BY <1>1, ContainerUnmoved
<1> QED
  BY <1>1, <1>4, <1>5, <1>6, ContainerAttemptStep

LEMMA ContainerInvNext ==
  ASSUME Container!IsolationAssumption, Container!IInv, [Container!Next]_Container!vars
  PROVE  Container!IInv'
<1>1. CASE UNCHANGED Container!vars
  BY <1>1
  DEF Container!vars, Container!IInv, Container!TypeOK, Container!InHandOK, Container!InHand,
      Container!ContainedWhenDenied
<1> QED
  BY <1>1, LaunchStep, EndStep, ContainerStep, FailureStep DEF Container!Next, Container!AllOver

LEMMA ContainerSteps ==
  ASSUME focus = "container", [Next]_v
  PROVE  focus' = "container" /\ [Container!Next]_Container!vars
  BY DEF Next, v, Container!vars, Kept6

LEMMA ContainerInvariant == Spec => [](focus = "container" => Container!IInv)
<1> DEFINE Inv == focus = "container" => Container!IInv
<1>1. Init => Inv
  BY ContainerAssumption, ContainerInvInit DEF Init
<1>2. Inv /\ [Next]_v => Inv'
  BY ContainerAssumption, ContainerInvNext, ContainerSteps, FocusStays
<1> QED
  BY <1>1, <1>2, PTL DEF Spec

(***************************************************************************)
(* Verification: Verifications on one host.  One that met no trouble is    *)
(* tidy; one that was alone between its install step and its tests has     *)
(* tested its own code. The variables: v1 run, v2 directory, v3 orphans,   *)
(* v4 container, v5 installed, v6 verdict, v7 tested, v8 company, v9       *)
(* troubled, v10 troubles.                                                 *)
(***************************************************************************)

\* What is known of a verification, and of its container.
Points == { "idle", "returned", "dead" } \cup Verified!AtWork
Words == { "nothing", "passed", "failed" }
VerifiedEntry == [ at : Points, mode : { "subprocess", "container" }, said : [ Verified!Steps -> Words ] ]
Directories == { "none", "empty", "branch", "main", "patched" }
Containers == [ at : { "none", "created", "running", "exited" },
                result : { "none", "passed", "failed" } ]
VerifiedVerdicts == { "none", "pass", "fail", "raised" }
Owners == Runs \cup {Verified!NoRun}

\* g is f with another value of the set S for one verification.
VerifiedTouches(f, g, r, S) == g = [ f EXCEPT ![r] = g[r] ] /\ g[r] \in S

LEMMA Typed ==
  ASSUME Verified!IInv
  PROVE  /\ v1 \in [ Runs -> VerifiedEntry ] /\ v2 \in [ Runs -> Directories ]
         /\ v3 \in [ Runs -> SUBSET Verified!Waiting ] /\ v4 \in [ Runs -> Containers ]
         /\ v6 \in [ Runs -> VerifiedVerdicts ] /\ v7 \in [ Runs -> Owners ]
         /\ v5 \in Owners
         /\ v8 \subseteq Runs /\ v9 \subseteq Runs /\ v10 \in 0..MaxRemoteTroubles
  BY DEF Verified!IInv, Verified!TypeOK, VerifiedEntry, Points, Words, Directories, Containers,
         VerifiedVerdicts, Owners

LEMMA TypedAgain ==
  ASSUME v1' \in [ Runs -> VerifiedEntry ], v2' \in [ Runs -> Directories ],
         v3' \in [ Runs -> SUBSET Verified!Waiting ], v4' \in [ Runs -> Containers ],
         v6' \in [ Runs -> VerifiedVerdicts ], v7' \in [ Runs -> Owners ],
         v5' \in Owners, v8' \subseteq Runs, v9' \subseteq Runs,
         v10' \in 0..MaxRemoteTroubles
  PROVE  Verified!TypeOK'
  BY DEF Verified!TypeOK, VerifiedEntry, Points, Words, Directories, Containers, VerifiedVerdicts,
         Owners

LEMMA VerifiedInvInit == ASSUME Verified!VerificationAssumption, Verified!Init PROVE Verified!IInv
<1>1. Verified!TypeOK
  BY DEF Verified!VerificationAssumption, Verified!Init, Verified!TypeOK, Verified!Silent,
         Verified!NoContainer, Verified!NoRun
<1>2. Verified!RunsOK /\ Verified!CompanyOK
  BY DEF Verified!Init, Verified!RunsOK, Verified!Tidy, Verified!OwnCode, Verified!CompanyOK,
         Verified!Busy, Verified!NoContainer, Verified!AtWork, Verified!Waiting, Verified!Steps,
     Verified!InDocker
<1> QED
  BY <1>1, <1>2 DEF Verified!IInv

\* A step of one verification that was on the host already keeps the invariant of
\* all if it keeps its own: what the others rely on is that they are not alone.
LEMMA VerifiedRunStep ==
  ASSUME Verified!VerificationAssumption, Verified!IInv, NEW r \in Runs, r \in Verified!Busy,
         VerifiedTouches(v1, v1', r, VerifiedEntry), VerifiedTouches(v2, v2', r, Directories),
         VerifiedTouches(v3, v3', r, SUBSET Verified!Waiting),
         VerifiedTouches(v4, v4', r, Containers),
         VerifiedTouches(v6, v6', r, VerifiedVerdicts), VerifiedTouches(v7, v7', r, Owners),
         v5' = v5 \/ v5' = r,
         v8' = v8, v9' = v9 \/ v9' = v9 \cup {r},
         v10' \in 0..MaxRemoteTroubles,
         r \notin v9' =>
           /\ v3'[r] = {}
           /\ v4'[r] # Verified!NoContainer
                => v1'[r].at \in { "start", "wait", "collect", "remove" }
           /\ v1'[r].at = "returned" => v2'[r] = "none",
         v4'[r] # Verified!NoContainer =>
           v1'[r].at \in { "start", "wait", "collect", "remove", "cleanup", "returned", "dead" },
         v4'[r].result = "passed" => v7'[r] = r,
         r \notin v8 => (v1'[r].at \in { "lint", "test" } => v5' = r),
         r \notin v8 => (v6'[r] = "pass" => v7'[r] = r)
  PROVE  Verified!IInv'
<1>1. \A s \in Runs : s # r =>
        /\ v1'[s] = v1[s] /\ v2'[s] = v2[s] /\ v3'[s] = v3[s]
        /\ v4'[s] = v4[s] /\ v6'[s] = v6[s] /\ v7'[s] = v7[s]
  BY Typed DEF VerifiedTouches
<1>2. Verified!TypeOK'
  <2>1. /\ v1' \in [ Runs -> VerifiedEntry ] /\ v2' \in [ Runs -> Directories ]
        /\ v3' \in [ Runs -> SUBSET Verified!Waiting ] /\ v4' \in [ Runs -> Containers ]
        /\ v6' \in [ Runs -> VerifiedVerdicts ] /\ v7' \in [ Runs -> Owners ]
    BY Typed DEF VerifiedTouches
  <2>2. v5' \in Owners /\ v8' \subseteq Runs /\ v9' \subseteq Runs
    BY Typed DEF Owners
  <2> QED
    BY <2>1, <2>2, TypedAgain
<1>3. Verified!Busy' \subseteq Verified!Busy
  BY <1>1 DEF Verified!Busy
<1>4. Verified!CompanyOK'
  BY <1>3 DEF Verified!IInv, Verified!CompanyOK
<1>5. ASSUME NEW s \in Runs, s # r PROVE (Verified!Tidy(s) /\ Verified!OwnCode(s))'
  <2>1. Verified!Tidy(s)'
    BY <1>1, <1>5 DEF Verified!IInv, Verified!RunsOK, Verified!Tidy
  <2>2. v1[s].at \in { "lint", "test" } /\ s \notin v8 => v5' = v5
    <3>1. v1[s].at \in { "lint", "test" } => s \in Verified!Busy
      BY DEF Verified!Busy, Verified!AtWork, Verified!Waiting, Verified!Steps
    <3> QED
      BY <1>5, <3>1 DEF Verified!IInv, Verified!CompanyOK, Verified!RunsOK, Verified!OwnCode
  <2>3. Verified!OwnCode(s)'
    BY <1>1, <1>5, <2>2 DEF Verified!IInv, Verified!RunsOK, Verified!OwnCode
  <2> QED
    BY <2>1, <2>3
<1>6. (Verified!Tidy(r) /\ Verified!OwnCode(r))'
  BY DEF Verified!Tidy, Verified!OwnCode
<1>7. Verified!RunsOK'
  BY <1>5, <1>6 DEF Verified!RunsOK
<1> QED
  BY <1>2, <1>4, <1>7 DEF Verified!IInv

-----------------------------------------------------------------------------
(* What the operators of the actions do *)

LEMMA VerifiedUnmoved ==
  ASSUME Verified!IInv, NEW r \in Runs
  PROVE  /\ v1' = v1 => VerifiedTouches(v1, v1', r, VerifiedEntry)
         /\ v2' = v2 => VerifiedTouches(v2, v2', r, Directories)
         /\ v3' = v3 => VerifiedTouches(v3, v3', r, SUBSET Verified!Waiting)
         /\ v4' = v4 => VerifiedTouches(v4, v4', r, Containers)
         /\ v6' = v6 => VerifiedTouches(v6, v6', r, VerifiedVerdicts)
         /\ v7' = v7 => VerifiedTouches(v7, v7', r, Owners)
  BY Typed DEF VerifiedTouches

LEMMA VerifiedMovesTo ==
  ASSUME Verified!IInv, NEW r \in Runs, NEW to \in Points, Verified!Goes(r, to)
  PROVE  v1'[r].at = to /\ VerifiedTouches(v1, v1', r, VerifiedEntry)
<1>1. /\ v1'[r] = [ at |-> to, mode |-> v1[r].mode, said |-> v1[r].said ]
      /\ VerifiedTouches(v1, v1', r, VerifiedEntry)
  BY Typed DEF VerifiedTouches, Verified!Goes, VerifiedEntry
<1> QED
  BY <1>1

LEMMA HoldsWhat ==
  ASSUME Verified!IInv, NEW r \in Runs, NEW what \in Directories, Verified!Holds(r, what)
  PROVE  v2'[r] = what /\ VerifiedTouches(v2, v2', r, Directories)
  BY Typed DEF VerifiedTouches, Verified!Holds

LEMMA VerdictIs ==
  ASSUME Verified!IInv, NEW r \in Runs, NEW answer \in VerifiedVerdicts,
         v6' = [ v6 EXCEPT ![r] = answer ]
  PROVE  v6'[r] = answer /\ VerifiedTouches(v6, v6', r, VerifiedVerdicts)
  BY Typed DEF VerifiedTouches

LEMMA AbandonsIt ==
  ASSUME Verified!IInv, NEW r \in Runs, v1[r].at \in Verified!Waiting, Verified!Abandons(r)
  PROVE  VerifiedTouches(v3, v3', r, SUBSET Verified!Waiting)
  BY Typed DEF VerifiedTouches, Verified!Abandons

LEMMA AnswersWith ==
  ASSUME Verified!IInv, NEW r \in Runs, NEW answer \in VerifiedVerdicts,
         Verified!Answers(r, answer)
  PROVE  /\ v1'[r].at = "returned" /\ VerifiedTouches(v1, v1', r, VerifiedEntry)
         /\ v6'[r] = answer /\ VerifiedTouches(v6, v6', r, VerifiedVerdicts)
         /\ v2'[r] = "none" /\ VerifiedTouches(v2, v2', r, Directories)
<1>1. "returned" \in Points /\ "none" \in Directories
  BY DEF Points, Directories
<1>2. Verified!Goes(r, "returned") /\ Verified!Holds(r, "none")
        /\ v6' = [ v6 EXCEPT ![r] = answer ]
  BY DEF Verified!Answers
<1>3. v1'[r].at = "returned" /\ VerifiedTouches(v1, v1', r, VerifiedEntry)
  BY <1>1, <1>2, VerifiedMovesTo
<1>4. v6'[r] = answer /\ VerifiedTouches(v6, v6', r, VerifiedVerdicts)
  BY <1>2, VerdictIs
<1>5. v2'[r] = "none" /\ VerifiedTouches(v2, v2', r, Directories)
  BY <1>1, <1>2, HoldsWhat
<1> QED
  BY <1>3, <1>4, <1>5

\* After a step comes the next or the end; only tests that pass are a pass.
LEMMA SaysWhat ==
  ASSUME Verified!IInv, NEW r \in Runs, v1[r].at \in Verified!Steps, NEW ok \in BOOLEAN,
         Verified!Says(r, ok)
  PROVE  /\ VerifiedTouches(v1, v1', r, VerifiedEntry)
         /\ VerifiedTouches(v6, v6', r, VerifiedVerdicts)
         /\ VerifiedTouches(v2, v2', r, Directories)
         /\ v1'[r].at \in { "returned", "lint", "test" }
         /\ v1'[r].at = "lint" => v1[r].at = "install" /\ ok
         /\ v1'[r].at = "test" => v1[r].at = "lint"
         /\ v1'[r].at = "returned" => v2'[r] = "none"
         /\ v6'[r] = "pass" => v6[r] = "pass" \/ (ok /\ v1[r].at = "test")
<1> DEFINE step == v1[r].at
           said == [ v1[r].said EXCEPT ![step] = IF ok THEN "passed" ELSE "failed" ]
<1>1. v1[r] \in VerifiedEntry /\ said \in [ Verified!Steps -> Words ]
        /\ (~ok => said[step] = "failed")
  BY Typed DEF VerifiedEntry, Words
<1>2. CASE Verified!After(step, ok) = "end"
  <2>1. /\ v1' = [ v1 EXCEPT ![r] = [ @ EXCEPT !.at = "returned", !.said = said ] ]
        /\ v6' = [ v6 EXCEPT ![r] = Verified!Overall(said) ] /\ Verified!Holds(r, "none")
    BY <1>2 DEF Verified!Says
  <2> HIDE DEF said
  <2>2. /\ v1'[r] = [ at |-> "returned", mode |-> v1[r].mode, said |-> said ]
        /\ v1' = [ v1 EXCEPT ![r] = v1'[r] ]
    BY <1>1, <2>1, Typed DEF VerifiedEntry
  <2>3. v1'[r] \in VerifiedEntry
    BY <1>1, <2>2 DEF VerifiedEntry, Points
  <2>4. Verified!Overall(said) \in VerifiedVerdicts /\ (~ok => Verified!Overall(said) = "fail")
    BY <1>1 DEF Verified!Overall, VerifiedVerdicts
  <2>5. v6'[r] = Verified!Overall(said) /\ VerifiedTouches(v6, v6', r, VerifiedVerdicts)
    BY <2>1, <2>4, VerdictIs
  <2>6. v2'[r] = "none" /\ VerifiedTouches(v2, v2', r, Directories)
    BY <2>1, HoldsWhat DEF Directories
  <2>7. ok => step = "test"
    BY <1>2 DEF Verified!After, Verified!Steps
  <2> QED
    BY <2>2, <2>3, <2>4, <2>5, <2>6, <2>7 DEF VerifiedTouches
<1>3. CASE Verified!After(step, ok) # "end"
  <2>1. /\ v1' = [ v1 EXCEPT ![r] = [ @ EXCEPT !.at = Verified!After(step, ok), !.said = said ] ]
        /\ UNCHANGED << v6, v2 >>
    BY <1>3 DEF Verified!Says
  <2> HIDE DEF said
  <2>2. /\ v1'[r] = [ at |-> Verified!After(step, ok), mode |-> v1[r].mode, said |-> said ]
        /\ v1' = [ v1 EXCEPT ![r] = v1'[r] ]
    BY <1>1, <2>1, Typed DEF VerifiedEntry
  <2>3. \/ Verified!After(step, ok) = "lint" /\ step = "install" /\ ok
        \/ Verified!After(step, ok) = "test" /\ step = "lint"
    BY <1>3 DEF Verified!After, Verified!Steps
  <2>4. "lint" \in Points /\ "test" \in Points
    BY DEF Points, Verified!AtWork, Verified!Waiting, Verified!Steps
  <2>5. v1'[r] \in VerifiedEntry
    BY <1>1, <2>2, <2>3, <2>4 DEF VerifiedEntry
  <2>6. VerifiedTouches(v6, v6', r, VerifiedVerdicts) /\ VerifiedTouches(v2, v2', r, Directories)
        /\ v6'[r] = v6[r]
    BY <2>1, VerifiedUnmoved
  <2> QED
    BY <2>2, <2>3, <2>5, <2>6 DEF VerifiedTouches
<1> QED
  BY <1>2, <1>3

\* Who works at a step or a clone is on the host, without a container.
LEMMA Working ==
  ASSUME Verified!IInv, NEW r \in Runs
  PROVE  /\ v1[r].at \in Verified!AtWork => r \in Verified!Busy
         /\ v1[r].at \in Verified!Waiting \cup { "apply", "docker", "create" }
              => v4[r] = Verified!NoContainer
         /\ v4[r].at = "running" => r \in Verified!Busy /\ v4[r] # Verified!NoContainer
         /\ v3[r] # {} => r \in Verified!Busy
<1>1. v4[r] # Verified!NoContainer =>
        v1[r].at \in { "start", "wait", "collect", "remove", "cleanup", "returned", "dead" }
  BY DEF Verified!IInv, Verified!RunsOK, Verified!OwnCode
<1> QED
  BY <1>1 DEF Verified!Busy, Verified!Waiting, Verified!Steps, Verified!NoContainer

-----------------------------------------------------------------------------
(* The steps *)

\* A failure or a time-out: whatever is left, is left by one that met trouble.
LEMMA VerifiedTroubledStep ==
  ASSUME Verified!VerificationAssumption, Verified!IInv, NEW r \in Runs, Verified!Trouble(r),
         v1[r].at \in Verified!AtWork,
         VerifiedTouches(v1, v1', r, VerifiedEntry), VerifiedTouches(v2, v2', r, Directories),
         VerifiedTouches(v3, v3', r, SUBSET Verified!Waiting),
         VerifiedTouches(v6, v6', r, VerifiedVerdicts),
         UNCHANGED << v4, v5, v7, v8 >>,
         v1'[r].at \in { "clone_main", "returned", "test", "remove", "cleanup" },
         v1'[r].at = "test" => v1[r].at = "lint",
         v1'[r].at \in { "remove", "cleanup" } \/ v1[r].at \in Verified!Waiting \cup { "apply" },
         v6'[r] = "pass" => v6[r] = "pass"
  PROVE  Verified!IInv'
<1>1. r \in Verified!Busy
        /\ (v4[r] # Verified!NoContainer => v1'[r].at \in { "remove", "cleanup" })
  BY Working
<1>2. v9' = v9 \cup {r} /\ v10' \in 0..MaxRemoteTroubles
  BY Typed DEF Verified!Trouble, Verified!VerificationAssumption
<1>3. VerifiedTouches(v4, v4', r, Containers) /\ VerifiedTouches(v7, v7', r, Owners)
  BY VerifiedUnmoved
<1>4. /\ v4[r].result = "passed" => v7[r] = r
      /\ r \notin v8 /\ v1[r].at = "lint" => v5 = r
      /\ r \notin v8 /\ v6[r] = "pass" => v7[r] = r
  BY DEF Verified!IInv, Verified!RunsOK, Verified!OwnCode
<1> QED
  BY <1>1, <1>2, <1>3, <1>4, VerifiedRunStep

LEMMA CloneStep ==
  ASSUME Verified!VerificationAssumption, Verified!IInv, NEW r \in Runs,
         Verified!CloneFails(r) \/ Verified!CloneTimesOut(r) \/ Verified!ApplyFails(r)
  PROVE  Verified!IInv'
<1>1. Verified!Trouble(r) /\ UNCHANGED << v4, v5, v7, v8 >>
      /\ v1[r].at \in { "clone", "clone_main", "apply" }
  BY DEF Verified!CloneFails, Verified!CloneTimesOut, Verified!ApplyFails, Verified!FallsBack
<1>2. v1[r].at \in Verified!AtWork /\ v1[r].at \in Verified!Waiting \cup { "apply" }
      /\ (v1[r].at # "apply" => v1[r].at \in Verified!Waiting)
      /\ "clone_main" \in Points /\ "empty" \in Directories /\ "fail" \in VerifiedVerdicts
  BY <1>1 DEF Verified!AtWork, Verified!Waiting, Points, Directories, VerifiedVerdicts
<1>3. VerifiedTouches(v3, v3', r, SUBSET Verified!Waiting)
  BY <1>2, AbandonsIt, VerifiedUnmoved
  DEF Verified!CloneFails, Verified!CloneTimesOut, Verified!ApplyFails, Verified!FallsBack
<1>4. CASE Verified!Answers(r, "fail")
  BY <1>1, <1>2, <1>3, <1>4, AnswersWith, VerifiedTroubledStep
<1>5. CASE ~Verified!Answers(r, "fail")
  <2>1. Verified!Goes(r, "clone_main") /\ Verified!Holds(r, "empty") /\ v6' = v6
    BY <1>5
    DEF Verified!CloneFails, Verified!CloneTimesOut, Verified!ApplyFails, Verified!FallsBack
  <2>2. v1'[r].at = "clone_main" /\ VerifiedTouches(v1, v1', r, VerifiedEntry)
    BY <1>2, <2>1, VerifiedMovesTo
  <2>3. VerifiedTouches(v2, v2', r, Directories) /\ VerifiedTouches(v6, v6', r, VerifiedVerdicts)
    BY <1>2, <2>1, HoldsWhat, VerifiedUnmoved
  <2>4. v1'[r].at = "clone_main" /\ v6'[r] = v6[r]
    BY <2>1, <2>2
  <2> QED
    BY <1>1, <1>2, <1>3, <2>2, <2>3, <2>4, VerifiedTroubledStep
<1> QED
  BY <1>4, <1>5

LEMMA StepTimesOutStep ==
  ASSUME Verified!VerificationAssumption, Verified!IInv, NEW r \in Runs, Verified!StepTimesOut(r)
  PROVE  Verified!IInv'
<1>1. Verified!Trouble(r) /\ UNCHANGED << v4, v5, v7, v8 >>
      /\ v1[r].at \in Verified!Steps /\ Verified!Says(r, FALSE)
  BY DEF Verified!StepTimesOut
<1>2. v1[r].at \in Verified!AtWork /\ v1[r].at \in Verified!Waiting
  BY <1>1 DEF Verified!AtWork, Verified!Waiting
<1>3. VerifiedTouches(v3, v3', r, SUBSET Verified!Waiting)
  BY <1>2, AbandonsIt DEF Verified!StepTimesOut
<1>4. /\ VerifiedTouches(v1, v1', r, VerifiedEntry)
      /\ VerifiedTouches(v6, v6', r, VerifiedVerdicts)
      /\ VerifiedTouches(v2, v2', r, Directories)
      /\ v1'[r].at \in { "returned", "test" }
      /\ v1'[r].at = "test" => v1[r].at = "lint"
      /\ v6'[r] = "pass" => v6[r] = "pass"
  BY <1>1, SaysWhat
<1> QED
  BY <1>1, <1>2, <1>3, <1>4, VerifiedTroubledStep

LEMMA TotalTimesOutStep ==
  ASSUME Verified!VerificationAssumption, Verified!IInv, NEW r \in Runs,
         Verified!TotalTimesOut(r) \/ Verified!CannotStart(r)
  PROVE  Verified!IInv'
<1>1. Verified!Trouble(r) /\ UNCHANGED << v4, v5, v7, v8 >>
      /\ v1[r].at \in Verified!Waiting \cup { "apply" }
  BY DEF Verified!TotalTimesOut, Verified!CannotStart, Verified!Waiting
<1>2. v1[r].at \in Verified!AtWork /\ { "fail", "raised" } \subseteq VerifiedVerdicts
      /\ "none" \in Directories /\ "returned" \in Points
  BY <1>1 DEF Verified!AtWork, VerifiedVerdicts, Directories, Points
<1>3. VerifiedTouches(v3, v3', r, SUBSET Verified!Waiting)
  <2>1. CASE v3' = v3
    BY <2>1, VerifiedUnmoved
  <2>2. CASE v3' # v3
    BY <1>1, <2>2, AbandonsIt DEF Verified!TotalTimesOut, Verified!CannotStart
  <2> QED
    BY <2>1, <2>2
<1>4. /\ v1'[r].at = "returned" /\ VerifiedTouches(v1, v1', r, VerifiedEntry)
      /\ v6'[r] # "pass" /\ VerifiedTouches(v6, v6', r, VerifiedVerdicts)
      /\ VerifiedTouches(v2, v2', r, Directories)
  <2>1. CASE Verified!Answers(r, "raised")
    BY <1>2, <2>1, AnswersWith
  <2>2. CASE ~Verified!Answers(r, "raised")
    <3>1. PICK answer \in { "fail", "raised" } :
            Verified!Goes(r, "returned") /\ v6' = [ v6 EXCEPT ![r] = answer ]
      BY <2>2 DEF Verified!TotalTimesOut, Verified!CannotStart
    <3>2. v2' = v2 \/ Verified!Holds(r, "none")
      BY <2>2 DEF Verified!TotalTimesOut, Verified!CannotStart
    <3>3. VerifiedTouches(v2, v2', r, Directories)
      BY <1>2, <3>2, HoldsWhat, VerifiedUnmoved
    <3>4. v6'[r] = answer /\ VerifiedTouches(v6, v6', r, VerifiedVerdicts)
      BY <1>2, <3>1, VerdictIs
    <3>5. v1'[r].at = "returned" /\ VerifiedTouches(v1, v1', r, VerifiedEntry)
      BY <1>2, <3>1, VerifiedMovesTo
    <3> QED
      BY <3>3, <3>4, <3>5
  <2> QED
    BY <2>1, <2>2
<1> QED
  BY <1>1, <1>2, <1>3, <1>4, VerifiedTroubledStep

\* The clone and the patch, and the look for Docker: nothing is left yet.
LEMMA PreparesStep ==
  ASSUME Verified!VerificationAssumption, Verified!IInv, NEW r \in Runs,
         Verified!Clones(r) \/ Verified!Applies(r) \/ Verified!FindsDocker(r)
  PROVE  Verified!IInv'
<1>1. /\ UNCHANGED << v3, v4, v5, v6, v7, v8, v9, v10 >>
      /\ v1[r].at \in { "clone", "clone_main", "apply", "docker" }
  BY DEF Verified!Clones, Verified!Applies, Verified!FindsDocker, Verified!Calm
<1>2. /\ v1[r].at \in Verified!AtWork
      /\ v1[r].at \in Verified!Waiting \cup { "apply", "docker", "create" }
      /\ { "apply", "docker", "create", "install" } \subseteq Points
      /\ { "branch", "main", "patched" } \subseteq Directories
  BY <1>1
  DEF Verified!AtWork, Verified!Waiting, Verified!InDocker, Verified!Steps, Points, Directories
<1>3. PICK to \in { "apply", "docker", "create", "install" } : Verified!Goes(r, to)
  BY DEF Verified!Clones, Verified!Applies, Verified!FindsDocker, Verified!Cloned
<1>4. v1'[r].at = to /\ VerifiedTouches(v1, v1', r, VerifiedEntry)
  BY <1>2, <1>3, VerifiedMovesTo
<1>5. VerifiedTouches(v2, v2', r, Directories)
  <2>1. v2' = v2 \/ \E what \in { "branch", "main", "patched" } : Verified!Holds(r, what)
    BY DEF Verified!Clones, Verified!Applies, Verified!FindsDocker
  <2> QED
    BY <1>2, <2>1, HoldsWhat, VerifiedUnmoved
<1>6. /\ VerifiedTouches(v3, v3', r, SUBSET Verified!Waiting)
      /\ VerifiedTouches(v4, v4', r, Containers)
      /\ VerifiedTouches(v6, v6', r, VerifiedVerdicts) /\ VerifiedTouches(v7, v7', r, Owners)
  BY <1>1, VerifiedUnmoved
<1>7. r \in Verified!Busy /\ v4[r] = Verified!NoContainer
  BY <1>2, Working
<1>8. /\ r \notin v9 => v3[r] = {}
      /\ r \notin v8 => (v6[r] = "pass" => v7[r] = r)
      /\ v4[r].result = "passed" => v7[r] = r
  BY DEF Verified!IInv, Verified!RunsOK, Verified!Tidy, Verified!OwnCode
<1>9. /\ v10' \in 0..MaxRemoteTroubles /\ v8' = v8 /\ v9' = v9
      /\ v5' = v5 /\ v3'[r] = v3[r] /\ v4'[r] = Verified!NoContainer
      /\ v6'[r] = v6[r] /\ v7'[r] = v7[r]
  BY <1>1, <1>7, Typed
<1>10. v1'[r].at \in { "apply", "docker", "create", "install" }
  BY <1>4
<1> QED
  BY <1>4, <1>5, <1>6, <1>7, <1>8, <1>9, <1>10, VerifiedRunStep

LEMMA StepFailsStep ==
  ASSUME Verified!VerificationAssumption, Verified!IInv, NEW r \in Runs, Verified!StepFails(r)
  PROVE  Verified!IInv'
<1>1. /\ UNCHANGED << v3, v4, v5, v7, v8, v9, v10 >>
      /\ v1[r].at \in Verified!Steps /\ Verified!Says(r, FALSE)
  BY DEF Verified!StepFails, Verified!Calm
<1>2. v1[r].at \in Verified!AtWork /\ v1[r].at \in Verified!Waiting
  BY <1>1 DEF Verified!AtWork, Verified!Waiting
<1>3. /\ VerifiedTouches(v1, v1', r, VerifiedEntry)
      /\ VerifiedTouches(v6, v6', r, VerifiedVerdicts)
      /\ VerifiedTouches(v2, v2', r, Directories)
      /\ v1'[r].at \in { "returned", "test" }
      /\ v1'[r].at = "test" => v1[r].at = "lint"
      /\ v1'[r].at = "returned" => v2'[r] = "none"
      /\ v6'[r] = "pass" => v6[r] = "pass"
  BY <1>1, SaysWhat
<1>4. /\ VerifiedTouches(v3, v3', r, SUBSET Verified!Waiting)
      /\ VerifiedTouches(v4, v4', r, Containers) /\ VerifiedTouches(v7, v7', r, Owners)
  BY <1>1, VerifiedUnmoved
<1>5. r \in Verified!Busy /\ v4[r] = Verified!NoContainer
  BY <1>2, Working
<1>6. /\ r \notin v9 => v3[r] = {}
      /\ r \notin v8 => (v6[r] = "pass" => v7[r] = r)
      /\ r \notin v8 => (v1[r].at = "lint" => v5 = r)
      /\ v4[r].result = "passed" => v7[r] = r
  BY DEF Verified!IInv, Verified!RunsOK, Verified!Tidy, Verified!OwnCode
<1>7. v10' \in 0..MaxRemoteTroubles
  BY <1>1, Typed
<1> QED
  BY <1>1, <1>3, <1>4, <1>5, <1>6, <1>7, VerifiedRunStep

\* The tests run with what is installed: its own code, if it is alone.
LEMMA StepPassesStep ==
  ASSUME Verified!VerificationAssumption, Verified!IInv, NEW r \in Runs, Verified!StepPasses(r)
  PROVE  Verified!IInv'
<1>1. /\ UNCHANGED << v3, v4, v8, v9, v10 >>
      /\ v1[r].at \in Verified!Steps /\ Verified!Says(r, TRUE)
  BY DEF Verified!StepPasses, Verified!Calm
<1>2. v1[r].at \in Verified!AtWork /\ v1[r].at \in Verified!Waiting
  BY <1>1 DEF Verified!AtWork, Verified!Waiting
<1>3. /\ VerifiedTouches(v1, v1', r, VerifiedEntry)
      /\ VerifiedTouches(v6, v6', r, VerifiedVerdicts)
      /\ VerifiedTouches(v2, v2', r, Directories)
      /\ v1'[r].at \in { "returned", "lint", "test" }
      /\ v1'[r].at = "lint" => v1[r].at = "install"
      /\ v1'[r].at = "test" => v1[r].at = "lint"
      /\ v1'[r].at = "returned" => v2'[r] = "none"
      /\ v6'[r] = "pass" => v6[r] = "pass" \/ v1[r].at = "test"
  BY <1>1, SaysWhat
<1>4. v5' = IF v1[r].at = "install" THEN r ELSE v5
  BY DEF Verified!StepPasses
<1>5. /\ VerifiedTouches(v7, v7', r, Owners)
      /\ v7'[r] = IF v1[r].at = "test" THEN v5 ELSE v7[r]
  BY Typed DEF Verified!StepPasses, VerifiedTouches
<1>6. /\ VerifiedTouches(v3, v3', r, SUBSET Verified!Waiting)
      /\ VerifiedTouches(v4, v4', r, Containers)
  BY <1>1, VerifiedUnmoved
<1>7. r \in Verified!Busy /\ v4[r] = Verified!NoContainer
  BY <1>2, Working
<1>8. /\ r \notin v9 => v3[r] = {}
      /\ r \notin v8 => (v6[r] = "pass" => v7[r] = r)
      /\ r \notin v8 => (v1[r].at \in { "lint", "test" } => v5 = r)
  BY DEF Verified!IInv, Verified!RunsOK, Verified!Tidy, Verified!OwnCode
<1>9. v10' \in 0..MaxRemoteTroubles /\ v4'[r].result # "passed"
  BY <1>1, <1>7, Typed DEF Verified!NoContainer
<1>10. v5' = v5 \/ v5' = r
  BY <1>4
<1>11. r \notin v8 => (v1'[r].at \in { "lint", "test" } => v5' = r)
  BY <1>3, <1>4, <1>8
<1>12. r \notin v8 => (v6'[r] = "pass" => v7'[r] = r)
  BY <1>3, <1>5, <1>8
<1> QED
  BY <1>1, <1>3, <1>5, <1>6, <1>7, <1>8, <1>9, <1>10, <1>11, <1>12, VerifiedRunStep

LEMMA OrphanEndsStep ==
  ASSUME Verified!VerificationAssumption, Verified!IInv, NEW r \in Runs, Verified!OrphanEnds(r)
  PROVE  Verified!IInv'
<1>1. UNCHANGED << v1, v2, v4, v6, v7, v8, v9, v10 >>
  BY DEF Verified!OrphanEnds, Verified!Calm
<1>2. PICK step \in v3[r] :
        /\ v3' = [ v3 EXCEPT ![r] = @ \ {step} ]
        /\ v5' = v5 \/ v5' = r
  BY DEF Verified!OrphanEnds
<1>3. (v5' = v5 \/ v5' = r) /\ v8' = v8 /\ v9' = v9
  BY <1>1, <1>2
<1>4. VerifiedTouches(v3, v3', r, SUBSET Verified!Waiting) /\ v3'[r] \subseteq v3[r]
  BY <1>2, Typed DEF VerifiedTouches
<1>5. /\ VerifiedTouches(v1, v1', r, VerifiedEntry) /\ VerifiedTouches(v2, v2', r, Directories)
      /\ VerifiedTouches(v4, v4', r, Containers)
      /\ VerifiedTouches(v6, v6', r, VerifiedVerdicts) /\ VerifiedTouches(v7, v7', r, Owners)
  BY <1>1, VerifiedUnmoved
<1>6. r \in Verified!Busy
  BY <1>2, Working
<1>7. Verified!Tidy(r) /\ Verified!OwnCode(r) /\ v10' \in 0..MaxRemoteTroubles
  BY <1>1, Typed DEF Verified!IInv, Verified!RunsOK
<1>8. /\ r \notin v9 =>
           /\ v3'[r] = {}
           /\ v4[r] # Verified!NoContainer
                => v1[r].at \in { "start", "wait", "collect", "remove" }
           /\ v1[r].at = "returned" => v2[r] = "none"
      /\ v4[r] # Verified!NoContainer =>
           v1[r].at \in { "start", "wait", "collect", "remove", "cleanup", "returned", "dead" }
      /\ v4[r].result = "passed" => v7[r] = r
      /\ r \notin v8 => (v1[r].at \in { "lint", "test" } => v5' = r)
      /\ r \notin v8 => (v6[r] = "pass" => v7[r] = r)
  BY <1>2, <1>4, <1>7 DEF Verified!Tidy, Verified!OwnCode
<1> QED
  BY <1>1, <1>4, <1>5, <1>6, <1>7, <1>8, <1>3, VerifiedRunStep

\* The container is asked for, awaited, and at last removed with the directory.
LEMMA ContainerMovesStep ==
  ASSUME Verified!VerificationAssumption, Verified!IInv, NEW r \in Runs,
         Verified!Launches(r) \/ Verified!Waited(r) \/ Verified!Collects(r) \/ Verified!Removes(r)
           \/ Verified!CleansUp(r)
  PROVE  Verified!IInv'
<1>1. /\ UNCHANGED << v3, v5, v7, v8, v9, v10 >>
      /\ v1[r].at \in { "create", "start", "wait", "collect", "remove", "cleanup" }
  BY DEF Verified!Launches, Verified!Waited, Verified!Collects, Verified!Removes,
         Verified!CleansUp, Verified!Calm
<1>2. v1[r].at \in Verified!AtWork
      /\ { "start", "wait", "collect", "remove", "cleanup", "returned" } \subseteq Points
      /\ "none" \in Directories /\ { "pass", "fail" } \subseteq VerifiedVerdicts
  BY <1>1 DEF Verified!AtWork, Verified!InDocker, Points, Directories, VerifiedVerdicts
<1>3. r \in Verified!Busy
  BY <1>2, Working
<1>4. /\ r \notin v9 =>
           /\ v3[r] = {}
           /\ v1[r].at = "cleanup" => v4[r] = Verified!NoContainer
      /\ v4[r].result = "passed" => v7[r] = r
      /\ r \notin v8 => (v6[r] = "pass" => v7[r] = r)
  BY DEF Verified!IInv, Verified!RunsOK, Verified!Tidy, Verified!OwnCode
<1>5. /\ VerifiedTouches(v3, v3', r, SUBSET Verified!Waiting)
      /\ VerifiedTouches(v7, v7', r, Owners)
      /\ v10' \in 0..MaxRemoteTroubles /\ v8' = v8 /\ v9' = v9
      /\ v5' = v5 /\ v7'[r] = v7[r] /\ v3'[r] = v3[r]
  BY <1>1, VerifiedUnmoved, Typed
<1>6. v4[r] \in Containers /\ Verified!NoContainer \in Containers
  BY Typed DEF Verified!NoContainer, Containers
<1>7. CASE Verified!Launches(r)
  <2>1. PICK to \in { "start", "wait" } :
          /\ Verified!Goes(r, to)
          /\ v4' = [ v4 EXCEPT ![r].at = IF to = "start" THEN "created" ELSE "running" ]
    BY <1>7 DEF Verified!Launches
  <2>2. v1'[r].at = to /\ VerifiedTouches(v1, v1', r, VerifiedEntry)
    BY <1>2, <2>1, VerifiedMovesTo
  <2>3. VerifiedTouches(v4, v4', r, Containers) /\ v4'[r].result = v4[r].result
    BY <2>1, Typed DEF VerifiedTouches, Containers
  <2>4. v2' = v2 /\ v6' = v6
    BY <1>7 DEF Verified!Launches
  <2>5. /\ VerifiedTouches(v2, v2', r, Directories)
        /\ VerifiedTouches(v6, v6', r, VerifiedVerdicts) /\ v6'[r] = v6[r]
    BY <2>4, VerifiedUnmoved
  <2>6. v1'[r].at \in { "start", "wait" }
    BY <2>2
  <2> QED
    BY <1>3, <1>4, <1>5, <2>2, <2>3, <2>5, <2>6, VerifiedRunStep
<1>8. CASE Verified!Waited(r)
  <2>1. Verified!Goes(r, "collect") /\ UNCHANGED << v2, v4, v6 >>
    BY <1>8 DEF Verified!Waited
  <2>2. v1'[r].at = "collect" /\ VerifiedTouches(v1, v1', r, VerifiedEntry)
    BY <1>2, <2>1, VerifiedMovesTo
  <2>3. /\ VerifiedTouches(v2, v2', r, Directories)
        /\ VerifiedTouches(v4, v4', r, Containers) /\ v4'[r] = v4[r]
        /\ VerifiedTouches(v6, v6', r, VerifiedVerdicts) /\ v6'[r] = v6[r]
    BY <2>1, VerifiedUnmoved
  <2> QED
    BY <1>3, <1>4, <1>5, <2>2, <2>3, VerifiedRunStep
<1>9. CASE Verified!Collects(r)
  <2>1. /\ Verified!Goes(r, "remove") /\ UNCHANGED << v2, v4 >>
        /\ v6' = [ v6 EXCEPT ![r] = Verified!Parsed(v4[r].result) ]
    BY <1>9 DEF Verified!Collects
  <2>2. v1'[r].at = "remove" /\ VerifiedTouches(v1, v1', r, VerifiedEntry)
    BY <1>2, <2>1, VerifiedMovesTo
  <2>3. /\ VerifiedTouches(v2, v2', r, Directories)
        /\ VerifiedTouches(v4, v4', r, Containers) /\ v4'[r] = v4[r]
    BY <2>1, VerifiedUnmoved
  <2>4. /\ Verified!Parsed(v4[r].result) \in VerifiedVerdicts
        /\ Verified!Parsed(v4[r].result) = "pass" => v4[r].result = "passed"
    BY <1>2 DEF Verified!Parsed
  <2>5. /\ VerifiedTouches(v6, v6', r, VerifiedVerdicts)
        /\ v6'[r] = "pass" => v4[r].result = "passed"
    BY <2>1, <2>4, VerdictIs
  <2> QED
    BY <1>3, <1>4, <1>5, <2>2, <2>3, <2>5, VerifiedRunStep
<1>10. CASE Verified!Removes(r)
  <2>1. /\ Verified!Goes(r, "cleanup") /\ UNCHANGED << v2, v6 >>
        /\ v4' = [ v4 EXCEPT ![r] = Verified!NoContainer ]
    BY <1>10 DEF Verified!Removes
  <2>2. v1'[r].at = "cleanup" /\ VerifiedTouches(v1, v1', r, VerifiedEntry)
    BY <1>2, <2>1, VerifiedMovesTo
  <2>3. /\ VerifiedTouches(v2, v2', r, Directories)
        /\ VerifiedTouches(v6, v6', r, VerifiedVerdicts) /\ v6'[r] = v6[r]
    BY <2>1, VerifiedUnmoved
  <2>4. /\ VerifiedTouches(v4, v4', r, Containers) /\ v4'[r] = Verified!NoContainer
        /\ v4'[r].result # "passed"
    BY <1>6, <2>1, Typed DEF VerifiedTouches, Verified!NoContainer
  <2> QED
    BY <1>3, <1>4, <1>5, <2>2, <2>3, <2>4, VerifiedRunStep
<1>11. CASE Verified!CleansUp(r)
  <2>1. Verified!Goes(r, "returned") /\ Verified!Holds(r, "none") /\ UNCHANGED << v4, v6 >>
        /\ v1[r].at = "cleanup"
    BY <1>11 DEF Verified!CleansUp
  <2>2. v1'[r].at = "returned" /\ VerifiedTouches(v1, v1', r, VerifiedEntry)
    BY <1>2, <2>1, VerifiedMovesTo
  <2>3. /\ VerifiedTouches(v4, v4', r, Containers) /\ v4'[r] = v4[r]
        /\ VerifiedTouches(v6, v6', r, VerifiedVerdicts) /\ v6'[r] = v6[r]
    BY <2>1, VerifiedUnmoved
  <2>4. v2'[r] = "none" /\ VerifiedTouches(v2, v2', r, Directories)
    BY <1>2, <2>1, HoldsWhat
  <2>5. r \notin v9 => v4[r] = Verified!NoContainer
    BY <1>4, <2>1
  <2> QED
    BY <1>3, <1>4, <1>5, <2>2, <2>3, <2>4, <2>5, VerifiedRunStep
<1> QED
  BY <1>7, <1>8, <1>9, <1>10, <1>11

\* What the container does by itself.
LEMMA ContainerWorksStep ==
  ASSUME Verified!VerificationAssumption, Verified!IInv, NEW r \in Runs,
         Verified!Reports(r) \/ Verified!Exits(r)
  PROVE  Verified!IInv'
<1>1. /\ UNCHANGED << v1, v2, v3, v5, v6, v8, v9, v10 >>
      /\ v4[r].at = "running"
  BY DEF Verified!Reports, Verified!Exits, Verified!Calm
<1>2. r \in Verified!Busy /\ v4[r] # Verified!NoContainer
  BY <1>1, Working
<1>3. PICK c \in Containers, owner \in Owners :
        /\ v4' = [ v4 EXCEPT ![r] = c ] /\ v7' = [ v7 EXCEPT ![r] = owner ]
        /\ \/ owner = r
           \/ owner = v7[r] /\ (c.result = "passed" => v4[r].result = "passed")
  <2>1. v4[r] \in Containers /\ v7[r] \in Owners
    BY Typed
  <2>2. ASSUME NEW result \in { "passed", "failed" },
               v4' = [ v4 EXCEPT ![r].result = result ],
               v7' = [ v7 EXCEPT ![r] = IF result = "passed" THEN r ELSE @ ]
        PROVE  \E c \in Containers, owner \in Owners :
                 /\ v4' = [ v4 EXCEPT ![r] = c ]
                 /\ v7' = [ v7 EXCEPT ![r] = owner ]
                 /\ \/ owner = r
                    \/ owner = v7[r] /\ (c.result = "passed" => v4[r].result = "passed")
    <3>1. /\ v4'[r] \in Containers /\ v4'[r].result = result
          /\ v4' = [ v4 EXCEPT ![r] = v4'[r] ]
      BY <2>1, <2>2, Typed DEF Containers
    <3>2. /\ v7'[r] \in Owners /\ v7' = [ v7 EXCEPT ![r] = v7'[r] ]
          /\ v7'[r] = IF result = "passed" THEN r ELSE v7[r]
      BY <2>1, <2>2, Typed DEF Owners
    <3> QED
      BY <3>1, <3>2
  <2>3. CASE Verified!Reports(r)
    BY <2>2, <2>3 DEF Verified!Reports
  <2>4. CASE Verified!Exits(r)
    <3>1. /\ v4'[r] \in Containers /\ v4'[r].result = v4[r].result
          /\ v4' = [ v4 EXCEPT ![r] = v4'[r] ]
      BY <2>1, <2>4, Typed DEF Verified!Exits, Containers
    <3>2. v7' = [ v7 EXCEPT ![r] = v7[r] ]
      BY <2>4, Typed DEF Verified!Exits
    <3> QED
      BY <2>1, <3>1, <3>2
  <2> QED
    BY <2>3, <2>4
<1>4. /\ v4'[r] = c /\ VerifiedTouches(v4, v4', r, Containers)
      /\ v7'[r] = owner /\ VerifiedTouches(v7, v7', r, Owners)
  BY <1>3, Typed DEF VerifiedTouches
<1>5. /\ VerifiedTouches(v1, v1', r, VerifiedEntry) /\ VerifiedTouches(v2, v2', r, Directories)
      /\ VerifiedTouches(v3, v3', r, SUBSET Verified!Waiting)
      /\ VerifiedTouches(v6, v6', r, VerifiedVerdicts)
  BY <1>1, VerifiedUnmoved
<1>6. Verified!Tidy(r) /\ Verified!OwnCode(r) /\ v10' \in 0..MaxRemoteTroubles
  BY <1>1, Typed DEF Verified!IInv, Verified!RunsOK
<1>7. /\ r \notin v9 =>
           /\ v3[r] = {}
           /\ v1[r].at \in { "start", "wait", "collect", "remove" }
           /\ v1[r].at = "returned" => v2[r] = "none"
      /\ v1[r].at \in { "start", "wait", "collect", "remove", "cleanup", "returned", "dead" }
      /\ c.result = "passed" => owner = r
      /\ r \notin v8 => (v1[r].at \in { "lint", "test" } => v5 = r)
      /\ r \notin v8 => (v6[r] = "pass" => owner = r)
  BY <1>2, <1>3, <1>6 DEF Verified!Tidy, Verified!OwnCode
<1>8. /\ v1' = v1 /\ v2' = v2 /\ v3' = v3 /\ v5' = v5
      /\ v6' = v6 /\ v8' = v8 /\ v9' = v9
  BY <1>1
<1> QED
  BY <1>2, <1>4, <1>5, <1>6, <1>7, <1>8, VerifiedRunStep

LEMMA DockerFailsStep ==
  ASSUME Verified!VerificationAssumption, Verified!IInv, NEW r \in Runs,
         Verified!DockerFails(r) \/ Verified!RemoveFails(r)
  PROVE  Verified!IInv'
<1>1. /\ UNCHANGED << v2, v3, v5, v7, v8 >> /\ Verified!Trouble(r)
      /\ v1[r].at \in { "create", "start", "wait", "collect", "remove" }
  BY DEF Verified!DockerFails, Verified!RemoveFails, Verified!InDocker
<1>2. v1[r].at \in Verified!AtWork /\ { "remove", "cleanup" } \subseteq Points
        /\ "fail" \in VerifiedVerdicts
  BY <1>1 DEF Verified!AtWork, Verified!InDocker, Points, VerifiedVerdicts
<1>3. PICK to \in { "remove", "cleanup" } : Verified!Goes(r, to)
  BY DEF Verified!DockerFails, Verified!RemoveFails
<1>4. v1'[r].at = to /\ VerifiedTouches(v1, v1', r, VerifiedEntry)
  BY <1>2, <1>3, VerifiedMovesTo
<1>5. VerifiedTouches(v6, v6', r, VerifiedVerdicts) /\ (v6'[r] = "pass" => v6[r] = "pass")
  <2>1. v6' = v6 \/ v6' = [ v6 EXCEPT ![r] = "fail" ]
    BY DEF Verified!DockerFails, Verified!RemoveFails
  <2> QED
    BY <1>2, <2>1, VerdictIs, VerifiedUnmoved
<1>6. VerifiedTouches(v4, v4', r, Containers) /\ v4'[r].result = v4[r].result
  <2>1. v4' = v4 \/ v4' = [ v4 EXCEPT ![r].at = "exited" ]
    BY DEF Verified!DockerFails, Verified!RemoveFails
  <2>2. v4' = [ v4 EXCEPT ![r].at = "exited" ] =>
          VerifiedTouches(v4, v4', r, Containers) /\ v4'[r].result = v4[r].result
    BY Typed DEF VerifiedTouches, Containers
  <2> QED
    BY <2>1, <2>2, VerifiedUnmoved
<1>7. /\ VerifiedTouches(v3, v3', r, SUBSET Verified!Waiting)
      /\ VerifiedTouches(v7, v7', r, Owners)
      /\ VerifiedTouches(v2, v2', r, Directories) /\ v7'[r] = v7[r]
  BY <1>1, VerifiedUnmoved
<1>8. /\ v10' \in 0..MaxRemoteTroubles /\ v9' = v9 \cup {r} /\ v8' = v8
      /\ v5' = v5
  BY <1>1, Typed DEF Verified!Trouble, Verified!VerificationAssumption
<1>9. r \in Verified!Busy /\ Verified!OwnCode(r)
  BY <1>2, Working DEF Verified!IInv, Verified!RunsOK
<1>10. /\ v4[r].result = "passed" => v7[r] = r
       /\ r \notin v8 => (v6[r] = "pass" => v7[r] = r)
  BY <1>9 DEF Verified!OwnCode
<1>11. v1'[r].at \in { "remove", "cleanup" } /\ r \in v9'
  BY <1>4, <1>8
<1> QED
  BY <1>4, <1>5, <1>6, <1>7, <1>8, <1>9, <1>10, <1>11, VerifiedRunStep

\* Whoever comes when others are there makes them all known to be in company.
LEMMA VerifiedAsksStep ==
  ASSUME Verified!VerificationAssumption, Verified!IInv, NEW r \in Runs,
         Verified!ActivityAsks(r) \/ Verified!AdministratorAsks(r)
  PROVE  Verified!IInv'
<1>1. PICK mode \in { "subprocess", "container" } : Verified!Asks(r, mode)
  BY DEF Verified!ActivityAsks, Verified!AdministratorAsks
<1>2. /\ UNCHANGED << v3, v4, v5, v6, v7, v9, v10 >>
      /\ v8' = IF Verified!Busy = {} THEN v8 ELSE v8 \cup Verified!Busy \cup {r}
      /\ v1[r].at = "idle" /\ Verified!Holds(r, "empty")
  BY <1>1 DEF Verified!Asks, Verified!Calm
<1>3. /\ v1'[r] = [ at |-> "clone", mode |-> mode, said |-> v1[r].said ]
      /\ v1' = [ v1 EXCEPT ![r] = v1'[r] ] /\ v1'[r] \in VerifiedEntry
  <2>1. v1' = [ v1 EXCEPT ![r].at = "clone", ![r].mode = mode ]
    BY <1>1 DEF Verified!Asks
  <2>2. "clone" \in Points
    BY DEF Points, Verified!AtWork, Verified!Waiting
  <2> QED
    BY <2>1, <2>2, Typed DEF VerifiedEntry
<1>4. v2'[r] = "empty" /\ VerifiedTouches(v2, v2', r, Directories)
  BY <1>2, HoldsWhat DEF Directories
<1>5. \A s \in Runs : s # r => v1'[s] = v1[s] /\ v2'[s] = v2[s]
  BY <1>3, <1>4, Typed DEF VerifiedTouches
<1>6. Verified!TypeOK'
  <2>1. v1' \in [ Runs -> VerifiedEntry ] /\ v2' \in [ Runs -> Directories ]
    BY <1>3, <1>4, Typed DEF VerifiedTouches
  <2>2. v8' \subseteq Runs
    BY <1>2, Typed DEF Verified!Busy
  <2> QED
    BY <1>2, <2>1, <2>2, Typed, TypedAgain
<1>7. Verified!Busy' \subseteq Verified!Busy \cup {r} /\ v8 \subseteq v8'
  BY <1>2, <1>5 DEF Verified!Busy
<1>8. Verified!CompanyOK'
  <2> SUFFICES ASSUME NEW s \in Verified!Busy', NEW q \in Verified!Busy', s # q PROVE s \in v8'
    BY DEF Verified!CompanyOK
  <2>1. CASE s = r \/ q = r
    <3>1. Verified!Busy # {}
      BY <1>7, <2>1
    <3> QED
      BY <1>2, <1>7, <3>1
  <2>2. CASE s # r /\ q # r
    BY <1>7, <2>2 DEF Verified!IInv, Verified!CompanyOK
  <2> QED
    BY <2>1, <2>2
<1>9. ASSUME NEW s \in Runs PROVE (Verified!Tidy(s) /\ Verified!OwnCode(s))'
  <2>1. Verified!Tidy(s) /\ Verified!OwnCode(s)
    BY DEF Verified!IInv, Verified!RunsOK
  <2>2. CASE s = r
    BY <1>2, <1>3, <2>1, <2>2, <1>7 DEF Verified!Tidy, Verified!OwnCode
  <2>3. CASE s # r
    BY <1>2, <1>5, <1>7, <2>1, <2>3 DEF Verified!Tidy, Verified!OwnCode
  <2> QED
    BY <2>2, <2>3
<1>10. Verified!RunsOK'
  BY <1>9 DEF Verified!RunsOK
<1> QED
  BY <1>6, <1>8, <1>10 DEF Verified!IInv

LEMMA WorkerDiesStep ==
  ASSUME Verified!VerificationAssumption, Verified!IInv, Verified!WorkerDies
  PROVE  Verified!IInv'
<1>1. /\ UNCHANGED << v2, v4, v5, v7, v8 >>
      /\ v9' = v9 \cup { r \in Runs : v1[r].at \in Verified!AtWork }
      /\ v3' = [ r \in Runs |-> {} ]
      /\ v10' \in 0..MaxRemoteTroubles
  BY Typed DEF Verified!WorkerDies, Verified!VerificationAssumption
<1>2. ASSUME NEW r \in Runs
      PROVE  /\ v1'[r] \in VerifiedEntry
             /\ v1'[r].at = IF v1[r].at \in Verified!AtWork THEN "dead" ELSE v1[r].at
             /\ v6'[r] = IF v1[r].at \in Verified!AtWork THEN "none" ELSE v6[r]
  <2>1. /\ v1'[r] = IF v1[r].at \in Verified!AtWork THEN [ v1[r] EXCEPT !.at = "dead" ] ELSE v1[r]
        /\ v6'[r] = IF v1[r].at \in Verified!AtWork THEN "none" ELSE v6[r]
    BY DEF Verified!WorkerDies
  <2>2. v1[r] \in VerifiedEntry /\ "dead" \in Points
    BY Typed DEF Points
  <2> QED
    BY <2>1, <2>2 DEF VerifiedEntry
<1>3. Verified!TypeOK'
  <2>1. v1' \in [ Runs -> VerifiedEntry ]
    BY <1>2 DEF Verified!WorkerDies
  <2>2. v6' \in [ Runs -> VerifiedVerdicts ]
    BY Typed DEF Verified!WorkerDies, VerifiedVerdicts
  <2>3. v3' \in [ Runs -> SUBSET Verified!Waiting ] /\ v9' \subseteq Runs
    BY <1>1, Typed
  <2> QED
    BY <1>1, <2>1, <2>2, <2>3, Typed, TypedAgain
<1>4. "dead" \notin Verified!AtWork
  BY DEF Verified!AtWork, Verified!Waiting, Verified!Steps, Verified!InDocker
<1>5. Verified!CompanyOK'
  <2>1. Verified!Busy' \subseteq Verified!Busy
    BY <1>1, <1>2, <1>4 DEF Verified!Busy
  <2> QED
    BY <1>1, <2>1 DEF Verified!IInv, Verified!CompanyOK
<1>6. ASSUME NEW r \in Runs PROVE (Verified!Tidy(r) /\ Verified!OwnCode(r))'
  <2>1. Verified!Tidy(r) /\ Verified!OwnCode(r)
    BY DEF Verified!IInv, Verified!RunsOK
  <2>2. Verified!Tidy(r)'
    BY <1>1, <1>2, <2>1 DEF Verified!Tidy
  <2>3. Verified!OwnCode(r)'
    BY <1>1, <1>2, <2>1 DEF Verified!OwnCode
  <2> QED
    BY <2>2, <2>3
<1> QED
  BY <1>3, <1>5, <1>6 DEF Verified!IInv, Verified!RunsOK

LEMMA VerifiedInvNext ==
  ASSUME Verified!VerificationAssumption, Verified!IInv, [Verified!Next]_Verified!vars
  PROVE  Verified!IInv'
<1>1. CASE UNCHANGED Verified!vars
  <2>1. Verified!Busy' = Verified!Busy
    BY <1>1 DEF Verified!vars, Verified!Busy
  <2> QED
    BY <1>1, <2>1
    DEF Verified!vars, Verified!IInv, Verified!TypeOK, Verified!RunsOK, Verified!Tidy,
        Verified!OwnCode, Verified!CompanyOK
<1> QED
  BY <1>1, CloneStep, StepTimesOutStep, TotalTimesOutStep, PreparesStep, StepFailsStep,
     StepPassesStep, OrphanEndsStep, ContainerMovesStep, ContainerWorksStep, DockerFailsStep,
     VerifiedAsksStep, WorkerDiesStep DEF Verified!Next

LEMMA VerifiedSteps ==
  ASSUME focus = "verified", [Next]_v
  PROVE  focus' = "verified" /\ [Verified!Next]_Verified!vars
  BY DEF Next, v, Verified!vars, Kept10

LEMMA VerifiedInvariant == Spec => [](focus = "verified" => Verified!IInv)
<1> DEFINE Inv == focus = "verified" => Verified!IInv
<1>1. Init => Inv
  BY VerifiedAssumption, VerifiedInvInit DEF Init
<1>2. Inv /\ [Next]_v => Inv'
  BY VerifiedAssumption, VerifiedInvNext, VerifiedSteps, FocusStays
<1> QED
  BY <1>1, <1>2, PTL DEF Spec

(***************************************************************************)
(* Revision: Attempts that push files to a branch.  What an attempt took   *)
(* for pushed stays there, and the checks of a clone have seen all of it   *)
(* but what people removed. The variables: v1 stage, v2 attempt, v3        *)
(* current, v4 tries, v5 loopbacks, v6 tip, v7 reported, v8 remote, v9     *)
(* seen, v10 check, v11 faults, v12 removed.                               *)
(***************************************************************************)

\* What is known of one attempt.
BranchEntry == [ at : { "unused", "run", "put", "raised", "over" }, todo : SUBSET Paths,
           pushed : SUBSET Paths, path : SUBSET Paths, sha : Branch!Attempts \cup {Branch!None} ]

\* g is f with another value of the set S for one attempt or file.
BranchTouches(f, g, a, S) == g = [ f EXCEPT ![a] = g[a] ] /\ g[a] \in S

\* Every attempt of every implementation has a number of its own below the bound.
LEMMA AttemptsSuffice ==
  ASSUME Branch!RevisionAssumption, Branch!TypeOK, v4 < ImplementTries
  PROVE  v5 * ImplementTries + v4 + 1 \in Branch!Attempts
<1>1. ImplementTries \in Nat /\ MaxLoopbacks \in Nat /\ v5 \in Nat /\ v4 \in Nat
      /\ v5 <= MaxLoopbacks
  BY DEF Branch!RevisionAssumption, Branch!TypeOK
<1>2. PICK d \in Nat : MaxLoopbacks = v5 + d
  <2>1. MaxLoopbacks - v5 \in Nat /\ MaxLoopbacks = v5 + (MaxLoopbacks - v5)
    BY <1>1
  <2> QED
    BY <2>1
<1>3. ImplementTries * (MaxLoopbacks + 1)
        = v5 * ImplementTries + d * ImplementTries + ImplementTries
  BY <1>1, <1>2
<1>4. d * ImplementTries \in Nat /\ v5 * ImplementTries \in Nat
  BY <1>1, <1>2
<1> DEFINE x == d * ImplementTries
           y == v5 * ImplementTries
<1> HIDE DEF x, y
<1>5. x \in Nat /\ y \in Nat /\ ImplementTries * (MaxLoopbacks + 1) = y + x + ImplementTries
  BY <1>3, <1>4 DEF x, y
<1>6. y + v4 + 1 \in 1..(ImplementTries * (MaxLoopbacks + 1))
  BY <1>1, <1>5
<1> QED
  BY <1>6 DEF Branch!Attempts, y

LEMMA BranchInvInit == ASSUME Branch!RevisionAssumption, Branch!Init PROVE Branch!IInv
<1>1. Branch!Unchanged \in Branch!Contents /\ \A p \in Paths : Branch!Unchanged[p] # Branch!Gone
  BY DEF Branch!Unchanged, Branch!Contents, Branch!None, Branch!Gone
<1> QED
  BY <1>1
  DEF Branch!Init, Branch!Empty, Branch!IInv, Branch!TypeOK, Branch!PushedIsThere,
      Branch!ReportedIsThere, Branch!SomethingReported,
     Branch!GoneIsRemoved, Branch!SeenIsReported, Branch!AtHand, Branch!RevisionAssumption

\* A step of one attempt that reports nothing keeps the invariant, if the files it
\* takes for pushed are on the branch, and the workflow goes on, if at all, outside
\* of what looks at the files.
LEMMA BranchAttemptStep ==
  ASSUME Branch!RevisionAssumption, Branch!IInv, NEW a \in Branch!Attempts,
         BranchTouches(v2, v2', a, BranchEntry), v6' \in Branch!Contents,
         \A p \in Paths : v6[p] # Branch!None => v6'[p] # Branch!None,
         \A p \in Paths : v6'[p] = Branch!Gone => v6[p] = Branch!Gone,
         v2'[a].pushed \subseteq Branch!OnBranch',
         UNCHANGED << v4, v5, v8, v9, v10, v12 >>,
         v11' \in 0..MaxFaults, v3' \in Branch!Attempts \cup {Branch!None},
         \/ UNCHANGED << v1, v7 >>
         \/ /\ v1' \in { "implement", "failed", "verify" }
            /\ v7' \subseteq Branch!OnBranch' /\ v7' \subseteq Paths
  PROVE  Branch!IInv'
<1>1. \A b \in Branch!Attempts : b # a => v2'[b] = v2[b]
  BY DEF BranchTouches, Branch!IInv, Branch!TypeOK
<1>2. Branch!OnBranch \subseteq Branch!OnBranch'
  BY DEF Branch!OnBranch
<1>3. v2' \in [ Branch!Attempts -> BranchEntry ]
  BY DEF BranchTouches, Branch!IInv, Branch!TypeOK, BranchEntry
<1>4. Branch!TypeOK'
  BY <1>3 DEF Branch!IInv, Branch!TypeOK, BranchEntry, Branch!Contents
<1>5. Branch!PushedIsThere'
  BY <1>1, <1>2 DEF Branch!IInv, Branch!PushedIsThere
<1>6. Branch!ReportedIsThere'
  BY <1>2 DEF Branch!IInv, Branch!ReportedIsThere
<1>7. Branch!SomethingReported' /\ Branch!SeenIsReported' /\ Branch!GoneIsRemoved'
  BY DEF Branch!IInv, Branch!SomethingReported, Branch!SeenIsReported, Branch!GoneIsRemoved,
         Branch!AtHand
<1> QED
  BY <1>4, <1>5, <1>6, <1>7 DEF Branch!IInv

\* What the other steps have in common: a step of the workflow, which no attempt
\* and no file of the branch takes part in.
LEMMA WorkflowStep ==
  ASSUME Branch!RevisionAssumption, Branch!IInv, UNCHANGED << v2, v6, v7, v8, v12 >>,
         v1' \in { "implement", "verify", "checks", "qa", "publish", "failed" },
         v3' \in Branch!Attempts \cup {Branch!None}, v4' \in 0..ImplementTries,
         v5' \in 0..MaxLoopbacks,
         v9' \in Branch!Contents, v10' \in { "none", "files_exist", "remote" },
         v11' \in 0..MaxFaults, Branch!SomethingReported', Branch!SeenIsReported'
  PROVE  Branch!IInv'
<1>1. Branch!OnBranch' = Branch!OnBranch
  BY DEF Branch!OnBranch
<1>2. Branch!TypeOK'
  BY DEF Branch!IInv, Branch!TypeOK, Branch!Contents
<1>3. Branch!PushedIsThere' /\ Branch!ReportedIsThere' /\ Branch!GoneIsRemoved'
  BY <1>1 DEF Branch!IInv, Branch!PushedIsThere, Branch!ReportedIsThere, Branch!GoneIsRemoved
<1> QED
  BY <1>2, <1>3 DEF Branch!IInv

LEMMA FaultStep == ASSUME Branch!RevisionAssumption, Branch!IInv
  PROVE  (Branch!Fault \/ UNCHANGED v11) => v11' \in 0..MaxFaults
  BY DEF Branch!Fault, Branch!IInv, Branch!TypeOK, Branch!RevisionAssumption

LEMMA BranchStartsStep ==
  ASSUME Branch!RevisionAssumption, Branch!IInv, NEW files \in SUBSET Paths, Branch!Starts(files)
  PROVE  Branch!IInv'
<1> DEFINE a == v5 * ImplementTries + v4 + 1
<1>1. a \in Branch!Attempts
  BY AttemptsSuffice DEF Branch!Starts, Branch!IInv
<1>2. /\ v2' = [ v2 EXCEPT ![a].at = "run", ![a].todo = files ] /\ v3' = a
      /\ v4' = v4 + 1 /\ v4 < ImplementTries
      /\ UNCHANGED << v1, v5, v6, v7, v8, v9, v10, v11, v12 >>
  BY DEF Branch!Starts
<1> HIDE DEF a
<1>3. /\ v2'[a] = [ at |-> "run", todo |-> files, pushed |-> v2[a].pushed,
                         path |-> v2[a].path, sha |-> v2[a].sha ]
      /\ v2' = [ v2 EXCEPT ![a] = v2'[a] ]
      /\ v2[a] \in BranchEntry
  BY <1>1, <1>2 DEF Branch!IInv, Branch!TypeOK, BranchEntry
<1>4. v2'[a] \in BranchEntry
  BY <1>1, <1>3 DEF BranchEntry
<1>5. \A b \in Branch!Attempts : v2'[b].pushed = v2[b].pushed
  BY <1>1, <1>3 DEF Branch!IInv, Branch!TypeOK, Branch!Contents
<1>6. v2' \in [ Branch!Attempts -> BranchEntry ]
  BY <1>1, <1>3, <1>4 DEF Branch!IInv, Branch!TypeOK, BranchEntry
<1>7. v4' \in 0..ImplementTries
  BY <1>2 DEF Branch!IInv, Branch!TypeOK, Branch!RevisionAssumption
<1>8. Branch!TypeOK'
  BY <1>1, <1>2, <1>6, <1>7 DEF Branch!IInv, Branch!TypeOK, BranchEntry, Branch!Contents
<1>9. Branch!OnBranch' = Branch!OnBranch
  BY <1>2 DEF Branch!OnBranch
<1>10. /\ Branch!PushedIsThere' /\ Branch!ReportedIsThere' /\ Branch!GoneIsRemoved'
       /\ Branch!SomethingReported' /\ Branch!SeenIsReported'
  BY <1>2, <1>5, <1>9
  DEF Branch!IInv, Branch!GoneIsRemoved, Branch!PushedIsThere, Branch!ReportedIsThere,
      Branch!SomethingReported, Branch!SeenIsReported, Branch!AtHand
<1> QED
  BY <1>8, <1>10 DEF Branch!IInv

LEMMA ReadsStep ==
  ASSUME Branch!RevisionAssumption, Branch!IInv, NEW a \in Branch!Attempts, NEW p \in Paths,
         Branch!Reads(a, p)
  PROVE  Branch!IInv'
<1>1. v6[p] \in Branch!Attempts \cup { Branch!None, Branch!Gone } /\ v2[a] \in BranchEntry
  BY DEF Branch!IInv, Branch!TypeOK, Branch!Contents, BranchEntry
<1>2. /\ v2'[a] = [ at |-> "put", todo |-> v2[a].todo, pushed |-> v2[a].pushed,
                         path |-> {p},
                         sha |-> IF v6[p] = Branch!Gone THEN Branch!None ELSE v6[p] ]
      /\ v2' = [ v2 EXCEPT ![a] = v2'[a] ]
  BY DEF Branch!Reads, Branch!IInv, Branch!TypeOK
<1>3. v2'[a] \in BranchEntry
  BY <1>1, <1>2 DEF BranchEntry
<1>4. BranchTouches(v2, v2', a, BranchEntry)
  BY <1>2, <1>3 DEF BranchTouches
<1>5. /\ UNCHANGED << v1, v7 >> /\ UNCHANGED << v4, v5, v8, v9, v10, v12 >>
      /\ UNCHANGED << v3, v6, v11 >>
  BY DEF Branch!Reads
<1>6. /\ v6' \in Branch!Contents /\ v11' \in 0..MaxFaults
      /\ v3' \in Branch!Attempts \cup {Branch!None}
      /\ Branch!OnBranch' = Branch!OnBranch
  BY <1>5 DEF Branch!IInv, Branch!TypeOK, Branch!Contents, Branch!OnBranch
<1>7. v2'[a].pushed \subseteq Branch!OnBranch'
  BY <1>2, <1>6 DEF Branch!IInv, Branch!PushedIsThere
<1> QED
  BY <1>4, <1>5, <1>6, <1>7, BranchAttemptStep

\* A file that an attempt has put is on the branch, and what was there still is.
LEMMA PutIsThere ==
  ASSUME Branch!IInv, NEW a \in Branch!Attempts, NEW p \in Paths, v6' = [ v6 EXCEPT ![p] = a ]
  PROVE  /\ v6' \in Branch!Contents /\ v6'[p] # Branch!None
         /\ \A q \in Paths : v6[q] # Branch!None => v6'[q] # Branch!None
         /\ \A q \in Paths : v6'[q] = Branch!Gone => v6[q] = Branch!Gone
<1>1. v6 \in Branch!Contents /\ a # Branch!None /\ a # Branch!Gone
  BY DEF Branch!IInv, Branch!TypeOK, Branch!Attempts, Branch!None, Branch!Gone
<1> QED
  BY <1>1 DEF Branch!Contents

\* An attempt that ends has no files in hand.
LEMMA Ends ==
  ASSUME Branch!IInv, NEW a \in Branch!Attempts, NEW to \in { "raised", "over" },
         v2' = [ v2 EXCEPT ![a] = Branch!Empty(to) ]
  PROVE  BranchTouches(v2, v2', a, BranchEntry) /\ v2'[a].pushed = {}
<1>1. v2'[a] = Branch!Empty(to) /\ v2' = [ v2 EXCEPT ![a] = v2'[a] ]
  BY DEF Branch!IInv, Branch!TypeOK
<1>2. Branch!Empty(to) \in BranchEntry
  BY DEF Branch!Empty, BranchEntry
<1> QED
  BY <1>1, <1>2 DEF BranchTouches, Branch!Empty

LEMMA PutsStep ==
  ASSUME Branch!RevisionAssumption, Branch!IInv, NEW a \in Branch!Attempts, Branch!Puts(a)
  PROVE  Branch!IInv'
<1>1. PICK p \in v2[a].path :
         \/ /\ v6' = [ v6 EXCEPT ![p] = a ]
            /\ v2' = [ v2 EXCEPT ![a].at = "run", ![a].todo = @ \ {p},
                                           ![a].pushed = @ \cup {p}, ![a].path = {},
                                           ![a].sha = Branch!None ]
         \/ /\ v2' = [ v2 EXCEPT ![a] = Branch!Empty("raised") ]
            /\ UNCHANGED v6
  BY DEF Branch!Puts
<1>2. v2[a] \in BranchEntry /\ p \in Paths /\ v6 \in Branch!Contents
  BY DEF Branch!IInv, Branch!TypeOK, BranchEntry
<1>3. /\ UNCHANGED << v1, v7 >> /\ UNCHANGED << v4, v5, v8, v9, v10, v12 >>
      /\ UNCHANGED << v3, v11 >>
  BY DEF Branch!Puts
<1>4. v11' \in 0..MaxFaults /\ v3' \in Branch!Attempts \cup {Branch!None}
  BY <1>3 DEF Branch!IInv, Branch!TypeOK
<1>5. CASE /\ v6' = [ v6 EXCEPT ![p] = a ]
           /\ v2' = [ v2 EXCEPT ![a].at = "run", ![a].todo = @ \ {p},
                                          ![a].pushed = @ \cup {p}, ![a].path = {},
                                          ![a].sha = Branch!None ]
  <2>1. /\ v6' \in Branch!Contents /\ v6'[p] # Branch!None
        /\ \A q \in Paths : v6[q] # Branch!None => v6'[q] # Branch!None
        /\ \A q \in Paths : v6'[q] = Branch!Gone => v6[q] = Branch!Gone
    BY <1>2, <1>5, PutIsThere
  <2>2. /\ v2'[a] = [ at |-> "run", todo |-> v2[a].todo \ {p},
                           pushed |-> v2[a].pushed \cup {p}, path |-> {}, sha |-> Branch!None ]
        /\ v2' = [ v2 EXCEPT ![a] = v2'[a] ]
    BY <1>5 DEF Branch!IInv, Branch!TypeOK
  <2>3. v2'[a] \in BranchEntry
    BY <1>2, <2>2 DEF BranchEntry
  <2>4. BranchTouches(v2, v2', a, BranchEntry)
    BY <2>2, <2>3 DEF BranchTouches
  <2>5. Branch!OnBranch \subseteq Branch!OnBranch' /\ p \in Branch!OnBranch'
    BY <1>2, <2>1 DEF Branch!OnBranch
  <2>6. v2'[a].pushed \subseteq Branch!OnBranch'
    BY <2>2, <2>5 DEF Branch!IInv, Branch!PushedIsThere
  <2> QED
    BY <1>3, <1>4, <2>1, <2>4, <2>6, BranchAttemptStep
<1>6. CASE v2' = [ v2 EXCEPT ![a] = Branch!Empty("raised") ] /\ UNCHANGED v6
  <2>1. BranchTouches(v2, v2', a, BranchEntry) /\ v2'[a].pushed = {}
    BY <1>6, Ends
  <2>2. v6' \in Branch!Contents /\ v2'[a].pushed \subseteq Branch!OnBranch'
    BY <1>2, <1>6, <2>1
  <2>3. \A q \in Paths :
          (v6[q] # Branch!None => v6'[q] # Branch!None)
            /\ (v6'[q] = Branch!Gone => v6[q] = Branch!Gone)
    BY <1>6
  <2> QED
    BY <1>3, <1>4, <2>1, <2>2, <2>3, BranchAttemptStep
<1> QED
  BY <1>1, <1>5, <1>6

LEMMA CallFailsStep ==
  ASSUME Branch!RevisionAssumption, Branch!IInv, NEW a \in Branch!Attempts, Branch!CallFails(a)
  PROVE  Branch!IInv'
<1>1. BranchTouches(v2, v2', a, BranchEntry) /\ v2'[a].pushed = {}
  BY Ends DEF Branch!CallFails
<1>2. /\ v6' \in Branch!Contents /\ \A q \in Paths : v6[q] # Branch!None => v6'[q] # Branch!None
      /\ \A q \in Paths : v6'[q] = Branch!Gone => v6[q] = Branch!Gone
  <2>1. v6 \in Branch!Contents /\ v2[a].path \subseteq Paths
    BY DEF Branch!IInv, Branch!TypeOK
  <2>2. CASE UNCHANGED v6
    BY <2>1, <2>2
  <2>3. CASE \E p \in v2[a].path : v6' = [ v6 EXCEPT ![p] = a ]
    BY <2>1, <2>3, PutIsThere
  <2> QED
    BY <2>2, <2>3 DEF Branch!CallFails
<1>3. /\ UNCHANGED << v1, v7 >> /\ UNCHANGED << v4, v5, v8, v9, v10, v12 >>
      /\ UNCHANGED v3
  BY DEF Branch!CallFails
<1>4. v11' \in 0..MaxFaults /\ v3' \in Branch!Attempts \cup {Branch!None}
  BY <1>3, FaultStep DEF Branch!CallFails, Branch!IInv, Branch!TypeOK
<1>5. v2'[a].pushed \subseteq Branch!OnBranch'
  BY <1>1, <1>2 DEF Branch!IInv, Branch!PushedIsThere, Branch!OnBranch
<1> QED
  BY <1>1, <1>2, <1>3, <1>4, <1>5, BranchAttemptStep

LEMMA BranchReturnsStep ==
  ASSUME Branch!RevisionAssumption, Branch!IInv, NEW a \in Branch!Attempts, Branch!Returns(a)
  PROVE  Branch!IInv'
<1>1. BranchTouches(v2, v2', a, BranchEntry) /\ v2'[a].pushed = {}
  BY Ends DEF Branch!Returns
<1>2. UNCHANGED << v4, v5, v6, v8, v9, v10, v11, v12 >>
  BY DEF Branch!Returns
<1>3. /\ v6' \in Branch!Contents /\ v11' \in 0..MaxFaults /\ Branch!OnBranch' = Branch!OnBranch
      /\ \A q \in Paths : v6[q] # Branch!None => v6'[q] # Branch!None
      /\ \A q \in Paths : v6'[q] = Branch!Gone => v6[q] = Branch!Gone
  BY <1>2 DEF Branch!IInv, Branch!TypeOK, Branch!OnBranch
<1>4. v2'[a].pushed \subseteq Branch!OnBranch'
  BY <1>1, <1>3 DEF Branch!IInv, Branch!PushedIsThere
<1>5. v3' \in Branch!Attempts \cup {Branch!None}
  BY DEF Branch!Returns, Branch!IInv, Branch!TypeOK
<1>6. \/ UNCHANGED << v1, v7 >>
      \/ /\ v1' \in { "implement", "failed", "verify" }
         /\ v7' \subseteq Branch!OnBranch' /\ v7' \subseteq Paths
  <2>1. v2[a].pushed \subseteq Paths /\ v2[a].pushed \subseteq Branch!OnBranch
    BY DEF Branch!IInv, Branch!TypeOK, Branch!PushedIsThere
  <2> QED
    BY <1>3, <2>1 DEF Branch!Returns
<1>7. UNCHANGED << v4, v5, v8, v9, v10, v12 >>
  BY <1>2
<1> QED
  BY <1>1, <1>3, <1>4, <1>5, <1>6, <1>7, BranchAttemptStep

LEMMA RaisesStep ==
  ASSUME Branch!RevisionAssumption, Branch!IInv, NEW a \in Branch!Attempts,
         Branch!Raises(a) \/ Branch!Cancelled(a)
  PROVE  Branch!IInv'
<1>1. BranchTouches(v2, v2', a, BranchEntry) /\ v2'[a].pushed = {}
  BY Ends DEF Branch!Raises, Branch!Cancelled
<1>2. UNCHANGED << v4, v5, v6, v7, v8, v9, v10, v11, v12 >>
  BY DEF Branch!Raises, Branch!Cancelled
<1>3. /\ v6' \in Branch!Contents /\ v11' \in 0..MaxFaults /\ Branch!OnBranch' = Branch!OnBranch
      /\ \A q \in Paths : v6[q] # Branch!None => v6'[q] # Branch!None
      /\ \A q \in Paths : v6'[q] = Branch!Gone => v6[q] = Branch!Gone
  BY <1>2 DEF Branch!IInv, Branch!TypeOK, Branch!OnBranch
<1>4. v2'[a].pushed \subseteq Branch!OnBranch'
  BY <1>1, <1>3 DEF Branch!IInv, Branch!PushedIsThere
<1>5. v3' \in Branch!Attempts \cup {Branch!None}
  BY DEF Branch!Raises, Branch!Cancelled, Branch!GivesUp, Branch!IInv, Branch!TypeOK
<1>6. \/ UNCHANGED << v1, v7 >>
      \/ /\ v1' \in { "implement", "failed", "verify" }
         /\ v7' \subseteq Branch!OnBranch' /\ v7' \subseteq Paths
  BY <1>2, <1>3
  DEF Branch!Raises, Branch!Cancelled, Branch!GivesUp, Branch!IInv, Branch!ReportedIsThere,
      Branch!TypeOK
<1>7. UNCHANGED << v4, v5, v8, v9, v10, v12 >>
  BY <1>2
<1> QED
  BY <1>1, <1>3, <1>4, <1>5, <1>6, <1>7, BranchAttemptStep

\* A file that was removed was there: what is said of the branch allows for it.
LEMMA BranchRemovesStep ==
  ASSUME Branch!RevisionAssumption, Branch!IInv, NEW p \in Paths, Branch!SomeoneRemoves(p)
  PROVE  Branch!IInv'
<1>1. /\ v6 \in Branch!Contents /\ v6[p] \in Branch!Attempts
      /\ v6' = [ v6 EXCEPT ![p] = Branch!Gone ]
      /\ v12 \subseteq Paths /\ v12' = v12 \cup {p}
  BY DEF Branch!SomeoneRemoves, Branch!IInv, Branch!TypeOK
<1>2. v6' \in Branch!Contents /\ Branch!OnBranch' = Branch!OnBranch
  <2>1. Branch!Gone # Branch!None /\ v6[p] # Branch!None
    BY <1>1 DEF Branch!Gone, Branch!None, Branch!Attempts
  <2> QED
    BY <1>1, <2>1 DEF Branch!Contents, Branch!OnBranch
<1>3. UNCHANGED << v1, v2, v3, v4, v5, v7, v8, v9, v10, v11 >>
  BY DEF Branch!SomeoneRemoves
<1>4. Branch!TypeOK'
  BY <1>1, <1>2, <1>3 DEF Branch!IInv, Branch!TypeOK, Branch!Contents
<1>5. Branch!GoneIsRemoved'
  BY <1>1 DEF Branch!IInv, Branch!GoneIsRemoved, Branch!Contents
<1>6. Branch!PushedIsThere' /\ Branch!ReportedIsThere' /\ Branch!SomethingReported'
  BY <1>2, <1>3
  DEF Branch!IInv, Branch!PushedIsThere, Branch!ReportedIsThere, Branch!SomethingReported,
      Branch!AtHand
<1>7. Branch!SeenIsReported'
  BY <1>1, <1>3 DEF Branch!IInv, Branch!SeenIsReported, Branch!AtHand, Branch!Contents
<1> QED
  BY <1>4, <1>5, <1>6, <1>7 DEF Branch!IInv

LEMMA BranchTimesOutStep ==
  ASSUME Branch!RevisionAssumption, Branch!IInv, Branch!TimesOut
  PROVE  Branch!IInv'
<1>1. v11' \in 0..MaxFaults
  BY FaultStep DEF Branch!TimesOut
<1>2. v1' \in { "implement", "failed" } /\ v3' = Branch!None
  BY DEF Branch!TimesOut, Branch!GivesUp
<1>3. Branch!SomethingReported' /\ Branch!SeenIsReported'
  BY <1>2 DEF Branch!SomethingReported, Branch!SeenIsReported, Branch!AtHand
<1>4. UNCHANGED << v2, v6, v7, v8, v12 >> /\ UNCHANGED << v4, v5, v9, v10 >>
  BY DEF Branch!TimesOut
<1>5. /\ v4' \in 0..ImplementTries /\ v5' \in 0..MaxLoopbacks
      /\ v9' \in Branch!Contents /\ v10' \in { "none", "files_exist", "remote" }
  BY <1>4 DEF Branch!IInv, Branch!TypeOK, Branch!Contents
<1> QED
  BY <1>1, <1>2, <1>3, <1>4, <1>5, WorkflowStep

LEMMA LoopsBackStep ==
  ASSUME Branch!RevisionAssumption, Branch!IInv, Branch!LoopsBack, v11' \in 0..MaxFaults
  PROVE  Branch!IInv'
<1>1. v1' \in { "implement", "failed" } /\ v10' = "none"
  BY DEF Branch!LoopsBack
<1>2. Branch!SomethingReported' /\ Branch!SeenIsReported'
  BY <1>1 DEF Branch!SomethingReported, Branch!SeenIsReported, Branch!AtHand
<1>3. UNCHANGED << v2, v6, v7, v8, v12 >> /\ UNCHANGED << v3, v9 >>
  BY DEF Branch!LoopsBack
<1>4. v5' \in 0..MaxLoopbacks /\ v4' \in 0..ImplementTries
  BY DEF Branch!LoopsBack, Branch!IInv, Branch!TypeOK, Branch!RevisionAssumption
<1>5. v9' \in Branch!Contents /\ v3' \in Branch!Attempts \cup {Branch!None}
  BY <1>3 DEF Branch!IInv, Branch!TypeOK, Branch!Contents
<1> QED
  BY <1>1, <1>2, <1>3, <1>4, <1>5, WorkflowStep

\* The steps that go on without looking at the files, and those that look at them.
LEMMA FilesExistStep ==
  ASSUME Branch!RevisionAssumption, Branch!IInv, Branch!VerifiesLocally \/ Branch!FallsBack
  PROVE  Branch!IInv'
<1>1. v11' \in 0..MaxFaults
  BY FaultStep DEF Branch!VerifiesLocally, Branch!FallsBack
<1>2. v7 # {} /\ Branch!FilesExist
  BY DEF Branch!VerifiesLocally, Branch!FallsBack
<1>3. /\ UNCHANGED << v2, v6, v7, v8, v12 >> /\ UNCHANGED << v3, v4, v5 >>
      /\ v1' = "qa" /\ v10' = "files_exist" /\ v9' = Branch!Unchanged
  BY <1>2 DEF Branch!FilesExist
<1>4. Branch!SomethingReported' /\ Branch!SeenIsReported'
  BY <1>2, <1>3 DEF Branch!SomethingReported, Branch!SeenIsReported, Branch!AtHand
<1>5. v9' \in Branch!Contents /\ v3' \in Branch!Attempts \cup {Branch!None}
        /\ v4' \in 0..ImplementTries
      /\ v5' \in 0..MaxLoopbacks
  BY <1>3 DEF Branch!IInv, Branch!TypeOK, Branch!Contents, Branch!Unchanged
<1> QED
  BY <1>1, <1>3, <1>4, <1>5, WorkflowStep

LEMMA ClonesStep ==
  ASSUME Branch!RevisionAssumption, Branch!IInv, Branch!ClonesBranch \/ Branch!ClonesDefault
  PROVE  Branch!IInv'
<1>1. PICK workspace \in Branch!Contents :
        Branch!Clones(workspace) /\ \A p \in v7 \ v12 : workspace[p] \in Branch!Attempts
  <2>1. /\ v6 \in Branch!Contents /\ v7 \subseteq Paths
        /\ \A p \in v7 \ v12 : v6[p] \in Branch!Attempts /\ v6[p] # Branch!Gone
    BY DEF Branch!IInv, Branch!TypeOK, Branch!ReportedIsThere, Branch!GoneIsRemoved,
           Branch!OnBranch, Branch!Contents
  <2>2. CASE Branch!ClonesBranch
    BY <2>1, <2>2 DEF Branch!ClonesBranch
  <2>3. CASE Branch!ClonesDefault
    <3> DEFINE some == [ p \in Paths |-> IF p \in v7 /\ v6[p] # Branch!Gone THEN v6[p] ELSE Branch!None ]
    <3>1. some \in Branch!Contents /\ \A p \in v7 \ v12 : some[p] \in Branch!Attempts
      BY <2>1 DEF Branch!Contents
    <3> QED
      BY <2>3, <3>1 DEF Branch!ClonesDefault
  <2> QED
    BY <2>2, <2>3
<1>2. v11' \in 0..MaxFaults
  BY FaultStep DEF Branch!ClonesBranch, Branch!ClonesDefault
<1>3. /\ UNCHANGED << v2, v6, v7, v8, v12 >> /\ UNCHANGED << v3, v4, v5, v10 >>
      /\ v7 # {} /\ v1' = "checks" /\ v9' = workspace
  BY <1>1 DEF Branch!Clones
<1>4. Branch!SomethingReported' /\ Branch!SeenIsReported'
  BY <1>1, <1>3 DEF Branch!SomethingReported, Branch!SeenIsReported, Branch!AtHand
<1>5. /\ v9' \in Branch!Contents /\ v3' \in Branch!Attempts \cup {Branch!None}
      /\ v4' \in 0..ImplementTries
      /\ v5' \in 0..MaxLoopbacks /\ v10' \in { "none", "files_exist", "remote" }
  BY <1>1, <1>3 DEF Branch!IInv, Branch!TypeOK
<1> QED
  BY <1>2, <1>3, <1>4, <1>5, WorkflowStep

LEMMA PassesStep ==
  ASSUME Branch!RevisionAssumption, Branch!IInv, Branch!ChecksPass \/ Branch!QaPasses
  PROVE  Branch!IInv'
<1>1. /\ UNCHANGED << v2, v6, v7, v8, v12 >>
      /\ UNCHANGED << v3, v4, v5, v9, v11 >>
      /\ v1 \in Branch!AtHand /\ v1' \in { "qa", "publish" }
      /\ (v10' = "remote" /\ v1 = "checks") \/ v10' = v10
  BY DEF Branch!ChecksPass, Branch!QaPasses, Branch!AtHand
<1>2. Branch!SomethingReported' /\ Branch!SeenIsReported'
  BY <1>1 DEF Branch!IInv, Branch!SomethingReported, Branch!SeenIsReported, Branch!AtHand
<1>3. /\ v9' \in Branch!Contents /\ v3' \in Branch!Attempts \cup {Branch!None}
      /\ v4' \in 0..ImplementTries
      /\ v5' \in 0..MaxLoopbacks /\ v10' \in { "none", "files_exist", "remote" }
      /\ v11' \in 0..MaxFaults
  BY <1>1 DEF Branch!IInv, Branch!TypeOK, Branch!Contents
<1> QED
  BY <1>1, <1>2, <1>3, WorkflowStep

LEMMA BranchInvNext ==
  ASSUME Branch!RevisionAssumption, Branch!IInv, [Branch!Next]_Branch!vars
  PROVE  Branch!IInv'
<1>1. CASE UNCHANGED Branch!vars
  <2>1. Branch!OnBranch' = Branch!OnBranch
    BY <1>1 DEF Branch!vars, Branch!OnBranch
  <2> QED
    BY <1>1, <2>1
    DEF Branch!vars, Branch!IInv, Branch!TypeOK, Branch!PushedIsThere, Branch!ReportedIsThere,
        Branch!SomethingReported,
       Branch!GoneIsRemoved, Branch!SeenIsReported, Branch!Contents
<1>2. CASE Branch!Implement
  BY <1>2, BranchStartsStep, ReadsStep, PutsStep, CallFailsStep, BranchReturnsStep, RaisesStep,
     BranchTimesOutStep
  DEF Branch!Implement
<1>3. CASE Branch!Verify \/ Branch!QaFails
  <2>1. CASE Branch!NothingToVerify \/ Branch!ClonesNothing \/ Branch!ChecksFail \/ Branch!QaFails
    <3>1. Branch!LoopsBack /\ v11' \in 0..MaxFaults
      BY <2>1, FaultStep
      DEF Branch!NothingToVerify, Branch!ClonesNothing, Branch!ChecksFail, Branch!QaFails
    <3> QED
      BY <3>1, LoopsBackStep
  <2> QED
    BY <1>3, <2>1, FilesExistStep, ClonesStep, PassesStep DEF Branch!Verify
<1>4. CASE Branch!Over
  BY <1>1, <1>4 DEF Branch!Over
<1> QED
  BY <1>1, <1>2, <1>3, <1>4, PassesStep, BranchRemovesStep DEF Branch!Next

LEMMA BranchSteps ==
  ASSUME focus = "branch", [Next]_v
  PROVE  focus' = "branch" /\ [Branch!Next]_Branch!vars
  BY DEF Next, v, Branch!vars

LEMMA BranchInvariant == Spec => [](focus = "branch" => Branch!IInv)
<1> DEFINE Inv == focus = "branch" => Branch!IInv
<1>1. Init => Inv
  BY BranchAssumption, BranchInvInit DEF Init
<1>2. Inv /\ [Next]_v => Inv'
  BY BranchAssumption, BranchInvNext, BranchSteps, FocusStays
<1> QED
  BY <1>1, <1>2, PTL DEF Spec

(***************************************************************************)
(* Experts: Synchronisations of the expert library, each a session that is *)
(* committed as a whole.  Before a call that runs alone has come to an     *)
(* expert all is as it knows it; the numbers of versions are the rows' as  *)
(* long as none overlap. The variables: v1 expert, v2 versions, v3 sync,   *)
(* v4 shared.                                                              *)
(***************************************************************************)

Version == [ number : 1..MaxExpertVersion, text : Manifests ]
Session ==
  [ at : { "start", "read", "sync", "remove", "closed" }, deactivate : BOOLEAN,
    scanned : [ Scanned -> Manifests \cup {Library!Absent} ],
    known : [ Scanned -> Manifests \cup {Library!Absent} ],
    current : 0..MaxExpertVersion, left : SUBSET Scanned, flushed : SUBSET Scanned,
    errors : SUBSET Scanned, broken : BOOLEAN ]
Table == [ Scanned -> Library!Row \cup {Library!NoRow} ]
History == [ Scanned -> Seq(Version) ]

\* The parts of the invariant of one session, one row and one history.
HashesOf(vs) ==
  { w.text : w \in { vs[i] :
      i \in { i \in DOMAIN vs : \A j \in DOMAIN vs : vs[j].number <= vs[i].number } } }
BehindOf(x, vs) == \E i \in DOMAIN vs : vs[i].number > x.current
Binding(text, x, vs, some) == x.state = "active"
  /\ (text \in HashesOf(vs) \/ (some # {} /\ BehindOf(x, vs)))
Same(text, x, vs) ==
  IF text = Library!Absent THEN x.state # "active" ELSE x.state = "active"
    /\ text \in HashesOf(vs)
NextOf(c, e) == e \in c.left /\ \A f \in c.left : e <= f
Going(c) == c.at \in { "read", "sync", "remove" }

LibraryFits(c, rows) ==
  /\ c.at \notin { "sync", "remove" } => c.flushed = {}
  /\ c.at \in { "start", "read" } => c.current = Library!Unread
  /\ \A e \in c.flushed : rows[e] # Library!NoRow /\ c.scanned[e] # Library!Absent
  /\ c.at \in { "sync", "remove" } => \A e \in Scanned : c.known[e] # Library!Absent
       => rows[e] # Library!NoRow
  /\ c.at = "sync" => \A e \in c.left : c.scanned[e] # Library!Absent
  /\ c.at = "remove"
       => \A e \in c.left : c.known[e] # Library!Absent /\ c.scanned[e] = Library!Absent
  /\ c.broken => c.errors # {}
Round(c, rows, past, some) ==
  /\ c.at = "sync" => \A e \in Scanned :
       IF e \in c.left \/ c.scanned[e] = Library!Absent THEN Same(c.known[e], rows[e], past[e])
                                                ELSE Binding(c.scanned[e], rows[e], past[e], some)
  /\ c.at = "remove" => \A e \in Scanned :
       IF c.scanned[e] # Library!Absent THEN Binding(c.scanned[e], rows[e], past[e], some)
       ELSE c.deactivate /\ e \notin c.left => rows[e].state # "active"
Loaded(c, e, x) ==
  c.at = "sync" /\ c.current # Library!Unread /\ NextOf(c, e) =>
    c.known[e] \notin { Library!Absent, c.scanned[e] } /\ c.current = x.current

\* The invariant as a fact of each session.
Whole(rows, past, calls, some) ==
  /\ rows \in Table /\ past \in History /\ calls \in [ Requests -> Session ]
  /\ some \subseteq Requests
  /\ \A s \in Requests : LibraryFits(calls[s], rows)
  /\ \A s \in Requests :
       s \notin some /\ Going(calls[s]) => \A t \in Requests : Going(calls[t]) => t = s
  /\ \A s \in Requests :
       s \notin some /\ calls[s].errors = {} => Round(calls[s], rows, past, some)
  /\ some = {} => \A e \in Scanned :
       ~BehindOf(rows[e], past[e]) /\ \A s \in Requests : Loaded(calls[s], e, rows[e])

LEMMA LibraryInvIs == Library!IInv <=> Whole(v1, v2, v3, v4)
<1>1. Library!TypeOK <=> /\ v1 \in Table /\ v2 \in History
                         /\ v3 \in [ Requests -> Session ] /\ v4 \subseteq Requests
  BY DEF Library!TypeOK, Table, History, Version, Session
<1>2. Library!SessionsOK <=> \A s \in Requests : LibraryFits(v3[s], v1)
  BY DEF Library!SessionsOK, LibraryFits
<1>3. Library!AloneOK <=> \A s \in Requests : s \notin v4 /\ Going(v3[s]) =>
                    \A t \in Requests : Going(v3[t]) => t = s
  BY DEF Library!AloneOK, Library!InProgress, Going
<1>4. Library!RoundOK <=> \A s \in Requests : s \notin v4 /\ v3[s].errors = {} =>
                    Round(v3[s], v1, v2, v4)
  BY DEF Library!RoundOK, Library!Undisturbed, Library!AsKnown, Library!InForce,
         Library!StoredHashes, Library!Behind, Round, Same, Binding,
     HashesOf, BehindOf
<1>5. Library!NumbersOK <=> (v4 = {} => \A e \in Scanned :
        ~BehindOf(v1[e], v2[e]) /\ \A s \in Requests : Loaded(v3[s], e, v1[e]))
  BY DEF Library!NumbersOK, Library!Behind, BehindOf, Loaded, NextOf, Library!IsNext,
         Library!Differs
<1> QED
  BY <1>1, <1>2, <1>3, <1>4, <1>5 DEF Library!IInv, Whole

LEMMA LibraryInvIsThen == Library!IInv' <=> Whole(v1', v2', v3', v4')
<1>1. Library!TypeOK' <=> /\ v1' \in Table /\ v2' \in History
                 /\ v3' \in [ Requests -> Session ] /\ v4' \subseteq Requests
  BY DEF Library!TypeOK, Table, History, Version, Session
<1>2. Library!SessionsOK' <=> \A s \in Requests : LibraryFits(v3'[s], v1')
  BY DEF Library!SessionsOK, LibraryFits
<1>3. Library!AloneOK' <=> \A s \in Requests : s \notin v4' /\ Going(v3'[s]) =>
                    \A t \in Requests : Going(v3'[t]) => t = s
  BY DEF Library!AloneOK, Library!InProgress, Going
<1>4. Library!RoundOK' <=> \A s \in Requests : s \notin v4' /\ v3'[s].errors = {} =>
                    Round(v3'[s], v1', v2', v4')
  BY DEF Library!RoundOK, Library!Undisturbed, Library!AsKnown, Library!InForce,
         Library!StoredHashes, Library!Behind, Round, Same, Binding,
     HashesOf, BehindOf
<1>5. Library!NumbersOK' <=> (v4' = {} => \A e \in Scanned :
        ~BehindOf(v1'[e], v2'[e]) /\ \A s \in Requests : Loaded(v3'[s], e, v1'[e]))
  BY DEF Library!NumbersOK, Library!Behind, BehindOf, Loaded, NextOf, Library!IsNext,
         Library!Differs
<1> QED
  BY <1>1, <1>2, <1>3, <1>4, <1>5 DEF Library!IInv, Whole

LEMMA LibraryInvInit == ASSUME Library!ExpertsAssumption, Library!Init PROVE Library!IInv
<1> DEFINE none == [ e \in Scanned |-> Library!Absent ]
           First(d) == [ at |-> "start", deactivate |-> d, scanned |-> none, known |-> none,
                         current |-> Library!Unread, left |-> {}, flushed |-> {}, errors |-> {},
                         broken |-> FALSE ]
<1>1. none \in [ Scanned -> Manifests \cup {Library!Absent} ]
        /\ Library!Unread \in 0..MaxExpertVersion
  BY DEF Library!ExpertsAssumption, Library!Unread
<1>2. v3 \in [ Requests -> { First(d) : d \in BOOLEAN } ]
  BY DEF Library!Init
<1> HIDE DEF none
<1>3. \A d \in BOOLEAN : /\ First(d) \in Session /\ First(d).at = "start" /\ First(d).flushed = {}
                         /\ First(d).broken = FALSE /\ First(d).current = Library!Unread
  BY <1>1 DEF Session
<1> HIDE DEF First
<1>4. v3 \in [ Requests -> Session ] /\ \A s \in Requests :
        /\ v3[s].at = "start" /\ v3[s].flushed = {} /\ v3[s].broken = FALSE
        /\ v3[s].current = Library!Unread
  <2>1. \A s \in Requests : v3[s] \in { First(d) : d \in BOOLEAN }
    BY <1>2
  <2> QED
    BY <1>2, <1>3, <2>1
<1>5. /\ v1 \in Table /\ v2 \in History /\ v4 = {}
      /\ \A e \in Scanned : DOMAIN v2[e] = {}
  <2>1. << >> \in Seq(Version) /\ DOMAIN << >> = {}
    OBVIOUS
  <2> QED
    BY <2>1 DEF Library!Init, Table, History
<1> QED
  BY <1>4, <1>5, LibraryInvIs DEF Whole, LibraryFits, Round, Loaded, BehindOf, Going

-----------------------------------------------------------------------------
(* A step of a session that is in progress *)

LEMMA SessionMoves ==
  ASSUME Library!IInv, NEW s \in Requests, NEW c \in Session, Library!InProgress(s),
         v3' = [ v3 EXCEPT ![s] = c ], v4' = v4,
         v1' \in Table, v2' \in History,
         \A e \in Scanned : v1[e] # Library!NoRow => v1'[e] # Library!NoRow,
         LibraryFits(c, v1'),
         s \notin v4 /\ c.errors = {} => Round(c, v1', v2', v4),
         v4 = {} => \A e \in Scanned :
           ~BehindOf(v1'[e], v2'[e]) /\ Loaded(c, e, v1'[e])
  PROVE  Library!IInv'
<1>1. Whole(v1, v2, v3, v4) /\ Going(v3[s])
  BY LibraryInvIs DEF Library!InProgress, Going
<1>2. v3'[s] = c /\ v3' \in [ Requests -> Session ] /\ \A t \in Requests : t # s => v3'[t] = v3[t]
  BY <1>1 DEF Whole
<1>3. \A t \in Requests : t # s => LibraryFits(v3[t], v1')
  <2>1. ASSUME NEW t \in Requests PROVE LibraryFits(v3[t], v1')
    <3>1. LibraryFits(v3[t], v1) /\ v3[t].flushed \subseteq Scanned
      BY <1>1 DEF Whole, Session
    <3> QED
      BY <3>1 DEF LibraryFits
  <2> QED
    BY <2>1
<1>4. \A t \in Requests : t # s /\ t \notin v4 => ~Going(v3[t])
  BY <1>1 DEF Whole
<1>5. \A t \in Requests :
        t \notin v4 /\ Going(v3'[t]) => \A u \in Requests : Going(v3'[u]) => u = t
  <2>1. SUFFICES ASSUME NEW t \in Requests, t \notin v4, Going(v3'[t]), NEW u \in Requests,
                 Going(v3'[u])
                 PROVE  u = t
    OBVIOUS
  <2>2. t = s
    BY <1>2, <1>4, <2>1
  <2>3. u = s \/ Going(v3[u])
    BY <1>2, <2>1
  <2> QED
    BY <1>1, <2>1, <2>2, <2>3 DEF Whole
<1>6. \A t \in Requests : t \notin v4 /\ v3'[t].errors = {} => Round(v3'[t], v1', v2', v4)
  BY <1>2, <1>4 DEF Round, Going
<1>7. v4 = {} => \A t \in Requests : t # s => v3[t].at # "sync"
  BY <1>4 DEF Going
<1>8. v4 = {} => \A e \in Scanned :
        ~BehindOf(v1'[e], v2'[e]) /\ \A t \in Requests : Loaded(v3'[t], e, v1'[e])
  BY <1>2, <1>7 DEF Loaded
<1>9. v4' = v4 /\ v4 \subseteq Requests /\ \A t \in Requests : LibraryFits(v3'[t], v1')
  BY <1>1, <1>2, <1>3 DEF Whole
<1> QED
  BY <1>2, <1>5, <1>6, <1>8, <1>9, LibraryInvIsThen DEF Whole

\* The facts of a session that steps start from.
LEMMA SessionIs ==
  ASSUME Library!IInv, NEW s \in Requests
  PROVE  /\ v3[s] \in Session /\ v3 \in [ Requests -> Session ]
         /\ v1 \in Table /\ v2 \in History
         /\ LibraryFits(v3[s], v1)
         /\ s \notin v4 /\ v3[s].errors = {} => Round(v3[s], v1, v2, v4)
         /\ v4 = {} => \A e \in Scanned :
              ~BehindOf(v1[e], v2[e]) /\ Loaded(v3[s], e, v1[e])
  BY LibraryInvIs DEF Whole

LEMMA ScansStep ==
  ASSUME Library!ExpertsAssumption, Library!IInv, NEW s \in Requests, Library!Scans(s)
  PROVE  Library!IInv'
<1> DEFINE beside == { t \in Requests \ {s} : Library!InProgress(t) }
<1>1. PICK files \in [ Scanned -> Manifests \cup {Library!Absent} ] :
        v3' = [ v3 EXCEPT ![s].at = "read", ![s].scanned = files ]
  BY DEF Library!Scans
<1> DEFINE c == [ v3[s] EXCEPT !.at = "read", !.scanned = files ]
<1>2. v3' = [ v3 EXCEPT ![s] = c ]
  BY <1>1, SessionIs
<1>3. /\ v3[s].at = "start" /\ v1' = v1 /\ v2' = v2
      /\ v4' = v4 \cup beside \cup (IF beside = {} THEN {} ELSE {s})
  BY DEF Library!Scans
<1>4. c \in Session /\ c.at = "read" /\ c.flushed = v3[s].flushed
      /\ c.broken = v3[s].broken /\ c.errors = v3[s].errors /\ c.current = v3[s].current
  BY SessionIs DEF Session
<1> HIDE DEF c
<1>5. Whole(v1, v2, v3, v4)
  BY LibraryInvIs
<1>6. v3'[s] = c /\ v3' \in [ Requests -> Session ] /\ \A t \in Requests : t # s => v3'[t] = v3[t]
  BY <1>2, <1>4, <1>5 DEF Whole
<1>7. LibraryFits(c, v1)
  BY <1>3, <1>4, <1>5 DEF Whole, LibraryFits
<1>8. /\ beside \subseteq Requests /\ v4 \subseteq v4' /\ v4' \subseteq Requests
      /\ \A t \in Requests : t # s /\ Going(v3[t]) => {s, t} \subseteq v4'
  <2>1. \A t \in Requests : t # s /\ Going(v3[t]) => t \in beside
    BY DEF Library!InProgress, Going
  <2> HIDE DEF beside
  <2>2. beside \subseteq Requests
    BY DEF beside
  <2> QED
    BY <1>3, <1>5, <2>1, <2>2 DEF Whole
<1>9. \A t \in Requests :
        t \notin v4' /\ Going(v3'[t]) => \A u \in Requests : Going(v3'[u]) => u = t
  <2>1. SUFFICES ASSUME NEW t \in Requests, t \notin v4', Going(v3'[t]), NEW u \in Requests,
                        Going(v3'[u]), u # t
                 PROVE  FALSE
    OBVIOUS
  <2>2. CASE t = s
    BY <1>6, <1>8, <2>1, <2>2
  <2>3. CASE t # s
    BY <1>6, <1>8, <2>1, <2>3
  <2> QED
    BY <2>2, <2>3
<1>10. \A t \in Requests : t \notin v4' /\ v3'[t].errors = {} => Round(v3'[t], v1', v2', v4')
  <2>1. CASE v4' = v4
    <3>1. ASSUME NEW t \in Requests, t \notin v4, v3'[t].errors = {}
          PROVE  Round(v3'[t], v1, v2, v4)
      <4>1. CASE t = s
        BY <1>4, <1>6, <4>1 DEF Round
      <4>2. CASE t # s
        BY <1>5, <1>6, <3>1, <4>2 DEF Whole
      <4> QED
        BY <4>1, <4>2
    <3> QED
      BY <1>3, <2>1, <3>1
  <2>2. ASSUME v4' # v4, NEW t \in Requests, t \notin v4', v3'[t].errors = {}
        PROVE  Round(v3'[t], v1', v2', v4')
    <3>1. PICK u \in beside : TRUE
      BY <1>3, <2>2
    <3>2. t # s
      BY <1>3, <2>2, <3>1
    <3>3. ~Going(v3[t])
      BY <1>8, <2>2, <3>2
    <3> QED
      BY <1>6, <3>2, <3>3 DEF Round, Going
  <2> QED
    BY <2>1, <2>2
<1>11. v4' = {} => \A e \in Scanned :
         ~BehindOf(v1[e], v2[e]) /\ \A t \in Requests : Loaded(v3'[t], e, v1[e])
  <2>1. v4' = {} => v4 = {}
    BY <1>8
  <2>2. \A e \in Scanned : Loaded(c, e, v1[e])
    BY <1>4 DEF Loaded
  <2> QED
    BY <1>5, <1>6, <2>1, <2>2 DEF Whole
<1>12. \A t \in Requests : LibraryFits(v3'[t], v1)
  BY <1>5, <1>6, <1>7 DEF Whole
<1>13. v1' \in Table /\ v2' \in History
  BY <1>3, <1>5 DEF Whole
<1> QED
  BY <1>3, <1>6, <1>8, <1>9, <1>10, <1>11, <1>12, <1>13, LibraryInvIsThen DEF Whole

LEMMA ReadsLibraryStep ==
  ASSUME Library!ExpertsAssumption, Library!IInv, NEW s \in Requests, Library!ReadsLibrary(s)
  PROVE  Library!IInv'
<1>1. PICK known \in [ Scanned -> Manifests \cup {Library!Absent} ] :
       /\ \A e \in Scanned : IF v1[e].state = "active" THEN known[e] \in Library!StoredHashes(e)
                                                          ELSE known[e] = Library!Absent
       /\ v3' = [ v3 EXCEPT ![s].at = "sync", ![s].known = known,
                      ![s].left = { e \in Scanned : v3[s].scanned[e] # Library!Absent } ]
  BY DEF Library!ReadsLibrary
<1> DEFINE todo == { e \in Scanned : v3[s].scanned[e] # Library!Absent }
           c == [ v3[s] EXCEPT !.at = "sync", !.known = known, !.left = todo ]
<1>2. /\ v3[s].at = "read" /\ v1' = v1 /\ v2' = v2 /\ v4' = v4
      /\ v3' = [ v3 EXCEPT ![s] = c ] /\ Library!InProgress(s)
  BY <1>1, SessionIs DEF Library!ReadsLibrary, Library!InProgress
<1>3. todo \subseteq Scanned /\ v3[s] \in Session
  BY SessionIs
<1> HIDE DEF todo
<1>4. /\ c \in Session /\ c.at = "sync" /\ c.known = known /\ c.left = todo
      /\ c.scanned = v3[s].scanned /\ c.flushed = v3[s].flushed
      /\ c.broken = v3[s].broken /\ c.errors = v3[s].errors /\ c.current = v3[s].current
  BY <1>3 DEF Session
<1> HIDE DEF c
<1>5. \A e \in Scanned : IF v1[e].state = "active" THEN known[e] \in HashesOf(v2[e])
                         ELSE known[e] = Library!Absent
  BY <1>1 DEF Library!StoredHashes, HashesOf
<1>6. \A e \in Scanned : HashesOf(v2[e]) \subseteq Manifests
  <2>1. ASSUME NEW e \in Scanned, NEW i \in DOMAIN v2[e] PROVE v2[e][i].text \in Manifests
    <3>1. v2[e] \in Seq(Version)
      BY SessionIs DEF History
    <3>2. v2[e][i] \in Version
      BY <3>1
    <3> QED
      BY <3>2 DEF Version
  <2> QED
    BY <2>1 DEF HashesOf
<1>7. \A e \in Scanned : Same(known[e], v1[e], v2[e])
                         /\ (known[e] # Library!Absent => v1[e] # Library!NoRow)
  <2>1. Library!Absent \notin Manifests /\ Library!NoRow.state # "active"
    BY DEF Library!ExpertsAssumption, Library!NoRow
  <2> QED
    BY <1>5, <1>6, <2>1 DEF Same
<1>8. LibraryFits(c, v1)
  <2>1. LibraryFits(v3[s], v1)
    BY SessionIs
  <2> QED
    BY <1>2, <1>4, <1>7, <2>1 DEF LibraryFits, todo
<1>9. Round(c, v1, v2, v4)
  BY <1>4, <1>7 DEF Round, todo
<1>10. UNCHANGED << v1, v2 >> /\ v1 \in Table /\ v2 \in History
  BY <1>2, SessionIs
<1>11. v3[s].current = Library!Unread
  BY <1>2, SessionIs DEF LibraryFits
<1> QED
  BY <1>2, <1>4, <1>8, <1>9, <1>10, <1>11, SessionIs, SessionMoves DEF Loaded

-----------------------------------------------------------------------------
(* Rows and their histories *)

\* A commit writes the fields of rows and keeps all that the rest is about.
LEMMA CommittedIs ==
  ASSUME Library!IInv, NEW s \in Requests
  PROVE  /\ Library!Committed(s) \in Table
         /\ \A e \in Scanned : /\ Library!Committed(s)[e].state = v1[e].state
                               /\ Library!Committed(s)[e].current = v1[e].current
                               /\ v1[e] # Library!NoRow
                                    <=> Library!Committed(s)[e] # Library!NoRow
<1>1. /\ v1 \in Table /\ v3[s] \in Session
      /\ \A e \in v3[s].flushed : v1[e] # Library!NoRow /\ v3[s].scanned[e] # Library!Absent
  BY SessionIs DEF LibraryFits
<1>2. \A x \in Library!Row : x # Library!NoRow
  BY DEF Library!Row, Library!NoRow
<1>3. ASSUME NEW e \in Scanned
      PROVE  LET x == IF e \in v3[s].flushed THEN [ v1[e] EXCEPT !.fields = v3[s].scanned[e] ]
                      ELSE v1[e]
             IN /\ x \in Library!Row \cup {Library!NoRow} /\ x.state = v1[e].state
                /\ x.current = v1[e].current
                /\ v1[e] # Library!NoRow <=> x # Library!NoRow
  <2>1. CASE e \notin v3[s].flushed
    BY <1>1, <2>1 DEF Table
  <2>2. CASE e \in v3[s].flushed
    <3> DEFINE x == [ v1[e] EXCEPT !.fields = v3[s].scanned[e] ]
    <3>1. v1[e] \in Library!Row /\ v3[s].scanned[e] \in Manifests
      BY <1>1, <2>2 DEF Table, Session
    <3>2. x \in Library!Row /\ x.state = v1[e].state /\ x.current = v1[e].current
      BY <3>1 DEF Library!Row
    <3> HIDE DEF x
    <3>3. x # Library!NoRow /\ v1[e] # Library!NoRow
      BY <1>2, <3>1, <3>2
    <3> QED
      BY <2>2, <3>2, <3>3 DEF x
  <2> QED
    BY <2>1, <2>2
<1>4. ASSUME NEW e \in Scanned
      PROVE  LET x == Library!Committed(s)[e]
             IN /\ x \in Library!Row \cup {Library!NoRow} /\ x.state = v1[e].state
                /\ x.current = v1[e].current
                /\ v1[e] # Library!NoRow <=> x # Library!NoRow
  <2>1. Library!Committed(s)[e] = IF e \in v3[s].flushed
                            THEN [ v1[e] EXCEPT !.fields = v3[s].scanned[e] ]
                            ELSE v1[e]
    BY DEF Library!Committed
  <2> QED
    BY <1>3, <2>1
<1>5. Library!Committed(s) = [ e \in Scanned |-> Library!Committed(s)[e] ]
  BY DEF Library!Committed
<1>6. Library!Committed(s) \in Table
  <2> DEFINE C(e) == Library!Committed(s)[e]
  <2> HIDE DEF C
  <2>1. \A e \in Scanned : C(e) \in Library!Row \cup {Library!NoRow}
    BY <1>4 DEF C
  <2>2. Library!Committed(s) = [ e \in Scanned |-> C(e) ]
    BY <1>5 DEF C
  <2> QED
    BY <2>1, <2>2 DEF Table
<1> QED
  BY <1>4, <1>6

\* The row with the new number and the version that has it.
LEMMA AppendedIs ==
  ASSUME NEW vs \in Seq(Version), NEW n \in 1..MaxExpertVersion, NEW text \in Manifests, NEW x,
         x.current = n
  PROVE  LET ws == Append(vs, [ number |-> n, text |-> text ]) IN
         /\ ws \in Seq(Version)
         /\ text \in HashesOf(ws) \/ BehindOf(x, ws)
         /\ (\A i \in DOMAIN vs : vs[i].number <= n) => ~BehindOf(x, ws)
<1> DEFINE w == [ number |-> n, text |-> text ]
           ws == Append(vs, w)
           k == Len(vs) + 1
<1>1. w \in Version /\ w.number = n /\ w.text = text
  BY DEF Version
<1> HIDE DEF w
<1>2. /\ ws \in Seq(Version) /\ k \in DOMAIN ws /\ ws[k] = w
      /\ \A i \in DOMAIN ws : i = k \/ (i \in DOMAIN vs /\ ws[i] = vs[i])
  BY <1>1
<1> HIDE DEF ws, k
<1>3. \A i \in DOMAIN ws : ws[i].number \in Nat
  <2>1. \A i \in DOMAIN ws : ws[i] \in Version
    BY <1>2
  <2> QED
    BY <2>1 DEF Version
<1>4. n \in Nat
  OBVIOUS
<1>5. BehindOf(x, ws) <=> \E i \in DOMAIN ws : ws[i].number > n
  BY DEF BehindOf
<1>6. ~BehindOf(x, ws) => text \in HashesOf(ws)
  <2>1. SUFFICES ASSUME ~BehindOf(x, ws) PROVE text \in HashesOf(ws)
    OBVIOUS
  <2>2. \A j \in DOMAIN ws : ws[j].number <= ws[k].number
    BY <1>1, <1>2, <1>3, <1>4, <1>5, <2>1
  <2>3. ws[k].text = text
    BY <1>1, <1>2
  <2> QED
    BY <1>2, <2>2, <2>3 DEF HashesOf
<1>7. (\A i \in DOMAIN vs : vs[i].number <= n) => ~BehindOf(x, ws)
  <2>1. SUFFICES ASSUME \A i \in DOMAIN vs : vs[i].number <= n, NEW i \in DOMAIN ws
                 PROVE  ~(ws[i].number > n)
    BY <1>5
  <2>2. ws[i].number <= n
    BY <1>1, <1>2, <1>4, <2>1
  <2> QED
    BY <1>3, <1>4, <2>2
<1> QED
  BY <1>2, <1>6, <1>7 DEF ws, w

\* Whose number of the next expert is right keeps it so.
LEMMA NotBehind ==
  ASSUME NEW x, NEW y, NEW vs, x.current = y.current
  PROVE  BehindOf(x, vs) <=> BehindOf(y, vs)
  BY DEF BehindOf

LEMMA ForceKeeps ==
  ASSUME NEW x, NEW y, NEW vs, NEW text, NEW some, x.current = y.current, x.state = y.state
  PROVE  /\ Binding(text, x, vs, some) <=> Binding(text, y, vs, some)
         /\ Same(text, x, vs) <=> Same(text, y, vs)
  BY DEF Binding, Same, BehindOf

\* The next one is taken from what is left, and is not taken again.
LEMMA LibraryDoneIs ==
  ASSUME Library!IInv, NEW s \in Requests, NEW e \in Scanned
  PROVE  /\ Library!Done(s, e) \in Session /\ Library!Done(s, e).left = v3[s].left \ {e}
         /\ Library!Done(s, e).at = v3[s].at /\ Library!Done(s, e).known = v3[s].known
         /\ Library!Done(s, e).scanned = v3[s].scanned
         /\ Library!Done(s, e).current = v3[s].current
         /\ Library!Done(s, e).flushed = v3[s].flushed /\ Library!Done(s, e).errors = v3[s].errors
         /\ Library!Done(s, e).broken = v3[s].broken
         /\ Library!Done(s, e).deactivate = v3[s].deactivate
  BY SessionIs DEF Library!Done, Session

\* When none overlapped, nothing is loaded for an expert that is not to be updated.
LEMMA NothingLoaded ==
  ASSUME Library!IInv, NEW s \in Requests, NEW e \in Scanned, Library!IsNext(s, e),
         v3[s].at = "sync",
         v4 = {}, ~Library!Differs(s, e)
  PROVE  v3[s].current = Library!Unread
  BY SessionIs DEF Loaded, NextOf, Library!IsNext, Library!Differs

-----------------------------------------------------------------------------
(* The round *)

LEMMA FailsStep ==
  ASSUME Library!ExpertsAssumption, Library!IInv, NEW s \in Requests, NEW e \in Scanned,
         Library!InProgress(s),
         v3[s].at \in { "sync", "remove" }, Library!Fails(s, e), v4' = v4,
         v3[s].at = "sync" /\ v4 = {} => v3[s].current = Library!Unread
  PROVE  Library!IInv'
<1> DEFINE c == [ Library!Done(s, e) EXCEPT !.errors = @ \cup {e}, !.broken = TRUE, !.flushed = {} ]
<1>1. /\ c \in Session /\ c.left = v3[s].left \ {e} /\ c.at = v3[s].at
      /\ c.known = v3[s].known /\ c.scanned = v3[s].scanned /\ c.current = v3[s].current
      /\ c.flushed = {} /\ c.errors # {}
  <2> DEFINE d == Library!Done(s, e)
             all == d.errors \cup {e}
  <2>1. /\ d \in Session /\ d.left = v3[s].left \ {e} /\ d.at = v3[s].at
        /\ d.known = v3[s].known /\ d.scanned = v3[s].scanned /\ d.current = v3[s].current
    BY LibraryDoneIs
  <2> HIDE DEF d
  <2>2. all \in SUBSET Scanned /\ all # {}
    BY <2>1 DEF Session
  <2> HIDE DEF all
  <2>3. c = [ d EXCEPT !.errors = all, !.broken = TRUE, !.flushed = {} ]
    BY DEF d, all
  <2> HIDE DEF c
  <2> QED
    BY <2>1, <2>2, <2>3 DEF Session
<1>2. v3' = [ v3 EXCEPT ![s] = c ] /\ v1' = v1 /\ v2' = v2
  BY DEF Library!Fails
<1> HIDE DEF c
<1>3. LibraryFits(c, v1)
  BY <1>1, SessionIs DEF LibraryFits
<1> QED
  BY <1>1, <1>2, <1>3, SessionIs, SessionMoves DEF Loaded

\* The next one's row and version are stored.
LEMMA LibraryStoresStep ==
  ASSUME Library!ExpertsAssumption, Library!IInv, NEW s \in Requests, NEW e \in Scanned,
         v3[s].at = "sync",
         Library!IsNext(s, e), v4' = v4, NEW x \in Library!Row, NEW ws \in Seq(Version),
         NEW c \in Session,
         v1' = [ Library!Committed(s) EXCEPT ![e] = x ], v2' = [ v2 EXCEPT ![e] = ws ],
         v3' = [ v3 EXCEPT ![s] = c ],
         c.left = v3[s].left \ {e}, c.at = "sync", c.known = v3[s].known,
         c.scanned = v3[s].scanned, c.flushed \subseteq {e}, c.errors = v3[s].errors,
         c.broken = v3[s].broken,
         s \notin v4 /\ v3[s].errors = {} => Binding(v3[s].scanned[e], x, ws, v4),
         v4 = {} => c.current = Library!Unread /\ ~BehindOf(x, ws)
  PROVE  Library!IInv'
<1>1. Library!InProgress(s) /\ v2 \in History /\ x # Library!NoRow
  BY SessionIs DEF Library!InProgress, Library!Row, Library!NoRow
<1>2. v3[s].scanned[e] # Library!Absent
  BY SessionIs DEF Library!IsNext, LibraryFits
<1>3. /\ v1' \in Table /\ v1'[e] = x
      /\ \A f \in Scanned \ {e} : v1'[f] = Library!Committed(s)[f]
  BY CommittedIs DEF Table
<1>4. /\ v2' \in History /\ v2'[e] = ws
      /\ \A f \in Scanned \ {e} : v2'[f] = v2[f]
  BY <1>1 DEF History
<1>5. \A f \in Scanned : v1[f] # Library!NoRow => v1'[f] # Library!NoRow
  BY <1>1, <1>3, CommittedIs
<1>6. LibraryFits(c, v1')
  BY <1>1, <1>2, <1>3, <1>5, SessionIs DEF LibraryFits
<1>7. \A f \in Scanned \ {e} : /\ v1'[f].state = v1[f].state
                               /\ v1'[f].current = v1[f].current
                               /\ v2'[f] = v2[f] /\ (f \in c.left <=> f \in v3[s].left)
  BY <1>3, <1>4, CommittedIs
<1>8. ASSUME s \notin v4, c.errors = {} PROVE Round(c, v1', v2', v4)
  <2>1. Round(v3[s], v1, v2, v4)
    BY <1>8, SessionIs
  <2>2. ASSUME NEW f \in Scanned, f # e
        PROVE  IF f \in c.left
                 \/ c.scanned[f] = Library!Absent THEN Same(c.known[f], v1'[f], v2'[f])
               ELSE Binding(c.scanned[f], v1'[f], v2'[f], v4)
    <3>1. IF f \in v3[s].left \/ v3[s].scanned[f] = Library!Absent
          THEN Same(v3[s].known[f], v1[f], v2[f])
          ELSE Binding(v3[s].scanned[f], v1[f], v2[f], v4)
      BY <2>1 DEF Round
    <3> QED
      BY <1>7, <2>2, <3>1, ForceKeeps
  <2>3. ~(e \in c.left \/ c.scanned[e] = Library!Absent)
    BY <1>2
  <2> QED
    BY <1>3, <1>4, <1>8, <2>2, <2>3 DEF Round
<1>9. v4 = {} => \A f \in Scanned :
        ~BehindOf(v1'[f], v2'[f]) /\ Loaded(c, f, v1'[f])
  <2>1. SUFFICES ASSUME v4 = {}, NEW f \in Scanned
                 PROVE  ~BehindOf(v1'[f], v2'[f]) /\ Loaded(c, f, v1'[f])
    OBVIOUS
  <2>2. CASE f = e
    BY <1>3, <1>4, <2>1, <2>2 DEF Loaded
  <2>3. CASE f # e
    <3>1. ~BehindOf(v1[f], v2[f])
      BY <2>1, SessionIs
    <3> QED
      BY <1>7, <2>1, <2>3, <3>1, NotBehind DEF Loaded
  <2> QED
    BY <2>2, <2>3
<1> QED
  BY <1>1, <1>3, <1>4, <1>5, <1>6, <1>8, <1>9, SessionMoves

LEMMA LibraryCreatesStep ==
  ASSUME Library!ExpertsAssumption, Library!IInv, NEW s \in Requests, NEW e \in Scanned,
         v3[s].at = "sync",
         Library!IsNext(s, e), Library!Creates(s, e), v4' = v4
  PROVE  Library!IInv'
<1>0. Library!InProgress(s) /\ ~Library!Differs(s, e) /\ v3[s].known[e] = Library!Absent
  BY DEF Library!InProgress, Library!Differs, Library!Creates
<1>1. CASE v3[s].broken \/ v1[e] # Library!NoRow
  BY <1>0, <1>1, NothingLoaded, FailsStep DEF Library!Creates
<1>2. CASE ~v3[s].broken /\ v1[e] = Library!NoRow
  <2> DEFINE text == v3[s].scanned[e]
             x == [ state |-> "active", fields |-> text, current |-> 1 ]
             ws == Append(v2[e], [ number |-> 1, text |-> text ])
             c == [ Library!Done(s, e) EXCEPT !.flushed = {} ]
  <2>1. /\ v1' = [ Library!Committed(s) EXCEPT ![e] = x ] /\ v2' = [ v2 EXCEPT ![e] = ws ]
        /\ v3' = [ v3 EXCEPT ![s] = c ]
    BY <1>2 DEF Library!Creates
  <2>2. text \in Manifests /\ 1 \in 1..MaxExpertVersion
    <3>1. e \in v3[s].left /\ text \in Manifests \cup {Library!Absent} /\ text # Library!Absent
      BY SessionIs DEF Library!IsNext, Session, LibraryFits
    <3> QED
      BY <3>1 DEF Library!ExpertsAssumption
  <2>3. x \in Library!Row /\ x.state = "active" /\ x.current = 1 /\ x # Library!NoRow
    BY <2>2 DEF Library!Row, Library!NoRow
  <2>4. v2[e] \in Seq(Version)
    BY SessionIs DEF History
  <2>5. /\ c \in Session /\ c.left = v3[s].left \ {e} /\ c.at = "sync"
        /\ c.known = v3[s].known /\ c.scanned = v3[s].scanned /\ c.current = v3[s].current
        /\ c.flushed = {} /\ c.errors = v3[s].errors /\ c.broken = v3[s].broken
    BY LibraryDoneIs DEF Session
  <2> HIDE DEF x, c
  <2>6. /\ ws \in Seq(Version) /\ (text \in HashesOf(ws) \/ BehindOf(x, ws))
        /\ (\A i \in DOMAIN v2[e] : v2[e][i].number <= 1) => ~BehindOf(x, ws)
    BY <2>2, <2>3, <2>4, AppendedIs
  <2>7. v4 = {} => text \in HashesOf(ws) /\ ~BehindOf(x, ws) /\ c.current = Library!Unread
    <3>1. SUFFICES ASSUME v4 = {} PROVE \A i \in DOMAIN v2[e] : v2[e][i].number <= 1
      BY <1>0, <2>5, <2>6, NothingLoaded
    <3>2. ~BehindOf(Library!NoRow, v2[e])
      BY <1>2, <3>1, SessionIs
    <3>3. ASSUME NEW i \in DOMAIN v2[e] PROVE v2[e][i].number <= 1
      <4>1. v2[e][i] \in Version
        BY <2>4
      <4>2. v2[e][i].number \in Nat /\ ~(v2[e][i].number > 0)
        BY <3>2, <4>1 DEF BehindOf, Library!NoRow, Version
      <4> QED
        BY <4>2
    <3> QED
      BY <3>3
  <2> HIDE DEF ws
  <2>8. Binding(text, x, ws, v4)
    BY <2>3, <2>6, <2>7 DEF Binding
  <2> QED
    BY <2>1, <2>3, <2>5, <2>6, <2>7, <2>8, LibraryStoresStep
<1> QED
  BY <1>1, <1>2

LEMMA UpdatesStep ==
  ASSUME Library!ExpertsAssumption, Library!IInv, NEW s \in Requests, NEW e \in Scanned,
         v3[s].at = "sync",
         Library!IsNext(s, e), Library!Updates(s, e), v4' = v4
  PROVE  Library!IInv'
<1> DEFINE text == v3[s].scanned[e]
           n == v3[s].current + 1
           x == [ Library!Committed(s)[e] EXCEPT !.current = n ]
           ws == Append(v2[e], [ number |-> n, text |-> text ])
           c == [ Library!Done(s, e) EXCEPT !.flushed = {e}, !.current = Library!Unread ]
<1>1. /\ Library!Differs(s, e) /\ n <= MaxExpertVersion /\ v3[s].current # Library!Unread
      /\ v1' = [ Library!Committed(s) EXCEPT ![e] = x ] /\ v2' = [ v2 EXCEPT ![e] = ws ]
      /\ v3' = [ v3 EXCEPT ![s] = c ]
  BY CommittedIs DEF Library!Updates, Table
<1>2. /\ v3[s] \in Session /\ v3[s].known[e] # Library!Absent /\ v1[e] # Library!NoRow
      /\ text \in Manifests
  <2>1. e \in v3[s].left /\ text \in Manifests \cup {Library!Absent} /\ text # Library!Absent
    BY SessionIs DEF Library!IsNext, Session, LibraryFits
  <2> QED
    BY <1>1, <2>1, SessionIs DEF Library!Differs, LibraryFits
<1>3. n \in 1..MaxExpertVersion /\ v3[s].current \in Nat /\ n = v3[s].current + 1
  <2>1. v3[s].current \in 0..MaxExpertVersion /\ MaxExpertVersion \in Nat
    BY <1>2 DEF Session, Library!ExpertsAssumption
  <2> QED
    BY <1>1, <2>1
<1> HIDE DEF n
<1>4. x \in Library!Row /\ x.current = n /\ x.state = v1[e].state
  <2>1. Library!Committed(s)[e] \in Library!Row /\ Library!Committed(s)[e].state = v1[e].state
    BY <1>2, CommittedIs DEF Table
  <2> QED
    BY <1>3, <2>1 DEF Library!Row
<1> HIDE DEF x
<1>5. /\ c \in Session /\ c.left = v3[s].left \ {e} /\ c.at = "sync"
      /\ c.known = v3[s].known /\ c.scanned = v3[s].scanned /\ c.current = Library!Unread
      /\ c.flushed = {e} /\ c.errors = v3[s].errors /\ c.broken = v3[s].broken
  <2> DEFINE d == Library!Done(s, e)
             one == {e}
  <2>1. Library!Unread \in 0..MaxExpertVersion
    BY DEF Library!Unread, Library!ExpertsAssumption
  <2>2. /\ d \in Session /\ d.left = v3[s].left \ {e} /\ d.at = v3[s].at
        /\ d.known = v3[s].known /\ d.scanned = v3[s].scanned
        /\ d.errors = v3[s].errors /\ d.broken = v3[s].broken
    BY LibraryDoneIs
  <2>3. one \in SUBSET Scanned /\ c = [ d EXCEPT !.flushed = one, !.current = Library!Unread ]
    OBVIOUS
  <2> HIDE DEF d, one, c
  <2>4. /\ c \in Session /\ c.left = v3[s].left \ {e} /\ c.at = "sync"
        /\ c.known = v3[s].known /\ c.scanned = v3[s].scanned /\ c.current = Library!Unread
        /\ c.flushed = one /\ c.errors = v3[s].errors /\ c.broken = v3[s].broken
    BY <2>1, <2>2, <2>3 DEF Session
  <2> QED
    BY <2>4 DEF one
<1> HIDE DEF c
<1>6. v2[e] \in Seq(Version)
  BY SessionIs DEF History
<1>7. /\ ws \in Seq(Version) /\ (text \in HashesOf(ws) \/ BehindOf(x, ws))
      /\ (\A i \in DOMAIN v2[e] : v2[e][i].number <= n) => ~BehindOf(x, ws)
  BY <1>2, <1>3, <1>4, <1>6, AppendedIs
<1>8. v4 = {} => ~BehindOf(x, ws)
  <2>1. SUFFICES ASSUME v4 = {} PROVE \A i \in DOMAIN v2[e] : v2[e][i].number <= n
    BY <1>7
  <2>2. ~BehindOf(v1[e], v2[e]) /\ v1[e].current = v3[s].current
    BY <1>1, <2>1, SessionIs DEF Loaded, Library!IsNext, NextOf
  <2>3. ASSUME NEW i \in DOMAIN v2[e] PROVE v2[e][i].number <= n
    <3>1. v2[e][i] \in Version
      BY <1>6
    <3>2. v2[e][i].number \in Nat /\ ~(v2[e][i].number > v3[s].current)
      BY <2>2, <3>1 DEF BehindOf, Version
    <3> QED
      BY <1>3, <3>2
  <2> QED
    BY <2>3
<1> HIDE DEF ws, text
<1>9. s \notin v4 /\ v3[s].errors = {} => Binding(text, x, ws, v4)
  <2>1. SUFFICES ASSUME s \notin v4, v3[s].errors = {} PROVE Binding(text, x, ws, v4)
    OBVIOUS
  <2>2. Same(v3[s].known[e], v1[e], v2[e])
    BY <2>1, SessionIs DEF Round, Library!IsNext
  <2>3. x.state = "active"
    BY <1>2, <1>4, <2>2 DEF Same
  <2> QED
    BY <1>7, <1>8, <2>3 DEF Binding
<1> QED
  BY <1>1, <1>4, <1>5, <1>7, <1>8, <1>9, LibraryStoresStep DEF text

LEMMA SkipsStep ==
  ASSUME Library!ExpertsAssumption, Library!IInv, NEW s \in Requests, NEW e \in Scanned,
         v3[s].at = "sync",
         Library!IsNext(s, e), Library!Skips(s, e), v4' = v4
  PROVE  Library!IInv'
<1> DEFINE c == Library!Done(s, e)
<1>1. /\ v3' = [ v3 EXCEPT ![s] = c ] /\ v1' = v1 /\ v2' = v2
      /\ v3[s].known[e] = v3[s].scanned[e] /\ Library!InProgress(s) /\ ~Library!Differs(s, e)
  BY DEF Library!Skips, Library!InProgress, Library!Differs
<1>2. /\ c \in Session /\ c.left = v3[s].left \ {e} /\ c.at = "sync"
      /\ c.known = v3[s].known /\ c.scanned = v3[s].scanned /\ c.current = v3[s].current
      /\ c.flushed = v3[s].flushed /\ c.errors = v3[s].errors /\ c.broken = v3[s].broken
  BY LibraryDoneIs
<1> HIDE DEF c
<1>3. LibraryFits(c, v1)
  BY <1>2, SessionIs DEF LibraryFits
<1>4. v3[s].scanned[e] # Library!Absent /\ e \in v3[s].left
  BY SessionIs DEF Library!IsNext, LibraryFits
<1>5. ASSUME s \notin v4, c.errors = {} PROVE Round(c, v1, v2, v4)
  <2>1. Round(v3[s], v1, v2, v4)
    BY <1>2, <1>5, SessionIs
  <2>2. Binding(v3[s].scanned[e], v1[e], v2[e], v4)
    BY <1>1, <1>4, <2>1 DEF Round, Same, Binding
  <2> QED
    BY <1>2, <1>4, <2>1, <2>2 DEF Round
<1>6. v4 = {} => c.current = Library!Unread
  BY <1>1, <1>2, NothingLoaded
<1> QED
  BY <1>1, <1>2, <1>3, <1>5, <1>6, SessionIs, SessionMoves DEF Loaded

LEMMA LoadsRowStep ==
  ASSUME Library!ExpertsAssumption, Library!IInv, NEW s \in Requests, NEW e \in Scanned,
         v3[s].at = "sync",
         Library!IsNext(s, e), Library!LoadsRow(s, e), v4' = v4
  PROVE  Library!IInv'
<1>1. Library!InProgress(s) /\ Library!Differs(s, e) /\ v3[s].current = Library!Unread
  BY DEF Library!InProgress, Library!LoadsRow
<1>2. CASE v3[s].broken
  BY <1>1, <1>2, FailsStep DEF Library!LoadsRow
<1>3. CASE ~v3[s].broken
  <2> DEFINE c == [ v3[s] EXCEPT !.current = v1[e].current ]
  <2>1. v3' = [ v3 EXCEPT ![s] = c ] /\ v1' = v1 /\ v2' = v2
    BY <1>3, SessionIs DEF Library!LoadsRow
  <2>2. v1[e].current \in 0..MaxExpertVersion
    <3>1. v1[e] \in Library!Row \cup {Library!NoRow} /\ MaxExpertVersion \in Nat
      BY SessionIs DEF Table, Library!ExpertsAssumption
    <3>2. CASE v1[e] = Library!NoRow
      BY <3>1, <3>2 DEF Library!NoRow
    <3>3. CASE v1[e] \in Library!Row
      BY <3>3 DEF Library!Row
    <3> QED
      BY <3>1, <3>2, <3>3
  <2>3. /\ c \in Session /\ c.left = v3[s].left /\ c.at = "sync"
        /\ c.known = v3[s].known /\ c.scanned = v3[s].scanned /\ c.current = v1[e].current
        /\ c.flushed = v3[s].flushed /\ c.errors = v3[s].errors /\ c.broken = v3[s].broken
    BY <2>2, SessionIs DEF Session
  <2> HIDE DEF c
  <2>4. LibraryFits(c, v1)
    BY <2>3, SessionIs DEF LibraryFits
  <2>5. s \notin v4 /\ c.errors = {} => Round(c, v1, v2, v4)
    BY <2>3, SessionIs DEF Round
  <2>6. \A f \in Scanned : Loaded(c, f, v1[f])
    <3>1. SUFFICES ASSUME NEW f \in Scanned, NextOf(c, f)
                   PROVE  f = e
      BY <1>1, <2>3 DEF Loaded, Library!Differs
    <3>2. Scanned \subseteq Nat
      BY DEF Library!ExpertsAssumption
    <3>3. e <= f /\ f <= e
      BY <2>3, <3>1 DEF NextOf, Library!IsNext
    <3> QED
      BY <3>2, <3>3
  <2> QED
    BY <1>1, <2>1, <2>3, <2>4, <2>5, <2>6, SessionIs, SessionMoves
<1> QED
  BY <1>2, <1>3

LEMMA LibraryRemovesStep ==
  ASSUME Library!ExpertsAssumption, Library!IInv, NEW s \in Requests, Library!Removes(s)
  PROVE  Library!IInv'
<1> DEFINE todo == IF v3[s].deactivate
                   THEN { e \in Scanned :
                          v3[s].known[e] # Library!Absent /\ v3[s].scanned[e] = Library!Absent }
                   ELSE {}
           c == [ v3[s] EXCEPT !.at = "remove", !.left = todo ]
<1>1. /\ v3[s].at = "sync" /\ v3[s].left = {} /\ Library!InProgress(s)
      /\ v1' = v1 /\ v2' = v2 /\ v4' = v4
      /\ v3' = [ v3 EXCEPT ![s] = c ]
  BY SessionIs DEF Library!Removes, Library!InProgress
<1>2. todo \in SUBSET Scanned
      /\ \A e \in todo : v3[s].known[e] # Library!Absent /\ v3[s].scanned[e] = Library!Absent
  OBVIOUS
<1>3. \A e \in Scanned : v3[s].deactivate /\ e \notin todo /\ v3[s].scanned[e] = Library!Absent
        => v3[s].known[e] = Library!Absent
  OBVIOUS
<1> HIDE DEF todo
<1>4. /\ c \in Session /\ c.left = todo /\ c.at = "remove" /\ c.deactivate = v3[s].deactivate
      /\ c.known = v3[s].known /\ c.scanned = v3[s].scanned
      /\ c.flushed = v3[s].flushed /\ c.errors = v3[s].errors /\ c.broken = v3[s].broken
  BY <1>2, SessionIs DEF Session
<1> HIDE DEF c
<1>5. LibraryFits(c, v1)
  BY <1>1, <1>2, <1>4, SessionIs DEF LibraryFits
<1>6. ASSUME s \notin v4, c.errors = {} PROVE Round(c, v1, v2, v4)
  <2>1. Round(v3[s], v1, v2, v4)
    BY <1>4, <1>6, SessionIs
  <2>2. \A e \in Scanned :
          IF v3[s].scanned[e] = Library!Absent THEN Same(v3[s].known[e], v1[e], v2[e])
                                    ELSE Binding(v3[s].scanned[e], v1[e], v2[e], v4)
    BY <1>1, <2>1 DEF Round
  <2>3. ASSUME NEW e \in Scanned
        PROVE  IF c.scanned[e] # Library!Absent THEN Binding(c.scanned[e], v1[e], v2[e], v4)
               ELSE c.deactivate /\ e \notin c.left => v1[e].state # "active"
    BY <1>3, <1>4, <2>2 DEF Same
  <2> QED
    BY <1>4, <2>3 DEF Round
<1> QED
  BY <1>1, <1>4, <1>5, <1>6, SessionIs, SessionMoves DEF Loaded

LEMMA DeprecatesStep ==
  ASSUME Library!ExpertsAssumption, Library!IInv, NEW s \in Requests, Library!Deprecates(s)
  PROVE  Library!IInv'
<1>1. PICK e \in Scanned :
       /\ Library!IsNext(s, e)
       /\ IF v3[s].broken
            THEN Library!Fails(s, e)
            ELSE /\ ~Library!Locked(s, e)
                 /\ v1' = [ Library!Committed(s) EXCEPT ![e].state = "deprecated" ]
                 /\ v3' = [ v3 EXCEPT ![s] = [ Library!Done(s, e) EXCEPT !.flushed = {} ] ]
                 /\ UNCHANGED v2
  BY DEF Library!Deprecates
<1>2. v3[s].at = "remove" /\ v4' = v4 /\ Library!InProgress(s) /\ e \in v3[s].left
  BY <1>1 DEF Library!Deprecates, Library!InProgress, Library!IsNext
<1>3. CASE v3[s].broken
  BY <1>1, <1>2, <1>3, FailsStep
<1>4. CASE ~v3[s].broken
  <2> DEFINE c == [ Library!Done(s, e) EXCEPT !.flushed = {} ]
             x == [ Library!Committed(s)[e] EXCEPT !.state = "deprecated" ]
  <2>1. /\ v1' = [ Library!Committed(s) EXCEPT ![e] = x ] /\ v2' = v2
        /\ v3' = [ v3 EXCEPT ![s] = c ]
    BY <1>1, <1>4, CommittedIs DEF Table
  <2>2. /\ c \in Session /\ c.left = v3[s].left \ {e} /\ c.at = "remove"
        /\ c.deactivate = v3[s].deactivate
        /\ c.known = v3[s].known /\ c.scanned = v3[s].scanned
        /\ c.flushed = {} /\ c.errors = v3[s].errors /\ c.broken = v3[s].broken
    BY <1>2, LibraryDoneIs DEF Session
  <2> HIDE DEF c
  <2>3. v1[e] # Library!NoRow
    BY <1>2, SessionIs DEF LibraryFits
  <2>4. x \in Library!Row /\ x.state = "deprecated" /\ x.current = v1[e].current
    <3>1. Library!Committed(s)[e] \in Library!Row
            /\ Library!Committed(s)[e].current = v1[e].current
      BY <2>3, CommittedIs DEF Table
    <3> QED
      BY <3>1 DEF Library!Row
  <2> HIDE DEF x
  <2>5. /\ v1' \in Table /\ v1'[e] = x
        /\ \A f \in Scanned \ {e} : v1'[f] = Library!Committed(s)[f]
    BY <2>1, <2>4, CommittedIs DEF Table
  <2>6. x # Library!NoRow
    BY <2>4 DEF Library!Row, Library!NoRow
  <2>7. /\ \A f \in Scanned : /\ v1[f] # Library!NoRow => v1'[f] # Library!NoRow
                              /\ v1'[f].current = v1[f].current
        /\ \A f \in Scanned \ {e} : v1'[f].state = v1[f].state
    BY <2>4, <2>5, <2>6, CommittedIs
  <2>8. LibraryFits(c, v1')
    BY <1>2, <2>2, <2>7, SessionIs DEF LibraryFits
  <2>9. ASSUME s \notin v4, c.errors = {} PROVE Round(c, v1', v2, v4)
    <3>1. Round(v3[s], v1, v2, v4)
      BY <2>2, <2>9, SessionIs
    <3>2. ASSUME NEW f \in Scanned
          PROVE  IF c.scanned[f] # Library!Absent THEN Binding(c.scanned[f], v1'[f], v2[f], v4)
                 ELSE c.deactivate /\ f \notin c.left => v1'[f].state # "active"
      <4>1. IF v3[s].scanned[f] # Library!Absent THEN Binding(v3[s].scanned[f], v1[f], v2[f], v4)
            ELSE v3[s].deactivate /\ f \notin v3[s].left => v1[f].state # "active"
        BY <1>2, <3>1 DEF Round
      <4>2. CASE f # e
        BY <2>2, <2>7, <4>1, <4>2, ForceKeeps
      <4>3. CASE f = e
        <5>1. v3[s].scanned[e] = Library!Absent
          BY <1>2, SessionIs DEF LibraryFits
        <5> QED
          BY <2>2, <2>4, <2>5, <4>3, <5>1
      <4> QED
        BY <4>2, <4>3
    <3> QED
      BY <2>2, <3>2 DEF Round
  <2>10. v4 = {} => \A f \in Scanned : ~BehindOf(v1'[f], v2[f]) /\ Loaded(c, f, v1'[f])
    BY <2>2, <2>7, NotBehind, SessionIs DEF Loaded
  <2> QED
    BY <1>2, <2>1, <2>2, <2>5, <2>7, <2>8, <2>9, <2>10, SessionIs, SessionMoves
<1> QED
  BY <1>3, <1>4

LEMMA LibraryEndsStep ==
  ASSUME Library!ExpertsAssumption, Library!IInv, NEW s \in Requests,
         Library!Closes(s) \/ Library!Dies(s)
  PROVE  Library!IInv'
<1>1. PICK all \in SUBSET Scanned :
        v3'
          = [ v3 EXCEPT ![s] = [ v3[s] EXCEPT !.at = "closed", !.flushed = {}, !.errors = all ] ]
        /\ (all = v3[s].errors \/ all = Scanned)
  <2> DEFINE c(all) == [ v3[s] EXCEPT !.at = "closed", !.flushed = {}, !.errors = all ]
  <2>1. v3[s] \in Session /\ v3 \in [ Requests -> Session ]
    BY SessionIs
  <2>2. CASE Library!Closes(s)
    <3>1. [ v3[s] EXCEPT !.at = "closed", !.flushed = {} ] = c(v3[s].errors)
      BY <2>1 DEF Session
    <3>2. v3' = [ v3 EXCEPT ![s] = [ v3[s] EXCEPT !.at = "closed", !.flushed = {} ] ]
      BY <2>2, <2>1 DEF Library!Closes
    <3> QED
      BY <2>1, <3>1, <3>2 DEF Session
  <2>3. CASE Library!Dies(s)
    BY <2>1, <2>3 DEF Library!Dies
  <2> QED
    BY <2>2, <2>3
<1> DEFINE c == [ v3[s] EXCEPT !.at = "closed", !.flushed = {}, !.errors = all ]
<1>2. /\ c \in Session /\ c.at = "closed" /\ c.flushed = {} /\ c.errors = all
      /\ c.broken = v3[s].broken
  BY SessionIs DEF Session
<1>3. /\ v1' = v1 /\ v2' = v2 /\ v4' = v4 /\ Library!InProgress(s)
  BY DEF Library!Closes, Library!Dies, Library!InProgress
<1>4. v3' = [ v3 EXCEPT ![s] = c ]
  BY <1>1
<1> HIDE DEF c
<1>5. LibraryFits(c, v1)
  <2>1. v3[s].broken => v3[s].errors # {} /\ v3[s].errors \subseteq Scanned
    BY SessionIs DEF LibraryFits, Session
  <2> QED
    BY <1>1, <1>2, <2>1 DEF LibraryFits
<1> QED
  BY <1>2, <1>3, <1>4, <1>5, SessionIs, SessionMoves DEF Loaded, Round

LEMMA LibraryInvNext ==
  ASSUME Library!ExpertsAssumption, Library!IInv, [Library!Next]_Library!vars
  PROVE  Library!IInv'
<1>1. CASE UNCHANGED Library!vars
  BY <1>1, LibraryInvIs, LibraryInvIsThen DEF Library!vars
<1>2. ASSUME NEW s \in Requests, Library!SyncsNext(s) PROVE Library!IInv'
  <2>1. PICK e \in Scanned :
          /\ Library!IsNext(s, e)
          /\ \/ Library!Creates(s, e) \/ Library!Skips(s, e)
             \/ Library!LoadsRow(s, e) \/ Library!Updates(s, e)
    BY <1>2 DEF Library!SyncsNext
  <2>2. v3[s].at = "sync" /\ v4' = v4
    BY <1>2 DEF Library!SyncsNext
  <2> QED
    BY <2>1, <2>2, LibraryCreatesStep, SkipsStep, LoadsRowStep, UpdatesStep
<1> QED
  BY <1>1, <1>2, ScansStep, ReadsLibraryStep, LibraryRemovesStep, DeprecatesStep, LibraryEndsStep
  DEF Library!Next

\* What a round that ends has left.
LEMMA RoundIsWhole == ASSUME Library!IInv, Library!Next PROVE Library!SyncsWhole
<1> SUFFICES ASSUME NEW s \in Requests, v3[s].at = "remove", v3'[s].at = "closed",
                    Library!Undisturbed(s), v3'[s].errors = {}, NEW e \in Scanned
             PROVE  IF v3[s].scanned[e] # Library!Absent THEN Library!InForce(s, e)
                    ELSE v3[s].deactivate => v1[e].state # "active"
  BY DEF Library!SyncsWhole
<1>1. v3[s].left = {}
  <2>1. v3 \in [ Requests -> Session ]
    BY SessionIs
  <2>2. PICK t \in Requests :
          Library!Scans(t) \/ Library!ReadsLibrary(t) \/ Library!SyncsNext(t)
            \/ Library!Removes(t)
                           \/ Library!Deprecates(t) \/ Library!Closes(t) \/ Library!Dies(t)
    BY DEF Library!Next
  <2>3. CASE Library!Scans(t)
    BY <2>1, <2>3 DEF Library!Scans
  <2>4. CASE Library!ReadsLibrary(t)
    BY <2>1, <2>4 DEF Library!ReadsLibrary
  <2>5. \A c \in Session : v3' = [ v3 EXCEPT ![t] = c ] /\ c.at = v3[t].at => FALSE
    BY <2>1
  <2>6. ASSUME NEW f \in Scanned
        PROVE  /\ ~Library!Fails(t, f)
               /\ v3' # [ v3 EXCEPT ![t] = Library!Done(t, f) ]
               /\ v3' # [ v3 EXCEPT ![t] = [ Library!Done(t, f) EXCEPT !.flushed = {} ] ]
    <3> DEFINE d == Library!Done(t, f)
               all == d.errors \cup {f}
               failed == [ d EXCEPT !.errors = all, !.broken = TRUE, !.flushed = {} ]
               done == [ d EXCEPT !.flushed = {} ]
    <3>1. d \in Session /\ d.at = v3[t].at
      BY LibraryDoneIs
    <3>2. Library!Fails(t, f) => v3' = [ v3 EXCEPT ![t] = failed ]
      BY DEF Library!Fails
    <3> HIDE DEF d
    <3>3. all \in SUBSET Scanned
      BY <3>1 DEF Session
    <3> HIDE DEF all
    <3>4. failed \in Session /\ failed.at = d.at /\ done \in Session /\ done.at = d.at
      BY <3>1, <3>3 DEF Session
    <3> HIDE DEF failed
    <3> QED
      BY <2>5, <3>1, <3>2, <3>4 DEF d
  <2>7. CASE Library!SyncsNext(t)
    <3>1. t # s => v3'[s] = v3[s]
      BY <2>1, <2>7
      DEF Library!SyncsNext, Library!Creates, Library!Skips, Library!LoadsRow, Library!Updates,
          Library!Fails
    <3> QED
      BY <2>7, <3>1 DEF Library!SyncsNext
  <2>8. CASE Library!Removes(t)
    BY <2>1, <2>8 DEF Library!Removes
  <2>9. CASE Library!Deprecates(t)
    BY <2>6, <2>9 DEF Library!Deprecates
  <2>10. CASE Library!Closes(t)
    BY <2>1, <2>10 DEF Library!Closes
  <2>11. CASE Library!Dies(t)
    BY <2>1, <2>11 DEF Library!Dies
  <2> QED
    BY <2>2, <2>3, <2>4, <2>7, <2>8, <2>9, <2>10, <2>11
<1>2. Round(v3[s], v1, v2, v4)
  BY SessionIs DEF Library!Undisturbed
<1> QED
  BY <1>1, <1>2
  DEF Round, Binding, Library!InForce, Library!StoredHashes, HashesOf, Library!Behind, BehindOf

LEMMA LibrarySteps ==
  ASSUME focus = "library", [Next]_v
  PROVE  focus' = "library" /\ [Library!Next]_Library!vars
  BY DEF Next, v, Library!vars, Kept4

LEMMA LibraryInvariant == Spec => [](focus = "library" => Library!IInv)
<1> DEFINE Inv == focus = "library" => Library!IInv
<1>1. Init => Inv
  BY LibraryAssumption, LibraryInvInit DEF Init
<1>2. Inv /\ [Next]_v => Inv'
  BY LibraryAssumption, LibraryInvNext, LibrarySteps, FocusStays
<1> QED
  BY <1>1, <1>2, PTL DEF Spec

\* src/experts/registrar.py: whatever earlier synchronisations, half done or overlapping,
\* have left, one that ran alone and reports no error leaves every manifest it scanned in
\* force and, with removal asked for, no other expert active.
THEOREM SyncIsWhole == Spec => LibraryIsSynced
<1>1. (focus = "library" => Library!IInv) /\ [Next]_v
        => [focus = "library" => Library!SyncsWhole]_v
  <2>1. CASE focus = "library" /\ Library!Next
    BY <2>1, RoundIsWhole
  <2>2. CASE UNCHANGED << v, Library!vars >> \/ focus # "library"
    BY <2>2 DEF Library!SyncsWhole, v
  <2> QED
    BY <2>1, <2>2 DEF Next, v, Library!vars
<1> QED
  BY <1>1, LibraryInvariant, PTL DEF Spec, LibraryIsSynced

-----------------------------------------------------------------------------
(* What they say together *)

\* src/agent/container_manager.py, src/verification/remote: whatever fails, in container
\* mode nothing works in the worker's process where the tier denies it, an attempt takes
\* its container with it, and a verification that is over has left neither directory
\* nor container.
THEOREM WorkStaysContained == Spec => []WorkIsContained
<1>1. Container!IInv => Container!ContainedWhenDenied /\ Container!NoStrays
  BY DEF Container!IInv, Container!InHandOK, Container!InHand, Container!NoStrays,
     Container!Over, Container!AtWork
<1>2. Verified!IInv => Verified!LeavesNothing
  BY DEF Verified!IInv, Verified!RunsOK, Verified!Tidy, Verified!LeavesNothing
<1>3. (focus = "container" => Container!IInv) /\ (focus = "verified" => Verified!IInv)
      => WorkIsContained
  BY <1>1, <1>2 DEF WorkIsContained
<1> QED
  BY <1>3, ContainerInvariant, VerifiedInvariant, PTL

\* src/workflow/activities.py, src/verification/remote: whatever failed, timed out or was
\* pushed over meanwhile, what QA is told was changed is on the branch and a remote
\* verification has seen all of it, but for what people have removed; and what a
\* verification without company passed was the code it had cloned.
THEOREM EvidenceIsSound == Spec => []EvidenceIsTrue
<1>1. Branch!IInv => Branch!EvidenceIsOnBranch /\ Branch!RemoteSawEvidence
  BY DEF Branch!IInv, Branch!ReportedIsThere, Branch!OnBranch, Branch!SomethingReported,
     Branch!SeenIsReported, Branch!AtHand, Branch!EvidenceIsOnBranch, Branch!RemoteSawEvidence
<1>2. Verified!IInv => Verified!PassedOwnCode
  BY DEF Verified!IInv, Verified!RunsOK, Verified!OwnCode, Verified!PassedOwnCode
<1>3. (focus = "branch" => Branch!IInv) /\ (focus = "verified" => Verified!IInv)
      => EvidenceIsTrue
  BY <1>1, <1>2 DEF EvidenceIsTrue
<1> QED
  BY <1>3, BranchInvariant, VerifiedInvariant, PTL

=============================================================================
