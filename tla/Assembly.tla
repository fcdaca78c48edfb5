------------------------------ MODULE Assembly ------------------------------
(***************************************************************************)
(* From the intent's criteria to QA's verdict: the assembler makes a plan  *)
(* of what experts said and a handoff for QA (src/assembler), preflight     *)
(* looks at the plan (src/preflight), and QA judges the work against both   *)
(* (src/qa), as the workflow calls them.                                    *)
(*                                                                         *)
(* Each step is an agent, or the rules it falls back on; an agent may       *)
(* answer anything of its schema.  Texts are told apart by what the rules   *)
(* look for: shared words, vague wording, length.                           *)
(***************************************************************************)
EXTENDS Naturals, FiniteSets, Sequences

CONSTANTS
  Criteria,      \* acceptance criteria
  Vague,         \* those too short to be judged
  Validations,   \* what experts want validated
  Overlaps,      \* criterion -> the validations it shares a word with
  Steps,         \* what a plan may ask for: whether it is vague, what it mentions
  Checkpoint,    \* validation -> the step that asks for it
  Intents,       \* sets of criteria
  Panels,        \* what the experts of a plan say; the application consults none
  AgentPlans,    \* what an agent may plan
  MaxQaLoopbacks

AssemblyAssumption ==
  /\ Vague \subseteq Criteria /\ Criteria \cap Validations = {}
  /\ Overlaps \in [ Criteria -> SUBSET Validations ]
  /\ Checkpoint \in [ Validations -> Steps ]
  /\ \A s \in Steps : s.vague \in BOOLEAN
  /\ \A panel \in Panels : \A i \in DOMAIN panel :
       panel[i].recommendations \subseteq Steps /\ panel[i].validations \subseteq Validations
  /\ Intents \subseteq SUBSET Criteria
  /\ \A p \in AgentPlans :
       /\ p.steps \subseteq Steps /\ p.conflicts = {} /\ DOMAIN p.handoff \subseteq Criteria
       /\ \A c \in DOMAIN p.handoff : p.handoff[c] \subseteq Validations \cup Criteria
  /\ MaxQaLoopbacks \in Nat

VARIABLES
  asked,     \* what the task is about: the intent's criteria, the experts' outputs
  plan,      \* assembler_result, and the conflicts that do not reach it
  task,      \* the locals of run(); whom QA's verdict is from
  reviewed,  \* history: preflight has looked at this plan
  evidence   \* what the latest implementation has evidence for

vars == << asked, plan, task, reviewed, evidence >>

\* A criterion is validated by what experts said, or by itself.
Checks == Validations \cup Criteria
NoPlan == [ steps |-> {}, handoff |-> [ c \in {} |-> {} ], conflicts |-> {} ]

TypeOK ==
  /\ asked \in [ criteria : Intents, panel : Panels ]
  /\ plan.steps \subseteq Steps /\ plan.conflicts \subseteq SUBSET DOMAIN asked.panel
  /\ DOMAIN plan.handoff \subseteq Criteria
  /\ \A c \in DOMAIN plan.handoff : plan.handoff[c] \subseteq Checks
  /\ reviewed \in BOOLEAN
  /\ task \in [ at : { "assemble", "preflight", "implement", "qa", "passed", "failed" },
                preflight : BOOLEAN, objected : BOOLEAN,
                quoted : SUBSET UNION { s.mentions : s \in Steps },
                loopbacks : 0..MaxQaLoopbacks, judge : { "none", "agent", "rules" } ]
  /\ evidence \in [ criteria : SUBSET Criteria, checks : SUBSET Checks ]

\* preflight: enabled and in a tier that asks for it.
Init ==
  /\ asked \in [ criteria : Intents, panel : Panels ]
  /\ plan = NoPlan /\ reviewed = FALSE
  /\ task \in [ at : {"assemble"}, preflight : BOOLEAN, objected : {FALSE}, quoted : {{}},
                loopbacks : {0}, judge : {"none"} ]
  /\ evidence = [ criteria |-> {}, checks |-> {} ]

-----------------------------------------------------------------------------
(* assemble *)

\* _detect_conflicts: they share an assumption, and each has one of its own.
Diverge(a, b) ==
  a \cap b # {} /\ a \ b # {} /\ b \ a # {}

\* _resolve_with_intent: a constraint that quotes an assumption of one settles it.
Unresolved(panel, constraints) ==
  { {p[1], p[2]} : p \in { q \in (DOMAIN panel) \X (DOMAIN panel) :
      LET a == panel[q[1]].assumptions  b == panel[q[2]].assumptions IN
      q[1] < q[2] /\ Diverge(a, b) /\ constraints \cap ((a \cup b) \ (a \cap b)) = {} } }

\* _build_qa_handoff.
HandoffOf(criterion, panel) ==
  LET said == Overlaps[criterion] \cap UNION { panel[i].validations : i \in DOMAIN panel }
  IN  IF said = {} THEN {criterion} ELSE said

StepsOf(panel) ==
  UNION { panel[i].recommendations \cup { Checkpoint[v] : v \in panel[i].validations }
          : i \in DOMAIN panel }

\* The rules' plan.  Its conflicts, with the refinement and the escalations they
\* call for, are left behind: the activity passes on what it reads in the output.
Assembled(constraints) ==
  [ steps |-> StepsOf(asked.panel),
    handoff |-> [ c \in asked.criteria |-> HandoffOf(c, asked.panel) ],
    conflicts |-> Unresolved(asked.panel, constraints) ]

\* The workflow does not look at an agent's conflicts either.
Assembles ==
  /\ task.at = "assemble"
  /\ plan' \in AgentPlans \cup { Assembled(task.quoted) }
  /\ task' = [ task EXCEPT !.at = IF task.preflight THEN "preflight" ELSE "implement" ]
  /\ reviewed' = FALSE
  /\ UNCHANGED << asked, evidence >>

-----------------------------------------------------------------------------
(* preflight *)

VagueSteps == { s \in plan.steps : s.vague }

\* _preflight_fallback: no criterion is ever uncovered, unless there are no steps.
Approves == plan.steps # {} /\ VagueSteps = {}

\* The first objection goes into the constraints of another assembly; after the
\* second one the workflow goes on with a warning.  The rules quote vague steps;
\* an agent may object to anything.
ObjectsTo(quoted) ==
  task' = [ task EXCEPT !.at = IF task.objected THEN "implement" ELSE "assemble",
                        !.objected = TRUE, !.quoted = quoted ]

Previews ==
  /\ task.at = "preflight"
  /\ reviewed' = TRUE
  /\ \/ task' = [ task EXCEPT !.at = "implement" ]      \* an agent, or Approves
     \/ ~Approves /\ ObjectsTo(UNION { s.mentions : s \in VagueSteps })
     \/ \E quoted \in SUBSET plan.steps : ObjectsTo(UNION { s.mentions : s \in quoted })
  /\ UNCHANGED << asked, plan, evidence >>

-----------------------------------------------------------------------------
(* implement_activity and qa_activity *)

\* Verification lets it through; what it is evidence for is a matter of the words
\* in its two values.
Implements ==
  /\ task.at = "implement"
  /\ evidence' \in [ criteria : SUBSET asked.criteria, checks : SUBSET Checks ]
  /\ task' = [ task EXCEPT !.at = "qa" ]
  /\ UNCHANGED << asked, plan, reviewed >>

\* The activity hands the steps over as one string with commas.  The rules take it
\* for a list and look for each of its characters, which no evidence satisfies.
Satisfied(checks) == checks = {}

\* Mutant: what is too vague to be judged is judged.
PassesVague(c) ==
  /\ c \in evidence.criteria
  /\ c \in DOMAIN plan.handoff => Satisfied(plan.handoff[c])

\* _validate_criterion; a vague criterion is a gap in the intent.
CriterionPasses(c) ==
  /\ c \notin Vague
  /\ c \in evidence.criteria
  /\ c \in DOMAIN plan.handoff => Satisfied(plan.handoff[c])

\* validate.
Validated == asked.criteria # {} /\ \A c \in asked.criteria : CriterionPasses(c)

Judged(passed, judge) ==
  task' = [ task EXCEPT !.judge = judge,
              !.at = IF passed THEN "passed"
                     ELSE IF task.loopbacks < MaxQaLoopbacks THEN "implement" ELSE "failed",
              !.loopbacks = IF ~passed /\ task.loopbacks < MaxQaLoopbacks THEN @ + 1 ELSE @ ]

\* An agent's verdict is what it says of the criteria it names, if any.
Judges ==
  /\ task.at = "qa"
  /\ Judged(Validated, "rules") \/ \E passed \in BOOLEAN : Judged(passed, "agent")
  /\ UNCHANGED << asked, plan, reviewed, evidence >>

Next == Assembles \/ Previews \/ Implements \/ Judges

Spec == Init /\ [][Next]_vars

-----------------------------------------------------------------------------
(* Properties *)

\* What the rules let pass was agreed on: there are criteria, each can be judged and
\* has evidence, so has everything that the plan which was implemented wants to be
\* validated of it, and where preflight is on it has looked at that very plan.
PassedAsAgreed ==
  task.at = "passed" /\ task.judge = "rules" =>
    /\ asked.criteria # {}
    /\ \A c \in asked.criteria :
         /\ c \in evidence.criteria \ Vague
         /\ c \in DOMAIN plan.handoff => plan.handoff[c] \subseteq evidence.checks
    /\ task.preflight => reviewed

-----------------------------------------------------------------------------
(* The inductive invariant of the proofs *)

\* Where preflight is on, it has looked at the plan that is being implemented.
LookedAt ==
  task.preflight /\ task.at \in { "implement", "qa", "passed", "failed" } => reviewed

IInv == TypeOK /\ LookedAt /\ PassedAsAgreed

=============================================================================
