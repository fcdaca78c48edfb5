---------------------------- MODULE Consultation ----------------------------
(***************************************************************************)
(* From an issue's labels to a plan of experts: the rules of intake        *)
(* (src/intake), the router (src/routing), and the recruiter that fills    *)
(* the gaps it reports (src/recruiting), while others work on the library. *)
(*                                                                         *)
(* The rules are what the agents of these steps fall back on.  An agent may *)
(* answer any role and overlays instead.  The application's router activity *)
(* hands route() no experts and drops its requests, and only tests recruit: *)
(* here the task is planned, recruits what is missing, and is planned again.  *)
(*                                                                         *)
(* Experts have numbers, in the order of their names.                      *)
(***************************************************************************)
EXTENDS Naturals, FiniteSets, Sequences, SequencesExt

CONSTANTS
  Issues,          \* lists of labels
  Answers,         \* what an agent may classify: roles with their overlays
  FlagSets,        \* sets of risk flags
  SeedRows,        \* the rows experts may have at first
  Experts,         \* numbers; TemplateNames are among them
  TemplateName,    \* class -> the name _generate_name gives its template's expert
  Confidences,     \* what the reputation lookup may answer, per cent; weight is 100
  MaxVersion       \* bound

RoleOfLabel == [ l \in { "type:bug", "type:refactor" } |->
                   IF l = "type:bug" THEN "developer" ELSE "architect" ]
OverlayOfLabel ==
  [ l \in { "risk:auth", "risk:compliance", "risk:billing", "risk:infra", "risk:partner-api",
            "risk:migration" } |->
      CASE l = "risk:auth" -> "security" [] l = "risk:compliance" -> "compliance"
        [] l = "risk:billing" -> "billing" [] l = "risk:infra" -> "infra"
        [] l = "risk:partner-api" -> "partner_api" [] l = "risk:migration" -> "migration" ]
MaxExperts == [ developer |-> 3, architect |-> 5, planner |-> 2 ]
ExpertsOfOverlay == [ security |-> "security", compliance |-> "compliance",
                      billing |-> "business", partner_api |-> "partner", infra |-> "technical" ]
Overlays == DOMAIN ExpertsOfOverlay \cup {"migration"}
ClassOrder == << "business", "compliance", "partner", "qa_validation", "security", "technical" >>
Classes == { "business", "compliance", "partner", "qa_validation", "security", "technical" }
HighRisk == { "risk_privileged_access", "risk_destructive" }
TierScore == [ shadow |-> 1, probation |-> 2, trusted |-> 3 ]

NoRow == [ state |-> "none", class |-> "none", tags |-> "none", tier |-> "none", version |-> 0 ]
Rows == [ state : { "active", "deprecated", "retired" }, class : Classes,
          tags : { "all", "some" }, tier : DOMAIN TierScore, version : 1..MaxVersion ] \cup {NoRow}

ConsultationAssumption ==
  /\ Experts \subseteq Nat
  /\ DOMAIN TemplateName \subseteq Classes
  /\ \A c \in DOMAIN TemplateName : TemplateName[c] \in Experts
  /\ \A i \in Issues : i \in Seq(STRING) /\ IsInjective(i)
  /\ \A answer \in Answers : answer.role \in DOMAIN MaxExperts /\ answer.overlays \subseteq Overlays
  /\ SeedRows \subseteq Rows
  /\ Confidences \subseteq 0..100
  /\ MaxVersion \in Nat \ {0}

VARIABLES
  library,    \* rows of the table experts
  task        \* what one task's activities and its batch of requests have come to

vars == << library, task >>
NoPlan == [ required |-> {}, budget |-> 0, best |-> {}, requested |-> {},
            high |-> FALSE, escalations |-> {} ]

TypeOK ==
  /\ library \in [ Experts -> Rows ]
  /\ task \in
       [ at : { "new", "rejected", "classified", "recruiting", "search", "revive",
                "batched", "failed", "planned" },
         role : DOMAIN MaxExperts, overlays : SUBSET Overlays,
         plan : [ required : SUBSET Classes, budget : Nat, best : SUBSET Experts,
                  requested : SUBSET Classes, high : BOOLEAN,
                  escalations : SUBSET { "critical", "high" } ],
         todo : SUBSET Classes, created : SUBSET Experts,
         found : [ expert : Experts \cup {0}, version : 0..MaxVersion ] ]

Init ==
  /\ library \in [ Experts -> SeedRows ]
  /\ \A e \in Experts : \A c \in DOMAIN TemplateName :
       TemplateName[c] = e /\ library[e] # NoRow => library[e].class = c /\ library[e].tags = "all"
  /\ task = [ at |-> "new", role |-> "developer", overlays |-> {}, plan |-> NoPlan, todo |-> {},
              found |-> [ expert |-> 0, version |-> 0 ], created |-> {} ]

-----------------------------------------------------------------------------
(* Intake: evaluate_eligibility, or the agent *)

\* _select_base_role: the first label with a type.
BaseRole(labels) ==
  LET typed == { i \in DOMAIN labels : labels[i] \in DOMAIN RoleOfLabel }
  IN  IF typed = {} THEN "developer"
      ELSE RoleOfLabel[labels[CHOOSE i \in typed : \A j \in typed : i <= j]]

SelectedOverlays(labels) ==
  { OverlayOfLabel[l] : l \in ToSet(labels) \cap DOMAIN OverlayOfLabel }

\* What the rules check before they classify: label, repository, active
\* workflow, and text that must be blocked.
Eligible(labels, repo, text) == "agent:run" \in ToSet(labels) /\ repo = "free" /\ text # "block"

\* What detect_suspicious_patterns may find in the text.
Findings == { "block", "warning", "clean" }

Rejects ==
  /\ task.at = "new"
  /\ task' = [ task EXCEPT !.at = "rejected" ]
  /\ UNCHANGED library

Classifies ==
  /\ task.at = "new"
  /\ \/ \E labels \in Issues :
          /\ \E repo \in { "unregistered", "paused", "busy", "free" }, text \in Findings :
               Eligible(labels, repo, text)
          /\ task' = [ task EXCEPT !.at = "classified", !.role = BaseRole(labels),
                                   !.overlays = SelectedOverlays(labels) ]
     \/ \E answer \in Answers :
          task' = [ task EXCEPT !.at = "classified", !.role = answer.role,
                                !.overlays = answer.overlays ]
  /\ UNCHANGED library

-----------------------------------------------------------------------------
(* The role's policy and the plan: EffectiveRolePolicy.compute, route *)

MandatoryClasses(overlays) ==
  { ExpertsOfOverlay[o] : o \in overlays \cap DOMAIN ExpertsOfOverlay }
    \cup (IF overlays = {} THEN {} ELSE {"qa_validation"})

RequiredClasses(overlays, flags) ==
  MandatoryClasses(overlays) \cup (IF flags = {} THEN {} ELSE {"qa_validation"})

\* _compute_selection_score: the tier's score times 1 + weight * confidence.
Score(row, confidence) == TierScore[row.tier] * (100 + confidence)

Available(e) == library[e].state = "active" /\ library[e].tier # "shadow"

\* Of the best the first in the order of search_experts: by tier, then by name.
Before(e, f) ==
  \/ TierScore[library[e].tier] > TierScore[library[f].tier]
  \/ library[e].tier = library[f].tier /\ e <= f

Best(class, confidence) ==
  LET candidates == { e \in Experts : Available(e) /\ library[e].class = class }
      top == { e \in candidates : \A f \in candidates :
                 Score(library[f], confidence[f]) <= Score(library[e], confidence[e]) }
  IN  { e \in top : \A f \in top : Before(e, f) }

Requesting(plan, class) == [ plan EXCEPT !.requested = @ \cup {class} ]
Selecting(plan, best) == [ plan EXCEPT !.best = @ \cup best, !.budget = @ - 1 ]

\* Mutant: a request takes a place in the budget.
NextClassCounted(plan, class, confidence) ==
  LET best == Best(class, confidence) IN
  IF plan.budget = 0 THEN plan
  ELSE IF best = {} THEN [ Requesting(plan, class) EXCEPT !.budget = @ - 1 ]
  ELSE Selecting(plan, best)

\* One turn of the loop over the required classes; without budget it ends.
NextClass(plan, class, confidence) ==
  LET best == Best(class, confidence) IN
  IF plan.budget = 0 THEN plan
  ELSE IF best = {} THEN Requesting(plan, class) ELSE Selecting(plan, best)

Covered(plan) == { library[e].class : e \in plan.best }

\* Only for the two flags of a high risk.
Escalations(plan, confidence) ==
  { s \in { "critical", "high" } :
      /\ plan.high
      /\ IF s = "critical" THEN plan.budget = 0 /\ plan.required \ Covered(plan) # {}
                           ELSE \E e \in plan.best : confidence[e] < 70 }

\* The classes in the order of their names.
Route(role, overlays, flags, confidence) ==
  LET required == RequiredClasses(overlays, flags)
      Turn(plan, class) == IF class \in required THEN NextClass(plan, class, confidence) ELSE plan
      start == [ required |-> required, budget |-> MaxExperts[role], best |-> {}, requested |-> {},
                 high |-> flags \cap HighRisk # {}, escalations |-> {} ]
      plan == Turn(Turn(Turn(Turn(Turn(Turn(start, "business"), "compliance"), "partner"),
                             "qa_validation"), "security"), "technical")
  IN  [ plan EXCEPT !.escalations = Escalations(plan, confidence) ]

\* Without a lookup, or where it knows nothing, the confidence is 0.
Routes ==
  /\ task.at \in { "classified", "batched" }
  /\ \E flags \in FlagSets, confidence \in [ Experts -> Confidences ] :
       LET plan == Route(task.role, task.overlays, flags, confidence) IN
       task' = [ task EXCEPT !.plan = plan, !.todo = plan.requested,
                   !.at = IF @ = "classified" THEN "recruiting" ELSE "planned" ]
  /\ UNCHANGED library

-----------------------------------------------------------------------------
(* recruit_batch, in the order of the requests *)

FirstOf(classes) ==
  ClassOrder[CHOOSE i \in DOMAIN ClassOrder :
    ClassOrder[i] \in classes /\ \A j \in 1..(i - 1) : ClassOrder[j] \notin classes]

NextRequest == FirstOf(task.todo)
Handled == [ task EXCEPT !.todo = @ \ {NextRequest}, !.at = "recruiting" ]

\* Every template passes the qualification, whatever the request: it has all the
\* parts of a definition and denies the two suites.
Qualifies(class) == class \in DOMAIN TemplateName

\* An active expert with all the tags is enough, whatever its tier.  Otherwise a
\* template is needed, which two classes have.
LooksForExisting ==
  /\ task.at = "recruiting" /\ task.todo # {}
  /\ LET class == NextRequest
         existing == { e \in Experts : /\ library[e].state = "active" /\ library[e].class = class
                                       /\ library[e].tags = "all" }
     IN  task' = IF existing # {} \/ ~Qualifies(class)
                   THEN Handled ELSE [ task EXCEPT !.at = "search" ]
  /\ UNCHANGED library

\* Another query: with deprecated experts, of any overlap.  The first is revived:
\* it gets a version and stays deprecated.
LooksForDeprecated ==
  LET deprecated == { e \in Experts : library[e].state = "deprecated"
                                        /\ library[e].class = NextRequest }
  IN  /\ task.at = "search" /\ deprecated # {}
      /\ \E e \in deprecated :
           /\ \A f \in deprecated : Before(e, f)
           /\ task' = [ task EXCEPT !.at = "revive", !.found =
                          [ expert |-> e, version |-> library[e].version ] ]
      /\ UNCHANGED library

\* The session has the row already: the version is the one it saw.
Revives ==
  LET found == task.found IN
  /\ task.at = "revive" /\ found.version < MaxVersion
  /\ library' = [ library EXCEPT ![found.expert].version = found.version + 1 ]
  /\ task' = Handled

NewExpert(class) ==
  [ state |-> "active", class |-> class, tags |-> "all", tier |-> "probation", version |-> 1 ]

\* The name is unique among rows of every state: a second insert raises, and the
\* requests after it are lost with the batch.
Creates ==
  LET class == NextRequest  name == TemplateName[class] IN
  /\ task.at = "search"
  /\ \A e \in Experts : library[e].state = "deprecated" => library[e].class # class
  /\ IF library[name] = NoRow
       THEN /\ library' = [ library EXCEPT ![name] = NewExpert(class) ]
            /\ task' = [ Handled EXCEPT !.created = @ \cup {name} ]
       ELSE task' = [ task EXCEPT !.at = "failed" ] /\ UNCHANGED library

BatchEnds ==
  /\ task.at = "recruiting" /\ task.todo = {}
  /\ task' = [ task EXCEPT !.at = "batched" ]
  /\ UNCHANGED library

\* deprecate_expert, retire_expert: from any state.
Withdraws(e) ==
  /\ library[e] # NoRow
  /\ \E s \in { "deprecated", "retired" } : library' = [ library EXCEPT ![e].state = s ]
  /\ UNCHANGED task

\* The batch of another task.
RecruitedElsewhere(e) ==
  /\ library[e] = NoRow
  /\ \E c \in DOMAIN TemplateName :
       /\ TemplateName[c] = e
       /\ library' = [ library EXCEPT ![e] = NewExpert(c) ]
  /\ UNCHANGED task

Next ==
  \/ Rejects \/ Classifies \/ Routes
  \/ LooksForExisting \/ LooksForDeprecated \/ Revives \/ Creates \/ BatchEnds
  \/ \E e \in Experts : Withdraws(e) \/ RecruitedElsewhere(e)

Spec == Init /\ [][Next]_vars

-----------------------------------------------------------------------------
(* Properties *)

\* Every class the role or the risk demands is covered by somebody eligible, or
\* asked of the recruiter because nobody is, or left because the budget is used up
\* by as many others, which a high risk escalates.  And whoever was recruited for
\* the task covers the class when it is planned again, if still there.
PlanAccounts ==
  task'.plan # task.plan =>
    LET plan == task'.plan
        left == plan.required \ (Covered(plan) \cup plan.requested)
    IN  /\ plan.budget + Cardinality(plan.best) = MaxExperts[task.role]
        /\ \A e \in plan.best : Available(e)
        /\ \A c \in plan.requested : \A e \in Experts : Available(e) => library[e].class # c
        /\ left # {} => plan.budget = 0
        /\ left # {} /\ plan.high => "critical" \in plan.escalations
        /\ \A e \in task.created :
             library[e].state = "active" => library[e].class \notin plan.requested

PlansAreComplete == [][PlanAccounts]_vars

-----------------------------------------------------------------------------
(* The inductive invariant of the proofs *)

\* The template of the class that is recruited is known, what is to be revived is there,
\* and who was recruited is there, and not in shadow.
RecruitsOK ==
  /\ task.at \in { "search", "revive" } => NextRequest \in DOMAIN TemplateName
  /\ task.at = "revive" =>
       /\ task.found.expert \in Experts /\ task.found.version \in 1..MaxVersion
       /\ library[task.found.expert] # NoRow
  /\ \A e \in task.created : library[e] # NoRow /\ library[e].tier # "shadow"

IInv == TypeOK /\ RecruitsOK

=============================================================================
