------------------------------- MODULE Board -------------------------------
(***************************************************************************)
(* The GitHub Projects board that shows the tasks, and the endpoint that   *)
(* pushes all active tasks to it: force_projects_sync of                   *)
(* src/dashboard/github_router.py, through src/github/projects_client.py,  *)
(* which looks the project up once and keeps its fields.                   *)
(*                                                                         *)
(* The workflow's own announcements (update_project_status_activity) do    *)
(* not reach the board: start_workflow hands over no item, and without one *)
(* the activity has nothing to update.                                     *)
(***************************************************************************)
EXTENDS Naturals, Sequences

CONSTANTS
  Tasks,
  Syncs,          \* requests of force_projects_sync
  Rows,           \* the rows a task may start with
  Projects,       \* how people may have set the project up: its fields and the options of each
  MaxDisturbances \* bound: calls that fail, rows that change, what people do

VARIABLES
  row,      \* status and task_trust_tier of each task's row
  project,  \* the project's fields and the options of each
  item,     \* what the items show; a task without an item is not in its domain
  sync,     \* the requests of force_projects_sync
  noted,    \* tasks of which the server noted that a person marked them done
  disturbances

vars == << row, project, item, sync, noted, disturbances >>

-----------------------------------------------------------------------------
(* src/github/projects_mapping.py *)

\* The keys are in upper case, as the workflow announces them; a row's status is not.
StatusMapping ==
  [ RECEIVED |-> "Queued", ENRICHED |-> "Queued", INTENT_BUILT |-> "In Progress",
    IN_PROGRESS |-> "In Progress", VERIFICATION_PASSED |-> "In Progress",
    AWAITING_APPROVAL |-> "In Review", CLARIFICATION_REQUESTED |-> "Blocked",
    HUMAN_REVIEW_REQUIRED |-> "Blocked", PUBLISHED |-> "Done", FAILED |-> "Done",
    REJECTED |-> "Done" ]
TierMapping == [ observe |-> "Observe", suggest |-> "Suggest", execute |-> "Execute" ]
ComplexityMapping == [ low |-> "Low", medium |-> "Medium", high |-> "High" ]

Mapped(mapping, key) == IF key \in DOMAIN mapping THEN mapping[key] ELSE "none"

ValuesOf(mapping) == { mapping[key] : key \in DOMAIN mapping }
Fields == { "Status", "Automation Tier", "Complexity", "Cost" }
Options == ValuesOf(StatusMapping) \cup ValuesOf(TierMapping) \cup ValuesOf(ComplexityMapping)

\* The rows as list_active gives them, and a project's fields with their options.
TaskRows == [ status : { "received", "published" }, tier : DOMAIN TierMapping \cup {"none"} ]
ProjectSetups == [ fields : SUBSET Fields, options : [ Fields -> SUBSET Options ] ]
Showing == [ Fields -> Options \cup {"none"} ]

BoardAssumption ==
  /\ Projects \subseteq ProjectSetups
  /\ Rows \subseteq TaskRows
  /\ MaxDisturbances \in Nat

-----------------------------------------------------------------------------
Blank == [ f \in Fields |-> "none" ]
NotFound == [ fields |-> {}, options |-> [ f \in Fields |-> {} ] ]
Idle == [ at |-> "idle", left |-> {}, rows |-> << >>, cached |-> NotFound, todo |-> << >>,
          task |-> "none", failed |-> FALSE, calm |-> FALSE ]

TypeOK ==
  /\ row \in [ Tasks -> TaskRows ]
  /\ project \in ProjectSetups
  /\ DOMAIN item \subseteq Tasks /\ item \in [ DOMAIN item -> Showing ]
  /\ sync \in [ Syncs -> [ at : { "idle", "find", "cost", "complexity", "walk", "set" },
                           left : SUBSET Tasks, rows : [ Tasks -> TaskRows ] \cup {<< >>},
                           cached : ProjectSetups, todo : Seq(Fields \X Options),
                           task : Tasks \cup {"none"}, failed : BOOLEAN, calm : BOOLEAN ] ]
  /\ noted \subseteq Tasks
  /\ disturbances \in 0..MaxDisturbances

Init ==
  /\ row \in [ Tasks -> Rows ]
  /\ project \in Projects
  /\ item = [ t \in {} |-> Blank ]
  /\ sync = [ s \in Syncs |-> Idle ]
  /\ noted = {}
  /\ disturbances = 0

-----------------------------------------------------------------------------
(* The surroundings *)

\* What others do while a request is at work makes its answer one of the past.
Unsettled(requests) ==
  [ s \in Syncs |-> IF s \in requests THEN [ sync[s] EXCEPT !.calm = FALSE ] ELSE sync[s] ]

Disturbance == disturbances < MaxDisturbances /\ disturbances' = disturbances + 1

RowChanges(t) ==
  /\ Disturbance
  /\ \E r \in Rows : r # row[t] /\ row' = [ row EXCEPT ![t] = r ]
  /\ sync' = Unsettled(Syncs)
  /\ UNCHANGED << project, item, noted >>

\* handle_projects_v2_item_event hears of every change: what is its own
\* (is_self_triggered), or not of the status, it skips; a task that is marked
\* done it notes, and changes nothing.
Heard(t, field, value, person) ==
  IF person /\ field = "Status" /\ value = "Done" THEN noted \cup {t} ELSE noted

Sets(t, field, value, person) ==
  /\ item' = [ item EXCEPT ![t][field] = value ]
  /\ noted' = Heard(t, field, value, person)

PersonSets(t) ==
  /\ Disturbance
  /\ t \in DOMAIN item
  /\ \E f \in project.fields : \E v \in project.options[f] : Sets(t, f, v, TRUE)
  /\ sync' = Unsettled(Syncs)
  /\ UNCHANGED << row, project >>

PersonRemoves(t) ==
  /\ Disturbance
  /\ t \in DOMAIN item
  /\ item' = [ u \in DOMAIN item \ {t} |-> item[u] ]
  /\ sync' = Unsettled(Syncs)
  /\ UNCHANGED << row, project, noted >>

-----------------------------------------------------------------------------
(* force_projects_sync *)

\* list_active
ActiveTasks == { t \in Tasks : row[t].status # "published" }

\* The rows are read once; the session does not read them again.
Lists(s) ==
  /\ sync[s] = Idle
  /\ sync' = [ sync EXCEPT ![s] =
       [ Idle EXCEPT !.at = "find", !.rows = row, !.calm = TRUE,
                     !.left = ActiveTasks ] ]
  /\ UNCHANGED << row, project, item, noted, disturbances >>

\* find_project asks GitHub once and then answers from its cache.
Finds(s) ==
  /\ sync[s].at = "find"
  /\ sync' = [ sync EXCEPT ![s].at = "cost", ![s].cached = project ]
  /\ UNCHANGED << row, project, item, noted, disturbances >>

\* ensure_cost_and_complexity_fields puts what it created beside what was found.
Cached(cached, field, options) ==
  [ fields |-> cached.fields \cup {field},
    options |-> [ cached.options EXCEPT ![field] = options ] ]

\* create_custom_field: GitHub refuses a field that another request has created
\* meanwhile, and the request ends.
Ensures(s, step, field, options, next) ==
  /\ sync[s].at = step
  /\ IF field \in sync[s].cached.fields
     THEN sync' = [ sync EXCEPT ![s].at = next ] /\ UNCHANGED project
     ELSE IF field \in project.fields
     THEN sync' = [ sync EXCEPT ![s] = Idle ] /\ UNCHANGED project
     ELSE /\ project' = Cached(project, field, options)
          /\ sync' = [ Unsettled(Syncs \ {s}) EXCEPT
                         ![s].at = next, ![s].cached = Cached(@, field, options) ]
  /\ UNCHANGED << row, item, noted, disturbances >>

EnsuresCost(s) == Ensures(s, "cost", "Cost", {}, "complexity")
EnsuresComplexity(s) == Ensures(s, "complexity", "Complexity", ValuesOf(ComplexityMapping), "walk")

\* What is to be set for a row: what maps to something and has a field.  The
\* complexity is looked for under "level" and is never there: compute_complexity_index
\* writes a score, a band and dimensions.
Push(field, value, cached) ==
  IF value # "none" /\ field \in cached.fields THEN << << field, value >> >> ELSE << >>

Pushed(r, cached) ==
  Push("Status", Mapped(StatusMapping, r.status), cached)
    \o Push("Automation Tier", Mapped(TierMapping, r.tier), cached)

\* The issue's node id is asked for and added; what is there already stays.
Adds(s) ==
  /\ sync[s].at = "walk"
  /\ \E t \in sync[s].left :
       /\ item' = [ u \in DOMAIN item \cup {t} |-> IF u \in DOMAIN item THEN item[u] ELSE Blank ]
       /\ sync' = [ Unsettled(IF t \in DOMAIN item THEN {} ELSE Syncs \ {s}) EXCEPT
                      ![s].at = "set", ![s].task = t, ![s].left = @ \ {t},
                      ![s].todo = Pushed(sync[s].rows[t], sync[s].cached) ]
  /\ UNCHANGED << row, project, noted, disturbances >>

\* Mutant: a task's error is logged and not collected.
NextTaskUnheard(s, errors) ==
  sync' = [ sync EXCEPT ![s].at = "walk", ![s].task = "none", ![s].todo = << >> ]

NextTask(s, errors) ==
  sync' = [ sync EXCEPT ![s].at = "walk", ![s].task = "none", ![s].todo = << >>,
                        ![s].failed = @ \/ errors ]

\* set_field_value, one field after the other: an option the project does not
\* have, or an item that is gone, is an error of this task.
Pushes(s) ==
  /\ sync[s].at = "set"
  /\ IF sync[s].todo = << >>
     THEN NextTask(s, FALSE) /\ UNCHANGED << item, noted >>
     ELSE LET t == sync[s].task
              field == Head(sync[s].todo)[1]
              value == Head(sync[s].todo)[2] IN
          IF t \in DOMAIN item /\ value \in sync[s].cached.options[field]
          THEN /\ Sets(t, field, value, FALSE)
               /\ sync' = [ Unsettled(Syncs \ {s}) EXCEPT ![s].todo = Tail(@) ]
          ELSE NextTask(s, TRUE) /\ UNCHANGED << item, noted >>
  /\ UNCHANGED << row, project, disturbances >>

\* A call that fails ends the request, and from the first task on that task's turn.
CallFails(s) ==
  /\ Disturbance
  /\ \/ sync[s].at \in { "find", "cost", "complexity" } /\ sync' = [ sync EXCEPT ![s] = Idle ]
     \/ /\ sync[s].at = "walk"
        /\ \E t \in sync[s].left :
             sync' = [ sync EXCEPT ![s].left = @ \ {t}, ![s].failed = TRUE ]
     \/ sync[s].at = "set" /\ NextTask(s, TRUE)
  /\ UNCHANGED << row, project, item, noted >>

\* The answer, with the errors of the tasks.
Answers(s) ==
  /\ sync[s].at = "walk" /\ sync[s].left = {}
  /\ sync' = [ sync EXCEPT ![s] = Idle ]
  /\ UNCHANGED << row, project, item, noted, disturbances >>

Next ==
  \/ \E t \in Tasks : RowChanges(t) \/ PersonSets(t) \/ PersonRemoves(t)
  \/ \E s \in Syncs : \/ Lists(s) \/ Finds(s) \/ EnsuresCost(s) \/ EnsuresComplexity(s)
                      \/ Adds(s) \/ Pushes(s) \/ CallFails(s) \/ Answers(s)

Spec == Init /\ [][Next]_vars

-----------------------------------------------------------------------------
(* Properties *)

\* The item of a task shows its tier, where the project has a field for it.
Shows(t) ==
  /\ t \in DOMAIN item
  /\ LET tier == Mapped(TierMapping, row[t].tier) IN
     "Automation Tier" \in project.fields /\ tier # "none"
       => item[t]["Automation Tier"] = tier

\* A request that answers without errors, and met nobody else at work, leaves
\* every active task on the board with its tier, on a project that has both of
\* the fields.  (Never with its status or its complexity, which map to nothing.)
AnsweredIsShown ==
  \A s \in Syncs :
    Answers(s) /\ ~sync[s].failed /\ sync[s].calm
      => /\ { "Cost", "Complexity" } \subseteq project.fields
         /\ \A t \in ActiveTasks : Shows(t)

SyncIsWhole == [][AnsweredIsShown]_vars

-----------------------------------------------------------------------------
(* The inductive invariant of the proofs *)

\* A request that met nobody else has what is there, and every active task whose turn
\* is over is shown, but for the one whose tier is still to be set.
IsCurrent(c) ==
  /\ c.at # "idle" /\ c.rows = row
  /\ c.at # "find" => c.cached = project
  /\ ~c.failed => \A t \in ActiveTasks \ c.left :
                    Shows(t) \/ (c.at = "set" /\ c.task = t /\ c.todo # << >>)

\* Of the fields only the tier is ever set.
TierPush(c) == << << "Automation Tier", Mapped(TierMapping, c.rows[c.task].tier) >> >>
SyncOK(c) ==
  /\ c.at # "idle" => c.rows \in [ Tasks -> TaskRows ]
  /\ c.at \in { "complexity", "walk", "set" } => "Cost" \in c.cached.fields
  /\ c.at \in { "walk", "set" } => "Complexity" \in c.cached.fields
  /\ c.at = "set" => c.task \in Tasks /\ c.todo \in { << >>, TierPush(c) }
  /\ c.todo # << >> => c.at = "set" /\ "Automation Tier" \in c.cached.fields
  /\ c.calm => IsCurrent(c)

IInv == TypeOK /\ \A s \in Syncs : SyncOK(sync[s])

=============================================================================
