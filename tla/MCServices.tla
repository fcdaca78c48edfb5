----------------------------- MODULE MCServices -----------------------------
(***************************************************************************)
(* Values of the constants of Services for TLC; numbers and plain sets are *)
(* in the configuration.                                                   *)
(***************************************************************************)
EXTENDS Services, Sequences, TLC

\* Execute on trial and for good, a rule that cannot be evaluated, one that is off.
Rule(priority, conditions, tier, active, dryRun) ==
  [ priority |-> priority, conditions |-> conditions, tier |-> tier,
    active |-> active, dryRun |-> dryRun ]
MCShapes == { Rule(1, {"met"}, "execute", TRUE, TRUE), Rule(2, {}, "execute", TRUE, FALSE),
              Rule(1, {"met", "broken"}, "execute", TRUE, FALSE),
              Rule(1, {}, "suggest", FALSE, FALSE) }
Packet(loopbacks, pattern, diffLines, changedLines) ==
  [ loopbacks |-> loopbacks, pattern |-> pattern,
    diffLines |-> diffLines, changedLines |-> changedLines ]
MCPackets == { Packet(FALSE, FALSE, "absent", "absent"), Packet(TRUE, FALSE, "absent", "absent"),
               Packet(FALSE, FALSE, "zero", "many"), Packet(FALSE, TRUE, "few", "many") }

\* A call of each kind the class depends on.
Context(step, security, execute, complex) ==
  [ step |-> step, security |-> security, execute |-> execute, complex |-> complex ]
MCContexts == { Context("assembler", FALSE, FALSE, FALSE), Context("assembler", TRUE, FALSE, FALSE),
                Context("preflight", TRUE, TRUE, FALSE), Context("preflight", FALSE, FALSE, TRUE),
                Context("primary_agent", FALSE, TRUE, FALSE) }
MCClassOf == [ p \in Providers |-> p ]

\* Labels that every rule of intake has an answer to, and none; experts of which
\* a template's name may be another's already.
MCLabelLists == { << "agent:run", "type:bug", "risk:auth", "risk:infra" >>, << "agent:run" >> }
MCAnswers == { [ role |-> "planner", overlays |-> { "security", "compliance", "billing" } ] }
ExpertRow(state, class, tags, tier) ==
  [ state |-> state, class |-> class, tags |-> tags, tier |-> tier, version |-> 1 ]
Nobody == [ state |-> "none", class |-> "none", tags |-> "none", tier |-> "none", version |-> 0 ]
MCSeedRows == { Nobody, ExpertRow("active", "security", "some", "trusted"),
                ExpertRow("deprecated", "security", "all", "probation"),
                ExpertRow("active", "qa_validation", "all", "shadow") }
MCTemplateName == "qa_validation" :> 1 @@ "security" :> 2

MCIssueTexts == [ goal : { 0, 100 }, criteria : { 0, 100 }, scope : { 0, 70 },
                  risks : { {}, {"risk_data"} }, repro : { 0, 1 }, deps : {FALSE} ]

\* One criterion that can be judged and one that cannot; a plan of nothing, of
\* what agents say, and of two experts who disagree.
VagueStep == [ vague |-> TRUE, mentions |-> {"a"} ]
Check == [ vague |-> FALSE, mentions |-> {} ]
Said(recommendations, validations, assumptions) ==
  [ recommendations |-> recommendations, validations |-> validations, assumptions |-> assumptions ]
NoHandoff == [ c \in {} |-> {} ]
MCOverlaps == "clear" :> {"v"} @@ "short" :> {}
MCSteps == { VagueStep, Check }
MCCheckpoint == "v" :> Check
MCPanels == { << >>, << Said(MCSteps, {"v"}, { "s", "a" }), Said({}, {}, { "s", "b" }) >> }
MCAgentPlans == { [ steps |-> s, handoff |-> h, conflicts |-> {} ] :
                    s \in SUBSET MCSteps,
                    h \in { NoHandoff, ( "clear" :> {} ), ( "clear" :> {"v"} ) } }

\* Confidence needs more samples than a tier does, as in the code.
MCMinSamples == "to_probation" :> 1 @@ "to_trusted" :> 2
             @@ "from_trusted" :> 2 @@ "from_probation" :> 1
MCConfidentFrom == 30 :> 3 @@ 50 :> 3 @@ 60 :> 4

\* A project without a field for the tier, and one without an option for a tier.
BoardRow(status, tier) == [ status |-> status, tier |-> tier ]
MCBoardRows == { BoardRow("received", "suggest"), BoardRow("received", "execute"),
                 BoardRow("published", "none") }
BoardFields == { "Status", "Automation Tier", "Complexity", "Cost" }
ProjectWith(fields, field, options) ==
  [ fields |-> fields, options |-> [ f \in BoardFields |-> IF f = field THEN options ELSE {} ] ]
MCProjects == { ProjectWith({ "Status", "Complexity" }, "Status", {"Done"}),
                ProjectWith({ "Automation Tier", "Cost" }, "Automation Tier", { "Observe", "Suggest" }) }

\* Boards that every rule of the review has something to say to, and one that is
\* longer than a page.
Card(name, status, risk, repo) ==
  [ name |-> name, status |-> status, risk |-> risk, repo |-> repo ]
MCBoards == { {}, { Card(1, "In Progress", "High", "a"), Card(2, "In Progress", "High", "b") },
              { Card(1, "Queued", "Low", "a"), Card(2, "Blocked", "Low", "b"),
                Card(3, "Done", "High", "a") } }

\* Two stages, two signals, and an approval that people do not give.
MCPlans == { { << "comment", 1 >>, << "comment", 2 >> }, { << "audit", 1 >>, << "audit", 2 >> },
             { << "request", 1 >>, << "board", 2 >>, << "escalation", 3 >> } }
MCJobTries == [ k \in { "comment", "audit", "request", "escalation", "board" } |-> 2 ]

\* A repository GitHub's facts speak for, and one without rulesets.
MCFacts == { { "rulesets", "reviewers", "protection", "labels", "policy" },
             { "reviewers", "protection", "labels", "policy" } }

\* Issues are told apart by the times of their updates; the others are alike.
Alike == Permutations(Requests) \cup Permutations(Runs) \cup Permutations(Tasks)
           \cup Permutations(Rules) \cup Permutations(Handlers) \cup Permutations(Issues)

=============================================================================
