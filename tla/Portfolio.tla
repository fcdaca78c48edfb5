----------------------------- MODULE Portfolio -----------------------------
(***************************************************************************)
(* Meridian's periodic review of the GitHub Projects board (src/meridian): *)
(* an activity reads the board, lets an agent or a set of rules judge it,  *)
(* stores the review, and keeps one open issue that shows it.  Temporal    *)
(* repeats the activity when it times out, and does not stop the attempt   *)
(* that did; its own failures the activity swallows.                       *)
(*                                                                         *)
(* The application registers neither the workflow nor the activity; both   *)
(* are taken as the tests call them.                                       *)
(***************************************************************************)
EXTENDS Naturals, Sequences, FiniteSets, FiniteSetsExt

CONSTANTS
  Boards,      \* the boards people may keep: sets of items
  PageSize,    \* get_project_items reads that many and no further page
  BlockedPercent, MaxHighRisk, RepoPercent,  \* settings.meridian_thresholds
  MaxAttempts, \* RetryPolicy of the workflow
  MaxReviews,  \* bound: runs of the workflow
  MaxTroubles  \* bound: calls that fail, time-outs, issues people close

PortfolioAssumption ==
  /\ \A b \in Boards : \A i \in b :
       i.status \in { "Queued", "In Progress", "In Review", "Blocked", "Done", "none" }
  /\ { PageSize, BlockedPercent, MaxHighRisk, RepoPercent, MaxTroubles } \subseteq Nat
  /\ MaxAttempts \in Nat \ {0} /\ MaxReviews \in Nat \ {0}

VARIABLES
  board,     \* the items of the project
  reviews,   \* how many runs of the workflow there were
  attempt,   \* the attempts at work
  result,    \* what the latest run answered
  stored,    \* the reviews in the database, by run
  reports,   \* the issues: which run each shows, and whether it is open
  calm,      \* history: nothing went wrong, or on from earlier, in the latest run
  troubles

vars == << board, reviews, attempt, result, stored, reports, calm, troubles >>

-----------------------------------------------------------------------------
(* The rules, _portfolio_fallback of src/meridian/portfolio_config.py *)

Flag(category, severity) == [ category |-> category, severity |-> severity ]

In(items, status) == { i \in items : i.status = status }
Active(items) == { i \in items : i.status \notin { "Done", "none" } }
OverPercent(part, whole, percent) == Cardinality(part) * 100 > Cardinality(whole) * percent

Throughput(items) ==
  IF ~OverPercent(In(items, "Blocked"), Active(items), BlockedPercent) THEN {}
  ELSE { Flag("throughput", IF OverPercent(In(items, "Blocked"), Active(items), 40)
                            THEN "high" ELSE "medium") }

RiskConcentration(items) ==
  IF Cardinality({ i \in In(items, "In Progress") : i.risk = "High" }) > MaxHighRisk
  THEN { Flag("risk_concentration", "high") } ELSE {}

ApprovalBottleneck(items) ==
  LET n == Cardinality(In(items, "In Review")) IN
  IF n = 0 THEN {} ELSE { Flag("approval_bottleneck", IF n <= 2 THEN "low" ELSE "medium") }

RepoBalance(items) ==
  IF /\ Cardinality(Active(items)) > 1
     /\ \E r \in { i.repo : i \in Active(items) } :
          OverPercent({ i \in Active(items) : i.repo = r }, Active(items), RepoPercent)
  THEN { Flag("repo_balance", "medium") } ELSE {}

StaleItems(items) ==
  LET n == Cardinality(In(items, "Queued")) IN
  IF n = 0 THEN {} ELSE { Flag("stale_items", IF n <= 3 THEN "low" ELSE "medium") }

\* The rate of failures is taken from the state an issue has at GitHub, which is
\* never FAILED: it raises no flag.
Flags(items) ==
  Throughput(items) \cup RiskConcentration(items) \cup ApprovalBottleneck(items)
    \cup RepoBalance(items) \cup StaleItems(items)

Health(items) ==
  IF \E f \in Flags(items) : f.severity = "high" THEN "critical"
  ELSE IF Flags(items) # {} THEN "warning" ELSE "healthy"

Healths == { "healthy", "warning", "critical" }

-----------------------------------------------------------------------------
NoResult == [ persisted |-> FALSE, posted |-> FALSE, error |-> FALSE ]

Attempt(run, try) ==
  [ run |-> run, try |-> try, at |-> "collect", seen |-> {}, health |-> "none",
    persisted |-> FALSE, found |-> 0, current |-> TRUE ]

Awaited == { a \in attempt : a.current }

TypeOK ==
  /\ board \in Boards
  /\ reviews \in 0..MaxReviews
  /\ attempt \subseteq [ run : 1..reviews, try : 1..MaxAttempts,
                         at : { "collect", "review", "persist", "search", "write" },
                         seen : SUBSET UNION Boards, health : Healths \cup {"none"},
                         persisted : BOOLEAN, found : 0..Len(reports), current : BOOLEAN ]
  /\ result \in [ persisted : BOOLEAN, posted : BOOLEAN, error : BOOLEAN ]
  /\ stored \subseteq [ run : 1..reviews, try : 1..MaxAttempts, health : Healths ]
  /\ reports \in Seq([ run : 1..reviews, try : 1..MaxAttempts, health : Healths, open : BOOLEAN ])
  /\ calm \in BOOLEAN /\ troubles \in 0..MaxTroubles

Init ==
  /\ board \in Boards
  /\ reviews = 0
  /\ attempt = {}
  /\ result = NoResult
  /\ stored = {}
  /\ reports = << >>
  /\ calm = TRUE
  /\ troubles = 0

-----------------------------------------------------------------------------
(* The surroundings *)

Trouble ==
  /\ troubles < MaxTroubles
  /\ troubles' = troubles + 1
  /\ calm' = FALSE

BoardChanges ==
  /\ board' \in Boards \ {board}
  /\ UNCHANGED << reviews, attempt, result, stored, reports, calm, troubles >>

PersonCloses(n) ==
  /\ Trouble
  /\ reports[n].open
  /\ reports' = [ reports EXCEPT ![n].open = FALSE ]
  /\ UNCHANGED << board, reviews, attempt, result, stored >>

\* A run starts when the one before has its answer; attempts of that one may go on.
Starts ==
  /\ Awaited = {}
  /\ reviews < MaxReviews
  /\ reviews' = reviews + 1
  /\ attempt' = attempt \cup { Attempt(reviews + 1, 1) }
  /\ result' = NoResult
  /\ calm' = (attempt = {})
  /\ UNCHANGED << board, stored, reports, troubles >>

-----------------------------------------------------------------------------
(* portfolio_review_activity *)

Becomes(a, b) == attempt' = (attempt \ {a}) \cup {b}

\* get_project_items asks for the first page of the board and for no other.
FirstPages ==
  { page \in SUBSET board : Cardinality(page) = Min({ Cardinality(board), PageSize }) }

\* collect_portfolio
Collects(a) ==
  /\ a.at = "collect"
  /\ \E page \in FirstPages : Becomes(a, [ a EXCEPT !.at = "review", !.seen = page ])
  /\ UNCHANGED << board, reviews, result, stored, reports, calm, troubles >>

\* A model may say anything; without one the rules judge.
Judges(a, health) ==
  /\ a.at = "review"
  /\ Becomes(a, [ a EXCEPT !.at = "persist", !.seen = {}, !.health = health ])
  /\ UNCHANGED << board, reviews, result, stored, reports, calm, troubles >>

ModelJudges(a) == \E health \in Healths : Judges(a, health)
RulesJudge(a) == Judges(a, Health(a.seen))

\* _persist_review adds a row; a failure is an answer like another.
Persists(a) ==
  /\ a.at = "persist"
  /\ stored' = stored \cup { [ run |-> a.run, try |-> a.try, health |-> a.health ] }
  /\ Becomes(a, [ a EXCEPT !.at = "search", !.persisted = TRUE ])
  /\ UNCHANGED << board, reviews, result, reports, calm, troubles >>

PersistFails(a) ==
  /\ Trouble
  /\ a.at = "persist"
  /\ Becomes(a, [ a EXCEPT !.at = "search" ])
  /\ UNCHANGED << board, reviews, result, stored, reports >>

\* Mutant: issues that were closed are found as well.
FoundOfAny == IF DOMAIN reports = {} THEN 0 ELSE Max(DOMAIN reports)

\* _post_github_issue: the newest issue that is open and has the label.
Found ==
  LET open == { n \in DOMAIN reports : reports[n].open } IN IF open = {} THEN 0 ELSE Max(open)

Searches(a) ==
  /\ a.at = "search"
  /\ Becomes(a, [ a EXCEPT !.at = "write", !.found = Found ])
  /\ UNCHANGED << board, reviews, result, stored, reports, calm, troubles >>

Answer(a, posted) ==
  /\ attempt' = attempt \ {a}
  /\ result' = IF ~a.current THEN result
               ELSE [ persisted |-> a.persisted, posted |-> posted, error |-> FALSE ]

Shown(a) == [ run |-> a.run, try |-> a.try, health |-> a.health, open |-> TRUE ]

\* It is changed, or a new one opened if there was none.
Writes(a) ==
  /\ a.at = "write"
  /\ reports' = IF a.found = 0 THEN Append(reports, Shown(a))
                ELSE [ reports EXCEPT ![a.found] = [ Shown(a) EXCEPT !.open = reports[a.found].open ] ]
  /\ Answer(a, TRUE)
  /\ UNCHANGED << board, reviews, stored, calm, troubles >>

\* The answer to a change is not looked at: one that GitHub refuses passes for posted.
ChangeRefused(a) ==
  /\ Trouble
  /\ a.at = "write" /\ a.found # 0
  /\ Answer(a, TRUE)
  /\ UNCHANGED << board, reviews, stored, reports >>

\* A search that fails, or an issue that cannot be opened, is an answer too.
PostFails(a) ==
  /\ Trouble
  /\ a.at = "search" \/ (a.at = "write" /\ a.found = 0)
  /\ Answer(a, FALSE)
  /\ UNCHANGED << board, reviews, stored, reports >>

\* Any other failure is swallowed, and not repeated.
ReviewFails(a) ==
  /\ Trouble
  /\ a.at \in { "collect", "review" }
  /\ attempt' = attempt \ {a}
  /\ result' = IF a.current THEN [ NoResult EXCEPT !.error = TRUE ] ELSE result
  /\ UNCHANGED << board, reviews, stored, reports >>

\* Five minutes are over: another attempt, while this one goes on.
TimesOut(a) ==
  /\ Trouble
  /\ a.current
  /\ attempt' = (attempt \ {a}) \cup { [ a EXCEPT !.current = FALSE ] }
       \cup { Attempt(a.run, t) : t \in { a.try + 1 } \cap (1..MaxAttempts) }
  /\ UNCHANGED << board, reviews, result, stored, reports >>

Next ==
  \/ BoardChanges \/ Starts \/ \E n \in DOMAIN reports : PersonCloses(n)
  \/ \E a \in attempt :
       \/ Collects(a) \/ ModelJudges(a) \/ RulesJudge(a) \/ Persists(a) \/ PersistFails(a)
       \/ Searches(a) \/ Writes(a) \/ ChangeRefused(a) \/ PostFails(a)
       \/ ReviewFails(a) \/ TimesOut(a)

Spec == Init /\ [][Next]_vars

-----------------------------------------------------------------------------
(* Properties *)

OpenReports == { n \in DOMAIN reports : reports[n].open }

\* A review that met no trouble, whatever became of earlier ones, is stored and
\* is what an open report shows; and it opened no report beside an open one.
ReviewIsShown ==
  Awaited = {} /\ reviews > 0 /\ calm
    => /\ result.persisted /\ result.posted
       /\ \E n \in OpenReports : \E r \in stored :
            r.run = reviews /\ reports[n].run = reviews /\ reports[n].health = r.health

\* Two reports are open at once only after something went wrong.
OneReport == Cardinality(OpenReports) > 1 => troubles > 0

-----------------------------------------------------------------------------
(* The inductive invariant of the proofs *)

\* While nothing is wrong in a run its one attempt has stored what it judged before it
\* looks for the report that is open, if there is one, which it finds.
CalmOK ==
  calm => \A a \in attempt :
    /\ attempt = {a} /\ a.current /\ a.run = reviews
    /\ a.at \in { "search", "write" } =>
         a.persisted /\ \E r \in stored : r.run = reviews /\ r.health = a.health
    /\ a.at = "write" => IF a.found = 0 THEN OpenReports = {} ELSE a.found \in OpenReports

JudgedOK == \A a \in attempt : a.at \in { "persist", "search", "write" } => a.health \in Healths

NeverTroubled == troubles = 0 => calm /\ \A m, n \in OpenReports : m = n

IInv == TypeOK /\ CalmOK /\ JudgedOK /\ NeverTroubled /\ ReviewIsShown

=============================================================================
