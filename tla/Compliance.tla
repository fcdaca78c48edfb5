----------------------------- MODULE Compliance -----------------------------
(***************************************************************************)
(* The compliance check of a repository (src/compliance/checker.py and     *)
(* execution_plane.py) and the endpoints that ask for it                   *)
(* (src/compliance/router.py).  They share one checker, which collects the *)
(* results of the check at work in a field of its own: two checks must not *)
(* be at work at once.  They are not, as long as everything the checker    *)
(* awaits answers at once: then the event loop lets nobody else run.       *)
(*                                                                         *)
(* What GitHub says of a repository only the registry in memory holds, as  *)
(* the tests use it; rows of the database have no facts.                   *)
(***************************************************************************)
EXTENDS Naturals, Sequences

CONSTANTS
  Repos,
  Requests,    \* requests served at the same time
  Facts,       \* what may be known of a repository: the checks it satisfies
  Clients,     \* clients the checker was constructed with; the program has none
  MaxTroubles  \* bound: changes of the workspaces and of the worker's tools

\* The checks that look at GitHub's facts, and those that look elsewhere.
FactChecks == { "rulesets", "reviewers", "protection", "labels", "policy" }
LiveChecks == { "projects", "plane", "idempotency", "credentials" }

ComplianceAssumption ==
  /\ Facts \subseteq SUBSET FactChecks
  /\ Clients \subseteq { "projects", "temporal", "lookup", "scopes" }
  /\ MaxTroubles \in Nat

VARIABLES
  facts,       \* of each repository
  workspaces,  \* repositories whose directory exists and can be listed
  tools,       \* ruff and pytest are on the path
  results,     \* _check_results of the one checker
  request,     \* what each request is at, and for which repository
  verdict,     \* what each request was answered last
  blocked,     \* the failed checks in each repository's last blocked promotion
  troubles

vars == << facts, workspaces, tools, results, request, verdict, blocked, troubles >>

\* A result says which check it is of.  Of which repository is history: the
\* checker's results do not say.
Result(check, repo, passed) == [ check |-> check, of |-> repo, passed |-> passed ]
Results == [ check : FactChecks \cup LiveChecks, of : Repos, passed : BOOLEAN ]

Idle == [ at |-> "idle" ]
Unanswered == [ at |-> "none" ]

TypeOK ==
  /\ facts \in [ Repos -> Facts ]
  /\ workspaces \subseteq Repos /\ tools \in BOOLEAN
  /\ results \in Seq(Results)
  /\ request \in [ Requests -> {Idle} \cup [ at : { "loaded", "checking" }, repo : Repos,
                                             op : { "compliance", "eligibility" } ] ]
  /\ verdict \in [ Requests -> {Unanswered} \cup [ at : {"answered"}, repo : Repos,
                                                   results : Seq(Results), passed : BOOLEAN ] ]
  /\ blocked \in [ Repos -> SUBSET (FactChecks \cup LiveChecks) ]
  /\ troubles \in 0..MaxTroubles

Init ==
  /\ facts \in [ Repos -> Facts ]
  /\ workspaces = Repos /\ tools = TRUE
  /\ results = << >>
  /\ request = [ r \in Requests |-> Idle ]
  /\ verdict = [ r \in Requests |-> Unanswered ]
  /\ blocked = [ repo \in Repos |-> {} ]
  /\ troubles = 0

-----------------------------------------------------------------------------
(* What the checks find *)

\* A client that is there is asked, and may say no or fail; without it all is well.
Asked(client, says) == client \in Clients => says[client]

\* Without a client, and while the synchronisation is off, the board is no matter.
ProjectsConfigured(says) == Asked("projects", says)
WorkspaceHealthy(repo) == repo \in workspaces
WorkersHealthy(says) == Asked("temporal", says)
RunnerHealthy == tools
PlaneHealthy(repo, says) == WorkspaceHealthy(repo) /\ WorkersHealthy(says) /\ RunnerHealthy
LookupOperational(says) == Asked("lookup", says)
ScopesSuffice(says) == Asked("scopes", says)

Passes(check, repo, says) ==
  CASE check = "projects" -> ProjectsConfigured(says)
    [] check = "plane" -> PlaneHealthy(repo, says)
    [] check = "idempotency" -> LookupOperational(says)
    [] check = "credentials" -> ScopesSuffice(says)
    [] OTHER -> check \in facts[repo]

\* The results of some checks, in their order.
ResultsOf(checks, repo, says) ==
  [ i \in DOMAIN checks |-> Result(checks[i], repo, Passes(checks[i], repo, says)) ]

\* Those before the first await, those that await, and the policy of the tier execute.
First == << "rulesets", "reviewers", "protection", "labels" >>
Then == << "projects", "plane", "idempotency", "credentials", "policy" >>

-----------------------------------------------------------------------------
(* Requests *)

\* Mutant: a client is asked over the network, and the event loop goes on meanwhile.
GivesWay == TRUE

\* Whether another request may run while a check awaits.
MayOverlap == Clients # {}

\* The repository is loaded, which awaits the database.
Asks(r, repo, op) ==
  /\ request[r] = Idle
  /\ request' = [ request EXCEPT ![r] = [ at |-> "loaded", repo |-> repo, op |-> op ] ]
  /\ verdict' = [ verdict EXCEPT ![r] = Unanswered ]
  /\ UNCHANGED << facts, workspaces, tools, results, blocked, troubles >>

\* GET /{repo_id}/compliance.
ChecksCompliance(r, repo) == Asks(r, repo, "compliance")

\* GET /{repo_id}/eligibility/execute of a repository at suggest, and its promotion.
ChecksEligibility(r, repo) == Asks(r, repo, "eligibility")

\* check_compliance starts with a fresh list.
Begins(r) ==
  /\ request[r].at = "loaded"
  /\ MayOverlap \/ \A s \in Requests : request[s].at # "checking"
  /\ results' = ResultsOf(First, request[r].repo, << >>)
  /\ request' = [ request EXCEPT ![r].at = "checking" ]
  /\ UNCHANGED << facts, workspaces, tools, verdict, blocked, troubles >>

Failed(list) == { list[i].check : i \in { j \in DOMAIN list : ~list[j].passed } }

\* The rest of the checks, and the verdict over all that is in the list.  The
\* promotion service stores what blocked it, even for those who only asked.
Concludes(r) ==
  LET repo == request[r].repo IN
  /\ request[r].at = "checking"
  /\ \E says \in [ Clients -> BOOLEAN ] : results' = results \o ResultsOf(Then, repo, says)
  /\ verdict' = [ verdict EXCEPT ![r] =
                    [ at |-> "answered", repo |-> repo, results |-> results',
                      passed |-> Failed(results') = {} ] ]
  /\ blocked' = IF request[r].op = "eligibility" /\ Failed(results') # {}
                THEN [ blocked EXCEPT ![repo] = Failed(results') ] ELSE blocked
  /\ request' = [ request EXCEPT ![r] = Idle ]
  /\ UNCHANGED << facts, workspaces, tools, troubles >>

-----------------------------------------------------------------------------
(* The machine the application runs on *)

Disturbs ==
  /\ troubles < MaxTroubles
  /\ troubles' = troubles + 1
  /\ UNCHANGED << facts, results, request, verdict, blocked >>

WorkspaceChanges(repo) ==
  /\ workspaces' = IF repo \in workspaces THEN workspaces \ {repo} ELSE workspaces \cup {repo}
  /\ Disturbs /\ UNCHANGED tools

ToolsChange == tools' = ~tools /\ Disturbs /\ UNCHANGED workspaces

-----------------------------------------------------------------------------
Next ==
  \/ \E r \in Requests :
       \/ \E repo \in Repos : ChecksCompliance(r, repo) \/ ChecksEligibility(r, repo)
       \/ Begins(r) \/ Concludes(r)
  \/ \E repo \in Repos : WorkspaceChanges(repo)
  \/ ToolsChange

Spec == Init /\ [][Next]_vars

\* A verdict is on its own repository: it has every check's result once, none of
\* another request's repository, and it is a pass only of one that GitHub's facts
\* speak for throughout, though all requests collect their results in one list.
\* What blocked a promotion names every fact the repository fails.
VerdictIsOwn ==
  /\ \A r \in Requests :
       LET given == verdict[r] IN
       given.at = "answered" =>
         /\ { given.results[i].check : i \in DOMAIN given.results } = FactChecks \cup LiveChecks
         /\ Len(given.results) = Len(First) + Len(Then)
         /\ \A i \in DOMAIN given.results : given.results[i].of = given.repo
         /\ given.passed => facts[given.repo] = FactChecks
  /\ \A repo \in Repos : blocked[repo] # {} => FactChecks \ facts[repo] \subseteq blocked[repo]

-----------------------------------------------------------------------------
(* The inductive invariant of the proofs *)

AtWork(r) == request[r].at = "checking"
OneAtWork == \A r, s \in Requests : AtWork(r) /\ AtWork(s) => r = s

\* The list of a check at work has the results that were had before its first await.
HalfDone ==
  \A r \in Requests : AtWork(r) =>
    /\ Len(results) = Len(First)
    /\ \A i \in 1..Len(First) :
         /\ results[i].check = First[i] /\ results[i].of = request[r].repo
         /\ results[i].passed <=> First[i] \in facts[request[r].repo]

IInv == TypeOK /\ OneAtWork /\ HalfDone /\ VerdictIsOwn

=============================================================================
