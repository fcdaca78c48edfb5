------------------------------ MODULE Console ------------------------------
(***************************************************************************)
(* The administrators' console (src/admin/workflow_console.py, router.py,  *)
(* audit.py): the list of workflows, what they do to one, and the audit    *)
(* log.  The list asks Temporal for one status after the other while runs  *)
(* go on; the log is read page by page while rows are added to it.         *)
(*                                                                         *)
(* What a signal of the console does to its run is in module Control:      *)
(* nothing.  `run' is what Temporal's visibility store shows of the runs.  *)
(***************************************************************************)
EXTENDS Integers, Sequences, FiniteSets

CONSTANTS
  Runs,
  Requests,     \* of administrators to do something to a run
  Kinds,        \* what they may do: "rerun", "send" it to the agent, "escalate"
  Filters,      \* statuses that a list is asked for, "all" among them
  Endings,      \* how runs may end
  StuckAfter,   \* DEFAULT_STUCK_THRESHOLD_HOURS
  PageSize,     \* limit, of the audit log
  MaxClock,     \* bound: hours
  MaxTroubles   \* bound: failing calls, dying processes

Closed == { "completed", "failed", "canceled", "terminated" }

ConsoleAssumption ==
  /\ IsFiniteSet(Requests)
  /\ Kinds \subseteq { "rerun", "send", "escalate" } /\ "rerun" \in Kinds
  /\ Filters \subseteq { "all", "running", "stuck", "paused" } \cup Closed
  /\ Endings \subseteq Closed
  /\ StuckAfter \in Nat /\ PageSize \in Nat \ {0} /\ MaxClock \in Nat /\ MaxTroubles \in Nat

VARIABLES
  part,       \* what this behaviour is about: the list, or the requests and the log
  clock,
  run,
  listing,
  owed,       \* history: runs that the list has been to show all the time
  was,        \* history: what a list could have seen since it was asked for
  request,    \* `stamp' orders the rows by the begin of their transactions
  rows,       \* audit_log: the requests that have a row
  expired,    \* rows up to this stamp are older than the hours asked for
  reader,     \* of the log, who loads more as long as there is more
  troubles

vars == << part, clock, run, listing, owed, was, request, rows, expired, reader, troubles >>

Steps == { "implement", "verify", "publish" }
Ages == { 0, 1 }   \* age_hours, 0 for none
NoListing == [ at |-> "none", filter |-> "all", age |-> 0, repo |-> FALSE, now |-> 0,
               left |-> << >>, got |-> {}, failed |-> FALSE ]
NoRequest == [ at |-> "none", kind |-> "rerun", run |-> "none", step |-> "none", stamp |-> 0 ]

TypeOK ==
  /\ part \in { "list", "log" }
  /\ clock \in 0..MaxClock
  /\ run \in [ Runs -> [ status : { "none", "running" } \cup Closed, started : 0..MaxClock ] ]
  /\ listing \in [ at : { "none", "asking", "answered", "refused" }, filter : Filters \cup {"all"},
                   age : Ages, repo : BOOLEAN, now : 0..MaxClock,
                   left : Seq({"running"} \cup Closed),
                   got : SUBSET (Runs \X ({ "none", "running", "stuck" } \cup Closed)),
                   failed : BOOLEAN ]
  /\ owed \subseteq Runs
  /\ request \in [ Requests -> [ at : { "none", "describe", "signal", "flush", "commit",
                                         "answered", "not_found", "failed" },
                                  kind : Kinds, run : Runs \cup {"none"},
                                  step : Steps \cup {"none"}, stamp : 0..Cardinality(Requests) ] ]
  /\ rows \subseteq Requests /\ expired \in Nat
  /\ reader \in [ at : { "none", "loading", "done" }, offset : Nat, due : SUBSET Requests,
                  got : SUBSET Requests, failed : BOOLEAN ]
  /\ troubles \in 0..MaxTroubles

Init ==
  /\ part \in { "list", "log" }
  /\ clock = 0
  /\ run = [ r \in Runs |-> [ status |-> "none", started |-> 0 ] ]
  /\ listing = NoListing /\ owed = {} /\ was = {}
  /\ request = [ q \in Requests |-> NoRequest ]
  /\ rows = {} /\ expired = 0
  /\ reader = [ at |-> "none", offset |-> 0, due |-> {}, got |-> {}, failed |-> FALSE ]
  /\ troubles = 0

ListStays == UNCHANGED << listing, owed, was >>
LogStays == UNCHANGED << request, rows, expired, reader >>
Trouble == troubles < MaxTroubles /\ troubles' = troubles + 1

-----------------------------------------------------------------------------
(* The list *)

\* A run that is at work for longer counts as stuck.
DetermineStatus(x, now) ==
  IF x.status = "running" /\ now - x.started > StuckAfter THEN "stuck" ELSE x.status

\* Mutant: those that have ended first.
ClosedFirst(filter) ==
  IF filter = "all" THEN << "completed", "failed", "canceled", "terminated", "running" >>
  ELSE IF filter \in Closed THEN << filter >> ELSE << "running" >>

\* _map_status_filter
Queries(filter) ==
  IF filter = "all" THEN << "running", "completed", "failed", "canceled", "terminated" >>
  ELSE IF filter \in Closed THEN << filter >> ELSE << "running" >>

\* A repository's name is sought in the run's id, which is a UUID: with repo_id
\* there is nothing to show.  No run is ever "paused".
Matches(x, l) ==
  /\ x.status # "none"
  /\ ~l.repo
  /\ l.filter \in { "all", DetermineStatus(x, l.now) }
  /\ l.age = 0 \/ l.now - x.started >= l.age

Asked(filter, age, repo) ==
  [ NoListing EXCEPT !.at = "asking", !.filter = filter, !.age = age, !.repo = repo,
                     !.now = clock, !.left = Queries(filter) ]

Lists ==
  /\ part = "list" /\ listing.at = "none"
  /\ \E filter \in Filters, age \in Ages, repo \in BOOLEAN : listing' = Asked(filter, age, repo)
  /\ owed' = { r \in Runs : Matches(run[r], listing') }
  /\ was' = { << r, DetermineStatus(run[r], clock) >> : r \in Runs }
  /\ UNCHANGED << part, clock, run, troubles >> /\ LogStays

\* One query is through: the next one, or the answer.
Queried(yielded, failed) ==
  [ listing EXCEPT !.left = Tail(@), !.failed = @ \/ failed,
      !.got = @ \cup { << r, DetermineStatus(run[r], listing.now) >> : r \in yielded },
      !.at = IF Len(listing.left) = 1 THEN "answered" ELSE @ ]

Yielded == { r \in Runs : run[r].status = Head(listing.left) /\ Matches(run[r], listing) }

QueryEnds ==
  /\ listing.at = "asking"
  /\ listing' = Queried(Yielded, FALSE)
  /\ UNCHANGED << part, clock, run, owed, was, troubles >> /\ LogStays

\* A failing query is swallowed: what it has yielded is shown, and nothing says so.
QueryFails ==
  /\ listing.at = "asking"
  /\ \E yielded \in SUBSET Yielded : listing' = Queried(yielded, TRUE)
  /\ Trouble
  /\ UNCHANGED << part, clock, run, owed, was >> /\ LogStays

\* Without Temporal or the database the API refuses, and the page shows no runs.
ListFails ==
  /\ listing.at = "asking" /\ listing.got = {} /\ listing.left = Queries(listing.filter)
  /\ \E at \in { "refused", "answered" } :
       listing' = [ listing EXCEPT !.at = at, !.failed = TRUE ]
  /\ Trouble
  /\ UNCHANGED << part, clock, run, owed, was >> /\ LogStays

-----------------------------------------------------------------------------
(* Runs, meanwhile *)

Becomes(r, x) ==
  /\ run' = [ run EXCEPT ![r] = x ]
  /\ owed' = { s \in owed : Matches(run'[s], listing) }
  /\ was' = IF listing.at = "none" THEN was
             ELSE was \cup {<< r, DetermineStatus(x, listing.now) >>}

Starts(r) ==
  /\ run[r].status = "none"
  /\ Becomes(r, [ status |-> "running", started |-> clock ])
  /\ UNCHANGED << part, clock, listing, troubles >> /\ LogStays

Ends(r) ==
  /\ run[r].status = "running"
  /\ \E ending \in Endings : Becomes(r, [ run[r] EXCEPT !.status = ending ])
  /\ UNCHANGED << part, clock, listing, troubles >> /\ LogStays

HourPasses ==
  /\ part = "list" /\ clock < MaxClock
  /\ clock' = clock + 1
  /\ UNCHANGED << part, run, troubles >> /\ ListStays /\ LogStays

-----------------------------------------------------------------------------
(* What administrators do to a run *)

\* The step that _build_timeline makes up of the run's status.
CurrentStep(status) ==
  CASE status \in { "running", "failed" } -> "verify"
    [] status = "completed" -> "publish"
    [] OTHER -> "implement"

\* UNSAFE_RERUN_STEPS: neither target is one.
Target == [ kind \in { "rerun", "send" } |-> IF kind = "rerun" THEN "verify" ELSE "implement" ]
IsSafe(kind) == kind \in DOMAIN Target => Target[kind] # "publish"

Goes(q, to) == request' = [ request EXCEPT ![q].at = to ]

Asks(q) ==
  /\ part = "log" /\ request[q].at = "none"
  /\ \E kind \in Kinds, r \in Runs :
       request' = [ request EXCEPT ![q].at = "describe", ![q].kind = kind, ![q].run = r ]
  /\ UNCHANGED << part, clock, run, rows, expired, reader, troubles >> /\ ListStays

\* get_workflow_detail: Temporal does not know the run.
IsUnknown(q) ==
  /\ request[q].at = "describe" /\ run[request[q].run].status = "none"
  /\ Goes(q, "not_found")
  /\ UNCHANGED << part, clock, run, rows, expired, reader, troubles >> /\ ListStays

\* Every other failure says the same.
DescribeFails(q) ==
  /\ request[q].at = "describe"
  /\ Goes(q, "not_found")
  /\ Trouble
  /\ UNCHANGED << part, clock, run, rows, expired, reader >> /\ ListStays

Describes(q) ==
  LET status == run[request[q].run].status
  IN /\ request[q].at = "describe" /\ status # "none" /\ IsSafe(request[q].kind)
     /\ request' = [ request EXCEPT ![q].at = "signal", ![q].step = CurrentStep(status) ]
     /\ UNCHANGED << part, clock, run, rows, expired, reader, troubles >> /\ ListStays

\* The run takes the signal and does nothing with it, or has ended and Temporal
\* refuses it, which is swallowed: the answer will be the same.
Signals(q) ==
  /\ request[q].at = "signal"
  /\ Goes(q, "flush")
  /\ UNCHANGED << part, clock, run, rows, expired, reader, troubles >> /\ ListStays

\* log_event: the transaction begins, and so the row has its time.
Flushes(q) ==
  /\ request[q].at = "flush"
  /\ request' = [ request EXCEPT ![q].at = "commit",
       ![q].stamp = 1 + Cardinality({ p \in Requests : request[p].stamp > 0 }) ]
  /\ UNCHANGED << part, clock, run, rows, expired, reader, troubles >> /\ ListStays

Commits(q) ==
  /\ request[q].at = "commit"
  /\ rows' = rows \cup {q}
  /\ Goes(q, "answered")
  /\ UNCHANGED << part, clock, run, expired, reader, troubles >> /\ ListStays

\* The database fails, perhaps after it has carried out the commit.
StoreFails(q) ==
  /\ \/ request[q].at = "flush" /\ UNCHANGED rows
     \/ request[q].at = "commit" /\ rows' \in { rows, rows \cup {q} }
  /\ Goes(q, "failed")
  /\ Trouble
  /\ UNCHANGED << part, clock, run, expired, reader >> /\ ListStays

-----------------------------------------------------------------------------
(* The audit log *)

InLog == { q \in rows : request[q].stamp > expired }

\* order_by(timestamp.desc())
Rank(q) == Cardinality({ p \in InLog : request[p].stamp > request[q].stamp })

Opens ==
  /\ part = "log" /\ reader.at = "none"
  /\ reader' = [ reader EXCEPT !.at = "loading", !.due = InLog ]
  /\ UNCHANGED << part, clock, run, request, rows, expired, troubles >> /\ ListStays

\* One row more than a page is fetched to tell whether there is more.
LoadsPage ==
  /\ reader.at = "loading"
  /\ reader' = [ reader EXCEPT
       !.got = @ \cup { q \in InLog : Rank(q) \in reader.offset..(reader.offset + PageSize - 1) },
       !.offset = @ + PageSize,
       !.at = IF Cardinality(InLog) > reader.offset + PageSize THEN @ ELSE "done" ]
  /\ UNCHANGED << part, clock, run, request, rows, expired, troubles >> /\ ListStays

\* Swallowed as well: an empty page, as if there were no more.
LoadFails ==
  /\ reader.at = "loading"
  /\ reader' = [ reader EXCEPT !.at = "done", !.failed = TRUE ]
  /\ Trouble
  /\ UNCHANGED << part, clock, run, request, rows, expired >> /\ ListStays

RowExpires ==
  /\ InLog # {}
  /\ expired' = expired + 1
  /\ UNCHANGED << part, clock, run, request, rows, reader, troubles >> /\ ListStays

-----------------------------------------------------------------------------
Next ==
  \/ Lists \/ QueryEnds \/ QueryFails \/ ListFails \/ HourPasses
  \/ \E r \in Runs : Starts(r) \/ Ends(r)
  \/ \E q \in Requests :
       \/ Asks(q) \/ IsUnknown(q) \/ DescribeFails(q) \/ Describes(q) \/ Signals(q)
       \/ Flushes(q) \/ Commits(q) \/ StoreFails(q)
  \/ Opens \/ LoadsPage \/ LoadFails \/ RowExpires

Spec == Init /\ [][Next]_vars

-----------------------------------------------------------------------------
(* Properties *)

\* A list of which no query failed has every run that it was to show from the first
\* query to the last, also one that ends meanwhile, and shows nothing that was not so.
ListIsWhole ==
  /\ listing.at = "answered" /\ ~listing.failed
       => \A r \in owed : \E s \in { "running", "stuck" } \cup Closed : << r, s >> \in listing.got
  /\ listing.got \subseteq was

\* Who loads page after page of the log has seen every row that was in it, whatever
\* is added meanwhile, unless it has become too old; and what an administrator was
\* told is done is in the log.
LogIsWhole ==
  /\ reader.at = "done" /\ ~reader.failed
       => \A q \in reader.due : q \in reader.got \/ request[q].stamp <= expired
  /\ \A q \in Requests : request[q].at = "answered" => q \in rows

-----------------------------------------------------------------------------
(* The inductive invariant of the proofs *)

Shown == { "none", "running", "stuck" } \cup Closed

\* Every run that the list is to show is on it, or a query that finds it is left: one
\* for the runs that are at work comes before those for the runs that have ended.
OwedOK ==
  /\ owed # {} => listing.at # "none"
  /\ \A r \in owed : Matches(run[r], listing)
  /\ ~listing.failed => \A r \in owed :
       \/ \E s \in { "running", "stuck" } \cup Closed : << r, s >> \in listing.got
       \/ \E i \in DOMAIN listing.left : listing.left[i] = run[r].status

LeftOK ==
  /\ listing.at = "asking" => listing.left # << >>
  /\ listing.at = "answered" /\ ~listing.failed => listing.left = << >>
  /\ \A i \in DOMAIN listing.left :
       listing.left[i] = "running" => listing.left = Queries(listing.filter)

\* What a list may show counts as seen.
SeenOK ==
  /\ listing.at # "none" =>
       \A r \in Runs : << r, DetermineStatus(run[r], listing.now) >> \in was
  /\ listing.got \subseteq was

\* A row has its stamp before it is there, and keeps it.
RowsOK ==
  /\ \A q \in Requests :
       /\ request[q].at \in { "none", "describe", "signal", "flush" } => request[q].stamp = 0
       /\ request[q].at = "answered" => q \in rows
  /\ \A q \in rows : request[q].at \in { "answered", "failed" }

\* Rows that come later rank before those that were there, or after: none of those
\* ranks before what has been loaded unless it was loaded.
ReaderOK ==
  /\ reader.due \subseteq rows
  /\ reader.at = "none" => reader.offset = 0
  /\ reader.at = "loading" /\ ~reader.failed => \A q \in reader.due :
       q \in reader.got \/ request[q].stamp <= expired \/ Rank(q) >= reader.offset

IInv == TypeOK /\ OwedOK /\ LeftOK /\ SeenOK /\ RowsOK /\ ReaderOK /\ LogIsWhole

=============================================================================
