---------------------------- MODULE PullRequests ----------------------------
(***************************************************************************)
(* The merge status of a task's pull request (pr_merge_status), kept by    *)
(* the webhook's pull_request events (src/ingress/webhook_handler.py) and  *)
(* initialised by the publisher (src/publisher/publisher.py).              *)
(*                                                                         *)
(* GitHub delivers an event some time after what it reports, in any order  *)
(* and perhaps never, and the server answers several at once; each handler *)
(* reads the row and commits later.                                        *)
(***************************************************************************)
EXTENDS Naturals, FiniteSets

CONSTANTS
  Handlers,    \* the deliveries that can be in work at once
  MaxEvents    \* bound: changes of the pull request at GitHub

\* What the constants are taken to be, where this module is instantiated.
PullRequestsAssumption == MaxEvents \in Nat

PrStates == { "open", "closed", "merged" }

VARIABLES
  github,    \* state of the pull request, "none" before it is opened
  happened,  \* how often it changed: events are numbered by that
  pending,   \* events GitHub has not delivered
  merge,     \* pr_merge_status and pr_number # NULL of the row
  handler,   \* what each handler has in hand
  newest,    \* history: the number of the newest event delivered
  strayed    \* history: an event was lost, late, early or met another one

vars == << github, happened, pending, merge, handler, newest, strayed >>

Idle == [ event |-> 0, state |-> "none", was |-> "none" ]

TypeOK ==
  /\ github \in PrStates \cup {"none"}
  /\ happened \in 0..MaxEvents
  /\ pending \subseteq [ event : 1..MaxEvents, state : PrStates ]
  /\ merge \in [ known : BOOLEAN, status : PrStates \cup {"none"} ]
  /\ handler \in [ Handlers -> [ event : 0..MaxEvents, state : PrStates \cup {"none"},
                                 was : PrStates \cup {"none"} ] ]
  /\ newest \in 0..MaxEvents
  /\ strayed \in BOOLEAN

Init ==
  /\ github = "none"
  /\ happened = 0
  /\ pending = {}
  /\ merge = [ known |-> FALSE, status |-> "none" ]
  /\ handler = [ h \in Handlers |-> Idle ]
  /\ newest = 0
  /\ strayed = FALSE

-----------------------------------------------------------------------------
\* GitHub: the publisher opens the pull request; people close, reopen and
\* merge it, the last through approve_pr as well as on the site.
Changes(from, to) ==
  /\ github = from
  /\ happened < MaxEvents
  /\ github' = to
  /\ happened' = happened + 1
  /\ pending' = pending \cup { [ event |-> happened', state |-> to ] }
  /\ UNCHANGED << merge, handler, newest, strayed >>

Opens == Changes("none", "open")
Closes == Changes("open", "closed")
Reopens == Changes("closed", "open")
ApprovePr == Changes("open", "merged")

EventLost ==
  /\ \E e \in pending : pending' = pending \ {e}
  /\ strayed' = TRUE
  /\ UNCHANGED << github, happened, merge, handler, newest >>

\* The publisher commits pr_number, and OPEN with it, after its last edit.
\* What was delivered before has found no row.
PublisherCommits ==
  /\ github # "none"
  /\ ~merge.known
  /\ merge' = [ known |-> TRUE, status |-> "open" ]
  /\ UNCHANGED << github, happened, pending, handler, newest, strayed >>

-----------------------------------------------------------------------------
\* Mutant: every closed pull request counts as merged.
StatusOfClosedAsMerged(state) == IF state = "closed" THEN "merged" ELSE state

\* The status an event stands for: opened and reopened, or closed with or
\* without merged.
StatusOf(state) == state

Busy(h) == handler[h].event # 0

\* A handler looks the row up by repository and number.
Receives(h) ==
  /\ ~Busy(h)
  /\ \E e \in pending :
       /\ pending' = pending \ {e}
       /\ newest' = IF e.event > newest THEN e.event ELSE newest
       /\ IF merge.known
            THEN /\ handler' = [ handler EXCEPT ![h] =
                       [ event |-> e.event, state |-> e.state, was |-> merge.status ] ]
                 /\ strayed' = (strayed \/ e.event < newest
                                        \/ \E i \in Handlers : Busy(i))
            ELSE \* no row with that number: the event is skipped, which
                 \* matters unless it only says that the pull request is open
                 /\ strayed' = (strayed \/ e.event < newest \/ e.state # "open")
                 /\ UNCHANGED handler
  /\ UNCHANGED << github, happened, merge >>

\* Mutant: a status that is not NULL is final.
WritesOnce(h) ==
  merge' = IF merge.status \in { "closed", "merged" } THEN merge
           ELSE [ merge EXCEPT !.status = StatusOf(handler[h].state) ]

\* The session writes the column only if its value differs from what it read.
Writes(h) ==
  merge' = IF StatusOf(handler[h].state) = handler[h].was THEN merge
           ELSE [ merge EXCEPT !.status = StatusOf(handler[h].state) ]

Commits(h) ==
  /\ Busy(h)
  /\ Writes(h)
  /\ handler' = [ handler EXCEPT ![h] = Idle ]
  /\ UNCHANGED << github, happened, pending, newest, strayed >>

\* Any error is swallowed: bridge events never raise.
HandlerFails(h) ==
  /\ Busy(h)
  /\ handler' = [ handler EXCEPT ![h] = Idle ]
  /\ strayed' = TRUE
  /\ UNCHANGED << github, happened, pending, merge, newest >>

\* All has been said and the row has its number.
Quiet ==
  /\ pending = {} /\ merge.known
  /\ \A h \in Handlers : ~Busy(h)
  /\ UNCHANGED vars

Next ==
  \/ Opens \/ Closes \/ Reopens \/ ApprovePr \/ EventLost
  \/ PublisherCommits
  \/ \E h \in Handlers : Receives(h) \/ Commits(h) \/ HandlerFails(h)
  \/ Quiet

Spec == Init /\ [][Next]_vars

-----------------------------------------------------------------------------
(* Properties *)

\* Nothing passes for merged that is not merged, whatever becomes of the
\* events: a merge is final, and only an event of a merge says so.
MergedIsMerged == merge.status = "merged" => github = "merged"

\* Once every event is handled the row shows the pull request as it is on
\* GitHub, if none was lost, came out of turn, met another in work or told of
\* a close before the publisher had committed.
FollowsGitHub ==
  merge.known /\ pending = {} /\ (\A h \in Handlers : ~Busy(h)) /\ ~strayed
    => merge.status = github

-----------------------------------------------------------------------------
(* The inductive invariant of the proofs *)

Working == [ event : 0..MaxEvents, state : PrStates \cup {"none"}, was : PrStates \cup {"none"} ]

\* A number is given to one event, and the last one tells how things are.
EventsOK ==
  /\ newest <= happened
  /\ \A e \in pending : e.event <= happened /\ (e.event = happened => e.state = github)
  /\ github # "none" => happened > 0
  /\ github = "none" => ~merge.known

\* Only what was merged is said to be merged: by an event on its way, by one
\* in work, or by the row.
MergedOK ==
  /\ \A e \in pending : e.state = "merged" => github = "merged"
  /\ \A h \in Handlers : handler[h].state = "merged" => github = "merged"
  /\ MergedIsMerged

\* As long as nothing strayed: every event is on its way or was taken in its
\* turn, one at a time, and the row is as its handler has read it.
InTurn ==
  ~strayed =>
    /\ \A n \in 1..happened : n <= newest \/ \E e \in pending : e.event = n
    /\ \A h, i \in Handlers : Busy(h) /\ Busy(i) => h = i
    /\ \A h \in Handlers : Busy(h) => merge.known /\ handler[h].was = merge.status

\* When the newest event has been taken, what it said is in the row or in
\* hand; before the publisher's commit it said "open", as that commit will.
UpToDate ==
  ~strayed /\ newest = happened /\ happened > 0 =>
    IF merge.known
      THEN /\ \A h \in Handlers : Busy(h) => handler[h].state = github
           /\ (\A h \in Handlers : ~Busy(h)) => merge.status = github
      ELSE github = "open"

IInv == TypeOK /\ EventsOK /\ MergedOK /\ InTurn /\ UpToDate

=============================================================================
