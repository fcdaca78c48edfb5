------------------------------ MODULE Polling -------------------------------
(***************************************************************************)
(* The poller for one repository (src/ingress/poll/scheduler.py, feed.py,  *)
(* client.py): it reads GitHub's list of open issues page by page, makes a *)
(* task of every version of an issue it has not seen, and remembers how    *)
(* far it got in poll_since.                                               *)
(*                                                                         *)
(* The list is sorted by the time of the last update, newest first, and    *)
(* changes while it is read.                                               *)
(***************************************************************************)
EXTENDS Naturals, FiniteSets, FiniteSetsExt

CONSTANTS
  Issues,
  PerPage,   \* per_page
  MaxTime    \* bound: updates of issues, which are the clock

\* What the constants are taken to be, where this module is instantiated.
PollingAssumption == IsFiniteSet(Issues) /\ PerPage \in Nat \ {0} /\ MaxTime \in Nat

VARIABLES
  issue,     \* GitHub: each issue, updated_at 0 before it exists
  now,       \* GitHub: the time of the latest update
  since,     \* poll_since, 0 for NULL
  tasks,     \* the versions of issues that have a TaskPacket
  cycle,     \* the cycle at work: where, the next page, what it has read
  excused    \* history: versions a cycle may leave out, see NothingSkipped

vars == << issue, now, since, tasks, cycle, excused >>

Version == [ issue : Issues, time : 1..MaxTime ]
Sleeping == [ at |-> "sleep", page |-> 1, got |-> {}, fed |-> {}, torn |-> FALSE ]

TypeOK ==
  /\ issue \in [ Issues -> [ open : BOOLEAN, updated : 0..MaxTime ] ]
  /\ now \in 0..MaxTime
  /\ since \in 0..MaxTime
  /\ tasks \subseteq Version
  /\ cycle \in [ at : { "sleep", "fetch", "feed" }, page : Nat \ {0},
                  got : SUBSET Version, fed : SUBSET Version, torn : BOOLEAN ]
  /\ cycle.fed \subseteq cycle.got
  /\ excused \subseteq Version

Init ==
  /\ issue = [ i \in Issues |-> [ open |-> FALSE, updated |-> 0 ] ]
  /\ now = 0
  /\ since = 0
  /\ tasks = {}
  /\ cycle = Sleeping
  /\ excused = {}

-----------------------------------------------------------------------------
(* GitHub *)

Current(i) == [ issue |-> i, time |-> issue[i].updated ]
OpenVersions == { Current(i) : i \in { j \in Issues : issue[j].open } }

\* An issue is opened, edited, labelled, commented on or reopened.
IssueUpdated(i) ==
  /\ now < MaxTime
  /\ now' = now + 1
  /\ issue' = [ issue EXCEPT ![i] = [ open |-> TRUE, updated |-> now + 1 ] ]
  /\ UNCHANGED << since, tasks, cycle, excused >>

\* A closed issue leaves the list, and what is behind it moves up.
IssueCloses(i) ==
  /\ issue[i].open
  /\ issue' = [ issue EXCEPT ![i].open = FALSE ]
  /\ cycle' = IF cycle.at = "fetch" THEN [ cycle EXCEPT !.torn = TRUE ] ELSE cycle
  /\ UNCHANGED << now, since, tasks, excused >>

-----------------------------------------------------------------------------
(* A cycle *)

\* state=open, sort=updated (descending), since (inclusive)
Listed == { v \in OpenVersions : v.time >= since }
Rank(v) == Cardinality({ w \in Listed : w.time >= v.time })
PageOf(n) == { v \in Listed : Rank(v) > (n - 1) * PerPage /\ Rank(v) <= n * PerPage }
HasNext(n) == Cardinality(Listed) > n * PerPage

\* The repository is polled: it is active, not deleted, and due.
StartCycle ==
  /\ cycle.at = "sleep"
  /\ cycle' = [ Sleeping EXCEPT !.at = "fetch" ]
  /\ UNCHANGED << issue, now, since, tasks, excused >>

FetchPage ==
  /\ cycle.at = "fetch"
  /\ cycle' = [ cycle EXCEPT !.got = @ \cup PageOf(cycle.page),
                             !.page = IF HasNext(cycle.page) THEN @ + 1 ELSE @,
                             !.at = IF HasNext(cycle.page) THEN @ ELSE "feed" ]
  /\ UNCHANGED << issue, now, since, tasks, excused >>

\* Fewer than RATE_LIMIT_EARLY_RETURN requests are left: what was read so far
\* is the result, the newest issues first.
EarlyReturn ==
  /\ cycle.at = "fetch"
  /\ HasNext(cycle.page)
  /\ cycle' = [ cycle EXCEPT !.got = @ \cup PageOf(cycle.page), !.at = "feed", !.torn = TRUE ]
  /\ UNCHANGED << issue, now, since, tasks, excused >>

\* 403 and 429 (the cycle backs off), another HTTP error, a restart, or 304:
\* nothing of the cycle remains but the tasks it made.
CycleEnds ==
  /\ cycle.at # "sleep"
  /\ cycle' = Sleeping
  /\ UNCHANGED << issue, now, since, tasks, excused >>

Unfed == cycle.got \ cycle.fed

\* A version that is new by its synthetic delivery id becomes a task.  That
\* its workflow could not be started is logged and no more.
FeedIssue ==
  /\ cycle.at = "feed"
  /\ \E v \in Unfed : /\ tasks' = tasks \cup {v}
                      /\ cycle' = [ cycle EXCEPT !.fed = @ \cup {v} ]
  /\ UNCHANGED << issue, now, since, excused >>

\* The row could not be inserted: logged, and the loop goes on.
FeedFails ==
  /\ cycle.at = "feed"
  /\ \E v \in Unfed \ tasks : /\ excused' = excused \cup {v}
                              /\ cycle' = [ cycle EXCEPT !.fed = @ \cup {v} ]
  /\ UNCHANGED << issue, now, since, tasks >>

\* Mutant: the next cycle asks for what changes from now on.
SinceNow(got) == IF got = {} THEN since ELSE now

\* The latest updated_at of what was read.
NextSince(got) == IF got = {} THEN since ELSE Max({ v.time : v \in got })

PersistState ==
  /\ cycle.at = "feed" /\ Unfed = {}
  /\ since' = NextSince(cycle.got)
  /\ cycle' = Sleeping
  /\ excused' = IF cycle.torn THEN excused \cup (OpenVersions \ cycle.got) ELSE excused
  /\ UNCHANGED << issue, now, tasks >>

Next ==
  \/ \E i \in Issues : IssueUpdated(i) \/ IssueCloses(i)
  \/ StartCycle \/ FetchPage \/ EarlyReturn \/ CycleEnds
  \/ FeedIssue \/ FeedFails \/ PersistState

Spec == Init /\ [][Next]_vars

-----------------------------------------------------------------------------
(* Properties *)

\* What poll_since has moved past has been seen: every open issue is a task
\* in its current version or will be listed by the next cycle.  Excused are
\* those whose row could not be inserted, and what is open when a cycle ends
\* that stopped early for the rate limit or during which an issue closed, so
\* that the page boundaries moved over something.
NothingSkipped ==
  \A v \in OpenVersions : v.time < since => v \in tasks \cup excused

-----------------------------------------------------------------------------
(* The inductive invariant of the proofs *)

\* GitHub's clock is ahead of all it has stamped.
TimesOK ==
  /\ \A i \in Issues : issue[i].updated <= now /\ (issue[i].open => issue[i].updated > 0)
  /\ since <= now
  /\ \A g \in cycle.got : g.time <= now

NewerThanRead(version) == \A g \in cycle.got : g.time < version.time

\* Unless an issue closed, what the cycle has not read is on a page still to be
\* read, for a page moves back only; or it is newer than all that was read.
PagesOK ==
  ~cycle.torn =>
    \A w \in Listed \ cycle.got :
      \/ NewerThanRead(w)
      \/ cycle.at = "fetch" /\ Rank(w) > (cycle.page - 1) * PerPage

FedOK == cycle.fed \subseteq tasks \cup excused

IInv == TypeOK /\ TimesOK /\ PagesOK /\ FedOK /\ NothingSkipped

=============================================================================
