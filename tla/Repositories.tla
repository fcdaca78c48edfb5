---------------------------- MODULE Repositories ----------------------------
(***************************************************************************)
(* The row of one repository and those who change it: the administrators'  *)
(* endpoints (src/compliance/router.py, src/admin/router.py) and the       *)
(* promotion service with its compliance gate.  A request has a session of *)
(* its own; loading the row, loading it again and writing it are separate  *)
(* steps, and a write sends only the columns that differ from what the     *)
(* session loaded, whatever the row holds by then.                         *)
(***************************************************************************)
EXTENDS Naturals

CONSTANT Requests    \* requests served at the same time

Tiers == { "observe", "suggest", "execute" }

VARIABLES
  registered,  \* there is a row of this owner and name
  row,         \* its columns
  request,     \* what each request is at, and what its session loaded
  overridden   \* history: an administrator set the tier to execute

vars == << registered, row, request, overridden >>

Rows == [ tier : Tiers, status : { "active", "paused", "disabled" },
          deleted : BOOLEAN, polled : BOOLEAN, writes : BOOLEAN ]

NewRow == [ tier |-> "observe", status |-> "active", deleted |-> FALSE,
            polled |-> FALSE, writes |-> TRUE ]

Operations == { "register", "promote", "demote", "override", "change" }

Idle == [ op |-> "register", at |-> "idle", wanted |-> NewRow, loaded |-> NewRow ]

TypeOK ==
  /\ registered \in BOOLEAN
  /\ row \in Rows
  /\ request \in [ Requests -> [ op : Operations, at : { "idle", "again", "write" },
                                 wanted : Rows, loaded : Rows ] ]
  /\ overridden \in BOOLEAN

Init ==
  /\ registered = FALSE
  /\ row = NewRow
  /\ request = [ r \in Requests |-> Idle ]
  /\ overridden = FALSE

Visible == registered /\ ~row.deleted    \* what RepoRepository.get finds

-----------------------------------------------------------------------------
(* The promotion service *)

ValidPromotions == [ observe |-> { "suggest" }, suggest |-> { "execute" }, execute |-> {} ]
ValidDemotions  == [ observe |-> {}, suggest |-> { "observe" },
                     execute |-> { "suggest", "observe" } ]

\* What the compliance checker is told of a repository; DB rows say nothing of
\* GitHub, so _create_github_repo_info fills in that there is nothing.
NoFacts == [ rulesets |-> FALSE, codeowners |-> "none", protection |-> "none", labels |-> FALSE ]

NoRulesets(facts) == ~facts.rulesets
NoReviewers(facts) == facts.codeowners = "none" /\ facts.protection # "reviewers"
NoProtection(facts) == facts.protection \notin { "reviews", "reviewers" }    \* by none, by some
NoLabels(facts) == ~facts.labels
NoPolicy(facts) == facts.codeowners # "all_paths"    \* of the tier execute

\* The checks that look at these facts, and fail without them.  The others
\* (projects, execution plane, credentials, merge mode) can only fail more.
Fails(facts) == \/ NoRulesets(facts) \/ NoReviewers(facts) \/ NoProtection(facts)
                \/ NoLabels(facts) \/ NoPolicy(facts)

\* Mutant: the way to execute is open without the compliance check.
EligibleUnchecked(from, to) == to \in ValidPromotions[from]

\* check_promotion_eligibility; nobody injects a checker for active workflows.
Eligible(from, to) ==
  /\ to \in ValidPromotions[from]
  /\ to = "execute" => ~Fails(NoFacts)

Demotable(from, to) == to \in ValidDemotions[from]

-----------------------------------------------------------------------------
(* Requests *)

\* RepoRepository.create looks for a row that is not deleted.
AsksToRegister(r) ==
  /\ request[r].at = "idle"
  /\ ~Visible
  /\ request' = [ request EXCEPT ![r].op = "register", ![r].at = "write" ]
  /\ UNCHANGED << registered, row, overridden >>

\* Only the insert knows of owner and name being unique, deleted or not.
Registers(r) ==
  /\ request[r].op = "register" /\ request[r].at = "write"
  /\ registered' = TRUE
  /\ row' = IF registered THEN row ELSE NewRow
  /\ request' = [ request EXCEPT ![r] = Idle ]
  /\ UNCHANGED overridden

\* The first load.  What an endpoint decides, it decides on this row, and what
\* it asks for is the row as it should be.
Asks(r, op, at, wanted) ==
  /\ request[r].at = "idle"
  /\ Visible
  /\ request' = [ request EXCEPT ![r] =
                    [ op |-> op, at |-> at, wanted |-> wanted, loaded |-> row ] ]
  /\ UNCHANGED << registered, row, overridden >>

SetTier(r, op, tier) == Asks(r, op, "again", [ row EXCEPT !.tier = tier ])
Change(r, wanted) == Asks(r, "change", "write", wanted)

Promote(r, tier) == Eligible(row.tier, tier) /\ SetTier(r, "promote", tier)
Demote(r, tier) == Demotable(row.tier, tier) /\ SetTier(r, "demote", tier)
ChangeTier(r, tier) == SetTier(r, "override", tier)

Pause(r) == Change(r, [ row EXCEPT !.status = "paused" ])
Resume(r) == Change(r, [ row EXCEPT !.status = "active" ])
Delete(r) == Change(r, [ row EXCEPT !.status = "disabled", !.deleted = TRUE ])
UpdateProfile(r) == Change(r, [ row EXCEPT !.polled = ~row.polled ])
ToggleWrites(r) == Change(r, [ row EXCEPT !.writes = ~row.writes ])

\* update_tier asks for the row again: it is found or not, but the session
\* keeps the columns it has.
LoadsAgain(r) ==
  /\ request[r].at = "again"
  /\ request' = [ request EXCEPT ![r] = IF Visible THEN [ @ EXCEPT !.at = "write" ] ELSE Idle ]
  /\ UNCHANGED << registered, row, overridden >>

\* Mutant: the UPDATE writes every column as the session has it.
WritesWholeRow(r) ==
  LET asked == request[r] IN
  /\ asked.at = "write" /\ asked.op # "register"
  /\ row' = asked.wanted
  /\ overridden' = (overridden \/ (asked.op = "override" /\ asked.wanted.tier = "execute"))
  /\ request' = [ request EXCEPT ![r] = Idle ]
  /\ UNCHANGED registered

\* UPDATE ... WHERE id = ..., and the commit.
Writes(r) ==
  LET asked == request[r] IN
  /\ asked.at = "write" /\ asked.op # "register"
  /\ row' = [ c \in DOMAIN row |-> IF asked.wanted[c] # asked.loaded[c] THEN asked.wanted[c]
                                                                        ELSE row[c] ]
  /\ overridden' = (overridden \/ (asked.op = "override" /\ asked.wanted.tier = "execute"))
  /\ request' = [ request EXCEPT ![r] = Idle ]
  /\ UNCHANGED registered

-----------------------------------------------------------------------------
Next ==
  \/ \E r \in Requests :
       \/ AsksToRegister(r) \/ Registers(r)
       \/ \E tier \in Tiers : Promote(r, tier) \/ Demote(r, tier) \/ ChangeTier(r, tier)
       \/ Pause(r) \/ Resume(r) \/ Delete(r) \/ UpdateProfile(r) \/ ToggleWrites(r)
       \/ LoadsAgain(r) \/ Writes(r)

Spec == Init /\ [][Next]_vars

\* A repository is at execute only if an administrator put it there: no race of
\* promotions, demotions and overrides gets round the compliance gate.
ExecuteIsGated == row.tier = "execute" => overridden

\* Once deleted a repository stays deleted, whichever pause, promotion or profile
\* change had loaded its row before and commits after.
StaysDeleted == row.deleted => row'.deleted
DeletionIsFinal == [][StaysDeleted]_vars

-----------------------------------------------------------------------------
(* The inductive invariant of the proofs *)

\* An insert is the first thing that happens to a row.
RowOK == ~registered => row = NewRow

Changing(r) == request[r].at # "idle" /\ request[r].op # "register"

\* What a request that changes the row may have loaded and may want: its row
\* was there and not deleted, and only an override leads up to execute.
RequestOK ==
  \A r \in Requests : Changing(r) =>
    /\ registered
    /\ ~request[r].loaded.deleted
    /\ request[r].wanted.tier = "execute"
         => request[r].loaded.tier = "execute" \/ request[r].op = "override"

IInv == TypeOK /\ RowOK /\ RequestOK /\ ExecuteIsGated

=============================================================================
