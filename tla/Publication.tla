---------------------------- MODULE Publication -----------------------------
(***************************************************************************)
(* publish_activity and the attempts Temporal makes of it                  *)
(* (src/workflow/activities.py, src/publisher/publisher.py): one task's    *)
(* row, its branch and its pull requests on GitHub.                        *)
(*                                                                         *)
(* Every call to GitHub and every read or commit of the row is a step of   *)
(* its own.  An attempt that was timed out by the service may go on in the *)
(* worker, beside the attempt that replaces it.                            *)
(***************************************************************************)
EXTENDS Naturals, Sequences, TaskPacket

CONSTANTS
  RepoTiers,        \* repo_tier of the workflow's input
  MergeModes,       \* the merge modes an operator has chosen from
  StartStatuses,    \* the row when the workflow reaches its publish stage
  MaxAttempts,      \* max_retries + 1 of STEP_POLICIES[PUBLISH]
  MaxDisturbances   \* bound: API errors, time-outs, restarts, closed PRs,
                    \* rejections

ASSUME PublicationAssumption ==
  /\ MaxAttempts \in Nat \ {0}
  /\ MaxDisturbances \in Nat
  /\ StartStatuses \subseteq Statuses \ {"published"}

Attempts == 1..MaxAttempts

\* The transitions _publish_real makes up for before it publishes.
StatusChain == << "enriched", "intent_built", "in_progress", "verification_passed" >>

PullRequest ==
  [ open : BOOLEAN, draft : BOOLEAN, evidence : BOOLEAN, tiered : BOOLEAN,
    lifecycle : { "none", "in_progress", "done" } ]

Points == { "idle", "start", "chain", "advance", "lookup", "branch", "create",
            "comment", "label", "unlabel", "done", "tier", "ready",
            "check", "write", "report", "returned", "raised" }

VARIABLES
  row,           \* status and pr_number (0 for NULL) of the TaskPacket
  branch,        \* the branch exists on GitHub
  prs,           \* the pull requests of that branch, by number
  attempt,       \* the locals of each attempt
  current,       \* the attempt the service waits for
  result,        \* what the service reports to the workflow
  repoTier, hasToken,
  mergeMode,     \* _merge_modes of the worker's process: not persisted
  disturbances

github == << branch, prs >>
settings == << repoTier, hasToken, mergeMode >>
service == << current, result >>
vars == << row, github, attempt, service, settings, disturbances >>

Locals == [ at : Points, link : 1..Len(StatusChain) + 1, pr : 0..MaxAttempts,
            created : BOOLEAN, mode : MergeModes \cup {"draft_only"} ]

TypeOK ==
  /\ row \in [ status : Statuses, prNumber : 0..MaxAttempts ]
  /\ branch \in BOOLEAN
  /\ prs \in Seq(PullRequest) /\ Len(prs) <= MaxAttempts
  /\ attempt \in [ Attempts -> Locals ]
  /\ current \in Attempts
  /\ result \in { "pending", "success", "failed" }
  /\ repoTier \in RepoTiers
  /\ hasToken \in BOOLEAN
  /\ mergeMode \in MergeModes \cup {"draft_only"}
  /\ disturbances \in 0..MaxDisturbances

NotStarted == [ at |-> "idle", link |-> 1, pr |-> 0, created |-> FALSE, mode |-> "draft_only" ]

\* The implement step may have created the branch already.
Init ==
  /\ row \in [ status : StartStatuses, prNumber : {0} ]
  /\ branch \in BOOLEAN
  /\ prs = << >>
  /\ attempt = [ n \in Attempts |-> IF n = 1 THEN [ NotStarted EXCEPT !.at = "start" ]
                                    ELSE NotStarted ]
  /\ current = 1
  /\ result = "pending"
  /\ repoTier \in RepoTiers
  /\ hasToken \in BOOLEAN
  /\ mergeMode \in MergeModes
  /\ disturbances = 0

Running(n) == attempt[n].at \notin { "idle", "returned", "raised" }
OpenPRs == { p \in 1..Len(prs) : prs[p].open }

\* verification_passed and qa_passed hold whenever the stage is reached; the
\* row's task_trust_tier is never set, so the repository's tier is effective.
ShouldMarkReady(tier, mode) == mode # "draft_only" /\ tier \in { "suggest", "execute" }

-----------------------------------------------------------------------------
(* The retry policy of the service *)

\* The attempt the service waits for has failed: the next one is started, if
\* there is one.  at is where that leaves the attempt.
Retry(n, at) ==
  IF n < MaxAttempts
    THEN /\ attempt' = [ attempt EXCEPT ![n].at = at, ![n + 1].at = "start" ]
         /\ current' = n + 1
         /\ UNCHANGED result
    ELSE /\ attempt' = [ attempt EXCEPT ![n].at = at ]
         /\ result' = "failed"
         /\ UNCHANGED current

\* The failure of an attempt that was replaced interests nobody.
Raise(n) ==
  IF n = current /\ result = "pending"
    THEN Retry(n, "raised")
    ELSE /\ attempt' = [ attempt EXCEPT ![n].at = "raised" ]
         /\ UNCHANGED service

GoOn(n, at) == attempt' = [ attempt EXCEPT ![n].at = at ] /\ UNCHANGED service

-----------------------------------------------------------------------------
(* The steps of attempt n *)

\* Without a token the activity succeeds and publishes nothing.
Start(n) ==
  /\ attempt[n].at = "start"
  /\ GoOn(n, IF hasToken THEN "chain" ELSE "report")
  /\ UNCHANGED << row, github, settings, disturbances >>

NextLink(n) ==
  /\ attempt' = [ attempt EXCEPT ![n].link = @ + 1,
                    ![n].at = IF attempt[n].link = Len(StatusChain) THEN "lookup" ELSE "chain" ]
  /\ UNCHANGED service

\* update_status reads the row; a transition that is not allowed is skipped.
ChainReads(n) ==
  /\ attempt[n].at = "chain"
  /\ IF MayMove(row.status, StatusChain[attempt[n].link]) THEN GoOn(n, "advance")
                                                          ELSE NextLink(n)
  /\ UNCHANGED << row, github, settings, disturbances >>

ChainWrites(n) ==
  /\ attempt[n].at = "advance"
  /\ row' = [ row EXCEPT !.status = StatusChain[attempt[n].link] ]
  /\ NextLink(n)
  /\ UNCHANGED << github, settings, disturbances >>

\* get_merge_mode and find_pr_by_head, which returns an open pull request.
LookUp(n) ==
  /\ attempt[n].at = "lookup"
  /\ IF OpenPRs = {}
       THEN attempt' = [ attempt EXCEPT ![n].at = "branch", ![n].mode = mergeMode ]
       ELSE \E p \in OpenPRs :
              attempt' = [ attempt EXCEPT ![n].at = "comment", ![n].mode = mergeMode,
                                          ![n].pr = p ]
  /\ UNCHANGED << row, github, service, settings, disturbances >>

\* Mutant: "Reference already exists" is an error like any other.
CreateBranchOnce(n) ==
  /\ attempt[n].at = "branch"
  /\ IF branch THEN Raise(n) ELSE GoOn(n, "create")
  /\ branch' = TRUE
  /\ UNCHANGED << row, prs, settings, disturbances >>

CreateBranch(n) ==
  /\ attempt[n].at = "branch"
  /\ branch' = TRUE
  /\ GoOn(n, "create")
  /\ UNCHANGED << row, prs, settings, disturbances >>

\* GitHub refuses a second open pull request of the same branch.
CreatePullRequest(n) ==
  /\ attempt[n].at = "create"
  /\ IF OpenPRs = {}
       THEN /\ prs' = Append(prs, [ open |-> TRUE, draft |-> TRUE, evidence |-> FALSE,
                                    tiered |-> FALSE, lifecycle |-> "none" ])
            /\ attempt' = [ attempt EXCEPT ![n].at = "comment", ![n].created = TRUE,
                                           ![n].pr = Len(prs) + 1 ]
            /\ UNCHANGED service
       ELSE Raise(n) /\ UNCHANGED prs
  /\ UNCHANGED << row, branch, settings, disturbances >>

\* Mutant: the path for an existing pull request refreshes its comment only.
NextEditCommentOnly(created) ==
  IF created THEN [ comment |-> "label", label |-> "unlabel", unlabel |-> "done",
                    done |-> "tier", tier |-> "ready", ready |-> "check" ]
             ELSE [ comment |-> "check" ]

\* The edits of a pull request, in the order of the two paths of publish().
NextEdit(created) ==
  IF created THEN [ comment |-> "label", label |-> "unlabel", unlabel |-> "done",
                    done |-> "tier", tier |-> "ready", ready |-> "check" ]
             ELSE [ comment |-> "ready", ready |-> "tier", tier |-> "check" ]

Edited(pr, edit, mode) ==
  CASE edit = "comment" -> [ pr EXCEPT !.evidence = TRUE ]
    [] edit = "label"   -> [ pr EXCEPT !.lifecycle = "in_progress" ]
    [] edit = "unlabel" -> [ pr EXCEPT !.lifecycle = "none" ]
    [] edit = "done"    -> [ pr EXCEPT !.lifecycle = "done" ]
    [] edit = "tier"    -> [ pr EXCEPT !.tiered = TRUE ]
    [] edit = "ready"   -> [ pr EXCEPT !.draft = @ /\ ~ShouldMarkReady(repoTier, mode) ]

EditPullRequest(n) ==
  LET me == attempt[n] IN
  /\ me.at \in DOMAIN NextEdit(me.created)
  /\ prs' = [ prs EXCEPT ![me.pr] = Edited(@, me.at, me.mode) ]
  /\ GoOn(n, NextEdit(me.created)[me.at])
  /\ UNCHANGED << row, branch, settings, disturbances >>

\* Mutant: the final transition is forced.
ChecksNothing(n) ==
  /\ attempt[n].at = "check"
  /\ GoOn(n, "write")
  /\ UNCHANGED << row, github, settings, disturbances >>

\* The last update_status reads the row; here a refusal is an error.
ChecksStatus(n) ==
  /\ attempt[n].at = "check"
  /\ IF MayMove(row.status, "published") THEN GoOn(n, "write") ELSE Raise(n)
  /\ UNCHANGED << row, github, settings, disturbances >>

\* Only the path that created the pull request knows its number is to be kept.
WritesPublished(n) ==
  /\ attempt[n].at = "write"
  /\ row' = [ status |-> "published",
              prNumber |-> IF attempt[n].created THEN attempt[n].pr ELSE row.prNumber ]
  /\ GoOn(n, "report")
  /\ UNCHANGED << github, settings, disturbances >>

\* Mutant: the answer is not taken.
ReportsUnheard(n) ==
  /\ attempt[n].at = "report"
  /\ GoOn(n, "returned")
  /\ UNCHANGED << row, github, settings, disturbances >>

\* The service takes the answer of the attempt it waits for and of no other.
Reports(n) ==
  /\ attempt[n].at = "report"
  /\ attempt' = [ attempt EXCEPT ![n].at = "returned" ]
  /\ result' = IF n = current /\ result = "pending" THEN "success" ELSE result
  /\ UNCHANGED << row, github, current, settings, disturbances >>

Step(n) ==
  \/ Start(n) \/ ChainReads(n) \/ ChainWrites(n) \/ LookUp(n)
  \/ CreateBranch(n) \/ CreatePullRequest(n) \/ EditPullRequest(n)
  \/ ChecksStatus(n) \/ WritesPublished(n) \/ Reports(n)

-----------------------------------------------------------------------------
(* Disturbances *)

Disturbed ==
  /\ disturbances < MaxDisturbances
  /\ disturbances' = disturbances + 1

\* A call to GitHub or the database fails for good, after it took effect or
\* before.
CallFails(n) ==
  /\ Disturbed
  /\ Running(n)
  /\ Raise(n)
  /\ UNCHANGED << row, github, settings >>

\* A failing commit in the chain of transitions is swallowed.
ChainWriteFails(n) ==
  /\ Disturbed
  /\ attempt[n].at = "advance"
  /\ NextLink(n)
  /\ UNCHANGED << row, github, settings >>

\* start_to_close_timeout: the attempt may go on, but is not waited for.
TimesOut(n) ==
  /\ Disturbed
  /\ n = current /\ result = "pending"
  /\ Retry(n, attempt[n].at)
  /\ UNCHANGED << row, github, settings >>

\* The worker restarts: its attempts and its merge modes are gone.
Restart ==
  LET dead == [ n \in Attempts |-> IF Running(n) THEN [ attempt[n] EXCEPT !.at = "raised" ]
                                   ELSE attempt[n] ]
      more == result = "pending" /\ current < MaxAttempts IN
  /\ Disturbed
  /\ \E n \in Attempts : Running(n)
  /\ attempt' = IF more THEN [ dead EXCEPT ![current + 1].at = "start" ] ELSE dead
  /\ current' = IF more THEN current + 1 ELSE current
  /\ result' = IF result = "pending" /\ ~more THEN "failed" ELSE result
  /\ mergeMode' = "draft_only"
  /\ UNCHANGED << row, github, repoTier, hasToken >>

\* Somebody closes a pull request on GitHub.
HumanCloses(p) ==
  /\ Disturbed
  /\ prs' = [ prs EXCEPT ![p].open = FALSE ]
  /\ UNCHANGED << row, branch, attempt, service, settings >>

\* reject_task read the row in triage, before an acceptance that overtook it
\* let the workflow start, and commits now: it looks at no status any more.
RejectionCommits ==
  /\ Disturbed
  /\ row.status # "rejected"
  /\ row' = [ row EXCEPT !.status = "rejected" ]
  /\ UNCHANGED << github, attempt, service, settings >>

Disturbance ==
  \/ \E n \in Attempts : CallFails(n) \/ ChainWriteFails(n) \/ TimesOut(n)
  \/ Restart
  \/ RejectionCommits
  \/ \E p \in OpenPRs : HumanCloses(p)

\* The service has its answer and the worker is idle.
Settled == result # "pending" /\ (\A n \in Attempts : ~Running(n)) /\ UNCHANGED vars

Next == (\E n \in Attempts : Step(n)) \/ Disturbance \/ Settled

Spec == Init /\ [][Next]_vars

\* Every call returns or raises within the client's time-outs, so the attempt
\* the service waits for goes on; nothing is assumed of one it gave up.
FairSpec == Spec /\ WF_vars(Step(current))

-----------------------------------------------------------------------------
(* Properties *)

\* The pull request carries all that a published one must have.
Complete(p) ==
  /\ prs[p].evidence /\ prs[p].tiered
  /\ prs[p].draft => ~ShouldMarkReady(repoTier, mergeMode)
  /\ ~prs[p].draft => repoTier \in { "suggest", "execute" }

\* Whatever attempt published the task and whichever did the work, a row that
\* says "published", or a success reported by a worker that has a token, comes
\* with a pull request that has its evidence, its tier and its ready state.
PublishedMeansDelivered ==
  row.status = "published" \/ (result = "success" /\ hasToken)
    => \E p \in 1..Len(prs) : Complete(p)

\* Attempts between their read of the row and their write of it.
Unaware == { n \in Attempts : attempt[n].at \in { "advance", "write" } }

\* Once a task is rejected, before the publication or in the middle of it, no
\* attempt that reads the row goes on to write it: the rejection stands unless
\* an attempt had read the row before.  Such an attempt overwrites it, because
\* update_status compares nothing when it writes.
RejectedIsNotPublished ==
  [][ row.status = "rejected"
        => /\ Unaware' \subseteq Unaware
           /\ row'.status # "rejected" => \E n \in Unaware : n \notin Unaware' ]_vars

\* One disturbance, of whatever kind and wherever it strikes, does not keep a
\* task from being published, unless it is a rejection: what an attempt left
\* behind is in nobody's way.  An attempt that was timed out but goes on can
\* spoil later ones by writing the transitions it has left, but the policy has
\* more attempts than those.
RetryHeals ==
  hasToken /\ row.status = "received"
    ~> row.status \in { "published", "rejected" } \/ disturbances > 1

\* The workflow gets an answer, however attempts and time-outs interleave.
Answered == <>(result # "pending")

\* The row of a published task knows its pull request.
PublishedIsRecorded == row.status = "published" => row.prNumber # 0

=============================================================================
