------------------------------ MODULE Revision ------------------------------
(***************************************************************************)
(* The code of one task on its way to the publisher: implement_activity,   *)
(* which generates files and pushes them one by one to the task's branch,  *)
(* verify_activity with remote verification (src/workflow/activities.py,   *)
(* src/verification/remote/orchestrator.py), QA, and the loopbacks.        *)
(*                                                                         *)
(* Every attempt of every implementation works on the same branch.  An     *)
(* attempt that fails leaves there what it pushed, and one that outlived   *)
(* its time-out pushes on until it is cancelled.                           *)
(***************************************************************************)
EXTENDS Integers

CONSTANTS
  Paths,          \* the files an implementation may generate
  Tries,          \* attempts of one implement activity
  MaxLoopbacks,   \* bound on verification and QA loopbacks together
  MaxFaults       \* bound: failing calls and time-outs

\* What the constants are taken to be, where this module is instantiated.
RevisionAssumption ==
  Tries \in Nat \ {0} /\ MaxLoopbacks \in Nat /\ MaxFaults \in Nat

Attempts == 1..(Tries * (MaxLoopbacks + 1))
None == 0    \* no attempt; the content of a file on the default branch
Gone == -1   \* the branch does not have the file any more

VARIABLES
  stage,
  attempt,    \* each attempt of implement_activity
  current,    \* the attempt whose result the workflow awaits
  tries,      \* attempts of this activity so far
  loopbacks,
  tip,        \* per file of the branch, the attempt whose version it is
  reported,   \* files_changed of the implementation at hand
  remote,     \* remote_verification_enabled in the repository's profile
  seen,       \* what the verification at hand has looked at
  check,      \* what it passed
  faults,
  removed     \* history: the files that people have removed from the branch

vars == << stage, attempt, current, tries, loopbacks, tip, reported, remote, seen, check, faults,
           removed >>

Contents == [ Paths -> Attempts \cup { None, Gone } ]

TypeOK ==
  /\ stage \in { "implement", "verify", "checks", "qa", "publish", "failed" }
  /\ attempt \in [ Attempts -> [ at : { "unused", "run", "put", "raised", "over" },
                                 todo : SUBSET Paths, pushed : SUBSET Paths,
                                 path : SUBSET Paths, sha : Attempts \cup {None} ] ]
  /\ current \in Attempts \cup {None}
  /\ tries \in 0..Tries /\ loopbacks \in 0..MaxLoopbacks
  /\ tip \in Contents /\ seen \in Contents
  /\ reported \subseteq Paths /\ removed \subseteq Paths
  /\ remote \in BOOLEAN
  /\ check \in { "none", "files_exist", "remote" }
  /\ faults \in 0..MaxFaults

Unchanged == [ p \in Paths |-> None ]

\* A coroutine that has no files in hand: it is not started, or it has ended.
Empty(at) == [ at |-> at, todo |-> {}, pushed |-> {}, path |-> {}, sha |-> None ]

Init ==
  /\ stage = "implement"
  /\ attempt = [ a \in Attempts |-> Empty("unused") ]
  /\ current = None
  /\ tries = 0 /\ loopbacks = 0
  /\ tip = Unchanged /\ seen = Unchanged
  /\ reported = {}
  /\ remote \in BOOLEAN
  /\ check = "none"
  /\ faults = 0
  /\ removed = {}

Fault == faults < MaxFaults /\ faults' = faults + 1

-----------------------------------------------------------------------------
(* _implement_in_process *)

\* The model's answer: the files to push.  None is the answer without files,
\* the one that cannot be parsed, and the missing token.
Starts(files) ==
  LET a == loopbacks * Tries + tries + 1 IN
  /\ stage = "implement" /\ current = None /\ tries < Tries
  /\ attempt' = [ attempt EXCEPT ![a].at = "run", ![a].todo = files ]
  /\ current' = a
  /\ tries' = tries + 1
  /\ UNCHANGED << stage, loopbacks, tip, reported, remote, seen, check, faults, removed >>

\* get_file_content: the sha of the version that is to be replaced, if any.
Reads(a, p) ==
  /\ attempt[a].at = "run" /\ p \in attempt[a].todo
  /\ attempt' = [ attempt EXCEPT ![a].at = "put", ![a].path = {p},
                                 ![a].sha = IF tip[p] = Gone THEN None ELSE tip[p] ]
  /\ UNCHANGED << stage, current, tries, loopbacks, tip, reported, remote, seen, check, faults, removed >>

\* GitHub takes a new version of what was read, and a file it does not have.  (What
\* was read may have been None, a file of the default branch that is gone since.)
Takes(a, p) == tip[p] = attempt[a].sha \/ (tip[p] = Gone /\ attempt[a].sha = None)
Refuses(a, p) == tip[p] # attempt[a].sha

\* create_or_update_file
Puts(a) ==
  /\ attempt[a].at = "put"
  /\ \E p \in attempt[a].path :
       \/ /\ Takes(a, p)
          /\ tip' = [ tip EXCEPT ![p] = a ]
          /\ attempt' = [ attempt EXCEPT ![a].at = "run", ![a].todo = @ \ {p},
                                         ![a].pushed = @ \cup {p}, ![a].path = {}, ![a].sha = None ]
       \/ /\ Refuses(a, p)
          /\ attempt' = [ attempt EXCEPT ![a] = Empty("raised") ]
          /\ UNCHANGED tip
  /\ UNCHANGED << stage, current, tries, loopbacks, reported, remote, seen, check, faults, removed >>

\* A call raises, before or after it took effect.
CallFails(a) ==
  /\ Fault
  /\ attempt[a].at \in { "run", "put" }
  /\ attempt' = [ attempt EXCEPT ![a] = Empty("raised") ]
  /\ \/ UNCHANGED tip
     \/ /\ attempt[a].at = "put"
        /\ \E p \in attempt[a].path : Takes(a, p) /\ tip' = [ tip EXCEPT ![p] = a ]
  /\ UNCHANGED << stage, current, tries, loopbacks, reported, remote, seen, check, removed >>

Returns(a) ==
  /\ attempt[a].at = "run" /\ attempt[a].todo = {}
  /\ attempt' = [ attempt EXCEPT ![a] = Empty("over") ]
  /\ IF a = current
       THEN /\ reported' = attempt[a].pushed
            /\ stage' = "verify"
            /\ current' = None
       ELSE UNCHANGED << reported, stage, current >>
  /\ UNCHANGED << tries, loopbacks, tip, remote, seen, check, faults, removed >>

\* The service has the next attempt, or fails the workflow.
GivesUp ==
  /\ current' = None
  /\ stage' = IF tries < Tries THEN "implement" ELSE "failed"

Raises(a) ==
  /\ attempt[a].at = "raised"
  /\ attempt' = [ attempt EXCEPT ![a] = Empty("over") ]
  /\ IF a = current THEN GivesUp ELSE UNCHANGED << current, stage >>
  /\ UNCHANGED << tries, loopbacks, tip, reported, remote, seen, check, faults, removed >>

\* start_to_close_timeout: the coroutine of the attempt learns of it later.
TimesOut ==
  /\ Fault
  /\ current # None /\ attempt[current].at \in { "run", "put" }
  /\ GivesUp
  /\ UNCHANGED << attempt, tries, loopbacks, tip, reported, remote, seen, check, removed >>

Cancelled(a) ==
  /\ attempt[a].at \in { "run", "put" } /\ a # current
  /\ attempt' = [ attempt EXCEPT ![a] = Empty("over") ]
  /\ UNCHANGED << stage, current, tries, loopbacks, tip, reported, remote, seen, check, faults, removed >>

-----------------------------------------------------------------------------
(* People, on GitHub: a version that an attempt pushed is removed.  A file that *)
(* is pushed again may be removed again.                                        *)

SomeoneRemoves(p) ==
  /\ tip[p] \in Attempts
  /\ tip' = [ tip EXCEPT ![p] = Gone ]
  /\ removed' = removed \cup {p}
  /\ UNCHANGED << stage, attempt, current, tries, loopbacks, reported, remote, seen, check, faults >>

-----------------------------------------------------------------------------
(* verify_activity *)

LoopsBack ==
  /\ stage' = IF loopbacks < MaxLoopbacks THEN "implement" ELSE "failed"
  /\ loopbacks' = IF loopbacks < MaxLoopbacks THEN loopbacks + 1 ELSE loopbacks
  /\ tries' = IF loopbacks < MaxLoopbacks THEN 0 ELSE tries
  /\ check' = "none"
  /\ UNCHANGED << attempt, current, tip, reported, remote, seen, removed >>

NothingToVerify ==
  /\ stage = "verify" /\ reported = {}
  /\ LoopsBack
  /\ UNCHANGED faults

\* What was pushed is there: no file is looked into.
FilesExist ==
  /\ stage' = "qa"
  /\ check' = "files_exist"
  /\ seen' = Unchanged
  /\ UNCHANGED << attempt, current, tries, loopbacks, tip, reported, remote, removed >>

\* Mutant: the fallback takes an empty list of files for verified, too.
VerifiesAnything ==
  /\ stage = "verify"
  /\ ~remote
  /\ FilesExist
  /\ UNCHANGED faults

VerifiesLocally ==
  /\ stage = "verify" /\ reported # {}
  /\ ~remote
  /\ FilesExist
  /\ UNCHANGED faults

\* The profile could not be read, or no token is configured.
FallsBack ==
  /\ Fault
  /\ stage = "verify" /\ reported # {}
  /\ remote
  /\ FilesExist

Clones(workspace) ==
  /\ stage = "verify" /\ reported # {}
  /\ remote
  /\ stage' = "checks"
  /\ seen' = workspace
  /\ UNCHANGED << attempt, current, tries, loopbacks, tip, reported, remote, check, removed >>

ClonesBranch == Clones(tip) /\ UNCHANGED faults

\* Mutant: the default branch is taken as it is.
ClonesBare == Fault /\ Clones(Unchanged)

\* The branch could not be cloned: the default branch, with the changed files.  One
\* that GitHub does not find is skipped, and the version of the default branch stays.
ClonesDefault ==
  /\ Fault
  /\ Clones([ p \in Paths |-> IF p \in reported /\ tip[p] # Gone THEN tip[p] ELSE None ])

ClonesNothing ==
  /\ Fault
  /\ stage = "verify" /\ reported # {} /\ remote
  /\ LoopsBack

\* Install, lint and test, all of them and in time.
ChecksPass ==
  /\ stage = "checks"
  /\ stage' = "qa"
  /\ check' = "remote"
  /\ UNCHANGED << attempt, current, tries, loopbacks, tip, reported, remote, seen, faults, removed >>

ChecksFail ==
  /\ stage = "checks"
  /\ LoopsBack
  /\ UNCHANGED faults

-----------------------------------------------------------------------------
(* QA, and the way to the publisher *)

QaPasses ==
  /\ stage = "qa"
  /\ stage' = "publish"
  /\ UNCHANGED << attempt, current, tries, loopbacks, tip, reported, remote, seen, check, faults, removed >>

QaFails ==
  /\ stage = "qa"
  /\ LoopsBack
  /\ UNCHANGED faults

Over == stage \in { "publish", "failed" } /\ UNCHANGED vars

Implement == \/ \E files \in SUBSET Paths : Starts(files)
             \/ \E a \in Attempts : \/ \E p \in Paths : Reads(a, p)
                                    \/ Puts(a) \/ CallFails(a) \/ Returns(a) \/ Raises(a) \/ Cancelled(a)
             \/ TimesOut
Verify == \/ NothingToVerify \/ VerifiesLocally \/ FallsBack
          \/ ClonesBranch \/ ClonesDefault \/ ClonesNothing \/ ChecksPass \/ ChecksFail

Next == \/ Implement \/ Verify \/ QaPasses \/ QaFails \/ Over
        \/ \E p \in Paths : SomeoneRemoves(p)

Spec == Init /\ [][Next]_vars

-----------------------------------------------------------------------------
\* What QA and the publisher are told was changed is something, and it was put on
\* the branch and is there, whatever failed, timed out or was pushed over meanwhile,
\* unless a person has removed it (Gone).
EvidenceIsOnBranch ==
  stage \in { "qa", "publish" } => reported # {} /\ \A p \in reported : tip[p] # None

\* A remote verification had the task's version of every file of the evidence, also
\* when it could not clone the branch, but of those that a person had removed: it
\* passed without them, or on the default branch's version of them.
RemoteSawEvidence ==
  stage \in { "qa", "publish" } /\ check = "remote"
    => \A p \in reported \ removed : seen[p] \in Attempts

\* "Gates fail closed: if the verification runner itself errors, the gate fails"
\* (docs/epics/stories/story-0.6-verification-gate.md).
FailsClosed == remote /\ stage \in { "qa", "publish" } => check = "remote"

-----------------------------------------------------------------------------
(* The inductive invariant of the proofs *)

OnBranch == { p \in Paths : tip[p] # None }

\* What an attempt took for pushed stays on the branch, and so does what the
\* implementation at hand has reported.
PushedIsThere == \A a \in Attempts : attempt[a].pushed \subseteq OnBranch
ReportedIsThere == reported \subseteq OnBranch

\* Only people take a file away.
GoneIsRemoved == \A p \in Paths : tip[p] = Gone => p \in removed

\* What is looked at is something, and the checks of a clone run on all of it.
AtHand == { "checks", "qa", "publish" }
SomethingReported == stage \in AtHand => reported # {}
SeenIsReported ==
  stage \in AtHand /\ (stage = "checks" \/ check = "remote")
    => \A p \in reported \ removed : seen[p] \in Attempts

IInv == /\ TypeOK /\ PushedIsThere /\ ReportedIsThere /\ GoneIsRemoved
        /\ SomethingReported /\ SeenIsReported

=============================================================================
