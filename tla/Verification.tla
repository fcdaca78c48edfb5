---------------------------- MODULE Verification ----------------------------
(***************************************************************************)
(* Remote verifications at work on one host (src/verification/remote):     *)
(* each clones the branch of its task into a directory of its own, and     *)
(* installs, lints and tests it there, as processes of the worker or in a  *)
(* container.                                                              *)
(*                                                                         *)
(* A time-out ends the wait for a process and not the process.  What a     *)
(* process installs, it installs into the environment of the worker, which *)
(* all verifications share; a container has an environment of its own.     *)
(***************************************************************************)
EXTENDS Naturals, FiniteSets

CONSTANTS
  Runs,         \* verifications: of several tasks, or attempts of one activity
  MaxTroubles   \* bound: time-outs, failing calls, dying workers

VerificationAssumption == MaxTroubles \in Nat

Steps == { "install", "lint", "test" }
NoRun == 0    \* nobody's code

VARIABLES
  run,         \* what each verification is at, and what its steps said
  directory,   \* what its directory holds
  orphans,     \* its processes that nobody waits for any more
  container,   \* its container, and the result.json it has written
  installed,   \* whose code the worker's environment has
  verdict,
  tested,      \* history: whose code its tests ran with
  company,     \* history: verifications that were not alone on the host
  troubled,    \* history: those that met a time-out or a failing call
  troubles

vars == << run, directory, orphans, container, installed, verdict, tested,
           company, troubled, troubles >>

Waiting == { "clone", "clone_main" } \cup Steps
InDocker == { "docker", "create", "start", "wait", "collect" }
AtWork == Waiting \cup InDocker \cup { "apply", "remove", "cleanup" }

TypeOK ==
  /\ run \in [ Runs -> [ at : { "idle", "returned", "dead" } \cup AtWork,
                         mode : { "subprocess", "container" },
                         said : [ Steps -> { "nothing", "passed", "failed" } ] ] ]
  /\ directory \in [ Runs -> { "none", "empty", "branch", "main", "patched" } ]
  /\ orphans \in [ Runs -> SUBSET Waiting ]
  /\ container \in [ Runs -> [ at : { "none", "created", "running", "exited" },
                               result : { "none", "passed", "failed" } ] ]
  /\ installed \in Runs \cup {NoRun}
  /\ verdict \in [ Runs -> { "none", "pass", "fail", "raised" } ]
  /\ tested \in [ Runs -> Runs \cup {NoRun} ]
  /\ company \subseteq Runs /\ troubled \subseteq Runs
  /\ troubles \in 0..MaxTroubles

Silent == [ s \in Steps |-> "nothing" ]
NoContainer == [ at |-> "none", result |-> "none" ]

Init ==
  /\ run = [ r \in Runs |-> [ at |-> "idle", mode |-> "subprocess", said |-> Silent ] ]
  /\ directory = [ r \in Runs |-> "none" ]
  /\ orphans = [ r \in Runs |-> {} ]
  /\ container = [ r \in Runs |-> NoContainer ]
  /\ installed = NoRun
  /\ verdict = [ r \in Runs |-> "none" ]
  /\ tested = [ r \in Runs |-> NoRun ]
  /\ company = {} /\ troubled = {} /\ troubles = 0

Goes(r, to) == run' = [ run EXCEPT ![r].at = to ]
Holds(r, what) == directory' = [ directory EXCEPT ![r] = what ]
Abandons(r) == orphans' = [ orphans EXCEPT ![r] = @ \cup { run[r].at } ]

Trouble(r) ==
  /\ troubles < MaxTroubles
  /\ troubles' = troubles + 1
  /\ troubled' = troubled \cup {r}

Calm == UNCHANGED << troubled, troubles >>

\* The finally of either mode: the directory goes, whatever the answer is.
Answers(r, answer) ==
  /\ Goes(r, "returned")
  /\ verdict' = [ verdict EXCEPT ![r] = answer ]
  /\ Holds(r, "none")

-----------------------------------------------------------------------------
(* The clone *)

Busy == { r \in Runs : run[r].at \in AtWork \/ orphans[r] # {} \/ container[r].at = "running" }

\* verify_remote: the git process starts.
Asks(r, mode) ==
  /\ run[r].at = "idle"
  /\ run' = [ run EXCEPT ![r].at = "clone", ![r].mode = mode ]
  /\ Holds(r, "empty")
  /\ company' = IF Busy = {} THEN company ELSE company \cup Busy \cup {r}
  /\ Calm
  /\ UNCHANGED << orphans, container, installed, verdict, tested >>

\* verify_activity passes no mode.
ActivityAsks(r) == Asks(r, "subprocess")

\* POST /verify/{taskpacket_id}: the administrator says the mode, and may ask while
\* the activity is at work on the same task.
AdministratorAsks(r) == \E mode \in { "subprocess", "container" } : Asks(r, mode)

Cloned(r) == IF run[r].mode = "container" THEN "docker" ELSE "install"

Clones(r) ==
  /\ \/ run[r].at = "clone" /\ Holds(r, "branch") /\ Goes(r, Cloned(r))
     \/ run[r].at = "clone_main" /\ Holds(r, "main") /\ Goes(r, "apply")
  /\ Calm
  /\ UNCHANGED << orphans, container, installed, verdict, tested, company >>

\* A clone that failed leaves no directory; main is cloned into another.
FallsBack(r) ==
  \/ run[r].at = "clone" /\ Goes(r, "clone_main") /\ Holds(r, "empty") /\ UNCHANGED verdict
  \/ run[r].at = "clone_main" /\ Answers(r, "fail")

CloneFails(r) ==
  /\ FallsBack(r)
  /\ Trouble(r)
  /\ UNCHANGED << orphans, container, installed, tested, company >>

\* The git process goes on after clone_timeout.
CloneTimesOut(r) ==
  /\ FallsBack(r)
  /\ Abandons(r)
  /\ Trouble(r)
  /\ UNCHANGED << container, installed, tested, company >>

\* apply_changed_files
Applies(r) ==
  /\ run[r].at = "apply"
  /\ Holds(r, "patched")
  /\ Goes(r, Cloned(r))
  /\ Calm
  /\ UNCHANGED << orphans, container, installed, verdict, tested, company >>

ApplyFails(r) ==
  /\ run[r].at = "apply"
  /\ Answers(r, "fail")
  /\ Trouble(r)
  /\ UNCHANGED << orphans, container, installed, tested, company >>

-----------------------------------------------------------------------------
(* The steps, as processes of the worker *)

\* Lint and tests follow whatever the other said; an install that failed is the end.
After(step, ok) ==
  CASE step = "install" -> IF ok THEN "lint" ELSE "end"
    [] step = "lint" -> "test"
    [] OTHER -> "end"

Overall(said) == IF \A s \in Steps : said[s] \in { "passed", "nothing" } THEN "pass" ELSE "fail"

Says(r, ok) ==
  LET step == run[r].at
      said == [ run[r].said EXCEPT ![step] = IF ok THEN "passed" ELSE "failed" ]
  IN IF After(step, ok) = "end"
       THEN /\ run' = [ run EXCEPT ![r] = [ @ EXCEPT !.at = "returned", !.said = said ] ]
            /\ verdict' = [ verdict EXCEPT ![r] = Overall(said) ]
            /\ Holds(r, "none")
       ELSE /\ run' = [ run EXCEPT ![r] = [ @ EXCEPT !.at = After(step, ok), !.said = said ] ]
            /\ UNCHANGED << verdict, directory >>

\* The process ends with the exit code of success (5, no tests, is one too).
StepPasses(r) ==
  /\ run[r].at \in Steps
  /\ Says(r, TRUE)
  /\ installed' = IF run[r].at = "install" THEN r ELSE installed
  /\ tested' = [ tested EXCEPT ![r] = IF run[r].at = "test" THEN installed ELSE @ ]
  /\ Calm
  /\ UNCHANGED << orphans, container, company >>

\* The process ends with another, or the command does not exist.
StepFails(r) ==
  /\ run[r].at \in Steps
  /\ Says(r, FALSE)
  /\ Calm
  /\ UNCHANGED << orphans, container, installed, tested, company >>

\* Mutant: a step that was not over in time has not failed.
StepTimesOutQuietly(r) ==
  /\ run[r].at \in Steps
  /\ Says(r, TRUE)
  /\ Abandons(r)
  /\ Trouble(r)
  /\ UNCHANGED << container, installed, tested, company >>

StepTimesOut(r) ==
  /\ run[r].at \in Steps
  /\ Says(r, FALSE)
  /\ Abandons(r)
  /\ Trouble(r)
  /\ UNCHANGED << container, installed, tested, company >>

\* verify_timeout_seconds: whatever is awaited is cancelled.  In the middle of a
\* clone nobody knows the directory yet, and it stays.
TotalTimesOut(r) ==
  /\ run[r].mode = "subprocess" /\ run[r].at \in Waiting \cup {"apply"}
  /\ Goes(r, "returned")
  /\ verdict' = [ verdict EXCEPT ![r] = "fail" ]
  /\ IF run[r].at \in { "clone", "clone_main" } THEN UNCHANGED directory ELSE Holds(r, "none")
  /\ IF run[r].at = "apply" THEN UNCHANGED orphans ELSE Abandons(r)
  /\ Trouble(r)
  /\ UNCHANGED << container, installed, tested, company >>

\* The process cannot be started for another reason than that there is no such
\* command: nothing catches that, apart from the fallback of the clone.
CannotStart(r) ==
  /\ \/ run[r].at \in Steps /\ Answers(r, "raised")
     \/ /\ run[r].at \in { "clone", "clone_main" }
        /\ Goes(r, "returned")
        /\ verdict' = [ verdict EXCEPT ![r] = IF run[r].at = "clone" THEN "raised" ELSE "fail" ]
        /\ UNCHANGED directory
  /\ Trouble(r)
  /\ UNCHANGED << orphans, container, installed, tested, company >>

\* An orphan ends; what it was to install it may have installed.
OrphanEnds(r) ==
  /\ \E step \in orphans[r] :
       /\ orphans' = [ orphans EXCEPT ![r] = @ \ {step} ]
       /\ installed' \in IF step = "install" THEN { installed, r } ELSE { installed }
  /\ Calm
  /\ UNCHANGED << run, directory, container, verdict, tested, company >>

-----------------------------------------------------------------------------
(* The container, src/verification/remote/container_runner.py *)

\* _is_docker_available; without Docker the steps are processes of the worker.
FindsDocker(r) ==
  /\ run[r].at = "docker"
  /\ \E there \in BOOLEAN : Goes(r, IF there THEN "create" ELSE "install")
  /\ Calm
  /\ UNCHANGED << directory, orphans, container, installed, verdict, tested, company >>

Launches(r) ==
  /\ \/ /\ run[r].at = "create" /\ Goes(r, "start")
        /\ container' = [ container EXCEPT ![r].at = "created" ]
     \/ /\ run[r].at = "start" /\ Goes(r, "wait")
        /\ container' = [ container EXCEPT ![r].at = "running" ]
  /\ Calm
  /\ UNCHANGED << directory, orphans, installed, verdict, tested, company >>

\* verify_entrypoint.py: all its steps are over before it writes their result,
\* and a step that takes too long is killed.
Reports(r) ==
  /\ container[r] = [ at |-> "running", result |-> "none" ]
  /\ \E result \in { "passed", "failed" } :
       /\ container' = [ container EXCEPT ![r].result = result ]
       /\ tested' = [ tested EXCEPT ![r] = IF result = "passed" THEN r ELSE @ ]
  /\ Calm
  /\ UNCHANGED << run, directory, orphans, installed, verdict, company >>

\* After its result, or before for want of memory.
Exits(r) ==
  /\ container[r].at = "running"
  /\ container' = [ container EXCEPT ![r].at = "exited" ]
  /\ Calm
  /\ UNCHANGED << run, directory, orphans, installed, verdict, tested, company >>

Waited(r) ==
  /\ run[r].at = "wait" /\ container[r].at = "exited"
  /\ Goes(r, "collect")
  /\ Calm
  /\ UNCHANGED << directory, orphans, container, installed, verdict, tested, company >>

\* _parse_result
Parsed(result) == IF result = "passed" THEN "pass" ELSE "fail"

\* No file is a failure like another.
Collects(r) ==
  /\ run[r].at = "collect"
  /\ Goes(r, "remove")
  /\ verdict' = [ verdict EXCEPT ![r] = Parsed(container[r].result) ]
  /\ Calm
  /\ UNCHANGED << directory, orphans, container, installed, tested, company >>

\* wait() raised, for the time-out or otherwise: the container is killed, if that
\* works, and its result not looked at.  Any other call that fails is the end too.
DockerFails(r) ==
  /\ run[r].at \in InDocker \ {"docker"}
  /\ Goes(r, "remove")
  /\ verdict' = [ verdict EXCEPT ![r] = "fail" ]
  /\ \/ UNCHANGED container
     \/ /\ run[r].at = "wait" /\ container[r].at = "running"
        /\ container' = [ container EXCEPT ![r].at = "exited" ]
  /\ Trouble(r)
  /\ UNCHANGED << directory, orphans, installed, tested, company >>

\* remove(force=True)
Removes(r) ==
  /\ run[r].at = "remove"
  /\ Goes(r, "cleanup")
  /\ container' = [ container EXCEPT ![r] = NoContainer ]
  /\ Calm
  /\ UNCHANGED << directory, orphans, installed, verdict, tested, company >>

RemoveFails(r) ==
  /\ run[r].at = "remove"
  /\ Goes(r, "cleanup")
  /\ Trouble(r)
  /\ UNCHANGED << directory, orphans, container, installed, verdict, tested, company >>

\* Mutant: the directory of a container is left to it.
CleansNothing(r) ==
  /\ run[r].at = "cleanup"
  /\ Goes(r, "returned")
  /\ Calm
  /\ UNCHANGED << directory, orphans, container, installed, verdict, tested, company >>

CleansUp(r) ==
  /\ run[r].at = "cleanup"
  /\ Goes(r, "returned")
  /\ Holds(r, "none")
  /\ Calm
  /\ UNCHANGED << orphans, container, installed, verdict, tested, company >>

\* With the worker its processes go, but neither directories nor containers.
WorkerDies ==
  /\ \E r \in Runs :
       /\ run[r].at \in AtWork
       /\ troubles < MaxTroubles
       /\ troubles' = troubles + 1
  /\ troubled' = troubled \cup { r \in Runs : run[r].at \in AtWork }
  /\ run' = [ r \in Runs |-> IF run[r].at \in AtWork THEN [ run[r] EXCEPT !.at = "dead" ] ELSE run[r] ]
  /\ verdict' = [ r \in Runs |-> IF run[r].at \in AtWork THEN "none" ELSE verdict[r] ]
  /\ orphans' = [ r \in Runs |-> {} ]
  /\ UNCHANGED << directory, container, installed, tested, company >>

-----------------------------------------------------------------------------
Next ==
  \/ \E r \in Runs :
       \/ ActivityAsks(r) \/ AdministratorAsks(r)
       \/ Clones(r) \/ CloneFails(r) \/ CloneTimesOut(r) \/ Applies(r) \/ ApplyFails(r)
       \/ StepPasses(r) \/ StepFails(r) \/ StepTimesOut(r) \/ TotalTimesOut(r)
       \/ CannotStart(r) \/ OrphanEnds(r)
       \/ FindsDocker(r) \/ Launches(r) \/ Reports(r) \/ Exits(r) \/ Waited(r)
       \/ Collects(r) \/ DockerFails(r) \/ Removes(r) \/ RemoveFails(r) \/ CleansUp(r)
  \/ WorkerDies

Spec == Init /\ [][Next]_vars

-----------------------------------------------------------------------------
(* Properties *)

\* A verification that passes has run the tests of its task with the code of its
\* task, if no other was at work, or had left a process at work, beside it.
PassedOwnCode == \A r \in Runs : verdict[r] = "pass" /\ r \notin company => tested[r] = r

\* It leaves neither a directory nor a container nor a process, unless something
\* failed or took too long.
LeavesNothing ==
  \A r \in Runs : run[r].at = "returned" /\ r \notin troubled
    => directory[r] = "none" /\ orphans[r] = {} /\ container[r] = NoContainer

-----------------------------------------------------------------------------
(* The inductive invariant of the proofs *)

\* A verification that met no trouble has its container while it is at it, and no
\* directory once it answered.
Tidy(r) ==
  r \notin troubled =>
    /\ orphans[r] = {}
    /\ container[r] # NoContainer => run[r].at \in { "start", "wait", "collect", "remove" }
    /\ run[r].at = "returned" => directory[r] = "none"

\* What its container reports is of its own code, and so is what is installed
\* while it is alone between its install step and its tests.
OwnCode(r) ==
  /\ container[r] # NoContainer =>
       run[r].at \in { "start", "wait", "collect", "remove", "cleanup", "returned", "dead" }
  /\ container[r].result = "passed" => tested[r] = r
  /\ r \notin company =>
       /\ run[r].at \in { "lint", "test" } => installed = r
       /\ verdict[r] = "pass" => tested[r] = r

RunsOK == \A r \in Runs : Tidy(r) /\ OwnCode(r)

\* Two that are on the host together know it.
CompanyOK == \A r, s \in Busy : r # s => r \in company /\ s \in company

IInv == TypeOK /\ RunsOK /\ CompanyOK

=============================================================================
