----------------------------- MODULE Isolation ------------------------------
(***************************************************************************)
(* Where the implement activity works (src/workflow/activities.py,         *)
(* src/agent/isolation_policy.py, src/agent/container_manager.py): in a    *)
(* container, in the worker's process or not at all, and what becomes of   *)
(* the container.                                                          *)
(*                                                                         *)
(* Docker may answer one call and fail the next, and the worker may die    *)
(* between any two; Temporal then starts the next attempt.                 *)
(***************************************************************************)
EXTENDS Naturals

CONSTANT MaxAttempts    \* maximum_attempts of the activity's retry policy

\* What the constants are taken to be, where this module is instantiated.
IsolationAssumption == MaxAttempts \in Nat \ {0}

Attempts == 1..MaxAttempts

VARIABLES
  mode,       \* agent_mode "ralph"; if it is another, agent_isolation
  fallback,   \* agent_isolation_fallback of the task's tier
  attempt,    \* what each attempt is at, whether launch() holds its container
  container,  \* Docker: the container of each attempt
  result,     \* result.json of each attempt's workspace, and what was returned
  botched     \* history: attempts with a failed Docker call or a dead worker

vars == << mode, fallback, attempt, container, result, botched >>

AtWork == { "create", "start", "wait", "collect", "cleanup", "process" }
Over == { "returned", "raised", "dead" }

TypeOK ==
  /\ mode \in { "ralph", "process", "container" }
  /\ fallback \in { "allow", "deny" }
  /\ attempt \in [ Attempts -> [ at : {"idle"} \cup AtWork \cup Over, holds : BOOLEAN ] ]
  /\ container \in [ Attempts -> { "none", "created", "running", "exited" } ]
  /\ result \in [ Attempts -> [ written : BOOLEAN,
                                returned : { "nothing", "error", "partial", "whole" } ] ]
  /\ botched \subseteq Attempts

\* The settings, which a worker has from its environment.
Init ==
  /\ mode \in { "ralph", "process", "container" }
  /\ fallback \in { "allow", "deny" }
  /\ attempt = [ a \in Attempts |-> [ at |-> "idle", holds |-> FALSE ] ]
  /\ container = [ a \in Attempts |-> "none" ]
  /\ result = [ a \in Attempts |-> [ written |-> FALSE, returned |-> "nothing" ] ]
  /\ botched = {}

Goes(a, to) == attempt' = [ attempt EXCEPT ![a].at = to ]
Botches(a) == botched' = botched \cup {a}
Returns(a, what) == result' = [ result EXCEPT ![a].returned = what ]

-----------------------------------------------------------------------------
(* The attempt *)

\* Temporal starts an attempt when the one before it has failed.
Begins(a) ==
  /\ attempt[a].at = "idle"
  /\ \A b \in Attempts : b < a => attempt[b].at \in { "raised", "dead" }

\* A Ralph run and agent_isolation "process": neither Docker nor the tier's
\* fallback is asked.
WorksUnasked(a) ==
  /\ Begins(a) /\ mode # "container"
  /\ Goes(a, "process")
  /\ UNCHANGED << mode, fallback, container, result, botched >>

\* is_docker_available and resolve_isolation
Resolves(a) ==
  /\ Begins(a) /\ mode = "container"
  /\ \E reachable \in BOOLEAN :
       Goes(a, IF reachable THEN "create"
               ELSE IF fallback = "deny" THEN "raised" ELSE "process")
  /\ UNCHANGED << mode, fallback, container, result, botched >>

WorksInProcess(a) ==
  /\ attempt[a].at = "process"
  /\ \E to \in { "returned", "raised" } : Goes(a, to)
  /\ UNCHANGED << mode, fallback, container, result, botched >>

Creates(a) ==
  /\ attempt[a].at = "create"
  /\ container' = [ container EXCEPT ![a] = "created" ]
  /\ Goes(a, "start")
  /\ UNCHANGED << mode, fallback, result, botched >>

\* launch() has its container only once it is started.
Starts(a) ==
  /\ attempt[a].at = "start"
  /\ container' = [ container EXCEPT ![a] = "running" ]
  /\ attempt' = [ attempt EXCEPT ![a] = [ at |-> "wait", holds |-> TRUE ] ]
  /\ UNCHANGED << mode, fallback, result, botched >>

Waited(a) ==
  /\ attempt[a].at = "wait" /\ container[a] = "exited"
  /\ Goes(a, "collect")
  /\ UNCHANGED << mode, fallback, container, result, botched >>

\* Mutant: a container that was killed is left for the reaper.
TimesOutReaped(a) ==
  /\ attempt[a].at = "wait" /\ container[a] = "running"
  /\ container' = [ container EXCEPT ![a] = "exited" ]
  /\ Goes(a, "returned")
  /\ Returns(a, IF result[a].written THEN "partial" ELSE "nothing")
  /\ UNCHANGED << mode, fallback, botched >>

\* wait() raised for the time-out: the container is killed, and what it had
\* written is the result.
TimesOut(a) ==
  /\ attempt[a].at = "wait" /\ container[a] = "running"
  /\ container' = [ container EXCEPT ![a] = "exited" ]
  /\ Goes(a, "cleanup")
  /\ Returns(a, IF result[a].written THEN "partial" ELSE "nothing")
  /\ UNCHANGED << mode, fallback, botched >>

\* Docker is asked for the exit state and the logs, then the file is read.
Collects(a) ==
  /\ attempt[a].at = "collect"
  /\ Goes(a, "cleanup")
  /\ Returns(a, IF result[a].written THEN "whole" ELSE "nothing")
  /\ UNCHANGED << mode, fallback, container, botched >>

\* remove(force=True), and the activity returns whatever the result is:
\* an error is an implementation without files.
CleansUp(a) ==
  /\ attempt[a].at = "cleanup"
  /\ container' = [ container EXCEPT ![a] = IF attempt[a].holds THEN "none" ELSE @ ]
  /\ Goes(a, "returned")
  /\ UNCHANGED << mode, fallback, result, botched >>

-----------------------------------------------------------------------------
(* The container *)

WritesResult(a) ==
  /\ container[a] = "running" /\ attempt[a].at # "dead"
  /\ ~result[a].written
  /\ result' = [ result EXCEPT ![a].written = TRUE ]
  /\ UNCHANGED << mode, fallback, attempt, container, botched >>

Exits(a) ==
  /\ container[a] = "running"
  /\ container' = [ container EXCEPT ![a] = "exited" ]
  /\ UNCHANGED << mode, fallback, attempt, result, botched >>

-----------------------------------------------------------------------------
(* Failures *)

\* Mutant: what cannot be launched is done in process.
FailsIntoProcess(a) ==
  /\ attempt[a].at \in { "create", "start", "wait", "collect", "cleanup" }
  /\ CASE attempt[a].at \in { "create", "start", "collect" } ->
            Goes(a, "process") /\ UNCHANGED result
       [] attempt[a].at = "wait" ->
            /\ Goes(a, "cleanup")
            /\ Returns(a, IF result[a].written THEN "partial" ELSE "nothing")
       [] OTHER -> Goes(a, "returned") /\ UNCHANGED result
  /\ Botches(a)
  /\ UNCHANGED << mode, fallback, container >>

\* The Docker call the attempt is at fails: an exception becomes an error
\* result and leads to the cleanup, except that a failed wait counts as a
\* time-out (and the kill fails too) and a failed removal is logged.
DockerFails(a) ==
  /\ attempt[a].at \in { "create", "start", "wait", "collect", "cleanup" }
  /\ CASE attempt[a].at \in { "create", "start", "collect" } ->
            Goes(a, "cleanup") /\ Returns(a, "error")
       [] attempt[a].at = "wait" ->
            /\ Goes(a, "cleanup")
            /\ Returns(a, IF result[a].written THEN "partial" ELSE "nothing")
       [] OTHER -> Goes(a, "returned") /\ UNCHANGED result
  /\ Botches(a)
  /\ UNCHANGED << mode, fallback, container >>

\* Nothing reaps what it leaves: nobody calls reap_orphans.
WorkerDies(a) ==
  /\ attempt[a].at \in AtWork
  /\ Goes(a, "dead")
  /\ Botches(a)
  /\ UNCHANGED << mode, fallback, container, result >>

AllOver ==
  /\ \A a \in Attempts : attempt[a].at = "idle" \/ attempt[a].at \in Over
  /\ \A a \in Attempts : container[a] # "running"
  /\ UNCHANGED vars

Next ==
  \/ \E a \in Attempts :
       \/ WorksUnasked(a) \/ Resolves(a) \/ WorksInProcess(a)
       \/ Creates(a) \/ Starts(a) \/ Waited(a) \/ TimesOut(a) \/ Collects(a) \/ CleansUp(a)
       \/ WritesResult(a) \/ Exits(a) \/ DockerFails(a) \/ WorkerDies(a)
  \/ AllOver

Spec == Init /\ [][Next]_vars

-----------------------------------------------------------------------------
(* Properties *)

\* In container mode, where the tier denies the fallback, no attempt works in the
\* process, at whatever point of the launch Docker goes away.  With agent_mode
\* "ralph", and with agent_isolation "process", every attempt works there, of the
\* tier execute as well: the fallback is not asked.
ContainedWhenDenied ==
  mode = "container" /\ fallback = "deny" => \A a \in Attempts : attempt[a].at # "process"

\* A container belongs to an attempt at work, unless a call to Docker failed
\* for it or its worker died; so two attempts share the clone of the
\* repository only after such a failure.
NoStrays ==
  \A a \in Attempts : container[a] # "none" => attempt[a].at \in AtWork \/ a \in botched

-----------------------------------------------------------------------------
(* The inductive invariant of the proofs *)

\* An attempt without a failure has its container while it is at it, and has it
\* in hand when it comes to clean up.
InHand(a) ==
  a \notin botched =>
    /\ attempt[a].at \in { "wait", "collect", "cleanup" } => attempt[a].holds
    /\ container[a] # "none" => attempt[a].at \in { "start", "wait", "collect", "cleanup" }

InHandOK == \A a \in Attempts : InHand(a)

IInv == TypeOK /\ InHandOK /\ ContainedWhenDenied

=============================================================================
