------------------------------- MODULE Intents -------------------------------
(***************************************************************************)
(* The intent of one task and its versions (src/intent): the workflow's    *)
(* intent_activity stores version 1, developers edit and refine it in the  *)
(* planning dashboard, the implementation works on branch v1 and the       *)
(* publisher takes the branch of the latest version.                       *)
(*                                                                         *)
(* The dashboard admits a change by the row's status, which is intent_built *)
(* from the moment the publication passes through it.  Here the status is   *)
(* only before, at or after that.                                           *)
(***************************************************************************)
EXTENDS Naturals, Sequences

CONSTANTS
  Requests,     \* edits and refinements
  MaxVersions,  \* MAX_INTENT_VERSIONS
  MaxRuns,      \* bound: executions of intent_activity
  MaxTries      \* attempts of publish_activity

IntentsAssumption ==
  /\ { MaxVersions, MaxRuns, MaxTries } \subseteq Nat \ {0}
  /\ { "auto", "none" } \cap Requests = {}

VARIABLES
  specs,      \* rows of intent_spec, in the order of their commits
  pointer,    \* intent_version of the task's row, 0 while it is null
  status,     \* status of the task's row
  workflow,   \* the stage it is in, and executions of intent_activity so far
  request,    \* the locals of the dashboard's handlers
  publisher,  \* the publication: attempts, versions it has read, pull request
  pushed,     \* versions whose branch holds the implementation
  shared,     \* requests that ran beside another one
  newest      \* the request whose change was the last to be acknowledged

vars == << specs, pointer, status, workflow, request, publisher, pushed, shared, newest >>

Automatic == "auto"
None == "none"
Versions == 1..(MaxVersions + 2)
Authors == Requests \cup {Automatic}

TypeOK ==
  /\ specs \in Seq([ version : Versions, author : Authors ])
  /\ pointer \in Versions \cup {0}
  /\ status \in { "before", "intent_built", "after" }
  /\ workflow \in [ stage : { "intent", "implement", "publish", "over" }, runs : 0..MaxRuns ]
  /\ request \in [ Requests -> [ kind : { "edit", "refine" },
                                 at : { "new", "admitted", "read", "created", "done", "refused" },
                                 version : Versions \cup {0} ] ]
  /\ publisher \in [ tries : 0..MaxTries, noted : Versions \cup {0},
                     head : Versions \cup {0}, pull : Versions \cup {0} ]
  /\ pushed \subseteq Versions
  /\ shared \subseteq Requests
  /\ newest \in Requests \cup {None}

Init ==
  /\ specs = << >> /\ pointer = 0 /\ status = "before"
  /\ workflow = [ stage |-> "intent", runs |-> 0 ]
  /\ request \in [ Requests -> [ kind : { "edit", "refine" }, at : {"new"}, version : {0} ] ]
  /\ publisher = [ tries |-> 0, noted |-> 0, head |-> 0, pull |-> 0 ]
  /\ pushed = {} /\ shared = {} /\ newest = None

\* get_latest_for_taskpacket: of rows with the highest version, any.
Latest == { i \in DOMAIN specs : \A j \in DOMAIN specs : specs[j].version <= specs[i].version }

-----------------------------------------------------------------------------
(* The workflow *)

\* Mutant: intent_activity continues the versions that are there.
StoredNext == Append(specs, [ version |-> 1 + Len(specs), author |-> Automatic ])

\* create_intent in intent_activity: always version 1.
Stored == Append(specs, [ version |-> 1, author |-> Automatic ])

\* The activity swallows a failure to store it.  An attempt whose answer is lost
\* is repeated, and so is the stage after a redirect to it.
IntentRuns ==
  /\ workflow.stage = "intent" /\ workflow.runs < MaxRuns
  /\ specs' \in { specs, Stored }
  /\ \E next \in { "intent", "implement" } :
       workflow' = [ stage |-> next, runs |-> workflow.runs + 1 ]
  /\ UNCHANGED << pointer, status, request, publisher, pushed, shared, newest >>

\* The branch's name has v1 in it, whatever the version.
Implements ==
  /\ workflow.stage = "implement"
  /\ pushed' = pushed \cup {1}
  /\ \E next \in { "intent", "publish" } : workflow' = [ workflow EXCEPT !.stage = next ]
  /\ UNCHANGED << specs, pointer, status, request, publisher, shared, newest >>

-----------------------------------------------------------------------------
(* The publication *)

\* The links of the status chain that matter here.
StatusAdvances ==
  /\ workflow.stage = "publish" /\ publisher.noted = 0
  /\ \/ status = "before" /\ status' = "intent_built"
     \/ status = "intent_built" /\ status' = "after"
  /\ UNCHANGED << specs, pointer, workflow, request, publisher, pushed, shared, newest >>

\* The version that goes into the evidence.  Without an intent publish raises.
NotesVersion ==
  /\ workflow.stage = "publish" /\ status = "after" /\ publisher.noted = 0
  /\ \E i \in Latest : publisher' = [ publisher EXCEPT !.noted = specs[i].version ]
  /\ UNCHANGED << specs, pointer, status, workflow, request, pushed, shared, newest >>

\* publish reads it again and names the head after it.
NamesHead ==
  /\ publisher.noted # 0 /\ publisher.head = 0
  /\ \E i \in Latest : publisher' = [ publisher EXCEPT !.head = specs[i].version ]
  /\ UNCHANGED << specs, pointer, status, workflow, request, pushed, shared, newest >>

\* GitHub opens no pull request for a branch that is level with its base.
OpensPullRequest ==
  /\ publisher.head \in pushed
  /\ publisher' = [ publisher EXCEPT !.pull = publisher.head ]
  /\ workflow' = [ workflow EXCEPT !.stage = "over" ]
  /\ UNCHANGED << specs, pointer, status, request, pushed, shared, newest >>

\* Anything an attempt does may fail, and one without an intent or without code
\* does; Temporal repeats it.
AttemptFails ==
  /\ workflow.stage = "publish"
  /\ publisher' = [ publisher EXCEPT !.tries = @ + 1, !.noted = 0, !.head = 0 ]
  /\ workflow' = IF publisher.tries + 1 = MaxTries THEN [ workflow EXCEPT !.stage = "over" ]
                                                   ELSE workflow
  /\ UNCHANGED << specs, pointer, status, request, pushed, shared, newest >>

-----------------------------------------------------------------------------
(* The dashboard: edit_intent, and refine_intent with its cap *)

InProgress(r) == request[r].at \in { "admitted", "read", "created" }

\* _get_intent_built_task
Admits(r) ==
  LET beside == { q \in Requests \ {r} : InProgress(q) } IN
  /\ request[r].at = "new"
  /\ request' = [ request EXCEPT ![r].at = IF status = "intent_built" THEN "admitted" ELSE "refused" ]
  /\ shared' = IF status = "intent_built" /\ beside # {} THEN shared \cup beside \cup {r} ELSE shared
  /\ UNCHANGED << specs, pointer, status, workflow, publisher, pushed, newest >>

ReadsLatest(r) ==
  /\ request[r].at = "admitted"
  /\ IF specs = << >>
       THEN request' = [ request EXCEPT ![r].at = "refused" ]
       ELSE \E i \in Latest :
              request' = [ request EXCEPT ![r].version = specs[i].version,
                ![r].at = IF request[r].kind = "refine" /\ specs[i].version >= MaxVersions
                            THEN "refused" ELSE "read" ]
  /\ UNCHANGED << specs, pointer, status, workflow, publisher, pushed, shared, newest >>

\* Mutant: a change is stored under the version it was read from.
CreatesSame(r) ==
  /\ request[r].at = "read"
  /\ specs' = Append(specs, [ version |-> request[r].version, author |-> r ])
  /\ request' = [ request EXCEPT ![r].at = "created" ]
  /\ UNCHANGED << pointer, status, workflow, publisher, pushed, shared, newest >>

\* create_intent commits the next version.
Creates(r) ==
  /\ request[r].at = "read" /\ request[r].version + 1 \in Versions
  /\ specs' = Append(specs, [ version |-> request[r].version + 1, author |-> r ])
  /\ request' = [ request EXCEPT ![r].at = "created", ![r].version = @ + 1 ]
  /\ UNCHANGED << pointer, status, workflow, publisher, pushed, shared, newest >>

\* update_intent_version, and the answer.
Answers(r) ==
  /\ request[r].at = "created"
  /\ pointer' = request[r].version
  /\ request' = [ request EXCEPT ![r].at = "done" ]
  /\ newest' = r
  /\ UNCHANGED << specs, status, workflow, publisher, pushed, shared >>

\* A request dies between two of its commits; it stays unanswered.
Dies(r) ==
  /\ InProgress(r)
  /\ request' = [ request EXCEPT ![r].at = "refused" ]
  /\ UNCHANGED << specs, pointer, status, workflow, publisher, pushed, shared, newest >>

Next ==
  \/ IntentRuns \/ Implements
  \/ StatusAdvances \/ NotesVersion \/ NamesHead \/ OpensPullRequest \/ AttemptFails
  \/ \E r \in Requests : Admits(r) \/ ReadsLatest(r) \/ Creates(r) \/ Answers(r) \/ Dies(r)

Spec == Init /\ [][Next]_vars

-----------------------------------------------------------------------------
(* Properties *)

\* The change that was acknowledged last is the intent in force and the one the
\* row points to, whatever the workflow stores again, unless another request ran
\* beside it or has stored one since without being answered.
ChangePrevails ==
  newest # None /\ newest \notin shared
    => /\ \A i \in Latest :
            \/ specs[i].author = newest
            \/ \E r \in Requests : /\ specs[i].author = r
                                   /\ request[r].at \in { "created", "refused" }
       /\ pointer = request[newest].version

\* The publisher's branch is the one with the implementation unless a developer's
\* change was stored while the publication passed through intent_built.
HeadHasCode ==
  publisher.head # 0 /\ (\A i \in DOMAIN specs : specs[i].author = Automatic)
    => publisher.head \in pushed

-----------------------------------------------------------------------------
(* The inductive invariant of the proofs *)

\* The workflow stores version 1 and nothing else; a row of a request is there when it
\* has been created, and stays when the request dies.
RowsOK ==
  /\ \A i \in DOMAIN specs :
       IF specs[i].author = Automatic THEN specs[i].version = 1
       ELSE request[specs[i].author].at \in { "created", "done", "refused" }
  /\ \A r \in Requests : request[r].at \in { "created", "done" } =>
       \E i \in DOMAIN specs : specs[i].author = r /\ specs[i].version = request[r].version

VersionsOK ==
  \A r \in Requests : /\ request[r].at = "read" => request[r].version >= 1
                      /\ request[r].at \in { "created", "done" } => request[r].version >= 2

\* Beside a request that shares with nobody only the workflow stores anything.
AloneOK ==
  \A r \in Requests \ shared : InProgress(r) =>
    /\ \A q \in Requests : InProgress(q) => q = r
    /\ request[r].at = "read" => \A i \in DOMAIN specs : specs[i].version <= request[r].version
    /\ request[r].at = "created" =>
         \A i \in DOMAIN specs : specs[i].version < request[r].version \/ specs[i].author = r

NewestOK ==
  newest # None =>
    /\ request[newest].at = "done" /\ pointer = request[newest].version
    /\ newest \notin shared => \A i \in DOMAIN specs :
         \/ specs[i].version < request[newest].version \/ specs[i].author = newest
         \/ specs[i].author # Automatic /\ request[specs[i].author].at \in { "created", "refused" }

PublisherOK ==
  /\ workflow.stage \in { "publish", "over" } => 1 \in pushed
  /\ workflow.stage # "over" => publisher.tries < MaxTries
  /\ publisher.noted # 0 => workflow.stage \in { "publish", "over" }
  /\ publisher.head # 0 =>
       publisher.noted # 0 /\ \E i \in DOMAIN specs : specs[i].version = publisher.head

IInv == TypeOK /\ RowsOK /\ VersionsOK /\ AloneOK /\ NewestOK /\ PublisherOK

=============================================================================
