------------------------------- MODULE Experts -------------------------------
(***************************************************************************)
(* The expert library and its synchronisation with the EXPERT.md files     *)
(* (src/experts): application instances that scan and sync at start, and   *)
(* administrators who reload, each with a database session of its own.     *)
(*                                                                         *)
(* A manifest is told apart by its text, which its version hash and its    *)
(* top-level fields come from.  Experts are numbered in the order of their *)
(* directories.                                                            *)
(***************************************************************************)
EXTENDS Naturals, Sequences

CONSTANTS
  Experts,      \* names, as numbers
  Texts,        \* valid manifests, numbers above 0
  Syncs,        \* calls of sync_experts
  MaxVersion    \* bound: versions of an expert

Absent == 0      \* no manifest, or no row

ExpertsAssumption ==
  /\ Experts \subseteq Nat
  /\ Texts \subseteq Nat \ {Absent}
  /\ MaxVersion \in Nat \ {0}

VARIABLES
  expert,     \* the rows of the table experts
  versions,   \* the rows of expert_versions, each with its number and its text
  sync,       \* the locals and the session of each call
  shared      \* the calls that ran beside another one

vars == << expert, versions, sync, shared >>

Row == [ state : { "active", "deprecated" }, fields : Texts, current : 1..MaxVersion ]
NoRow == [ state |-> "none", fields |-> Absent, current |-> 0 ]
Unread == 0      \* the session has not read the row

TypeOK ==
  /\ expert \in [ Experts -> Row \cup {NoRow} ]
  /\ versions \in [ Experts -> Seq([ number : 1..MaxVersion, text : Texts ]) ]
  /\ sync \in [ Syncs -> [ at : { "start", "read", "sync", "remove", "closed" },
                           deactivate : BOOLEAN,
                           scanned : [ Experts -> Texts \cup {Absent} ],
                           known : [ Experts -> Texts \cup {Absent} ],
                           current : 0..MaxVersion,
                           left : SUBSET Experts,
                           flushed : SUBSET Experts,
                           errors : SUBSET Experts,
                           broken : BOOLEAN ] ]
  /\ shared \subseteq Syncs

Init ==
  /\ expert = [ e \in Experts |-> NoRow ]
  /\ versions = [ e \in Experts |-> << >> ]
  /\ sync \in [ Syncs -> { [ at |-> "start", deactivate |-> d,
                             scanned |-> [ e \in Experts |-> Absent ],
                             known |-> [ e \in Experts |-> Absent ], current |-> Unread,
                             left |-> {}, flushed |-> {}, errors |-> {},
                             broken |-> FALSE ] : d \in BOOLEAN } ]
  /\ shared = {}

\* _get_stored_hash: of the version with the highest number.  Of two with the
\* same number the query may give either first.
StoredHashes(e) ==
  { v.text : v \in { versions[e][i] : i \in { i \in DOMAIN versions[e] :
      \A j \in DOMAIN versions[e] : versions[e][j].number <= versions[e][i].number } } }

InProgress(s) == sync[s].at \in { "read", "sync", "remove" }

\* Python's for loops take the directories in their sorted order.
IsNext(s, e) == e \in sync[s].left /\ \A f \in sync[s].left : e <= f

\* An UPDATE holds the row until its session commits or closes.
Locked(s, e) == \E t \in Syncs \ {s} : e \in sync[t].flushed

-----------------------------------------------------------------------------
(* sync_experts *)

\* scan_expert_directories: whatever the files' authors have left there by now.  A
\* manifest that does not parse, or has the name of another, is an error of the
\* scan and is not in its list.
Scans(s) ==
  LET beside == { t \in Syncs \ {s} : InProgress(t) } IN
  /\ sync[s].at = "start"
  /\ \E files \in [ Experts -> Texts \cup {Absent} ] :
       sync' = [ sync EXCEPT ![s].at = "read", ![s].scanned = files ]
  /\ shared' = shared \cup beside \cup (IF beside = {} THEN {} ELSE {s})
  /\ UNCHANGED << expert, versions >>

\* The stored hashes of the active experts: search_experts returns no others.
ReadsLibrary(s) ==
  /\ sync[s].at = "read"
  /\ \E known \in [ Experts -> Texts \cup {Absent} ] :
       /\ \A e \in Experts : IF expert[e].state = "active" THEN known[e] \in StoredHashes(e)
                                                          ELSE known[e] = Absent
       /\ sync' = [ sync EXCEPT ![s].at = "sync", ![s].known = known,
                      ![s].left = { e \in Experts : sync[s].scanned[e] # Absent } ]
  /\ UNCHANGED << expert, versions, shared >>

\* The rows once session s commits: what it has flushed becomes permanent.
Committed(s) ==
  [ e \in Experts |-> IF e \in sync[s].flushed
                        THEN [ expert[e] EXCEPT !.fields = sync[s].scanned[e] ]
                        ELSE expert[e] ]

Done(s, e) == [ sync[s] EXCEPT !.left = @ \ {e} ]

\* After a failed flush everything else in the session fails: it is never
\* rolled back.
Fails(s, e) ==
  /\ sync' = [ sync EXCEPT ![s] = [ Done(s, e) EXCEPT !.errors = @ \cup {e},
                                                      !.broken = TRUE, !.flushed = {} ] ]
  /\ UNCHANGED << expert, versions >>

\* create_expert: the name is unique among rows of every state.
Creates(s, e) ==
  LET text == sync[s].scanned[e] IN
  /\ sync[s].known[e] = Absent
  /\ IF sync[s].broken \/ expert[e] # NoRow
       THEN Fails(s, e)
       ELSE /\ expert' = [ Committed(s) EXCEPT ![e] =
                             [ state |-> "active", fields |-> text, current |-> 1 ] ]
            /\ versions' = [ versions EXCEPT ![e] = Append(@, [ number |-> 1, text |-> text ]) ]
            /\ sync' = [ sync EXCEPT ![s] = [ Done(s, e) EXCEPT !.flushed = {} ] ]

\* The hash of the stored version is the manifest's.
Skips(s, e) ==
  /\ sync[s].known[e] = sync[s].scanned[e]
  /\ sync' = [ sync EXCEPT ![s] = Done(s, e) ]
  /\ UNCHANGED << expert, versions >>

Differs(s, e) == sync[s].known[e] \notin { Absent, sync[s].scanned[e] }

\* update_expert_version reads the row ...
LoadsRow(s, e) ==
  /\ Differs(s, e) /\ sync[s].current = Unread
  /\ IF sync[s].broken
       THEN Fails(s, e)
       ELSE /\ sync' = [ sync EXCEPT ![s].current = expert[e].current ]
            /\ UNCHANGED << expert, versions >>

\* ... and commits the next version; the top-level fields are set after that, and
\* only flushed.
Updates(s, e) ==
  LET number == sync[s].current + 1 IN
  /\ Differs(s, e) /\ sync[s].current # Unread
  /\ ~Locked(s, e)
  /\ number <= MaxVersion
  /\ versions' = [ versions EXCEPT ![e] =
                     Append(@, [ number |-> number, text |-> sync[s].scanned[e] ]) ]
  /\ expert' = [ Committed(s) EXCEPT ![e].current = number ]
  /\ sync' = [ sync EXCEPT ![s] = [ Done(s, e) EXCEPT !.flushed = {e}, !.current = Unread ] ]

SyncsNext(s) ==
  /\ sync[s].at = "sync"
  /\ \E e \in Experts : IsNext(s, e) /\ (Creates(s, e) \/ Skips(s, e) \/ LoadsRow(s, e) \/ Updates(s, e))
  /\ UNCHANGED shared

\* Experts that are known and were not scanned, if removal was asked for.
Removes(s) ==
  /\ sync[s].at = "sync" /\ sync[s].left = {}
  /\ sync' = [ sync EXCEPT ![s].at = "remove",
                 ![s].left = IF sync[s].deactivate
                               THEN { e \in Experts : /\ sync[s].known[e] # Absent
                                                      /\ sync[s].scanned[e] = Absent }
                               ELSE {} ]
  /\ UNCHANGED << expert, versions, shared >>

\* Mutant: the new state is flushed and not committed.
DeprecatesFlushed(s) ==
  /\ sync[s].at = "remove"
  /\ \E e \in Experts : IsNext(s, e) /\ ~Locked(s, e) /\ sync' = [ sync EXCEPT ![s] = Done(s, e) ]
  /\ UNCHANGED << expert, versions, shared >>

\* deprecate_expert commits, and with it what was flushed before.
Deprecates(s) ==
  /\ sync[s].at = "remove"
  /\ \E e \in Experts :
       /\ IsNext(s, e)
       /\ IF sync[s].broken
            THEN Fails(s, e)
            ELSE /\ ~Locked(s, e)
                 /\ expert' = [ Committed(s) EXCEPT ![e].state = "deprecated" ]
                 /\ sync' = [ sync EXCEPT ![s] = [ Done(s, e) EXCEPT !.flushed = {} ] ]
                 /\ UNCHANGED versions
  /\ UNCHANGED shared

\* The session is closed without a commit: what is only flushed is lost.
Closes(s) ==
  /\ sync[s].at = "remove" /\ sync[s].left = {}
  /\ sync' = [ sync EXCEPT ![s].at = "closed", ![s].flushed = {} ]
  /\ UNCHANGED << expert, versions, shared >>

\* The process of a call ends with it half done.
Dies(s) ==
  /\ InProgress(s)
  /\ sync' = [ sync EXCEPT ![s].at = "closed", ![s].flushed = {},
                           ![s].errors = Experts ]
  /\ UNCHANGED << expert, versions, shared >>

Next ==
  \E s \in Syncs : \/ Scans(s) \/ ReadsLibrary(s) \/ SyncsNext(s) \/ Removes(s)
                      \/ Deprecates(s) \/ Closes(s) \/ Dies(s)

Spec == Init /\ [][Next]_vars

-----------------------------------------------------------------------------
(* Properties *)

\* The call has nobody beside it and reports no error.
Undisturbed(s) == s \notin shared /\ sync[s].errors = {}

\* Two that overlap may leave a row with a lower number than its versions have: one loads
\* it before, and stores it after, another stores the next.
Behind(e) == \E i \in DOMAIN versions[e] : versions[e][i].number > expert[e].current

\* The manifest that was scanned is the definition in force; only behind a row with too low
\* a number may an older one be.
InForce(s, e) ==
  /\ expert[e].state = "active"
  /\ sync[s].scanned[e] \in StoredHashes(e) \/ (shared # {} /\ Behind(e))

\* A synchronisation that ran alone and reports no error leaves every scanned
\* manifest in force, and with removal asked for nothing else active, whatever
\* earlier ones, half done or overlapping, left.
SyncsWhole ==
  \A s \in Syncs :
    sync[s].at = "remove" /\ sync'[s].at = "closed" /\ Undisturbed(s) /\ sync'[s].errors = {}
      => \A e \in Experts :
           IF sync[s].scanned[e] # Absent THEN InForce(s, e)
             ELSE sync[s].deactivate => expert[e].state # "active"

-----------------------------------------------------------------------------
(* The inductive invariant of the proofs *)

\* A row that a session knows or has changed is there.
SessionsOK ==
  \A s \in Syncs :
    /\ sync[s].at \notin { "sync", "remove" } => sync[s].flushed = {}
    /\ sync[s].at \in { "start", "read" } => sync[s].current = Unread
    /\ \A e \in sync[s].flushed : expert[e] # NoRow /\ sync[s].scanned[e] # Absent
    /\ sync[s].at \in { "sync", "remove" } =>
         \A e \in Experts : sync[s].known[e] # Absent => expert[e] # NoRow
    /\ sync[s].at = "sync" => \A e \in sync[s].left : sync[s].scanned[e] # Absent
    /\ sync[s].at = "remove" => \A e \in sync[s].left :
         sync[s].known[e] # Absent /\ sync[s].scanned[e] = Absent
    /\ sync[s].broken => sync[s].errors # {}

AloneOK ==
  \A s \in Syncs : s \notin shared /\ InProgress(s) => \A t \in Syncs : InProgress(t) => t = s

\* Before a call that runs alone has come to an expert all is as it knows it.
AsKnown(s, e) ==
  IF sync[s].known[e] = Absent THEN expert[e].state # "active"
  ELSE expert[e].state = "active" /\ sync[s].known[e] \in StoredHashes(e)

RoundOK ==
  \A s \in Syncs : Undisturbed(s) =>
    /\ sync[s].at = "sync" => \A e \in Experts :
         IF e \in sync[s].left \/ sync[s].scanned[e] = Absent THEN AsKnown(s, e)
                                                              ELSE InForce(s, e)
    /\ sync[s].at = "remove" => \A e \in Experts :
         IF sync[s].scanned[e] # Absent THEN InForce(s, e)
         ELSE sync[s].deactivate /\ e \notin sync[s].left => expert[e].state # "active"

\* As long as none overlapped, a row has the number of its newest version.
NumbersOK ==
  shared = {} => \A e \in Experts :
    /\ ~Behind(e)
    /\ \A s \in Syncs : sync[s].at = "sync" /\ sync[s].current # Unread /\ IsNext(s, e) =>
         Differs(s, e) /\ sync[s].current = expert[e].current

IInv == TypeOK /\ SessionsOK /\ AloneOK /\ RoundOK /\ NumbersOK

=============================================================================
