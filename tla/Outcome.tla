------------------------------ MODULE Outcome -------------------------------
(***************************************************************************)
(* The outcome ingestor (src/outcome): two JetStream consumers and the     *)
(* operators' replays feed signals to ingest_signal, which counts each of  *)
(* them, puts it in quarantine or gives it up as a dead letter.            *)
(*                                                                         *)
(* Everything but the outcome_signals table is in the memory of one        *)
(* process.  Its coroutines interleave at their awaits only: the consumers *)
(* ask nobody, so a message is ingested in one step up to the database     *)
(* call; a replay's ingest asks for the task and the repository first.     *)
(* The application calls neither replay_quarantined nor mark_corrected     *)
(* yet: they are modelled as the tests call them, with an ingest_signal    *)
(* that is given its existence checks and a database session.              *)
(***************************************************************************)
EXTENDS Naturals, FiniteSets, Sequences

CONSTANTS
  Payloads,         \* what is sent, and what operators correct it to
  Kind,             \* which of the checks of ingest_signal a payload fails
  Key,              \* its event, task and timestamp, which identify a signal
  Messages,         \* what is in the two streams
  PayloadOf,
  StreamOf,
  Corrections,      \* payloads that operators put in place of others
  Operators,        \* replays under way at the same time
  NoMessage, NoPayload,
  MaxAttempts,      \* max_attempts of the FailureTracker
  MaxReplays,       \* bound: replays
  MaxEdits,         \* bound: corrections, marks by hand and deletions
  MaxDisturbances   \* bound: acknowledgements lost, restarts

Streams == { "verification", "qa" }

Kinds == { "valid", "garbage", "uncorrelated", "bad_event", "no_task",
           "unknown", "bad_category" }

ASSUME OutcomeAssumption ==
  /\ Kind \in [ Payloads -> Kinds ]
  /\ PayloadOf \in [ Messages -> Payloads ]
  /\ StreamOf \in [ Messages -> Streams ]
  /\ Corrections \subseteq { p \in Payloads : Kind[p] # "garbage" }
  /\ NoMessage \notin Messages
  /\ NoPayload \notin Payloads
  /\ MaxAttempts \in Nat \ {0}
  /\ MaxReplays \in Nat
  /\ MaxEdits \in Nat
  /\ MaxDisturbances \in Nat

VARIABLES
  acked,         \* messages the service will not deliver again
  consumer,      \* the callback of each subscription
  replay,        \* the replays under way
  signals,       \* _signals
  rows,          \* outcome_signals: rows of each payload
  quarantine,    \* _quarantined, in the order of arrival
  failures,      \* FailureTracker._failures
  deadLetters,   \* _dead_letters of each payload
  replays, edits, disturbances,
  restarted      \* history: the process was restarted

memory == << signals, quarantine, failures, deadLetters >>
bounds == << replays, edits, disturbances, restarted >>
vars == << acked, consumer, replay, rows, memory, bounds >>

\* counted is history: what the replay that marked the event had ingested.
QuarantinedEvent ==
  [ payload : Payloads, corrected : Payloads \cup {NoPayload},
    replayed : BOOLEAN, counted : Payloads \cup {NoPayload}, deleted : BOOLEAN ]

Ids == 1..Len(quarantine)

TypeOK ==
  /\ acked \subseteq Messages
  /\ consumer \in [ Streams -> [ at : { "idle", "save", "ack" }, for : Messages \cup {NoMessage} ] ]
  /\ replay \in [ Operators -> [ at : { "idle", "ask", "save", "mark" }, id : Nat,
                                 payload : Payloads \cup {NoPayload} ] ]
  /\ \A o \in Operators : replay[o].at # "idle" => replay[o].id \in Ids
  /\ signals \subseteq Payloads
  /\ rows \in [ Payloads -> Nat ]
  /\ quarantine \in Seq(QuarantinedEvent)
  /\ failures \in [ Payloads -> 0..MaxAttempts - 1 ]
  /\ deadLetters \in [ Payloads -> Nat ]
  /\ replays \in 0..MaxReplays
  /\ edits \in 0..MaxEdits
  /\ disturbances \in 0..MaxDisturbances
  /\ restarted \in BOOLEAN

NotConsuming == [ at |-> "idle", for |-> NoMessage ]
NotReplaying == [ at |-> "idle", id |-> 0, payload |-> NoPayload ]

Init ==
  /\ acked = {}
  /\ consumer = [ s \in Streams |-> NotConsuming ]
  /\ replay = [ o \in Operators |-> NotReplaying ]
  /\ rows = [ p \in Payloads |-> 0 ]
  /\ signals = {}
  /\ quarantine = << >>
  /\ failures = [ p \in Payloads |-> 0 ]
  /\ deadLetters = [ p \in Payloads |-> 0 ]
  /\ replays = 0
  /\ edits = 0
  /\ disturbances = 0
  /\ restarted = FALSE

-----------------------------------------------------------------------------
(* ingest_signal *)

NewEvent(p) == [ payload |-> p, corrected |-> NoPayload,
                 replayed |-> FALSE, counted |-> NoPayload, deleted |-> FALSE ]

SetAside(p) ==
  /\ quarantine' = Append(quarantine, NewEvent(p))
  /\ UNCHANGED << signals, failures, deadLetters >>

\* Mutant: the failures of a dead letter are not cleared.
FailsAgainUncleared(p) ==
  /\ failures' = [ failures EXCEPT ![p] = IF @ < MaxAttempts THEN @ + 1 ELSE @ ]
  /\ IF failures'[p] < MaxAttempts
       THEN quarantine' = Append(quarantine, NewEvent(p)) /\ UNCHANGED deadLetters
       ELSE deadLetters' = [ deadLetters EXCEPT ![p] = @ + 1 ] /\ UNCHANGED quarantine
  /\ UNCHANGED signals

\* An invalid event is quarantined, and the MaxAttempts-th time it is given up.
FailsAgain(p) ==
  /\ IF failures[p] + 1 < MaxAttempts
       THEN /\ failures' = [ failures EXCEPT ![p] = @ + 1 ]
            /\ quarantine' = Append(quarantine, NewEvent(p))
            /\ UNCHANGED deadLetters
       ELSE /\ failures' = [ failures EXCEPT ![p] = 0 ]
            /\ deadLetters' = [ deadLetters EXCEPT ![p] = @ + 1 ]
            /\ UNCHANGED quarantine
  /\ UNCHANGED signals

\* What ingest_signal finds before it asks for the task.
IsMalformed(p) == Kind[p] \in { "uncorrelated", "bad_event", "no_task" }
Refuse(p) == IF Kind[p] = "bad_event" THEN FailsAgain(p) ELSE SetAside(p)

\* Mutant: only an identical payload counts as the same signal.
SameAsCounted(p) == p \in signals

\* Same event, task and timestamp as a signal that was counted.
IsCounted(p) == \E s \in signals : Key[s] = Key[p]

\* The rest of ingest_signal, up to the database call: duplicates are dropped,
\* conflicting ones and invalid categories go to quarantine, others count.
Counts(p) == ~IsCounted(p) /\ Kind[p] # "bad_category"

\* Mutant: whatever has the key of a counted signal is a duplicate of it.
SettleByKey(p) ==
  IF Counts(p)
    THEN /\ signals' = signals \cup {p}
         /\ failures' = [ failures EXCEPT ![p] = 0 ]
         /\ UNCHANGED << quarantine, deadLetters >>
    ELSE IF IsCounted(p) THEN UNCHANGED memory ELSE SetAside(p)

Settle(p) ==
  IF Counts(p)
    THEN /\ signals' = signals \cup {p}
         /\ failures' = [ failures EXCEPT ![p] = 0 ]
         /\ UNCHANGED << quarantine, deadLetters >>
    ELSE IF p \in signals THEN UNCHANGED memory ELSE SetAside(p)

-----------------------------------------------------------------------------
(* The consumers *)

Waits(s) == consumer' = [ consumer EXCEPT ![s] = NotConsuming ]
Go(s, m, at) == consumer' = [ consumer EXCEPT ![s] = [ at |-> at, for |-> m ] ]

CanReceive(s, m) == consumer[s].at = "idle" /\ StreamOf[m] = s /\ m \notin acked

\* Mutant: what cannot be decoded is left to be delivered again.
DropsGarbage(s, m) ==
  /\ CanReceive(s, m)
  /\ Kind[PayloadOf[m]] = "garbage"
  /\ Waits(s)
  /\ UNCHANGED << acked, replay, rows, memory, bounds >>

\* Decoding raises: logged, and acknowledged all the same.
ReceivesGarbage(s, m) ==
  /\ CanReceive(s, m)
  /\ Kind[PayloadOf[m]] = "garbage"
  /\ Go(s, m, "ack")
  /\ UNCHANGED << acked, replay, rows, memory, bounds >>

ReceivesMalformed(s, m) ==
  /\ CanReceive(s, m)
  /\ IsMalformed(PayloadOf[m])
  /\ Refuse(PayloadOf[m])
  /\ Go(s, m, "ack")
  /\ UNCHANGED << acked, replay, rows, bounds >>

\* The consumers hand ingest_signal no way to ask whether task and repository
\* are known, so "unknown" ones count like the others.
ReceivesSignal(s, m) ==
  LET p == PayloadOf[m] IN
  /\ CanReceive(s, m)
  /\ Kind[p] \in { "valid", "unknown", "bad_category" }
  /\ Settle(p)
  /\ Go(s, m, IF Counts(p) THEN "save" ELSE "ack")
  /\ UNCHANGED << acked, replay, rows, bounds >>

\* save_signal, whose failure is logged and swallowed.
Saves(s) ==
  LET m == consumer[s].for IN
  /\ consumer[s].at = "save"
  /\ \/ rows' = [ rows EXCEPT ![PayloadOf[m]] = @ + 1 ]
     \/ UNCHANGED rows
  /\ Go(s, m, "ack")
  /\ UNCHANGED << acked, replay, memory, bounds >>

Acknowledges(s) ==
  /\ consumer[s].at = "ack"
  /\ acked' = acked \cup { consumer[s].for }
  /\ Waits(s)
  /\ UNCHANGED << replay, rows, memory, bounds >>

Consume(s) ==
  \/ \E m \in Messages : \/ ReceivesGarbage(s, m) \/ ReceivesMalformed(s, m)
                         \/ ReceivesSignal(s, m)
  \/ Saves(s) \/ Acknowledges(s)

-----------------------------------------------------------------------------
(* Operators: replay_quarantined, mark_corrected, and the quarantine page of  *)
(* the admin interface                                                        *)

Current(e) == IF e.corrected = NoPayload THEN e.payload ELSE e.corrected

\* get_quarantined returns a copy: what is replayed is chosen here.
CanReplay(o, i) ==
  /\ replay[o].at = "idle"
  /\ replays < MaxReplays
  /\ ~quarantine[i].replayed /\ ~quarantine[i].deleted

ReplayRefused(o, i) ==
  /\ CanReplay(o, i)
  /\ IsMalformed(Current(quarantine[i]))
  /\ Refuse(Current(quarantine[i]))
  /\ replays' = replays + 1
  /\ UNCHANGED << acked, consumer, replay, rows, edits, disturbances, restarted >>

ReplayAsks(o, i) ==
  /\ CanReplay(o, i)
  /\ Kind[Current(quarantine[i])] \in { "valid", "unknown", "bad_category" }
  /\ replay' = [ replay EXCEPT ![o] = [ at |-> "ask", id |-> i,
                                        payload |-> Current(quarantine[i]) ] ]
  /\ replays' = replays + 1
  /\ UNCHANGED << acked, consumer, rows, memory, edits, disturbances, restarted >>

ReplayEnds(o) == replay' = [ replay EXCEPT ![o] = NotReplaying ]
ReplayAt(o, at) == replay' = [ replay EXCEPT ![o].at = at ]

\* Task or repository do not exist, so the payload is quarantined once more.
ReplayUnknown(o) ==
  /\ replay[o].at = "ask"
  /\ Kind[replay[o].payload] = "unknown"
  /\ SetAside(replay[o].payload)
  /\ ReplayEnds(o)
  /\ UNCHANGED << acked, consumer, rows, bounds >>

\* Mutant: a replay that ends in quarantine again is a success too.
ReplaySettlesAnyway(o) ==
  LET p == replay[o].payload IN
  /\ replay[o].at = "ask"
  /\ Kind[p] # "unknown"
  /\ Settle(p)
  /\ ReplayAt(o, IF Counts(p) THEN "save" ELSE "mark")
  /\ UNCHANGED << acked, consumer, rows, bounds >>

\* A duplicate is a success too, and is marked at once or a step later.
ReplaySettles(o) ==
  LET p == replay[o].payload IN
  /\ replay[o].at = "ask"
  /\ Kind[p] # "unknown"
  /\ Settle(p)
  /\ IF Counts(p) THEN ReplayAt(o, "save")
     ELSE IF p \in signals THEN ReplayAt(o, "mark") ELSE ReplayEnds(o)
  /\ UNCHANGED << acked, consumer, rows, bounds >>

ReplaySaves(o) ==
  /\ replay[o].at = "save"
  /\ \/ rows' = [ rows EXCEPT ![replay[o].payload] = @ + 1 ]
     \/ UNCHANGED rows
  /\ ReplayAt(o, "mark")
  /\ UNCHANGED << acked, consumer, memory, bounds >>

MarksReplayed(o) ==
  /\ replay[o].at = "mark"
  /\ quarantine' = IF quarantine[replay[o].id].deleted THEN quarantine
                   ELSE [ quarantine EXCEPT ![replay[o].id].replayed = TRUE,
                                         ![replay[o].id].counted = replay[o].payload ]
  /\ ReplayEnds(o)
  /\ UNCHANGED << acked, consumer, rows, signals, failures, deadLetters, bounds >>

Replay(o) ==
  \/ \E i \in Ids : ReplayRefused(o, i) \/ ReplayAsks(o, i)
  \/ ReplayUnknown(o) \/ ReplaySettles(o) \/ ReplaySaves(o) \/ MarksReplayed(o)

Edited(i) ==
  /\ edits < MaxEdits
  /\ edits' = edits + 1
  /\ ~quarantine[i].deleted
  /\ UNCHANGED << acked, consumer, replay, rows, signals, failures, deadLetters,
                 replays, disturbances, restarted >>

Corrects(i, p) ==
  /\ Edited(i)
  /\ ~quarantine[i].replayed
  /\ quarantine' = [ quarantine EXCEPT ![i].corrected = p ]

\* quarantine_replay of the admin interface marks the event and replays nothing.
MarksByHand(i) ==
  /\ Edited(i)
  /\ quarantine' = [ quarantine EXCEPT ![i].replayed = TRUE ]

Deletes(i) ==
  /\ Edited(i)
  /\ quarantine' = [ quarantine EXCEPT ![i].deleted = TRUE ]

Operate ==
  \/ \E o \in Operators : Replay(o)
  \/ \E i \in Ids : \/ \E p \in Corrections : Corrects(i, p)
                    \/ MarksByHand(i) \/ Deletes(i)

-----------------------------------------------------------------------------
(* Disturbances *)

Disturbed ==
  /\ disturbances < MaxDisturbances
  /\ disturbances' = disturbances + 1

\* The acknowledgement is lost, or comes after the service's ack_wait.
AckLost(s) ==
  /\ Disturbed
  /\ consumer[s].at = "ack"
  /\ Waits(s)
  /\ UNCHANGED << acked, replay, rows, memory, replays, edits, restarted >>

Restart ==
  /\ Disturbed
  /\ restarted' = TRUE
  /\ consumer' = [ s \in Streams |-> NotConsuming ]
  /\ replay' = [ o \in Operators |-> NotReplaying ]
  /\ signals' = {}
  /\ quarantine' = << >>
  /\ failures' = [ p \in Payloads |-> 0 ]
  /\ deadLetters' = [ p \in Payloads |-> 0 ]
  /\ UNCHANGED << acked, rows, replays, edits >>

\* Nothing to do: the consumers wait for messages, the operators for events.
Quiet ==
  /\ acked = Messages
  /\ \A s \in Streams : consumer[s].at = "idle"
  /\ \A o \in Operators : replay[o].at = "idle"
  /\ UNCHANGED vars

Next ==
  \/ \E s \in Streams : Consume(s) \/ AckLost(s)
  \/ Operate
  \/ Restart
  \/ Quiet

Spec == Init /\ [][Next]_vars

\* The event loop runs both callbacks, and every database call returns.
FairSpec == Spec /\ \A s \in Streams : WF_vars(Consume(s))

-----------------------------------------------------------------------------
(* Properties *)

\* However messages, their redeliveries and replays of one event interleave,
\* ingest_signal counts one signal for the event, and one process stores one
\* row for it.  The table has no key: what is delivered again after a restart
\* is stored again, because the duplicate check looks at memory only.
CountedOnce ==
  /\ \A p, q \in signals : Key[p] = Key[q] => p = q
  /\ ~restarted =>
       \A p, q \in Payloads :
         rows[p] > 0 /\ rows[q] > 0 /\ Key[p] = Key[q] => p = q /\ rows[p] = 1

\* A message that a consumer acknowledged was counted, set aside or given up,
\* even if an event with the same key and other content was counted before,
\* unless the process forgot it or it could not be decoded.
AckedIsKept ==
  ~restarted =>
    \A m \in acked :
      LET p == PayloadOf[m] IN
      \/ Kind[p] = "garbage"
      \/ p \in signals
      \/ \E i \in Ids : quarantine[i].payload = p
      \/ deadLetters[p] > 0

\* No failed attempt of FailureTracker is lost or taken for two, whoever made
\* it: for each dead letter there are MaxAttempts - 1 events in quarantine, and
\* one for each failure that is still being counted.
FailuresAccounted ==
  \A p \in Payloads : Kind[p] = "bad_event" =>
    Cardinality({ i \in Ids : quarantine[i].payload = p })
      = (MaxAttempts - 1) * deadLetters[p] + failures[p]

\* An event that replay_quarantined marked as replayed was counted with the
\* payload that was replayed, whatever became of both while the replay ran.
ReplayedIsCounted ==
  \A i \in Ids :
    quarantine[i].counted # NoPayload => quarantine[i].counted \in signals

\* No message blocks its consumer: what cannot be decoded, validated or stored
\* is acknowledged in the end like the rest.
EachSettles == \A m \in Messages : <>(m \in acked)

=============================================================================
