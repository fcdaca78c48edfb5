----------------------------- MODULE Consumers ------------------------------
(***************************************************************************)
(* A background consumer of the dashboard: gate evidence, notifications,   *)
(* budget thresholds (src/dashboard/gate_consumer.py,                      *)
(* notification_generator.py, budget_checker.py).  Each has a durable      *)
(* JetStream subscription and does the same for every message: write what  *)
(* it stands for, then acknowledge, whether or not that worked.            *)
(*                                                                         *)
(* The application may stop at any point; JetStream delivers again what    *)
(* was not acknowledged, after a restart or when the handler takes longer  *)
(* than ack_wait.                                                          *)
(***************************************************************************)
EXTENDS Naturals

CONSTANTS
  Messages,
  MaxCopies    \* bound: deliveries of a message in hand or acted on

\* What the constants are taken to be, where this module is instantiated.
ConsumersAssumption == MaxCopies \in Nat \ {0}

Nobody == "nobody"

VARIABLES
  published,  \* messages of the stream
  consumer,   \* the task of the consumer: "down", "up", or "failed" to start
  copies,     \* copies of each message delivered and not handled
  atWork,     \* the message the callback is at, and its next step
  effects,    \* how often each message was acted on (a row was committed)
  acked,      \* messages JetStream has the acknowledgement of
  failures    \* history: messages whose handling raised

vars == << published, consumer, copies, atWork, effects, acked, failures >>

Nothing == [ message |-> Nobody, step |-> "idle" ]

TypeOK ==
  /\ published \subseteq Messages
  /\ consumer \in { "down", "up", "failed" }
  /\ copies \in [ Messages -> 0..MaxCopies ]
  /\ atWork \in [ message : Messages \cup {Nobody}, step : { "idle", "act", "ack" } ]
  /\ effects \in [ Messages -> Nat ]
  /\ acked \subseteq published
  /\ failures \subseteq published

Init ==
  /\ published = {}
  /\ consumer = "down"
  /\ copies = [ m \in Messages |-> 0 ]
  /\ atWork = Nothing
  /\ effects = [ m \in Messages |-> 0 ]
  /\ acked = {}
  /\ failures = {}

-----------------------------------------------------------------------------
Publish ==
  /\ \E m \in Messages \ published : published' = published \cup {m}
  /\ UNCHANGED << consumer, copies, atWork, effects, acked, failures >>

\* _run is a task of its own: if NATS cannot be reached nobody hears of it and
\* there is no consumer until the application starts again.
Starts ==
  /\ consumer = "down"
  /\ consumer' \in { "up", "failed" }
  /\ UNCHANGED << published, copies, atWork, effects, acked, failures >>

\* The application stops, at whatever point the callback is.
Stops ==
  /\ consumer # "down"
  /\ consumer' = "down"
  /\ copies' = [ m \in Messages |-> 0 ]
  /\ atWork' = Nothing
  /\ UNCHANGED << published, effects, acked, failures >>

\* The first delivery, one after a restart, or one after ack_wait.
Delivered(m) ==
  /\ consumer = "up"
  /\ m \in published \ acked
  /\ copies[m] + effects[m] < MaxCopies
  /\ copies' = [ copies EXCEPT ![m] = @ + 1 ]
  /\ UNCHANGED << published, consumer, atWork, effects, acked, failures >>

\* Mutant: the message is acknowledged when it is taken.
TakesAndAcks(m) ==
  /\ copies[m] > 0
  /\ atWork = Nothing
  /\ copies' = [ copies EXCEPT ![m] = @ - 1 ]
  /\ atWork' = [ message |-> m, step |-> "act" ]
  /\ acked' = acked \cup {m}
  /\ UNCHANGED << published, consumer, effects, failures >>

\* One message at a time.
Takes(m) ==
  /\ copies[m] > 0
  /\ atWork = Nothing
  /\ copies' = [ copies EXCEPT ![m] = @ - 1 ]
  /\ atWork' = [ message |-> m, step |-> "act" ]
  /\ UNCHANGED << published, consumer, effects, acked, failures >>

\* The row is committed.
Acts ==
  /\ atWork.step = "act"
  /\ effects' = [ effects EXCEPT ![atWork.message] = @ + 1 ]
  /\ atWork' = [ atWork EXCEPT !.step = "ack" ]
  /\ UNCHANGED << published, consumer, copies, acked, failures >>

\* Any exception is logged, and the message acknowledged all the same.
Fails ==
  /\ atWork.step = "act"
  /\ failures' = failures \cup { atWork.message }
  /\ atWork' = [ atWork EXCEPT !.step = "ack" ]
  /\ UNCHANGED << published, consumer, copies, effects, acked >>

Acks ==
  /\ atWork.step = "ack"
  /\ acked' = acked \cup { atWork.message }
  /\ atWork' = Nothing
  /\ UNCHANGED << published, consumer, copies, effects, failures >>

Next ==
  \/ Publish \/ Starts \/ Stops
  \/ \E m \in Messages : Delivered(m) \/ Takes(m)
  \/ Acts \/ Fails \/ Acks

Spec == Init /\ [][Next]_vars

-----------------------------------------------------------------------------
(* Properties *)

\* A message JetStream will not deliver again has had its effect, or its
\* handling raised: no restart, wherever it cuts in, loses one.
AckedHadEffect == \A m \in acked : effects[m] > 0 \/ m \in failures

-----------------------------------------------------------------------------
(* The inductive invariant of the proofs *)

\* What is in hand was published, and once it is to be acknowledged it has had
\* its effect or raised.
InHandOK ==
  /\ \A m \in Messages : copies[m] > 0 => m \in published
  /\ atWork.step # "idle" => atWork.message \in published
  /\ atWork.step = "ack" => effects[atWork.message] > 0 \/ atWork.message \in failures

IInv == TypeOK /\ InHandOK /\ AckedHadEffect

=============================================================================
