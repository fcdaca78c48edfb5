----------------------------- MODULE MCOutcome ------------------------------
(* Outcome with two streams and the payloads that ingest_signal tells apart. *)
EXTENDS Outcome

CONSTANTS good, other, invalid, unknown, garbage, m1, m2, m3, m4

\* "good" and "other" are one event with two contents.
MCPayloads == { good, other, invalid, unknown, garbage }
MCKey == [ p \in MCPayloads |-> IF p = other THEN good ELSE p ]
MCKind ==
  [ p \in MCPayloads |->
      CASE p = invalid -> "bad_event"
        [] p = unknown -> "unknown"
        [] p = garbage -> "garbage"
        [] OTHER -> "valid" ]

MCMessages == { m1, m2, m3, m4 }
MCPayloadOf ==
  [ m \in MCMessages |->
      CASE m = m1 -> good [] m = m2 -> other [] m = m3 -> invalid [] OTHER -> garbage ]
MCStreamOf ==
  [ m \in MCMessages |-> IF m \in {m1, m4} THEN "verification" ELSE "qa" ]
=============================================================================
