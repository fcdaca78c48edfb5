----------------------------- MODULE TaskPacket -----------------------------
(* The status of a TaskPacket row and the moves it may make                *)
(* (src/models/taskpacket.py, src/models/taskpacket_crud.py).              *)

Statuses ==
  { "triage", "received", "enriched", "clarification_requested",
    "human_review_required", "intent_built", "in_progress",
    "verification_passed", "verification_failed", "awaiting_approval",
    "awaiting_approval_expired", "rejected", "published", "failed",
    "paused", "aborted" }

\* What every status that is still being worked on may move to.
Stopped == { "failed", "paused", "aborted" }

AllowedTransitions ==
  [ triage |-> { "received", "rejected" } \cup Stopped,
    received |-> { "enriched" } \cup Stopped,
    enriched |-> { "clarification_requested", "human_review_required", "intent_built" }
                   \cup Stopped,
    clarification_requested |-> { "enriched" } \cup Stopped,
    human_review_required |-> { "enriched" } \cup Stopped,
    intent_built |-> { "in_progress" } \cup Stopped,
    in_progress |-> { "verification_passed", "verification_failed" } \cup Stopped,
    verification_passed |-> { "awaiting_approval", "published" } \cup Stopped,
    verification_failed |-> { "in_progress" } \cup Stopped,
    awaiting_approval |-> { "published", "awaiting_approval_expired", "rejected" }
                            \cup Stopped,
    awaiting_approval_expired |-> { "failed", "aborted" },
    rejected |-> { "failed" },
    paused |-> { "received", "enriched", "intent_built", "in_progress",
                 "verification_passed", "awaiting_approval", "aborted", "failed" },
    published |-> {}, failed |-> {}, aborted |-> {} ]

\* The guard of update_status, update_enrichment and update_intent.
MayMove(from, to) == to \in AllowedTransitions[from]

=============================================================================
