----------------------------- MODULE MCControl ------------------------------
(* Instances of Control for TLC. *)
EXTENDS Control, TLC

\* The shortest pipeline and the one with every human in it.
ControlConfigurations ==
  { [ repo_tier |-> t, preflight_tiers |-> {},
      readiness_gate_enabled |-> human, preflight_enabled |-> FALSE,
      intent_review_enabled |-> human, routing_review_enabled |-> FALSE,
      approval_auto_bypass |-> ~human, projects_v2_enabled |-> FALSE,
      pipeline_comments_enabled |-> FALSE ] : t \in Tiers, human \in BOOLEAN }
=============================================================================
