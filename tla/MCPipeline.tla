----------------------------- MODULE MCPipeline -----------------------------
(* Instances of Pipeline for TLC. *)
EXTENDS Worker

\* A configuration given by its tier and the set of features switched on.
Configure(tier, features) ==
  [ repo_tier |-> tier, preflight_tiers |-> {"execute"},
    readiness_gate_enabled |-> "readiness" \in features,
    preflight_enabled |-> "preflight" \in features,
    intent_review_enabled |-> "intent_review" \in features,
    routing_review_enabled |-> "routing_review" \in features,
    approval_auto_bypass |-> "bypass" \in features,
    projects_v2_enabled |-> "projects" \in features,
    pipeline_comments_enabled |-> "comments" \in features ]

AllTiers == { "observe", "suggest", "execute" }
Features == { "readiness", "preflight", "intent_review", "routing_review",
              "bypass", "projects", "comments" }

\* Every feature on, each of them off in turn, and none, at every tier.
GateConfigurations ==
  { Configure(t, F) : t \in AllTiers,
                      F \in { {}, Features, Features \ {"bypass"} }
                           \cup { (Features \ {"bypass"}) \ {f} : f \in Features } }

\* The shortest pipeline and the one with every human in it.
SteeringConfigurations ==
  { Configure("observe", {}), Configure("execute", {"routing_review"}) }

LiveConfigurations ==
  { Configure("execute", {"readiness", "intent_review"}), Configure("observe", {"preflight"}) }
=============================================================================
