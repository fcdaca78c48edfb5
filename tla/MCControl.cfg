SPECIFICATION ControlSpec
CONSTANTS
  Tiers = {"execute"}
  ApprovalTiers = {"execute"}
  MaxVerificationLoopbacks = 1
  MaxQaLoopbacks = 0
  MaxReadinessEvaluations = 2
  Configurations <- ControlConfigurations
  Signals = {"verdict", "readiness_cleared", "pause", "resume", "abort", "redirect", "retry"}
  RedirectTargets = {"intent", "implement"}
  Kinds = {"pause", "abort", "redirect", "retry", "approve_intent"}
PROPERTIES
  PublishedIsLast
  SteeringHonoured
