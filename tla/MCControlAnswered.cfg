SPECIFICATION ControlSpec
CONSTANTS
  Tiers = {"execute"}
  ApprovalTiers = {"execute"}
  MaxVerificationLoopbacks = 1
  MaxQaLoopbacks = 0
  MaxReadinessEvaluations = 2
  Configurations <- ControlConfigurations
  Signals = {"verdict", "readiness_cleared", "pause", "resume", "abort", "redirect", "retry"}
  RedirectTargets = {"implement"}
  Kinds = {"pause", "resume"}
PROPERTIES
  RefusalIsTrue
