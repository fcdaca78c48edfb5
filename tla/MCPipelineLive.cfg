SPECIFICATION FairSpec
CONSTANTS
  Tiers = {"observe", "suggest", "execute"}
  ApprovalTiers = {"suggest", "execute"}
  MaxVerificationLoopbacks = 1
  MaxQaLoopbacks = 1
  MaxReadinessEvaluations = 2
  Configurations <- LiveConfigurations
  Signals = {"verdict", "readiness_cleared", "pause", "resume", "abort", "redirect"}
  RedirectTargets = {"intent"}
PROPERTIES
  AbortObserved
  Terminates
