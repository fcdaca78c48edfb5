SPECIFICATION Spec
CONSTANTS
  Tiers = {"observe", "suggest", "execute"}
  ApprovalTiers = {"suggest", "execute"}
  MaxVerificationLoopbacks = 2
  MaxQaLoopbacks = 2
  MaxReadinessEvaluations = 3
  Configurations <- SteeringConfigurations
  Signals = {"pause", "resume", "abort", "redirect", "retry"}
  RedirectTargets = {"intent"}
INVARIANTS
  AwaitedIsServed
