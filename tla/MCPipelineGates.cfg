SPECIFICATION Spec
CONSTANTS
  Tiers = {"observe", "suggest", "execute"}
  ApprovalTiers = {"suggest", "execute"}
  MaxVerificationLoopbacks = 2
  MaxQaLoopbacks = 2
  MaxReadinessEvaluations = 3
  Configurations <- GateConfigurations
  Signals = {"verdict", "readiness_cleared", "retry"}
  RedirectTargets = {}
INVARIANTS
  GatedStages
  BoundedRework
PROPERTIES
  KeepsPromise
