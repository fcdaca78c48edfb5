SPECIFICATION Spec
CONSTANTS
  RepoTiers = {"observe", "suggest"}
  MergeModes = {"require_review"}
  StartStatuses = {"received", "rejected"}
  MaxAttempts = 6
  MaxDisturbances = 1
INVARIANTS
  PublishedIsRecorded
