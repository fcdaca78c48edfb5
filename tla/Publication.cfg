SPECIFICATION FairSpec
CONSTANTS
  RepoTiers = {"observe", "suggest"}
  MergeModes = {"require_review"}
  StartStatuses = {"received", "rejected"}
  MaxAttempts = 6
  MaxDisturbances = 2
INVARIANTS
  PublishedMeansDelivered
PROPERTIES
  RejectedIsNotPublished
  RetryHeals
  Answered
