SPECIFICATION Spec
CONSTANTS
  Deliveries <- OneOfEach
  Source <- SourceOf
  Requests = {r1, r2, r3}
  TriageModes = {TRUE, FALSE}
  MaxFailures = 1
SYMMETRY RequestSymmetry
INVARIANTS
  RunsCommittedTask
  TriageGate
PROPERTIES
  SettledForGood
