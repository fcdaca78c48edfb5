SPECIFICATION Spec
CONSTANTS
  MaxSeq = 4
  MaxGap = 1
INVARIANTS
  ReceivedIsShown
