SPECIFICATION FairSpec
CONSTANTS
  good = good
  other = other
  invalid = invalid
  unknown = unknown
  garbage = garbage
  m1 = m1
  m2 = m2
  m3 = m3
  m4 = m4
  Payloads <- MCPayloads
  Kind <- MCKind
  Key <- MCKey
  Messages <- MCMessages
  PayloadOf <- MCPayloadOf
  StreamOf <- MCStreamOf
  Corrections = {good, unknown}
  Operators = {o1, o2}
  NoMessage = NoMessage
  NoPayload = NoPayload
  MaxAttempts = 2
  MaxReplays = 2
  MaxEdits = 1
  MaxDisturbances = 1
INVARIANTS
  CountedOnce
  AckedIsKept
  FailuresAccounted
  ReplayedIsCounted
PROPERTIES
  EachSettles
