SPECIFICATION CasesSpec
CONSTANTS
  m1 = m1
  m2 = m2
  p1 = p1
  r1 = r1
  r2 = r2
  Messages <- TwoMessages
  Commands <- OneCommand
  Target <- OneTarget
  Plugins <- OnePlugin
  Requests <- TwoRequests
  Capacity = 1
  MaxIssued = 2
  MaxLives = 2
INVARIANTS RecordsAreTrue ClaimsHaveRoom NoStrandedRecord
PROPERTIES KeepsThePromise EverythingEnds
