SPECIFICATION FairSpec
CONSTANTS
  c1 = c1
  c2 = c2
  c3 = c3
  w1 = w1
  w2 = w2
  m1 = m1
  m2 = m2
  a = a
  b = b
  l1 = l1
  l2 = l2
  Callers <- TwoCallers
  Workers <- TwoWorkers
  Messages <- TwoMessages
  Texts <- OneText
  Locks <- TwoLocks
  Retries = 1
INVARIANT ChatIsHeld
PROPERTIES RequestsAreDue EverythingEnds
