SPECIFICATION Spec
CONSTANTS
  j1 = j1
  p1 = p1
  t1 = t1
  t2 = t2
  w1 = w1
  w2 = w2
  Jobs <- OneJob
  Plugins <- OnePlugin
  Owner <- OneOwner
  Removable = {}
  Tasks <- TwoTasks
  Workers <- TwoWorkers
  MaxGen = 1
PROPERTY TriggersAreKept
