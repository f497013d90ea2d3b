SPECIFICATION FairSpec
CONSTANTS
  boot = boot
  admin = admin
  p1 = p1
  p2 = p2
  v1 = v1
  v2 = v2
  Boot = boot
  Plugins <- TwoPlugins
  Tasks <- TwoTasks
  Requires <- SecondNeedsItself
  Accounts = 1
  Instances <- TwoInstances
  Values <- OneValue
  Ops <- LiveOps
PROPERTIES RequestsEnd RestoreRespectsDisable
