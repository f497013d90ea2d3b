SPECIFICATION Spec
CONSTANTS
  boot = boot
  admin = admin
  p1 = p1
  p2 = p2
  v1 = v1
  v2 = v2
  Boot = boot
  Plugins <- OnePlugin
  Tasks <- TwoTasks
  Requires <- NoRequires
  Accounts = 2
  Instances <- TwoInstances
  Values <- OneValue
  Ops <- SwitchOps
INVARIANT NothingLeft
