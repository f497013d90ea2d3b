SPECIFICATION AccountsOrPluginsSpec
CONSTANTS
  boot = boot
  admin = admin
  p1 = p1
  p2 = p2
  v1 = v1
  v2 = v2
  Plugins <- OnePlugin
  Tasks <- TwoTasks
  Boot = boot
  Requires <- NoRequires
  Accounts = 2
  Instances <- TwoInstances
  Clients = {u1, u2}
  NoClient = NoClient
  Values <- TwoValues
  Ops <- AllOps
INVARIANTS InstancesAreSeparate SettingsAgree LoadedIsEnabled AccountIsKept
SYMMETRY ValueSymmetry
