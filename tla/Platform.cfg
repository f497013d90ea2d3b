SPECIFICATION PlatformSpec
CONSTANTS
  Launchers = {l1, l2}
  Tasks = {l1}
  Keys = {k1, k2}
  NoKey = NoKey
  Updaters = {x1}
  NewestRelease = 2
  Bots = {b1, b2}
  NoBot = NoBot
  MaxDeaths = 2
  Saves = {s1, s2}
  Contents = {one, two}
  Mask = Mask
  Packages = {"cloak", "geo"}
  Extra <- ExtraOfCloak
  Versions = {1, 2}
  MaxInstalls = 3
  Repos = {official, fork}
  NoRepo = NoRepo
  MaxVersion = 2
  MaxChanges = 2
  Handlers = {h1, h2}
  Objects = {o1, o2}
  NoObject = NoObject
  Callers = {c1, c2, c3}
  OldCallers = {c3}
  Channels = {telegram, bark}
  RichChannels = {telegram}
  Acknowledging = {telegram}
  Texts = {text}
  Cards = {card}
  Medias = {media}
  Apps = {ours, other}
  Requests = {x, y}
  Budget = 3
  Changes = 1
  ToolCalls = 2
  Configs = {old, new, bad}
  Faulty = {bad}
  NoConfig = NoConfig
  MaxDisturbance = 4
INVARIANTS  DeliveredAsChecked PartialIsNotCallable
PROPERTIES NoticeOnce ApprovedAsSeen InstallsAreHonest InstallIsAtomic StoresAreKept RequestIsOne ImportIsAtomic ComesUp
CHECK_DEADLOCK FALSE
