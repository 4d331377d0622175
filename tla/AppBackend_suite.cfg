CONSTANTS
  Kids = {1, 2}
  Loops = {l1}
  NoLoop = NoLoop
  MaxIters = 2
  MaxRuns = 3
  ClearAt = {"push"}
  PaneIds = {p1}
  NoPaneId = NoPaneId
  Commands = {c1, c2}
  MaxRestarts = 1
  Owners = {"app", "daemon"}
  Writers = {w1, w2}
  Nobody = Nobody
  Harnesses = {"claude", "bash"}
  MaxPanes = 2
  MaxWrites = 1
  Sidecars = {1, 2}
  Scoped = {2}
  Polls = {1, 2}
  CardIds = {1, 2}
  Orders = {1}
  TaskCap = 1
  TransitionCap = 3
  MaxRewrites = 3
  CodePanes = {1, 2}
  Suites = {1, 2}
  Gates = {"critique", "review"}
  MaxCommits = 1
  Desks = {"d1", "d2"}
  Editor = "editor"
  Harvesters = {"h1", "h2"}
  Capturers = {"k1"}
  MemoryRuns = {"r1"}
  Lessons = {"l1", "l2"}
  NoteCap = 3
  MaxOps = 4
  Clients = {u1, u2}
  Grid <- MCGrid
  NoSpace = NoSpace
  MaxSocketConns = 1
  MaxDials = 3
  MaxTurns = 3
SPECIFICATION MCSpec
INVARIANTS
  SuiteTypeOK
  WorkersOfSlot
  ShipsWhatWasTested
  OneOwner
  AnchorCovers
  StreamHasOwner
  NoSplice
  WrittenIsSubmitted
  AppPrimedBeforeLine
  LegalHistory
  PollIsFresh
  ShipsTheTestedTree
  PassSawLateCommits
  TenantsApart
  LinksReach
  RepeatsAddNothing
  UnsharingStops
PROPERTIES
  StopHonoured
  NoFireAfterVerdict
  NoCardErased
CHECK_DEADLOCK FALSE
