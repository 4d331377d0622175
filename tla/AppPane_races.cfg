CONSTANTS
  Ids = {i1}
  NoId = NoId
  Cmds = {c1}
  Timer = Timer
  Watchers = {w1}
  MaxConcurrent = 1
  Budget = 1
  MaxWorking = 1
  MaxPid = 2
  MaxCloses = 1
SPECIFICATION Spec
INVARIANTS
  NoStrayChild
  PaneKeepsTree
  TreeIsRecorded
  ListedIsLive
