CONSTANTS
  Ids = {i1}
  NoId = NoId
  Conns = {c1}
  Reaper = Reaper
  MaxDaemonPanes = 1
  PaneTTL = 1
  MaxPid = 2
  MaxTime = 1
  MaxCrashes = 0
SPECIFICATION Spec
PROPERTY
  ReapsOnlyDoomed
