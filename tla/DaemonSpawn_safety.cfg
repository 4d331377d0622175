CONSTANTS
  Ids = {i1}
  NoId = NoId
  Conns = {c1, c2}
  Reaper = Reaper
  MaxDaemonPanes = 2
  PaneTTL = 1
  MaxPid = 3
  MaxTime = 1
  MaxCrashes = 1
SPECIFICATION Spec
SYMMETRY Symmetry
INVARIANTS
  OneChildPerId
  RunningPaneHasWorktree
  NoStrayChild
  SettledBookkeeping
PROPERTIES
  RegistryOutlivesOrphans
  ActsAsService
