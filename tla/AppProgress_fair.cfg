CONSTANTS
  Owners = {"app", "daemon"}
  Writers = {w1, w2}
  Nobody = Nobody
  Harnesses = {"claude"}
  MaxPanes = 1
  MaxWrites = 1
  Kids = {1}
  Loops = {}
  NoLoop = NoLoop
  MaxIters = 1
  MaxRuns = 2
  ClearAt = {}
  Ids = {i1}
  NoId = NoId
  Cmds = {c1}
  Timer = Timer
  Watchers = {}
  MaxConcurrent = 1
  Budget = 1
  MaxWorking = 1
  MaxPid = 1
  MaxCloses = 0
SPECIFICATION MCFairSpec
PROPERTIES
  QueueServed
  WriteAnswered
  RunEnds
CHECK_DEADLOCK FALSE
