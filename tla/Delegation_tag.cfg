CONSTANTS
  Kids = {1}
  Loops = {l1}
  NoLoop = NoLoop
  MaxIters = 2
  MaxRuns = 2
  ClearAt = {}
SPECIFICATION DelegationSpec
PROPERTY TaggedForItsLoop
