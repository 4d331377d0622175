CONSTANTS
  RetainCap = 4
  Leads <- MCLeads
  Conns = {c1}
  NoConn = NoConn
  SubCapacity = 2
  MaxChunk = 3
  MaxBytes = 7
  MaxBreaks = 1
  MaxReloads = 0
SPECIFICATION MCFairSpec
PROPERTIES
  ShowsUnbrokenOutput
  DeathReported
  CatchesUp
