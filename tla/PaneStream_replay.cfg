CONSTANTS
  RetainCap = 4
  Leads <- MCLeads
  Conns = {c1}
  NoConn = NoConn
  SubCapacity = 1
  MaxChunk = 3
  MaxBytes = 8
  MaxBreaks = 1
  MaxReloads = 1
SPECIFICATION Spec
INVARIANT ReplayedOnce
