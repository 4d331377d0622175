CONSTANTS
  RetainCap = 4
  Leads <- MCLeads
  Conns = {c1, c2}
  NoConn = NoConn
  SubCapacity = 1
  MaxChunk = 2
  MaxBytes = 4
  MaxBreaks = 2
  MaxReloads = 1
SPECIFICATION Spec
SYMMETRY Symmetry
INVARIANTS
  NoGapInLiveSub
  RegisteredIsServed
