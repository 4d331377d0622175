CONSTANTS
  CodePanes = {p1, p2}
  Suites = {s1}
  Gates = {}
  MaxCommits = 1
SPECIFICATION BridgeSpec
INVARIANT NoSilentSkip
CHECK_DEADLOCK FALSE
