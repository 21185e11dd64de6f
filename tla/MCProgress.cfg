SPECIFICATION Progress
CONSTANTS
  Proc = {p1, p2}
  NoProc = NoProc
  NoCaller = NoCaller
  Pairs = 1
  Page = {0, 2, 4, 12}
  Nib = {0, 1, 2, 3}
  Request <- MCAll
  Unprivileged = {}
CONSTRAINT AfterStray
CHECK_DEADLOCK FALSE
PROPERTIES
  EveryCallEnds
