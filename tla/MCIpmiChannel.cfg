SPECIFICATION FairSpec
CONSTANTS
  Caller = {c1, c2}
  NoCaller = NoCaller
  MaxMsg = 4
INVARIANTS
  TypeOK
  BacklogBound
  AnswerLag
  CleanUntilTimeout
PROPERTIES
  ServiceSpec
  EveryCallEnds
