CONSTANTS
  Caller = {c1, c2}
  NoCaller = NoCaller
  Kind <- MCKind
SPECIFICATION PsuImc
SYMMETRY CallerSymmetry
CONSTRAINT AfterStray
INVARIANTS PsuImcTypeOK ShowsOwn ValidIsComplete NobodyIsLockedOut TransfersAreOwn PollingKept
