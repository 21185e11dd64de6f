CONSTANTS
  Caller = {c1, c2}
  NoCaller = NoCaller
  Kind <- MCKindEmpty
SPECIFICATION Spec
SYMMETRY CallerSymmetry
INVARIANT ValidIsOwn
