SPECIFICATION Spec
CONSTANTS
  Caller = {c1, c2}
  NoCaller = NoCaller
  MaxMsg = 3
INVARIANT AnswerIsOwn
