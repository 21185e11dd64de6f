CONSTANTS
  Caller = {c1, c2}
  CFP2DCO_NUM = 2
  Register <- MCRegister
  Kind = {"string", "oui", "version", "temp", "CFP2DCO_READ", "CFP2DCO_WRITE"}
  Garbage <- MCGarbage
SPECIFICATION Spec
SYMMETRY CallerSymmetry
CONSTRAINT OneShow
INVARIANTS TypeOK UndisturbedAnswer OwnOrNothing
PROPERTY AtMostOneLate
