SPECIFICATION Spec
CONSTANTS
  Caller = {c1, c2}
  Lights <- MCLights
  Mode = {"GREEN", "RED"}
  Field = {0, 3}
  Garbage <- MCGarbage
SYMMETRY CallerSymmetry
INVARIANT
  PutsIntoMode
