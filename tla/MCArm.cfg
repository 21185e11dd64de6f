SPECIFICATION Arm
CONSTANTS
  Caller = {c1, c2}
  Lights <- MCLights
  Garbage = {0}
  NoCaller = NoCaller
  Unit = {1}
  Request = {0, 10, 257}
  Speed = {30, 50}
  Word <- MCWord
  Hold = 2
  PolicyLeds <- MCPolicyLeds
CONSTRAINT FewTroubles
SYMMETRY CallerSymmetry
INVARIANTS ArmTypeOK NoFalseColour PolicyLights HeldIsTrue
PROPERTY DriverLights
