------------------------------- MODULE MCLed -------------------------------
(* Instances of Led for TLC: two LEDs that share a register and one of the *)
(* other register, stored GREEN or RED (which the driver turns off).       *)
EXTENDS Led, TLC

MCGarbage == {<<3, 3>>, <<3, 0>>}
MCLights == {LED_SYS, LED_BMC, LED_FAN}
CallerSymmetry == Permutations(Caller)
=============================================================================
