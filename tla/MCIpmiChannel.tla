--------------------------- MODULE MCIpmiChannel ---------------------------
(* Instances of IpmiChannel for TLC: two processes on one driver.  Three   *)
(* requests are enough for a timeout, a stale answer and its successor.    *)
EXTENDS IpmiChannel, TLC

CallerSymmetry == Permutations(Caller)
=============================================================================
