------------------------------- MODULE MCPsu -------------------------------
(* Instances of Psu for TLC: two processes, an AC power supply and a       *)
(* DC12V one in the slot before it or an empty slot behind it.             *)
EXTENDS Psu, TLC

MCKind == <<"dc12v", "ac">>
MCKindEmpty == <<"ac", "none">>
CallerSymmetry == Permutations(Caller)

(* Once a lock was given back twice nothing is promised of the records any *)
(* more, only of the channel and the lock: from then on one slot is        *)
(* enough, and one that keeps its record.                                  *)
AfterStray ==
  strayed => /\ psu_data = <<[type |-> "dc12v", pin |-> NotRead, model |-> Garbage], Unread>>
             /\ \A c \in Caller : fid[c] = 1
=============================================================================
