------------------------------ MODULE MCCfp2 -------------------------------
(* An instance of Cfp2 for TLC: two ports whose modules hold nothing alike *)
(* (a string with blanks at both ends, and one that fills its registers),  *)
(* two processes.                                                          *)
EXTENDS Cfp2, TLC

MCRegister == <<
  [string |-> <<32, 65, 32>>, oui |-> <<1, 2, 259>>, version |-> <<4, 517>>, temp |-> <<6400 + 128>>],
  [string |-> <<68, 69>>, oui |-> <<7, 8, 9>>, version |-> <<10, 11>>, temp |-> <<65535>>]>>
MCGarbage == {0, 200}
CallerSymmetry == Permutations(Caller)

(* One process at a time reads more than a register: two readers meet in   *)
(* nothing but the accesses of the bus and the plugging of the modules.    *)
OneShow ==
  Cardinality({c \in Caller : Busy(c) /\ job[c].kind \in {"string", "oui", "version"}}) < 2
=============================================================================
