---------------------------- MODULE MCFanPolicy ----------------------------
(***************************************************************************)
(* Instances of FanPolicy for TLC: two sensors with different thresholds,  *)
(* freezing or above every threshold, and two test settings: one that      *)
(* gives a cold sensor a table of its own and an offset beyond its         *)
(* threshold, one for an index that is rejected.                           *)
(*                                                                         *)
(* In a behaviour either everything happens, or nothing fails and nothing  *)
(* is restarted: whether the target settles is only asked of the latter.   *)
(***************************************************************************)
EXTENDS FanPolicy

MCTemp == {0, 92000}
MCTuning == {[index |-> 2, ka |-> 140, kb |-> 450, offset |-> 60000],
             [index |-> CFP2, ka |-> 140, kb |-> 450, offset |-> 60000]}

VARIABLE quiet   \* nothing fails in this behaviour

Quiet == INSTANCE FanPolicy WITH Faults <- FALSE

PolicyInit == \/ quiet = FALSE /\ Init
              \/ quiet = TRUE /\ Quiet!Init

QuietRun == quiet /\ Quiet!Run /\ UNCHANGED quiet

PolicyNext ==
  /\ UNCHANGED quiet
  /\ \/ ~quiet /\ Next
     \/ quiet /\ Quiet!Next

Policy == PolicyInit /\ [][PolicyNext]_<<quiet, vars>> /\ WF_<<quiet, vars>>(QuietRun)

(* Runs that keep asking for the same percentage end up with it as the     *)
(* target, the slow-down counter notwithstanding, where nothing fails.     *)
Settled == quiet => Settles
=============================================================================
