----------------------------- MODULE MCModules -----------------------------
(***************************************************************************)
(* The two drivers of the Goldstone modules, for TLC: Dpll, with the       *)
(* requests of MCDpll, and Piu.  They have a mutex, a bus and device files *)
(* each and share no state, so what they do together is what each does     *)
(* alone: one of them moves in a behaviour, the other stays as it began.   *)
(*                                                                         *)
(* Two processes use three kinds of module.  piu_type is left out, which   *)
(* runs like open and init and returns the same.                           *)
(***************************************************************************)
EXTENDS MCDpll

CONSTANTS Module, Handler, Reads   \* of Piu

VARIABLES part,  \* the driver that moves
          piu_lock, type, simulate_plug_out, simulate_cfp2_plug_out, slot, cfp2,
          piu_op, piu_pc, ltype, left, out, opened, disturbed

piu == <<piu_lock, type, simulate_plug_out, simulate_cfp2_plug_out, slot, cfp2,
         piu_op, piu_pc, ltype, left, out, opened, disturbed>>

P == INSTANCE Piu WITH lock <- piu_lock, op <- piu_op, pc <- piu_pc

ASSUME PiuAssumption == P!ConstantsOK

ModulesInit ==
  /\ part \in {"dpll", "piu"}
  /\ Init /\ P!Init
  /\ part # "dpll" => chipPage = 0
  /\ part # "piu" => slot = "empty"

ModulesNext ==
  /\ UNCHANGED part
  /\ \/ part = "dpll" /\ Next /\ UNCHANGED piu
     \/ part = "piu" /\ P!Next /\ UNCHANGED vars

Modules == ModulesInit /\ [][ModulesNext]_<<part, vars, piu>>

-----------------------------------------------------------------------------
(* Properties.  Those of Dpll keep their names.                            *)

(* Both drivers are well typed. *)
ModulesTypeOK ==
  /\ part = "dpll" => TypeOK
  /\ part = "piu" => P!TypeOK

(* A simulated plug-out leaves no transfer under way. *)
SimulatedOutIsSilent == part = "piu" => P!SimulatedOutIsSilent

(* A handler nothing disturbs answers as if it were alone, although all of *)
(* them overwrite the type the others rely on.                             *)
UndisturbedAnswer == part = "piu" => P!UndisturbedAnswer
=============================================================================
