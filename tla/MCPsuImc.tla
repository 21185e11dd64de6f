----------------------------- MODULE MCPsuImc ------------------------------
(***************************************************************************)
(* Two x86 drivers that share nothing, for TLC: Psu and Imc.  One of them  *)
(* moves in a behaviour, the other stays as it began.                      *)
(***************************************************************************)
EXTENDS MCPsu

VARIABLES part,  \* the driver that moves
          phase, adapters, suspended, mutex, chosen, cltt, polling, imc_op, imc_at, stat,
          SMBCNTL, SMBCMD, SMBSTAT, trans, late, overtaken

imc == <<phase, adapters, suspended, mutex, chosen, cltt, polling, imc_op, imc_at, stat,
         SMBCNTL, SMBCMD, SMBSTAT, trans, late, overtaken>>

(* A target that differs in both parts from what the hardware polls, and   *)
(* one channel pair with writes disabled.                                  *)
I == INSTANCE Imc WITH
  Target <- {<<1, 1>>}, can_write <- [i \in 0..1 |-> i = 0], op <- imc_op, at <- imc_at

ASSUME ImcAssumption == I!ConstantsOK

PsuImcInit ==
  /\ part \in {"psu", "imc"}
  /\ Init /\ I!Init
  /\ part # "imc" => chosen

PsuImcNext ==
  /\ UNCHANGED part
  /\ \/ part = "psu" /\ Next /\ UNCHANGED imc
     \/ part = "imc" /\ I!Next /\ UNCHANGED vars

PsuImc == PsuImcInit /\ [][PsuImcNext]_<<part, vars, imc>>

-----------------------------------------------------------------------------
(* Properties.  Those of Psu keep their names.                             *)

(* Both drivers are well typed, and a transfer of Imc uses an adapter that *)
(* is there, also while the driver is removed.                             *)
PsuImcTypeOK ==
  /\ part = "psu" => TypeOK
  /\ part = "imc" => I!TypeOK

(* A transfer that reports success has read or written its own target, and *)
(* no write is ever under way to a target nobody asked for, although the   *)
(* hardware's polls and the BIOS use the same registers.                   *)
TransfersAreOwn == part = "imc" => I!SuccessIsOwn /\ I!WritesOnTarget

(* While nobody has the lock the polling is as the BIOS chose, however the *)
(* last transfer ended.                                                    *)
PollingKept == part = "imc" => I!PollingKept
=============================================================================
