---------------------------- MODULE MCProgress -----------------------------
(***************************************************************************)
(* Small instances, for the liveness of the drivers that wait: Dpll and    *)
(* Piu for a mutex and a bus, Psu for the BMC, Imc for the memory          *)
(* controller, ArmPsu for the power supplies.  They share no state: one of *)
(* them moves in a behaviour, the others stay as they began.               *)
(***************************************************************************)
EXTENDS MCDpll

CONSTANTS NoCaller

VARIABLES part,  \* the driver that moves
          piu_lock, type, simulate_plug_out, simulate_cfp2_plug_out, slot, cfp2,
          piu_op, piu_pc, ltype, left, out, opened, disturbed,
          psu_lock, psu_at, fid, query, read, ipmi_resp, rx_msg_data, tx_message, request, outrun,
          rx_result, done, psu_valid, fresh, psu_data, strayed, failed,
          phase, adapters, suspended, imc_mutex, chosen, cltt, polling, imc_op, imc_at, stat,
          SMBCNTL, SMBCMD, SMBSTAT, trans, late, overtaken,
          arm_mutex, job, arm_at, work, arm_psu_data, arm_valid, last_updated,
          plugged, pwm, arm_out, changed, touched

piu == <<piu_lock, type, simulate_plug_out, simulate_cfp2_plug_out, slot, cfp2,
         piu_op, piu_pc, ltype, left, out, opened, disturbed>>
psu == <<psu_lock, psu_at, fid, query, read, ipmi_resp, rx_msg_data, tx_message, request, outrun,
         rx_result, done, psu_valid, fresh, psu_data, strayed, failed>>
imc == <<phase, adapters, suspended, imc_mutex, chosen, cltt, polling, imc_op, imc_at, stat,
         SMBCNTL, SMBCMD, SMBSTAT, trans, late, overtaken>>
arm == <<arm_mutex, job, arm_at, work, arm_psu_data, arm_valid, last_updated,
         plugged, pwm, arm_out, changed, touched>>

(* The handlers with the longest and most branching paths. *)
P == INSTANCE Piu WITH
  Module <- {"aco", "qsfp28"}, Handler <- {"mcu_version", "cfp2_read", "eeprom"}, Reads <- 1,
  lock <- piu_lock, op <- piu_op, pc <- piu_pc

(* An empty slot: its number is negative at once. *)
U == INSTANCE Psu WITH
  Caller <- Proc, Kind <- <<"none">>,
  lock <- psu_lock, at <- psu_at, valid <- psu_valid

(* Once the lock was given back twice a message may be answered with       *)
(* another's bytes and the record become anything.  Neither changes how a  *)
(* show ends: the bound is that every refresh from then on ends with the   *)
(* type and leaves the same record.                                        *)
AfterStray ==
  strayed => psu_data = <<U!Unread>> /\ \A c \in Proc : read[c].type = "none"

(* The target is the one the hardware polls: only the end counts. *)
I == INSTANCE Imc WITH
  Caller <- Proc, Target <- {<<0, 0>>}, can_write <- [i \in 0..1 |-> i = 0],
  mutex <- imc_mutex, op <- imc_op, at <- imc_at

(* One unit, a reading of one word, held for two ticks. *)
A == INSTANCE ArmPsu WITH
  Caller <- Proc, Unit <- {1}, Request <- {60}, Speed <- {30}, Word <- {30 * 2048 + 193},
  Hold <- 2,
  mutex <- arm_mutex, at <- arm_at, psu_data <- arm_psu_data, valid <- arm_valid, out <- arm_out

ProgressInit ==
  /\ part \in {"dpll", "piu", "psu", "imc", "arm"}
  /\ Init /\ P!Init /\ U!Init /\ I!Init /\ A!Init
  /\ part # "dpll" => chipPage = 0
  /\ part # "piu" => slot = "empty"
  /\ chosen
  /\ part # "arm" => plugged[1]

(* One driver moves. *)
OnlyDpll == UNCHANGED <<part, piu, psu, imc, arm>>
OnlyPiu == UNCHANGED <<part, vars, psu, imc, arm>>
OnlyPsu == UNCHANGED <<part, vars, piu, imc, arm>>
OnlyImc == UNCHANGED <<part, vars, piu, psu, arm>>
OnlyArm == UNCHANGED <<part, vars, piu, psu, imc>>

ProgressNext ==
  \/ part = "dpll" /\ Next /\ OnlyDpll
  \/ part = "piu" /\ P!Next /\ OnlyPiu
  \/ part = "psu" /\ U!Next /\ OnlyPsu
  \/ part = "imc" /\ I!Next /\ OnlyImc
  \/ part = "arm" /\ A!Next /\ OnlyArm

(* What a process of the driver that moves does by itself, and its taking  *)
(* of the mutex.                                                           *)
Runs(c) ==
  \/ part = "dpll" /\ (SelectPage(c) \/ Read(c) \/ Write(c) \/ WritePageRegister(c) \/ Unlock(c)) /\ OnlyDpll
  \/ part = "piu" /\ (P!Runs(c) \/ P!TransferFails(c)) /\ OnlyPiu
  \/ part = "psu" /\ U!Show(c) /\ OnlyPsu
  \/ part = "imc" /\ I!Step(c) /\ OnlyImc
  \/ part = "arm" /\ A!Step(c) /\ OnlyArm

Locks(c) ==
  \/ part = "dpll" /\ Lock(c) /\ OnlyDpll
  \/ part = "piu" /\ P!Locks(c) /\ OnlyPiu
  \/ part = "imc" /\ I!Claim(c) /\ OnlyImc
  \/ part = "arm" /\ A!Lock(c) /\ OnlyArm

(* A process inside a handler runs on: its transfers end, well or badly,   *)
(* and its waits are counted or end with a timer.  A mutex of the kernel   *)
(* queues its waiters and passes nobody over for ever.  Nothing makes a    *)
(* process call, a transfer succeed or the other side answer.              *)
Progress ==
  /\ ProgressInit /\ [][ProgressNext]_<<part, vars, piu, psu, imc, arm>>
  /\ \A c \in Proc :
       /\ WF_<<vars, piu, psu, imc, arm>>(Runs(c))
       /\ SF_<<vars, piu, psu, imc, arm>>(Locks(c))

-----------------------------------------------------------------------------
Waits(c) ==
  \/ pc[c] = "blocked"
  \/ piu_pc[c] \notin {"idle", "done"}
  \/ psu_at[c] = "send"
  \/ imc_at[c] = "claim"
  \/ arm_at[c] = "lock"

(* The owner of the mutex of Dpll has returned from its handler. *)
Leaked == \E c \in Proc : lock = c /\ ~Busy(c)

Returns(c) ==
  /\ pc[c] = "idle" \/ Leaked
  /\ piu_pc[c] \in {"idle", "done"}
  /\ psu_at[c] = "idle"
  /\ imc_at[c] = "idle"
  /\ arm_at[c] = "idle"

(* Every call of the five drivers ends, whatever fails, is swapped, lost,  *)
(* suspended or removed meanwhile and although the other side may never    *)
(* answer; with the exception of Dpll, where none ends any more once a     *)
(* handler has returned with the mutex locked.  The processes are alike,   *)
(* so one of them, any one, stands for all.                                *)
EveryCallEnds == LET c == CHOOSE p \in Proc : TRUE IN Waits(c) ~> Returns(c)
=============================================================================
