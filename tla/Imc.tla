-------------------------------- MODULE Imc --------------------------------
(***************************************************************************)
(* The SMBus of Intel's memory controller: two channel pairs, each with a  *)
(* register for the upper address bits (SMBCNTL), one that starts a        *)
(* transaction (SMBCMD) and one with its result (SMBSTAT), and one         *)
(* register of the power control unit that keeps the hardware's own        *)
(* polling of the DIMM sensors off both while a transfer is under way.     *)
(***************************************************************************)
EXTENDS Naturals

CONSTANTS Caller,    \* the processes that transfer
          NoCaller,
          Target,    \* addresses and commands: <<upper, lower bits>>
          can_write  \* can_write[i]: writes are not disabled

Chan == 0..1

(* What is assumed of the constants; NoCaller stands for a free mutex.     *)
ConstantsOK == NoCaller \notin Caller /\ Target \subseteq Nat \X Nat

VARIABLES phase, adapters,  \* of the driver; the channel pairs on offer
          suspended,
          mutex,            \* its holder
          chosen, cltt, polling,  \* whether the BIOS chose a polling interval,
                    \* whether the driver found one, whether there is one now
          op, at, stat,     \* a process: its transfer, its step, its SMBSTAT
          SMBCNTL, SMBCMD, SMBSTAT,  \* the registers of a channel pair
          trans,            \* its transaction under way
          late, overtaken   \* a transaction was given up; a suspend met a transfer

process == <<op, at, stat>>
registers == <<SMBCNTL, SMBCMD, SMBSTAT, trans>>
driver == <<phase, adapters, cltt, chosen>>
vars == <<driver, suspended, mutex, polling, process, registers, late, overtaken>>

Transfer == [chan : Chan, target : Target, kind : {"read", "write"}]
None == [kind |-> "none"]
Result(end, target) == [end |-> end, target |-> target]
Nothing == Result("none", <<0, 0>>)

Init ==
  /\ phase = "absent" /\ adapters = {} /\ suspended = FALSE
  /\ mutex = NoCaller
  /\ chosen \in BOOLEAN /\ cltt = FALSE /\ polling = chosen
  /\ op = [c \in Caller |-> None] /\ at = [c \in Caller |-> "idle"]
  /\ stat = [c \in Caller |-> Nothing]
  /\ SMBCNTL = [i \in Chan |-> 0] /\ SMBCMD = [i \in Chan |-> 0]
  /\ SMBSTAT = [i \in Chan |-> Nothing]
  /\ trans = [i \in Chan |-> None]
  /\ late = FALSE /\ overtaken = FALSE

Goto(c, from, to) == at[c] = from /\ at' = [at EXCEPT ![c] = to]
Inside(c) == at[c] # "idle"

-----------------------------------------------------------------------------
(* Loading and unloading, suspend and resume.                              *)

(* The interval is read here and taken for the BIOS' choice from then on. *)
Probe ==
  /\ phase = "absent" /\ phase' = "probing"
  /\ cltt' = polling
  /\ UNCHANGED <<adapters, chosen, suspended, mutex, polling, process, registers, late, overtaken>>

(* One after the other; when the second cannot be added, the first, that   *)
(* was already on offer, is taken back.                                    *)
AddAdapter ==
  LET i == IF adapters = {} THEN 0 ELSE 1 IN
  /\ phase = "probing"
  /\ \/ /\ adapters' = adapters \cup {i}
        /\ phase' = IF i = 1 THEN "bound" ELSE phase
     \/ phase' = "failing" /\ UNCHANGED adapters
  /\ UNCHANGED <<cltt, chosen, suspended, mutex, polling, process, registers, late, overtaken>>

Remove ==
  /\ phase = "bound" /\ phase' = "removing"
  /\ UNCHANGED <<adapters, cltt, chosen, suspended, mutex, polling, process, registers, late, overtaken>>

(* Mutant: the adapter is freed under its transfers. *)
DelAdapterAtOnce(i) ==
  /\ phase \in {"failing", "removing"} /\ i \in adapters /\ \A j \in adapters : i <= j
  /\ adapters' = adapters \ {i}
  /\ UNCHANGED <<phase, cltt, chosen, suspended, mutex, polling, process, registers, late, overtaken>>

(* i2c_del_adapter waits for the transfers of the adapter. *)
DelAdapter(i) ==
  /\ phase \in {"failing", "removing"} /\ i \in adapters /\ \A j \in adapters : i <= j
  /\ \A c \in Caller : Inside(c) => op[c].chan # i
  /\ adapters' = adapters \ {i}
  /\ UNCHANGED <<phase, cltt, chosen, suspended, mutex, polling, process, registers, late, overtaken>>

(* imc_remove, not a failed imc_probe, writes the interval once more. *)
Gone ==
  /\ phase \in {"failing", "removing"} /\ adapters = {} /\ phase' = "absent"
  /\ suspended' = FALSE /\ cltt' = FALSE
  /\ polling' = IF phase = "removing" THEN cltt ELSE polling
  /\ UNCHANGED <<adapters, chosen, mutex, process, registers, late, overtaken>>

(* Nothing waits for a transfer that has begun. *)
Suspend ==
  /\ phase = "bound" /\ ~suspended /\ suspended' = TRUE
  /\ overtaken' = (overtaken \/ \E c \in Caller : Inside(c))
  /\ UNCHANGED <<driver, mutex, polling, process, registers, late>>

Resume ==
  /\ phase = "bound" /\ suspended /\ suspended' = FALSE
  /\ UNCHANGED <<driver, mutex, polling, process, registers, late, overtaken>>

-----------------------------------------------------------------------------
(* imc_smbus_xfer.                                                         *)

(* imc_channelpair_claim looks at suspended before it waits for the lock. *)
Start(c, o) ==
  /\ o.chan \in adapters /\ ~suspended
  /\ Goto(c, "idle", "claim")
  /\ op' = [op EXCEPT ![c] = o]
  /\ UNCHANGED <<driver, suspended, mutex, polling, stat, registers, late, overtaken>>

(* Mutant: each channel pair has a lock of its own. *)
ClaimOwn(c) ==
  /\ Goto(c, "claim", "address")
  /\ \A d \in Caller : at[d] \notin {"idle", "claim"} => op[d].chan # op[c].chan
  /\ mutex' = c
  /\ polling' = (polling /\ ~cltt)
  /\ UNCHANGED <<driver, suspended, op, stat, registers, late, overtaken>>

(* The wait of 10 ms lets a poll that has begun end. *)
Claim(c) ==
  /\ mutex = NoCaller /\ mutex' = c
  /\ Goto(c, "claim", "address")
  /\ polling' = (polling /\ ~cltt)
  /\ UNCHANGED <<driver, suspended, op, stat, registers, late, overtaken>>

WriteAddress(c) ==
  /\ Goto(c, "address", "command")
  /\ SMBCNTL' = [SMBCNTL EXCEPT ![op[c].chan] = op[c].target[1]]
  /\ UNCHANGED <<driver, suspended, mutex, polling, op, stat, SMBCMD, SMBSTAT, trans, late, overtaken>>

(* What the controller does with a command while it is busy is its own     *)
(* affair: it may drop either transaction.                                 *)
WriteCommand(c) ==
  LET i == op[c].chan
      new == [kind |-> op[c].kind, target |-> <<SMBCNTL[i], op[c].target[2]>>] IN
  /\ Goto(c, "command", "poll")
  /\ SMBCMD' = [SMBCMD EXCEPT ![i] = op[c].target[2]]
  /\ \/ trans' = [trans EXCEPT ![i] = new]
     \/ trans[i] # None /\ UNCHANGED trans
  /\ SMBSTAT' = [SMBSTAT EXCEPT ![i] = Nothing]
  /\ UNCHANGED <<driver, suspended, mutex, polling, op, stat, SMBCNTL, late, overtaken>>

(* Mutant: it looks until the transaction has ended. *)
PollForever(c) ==
  LET i == op[c].chan IN
  /\ at[c] = "poll" /\ trans[i] = None
  /\ Goto(c, "poll", "check")
  /\ stat' = [stat EXCEPT ![c] = SMBSTAT[i]]
  /\ UNCHANGED <<driver, suspended, mutex, polling, op, registers, late, overtaken>>

(* imc_wait_for_transaction looks twenty times. *)
Poll(c) ==
  LET i == op[c].chan IN
  \/ /\ at[c] = "poll" /\ trans[i] = None
     /\ Goto(c, "poll", "check")
     /\ stat' = [stat EXCEPT ![c] = SMBSTAT[i]]
     /\ UNCHANGED <<driver, suspended, mutex, polling, op, registers, late, overtaken>>
  \/ /\ at[c] = "poll" /\ trans[i] # None
     /\ Goto(c, "poll", "failed")
     /\ late' = TRUE
     /\ UNCHANGED <<driver, suspended, mutex, polling, op, stat, registers, overtaken>>

(* Mutant: the registers are not compared. *)
CheckUnseen(c) ==
  /\ Goto(c, "check", IF stat[c].end = op[c].kind THEN "done" ELSE "failed")
  /\ UNCHANGED <<driver, suspended, mutex, polling, op, stat, registers, late, overtaken>>

(* The registers must still be as they were written, and the status that   *)
(* of an end without error.                                                *)
Check(c) ==
  LET o == op[c] IN
  /\ Goto(c, "check", IF /\ SMBCNTL[o.chan] = o.target[1] /\ SMBCMD[o.chan] = o.target[2]
                         /\ stat[c].end = o.kind
                      THEN "done" ELSE "failed")
  /\ UNCHANGED <<driver, suspended, mutex, polling, op, stat, registers, late, overtaken>>

(* Mutant: a transfer that failed leaves the polling off. *)
ReleaseQuietly(c) ==
  /\ at[c] \in {"done", "failed"} /\ at' = [at EXCEPT ![c] = "idle"]
  /\ op' = [op EXCEPT ![c] = None] /\ stat' = [stat EXCEPT ![c] = Nothing]
  /\ polling' = (polling \/ (cltt /\ at[c] = "done"))
  /\ mutex' = NoCaller
  /\ UNCHANGED <<driver, suspended, registers, late, overtaken>>

Release(c) ==
  /\ at[c] \in {"done", "failed"} /\ at' = [at EXCEPT ![c] = "idle"]
  /\ op' = [op EXCEPT ![c] = None] /\ stat' = [stat EXCEPT ![c] = Nothing]
  /\ polling' = (polling \/ cltt)
  /\ mutex' = NoCaller
  /\ UNCHANGED <<driver, suspended, registers, late, overtaken>>

-----------------------------------------------------------------------------
(* The controller and the firmware.                                        *)

(* A transaction ends, with an error or without; a write that is disabled  *)
(* has neither.                                                            *)
Complete(i) ==
  LET t == trans[i] IN
  /\ t # None /\ trans' = [trans EXCEPT ![i] = None]
  /\ \/ SMBSTAT' = [SMBSTAT EXCEPT ![i] = Result("error", t.target)]
     \/ /\ t.kind = "read" \/ can_write[i]
        /\ SMBSTAT' = [SMBSTAT EXCEPT ![i] = Result(t.kind, t.target)]
     \/ t.kind = "write" /\ ~can_write[i] /\ UNCHANGED SMBSTAT
  /\ UNCHANGED <<driver, suspended, mutex, polling, process, SMBCNTL, SMBCMD, late, overtaken>>

(* A poll of the hardware's own, which an error keeps off until software   *)
(* has had a success, or the BIOS during a suspend, uses the registers for *)
(* a read of another target.                                               *)
Intrude(i) ==
  /\ (polling /\ SMBSTAT[i].end # "error") \/ suspended
  /\ SMBCNTL' = [SMBCNTL EXCEPT ![i] = 0] /\ SMBCMD' = [SMBCMD EXCEPT ![i] = 0]
  /\ SMBSTAT' = [SMBSTAT EXCEPT ![i] = Result("read", <<0, 0>>)]
  /\ trans' = [trans EXCEPT ![i] = None]
  /\ UNCHANGED <<driver, suspended, mutex, polling, process, late, overtaken>>

Step(c) ==
  \/ Claim(c) \/ WriteAddress(c) \/ WriteCommand(c) \/ Poll(c) \/ Check(c) \/ Release(c)

Next ==
  \/ Probe \/ AddAdapter \/ Remove \/ Gone \/ Suspend \/ Resume
  \/ \E i \in Chan : DelAdapter(i) \/ Complete(i) \/ Intrude(i)
  \/ \E c \in Caller : Step(c) \/ \E o \in Transfer : Start(c, o)

Spec == Init /\ [][Next]_vars

-----------------------------------------------------------------------------
(* Properties.                                                             *)

TypeOK ==
  /\ phase \in {"absent", "probing", "bound", "failing", "removing"} /\ adapters \subseteq Chan
  /\ suspended \in BOOLEAN /\ cltt \in BOOLEAN /\ polling \in BOOLEAN
  /\ mutex \in Caller \cup {NoCaller}
  /\ op \in [Caller -> Transfer \cup {None}]
  /\ at \in [Caller -> {"idle", "claim", "address", "command", "poll", "check", "done", "failed"}]
  /\ \A c \in Caller : Inside(c) => op[c] # None /\ op[c].chan \in adapters

(* A transfer that reports success has read or written its own target,     *)
(* although the polls of the hardware and, in a suspend, the BIOS use the  *)
(* same registers; as long as no transaction had to be given up.           *)
SuccessIsOwn ==
  ~late => \A c \in Caller : at[c] = "done" =>
    stat[c].target = op[c].target

(* No write is ever under way to a target but the one that the process     *)
(* which waits for it asked for, whatever the polls leave in the address   *)
(* register, as long as no transaction was given up and no suspend met a   *)
(* transfer.                                                               *)
WritesOnTarget ==
  ~late /\ ~overtaken => \A i \in Chan : trans[i].kind = "write" =>
    \E c \in Caller : op[c] = [chan |-> i, target |-> trans[i].target, kind |-> "write"]

(* While nobody has the lock the polling is as the BIOS chose, whatever    *)
(* way the last transfer ended and however often the driver was loaded and *)
(* took the interval it found for the BIOS' choice: without the polls the  *)
(* memory would not be throttled.                                          *)
PollingKept == mutex = NoCaller => polling = chosen
=============================================================================
