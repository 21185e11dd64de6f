----------------------------- MODULE ImcProofs -----------------------------
(***************************************************************************)
(* Proofs about Imc for any number of processes, any targets and whether   *)
(* or not writes are disabled.                                             *)
(***************************************************************************)
EXTENDS Imc, TLAPS

Status == [end : {"none", "read", "write", "error"}, target : Nat \X Nat]
Transaction == [kind : {"read", "write"}, target : Nat \X Nat]

Typed ==
  /\ TypeOK
  /\ chosen \in BOOLEAN /\ late \in BOOLEAN /\ overtaken \in BOOLEAN
  /\ stat \in [Caller -> Status]
  /\ SMBCNTL \in [Chan -> Nat] /\ SMBCMD \in [Chan -> Nat]
  /\ SMBSTAT \in [Chan -> Status]
  /\ trans \in [Chan -> Transaction \cup {None}]

(* The lock is with the one process that is past claiming. *)
Past(c) == at[c] \notin {"idle", "claim"}
Locked == \A c \in Caller : Past(c) <=> mutex = c

(* The driver remembers the BIOS' choice while it is there, and the        *)
(* polling is off while the lock is held.                                  *)
Polls ==
  /\ phase = "absent" => adapters = {}
  /\ cltt <=> (phase # "absent" /\ chosen)
  /\ IF mutex = NoCaller THEN polling = chosen ELSE ~polling

Kept == Typed /\ Locked /\ Polls

-----------------------------------------------------------------------------
(* Types. *)

LEMMA TransferTyped ==
  ASSUME ConstantsOK
  PROVE  /\ \A o \in Transfer : /\ o.chan \in Chan /\ o.kind \in {"read", "write"}
                                /\ o.target \in Nat \X Nat /\ o # None
         /\ \A t \in Transaction : t.target \in Nat \X Nat /\ t.kind \in {"read", "write"} /\ t # None
  BY DEF Transfer, Transaction, ConstantsOK, None

LEMMA OpTyped ==
  ASSUME ConstantsOK, Typed, NEW c \in Caller, at[c] # "idle"
  PROVE  /\ op[c] \in Transfer /\ op[c].chan \in adapters
         /\ op[c].chan \in Chan /\ op[c].kind \in {"read", "write"} /\ op[c].target \in Nat \X Nat
         /\ op[c].target[1] \in Nat /\ op[c].target[2] \in Nat
  BY TransferTyped DEF Typed, TypeOK, Inside

LEMMA TypedInit == Init => Typed
<1> SUFFICES ASSUME Init PROVE Typed
  OBVIOUS
<1>1. Nothing \in Status
  BY DEF Nothing, Result, Status
<1> QED BY <1>1 DEF Init, Typed, TypeOK, Inside

LEMMA DriverTyped ==
  ASSUME Typed, Probe \/ AddAdapter \/ Remove \/ Gone \/ Suspend \/ Resume
  PROVE  Typed'
<1> USE DEF Typed, TypeOK, Inside, process, registers, driver
<1>1. CASE Probe BY <1>1 DEF Probe
<1>2. CASE AddAdapter
  <2>1. /\ phase' \in {"probing", "bound", "failing"}
        /\ adapters \subseteq adapters' /\ adapters' \subseteq adapters \cup {0, 1}
    BY <1>2 DEF AddAdapter
  <2>2. UNCHANGED <<cltt, chosen, suspended, mutex, polling, process, registers, late, overtaken>>
    BY <1>2 DEF AddAdapter
  <2>3. adapters' \subseteq Chan
    BY <2>1 DEF Chan
  <2> QED BY <2>1, <2>2, <2>3
<1>3. CASE Remove BY <1>3 DEF Remove
<1>4. CASE Gone BY <1>4 DEF Gone
<1>5. CASE Suspend BY <1>5 DEF Suspend
<1>6. CASE Resume BY <1>6 DEF Resume
<1> QED BY <1>1, <1>2, <1>3, <1>4, <1>5, <1>6

LEMMA HardwareTyped ==
  ASSUME ConstantsOK, Typed, NEW i \in Chan, DelAdapter(i) \/ Complete(i) \/ Intrude(i)
  PROVE  Typed'
<1> USE DEF Typed, TypeOK, Inside, process, registers, driver
<1>1. CASE DelAdapter(i) BY <1>1 DEF DelAdapter, Inside
<1>2. CASE Complete(i)
  <2>1. trans[i] \in Transaction
    BY <1>2 DEF Complete
  <2>2. SMBSTAT' \in [Chan -> Status]
    BY <1>2, <2>1, TransferTyped DEF Complete, Status, Result
  <2> QED BY <1>2, <2>2 DEF Complete
<1>3. CASE Intrude(i)
  <2>1. Result("read", <<0, 0>>) \in Status
    BY DEF Result, Status
  <2> QED BY <1>3, <2>1 DEF Intrude
<1> QED BY <1>1, <1>2, <1>3

LEMMA CallerTyped ==
  ASSUME ConstantsOK, Typed, NEW c \in Caller,
         Step(c) \/ \E o \in Transfer : Start(c, o)
  PROVE  Typed'
<1>1. CASE \E o \in Transfer : Start(c, o)
  BY <1>1, TransferTyped DEF Start, Goto, Typed, TypeOK, Inside, process, registers, driver
<1> SUFFICES ASSUME Step(c) PROVE Typed'
  BY <1>1
<1>a. at[c] # "idle"
  BY DEF Step, Claim, WriteAddress, WriteCommand, Poll, Check, Release, Goto
<1>b. /\ op[c] \in Transfer /\ op[c].chan \in Chan
      /\ op[c].target[1] \in Nat /\ op[c].target[2] \in Nat /\ op[c].kind \in {"read", "write"}
  BY <1>a, OpTyped
<1> USE DEF Typed, TypeOK, Inside, process, registers, driver, Goto
<1>2. CASE Claim(c) BY <1>2 DEF Claim
<1>3. CASE WriteAddress(c) BY <1>3, <1>b DEF WriteAddress
<1>4. CASE WriteCommand(c)
  <2>1. /\ SMBCMD' \in [Chan -> Nat] /\ SMBSTAT' \in [Chan -> Status]
        /\ trans' \in [Chan -> Transaction \cup {None}]
    BY <1>4, <1>b DEF WriteCommand, Status, Nothing, Result, Transaction
  <2> QED BY <1>4, <2>1 DEF WriteCommand
<1>5. CASE Poll(c) BY <1>5, <1>b DEF Poll
<1>6. CASE Check(c) BY <1>6 DEF Check
<1>7. CASE Release(c)
  BY <1>7 DEF Release, Nothing, Result, Status
<1> QED BY <1>2, <1>3, <1>4, <1>5, <1>6, <1>7 DEF Step

LEMMA TypedStep ==
  ASSUME ConstantsOK
  PROVE  Typed /\ [Next]_vars => Typed'
<1> SUFFICES ASSUME Typed, [Next]_vars PROVE Typed'
  OBVIOUS
<1>1. CASE UNCHANGED vars
  BY <1>1 DEF vars, process, registers, driver, Typed, TypeOK, Inside
<1> QED BY <1>1, DriverTyped, HardwareTyped, CallerTyped DEF Next

(* Every state of the driver is well typed; a process in a transfer has an *)
(* adapter until it is done, also while the driver is removed.             *)
THEOREM TypeCorrect ==
  ASSUME ConstantsOK
  PROVE  Spec => []TypeOK
<1>1. Typed => TypeOK
  BY DEF Typed
<1> QED BY TypedInit, TypedStep, <1>1, PTL DEF Spec

-----------------------------------------------------------------------------
(* The lock and the polling.                                               *)

(* Without a lock there is no transfer past claiming, without an adapter   *)
(* none at all.                                                            *)
LEMMA FreeWhenAbsent ==
  ASSUME ConstantsOK, Kept, phase = "absent"
  PROVE  mutex = NoCaller /\ polling = chosen
<1>1. \A c \in Caller : at[c] = "idle"
  BY DEF Kept, Polls, Typed, TypeOK, Inside
<1>2. mutex \notin Caller
  BY <1>1 DEF Kept, Locked, Past
<1> QED BY <1>2 DEF Kept, Typed, TypeOK, Polls

LEMMA KeptInit ==
  ASSUME ConstantsOK
  PROVE  Init => Kept
<1>1. Init => Locked /\ Polls
  BY DEF Init, Locked, Past, Polls, ConstantsOK
<1> QED BY <1>1, TypedInit DEF Kept

LEMMA LockedStep ==
  ASSUME ConstantsOK, Kept, [Next]_vars
  PROVE  Locked'
<1> USE DEF Kept, Locked, Past, Goto, process, registers, driver
<1>0. mutex \in Caller \cup {NoCaller} /\ NoCaller \notin Caller
  BY DEF Typed, TypeOK, ConstantsOK
<1>1. ASSUME UNCHANGED <<mutex, at>> PROVE Locked'
  BY <1>1
<1>2. CASE UNCHANGED vars
  BY <1>1, <1>2 DEF vars
<1>3. CASE Probe \/ AddAdapter \/ Remove \/ Gone \/ Suspend \/ Resume
  BY <1>1, <1>3 DEF Probe, AddAdapter, Remove, Gone, Suspend, Resume
<1>4. ASSUME NEW i \in Chan, DelAdapter(i) \/ Complete(i) \/ Intrude(i) PROVE Locked'
  BY <1>1, <1>4 DEF DelAdapter, Complete, Intrude
<1>5. ASSUME NEW c \in Caller, NEW o \in Transfer, Start(c, o) PROVE Locked'
  BY <1>5 DEF Start, Typed, TypeOK
<1>6. ASSUME NEW c \in Caller, Claim(c) PROVE Locked'
  BY <1>0, <1>6 DEF Claim, Typed, TypeOK
<1>7. ASSUME NEW c \in Caller, WriteAddress(c) \/ WriteCommand(c) PROVE Locked'
  BY <1>7 DEF WriteAddress, WriteCommand, Typed, TypeOK
<1>8. ASSUME NEW c \in Caller, Poll(c) \/ Check(c) PROVE Locked'
  BY <1>8 DEF Poll, Check, Typed, TypeOK
<1>9. ASSUME NEW c \in Caller, Release(c) PROVE Locked'
  BY <1>0, <1>9 DEF Release, Typed, TypeOK
<1> QED BY <1>2, <1>3, <1>4, <1>5, <1>6, <1>7, <1>8, <1>9 DEF Next, Step

LEMMA PollsStep ==
  ASSUME ConstantsOK, Kept, [Next]_vars
  PROVE  Polls'
<1> USE DEF Kept, Polls, Goto, process, registers, driver
<1>0. /\ mutex \in Caller \cup {NoCaller} /\ NoCaller \notin Caller
      /\ polling \in BOOLEAN /\ chosen \in BOOLEAN /\ cltt \in BOOLEAN
  BY DEF Typed, TypeOK, ConstantsOK
<1>1. ASSUME UNCHANGED <<phase, adapters, cltt, chosen, mutex, polling>> PROVE Polls'
  BY <1>1
<1>2. CASE UNCHANGED vars
  BY <1>1, <1>2 DEF vars
<1>3. CASE Probe
  BY <1>0, <1>3, FreeWhenAbsent DEF Probe
<1>4. CASE AddAdapter
  BY <1>4 DEF AddAdapter
<1>5. CASE Remove
  BY <1>5 DEF Remove
<1>6. CASE Gone
  <2>1. \A c \in Caller : at[c] = "idle"
    BY <1>6 DEF Gone, Typed, TypeOK, Inside
  <2>2. mutex = NoCaller
    BY <1>0, <2>1 DEF Locked, Past
  <2> QED BY <1>0, <1>6, <2>2 DEF Gone
<1>7. CASE Suspend \/ Resume
  BY <1>1, <1>7 DEF Suspend, Resume
<1>8. ASSUME NEW i \in Chan, DelAdapter(i) PROVE Polls'
  BY <1>8 DEF DelAdapter
<1>9. ASSUME NEW i \in Chan, Complete(i) \/ Intrude(i) PROVE Polls'
  BY <1>1, <1>9 DEF Complete, Intrude
<1>10. ASSUME NEW c \in Caller, NEW o \in Transfer, Start(c, o) PROVE Polls'
  BY <1>1, <1>10 DEF Start
<1>11. ASSUME NEW c \in Caller, Claim(c) \/ Release(c) PROVE Polls'
  <2>1. at[c] # "idle"
    BY <1>11 DEF Claim, Release
  <2>2. phase # "absent"
    BY <2>1, OpTyped
  <2>3. CASE Claim(c) BY <1>0, <2>2, <2>3 DEF Claim
  <2>4. CASE Release(c)
    <3>1. mutex = c
      BY <2>4 DEF Release, Locked, Past
    <3> QED BY <1>0, <2>2, <2>4, <3>1 DEF Release
  <2> QED BY <1>11, <2>3, <2>4
<1>12. ASSUME NEW c \in Caller, WriteAddress(c) \/ WriteCommand(c) \/ Poll(c) \/ Check(c) PROVE Polls'
  BY <1>1, <1>12 DEF WriteAddress, WriteCommand, Poll, Check
<1> QED BY <1>2, <1>3, <1>4, <1>5, <1>6, <1>7, <1>8, <1>9, <1>10, <1>11, <1>12 DEF Next, Step

LEMMA KeptStep ==
  ASSUME ConstantsOK
  PROVE  Kept /\ [Next]_vars => Kept'
  BY TypedStep, LockedStep, PollsStep DEF Kept

(* While nobody has the lock the polling is as the BIOS chose, for any     *)
(* number of loads, failed set-ups and removals.                           *)
THEOREM PollingStays ==
  ASSUME ConstantsOK
  PROVE  Spec => []PollingKept
<1>1. Kept => PollingKept
  BY DEF Kept, Polls, PollingKept
<1> QED BY KeptInit, KeptStep, <1>1, PTL DEF Spec

-----------------------------------------------------------------------------
(* What is in the registers while a transfer waits, as long as no          *)
(* transaction was given up: its own target, or, where the hardware or the *)
(* BIOS came in between, zeros in one half or in both.                     *)

Registers(i) == <<SMBCNTL[i], SMBCMD[i]>>
Near(o, target) == target[1] \in {o.target[1], 0} /\ target[2] \in {o.target[2], 0}

Awaited ==
  \A i \in Chan : trans[i] # None => \E c \in Caller : at[c] = "poll" /\ op[c].chan = i

Follows(c) ==
  LET i == op[c].chan IN
  /\ at[c] = "command" => SMBCNTL[i] \in {op[c].target[1], 0}
  /\ at[c] = "poll" =>
       /\ trans[i] # None => trans[i].target = Registers(i) /\ Near(op[c], trans[i].target)
       /\ SMBSTAT[i].end \in {"read", "write"} =>
            SMBSTAT[i].target = Registers(i) /\ Near(op[c], SMBSTAT[i].target)
  /\ at[c] = "check" /\ stat[c].end \in {"read", "write"} =>
       /\ stat[c].target = Registers(i) \/ Registers(i) = <<0, 0>>
       /\ Near(op[c], stat[c].target)
  /\ at[c] = "done" => stat[c].target = op[c].target

Followed == ~late => Awaited /\ \A c \in Caller : Follows(c)

(* As long as no suspend met a transfer either, nothing came in between    *)
(* the two writes that start a transaction.                                *)
Undisturbed ==
  ~late /\ ~overtaken =>
    \A c \in Caller :
      LET i == op[c].chan IN
      /\ at[c] # "idle" => ~suspended
      /\ at[c] = "command" => SMBCNTL[i] = op[c].target[1]
      /\ at[c] = "poll" /\ trans[i] # None =>
           trans[i] = [kind |-> op[c].kind, target |-> op[c].target]

(* A process is past claiming: no other one is.                            *)
LEMMA Sole ==
  ASSUME Kept, NEW c \in Caller, Past(c), NEW d \in Caller, d # c
  PROVE  at[d] \in {"idle", "claim"}
  BY DEF Kept, Locked, Past

LEMMA FollowedInit == Init => Followed /\ Undisturbed
  BY DEF Init, Followed, Awaited, Follows, Undisturbed

(* The driver's other handlers leave the transfers alone.                  *)
LEMMA FollowedDriver ==
  ASSUME Kept, Followed, Undisturbed,
         \/ Probe \/ AddAdapter \/ Remove \/ Gone \/ Suspend \/ Resume \/ UNCHANGED vars
         \/ \E i \in Chan : DelAdapter(i)
  PROVE  Followed' /\ Undisturbed'
<1> USE DEF Inside, Kept, Typed, TypeOK, driver, process, registers
<1>a. UNCHANGED <<op, at, stat, SMBCNTL, SMBCMD, SMBSTAT, trans, late>>
  BY DEF Probe, AddAdapter, Remove, Gone, Suspend, Resume, DelAdapter, vars
<1>b. ASSUME ~overtaken', NEW c \in Caller, at[c] # "idle"
      PROVE  ~overtaken /\ (suspended' => suspended)
  <2>1. CASE Suspend
    BY <1>b, <2>1 DEF Suspend
  <2>2. CASE Gone \/ Resume
    BY <1>b, <2>2 DEF Gone, Resume
  <2>3. CASE \/ Probe \/ AddAdapter \/ Remove \/ UNCHANGED vars
             \/ \E i \in Chan : DelAdapter(i)
    BY <1>b, <2>3 DEF Probe, AddAdapter, Remove, DelAdapter, vars
  <2> QED BY <2>1, <2>2, <2>3
<1>c. (\A c \in Caller : at[c] = "idle") => Undisturbed'
  BY <1>a DEF Undisturbed
<1>1. /\ UNCHANGED <<op, at, stat, SMBCNTL, SMBCMD, SMBSTAT, trans, late>>
      /\ (~overtaken' /\ \E c \in Caller : at[c] # "idle") => ~overtaken /\ (suspended' => suspended)
  BY <1>a, <1>b
<1>2. Followed'
  BY <1>1 DEF Followed, Awaited, Follows, Registers, Near
<1>3. Undisturbed'
  BY <1>1, <1>c DEF Undisturbed
<1> QED BY <1>2, <1>3

LEMMA FollowedComplete ==
  ASSUME ConstantsOK, Kept, Followed, Undisturbed, NEW i \in Chan, Complete(i)
  PROVE  Followed' /\ Undisturbed'
<1>1. /\ UNCHANGED <<op, at, stat, SMBCNTL, SMBCMD, late, overtaken, suspended>>
      /\ trans[i] # None /\ trans' = [trans EXCEPT ![i] = None]
      /\ \A j \in Chan : j # i => SMBSTAT'[j] = SMBSTAT[j]
      /\ SMBSTAT'[i] = SMBSTAT[i] \/ SMBSTAT'[i].target = trans[i].target
      /\ trans \in [Chan -> Transaction \cup {None}]
  BY DEF Complete, process, Result, Kept, Typed
<1>2. ASSUME NEW c \in Caller, at[c] # "idle" PROVE op[c].chan \in Chan
  BY <1>2, OpTyped DEF Kept
<1>3. Awaited => Awaited'
  BY <1>1 DEF Awaited
<1>4. ASSUME NEW c \in Caller, Follows(c) PROVE Follows(c)'
  <2>0. CASE at[c] # "poll"
    BY <1>1, <1>4, <2>0 DEF Follows, Registers, Near
  <2>1. CASE op[c].chan # i /\ at[c] = "poll"
    <3>1. op[c].chan \in Chan
      BY <1>2, <2>1
    <3>2. trans'[op[c].chan] = trans[op[c].chan] /\ SMBSTAT'[op[c].chan] = SMBSTAT[op[c].chan]
      BY <1>1, <2>1, <3>1
    <3> QED BY <1>1, <1>4, <2>1, <3>2 DEF Follows, Registers, Near
  <2>2. CASE op[c].chan = i /\ at[c] = "poll"
    <3>1. trans'[i] = None /\ Registers(i)' = Registers(i)
      BY <1>1 DEF Registers
    <3>2. SMBSTAT'[i] = SMBSTAT[i] \/ SMBSTAT'[i].target = trans[i].target
      BY <1>1
    <3> QED BY <1>1, <1>4, <2>2, <3>1, <3>2 DEF Follows, Near
  <2> QED BY <2>0, <2>1, <2>2
<1>5. Followed'
  BY <1>1, <1>3, <1>4 DEF Followed
<1>6. Undisturbed'
  BY <1>1, <1>2 DEF Undisturbed
<1> QED BY <1>5, <1>6

LEMMA FollowedIntrude ==
  ASSUME ConstantsOK, Kept, Followed, Undisturbed, NEW i \in Chan, Intrude(i)
  PROVE  Followed' /\ Undisturbed'
<1>1. /\ UNCHANGED <<op, at, stat, late, overtaken, suspended>>
      /\ trans' = [trans EXCEPT ![i] = None]
      /\ SMBCNTL' = [SMBCNTL EXCEPT ![i] = 0] /\ SMBCMD' = [SMBCMD EXCEPT ![i] = 0]
      /\ SMBSTAT' = [SMBSTAT EXCEPT ![i] = [end |-> "read", target |-> <<0, 0>>]]
      /\ polling \/ suspended
      /\ trans \in [Chan -> Transaction \cup {None}]
      /\ SMBCNTL \in [Chan -> Nat] /\ SMBCMD \in [Chan -> Nat] /\ SMBSTAT \in [Chan -> Status]
  BY DEF Intrude, process, Result, Kept, Typed
<1>2. ASSUME NEW c \in Caller, at[c] # "idle" PROVE op[c].chan \in Chan
  BY <1>2, OpTyped DEF Kept
<1>3. Awaited => Awaited'
  BY <1>1 DEF Awaited
<1>4. ASSUME NEW c \in Caller, Follows(c) PROVE Follows(c)'
  <2>1. CASE op[c].chan # i
    BY <1>1, <1>2, <1>4, <2>1 DEF Follows, Registers, Near
  <2>2. CASE op[c].chan = i
    <3>1. /\ SMBCNTL'[i] = 0 /\ Registers(i)' = <<0, 0>> /\ trans'[i] = None
          /\ SMBSTAT'[i].target = <<0, 0>>
      BY <1>1 DEF Registers
    <3> QED BY <1>1, <1>4, <2>2, <3>1 DEF Follows, Near
  <2> QED BY <2>1, <2>2
<1>5. Followed'
  BY <1>1, <1>3, <1>4 DEF Followed
<1>6. ASSUME NEW c \in Caller, at[c] \in {"command", "poll"} PROVE ~polling
  BY <1>6 DEF Kept, Locked, Past, Polls, ConstantsOK
<1>7. Undisturbed'
  BY <1>1, <1>2, <1>6 DEF Undisturbed
<1> QED BY <1>5, <1>7

(* A step of a process before it touches the registers. *)
LEMMA FollowedEarly ==
  ASSUME ConstantsOK, Kept, Followed, Undisturbed, NEW c \in Caller,
         Claim(c) \/ \E o \in Transfer : Start(c, o)
  PROVE  Followed' /\ Undisturbed'
<1>1. /\ UNCHANGED <<stat, SMBCNTL, SMBCMD, SMBSTAT, trans, late, overtaken, suspended>>
      /\ at[c] \in {"idle", "claim"} /\ at'[c] \in {"claim", "address"}
      /\ \A d \in Caller : d # c => at'[d] = at[d] /\ op'[d] = op[d]
      /\ at[c] = "idle" => ~suspended
  BY DEF Claim, Start, Goto, registers, Kept, Typed, TypeOK
<1>a. Awaited => Awaited'
  BY <1>1 DEF Awaited
<1>b. ASSUME NEW d \in Caller, Follows(d) PROVE Follows(d)'
  BY <1>1, <1>b DEF Follows, Registers, Near
<1>2. Followed'
  BY <1>1, <1>a, <1>b DEF Followed
<1>3. Undisturbed'
  BY <1>1 DEF Undisturbed
<1> QED BY <1>2, <1>3

LEMMA FollowedAddress ==
  ASSUME ConstantsOK, Kept, Followed, Undisturbed, NEW c \in Caller, WriteAddress(c)
  PROVE  Followed' /\ Undisturbed'
<1>0. at[c] = "address" /\ op[c].chan \in Chan
  BY OpTyped DEF WriteAddress, Goto, Kept
<1>1. /\ UNCHANGED <<op, stat, SMBCMD, SMBSTAT, trans, late, overtaken, suspended>>
      /\ at'[c] = "command" /\ SMBCNTL'[op[c].chan] = op[c].target[1]
      /\ \A d \in Caller : d # c => at'[d] = at[d]
  BY <1>0 DEF WriteAddress, Goto, Kept, Typed, TypeOK
<1>2. \A d \in Caller : d # c => at[d] \in {"idle", "claim"}
  BY <1>0, Sole DEF Past
<1>3. Followed'
  BY <1>0, <1>1, <1>2 DEF Followed, Awaited, Follows
<1>4. Undisturbed'
  BY <1>0, <1>1, <1>2 DEF Undisturbed
<1> QED BY <1>3, <1>4

LEMMA FollowedCommand ==
  ASSUME ConstantsOK, Kept, Followed, Undisturbed, NEW c \in Caller, WriteCommand(c)
  PROVE  Followed' /\ Undisturbed'
<1> DEFINE i == op[c].chan
           new == [kind |-> op[c].kind, target |-> <<SMBCNTL[i], op[c].target[2]>>]
<1>0. at[c] = "command" /\ i \in Chan
  BY OpTyped DEF WriteCommand, Goto, Kept
<1>1. /\ UNCHANGED <<op, stat, SMBCNTL, late, overtaken, suspended>>
      /\ at'[c] = "poll" /\ SMBCMD'[i] = op[c].target[2]
      /\ SMBSTAT'[i].end = "none"
      /\ trans[i] = None => trans'[i] = new
      /\ \A j \in Chan : j # i => trans'[j] = trans[j]
      /\ \A d \in Caller : d # c => at'[d] = at[d]
  BY <1>0 DEF WriteCommand, Goto, Nothing, Result, Kept, Typed, TypeOK
<1>2. \A d \in Caller : d # c => at[d] \in {"idle", "claim"}
  BY <1>0, Sole DEF Past
<1>3. ASSUME ~late PROVE \A j \in Chan : trans[j] = None
  BY <1>0, <1>2, <1>3 DEF Followed, Awaited
<1>4. ASSUME ~late PROVE Awaited'
  BY <1>0, <1>1, <1>3, <1>4 DEF Awaited
<1>5. ASSUME ~late PROVE Follows(c)'
  <2>1. trans'[i] = new /\ new.target = <<SMBCNTL[i], op[c].target[2]>>
    BY <1>0, <1>1, <1>3, <1>5
  <2>2. Registers(i)' = <<SMBCNTL[i], op[c].target[2]>>
    BY <1>1 DEF Registers
  <2>3. SMBCNTL[i] \in {op[c].target[1], 0}
    BY <1>0, <1>5 DEF Followed, Follows
  <2>4. Near(op[c], new.target)
    BY <2>1, <2>3 DEF Near
  <2> QED BY <1>1, <2>1, <2>2, <2>4 DEF Follows, Near
<1>6. Followed'
  BY <1>1, <1>2, <1>4, <1>5 DEF Followed, Follows
<1>7. ASSUME ~late', ~overtaken' PROVE trans'[i] = [kind |-> op[c].kind, target |-> op[c].target]
  <2>1. SMBCNTL[i] = op[c].target[1] /\ trans'[i] = new
    BY <1>0, <1>1, <1>3, <1>7 DEF Undisturbed
  <2>2. op[c].target = <<op[c].target[1], op[c].target[2]>>
    BY <1>0, OpTyped DEF Kept
  <2> QED BY <2>1, <2>2
<1>8. Undisturbed'
  BY <1>0, <1>1, <1>2, <1>7 DEF Undisturbed
<1> QED BY <1>6, <1>8

LEMMA FollowedPoll ==
  ASSUME ConstantsOK, Kept, Followed, Undisturbed, NEW c \in Caller, Poll(c)
  PROVE  Followed' /\ Undisturbed'
<1> DEFINE i == op[c].chan
<1>0. at[c] = "poll" /\ i \in Chan
  BY OpTyped DEF Poll, Kept
<1>1. CASE trans[i] # None
  BY <1>0, <1>1 DEF Poll, Followed, Undisturbed
<1>2. CASE trans[i] = None
  <2>1. /\ UNCHANGED <<op, SMBCNTL, SMBCMD, SMBSTAT, trans, late, overtaken, suspended>>
        /\ at'[c] = "check" /\ stat'[c] = SMBSTAT[i]
        /\ \A d \in Caller : d # c => at'[d] = at[d] /\ stat'[d] = stat[d]
    BY <1>0, <1>2 DEF Poll, Goto, registers, Kept, Typed, TypeOK
  <2>2. \A d \in Caller : d # c => at[d] \in {"idle", "claim"}
    BY <1>0, Sole DEF Past
  <2>3. ASSUME ~late PROVE Awaited'
    BY <1>0, <1>2, <2>1, <2>2, <2>3 DEF Followed, Awaited
  <2>4. ASSUME ~late PROVE Follows(c)'
    BY <1>0, <2>1, <2>4 DEF Followed, Follows, Registers, Near
  <2>5. Followed'
    BY <2>1, <2>2, <2>3, <2>4 DEF Followed, Follows
  <2>6. Undisturbed'
    BY <1>0, <2>1, <2>2 DEF Undisturbed
  <2> QED BY <2>5, <2>6
<1> QED BY <1>1, <1>2

(* The comparison of the registers: it rejects what came in between, or    *)
(* the target is where the hardware and the BIOS leave the registers.      *)
LEMMA FollowedCheck ==
  ASSUME ConstantsOK, Kept, Followed, Undisturbed, NEW c \in Caller, Check(c)
  PROVE  Followed' /\ Undisturbed'
<1> DEFINE i == op[c].chan
<1>0. at[c] = "check" /\ i \in Chan
  BY OpTyped DEF Check, Goto, Kept
<1>1. /\ UNCHANGED <<op, stat, SMBCNTL, SMBCMD, SMBSTAT, trans, late, overtaken, suspended>>
      /\ at'[c] = "failed" \/ /\ at'[c] = "done"
                              /\ Registers(i) = <<op[c].target[1], op[c].target[2]>>
                              /\ stat[c].end = op[c].kind
      /\ \A d \in Caller : d # c => at'[d] = at[d]
  BY <1>0 DEF Check, Goto, registers, Registers, Kept, Typed, TypeOK
<1>2. \A d \in Caller : d # c => at[d] \in {"idle", "claim"}
  BY <1>0, Sole DEF Past
<1>3. /\ op[c].kind \in {"read", "write"}
      /\ op[c].target = <<op[c].target[1], op[c].target[2]>>
      /\ stat[c].target = <<stat[c].target[1], stat[c].target[2]>>
  <2>1. op[c].kind \in {"read", "write"} /\ op[c].target \in Nat \X Nat
    BY <1>0, OpTyped DEF Kept
  <2>2. stat[c].target \in Nat \X Nat
    BY DEF Kept, Typed, Status
  <2> QED BY <2>1, <2>2
<1>4. ASSUME ~late, at'[c] = "done" PROVE stat[c].target = op[c].target
  <2>1. /\ Registers(i) = op[c].target
        /\ stat[c].target = Registers(i) \/ Registers(i) = <<0, 0>>
        /\ Near(op[c], stat[c].target)
    BY <1>0, <1>1, <1>3, <1>4 DEF Followed, Follows
  <2> QED BY <1>3, <2>1 DEF Near
<1>5. Followed'
  BY <1>0, <1>1, <1>2, <1>4 DEF Followed, Awaited, Follows
<1>6. Undisturbed'
  BY <1>0, <1>1, <1>2 DEF Undisturbed
<1> QED BY <1>5, <1>6

LEMMA FollowedRelease ==
  ASSUME ConstantsOK, Kept, Followed, Undisturbed, NEW c \in Caller, Release(c)
  PROVE  Followed' /\ Undisturbed'
<1>1. /\ UNCHANGED <<SMBCNTL, SMBCMD, SMBSTAT, trans, late, overtaken, suspended>>
      /\ at[c] \in {"done", "failed"} /\ at'[c] = "idle"
      /\ \A d \in Caller : d # c => at'[d] = at[d] /\ op'[d] = op[d] /\ stat'[d] = stat[d]
  BY DEF Release, registers, Kept, Typed, TypeOK
<1>a. Awaited => Awaited'
  BY <1>1 DEF Awaited
<1>b. ASSUME NEW d \in Caller, Follows(d) PROVE Follows(d)'
  BY <1>1, <1>b DEF Follows, Registers, Near
<1>2. Followed'
  BY <1>1, <1>a, <1>b DEF Followed
<1>3. Undisturbed'
  BY <1>1 DEF Undisturbed
<1> QED BY <1>2, <1>3

Inv == Kept /\ Followed /\ Undisturbed

LEMMA InvStep ==
  ASSUME ConstantsOK
  PROVE  Inv /\ [Next]_vars => Inv'
<1> SUFFICES ASSUME Inv, [Next]_vars PROVE Followed' /\ Undisturbed'
  BY KeptStep DEF Inv
<1>1. CASE UNCHANGED vars
  BY <1>1, FollowedDriver DEF Inv
<1>2. CASE Probe \/ AddAdapter \/ Remove \/ Gone \/ Suspend \/ Resume
  BY <1>2, FollowedDriver DEF Inv
<1>3. ASSUME NEW i \in Chan, DelAdapter(i) \/ Complete(i) \/ Intrude(i)
      PROVE  Followed' /\ Undisturbed'
  BY <1>3, FollowedDriver, FollowedComplete, FollowedIntrude DEF Inv
<1>4. ASSUME NEW c \in Caller, Step(c) \/ \E o \in Transfer : Start(c, o)
      PROVE  Followed' /\ Undisturbed'
  BY <1>4, FollowedEarly, FollowedAddress, FollowedCommand, FollowedPoll, FollowedCheck,
     FollowedRelease DEF Step, Inv
<1> QED BY <1>1, <1>2, <1>3, <1>4 DEF Next

LEMMA InvAlways ==
  ASSUME ConstantsOK
  PROVE  Spec => []Inv
<1>1. Init => Inv
  BY KeptInit, FollowedInit DEF Inv
<1> QED BY <1>1, InvStep, PTL DEF Spec

(* A transfer that reports success has read or written its own target,     *)
(* although the polls of the hardware and, in a suspend, the BIOS use the  *)
(* same registers; as long as no transaction was given up.                 *)
THEOREM SuccessOwn ==
  ASSUME ConstantsOK
  PROVE  Spec => []SuccessIsOwn
<1>1. Inv => SuccessIsOwn
  BY DEF Inv, Followed, Follows, SuccessIsOwn
<1> QED BY InvAlways, <1>1, PTL

(* No write is under way to a target but the one that the process which    *)
(* waits for it asked for.                                                 *)
THEOREM WritesAsked ==
  ASSUME ConstantsOK
  PROVE  Spec => []WritesOnTarget
<1>1. Inv => WritesOnTarget
  <2> SUFFICES ASSUME Inv, ~late, ~overtaken, NEW i \in Chan, trans[i].kind = "write"
               PROVE  \E c \in Caller :
                        op[c] = [chan |-> i, target |-> trans[i].target, kind |-> "write"]
    BY DEF WritesOnTarget
  <2>1. trans[i] # None
    BY DEF None
  <2>2. PICK c \in Caller : at[c] = "poll" /\ op[c].chan = i
    BY <2>1 DEF Inv, Followed, Awaited
  <2>3. trans[i] = [kind |-> op[c].kind, target |-> op[c].target]
    BY <2>1, <2>2 DEF Inv, Undisturbed
  <2>4. op[c] \in Transfer
    BY <2>2, OpTyped DEF Inv, Kept
  <2>5. op[c] = [chan |-> i, target |-> op[c].target, kind |-> op[c].kind]
    BY <2>2, <2>4 DEF Transfer
  <2> QED BY <2>3, <2>5
<1> QED BY InvAlways, <1>1, PTL
=============================================================================
