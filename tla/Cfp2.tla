-------------------------------- MODULE Cfp2 --------------------------------
(***************************************************************************)
(* The CFP2-DCO driver: one character device and a group of sysfs files    *)
(* for each port. Files and ioctls read the registers of the plugged       *)
(* module over the MDIO bus, one register at a time; a module can be       *)
(* declared unplugged by a write to simulate_plug_out.                     *)
(***************************************************************************)
EXTENDS Integers, Sequences, FiniteSetsExt, Functions

CONSTANTS Caller,   \* the processes
          CFP2DCO_NUM,
          Register, \* Register[p][kind]: what the module in port p holds
          Kind,     \* the files that are read and the ioctls that are made
          Garbage   \* values of a local that was never written

Port == 1..CFP2DCO_NUM
Show == {"string", "oui", "version", "temp"}
Ioctl == {"CFP2DCO_READ", "CFP2DCO_WRITE"}
ASSUME KindAssumption == Kind \subseteq Show \cup Ioctl
Job == [port : Port, kind : Kind]

(* Registers of 16 bits; strings are kept one byte in a register. *)
Word == 0..65535
Octet == 0..255
ASSUME PortAssumption == CFP2DCO_NUM \in Nat \ {0}
ASSUME RegisterAssumption ==
  \A p \in Port :
    /\ Register[p]["string"] \in Seq(Octet) \ {<<>>}
    /\ Register[p]["oui"] \in Word \X Word \X Word
    /\ Register[p]["version"] \in Word \X Word
    /\ Register[p]["temp"] \in [1..1 -> Word]

VARIABLES phase, class, cdevs, devices, i, \* of the driver and its set-up
          simulate_plug_out,
          job, at, got,   \* a process: what it does, its step, its accesses
          file,           \* the port whose device node it has open, or 0
          disturbed,      \* plugging was simulated or the bus failed meanwhile
          late            \* who reached the bus since a port was unplugged

driver == <<phase, class, cdevs, devices, i>>
process == <<job, at, got>>
vars == <<driver, simulate_plug_out, process, file, disturbed, late>>

EFAULT == 14
None == [port |-> 0, kind |-> "none"]
Busy(c) == at[c] # "idle"
(* A file of port p's group is being read. *)
Shown(p) == \E c \in Caller : Busy(c) /\ job[c].port = p /\ job[c].kind \notin Ioctl

Init ==
  /\ phase = "absent" /\ class = FALSE /\ cdevs = {} /\ devices = {} /\ i = 0
  /\ simulate_plug_out = [p \in Port |-> FALSE]
  /\ job = [c \in Caller |-> None] /\ at = [c \in Caller |-> "idle"]
  /\ got = [c \in Caller |-> <<>>]
  /\ file = [c \in Caller |-> 0]
  /\ disturbed = [c \in Caller |-> FALSE] /\ late = {}

-----------------------------------------------------------------------------
(* Set-up, its failures, and removal.                                      *)

(* A class that a failed set-up left behind refuses every other one. *)
Load ==
  /\ phase = "absent"
  /\ IF class THEN UNCHANGED <<driver, simulate_plug_out>>
     ELSE /\ phase' = "cdev" /\ class' = TRUE /\ i' = 1
          /\ simulate_plug_out' = [p \in Port |-> FALSE]
          /\ UNCHANGED <<cdevs, devices>>
  /\ UNCHANGED <<process, file, disturbed, late>>

AddCdev ==
  /\ phase = "cdev"
  /\ \/ phase' = "device" /\ cdevs' = cdevs \cup {i} /\ UNCHANGED i
     \/ phase' = "failing" /\ i' = i - 1 /\ UNCHANGED cdevs
  /\ UNCHANGED <<class, devices, simulate_plug_out, process, file, disturbed, late>>

CreateDevice ==
  /\ phase = "device"
  /\ \/ /\ devices' = devices \cup {i} /\ UNCHANGED cdevs
        /\ phase' = IF i = CFP2DCO_NUM THEN "loaded" ELSE "cdev"
        /\ i' = IF i = CFP2DCO_NUM THEN i ELSE i + 1
     \/ phase' = "failing" /\ cdevs' = cdevs \ {i} /\ i' = i - 1 /\ UNCHANGED devices
  /\ UNCHANGED <<class, simulate_plug_out, process, file, disturbed, late>>

(* Mutant: the unwinding starts at the port before. *)
UnwindBefore ==
  /\ phase = "failing" /\ ~Shown(i)
  /\ IF i < 2 THEN phase' = "absent" /\ UNCHANGED <<cdevs, devices, i>>
     ELSE /\ devices' = devices \ {i} /\ cdevs' = cdevs \ {i} /\ i' = i - 1
          /\ UNCHANGED phase
  /\ UNCHANGED <<class, simulate_plug_out, process, file, disturbed, late>>

(* The removal of a device waits for the files of its group that are being *)
(* read. The removal of a node waits for nobody: who opened it keeps it    *)
(* open, and its ioctls go on. The class stays.                            *)
Unwind ==
  /\ phase = "failing" /\ ~Shown(i)
  /\ IF i = 0 THEN phase' = "absent" /\ UNCHANGED <<cdevs, devices, i>>
     ELSE /\ devices' = devices \ {i} /\ cdevs' = cdevs \ {i} /\ i' = i - 1
          /\ UNCHANGED phase
  /\ UNCHANGED <<class, simulate_plug_out, process, file, disturbed, late>>

(* Mutant: open nodes do not keep the module. *)
ExitAnyway ==
  /\ phase = "loaded" /\ phase' = "removing" /\ i' = 1
  /\ UNCHANGED <<class, cdevs, devices, simulate_plug_out, process, file, disturbed, late>>

(* An open node keeps the module. *)
Exit ==
  /\ phase = "loaded" /\ phase' = "removing" /\ i' = 1
  /\ \A c \in Caller : file[c] = 0
  /\ UNCHANGED <<class, cdevs, devices, simulate_plug_out, process, file, disturbed, late>>

RemovePort ==
  /\ phase = "removing" /\ ~Shown(i)
  /\ devices' = devices \ {i} /\ cdevs' = cdevs \ {i}
  /\ IF i = CFP2DCO_NUM THEN phase' = "absent" /\ class' = FALSE /\ i' = 0
     ELSE i' = i + 1 /\ UNCHANGED <<phase, class>>
  /\ UNCHANGED <<simulate_plug_out, process, file, disturbed, late>>

-----------------------------------------------------------------------------
(* Files and ioctls.                                                       *)

(* A port can be opened as soon as its node is there, while the ports      *)
(* behind it are still set up or a failure takes them down, but not when   *)
(* the module is on its way out.                                           *)
Open(c, p) ==
  /\ phase # "removing" /\ p \in cdevs /\ ~Busy(c) /\ file[c] = 0
  /\ file' = [file EXCEPT ![c] = p]
  /\ UNCHANGED <<driver, simulate_plug_out, process, disturbed, late>>

Close(c) ==
  /\ ~Busy(c) /\ file[c] # 0 /\ file' = [file EXCEPT ![c] = 0]
  /\ UNCHANGED <<driver, simulate_plug_out, process, disturbed, late>>

Start(c, j) ==
  /\ ~Busy(c)
  /\ IF j.kind \in Ioctl THEN file[c] = j.port ELSE j.port \in devices
  /\ job' = [job EXCEPT ![c] = j] /\ at' = [at EXCEPT ![c] = "check"]
  /\ disturbed' = [disturbed EXCEPT ![c] = simulate_plug_out[j.port]]
  /\ UNCHANGED <<driver, simulate_plug_out, got, file, late>>

(* The accesses of a handler: one for an ioctl. *)
Count(j) == IF j.kind \in Ioctl THEN 1 ELSE Len(Register[j.port][j.kind])
Add(c, outcome) ==
  /\ got' = [got EXCEPT ![c] = Append(@, outcome)]
  /\ at' = [at EXCEPT ![c] = IF Len(got[c]) + 1 = Count(job[c]) THEN "done" ELSE "check"]

(* Mutant: the check is made once for all the registers of a show. *)
CheckFirst(c) ==
  /\ at[c] = "check"
  /\ IF simulate_plug_out[job[c].port] /\ got[c] = <<>> THEN Add(c, "refused")
     ELSE at' = [at EXCEPT ![c] = "access"] /\ UNCHANGED got
  /\ UNCHANGED <<driver, simulate_plug_out, job, file, disturbed, late>>

(* simulate_plug_out is looked at before the lock of the bus is taken. *)
Check(c) ==
  /\ at[c] = "check"
  /\ IF simulate_plug_out[job[c].port] THEN Add(c, "refused")
     ELSE at' = [at EXCEPT ![c] = "access"] /\ UNCHANGED got
  /\ UNCHANGED <<driver, simulate_plug_out, job, file, disturbed, late>>

(* One access under the lock of the bus. *)
Access(c) ==
  /\ at[c] = "access"
  /\ \/ Add(c, "done") /\ UNCHANGED disturbed
     \/ Add(c, "failed") /\ disturbed' = [disturbed EXCEPT ![c] = TRUE]
  /\ late' = IF simulate_plug_out[job[c].port] THEN late \cup {<<c, job[c].port>>} ELSE late
  /\ UNCHANGED <<driver, simulate_plug_out, job, file>>

(* Mutant: the number of the port is taken for its address on the bus. *)
ValueNextPort(j, outcomes, n) ==
  IF outcomes[n] = "failed" THEN -1 ELSE Register[(j.port % CFP2DCO_NUM) + 1][j.kind][n]

(* What an access brought: a negative number when the bus failed. *)
Value(j, outcomes, n) ==
  IF outcomes[n] = "failed" THEN -1 ELSE Register[j.port][j.kind][n]
Byte(v, n) == IF v < 0 THEN 255 ELSE (v \div <<1, 256, 65536, 16777216>>[n + 1]) % 256

(* Mutant: a register that was not read does not take up its place. *)
BufferPacked(j, outcomes) ==
  LET read(k) == {n \in DOMAIN outcomes : /\ outcomes[n] # "refused"
                    /\ Cardinality({m \in 1..n : outcomes[m] # "refused"}) = k} IN
  [k \in 1..Len(outcomes) + 1 |->
     IF read(k) = {} THEN 0 ELSE Byte(Value(j, outcomes, Max(read(k))), 0)]

(* Each register is stored as four bytes, over three of the one before. *)
Buffer(j, outcomes) ==
  LET size == Len(outcomes)
      stored(k) == {n \in 1..size : n \in k - 3 .. k /\ outcomes[n] # "refused"} IN
  [k \in 1..size + 1 |->
     IF stored(k) = {} THEN 0 ELSE Byte(Value(j, outcomes, Max(stored(k))), k - Max(stored(k)))]

Blank == {0, 32, 160, 255} \cup 9..13
String(buf) ==
  LET ink == {k \in DOMAIN buf : buf[k] \notin Blank} IN
  IF ink = {} THEN <<>> ELSE Append(SubSeq(buf, 1, Max(ink)), 10)

(* The second and the third byte are the ones before when they were not    *)
(* read, the first is whatever the local held.                             *)
Oui(j, outcomes, data) ==
  LET read(n) == {m \in 1..n : outcomes[m] # "refused"}
      byte(n) == IF read(n) = {} THEN Byte(data, 0) ELSE Byte(Value(j, outcomes, Max(read(n))), 0) IN
  <<byte(1) * 65536 + byte(2) * 256 + byte(3)>>

Version(j, outcomes, data) ==
  [n \in 1..2 |-> IF outcomes[n] = "refused" THEN Byte(data[n], 0) ELSE Byte(Value(j, outcomes, n), 0)]

(* Division and remainder of C: -1 is shown as 0.-1. *)
Temp(j, outcomes) ==
  CASE outcomes[1] = "refused" -> <<0, 0>>
    [] outcomes[1] = "failed" -> <<0, -1>>
    [] OTHER -> <<Value(j, outcomes, 1) \div 256, Value(j, outcomes, 1) % 256>>

(* A read that failed on the bus is a success of the ioctl, a write is not. *)
Result(j, outcomes) ==
  IF outcomes[1] = "refused" \/ (j.kind = "CFP2DCO_WRITE" /\ outcomes[1] = "failed")
  THEN <<-EFAULT>> ELSE <<0>>

(* What a handler may answer. *)
Answers(j, outcomes) ==
  CASE j.kind = "string" -> {String(Buffer(j, outcomes))}
    [] j.kind = "oui" -> {Oui(j, outcomes, g) : g \in Garbage}
    [] j.kind = "version" -> {Version(j, outcomes, <<g, h>>) : g \in Garbage, h \in Garbage}
    [] j.kind = "temp" -> {Temp(j, outcomes)}
    [] OTHER -> {Result(j, outcomes)}

Return(c) ==
  /\ at[c] = "done" /\ at' = [at EXCEPT ![c] = "idle"]
  /\ job' = [job EXCEPT ![c] = None] /\ got' = [got EXCEPT ![c] = <<>>]
  /\ disturbed' = [disturbed EXCEPT ![c] = FALSE]
  /\ UNCHANGED <<driver, simulate_plug_out, file, late>>

simulate_plug_out_store(p, value) ==
  /\ p \in devices
  /\ simulate_plug_out' = [simulate_plug_out EXCEPT ![p] = value]
  /\ disturbed' = [c \in Caller |-> disturbed[c] \/ (value /\ job[c].port = p)]
  /\ late' = {x \in late : x[2] # p \/ (value /\ simulate_plug_out[p])}
  /\ UNCHANGED <<driver, process, file>>

(* A set-up that failed frees the module under the nodes that were opened  *)
(* meanwhile: what is done with them from then on is not modelled.         *)
Next ==
  \/ Load \/ AddCdev \/ CreateDevice \/ Unwind \/ Exit \/ RemovePort
  \/ \E p \in Port, value \in BOOLEAN : simulate_plug_out_store(p, value)
  \/ \E c \in Caller : phase # "absent" /\
       \/ Check(c) \/ Access(c) \/ Return(c) \/ Close(c)
       \/ \E p \in Port : Open(c, p)
       \/ \E j \in Job : Start(c, j)

Spec == Init /\ [][Next]_vars

-----------------------------------------------------------------------------
(* Properties.                                                             *)

(* Among the rest: a show that runs has its device and an ioctl its node;  *)
(* a module is never removed under an open node, and only a set-up that    *)
(* fails takes a node away from who has it open; a set-up that failed, at  *)
(* any port, leaves no device and no node behind.                          *)
TypeOK ==
  /\ phase \in {"absent", "cdev", "device", "loaded", "failing", "removing"}
  /\ class \in BOOLEAN /\ i \in 0..CFP2DCO_NUM
  /\ cdevs \subseteq Port /\ devices \subseteq cdevs
  /\ simulate_plug_out \in [Port -> BOOLEAN] /\ disturbed \in [Caller -> BOOLEAN]
  /\ job \in [Caller -> Job \cup {None}]
  /\ at \in [Caller -> {"idle", "check", "access", "done"}]
  /\ \A c \in Caller :
       /\ file[c] # 0 => file[c] \in cdevs \/ phase = "failing" \/ (phase = "absent" /\ class)
       /\ Busy(c) => IF job[c].kind \in Ioctl THEN file[c] = job[c].port ELSE job[c].port \in devices
       /\ Len(got[c]) <= Count(IF Busy(c) THEN job[c] ELSE [port |-> 1, kind |-> "string"])
  /\ phase = "absent" => cdevs = {} /\ devices = {}

(* A show that no simulated unplugging and no failure of the bus met       *)
(* answers what the module of its own port holds: a string without the     *)
(* blanks at its end, although the trimming starts one byte behind it.     *)
IsTrimmed(answered, text) ==
  LET n == Len(answered) - 1 IN
  IF answered = <<>> THEN \A m \in 1..Len(text) : text[m] \in Blank
  ELSE /\ SubSeq(answered, 1, n) = SubSeq(text, 1, n) /\ answered[n + 1] = 10
       /\ n \in 1..Len(text) /\ text[n] \notin Blank
       /\ \A m \in n + 1 .. Len(text) : text[m] \in Blank
UndisturbedAnswer ==
  \A c \in Caller : at[c] = "done" /\ ~disturbed[c] =>
    LET held == Register[job[c].port][job[c].kind] IN
    \A answer \in Answers(job[c], got[c]) :
      CASE job[c].kind = "string" -> IsTrimmed(answer, held)
        [] job[c].kind = "oui" ->
             answer = <<(held[1] % 256) * 65536 + (held[2] % 256) * 256 + (held[3] % 256)>>
        [] job[c].kind = "version" -> answer = <<held[1] % 256, held[2] % 256>>
        [] job[c].kind = "temp" -> answer[1] * 256 + answer[2] = held[1]
        [] OTHER -> answer = <<0>>

(* However a module is unplugged and plugged while its string is read, one *)
(* register at a time, each byte that is shown is its own at that place or *)
(* nothing, and none comes from behind the string.                         *)
OwnOrNothing ==
  \A c \in Caller : at[c] = "done" /\ job[c].kind = "string" /\ "failed" \notin Range(got[c]) =>
    LET held == Register[job[c].port]["string"] IN
    \A answer \in Answers(job[c], got[c]) :
      /\ Len(answer) <= Len(held) + 1
      /\ \A n \in 1..Len(answer) - 1 : answer[n] \in {0, held[n]}

(* simulate_plug_out is looked at outside the lock of the bus: a process   *)
(* that was past it reaches the bus once after the unplugging, and never   *)
(* again until the module is plugged.                                      *)
AtMostOneLate ==
  [][\A c \in Caller : Len(got'[c]) > Len(got[c]) /\ got'[c][Len(got'[c])] # "refused"
       /\ simulate_plug_out[job[c].port] => <<c, job[c].port>> \notin late]_vars
=============================================================================
