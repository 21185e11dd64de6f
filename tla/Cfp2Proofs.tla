----------------------------- MODULE Cfp2Proofs -----------------------------
(***************************************************************************)
(* Proofs about Cfp2 for any number of ports and processes, any contents   *)
(* of the registers and any locals that were never written.                *)
(*                                                                         *)
(* The set-up, its unwinding and the removal walk over the ports: which    *)
(* devices exist is a function of the phase and of the port at hand        *)
(* (SetUp).  A process in a handler has its device or its node open, and   *)
(* as many outcomes as it made accesses (Using).  What a handler answers   *)
(* then follows from its outcomes alone: that they are all "done" when     *)
(* nothing disturbed it (Calm), and, for a string, that the four bytes     *)
(* stored for each register leave one byte of it.                          *)
(***************************************************************************)
EXTENDS Cfp2, SequenceTheorems, WellFoundedInduction, TLAPS

Outcome == {"refused", "done", "failed"}

Typed ==
  /\ phase \in {"absent", "cdev", "device", "loaded", "failing", "removing"}
  /\ class \in BOOLEAN /\ (phase # "absent" => class) /\ i \in 0..CFP2DCO_NUM
  /\ simulate_plug_out \in [Port -> BOOLEAN] /\ disturbed \in [Caller -> BOOLEAN]
  /\ job \in [Caller -> Job \cup {None}]
  /\ at \in [Caller -> {"idle", "check", "access", "done"}]
  /\ got \in [Caller -> Seq(Outcome)]
  /\ file \in [Caller -> 0..CFP2DCO_NUM]

(* The ports whose files and devices exist, in each phase. *)
SetUp ==
  /\ phase = "absent" => cdevs = {} /\ devices = {}
  /\ phase = "cdev" => i \in Port /\ cdevs = 1..(i - 1) /\ devices = cdevs
  /\ phase = "device" => i \in Port /\ cdevs = 1..i /\ devices = 1..(i - 1)
  /\ phase = "failing" => cdevs = 1..i /\ devices = cdevs
  /\ phase = "loaded" => cdevs = Port /\ devices = Port
  /\ phase = "removing" => i \in Port /\ cdevs = i..CFP2DCO_NUM /\ devices = cdevs

(* An open node is there, unless a failed set-up took it away. *)
Node(c) ==
  /\ file[c] # 0 => file[c] \in cdevs \/ phase = "failing" \/ (phase = "absent" /\ class)
  /\ phase = "removing" => file[c] = 0

(* A handler needs its device, an ioctl its node. *)
Has(c) == IF job[c].kind \in Ioctl THEN file[c] = job[c].port ELSE job[c].port \in devices

(* What a process holds on to. *)
Using(c) ==
  /\ Node(c)
  /\ Busy(c) => job[c] \in Job /\ Has(c)
  /\ ~Busy(c) => got[c] = <<>>
  /\ at[c] \in {"check", "access"} => Len(got[c]) < Count(job[c])
  /\ at[c] = "done" => Len(got[c]) = Count(job[c])

Inv == Typed /\ SetUp /\ \A c \in Caller : Using(c)

-----------------------------------------------------------------------------
(* Jobs and accesses.                                                      *)

(* A handler makes at least one access. *)
LEMMA CountPositive == \A j \in Job : Count(j) \in Nat \ {0}
PROOF
<1> SUFFICES ASSUME NEW j \in Job PROVE Count(j) \in Nat \ {0}
  OBVIOUS
<1>1. j.port \in Port /\ (j.kind \in Ioctl \/ j.kind \in Show)
  BY KindAssumption DEF Job
<1>2. CASE j.kind \in Ioctl
  BY <1>2 DEF Count
<1>3. CASE j.kind \notin Ioctl /\ j.kind = "string"
  <2>1. Register[j.port]["string"] \in Seq(Octet) /\ Register[j.port]["string"] # <<>>
    BY <1>1, RegisterAssumption
  <2>2. Len(Register[j.port]["string"]) \in Nat \ {0}
    BY <2>1
  <2> QED BY <1>3, <2>2 DEF Count
<1>4. CASE j.kind \notin Ioctl /\ j.kind \in {"oui", "version", "temp"}
  <2>1. /\ Register[j.port]["oui"] \in Word \X Word \X Word
        /\ Register[j.port]["version"] \in Word \X Word
        /\ Register[j.port]["temp"] \in [1..1 -> Word]
    BY <1>1, RegisterAssumption
  <2>2. /\ Len(Register[j.port]["oui"]) = 3
        /\ Len(Register[j.port]["version"]) = 2
        /\ Len(Register[j.port]["temp"]) = 1
    BY <2>1
  <2>3. /\ j.kind = "oui" => Count(j) = 3
        /\ j.kind = "version" => Count(j) = 2
        /\ j.kind = "temp" => Count(j) = 1
    BY <1>4, <2>2 DEF Count
  <2> QED BY <1>4, <2>3
<1> QED BY <1>1, <1>2, <1>3, <1>4 DEF Show

(* An access adds its outcome, and the last one ends the handler. *)
LEMMA AddKeeps ==
  ASSUME Inv, NEW c \in Caller, at[c] \in {"check", "access"},
         NEW outcome \in Outcome, Add(c, outcome)
  PROVE  /\ got' \in [Caller -> Seq(Outcome)]
         /\ at' \in [Caller -> {"idle", "check", "access", "done"}]
         /\ at'[c] \in {"check", "done"}
         /\ at'[c] = "check" => Len(got'[c]) < Count(job[c])
         /\ at'[c] = "done" => Len(got'[c]) = Count(job[c])
         /\ \A d \in Caller \ {c} : at'[d] = at[d] /\ got'[d] = got[d]
PROOF
<1>1. got \in [Caller -> Seq(Outcome)] /\ at \in [Caller -> {"idle", "check", "access", "done"}]
  BY DEF Inv, Typed
<1>2. Len(got[c]) < Count(job[c]) /\ Count(job[c]) \in Nat
  <2>1. job[c] \in Job
    BY DEF Inv, Using, Busy
  <2> QED BY <2>1, CountPositive DEF Inv, Using
<1>3. got[c] \in Seq(Outcome)
  BY <1>1
<1>4. /\ Append(got[c], outcome) \in Seq(Outcome)
      /\ Len(Append(got[c], outcome)) = Len(got[c]) + 1
      /\ Len(got[c]) \in Nat
  BY <1>3
<1>5. got' = [got EXCEPT ![c] = Append(got[c], outcome)]
  BY DEF Add
<1>6. at' = [at EXCEPT ![c] = IF Len(got[c]) + 1 = Count(job[c]) THEN "done" ELSE "check"]
  BY DEF Add
<1>7. got'[c] = Append(got[c], outcome)
  BY <1>1, <1>5
<1>8. at'[c] = IF Len(got[c]) + 1 = Count(job[c]) THEN "done" ELSE "check"
  BY <1>1, <1>6
<1>9. /\ at'[c] = "check" => Len(got'[c]) < Count(job[c])
      /\ at'[c] = "done" => Len(got'[c]) = Count(job[c])
  BY <1>2, <1>4, <1>7, <1>8
<1> QED BY <1>1, <1>4, <1>5, <1>6, <1>8, <1>9

(* What a process holds on to stays while others move, as long as its      *)
(* device does.                                                            *)
LEMMA UsingKept ==
  ASSUME NEW d \in Caller, Using(d),
         at'[d] = at[d], job'[d] = job[d], got'[d] = got[d],
         Node(d)', Busy(d) => Has(d)'
  PROVE  Using(d)'
  BY DEF Using, Busy, Count

-----------------------------------------------------------------------------
(* Types, set-up and removal.                                              *)

(* Taking up a port and giving it back. *)
LEMMA Walk ==
  ASSUME NEW n \in Nat
  PROVE  /\ n > 0 => (1..(n - 1)) \cup {n} = 1..n /\ (1..n) \ {n} = 1..(n - 1)
         /\ \A m \in Nat : (n..m) \ {n} = (n + 1)..m
         /\ n = 0 => 1..n = {}
         /\ (n + 1)..n = {}
PROOF
<1>1. n > 0 => (1..(n - 1)) \cup {n} = 1..n
  OBVIOUS
<1>2. n > 0 => (1..n) \ {n} = 1..(n - 1)
  OBVIOUS
<1>3. ASSUME NEW m \in Nat PROVE (n..m) \ {n} = (n + 1)..m
  OBVIOUS
<1>4. (n = 0 => 1..n = {}) /\ (n + 1)..n = {}
  OBVIOUS
<1> QED BY <1>1, <1>2, <1>3, <1>4

LEMMA InvInit == Init => Inv
PROOF
<1> SUFFICES ASSUME Init PROVE Inv
  OBVIOUS
<1> USE PortAssumption DEF Init
<1>1. Typed
  <2>1. got \in [Caller -> Seq(Outcome)]
    <3>1. <<>> \in Seq(Outcome)
      OBVIOUS
    <3> QED BY <3>1
  <2>2. file \in [Caller -> 0..CFP2DCO_NUM] /\ i \in 0..CFP2DCO_NUM
    OBVIOUS
  <2>3. /\ job \in [Caller -> Job \cup {None}]
        /\ at \in [Caller -> {"idle", "check", "access", "done"}]
        /\ simulate_plug_out \in [Port -> BOOLEAN] /\ disturbed \in [Caller -> BOOLEAN]
    OBVIOUS
  <2>4. phase = "absent" /\ class = FALSE
    OBVIOUS
  <2> HIDE DEF Init
  <2> QED BY <2>1, <2>2, <2>3, <2>4 DEF Typed
<1>2. SetUp
  BY DEF SetUp
<1>3. \A c \in Caller : Using(c)
  BY DEF Using, Busy, Node
<1> QED BY <1>1, <1>2, <1>3 DEF Inv

(* Each step of the set-up, of its unwinding and of the removal takes the  *)
(* port it should, none takes the device of a show that runs, and no       *)
(* removal takes a node that is open.                                      *)
LEMMA DriverStep ==
  ASSUME Inv,
         Load \/ AddCdev \/ CreateDevice \/ Unwind \/ Exit \/ RemovePort
  PROVE  Inv'
PROOF
<1>0. Typed /\ SetUp /\ \A c \in Caller : Using(c)
  BY DEF Inv
<1>1. UNCHANGED <<process, file, disturbed, late>>
  BY DEF Load, AddCdev, CreateDevice, Unwind, Exit, RemovePort
<1>n. CFP2DCO_NUM \in Nat /\ CFP2DCO_NUM > 0 /\ i \in Nat /\ i <= CFP2DCO_NUM
  BY <1>0, PortAssumption DEF Typed
<1>2. SetUp' /\ i' \in 0..CFP2DCO_NUM
  <2>1. CASE Load
    <3>1. 1 \in Port /\ 1..(1 - 1) = {}
      BY <1>n DEF Port
    <3>2. CASE class
      BY <1>0, <2>1, <3>2 DEF Load, driver, SetUp, Port, Typed
    <3>3. CASE ~class
      <4>1. phase' = "cdev" /\ i' = 1 /\ cdevs' = {} /\ devices' = {}
        BY <1>0, <2>1, <3>3 DEF Load, SetUp
      <4> QED BY <1>n, <3>1, <4>1 DEF SetUp
    <3> QED BY <3>2, <3>3
  <2>2. CASE AddCdev
    <3>1. i \in Port /\ cdevs = 1..(i - 1) /\ devices = cdevs /\ UNCHANGED devices
      BY <1>0, <2>2 DEF AddCdev, SetUp
    <3>2. CASE phase' = "device" /\ cdevs' = cdevs \cup {i} /\ UNCHANGED i
      <4>1. cdevs' = 1..i
        BY <1>n, <3>1, <3>2, Walk DEF Port
      <4> QED BY <1>n, <3>1, <3>2, <4>1 DEF SetUp, Port
    <3>3. CASE phase' = "failing" /\ i' = i - 1 /\ UNCHANGED cdevs
      BY <1>n, <3>1, <3>3 DEF SetUp, Port
    <3> QED BY <2>2, <3>2, <3>3 DEF AddCdev
  <2>3. CASE CreateDevice
    <3>1. i \in Port /\ cdevs = 1..i /\ devices = 1..(i - 1)
      BY <1>0, <2>3 DEF CreateDevice, SetUp
    <3>2. CASE devices' = devices \cup {i} /\ UNCHANGED cdevs
      <4>1. devices' = 1..i /\ cdevs' = 1..i
        BY <1>n, <3>1, <3>2, Walk DEF Port
      <4>2. CASE i = CFP2DCO_NUM
        <5>1. phase' = "loaded" /\ i' = i
          BY <2>3, <3>1, <3>2, <4>1, <4>2, <1>n, Walk DEF CreateDevice, Port
        <5> QED BY <1>n, <4>1, <4>2, <5>1 DEF SetUp, Port
      <4>3. CASE i # CFP2DCO_NUM
        <5>1. phase' = "cdev" /\ i' = i + 1
          BY <2>3, <3>1, <3>2, <4>1, <4>3, <1>n, Walk DEF CreateDevice, Port
        <5>2. i' - 1 = i /\ i' \in Port
          BY <1>n, <4>3, <5>1 DEF Port
        <5> QED BY <1>n, <4>1, <5>1, <5>2 DEF SetUp, Port
      <4> QED BY <4>2, <4>3
    <3>3. CASE phase' = "failing" /\ cdevs' = cdevs \ {i} /\ i' = i - 1 /\ UNCHANGED devices
      <4>1. cdevs' = 1..(i - 1)
        BY <1>n, <3>1, <3>3, Walk DEF Port
      <4> QED BY <1>n, <3>1, <3>3, <4>1 DEF SetUp, Port
    <3> QED BY <2>3, <3>2, <3>3 DEF CreateDevice
  <2>4. CASE Unwind
    <3>1. cdevs = 1..i /\ devices = 1..i
      BY <1>0, <2>4 DEF Unwind, SetUp
    <3>2. CASE i = 0
      <4>1. phase' = "absent" /\ cdevs' = {} /\ devices' = {} /\ i' = i
        BY <2>4, <3>1, <3>2, Walk DEF Unwind
      <4> QED BY <1>n, <4>1 DEF SetUp
    <3>3. CASE i # 0
      <4>1. /\ phase' = "failing" /\ i' = i - 1
            /\ cdevs' = (1..i) \ {i} /\ devices' = (1..i) \ {i}
        BY <2>4, <3>1, <3>3 DEF Unwind
      <4>2. cdevs' = 1..(i - 1) /\ devices' = 1..(i - 1)
        BY <1>n, <3>3, <4>1, Walk
      <4> QED BY <1>n, <3>3, <4>1, <4>2 DEF SetUp
    <3> QED BY <3>2, <3>3
  <2>5. CASE Exit
    <3>1. phase' = "removing" /\ i' = 1 /\ cdevs' = Port /\ devices' = Port
      BY <1>0, <2>5 DEF Exit, SetUp
    <3> QED BY <1>n, <3>1 DEF SetUp, Port
  <2>6. CASE RemovePort
    <3>1. i \in Port /\ cdevs = i..CFP2DCO_NUM /\ devices = i..CFP2DCO_NUM
      BY <1>0, <2>6 DEF RemovePort, SetUp
    <3>2. cdevs' = (i + 1)..CFP2DCO_NUM /\ devices' = (i + 1)..CFP2DCO_NUM
      <4>1. (i..CFP2DCO_NUM) \ {i} = (i + 1)..CFP2DCO_NUM
        BY <1>n, Walk
      <4> QED BY <2>6, <3>1, <4>1 DEF RemovePort
    <3>3. CASE i = CFP2DCO_NUM
      <4>1. phase' = "absent" /\ i' = 0
        BY <2>6, <3>3 DEF RemovePort
      <4>2. cdevs' = {} /\ devices' = {}
        BY <1>n, <3>2, <3>3, Walk
      <4> QED BY <1>n, <4>1, <4>2 DEF SetUp
    <3>4. CASE i # CFP2DCO_NUM
      <4>1. phase' = "removing" /\ i' = i + 1
        BY <2>6, <3>4 DEF RemovePort
      <4> QED BY <1>n, <3>1, <3>2, <3>4, <4>1 DEF SetUp, Port
    <3> QED BY <3>3, <3>4
  <2> QED BY <2>1, <2>2, <2>3, <2>4, <2>5, <2>6
<1>3. Typed'
  <2>1. phase' \in {"absent", "cdev", "device", "loaded", "failing", "removing"}
    BY <1>0 DEF Typed, Load, AddCdev, CreateDevice, Unwind, Exit, RemovePort, driver
  <2>a. class' \in BOOLEAN /\ (phase' # "absent" => class')
    BY <1>0 DEF Typed, Load, AddCdev, CreateDevice, Unwind, Exit, RemovePort, driver
  <2>2. simulate_plug_out' \in [Port -> BOOLEAN]
    BY <1>0 DEF Typed, Load, AddCdev, CreateDevice, Unwind, Exit, RemovePort
  <2> QED BY <1>0, <1>1, <1>2, <2>1, <2>2, <2>a DEF Typed, process
<1>4. ASSUME NEW c \in Caller PROVE Using(c)'
  <2>1. Node(c)'
    <3>1. file'[c] = file[c] /\ Node(c)
      BY <1>0, <1>1 DEF Using
    <3>2. CASE Load
      BY <1>0, <3>1, <3>2 DEF Node, Load, SetUp, Typed, driver
    <3>3. CASE AddCdev
      BY <1>0, <3>1, <3>3 DEF Node, AddCdev
    <3>4. CASE CreateDevice
      BY <1>0, <3>1, <3>4 DEF Node, CreateDevice
    <3>5. CASE Unwind
      BY <1>0, <3>1, <3>5 DEF Node, Unwind, SetUp, Typed
    <3>6. CASE Exit
      BY <1>0, <3>1, <3>6 DEF Node, Exit
    <3>7. CASE RemovePort
      BY <1>0, <3>1, <3>7 DEF Node, RemovePort
    <3> QED BY <3>2, <3>3, <3>4, <3>5, <3>6, <3>7
  <2>2. Busy(c) => Has(c)'
    <3> SUFFICES ASSUME Busy(c) PROVE Has(c)'
      OBVIOUS
    <3>1. Has(c) /\ UNCHANGED <<job, file>>
      BY <1>0, <1>1 DEF Using, process
    <3>2. CASE job[c].kind \in Ioctl
      BY <3>1, <3>2 DEF Has
    <3>3. CASE job[c].kind \notin Ioctl
      <4>1. job[c].port \in devices
        BY <3>1, <3>3 DEF Has
      <4>2. Unwind \/ RemovePort => job[c].port # i
        BY <3>3 DEF Unwind, RemovePort, Shown
      <4>3. job[c].port \in devices'
        BY <4>1, <4>2 DEF Load, AddCdev, CreateDevice, Unwind, Exit, RemovePort, driver
      <4> QED BY <3>1, <3>3, <4>3 DEF Has
    <3> QED BY <3>2, <3>3
  <2> QED BY <1>0, <1>1, <2>1, <2>2, UsingKept DEF process
<1> QED BY <1>2, <1>3, <1>4 DEF Inv

(* Files, handlers and plugging. *)
LEMMA InvStep == Inv /\ [Next]_vars => Inv'
PROOF
<1> SUFFICES ASSUME Inv, [Next]_vars PROVE Inv'
  OBVIOUS
<1>0. Typed /\ SetUp /\ \A c \in Caller : Using(c)
  BY DEF Inv
<1> USE <1>0
<1>1. CASE Load \/ AddCdev \/ CreateDevice \/ Unwind \/ Exit \/ RemovePort
  BY <1>1, DriverStep
<1>a. ASSUME UNCHANGED driver PROVE SetUp' /\ UNCHANGED <<phase, class, cdevs, devices, i>>
  BY <1>a DEF driver, SetUp, Port
<1>2. ASSUME NEW p \in Port, NEW value \in BOOLEAN, simulate_plug_out_store(p, value)
      PROVE  Inv'
  <2>1. Typed'
    BY <1>2, <1>a DEF simulate_plug_out_store, Typed, process
  <2>2. \A c \in Caller : Using(c)'
    BY <1>2, <1>a, UsingKept DEF simulate_plug_out_store, process, Using, Node, Has
  <2> QED BY <1>2, <1>a, <2>1, <2>2 DEF simulate_plug_out_store, Inv
<1>3. ASSUME NEW c \in Caller, NEW p \in Port, Open(c, p) PROVE Inv'
  <2>1. Typed'
    BY <1>3, <1>a DEF Open, Typed, process, Port
  <2>2. ASSUME NEW d \in Caller PROVE Using(d)'
    <3>1. Node(d)'
      BY <1>3, <1>a DEF Open, Using, Node, Typed
    <3>2. Busy(d) => Has(d)'
      BY <1>3, <1>a DEF Open, Using, Has, Typed, process
    <3> QED BY <1>3, <1>a, <3>1, <3>2, UsingKept DEF Open, process
  <2> QED BY <1>3, <1>a, <2>1, <2>2 DEF Open, Inv
<1>4. ASSUME NEW c \in Caller, Close(c) PROVE Inv'
  <2>1. Typed'
    BY <1>4, <1>a, PortAssumption DEF Close, Typed, process
  <2>2. ASSUME NEW d \in Caller PROVE Using(d)'
    <3>1. Node(d)'
      BY <1>4, <1>a DEF Close, Using, Node, Typed
    <3>2. Busy(d) => Has(d)'
      BY <1>4, <1>a DEF Close, Using, Has, Typed, process
    <3> QED BY <1>4, <1>a, <3>1, <3>2, UsingKept DEF Close, process
  <2> QED BY <1>4, <1>a, <2>1, <2>2 DEF Close, Inv
<1>5. ASSUME NEW c \in Caller, NEW j \in Job, Start(c, j) PROVE Inv'
  <2>1. j.port \in Port /\ simulate_plug_out[j.port] \in BOOLEAN
    BY DEF Job, Typed
  <2>2. Typed'
    BY <1>5, <1>a, <2>1 DEF Start, Typed
  <2>3. Node(c)' /\ Has(c)'
    BY <1>5, <1>a DEF Start, Using, Node, Has, Typed
  <2>4. Using(c)'
    <3>1. at'[c] = "check" /\ job'[c] = j /\ got'[c] = <<>>
      BY <1>5 DEF Start, Typed, Using
    <3>2. Count(j) > 0 /\ Count(j)' = Count(j)
      BY CountPositive DEF Count
    <3>3. (Busy(c) /\ at[c] \in {"check", "access"})' /\ Len(got'[c]) < Count(job[c])'
      BY <3>1, <3>2 DEF Busy, Count
    <3> QED BY <1>5, <1>a, <2>3, <3>1, <3>3 DEF Start, Using, Busy
  <2>5. ASSUME NEW d \in Caller, d # c PROVE Using(d)'
    BY <1>5, <1>a, <2>5, UsingKept DEF Start, Typed, Using, Node, Has
  <2> QED BY <1>5, <1>a, <2>2, <2>4, <2>5 DEF Start, Inv
<1>6. ASSUME NEW c \in Caller, at[c] \in {"check", "access"}, NEW outcome \in Outcome,
             Add(c, outcome), UNCHANGED <<driver, simulate_plug_out, job, file>>,
             disturbed' \in [Caller -> BOOLEAN]
      PROVE  Inv'
  <2>1. /\ got' \in [Caller -> Seq(Outcome)]
        /\ at' \in [Caller -> {"idle", "check", "access", "done"}]
        /\ at'[c] \in {"check", "done"}
        /\ at'[c] = "check" => Len(got'[c]) < Count(job[c])
        /\ at'[c] = "done" => Len(got'[c]) = Count(job[c])
        /\ \A d \in Caller \ {c} : at'[d] = at[d] /\ got'[d] = got[d]
    BY <1>6, AddKeeps
  <2>2. Typed'
    BY <1>6, <1>a, <2>1 DEF Typed
  <2>3. Using(c)'
    <3>1. Busy(c) /\ Count(job[c])' = Count(job[c])
      BY <1>6 DEF Busy, Count
    <3> QED BY <1>6, <1>a, <2>1, <3>1 DEF Using, Busy, Node, Has
  <2>4. ASSUME NEW d \in Caller, d # c PROVE Using(d)'
    BY <1>6, <1>a, <2>1, <2>4, UsingKept DEF Using, Node, Has
  <2> QED BY <1>6, <1>a, <2>2, <2>3, <2>4 DEF Inv
<1>7. ASSUME NEW c \in Caller, Check(c) PROVE Inv'
  <2>1. CASE Add(c, "refused")
    BY <1>6, <1>7, <2>1 DEF Check, Typed, Outcome
  <2>2. CASE at' = [at EXCEPT ![c] = "access"] /\ UNCHANGED got
    <3>1. Typed'
      BY <1>7, <1>a, <2>2 DEF Check, Typed
    <3>2. Using(c)'
      <4>1. at[c] = "check" /\ at'[c] = "access" /\ Count(job[c])' = Count(job[c])
        BY <1>7, <2>2 DEF Check, Typed, Count
      <4> QED BY <1>7, <1>a, <2>2, <4>1 DEF Check, Using, Busy, Node, Has
    <3>3. ASSUME NEW d \in Caller, d # c PROVE Using(d)'
      BY <1>7, <1>a, <2>2, <3>3, UsingKept DEF Check, Using, Typed, Node, Has
    <3> QED BY <1>7, <1>a, <3>1, <3>2, <3>3 DEF Check, Inv
  <2> QED BY <1>7, <2>1, <2>2 DEF Check
<1>8. ASSUME NEW c \in Caller, Access(c) PROVE Inv'
  <2>1. disturbed' \in [Caller -> BOOLEAN]
    BY <1>8 DEF Access, Typed
  <2> QED BY <1>6, <1>8, <2>1 DEF Access, Outcome
<1>9. ASSUME NEW c \in Caller, Return(c) PROVE Inv'
  <2>1. Typed'
    BY <1>9, <1>a DEF Return, Typed
  <2>2. Using(c)'
    <3>1. at'[c] = "idle" /\ got'[c] = <<>>
      BY <1>9 DEF Return, Typed
    <3> QED BY <1>9, <1>a, <3>1 DEF Return, Using, Busy, Node
  <2>3. ASSUME NEW d \in Caller, d # c PROVE Using(d)'
    BY <1>9, <1>a, <2>3, UsingKept DEF Return, Using, Typed, Node, Has
  <2> QED BY <1>9, <1>a, <2>1, <2>2, <2>3 DEF Return, Inv
<1>10. CASE UNCHANGED vars
  <2>1. UNCHANGED <<driver, simulate_plug_out, process, file, disturbed>>
    BY <1>10 DEF vars
  <2>2. Typed'
    BY <1>a, <2>1 DEF Typed, process
  <2>3. \A c \in Caller : Using(c)'
    BY <1>a, <2>1, UsingKept DEF process, Using, Node, Has
  <2> QED BY <1>a, <2>1, <2>2, <2>3 DEF Inv
<1> QED
  BY <1>1, <1>2, <1>3, <1>4, <1>5, <1>7, <1>8, <1>9, <1>10 DEF Next

(* A show that runs has its device and an ioctl its node, no node is taken *)
(* from who has it open but by a set-up that fails, which leaves nothing   *)
(* behind at any port, and a handler makes no more accesses than it has    *)
(* registers to read.                                                      *)
THEOREM TypeCorrect == Spec => []TypeOK
PROOF
<1>1. Inv => TypeOK
  <2> SUFFICES ASSUME Inv PROVE TypeOK
    OBVIOUS
  <2>0. Typed /\ SetUp /\ (\A c \in Caller : Using(c)) /\ CFP2DCO_NUM \in Nat
    BY PortAssumption DEF Inv
  <2>1. cdevs \subseteq Port /\ devices \subseteq cdevs
    <3>1. i \in Nat /\ i <= CFP2DCO_NUM
      BY <2>0 DEF Typed
    <3> QED BY <2>0, <3>1 DEF Typed, SetUp, Port
  <2>2. ASSUME NEW c \in Caller
        PROVE  /\ Node(c)
               /\ Busy(c) => Has(c)
               /\ Len(got[c]) <= Count(IF Busy(c) THEN job[c] ELSE [port |-> 1, kind |-> "string"])
    <3>1. Node(c)
      BY <2>0 DEF Using
    <3>2. CASE Busy(c)
      <4>1. job[c] \in Job /\ Count(job[c]) \in Nat
        BY <2>0, <3>2, CountPositive DEF Using
      <4>2. Len(got[c]) \in Nat /\ at[c] \in {"check", "access", "done"}
        BY <2>0, <3>2 DEF Typed, Busy
      <4>3. Len(got[c]) <= Count(job[c])
        BY <2>0, <4>1, <4>2 DEF Using
      <4> QED BY <2>0, <3>1, <3>2, <4>3 DEF Using
    <3>3. CASE ~Busy(c)
      <4>1. got[c] = <<>> /\ Len(got[c]) = 0
        BY <2>0, <3>3 DEF Using
      <4>2. Count([port |-> 1, kind |-> "string"]) = Len(Register[1]["string"])
        BY DEF Count, Ioctl
      <4>3. Register[1]["string"] \in Seq(Octet)
        BY PortAssumption, RegisterAssumption DEF Port
      <4>4. Len(Register[1]["string"]) \in Nat
        BY <4>3
      <4> QED BY <3>1, <3>3, <4>1, <4>2, <4>4
    <3> QED BY <3>2, <3>3
  <2> QED BY <2>0, <2>1, <2>2 DEF TypeOK, Typed, SetUp, Node, Has
<1> QED BY <1>1, InvInit, InvStep, PTL DEF Spec

-----------------------------------------------------------------------------
(* The simulated unplugging.                                               *)

(* Whoever is on its way to the bus of a port that is unplugged has not    *)
(* been there since.                                                       *)
NotYet(c) ==
  at[c] = "access" /\ simulate_plug_out[job[c].port] => <<c, job[c].port>> \notin late

Prompt == \A c \in Caller : NotYet(c)

LEMMA PromptStep == Inv /\ Prompt /\ [Next]_vars => Prompt'
PROOF
<1> SUFFICES ASSUME Inv, Prompt, [Next]_vars, NEW d \in Caller PROVE NotYet(d)'
  BY DEF Prompt
<1>0. Typed /\ NotYet(d) /\ \A c \in Caller : Using(c)
  BY DEF Inv, Prompt
<1> USE <1>0
<1>1. CASE at'[d] # "access"
  BY <1>1 DEF NotYet
<1>2. CASE at'[d] = "access" /\ at[d] = "access" /\ UNCHANGED <<simulate_plug_out, late>> /\ job'[d] = job[d]
  BY <1>2 DEF NotYet
<1>3. CASE Load \/ AddCdev \/ CreateDevice \/ Unwind \/ Exit \/ RemovePort
  <2>1. UNCHANGED <<process, late>>
    BY <1>3 DEF Load, AddCdev, CreateDevice, Unwind, Exit, RemovePort
  <2>2. ASSUME at[d] = "access"
        PROVE  simulate_plug_out'[job[d].port] => simulate_plug_out[job[d].port]
    <3>1. job[d].port \in Port
      BY <2>2 DEF Using, Busy, Job
    <3>2. \/ simulate_plug_out' = simulate_plug_out
          \/ simulate_plug_out' = [p \in Port |-> FALSE]
      BY <1>3 DEF Load, AddCdev, CreateDevice, Unwind, Exit, RemovePort
    <3> QED BY <3>1, <3>2
  <2> QED BY <2>1, <2>2 DEF NotYet, process
<1>4. ASSUME NEW p \in Port, NEW value \in BOOLEAN, simulate_plug_out_store(p, value)
      PROVE  NotYet(d)'
  <2>1. UNCHANGED <<job, at>>
    BY <1>4 DEF simulate_plug_out_store, process
  <2>2. /\ simulate_plug_out' = [simulate_plug_out EXCEPT ![p] = value]
        /\ late' = {x \in late : x[2] # p \/ (value /\ simulate_plug_out[p])}
    BY <1>4 DEF simulate_plug_out_store
  <2>3. SUFFICES ASSUME at[d] = "access", simulate_plug_out'[job[d].port],
                        <<d, job[d].port>> \in late'
                 PROVE  FALSE
    BY <2>1 DEF NotYet
  <2>4. <<d, job[d].port>> \in late /\ job[d].port \in Port
    BY <2>2, <2>3 DEF Using, Busy, Job
  <2>5. ~simulate_plug_out[job[d].port]
    BY <2>3, <2>4 DEF NotYet
  <2>6. job[d].port = p
    BY <2>2, <2>3, <2>4, <2>5 DEF Typed
  <2> QED BY <2>2, <2>3, <2>5, <2>6
<1>5. ASSUME NEW c \in Caller, NEW p \in Port, Open(c, p) PROVE NotYet(d)'
  BY <1>1, <1>2, <1>5 DEF Open, process
<1>6. ASSUME NEW c \in Caller, Close(c) PROVE NotYet(d)'
  BY <1>1, <1>2, <1>6 DEF Close, process
<1>7. ASSUME NEW c \in Caller, NEW j \in Job, Start(c, j) PROVE NotYet(d)'
  BY <1>1, <1>2, <1>7 DEF Start, Typed
<1>8. ASSUME NEW c \in Caller, Check(c) PROVE NotYet(d)'
  <2>1. UNCHANGED <<job, simulate_plug_out, late>>
    BY <1>8 DEF Check
  <2>2. CASE d = c /\ ~simulate_plug_out[job[c].port]
    BY <2>1, <2>2 DEF NotYet
  <2>3. CASE d = c /\ simulate_plug_out[job[c].port]
    BY <1>1, <1>8, <2>3 DEF Check, Add, Typed
  <2>4. CASE d # c
    BY <1>1, <1>2, <1>8, <2>1, <2>4 DEF Check, Add, Typed
  <2> QED BY <2>2, <2>3, <2>4
<1>9. ASSUME NEW c \in Caller, Access(c) PROVE NotYet(d)'
  <2>1. UNCHANGED <<job, simulate_plug_out>>
    BY <1>9 DEF Access
  <2>2. CASE d = c
    BY <1>1, <1>9, <2>2 DEF Access, Add, Typed
  <2>3. CASE d # c
    <3>1. at'[d] = at[d]
      BY <1>9, <2>3 DEF Access, Add, Typed
    <3>2. <<d, job[d].port>> \in late' => <<d, job[d].port>> \in late
      BY <1>9, <2>3 DEF Access
    <3> QED BY <2>1, <3>1, <3>2 DEF NotYet
  <2> QED BY <2>2, <2>3
<1>10. ASSUME NEW c \in Caller, Return(c) PROVE NotYet(d)'
  BY <1>1, <1>2, <1>10 DEF Return, Typed
<1>11. CASE UNCHANGED vars
  BY <1>11 DEF vars, process, NotYet
<1> QED
  BY <1>3, <1>4, <1>5, <1>6, <1>7, <1>8, <1>9, <1>10, <1>11 DEF Next

(* A process that had looked before the unplugging reaches the bus once    *)
(* after it; only plugging the module lets it there again.                 *)
THEOREM AtMostOneIsLate == Spec => AtMostOneLate
PROOF
<1> DEFINE OneLate == \A c \in Caller :
      Len(got'[c]) > Len(got[c]) /\ got'[c][Len(got'[c])] # "refused"
        /\ simulate_plug_out[job[c].port] => <<c, job[c].port>> \notin late
<1>1. Init => Prompt
  BY DEF Init, Prompt, NotYet
<1>2. Inv /\ Prompt /\ [Next]_vars => OneLate
  <2> SUFFICES ASSUME Inv, Prompt, [Next]_vars, NEW d \in Caller,
                      Len(got'[d]) > Len(got[d]), got'[d][Len(got'[d])] # "refused",
                      simulate_plug_out[job[d].port]
               PROVE  <<d, job[d].port>> \notin late
    OBVIOUS
  <2>0. Typed /\ NotYet(d) /\ got[d] \in Seq(Outcome) /\ Len(got[d]) \in Nat
    BY DEF Inv, Prompt, Typed
  <2>1. got'[d] # got[d]
    BY <2>0
  <2>2. ASSUME NEW c \in Caller, Return(c) PROVE FALSE
    <3>1. got'[d] = <<>>
      BY <2>0, <2>1, <2>2 DEF Return, Typed
    <3> QED BY <2>0, <3>1
  <2>3. ASSUME NEW c \in Caller, Check(c) PROVE FALSE
    <3>1. c = d /\ got'[d] = Append(got[d], "refused")
      BY <2>0, <2>1, <2>3 DEF Check, Add, Typed
    <3>2. got'[d][Len(got'[d])] = "refused"
      BY <2>0, <3>1 DEF Outcome
    <3> QED BY <3>2
  <2>4. ASSUME NEW c \in Caller, Access(c) PROVE at[d] = "access"
    BY <2>0, <2>1, <2>4 DEF Access, Add, Typed
  <2>5. \E c \in Caller : Return(c) \/ Check(c) \/ Access(c)
    BY <2>1 DEF Next, Load, AddCdev, CreateDevice, Unwind, Exit, RemovePort,
      simulate_plug_out_store, Open, Close, Start, vars, process
  <2> QED BY <2>0, <2>2, <2>3, <2>4, <2>5 DEF NotYet
<1>3. Inv /\ Prompt /\ [Next]_vars => [OneLate]_vars
  BY <1>2
<1> QED BY <1>1, <1>3, InvInit, InvStep, PromptStep, PTL DEF Spec, AtMostOneLate

-----------------------------------------------------------------------------
(* Maxima.                                                                 *)

LEMMA LessWellFounded == IsWellFoundedOn({ss \in Nat \X Nat : ss[1] < ss[2]}, Nat)
  BY NatLessThanWellFounded, Zenon DEF OpToRel

LEMMA HasLeast ==
  ASSUME NEW s, s \subseteq Nat, s # {}
  PROVE  \E x \in s : \A y \in s : x <= y
PROOF
<1> DEFINE less == {ss \in Nat \X Nat : ss[1] < ss[2]}
<1>1. IsWellFoundedOn(less, Nat)
  BY LessWellFounded
<1>2. \E x \in s : \A y \in s : <<y, x>> \notin less
  <2> HIDE DEF less
  <2> QED BY <1>1, WFMin, Zenon
<1>3. \A x \in s, y \in s : <<y, x>> \notin less => x <= y
  OBVIOUS
<1> QED BY <1>2, <1>3

(* A set of places in a buffer has a last one. *)
LEMMA HasMax ==
  ASSUME NEW n \in Nat, NEW s, s \subseteq 1..n, s # {}
  PROVE  Max(s) \in s /\ \A y \in s : Max(s) >= y
PROOF
<1> DEFINE t == {n - x : x \in s}
<1>1. t \subseteq Nat /\ t # {}
  OBVIOUS
<1>2. PICK z \in t : \A y \in t : z <= y
  <2> HIDE DEF t
  <2> QED BY <1>1, HasLeast
<1>3. PICK x \in s : z = n - x
  OBVIOUS
<1>4. \A y \in s : n - y \in t
  OBVIOUS
<1>5. \A y \in s : x >= y
  <2> SUFFICES ASSUME NEW y \in s PROVE x >= y
    OBVIOUS
  <2>1. n - x <= n - y
    BY <1>2, <1>3, <1>4
  <2> QED BY <2>1
<1>6. \E m \in s : \A y \in s : m >= y
  BY <1>5
<1> QED BY <1>6 DEF Max

-----------------------------------------------------------------------------
(* What is shown of a string.                                              *)

(* A register of a string, seen as bytes: its own and then nothing. *)
LEMMA BytesOf ==
  ASSUME NEW v \in Octet
  PROVE  Byte(v, 0) = v /\ Byte(v, 1) = 0 /\ Byte(v, 2) = 0 /\ Byte(v, 3) = 0
PROOF
<1>0. v \in 0..255
  BY DEF Octet
<1>1. \A n \in 0..3 : Byte(v, n) = (v \div <<1, 256, 65536, 16777216>>[n + 1]) % 256
  BY <1>0 DEF Byte
<1>2. /\ Byte(v, 0) = (v \div 1) % 256
      /\ Byte(v, 1) = (v \div 256) % 256
      /\ Byte(v, 2) = (v \div 65536) % 256
      /\ Byte(v, 3) = (v \div 16777216) % 256
  BY <1>1
<1> QED BY <1>0, <1>2

(* Without a failure of the bus each place of the buffer holds the byte of *)
(* its register or nothing, the byte if it was read, and the place behind  *)
(* the string nothing.                                                     *)
LEMMA BufferHolds ==
  ASSUME NEW j \in Job, j.kind = "string",
         NEW outcomes \in Seq(Outcome),
         Len(outcomes) = Len(Register[j.port]["string"]),
         \A n \in 1..Len(outcomes) : outcomes[n] # "failed"
  PROVE  LET held == Register[j.port]["string"]
             buf == Buffer(j, outcomes) IN
         /\ buf \in Seq(Octet) /\ Len(buf) = Len(held) + 1
         /\ \A k \in 1..Len(held) :
              /\ buf[k] \in {0, held[k]}
              /\ outcomes[k] # "refused" => buf[k] = held[k]
         /\ buf[Len(held) + 1] = 0
PROOF
<1> DEFINE held == Register[j.port]["string"]
           size == Len(outcomes)
           buf == Buffer(j, outcomes)
           stored(k) == {n \in 1..size : n \in k - 3 .. k /\ outcomes[n] # "refused"}
           at3(k) == Byte(Value(j, outcomes, Max(stored(k))), k - Max(stored(k)))
<1>1. size \in Nat /\ size = Len(held)
  OBVIOUS
<1>2. \A n \in 1..size : held[n] \in Octet
  <2>1. held \in Seq(Octet)
    BY RegisterAssumption DEF Job
  <2>2. \A n \in 1..Len(held) : held[n] \in Octet
    <3> HIDE DEF held
    <3> QED BY <2>1
  <2> QED BY <1>1, <2>2
<1>3. \A n \in 1..size : Value(j, outcomes, n) = held[n]
  BY DEF Value
<1>4. buf = [k \in 1..size + 1 |-> IF stored(k) = {} THEN 0 ELSE at3(k)]
  BY DEF Buffer
<1>5. ASSUME NEW k \in 1..size + 1, stored(k) # {}
      PROVE  /\ at3(k) = IF Max(stored(k)) = k THEN held[k] ELSE 0
             /\ k \in stored(k) => Max(stored(k)) = k
             /\ Max(stored(k)) = k => k <= size
  <2> DEFINE m == Max(stored(k))
  <2>1. m \in stored(k) /\ \A y \in stored(k) : m >= y
    <3>1. stored(k) \subseteq 1..size
      OBVIOUS
    <3> HIDE DEF stored
    <3> QED BY <1>1, <1>5, <3>1, HasMax
  <2>2. m \in 1..size /\ m \in k - 3 .. k
    BY <2>1
  <2> HIDE DEF m, stored, held, size
  <2>3. held[m] \in Octet /\ Value(j, outcomes, m) = held[m]
    BY <1>2, <1>3, <2>2
  <2>4. k - m \in 0..3
    BY <1>1, <2>2
  <2>5. at3(k) = Byte(held[m], k - m)
    BY <2>3 DEF m
  <2>6. at3(k) = IF m = k THEN held[k] ELSE 0
    <3>1. CASE k - m = 0
      <4>1. m = k
        BY <1>1, <2>2, <3>1
      <4> QED BY <2>3, <2>5, <3>1, <4>1, BytesOf
    <3>2. CASE k - m \in {1, 2, 3}
      <4>1. m # k
        BY <1>1, <2>2, <3>2
      <4>2. Byte(held[m], k - m) = 0
        <5>1. \A n \in {1, 2, 3} : Byte(held[m], n) = 0
          BY <2>3, BytesOf
        <5> QED BY <3>2, <5>1
      <4> QED BY <2>5, <4>1, <4>2
    <3> QED BY <2>4, <3>1, <3>2
  <2>7. k \in stored(k) => m = k
    BY <1>1, <2>1, <2>2
  <2> QED BY <1>1, <2>2, <2>6, <2>7 DEF m
<1>6. ASSUME NEW k \in 1..size
      PROVE  buf[k] \in {0, held[k]} /\ (outcomes[k] # "refused" => buf[k] = held[k])
  <2>0. k \in 1..size + 1 /\ (outcomes[k] # "refused" => k \in stored(k))
    BY <1>1
  <2>1. buf[k] = IF stored(k) = {} THEN 0 ELSE at3(k)
    BY <1>4, <2>0
  <2> HIDE DEF buf, stored, at3, held
  <2> QED BY <1>5, <2>0, <2>1
<1>7. buf[size + 1] = 0
  <2>0. size + 1 \in 1..size + 1 /\ ~(size + 1 <= size)
    BY <1>1
  <2>1. buf[size + 1] = IF stored(size + 1) = {} THEN 0 ELSE at3(size + 1)
    BY <1>4, <2>0
  <2> HIDE DEF buf, stored, at3, held, size
  <2> QED BY <1>5, <2>0, <2>1
<1>8. buf \in Seq(Octet) /\ Len(buf) = size + 1
  <2>1. 0 \in Octet /\ size + 1 \in Nat
    BY <1>1 DEF Octet
  <2>2. ASSUME NEW k \in 1..size + 1 PROVE buf[k] \in Octet
    <3>1. k \in 1..size \/ k = size + 1
      BY <1>1, <2>2
    <3> HIDE DEF buf, held
    <3> QED BY <1>2, <1>6, <1>7, <2>1, <3>1
  <2>3. buf \in [1..size + 1 -> Octet]
    <3>1. DOMAIN buf = 1..size + 1 /\ buf = [k \in 1..size + 1 |-> buf[k]]
      BY <1>4
    <3> HIDE DEF buf
    <3> QED BY <2>2, <3>1
  <2> HIDE DEF buf, size
  <2> QED BY <2>1, <2>3
<1> QED BY <1>1, <1>6, <1>7, <1>8

(* What is left of a buffer when the blanks at its end, the place behind   *)
(* the string among them, are cut off. *)
LEMMA StringShown ==
  ASSUME NEW n \in Nat, NEW buf \in Seq(Octet), Len(buf) = n + 1, buf[n + 1] = 0
  PROVE  \/ /\ String(buf) = <<>>
            /\ \A k \in 1..n : buf[k] \in Blank
         \/ \E m \in 1..n :
              /\ buf[m] \notin Blank /\ \A k \in m + 1 .. n : buf[k] \in Blank
              /\ String(buf) \in Seq(Octet) /\ Len(String(buf)) = m + 1
              /\ String(buf)[m + 1] = 10
              /\ \A k \in 1..m : String(buf)[k] = buf[k]
PROOF
<1> DEFINE ink == {k \in DOMAIN buf : buf[k] \notin Blank}
           m == Max(ink)
<1>1. DOMAIN buf = 1..n + 1 /\ n + 1 \in 1..n + 1 /\ 0 \in Blank
  BY LenProperties DEF Blank
<1>2. ink \subseteq 1..n
  <2>1. n + 1 \notin ink
    BY <1>1
  <2>2. ink \subseteq 1..n + 1
    BY <1>1
  <2> HIDE DEF ink
  <2> QED BY <2>1, <2>2
<1>3. \A k \in 1..n : k \in ink \/ buf[k] \in Blank
  BY <1>1
<1>4. CASE ink = {}
  <2>1. String(buf) = <<>>
    BY <1>4 DEF String
  <2> QED BY <1>3, <1>4, <2>1
<1>5. CASE ink # {}
  <2>1. m \in ink /\ \A k \in ink : m >= k
    <3> HIDE DEF ink
    <3> QED BY <1>2, <1>5, HasMax
  <2>2. m \in 1..n /\ buf[m] \notin Blank
    BY <1>2, <2>1
  <2>3. \A k \in m + 1 .. n : buf[k] \in Blank
    <3> SUFFICES ASSUME NEW k \in m + 1 .. n PROVE k \notin ink /\ k \in 1..n
      BY <1>3
    <3> HIDE DEF ink, m
    <3> QED BY <2>1, <2>2
  <2>4. String(buf) = Append(SubSeq(buf, 1, m), 10)
    BY <1>5 DEF String
  <2> HIDE DEF ink, m
  <2>5. /\ SubSeq(buf, 1, m) \in Seq(Octet)
        /\ Len(SubSeq(buf, 1, m)) = m
        /\ \A k \in 1..m : SubSeq(buf, 1, m)[k] = buf[k]
    <3>1. \A k \in 1..m : buf[k] \in Octet
      BY <2>2, ElementOfSeq
    <3>2. /\ SubSeq(buf, 1, m) \in Seq(Octet)
          /\ Len(SubSeq(buf, 1, m)) = IF 1 <= m THEN m - 1 + 1 ELSE 0
          /\ \A k \in 1..m - 1 + 1 : SubSeq(buf, 1, m)[k] = buf[1 + k - 1]
      BY <2>2, <3>1, SubSeqProperties
    <3> QED BY <2>2, <3>2
  <2>6. 10 \in Octet
    BY DEF Octet
  <2>7. /\ String(buf) \in Seq(Octet) /\ Len(String(buf)) = m + 1
        /\ String(buf)[m + 1] = 10
        /\ \A k \in 1..m : String(buf)[k] = buf[k]
    BY <2>4, <2>5, <2>6, AppendProperties
  <2> QED BY <2>2, <2>3, <2>7
<1> QED BY <1>4, <1>5

(* What a handler answers, by what it was asked. *)
LEMMA AnswersOf ==
  ASSUME NEW j, NEW outcomes
  PROVE
    /\ j.kind = "string" => Answers(j, outcomes) = {String(Buffer(j, outcomes))}
    /\ j.kind = "oui" => Answers(j, outcomes) = {Oui(j, outcomes, g) : g \in Garbage}
    /\ j.kind = "version" => \A answer \in Answers(j, outcomes) :
         \E g \in Garbage, h \in Garbage : answer = Version(j, outcomes, <<g, h>>)
    /\ j.kind = "temp" => Answers(j, outcomes) = {Temp(j, outcomes)}
    /\ j.kind \in Ioctl => Answers(j, outcomes) = {Result(j, outcomes)}
PROOF
<1>1. j.kind = "string" => Answers(j, outcomes) = {String(Buffer(j, outcomes))}
  BY DEF Answers
<1>2. j.kind = "oui" => Answers(j, outcomes) = {Oui(j, outcomes, g) : g \in Garbage}
  BY DEF Answers
<1>3. j.kind = "version" => \A answer \in Answers(j, outcomes) :
        \E g \in Garbage, h \in Garbage : answer = Version(j, outcomes, <<g, h>>)
  BY DEF Answers
<1>4. j.kind = "temp" => Answers(j, outcomes) = {Temp(j, outcomes)}
  BY DEF Answers
<1>5. j.kind \in Ioctl => Answers(j, outcomes) = {Result(j, outcomes)}
  BY DEF Answers, Ioctl
<1> QED BY <1>1, <1>2, <1>3, <1>4, <1>5

(* However a module is unplugged and plugged while its string is read, a   *)
(* byte that is shown is its own, at its place, or nothing.                *)
THEOREM ShowsOwnOrNothing == Spec => []OwnOrNothing
PROOF
<1>1. Inv => OwnOrNothing
  <2> SUFFICES ASSUME Inv, NEW c \in Caller, at[c] = "done", job[c].kind = "string",
                      "failed" \notin Range(got[c]),
                      NEW answer \in Answers(job[c], got[c])
               PROVE  LET held == Register[job[c].port]["string"] IN
                      /\ Len(answer) <= Len(held) + 1
                      /\ \A n \in 1..Len(answer) - 1 : answer[n] \in {0, held[n]}
    BY DEF OwnOrNothing
  <2> DEFINE j == job[c]
             held == Register[j.port]["string"]
             buf == Buffer(j, got[c])
             n == Len(held)
  <2>1. j \in Job /\ got[c] \in Seq(Outcome) /\ Len(got[c]) = Count(j)
    BY DEF Inv, Using, Busy, Typed
  <2>2. Len(got[c]) = n /\ n \in Nat
    BY <2>1 DEF Count, Ioctl
  <2>3. \A k \in 1..Len(got[c]) : got[c][k] # "failed"
    BY <2>1, LenProperties DEF Range
  <2>4. /\ buf \in Seq(Octet) /\ Len(buf) = n + 1 /\ buf[n + 1] = 0
        /\ \A k \in 1..n : buf[k] \in {0, held[k]}
    BY <2>1, <2>2, <2>3, BufferHolds
  <2>5. answer = String(buf)
    <3>1. Answers(job[c], got[c]) = {String(Buffer(job[c], got[c]))}
      BY AnswersOf
    <3> QED BY <3>1
  <2> HIDE DEF buf, held, n
  <2>6. CASE answer = <<>>
    <3>1. Len(answer) = 0
      BY <2>6
    <3> QED BY <2>2, <3>1 DEF n, held
  <2>7. CASE \E m \in 1..n : /\ Len(answer) = m + 1
                             /\ \A k \in 1..m : answer[k] = buf[k]
    <3>1. PICK m \in 1..n : Len(answer) = m + 1 /\ \A k \in 1..m : answer[k] = buf[k]
      BY <2>7
    <3>2. Len(answer) - 1 = m /\ Len(answer) <= n + 1
      BY <2>2, <3>1
    <3>3. \A k \in 1..m : answer[k] \in {0, held[k]}
      BY <2>2, <2>4, <3>1
    <3> QED BY <3>2, <3>3 DEF n, held
  <2>8. answer = <<>> \/ \E m \in 1..n : /\ Len(answer) = m + 1
                                         /\ \A k \in 1..m : answer[k] = buf[k]
    <3>1. \/ String(buf) = <<>>
          \/ \E m \in 1..n : /\ Len(String(buf)) = m + 1
                            /\ \A k \in 1..m : String(buf)[k] = buf[k]
      <4> DEFINE Prints(k) ==
            \/ /\ String(buf) = <<>>
               /\ \A l \in 1..n : buf[l] \in Blank
            \/ \E m \in 1..n :
                 /\ buf[m] \notin Blank /\ \A l \in m + 1 .. n : buf[l] \in Blank
                 /\ String(buf) \in Seq(Octet) /\ Len(String(buf)) = m + 1
                 /\ String(buf)[m + 1] = 10
                 /\ \A l \in 1..m : String(buf)[l] = buf[l]
      <4>1. Prints(0)
        BY <2>2, <2>4, StringShown
      <4> QED BY <4>1
    <3> QED BY <2>5, <3>1
  <2> QED BY <2>6, <2>7, <2>8
<1> QED BY <1>1, InvInit, InvStep, PTL DEF Spec

-----------------------------------------------------------------------------
(* Answers that nothing disturbed.                                         *)

(* As long as neither a plugging nor the bus disturbs a handler, its       *)
(* module is plugged and every access of it is done.                       *)
Calm(c) ==
  Busy(c) /\ ~disturbed[c] =>
    /\ ~simulate_plug_out[job[c].port]
    /\ \A n \in 1..Len(got[c]) : got[c][n] = "done"

Calmly == \A c \in Caller : Calm(c)

(* A handler that does not move stays calm. *)
LEMMA CalmKept ==
  ASSUME NEW d \in Caller, Calm(d),
         at'[d] = at[d], job'[d] = job[d], got'[d] = got[d],
         disturbed[d] => disturbed'[d],
         Busy(d) /\ ~disturbed'[d] /\ simulate_plug_out'[job[d].port]
           => simulate_plug_out[job[d].port]
  PROVE  Calm(d)'
  BY DEF Calm, Busy

(* An access of a calm handler that is done leaves it calm. *)
LEMMA CalmAdd ==
  ASSUME Inv, Calmly, NEW c \in Caller, NEW outcome \in Outcome,
         at[c] \in {"check", "access"}, Add(c, outcome),
         UNCHANGED <<job, simulate_plug_out>>,
         ~disturbed'[c] => ~disturbed[c] /\ outcome = "done"
  PROVE  Calm(c)'
PROOF
<1> SUFFICES ASSUME ~disturbed'[c]
             PROVE  /\ ~simulate_plug_out[job[c].port]
                    /\ \A n \in 1..Len(got'[c]) : got'[c][n] = "done"
  BY DEF Calm, Busy
<1>1. got[c] \in Seq(Outcome) /\ got'[c] = Append(got[c], "done")
  BY DEF Inv, Typed, Add
<1>2. ~simulate_plug_out[job[c].port] /\ \A n \in 1..Len(got[c]) : got[c][n] = "done"
  BY DEF Calmly, Calm, Busy
<1>3. /\ Len(got'[c]) = Len(got[c]) + 1
      /\ \A n \in 1..Len(got[c]) : got'[c][n] = got[c][n]
      /\ got'[c][Len(got[c]) + 1] = "done"
  <2>1. "done" \in Outcome
    BY DEF Outcome
  <2> QED BY <1>1, <2>1, AppendProperties
<1>4. Len(got[c]) \in Nat
  BY <1>1
<1>5. \A n \in 1..Len(got[c]) + 1 : n \in 1..Len(got[c]) \/ n = Len(got[c]) + 1
  BY <1>4
<1> QED BY <1>2, <1>3, <1>5

LEMMA CalmStep == Inv /\ Calmly /\ [Next]_vars => Calmly'
PROOF
<1> SUFFICES ASSUME Inv, Calmly, [Next]_vars, NEW d \in Caller PROVE Calm(d)'
  BY DEF Calmly
<1>0. Typed /\ Calm(d) /\ \A c \in Caller : Using(c)
  BY DEF Inv, Calmly
<1> USE <1>0
<1>1. ASSUME at'[d] = at[d], job'[d] = job[d], got'[d] = got[d], disturbed'[d] = disturbed[d],
             UNCHANGED simulate_plug_out
      PROVE  Calm(d)'
  BY <1>1, CalmKept
<1>2. CASE Load \/ AddCdev \/ CreateDevice \/ Unwind \/ Exit \/ RemovePort
  <2>1. UNCHANGED <<process, disturbed>>
    BY <1>2 DEF Load, AddCdev, CreateDevice, Unwind, Exit, RemovePort
  <2>2. ASSUME Busy(d)
        PROVE  simulate_plug_out'[job[d].port] => simulate_plug_out[job[d].port]
    <3>1. job[d].port \in Port
      BY <2>2 DEF Using, Job
    <3>2. \/ simulate_plug_out' = simulate_plug_out
          \/ simulate_plug_out' = [p \in Port |-> FALSE]
      BY <1>2 DEF Load, AddCdev, CreateDevice, Unwind, Exit, RemovePort
    <3> QED BY <3>1, <3>2
  <2> QED BY <2>1, <2>2, CalmKept DEF process
<1>3. ASSUME NEW p \in Port, NEW value \in BOOLEAN, simulate_plug_out_store(p, value)
      PROVE  Calm(d)'
  <2>1. UNCHANGED <<job, at, got>>
    BY <1>3 DEF simulate_plug_out_store, process
  <2>2. /\ disturbed'[d] <=> disturbed[d] \/ (value /\ job[d].port = p)
        /\ simulate_plug_out' = [simulate_plug_out EXCEPT ![p] = value]
    BY <1>3 DEF simulate_plug_out_store
  <2>3. ~disturbed'[d] /\ simulate_plug_out'[job[d].port] => simulate_plug_out[job[d].port]
    BY <2>2 DEF Typed
  <2> QED BY <2>1, <2>2, <2>3, CalmKept
<1>4. ASSUME NEW c \in Caller, NEW p \in Port, Open(c, p) PROVE Calm(d)'
  BY <1>1, <1>4 DEF Open, process
<1>5. ASSUME NEW c \in Caller, Close(c) PROVE Calm(d)'
  BY <1>1, <1>5 DEF Close, process
<1>6. ASSUME NEW c \in Caller, NEW j \in Job, Start(c, j) PROVE Calm(d)'
  <2>1. CASE d = c
    <3>1. /\ job'[d] = j /\ got'[d] = <<>> /\ disturbed'[d] = simulate_plug_out[j.port]
          /\ UNCHANGED simulate_plug_out
      BY <1>6, <2>1 DEF Start, Typed, Using
    <3> QED BY <3>1 DEF Calm
  <2>2. CASE d # c
    BY <1>1, <1>6, <2>2 DEF Start, Typed
  <2> QED BY <2>1, <2>2
<1>7. ASSUME NEW c \in Caller, Check(c) PROVE Calm(d)'
  <2>1. UNCHANGED <<job, simulate_plug_out, disturbed>> /\ at[c] = "check"
    BY <1>7 DEF Check
  <2>2. CASE d = c /\ simulate_plug_out[job[c].port]
    <3>1. disturbed[d]
      BY <2>1, <2>2 DEF Calm, Busy
    <3> QED BY <2>1, <3>1 DEF Calm
  <2>3. CASE d = c /\ ~simulate_plug_out[job[c].port]
    <3>1. UNCHANGED got
      BY <1>7, <2>3 DEF Check
    <3> QED BY <2>1, <2>3, <3>1 DEF Calm, Busy
  <2>4. CASE d # c
    BY <1>1, <1>7, <2>1, <2>4 DEF Check, Add, Typed
  <2> QED BY <2>2, <2>3, <2>4
<1>8. ASSUME NEW c \in Caller, Access(c) PROVE Calm(d)'
  <2>1. UNCHANGED <<job, simulate_plug_out>> /\ at[c] = "access"
    BY <1>8 DEF Access
  <2>2. CASE d = c
    <3>1. CASE Add(c, "done") /\ UNCHANGED disturbed
      BY <2>1, <2>2, <3>1, CalmAdd DEF Outcome
    <3>2. CASE disturbed' = [disturbed EXCEPT ![c] = TRUE]
      <4>1. disturbed'[d]
        BY <2>2, <3>2 DEF Typed
      <4> QED BY <4>1 DEF Calm
    <3> QED BY <1>8, <3>1, <3>2 DEF Access
  <2>3. CASE d # c
    <3>1. at'[d] = at[d] /\ got'[d] = got[d] /\ disturbed'[d] = disturbed[d]
      BY <1>8, <2>3 DEF Access, Add, Typed
    <3> QED BY <1>1, <2>1, <3>1
  <2> QED BY <2>2, <2>3
<1>9. ASSUME NEW c \in Caller, Return(c) PROVE Calm(d)'
  <2>1. CASE d = c
    <3>1. at'[d] = "idle"
      BY <1>9, <2>1 DEF Return, Typed
    <3> QED BY <3>1 DEF Calm, Busy
  <2>2. CASE d # c
    BY <1>1, <1>9, <2>2 DEF Return, Typed
  <2> QED BY <2>1, <2>2
<1>10. CASE UNCHANGED vars
  BY <1>1, <1>10 DEF vars, process
<1> QED
  BY <1>2, <1>3, <1>4, <1>5, <1>6, <1>7, <1>8, <1>9, <1>10 DEF Next

(* The lowest byte of a register that was read. *)
LEMMA LowByte ==
  ASSUME NEW v \in Word
  PROVE  Byte(v, 0) = v % 256
PROOF
<1>1. v \in Nat
  BY SMTT(60) DEF Word
<1>2. Byte(v, 0) = (v \div <<1, 256, 65536, 16777216>>[0 + 1]) % 256
  BY <1>1, SMTT(60) DEF Byte
<1>3. <<1, 256, 65536, 16777216>>[0 + 1] = 1
  BY SMTT(60)
<1> QED BY <1>1, <1>2, <1>3, SMTT(60)

(* A string whose registers were all read is shown without the blanks at   *)
(* its end. *)
LEMMA StringUndisturbed ==
  ASSUME NEW j \in Job, j.kind = "string", NEW outcomes \in Seq(Outcome),
         Len(outcomes) = Count(j), \A n \in 1..Len(outcomes) : outcomes[n] = "done"
  PROVE  IsTrimmed(String(Buffer(j, outcomes)), Register[j.port]["string"])
PROOF
<1> DEFINE held == Register[j.port]["string"]
           n == Len(held)
           buf == Buffer(j, outcomes)
           shown == String(buf)
<1>1. held \in Seq(Octet) /\ n \in Nat
  BY RegisterAssumption DEF Job
<1>2. Len(outcomes) = n
  BY DEF Count, Ioctl
<1>3. /\ buf \in Seq(Octet) /\ Len(buf) = n + 1 /\ buf[n + 1] = 0
      /\ \A k \in 1..n : buf[k] = held[k]
  BY <1>2, BufferHolds
<1> HIDE DEF buf, held, n
<1>4. \/ shown = <<>> /\ \A k \in 1..n : buf[k] \in Blank
      \/ \E m \in 1..n :
           /\ buf[m] \notin Blank /\ \A k \in m + 1 .. n : buf[k] \in Blank
           /\ shown \in Seq(Octet) /\ Len(shown) = m + 1
           /\ shown[m + 1] = 10
           /\ \A k \in 1..m : shown[k] = buf[k]
  BY <1>1, <1>3, StringShown
<1> HIDE DEF shown
<1>5. ASSUME shown = <<>>, \A k \in 1..n : buf[k] \in Blank
      PROVE  IsTrimmed(shown, held)
  BY <1>1, <1>3, <1>5 DEF IsTrimmed, n
<1>6. ASSUME NEW m \in 1..n,
             buf[m] \notin Blank, \A k \in m + 1 .. n : buf[k] \in Blank,
             shown \in Seq(Octet), Len(shown) = m + 1, shown[m + 1] = 10,
             \A k \in 1..m : shown[k] = buf[k]
      PROVE  IsTrimmed(shown, held)
  <2>1. shown # <<>> /\ Len(shown) - 1 = m /\ m \in Nat /\ m \in 1..Len(held)
    BY <1>1, <1>6 DEF n
  <2>2. SubSeq(shown, 1, m) = SubSeq(held, 1, m)
    <3>1. \A k \in 1..m : shown[k] = held[k]
      BY <1>1, <1>3, <1>6
    <3>2. \A k \in 1..m : shown[k] \in Octet /\ held[k] \in Octet
      BY <1>1, <1>6, <2>1, <3>1, ElementOfSeq
    <3>3. /\ SubSeq(shown, 1, m) = [k \in 1..m |-> shown[k]]
          /\ SubSeq(held, 1, m) = [k \in 1..m |-> held[k]]
      BY <1>1, <1>6, <2>1, SMT
    <3> QED BY <3>1, <3>3
  <2>3. held[m] \notin Blank /\ \A k \in m + 1 .. Len(held) : held[k] \in Blank
    <3>1. m + 1 \in Nat /\ \A k \in m + 1 .. n : k \in 1..n
      BY <1>1
    <3> QED BY <1>3, <1>6, <3>1 DEF n
  <2> QED BY <1>6, <2>1, <2>2, <2>3 DEF IsTrimmed
<1>7. IsTrimmed(shown, held)
  BY <1>4, <1>5, <1>6
<1> QED BY <1>7 DEF shown, buf, held

(* The other answers when every access was done. *)
LEMMA OuiUndisturbed ==
  ASSUME NEW j \in Job, j.kind = "oui", NEW outcomes, NEW data,
         \A n \in 1..3 : outcomes[n] = "done"
  PROVE  LET held == Register[j.port]["oui"] IN
         Oui(j, outcomes, data)
           = <<(held[1] % 256) * 65536 + (held[2] % 256) * 256 + (held[3] % 256)>>
PROOF
<1> DEFINE held == Register[j.port]["oui"]
           read(n) == {m \in 1..n : outcomes[m] # "refused"}
           byte(n) == IF read(n) = {} THEN Byte(data, 0)
                      ELSE Byte(Value(j, outcomes, Max(read(n))), 0)
<1>1. held[1] \in Word /\ held[2] \in Word /\ held[3] \in Word
  <2>1. held \in Word \X Word \X Word
    BY RegisterAssumption DEF Job
  <2> HIDE DEF held
  <2> QED BY <2>1
<1>2. ASSUME NEW n \in 1..3 PROVE byte(n) = held[n] % 256
  <2>1. read(n) \subseteq 1..n /\ n \in read(n) /\ n \in Nat
    OBVIOUS
  <2>2. Max(read(n)) = n
    <3> HIDE DEF read
    <3>1. Max(read(n)) \in read(n) /\ \A y \in read(n) : Max(read(n)) >= y
      BY <2>1, HasMax
    <3> QED BY <2>1, <3>1
  <2>3. byte(n) = Byte(Value(j, outcomes, n), 0)
    <3> HIDE DEF read
    <3> QED BY <2>1, <2>2
  <2>4. Value(j, outcomes, n) = held[n]
    BY DEF Value
  <2>5. held[n] \in Word
    <3> HIDE DEF held
    <3> QED BY <1>1
  <2> HIDE DEF held, byte, read
  <2> QED BY <2>3, <2>4, <2>5, LowByte
<1>3. Oui(j, outcomes, data) = <<byte(1) * 65536 + byte(2) * 256 + byte(3)>>
  BY DEF Oui
<1>4. byte(1) = held[1] % 256 /\ byte(2) = held[2] % 256 /\ byte(3) = held[3] % 256
  <2> HIDE DEF held, byte, read
  <2> QED BY <1>2
<1> HIDE DEF held, byte, read
<1>5. Oui(j, outcomes, data)
        = <<(held[1] % 256) * 65536 + (held[2] % 256) * 256 + (held[3] % 256)>>
  BY <1>3, <1>4
<1> QED BY <1>5 DEF held

LEMMA VersionUndisturbed ==
  ASSUME NEW j \in Job, j.kind = "version", NEW outcomes, NEW data,
         \A n \in 1..2 : outcomes[n] = "done"
  PROVE  LET held == Register[j.port]["version"] IN
         Version(j, outcomes, data) = <<held[1] % 256, held[2] % 256>>
PROOF
<1> DEFINE held == Register[j.port]["version"]
<1>1. held[1] \in Word /\ held[2] \in Word
  <2>1. held \in Word \X Word
    BY RegisterAssumption DEF Job
  <2> HIDE DEF held
  <2> QED BY <2>1
<1>2. ASSUME NEW n \in 1..2 PROVE Byte(Value(j, outcomes, n), 0) = held[n] % 256
  <2>1. Value(j, outcomes, n) = held[n]
    BY DEF Value
  <2>2. held[n] \in Word
    <3> HIDE DEF held
    <3> QED BY <1>1
  <2> HIDE DEF held
  <2> QED BY <2>1, <2>2, LowByte
<1>3. Version(j, outcomes, data) = [n \in 1..2 |-> Byte(Value(j, outcomes, n), 0)]
  BY DEF Version
<1>4. Version(j, outcomes, data) = [n \in 1..2 |-> held[n] % 256]
  BY <1>2, <1>3
<1> HIDE DEF held
<1>5. [n \in 1..2 |-> held[n] % 256] = <<held[1] % 256, held[2] % 256>>
  BY SMTT(30)
<1> QED BY <1>4, <1>5 DEF held

LEMMA TempUndisturbed ==
  ASSUME NEW j \in Job, j.kind = "temp", NEW outcomes, outcomes[1] = "done"
  PROVE  LET held == Register[j.port]["temp"] IN
         Temp(j, outcomes)[1] * 256 + Temp(j, outcomes)[2] = held[1]
PROOF
<1> DEFINE v == Register[j.port]["temp"][1]
<1>1. v \in Nat
  <2> DEFINE held == Register[j.port]["temp"]
  <2>0. j.port \in Port
    BY DEF Job
  <2>1. held \in [1..1 -> Word]
    BY <2>0, RegisterAssumption
  <2>2. v = held[1] /\ 1 \in 1..1
    OBVIOUS
  <2> HIDE DEF held, v
  <2>3. held[1] \in Word
    BY <2>1, <2>2
  <2>4. v \in Word
    BY <2>2, <2>3
  <2> HIDE DEF v
  <2> QED BY <2>4, SMTT(60) DEF Word
<1>2. Value(j, outcomes, 1) = v
  BY DEF Value
<1>3. Temp(j, outcomes) = <<Value(j, outcomes, 1) \div 256, Value(j, outcomes, 1) % 256>>
  BY DEF Temp
<1> HIDE DEF v
<1>4. (v \div 256) * 256 + (v % 256) = v
  BY <1>1
<1>5. Temp(j, outcomes)[1] * 256 + Temp(j, outcomes)[2] = v
  BY <1>2, <1>3, <1>4
<1> QED BY <1>5, SMTT(30) DEF v

(* A show or an ioctl that no simulated unplugging and no failure of the   *)
(* bus met answers what the module of its own port holds: nothing of       *)
(* another port, nothing that was never read.                              *)
THEOREM AnswersUndisturbed == Spec => []UndisturbedAnswer
PROOF
<1>1. Init => Calmly
  BY DEF Init, Calmly, Calm, Busy
<1>2. Inv /\ Calmly => UndisturbedAnswer
  <2> DEFINE Right(c, answer) ==
      LET held == Register[job[c].port][job[c].kind] IN
      CASE job[c].kind = "string" -> IsTrimmed(answer, held)
        [] job[c].kind = "oui" ->
             answer = <<(held[1] % 256) * 65536 + (held[2] % 256) * 256 + (held[3] % 256)>>
        [] job[c].kind = "version" -> answer = <<held[1] % 256, held[2] % 256>>
        [] job[c].kind = "temp" -> answer[1] * 256 + answer[2] = held[1]
        [] OTHER -> answer = <<0>>
  <2> SUFFICES ASSUME Inv, Calmly, NEW c \in Caller, at[c] = "done", ~disturbed[c],
                      NEW answer \in Answers(job[c], got[c])
               PROVE  Right(c, answer)
    BY DEF UndisturbedAnswer
  <2> DEFINE j == job[c]
  <2>1. j \in Job /\ got[c] \in Seq(Outcome) /\ Len(got[c]) = Count(j)
    BY DEF Inv, Using, Busy, Typed
  <2>2. \A n \in 1..Len(got[c]) : got[c][n] = "done"
    BY DEF Calmly, Calm, Busy
  <2>3. j.kind \in Ioctl \/ j.kind \in {"string", "oui", "version", "temp"}
    BY <2>1, KindAssumption DEF Job, Show
  <2>4. Count(j) \in Nat \ {0}
    BY <2>1, CountPositive
  <2>5. got[c][1] = "done"
    BY <2>1, <2>2, <2>4
  <2>6. j.port \in Port
    BY <2>1 DEF Job
  <2>7. ASSUME j.kind = "string" PROVE IsTrimmed(answer, Register[j.port]["string"])
    <3>1. answer = String(Buffer(j, got[c]))
      BY <2>7, AnswersOf
    <3> QED BY <2>1, <2>2, <2>7, <3>1, StringUndisturbed
  <2>8. ASSUME j.kind = "oui"
        PROVE  LET held == Register[j.port]["oui"] IN
               answer = <<(held[1] % 256) * 65536 + (held[2] % 256) * 256 + (held[3] % 256)>>
    <3>1. Len(got[c]) = 3
      <4>1. Register[j.port]["oui"] \in Word \X Word \X Word
        BY <2>6, RegisterAssumption
      <4>2. Len(Register[j.port]["oui"]) = 3
        BY <4>1
      <4> QED BY <2>1, <2>8, <4>2 DEF Count, Ioctl
    <3>2. PICK g \in Garbage : answer = Oui(j, got[c], g)
      <4>1. Answers(j, got[c]) = {Oui(j, got[c], g) : g \in Garbage}
        BY <2>8, AnswersOf
      <4> QED BY <4>1
    <3> QED BY <2>1, <2>2, <2>8, <3>1, <3>2, OuiUndisturbed
  <2>9. ASSUME j.kind = "version"
        PROVE  LET held == Register[j.port]["version"] IN
               answer = <<held[1] % 256, held[2] % 256>>
    <3>1. Len(got[c]) = 2
      <4>1. Register[j.port]["version"] \in Word \X Word
        BY <2>6, RegisterAssumption
      <4>2. Len(Register[j.port]["version"]) = 2
        BY <4>1
      <4> QED BY <2>1, <2>9, <4>2 DEF Count, Ioctl
    <3>2. PICK g \in Garbage, h \in Garbage : answer = Version(j, got[c], <<g, h>>)
      BY <2>9, AnswersOf
    <3> QED BY <2>1, <2>2, <2>9, <3>1, <3>2, VersionUndisturbed
  <2>10. ASSUME j.kind = "temp"
         PROVE  LET held == Register[j.port]["temp"] IN
                answer[1] * 256 + answer[2] = held[1]
    <3>1. answer = Temp(j, got[c])
      BY <2>10, AnswersOf
    <3> QED BY <2>1, <2>5, <2>10, <3>1, TempUndisturbed
  <2>11. ASSUME j.kind \in Ioctl PROVE answer = <<0>>
    <3>1. answer = Result(j, got[c])
      BY <2>11, AnswersOf
    <3> QED BY <2>5, <3>1 DEF Result
  <2>12. CASE j.kind = "string"
    BY <2>7, <2>12
  <2>13. CASE j.kind = "oui"
    BY <2>8, <2>13
  <2>14. CASE j.kind = "version"
    BY <2>9, <2>14
  <2>15. CASE j.kind = "temp"
    BY <2>10, <2>15
  <2>16. CASE j.kind \in Ioctl
    BY <2>11, <2>16 DEF Ioctl
  <2> HIDE DEF Right
  <2> QED BY <2>3, <2>12, <2>13, <2>14, <2>15, <2>16, SMTT(30)
<1> QED BY <1>1, <1>2, InvInit, InvStep, CalmStep, PTL DEF Spec

=============================================================================
