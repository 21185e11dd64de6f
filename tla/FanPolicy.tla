----------------------------- MODULE FanPolicy -----------------------------
(***************************************************************************)
(* The fan policy of the arm64 platform: onlp_sysi_platform_manage_fans,   *)
(* run once per polling period, with the ONLP calls it makes on the power  *)
(* supplies, their fans, the temperature sensors and the optical modules.  *)
(*                                                                         *)
(* A run is a sequence of file reads and stores.  Between any two of them  *)
(* a power supply (which carries the fans) may be pulled or plugged in, a  *)
(* file may fail, and the process may be restarted.  A test command,       *)
(* onlp_sysi_platform_set_fans, changes the table between two runs.        *)
(***************************************************************************)
EXTENDS Integers

CONSTANTS Psu,      \* the power supplies, each with its fans
          Sensor,   \* the sensors in use, of 0 .. CHASSIS_THERMAL_COUNT-1
          Temp,     \* what a sensor or a module reads, in 1/1000 degree
          Tuning,   \* the arguments of set_fans: index, ka, kb, offset
          Faults    \* whether files fail and the process restarts

CHASSIS_THERMAL_COUNT == 9
FAN_SPEED_MAX_PERCENTAGE == 100
FAN_SLOWDOWN_COUNTER == 5
MODULE_WARNING_THRESHOLD == 90000   \* CFP2 and QSFP28
DefaultPct == 30                    \* of old_pct, and of a power supply

NVME == CHASSIS_THERMAL_COUNT
CFP2 == CHASSIS_THERMAL_COUNT + 1
QSFP28 == CHASSIS_THERMAL_COUNT + 2
Index == 0..QSFP28

(* The percentage for a temperature t is t * Ka/100 + Kb/10. *)
Table ==
  LET ka == <<300,300,140,500,666,680,750,680,750,285,500,660>>
      kb == <<-1520,-1520,30,-2579,-3600,-4220,-4707,-4220,-4707,-914,-2550,-3600>> IN
  [i \in Index |-> [ka |-> ka[i + 1], kb |-> kb[i + 1]]]

Warning == [i \in Index |-> CASE i = 2 -> 60000
                              [] i < NVME -> 80000
                              [] i = NVME -> 85000
                              [] OTHER -> MODULE_WARNING_THRESHOLD]

ASSUME PsuAssumption == Psu \subseteq 1..2
ASSUME SensorAssumption == Sensor \subseteq 0..(CHASSIS_THERMAL_COUNT - 1)
ASSUME TempAssumption == Temp \subseteq Nat /\ Temp # {}
(* A negative index would write in front of the table and is not modelled. *)
ASSUME TuningAssumption == Tuning \subseteq [index : Nat, ka : Int, kb : Int, offset : Int]

VARIABLES phase,        \* the next thing a run does
          psu_info,     \* what it has read of the power supplies
          highest_pct,  \* locals of the run
          new_pct,
          old_pct, fan_counter, fan_index, fan_offset,  \* static
          table,        \* Ka and Kb
          present,      \* the power supplies that are plugged in
          pwm,          \* and the percentage their fans run at
          alarm,        \* why this run has to ask for the maximum
          calm,         \* the runs since the last one with an alarm
          missed        \* power supplies that did not get the last store

statics == <<old_pct, fan_counter, fan_index, fan_offset, table>>
locals == <<psu_info, highest_pct, new_pct>>
world == <<present, pwm>>
history == <<alarm, calm, missed>>
vars == <<phase, locals, statics, world, history>>

Init ==
  /\ phase = "idle"
  /\ psu_info = [p \in Psu |-> "unread"]
  /\ highest_pct = 0 /\ new_pct = DefaultPct
  /\ old_pct = DefaultPct /\ fan_counter = 0
  /\ fan_index = -1 /\ fan_offset = 0
  /\ table = Table
  /\ present = Psu
  /\ pwm = [p \in Psu |-> DefaultPct]
  /\ alarm = {} /\ calm = 0 /\ missed = {}

Goto(from, to) == phase = from /\ phase' = to

NothingRead == psu_info' = [p \in Psu |-> "unread"] /\ highest_pct' = 0

(* set_temp: the rest of a run that asks for pct; it needs no other local. *)
SetTemp(pct, why) ==
  /\ new_pct' = pct
  /\ alarm' = alarm \cup why
  /\ phase' = "set"
  /\ NothingRead

-----------------------------------------------------------------------------
(* The reads.                                                              *)

(* The driver holds a power supply's status, and a unit that answers too   *)
(* late counts as absent: a status of either kind may be read at any time. *)
PsuInfo == {"present", "absent"} \cup (IF Faults THEN {"unread"} ELSE {})

Start ==
  /\ Goto("idle", "psus")
  /\ alarm' = {}
  /\ UNCHANGED <<locals, statics, world, calm, missed>>

CheckPsus ==
  /\ phase = "psus"
  /\ \E info \in [Psu -> {"present", "absent", "unread"}] :
       /\ \A p \in Psu : info[p] \in PsuInfo
       /\ \/ /\ \E p \in Psu : info[p] = "absent"
             /\ SetTemp(FAN_SPEED_MAX_PERCENTAGE, {"psu"})
          \/ /\ \A p \in Psu : info[p] # "absent"
             /\ psu_info' = info
             /\ phase' = "fans"
             /\ UNCHANGED <<highest_pct, new_pct, alarm>>
  /\ UNCHANGED <<statics, world, calm, missed>>

(* Mutant: a fan that is missing or slow is reported and the run goes on. *)
CheckFansGoesOn ==
  /\ phase = "fans"
  /\ \/ /\ \E p \in Psu : psu_info[p] = "present"
        /\ phase' = "sensors" /\ alarm' = alarm \cup {"fan"} /\ NothingRead /\ UNCHANGED new_pct
     \/ phase' = "sensors" /\ NothingRead /\ UNCHANGED <<new_pct, alarm>>
  /\ UNCHANGED <<statics, world, calm, missed>>

(* Only the fans of a power supply that was read as present are looked at: *)
(* one of them is missing or slow (as it is when its speed cannot be       *)
(* read), or they all run or cannot be read.                               *)
CheckFans ==
  /\ phase = "fans"
  /\ \/ /\ \E p \in Psu : psu_info[p] = "present"
        /\ SetTemp(FAN_SPEED_MAX_PERCENTAGE, {"fan"})
     \/ phase' = "sensors" /\ NothingRead /\ UNCHANGED <<new_pct, alarm>>
  /\ UNCHANGED <<statics, world, calm, missed>>

(* Division that rounds towards zero, as C's does. *)
Div(a, b) == IF a >= 0 THEN a \div b ELSE -((-a) \div b)

TempPct(i, t) == Div(t * table[i].ka, 100000) + Div(table[i].kb, 10)

Greatest(s) == CHOOSE m \in s : \A n \in s : n <= m

(* The drive's temperature in kelvin, a hundred times; 0 if unreadable. *)
NvmeTemp(t) == (t \div 1000 + 273) * 100

Offset(i) == IF i = fan_index THEN fan_offset ELSE 0

Unreadable == -1

ThermalInfo == Temp \cup (IF Faults THEN {Unreadable} ELSE {})

(* The chassis sensors and the drive.  A sensor that cannot be read is an  *)
(* alarm, a drive that cannot be read is cold; the test offset counts for  *)
(* the threshold and not for the percentage.                               *)
ReadSensors ==
  /\ phase = "sensors"
  /\ \E info \in [Sensor \cup {NVME} -> ThermalInfo] :
       \/ /\ \E i \in Sensor : info[i] = Unreadable
          /\ SetTemp(FAN_SPEED_MAX_PERCENTAGE, {"unreadable"})
       \/ /\ \A i \in Sensor : info[i] # Unreadable
          /\ LET mcelsius == [info EXCEPT ![NVME] = IF @ = Unreadable THEN 0 ELSE NvmeTemp(@)]
                 hot == {i \in Sensor \cup {NVME} : mcelsius[i] + Offset(i) >= Warning[i]} IN
             /\ highest_pct' =
                  Greatest({0} \cup {TempPct(i, mcelsius[i]) : i \in Sensor \cup {NVME}}
                               \cup {FAN_SPEED_MAX_PERCENTAGE : i \in hot})
             /\ alarm' = alarm \cup {"sensor" : i \in hot}
                               \cup {"drive" : i \in {j \in {NVME} : info[j] >= Warning[j]}}
          /\ phase' = "modules"
          /\ UNCHANGED <<psu_info, new_pct>>
  /\ UNCHANGED <<statics, world, calm, missed>>

(* The hottest of the ports of one kind that hold a module and answer, if  *)
(* there is one; the others are skipped.                                   *)
Answers == {{}} \cup {{t} : t \in Temp}

(* A CFP2 that fails with another error than E_INVALID yields what the     *)
(* buffer held before.                                                     *)
Leftover == IF Faults THEN Answers ELSE {{}}

(* What a module adds.  The loops compare their index with fan_index less  *)
(* the sensors (and, for QSFP28, the CFP2 ports) in front of it, which     *)
(* set_fans never lets fan_index reach: an offset has no effect here.      *)
ModulePct(i, t) ==
  LET pct == TempPct(i, t) IN
  IF t >= MODULE_WARNING_THRESHOLD \/ (i = CFP2 /\ pct > FAN_SPEED_MAX_PERCENTAGE)
    THEN Greatest({FAN_SPEED_MAX_PERCENTAGE, pct}) ELSE pct

Least(a, b) == IF a < b THEN a ELSE b

(* Mutant: the step of 5 % is taken after the limit, and upwards. *)
SteppedUp(pct) == ((Least(pct, FAN_SPEED_MAX_PERCENTAGE) + 5) \div 5) * 5

Stepped(pct) == Least((pct \div 5) * 5, FAN_SPEED_MAX_PERCENTAGE)

ReadModules ==
  /\ phase = "modules"
  /\ \E cfp2, qsfp28 \in Answers, stale \in Leftover :
          LET highest == Greatest({highest_pct} \cup {ModulePct(CFP2, t) : t \in cfp2 \cup stale}
                                                \cup {ModulePct(QSFP28, t) : t \in qsfp28})
              hot == \E t \in cfp2 \cup qsfp28 : t >= MODULE_WARNING_THRESHOLD IN
          SetTemp(Stepped(highest), {"module" : m \in {b \in {TRUE} : hot}})
  /\ UNCHANGED <<statics, world, calm, missed>>

-----------------------------------------------------------------------------
(* The target and the stores.                                              *)

(* Mutant: a slow-down takes effect at once. *)
SetAtOnce ==
  /\ phase = "set"
  /\ old_pct' = new_pct /\ fan_counter' = 0
  /\ phase' = IF new_pct = old_pct THEN "idle" ELSE "store1"
  /\ calm' = IF alarm \ {"drive"} # {} THEN 0 ELSE Least(calm + 1, FAN_SLOWDOWN_COUNTER + 1)
  /\ UNCHANGED <<locals, fan_index, fan_offset, table, world, alarm, missed>>

(* Mutant: every run resets the counter. *)
SetForgetful ==
  /\ phase = "set"
  /\ fan_counter' = 0
  /\ \/ /\ new_pct > old_pct
        /\ old_pct' = new_pct /\ phase' = "store1"
     \/ /\ new_pct <= old_pct
        /\ phase' = "idle" /\ UNCHANGED old_pct
  /\ calm' = IF alarm \ {"drive"} # {} THEN 0 ELSE Least(calm + 1, FAN_SLOWDOWN_COUNTER + 1)
  /\ UNCHANGED <<locals, fan_index, fan_offset, table, world, alarm, missed>>

(* A higher percentage takes effect at once, a lower one when it has been  *)
(* asked for by FAN_SLOWDOWN_COUNTER + 1 runs in a row.                    *)
Set ==
  /\ phase = "set"
  /\ \/ /\ new_pct > old_pct
        /\ old_pct' = new_pct /\ fan_counter' = 0 /\ phase' = "store1"
     \/ /\ new_pct = old_pct
        /\ fan_counter' = 0 /\ phase' = "idle" /\ UNCHANGED old_pct
     \/ /\ new_pct < old_pct /\ fan_counter < FAN_SLOWDOWN_COUNTER
        /\ fan_counter' = fan_counter + 1 /\ phase' = "idle" /\ UNCHANGED old_pct
     \/ /\ new_pct < old_pct /\ fan_counter >= FAN_SLOWDOWN_COUNTER
        /\ old_pct' = new_pct /\ fan_counter' = 0 /\ phase' = "store1"
  /\ calm' = IF alarm \ {"drive"} # {} THEN 0 ELSE Least(calm + 1, FAN_SLOWDOWN_COUNTER + 1)
  /\ UNCHANGED <<locals, fan_index, fan_offset, table, world, alarm, missed>>

(* The least that the driver sets a power supply's fans to. *)
Raised(pct) == IF pct < 30 THEN 30 ELSE pct

(* onlp_fani_percentage_set: 0 is rejected, an absent power supply (or one *)
(* whose held status says so) is no error; nobody looks at the result.     *)
PercentageSet(p) ==
  \/ /\ old_pct # 0 /\ p \in present
     /\ pwm' = [pwm EXCEPT ![p] = Raised(old_pct)]
     /\ missed' = missed \ {p}
  \/ /\ missed' = missed \cup {p}
     /\ UNCHANGED pwm

(* Mutant: the second power supply is forgotten. *)
StoreOne ==
  /\ phase = "store1"
  /\ phase' = "idle"
  /\ 1 \in Psu /\ PercentageSet(1)
  /\ UNCHANGED <<locals, statics, present, alarm, calm>>

Store ==
  /\ \E p \in 1..2 :
       /\ phase = IF p = 1 THEN "store1" ELSE "store2"
       /\ phase' = IF p = 1 THEN "store2" ELSE "idle"
       /\ IF p \in Psu THEN PercentageSet(p) ELSE UNCHANGED <<pwm, missed>>
  /\ UNCHANGED <<locals, statics, present, alarm, calm>>

-----------------------------------------------------------------------------
(* onlp_sysi_platform_set_fans, between two runs. *)
SetFans(a) ==
  /\ phase = "idle"
  /\ a.index <= CHASSIS_THERMAL_COUNT
  /\ Div(a.ka, 2) + Div(a.kb, 10) <= 150
  /\ table' = [table EXCEPT ![a.index] = [ka |-> a.ka, kb |-> a.kb]]
  /\ fan_index' = IF a.offset # 0 THEN a.index ELSE -1
  /\ fan_offset' = a.offset
  /\ UNCHANGED <<phase, locals, old_pct, fan_counter, world, history>>

Pull(p) ==
  /\ p \in present
  /\ present' = present \ {p}
  /\ UNCHANGED <<phase, locals, statics, pwm, alarm, calm, missed>>

(* A power supply that is plugged in starts with its own default. *)
Plug(p) ==
  /\ p \in Psu \ present
  /\ present' = present \cup {p}
  /\ pwm' = [pwm EXCEPT ![p] = DefaultPct]
  /\ missed' = missed \cup {p}
  /\ UNCHANGED <<phase, locals, statics, alarm, calm>>

(* The process is restarted; the fans run on. *)
Restart ==
  /\ Faults
  /\ phase' = "idle"
  /\ NothingRead
  /\ old_pct' = DefaultPct /\ fan_counter' = 0
  /\ fan_index' = -1 /\ fan_offset' = 0 /\ table' = Table
  /\ alarm' = {} /\ calm' = 0 /\ missed' = Psu
  /\ UNCHANGED <<new_pct, world>>

Run == Start \/ CheckPsus \/ CheckFans \/ ReadSensors \/ ReadModules \/ Set \/ Store

Next ==
  \/ Run
  \/ \E a \in Tuning : SetFans(a)
  \/ \E p \in Psu : Pull(p) \/ Plug(p)
  \/ Restart

Spec == Init /\ [][Next]_vars

-----------------------------------------------------------------------------
(* Properties.                                                             *)

Pct == 0..FAN_SPEED_MAX_PERCENTAGE

TypeOK ==
  /\ phase \in {"idle", "psus", "fans", "sensors", "modules", "set", "store1", "store2"}
  /\ psu_info \in [Psu -> {"present", "absent", "unread"}]
  /\ highest_pct \in Nat /\ new_pct \in Pct
  /\ old_pct \in Pct /\ fan_counter \in 0..FAN_SLOWDOWN_COUNTER
  /\ fan_index \in -1..CHASSIS_THERMAL_COUNT /\ fan_offset \in Int
  /\ table \in [Index -> [ka : Int, kb : Int]]
  /\ present \subseteq Psu /\ pwm \in [Psu -> 30..FAN_SPEED_MAX_PERCENTAGE]
  /\ alarm \subseteq {"psu", "fan", "sensor", "unreadable", "module", "drive"}
  /\ calm \in 0..(FAN_SLOWDOWN_COUNTER + 1)
  /\ missed \subseteq Psu

Ended == phase \in {"idle", "store1", "store2"}

(* Whatever the order of its reads, a run that found a power supply or a   *)
(* fan missing, a sensor unreadable, or a sensor or a module at its        *)
(* warning threshold, ends with the target at the maximum.                 *)
AlarmIsMaximum ==
  Ended /\ alarm \ {"drive"} # {} => old_pct = FAN_SPEED_MAX_PERCENTAGE

(* Fans that follow the policy are only slowed down when the last six runs *)
(* (FAN_SLOWDOWN_COUNTER + 1) all went without an alarm.                   *)
CalmBeforeSlower ==
  [][\A p \in (present \cap present') \ missed :
       pwm'[p] < pwm[p] => calm > FAN_SLOWDOWN_COUNTER]_vars

(* Between two runs the fans run at the target the policy remembers, or at *)
(* the 30 % that their driver makes of less, except where the last store   *)
(* was lost or not made, the power supply was plugged in after it, or the  *)
(* process was restarted: it never looks at their files to find out.       *)
FansFollow ==
  phase = "idle" => \A p \in present \ missed : pwm[p] = Raised(old_pct)

(* Runs that keep asking for the same percentage end up with it as the     *)
(* target, the slow-down counter notwithstanding.                          *)
Settles ==
  (\E pct \in Pct : <>[](new_pct = pct)) => <>[](old_pct = new_pct)

(* "if temperature larger than warning threshold, set fan speed to         *)
(* maximun" (sysi.c), for the drive, whose threshold is 85 degrees.  The   *)
(* sensors and the modules are warned of; the drive is not.                *)
DriveWarned ==
  Ended /\ "drive" \in alarm => old_pct = FAN_SPEED_MAX_PERCENTAGE
=============================================================================
