-------------------------- MODULE FanPolicyProofs ---------------------------
(***************************************************************************)
(* Proofs about FanPolicy for any sensors, any temperatures, any test      *)
(* settings and one power supply or two, with and without faults: that an  *)
(* alarm ends in the maximum, that the fans run at the target, and that    *)
(* they are only slowed down after six calm runs.                          *)
(***************************************************************************)
EXTENDS FanPolicy, TLAPS

Phase == {"idle", "psus", "fans", "sensors", "modules", "set", "store1", "store2"}
Alarms == {"psu", "fan", "sensor", "unreadable", "module", "drive"}

-----------------------------------------------------------------------------
(* The greatest of a set of integers.  A set that is built element by      *)
(* element has one.                                                        *)

HasGreatest(s) == s \subseteq Int /\ \E m \in s : \A n \in s : n <= m

LEMMA GreatestOf ==
  ASSUME NEW s, HasGreatest(s)
  PROVE  Greatest(s) \in s /\ \A n \in s : n <= Greatest(s)
  BY DEF HasGreatest, Greatest

LEMMA GreatestOfOne == ASSUME NEW m \in Int PROVE HasGreatest({m})
  BY DEF HasGreatest

LEMMA GreatestOfMore ==
  ASSUME NEW s, HasGreatest(s), NEW n \in Int
  PROVE  HasGreatest(s \cup {n})
<1>1. PICK m \in s : \A k \in s : k <= m
  BY DEF HasGreatest
<1>2. s \subseteq Int
  BY DEF HasGreatest
<1>3. CASE n <= m
  BY <1>1, <1>2, <1>3 DEF HasGreatest
<1>4. CASE m <= n
  BY <1>1, <1>2, <1>4 DEF HasGreatest
<1> QED BY <1>1, <1>2, <1>3, <1>4

(* The values of a function at some of the sensors, taken one by one. *)
Values(s, f, I) == s \cup {f[i] : i \in I}

LEMMA GreatestOfValues ==
  ASSUME NEW s, NEW f, NEW I, NEW k, k \in I => f[k] \in Int,
         HasGreatest(Values(s, f, I \ {k}))
  PROVE  HasGreatest(Values(s, f, I))
<1>1. CASE k \in I
  <2>1. Values(s, f, I) = Values(s, f, I \ {k}) \cup {f[k]}
    BY <1>1 DEF Values
  <2> QED BY <1>1, <2>1, GreatestOfMore
<1>2. CASE k \notin I
  <2>1. I \ {k} = I
    BY <1>2
  <2> QED BY <2>1
<1> QED BY <1>1, <1>2

LEMMA GreatestOfSensors ==
  ASSUME NEW s, NEW f, NEW I, I \subseteq 0..9, \A i \in I : f[i] \in Int,
         HasGreatest(s)
  PROVE  HasGreatest(Values(s, f, I))
<1> DEFINE From(k) == I \ 0..(k - 1)
           Good(k) == HasGreatest(Values(s, f, From(k)))
<1>1. From(10) = {} /\ From(0) = I
  OBVIOUS
<1>2. Good(10)
  <2>1. Values(s, f, {}) = s
    BY DEF Values
  <2> QED BY <1>1, <2>1
<1>3. ASSUME NEW k \in 0..9, NEW m, m = k + 1, Good(m) PROVE Good(k)
  <2>1. From(m) = From(k) \ {k}
    BY <1>3
  <2>2. k \in From(k) => f[k] \in Int
    OBVIOUS
  <2> QED BY <1>3, <2>1, <2>2, GreatestOfValues
<1> HIDE DEF Good
<1>4. \A k \in 0..9 : \A m : m = k + 1 /\ Good(m) => Good(k)
  BY <1>3
<1>5. Good(9) /\ Good(8) /\ Good(7) /\ Good(6) /\ Good(5)
  BY <1>2, <1>4
<1>6. Good(4) /\ Good(3) /\ Good(2) /\ Good(1) /\ Good(0)
  BY <1>4, <1>5
<1> QED BY <1>1, <1>6 DEF Good

LEMMA GreatestTyped ==
  ASSUME NEW s, HasGreatest(s), NEW b \in s
  PROVE  Greatest(s) \in Int /\ Greatest(s) >= b
  BY GreatestOf DEF HasGreatest

-----------------------------------------------------------------------------
(* Types. *)

LEMMA DivTyped ==
  ASSUME NEW a \in Int
  PROVE  /\ Div(a, 100000) \in Int /\ Div(a, 10) \in Int /\ Div(a, 2) \in Int
  BY DEF Div

LEMMA TempPctTyped ==
  ASSUME TypeOK, NEW i \in Index, NEW t \in Int
  PROVE  TempPct(i, t) \in Int
<1>1. table[i].ka \in Int /\ table[i].kb \in Int
  BY DEF TypeOK
<1>2. t * table[i].ka \in Int
  BY <1>1
<1> QED BY <1>1, <1>2, DivTyped DEF TempPct

LEMMA IndexTyped ==
  /\ Sensor \cup {NVME} \subseteq 0..9 /\ NVME = 9
  /\ \A i \in 0..9 : i \in Index
  /\ CFP2 \in Index /\ QSFP28 \in Index
  BY SensorAssumption DEF NVME, CFP2, QSFP28, CHASSIS_THERMAL_COUNT, Index

LEMMA TableTyped == Table \in [Index -> [ka : Int, kb : Int]]
  BY DEF Table, Index, QSFP28, CHASSIS_THERMAL_COUNT

LEMMA SteppedTyped ==
  ASSUME NEW pct \in Nat
  PROVE  Stepped(pct) \in Pct /\ (pct >= 100 => Stepped(pct) = 100)
  BY DEF Stepped, Least, Pct, FAN_SPEED_MAX_PERCENTAGE

LEMMA ModulePctTyped ==
  ASSUME TypeOK, NEW i \in {CFP2, QSFP28}, NEW t \in Temp
  PROVE  ModulePct(i, t) \in Int /\ (t >= MODULE_WARNING_THRESHOLD => ModulePct(i, t) >= 100)
<1>0. i \in Index /\ t \in Int
  BY IndexTyped, TempAssumption
<1>1. TempPct(i, t) \in Int
  BY <1>0, TempPctTyped
<1>2. HasGreatest({FAN_SPEED_MAX_PERCENTAGE, TempPct(i, t)})
  BY <1>1 DEF HasGreatest, FAN_SPEED_MAX_PERCENTAGE
<1>3. /\ Greatest({FAN_SPEED_MAX_PERCENTAGE, TempPct(i, t)}) \in Int
      /\ Greatest({FAN_SPEED_MAX_PERCENTAGE, TempPct(i, t)}) >= 100
  BY <1>2, GreatestTyped DEF FAN_SPEED_MAX_PERCENTAGE
<1> QED BY <1>1, <1>3 DEF ModulePct

(* What a run makes of its sensors: an integer, not below that of any of   *)
(* them and at least 100 where one is hot.                                 *)
LEMMA SensorsTyped ==
  ASSUME TypeOK, NEW temp \in [Sensor \cup {NVME} -> Int], NEW hot \in SUBSET (Sensor \cup {NVME}),
         NEW s, s = {0} \cup {TempPct(i, temp[i]) : i \in Sensor \cup {NVME}}
                        \cup {FAN_SPEED_MAX_PERCENTAGE : i \in hot}
  PROVE  Greatest(s) \in Nat /\ (hot # {} => Greatest(s) >= 100)
<1> DEFINE I == Sensor \cup {NVME}
           f == [i \in I |-> TempPct(i, temp[i])]
<1>1. I \subseteq 0..9 /\ \A i \in I : f[i] \in Int
  <2>1. \A i \in I : temp[i] \in Int
    OBVIOUS
  <2>2. \A i \in I : i \in Index
    BY SensorAssumption DEF NVME, QSFP28, CHASSIS_THERMAL_COUNT, Index
  <2> QED BY <2>1, <2>2, IndexTyped, TempPctTyped
<1>2. Values({0}, f, I) = {0} \cup {TempPct(i, temp[i]) : i \in I}
  BY DEF Values
<1> HIDE DEF f, I
<1>3. HasGreatest(Values({0}, f, I))
  <2>1. HasGreatest({0})
    BY GreatestOfOne
  <2> QED BY <1>1, <2>1, GreatestOfSensors
<1>4. s = Values({0}, f, I) \/ s = Values({0}, f, I) \cup {100}
  BY <1>2 DEF FAN_SPEED_MAX_PERCENTAGE, I
<1>5. HasGreatest(s)
  BY <1>3, <1>4, GreatestOfMore
<1>6. Greatest(s) \in Int /\ Greatest(s) >= 0
  BY <1>5, GreatestTyped
<1>7. hot # {} => Greatest(s) >= 100
  BY <1>5, GreatestTyped DEF FAN_SPEED_MAX_PERCENTAGE
<1> QED BY <1>6, <1>7

(* And of the optical modules on top of it. *)
LEMMA ModulesTyped ==
  ASSUME TypeOK, NEW a \in Answers, NEW b \in Answers, NEW c \in Answers,
         NEW s, s = {highest_pct} \cup {ModulePct(CFP2, t) : t \in a \cup c}
                                  \cup {ModulePct(QSFP28, t) : t \in b}
  PROVE  /\ Greatest(s) \in Nat /\ Greatest(s) >= highest_pct
         /\ (\E t \in a \cup b : t >= MODULE_WARNING_THRESHOLD) => Greatest(s) >= 100
<1>1. \A t \in Temp : ModulePct(CFP2, t) \in Int /\ ModulePct(QSFP28, t) \in Int
  BY ModulePctTyped
<1>2. ASSUME NEW d \in Answers, NEW p, HasGreatest(p), NEW i \in {CFP2, QSFP28}
      PROVE  HasGreatest(p \cup {ModulePct(i, t) : t \in d})
  <2>1. CASE d = {}
    <3>1. p \cup {ModulePct(i, t) : t \in d} = p
      BY <2>1
    <3> QED BY <1>2, <3>1
  <2>2. CASE \E t \in Temp : d = {t}
    <3>1. PICK t \in Temp : d = {t}
      BY <2>2
    <3>2. p \cup {ModulePct(i, u) : u \in d} = p \cup {ModulePct(i, t)}
      BY <3>1
    <3>3. ModulePct(i, t) \in Int
      BY <1>1
    <3> QED BY <1>2, <3>2, <3>3, GreatestOfMore
  <2> QED BY <2>1, <2>2 DEF Answers
<1> DEFINE A == {ModulePct(CFP2, t) : t \in a}  B == {ModulePct(QSFP28, t) : t \in b}
           C == {ModulePct(CFP2, t) : t \in c}
<1>3. HasGreatest({highest_pct})
  BY GreatestOfOne DEF TypeOK
<1>4. HasGreatest({highest_pct} \cup A)
  BY <1>2, <1>3
<1>5. HasGreatest(({highest_pct} \cup A) \cup C)
  BY <1>2, <1>4
<1>6. HasGreatest((({highest_pct} \cup A) \cup C) \cup B)
  BY <1>2, <1>5
<1>7. s = (({highest_pct} \cup A) \cup C) \cup B
  OBVIOUS
<1>8. Greatest(s) \in Int /\ Greatest(s) >= highest_pct
  BY <1>6, <1>7, GreatestTyped
<1>9. ASSUME NEW t \in a \cup b, t >= MODULE_WARNING_THRESHOLD PROVE Greatest(s) >= 100
  <2>1. t \in Temp
    BY DEF Answers
  <2>2. PICK m \in s : m \in Int /\ m >= 100
    BY <1>9, <2>1, ModulePctTyped
  <2> QED BY <1>6, <1>7, <1>8, <2>2, GreatestTyped
<1> QED BY <1>8, <1>9 DEF TypeOK

LEMMA TypeInit == Init => TypeOK
<1> SUFFICES ASSUME Init PROVE TypeOK
  OBVIOUS
<1> QED BY TableTyped DEF Init, TypeOK, DefaultPct, Pct, FAN_SPEED_MAX_PERCENTAGE,
           FAN_SLOWDOWN_COUNTER, CHASSIS_THERMAL_COUNT

LEMMA SetTempTyped ==
  ASSUME TypeOK, NEW pct \in Pct, NEW why \in SUBSET Alarms, SetTemp(pct, why),
         UNCHANGED <<statics, world, calm, missed>>
  PROVE  TypeOK'
  BY DEF SetTemp, NothingRead, TypeOK, Alarms, statics, world

LEMMA ReadsTyped ==
  ASSUME TypeOK, Start \/ CheckPsus \/ CheckFans
  PROVE  TypeOK'
<1>0. FAN_SPEED_MAX_PERCENTAGE \in Pct /\ {"psu"} \in SUBSET Alarms /\ {"fan"} \in SUBSET Alarms
  BY DEF Pct, FAN_SPEED_MAX_PERCENTAGE, Alarms
<1>1. CASE Start
  BY <1>1 DEF Start, Goto, TypeOK, locals, statics, world
<1>2. CASE CheckPsus
  <2>1. UNCHANGED <<statics, world, calm, missed>>
    BY <1>2 DEF CheckPsus
  <2>2. \/ SetTemp(FAN_SPEED_MAX_PERCENTAGE, {"psu"})
        \/ /\ psu_info' \in [Psu -> {"present", "absent", "unread"}] /\ phase' = "fans"
           /\ UNCHANGED <<highest_pct, new_pct, alarm>>
    BY <1>2 DEF CheckPsus
  <2>3. CASE SetTemp(FAN_SPEED_MAX_PERCENTAGE, {"psu"})
    BY <1>0, <2>1, <2>3, SetTempTyped
  <2> QED BY <2>1, <2>2, <2>3 DEF TypeOK, statics, world
<1>3. CASE CheckFans
  <2>1. UNCHANGED <<statics, world, calm, missed>>
    BY <1>3 DEF CheckFans
  <2>2. \/ SetTemp(FAN_SPEED_MAX_PERCENTAGE, {"fan"})
        \/ phase' = "sensors" /\ NothingRead /\ UNCHANGED <<new_pct, alarm>>
    BY <1>3 DEF CheckFans
  <2>3. CASE SetTemp(FAN_SPEED_MAX_PERCENTAGE, {"fan"})
    BY <1>0, <2>1, <2>3, SetTempTyped
  <2>4. NothingRead =>
          psu_info' \in [Psu -> {"present", "absent", "unread"}] /\ highest_pct' \in Nat
    BY DEF NothingRead
  <2> QED BY <2>1, <2>2, <2>3, <2>4 DEF TypeOK, statics, world
<1> QED BY <1>1, <1>2, <1>3

(* What ReadSensors does when all sensors answer. *)
SensorsRead(info) ==
  LET mcelsius == [info EXCEPT ![NVME] = IF @ = Unreadable THEN 0 ELSE NvmeTemp(@)]
      hot == {i \in Sensor \cup {NVME} : mcelsius[i] + Offset(i) >= Warning[i]} IN
  /\ highest_pct' =
       Greatest({0} \cup {TempPct(i, mcelsius[i]) : i \in Sensor \cup {NVME}}
                    \cup {FAN_SPEED_MAX_PERCENTAGE : i \in hot})
  /\ alarm' = alarm \cup {"sensor" : i \in hot}
                    \cup {"drive" : i \in {j \in {NVME} : info[j] >= Warning[j]}}

LEMMA ReadSensorsCases ==
  ASSUME TypeOK, ReadSensors
  PROVE  /\ phase = "sensors" /\ UNCHANGED <<statics, world, calm, missed>>
         /\ \/ SetTemp(FAN_SPEED_MAX_PERCENTAGE, {"unreadable"})
            \/ /\ phase' = "modules" /\ UNCHANGED <<psu_info, new_pct>>
               /\ highest_pct' \in Nat /\ alarm' \subseteq alarm \cup {"sensor", "drive"}
               /\ "sensor" \in alarm' \ alarm => highest_pct' >= 100
<1>1. phase = "sensors" /\ UNCHANGED <<statics, world, calm, missed>>
  BY DEF ReadSensors
<1>2. PICK info \in [Sensor \cup {NVME} -> ThermalInfo] :
        \/ SetTemp(FAN_SPEED_MAX_PERCENTAGE, {"unreadable"})
        \/ /\ \A i \in Sensor : info[i] # Unreadable
           /\ SensorsRead(info) /\ phase' = "modules" /\ UNCHANGED <<psu_info, new_pct>>
  BY DEF ReadSensors, SensorsRead
<1> DEFINE mcelsius == [info EXCEPT ![NVME] = IF @ = Unreadable THEN 0 ELSE NvmeTemp(@)]
           hot == {i \in Sensor \cup {NVME} : mcelsius[i] + Offset(i) >= Warning[i]}
<1>3. ASSUME SensorsRead(info)
      PROVE  /\ highest_pct' \in Nat /\ alarm' \subseteq alarm \cup {"sensor", "drive"}
             /\ "sensor" \in alarm' \ alarm => highest_pct' >= 100
  <2>1. mcelsius \in [Sensor \cup {NVME} -> Int]
    <3>1. \A t \in ThermalInfo : t \in Int
      BY TempAssumption DEF ThermalInfo, Unreadable
    <3>2. \A t \in Int : NvmeTemp(t) \in Int
      BY DEF NvmeTemp
    <3> QED BY <3>1, <3>2
  <2>2. /\ highest_pct' =
             Greatest({0} \cup {TempPct(i, mcelsius[i]) : i \in Sensor \cup {NVME}}
                          \cup {FAN_SPEED_MAX_PERCENTAGE : i \in hot})
        /\ alarm' = alarm \cup {"sensor" : i \in hot}
                          \cup {"drive" : i \in {j \in {NVME} : info[j] >= Warning[j]}}
    BY <1>3 DEF SensorsRead
  <2>3. hot \in SUBSET (Sensor \cup {NVME})
    OBVIOUS
  <2> HIDE DEF mcelsius, hot
  <2>4. highest_pct' \in Nat /\ (hot # {} => highest_pct' >= 100)
    BY <2>1, <2>2, <2>3, SensorsTyped
  <2> QED BY <2>2, <2>4
<1> QED BY <1>1, <1>2, <1>3

LEMMA ReadModulesCases ==
  ASSUME TypeOK, ReadModules
  PROVE  /\ phase = "modules" /\ UNCHANGED <<statics, world, calm, missed>>
         /\ \E pct \in Pct, why \in SUBSET {"module"} :
              /\ SetTemp(pct, why)
              /\ why # {} \/ highest_pct >= 100 => pct = 100
<1>1. PICK a \in Answers, b \in Answers, c \in Leftover :
        LET highest == Greatest({highest_pct} \cup {ModulePct(CFP2, t) : t \in a \cup c}
                                              \cup {ModulePct(QSFP28, t) : t \in b})
            hot == \E t \in a \cup b : t >= MODULE_WARNING_THRESHOLD IN
        SetTemp(Stepped(highest), {"module" : m \in {d \in {TRUE} : hot}})
  BY DEF ReadModules
<1> DEFINE highest == Greatest({highest_pct} \cup {ModulePct(CFP2, t) : t \in a \cup c}
                                             \cup {ModulePct(QSFP28, t) : t \in b})
           hot == \E t \in a \cup b : t >= MODULE_WARNING_THRESHOLD
           why == {"module" : m \in {d \in {TRUE} : hot}}
<1>2. c \in Answers
  BY DEF Leftover, Answers
<1>3. highest \in Nat /\ highest >= highest_pct /\ (hot => highest >= 100)
  BY <1>2, ModulesTyped
<1>4. SetTemp(Stepped(highest), why)
  BY <1>1
<1>5. why \in SUBSET {"module"} /\ (why # {} => hot)
  OBVIOUS
<1> HIDE DEF highest, hot, why
<1>6. highest_pct \in Nat
  BY DEF TypeOK
<1>7. Stepped(highest) \in Pct /\ (why # {} \/ highest_pct >= 100 => Stepped(highest) = 100)
  BY <1>3, <1>5, <1>6, SteppedTyped
<1> QED BY <1>4, <1>5, <1>7 DEF ReadModules

LEMMA SensorStepsTyped ==
  ASSUME TypeOK, ReadSensors \/ ReadModules
  PROVE  TypeOK'
<1>1. CASE ReadModules
  <2>1. SUBSET {"module"} \subseteq SUBSET Alarms
    BY DEF Alarms
  <2> QED BY <1>1, <2>1, ReadModulesCases, SetTempTyped
<1>2. CASE ReadSensors
  <2>1. FAN_SPEED_MAX_PERCENTAGE \in Pct /\ {"unreadable"} \in SUBSET Alarms
    BY DEF Pct, FAN_SPEED_MAX_PERCENTAGE, Alarms
  <2>2. UNCHANGED <<statics, world, calm, missed>>
    BY <1>2, ReadSensorsCases
  <2>3. CASE SetTemp(FAN_SPEED_MAX_PERCENTAGE, {"unreadable"})
    BY <2>1, <2>2, <2>3, SetTempTyped
  <2>4. CASE /\ phase' = "modules" /\ UNCHANGED <<psu_info, new_pct>>
             /\ highest_pct' \in Nat /\ alarm' \subseteq alarm \cup {"sensor", "drive"}
    BY <2>2, <2>4 DEF TypeOK, statics, world
  <2> QED BY <1>2, <2>3, <2>4, ReadSensorsCases
<1> QED BY <1>1, <1>2

LEMMA SetStoreTyped ==
  ASSUME TypeOK, Set \/ Store
  PROVE  TypeOK'
<1>1. CASE Set
  BY <1>1 DEF Set, TypeOK, locals, world, Least, FAN_SLOWDOWN_COUNTER
<1>2. CASE Store
  <2>1. /\ pwm' \in [Psu -> 30..FAN_SPEED_MAX_PERCENTAGE] /\ missed' \subseteq Psu
        /\ phase' \in {"store2", "idle"}
    BY <1>2 DEF Store, PercentageSet, Raised, TypeOK, Pct, FAN_SPEED_MAX_PERCENTAGE
  <2> QED BY <1>2, <2>1 DEF Store, TypeOK, locals, statics
<1> QED BY <1>1, <1>2

LEMMA OutsideTyped ==
  ASSUME TypeOK
  PROVE  /\ \A a \in Tuning : SetFans(a) => TypeOK'
         /\ \A p \in Psu : Pull(p) \/ Plug(p) => TypeOK'
         /\ Restart => TypeOK'
<1>1. ASSUME NEW a \in Tuning, SetFans(a) PROVE TypeOK'
  <2>1. a.index \in 0..CHASSIS_THERMAL_COUNT /\ a.ka \in Int /\ a.kb \in Int /\ a.offset \in Int
    BY <1>1, TuningAssumption DEF SetFans, CHASSIS_THERMAL_COUNT
  <2>2. /\ table' \in [Index -> [ka : Int, kb : Int]]
        /\ fan_index' \in -1..CHASSIS_THERMAL_COUNT /\ fan_offset' \in Int
    BY <1>1, <2>1 DEF SetFans, TypeOK, Index, QSFP28, CHASSIS_THERMAL_COUNT
  <2> QED BY <1>1, <2>2 DEF SetFans, TypeOK, locals, world, history
<1>2. ASSUME NEW p \in Psu, Pull(p) \/ Plug(p) PROVE TypeOK'
  <2>1. pwm' \in [Psu -> 30..FAN_SPEED_MAX_PERCENTAGE]
    BY <1>2 DEF Pull, Plug, TypeOK, DefaultPct, FAN_SPEED_MAX_PERCENTAGE
  <2> QED BY <1>2, <2>1 DEF Pull, Plug, TypeOK, locals, statics
<1>3. ASSUME Restart PROVE TypeOK'
  <2>1. psu_info' \in [Psu -> {"present", "absent", "unread"}] /\ highest_pct' = 0
    BY <1>3 DEF Restart, NothingRead
  <2>2. old_pct' \in Pct /\ fan_counter' = 0 /\ fan_index' = -1 /\ fan_offset' = 0
    BY <1>3 DEF Restart, DefaultPct, Pct, FAN_SPEED_MAX_PERCENTAGE
  <2> QED BY <1>3, <2>1, <2>2, TableTyped
          DEF Restart, TypeOK, world, FAN_SLOWDOWN_COUNTER, CHASSIS_THERMAL_COUNT
<1> QED BY <1>1, <1>2, <1>3

LEMMA TypeStep == TypeOK /\ [Next]_vars => TypeOK'
<1> SUFFICES ASSUME TypeOK, [Next]_vars PROVE TypeOK'
  OBVIOUS
<1>1. CASE UNCHANGED vars
  BY <1>1 DEF vars, locals, statics, world, history, TypeOK
<1> QED BY <1>1, ReadsTyped, SensorStepsTyped, SetStoreTyped, OutsideTyped DEF Next, Run

(* The target, the counter and what the run has computed stay in range,    *)
(* whatever the sensors read and whatever table a test command sets.       *)
THEOREM PolicyTypeCorrect == Spec => []TypeOK
  BY TypeInit, TypeStep, PTL DEF Spec

-----------------------------------------------------------------------------
(* An alarm is not forgotten on the way to the target: while a run looks   *)
(* at its power supplies there is none, after the sensors it shows in the  *)
(* percentage found so far, and then in the one the run asks for.          *)

Serious == alarm \ {"drive"} # {}

Alarmed ==
  /\ phase \in {"psus", "fans", "sensors"} => alarm = {}
  /\ phase = "modules" /\ Serious => highest_pct >= 100
  /\ phase = "set" /\ Serious => new_pct = 100
  /\ AlarmIsMaximum

LEMMA AlarmedRun == TypeOK /\ Alarmed /\ Run => Alarmed'
<1> SUFFICES ASSUME TypeOK, Alarmed, Run PROVE Alarmed'
  OBVIOUS
<1> USE DEF Alarmed, AlarmIsMaximum, Ended, Serious, FAN_SPEED_MAX_PERCENTAGE
<1>0. ASSUME NEW pct, NEW why, SetTemp(pct, why), pct = 100 \/ (why = {} /\ ~Serious)
      PROVE  Alarmed'
  BY <1>0 DEF SetTemp
<1>1. CASE Start
  BY <1>1 DEF Start, Goto
<1>2. CASE CheckPsus
  BY <1>0, <1>2 DEF CheckPsus
<1>3. CASE CheckFans
  BY <1>0, <1>3 DEF CheckFans
<1>4. CASE ReadSensors
  <2>1. phase = "sensors"
    BY <1>4, ReadSensorsCases
  <2>2. CASE SetTemp(FAN_SPEED_MAX_PERCENTAGE, {"unreadable"})
    BY <1>0, <2>2
  <2>3. CASE /\ phase' = "modules" /\ alarm' \subseteq alarm \cup {"sensor", "drive"}
             /\ "sensor" \in alarm' \ alarm => highest_pct' >= 100
    BY <2>1, <2>3
  <2> QED BY <1>4, <2>2, <2>3, ReadSensorsCases
<1>5. CASE ReadModules
  <2>1. PICK pct \in Pct, why \in SUBSET {"module"} :
          SetTemp(pct, why) /\ (why # {} \/ highest_pct >= 100 => pct = 100)
    BY <1>5, ReadModulesCases
  <2>2. phase = "modules"
    BY <1>5, ReadModulesCases
  <2> QED BY <1>0, <2>1, <2>2
<1>6. CASE Set
  BY <1>6 DEF Set, TypeOK, Pct
<1>7. CASE Store
  BY <1>7 DEF Store, statics
<1> QED BY <1>1, <1>2, <1>3, <1>4, <1>5, <1>6, <1>7 DEF Run

LEMMA AlarmedStep == TypeOK /\ Alarmed /\ [Next]_vars => Alarmed'
<1> SUFFICES ASSUME TypeOK, Alarmed, [Next]_vars PROVE Alarmed'
  OBVIOUS
<1> USE DEF Alarmed, AlarmIsMaximum, Ended, Serious, locals, statics, history
<1>1. CASE UNCHANGED vars
  BY <1>1 DEF vars
<1>2. ASSUME NEW a \in Tuning, SetFans(a) PROVE Alarmed'
  BY <1>2 DEF SetFans
<1>3. ASSUME NEW p \in Psu, Pull(p) \/ Plug(p) PROVE Alarmed'
  BY <1>3 DEF Pull, Plug
<1>4. CASE Restart
  BY <1>4 DEF Restart
<1> QED BY <1>1, <1>2, <1>3, <1>4, AlarmedRun DEF Next

(* A run that found an alarm ends with the target at the maximum.          *)
THEOREM AlarmsReachTarget == Spec => []AlarmIsMaximum
<1>1. Init => Alarmed
  BY DEF Init, Alarmed, AlarmIsMaximum, Ended, Serious
<1>2. Alarmed => AlarmIsMaximum
  BY DEF Alarmed
<1> QED BY TypeInit, TypeStep, AlarmedStep, <1>1, <1>2, PTL DEF Spec

-----------------------------------------------------------------------------
(* The fans run at the target, or at 30 % if that is less, but for those   *)
(* that the stores of this run have not reached yet.                       *)

Stored(p) == phase # "store1" /\ (phase = "store2" => p = 1)

Following == \A p \in present \ missed : Stored(p) => pwm[p] = Raised(old_pct)

LEMMA StoreCases ==
  ASSUME TypeOK, Store
  PROVE  /\ phase \in {"store1", "store2"} /\ phase' \in {"store2", "idle"}
         /\ UNCHANGED <<locals, statics, present, alarm, calm>>
         /\ \E p \in 1..2 :
              /\ \A q \in Psu : Stored(q)' => Stored(q) \/ q = p
              /\ \A q \in Psu \ {p} : pwm'[q] = pwm[q] /\ (q \in missed <=> q \in missed')
              /\ p \in Psu => \/ p \in missed' /\ pwm' = pwm
                              \/ pwm'[p] = Raised(old_pct)
<1>1. PICK p \in 1..2 :
        /\ phase = IF p = 1 THEN "store1" ELSE "store2"
        /\ phase' = IF p = 1 THEN "store2" ELSE "idle"
        /\ IF p \in Psu THEN PercentageSet(p) ELSE UNCHANGED <<pwm, missed>>
  BY DEF Store
<1>2. \A q \in Psu : Stored(q)' => Stored(q) \/ q = p
  BY <1>1, PsuAssumption DEF Stored
<1>3. /\ \A q \in Psu \ {p} : pwm'[q] = pwm[q] /\ (q \in missed <=> q \in missed')
      /\ p \in Psu => (p \in missed' /\ pwm' = pwm) \/ pwm'[p] = Raised(old_pct)
  BY <1>1 DEF PercentageSet, TypeOK
<1> QED BY <1>1, <1>2, <1>3 DEF Store

LEMMA RunUntilSet ==
  ASSUME TypeOK, Start \/ CheckPsus \/ CheckFans \/ ReadSensors \/ ReadModules
  PROVE  /\ UNCHANGED <<statics, world, calm, missed>>
         /\ phase \notin {"store1", "store2"} /\ phase' \notin {"store1", "store2"}
<1>1. CASE Start
  BY <1>1 DEF Start, Goto
<1>2. CASE CheckPsus
  BY <1>2 DEF CheckPsus, SetTemp
<1>3. CASE CheckFans
  BY <1>3 DEF CheckFans, SetTemp
<1>4. CASE ReadSensors
  BY <1>4, ReadSensorsCases DEF SetTemp
<1>5. CASE ReadModules
  BY <1>5, ReadModulesCases DEF SetTemp
<1> QED BY <1>1, <1>2, <1>3, <1>4, <1>5

LEMMA FollowingStep == TypeOK /\ Following /\ [Next]_vars => Following'
<1> SUFFICES ASSUME TypeOK, Following, [Next]_vars PROVE Following'
  OBVIOUS
<1> USE DEF Following, locals, statics, world, history
<1>1. CASE UNCHANGED vars
  BY <1>1 DEF vars, Stored
<1>2. CASE Start \/ CheckPsus \/ CheckFans \/ ReadSensors \/ ReadModules
  BY <1>2, RunUntilSet DEF Stored
<1>3. CASE Set
  BY <1>3 DEF Set, Stored
<1>4. CASE Store
  BY <1>4, StoreCases DEF TypeOK
<1>5. ASSUME NEW a \in Tuning, SetFans(a) PROVE Following'
  BY <1>5 DEF SetFans, Stored
<1>6. ASSUME NEW p \in Psu, Pull(p) PROVE Following'
  BY <1>6 DEF Pull, Stored
<1>7. ASSUME NEW p \in Psu, Plug(p) PROVE Following'
  BY <1>7 DEF Plug, Stored, TypeOK
<1>8. CASE Restart
  BY <1>8 DEF Restart, TypeOK
<1> QED BY <1>1, <1>2, <1>3, <1>4, <1>5, <1>6, <1>7, <1>8 DEF Next, Run

(* Between two runs the fans that got the last store run at the target.    *)
THEOREM FansAtTarget == Spec => []FansFollow
<1>1. Init => Following
  BY DEF Init, Following, Raised, DefaultPct
<1>2. Following => FansFollow
  BY DEF Following, FansFollow, Stored
<1> QED BY TypeInit, TypeStep, FollowingStep, <1>1, <1>2, PTL DEF Spec

-----------------------------------------------------------------------------
(* The counter of slower runs never runs ahead of the calm ones, and while *)
(* a target is stored no fan that follows runs faster, unless it is calm.  *)

Patient ==
  /\ fan_counter <= calm
  /\ phase \in {"store1", "store2"} =>
       \A p \in present \ missed : pwm[p] <= Raised(old_pct) \/ calm > FAN_SLOWDOWN_COUNTER

LEMMA PatientSet ==
  ASSUME TypeOK, Alarmed, Following, Patient, Set
  PROVE  Patient'
<1>1. /\ phase = "set" /\ UNCHANGED <<world, alarm, missed>>
      /\ calm' = IF Serious THEN 0 ELSE Least(calm + 1, FAN_SLOWDOWN_COUNTER + 1)
  BY DEF Set, Serious
<1>2. /\ calm \in 0..6 /\ fan_counter \in 0..5 /\ fan_counter <= calm
      /\ new_pct \in 0..100 /\ old_pct \in 0..100
  BY DEF TypeOK, Patient, Pct, FAN_SLOWDOWN_COUNTER, FAN_SPEED_MAX_PERCENTAGE
<1>3. Serious => new_pct = 100
  BY <1>1 DEF Alarmed
<1>4. \A p \in present \ missed : pwm[p] = Raised(old_pct)
  BY <1>1 DEF Following, Stored
<1>5. CASE new_pct > old_pct
  <2>1. old_pct' = new_pct /\ fan_counter' = 0
    BY <1>2, <1>5 DEF Set
  <2>2. calm' \in Nat
    BY <1>1, <1>2 DEF Least, FAN_SLOWDOWN_COUNTER
  <2> QED BY <1>1, <1>2, <1>4, <1>5, <2>1, <2>2 DEF Patient, world, Raised
<1>6. CASE new_pct <= old_pct /\ phase' = "idle"
  <2>1. calm' \in Nat /\ (~Serious => fan_counter + 1 <= calm' \/ fan_counter = 5)
    BY <1>1, <1>2 DEF Least, FAN_SLOWDOWN_COUNTER
  <2>2. fan_counter' = 0 \/ (~Serious /\ fan_counter < 5 /\ fan_counter' = fan_counter + 1)
    BY <1>2, <1>3, <1>6 DEF Set, FAN_SLOWDOWN_COUNTER
  <2> QED BY <1>6, <2>1, <2>2 DEF Patient
<1>7. CASE new_pct < old_pct /\ phase' = "store1"
  <2>1. fan_counter' = 0 /\ fan_counter >= 5 /\ ~Serious
    BY <1>2, <1>3, <1>7 DEF Set, FAN_SLOWDOWN_COUNTER
  <2>2. calm' = 6
    BY <1>1, <1>2, <2>1 DEF Least, FAN_SLOWDOWN_COUNTER
  <2> QED BY <2>1, <2>2 DEF Patient, FAN_SLOWDOWN_COUNTER
<1> QED BY <1>2, <1>5, <1>6, <1>7 DEF Set

LEMMA PatientStep == TypeOK /\ Alarmed /\ Following /\ Patient /\ [Next]_vars => Patient'
<1> SUFFICES ASSUME TypeOK, Alarmed, Following, Patient, [Next]_vars PROVE Patient'
  OBVIOUS
<1> USE DEF Patient, locals, statics, world, history
<1>1. CASE UNCHANGED vars
  BY <1>1 DEF vars
<1>2. CASE Start \/ CheckPsus \/ CheckFans \/ ReadSensors \/ ReadModules
  BY <1>2, RunUntilSet
<1>3. CASE Store
  <2>1. PICK p \in 1..2 :
          /\ \A q \in Psu \ {p} : pwm'[q] = pwm[q] /\ (q \in missed <=> q \in missed')
          /\ p \in Psu => (p \in missed' /\ pwm' = pwm) \/ pwm'[p] = Raised(old_pct)
    BY <1>3, StoreCases
  <2>2. /\ phase \in {"store1", "store2"} /\ present \subseteq Psu
        /\ UNCHANGED <<old_pct, fan_counter, present, calm>>
    BY <1>3, StoreCases DEF TypeOK
  <2>3. Raised(old_pct) \in Int /\ Raised(old_pct)' = Raised(old_pct)
    BY <2>2 DEF TypeOK, Pct, Raised
  <2> QED BY <2>1, <2>2, <2>3
<1>4. ASSUME NEW a \in Tuning, SetFans(a) PROVE Patient'
  BY <1>4 DEF SetFans
<1>5. ASSUME NEW p \in Psu, Pull(p) PROVE Patient'
  BY <1>5 DEF Pull
<1>6. ASSUME NEW p \in Psu, Plug(p) PROVE Patient'
  BY <1>6 DEF Plug, TypeOK
<1>7. CASE Restart
  BY <1>7 DEF Restart
<1> QED BY <1>1, <1>2, <1>3, <1>4, <1>5, <1>6, <1>7, PatientSet DEF Next, Run

(* Fans that follow the policy are only slowed down when the last six runs *)
(* all went without an alarm.                                              *)
THEOREM SlowerWhenCalm == Spec => CalmBeforeSlower
<1>1. Init => Alarmed /\ Following /\ Patient
  BY DEF Init, Alarmed, AlarmIsMaximum, Ended, Serious, Following, Patient, Raised, DefaultPct
<1>2. ASSUME TypeOK, Patient, [Next]_vars
      PROVE  [\A p \in (present \cap present') \ missed :
                pwm'[p] < pwm[p] => calm > FAN_SLOWDOWN_COUNTER]_vars
  <2> SUFFICES ASSUME NEW p \in (present \cap present') \ missed, pwm'[p] < pwm[p]
               PROVE  calm > FAN_SLOWDOWN_COUNTER
    OBVIOUS
  <2> USE <1>2
  <2>0. pwm[p] \in Int /\ Raised(old_pct) \in Int
    BY DEF TypeOK, Pct, Raised
  <2>1. ASSUME pwm' = pwm PROVE FALSE
    BY <2>0, <2>1
  <2>2. CASE Store
    <3>1. pwm'[p] = pwm[p] \/ pwm'[p] = Raised(old_pct)
      BY <2>2, StoreCases DEF TypeOK
    <3>2. phase \in {"store1", "store2"}
      BY <2>2, StoreCases
    <3> QED BY <2>0, <3>1, <3>2 DEF Patient
  <2>3. CASE Start \/ CheckPsus \/ CheckFans \/ ReadSensors \/ ReadModules
    BY <2>1, <2>3, RunUntilSet DEF world
  <2>4. ASSUME NEW q \in Psu, Plug(q) PROVE FALSE
    BY <2>0, <2>4 DEF Plug, TypeOK
  <2> QED BY <2>1, <2>2, <2>3, <2>4
          DEF Next, Run, Set, SetFans, Pull, Restart, world, vars
<1> QED BY TypeInit, TypeStep, AlarmedStep, FollowingStep, PatientStep, <1>1, <1>2, PTL
        DEF Spec, CalmBeforeSlower

=============================================================================
