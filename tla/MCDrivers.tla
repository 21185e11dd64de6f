----------------------------- MODULE MCDrivers -----------------------------
(***************************************************************************)
(* The four x86 drivers that are clients of IpmiService, for TLC: Led, Fan, *)
(* Thermal and Sys.  Each has an IPMI interface, a lock and a cache of its *)
(* own and they share no state, so what they do together is what each does *)
(* alone: one of them moves in a behaviour, the others stay as they began. *)
(***************************************************************************)
EXTENDS MCLed, Integers, Sequences

CONSTANTS User,                            \* the processes, of all but Led
          Fans, FanReading, Percent,       \* of Fan
          Sensors, TempReading, Limit, Temps,  \* of Thermal
          EEPROM_SIZE, ReadLen, FruSize, Piu, Others, FPGA_SIZE, Errno  \* of Sys

VARIABLES part,  \* the driver that moves
          fan_place, fan_answer, fan_degraded, fan_op, fan_at, fan_valid, fan_fresh,
          fan_data, fan_reading, pwm, fan_last, fan_recent,
          th_place, th_answer, th_degraded, th_op, th_at, temp, th_valid, th_fresh,
          thermal_data, th_reading, internal, th_last, th_recent,
          sys_place, sys_answer, sys_degraded, sys_op, sys_at,
          off, count, retval, buf, v, reg, sys_last, asked, garbled

fan == <<fan_place, fan_answer, fan_degraded, fan_op, fan_at, fan_valid, fan_fresh,
         fan_data, fan_reading, pwm, fan_last, fan_recent>>
thermal == <<th_place, th_answer, th_degraded, th_op, th_at, temp, th_valid, th_fresh,
             thermal_data, th_reading, internal, th_last, th_recent>>
sys == <<sys_place, sys_answer, sys_degraded, sys_op, sys_at,
         off, count, retval, buf, v, reg, sys_last, asked, garbled>>

F == INSTANCE Fan WITH
  Caller <- User, Reading <- FanReading,
  place <- fan_place, answer <- fan_answer, degraded <- fan_degraded, op <- fan_op, at <- fan_at,
  valid <- fan_valid, fresh <- fan_fresh, reading <- fan_reading, last <- fan_last,
  recent <- fan_recent

T == INSTANCE Thermal WITH
  Caller <- User, Reading <- TempReading,
  place <- th_place, answer <- th_answer, degraded <- th_degraded, op <- th_op, at <- th_at,
  valid <- th_valid, fresh <- th_fresh, reading <- th_reading, last <- th_last,
  recent <- th_recent

S == INSTANCE Sys WITH
  Caller <- User,
  place <- sys_place, answer <- sys_answer, degraded <- sys_degraded, op <- sys_op, at <- sys_at,
  last <- sys_last

ASSUME FanAssumption == F!ConstantsOK
ASSUME SysAssumption == S!ConstantsOK

(* A sensor of two readings and one that stays as it is, with limits of    *)
(* their own; the low bytes of EIO and ETIMEDOUT, cut to three bits.       *)
MCTempReading == <<{1, 2}, {1}>>
MCLimit == <<2, 3>>
MCErrno == {{4, 5, 6}, {4}}

DriversInit ==
  /\ part \in {"led", "fan", "thermal", "sys"}
  /\ Init /\ F!Init /\ T!Init /\ S!Init
  /\ part # "fan" => fan_reading = [f \in Fans |-> CHOOSE r \in FanReading : TRUE]
  /\ part # "thermal" => th_reading = [s \in Sensors |-> CHOOSE r \in TempReading[s] : TRUE]
  /\ part # "sys" => reg = {}

DriversNext ==
  /\ UNCHANGED part
  /\ \/ part = "led" /\ Next /\ UNCHANGED <<fan, thermal, sys>>
     \/ part = "fan" /\ F!Next /\ UNCHANGED <<vars, thermal, sys>>
     \/ part = "thermal" /\ T!Next /\ UNCHANGED <<vars, fan, sys>>
     \/ part = "sys" /\ S!Next /\ UNCHANGED <<vars, fan, thermal>>

Drivers == DriversInit /\ [][DriversNext]_<<part, vars, fan, thermal, sys>>

-----------------------------------------------------------------------------
(* Properties.  Those of Led keep their names.                             *)

(* Each of the four drivers is well typed. *)
DriversTypeOK ==
  /\ part = "led" => TypeOK
  /\ part = "fan" => F!TypeOK
  /\ part = "thermal" => T!TypeOK
  /\ part = "sys" => S!TypeOK

(* What a show of Fan or Thermal prints its own fan or sensor reported     *)
(* within five seconds, and as a whole record, whichever refreshes failed  *)
(* before, until a message times out.                                      *)
ShowsRecent ==
  /\ part = "fan" => F!ShowsRecent
  /\ part = "thermal" => T!ShowsRecent

(* A store that reports success has done what it was asked for, as far as  *)
(* the number fits a byte (Fan) and the BMC did not refuse it (Thermal);   *)
(* no PIU is reset that nobody asked for, and two stores and the FPGA,     *)
(* which change one register, take back no bit of one another (Sys).       *)
StoresAsAsked ==
  /\ []((part = "fan" => F!SuccessIsTrue) /\ (part = "thermal" => T!StoredUnlessRefused)
        /\ (part = "sys" => S!ResetsWereAsked))
  /\ S!StoresOnlySet

(* A read of the EEPROM returns the bytes it was asked for, in order, and  *)
(* a read of whole pieces never gets more than it has room for (Sys).      *)
ReadsInOrder == part = "sys" => S!ReadsInOrder /\ S!WholePiecesFit
=============================================================================
