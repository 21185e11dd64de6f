------------------------------- MODULE MCArm -------------------------------
(***************************************************************************)
(* Three arm64 parts that share no state, for TLC: the LED driver, the     *)
(* power supply driver and the LED policy (which has the registers it      *)
(* stores to in it).  One of them moves in a behaviour, the others stay as *)
(* they began.                                                             *)
(***************************************************************************)
EXTENDS ArmLed, FiniteSets, TLC

CONSTANTS NoCaller, Unit, Request, Speed, Word, Hold,   \* of ArmPsu
          PolicyLeds                                    \* the LEDs of LedPolicy

VARIABLES part,  \* what moves
          phase, psu_info, psu_new_mode, pending, pol_plugged, recent, pol_light, stayed, unread,
          lost,
          mutex, job, psu_at, work, psu_data, psu_valid, last_updated, plugged, pwm, out,
          changed, touched

policy == <<phase, psu_info, psu_new_mode, pending, pol_plugged, recent, pol_light, stayed,
            unread, lost>>
psu == <<mutex, job, psu_at, work, psu_data, psu_valid, last_updated, plugged, pwm, out,
         changed, touched>>

(* The power supply LED and a CFP2 LED, which share their registers; a     *)
(* QSFP28 LED behaves like the latter.                                     *)
MCLights == {"LED_PSU", "LED_CFP1"}
CallerSymmetry == Permutations(Caller)

L == INSTANCE LedPolicy WITH
  Lights <- PolicyLeds, plugged <- pol_plugged, light <- pol_light

U == INSTANCE ArmPsu WITH at <- psu_at, valid <- psu_valid

ASSUME PolicyAssumption == L!ConstantsOK
ASSUME PsuAssumption == U!ConstantsOK

(* The policy with a QSFP28 port and a CFP2 slot; for the power supplies   *)
(* two words of LINEAR11: 48.25 (193 * 2^-2) and -1.5 (-3 * 2^-1).         *)
MCPolicyLeds == {"LED_SYS", "LED_PSU", "LED_QSFP1", "LED_CFP1"}
MCWord == {30 * 2048 + 193, 31 * 2048 + 2045}

ArmInit ==
  /\ part \in {"led", "policy", "psu"}
  /\ Init /\ L!Init /\ U!Init
  /\ part # "policy" => pol_plugged = {}
  /\ part # "psu" => \A p \in Unit : plugged[p] /\ pwm[p] = CHOOSE s \in Speed : TRUE

ArmNext ==
  /\ UNCHANGED part
  /\ \/ part = "led" /\ Next /\ UNCHANGED <<policy, psu>>
     \/ part = "policy" /\ L!Next /\ UNCHANGED <<vars, psu>>
     \/ part = "psu" /\ U!Next /\ UNCHANGED <<vars, policy>>

(* Bound: in a run of the policy at most MaxTrouble things are exchanged   *)
(* (or were a short time before), and at most as many reads and stores     *)
(* fail.                                                                   *)
MaxTrouble == 2
FewTroubles ==
  phase # "idle" =>
    /\ Cardinality(L!Things \ stayed) <= MaxTrouble
    /\ Cardinality(unread) + Cardinality(lost) <= MaxTrouble

Arm == ArmInit /\ [][ArmNext]_<<part, vars, policy, psu>>

-----------------------------------------------------------------------------
(* Properties.  Those of ArmLed keep their names.                          *)

(* Each is well typed; a process past the lock of ArmPsu has it. *)
ArmTypeOK ==
  /\ part = "led" => TypeOK
  /\ part = "policy" => L!TypeOK
  /\ part = "psu" => U!TypeOK

(* ArmLed: a show is at most five seconds out of date, a store that finds  *)
(* its LED dark puts it into every mode of its capabilities, and it        *)
(* changes no other LED, although it writes whole registers.               *)
DriverLights == ShowsTheTruth /\ FromDark /\ OthersKept

(* LedPolicy: at the end of a run a power supply that was out longer than  *)
(* its status is held has not left the LED green, nor two that were read   *)
(* as in place red, modules that stayed in place are lit and empty ports   *)
(* dark, whatever was exchanged or not read meanwhile.                     *)
PolicyLights ==
  part = "policy" =>
    L!MissingIsNotGreen /\ L!NoFalseAlarm /\ L!PresentIsLit /\ L!AbsentIsDark

(* ArmPsu: no show reports a unit that has been out for as long as         *)
(* readings are held; the speed that is held is the one the unit is set    *)
(* to; what an update missed is read again; and the words of a frame are   *)
(* read as LINEAR11.                                                       *)
HeldIsTrue ==
  part = "psu" => U!PulledIsNoticed /\ U!CachedPwm /\ U!PartialIsRetried /\ U!LinearRight
=============================================================================
