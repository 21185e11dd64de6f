----------------------------- MODULE LedPolicy -----------------------------
(***************************************************************************)
(* The arm64 LED policy, onlp_sysi_platform_manage_leds: run after run it  *)
(* looks at the power supplies, the QSFP28 and the CFP2 modules and stores *)
(* a mode for every LED, while power supplies and modules are exchanged    *)
(* and reads and stores fail.  What a store makes of a LED is the LED      *)
(* driver's: LedBits.                                                      *)
(***************************************************************************)
EXTENDS LedBits, FiniteSets

CONSTANTS Lights   \* the LEDs in use, among them LED_SYS and LED_PSU

ConstantsOK == {"LED_SYS", "LED_PSU"} \subseteq Lights /\ Lights \subseteq AllLeds

Psu == {"psu1", "psu2"}
Modules == Lights \ {"LED_SYS", "LED_PSU"}

VARIABLES phase,         \* the step of the policy
          psu_info,      \* the local array: whether its status says PRESENT
          psu_new_mode,  \* the local
          pending,       \* the modules whose LEDs this run has not stored
          plugged,       \* the power supplies and modules that are there
          recent,        \* power supplies out for less than five seconds
          light,         \* the registers, per LED
          stayed,        \* those not exchanged since the run began, nor recent then
          unread, lost   \* what this run could not read, and what it could not store

locals == <<psu_info, psu_new_mode, pending>>
failures == <<unread, lost>>
vars == <<phase, locals, plugged, recent, light, stayed, failures>>

Things == Psu \cup Modules

Init ==
  /\ phase = "idle"
  /\ psu_info = [p \in Psu |-> FALSE]
  /\ psu_new_mode = "GREEN"
  /\ pending = {}
  /\ plugged \in SUBSET Things /\ recent = {}
  /\ light = [l \in Lights |-> Dark]
  /\ stayed = {} /\ unread = {} /\ lost = {}

Exchange(t) ==
  /\ plugged' = IF t \in plugged THEN plugged \ {t} ELSE plugged \cup {t}
  /\ recent' = IF t \in plugged THEN recent \cup ({t} \cap Psu) ELSE recent \ {t}
  /\ stayed' = stayed \ {t}
  /\ UNCHANGED <<phase, locals, light, failures>>

(* The power supply driver holds a reading for five seconds. *)
FiveSeconds(p) ==
  /\ p \in recent /\ recent' = recent \ {p}
  /\ UNCHANGED <<phase, locals, plugged, light, stayed, failures>>

(* A run begins with the array unwritten. *)
Start ==
  /\ phase = "idle"
  /\ phase' = "psu1"
  /\ psu_info' \in [Psu -> BOOLEAN]
  /\ psu_new_mode' = "GREEN"
  /\ stayed' = Things \ recent /\ unread' = {} /\ lost' = {}
  /\ UNCHANGED <<pending, plugged, recent, light>>

(* onlp_psui_info_get: whether its return value is OK, and the status that *)
(* the power supply driver (ArmPsu) holds: that of a unit pulled less than *)
(* five seconds ago may still be 1, that of a unit whose frame came too    *)
(* late is 0, without an error.                                            *)
PsuInfo(p) ==
  {[ok |-> TRUE, present |-> FALSE], [ok |-> FALSE, present |-> FALSE]}
    \cup {[ok |-> TRUE, present |-> TRUE] : q \in {p} \cap (plugged \cup recent)}

(* A power supply in place that the driver calls absent counts as unread. *)
Asked(p, info) ==
  unread' = IF info.ok /\ (p \in plugged => info.present) THEN unread ELSE unread \cup {p}

(* Mutant: the mode is decided by the last power supply alone. *)
CheckPsuLast(p) ==
  /\ phase = IF p = "psu1" THEN "psu1" ELSE "psu2"
  /\ \E info \in PsuInfo(p) :
       /\ psu_info' = [psu_info EXCEPT !["psu1"] = info.present]
       /\ psu_new_mode' = IF info.ok /\ info.present THEN "GREEN" ELSE "RED"
       /\ Asked(p, info)
  /\ phase' = IF p = "psu1" THEN "psu2" ELSE "fans1"
  /\ UNCHANGED <<pending, plugged, recent, light, stayed, lost>>

(* Both power supplies are read into the first element of the array. *)
CheckPsu(p) ==
  /\ phase = IF p = "psu1" THEN "psu1" ELSE "psu2"
  /\ \E info \in PsuInfo(p) :
       /\ psu_info' = [psu_info EXCEPT !["psu1"] = info.present]
       /\ psu_new_mode' = IF info.ok /\ info.present THEN psu_new_mode ELSE "RED"
       /\ Asked(p, info)
  /\ phase' = IF p = "psu1" THEN "psu2" ELSE "fans1"
  /\ UNCHANGED <<pending, plugged, recent, light, stayed, lost>>

(* onlp_fani_info_get: a fan is present as long as its power supply is. *)
FanInfo(p) == PsuInfo(p)

(* The fans of a power supply: the first that is not read as present ends  *)
(* the loops.                                                              *)
CheckFans(p) ==
  /\ phase = IF p = "psu1" THEN "fans1" ELSE "fans2"
  /\ \/ /\ ~psu_info[p]
        /\ phase' = IF p = "psu1" THEN "fans2" ELSE "sys"
        /\ UNCHANGED <<psu_new_mode, unread>>
     \/ /\ psu_info[p]
        /\ \E info \in FanInfo(p) :
             /\ Asked(p, info)
             /\ IF info.ok /\ info.present
                  THEN phase' = (IF p = "psu1" THEN "fans2" ELSE "sys") /\ UNCHANGED psu_new_mode
                  ELSE phase' = "sys" /\ psu_new_mode' = "RED_BLINKING"
  /\ UNCHANGED <<psu_info, pending, plugged, recent, light, stayed, lost>>

(* onlp_ledi_mode_set: one write to the LED's file, which the driver       *)
(* carries out unless the write fails.  Nobody looks at the result.        *)
ModeSet(led, mode) ==
  \/ /\ light' = [light EXCEPT ![led] = Second(Kind[led], First(Kind[led], light[led], mode), mode)]
     /\ UNCHANGED lost
  \/ lost' = lost \cup ({led} \ {"LED_SYS"}) /\ UNCHANGED light

SetSys ==
  /\ phase = "sys" /\ phase' = "psu"
  /\ ModeSet("LED_SYS", "GREEN")
  /\ psu_info' = [p \in Psu |-> FALSE]
  /\ UNCHANGED <<psu_new_mode, pending, plugged, recent, stayed, unread>>

SetPsu ==
  /\ phase = "psu" /\ phase' = "modules"
  /\ ModeSet("LED_PSU", psu_new_mode)
  /\ pending' = Modules
  /\ UNCHANGED <<psu_info, psu_new_mode, plugged, recent, stayed, unread>>

(* fpga_read of a presence register, and the bit of a module. *)
Presence(led) == {IF led \in plugged THEN "in" ELSE "out", "error"}

(* onlp_sfpi_is_present and get_module_status.  An error is not zero, so a *)
(* QSFP28 port that cannot be read is lit; of a CFP2 slot it depends on    *)
(* the bits of the error's number.                                         *)
Found(led) ==
  UNION {{[lit |-> b, unread |-> {led : e \in {p} \cap {"error"}}] :
            b \in CASE p = "in" -> {TRUE}
                    [] p = "out" -> {FALSE}
                    [] p = "error" -> IF Kind[led] = "qsfp" THEN {TRUE} ELSE BOOLEAN} : p \in Presence(led)}

LitMode(led) == IF Kind[led] = "qsfp" THEN "GREEN" ELSE "BLUE"

(* The QSFP28 ports come first. *)
IsNext(led) == led \in pending /\ \A m \in pending : Kind[m] = "qsfp" => Kind[led] = "qsfp"

(* Mutant: a LED is stored only to be lit. *)
SetModuleLit(led) ==
  /\ phase = "modules" /\ IsNext(led)
  /\ pending' = pending \ {led}
  /\ \E found \in Found(led) :
       /\ unread' = unread \cup found.unread
       /\ IF found.lit THEN ModeSet(led, LitMode(led)) ELSE UNCHANGED <<light, lost>>
  /\ phase' = IF pending' = {} THEN "done" ELSE phase
  /\ UNCHANGED <<psu_info, psu_new_mode, plugged, recent, stayed>>

(* Mutant: an error counts as an empty port. *)
SetModuleStrict(led) ==
  /\ phase = "modules" /\ IsNext(led)
  /\ pending' = pending \ {led}
  /\ \E found \in Found(led) :
       /\ unread' = unread \cup found.unread
       /\ ModeSet(led, IF found.lit /\ found.unread = {} THEN LitMode(led) ELSE "OFF")
  /\ phase' = IF pending' = {} THEN "done" ELSE phase
  /\ UNCHANGED <<psu_info, psu_new_mode, plugged, recent, stayed>>

(* A module is looked for and its LED stored. *)
SetModule(led) ==
  /\ phase = "modules" /\ IsNext(led)
  /\ pending' = pending \ {led}
  /\ \E found \in Found(led) :
       /\ unread' = unread \cup found.unread
       /\ ModeSet(led, IF found.lit THEN LitMode(led) ELSE "OFF")
  /\ phase' = IF pending' = {} THEN "done" ELSE phase
  /\ UNCHANGED <<psu_info, psu_new_mode, plugged, recent, stayed>>

(* The run returns OK. *)
Return ==
  /\ phase = "done" /\ phase' = "idle"
  /\ psu_new_mode' = "GREEN"
  /\ stayed' = {} /\ unread' = {} /\ lost' = {}
  /\ UNCHANGED <<psu_info, pending, plugged, recent, light>>

Next ==
  \/ Start \/ SetSys \/ SetPsu \/ Return
  \/ \E p \in Psu : CheckPsu(p) \/ CheckFans(p)
  \/ \E led \in Modules : SetModule(led)
  \/ \E t \in Things : Exchange(t)
  \/ \E p \in Psu : FiveSeconds(p)

Spec == Init /\ [][Next]_vars

-----------------------------------------------------------------------------
(* Properties.                                                             *)

TypeOK ==
  /\ phase \in {"idle", "psu1", "psu2", "fans1", "fans2", "sys", "psu", "modules", "done"}
  /\ psu_info \in [Psu -> BOOLEAN]
  /\ psu_new_mode \in {"GREEN", "RED", "RED_BLINKING"}
  /\ pending \subseteq Modules
  /\ plugged \subseteq Things /\ recent \subseteq Psu \ plugged /\ stayed \subseteq Things
  /\ light \in [Lights -> Light]
  /\ unread \subseteq Things /\ lost \subseteq Lights

At(led) == Shown(Kind[led], light[led])

(* A run does not leave the LED green when a power supply has been out     *)
(* throughout it, and for the five seconds before that its driver holds a  *)
(* status, or cannot be read, whatever else is exchanged or fails          *)
(* meanwhile, unless the store itself is lost.                             *)
MissingIsNotGreen ==
  phase = "done" /\ "LED_PSU" \notin lost =>
    \/ \A p \in Psu : p \notin unread /\ (p \in plugged \/ p \notin stayed)
    \/ At("LED_PSU") # "GREEN"

(* A run that reads both power supplies as in place, where they stay, does *)
(* not leave the LED red, although it looks at fans through an array half  *)
(* of which was never written and although a store leaves old bits behind. *)
NoFalseAlarm ==
  phase = "done" /\ Psu \subseteq (plugged \cap stayed) /\ Psu \cap unread = {} /\ "LED_PSU" \notin lost =>
    At("LED_PSU") \notin {"RED", "RED_BLINKING"}

(* A QSFP28 module that stays in place is lit at the end of the run even   *)
(* if it could not be read; a CFP2 module if it could.                     *)
PresentIsLit ==
  phase = "done" =>
    \A led \in plugged \cap stayed \cap Modules :
      \/ led \in lost \/ (Kind[led] = "cfp" /\ led \in unread)
      \/ At(led) = LitMode(led)

(* An empty port that could be read is dark at the end of the run. *)
AbsentIsDark ==
  phase = "done" =>
    \A led \in (stayed \cap Modules) \ (plugged \cup unread \cup lost) : At(led) = "OFF"
=============================================================================
