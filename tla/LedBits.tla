------------------------------ MODULE LedBits ------------------------------
(***************************************************************************)
(* The bits of the arm64 LEDs: every LED has two bits that light it        *)
(* steadily and two that make it blink, in two FPGA registers.  Of the     *)
(* QSFP28 LEDs the steady bits are stored inverted; here a bit that is set *)
(* is lit.                                                                 *)
(***************************************************************************)
EXTENDS Naturals

Kind == [LED_SYS |-> "sys", LED_PSU |-> "psu", LED_QSFP1 |-> "qsfp", LED_QSFP9 |-> "qsfp", LED_CFP1 |-> "cfp"]
AllLeds == DOMAIN Kind

(* The register pairs: B0 and C0, or A8 and B8. *)
Pair == [led \in AllLeds |-> IF led = "LED_QSFP1" THEN "B0" ELSE "A8"]

(* The modes of a kind, in the order of the bits that show them: the two   *)
(* steady colours and the two blinking ones.                               *)
Steady == [sys |-> <<"GREEN", "RED">>, psu |-> <<"GREEN", "RED">>,
           qsfp |-> <<"YELLOW", "GREEN">>, cfp |-> <<"GREEN", "BLUE">>]
Blinking == [sys |-> <<"GREEN_BLINKING", "RED_BLINKING">>, psu |-> <<"GREEN_BLINKING", "RED_BLINKING">>,
             qsfp |-> <<"YELLOW_BLINKING", "GREEN_BLINKING">>, cfp |-> <<"GREEN_BLINKING", "BLUE_BLINKING">>]

(* The capabilities the ONLP module reports for a kind. *)
Caps == [sys |-> {"OFF", "RED_BLINKING", "GREEN", "GREEN_BLINKING"},
         psu |-> {"OFF", "RED", "RED_BLINKING", "GREEN"},
         qsfp |-> {"OFF", "YELLOW", "YELLOW_BLINKING", "GREEN", "GREEN_BLINKING"},
         cfp |-> {"OFF", "BLUE", "BLUE_BLINKING", "GREEN", "GREEN_BLINKING"}]

Bits == 0..3
Or(a, b) == CHOOSE c \in Bits : /\ c % 2 = 1 <=> (a % 2 = 1 \/ b % 2 = 1)
                                /\ c >= 2 <=> (a >= 2 \/ b >= 2)

Dark == [steady |-> 0, blink |-> 0]
Light == [steady : Bits, blink : Bits]

(* What set_led makes of a mode it accepts; any other mode is 0, off. *)
BitFor(modes, mode) == CHOOSE n \in 0..2 : IF n = 0 THEN \A m \in 1..2 : modes[m] # mode ELSE modes[n] = mode

(* Mutant: the two colours are exchanged. *)
SteadySwapped(kind, mode) == IF mode \in Caps[kind] THEN (3 - BitFor(Steady[kind], mode)) % 3 ELSE 0

SteadyBits(kind, mode) == IF mode \in Caps[kind] THEN BitFor(Steady[kind], mode) ELSE 0
BlinkBits(kind, mode) == IF mode \in Caps[kind] THEN BitFor(Blinking[kind], mode) ELSE 0

(* Mutant: the steady bits are left as they are when a LED is to blink. *)
FirstKeeps(kind, light, mode) ==
  IF BlinkBits(kind, mode) # 0 THEN light
  ELSE [light EXCEPT !.steady = Or(@, SteadyBits(kind, mode))]

(* Mutant: the bits are added instead of or-ed. *)
FirstAdds(kind, light, mode) ==
  IF BlinkBits(kind, mode) # 0 THEN [light EXCEPT !.steady = 0]
  ELSE [light EXCEPT !.steady = @ + SteadyBits(kind, mode)]

(* The two read-modify-writes of set_led.  The steady bits are cleared     *)
(* before the LED blinks, and for a CFP2 or QSFP28 LED when it goes off;   *)
(* otherwise new bits are added to the old ones.                           *)
First(kind, light, mode) ==
  IF BlinkBits(kind, mode) # 0 \/ (kind \in {"cfp", "qsfp"} /\ SteadyBits(kind, mode) = 0)
    THEN [light EXCEPT !.steady = 0]
    ELSE [light EXCEPT !.steady = Or(@, SteadyBits(kind, mode))]

(* Mutant: the blinking bits are never cleared. *)
SecondKeeps(kind, light, mode) ==
  [light EXCEPT !.blink = Or(@, BlinkBits(kind, mode))]

Second(kind, light, mode) ==
  [light EXCEPT !.blink = IF BlinkBits(kind, mode) # 0 THEN Or(@, BlinkBits(kind, mode)) ELSE 0]

(* The mode the bits show.  Of the system and power supply LEDs blinking   *)
(* has priority, of the others steady light.                               *)
Shown(kind, light) ==
  LET Of(modes, n) == IF n \in 1..2 THEN modes[n] ELSE "OFF"
      blinks == IF kind \in {"sys", "psu"} THEN light.blink # 0 ELSE light.steady = 0 IN
  IF blinks THEN Of(Blinking[kind], light.blink) ELSE Of(Steady[kind], light.steady)
=============================================================================
