-------------------------------- MODULE Led --------------------------------
(***************************************************************************)
(* The x86 LED driver: two FPGA registers behind the BMC, each holding two *)
(* LEDs, and one cache of both that a handler refreshes with two messages  *)
(* when it is older than five seconds.  A store rewrites a whole register  *)
(* from the cache and leaves the cache as it is.                           *)
(*                                                                         *)
(* The driver is a client of IpmiService: every step that takes the lock,  *)
(* sends, is answered or releases the lock is a step of the service, and   *)
(* `place` and `degraded` are the service's.  The BMC executes the         *)
(* requests it gets in order, so what it does with one is settled when its *)
(* sender stops waiting.                                                   *)
(***************************************************************************)
EXTENDS Naturals

CONSTANTS Caller,   \* the processes inside a show or store handler
          Lights,   \* the LEDs whose files are used
          Mode,     \* the modes people store
          Field,    \* the contents of a LED's four bits
          Garbage   \* what a byte that was never written may hold

(* A LED is a register and one of its halves, high (1) or low (2). *)
LED_SYS == <<1, 2>>
LED_BMC == <<1, 1>>
LED_FAN == <<2, 2>>
LED_PSU == <<2, 1>>
Led == {LED_SYS, LED_BMC, LED_FAN, LED_PSU}
Reg == 1..2
Byte == [1..2 -> Field]
Zero == [h \in 1..2 |-> 0]

Modes == {"OFF", "RED", "RED_BLINKING", "GREEN", "GREEN_BLINKING"}

ASSUME LightsAssumption == Lights \subseteq Led
ASSUME ModeAssumption == Mode \subseteq Modes

(* The bits set_led ends up with for a mode.  The test for GREEN lacks an  *)
(* else, so the ones above it have no effect; the last one asks for        *)
(* RED_BLINKING where it sets the bits of GREEN_BLINKING.                  *)
BitsOf(mode) ==
  CASE mode = "GREEN" -> 3
    [] mode = "RED_BLINKING" -> 1
    [] OTHER -> 0

ASSUME FieldAssumption == Field \subseteq 0..15 /\ {0} \cup {BitsOf(m) : m \in Mode} \subseteq Field
ASSUME GarbageAssumption == Garbage # {} /\ Garbage \subseteq Byte

VARIABLES place, answer, degraded,  \* of IpmiService
          op,        \* the handler a process is in
          at,        \* and its step there
          valid,     \* data->valid
          fresh,     \* last_updated is less than five seconds ago
          led_data,  \* data->led_data: led_ctrl1 and led_ctrl2
          sys1_led,  \* the local of the handler that is refreshing
          ctrl,      \* the registers
          last,      \* the BMC's reply to the last request it accepted
          stored     \* the LEDs stored since the cache was refreshed

service == <<place, answer, degraded>>
cache == <<valid, fresh, led_data>>
vars == <<service, op, at, cache, sys1_led, ctrl, last, stored>>

Service == INSTANCE IpmiService

None == [kind |-> "none"]
Handler == [kind : {"show"}, led : Lights] \cup [kind : {"set"}, led : Lights, mode : Mode]
Reply == [ok : BOOLEAN, byte : Byte]
At == {"idle", "read1", "read2", "ready", "write", "shown", "set", "error"}

Init ==
  /\ Service!Init
  /\ op = [c \in Caller |-> None]
  /\ at = [c \in Caller |-> "idle"]
  /\ valid = FALSE /\ fresh = FALSE
  /\ led_data = [r \in Reg |-> Zero]
  /\ sys1_led = Zero
  /\ ctrl = [r \in Reg |-> Zero]
  /\ last = [ok |-> TRUE, byte |-> Zero]
  /\ stored = {}

Goto(c, from, to) ==
  /\ at[c] = from
  /\ at' = [at EXCEPT ![c] = to]

(* Mutant: valid is left as it is until both registers have been read. *)
LockKeepsValid(c, o) ==
  /\ Service!Enter(c)
  /\ Goto(c, "idle", IF valid /\ fresh THEN "ready" ELSE "read1")
  /\ op' = [op EXCEPT ![c] = o]
  /\ UNCHANGED <<cache, sys1_led, ctrl, last, stored>>

(* A handler takes the lock, after having parsed the mode if it stores one; *)
(* a cache that is not valid or too old is given up.                       *)
Lock(c, o) ==
  /\ Service!Enter(c)
  /\ Goto(c, "idle", IF valid /\ fresh THEN "ready" ELSE "read1")
  /\ op' = [op EXCEPT ![c] = o]
  /\ valid' = (valid /\ fresh)
  /\ UNCHANGED <<fresh, led_data, sys1_led, ctrl, last, stored>>

(* Five seconds pass. *)
Expire ==
  /\ fresh
  /\ fresh' = FALSE
  /\ UNCHANGED <<service, op, at, valid, led_data, sys1_led, ctrl, last, stored>>

-----------------------------------------------------------------------------
(* wistron_wtp_01_02_00_led_update_device: one message per register.       *)

RegRead(c) == IF at[c] = "read1" THEN 1 ELSE 2

Query(c) ==
  /\ at[c] \in {"read1", "read2"}
  /\ Service!Send(c)
  /\ UNCHANGED <<op, at, cache, sys1_led, ctrl, last, stored>>

(* The locals that were not read have never been written either. *)
RefreshFails(c) ==
  /\ \E b1, b2 \in Garbage :
       led_data' = [r \in Reg |-> IF r = 2 THEN b2
                                  ELSE IF at[c] = "read2" THEN sys1_led ELSE b1]
  /\ Goto(c, at[c], IF valid THEN "ready" ELSE "error")
  /\ sys1_led' = Zero
  /\ UNCHANGED <<valid, fresh, stored>>

RegisterRead(c, byte) ==
  \/ /\ Goto(c, "read1", "read2")
     /\ sys1_led' = byte
     /\ UNCHANGED <<cache, stored>>
  \/ /\ Goto(c, "read2", "ready")
     /\ led_data' = [r \in Reg |-> IF r = 1 THEN sys1_led ELSE byte]
     /\ valid' = TRUE /\ fresh' = TRUE
     /\ stored' = {}
     /\ sys1_led' = Zero

(* An answered query.  The answer to the request before this one brings    *)
(* its completion code; the buffer holds its payload, or nothing yet, or   *)
(* has meanwhile been filled by the right one.                             *)
QueryAnswered(c) ==
  /\ at[c] \in {"read1", "read2"}
  /\ Service!Answer(c)
  /\ \E ok \in BOOLEAN :
       LET own == [ok |-> ok, byte |-> IF ok THEN ctrl[RegRead(c)] ELSE Zero]
           code == IF answer'[c] = "own" THEN ok ELSE last.ok
           bytes == IF answer'[c] = "own" THEN {own.byte}
                                          ELSE {Zero, last.byte, own.byte} IN
       /\ last' = own
       /\ IF code THEN \E b \in bytes : RegisterRead(c, b) ELSE RefreshFails(c)
  /\ UNCHANGED <<op, ctrl>>

(* The request is not accepted, or it is and its reply does not come in    *)
(* time.                                                                   *)
QueryFails(c) ==
  /\ at[c] \in {"read1", "read2"}
  /\ Service!Fail(c)
  /\ \/ UNCHANGED last
     \/ /\ degraded'
        /\ \E ok \in BOOLEAN :
             last' = [ok |-> ok, byte |-> IF ok THEN ctrl[RegRead(c)] ELSE Zero]
  /\ RefreshFails(c)
  /\ UNCHANGED <<op, ctrl>>

-----------------------------------------------------------------------------
(* show_led and set_led with a valid cache.                                *)

(* The mode the bits of a LED stand for: red in the upper two, green in    *)
(* the lower two.                                                          *)
Shown(n) ==
  LET red == n \div 4  green == n % 4 IN
  CASE red = 3 -> "RED"
    [] red = 1 -> "RED_BLINKING"
    [] red = 0 /\ green = 3 -> "GREEN"
    [] red = 0 /\ green = 1 -> "GREEN_BLINKING"
    [] OTHER -> "OFF"

Show(c) ==
  /\ Goto(c, "ready", "shown")
  /\ op[c].kind = "show"
  /\ UNCHANGED <<service, op, cache, sys1_led, ctrl, last, stored>>

(* Mutant: the mask keeps the LED's own bits and clears the other's. *)
ValueSwapped(c) ==
  LET led == op[c].led IN
  [led_data[led[1]] EXCEPT ![3 - led[2]] = BitsOf(op[c].mode)]

(* Mutant: the LED's old bits are not masked off. *)
ValueAdded(c) ==
  LET led == op[c].led IN
  [led_data[led[1]] EXCEPT ![led[2]] = @ + BitsOf(op[c].mode)]

(* The other LED of the register as the cache has it. *)
ValueToWrite(c) ==
  LET led == op[c].led IN
  [led_data[led[1]] EXCEPT ![led[2]] = BitsOf(op[c].mode)]

Other(led) == <<led[1], 3 - led[2]>>

Set(c) ==
  /\ Goto(c, "ready", "write")
  /\ op[c].kind = "set"
  /\ Service!Send(c)
  /\ UNCHANGED <<op, cache, sys1_led, ctrl, last, stored>>

(* The BMC writes the register. *)
WriteRegister(c) ==
  LET led == op[c].led IN
  /\ ctrl' = [ctrl EXCEPT ![led[1]] = ValueToWrite(c)]
  /\ stored' = (stored \cup {led}) \ {Other(led)}

(* Mutant: data->ipmi.rx_result is not looked at. *)
SetAnsweredUnchecked(c) ==
  /\ at[c] = "write"
  /\ Service!Answer(c)
  /\ \E ok \in BOOLEAN :
       /\ last' = [ok |-> ok, byte |-> Zero]
       /\ WriteRegister(c) \/ (~ok /\ UNCHANGED <<ctrl, stored>>)
       /\ Goto(c, "write", "set")
  /\ UNCHANGED <<op, cache, sys1_led>>

(* The completion code decides what the store returns; one that is not 0   *)
(* says nothing about the register.                                        *)
SetAnswered(c) ==
  /\ at[c] = "write"
  /\ Service!Answer(c)
  /\ \E ok \in BOOLEAN :
       /\ last' = [ok |-> ok, byte |-> Zero]
       /\ WriteRegister(c) \/ (~ok /\ UNCHANGED <<ctrl, stored>>)
       /\ LET code == IF answer'[c] = "own" THEN ok ELSE last.ok IN
          Goto(c, "write", IF code THEN "set" ELSE "error")
  /\ UNCHANGED <<op, cache, sys1_led>>

SetFails(c) ==
  /\ Goto(c, "write", "error")
  /\ Service!Fail(c)
  /\ \/ UNCHANGED <<last, ctrl, stored>>
     \/ /\ degraded'
        /\ \E ok \in BOOLEAN :
             /\ last' = [ok |-> ok, byte |-> Zero]
             /\ WriteRegister(c) \/ (~ok /\ UNCHANGED <<ctrl, stored>>)
  /\ UNCHANGED <<op, cache, sys1_led>>

Unlock(c) ==
  /\ at[c] \in {"shown", "set", "error"}
  /\ Service!Leave(c)
  /\ Goto(c, at[c], "idle")
  /\ op' = [op EXCEPT ![c] = None]
  /\ UNCHANGED <<cache, sys1_led, ctrl, last, stored>>

Next ==
  \/ \E c \in Caller :
       \/ \E o \in Handler : Lock(c, o)
       \/ Query(c) \/ QueryAnswered(c) \/ QueryFails(c)
       \/ Show(c) \/ Set(c) \/ SetAnswered(c) \/ SetFails(c) \/ Unlock(c)
  \/ Expire

Spec == Init /\ [][Next]_vars

-----------------------------------------------------------------------------
(* Properties.                                                             *)

TypeOK ==
  /\ op \in [Caller -> Handler \cup {None}]
  /\ at \in [Caller -> At]
  /\ valid \in BOOLEAN /\ fresh \in BOOLEAN
  /\ led_data \in [Reg -> Byte]
  /\ sys1_led \in Byte
  /\ ctrl \in [Reg -> Byte]
  /\ last \in Reply
  /\ stored \subseteq Led

Bits(bytes, led) == bytes[led[1]][led[2]]

(* A refresh that fails half-way leaves uninitialised bytes in the cache,  *)
(* and a store leaves its own LED there as it was.  A handler is not       *)
(* misled by the former: when it gets to use the cache, every LED nobody   *)
(* has stored since the last complete refresh is there as the hardware     *)
(* has it.                                                                 *)
CacheServes ==
  ~degraded =>
    \A c \in Caller : at[c] = "ready" =>
      \A led \in Led \ stored : Bits(led_data, led) = Bits(ctrl, led)

(* A store writes two LEDs and is asked for one.  As long as no send has   *)
(* timed out, it changes the other one only by taking back a store made    *)
(* since the cache was last refreshed; never with anything else.           *)
OnlyStoresAreLost ==
  [][~degraded =>
      \A led \in Led : Bits(ctrl', led) # Bits(ctrl, led) =>
        \E c \in Caller :
          /\ at[c] = "write"
          /\ \/ led = op[c].led /\ Bits(ctrl', led) = BitsOf(op[c].mode)
             \/ led = Other(op[c].led) /\ led \in stored]_vars

(* A store that reports success in such a driver has written its LED. *)
SuccessIsTrue ==
  ~degraded =>
    \A c \in Caller : at[c] = "set" =>
      Bits(ctrl, op[c].led) = BitsOf(op[c].mode)

(* The ONLP module says of the call that ends in set_led that it "puts the *)
(* LED into the given mode".  Three of the five modes turn it off or into  *)
(* another colour.                                                         *)
PutsIntoMode ==
  ~degraded =>
    \A c \in Caller : at[c] = "set" => Shown(Bits(ctrl, op[c].led)) = op[c].mode
=============================================================================
