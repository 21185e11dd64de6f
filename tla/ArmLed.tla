------------------------------- MODULE ArmLed -------------------------------
(***************************************************************************)
(* The arm64 LED driver: shows and stores of several processes under one   *)
(* lock, a cache of the four FPGA registers that is read again when it is  *)
(* older than five seconds, and stores that change two registers one after *)
(* the other.  Mapping a register may fail, and nobody looks at the        *)
(* result: the value used instead has never been written.                  *)
(***************************************************************************)
EXTENDS LedBits

CONSTANTS Caller,   \* the processes that open the LED files
          Lights,   \* the LEDs in use
          Garbage   \* what a variable that was never written may hold

ASSUME LightsAssumption == Lights \subseteq AllLeds /\ Garbage \subseteq Bits

VARIABLES at,       \* the step of a process
          op,       \* its handler
          valid, fresh, led_data,  \* the cache
          light,    \* the registers, per LED
          stored,   \* the LEDs stored since the cache was read
          before,   \* what the LED of the store under way showed before it
          garbled   \* whether a mapping has failed

cache == <<valid, fresh, led_data>>
vars == <<at, op, cache, light, stored, before, garbled>>

None == [kind |-> "none"]
Handler == [kind : {"show"}, led : Lights]
           \cup UNION {[kind : {"set"}, led : {l}, mode : Caps[Kind[l]]] : l \in Lights}

Init ==
  /\ at = [c \in Caller |-> "idle"]
  /\ op = [c \in Caller |-> None]
  /\ valid = FALSE /\ fresh = FALSE
  /\ led_data = [l \in Lights |-> Dark]
  /\ light = [l \in Lights |-> Dark]
  /\ stored = {}
  /\ before = "OFF"
  /\ garbled = FALSE

Goto(c, from, to) == at[c] = from /\ at' = [at EXCEPT ![c] = to]

(* Mutant: the cache is used as long as it is valid, however old. *)
LockEternal(c, o) ==
  /\ \A d \in Caller : at[d] = "idle"
  /\ Goto(c, "idle", IF o.kind = "show" THEN "shown" ELSE "first")
  /\ op' = [op EXCEPT ![c] = o]
  /\ before' = IF o.kind = "set" THEN Shown(Kind[o.led], light[o.led]) ELSE "OFF"
  /\ \/ valid /\ UNCHANGED <<cache, stored, garbled>>
     \/ /\ ~valid
        /\ valid' = TRUE /\ fresh' = TRUE
        /\ led_data' = light /\ stored' = {} /\ UNCHANGED garbled
  /\ UNCHANGED light

(* The lock is taken and the cache read again unless it is young.  All     *)
(* four reads count as successful.                                         *)
Lock(c, o) ==
  /\ \A d \in Caller : at[d] = "idle"
  /\ Goto(c, "idle", IF o.kind = "show" THEN "shown" ELSE "first")
  /\ op' = [op EXCEPT ![c] = o]
  /\ before' = IF o.kind = "set" THEN Shown(Kind[o.led], light[o.led]) ELSE "OFF"
  /\ \/ valid /\ fresh /\ UNCHANGED <<cache, stored, garbled>>
     \/ /\ ~(valid /\ fresh)
        /\ valid' = TRUE /\ fresh' = TRUE
        /\ \/ led_data' = light /\ stored' = {} /\ UNCHANGED garbled
           \/ /\ \E l \in [Lights -> [steady : Garbage, blink : Garbage]] : led_data' = l
              /\ garbled' = TRUE /\ UNCHANGED stored
  /\ UNCHANGED light

(* Five seconds pass. *)
Expire ==
  /\ fresh /\ fresh' = FALSE
  /\ stored' = {}
  /\ UNCHANGED <<at, op, valid, led_data, light, before, garbled>>

(* Mutant: the rest of the register is taken from the cache. *)
ModifyFromCache(led, new, part) ==
  /\ light' = [l \in Lights |-> IF l = led THEN new
                                 ELSE IF Pair[l] = Pair[led] THEN [light[l] EXCEPT ![part] = led_data[l][part]]
                                 ELSE light[l]]
  /\ UNCHANGED garbled

(* A read-modify-write of the steady or the blinking bits of a register    *)
(* pair: the LED's new light, and the other LEDs as they were read.        *)
Modify(led, new, part) ==
  \/ light' = [light EXCEPT ![led] = new] /\ UNCHANGED garbled
  \/ /\ garbled' = TRUE
     /\ \/ UNCHANGED light
        \/ \E g \in [Lights -> Garbage] :
             light' = [l \in Lights |-> IF Pair[l] = Pair[led] THEN [light[l] EXCEPT ![part] = g[l]]
                                                               ELSE light[l]]

SetFirst(c) ==
  /\ Goto(c, "first", "second")
  /\ LET o == op[c] IN Modify(o.led, First(Kind[o.led], light[o.led], o.mode), "steady")
  /\ stored' = stored \cup {op[c].led}
  /\ UNCHANGED <<op, cache, before>>

SetSecond(c) ==
  /\ Goto(c, "second", "set")
  /\ LET o == op[c] IN Modify(o.led, Second(Kind[o.led], light[o.led], o.mode), "blink")
  /\ UNCHANGED <<op, cache, stored, before>>

Unlock(c) ==
  /\ at[c] \in {"shown", "set"}
  /\ Goto(c, at[c], "idle")
  /\ op' = [op EXCEPT ![c] = None]
  /\ before' = "OFF"
  /\ UNCHANGED <<cache, light, stored, garbled>>

Next ==
  \/ \E c \in Caller :
       \/ \E o \in Handler : Lock(c, o)
       \/ SetFirst(c) \/ SetSecond(c) \/ Unlock(c)
  \/ Expire

Spec == Init /\ [][Next]_vars

-----------------------------------------------------------------------------
(* Properties.                                                             *)

TypeOK ==
  /\ at \in [Caller -> {"idle", "shown", "first", "second", "set"}]
  /\ op \in [Caller -> Handler \cup {None}]
  /\ valid \in BOOLEAN /\ fresh \in BOOLEAN /\ garbled \in BOOLEAN
  /\ led_data \in [Lights -> Light] /\ light \in [Lights -> Light]
  /\ stored \subseteq Lights
  /\ before \in UNION {Caps[k] : k \in DOMAIN Caps}

(* A show is at most five seconds out of date: a LED that was not stored   *)
(* within them is shown as it is.                                          *)
ShowsTheTruth ==
  [][~garbled' => \A c \in Caller : at[c] = "idle" /\ at'[c] = "shown" =>
       LET led == op'[c].led IN
       \/ led \in stored'
       \/ Shown(Kind[led], led_data'[led]) = Shown(Kind[led], light'[led])]_at

(* The driver changes the mode of a LED in two registers, one after the    *)
(* other.  Whoever looks at it meanwhile sees the old mode, the new one or *)
(* a dark LED, never a third colour.                                       *)
NoFalseColour ==
  ~garbled => \A c \in Caller : at[c] \in {"first", "second", "set"} =>
    LET o == op[c] IN Shown(Kind[o.led], light[o.led]) \in {before, o.mode, "OFF"}

(* A store that finds its LED dark, with no bit set, puts it into every    *)
(* mode its capabilities list.  (From another colour it may not: the       *)
(* policy's run shows that.)                                               *)
FromDark ==
  [][~garbled' => \A c \in Caller :
       at[c] = "first" /\ at'[c] = "second" /\ light[op[c].led] = Dark =>
         LET o == op[c]  k == Kind[o.led] IN
         Shown(k, Second(k, light'[o.led], o.mode)) = o.mode]_at

(* As long as every mapping succeeds, a store changes no LED but its own,  *)
(* although it writes back whole registers.                                *)
OthersKept ==
  [][~garbled' => \A l \in Lights : light'[l] # light[l] =>
       \E c \in Caller : at[c] \in {"first", "second"} /\ op[c].led = l]_light
=============================================================================
