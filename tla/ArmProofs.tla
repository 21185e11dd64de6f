----------------------------- MODULE ArmProofs -----------------------------
(***************************************************************************)
(* Proofs about the three arm64 parts of MCArm, for all processes, LEDs,   *)
(* power supplies, speeds, words and holding times.                        *)
(*                                                                         *)
(* The LED driver's invariant LedInv: types, and of a store under way what *)
(* its LED shows before and after each of its two writes (Colours).        *)
(* LedPolicy's invariant PolicyInv: the mode of the power supply LED       *)
(* follows what a run has found (Runs), and the LEDs already stored say    *)
(* what is there (Lit).  ArmPsu's invariant PsuInv: what an update or a    *)
(* change of the speed under way knows of its unit (UnderWay) and what is  *)
(* held as valid (HeldOf); the process that has the mutex moves alone.     *)
(***************************************************************************)
EXTENDS MCArm, Integers, TLAPS

-----------------------------------------------------------------------------
(* The bits of a LED.                                                      *)

Kinds == {"sys", "psu", "qsfp", "cfp"}

LEMMA KindOf == ASSUME NEW led \in AllLeds PROVE Kind[led] \in Kinds
  BY DEF AllLeds, Kind, Kinds

(* The mode that a bit shows. *)
LEMMA BitForIs ==
  ASSUME NEW modes, NEW mode, modes[1] # modes[2]
  PROVE  /\ modes[1] = mode => BitFor(modes, mode) = 1
         /\ modes[2] = mode => BitFor(modes, mode) = 2
         /\ modes[1] # mode /\ modes[2] # mode => BitFor(modes, mode) = 0
PROOF
<1> DEFINE P(n) == IF n = 0 THEN \A m \in 1..2 : modes[m] # mode ELSE modes[n] = mode
<1>1. BitFor(modes, mode) = CHOOSE n \in 0..2 : P(n)
  BY DEF BitFor
<1>2. /\ P(0) <=> modes[1] # mode /\ modes[2] # mode
      /\ P(1) <=> modes[1] = mode
      /\ P(2) <=> modes[2] = mode
  BY SMT
<1>3. 0..2 = {0, 1, 2}
  OBVIOUS
<1> HIDE DEF P
<1> QED BY <1>1, <1>2, <1>3

LEMMA OrIs ==
  ASSUME NEW a \in Bits, NEW b \in Bits
  PROVE  /\ Or(a, b) \in Bits
         /\ Or(a, b) % 2 = 1 <=> (a % 2 = 1 \/ b % 2 = 1)
         /\ Or(a, b) >= 2 <=> (a >= 2 \/ b >= 2)
PROOF
<1> DEFINE P(c) == /\ c % 2 = 1 <=> (a % 2 = 1 \/ b % 2 = 1)
                   /\ c >= 2 <=> (a >= 2 \/ b >= 2)
<1>1. Or(a, b) = CHOOSE c \in Bits : P(c)
  BY DEF Or
<1>2. \E c \in Bits : P(c)
  <2>1. P(0) \/ P(1) \/ P(2) \/ P(3)
    OBVIOUS
  <2>2. {0, 1, 2, 3} \subseteq Bits
    BY DEF Bits
  <2> HIDE DEF P
  <2> QED BY <2>1, <2>2
<1>3. P(Or(a, b)) /\ Or(a, b) \in Bits
  <2> HIDE DEF P
  <2> QED BY <1>1, <1>2
<1> QED BY <1>3

LEMMA OrValues ==
  ASSUME NEW a \in Bits
  PROVE  /\ Or(a, 0) = a
         /\ Or(a, 1) = IF a \in {0, 1} THEN 1 ELSE 3
         /\ Or(a, 2) = IF a \in {0, 2} THEN 2 ELSE 3
         /\ Or(a, 3) = 3
PROOF
<1>1. \A b \in Bits : /\ Or(a, b) \in Bits
                      /\ Or(a, b) % 2 = 1 <=> (a % 2 = 1 \/ b % 2 = 1)
                      /\ Or(a, b) >= 2 <=> (a >= 2 \/ b >= 2)
  BY OrIs
<1>2. a \in 0..3 /\ {0, 1, 2, 3} \subseteq Bits
  BY DEF Bits
<1> QED BY <1>1, <1>2 DEF Bits

(* What set_led stores of a mode that a kind of LED can show. *)
LEMMA ModeBits ==
  ASSUME NEW k \in Kinds, NEW m \in Caps[k]
  PROVE  LET s == SteadyBits(k, m)
             b == BlinkBits(k, m) IN
         \/ m = "OFF" /\ s = 0 /\ b = 0
         \/ s \in {1, 2} /\ b = 0 /\ Steady[k][s] = m
         \/ b \in {1, 2} /\ s = 0 /\ Blinking[k][b] = m
PROOF
<1>1. SteadyBits(k, m) = BitFor(Steady[k], m) /\ BlinkBits(k, m) = BitFor(Blinking[k], m)
  BY DEF SteadyBits, BlinkBits
<1>2. Steady[k][1] # Steady[k][2] /\ Blinking[k][1] # Blinking[k][2]
  BY DEF Kinds, Steady, Blinking
<1>3. \/ m = "OFF" /\ m \notin {Steady[k][1], Steady[k][2], Blinking[k][1], Blinking[k][2]}
      \/ m \in {Steady[k][1], Steady[k][2]} /\ m \notin {Blinking[k][1], Blinking[k][2]}
      \/ m \in {Blinking[k][1], Blinking[k][2]} /\ m \notin {Steady[k][1], Steady[k][2]}
  BY DEF Kinds, Steady, Blinking, Caps
<1> QED BY <1>1, <1>2, <1>3, BitForIs

LEMMA FirstIs ==
  ASSUME NEW k \in Kinds, NEW l \in Light, NEW m \in Caps[k]
  PROVE  /\ First(k, l, m) \in Light
         /\ First(k, l, m).blink = l.blink
         /\ First(k, l, m).steady =
              IF BlinkBits(k, m) # 0 \/ (k \in {"cfp", "qsfp"} /\ SteadyBits(k, m) = 0)
                THEN 0 ELSE Or(l.steady, SteadyBits(k, m))
PROOF
<1>1. SteadyBits(k, m) \in Bits /\ 0 \in Bits /\ l.steady \in Bits
  BY ModeBits DEF Bits, Light
<1>2. Or(l.steady, SteadyBits(k, m)) \in Bits
  BY <1>1, OrIs
<1>3. \A b \in Bits : /\ [l EXCEPT !.steady = b] \in Light
                      /\ [l EXCEPT !.steady = b].blink = l.blink
                      /\ [l EXCEPT !.steady = b].steady = b
  BY DEF Light
<1> DEFINE n == Or(l.steady, SteadyBits(k, m))
<1>4. First(k, l, m) =
        IF BlinkBits(k, m) # 0 \/ (k \in {"cfp", "qsfp"} /\ SteadyBits(k, m) = 0)
          THEN [l EXCEPT !.steady = 0] ELSE [l EXCEPT !.steady = n]
  BY DEF First
<1>5. n \in Bits
  BY <1>2
<1> HIDE DEF n
<1>6. First(k, l, m) =
        [l EXCEPT !.steady =
           IF BlinkBits(k, m) # 0 \/ (k \in {"cfp", "qsfp"} /\ SteadyBits(k, m) = 0) THEN 0 ELSE n]
  BY <1>4
<1>7. (IF BlinkBits(k, m) # 0 \/ (k \in {"cfp", "qsfp"} /\ SteadyBits(k, m) = 0) THEN 0 ELSE n) \in Bits
  BY <1>1, <1>5
<1> QED BY <1>3, <1>6, <1>7 DEF n

LEMMA SecondIs ==
  ASSUME NEW k \in Kinds, NEW l \in Light, NEW m \in Caps[k]
  PROVE  /\ Second(k, l, m) \in Light
         /\ Second(k, l, m).steady = l.steady
         /\ Second(k, l, m).blink =
              IF BlinkBits(k, m) # 0 THEN Or(l.blink, BlinkBits(k, m)) ELSE 0
PROOF
<1> DEFINE n == IF BlinkBits(k, m) # 0 THEN Or(l.blink, BlinkBits(k, m)) ELSE 0
<1>1. BlinkBits(k, m) \in Bits /\ 0 \in Bits /\ l.blink \in Bits
  BY ModeBits DEF Bits, Light
<1>2. n \in Bits
  BY <1>1, OrIs
<1>3. Second(k, l, m) = [l EXCEPT !.blink = n]
  BY DEF Second
<1> HIDE DEF n
<1>4. /\ [l EXCEPT !.blink = n] \in Light
      /\ [l EXCEPT !.blink = n].steady = l.steady
      /\ [l EXCEPT !.blink = n].blink = n
  BY <1>2 DEF Light
<1> QED BY <1>3, <1>4 DEF n

LEMMA ShownIs ==
  ASSUME NEW k \in Kinds, NEW l \in Light
  PROVE  Shown(k, l) =
           IF (k \in {"sys", "psu"} /\ l.blink # 0) \/ (k \in {"qsfp", "cfp"} /\ l.steady = 0)
             THEN IF l.blink \in {1, 2} THEN Blinking[k][l.blink] ELSE "OFF"
             ELSE IF l.steady \in {1, 2} THEN Steady[k][l.steady] ELSE "OFF"
PROOF
<1>1. 1..2 = {1, 2}
  OBVIOUS
<1>2. k \notin {"sys", "psu"} <=> k \in {"qsfp", "cfp"}
  BY DEF Kinds
<1> QED BY <1>1, <1>2 DEF Shown

(* A store over a LED that does not light and blink at once: between the   *)
(* two registers and after them it shows the old mode, the new one or      *)
(* nothing; it does not light and blink at once afterwards; and a dark LED *)
(* shows the new mode in the end.                                          *)
LEMMA StoreShows ==
  ASSUME NEW k \in Kinds, NEW l \in Light, NEW m \in Caps[k], l.steady = 0 \/ l.blink = 0
  PROVE  LET f == First(k, l, m)
             g == Second(k, f, m) IN
         /\ Shown(k, f) \in {Shown(k, l), m, "OFF"}
         /\ Shown(k, g) \in {Shown(k, l), m, "OFF"}
         /\ g.steady = 0 \/ g.blink = 0
         /\ l = Dark => Shown(k, g) = m
PROOF
<1> DEFINE f == First(k, l, m)
           g == Second(k, f, m)
           s == SteadyBits(k, m)
           b == BlinkBits(k, m)
<1>1. /\ f \in Light /\ f.blink = l.blink
      /\ f.steady = IF b # 0 \/ (k \in {"cfp", "qsfp"} /\ s = 0) THEN 0 ELSE Or(l.steady, s)
  BY FirstIs
<1>2. /\ g \in Light /\ g.steady = f.steady
      /\ g.blink = IF b # 0 THEN Or(f.blink, b) ELSE 0
  BY <1>1, SecondIs
<1>3. \/ m = "OFF" /\ s = 0 /\ b = 0
      \/ s \in {1, 2} /\ b = 0 /\ Steady[k][s] = m
      \/ b \in {1, 2} /\ s = 0 /\ Blinking[k][b] = m
  BY ModeBits
<1>4. \A x \in Light :
        Shown(k, x) =
           IF (k \in {"sys", "psu"} /\ x.blink # 0) \/ (k \in {"qsfp", "cfp"} /\ x.steady = 0)
             THEN IF x.blink \in {1, 2} THEN Blinking[k][x.blink] ELSE "OFF"
             ELSE IF x.steady \in {1, 2} THEN Steady[k][x.steady] ELSE "OFF"
  BY ShownIs
<1>5. \A a \in {0, 1, 2, 3} :
         /\ Or(a, 0) = a
         /\ Or(a, 1) = IF a \in {0, 1} THEN 1 ELSE 3
         /\ Or(a, 2) = IF a \in {0, 2} THEN 2 ELSE 3
  BY OrValues DEF Bits
<1>6. l.steady \in {0, 1, 2, 3} /\ l.blink \in {0, 1, 2, 3}
  BY DEF Light, Bits
<1>7. l = Dark => l.steady = 0 /\ l.blink = 0
  BY DEF Dark
<1> HIDE DEF f, g, s, b
<1>8. Shown(k, f) \in {Shown(k, l), m, "OFF"} /\ Shown(k, g) \in {Shown(k, l), m, "OFF"}
  <2>1. CASE m = "OFF" /\ s = 0 /\ b = 0
    BY <1>1, <1>2, <1>4, <1>5, <1>6, <2>1 DEF Kinds
  <2>2. CASE s \in {1, 2} /\ b = 0 /\ Steady[k][s] = m
    BY <1>1, <1>2, <1>4, <1>5, <1>6, <2>2 DEF Kinds
  <2>3. CASE b \in {1, 2} /\ s = 0 /\ Blinking[k][b] = m
    BY <1>1, <1>2, <1>4, <1>5, <1>6, <2>3 DEF Kinds
  <2> QED BY <1>3, <2>1, <2>2, <2>3
<1>9. g.steady = 0 \/ g.blink = 0
  BY <1>1, <1>2, <1>3
<1>10. l = Dark => Shown(k, g) = m
  BY <1>1, <1>2, <1>3, <1>4, <1>5, <1>7 DEF Kinds
<1> QED BY <1>8, <1>9, <1>10 DEF f, g

Modes == UNION {Caps[k] : k \in DOMAIN Caps}

LEMMA ShownMode ==
  ASSUME NEW k \in Kinds, NEW l \in Light
  PROVE  Shown(k, l) \in Modes
PROOF
<1>1. \A x : x \in Caps["sys"] \/ x \in Caps["psu"] \/ x \in Caps["qsfp"] \/ x \in Caps["cfp"] => x \in Modes
  <2>1. {"sys", "psu", "qsfp", "cfp"} \subseteq DOMAIN Caps
    BY DEF Caps
  <2> QED BY <2>1 DEF Modes
<1>2. {Steady[k][1], Steady[k][2], Blinking[k][1], Blinking[k][2], "OFF"} \subseteq Modes
  BY <1>1 DEF Kinds, Steady, Blinking, Caps
<1> QED BY <1>2, ShownIs

-----------------------------------------------------------------------------
(* ArmLed.                                                                 *)

(* One process at a time is in a handler, and it has what it was called    *)
(* with. *)
Handling ==
  /\ \A c, d \in Caller : at[c] # "idle" /\ at[d] # "idle" => c = d
  /\ \A c \in Caller : at[c] \in {"first", "second", "set"} =>
       op[c].kind = "set" /\ op[c].led \in Lights /\ op[c].mode \in Caps[Kind[op[c].led]]
  /\ \A c \in Caller : at[c] = "shown" => op[c].led \in Lights

LedTyped == TypeOK /\ Handling

LEMMA LedKinds == \A l \in Lights : Kind[l] \in Kinds
  BY LightsAssumption, KindOf

LEMMA HandlerIs ==
  ASSUME NEW o \in Handler
  PROVE  /\ o.led \in Lights
         /\ o.kind \in {"show", "set"}
         /\ o.kind = "set" => o.mode \in Caps[Kind[o.led]]
PROOF
<1>1. CASE o \in [kind : {"show"}, led : Lights]
  BY <1>1
<1>2. CASE o \in UNION {[kind : {"set"}, led : {l}, mode : Caps[Kind[l]]] : l \in Lights}
  <2>1. PICK l \in Lights : o \in [kind : {"set"}, led : {l}, mode : Caps[Kind[l]]]
    BY <1>2
  <2> QED BY <2>1
<1> QED BY <1>1, <1>2 DEF Handler

LEMMA DarkLight == Dark \in Light
  BY DEF Dark, Light, Bits

LEMMA LedTypedInit == Init => LedTyped
PROOF
<1>1. "OFF" \in Modes
  BY ShownMode, ShownIs, DarkLight DEF Kinds, Dark
<1> QED BY <1>1, DarkLight DEF Init, LedTyped, TypeOK, Handling, Modes

(* A store to one register leaves lights, whatever was read. *)
LEMMA ModifyTyped ==
  ASSUME light \in [Lights -> Light], garbled \in BOOLEAN, NEW led \in Lights, NEW new \in Light,
         NEW part_ \in {"steady", "blink"}, Modify(led, new, part_)
  PROVE  /\ light' \in [Lights -> Light] /\ garbled' \in BOOLEAN /\ (garbled => garbled')
         /\ ~garbled' => light' = [light EXCEPT ![led] = new]
PROOF
<1>1. CASE light' = [light EXCEPT ![led] = new] /\ UNCHANGED garbled
  BY <1>1
<1>2. CASE garbled' = TRUE /\ UNCHANGED light
  BY <1>2
<1>3. ASSUME garbled' = TRUE, NEW g \in [Lights -> Garbage],
             light' = [l \in Lights |-> IF Pair[l] = Pair[led] THEN [light[l] EXCEPT ![part_] = g[l]]
                                                               ELSE light[l]]
      PROVE  light' \in [Lights -> Light]
  <2>1. ASSUME NEW l \in Lights PROVE [light[l] EXCEPT ![part_] = g[l]] \in Light
    <3>1. light[l] \in Light /\ g[l] \in Bits
      BY LightsAssumption
    <3>2. CASE part_ = "steady"
      BY <3>1, <3>2 DEF Light
    <3>3. CASE part_ = "blink"
      BY <3>1, <3>3 DEF Light
    <3> QED BY <3>2, <3>3
  <2> QED BY <1>3, <2>1
<1> QED BY <1>1, <1>2, <1>3 DEF Modify

(* What a store does to its LED. *)
LEMMA StoreIs ==
  ASSUME LedTyped, NEW c \in Caller, SetFirst(c) \/ SetSecond(c)
  PROVE  LET led == op[c].led
             k == Kind[led]
             m == op[c].mode IN
         /\ led \in Lights /\ k \in Kinds /\ m \in Caps[k]
         /\ light' \in [Lights -> Light] /\ garbled' \in BOOLEAN /\ (garbled => garbled')
         /\ \/ /\ at[c] = "first" /\ at' = [at EXCEPT ![c] = "second"]
               /\ stored' = stored \cup {led} /\ UNCHANGED <<op, valid, fresh, led_data, before>>
               /\ ~garbled' => light' = [light EXCEPT ![led] = First(k, light[led], m)]
            \/ /\ at[c] = "second" /\ at' = [at EXCEPT ![c] = "set"]
               /\ UNCHANGED <<op, valid, fresh, led_data, before, stored>>
               /\ ~garbled' => light' = [light EXCEPT ![led] = Second(k, light[led], m)]
PROOF
<1> DEFINE led == op[c].led
           k == Kind[led]
           m == op[c].mode
<1>1. at[c] \in {"first", "second"}
  BY DEF SetFirst, SetSecond, Goto
<1>2. led \in Lights /\ k \in Kinds /\ m \in Caps[k]
  BY <1>1, LedKinds DEF LedTyped, Handling
<1>3. light \in [Lights -> Light] /\ garbled \in BOOLEAN /\ light[led] \in Light
  BY <1>2 DEF LedTyped, TypeOK
<1>4. CASE SetFirst(c)
  <2>1. /\ Modify(led, First(k, light[led], m), "steady")
        /\ at[c] = "first" /\ at' = [at EXCEPT ![c] = "second"]
        /\ stored' = stored \cup {led} /\ UNCHANGED <<op, valid, fresh, led_data, before>>
    BY <1>4 DEF SetFirst, Goto, cache
  <2>2. First(k, light[led], m) \in Light
    BY <1>2, <1>3, FirstIs
  <2> HIDE DEF led, k, m
  <2>3. /\ light' \in [Lights -> Light] /\ garbled' \in BOOLEAN /\ (garbled => garbled')
        /\ ~garbled' => light' = [light EXCEPT ![led] = First(k, light[led], m)]
    BY <1>2, <1>3, <2>1, <2>2, ModifyTyped
  <2> QED BY <1>2, <2>1, <2>3 DEF led, k, m
<1>5. CASE SetSecond(c)
  <2>1. /\ Modify(led, Second(k, light[led], m), "blink")
        /\ at[c] = "second" /\ at' = [at EXCEPT ![c] = "set"]
        /\ UNCHANGED <<op, valid, fresh, led_data, before, stored>>
    BY <1>5 DEF SetSecond, Goto, cache
  <2>2. Second(k, light[led], m) \in Light
    BY <1>2, <1>3, SecondIs
  <2> HIDE DEF led, k, m
  <2>3. /\ light' \in [Lights -> Light] /\ garbled' \in BOOLEAN /\ (garbled => garbled')
        /\ ~garbled' => light' = [light EXCEPT ![led] = Second(k, light[led], m)]
    BY <1>2, <1>3, <2>1, <2>2, ModifyTyped
  <2> QED BY <1>2, <2>1, <2>3 DEF led, k, m
<1> QED BY <1>4, <1>5

(* What taking the lock does. *)
LEMMA LockIs ==
  ASSUME LedTyped, NEW c \in Caller, NEW o \in Handler, Lock(c, o)
  PROVE  /\ \A d \in Caller : at[d] = "idle"
         /\ at' = [at EXCEPT ![c] = IF o.kind = "show" THEN "shown" ELSE "first"]
         /\ op' = [op EXCEPT ![c] = o] /\ op'[c] = o /\ UNCHANGED light
         /\ before' = IF o.kind = "set" THEN Shown(Kind[o.led], light[o.led]) ELSE "OFF"
         /\ led_data' \in [Lights -> Light] /\ garbled' \in BOOLEAN /\ (garbled => garbled')
         /\ \/ valid /\ fresh /\ UNCHANGED <<valid, fresh, led_data, stored, garbled>>
            \/ valid' /\ fresh' /\ led_data' = light /\ stored' = {} /\ UNCHANGED garbled
            \/ valid' /\ fresh' /\ garbled' /\ UNCHANGED stored
PROOF
<1>1. [Lights -> [steady : Garbage, blink : Garbage]] \subseteq [Lights -> Light]
  BY LightsAssumption DEF Light
<1>2. light \in [Lights -> Light] /\ led_data \in [Lights -> Light] /\ op \in [Caller -> Handler \cup {None}]
      /\ garbled \in BOOLEAN
  BY DEF LedTyped, TypeOK
<1>3. \/ valid /\ fresh /\ UNCHANGED <<valid, fresh, led_data, stored, garbled>>
      \/ valid' = TRUE /\ fresh' = TRUE /\ led_data' = light /\ stored' = {} /\ UNCHANGED garbled
      \/ /\ valid' = TRUE /\ fresh' = TRUE /\ garbled' = TRUE /\ UNCHANGED stored
         /\ \E l \in [Lights -> [steady : Garbage, blink : Garbage]] : led_data' = l
  BY DEF Lock, cache
<1> QED BY <1>1, <1>2, <1>3 DEF Lock, Goto

LEMMA LedTypedStep == LedTyped /\ [Next]_vars => LedTyped'
PROOF
<1> SUFFICES ASSUME LedTyped, [Next]_vars PROVE LedTyped'
  OBVIOUS
<1>0. /\ at \in [Caller -> {"idle", "shown", "first", "second", "set"}]
      /\ op \in [Caller -> Handler \cup {None}]
      /\ valid \in BOOLEAN /\ fresh \in BOOLEAN /\ garbled \in BOOLEAN
      /\ led_data \in [Lights -> Light] /\ light \in [Lights -> Light]
      /\ stored \subseteq Lights /\ before \in Modes
      /\ \A c, d \in Caller : at[c] # "idle" /\ at[d] # "idle" => c = d
      /\ \A c \in Caller : at[c] \in {"first", "second", "set"} =>
           op[c].kind = "set" /\ op[c].led \in Lights /\ op[c].mode \in Caps[Kind[op[c].led]]
      /\ \A c \in Caller : at[c] = "shown" => op[c].led \in Lights
  BY DEF LedTyped, TypeOK, Handling, Modes
<1>off. "OFF" \in Modes
  BY ShownMode, ShownIs, DarkLight DEF Kinds, Dark
<1>1. ASSUME NEW c \in Caller, NEW o \in Handler, Lock(c, o) PROVE LedTyped'
  <2>1. /\ \A d \in Caller : at[d] = "idle"
        /\ at' = [at EXCEPT ![c] = IF o.kind = "show" THEN "shown" ELSE "first"]
        /\ op' = [op EXCEPT ![c] = o] /\ UNCHANGED light
        /\ before' = IF o.kind = "set" THEN Shown(Kind[o.led], light[o.led]) ELSE "OFF"
        /\ led_data' \in [Lights -> Light] /\ garbled' \in BOOLEAN
        /\ stored' = stored \/ stored' = {}
        /\ valid' \in BOOLEAN /\ fresh' \in BOOLEAN
    <3>1. valid' \in BOOLEAN /\ fresh' \in BOOLEAN
      BY <1>0, <1>1 DEF Lock, cache
    <3> QED BY <1>1, <3>1, LockIs
  <2>2. o.led \in Lights /\ o.kind \in {"show", "set"} /\ (o.kind = "set" => o.mode \in Caps[Kind[o.led]])
    BY HandlerIs
  <2>3. before' \in Modes
    BY <1>0, <1>off, <2>1, <2>2, LedKinds, ShownMode
  <2>4. TypeOK'
    BY <1>0, <2>1, <2>3 DEF TypeOK, Modes
  <2>5. Handling'
    BY <1>0, <2>1, <2>2 DEF Handling
  <2> QED BY <2>4, <2>5 DEF LedTyped
<1>2. ASSUME NEW c \in Caller, SetFirst(c) \/ SetSecond(c) PROVE LedTyped'
  <2> DEFINE led == op[c].led
  <2>1. /\ led \in Lights
        /\ light' \in [Lights -> Light] /\ garbled' \in BOOLEAN
        /\ \/ at[c] = "first" /\ at' = [at EXCEPT ![c] = "second"]
           \/ at[c] = "second" /\ at' = [at EXCEPT ![c] = "set"]
        /\ stored' \subseteq stored \cup {led} /\ UNCHANGED <<op, valid, fresh, led_data, before>>
    BY <1>2, StoreIs
  <2>2. TypeOK'
    BY <1>0, <2>1 DEF TypeOK, Modes
  <2>3. Handling'
    BY <1>0, <2>1 DEF Handling
  <2> QED BY <2>2, <2>3 DEF LedTyped
<1>3. ASSUME NEW c \in Caller, Unlock(c) PROVE LedTyped'
  <2>1. /\ at' = [at EXCEPT ![c] = "idle"] /\ op' = [op EXCEPT ![c] = None] /\ before' = "OFF"
        /\ UNCHANGED <<valid, fresh, led_data, light, stored, garbled>>
    BY <1>3 DEF Unlock, Goto, cache
  <2>2. TypeOK'
    BY <1>0, <1>off, <2>1 DEF TypeOK, Modes
  <2>3. Handling'
    BY <1>0, <2>1 DEF Handling
  <2> QED BY <2>2, <2>3 DEF LedTyped
<1>4. CASE Expire
  BY <1>0, <1>4 DEF Expire, LedTyped, TypeOK, Handling, Modes
<1>5. CASE UNCHANGED vars
  BY <1>0, <1>5 DEF vars, cache, LedTyped, TypeOK, Handling, Modes
<1> QED BY <1>1, <1>2, <1>3, <1>4, <1>5 DEF Next

(* As long as every mapping succeeded: only the LED whose store is between *)
(* its registers may light and blink at once, and it got there by the      *)
(* first of the two from the mode before; what a young cache has is in     *)
(* force for every LED that was not stored since.                          *)
Single(l) == light[l].steady = 0 \/ light[l].blink = 0

Colours ==
  /\ \A l \in Lights : Single(l) \/ \E c \in Caller : at[c] = "second" /\ op[c].led = l
  /\ \A c \in Caller :
       LET led == op[c].led
           k == Kind[led] IN
       /\ at[c] = "first" => before = Shown(k, light[led])
       /\ at[c] = "second" =>
            /\ \E old \in Light :
                 /\ old.steady = 0 \/ old.blink = 0
                 /\ before = Shown(k, old) /\ light[led] = First(k, old, op[c].mode)
            /\ fresh => led \in stored
       /\ at[c] = "set" => Shown(k, light[led]) \in {before, op[c].mode, "OFF"}
  /\ valid /\ fresh => \A l \in Lights \ stored : led_data[l] = light[l]

Colourful == ~garbled => Colours

LEMMA ColourfulInit == Init => Colourful
PROOF
<1> SUFFICES ASSUME Init PROVE Colours
  BY DEF Colourful
<1>1. \A l \in Lights : Single(l)
  BY DEF Init, Single, Dark
<1> QED BY <1>1 DEF Init, Colours

LEMMA ColourfulStep == LedTyped /\ Colourful /\ [Next]_vars => Colourful'
PROOF
<1> SUFFICES ASSUME LedTyped, Colourful, [Next]_vars, ~garbled' PROVE Colours'
  BY DEF Colourful
<1>0. /\ at \in [Caller -> {"idle", "shown", "first", "second", "set"}]
      /\ op \in [Caller -> Handler \cup {None}]
      /\ light \in [Lights -> Light] /\ garbled \in BOOLEAN
      /\ \A c, d \in Caller : at[c] # "idle" /\ at[d] # "idle" => c = d
  BY DEF LedTyped, TypeOK, Handling
<1>1. ASSUME NEW c \in Caller, NEW o \in Handler, Lock(c, o) PROVE Colours'
  <2>1. /\ \A d \in Caller : at[d] = "idle"
        /\ at' = [at EXCEPT ![c] = IF o.kind = "show" THEN "shown" ELSE "first"]
        /\ op'[c] = o /\ UNCHANGED light
        /\ before' = IF o.kind = "set" THEN Shown(Kind[o.led], light[o.led]) ELSE "OFF"
        /\ \/ valid /\ fresh /\ UNCHANGED <<valid, fresh, led_data, stored>>
           \/ led_data' = light /\ stored' = {}
        /\ UNCHANGED garbled
    BY <1>1, LockIs
  <2>2. Colours
    BY <2>1 DEF Colourful
  <2>3. \A d \in Caller : at'[d] # "idle" => d = c /\ at'[d] \in {"shown", "first"}
    BY <1>0, <2>1
  <2>4. \A l \in Lights : Single(l) /\ Single(l)'
    BY <2>1, <2>2 DEF Colours, Single
  <2>5. at'[c] = "first" => before' = Shown(Kind[op'[c].led], light'[op'[c].led])
    BY <1>0, <2>1, HandlerIs
  <2>6. valid' /\ fresh' => \A l \in Lights \ stored' : led_data'[l] = light'[l]
    BY <2>1, <2>2 DEF Colours
  <2> QED BY <2>3, <2>4, <2>5, <2>6 DEF Colours
<1>2. ASSUME NEW c \in Caller, SetFirst(c) \/ SetSecond(c) PROVE Colours'
  <2> DEFINE led == op[c].led
             k == Kind[led]
             m == op[c].mode
  <2>1. /\ led \in Lights /\ k \in Kinds /\ m \in Caps[k] /\ light' \in [Lights -> Light]
        /\ \/ /\ at[c] = "first" /\ at' = [at EXCEPT ![c] = "second"]
              /\ stored' = stored \cup {led} /\ UNCHANGED <<op, valid, fresh, led_data, before>>
              /\ light' = [light EXCEPT ![led] = First(k, light[led], m)]
           \/ /\ at[c] = "second" /\ at' = [at EXCEPT ![c] = "set"]
              /\ UNCHANGED <<op, valid, fresh, led_data, before, stored>>
              /\ light' = [light EXCEPT ![led] = Second(k, light[led], m)]
        /\ ~garbled
    BY <1>2, StoreIs
  <2>2. Colours
    BY <2>1 DEF Colourful
  <2>3. /\ \A d \in Caller : d # c => at[d] = "idle" /\ at'[d] = "idle"
        /\ op' = op /\ before' = before
        /\ \A l \in Lights : l # led => light'[l] = light[l] /\ Single(l) /\ Single(l)'
    <3>1. \A d \in Caller : d # c => at[d] = "idle" /\ at'[d] = "idle"
      BY <1>0, <2>1
    <3>2. \A l \in Lights : l # led => light'[l] = light[l] /\ Single(l)
      BY <1>0, <2>1, <2>2, <3>1 DEF Colours
    <3> QED BY <2>1, <3>1, <3>2 DEF Single
  <2>4. CASE at[c] = "first"
    <3>1. /\ at'[c] = "second" /\ light'[led] = First(k, light[led], m) /\ light[led] \in Light
          /\ stored' = stored \cup {led} /\ UNCHANGED <<valid, fresh, led_data>>
      BY <1>0, <2>1, <2>4
    <3>2. Single(led) /\ before = Shown(k, light[led])
      BY <2>1, <2>2, <2>3, <2>4 DEF Colours
    <3>3. \E old \in Light :
             /\ old.steady = 0 \/ old.blink = 0
             /\ before = Shown(k, old) /\ light'[led] = First(k, old, m)
      BY <3>1, <3>2 DEF Single
    <3>4. valid' /\ fresh' => \A l \in Lights \ stored' : led_data'[l] = light'[l]
      BY <2>2, <2>3, <3>1 DEF Colours
    <3> QED BY <2>3, <3>1, <3>3, <3>4 DEF Colours
  <2>5. CASE at[c] = "second"
    <3>1. /\ at'[c] = "set" /\ light'[led] = Second(k, light[led], m)
          /\ UNCHANGED <<valid, fresh, led_data, stored>>
      BY <1>0, <2>1, <2>5
    <3>2. PICK old \in Light :
             /\ old.steady = 0 \/ old.blink = 0
             /\ before = Shown(k, old) /\ light[led] = First(k, old, m)
      BY <2>2, <2>5 DEF Colours
    <3>3. /\ Shown(k, light'[led]) \in {before, m, "OFF"}
          /\ light'[led].steady = 0 \/ light'[led].blink = 0
      BY <2>1, <3>1, <3>2, StoreShows
    <3>4. valid' /\ fresh' => \A l \in Lights \ stored' : led_data'[l] = light'[l]
      BY <2>2, <2>3, <2>5, <3>1 DEF Colours
    <3> QED BY <2>3, <3>1, <3>3, <3>4 DEF Colours, Single
  <2> QED BY <2>1, <2>4, <2>5
<1>3. ASSUME NEW c \in Caller, Unlock(c) PROVE Colours'
  <2>1. /\ at[c] \in {"shown", "set"} /\ at' = [at EXCEPT ![c] = "idle"]
        /\ UNCHANGED <<valid, fresh, led_data, light, stored, garbled>>
    BY <1>3 DEF Unlock, Goto, cache
  <2>2. \A d \in Caller : at'[d] = "idle"
    BY <1>0, <2>1
  <2>3. Colours /\ \A l \in Lights : Single(l)' = Single(l)
    BY <2>1 DEF Colourful, Single
  <2>4. \A d \in Caller : at[d] # "second"
    BY <1>0, <2>1
  <2> QED BY <2>1, <2>2, <2>3, <2>4 DEF Colours
<1>4. CASE Expire
  BY <1>4 DEF Expire, Colourful, Colours, Single
<1>5. CASE UNCHANGED vars
  BY <1>5 DEF vars, cache, Colourful, Colours, Single
<1> QED BY <1>1, <1>2, <1>3, <1>4, <1>5 DEF Next

LedInv == LedTyped /\ Colourful

LEMMA LedInvariant == Spec => []LedInv
PROOF
<1>1. Init => LedInv
  BY LedTypedInit, ColourfulInit DEF LedInv
<1>2. LedInv /\ [Next]_vars => LedInv'
  BY LedTypedStep, ColourfulStep DEF LedInv
<1> QED BY <1>1, <1>2, PTL DEF Spec

LEMMA ColoursTrue == LedInv => NoFalseColour
PROOF
<1> SUFFICES ASSUME LedInv, ~garbled, NEW c \in Caller, at[c] \in {"first", "second", "set"}
             PROVE  Shown(Kind[op[c].led], light[op[c].led]) \in {before, op[c].mode, "OFF"}
  BY DEF NoFalseColour
<1>1. /\ Colours /\ op[c].led \in Lights /\ op[c].mode \in Caps[Kind[op[c].led]]
      /\ Kind[op[c].led] \in Kinds
  BY LedKinds DEF LedInv, Colourful, LedTyped, Handling
<1>2. CASE at[c] = "first"
  BY <1>1, <1>2 DEF Colours
<1>3. CASE at[c] = "second"
  <2>1. PICK old \in Light :
           /\ old.steady = 0 \/ old.blink = 0
           /\ before = Shown(Kind[op[c].led], old)
           /\ light[op[c].led] = First(Kind[op[c].led], old, op[c].mode)
    BY <1>1, <1>3 DEF Colours
  <2> QED BY <1>1, <2>1, StoreShows
<1>4. CASE at[c] = "set"
  BY <1>1, <1>4 DEF Colours
<1> QED BY <1>2, <1>3, <1>4

(* What a step of the LED driver may do. *)
LEMMA LedSteps ==
  ASSUME LedInv, [Next]_vars, ~garbled'
  PROVE  /\ \A c \in Caller : at[c] = "idle" /\ at'[c] = "shown" =>
              \/ op'[c].led \in stored'
              \/ Shown(Kind[op'[c].led], led_data'[op'[c].led]) = Shown(Kind[op'[c].led], light'[op'[c].led])
         /\ \A c \in Caller :
              at[c] = "first" /\ at'[c] = "second" /\ light[op[c].led] = Dark =>
                Shown(Kind[op[c].led], Second(Kind[op[c].led], light'[op[c].led], op[c].mode)) = op[c].mode
         /\ \A l \in Lights : light'[l] # light[l] =>
              \E c \in Caller : at[c] \in {"first", "second"} /\ op[c].led = l
PROOF
<1>0. at \in [Caller -> {"idle", "shown", "first", "second", "set"}] /\ light \in [Lights -> Light]
      /\ op \in [Caller -> Handler \cup {None}]
  BY DEF LedInv, LedTyped, TypeOK
<1>1. ASSUME NEW c \in Caller, NEW o \in Handler, Lock(c, o)
      PROVE  /\ o.led \in stored' \/ led_data'[o.led] = light'[o.led]
             /\ at' = [at EXCEPT ![c] = IF o.kind = "show" THEN "shown" ELSE "first"]
             /\ \A d \in Caller : at[d] = "idle"
             /\ op'[c] = o /\ UNCHANGED light
  <2>1. /\ at' = [at EXCEPT ![c] = IF o.kind = "show" THEN "shown" ELSE "first"]
        /\ op'[c] = o /\ UNCHANGED light
        /\ \/ valid /\ fresh /\ UNCHANGED <<valid, fresh, led_data, stored, garbled>>
           \/ led_data' = light
        /\ garbled' = garbled
        /\ \A d \in Caller : at[d] = "idle"
    BY <1>1, LockIs DEF LedInv
  <2>2. Colours /\ o.led \in Lights
    BY <2>1, HandlerIs DEF LedInv, Colourful
  <2> QED BY <2>1, <2>2 DEF Colours
<1>2. ASSUME NEW c \in Caller, SetFirst(c) \/ SetSecond(c)
      PROVE  /\ at[c] \in {"first", "second"}
             /\ \A l \in Lights : l # op[c].led => light'[l] = light[l]
             /\ \A d \in Caller : ~(at[d] = "idle" /\ at'[d] = "shown")
             /\ \A d \in Caller : at[d] = "first" /\ at'[d] = "second" =>
                  d = c /\ light'[op[c].led] = First(Kind[op[c].led], light[op[c].led], op[c].mode)
  <2>1. LedTyped
    BY DEF LedInv
  <2> QED BY <1>0, <1>2, <2>1, StoreIs
<1>3. ASSUME \A d \in Caller : at'[d] = at[d] \/ at'[d] = "idle", UNCHANGED light
      PROVE  /\ \A c \in Caller : ~(at[c] = "idle" /\ at'[c] = "shown")
             /\ \A c \in Caller : ~(at[c] = "first" /\ at'[c] = "second")
  BY <1>3
<1>4. ASSUME (\E c \in Caller : Unlock(c)) \/ Expire \/ UNCHANGED vars
      PROVE  (\A d \in Caller : at'[d] = at[d] \/ at'[d] = "idle") /\ UNCHANGED light
  BY <1>0, <1>4 DEF Unlock, Goto, Expire, vars
<1>5. ASSUME NEW c \in Caller, at[c] = "first", light[op[c].led] = Dark
      PROVE  LET k == Kind[op[c].led]
                 m == op[c].mode IN
             Shown(k, Second(k, First(k, light[op[c].led], m), m)) = m
  <2>1. op[c].mode \in Caps[Kind[op[c].led]] /\ Kind[op[c].led] \in Kinds
    BY <1>5, LedKinds DEF LedInv, LedTyped, Handling
  <2>2. Dark.steady = 0
    BY DEF Dark
  <2> QED BY <1>5, <2>1, <2>2, DarkLight, StoreShows
<1>6. CASE \E c \in Caller, o \in Handler : Lock(c, o)
  BY <1>0, <1>1, <1>6
<1>7. CASE \E c \in Caller : SetFirst(c) \/ SetSecond(c)
  <2>1. PICK c \in Caller : SetFirst(c) \/ SetSecond(c)
    BY <1>7
  <2> QED BY <1>2, <1>5, <2>1
<1>8. CASE (\E c \in Caller : Unlock(c)) \/ Expire \/ UNCHANGED vars
  BY <1>3, <1>4, <1>8
<1> QED BY <1>6, <1>7, <1>8 DEF Next

-----------------------------------------------------------------------------
(* LedPolicy.                                                              *)

(* LedPolicy has the LEDs of LedBits, too. *)
LEMMA SameBits ==
  /\ L!AllLeds = AllLeds /\ L!Kind = Kind /\ L!Dark = Dark /\ L!Light = Light
  /\ \A k, l : L!Shown(k, l) = Shown(k, l)
  /\ \A k, l, m : L!First(k, l, m) = First(k, l, m) /\ L!Second(k, l, m) = Second(k, l, m)
PROOF
<1>1. L!Steady = Steady /\ L!Blinking = Blinking /\ L!Caps = Caps /\ L!Bits = Bits
  BY DEF L!Steady, Steady, L!Blinking, Blinking, L!Caps, Caps, L!Bits, Bits
<1>2. L!Kind = Kind /\ L!Dark = Dark
  BY DEF L!Kind, Kind, L!Dark, Dark
<1>3. L!AllLeds = AllLeds /\ L!Light = Light
  BY <1>1, <1>2 DEF L!AllLeds, AllLeds, L!Light, Light
<1>4. \A k, l : L!Shown(k, l) = Shown(k, l)
  BY <1>1 DEF L!Shown, Shown
<1>5. \A a, b : L!Or(a, b) = Or(a, b)
  BY <1>1 DEF L!Or, Or
<1>6. \A k, m : L!SteadyBits(k, m) = SteadyBits(k, m) /\ L!BlinkBits(k, m) = BlinkBits(k, m)
  <2>1. \A modes, m : L!BitFor(modes, m) = BitFor(modes, m)
    BY DEF L!BitFor, BitFor
  <2> QED BY <1>1, <2>1 DEF L!SteadyBits, SteadyBits, L!BlinkBits, BlinkBits
<1>7. \A k, l, m : L!First(k, l, m) = First(k, l, m) /\ L!Second(k, l, m) = Second(k, l, m)
  BY <1>5, <1>6 DEF L!First, First, L!Second, Second
<1> QED BY <1>2, <1>3, <1>4, <1>7

(* Its LEDs, and what lights a module's. *)
LEMMA PolicyKinds ==
  /\ {"LED_SYS", "LED_PSU"} \subseteq PolicyLeds
  /\ \A led \in PolicyLeds : Kind[led] \in Kinds
  /\ \A led \in L!Modules : led \in PolicyLeds /\ Kind[led] \in {"qsfp", "cfp"}
                            /\ led \notin {"LED_SYS", "LED_PSU"}
  /\ Kind["LED_SYS"] = "sys" /\ Kind["LED_PSU"] = "psu"
  /\ L!Psu = {"psu1", "psu2"} /\ L!Psu \cap L!Modules = {} /\ L!Things = L!Psu \cup L!Modules
PROOF
<1>1. {"LED_SYS", "LED_PSU"} \subseteq PolicyLeds /\ PolicyLeds \subseteq AllLeds
  BY PolicyAssumption, SameBits DEF L!ConstantsOK
<1>2. AllLeds = {"LED_SYS", "LED_PSU", "LED_QSFP1", "LED_QSFP9", "LED_CFP1"}
  BY DEF AllLeds, Kind
<1>3. Kind["LED_SYS"] = "sys" /\ Kind["LED_PSU"] = "psu"
  BY DEF Kind
<1>4. \A led \in L!Modules : led \in PolicyLeds /\ Kind[led] \in {"qsfp", "cfp"}
                             /\ led \notin {"LED_SYS", "LED_PSU"}
  BY <1>1, <1>2 DEF L!Modules, Kind
<1>5. "psu1" \notin AllLeds /\ "psu2" \notin AllLeds
  BY <1>2
<1>6. L!Psu \cap L!Modules = {}
  BY <1>1, <1>4, <1>5 DEF L!Psu
<1> QED BY <1>1, <1>3, <1>4, <1>6, KindOf DEF L!Psu, L!Things

LitBits == [steady |-> 2, blink |-> 0]

(* A module's LED is dark or lit, and a store makes it what it says. *)
LEMMA ModuleStore ==
  ASSUME NEW k \in {"qsfp", "cfp"}, NEW l \in {Dark, LitBits}
  PROVE  LET lit == IF k = "qsfp" THEN "GREEN" ELSE "BLUE" IN
         /\ lit \in Caps[k] /\ "OFF" \in Caps[k]
         /\ Second(k, First(k, l, lit), lit) = LitBits /\ Shown(k, LitBits) = lit
         /\ Second(k, First(k, l, "OFF"), "OFF") = Dark /\ Shown(k, Dark) = "OFF"
PROOF
<1> DEFINE lit == IF k = "qsfp" THEN "GREEN" ELSE "BLUE"
<1>1. lit \in Caps[k] /\ "OFF" \in Caps[k] /\ k \in Kinds
  BY DEF Caps, Kinds
<1>2. /\ Steady[k][2] = lit /\ Steady[k][1] # lit
      /\ lit \notin {Blinking[k][1], Blinking[k][2], "OFF"}
      /\ "OFF" \notin {Steady[k][1], Steady[k][2], Blinking[k][1], Blinking[k][2]}
  BY DEF Steady, Blinking
<1>3. SteadyBits(k, lit) = 2 /\ BlinkBits(k, lit) = 0
  <2> HIDE DEF lit
  <2> QED BY <1>1, <1>2, ModeBits
<1>4. SteadyBits(k, "OFF") = 0 /\ BlinkBits(k, "OFF") = 0
  BY <1>1, <1>2, ModeBits
<1>5. l \in Light /\ l.blink = 0 /\ l.steady \in {0, 2} /\ LitBits \in Light /\ Dark \in Light
  BY DEF Light, Bits, Dark, LitBits
<1>6. \A x \in Light : /\ x.steady = 2 /\ x.blink = 0 => x = LitBits
                       /\ x.steady = 0 /\ x.blink = 0 => x = Dark
  BY DEF Light, LitBits, Dark
<1>7. Or(0, 2) = 2 /\ Or(2, 2) = 2
  BY OrValues DEF Bits
<1> HIDE DEF lit
<1>8. Second(k, First(k, l, lit), lit) = LitBits
  <2>1. First(k, l, lit) \in Light /\ First(k, l, lit).steady = 2
    BY <1>1, <1>3, <1>5, <1>7, FirstIs
  <2> QED BY <1>1, <1>3, <1>6, <2>1, SecondIs
<1>9. Second(k, First(k, l, "OFF"), "OFF") = Dark
  <2>1. First(k, l, "OFF") \in Light /\ First(k, l, "OFF").steady = 0
    BY <1>1, <1>4, <1>5, FirstIs
  <2> QED BY <1>1, <1>4, <1>6, <2>1, SecondIs
<1>10. Shown(k, LitBits) = lit
  BY <1>1, <1>2, <1>5, ShownIs DEF LitBits
<1>11. Shown(k, Dark) = "OFF"
  BY <1>1, <1>5, ShownIs DEF Dark
<1> QED BY <1>1, <1>8, <1>9, <1>10, <1>11 DEF lit

(* A store to the power supply LED: its bits may add up to nothing that    *)
(* has a name, but never show another colour. *)
LEMMA PsuStore ==
  ASSUME NEW l \in Light, NEW m \in {"GREEN", "RED", "RED_BLINKING"}
  PROVE  /\ m \in Caps["psu"] /\ "psu" \in Kinds
         /\ Shown("psu", Second("psu", First("psu", l, m), m)) \in {m, "OFF"}
PROOF
<1> DEFINE f == First("psu", l, m)
           g == Second("psu", f, m)
<1>1. m \in Caps["psu"] /\ "psu" \in Kinds
  BY DEF Caps, Kinds
<1>2. /\ Steady["psu"][1] = "GREEN" /\ Steady["psu"][2] = "RED"
      /\ Blinking["psu"][1] = "GREEN_BLINKING" /\ Blinking["psu"][2] = "RED_BLINKING"
  BY DEF Steady, Blinking
<1>3. \/ /\ m \in {"GREEN", "RED"} /\ SteadyBits("psu", m) \in {1, 2} /\ BlinkBits("psu", m) = 0
         /\ Steady["psu"][SteadyBits("psu", m)] = m
      \/ m = "RED_BLINKING" /\ SteadyBits("psu", m) = 0 /\ BlinkBits("psu", m) = 2
  BY <1>1, <1>2, ModeBits
<1>4. /\ f \in Light /\ f.blink = l.blink
      /\ f.steady = IF BlinkBits("psu", m) # 0 THEN 0 ELSE Or(l.steady, SteadyBits("psu", m))
  BY <1>1, FirstIs
<1>5. /\ g \in Light /\ g.steady = f.steady
      /\ g.blink = IF BlinkBits("psu", m) # 0 THEN Or(f.blink, BlinkBits("psu", m)) ELSE 0
  BY <1>1, <1>4, SecondIs
<1>6. l.steady \in Bits /\ l.blink \in Bits
  BY DEF Light
<1>7. \A a \in Bits : /\ Or(a, 1) \in {1, 3}
                      /\ Or(a, 2) \in {2, 3}
  BY OrValues
<1> HIDE DEF f, g
<1> QED BY <1>1, <1>2, <1>3, <1>4, <1>5, <1>6, <1>7, ShownIs DEF g, f

(* What the policy makes of a power supply's status. *)
LEMMA PsuInfoIs ==
  ASSUME NEW p, NEW info \in L!PsuInfo(p)
  PROVE  /\ info.ok \in BOOLEAN /\ info.present \in BOOLEAN
         /\ info.present => info.ok /\ p \in pol_plugged \cup recent
PROOF
<1>1. \/ info = [ok |-> TRUE, present |-> FALSE] \/ info = [ok |-> FALSE, present |-> FALSE]
      \/ \E q \in {p} \cap (pol_plugged \cup recent) : info = [ok |-> TRUE, present |-> TRUE]
  BY DEF L!PsuInfo
<1>2. ASSUME NEW b \in BOOLEAN, info = [ok |-> b, present |-> FALSE]
      PROVE  info.ok \in BOOLEAN /\ info.present = FALSE
  BY <1>2
<1>3. ASSUME NEW q \in {p} \cap (pol_plugged \cup recent), info = [ok |-> TRUE, present |-> TRUE]
      PROVE  info.ok = TRUE /\ info.present = TRUE /\ p \in pol_plugged \cup recent
  BY <1>3
<1> QED BY <1>1, <1>2, <1>3

LEMMA FoundIs ==
  ASSUME NEW led \in L!Modules, NEW found \in L!Found(led)
  PROVE  /\ found.lit \in BOOLEAN
         /\ \/ found.unread = {} /\ (found.lit <=> led \in pol_plugged)
            \/ found.unread = {led} /\ (Kind[led] = "qsfp" => found.lit)
PROOF
<1> DEFINE Bs(p) == CASE p = "in" -> {TRUE} [] p = "out" -> {FALSE}
                      [] p = "error" -> IF L!Kind[led] = "qsfp" THEN {TRUE} ELSE BOOLEAN
<1>1. PICK p \in L!Presence(led) :
         found \in {[lit |-> b, unread |-> {led : e \in {p} \cap {"error"}}] : b \in Bs(p)}
  BY DEF L!Found
<1>2. PICK b \in Bs(p) : found = [lit |-> b, unread |-> {led : e \in {p} \cap {"error"}}]
  BY <1>1
<1>3. p = "error" \/ p = IF led \in pol_plugged THEN "in" ELSE "out"
  BY DEF L!Presence
<1>4. CASE p = "error"
  <2>1. {p} \cap {"error"} = {"error"}
    BY <1>4
  <2>2. found.unread = {led} /\ found.lit = b
    BY <1>2, <2>1
  <2>3. b \in IF Kind[led] = "qsfp" THEN {TRUE} ELSE BOOLEAN
    BY <1>4, SameBits
  <2> QED BY <2>2, <2>3
<1>5. CASE p # "error"
  <2>1. {p} \cap {"error"} = {}
    BY <1>5
  <2>2. found.unread = {} /\ found.lit = b
    BY <1>2, <2>1
  <2>3. CASE led \in pol_plugged
    <3>1. p = "in"
      BY <1>3, <1>5, <2>3
    <3>2. b \in {TRUE}
      BY <3>1
    <3>3. b = TRUE
      BY <3>2
    <3> HIDE DEF Bs
    <3> QED BY <2>2, <2>3, <3>3
  <2>4. CASE led \notin pol_plugged
    <3>1. p = "out"
      BY <1>3, <1>5, <2>4
    <3>2. b \in {FALSE}
      BY <3>1
    <3>3. b = FALSE
      BY <3>2
    <3> HIDE DEF Bs
    <3> QED BY <2>2, <2>4, <3>3
  <2> QED BY <2>3, <2>4
<1> QED BY <1>4, <1>5

(* A store by the policy, which may be lost. *)
LEMMA ModeSetIs ==
  ASSUME pol_light \in [PolicyLeds -> Light], lost \subseteq PolicyLeds,
         NEW led \in PolicyLeds, NEW m \in Caps[Kind[led]], L!ModeSet(led, m)
  PROVE  /\ pol_light' \in [PolicyLeds -> Light] /\ lost' \subseteq PolicyLeds
         /\ lost \subseteq lost' /\ lost' \subseteq lost \cup {led}
         /\ \A l \in PolicyLeds : l # led => pol_light'[l] = pol_light[l]
         /\ \/ /\ pol_light'[led] = Second(Kind[led], First(Kind[led], pol_light[led], m), m)
               /\ lost' = lost
            \/ UNCHANGED pol_light /\ (led # "LED_SYS" => led \in lost')
PROOF
<1> DEFINE new == Second(Kind[led], First(Kind[led], pol_light[led], m), m)
<1>1. new \in Light
  BY PolicyKinds, FirstIs, SecondIs
<1>2. \/ pol_light' = [pol_light EXCEPT ![led] = new] /\ UNCHANGED lost
      \/ lost' = lost \cup ({led} \ {"LED_SYS"}) /\ UNCHANGED pol_light
  BY SameBits DEF L!ModeSet
<1> HIDE DEF new
<1> QED BY <1>1, <1>2 DEF new

Phases == {"idle", "psu1", "psu2", "fans1", "fans2", "sys", "psu", "modules", "done"}

(* What a run has found so far.  Missing: a power supply that it could not *)
(* read, or that has been out since five seconds before it began.          *)
Missing(p) == p \in unread \/ (p \notin pol_plugged /\ p \in stayed)
Looked(p) == phase \notin IF p = "psu1" THEN {"idle", "psu1"} ELSE {"idle", "psu1", "psu2"}
AllThere == L!Psu \subseteq (pol_plugged \cap stayed) /\ L!Psu \cap unread = {}

(* The mode of the power supply LED follows what was found; the LEDs of    *)
(* modules are dark or lit, and those already stored say what is there.    *)
(* No status that is held is that of a power supply gone before.           *)
Runs ==
  /\ \A p \in L!Psu : Looked(p) /\ Missing(p) => psu_new_mode # "GREEN"
  /\ \A p \in L!Psu : ~Looked(p) /\ phase # "idle" => p \notin unread
  /\ phase # "idle" /\ AllThere => psu_new_mode = "GREEN"
  /\ phase \in {"modules", "done"} /\ "LED_PSU" \notin lost =>
       Shown("psu", pol_light["LED_PSU"]) \in {psu_new_mode, "OFF"}
  /\ phase = "done" => pending = {}
  /\ stayed \cap recent = {}

Stored(led) ==
  led \in stayed /\ led \notin lost =>
    /\ led \in pol_plugged /\ (Kind[led] = "cfp" => led \notin unread) => pol_light[led] = LitBits
    /\ led \notin pol_plugged /\ led \notin unread => pol_light[led] = Dark

Lit ==
  \A led \in L!Modules :
    /\ pol_light[led] \in {Dark, LitBits}
    /\ phase \in {"modules", "done"} /\ led \notin pending => Stored(led)

PolicyInv == L!TypeOK /\ Runs /\ Lit

LEMMA PolicyTypeIs ==
  L!TypeOK <=>
    /\ phase \in Phases
    /\ psu_info \in [L!Psu -> BOOLEAN]
    /\ psu_new_mode \in {"GREEN", "RED", "RED_BLINKING"}
    /\ pending \subseteq L!Modules
    /\ pol_plugged \subseteq L!Things /\ stayed \subseteq L!Things
    /\ recent \subseteq L!Psu \ pol_plugged
    /\ pol_light \in [PolicyLeds -> Light]
    /\ unread \subseteq L!Things /\ lost \subseteq PolicyLeds
  BY SameBits DEF L!TypeOK, Phases

LEMMA PolicyInit == L!Init => PolicyInv
PROOF
<1> SUFFICES ASSUME L!Init PROVE PolicyInv
  OBVIOUS
<1>1. /\ phase = "idle" /\ psu_info = [p \in L!Psu |-> FALSE] /\ psu_new_mode = "GREEN"
      /\ pending = {} /\ pol_plugged \in SUBSET L!Things /\ recent = {}
      /\ pol_light = [l \in PolicyLeds |-> Dark]
      /\ stayed = {} /\ unread = {} /\ lost = {}
  BY SameBits DEF L!Init
<1>2. L!TypeOK
  <2>1. pol_light \in [PolicyLeds -> Light]
    BY <1>1, DarkLight
  <2>2. psu_info \in [L!Psu -> BOOLEAN]
    BY <1>1
  <2>3. phase \in Phases
    BY <1>1 DEF Phases
  <2> QED BY <1>1, <2>1, <2>2, <2>3, PolicyTypeIs
<1>3. Runs
  BY <1>1, PolicyKinds DEF Runs, Looked
<1>4. Lit
  BY <1>1, PolicyKinds DEF Lit
<1> QED BY <1>2, <1>3, <1>4 DEF PolicyInv

(* The steps of a run, seen by the invariant: what is known of a power     *)
(* supply after it was asked. *)
LEMMA AskIs ==
  ASSUME NEW p \in L!Psu, NEW info \in L!PsuInfo(p), L!Asked(p, info)
  PROVE  /\ info.ok \in BOOLEAN /\ info.present \in BOOLEAN
         /\ info.ok /\ info.present => unread' = unread /\ p \in pol_plugged \cup recent
         /\ ~(info.ok /\ info.present) =>
              unread' \in {unread, unread \cup {p}} /\ (p \in unread' \/ p \notin pol_plugged)
PROOF
<1>1. /\ info.ok \in BOOLEAN /\ info.present \in BOOLEAN
      /\ info.present => info.ok /\ p \in pol_plugged \cup recent
  BY PsuInfoIs
<1>2. unread' = IF info.ok /\ (p \in pol_plugged => info.present) THEN unread ELSE unread \cup {p}
  BY DEF L!Asked
<1>3. CASE info.present
  BY <1>1, <1>2, <1>3
<1>4. CASE ~info.present
  <2>1. CASE info.ok /\ p \notin pol_plugged
    BY <1>1, <1>2, <1>4, <2>1
  <2>2. CASE ~(info.ok /\ p \notin pol_plugged)
    BY <1>1, <1>2, <1>4, <2>2
  <2> QED BY <2>1, <2>2
<1> QED BY <1>3, <1>4

LEMMA CheckPsuIs ==
  ASSUME L!TypeOK, NEW p \in L!Psu, L!CheckPsu(p)
  PROVE  \E here \in BOOLEAN :
           /\ here => unread' = unread /\ p \in pol_plugged \cup recent
           /\ ~here => unread' \in {unread, unread \cup {p}} /\ (p \in unread' \/ p \notin pol_plugged)
           /\ phase = IF p = "psu1" THEN "psu1" ELSE "psu2"
           /\ phase' = IF p = "psu1" THEN "psu2" ELSE "fans1"
           /\ psu_info' \in [L!Psu -> BOOLEAN]
           /\ psu_new_mode' = IF here THEN psu_new_mode ELSE "RED"
           /\ UNCHANGED <<pending, pol_plugged, recent, pol_light, stayed, lost>>
PROOF
<1>1. PICK info \in L!PsuInfo(p) :
         /\ psu_info' = [psu_info EXCEPT !["psu1"] = info.present]
         /\ psu_new_mode' = IF info.ok /\ info.present THEN psu_new_mode ELSE "RED"
         /\ L!Asked(p, info)
  BY DEF L!CheckPsu
<1>2. /\ info.ok \in BOOLEAN /\ info.present \in BOOLEAN
      /\ info.ok /\ info.present => unread' = unread /\ p \in pol_plugged \cup recent
      /\ ~(info.ok /\ info.present) =>
           unread' \in {unread, unread \cup {p}} /\ (p \in unread' \/ p \notin pol_plugged)
  BY <1>1, AskIs
<1>3. /\ phase = IF p = "psu1" THEN "psu1" ELSE "psu2"
      /\ phase' = IF p = "psu1" THEN "psu2" ELSE "fans1"
      /\ UNCHANGED <<pending, pol_plugged, recent, pol_light, stayed, lost>>
  BY DEF L!CheckPsu
<1>4. psu_info' \in [L!Psu -> BOOLEAN]
  BY <1>1, <1>2 DEF L!TypeOK
<1>5. CASE info.ok /\ info.present
  BY <1>1, <1>2, <1>3, <1>4, <1>5
<1>6. CASE ~(info.ok /\ info.present)
  BY <1>1, <1>2, <1>3, <1>4, <1>6
<1> QED BY <1>5, <1>6

LEMMA CheckFansIs ==
  ASSUME L!TypeOK, NEW p \in L!Psu, L!CheckFans(p)
  PROVE  /\ phase \in {"fans1", "fans2"} /\ phase' \in {"fans2", "sys"}
         /\ UNCHANGED <<psu_info, pending, pol_plugged, recent, pol_light, stayed, lost>>
         /\ \/ UNCHANGED <<psu_new_mode, unread>>
            \/ /\ psu_new_mode' = "RED_BLINKING" /\ unread' \in {unread, unread \cup {p}}
               /\ p \in unread' \/ p \notin pol_plugged
PROOF
<1>1. /\ phase \in {"fans1", "fans2"}
      /\ UNCHANGED <<psu_info, pending, pol_plugged, recent, pol_light, stayed, lost>>
  BY DEF L!CheckFans
<1>2. CASE ~psu_info[p]
  BY <1>1, <1>2 DEF L!CheckFans
<1>3. CASE psu_info[p]
  <2>1. PICK info \in L!PsuInfo(p) :
           /\ L!Asked(p, info)
           /\ IF info.ok /\ info.present
                THEN phase' = (IF p = "psu1" THEN "fans2" ELSE "sys") /\ UNCHANGED psu_new_mode
                ELSE phase' = "sys" /\ psu_new_mode' = "RED_BLINKING"
    BY <1>3 DEF L!CheckFans, L!FanInfo
  <2>2. /\ info.ok /\ info.present => unread' = unread
        /\ ~(info.ok /\ info.present) =>
             unread' \in {unread, unread \cup {p}} /\ (p \in unread' \/ p \notin pol_plugged)
    BY <2>1, AskIs
  <2>3. CASE info.ok /\ info.present
    BY <1>1, <2>1, <2>2, <2>3
  <2>4. CASE ~(info.ok /\ info.present)
    BY <1>1, <2>1, <2>2, <2>4
  <2> QED BY <2>3, <2>4
<1> QED BY <1>2, <1>3

(* A module's LED is stored, or the store is lost. *)
LEMMA SetModuleIs ==
  ASSUME L!TypeOK, NEW led \in L!Modules, pol_light[led] \in {Dark, LitBits}, L!SetModule(led)
  PROVE  /\ phase = "modules" /\ pending' = pending \ {led}
         /\ phase' = IF pending' = {} THEN "done" ELSE phase
         /\ UNCHANGED <<psu_info, psu_new_mode, pol_plugged, recent, stayed>>
         /\ pol_light' \in [PolicyLeds -> Light] /\ lost' \subseteq PolicyLeds
         /\ lost \subseteq lost' /\ lost' \subseteq lost \cup {led}
         /\ unread \subseteq unread' /\ unread' \subseteq unread \cup {led}
         /\ \A l \in PolicyLeds : l # led => pol_light'[l] = pol_light[l]
         /\ pol_light'[led] \in {Dark, LitBits}
         /\ \/ led \in lost'
            \/ /\ led \in pol_plugged /\ (Kind[led] = "cfp" => led \notin unread') => pol_light'[led] = LitBits
               /\ led \notin pol_plugged /\ led \notin unread' => pol_light'[led] = Dark
PROOF
<1> DEFINE lit == IF Kind[led] = "qsfp" THEN "GREEN" ELSE "BLUE"
<1>1. PICK found \in L!Found(led) :
         /\ unread' = unread \cup found.unread
         /\ L!ModeSet(led, IF found.lit THEN lit ELSE "OFF")
  BY SameBits DEF L!SetModule, L!LitMode
<1>2. /\ found.lit \in BOOLEAN
      /\ \/ found.unread = {} /\ (found.lit <=> led \in pol_plugged)
         \/ found.unread = {led} /\ (Kind[led] = "qsfp" => found.lit)
  BY <1>1, FoundIs
<1>3. led \in PolicyLeds /\ Kind[led] \in {"qsfp", "cfp"} /\ led # "LED_SYS"
  BY PolicyKinds
<1> DEFINE m == IF found.lit THEN lit ELSE "OFF"
<1>4. /\ m \in Caps[Kind[led]]
      /\ Second(Kind[led], First(Kind[led], pol_light[led], m), m) = IF found.lit THEN LitBits ELSE Dark
  BY <1>2, <1>3, ModuleStore
<1>5. pol_light \in [PolicyLeds -> Light] /\ lost \subseteq PolicyLeds
  BY PolicyTypeIs
<1> HIDE DEF m, lit
<1>6. L!ModeSet(led, m)
  BY <1>1 DEF m
<1>7. /\ pol_light' \in [PolicyLeds -> Light] /\ lost' \subseteq PolicyLeds
      /\ lost \subseteq lost' /\ lost' \subseteq lost \cup {led}
      /\ \A l \in PolicyLeds : l # led => pol_light'[l] = pol_light[l]
      /\ \/ /\ pol_light'[led] = Second(Kind[led], First(Kind[led], pol_light[led], m), m)
            /\ lost' = lost
         \/ UNCHANGED pol_light /\ (led # "LED_SYS" => led \in lost')
  BY <1>3, <1>4, <1>5, <1>6, ModeSetIs
<1>8. /\ phase = "modules" /\ pending' = pending \ {led}
      /\ phase' = IF pending' = {} THEN "done" ELSE phase
      /\ UNCHANGED <<psu_info, psu_new_mode, pol_plugged, recent, stayed>>
  BY DEF L!SetModule
<1>9. unread \subseteq unread' /\ unread' \subseteq unread \cup {led} /\ found.unread \subseteq unread'
  BY <1>1, <1>2
<1>10. /\ pol_light'[led] \in {Dark, LitBits}
       /\ \/ led \in lost'
          \/ pol_light'[led] = IF found.lit THEN LitBits ELSE Dark
  BY <1>3, <1>4, <1>7
<1>11. /\ led \in pol_plugged /\ (Kind[led] = "cfp" => led \notin unread') => found.lit
       /\ led \notin pol_plugged /\ led \notin unread' => ~found.lit
  BY <1>2, <1>3, <1>9
<1> QED BY <1>7, <1>8, <1>9, <1>10, <1>11

LEMMA SetSysIs ==
  ASSUME L!TypeOK, L!SetSys
  PROVE  /\ phase = "sys" /\ phase' = "psu" /\ psu_info' \in [L!Psu -> BOOLEAN]
         /\ pol_light' \in [PolicyLeds -> Light] /\ lost' \subseteq PolicyLeds
         /\ \A l \in PolicyLeds : l # "LED_SYS" => pol_light'[l] = pol_light[l]
         /\ UNCHANGED <<psu_new_mode, pending, pol_plugged, recent, stayed, unread>>
PROOF
<1>1. pol_light \in [PolicyLeds -> Light] /\ lost \subseteq PolicyLeds
  BY PolicyTypeIs
<1>2. "LED_SYS" \in PolicyLeds /\ "GREEN" \in Caps[Kind["LED_SYS"]]
  BY PolicyKinds DEF Caps, Steady, Blinking
<1>3. L!ModeSet("LED_SYS", "GREEN")
  BY DEF L!SetSys
<1>4. /\ pol_light' \in [PolicyLeds -> Light] /\ lost' \subseteq PolicyLeds
      /\ \A l \in PolicyLeds : l # "LED_SYS" => pol_light'[l] = pol_light[l]
  BY <1>1, <1>2, <1>3, ModeSetIs
<1> QED BY <1>4 DEF L!SetSys

LEMMA SetPsuIs ==
  ASSUME L!TypeOK, L!SetPsu
  PROVE  /\ phase = "psu" /\ phase' = "modules" /\ pending' = L!Modules
         /\ pol_light' \in [PolicyLeds -> Light] /\ lost' \subseteq PolicyLeds
         /\ \A l \in PolicyLeds : l # "LED_PSU" => pol_light'[l] = pol_light[l]
         /\ \/ "LED_PSU" \in lost'
            \/ Shown("psu", pol_light'["LED_PSU"]) \in {psu_new_mode, "OFF"}
         /\ UNCHANGED <<psu_info, psu_new_mode, pol_plugged, recent, stayed, unread>>
PROOF
<1>1. /\ pol_light \in [PolicyLeds -> Light] /\ lost \subseteq PolicyLeds
      /\ psu_new_mode \in {"GREEN", "RED", "RED_BLINKING"}
  BY PolicyTypeIs
<1>2. "LED_PSU" \in PolicyLeds /\ Kind["LED_PSU"] = "psu"
  BY PolicyKinds
<1>3. pol_light["LED_PSU"] \in Light
  BY <1>1, <1>2
<1>4. /\ psu_new_mode \in Caps["psu"]
      /\ Shown("psu", Second("psu", First("psu", pol_light["LED_PSU"], psu_new_mode), psu_new_mode))
           \in {psu_new_mode, "OFF"}
  BY <1>1, <1>3, PsuStore
<1>5. L!ModeSet("LED_PSU", psu_new_mode)
  BY DEF L!SetPsu
<1>6. /\ pol_light' \in [PolicyLeds -> Light] /\ lost' \subseteq PolicyLeds
      /\ \A l \in PolicyLeds : l # "LED_PSU" => pol_light'[l] = pol_light[l]
      /\ \/ /\ pol_light'["LED_PSU"]
                 = Second("psu", First("psu", pol_light["LED_PSU"], psu_new_mode), psu_new_mode)
            /\ lost' = lost
         \/ UNCHANGED pol_light /\ ("LED_PSU" # "LED_SYS" => "LED_PSU" \in lost')
  BY <1>1, <1>2, <1>4, <1>5, ModeSetIs
<1> QED BY <1>4, <1>6 DEF L!SetPsu

LEMMA StartIs ==
  ASSUME L!Start
  PROVE  /\ phase' = "psu1" /\ psu_info' \in [L!Psu -> BOOLEAN] /\ psu_new_mode' = "GREEN"
         /\ stayed' = L!Things \ recent /\ unread' = {} /\ lost' = {}
         /\ UNCHANGED <<pending, pol_plugged, recent, pol_light>>
  BY DEF L!Start

LEMMA ExchangeIs ==
  ASSUME L!TypeOK, NEW t \in L!Things, L!Exchange(t)
  PROVE  /\ pol_plugged' \subseteq L!Things /\ recent' \subseteq L!Psu \ pol_plugged'
         /\ recent' \subseteq recent \cup {t}
         /\ \A x : x # t => (x \in pol_plugged' <=> x \in pol_plugged)
         /\ stayed' = stayed \ {t}
         /\ UNCHANGED <<phase, psu_info, psu_new_mode, pending, pol_light, unread, lost>>
PROOF
<1>1. /\ pol_plugged' = IF t \in pol_plugged THEN pol_plugged \ {t} ELSE pol_plugged \cup {t}
      /\ recent' = IF t \in pol_plugged THEN recent \cup ({t} \cap L!Psu) ELSE recent \ {t}
  BY DEF L!Exchange
<1>2. stayed' = stayed \ {t}
      /\ UNCHANGED <<phase, psu_info, psu_new_mode, pending, pol_light, unread, lost>>
  BY DEF L!Exchange, L!locals, L!failures
<1>3. pol_plugged \subseteq L!Things /\ recent \subseteq L!Psu \ pol_plugged
  BY PolicyTypeIs
<1> QED BY <1>1, <1>2, <1>3

LEMMA FiveSecondsIs ==
  ASSUME NEW p \in L!Psu, L!FiveSeconds(p)
  PROVE  /\ recent' \subseteq recent
         /\ UNCHANGED <<phase, psu_info, psu_new_mode, pending, pol_plugged, pol_light, stayed,
                        unread, lost>>
  BY DEF L!FiveSeconds, L!locals, L!failures

(* The forms a step of the policy takes. *)
LEMMA PolicyCases ==
  ASSUME [L!Next]_L!vars
  PROVE  \/ L!Start \/ L!SetSys \/ L!SetPsu \/ L!Return
         \/ \E p \in L!Psu : L!CheckPsu(p)
         \/ \E p \in L!Psu : L!CheckFans(p)
         \/ \E led \in L!Modules : L!SetModule(led)
         \/ \E t \in L!Things : L!Exchange(t)
         \/ \E p \in L!Psu : L!FiveSeconds(p)
         \/ UNCHANGED <<phase, psu_info, psu_new_mode, pending, pol_plugged, recent, pol_light, stayed,
                        unread, lost>>
PROOF
<1>1. CASE L!Next
  BY <1>1 DEF L!Next
<1>2. CASE UNCHANGED L!vars
  BY <1>2 DEF L!vars, L!locals, L!failures
<1> QED BY <1>1, <1>2

LEMMA PolicyTypedStep == PolicyInv /\ [L!Next]_L!vars => L!TypeOK'
PROOF
<1> SUFFICES ASSUME PolicyInv, [L!Next]_L!vars PROVE L!TypeOK'
  OBVIOUS
<1> USE DEF PolicyInv
<1> DEFINE Typed == /\ phase \in Phases
                    /\ psu_info \in [L!Psu -> BOOLEAN]
                    /\ psu_new_mode \in {"GREEN", "RED", "RED_BLINKING"}
                    /\ pending \subseteq L!Modules
                    /\ pol_plugged \subseteq L!Things /\ stayed \subseteq L!Things
                    /\ recent \subseteq L!Psu \ pol_plugged
                    /\ pol_light \in [PolicyLeds -> Light]
                    /\ unread \subseteq L!Things /\ lost \subseteq PolicyLeds
<1>1. Typed
  BY PolicyTypeIs
<1>2. (L!TypeOK <=> Typed)'
  BY PolicyTypeIs, PTL
<1>3. SUFFICES Typed'
  BY <1>2
<1> USE DEF Phases
<1>4. CASE L!Start
  BY <1>1, <1>4, StartIs
<1>5. CASE L!SetSys
  BY <1>1, <1>5, SetSysIs
<1>6. CASE L!SetPsu
  BY <1>1, <1>6, SetPsuIs
<1>7. CASE L!Return
  BY <1>1, <1>7 DEF L!Return
<1>8. ASSUME NEW p \in L!Psu, L!CheckPsu(p) PROVE Typed'
  <2>1. PICK here \in BOOLEAN :
           /\ here => unread' = unread
           /\ ~here => unread' \in {unread, unread \cup {p}}
           /\ phase' = IF p = "psu1" THEN "psu2" ELSE "fans1"
           /\ psu_info' \in [L!Psu -> BOOLEAN]
           /\ psu_new_mode' = IF here THEN psu_new_mode ELSE "RED"
           /\ UNCHANGED <<pending, pol_plugged, recent, pol_light, stayed, lost>>
    BY <1>8, CheckPsuIs
  <2>2. unread' \subseteq L!Things
    BY <1>1, <2>1, PolicyKinds
  <2> QED BY <1>1, <2>1, <2>2
<1>9. ASSUME NEW p \in L!Psu, L!CheckFans(p) PROVE Typed'
  <2>1. /\ phase' \in {"fans2", "sys"}
        /\ UNCHANGED <<psu_info, pending, pol_plugged, recent, pol_light, stayed, lost>>
        /\ \/ UNCHANGED <<psu_new_mode, unread>>
           \/ psu_new_mode' = "RED_BLINKING" /\ unread' \in {unread, unread \cup {p}}
    BY <1>9, CheckFansIs
  <2>2. unread' \subseteq L!Things
    BY <1>1, <2>1, PolicyKinds
  <2> QED BY <1>1, <2>1, <2>2
<1>10. ASSUME NEW led \in L!Modules, L!SetModule(led) PROVE Typed'
  <2>0. pol_light[led] \in {Dark, LitBits}
    BY DEF Lit
  <2>1. /\ pending' = pending \ {led}
        /\ phase' = IF pending' = {} THEN "done" ELSE phase
        /\ UNCHANGED <<psu_info, psu_new_mode, pol_plugged, recent, stayed>>
        /\ pol_light' \in [PolicyLeds -> Light] /\ lost' \subseteq PolicyLeds
        /\ unread' \subseteq unread \cup {led}
    BY <1>10, <2>0, SetModuleIs
  <2>2. unread' \subseteq L!Things
    BY <1>1, <2>1, PolicyKinds
  <2> QED BY <1>1, <2>1, <2>2
<1>11. ASSUME NEW t \in L!Things, L!Exchange(t) PROVE Typed'
  BY <1>1, <1>11, ExchangeIs
<1>13. ASSUME NEW p \in L!Psu, L!FiveSeconds(p) PROVE Typed'
  BY <1>1, <1>13, FiveSecondsIs
<1>12. CASE UNCHANGED <<phase, psu_info, psu_new_mode, pending, pol_plugged, recent, pol_light, stayed,
                        unread, lost>>
  BY <1>1, <1>12
<1> QED
  BY <1>4, <1>5, <1>6, <1>7, <1>8, <1>9, <1>10, <1>11, <1>12, <1>13, PolicyCases

LEMMA RunsStep == PolicyInv /\ [L!Next]_L!vars => Runs'
PROOF
<1> SUFFICES ASSUME PolicyInv, [L!Next]_L!vars PROVE Runs'
  OBVIOUS
<1>0. L!TypeOK /\ Runs /\ Lit /\ phase \in Phases /\ lost \subseteq PolicyLeds
  BY PolicyTypeIs DEF PolicyInv
<1> USE DEF Looked, Missing, AllThere
<1>1. L!Psu = {"psu1", "psu2"} /\ L!Psu \cap L!Modules = {}
  BY PolicyKinds
<1>2. CASE L!Start
  BY <1>1, <1>2, StartIs DEF Runs
<1>3. CASE L!SetSys
  BY <1>0, <1>3, SetSysIs DEF Runs
<1>4. CASE L!SetPsu
  BY <1>0, <1>4, SetPsuIs DEF Runs
<1>5. CASE L!Return
  BY <1>1, <1>5 DEF L!Return, Runs
<1>6. ASSUME NEW p \in L!Psu, L!CheckPsu(p) PROVE Runs'
  <2>1. PICK here \in BOOLEAN :
           /\ here => unread' = unread /\ p \in pol_plugged \cup recent
           /\ ~here => unread' \in {unread, unread \cup {p}} /\ (p \in unread' \/ p \notin pol_plugged)
           /\ phase = IF p = "psu1" THEN "psu1" ELSE "psu2"
           /\ phase' = IF p = "psu1" THEN "psu2" ELSE "fans1"
           /\ psu_new_mode' = IF here THEN psu_new_mode ELSE "RED"
           /\ UNCHANGED <<pending, pol_plugged, recent, pol_light, stayed, lost>>
    BY <1>0, <1>6, CheckPsuIs
  <2>2. \A q \in L!Psu : Looked(q)' /\ Missing(q)' => psu_new_mode' # "GREEN"
    BY <1>0, <1>1, <2>1 DEF Runs
  <2>3. \A q \in L!Psu : ~Looked(q)' /\ phase' # "idle" => q \notin unread'
    BY <1>0, <1>1, <2>1 DEF Runs
  <2>4. phase' # "idle" /\ AllThere' => psu_new_mode' = "GREEN"
    BY <1>0, <1>1, <2>1 DEF Runs
  <2>5. phase' \notin {"modules", "done"} /\ stayed' \cap recent' = {}
    BY <1>0, <2>1 DEF Runs
  <2> QED BY <2>2, <2>3, <2>4, <2>5 DEF Runs
<1>7. ASSUME NEW p \in L!Psu, L!CheckFans(p) PROVE Runs'
  <2>1. /\ phase \in {"fans1", "fans2"} /\ phase' \in {"fans2", "sys"}
        /\ UNCHANGED <<pending, pol_plugged, recent, pol_light, stayed, lost>>
        /\ \/ UNCHANGED <<psu_new_mode, unread>>
           \/ /\ psu_new_mode' = "RED_BLINKING" /\ unread' \in {unread, unread \cup {p}}
              /\ p \in unread' \/ p \notin pol_plugged
    BY <1>0, <1>7, CheckFansIs
  <2>2. CASE UNCHANGED <<psu_new_mode, unread>>
    BY <1>0, <2>1, <2>2 DEF Runs
  <2>3. CASE psu_new_mode' = "RED_BLINKING" /\ (p \in unread' \/ p \notin pol_plugged)
    <3>1. ~AllThere'
      BY <2>1, <2>3
    <3>2. phase' \notin {"modules", "done"} /\ stayed' \cap recent' = {}
      BY <1>0, <2>1 DEF Runs
    <3>3. \A q \in L!Psu : Looked(q)'
      BY <2>1
    <3> QED BY <2>3, <3>1, <3>2, <3>3 DEF Runs
  <2> QED BY <2>1, <2>2, <2>3
<1>8. ASSUME NEW led \in L!Modules, L!SetModule(led) PROVE Runs'
  <2>1. /\ phase = "modules"
        /\ phase' = IF pending' = {} THEN "done" ELSE phase
        /\ UNCHANGED <<psu_info, psu_new_mode, pol_plugged, recent, stayed>>
        /\ lost \subseteq lost'
        /\ unread \subseteq unread' /\ unread' \subseteq unread \cup {led}
        /\ \A l \in PolicyLeds : l # led => pol_light'[l] = pol_light[l]
    BY <1>0, <1>8, SetModuleIs DEF Lit
  <2>2. /\ \A q \in L!Psu : q \in unread' <=> q \in unread
        /\ pol_light'["LED_PSU"] = pol_light["LED_PSU"]
    BY <1>1, <2>1, PolicyKinds
  <2> QED BY <1>0, <2>1, <2>2 DEF Runs
<1>9. ASSUME NEW t \in L!Things, L!Exchange(t) PROVE Runs'
  <2>1. /\ \A x : x # t => (x \in pol_plugged' <=> x \in pol_plugged)
        /\ stayed' = stayed \ {t} /\ recent' \subseteq recent \cup {t}
        /\ UNCHANGED <<phase, psu_info, psu_new_mode, pending, pol_light, unread, lost>>
    BY <1>0, <1>9, ExchangeIs
  <2>2. /\ \A p \in L!Psu : Missing(p)' => Missing(p)
        /\ AllThere' => AllThere
    BY <2>1
  <2> QED BY <1>0, <2>1, <2>2 DEF Runs
<1>10. ASSUME NEW p \in L!Psu, L!FiveSeconds(p) PROVE Runs'
  BY <1>0, <1>10, FiveSecondsIs DEF Runs
<1>11. CASE UNCHANGED <<phase, psu_info, psu_new_mode, pending, pol_plugged, recent, pol_light, stayed,
                        unread, lost>>
  BY <1>0, <1>11 DEF Runs
<1> QED
  BY <1>2, <1>3, <1>4, <1>5, <1>6, <1>7, <1>8, <1>9, <1>10, <1>11, PolicyCases

LEMMA LitStep == PolicyInv /\ [L!Next]_L!vars => Lit'
PROOF
<1> SUFFICES ASSUME PolicyInv, [L!Next]_L!vars PROVE Lit'
  OBVIOUS
<1>0. L!TypeOK /\ Lit /\ phase \in Phases
  BY PolicyTypeIs DEF PolicyInv
<1>1. /\ \A led \in L!Modules : led \in PolicyLeds /\ led # "LED_SYS" /\ led # "LED_PSU"
  BY PolicyKinds
<1> USE DEF Stored
<1>2. CASE L!Start
  BY <1>0, <1>2, StartIs DEF Lit
<1>3. CASE L!SetSys
  BY <1>0, <1>1, <1>3, SetSysIs DEF Lit
<1>4. CASE L!SetPsu
  BY <1>0, <1>1, <1>4, SetPsuIs DEF Lit
<1>5. CASE L!Return
  BY <1>0, <1>5 DEF L!Return, Lit
<1>6. ASSUME NEW p \in L!Psu, L!CheckPsu(p) PROVE Lit'
  <2>1. phase' \in {"psu2", "fans1"} /\ UNCHANGED pol_light
    BY <1>0, <1>6, CheckPsuIs
  <2> QED BY <1>0, <2>1 DEF Lit
<1>7. ASSUME NEW p \in L!Psu, L!CheckFans(p) PROVE Lit'
  <2>1. phase' \in {"fans2", "sys"} /\ UNCHANGED pol_light
    BY <1>0, <1>7, CheckFansIs
  <2> QED BY <1>0, <2>1 DEF Lit
<1>8. ASSUME NEW led \in L!Modules, L!SetModule(led) PROVE Lit'
  <2>1. pol_light[led] \in {Dark, LitBits}
    BY <1>0 DEF Lit
  <2>2. /\ phase = "modules" /\ pending' = pending \ {led}
        /\ UNCHANGED <<pol_plugged, recent, stayed>>
        /\ lost \subseteq lost' /\ lost' \subseteq lost \cup {led}
        /\ unread \subseteq unread' /\ unread' \subseteq unread \cup {led}
        /\ \A l \in PolicyLeds : l # led => pol_light'[l] = pol_light[l]
        /\ pol_light'[led] \in {Dark, LitBits}
        /\ \/ led \in lost'
           \/ /\ led \in pol_plugged /\ (Kind[led] = "cfp" => led \notin unread') => pol_light'[led] = LitBits
              /\ led \notin pol_plugged /\ led \notin unread' => pol_light'[led] = Dark
    BY <1>0, <1>8, <2>1, SetModuleIs
  <2>3. Stored(led)'
    BY <2>2
  <2>4. ASSUME NEW l \in L!Modules, l # led
        PROVE  /\ pol_light'[l] \in {Dark, LitBits}
               /\ l \notin pending' => Stored(l)'
    <3>1. pol_light'[l] = pol_light[l]
      BY <1>1, <2>2, <2>4
    <3>2. pol_light[l] \in {Dark, LitBits} /\ (l \notin pending => Stored(l))
      BY <1>0, <2>2 DEF Lit
    <3> QED BY <2>2, <2>4, <3>1, <3>2
  <2> QED BY <2>2, <2>3, <2>4 DEF Lit
<1>9. ASSUME NEW t \in L!Things, L!Exchange(t) PROVE Lit'
  <2>1. /\ \A x : x # t => (x \in pol_plugged' <=> x \in pol_plugged)
        /\ stayed' = stayed \ {t}
        /\ UNCHANGED <<phase, psu_info, psu_new_mode, pending, pol_light, unread, lost>>
    BY <1>0, <1>9, ExchangeIs
  <2>2. \A led \in L!Modules : Stored(led) => Stored(led)'
    BY <2>1
  <2> QED BY <1>0, <2>1, <2>2 DEF Lit
<1>10. ASSUME NEW p \in L!Psu, L!FiveSeconds(p) PROVE Lit'
  BY <1>0, <1>10, FiveSecondsIs DEF Lit
<1>11. CASE UNCHANGED <<phase, psu_info, psu_new_mode, pending, pol_plugged, recent, pol_light, stayed,
                        unread, lost>>
  BY <1>0, <1>11 DEF Lit
<1> QED
  BY <1>2, <1>3, <1>4, <1>5, <1>6, <1>7, <1>8, <1>9, <1>10, <1>11, PolicyCases

LEMMA PolicyInvariant == L!Spec => []PolicyInv
PROOF
<1>1. PolicyInv /\ [L!Next]_L!vars => PolicyInv'
  BY PolicyTypedStep, RunsStep, LitStep DEF PolicyInv
<1> QED BY <1>1, PolicyInit, PTL DEF L!Spec

(* What the invariant says at the end of a run. *)
LEMMA PolicyEnds ==
  PolicyInv => L!MissingIsNotGreen /\ L!NoFalseAlarm /\ L!PresentIsLit /\ L!AbsentIsDark
PROOF
<1> SUFFICES ASSUME PolicyInv, phase = "done"
             PROVE  L!MissingIsNotGreen /\ L!NoFalseAlarm /\ L!PresentIsLit /\ L!AbsentIsDark
  BY DEF L!MissingIsNotGreen, L!NoFalseAlarm, L!PresentIsLit, L!AbsentIsDark
<1>0. /\ Runs /\ Lit /\ pending = {}
      /\ psu_new_mode \in {"GREEN", "RED", "RED_BLINKING"}
  BY PolicyTypeIs DEF PolicyInv, Runs
<1>1. \A led : L!At(led) = Shown(Kind[led], pol_light[led])
  BY SameBits DEF L!At
<1>2. L!At("LED_PSU") = Shown("psu", pol_light["LED_PSU"])
  BY <1>1, PolicyKinds
<1>3. "LED_PSU" \notin lost => L!At("LED_PSU") \in {psu_new_mode, "OFF"}
  BY <1>0, <1>2 DEF Runs
<1>4. L!MissingIsNotGreen
  <2>1. ASSUME NEW p \in L!Psu, Missing(p) PROVE psu_new_mode # "GREEN"
    BY <1>0, <2>1 DEF Runs, Looked
  <2> QED BY <1>3, <2>1 DEF L!MissingIsNotGreen, Missing
<1>5. L!NoFalseAlarm
  <2>1. AllThere => psu_new_mode = "GREEN"
    BY <1>0 DEF Runs
  <2> QED BY <1>3, <2>1 DEF L!NoFalseAlarm, AllThere
<1>6. ASSUME NEW led \in L!Modules
      PROVE  /\ Stored(led)
             /\ Shown(Kind[led], LitBits) = L!LitMode(led) /\ Shown(Kind[led], Dark) = "OFF"
  <2>1. Kind[led] \in {"qsfp", "cfp"}
    BY PolicyKinds
  <2>2. L!LitMode(led) = IF Kind[led] = "qsfp" THEN "GREEN" ELSE "BLUE"
    BY SameBits DEF L!LitMode
  <2>3. Stored(led)
    BY <1>0 DEF Lit
  <2> QED BY <2>1, <2>2, <2>3, ModuleStore
<1>7. L!PresentIsLit
  BY <1>1, <1>6, SameBits DEF L!PresentIsLit, Stored
<1>8. L!AbsentIsDark
  BY <1>1, <1>6 DEF L!AbsentIsDark, Stored
<1> QED BY <1>4, <1>5, <1>7, <1>8

-----------------------------------------------------------------------------
(* ArmPsu.                                                                 *)

(* A division, as C makes it of a number that is not negative. *)
LEMMA Division ==
  ASSUME NEW n \in Nat, NEW P \in Nat \ {0}
  PROVE  n \div P \in Nat /\ n - (n \div P) * P \in 0..(P - 1)
PROOF
<1>1. n \div P \in Nat /\ n % P \in 0..(P - 1)
  BY SMT
<1>2. n = P * (n \div P) + (n % P)
  BY SMT
<1> DEFINE q == n \div P
           r == n % P
<1> HIDE DEF q, r
<1>3. q \in Nat /\ r \in 0..(P - 1) /\ n = P * q + r
  BY <1>1, <1>2 DEF q, r
<1>4. n - q * P \in 0..(P - 1)
  BY <1>3
<1> QED BY <1>3, <1>4 DEF q

LEMMA PowerIs == \A k \in 0..16 : U!Power(k) \in Nat \ {0}
  BY SMTT(60) DEF U!Power

(* The two's complement of five and of eleven bits. *)
LEMMA Complement ==
  ASSUME NEW x \in Nat, x < 32, NEW y \in Nat, y < 2048
  PROVE  /\ U!two_complement_to_int(x, 5) = IF x >= 16 THEN x - 32 ELSE x
         /\ U!two_complement_to_int(y, 11) = IF y >= 1024 THEN y - 2048 ELSE y
PROOF
<1>1. /\ U!Power(5 - 1) = 16 /\ U!Power(5) = 32
      /\ U!Power(11 - 1) = 1024 /\ U!Power(11) = 2048
  BY SMTT(60) DEF U!Power
<1>2. (x \div 16 = 1 <=> x >= 16) /\ (y \div 1024 = 1 <=> y >= 1024)
  OBVIOUS
<1> QED BY <1>1, <1>2 DEF U!two_complement_to_int

Exponent(word) == IF word \div 2048 >= 16 THEN (word \div 2048) - 32 ELSE word \div 2048
Mantissa(word) == IF word % 2048 >= 1024 THEN (word % 2048) - 2048 ELSE word % 2048

(* What the driver makes of a word is what LINEAR11 says, towards zero. *)
LEMMA LinearIs ==
  ASSUME NEW word \in Word
  PROVE  LET e == Exponent(word)
             m == Mantissa(word)
             vin == U!Linear(word) IN
         IF e >= 0 THEN vin = m * U!Power(e) * 1000
         ELSE /\ vin * U!Power(-e) - m * 1000 \in (1 - U!Power(-e)) .. (U!Power(-e) - 1)
              /\ IF m >= 0 THEN vin >= 0 ELSE vin <= 0
PROOF
<1>1. /\ word \div 2048 \in Nat /\ word \div 2048 < 32
      /\ word % 2048 \in Nat /\ word % 2048 < 2048
  <2>1. word \in Nat /\ word < 32 * 2048
    BY PsuAssumption DEF U!ConstantsOK
  <2> QED BY <2>1
<1> DEFINE e == Exponent(word)
           m == Mantissa(word)
           vin == U!Linear(word)
<1>2. /\ U!two_complement_to_int(word \div 2048, 5) = e
      /\ U!two_complement_to_int(word % 2048, 11) = m
  <2> DEFINE x == word \div 2048
             y == word % 2048
  <2>1. x \in Nat /\ x < 32 /\ y \in Nat /\ y < 2048
    BY <1>1
  <2>2. /\ e = IF x >= 16 THEN x - 32 ELSE x
        /\ m = IF y >= 1024 THEN y - 2048 ELSE y
    BY DEF Exponent, Mantissa
  <2> HIDE DEF x, y, e, m
  <2>3. /\ U!two_complement_to_int(x, 5) = IF x >= 16 THEN x - 32 ELSE x
        /\ U!two_complement_to_int(y, 11) = IF y >= 1024 THEN y - 2048 ELSE y
    BY <2>1, Complement
  <2> QED BY <2>2, <2>3 DEF x, y
<1>3. e \in -16..15 /\ m \in -1024..1023
  BY <1>1, SMTT(30) DEF Exponent, Mantissa
<1> HIDE DEF e, m
<1>4. vin = IF e >= 0 THEN m * U!Power(e) * 1000
            ELSE IF m >= 0 THEN (m * 1000) \div U!Power(-e)
            ELSE -((-m * 1000) \div U!Power(-e))
  BY <1>2 DEF U!Linear
<1> HIDE DEF vin
<1>5. CASE e >= 0
  BY <1>4, <1>5 DEF e, m, vin
<1>6. CASE ~(e >= 0)
  <2>1. -e \in 1..16
    BY <1>3, <1>6
  <2>2. CASE m >= 0
    <3>1. m * 1000 \in Nat
      BY <1>3, <2>2
    <3> DEFINE n == m * 1000
               P == U!Power(-e)
    <3>a. P \in Nat \ {0} /\ n \in Nat
      BY <2>1, <3>1, PowerIs
    <3> HIDE DEF n, P
    <3>2. /\ P \in Nat \ {0} /\ n \div P \in Nat
          /\ n - (n \div P) * P \in 0..(P - 1)
      BY <3>a, Division
    <3>3. vin = n \div P
      BY <1>4, <1>6, <2>2 DEF n, P
    <3> DEFINE q == n \div P
    <3> HIDE DEF q
    <3>4. P \in Nat \ {0} /\ q \in Nat /\ n - q * P \in 0..(P - 1) /\ vin = q /\ n \in Nat
      BY <3>1, <3>2, <3>3 DEF q, n
    <3>5. vin * P - n \in (1 - P) .. (P - 1) /\ vin >= 0
      BY <3>4
    <3> QED BY <1>6, <2>2, <3>5 DEF e, m, vin, n, P
  <2>3. CASE ~(m >= 0)
    <3>1. -m * 1000 \in Nat /\ -m * 1000 = -(m * 1000)
      BY <1>3, <2>3
    <3> DEFINE n == -m * 1000
               P == U!Power(-e)
    <3>a. P \in Nat \ {0} /\ n \in Nat
      BY <2>1, <3>1, PowerIs
    <3> HIDE DEF n, P
    <3>2. /\ P \in Nat \ {0} /\ n \div P \in Nat
          /\ n - (n \div P) * P \in 0..(P - 1)
      BY <3>a, Division
    <3>3. vin = -(n \div P)
      BY <1>4, <1>6, <2>3 DEF n, P
    <3> DEFINE q == n \div P
    <3> HIDE DEF q
    <3>4. P \in Nat \ {0} /\ q \in Nat /\ n - q * P \in 0..(P - 1) /\ vin = -q /\ n \in Nat
      BY <3>1, <3>2, <3>3 DEF q, n
    <3>5. q * P \in Nat /\ (-q) * P = -(q * P)
      BY <3>4
    <3>6. vin * P + n \in (1 - P) .. (P - 1) /\ vin <= 0
      BY <3>4, <3>5
    <3>7. vin * P - m * 1000 = vin * P + n
      BY <1>3, <3>1, <3>4 DEF n
    <3> QED BY <1>6, <2>3, <3>6, <3>7 DEF e, m, vin, P
  <2> QED BY <2>2, <2>3
<1> QED BY <1>5, <1>6

LEMMA LinearInt == ASSUME NEW word \in Word PROVE U!Linear(word) \in Int
PROOF
<1> DEFINE e == U!two_complement_to_int(word \div 2048, 5)
           m == U!two_complement_to_int(word % 2048, 11)
<1>1. e \in -16..15 /\ m \in Int
  <2>1. word \in Nat /\ word < 32 * 2048
    BY PsuAssumption DEF U!ConstantsOK
  <2> DEFINE x == word \div 2048
             y == word % 2048
  <2>2. x \in Nat /\ x < 32 /\ y \in Nat /\ y < 2048
    BY <2>1
  <2> HIDE DEF x, y
  <2>3. /\ U!two_complement_to_int(x, 5) \in -16..15
        /\ U!two_complement_to_int(y, 11) \in Int
    BY <2>2, Complement
  <2> QED BY <2>3 DEF x, y
<1> HIDE DEF e, m
<1>2. U!Linear(word) = IF e >= 0 THEN m * U!Power(e) * 1000
                       ELSE IF m >= 0 THEN (m * 1000) \div U!Power(-e)
                       ELSE -((-m * 1000) \div U!Power(-e))
  BY DEF U!Linear, e, m
<1>3. CASE e >= 0
  <2>1. U!Power(e) \in Int
    BY <1>1, <1>3, PowerIs
  <2> QED BY <1>1, <1>2, <1>3, <2>1
<1>4. CASE ~(e >= 0)
  <2>1. U!Power(-e) \in Nat \ {0}
    BY <1>1, <1>4, PowerIs
  <2> DEFINE P == U!Power(-e)
  <2> HIDE DEF P
  <2>2. \A n \in Nat : n \div P \in Nat
    BY <2>1, Division DEF P
  <2>3. m >= 0 => m * 1000 \in Nat
    BY <1>1
  <2>4. ~(m >= 0) => -m * 1000 \in Nat
    BY <1>1
  <2> QED BY <1>2, <1>4, <2>2, <2>3, <2>4 DEF P
<1> QED BY <1>3, <1>4

Readings == [status : {0, 1}, type : {"not-present", "DC", "AC"}, vin : Int, rpm : Int, pwm : Int]
Steps == {"idle", "lock", "PDO1", "power", "PDO2", "answer", "set", "get", "put", "kept"}

PsuTyped ==
  /\ U!TypeOK
  /\ psu_at \in [Caller -> Steps]
  /\ work \in Readings /\ psu_data \in [Unit -> Readings]
  /\ \A c \in Caller : /\ psu_at[c] # "idle" => job[c] \in U!Job
                       /\ psu_at[c] \in {"set", "get", "put", "kept"} => job[c].kind = "set"

(* While a unit is read or set, what is held of it is not valid. What was  *)
(* read or set so far is of the unit that is there unless another one may  *)
(* be, and it has not been out for a tick.                                 *)
UnderWay(c) ==
  LET p == job[c].psu
      at_ == psu_at[c] IN
  /\ at_ \in {"PDO1", "power", "PDO2", "get", "put", "kept"} => ~psu_valid[p]
  /\ at_ \in {"power", "PDO2", "put", "kept"} => plugged[p] \/ out[p] = 0
  /\ at_ \in {"power", "PDO2"} =>
       work.status = 1 /\ work.rpm = -1 /\ (~changed[p] => work.pwm = pwm[p])
  /\ at_ = "power" => work.vin = -1
  /\ at_ = "PDO2" /\ work.vin # -1 /\ work.type = "DC" =>
       \E word \in Word : work.vin = U!Linear(word)
  /\ at_ = "put" /\ ~changed[p] => plugged[p]
  /\ at_ = "kept" /\ ~changed[p] => U!Clip(job[c].value) % 256 = pwm[p]
  /\ at_ = "answer" /\ job[c].kind = "show" /\ psu_data[p].status = 1 =>
       plugged[p] \/ out[p] < Hold

(* What is held of a unit: an update that found it is at most as old as    *)
(* the time it has been out. *)
HeldOf(p) ==
  psu_valid[p] =>
    /\ psu_data[p].status = 1 => plugged[p] \/ out[p] <= last_updated[p]
    /\ ~changed[p] => psu_data[p].pwm % 256 = pwm[p]
    /\ ~touched[p] => psu_data[p].status = 1 /\ psu_data[p].rpm # -1

(* An update leaves nothing to the next one. *)
Rested == (\A c \in Caller : psu_at[c] \notin {"power", "PDO2"}) => work = U!Unread

PsuInv ==
  /\ PsuTyped /\ Rested
  /\ \A c \in Caller : UnderWay(c)
  /\ \A p \in Unit : HeldOf(p)

LEMMA JobIs ==
  ASSUME NEW j \in U!Job
  PROVE  j.psu \in Unit /\ j.kind \in {"show", "set"} /\ (j.kind = "set" => j.value \in Int)
PROOF
<1>1. CASE \E p \in Unit : j = U!Show(p)
  BY <1>1 DEF U!Show
<1>2. CASE \E p \in Unit, v \in Request : j = U!Set(p, v)
  <2>1. PICK p \in Unit, v \in Request : j = U!Set(p, v)
    BY <1>2
  <2>2. v \in Int
    BY PsuAssumption DEF U!ConstantsOK
  <2> QED BY <2>1, <2>2 DEF U!Set
<1> QED BY <1>1, <1>2 DEF U!Job

LEMMA UnreadIs ==
  /\ U!Unread \in Readings
  /\ U!Unread.status = 0 /\ U!Unread.vin = -1 /\ U!Unread.rpm = -1
  BY DEF U!Unread, Readings

LEMMA ConstantsAre == NoCaller \notin Caller /\ Hold \in Nat \ {0} /\ \A s \in Speed : s \in 0..255
  BY PsuAssumption DEF U!ConstantsOK

LEMMA PsuInit == U!Init => PsuInv
PROOF
<1> SUFFICES ASSUME U!Init PROVE PsuInv
  OBVIOUS
<1>1. /\ mutex = NoCaller /\ job = [c \in Caller |-> U!None] /\ psu_at = [c \in Caller |-> "idle"]
      /\ work = U!Unread
      /\ psu_data = [p \in Unit |-> [status |-> 0, type |-> "not-present", vin |-> 0, rpm |-> 0,
                                     pwm |-> 0]]
      /\ psu_valid = [p \in Unit |-> FALSE] /\ last_updated = [p \in Unit |-> Hold]
      /\ plugged \in [Unit -> BOOLEAN] /\ pwm \in [Unit -> Speed] /\ out = [p \in Unit |-> Hold]
      /\ changed = [p \in Unit |-> TRUE] /\ touched = [p \in Unit |-> FALSE]
  BY DEF U!Init
<1>2. psu_data \in [Unit -> Readings]
  <2>1. [status |-> 0, type |-> "not-present", vin |-> 0, rpm |-> 0, pwm |-> 0] \in Readings
    BY DEF Readings
  <2> QED BY <1>1, <2>1
<1>3. pwm \in [Unit -> 0..255]
  BY <1>1, ConstantsAre
<1>4. U!TypeOK
  BY <1>1, <1>3, ConstantsAre DEF U!TypeOK
<1>5. PsuTyped
  BY <1>1, <1>2, <1>4, UnreadIs DEF PsuTyped, Steps
<1>6. (\A c \in Caller : UnderWay(c)) /\ (\A p \in Unit : HeldOf(p)) /\ Rested
  BY <1>1 DEF UnderWay, HeldOf, Rested
<1> QED BY <1>5, <1>6 DEF PsuInv

(* A process past the lock has it, and goes on alone. *)
LEMMA Alone ==
  ASSUME PsuTyped, NEW c \in Caller, NEW to \in Steps, mutex = c \/ mutex = NoCaller,
         psu_at' = [psu_at EXCEPT ![c] = to]
  PROVE  /\ psu_at' \in [Caller -> Steps] /\ psu_at'[c] = to
         /\ \A d \in Caller : d # c => psu_at'[d] = psu_at[d] /\ psu_at[d] \in {"idle", "lock"}
         /\ \A d \in Caller : d # c => UnderWay(d)'
PROOF
<1>1. /\ psu_at' \in [Caller -> Steps] /\ psu_at'[c] = to
      /\ \A d \in Caller : d # c => psu_at'[d] = psu_at[d]
  BY DEF PsuTyped
<1>2. \A d \in Caller : d # c => psu_at[d] \in {"idle", "lock"}
  BY ConstantsAre DEF PsuTyped, U!TypeOK
<1> QED BY <1>1, <1>2 DEF UnderWay

(* The types of the lock, the calls and the steps, when one process moves. *)
LEMMA MovesTyped ==
  ASSUME PsuTyped, NEW c \in Caller, NEW to \in Steps, mutex = c \/ mutex = NoCaller,
         psu_at' = [psu_at EXCEPT ![c] = to],
         mutex' = IF to \in {"idle", "lock"} THEN NoCaller ELSE c, job' = job,
         to # "idle" => job[c] \in U!Job,
         to \in {"set", "get", "put", "kept"} => job[c].kind = "set",
         work' \in Readings, psu_data' \in [Unit -> Readings],
         psu_valid' \in [Unit -> BOOLEAN], last_updated' \in [Unit -> 0..Hold],
         UNCHANGED <<plugged, out>>, pwm' \in [Unit -> 0..255],
         changed' \in [Unit -> BOOLEAN], touched' \in [Unit -> BOOLEAN]
  PROVE  PsuTyped'
PROOF
<1>1. /\ psu_at' \in [Caller -> Steps] /\ psu_at'[c] = to
      /\ \A d \in Caller : d # c => psu_at'[d] = psu_at[d] /\ psu_at[d] \in {"idle", "lock"}
  BY Alone
<1>2. \A d \in Caller : (psu_at'[d] \notin {"idle", "lock"}) <=> mutex' = d
  BY <1>1, ConstantsAre
<1>3. U!TypeOK'
  BY <1>2 DEF PsuTyped, U!TypeOK
<1>4. \A d \in Caller : /\ psu_at'[d] # "idle" => job'[d] \in U!Job
                        /\ psu_at'[d] \in {"set", "get", "put", "kept"} => job'[d].kind = "set"
  BY <1>1 DEF PsuTyped
<1>5. U!Job' = U!Job
  BY DEF U!Job, U!Show, U!Set
<1> QED BY <1>1, <1>3, <1>4, <1>5 DEF PsuTyped

(* The steps of a call keep the invariant. *)
LEMMA PsuEnter ==
  ASSUME PsuInv, NEW c \in Caller, NEW j \in U!Job, U!Enter(c, j)
  PROVE  PsuInv'
PROOF
<1>0. PsuTyped /\ Rested /\ (\A d \in Caller : UnderWay(d)) /\ (\A p \in Unit : HeldOf(p))
  BY DEF PsuInv
<1>1. /\ psu_at[c] = "idle" /\ psu_at' = [psu_at EXCEPT ![c] = "lock"] /\ job' = [job EXCEPT ![c] = j]
      /\ UNCHANGED <<mutex, work, psu_data, psu_valid, last_updated, plugged, pwm, out, changed, touched>>
  BY DEF U!Enter, U!Goto, U!cache, U!units
<1>2. /\ psu_at' \in [Caller -> Steps] /\ psu_at'[c] = "lock" /\ job'[c] = j
      /\ \A d \in Caller : d # c => psu_at'[d] = psu_at[d] /\ job'[d] = job[d]
  BY <1>0, <1>1 DEF PsuTyped, U!TypeOK, Steps
<1>3. U!TypeOK'
  <2>1. U!Job' = U!Job /\ U!None' = U!None
    BY DEF U!Job, U!Show, U!Set, U!None
  <2>2. job' \in [Caller -> U!Job \cup {U!None}]
    BY <1>0, <1>1 DEF PsuTyped, U!TypeOK
  <2>3. \A d \in Caller : (psu_at'[d] \notin {"idle", "lock"}) <=> mutex' = d
    BY <1>0, <1>1, <1>2 DEF PsuTyped, U!TypeOK
  <2> QED BY <1>0, <1>1, <2>1, <2>2, <2>3 DEF PsuTyped, U!TypeOK
<1>4. PsuTyped'
  <2>1. U!Job' = U!Job
    BY DEF U!Job, U!Show, U!Set
  <2> QED BY <1>0, <1>1, <1>2, <1>3, <2>1 DEF PsuTyped
<1>5. \A d \in Caller : UnderWay(d)'
  BY <1>0, <1>1, <1>2 DEF UnderWay
<1>6. (\A p \in Unit : HeldOf(p)') /\ Rested'
  BY <1>0, <1>1, <1>2 DEF HeldOf, Rested
<1> QED BY <1>4, <1>5, <1>6 DEF PsuInv

LEMMA PsuLock ==
  ASSUME PsuInv, NEW c \in Caller, U!Lock(c)
  PROVE  PsuInv'
PROOF
<1>0. PsuTyped /\ Rested /\ (\A d \in Caller : UnderWay(d)) /\ (\A p \in Unit : HeldOf(p))
  BY DEF PsuInv
<1> DEFINE p == job[c].psu
<1>1. /\ psu_at[c] = "lock" /\ mutex = NoCaller /\ mutex' = c
      /\ IF last_updated[p] < Hold /\ psu_valid[p]
           THEN psu_at' = [psu_at EXCEPT ![c] = IF job[c].kind = "show" THEN "answer" ELSE "set"]
                /\ UNCHANGED psu_valid
           ELSE psu_at' = [psu_at EXCEPT ![c] = "PDO1"] /\ psu_valid' = [psu_valid EXCEPT ![p] = FALSE]
      /\ UNCHANGED <<job, work, psu_data, last_updated, plugged, pwm, out, changed, touched>>
  BY DEF U!Lock, U!Goto, U!AfterUpdate, U!Psu, U!units
<1>2. job[c] \in U!Job /\ p \in Unit /\ job[c].kind \in {"show", "set"}
  BY <1>0, <1>1, JobIs DEF PsuTyped
<1>t. /\ psu_valid \in [Unit -> BOOLEAN] /\ last_updated \in [Unit -> 0..Hold]
      /\ plugged \in [Unit -> BOOLEAN] /\ pwm \in [Unit -> 0..255] /\ out \in [Unit -> 0..Hold]
      /\ changed \in [Unit -> BOOLEAN] /\ touched \in [Unit -> BOOLEAN]
      /\ work \in Readings /\ psu_data \in [Unit -> Readings]
  BY <1>0 DEF PsuTyped, U!TypeOK
<1> HIDE DEF p
<1>3. CASE last_updated[p] < Hold /\ psu_valid[p]
  <2> DEFINE to == IF job[c].kind = "show" THEN "answer" ELSE "set"
  <2>1. to \in Steps /\ psu_at' = [psu_at EXCEPT ![c] = to] /\ UNCHANGED psu_valid
    BY <1>1, <1>3 DEF Steps
  <2>2. PsuTyped'
    BY <1>0, <1>1, <1>2, <1>t, <2>1, MovesTyped
  <2>3. /\ psu_at'[c] = to
        /\ \A d \in Caller : d # c => psu_at'[d] = psu_at[d] /\ psu_at[d] \in {"idle", "lock"}
        /\ \A d \in Caller : d # c => UnderWay(d)'
    BY <1>0, <1>1, <2>1, Alone
  <2>4. UnderWay(c)'
    <3>1. psu_data[p].status = 1 => plugged[p] \/ out[p] < Hold
      BY <1>0, <1>2, <1>3, <1>t, ConstantsAre DEF HeldOf
    <3> QED BY <1>1, <2>3, <3>1 DEF UnderWay, p
  <2>5. (\A q \in Unit : HeldOf(q)') /\ Rested'
    BY <1>0, <1>1, <2>1, <2>3 DEF HeldOf, Rested
  <2> QED BY <2>2, <2>3, <2>4, <2>5 DEF PsuInv
<1>4. CASE ~(last_updated[p] < Hold /\ psu_valid[p])
  <2>1. psu_at' = [psu_at EXCEPT ![c] = "PDO1"] /\ psu_valid' = [psu_valid EXCEPT ![p] = FALSE]
    BY <1>1, <1>4
  <2>2. PsuTyped'
    BY <1>0, <1>1, <1>2, <1>t, <2>1, MovesTyped DEF Steps
  <2>3. /\ psu_at'[c] = "PDO1"
        /\ \A d \in Caller : d # c => psu_at'[d] = psu_at[d] /\ psu_at[d] \in {"idle", "lock"}
        /\ \A d \in Caller : d # c => UnderWay(d)'
    BY <1>0, <1>1, <2>1, Alone DEF Steps
  <2>4. UnderWay(c)'
    BY <1>1, <1>2, <1>t, <2>1, <2>3 DEF UnderWay, p
  <2>5. (\A q \in Unit : HeldOf(q)') /\ Rested'
    BY <1>0, <1>1, <1>2, <1>t, <2>1, <2>3 DEF HeldOf, Rested
  <2> QED BY <2>2, <2>3, <2>4, <2>5 DEF PsuInv
<1> QED BY <1>3, <1>4

LEMMA PsuReadPDO1 ==
  ASSUME PsuInv, NEW c \in Caller, U!ReadPDO1(c)
  PROVE  PsuInv'
PROOF
<1>0. PsuTyped /\ Rested /\ (\A d \in Caller : UnderWay(d)) /\ (\A p \in Unit : HeldOf(p))
  BY DEF PsuInv
<1> DEFINE p == job[c].psu
<1>1. /\ psu_at[c] = "PDO1" /\ UNCHANGED <<mutex, job, psu_valid, last_updated, plugged, pwm, out>>
      /\ \/ /\ plugged[p]
            /\ psu_at' = [psu_at EXCEPT ![c] = "power"]
            /\ \E type \in {"DC", "AC"} :
                 work' = [work EXCEPT !.status = 1, !.type = type, !.pwm = pwm[p]]
            /\ changed' = [changed EXCEPT ![p] = FALSE]
            /\ UNCHANGED <<psu_data, touched>>
         \/ /\ psu_data' = [psu_data EXCEPT ![p] = U!Unread]
            /\ psu_at' = [psu_at EXCEPT ![c] = IF job[c].kind = "show" THEN "answer" ELSE "set"]
            /\ touched' = [touched EXCEPT ![p] = FALSE]
            /\ UNCHANGED <<work, changed>>
  BY DEF U!ReadPDO1, U!Goto, U!AfterUpdate, U!Answers, U!Psu, U!units
<1>t. /\ psu_valid \in [Unit -> BOOLEAN] /\ last_updated \in [Unit -> 0..Hold]
      /\ plugged \in [Unit -> BOOLEAN] /\ pwm \in [Unit -> 0..255] /\ out \in [Unit -> 0..Hold]
      /\ changed \in [Unit -> BOOLEAN] /\ touched \in [Unit -> BOOLEAN]
      /\ work \in Readings /\ psu_data \in [Unit -> Readings]
  BY <1>0 DEF PsuTyped, U!TypeOK
<1>2. job[c] \in U!Job /\ p \in Unit /\ job[c].kind \in {"show", "set"} /\ mutex = c
  BY <1>0, <1>1, JobIs DEF PsuTyped, U!TypeOK
<1>3. ~psu_valid[p]
  BY <1>0, <1>1 DEF UnderWay
<1>4. work = U!Unread
  BY <1>0, <1>1, <1>2, Alone DEF Rested, PsuTyped, U!TypeOK
<1> HIDE DEF p
<1>5. CASE /\ plugged[p]
           /\ psu_at' = [psu_at EXCEPT ![c] = "power"]
           /\ \E type \in {"DC", "AC"} :
                work' = [work EXCEPT !.status = 1, !.type = type, !.pwm = pwm[p]]
           /\ changed' = [changed EXCEPT ![p] = FALSE]
           /\ UNCHANGED <<psu_data, touched>>
  <2>1. /\ work' \in Readings /\ work'.status = 1 /\ work'.pwm = pwm[p]
        /\ work'.vin = -1 /\ work'.rpm = -1
    <3>1. PICK type \in {"DC", "AC"} : work' = [work EXCEPT !.status = 1, !.type = type, !.pwm = pwm[p]]
      BY <1>5
    <3>2. work' = [status |-> 1, type |-> type, vin |-> -1, rpm |-> -1, pwm |-> pwm[p]]
      BY <1>4, <3>1 DEF U!Unread
    <3>3. pwm[p] \in Int
      BY <1>2, <1>t
    <3> QED BY <3>2, <3>3 DEF Readings
  <2>2. PsuTyped'
    BY <1>0, <1>1, <1>2, <1>t, <1>5, <2>1, MovesTyped DEF Steps
  <2>3. /\ psu_at'[c] = "power"
        /\ \A d \in Caller : d # c => psu_at'[d] = psu_at[d] /\ psu_at[d] \in {"idle", "lock"}
        /\ \A d \in Caller : d # c => UnderWay(d)'
    BY <1>0, <1>2, <1>5, Alone DEF Steps
  <2>4. UnderWay(c)'
    BY <1>1, <1>2, <1>3, <1>5, <2>1, <2>3 DEF UnderWay, p
  <2>5. \A q \in Unit : HeldOf(q)'
    BY <1>0, <1>1, <1>2, <1>3, <1>5, <1>t DEF HeldOf
  <2>6. Rested'
    BY <2>3 DEF Rested
  <2> QED BY <2>2, <2>3, <2>4, <2>5, <2>6 DEF PsuInv
<1>6. CASE /\ psu_data' = [psu_data EXCEPT ![p] = U!Unread]
           /\ psu_at' = [psu_at EXCEPT ![c] = IF job[c].kind = "show" THEN "answer" ELSE "set"]
           /\ touched' = [touched EXCEPT ![p] = FALSE]
           /\ UNCHANGED <<work, changed>>
  <2> DEFINE to == IF job[c].kind = "show" THEN "answer" ELSE "set"
  <2>1. to \in Steps /\ psu_at' = [psu_at EXCEPT ![c] = to]
        /\ psu_data' \in [Unit -> Readings] /\ psu_data'[p] = U!Unread
    BY <1>2, <1>6, <1>t, UnreadIs DEF Steps
  <2>2. PsuTyped'
    BY <1>0, <1>1, <1>2, <1>t, <1>6, <2>1, MovesTyped
  <2>3. /\ psu_at'[c] = to
        /\ \A d \in Caller : d # c => psu_at'[d] = psu_at[d] /\ psu_at[d] \in {"idle", "lock"}
        /\ \A d \in Caller : d # c => UnderWay(d)'
    BY <1>0, <1>2, <2>1, Alone
  <2>4. UnderWay(c)'
    BY <1>1, <1>2, <2>1, <2>3, UnreadIs DEF UnderWay, p
  <2>5. \A q \in Unit : HeldOf(q)'
    BY <1>0, <1>1, <1>2, <1>3, <1>6, <1>t DEF HeldOf
  <2>6. Rested'
    BY <1>4, <1>6 DEF Rested, U!Unread
  <2> QED BY <2>2, <2>3, <2>4, <2>5, <2>6 DEF PsuInv
<1> QED BY <1>1, <1>5, <1>6 DEF p

LEMMA PsuReadPower ==
  ASSUME PsuInv, NEW c \in Caller, U!ReadPower(c)
  PROVE  PsuInv'
PROOF
<1>0. PsuTyped /\ Rested /\ (\A d \in Caller : UnderWay(d)) /\ (\A p \in Unit : HeldOf(p))
  BY DEF PsuInv
<1> DEFINE p == job[c].psu
<1>1. /\ psu_at[c] = "power" /\ psu_at' = [psu_at EXCEPT ![c] = "PDO2"]
      /\ \/ \E word \in Word : work' = [work EXCEPT !.vin = U!Vin(work.type, word)]
         \/ UNCHANGED work
      /\ UNCHANGED <<mutex, job, psu_data, psu_valid, last_updated, plugged, pwm, out, changed, touched>>
  BY DEF U!ReadPower, U!Goto, U!cache, U!units
<1>t. /\ psu_valid \in [Unit -> BOOLEAN] /\ last_updated \in [Unit -> 0..Hold]
      /\ plugged \in [Unit -> BOOLEAN] /\ pwm \in [Unit -> 0..255] /\ out \in [Unit -> 0..Hold]
      /\ changed \in [Unit -> BOOLEAN] /\ touched \in [Unit -> BOOLEAN]
      /\ work \in Readings /\ psu_data \in [Unit -> Readings]
  BY <1>0 DEF PsuTyped, U!TypeOK
<1>2. job[c] \in U!Job /\ p \in Unit /\ mutex = c
  BY <1>0, <1>1, JobIs DEF PsuTyped, U!TypeOK
<1>3. UnderWay(c) /\ work.vin = -1
  BY <1>0, <1>1 DEF UnderWay
<1> HIDE DEF p
<1>4. /\ work' \in Readings
      /\ work'.status = work.status /\ work'.rpm = work.rpm /\ work'.pwm = work.pwm
      /\ work'.type = work.type
      /\ work'.vin # -1 /\ work'.type = "DC" => \E word \in Word : work'.vin = U!Linear(word)
  <2>1. CASE UNCHANGED work
    BY <1>3, <1>t, <2>1
  <2>2. ASSUME NEW word \in Word, work' = [work EXCEPT !.vin = U!Vin(work.type, word)]
        PROVE  <1>4
    <3>1. U!Vin(work.type, word) \in Int /\ (work.type = "DC" => U!Vin(work.type, word) = U!Linear(word))
      <4>1. word \in Nat
        BY PsuAssumption DEF U!ConstantsOK
      <4>2. (word * 10000 + 180000) \div 2207 \in Int
        BY <4>1
      <4>3. U!Linear(word) \in Int
        BY LinearInt
      <4> QED BY <4>2, <4>3 DEF U!Vin
    <3>2. work' \in Readings /\ work'.vin = U!Vin(work.type, word)
      BY <1>t, <2>2, <3>1 DEF Readings
    <3>3. /\ work'.status = work.status /\ work'.rpm = work.rpm /\ work'.pwm = work.pwm
          /\ work'.type = work.type
      BY <1>t, <2>2 DEF Readings
    <3> QED BY <3>1, <3>2, <3>3
  <2> QED BY <1>1, <2>1, <2>2
<1>5. PsuTyped'
  BY <1>0, <1>1, <1>2, <1>t, <1>4, MovesTyped DEF Steps
<1>6. /\ psu_at'[c] = "PDO2"
      /\ \A d \in Caller : d # c => psu_at'[d] = psu_at[d] /\ psu_at[d] \in {"idle", "lock"}
      /\ \A d \in Caller : d # c => UnderWay(d)'
  BY <1>0, <1>1, <1>2, Alone DEF Steps
<1>7. UnderWay(c)'
  BY <1>1, <1>2, <1>3, <1>4, <1>6 DEF UnderWay, p
<1>8. (\A q \in Unit : HeldOf(q)') /\ Rested'
  BY <1>0, <1>1, <1>6 DEF HeldOf, Rested
<1> QED BY <1>5, <1>6, <1>7, <1>8 DEF PsuInv

LEMMA PsuReadFans ==
  ASSUME PsuInv, NEW c \in Caller, U!ReadFans(c)
  PROVE  PsuInv'
PROOF
<1>0. PsuTyped /\ Rested /\ (\A d \in Caller : UnderWay(d)) /\ (\A p \in Unit : HeldOf(p))
  BY DEF PsuInv
<1> DEFINE p == job[c].psu
           to == IF job[c].kind = "show" THEN "answer" ELSE "set"
<1>1. /\ psu_at[c] = "PDO2" /\ psu_at' = [psu_at EXCEPT ![c] = to]
      /\ \/ /\ plugged[p]
            /\ psu_data' = [psu_data EXCEPT ![p] = [work EXCEPT !.rpm = 1]]
            /\ psu_valid' = [psu_valid EXCEPT ![p] = TRUE]
            /\ last_updated' = [last_updated EXCEPT ![p] = 0]
         \/ /\ psu_data' = [psu_data EXCEPT ![p] = work]
            /\ UNCHANGED <<psu_valid, last_updated>>
      /\ work' = U!Unread /\ touched' = [touched EXCEPT ![p] = FALSE]
      /\ UNCHANGED <<mutex, job, plugged, pwm, out, changed>>
  BY DEF U!ReadFans, U!Goto, U!AfterUpdate, U!Answers, U!Psu, U!units
<1>t. /\ psu_valid \in [Unit -> BOOLEAN] /\ last_updated \in [Unit -> 0..Hold]
      /\ plugged \in [Unit -> BOOLEAN] /\ pwm \in [Unit -> 0..255] /\ out \in [Unit -> 0..Hold]
      /\ changed \in [Unit -> BOOLEAN] /\ touched \in [Unit -> BOOLEAN]
      /\ work \in Readings /\ psu_data \in [Unit -> Readings]
  BY <1>0 DEF PsuTyped, U!TypeOK
<1>2. job[c] \in U!Job /\ p \in Unit /\ job[c].kind \in {"show", "set"} /\ mutex = c /\ to \in Steps
  BY <1>0, <1>1, JobIs DEF PsuTyped, U!TypeOK, Steps
<1>3. /\ ~psu_valid[p] /\ work.status = 1 /\ (~changed[p] => work.pwm = pwm[p])
      /\ plugged[p] \/ out[p] = 0
  BY <1>0, <1>1 DEF UnderWay
<1>4. /\ [work EXCEPT !.rpm = 1] \in Readings /\ [work EXCEPT !.rpm = 1].status = 1
      /\ [work EXCEPT !.rpm = 1].rpm = 1 /\ [work EXCEPT !.rpm = 1].pwm = work.pwm
  BY <1>3, <1>t, SMTT(30) DEF Readings
<1> HIDE DEF p
<1>5. /\ psu_data' \in [Unit -> Readings] /\ psu_valid' \in [Unit -> BOOLEAN]
      /\ last_updated' \in [Unit -> 0..Hold] /\ touched' \in [Unit -> BOOLEAN]
      /\ work' \in Readings
  <2> HIDE DEF to
  <2>1. psu_data' \in [Unit -> Readings]
    BY <1>1, <1>2, <1>4, <1>t
  <2>2. psu_valid' \in [Unit -> BOOLEAN] /\ touched' \in [Unit -> BOOLEAN]
    BY <1>1, <1>2, <1>t
  <2>3. last_updated' \in [Unit -> 0..Hold]
    BY <1>1, <1>2, <1>t, ConstantsAre
  <2> QED BY <1>1, <2>1, <2>2, <2>3, UnreadIs
<1>6. PsuTyped'
  BY <1>0, <1>1, <1>2, <1>t, <1>5, MovesTyped
<1>7. /\ psu_at'[c] = to
      /\ \A d \in Caller : d # c => psu_at'[d] = psu_at[d] /\ psu_at[d] \in {"idle", "lock"}
      /\ \A d \in Caller : d # c => UnderWay(d)'
  BY <1>0, <1>1, <1>2, Alone
<1>8. UnderWay(c)'
  BY <1>1, <1>2, <1>3, <1>7, <1>t, ConstantsAre DEF UnderWay, p
<1>9. ASSUME NEW q \in Unit PROVE HeldOf(q)'
  <2>1. CASE q # p
    BY <1>0, <1>1, <1>2, <1>t, <2>1 DEF HeldOf
  <2>2. CASE q = p /\ ~psu_valid'[p]
    BY <2>2 DEF HeldOf
  <2>3. CASE q = p /\ psu_valid'[p]
    <3>1. /\ plugged[p] /\ psu_data'[p] = [work EXCEPT !.rpm = 1]
      BY <1>1, <1>2, <1>3, <1>t, <2>3
    <3>2. pwm[p] \in 0..255 /\ pwm[p] % 256 = pwm[p]
      BY <1>2, <1>t
    <3> QED BY <1>1, <1>3, <1>4, <2>3, <3>1, <3>2 DEF HeldOf
  <2> QED BY <2>1, <2>2, <2>3
<1>10. Rested'
  <2>1. U!Unread' = U!Unread
    BY DEF U!Unread
  <2> QED BY <1>1, <2>1 DEF Rested
<1> QED BY <1>6, <1>7, <1>8, <1>9, <1>10 DEF PsuInv

LEMMA PsuUnlock ==
  ASSUME PsuInv, NEW c \in Caller, U!Unlock(c)
  PROVE  PsuInv'
PROOF
<1>0. PsuTyped /\ Rested /\ (\A d \in Caller : UnderWay(d)) /\ (\A p \in Unit : HeldOf(p))
  BY DEF PsuInv
<1>1. /\ psu_at[c] = "answer" /\ psu_at' = [psu_at EXCEPT ![c] = "idle"]
      /\ job' = [job EXCEPT ![c] = U!None] /\ mutex' = NoCaller
      /\ UNCHANGED <<work, psu_data, psu_valid, last_updated, plugged, pwm, out, changed, touched>>
  BY DEF U!Unlock, U!Goto, U!cache, U!units
<1>2. mutex = c
  BY <1>0, <1>1 DEF PsuTyped, U!TypeOK
<1>3. /\ psu_at' \in [Caller -> Steps] /\ psu_at'[c] = "idle"
      /\ \A d \in Caller : d # c => psu_at'[d] = psu_at[d] /\ psu_at[d] \in {"idle", "lock"}
      /\ \A d \in Caller : d # c => UnderWay(d)'
  BY <1>0, <1>1, <1>2, Alone DEF Steps
<1>4. U!TypeOK'
  <2>1. U!Job' = U!Job /\ U!None' = U!None
    BY DEF U!Job, U!Show, U!Set, U!None
  <2>2. job' \in [Caller -> U!Job \cup {U!None}]
    BY <1>0, <1>1 DEF PsuTyped, U!TypeOK
  <2>3. \A d \in Caller : (psu_at'[d] \notin {"idle", "lock"}) <=> mutex' = d
    BY <1>1, <1>3, ConstantsAre
  <2> QED BY <1>0, <1>1, <2>1, <2>2, <2>3 DEF PsuTyped, U!TypeOK
<1>5. PsuTyped'
  <2>1. U!Job' = U!Job
    BY DEF U!Job, U!Show, U!Set
  <2>2. \A d \in Caller : d # c => job'[d] = job[d]
    BY <1>0, <1>1 DEF PsuTyped, U!TypeOK
  <2> QED BY <1>0, <1>1, <1>3, <1>4, <2>1, <2>2 DEF PsuTyped
<1>6. UnderWay(c)'
  BY <1>3 DEF UnderWay
<1>7. (\A q \in Unit : HeldOf(q)') /\ Rested'
  BY <1>0, <1>1, <1>3 DEF HeldOf, Rested, U!Unread
<1> QED BY <1>3, <1>5, <1>6, <1>7 DEF PsuInv

LEMMA PsuSetBegin ==
  ASSUME PsuInv, NEW c \in Caller, U!SetBegin(c)
  PROVE  PsuInv'
PROOF
<1>0. PsuTyped /\ Rested /\ (\A d \in Caller : UnderWay(d)) /\ (\A p \in Unit : HeldOf(p))
  BY DEF PsuInv
<1> DEFINE p == job[c].psu
           to == IF job[c].value = 0 THEN "answer" ELSE "get"
<1>1. /\ psu_at[c] = "set" /\ psu_at' = [psu_at EXCEPT ![c] = to]
      /\ psu_valid' = IF to = "get" THEN [psu_valid EXCEPT ![p] = FALSE] ELSE psu_valid
      /\ UNCHANGED <<mutex, job, work, psu_data, last_updated, plugged, pwm, out, changed, touched>>
  BY SMTT(30) DEF U!SetBegin, U!Goto, U!Psu, U!units
<1>t. /\ psu_valid \in [Unit -> BOOLEAN] /\ last_updated \in [Unit -> 0..Hold]
      /\ plugged \in [Unit -> BOOLEAN] /\ pwm \in [Unit -> 0..255] /\ out \in [Unit -> 0..Hold]
      /\ changed \in [Unit -> BOOLEAN] /\ touched \in [Unit -> BOOLEAN]
      /\ work \in Readings /\ psu_data \in [Unit -> Readings]
  BY <1>0 DEF PsuTyped, U!TypeOK
<1>2. job[c] \in U!Job /\ p \in Unit /\ job[c].kind = "set" /\ mutex = c /\ to \in {"answer", "get"}
  BY <1>0, <1>1, JobIs DEF PsuTyped, U!TypeOK
<1> HIDE DEF p, to
<1>3. PsuTyped'
  BY <1>0, <1>1, <1>2, <1>t, MovesTyped DEF Steps
<1>4. /\ psu_at'[c] = to
      /\ \A d \in Caller : d # c => psu_at'[d] = psu_at[d] /\ psu_at[d] \in {"idle", "lock"}
      /\ \A d \in Caller : d # c => UnderWay(d)'
  BY <1>0, <1>1, <1>2, Alone DEF Steps
<1>5. UnderWay(c)'
  BY <1>1, <1>2, <1>4, <1>t DEF UnderWay, p
<1>6. (\A q \in Unit : HeldOf(q)') /\ Rested'
  BY <1>0, <1>1, <1>2, <1>4, <1>t DEF HeldOf, Rested, U!Unread
<1> QED BY <1>3, <1>4, <1>5, <1>6 DEF PsuInv

LEMMA ClipIs == ASSUME NEW v \in Int PROVE U!Clip(v) \in Nat /\ U!Clip(v) % 256 \in 0..255
  BY DEF U!Clip

LEMMA PsuGetPwm ==
  ASSUME PsuInv, NEW c \in Caller, U!GetPwm(c)
  PROVE  PsuInv'
PROOF
<1>0. PsuTyped /\ Rested /\ (\A d \in Caller : UnderWay(d)) /\ (\A p \in Unit : HeldOf(p))
  BY DEF PsuInv
<1> DEFINE p == job[c].psu
           clip == U!Clip(job[c].value)
<1>1. /\ psu_at[c] = "get"
      /\ \/ /\ plugged[p] /\ psu_at' = [psu_at EXCEPT ![c] = IF pwm[p] # clip THEN "put" ELSE "kept"]
            /\ changed' = [changed EXCEPT ![p] = FALSE]
         \/ psu_at' = [psu_at EXCEPT ![c] = "answer"] /\ UNCHANGED changed
      /\ UNCHANGED <<mutex, job, work, psu_data, psu_valid, last_updated, plugged, pwm, out, touched>>
  BY DEF U!GetPwm, U!Goto, U!Answers, U!Psu, U!units, U!cache
<1>t. /\ psu_valid \in [Unit -> BOOLEAN] /\ last_updated \in [Unit -> 0..Hold]
      /\ plugged \in [Unit -> BOOLEAN] /\ pwm \in [Unit -> 0..255] /\ out \in [Unit -> 0..Hold]
      /\ changed \in [Unit -> BOOLEAN] /\ touched \in [Unit -> BOOLEAN]
      /\ work \in Readings /\ psu_data \in [Unit -> Readings]
  BY <1>0 DEF PsuTyped, U!TypeOK
<1>2. /\ job[c] \in U!Job /\ p \in Unit /\ job[c].kind = "set" /\ mutex = c
      /\ job[c].value \in Int
  BY <1>0, <1>1, JobIs DEF PsuTyped, U!TypeOK
<1>3. ~psu_valid[p]
  BY <1>0, <1>1 DEF UnderWay
<1> HIDE DEF p, clip
<1>4. PICK to \in {"put", "kept", "answer"} :
         /\ psu_at' = [psu_at EXCEPT ![c] = to]
         /\ to = "answer" => UNCHANGED changed
         /\ to # "answer" => plugged[p] /\ changed' = [changed EXCEPT ![p] = FALSE]
         /\ to = "kept" => pwm[p] = clip
  <2>1. CASE psu_at' = [psu_at EXCEPT ![c] = "answer"] /\ UNCHANGED changed
    BY <2>1
  <2>2. CASE /\ plugged[p] /\ psu_at' = [psu_at EXCEPT ![c] = IF pwm[p] # clip THEN "put" ELSE "kept"]
             /\ changed' = [changed EXCEPT ![p] = FALSE]
    <3>1. CASE pwm[p] # clip
      BY <2>2, <3>1
    <3>2. CASE pwm[p] = clip
      BY <2>2, <3>2
    <3> QED BY <3>1, <3>2
  <2> QED BY <1>1, <2>1, <2>2
<1>5. changed' \in [Unit -> BOOLEAN] /\ to \in Steps
      /\ \A q \in Unit : q # p => changed'[q] = changed[q]
  BY <1>2, <1>4, <1>t DEF Steps
<1>6. PsuTyped'
  BY <1>0, <1>1, <1>2, <1>t, <1>4, <1>5, MovesTyped
<1>7. /\ psu_at'[c] = to
      /\ \A d \in Caller : d # c => psu_at'[d] = psu_at[d] /\ psu_at[d] \in {"idle", "lock"}
      /\ \A d \in Caller : d # c => UnderWay(d)'
  BY <1>0, <1>2, <1>4, <1>5, Alone
<1>8. UnderWay(c)'
  <2>1. to = "kept" => clip % 256 = pwm[p]
    <3>1. pwm[p] \in 0..255
      BY <1>2, <1>t
    <3> QED BY <1>4, <3>1
  <2> QED BY <1>1, <1>2, <1>3, <1>4, <1>7, <2>1 DEF UnderWay, p, clip
<1>9. (\A q \in Unit : HeldOf(q)') /\ Rested'
  BY <1>0, <1>1, <1>2, <1>3, <1>4, <1>5, <1>7, <1>t DEF HeldOf, Rested, U!Unread
<1> QED BY <1>6, <1>7, <1>8, <1>9 DEF PsuInv

LEMMA PsuPutPwm ==
  ASSUME PsuInv, NEW c \in Caller, U!PutPwm(c)
  PROVE  PsuInv'
PROOF
<1>0. PsuTyped /\ Rested /\ (\A d \in Caller : UnderWay(d)) /\ (\A p \in Unit : HeldOf(p))
  BY DEF PsuInv
<1> DEFINE p == job[c].psu
           byte == U!Clip(job[c].value) % 256
<1>1. /\ psu_at[c] = "put"
      /\ \/ /\ psu_at' = [psu_at EXCEPT ![c] = "kept"]
            /\ pwm' = IF plugged[p] THEN [pwm EXCEPT ![p] = byte] ELSE pwm
         \/ psu_at' = [psu_at EXCEPT ![c] = "answer"] /\ UNCHANGED pwm
      /\ UNCHANGED <<mutex, job, work, psu_data, psu_valid, last_updated, plugged, out, changed, touched>>
  BY DEF U!PutPwm, U!Goto, U!Psu, U!cache
<1>t. /\ psu_valid \in [Unit -> BOOLEAN] /\ last_updated \in [Unit -> 0..Hold]
      /\ plugged \in [Unit -> BOOLEAN] /\ pwm \in [Unit -> 0..255] /\ out \in [Unit -> 0..Hold]
      /\ changed \in [Unit -> BOOLEAN] /\ touched \in [Unit -> BOOLEAN]
      /\ work \in Readings /\ psu_data \in [Unit -> Readings]
  BY <1>0 DEF PsuTyped, U!TypeOK
<1>2. /\ job[c] \in U!Job /\ p \in Unit /\ job[c].kind = "set" /\ mutex = c
      /\ byte \in 0..255
  BY <1>0, <1>1, JobIs, ClipIs, SMTT(30) DEF PsuTyped, U!TypeOK
<1>3. ~psu_valid[p] /\ (plugged[p] \/ out[p] = 0) /\ (~changed[p] => plugged[p])
  BY <1>0, <1>1 DEF UnderWay
<1> HIDE DEF p, byte
<1>4. PICK to \in {"kept", "answer"} :
         /\ psu_at' = [psu_at EXCEPT ![c] = to]
         /\ to = "kept" /\ plugged[p] => pwm'[p] = byte
         /\ pwm' \in [Unit -> 0..255] /\ \A q \in Unit : q # p => pwm'[q] = pwm[q]
  <2>1. CASE psu_at' = [psu_at EXCEPT ![c] = "answer"] /\ UNCHANGED pwm
    BY <1>t, <2>1
  <2>2. CASE /\ psu_at' = [psu_at EXCEPT ![c] = "kept"]
             /\ pwm' = IF plugged[p] THEN [pwm EXCEPT ![p] = byte] ELSE pwm
    BY <1>2, <1>t, <2>2
  <2> QED BY <1>1, <2>1, <2>2
<1>5. PsuTyped'
  BY <1>0, <1>1, <1>2, <1>t, <1>4, MovesTyped DEF Steps
<1>6. /\ psu_at'[c] = to
      /\ \A d \in Caller : d # c => psu_at'[d] = psu_at[d] /\ psu_at[d] \in {"idle", "lock"}
      /\ \A d \in Caller : d # c => UnderWay(d)'
  BY <1>0, <1>2, <1>4, Alone DEF Steps
<1>7. UnderWay(c)'
  BY <1>1, <1>2, <1>3, <1>4, <1>6 DEF UnderWay, p, byte
<1>8. (\A q \in Unit : HeldOf(q)') /\ Rested'
  BY <1>0, <1>1, <1>2, <1>3, <1>4, <1>6, <1>t DEF HeldOf, Rested, U!Unread
<1> QED BY <1>5, <1>6, <1>7, <1>8 DEF PsuInv

LEMMA PsuKeep ==
  ASSUME PsuInv, NEW c \in Caller, U!Keep(c)
  PROVE  PsuInv'
PROOF
<1>0. PsuTyped /\ Rested /\ (\A d \in Caller : UnderWay(d)) /\ (\A p \in Unit : HeldOf(p))
  BY DEF PsuInv
<1> DEFINE p == job[c].psu
           clip == U!Clip(job[c].value)
<1>1. /\ psu_at[c] = "kept" /\ psu_at' = [psu_at EXCEPT ![c] = "answer"]
      /\ psu_data' = [psu_data EXCEPT ![p].pwm = clip]
      /\ psu_valid' = [psu_valid EXCEPT ![p] = TRUE] /\ last_updated' = [last_updated EXCEPT ![p] = 0]
      /\ touched' = [touched EXCEPT ![p] = TRUE]
      /\ UNCHANGED <<mutex, job, work, plugged, pwm, out, changed>>
  BY DEF U!Keep, U!Goto, U!Psu, U!units
<1>t. /\ psu_valid \in [Unit -> BOOLEAN] /\ last_updated \in [Unit -> 0..Hold]
      /\ plugged \in [Unit -> BOOLEAN] /\ pwm \in [Unit -> 0..255] /\ out \in [Unit -> 0..Hold]
      /\ changed \in [Unit -> BOOLEAN] /\ touched \in [Unit -> BOOLEAN]
      /\ work \in Readings /\ psu_data \in [Unit -> Readings]
  BY <1>0 DEF PsuTyped, U!TypeOK
<1>2. /\ job[c] \in U!Job /\ p \in Unit /\ job[c].kind = "set" /\ mutex = c
      /\ clip \in Nat
  BY <1>0, <1>1, JobIs, ClipIs DEF PsuTyped, U!TypeOK
<1>3. (plugged[p] \/ out[p] = 0) /\ (~changed[p] => clip % 256 = pwm[p])
  BY <1>0, <1>1 DEF UnderWay
<1> HIDE DEF p, clip
<1>4. /\ psu_data' \in [Unit -> Readings] /\ psu_data'[p].pwm = clip
      /\ \A q \in Unit : q # p => psu_data'[q] = psu_data[q]
  <2>0. psu_data[p] \in Readings
    BY <1>2, <1>t
  <2>1. [psu_data[p] EXCEPT !.pwm = clip] \in Readings /\ [psu_data[p] EXCEPT !.pwm = clip].pwm = clip
    <3> DEFINE r == psu_data[p]
    <3>1. r \in Readings
      BY <2>0
    <3> HIDE DEF r
    <3>2. [r EXCEPT !.pwm = clip] \in Readings /\ [r EXCEPT !.pwm = clip].pwm = clip
      BY <1>2, <3>1 DEF Readings
    <3> QED BY <3>2 DEF r
  <2>2. psu_data' = [psu_data EXCEPT ![p] = [psu_data[p] EXCEPT !.pwm = clip]]
    BY <1>1
  <2> QED BY <1>2, <1>t, <2>1, <2>2
<1>5. /\ psu_valid' \in [Unit -> BOOLEAN] /\ touched' \in [Unit -> BOOLEAN]
      /\ last_updated' \in [Unit -> 0..Hold]
  BY <1>1, <1>2, <1>t, ConstantsAre
<1>6. PsuTyped'
  BY <1>0, <1>1, <1>2, <1>t, <1>4, <1>5, MovesTyped DEF Steps
<1>7. /\ psu_at'[c] = "answer"
      /\ \A d \in Caller : d # c => psu_at'[d] = psu_at[d] /\ psu_at[d] \in {"idle", "lock"}
      /\ \A d \in Caller : d # c => UnderWay(d)'
  BY <1>0, <1>1, <1>2, Alone DEF Steps
<1>8. UnderWay(c)'
  BY <1>1, <1>2, <1>7 DEF UnderWay
<1>9. ASSUME NEW q \in Unit PROVE HeldOf(q)'
  <2>1. CASE q # p
    BY <1>0, <1>1, <1>2, <1>4, <1>t, <2>1 DEF HeldOf
  <2>2. CASE q = p
    <3>1. last_updated'[p] = 0 /\ touched'[p] = TRUE
      BY <1>1, <1>2, <1>t
    <3> QED BY <1>1, <1>3, <1>4, <2>2, <3>1 DEF HeldOf
  <2> QED BY <2>1, <2>2
<1>10. Rested'
  BY <1>0, <1>1, <1>7 DEF Rested, U!Unread
<1> QED BY <1>6, <1>7, <1>8, <1>9, <1>10 DEF PsuInv

(* The units and the time. *)
LEMMA PsuExchange ==
  ASSUME PsuInv, NEW p \in Unit, U!Pull(p) \/ U!Plug(p)
  PROVE  PsuInv'
PROOF
<1>0. PsuTyped /\ Rested /\ (\A d \in Caller : UnderWay(d)) /\ (\A q \in Unit : HeldOf(q))
  BY DEF PsuInv
<1>1. /\ UNCHANGED <<mutex, job, psu_at, work, psu_data, psu_valid, last_updated, touched>>
      /\ changed' = [changed EXCEPT ![p] = TRUE]
      /\ \/ /\ plugged' = [plugged EXCEPT ![p] = FALSE] /\ out' = [out EXCEPT ![p] = 0]
            /\ UNCHANGED pwm
         \/ /\ plugged' = [plugged EXCEPT ![p] = TRUE] /\ UNCHANGED out
            /\ \E s \in Speed : pwm' = [pwm EXCEPT ![p] = s]
  BY DEF U!Pull, U!Plug, U!process, U!cache
<1>t. /\ psu_valid \in [Unit -> BOOLEAN] /\ last_updated \in [Unit -> 0..Hold]
      /\ plugged \in [Unit -> BOOLEAN] /\ pwm \in [Unit -> 0..255] /\ out \in [Unit -> 0..Hold]
      /\ changed \in [Unit -> BOOLEAN] /\ touched \in [Unit -> BOOLEAN]
      /\ work \in Readings /\ psu_data \in [Unit -> Readings]
  BY <1>0 DEF PsuTyped, U!TypeOK
<1>2. /\ changed' \in [Unit -> BOOLEAN] /\ plugged' \in [Unit -> BOOLEAN]
      /\ out' \in [Unit -> 0..Hold] /\ pwm' \in [Unit -> 0..255]
      /\ changed'[p] = TRUE /\ (plugged'[p] \/ out'[p] = 0)
      /\ \A q \in Unit : q # p => /\ changed'[q] = changed[q] /\ plugged'[q] = plugged[q]
                                  /\ out'[q] = out[q] /\ pwm'[q] = pwm[q]
  <2>1. CASE /\ plugged' = [plugged EXCEPT ![p] = FALSE] /\ out' = [out EXCEPT ![p] = 0]
             /\ UNCHANGED pwm
    BY <1>1, <1>t, <2>1, ConstantsAre
  <2>2. ASSUME NEW s \in Speed, plugged' = [plugged EXCEPT ![p] = TRUE], UNCHANGED out,
               pwm' = [pwm EXCEPT ![p] = s]
        PROVE  <1>2
    BY <1>1, <1>t, <2>2, ConstantsAre
  <2> QED BY <1>1, <2>1, <2>2
<1>3. PsuTyped'
  <2>1. U!Job' = U!Job /\ U!None' = U!None
    BY DEF U!Job, U!Show, U!Set, U!None
  <2>2. U!TypeOK'
    BY <1>0, <1>1, <1>2, <2>1 DEF PsuTyped, U!TypeOK
  <2> QED BY <1>0, <1>1, <2>1, <2>2 DEF PsuTyped
<1>4. ASSUME NEW c \in Caller PROVE UnderWay(c)'
  <2>1. CASE psu_at[c] \in {"idle", "lock"}
    BY <1>1, <2>1 DEF UnderWay
  <2>2. CASE psu_at[c] \notin {"idle", "lock"}
    <3>1. job[c] \in U!Job /\ job[c].psu \in Unit
      BY <1>0, <2>2, JobIs DEF PsuTyped
    <3>2. CASE job[c].psu = p
      BY <1>0, <1>1, <1>2, <3>2, ConstantsAre DEF UnderWay
    <3>3. CASE job[c].psu # p
      BY <1>0, <1>1, <1>2, <3>1, <3>3 DEF UnderWay
    <3> QED BY <3>2, <3>3
  <2> QED BY <2>1, <2>2
<1>5. ASSUME NEW q \in Unit PROVE HeldOf(q)'
  <2>1. last_updated[q] \in 0..Hold
    BY <1>t
  <2>2. CASE q = p
    BY <1>0, <1>1, <1>2, <2>1, <2>2, ConstantsAre DEF HeldOf
  <2>3. CASE q # p
    BY <1>0, <1>1, <1>2, <2>3 DEF HeldOf
  <2> QED BY <2>2, <2>3
<1>6. Rested'
  BY <1>0, <1>1 DEF Rested, U!Unread
<1> QED BY <1>3, <1>4, <1>5, <1>6 DEF PsuInv

LEMMA PsuTick ==
  ASSUME PsuInv, U!Tick
  PROVE  PsuInv'
PROOF
<1>0. PsuTyped /\ Rested /\ (\A d \in Caller : UnderWay(d)) /\ (\A q \in Unit : HeldOf(q))
  BY DEF PsuInv
<1>1. /\ mutex = NoCaller
      /\ last_updated' = [p \in Unit |-> U!Later(last_updated[p])]
      /\ out' = [p \in Unit |-> U!Later(out[p])]
      /\ UNCHANGED <<mutex, job, psu_at, work, psu_data, psu_valid, plugged, pwm, changed, touched>>
  BY DEF U!Tick, U!process
<1>t. /\ last_updated \in [Unit -> 0..Hold] /\ out \in [Unit -> 0..Hold]
  BY <1>0 DEF PsuTyped, U!TypeOK
<1>2. \A a, b \in 0..Hold : /\ U!Later(a) \in 0..Hold
                            /\ a <= b => U!Later(a) <= U!Later(b)
  BY ConstantsAre DEF U!Later
<1>3. last_updated' \in [Unit -> 0..Hold] /\ out' \in [Unit -> 0..Hold]
  BY <1>1, <1>2, <1>t
<1>4. PsuTyped'
  <2>1. U!Job' = U!Job /\ U!None' = U!None
    BY DEF U!Job, U!Show, U!Set, U!None
  <2>2. U!TypeOK'
    BY <1>0, <1>1, <1>3, <2>1 DEF PsuTyped, U!TypeOK
  <2> QED BY <1>0, <1>1, <2>1, <2>2 DEF PsuTyped
<1>5. ASSUME NEW c \in Caller PROVE UnderWay(c)'
  <2>1. psu_at[c] \in {"idle", "lock"}
    BY <1>0, <1>1, ConstantsAre DEF PsuTyped, U!TypeOK
  <2> QED BY <1>1, <2>1 DEF UnderWay
<1>6. ASSUME NEW q \in Unit PROVE HeldOf(q)'
  <2>1. out[q] <= last_updated[q] => out'[q] <= last_updated'[q]
    BY <1>1, <1>2, <1>t
  <2> QED BY <1>0, <1>1, <2>1 DEF HeldOf
<1>7. Rested'
  BY <1>0, <1>1 DEF Rested, U!Unread
<1> QED BY <1>4, <1>5, <1>6, <1>7 DEF PsuInv

LEMMA PsuStill ==
  ASSUME PsuInv, UNCHANGED U!vars
  PROVE  PsuInv'
PROOF
<1>0. PsuTyped /\ Rested /\ (\A d \in Caller : UnderWay(d)) /\ (\A q \in Unit : HeldOf(q))
  BY DEF PsuInv
<1>1. UNCHANGED <<mutex, job, psu_at, work, psu_data, psu_valid, last_updated, plugged, pwm, out,
                  changed, touched>>
  BY DEF U!vars, U!process, U!cache, U!units
<1>2. PsuTyped'
  <2>1. U!Job' = U!Job /\ U!None' = U!None
    BY DEF U!Job, U!Show, U!Set, U!None
  <2>2. U!TypeOK'
    BY <1>0, <1>1, <2>1 DEF PsuTyped, U!TypeOK
  <2> QED BY <1>0, <1>1, <2>1, <2>2 DEF PsuTyped
<1>3. (\A c \in Caller : UnderWay(c)') /\ (\A q \in Unit : HeldOf(q)') /\ Rested'
  BY <1>0, <1>1 DEF UnderWay, HeldOf, Rested, U!Unread
<1> QED BY <1>2, <1>3 DEF PsuInv

LEMMA PsuInvariant == U!Spec => []PsuInv
PROOF
<1>1. ASSUME PsuInv, [U!Next]_U!vars PROVE PsuInv'
  <2>1. CASE \E c \in Caller : U!Step(c) \/ \E j \in U!Job : U!Enter(c, j)
    BY <1>1, <2>1, PsuEnter, PsuLock, PsuReadPDO1, PsuReadPower, PsuReadFans, PsuUnlock,
       PsuSetBegin, PsuGetPwm, PsuPutPwm, PsuKeep DEF U!Step
  <2>2. CASE \E p \in Unit : U!Pull(p) \/ U!Plug(p)
    BY <1>1, <2>2, PsuExchange
  <2>3. CASE U!Tick
    BY <1>1, <2>3, PsuTick
  <2>4. CASE UNCHANGED U!vars
    BY <1>1, <2>4, PsuStill
  <2> QED BY <1>1, <2>1, <2>2, <2>3, <2>4 DEF U!Next
<1>2. PsuInv /\ [U!Next]_U!vars => PsuInv'
  BY <1>1
<1> QED BY <1>2, PsuInit, PTL DEF U!Spec

(* What the invariant says of what is held. *)
LEMMA PsuHolds ==
  PsuInv => U!PulledIsNoticed /\ U!CachedPwm /\ U!PartialIsRetried /\ U!LinearRight
PROOF
<1> SUFFICES ASSUME PsuInv
             PROVE  U!PulledIsNoticed /\ U!CachedPwm /\ U!PartialIsRetried /\ U!LinearRight
  OBVIOUS
<1>0. (\A d \in Caller : UnderWay(d)) /\ (\A q \in Unit : HeldOf(q))
  BY DEF PsuInv
<1>1. U!PulledIsNoticed
  BY <1>0 DEF UnderWay, U!PulledIsNoticed, U!Psu
<1>2. U!CachedPwm /\ U!PartialIsRetried
  BY <1>0 DEF HeldOf, U!CachedPwm, U!PartialIsRetried
<1>3. U!LinearRight
  <2> SUFFICES ASSUME NEW c \in Caller, psu_at[c] = "PDO2", work.vin # -1, work.type = "DC"
               PROVE  \E word \in Word :
                        LET e == Exponent(word)
                            m == Mantissa(word) IN
                        IF e >= 0 THEN work.vin = m * U!Power(e) * 1000
                        ELSE /\ work.vin * U!Power(-e) - m * 1000
                                  \in (1 - U!Power(-e)) .. (U!Power(-e) - 1)
                             /\ IF m >= 0 THEN work.vin >= 0 ELSE work.vin <= 0
    BY DEF U!LinearRight, Exponent, Mantissa
  <2>1. PICK word \in Word : work.vin = U!Linear(word)
    BY <1>0 DEF UnderWay
  <2> DEFINE e == Exponent(word)
             m == Mantissa(word)
  <2> HIDE DEF e, m
  <2>2. IF e >= 0 THEN work.vin = m * U!Power(e) * 1000
        ELSE /\ work.vin * U!Power(-e) - m * 1000
                  \in (1 - U!Power(-e)) .. (U!Power(-e) - 1)
             /\ IF m >= 0 THEN work.vin >= 0 ELSE work.vin <= 0
    BY <2>1, LinearIs DEF e, m
  <2> QED BY <2>2 DEF e, m
<1> QED BY <1>1, <1>2, <1>3

-----------------------------------------------------------------------------
(* The three parts together.                                               *)

LEMMA EachSpec == Arm => Spec /\ L!Spec /\ U!Spec
PROOF
<1>1. ArmInit => Init /\ L!Init /\ U!Init
  BY DEF ArmInit
<1>2. [ArmNext]_<<part, vars, policy, psu>> => [Next]_vars /\ [L!Next]_L!vars /\ [U!Next]_U!vars
  <2>1. UNCHANGED policy => UNCHANGED L!vars
    BY DEF policy, L!vars, L!locals, L!failures
  <2>2. UNCHANGED psu => UNCHANGED U!vars
    BY DEF psu, U!vars, U!process, U!cache, U!units
  <2> QED BY <2>1, <2>2 DEF ArmNext
<1> QED BY <1>1, <1>2, PTL DEF Arm, Spec, L!Spec, U!Spec

(* The three parts are well typed; of the power supply driver that says    *)
(* that the mutex excludes: a process past mutex_lock has it. *)
THEOREM ArmTyped == Arm => []ArmTypeOK
PROOF
<1>1. LedInv /\ PolicyInv /\ PsuInv => ArmTypeOK
  BY DEF LedInv, LedTyped, PolicyInv, PsuInv, PsuTyped, ArmTypeOK
<1> QED BY <1>1, EachSpec, LedInvariant, PolicyInvariant, PsuInvariant, PTL

(* Between the two register writes of led_mode_set a LED shows the mode it *)
(* had, the one it gets or nothing, and never a third colour, unless a     *)
(* mapping of the FPGA has failed before. *)
THEOREM NeverFalseColour == Arm => []NoFalseColour
  BY EachSpec, LedInvariant, ColoursTrue, PTL

(* The LED driver shows no LED that is older than its five seconds, a      *)
(* store that finds its LED dark puts it into every mode it can have, and  *)
(* a store changes no other LED although it writes whole registers. *)
THEOREM DriverTrue == Arm => DriverLights
PROOF
<1>1. LedInv /\ [Next]_vars =>
        [~garbled' => \A c \in Caller : at[c] = "idle" /\ at'[c] = "shown" =>
           LET led == op'[c].led IN
           \/ led \in stored'
           \/ Shown(Kind[led], led_data'[led]) = Shown(Kind[led], light'[led])]_at
  BY LedSteps
<1>2. LedInv /\ [Next]_vars =>
        [~garbled' => \A c \in Caller :
           at[c] = "first" /\ at'[c] = "second" /\ light[op[c].led] = Dark =>
             LET o == op[c]  k == Kind[o.led] IN
             Shown(k, Second(k, light'[o.led], o.mode)) = o.mode]_at
  BY LedSteps
<1>3. LedInv /\ [Next]_vars =>
        [~garbled' => \A l \in Lights : light'[l] # light[l] =>
           \E c \in Caller : at[c] \in {"first", "second"} /\ op[c].led = l]_light
  BY LedSteps
<1>4. Spec => ShowsTheTruth
  BY <1>1, LedInvariant, PTL DEF Spec, ShowsTheTruth
<1>5. Spec => FromDark
  BY <1>2, LedInvariant, PTL DEF Spec, FromDark
<1>6. Spec => OthersKept
  BY <1>3, LedInvariant, PTL DEF Spec, OthersKept
<1> QED BY <1>4, <1>5, <1>6, EachSpec, PTL DEF DriverLights

(* At the end of a run of manage_leds a power supply that was out longer   *)
(* than its status is held, or cannot be read, has not left its LED green, *)
(* nor two that were read as in place red, modules that stayed in place    *)
(* are lit and empty ports dark, however many ports there are and whatever *)
(* was exchanged, not read or not stored meanwhile. *)
THEOREM PolicyLit == Arm => []PolicyLights
PROOF
<1>1. PolicyInv => PolicyLights
  BY PolicyEnds DEF PolicyLights
<1> QED BY <1>1, EachSpec, PolicyInvariant, PTL

(* What the power supply driver holds is true: a unit that has been out as *)
(* long as readings are held is not shown, the speed that is held is the   *)
(* one the unit is set to, what an update missed is read again, and the    *)
(* words of every power frame are read as LINEAR11. *)
THEOREM HeldTrue == Arm => []HeldIsTrue
PROOF
<1>1. PsuInv => HeldIsTrue
  BY PsuHolds DEF HeldIsTrue
<1> QED BY <1>1, EachSpec, PsuInvariant, PTL

=============================================================================
