--------------------------- MODULE DriversProofs ----------------------------
(***************************************************************************)
(* Proofs about the clients of IpmiService: Led for any number of          *)
(* processes, LEDs and modes and any garbage in the bytes a failed refresh *)
(* stores, then Fan, Thermal and Sys for any fans, sensors and readings    *)
(* and an EEPROM of any size, and last the four side by side.              *)
(***************************************************************************)
EXTENDS MCDrivers, SequenceTheorems, TLAPS

-----------------------------------------------------------------------------
(* Led.                                                                    *)

(* The service's variables, and where a process may be while in which step *)
(* of the driver.                                                          *)
ServiceTyped ==
  /\ place \in [Caller -> {"outside", "inside", "sending"}]
  /\ answer \in [Caller -> {"none", "own", "previous"}]
  /\ degraded \in BOOLEAN

Placed ==
  \A c \in Caller :
    /\ place[c] = "outside" <=> at[c] = "idle"
    /\ place[c] = "outside" => op[c] = None
    /\ place[c] # "outside" => op[c] \in Handler
    /\ at[c] \in {"write", "set"} => op[c].kind = "set"

Alone == \A c, d \in Caller : place[c] # "outside" /\ place[d] # "outside" => c = d

Typed == TypeOK /\ ServiceTyped /\ Placed /\ Alone

(* The cache is valid exactly from a complete refresh to the next one that *)
(* starts, and no handler uses it otherwise.                               *)
ValidWhenUsed ==
  \A c \in Caller :
    /\ at[c] \in {"ready", "write"} => valid
    /\ at[c] \in {"read1", "read2"} => ~valid

Agrees == \A led \in Led \ stored : Bits(led_data, led) = Bits(ctrl, led)

(* In a driver that has not seen a timeout a query reads the register, and *)
(* a cache that is valid agrees with the hardware on all LEDs not stored   *)
(* since.                                                                  *)
CacheInv ==
  ~degraded =>
    /\ valid => Agrees
    /\ \A c \in Caller : at[c] = "read2" => sys1_led = ctrl[1]

Cached == Typed /\ ValidWhenUsed /\ CacheInv

-----------------------------------------------------------------------------
(* Facts about the operators. *)

LEMMA LedTyped ==
  \A led \in Led :
    /\ led[1] \in Reg /\ led[2] \in 1..2
    /\ Other(led) \in Led /\ Other(led)[1] = led[1] /\ Other(led)[2] # led[2]
  BY DEF Led, LED_SYS, LED_BMC, LED_FAN, LED_PSU, Reg, Other

LEMMA ZeroTyped == Zero \in Byte
  BY FieldAssumption DEF Zero, Byte

(* Two LEDs of one register are the same or each the other one. *)
LEMMA LedsOfRegister ==
  \A l, m \in Led : l[1] = m[1] => l = m \/ l = Other(m)
  BY DEF Led, LED_SYS, LED_BMC, LED_FAN, LED_PSU, Other

LEMMA SetHandler ==
  ASSUME NEW o \in Handler, o.kind = "set"
  PROVE  o.led \in Led /\ o.mode \in Mode
  BY LightsAssumption DEF Handler

LEMMA BitsTyped == \A m \in Mode : BitsOf(m) \in Field
  BY FieldAssumption

LEMMA ReadTyped ==
  ASSUME Typed, NEW c \in Caller, at[c] \in {"read1", "read2"}
  PROVE  RegRead(c) \in Reg /\ ctrl[RegRead(c)] \in Byte
  BY DEF Typed, TypeOK, RegRead, Reg

-----------------------------------------------------------------------------
(* The type invariant, and that a process is in the step of the driver     *)
(* that its place in the service says.                                     *)

LEMMA TypedInit == Init => Typed
<1> SUFFICES ASSUME Init PROVE Typed
  OBVIOUS
<1>1. last \in Reply
  BY ZeroTyped DEF Init, Reply
<1>2. TypeOK
  BY <1>1, ZeroTyped DEF Init, TypeOK, At
<1>3. ServiceTyped /\ Placed /\ Alone
  BY DEF Init, Service!Init, ServiceTyped, Placed, Alone
<1> QED BY <1>2, <1>3 DEF Typed

LEMMA LockTyped ==
  ASSUME Typed, NEW c \in Caller, NEW o \in Handler, Lock(c, o)
  PROVE  Typed'
<1>1. TypeOK'
  BY DEF Typed, TypeOK, Lock, Goto, At, cache
<1>2. ServiceTyped'
  BY DEF Typed, ServiceTyped, Lock, Service!Enter, Service!Move
<1>3. Placed' /\ Alone'
  BY DEF Typed, TypeOK, ServiceTyped, Placed, Alone, Lock, Goto, Service!Enter, Service!Move
<1> QED BY <1>1, <1>2, <1>3 DEF Typed

LEMMA QueryTyped ==
  ASSUME Typed, NEW c \in Caller, Query(c)
  PROVE  Typed'
<1>1. TypeOK'
  BY DEF Typed, TypeOK, Query, cache
<1>2. ServiceTyped'
  BY DEF Typed, ServiceTyped, Query, Service!Send, Service!Move
<1>3. Placed' /\ Alone'
  BY DEF Typed, TypeOK, ServiceTyped, Placed, Alone, Query, Service!Send, Service!Move
<1> QED BY <1>1, <1>2, <1>3 DEF Typed

(* What both ends of a refresh step do to the driver's own variables. *)
LEMMA RefreshFailsTyped ==
  ASSUME Typed, NEW c \in Caller, at[c] \in {"read1", "read2"}, RefreshFails(c)
  PROVE  /\ led_data' \in [Reg -> Byte] /\ sys1_led' \in Byte
         /\ valid' = valid /\ fresh' = fresh /\ stored' = stored
         /\ at' = [at EXCEPT ![c] = IF valid THEN "ready" ELSE "error"]
  BY ZeroTyped, GarbageAssumption DEF Typed, TypeOK, RefreshFails, Goto

LEMMA RegisterReadTyped ==
  ASSUME Typed, NEW c \in Caller, NEW b \in Byte, RegisterRead(c, b)
  PROVE  /\ led_data' \in [Reg -> Byte] /\ sys1_led' \in Byte
         /\ valid' \in BOOLEAN /\ fresh' \in BOOLEAN /\ stored' \subseteq Led
         /\ at' = [at EXCEPT ![c] = IF at[c] = "read1" THEN "read2" ELSE "ready"]
         /\ at[c] \in {"read1", "read2"}
  BY ZeroTyped DEF Typed, TypeOK, RegisterRead, Goto, cache

LEMMA QueryAnsweredTyped ==
  ASSUME Typed, NEW c \in Caller, QueryAnswered(c)
  PROVE  Typed'
<1>1. PICK ok \in BOOLEAN, code \in BOOLEAN, b \in Byte :
        /\ last' = [ok |-> ok, byte |-> IF ok THEN ctrl[RegRead(c)] ELSE Zero]
        /\ IF code THEN RegisterRead(c, b) ELSE RefreshFails(c)
  BY ReadTyped, ZeroTyped DEF Typed, TypeOK, QueryAnswered, Reply
<1>2. /\ led_data' \in [Reg -> Byte] /\ sys1_led' \in Byte
      /\ valid' \in BOOLEAN /\ fresh' \in BOOLEAN /\ stored' \subseteq Led
      /\ at' \in [Caller -> At]
      /\ at' = [at EXCEPT ![c] = at'[c]]
      /\ at'[c] \in {"read2", "ready", "error"}
  BY <1>1, RefreshFailsTyped, RegisterReadTyped DEF Typed, TypeOK, At, QueryAnswered
<1>3. last' \in Reply
  BY <1>1, ReadTyped, ZeroTyped DEF QueryAnswered, Reply
<1>4. TypeOK'
  BY <1>2, <1>3 DEF Typed, TypeOK, QueryAnswered
<1>5. ServiceTyped'
  BY DEF Typed, ServiceTyped, QueryAnswered, Service!Answer, Service!Move
<1>6. Placed' /\ Alone'
  BY <1>2 DEF Typed, TypeOK, ServiceTyped, Placed, Alone, QueryAnswered, Service!Answer, Service!Move
<1> QED BY <1>4, <1>5, <1>6 DEF Typed

LEMMA QueryFailsTyped ==
  ASSUME Typed, NEW c \in Caller, QueryFails(c)
  PROVE  Typed'
<1>1. /\ led_data' \in [Reg -> Byte] /\ sys1_led' \in Byte
      /\ valid' \in BOOLEAN /\ fresh' \in BOOLEAN /\ stored' \subseteq Led
      /\ at' \in [Caller -> At]
      /\ at' = [at EXCEPT ![c] = at'[c]]
      /\ at'[c] \in {"ready", "error"}
  BY RefreshFailsTyped DEF Typed, TypeOK, At, QueryFails
<1>2. last' \in Reply
  BY ReadTyped, ZeroTyped DEF Typed, TypeOK, QueryFails, Reply
<1>3. TypeOK'
  BY <1>1, <1>2 DEF Typed, TypeOK, QueryFails
<1>4. ServiceTyped'
  BY DEF Typed, ServiceTyped, QueryFails, Service!Fail, Service!Move
<1>5. Placed' /\ Alone'
  BY <1>1 DEF Typed, TypeOK, ServiceTyped, Placed, Alone, QueryFails, Service!Fail, Service!Move
<1> QED BY <1>3, <1>4, <1>5 DEF Typed

LEMMA ShowTyped ==
  ASSUME Typed, NEW c \in Caller, Show(c)
  PROVE  Typed'
  BY DEF Typed, TypeOK, ServiceTyped, Placed, Alone, Show, Goto, At, cache, service

LEMMA SetTyped ==
  ASSUME Typed, NEW c \in Caller, Set(c)
  PROVE  Typed'
<1>1. TypeOK'
  BY DEF Typed, TypeOK, Set, Goto, At, cache
<1>2. ServiceTyped' /\ Placed' /\ Alone'
  BY DEF Typed, TypeOK, ServiceTyped, Placed, Alone, Set, Goto, Service!Send, Service!Move
<1> QED BY <1>1, <1>2 DEF Typed

(* What a write does: one byte of one register. *)
LEMMA WriteTyped ==
  ASSUME Typed, NEW c \in Caller, at[c] = "write", WriteRegister(c)
  PROVE  ctrl' \in [Reg -> Byte] /\ stored' \subseteq Led
<1>1. op[c] \in Handler /\ op[c].kind = "set"
  BY DEF Typed, Placed
<1>2. op[c].led \in Led /\ op[c].mode \in Mode
  BY <1>1, SetHandler
<1>3. BitsOf(op[c].mode) \in Field
  BY <1>2, BitsTyped
<1>4. op[c].led[1] \in Reg /\ op[c].led[2] \in 1..2
  BY <1>2, LedTyped
<1>5. ValueToWrite(c) \in Byte
  BY <1>3, <1>4 DEF ValueToWrite, Typed, TypeOK, Byte
<1> QED BY <1>2, <1>4, <1>5 DEF WriteRegister, Typed, TypeOK

LEMMA SetAnsweredTyped ==
  ASSUME Typed, NEW c \in Caller, SetAnswered(c)
  PROVE  Typed'
<1>1. ctrl' \in [Reg -> Byte] /\ stored' \subseteq Led
  BY WriteTyped DEF SetAnswered, Typed, TypeOK
<1>2. /\ last' \in Reply
      /\ at' = [at EXCEPT ![c] = at'[c]]
      /\ at'[c] \in {"set", "error"}
  BY ZeroTyped DEF SetAnswered, Goto, Reply, Typed, TypeOK
<1>3. TypeOK'
  BY <1>1, <1>2 DEF SetAnswered, Typed, TypeOK, At, cache
<1>4. ServiceTyped'
  BY DEF Typed, ServiceTyped, SetAnswered, Service!Answer, Service!Move
<1>5. Placed' /\ Alone'
  BY <1>2 DEF Typed, TypeOK, ServiceTyped, Placed, Alone, SetAnswered, Service!Answer, Service!Move
<1> QED BY <1>3, <1>4, <1>5 DEF Typed

LEMMA SetFailsTyped ==
  ASSUME Typed, NEW c \in Caller, SetFails(c)
  PROVE  Typed'
<1>1. ctrl' \in [Reg -> Byte] /\ stored' \subseteq Led
  BY WriteTyped DEF SetFails, Goto, Typed, TypeOK
<1>2. /\ last' \in Reply
      /\ at' = [at EXCEPT ![c] = "error"]
  BY ZeroTyped DEF SetFails, Goto, Reply, Typed, TypeOK
<1>3. TypeOK'
  BY <1>1, <1>2 DEF SetFails, Typed, TypeOK, At, cache
<1>4. ServiceTyped'
  BY DEF Typed, ServiceTyped, SetFails, Service!Fail, Service!Move
<1>5. Placed' /\ Alone'
  BY <1>2 DEF Typed, TypeOK, ServiceTyped, Placed, Alone, SetFails, Goto, Service!Fail, Service!Move
<1> QED BY <1>3, <1>4, <1>5 DEF Typed

LEMMA UnlockTyped ==
  ASSUME Typed, NEW c \in Caller, Unlock(c)
  PROVE  Typed'
<1>1. TypeOK'
  BY DEF Typed, TypeOK, Unlock, Goto, At, cache
<1>2. ServiceTyped'
  BY DEF Typed, ServiceTyped, Unlock, Service!Leave, Service!Move
<1>3. Placed' /\ Alone'
  BY DEF Typed, TypeOK, ServiceTyped, Placed, Alone, Unlock, Goto, Service!Leave, Service!Move
<1> QED BY <1>1, <1>2, <1>3 DEF Typed

LEMMA ExpireTyped ==
  ASSUME Typed, Expire
  PROVE  Typed'
  BY DEF Typed, TypeOK, ServiceTyped, Placed, Alone, Expire, service

LEMMA TypedStep == Typed /\ [Next]_vars => Typed'
<1> SUFFICES ASSUME Typed, [Next]_vars PROVE Typed'
  OBVIOUS
<1>1. CASE UNCHANGED vars
  BY <1>1 DEF vars, service, cache, Typed, TypeOK, ServiceTyped, Placed, Alone
<1>2. ASSUME NEW c \in Caller, NEW o \in Handler, Lock(c, o) PROVE Typed'
  BY <1>2, LockTyped
<1>3. ASSUME NEW c \in Caller, Query(c) \/ QueryAnswered(c) \/ QueryFails(c) PROVE Typed'
  BY <1>3, QueryTyped, QueryAnsweredTyped, QueryFailsTyped
<1>4. ASSUME NEW c \in Caller, Show(c) \/ Set(c) \/ SetAnswered(c) \/ SetFails(c) PROVE Typed'
  BY <1>4, ShowTyped, SetTyped, SetAnsweredTyped, SetFailsTyped
<1>5. ASSUME NEW c \in Caller, Unlock(c) PROVE Typed'
  BY <1>5, UnlockTyped
<1>6. CASE Expire
  BY <1>6, ExpireTyped
<1> QED BY <1>1, <1>2, <1>3, <1>4, <1>5, <1>6 DEF Next

THEOREM AlwaysTyped == Spec => []Typed
<1>1. Typed /\ [Next]_vars => Typed'
  BY TypedStep
<1> QED BY TypedInit, <1>1, PTL DEF Spec

(* Every state of the driver is well typed, whatever a failed refresh      *)
(* leaves in the cache.                                                    *)
THEOREM TypeCorrect == Spec => []TypeOK
<1>1. Typed => TypeOK
  BY DEF Typed
<1> QED BY AlwaysTyped, <1>1, PTL

-----------------------------------------------------------------------------
(* The cache.  Only the process in the service moves, so what another one  *)
(* may rely on is not disturbed.                                           *)

LEMMA OthersIdle ==
  ASSUME Typed, NEW c \in Caller, at[c] # "idle", NEW d \in Caller, d # c
  PROVE  at[d] = "idle"
  BY DEF Typed, Placed, Alone

LEMMA CachedInit == Init => Cached
  BY TypedInit DEF Init, Cached, ValidWhenUsed, CacheInv

LEMMA LockCached ==
  ASSUME Cached, NEW c \in Caller, NEW o \in Handler, Lock(c, o)
  PROVE  ValidWhenUsed' /\ CacheInv'
<1>1. \A d \in Caller : at[d] = "idle"
  BY DEF Cached, Typed, Placed, Lock, Service!Enter
<1>2. /\ at' = [at EXCEPT ![c] = IF valid /\ fresh THEN "ready" ELSE "read1"]
      /\ valid' = (valid /\ fresh)
  BY DEF Lock, Goto
<1>3. ValidWhenUsed'
  BY <1>1, <1>2 DEF ValidWhenUsed, Cached, Typed, TypeOK
<1>4. CacheInv'
  BY <1>1, <1>2 DEF CacheInv, Agrees, Bits, Cached, Typed, TypeOK, Lock, Service!Enter
<1> QED BY <1>3, <1>4

LEMMA QueryCached ==
  ASSUME Cached, NEW c \in Caller, Query(c)
  PROVE  ValidWhenUsed' /\ CacheInv'
  BY DEF Cached, ValidWhenUsed, CacheInv, Agrees, Bits, Query, Service!Send, cache

LEMMA RefreshFailsCached ==
  ASSUME Cached, NEW c \in Caller, at[c] \in {"read1", "read2"}, RefreshFails(c)
  PROVE  ~valid' /\ at' = [at EXCEPT ![c] = "error"]
  BY RefreshFailsTyped DEF Cached, ValidWhenUsed

LEMMA NotValidCached ==
  ASSUME Cached, NEW c \in Caller, at[c] # "idle", ~valid',
         at' = [at EXCEPT ![c] = "error"]
  PROVE  ValidWhenUsed' /\ CacheInv'
<1>1. \A d \in Caller : at'[d] \in {"idle", "error"}
  BY OthersIdle DEF Cached, Typed, TypeOK
<1> QED BY <1>1 DEF ValidWhenUsed, CacheInv

LEMMA QueryAnsweredCached ==
  ASSUME Cached, NEW c \in Caller, QueryAnswered(c)
  PROVE  ValidWhenUsed' /\ CacheInv'
<1> USE DEF Cached
<1>0. at[c] \in {"read1", "read2"} /\ ~valid
  BY DEF QueryAnswered, ValidWhenUsed
<1>1. PICK ok \in BOOLEAN, code \in BOOLEAN, b \in Byte :
        /\ IF code THEN RegisterRead(c, b) ELSE RefreshFails(c)
        /\ answer'[c] = "own" /\ code => b = ctrl[RegRead(c)]
  <2>1. PICK ok \in BOOLEAN :
          LET own == [ok |-> ok, byte |-> IF ok THEN ctrl[RegRead(c)] ELSE Zero]
              code == IF answer'[c] = "own" THEN ok ELSE last.ok
              bytes == IF answer'[c] = "own" THEN {own.byte}
                                             ELSE {Zero, last.byte, own.byte} IN
          IF code THEN \E b \in bytes : RegisterRead(c, b) ELSE RefreshFails(c)
    BY DEF QueryAnswered
  <2> QED BY <1>0, <2>1, ReadTyped, ZeroTyped DEF Typed, TypeOK, Reply
<1>2. CASE ~code
  BY <1>0, <1>1, <1>2, RefreshFailsCached, NotValidCached
<1>3. ~degraded' => answer'[c] = "own"
  BY DEF QueryAnswered, Service!Answer, Typed, ServiceTyped
<1>4. CASE code /\ at[c] = "read1"
  <2>1. at' = [at EXCEPT ![c] = "read2"] /\ ~valid' /\ sys1_led' = b /\ ctrl' = ctrl
    BY <1>0, <1>1, <1>4 DEF RegisterRead, Goto, cache, QueryAnswered
  <2>2. \A d \in Caller : at'[d] \in {"idle", "read2"}
    BY <2>1, <1>0, OthersIdle DEF Typed, TypeOK
  <2>3. ~degraded' => b = ctrl[1]
    BY <1>1, <1>3, <1>4 DEF RegRead
  <2> QED BY <2>1, <2>2, <2>3 DEF ValidWhenUsed, CacheInv
<1>5. CASE code /\ at[c] = "read2"
  <2>1. /\ at' = [at EXCEPT ![c] = "ready"] /\ valid' /\ ctrl' = ctrl
        /\ led_data' = [r \in Reg |-> IF r = 1 THEN sys1_led ELSE b]
    BY <1>1, <1>5 DEF RegisterRead, Goto, QueryAnswered
  <2>2. \A d \in Caller : at'[d] \in {"idle", "ready"}
    BY <2>1, <1>0, OthersIdle DEF Typed, TypeOK
  <2>3. ~degraded' => ~degraded /\ b = ctrl[2]
    BY <1>1, <1>3, <1>5 DEF RegRead, QueryAnswered, Service!Answer
  <2>4. ~degraded' => sys1_led = ctrl[1]
    BY <2>3, <1>5 DEF CacheInv
  <2>5. ~degraded' => Agrees'
    BY <2>1, <2>3, <2>4, LedTyped DEF Agrees, Bits, Reg
  <2> QED BY <2>1, <2>2, <2>5 DEF ValidWhenUsed, CacheInv
<1> QED BY <1>0, <1>2, <1>4, <1>5

LEMMA QueryFailsCached ==
  ASSUME Cached, NEW c \in Caller, QueryFails(c)
  PROVE  ValidWhenUsed' /\ CacheInv'
  BY RefreshFailsCached, NotValidCached DEF QueryFails

LEMMA ShowCached ==
  ASSUME Cached, NEW c \in Caller, Show(c)
  PROVE  ValidWhenUsed' /\ CacheInv'
  BY DEF Cached, Typed, TypeOK, ValidWhenUsed, CacheInv, Agrees, Bits, Show, Goto, cache, service

LEMMA SetCached ==
  ASSUME Cached, NEW c \in Caller, Set(c)
  PROVE  ValidWhenUsed' /\ CacheInv'
  BY DEF Cached, Typed, TypeOK, ValidWhenUsed, CacheInv, Agrees, Bits, Set, Goto, cache, Service!Send

(* A write leaves its own LED as the cache does not have it, and the other *)
(* one as it does; both are accounted for in `stored`.                     *)
LEMMA WriteChanges ==
  ASSUME Cached, NEW c \in Caller, at[c] = "write", WriteRegister(c)
  PROVE  /\ op[c].led \in Led
         /\ Bits(ctrl', op[c].led) = BitsOf(op[c].mode)
         /\ Bits(ctrl', Other(op[c].led)) = Bits(led_data, Other(op[c].led))
         /\ \A led \in Led : led # op[c].led /\ led # Other(op[c].led) =>
              Bits(ctrl', led) = Bits(ctrl, led)
<1> DEFINE own == op[c].led
<1>1. own \in Led
  BY SetHandler DEF Cached, Typed, Placed
<1>2. /\ own[1] \in Reg /\ own[2] \in 1..2
      /\ Other(own)[1] = own[1] /\ Other(own)[2] \in 1..2 /\ Other(own)[2] # own[2]
  BY <1>1, LedTyped
<1>3. ctrl' = [ctrl EXCEPT ![own[1]] =
                 [led_data[own[1]] EXCEPT ![own[2]] = BitsOf(op[c].mode)]]
  BY DEF WriteRegister, ValueToWrite
<1>4. ctrl \in [Reg -> Byte] /\ led_data \in [Reg -> Byte]
  BY DEF Cached, Typed, TypeOK
<1>5. ASSUME NEW led \in Led, led # own, led # Other(own)
      PROVE  led[1] # own[1] /\ led[1] \in Reg
  BY <1>1, <1>5, LedsOfRegister, LedTyped
<1> HIDE DEF own
<1>6. /\ ctrl'[own[1]][own[2]] = BitsOf(op[c].mode)
      /\ ctrl'[own[1]][Other(own)[2]] = led_data[own[1]][Other(own)[2]]
  BY <1>2, <1>3, <1>4 DEF Byte
<1>7. \A led \in Led : led # own /\ led # Other(own) => ctrl'[led[1]] = ctrl[led[1]]
  BY <1>3, <1>4, <1>5
<1> QED BY <1>1, <1>2, <1>6, <1>7 DEF Bits, own

LEMMA WriteAgrees ==
  ASSUME Cached, ~degraded, NEW c \in Caller, at[c] = "write",
         WriteRegister(c) \/ UNCHANGED <<ctrl, stored>>, led_data' = led_data
  PROVE  Agrees'
<1>1. valid /\ Agrees
  BY DEF Cached, ValidWhenUsed, CacheInv
<1>2. CASE UNCHANGED <<ctrl, stored>>
  BY <1>1, <1>2 DEF Agrees, Bits
<1>3. CASE WriteRegister(c)
  <2>1. stored' = (stored \cup {op[c].led}) \ {Other(op[c].led)}
    BY <1>3 DEF WriteRegister
  <2>2. ASSUME NEW led \in Led \ stored' PROVE Bits(led_data, led) = Bits(ctrl', led)
    <3>1. CASE led = Other(op[c].led)
      BY <1>3, <3>1, WriteChanges
    <3>2. CASE led # Other(op[c].led)
      <4>1. led # op[c].led /\ led \notin stored
        BY <2>1, <2>2, <3>2
      <4> QED BY <1>1, <1>3, <3>2, <4>1, WriteChanges DEF Agrees
    <3> QED BY <3>1, <3>2
  <2> QED BY <2>2 DEF Agrees, Bits
<1> QED BY <1>2, <1>3

LEMMA SetEndsCached ==
  ASSUME Cached, NEW c \in Caller, SetAnswered(c) \/ SetFails(c)
  PROVE  ValidWhenUsed' /\ CacheInv'
<1>1. /\ at[c] = "write" /\ UNCHANGED <<valid, led_data, sys1_led>>
      /\ at' = [at EXCEPT ![c] = at'[c]] /\ at'[c] \in {"set", "error"}
      /\ WriteRegister(c) \/ UNCHANGED <<ctrl, stored>>
      /\ degraded => degraded'
  BY DEF SetAnswered, SetFails, Goto, cache, Service!Answer, Service!Fail, Cached, Typed, TypeOK, ServiceTyped
<1>2. \A d \in Caller : at'[d] \in {"idle", "set", "error"}
  BY <1>1, OthersIdle DEF Cached, Typed, TypeOK
<1>3. ~degraded' => Agrees'
  BY <1>1, WriteAgrees DEF Cached, Typed, ServiceTyped
<1> QED BY <1>2, <1>3 DEF ValidWhenUsed, CacheInv

LEMMA UnlockCached ==
  ASSUME Cached, NEW c \in Caller, Unlock(c)
  PROVE  ValidWhenUsed' /\ CacheInv'
  BY DEF Cached, Typed, TypeOK, ValidWhenUsed, CacheInv, Agrees, Bits, Unlock, Goto, cache, Service!Leave

LEMMA CachedStep == Cached /\ [Next]_vars => Cached'
<1> SUFFICES ASSUME Cached, [Next]_vars PROVE ValidWhenUsed' /\ CacheInv'
  BY TypedStep DEF Cached
<1>1. CASE UNCHANGED vars
  BY <1>1 DEF vars, service, cache, Cached, ValidWhenUsed, CacheInv, Agrees, Bits
<1>2. ASSUME NEW c \in Caller, NEW o \in Handler, Lock(c, o)
      PROVE  ValidWhenUsed' /\ CacheInv'
  BY <1>2, LockCached
<1>3. ASSUME NEW c \in Caller, Query(c) \/ QueryAnswered(c) \/ QueryFails(c)
      PROVE  ValidWhenUsed' /\ CacheInv'
  BY <1>3, QueryCached, QueryAnsweredCached, QueryFailsCached
<1>4. ASSUME NEW c \in Caller, Show(c) \/ Set(c) \/ SetAnswered(c) \/ SetFails(c)
      PROVE  ValidWhenUsed' /\ CacheInv'
  BY <1>4, ShowCached, SetCached, SetEndsCached
<1>5. ASSUME NEW c \in Caller, Unlock(c) PROVE ValidWhenUsed' /\ CacheInv'
  BY <1>5, UnlockCached
<1>6. CASE Expire
  BY <1>6 DEF Expire, service, Cached, ValidWhenUsed, CacheInv, Agrees, Bits
<1> QED BY <1>1, <1>2, <1>3, <1>4, <1>5, <1>6 DEF Next

THEOREM AlwaysCached == Spec => []Cached
  BY CachedInit, CachedStep, PTL DEF Spec

(* A handler that gets to use the cache finds every LED nobody has stored  *)
(* since as the hardware has it: the uninitialised bytes of a refresh that *)
(* fails half-way are never used.                                          *)
THEOREM CacheServesHandlers == Spec => []CacheServes
<1>1. Cached => CacheServes
  BY DEF Cached, ValidWhenUsed, CacheInv, Agrees, CacheServes
<1> QED BY AlwaysCached, <1>1, PTL

-----------------------------------------------------------------------------
(* Stores. *)

LEMMA OnlyWritesChange ==
  ASSUME Cached, [Next]_vars, ctrl' # ctrl
  PROVE  \E c \in Caller : at[c] = "write" /\ WriteRegister(c)
<1>1. ~UNCHANGED vars
  BY DEF vars
<1>2. PICK c \in Caller : SetAnswered(c) \/ SetFails(c)
  BY <1>1 DEF Next, Lock, Query, QueryAnswered, QueryFails, Show, Set, Unlock, Expire
<1> QED BY <1>2 DEF SetAnswered, SetFails, Goto

(* A store changes its own LED and, in its register, only a LED whose      *)
(* store is not yet in the cache; whatever the failures of messages.       *)
THEOREM NothingElseIsLost == Spec => OnlyStoresAreLost
<1> DEFINE Step ==
      ~degraded =>
        \A led \in Led : Bits(ctrl', led) # Bits(ctrl, led) =>
          \E c \in Caller :
            /\ at[c] = "write"
            /\ \/ led = op[c].led /\ Bits(ctrl', led) = BitsOf(op[c].mode)
               \/ led = Other(op[c].led) /\ led \in stored
<1>1. Cached /\ [Next]_vars => Step
  <2> SUFFICES ASSUME Cached, [Next]_vars, ~degraded,
                      NEW led \in Led, Bits(ctrl', led) # Bits(ctrl, led)
               PROVE  \E c \in Caller :
                        /\ at[c] = "write"
                        /\ \/ led = op[c].led /\ Bits(ctrl', led) = BitsOf(op[c].mode)
                           \/ led = Other(op[c].led) /\ led \in stored
    OBVIOUS
  <2>1. PICK c \in Caller : at[c] = "write" /\ WriteRegister(c)
    BY OnlyWritesChange DEF Bits
  <2>2. CASE led = op[c].led
    BY <2>1, <2>2, WriteChanges
  <2>3. CASE led # op[c].led
    <3>1. led = Other(op[c].led)
      BY <2>1, <2>3, WriteChanges
    <3>2. Bits(led_data, led) # Bits(ctrl, led)
      BY <2>1, <3>1, WriteChanges
    <3>3. led \in stored
      BY <2>1, <3>2 DEF Cached, ValidWhenUsed, CacheInv, Agrees
    <3> QED BY <2>1, <3>1, <3>3
  <2> QED BY <2>2, <2>3
<1>2. Spec => [][Step]_vars
  BY AlwaysCached, <1>1, PTL DEF Spec
<1> QED BY <1>2 DEF OnlyStoresAreLost

(* Success is inductive relative to Cached: the process at "set" still has *)
(* the lock, so nobody has written since.                                  *)
LEMMA SuccessStep == Cached /\ SuccessIsTrue /\ [Next]_vars => SuccessIsTrue'
<1> SUFFICES ASSUME Cached, SuccessIsTrue, [Next]_vars, ~degraded',
                    NEW c \in Caller, at'[c] = "set"
             PROVE  Bits(ctrl', op'[c].led) = BitsOf(op'[c].mode)
  BY DEF SuccessIsTrue
<1>0. at \in [Caller -> At] /\ op \in [Caller -> Handler \cup {None}]
  BY DEF Cached, Typed, TypeOK
<1>1. ~degraded
  BY DEF Next, vars, service, Lock, Query, QueryAnswered, QueryFails, Show, Set, SetAnswered,
     SetFails, Unlock, Expire, Service!Enter, Service!Send, Service!Answer, Service!Fail,
     Service!Leave, Cached, Typed, ServiceTyped
<1>2. CASE at[c] = "set"
  <2>1. \A d \in Caller : d # c => at[d] = "idle"
    BY <1>2, OthersIdle DEF Cached
  <2>2. ctrl' = ctrl
    BY <1>2, <2>1, OnlyWritesChange
  <2>3. \A d \in Caller, o \in Handler : ~Lock(d, o)
    BY <1>2 DEF Lock, Service!Enter, Cached, Typed, Placed
  <2>4. \A d \in Caller : Unlock(d) => FALSE
    BY <1>0, <1>2, <2>1 DEF Unlock, Goto
  <2>5. op' = op
    BY <2>3, <2>4 DEF Next, vars, Query, QueryAnswered, QueryFails, Show, Set, SetAnswered,
       SetFails, Expire
  <2> QED BY <1>1, <1>2, <2>2, <2>5 DEF SuccessIsTrue, Bits
<1>3. CASE at[c] # "set"
  <2>1. SetAnswered(c)
    BY <1>0, <1>3 DEF Next, vars, Lock, Query, QueryAnswered, QueryFails, RefreshFails,
       RegisterRead, Show, Set, SetAnswered, SetFails, Unlock, Expire, Goto
  <2>2. at[c] = "write" /\ op' = op /\ answer'[c] = "own"
    BY <1>1, <2>1 DEF SetAnswered, Service!Answer, Cached, Typed, ServiceTyped
  <2>3. WriteRegister(c)
    BY <1>0, <2>1, <2>2 DEF SetAnswered, Goto
  <2> QED BY <2>2, <2>3, WriteChanges DEF Bits
<1> QED BY <1>2, <1>3

(* A store that reports success in a driver that has not seen a timeout    *)
(* has written the bits of the mode the code ends up with.                 *)
THEOREM SuccessMeansWritten == Spec => []SuccessIsTrue
<1>1. Init => SuccessIsTrue
  BY DEF Init, SuccessIsTrue
<1> QED BY <1>1, AlwaysCached, SuccessStep, PTL DEF Spec

-----------------------------------------------------------------------------
(* Fan: types, and where a process may be in the service.                  *)

FanAlone ==
  /\ fan_place \in [User -> {"outside", "inside", "sending"}]
  /\ fan_answer \in [User -> {"none", "own", "previous"}]
  /\ fan_degraded \in BOOLEAN
  /\ \A c, d \in User : fan_at[c] # "idle" /\ fan_at[d] # "idle" => c = d
  /\ \A c \in User :
       /\ fan_place[c] = "outside" <=> fan_at[c] = "idle"
       /\ fan_at[c] # "idle" => fan_op[c] \in F!Handler
       /\ fan_at[c] \in {"read", "shown"} => fan_op[c].kind = "show"
       /\ fan_at[c] \in {"write", "set"} => fan_op[c].kind = "set"

FanTyped == F!TypeOK /\ FanAlone

LEMMA FanHandler ==
  ASSUME NEW o \in F!Handler
  PROVE  /\ o.kind \in {"show", "set"} /\ o.fan \in Fans
         /\ o.kind = "set" => o.percent \in Percent
  BY DEF F!Handler

LEMMA FanByte == \A n \in Percent : F!UChar(n) \in 0..255 /\ F!UChar(n) = n % 256
  BY FanAssumption DEF F!ConstantsOK, F!UChar

LEMMA FanTypedInit == F!Init => FanTyped
PROOF
<1> SUFFICES ASSUME F!Init PROVE FanTyped
  OBVIOUS
<1>1. FanAlone
  BY DEF F!Init, F!Service!Init, FanAlone
<1>2. fan_last \in [ok : BOOLEAN, data : FanReading \cup {F!Zero}] /\ pwm \in 0..255
  BY DEF F!Init, F!Zero
<1>3. F!TypeOK
  BY <1>2 DEF F!Init, F!TypeOK
<1> QED BY <1>1, <1>3 DEF FanTyped

LEMMA FanLockTyped ==
  ASSUME FanTyped, NEW c \in User, NEW o \in F!Handler, F!Lock(c, o)
  PROVE  FanTyped'
PROOF
<1>1. o.kind \in {"show", "set"} /\ o.fan \in Fans
  BY FanHandler
<1>2. \A d \in User : fan_at[d] = "idle"
  BY DEF FanTyped, FanAlone, F!Lock, F!Service!Enter
<1>3. /\ fan_at' = [fan_at EXCEPT ![c] = fan_at'[c]]
      /\ fan_at'[c] \in IF o.kind = "show" THEN {"read", "shown"} ELSE {"write"}
      /\ fan_valid' \in [Fans -> BOOLEAN]
  BY <1>1 DEF FanTyped, F!TypeOK, F!Lock, F!Goto
<1>4. F!TypeOK'
  BY <1>1, <1>3 DEF FanTyped, F!TypeOK, F!Lock
<1>5. FanAlone'
  BY <1>1, <1>2, <1>3 DEF FanTyped, F!TypeOK, FanAlone, F!Lock, F!Service!Enter, F!Service!Move
<1> QED BY <1>4, <1>5 DEF FanTyped

(* What the end of a message does to the driver, whatever it was answered. *)
LEMMA FanRefreshed ==
  ASSUME FanTyped, NEW c \in User, NEW ok \in BOOLEAN, NEW data, F!Refreshed(c, ok, data)
  PROVE  LET f == fan_op[c].fan IN
         /\ fan_at[c] = "read" /\ f \in Fans
         /\ fan_data' = [fan_data EXCEPT ![f] = data]
         /\ fan_valid' = [fan_valid EXCEPT ![f] = @ \/ ok]
         /\ fan_fresh' = [fan_fresh EXCEPT ![f] = @ \/ ok]
         /\ fan_recent' = [fan_recent EXCEPT ![f] = IF ok THEN {fan_reading[f]} ELSE @]
         /\ fan_at' = [fan_at EXCEPT ![c] = IF fan_valid[f] \/ ok THEN "shown" ELSE "error"]
PROOF
<1>1. fan_at[c] = "read"
  BY DEF F!Refreshed, F!Goto
<1>2. fan_op[c].fan \in Fans
  BY <1>1, FanHandler DEF FanTyped, FanAlone
<1> QED BY <1>1, <1>2 DEF F!Refreshed, F!Goto, FanTyped, F!TypeOK

(* A reply is one of the BMC's, and a write leaves a byte.                 *)
LEMMA FanExecuted ==
  ASSUME FanTyped, NEW c \in User, NEW ok \in BOOLEAN, F!Execute(c, ok)
  PROVE  /\ fan_at[c] \in {"read", "write"}
         /\ fan_last' \in [ok : BOOLEAN, data : FanReading \cup {F!Zero}]
         /\ fan_last'.ok = ok
         /\ fan_at[c] = "read" => pwm' = pwm /\ (ok => fan_last'.data = fan_reading[fan_op[c].fan])
         /\ pwm' \in 0..255
         /\ fan_at[c] = "write" /\ ok => pwm' = fan_op[c].percent % 256
PROOF
<1>1. fan_at[c] \in {"read", "write"}
  BY DEF F!Execute
<1>2. fan_op[c].fan \in Fans /\ (fan_at[c] = "write" => fan_op[c].percent \in Percent)
  BY <1>1, FanHandler DEF FanTyped, FanAlone
<1> QED BY <1>1, <1>2, FanByte DEF F!Execute, FanTyped, F!TypeOK

(* A message ends: an answer of a driver without timeouts is its own.      *)
LEMMA FanEnds ==
  ASSUME FanTyped, NEW c \in User, F!Answered(c) \/ F!Fails(c)
  PROVE  \E ok \in BOOLEAN, data \in FanReading \cup {F!Zero} :
           /\ fan_last' \in [ok : BOOLEAN, data : FanReading \cup {F!Zero}]
           /\ pwm' \in 0..255 /\ (fan_at[c] = "read" => pwm' = pwm)
           /\ \/ F!Refreshed(c, ok, data)
              \/ /\ F!Goto(c, "write", IF ok THEN "set" ELSE "error")
                 /\ UNCHANGED <<fan_valid, fan_fresh, fan_data, fan_recent>>
           /\ ~fan_degraded' /\ ok =>
                /\ fan_at[c] = "read" => data = fan_reading[fan_op[c].fan]
                /\ fan_at[c] = "write" => pwm' = fan_op[c].percent % 256
PROOF
<1>0. F!Zero \in FanReading \cup {F!Zero}
  OBVIOUS
<1>1. CASE F!Answered(c)
  <2>1. PICK ok \in BOOLEAN :
          LET code == IF fan_answer'[c] = "own" THEN ok ELSE fan_last.ok
              held == IF fan_answer'[c] = "own" THEN {fan_last'.data}
                      ELSE {F!Zero, fan_last.data, fan_last'.data} IN
          /\ F!Execute(c, ok)
          /\ \/ \E data \in held : F!Refreshed(c, code, data)
             \/ /\ F!Goto(c, "write", IF code THEN "set" ELSE "error")
                /\ UNCHANGED <<fan_valid, fan_fresh, fan_data, fan_recent>>
    BY <1>1 DEF F!Answered, F!cache
  <2>2. ~fan_degraded' => fan_answer'[c] = "own"
    BY <1>1 DEF F!Answered, F!Service!Answer, FanTyped, FanAlone
  <2>3. /\ fan_last' \in [ok : BOOLEAN, data : FanReading \cup {F!Zero}]
        /\ pwm' \in 0..255 /\ (fan_at[c] = "read" => pwm' = pwm) /\ fan_last'.ok = ok
        /\ fan_at[c] = "read" /\ ok => fan_last'.data = fan_reading[fan_op[c].fan]
        /\ fan_at[c] = "write" /\ ok => pwm' = fan_op[c].percent % 256
    BY <2>1, FanExecuted
  <2>4. fan_last \in [ok : BOOLEAN, data : FanReading \cup {F!Zero}]
    BY DEF FanTyped, F!TypeOK
  <2> QED BY <1>0, <2>1, <2>2, <2>3, <2>4
<1>2. CASE F!Fails(c)
  <2>1. \/ UNCHANGED <<fan_last, pwm>>
        \/ \E ok \in BOOLEAN : F!Execute(c, ok)
    BY <1>2 DEF F!Fails
  <2>2. /\ fan_last' \in [ok : BOOLEAN, data : FanReading \cup {F!Zero}]
        /\ pwm' \in 0..255 /\ (fan_at[c] = "read" => pwm' = pwm)
    BY <2>1, FanExecuted DEF FanTyped, F!TypeOK
  <2> QED BY <1>0, <1>2, <2>2 DEF F!Fails, F!cache
<1> QED BY <1>1, <1>2

LEMMA FanEndsTyped ==
  ASSUME FanTyped, NEW c \in User, F!Answered(c) \/ F!Fails(c)
  PROVE  FanTyped'
PROOF
<1>1. PICK ok \in BOOLEAN, data \in FanReading \cup {F!Zero} :
        /\ fan_last' \in [ok : BOOLEAN, data : FanReading \cup {F!Zero}]
        /\ pwm' \in 0..255
        /\ \/ F!Refreshed(c, ok, data)
           \/ /\ F!Goto(c, "write", IF ok THEN "set" ELSE "error")
              /\ UNCHANGED <<fan_valid, fan_fresh, fan_data, fan_recent>>
  BY FanEnds
<1>2. /\ fan_valid' \in [Fans -> BOOLEAN] /\ fan_fresh' \in [Fans -> BOOLEAN]
      /\ fan_data' \in [Fans -> FanReading \cup {F!Zero}]
      /\ fan_recent' \in [Fans -> SUBSET FanReading]
      /\ fan_at' = [fan_at EXCEPT ![c] = fan_at'[c]]
      /\ \/ fan_at[c] = "read" /\ fan_at'[c] \in {"shown", "error"}
         \/ fan_at[c] = "write" /\ fan_at'[c] \in {"set", "error"}
  <2>1. CASE F!Refreshed(c, ok, data)
    <3> DEFINE f == fan_op[c].fan
    <3>1. /\ fan_at[c] = "read" /\ f \in Fans
          /\ fan_data' = [fan_data EXCEPT ![f] = data]
          /\ fan_valid' = [fan_valid EXCEPT ![f] = @ \/ ok]
          /\ fan_fresh' = [fan_fresh EXCEPT ![f] = @ \/ ok]
          /\ fan_recent' = [fan_recent EXCEPT ![f] = IF ok THEN {fan_reading[f]} ELSE @]
          /\ fan_at' = [fan_at EXCEPT ![c] = IF fan_valid[f] \/ ok THEN "shown" ELSE "error"]
      BY <2>1, FanRefreshed
    <3> HIDE DEF f
    <3>2. fan_valid' \in [Fans -> BOOLEAN] /\ fan_fresh' \in [Fans -> BOOLEAN]
      BY <3>1 DEF FanTyped, F!TypeOK
    <3>3. /\ fan_data' \in [Fans -> FanReading \cup {F!Zero}]
          /\ fan_recent' \in [Fans -> SUBSET FanReading]
      BY <3>1 DEF FanTyped, F!TypeOK
    <3>4. fan_at' = [fan_at EXCEPT ![c] = fan_at'[c]] /\ fan_at'[c] \in {"shown", "error"}
      BY <3>1 DEF FanTyped, F!TypeOK
    <3> QED BY <3>1, <3>2, <3>3, <3>4
  <2>2. CASE /\ F!Goto(c, "write", IF ok THEN "set" ELSE "error")
             /\ UNCHANGED <<fan_valid, fan_fresh, fan_data, fan_recent>>
    BY <2>2 DEF F!Goto, FanTyped, F!TypeOK
  <2> QED BY <1>1, <2>1, <2>2
<1>3. UNCHANGED <<fan_op, fan_reading>>
  BY DEF F!Answered, F!Fails
<1>4. F!TypeOK'
  BY <1>1, <1>2, <1>3 DEF FanTyped, F!TypeOK
<1>5. /\ fan_place' = [fan_place EXCEPT ![c] = "inside"] /\ fan_place[c] = "sending"
      /\ fan_answer' \in [User -> {"none", "own", "previous"}] /\ fan_degraded' \in BOOLEAN
  BY DEF FanTyped, FanAlone, F!Answered, F!Fails, F!Service!Answer, F!Service!Fail, F!Service!Move
<1>6. FanAlone'
  BY <1>2, <1>3, <1>5 DEF FanTyped, F!TypeOK, FanAlone
<1> QED BY <1>4, <1>6 DEF FanTyped

LEMMA FanTypedStep == FanTyped /\ [F!Next]_fan => FanTyped'
PROOF
<1> SUFFICES ASSUME FanTyped, [F!Next]_fan PROVE FanTyped'
  OBVIOUS
<1> USE DEF F!service, F!cache
<1>1. CASE UNCHANGED fan
  BY <1>1 DEF fan, FanTyped, F!TypeOK, FanAlone
<1>2. ASSUME NEW c \in User, NEW o \in F!Handler, F!Lock(c, o) PROVE FanTyped'
  BY <1>2, FanLockTyped
<1>3. ASSUME NEW c \in User, F!Send(c) PROVE FanTyped'
  <2>1. F!TypeOK'
    BY <1>3 DEF F!Send, FanTyped, F!TypeOK
  <2>2. FanAlone'
    BY <1>3 DEF F!Send, FanTyped, FanAlone, F!Service!Send, F!Service!Move
  <2> QED BY <2>1, <2>2 DEF FanTyped
<1>4. ASSUME NEW c \in User, F!Answered(c) \/ F!Fails(c) PROVE FanTyped'
  BY <1>4, FanEndsTyped
<1>5. ASSUME NEW c \in User, F!Unlock(c) PROVE FanTyped'
  <2>1. F!TypeOK'
    BY <1>5 DEF F!Unlock, FanTyped, F!TypeOK
  <2>2. FanAlone'
    BY <1>5 DEF F!Unlock, FanTyped, F!TypeOK, FanAlone, F!Service!Leave, F!Service!Move
  <2> QED BY <2>1, <2>2 DEF FanTyped
<1>6. ASSUME NEW f \in Fans, F!Expire(f) \/ \E r \in FanReading : F!Turn(f, r) PROVE FanTyped'
  <2>1. F!TypeOK'
    <3>1. CASE F!Expire(f)
      BY <3>1 DEF F!Expire, FanTyped, F!TypeOK
    <3>2. ASSUME NEW r \in FanReading, F!Turn(f, r) PROVE F!TypeOK'
      BY <3>2 DEF F!Turn, FanTyped, F!TypeOK
    <3> QED BY <1>6, <3>1, <3>2
  <2>2. FanAlone'
    BY <1>6 DEF F!Expire, F!Turn, FanTyped, FanAlone
  <2> QED BY <2>1, <2>2 DEF FanTyped
<1> QED BY <1>1, <1>2, <1>3, <1>4, <1>5, <1>6 DEF F!Next

-----------------------------------------------------------------------------
(* Fan: the caches.  A handler that shows has a cache that is valid and    *)
(* young, one that refreshes has given its cache up; and until a timeout   *)
(* such a cache has what its fan reported lately.                          *)

FanCached(c) ==
  /\ fan_at[c] = "read" => ~fan_valid[fan_op[c].fan]
  /\ fan_at[c] = "shown" => fan_valid[fan_op[c].fan] /\ fan_fresh[fan_op[c].fan]

FanHeld(f) == fan_valid[f] /\ fan_fresh[f] => fan_data[f] \in fan_recent[f]

FanServed ==
  /\ \A c \in User : FanCached(c)
  /\ ~fan_degraded => F!SuccessIsTrue /\ \A f \in Fans : FanHeld(f)

FanInv == FanTyped /\ FanServed

(* A handler that ends a message is alone in the driver.                   *)
LEMMA FanOthersIdle ==
  ASSUME FanTyped, NEW c \in User, fan_at[c] # "idle", NEW d \in User, d # c
  PROVE  fan_at[d] = "idle"
  BY DEF FanTyped, FanAlone

LEMMA FanInvInit == F!Init => FanInv
  BY FanTypedInit DEF F!Init, FanInv, FanServed, FanCached, FanHeld, F!SuccessIsTrue

LEMMA FanLockServed ==
  ASSUME FanInv, NEW c \in User, NEW o \in F!Handler, F!Lock(c, o)
  PROVE  FanServed'
PROOF
<1>1. o.kind \in {"show", "set"} /\ o.fan \in Fans
  BY FanHandler
<1>2. \A d \in User : fan_at[d] = "idle"
  BY DEF FanInv, FanTyped, FanAlone, F!Lock, F!Service!Enter
<1>3. /\ fan_op' = [fan_op EXCEPT ![c] = o] /\ UNCHANGED <<fan_fresh, fan_data, fan_recent, pwm>>
      /\ fan_degraded' = fan_degraded
      /\ \/ fan_at' = [fan_at EXCEPT ![c] = "shown"] /\ fan_valid' = fan_valid
            /\ fan_valid[o.fan] /\ fan_fresh[o.fan]
         \/ fan_at' = [fan_at EXCEPT ![c] = "read"]
            /\ fan_valid' = [fan_valid EXCEPT ![o.fan] = FALSE]
         \/ fan_at' = [fan_at EXCEPT ![c] = "write"] /\ fan_valid' = fan_valid
  BY DEF F!Lock, F!Goto, F!Service!Enter
<1>4. \A d \in User : FanCached(d)'
  BY <1>1, <1>2, <1>3 DEF FanInv, FanTyped, F!TypeOK, FanCached
<1>5. \A f \in Fans : FanHeld(f) => FanHeld(f)'
  BY <1>1, <1>3 DEF FanInv, FanTyped, F!TypeOK, FanHeld
<1>6. \A d \in User : fan_at'[d] # "set"
  BY <1>2, <1>3 DEF FanInv, FanTyped, F!TypeOK
<1> QED BY <1>3, <1>4, <1>5, <1>6 DEF FanInv, FanServed, F!SuccessIsTrue

LEMMA FanEndsServed ==
  ASSUME FanInv, NEW c \in User, F!Answered(c) \/ F!Fails(c)
  PROVE  FanServed'
PROOF
<1> USE DEF FanInv
<1>1. PICK ok \in BOOLEAN, data \in FanReading \cup {F!Zero} :
        /\ fan_at[c] = "read" => pwm' = pwm
        /\ \/ F!Refreshed(c, ok, data)
           \/ /\ F!Goto(c, "write", IF ok THEN "set" ELSE "error")
              /\ UNCHANGED <<fan_valid, fan_fresh, fan_data, fan_recent>>
        /\ ~fan_degraded' /\ ok =>
             /\ fan_at[c] = "read" => data = fan_reading[fan_op[c].fan]
             /\ fan_at[c] = "write" => pwm' = fan_op[c].percent % 256
  BY FanEnds
<1>2. fan_op' = fan_op /\ (~fan_degraded' => ~fan_degraded) /\ fan_at[c] # "idle"
  BY <1>1 DEF F!Answered, F!Fails, F!Service!Answer, F!Service!Fail, F!Refreshed, F!Goto,
     FanTyped, FanAlone
<1>3. CASE F!Refreshed(c, ok, data)
  <2> DEFINE f == fan_op[c].fan
  <2>1. /\ fan_at[c] = "read" /\ f \in Fans
        /\ fan_data' = [fan_data EXCEPT ![f] = data]
        /\ fan_valid' = [fan_valid EXCEPT ![f] = @ \/ ok]
        /\ fan_fresh' = [fan_fresh EXCEPT ![f] = @ \/ ok]
        /\ fan_recent' = [fan_recent EXCEPT ![f] = IF ok THEN {fan_reading[f]} ELSE @]
        /\ fan_at' = [fan_at EXCEPT ![c] = IF fan_valid[f] \/ ok THEN "shown" ELSE "error"]
    BY <1>3, FanRefreshed
  <2>0. ~fan_valid[f]
    BY <2>1 DEF FanServed, FanCached
  <2> HIDE DEF f
  <2>2. /\ fan_valid'[f] = ok /\ (ok => fan_fresh'[f]) /\ fan_data'[f] = data
        /\ ok => fan_recent'[f] = {fan_reading[f]}
    BY <2>1, <2>0 DEF FanTyped, F!TypeOK
  <2>3. \A d \in User : fan_at'[d] = IF d = c THEN IF ok THEN "shown" ELSE "error" ELSE "idle"
    BY <1>2, <2>1, <2>0, FanOthersIdle DEF FanTyped, F!TypeOK
  <2>4. \A d \in User : FanCached(d)'
    BY <1>2, <2>2, <2>3 DEF FanCached, f
  <2>5. \A g \in Fans : ~fan_degraded' /\ FanHeld(g) => FanHeld(g)'
    <3>1. \A g \in Fans : g = f /\ ~fan_degraded' => FanHeld(g)'
      BY <1>1, <2>1, <2>2 DEF FanHeld, f
    <3>2. \A g \in Fans \ {f} : FanHeld(g) => FanHeld(g)'
      BY <2>1 DEF FanTyped, F!TypeOK, FanHeld
    <3> QED BY <3>1, <3>2
  <2> QED BY <1>2, <2>3, <2>4, <2>5 DEF FanServed, F!SuccessIsTrue
<1>4. CASE /\ F!Goto(c, "write", IF ok THEN "set" ELSE "error")
           /\ UNCHANGED <<fan_valid, fan_fresh, fan_data, fan_recent>>
  <2>1. fan_at[c] = "write" /\ fan_at' = [fan_at EXCEPT ![c] = IF ok THEN "set" ELSE "error"]
    BY <1>4 DEF F!Goto
  <2>2. \A d \in User \ {c} : fan_at[d] = "idle"
    BY <1>2, FanOthersIdle
  <2>3. \A d \in User : fan_at'[d] = IF d = c THEN IF ok THEN "set" ELSE "error" ELSE "idle"
    BY <2>1, <2>2 DEF FanTyped, F!TypeOK
  <2> QED BY <1>1, <1>2, <1>4, <2>1, <2>3 DEF FanServed, FanCached, FanHeld, F!SuccessIsTrue
<1> QED BY <1>1, <1>3, <1>4

LEMMA FanInvStep == FanInv /\ [F!Next]_fan => FanInv'
PROOF
<1> SUFFICES ASSUME FanInv, [F!Next]_fan PROVE FanServed'
  BY FanTypedStep DEF FanInv
<1> USE DEF F!service, F!cache
<1>1. CASE UNCHANGED fan
  BY <1>1 DEF fan, FanInv, FanServed, FanCached, FanHeld, F!SuccessIsTrue
<1>2. ASSUME NEW c \in User, NEW o \in F!Handler, F!Lock(c, o) PROVE FanServed'
  BY <1>2, FanLockServed
<1>3. ASSUME NEW c \in User, F!Send(c) PROVE FanServed'
  BY <1>3 DEF F!Send, F!Service!Send, FanInv, FanServed, FanCached, FanHeld, F!SuccessIsTrue
<1>4. ASSUME NEW c \in User, F!Answered(c) \/ F!Fails(c) PROVE FanServed'
  BY <1>4, FanEndsServed
<1>5. ASSUME NEW c \in User, F!Unlock(c) PROVE FanServed'
  <2>1. \A d \in User : fan_at'[d] = "idle"
    BY <1>5, FanOthersIdle DEF F!Unlock, FanInv, FanTyped, F!TypeOK
  <2> QED BY <1>5, <2>1
      DEF F!Unlock, F!Service!Leave, FanInv, FanServed, FanCached, FanHeld, F!SuccessIsTrue
<1>6. ASSUME NEW f \in Fans, F!Expire(f) PROVE FanServed'
  BY <1>6 DEF F!Expire, FanInv, FanTyped, F!TypeOK, FanServed, FanCached, FanHeld, F!SuccessIsTrue
<1>7. ASSUME NEW f \in Fans, NEW r \in FanReading, F!Turn(f, r) PROVE FanServed'
  BY <1>7 DEF F!Turn, FanInv, FanTyped, F!TypeOK, FanServed, FanCached, FanHeld, F!SuccessIsTrue
<1> QED BY <1>1, <1>2, <1>3, <1>4, <1>5, <1>6, <1>7 DEF F!Next

LEMMA FanShows == FanInv => F!TypeOK /\ F!ShowsRecent /\ F!SuccessIsTrue
PROOF
<1> SUFFICES ASSUME FanInv PROVE F!ShowsRecent /\ F!SuccessIsTrue
  BY DEF FanInv, FanTyped
<1>1. \A c \in User : fan_at[c] = "shown" => fan_op[c].fan \in Fans
  BY FanHandler DEF FanInv, FanTyped, FanAlone
<1> QED BY <1>1 DEF FanInv, FanServed, FanCached, FanHeld, F!ShowsRecent, F!SuccessIsTrue

-----------------------------------------------------------------------------
(* Thermal: types, and where a process may be in the service.              *)

ThAlone ==
  /\ th_place \in [User -> {"outside", "inside", "sending"}]
  /\ th_answer \in [User -> {"none", "own", "previous"}]
  /\ th_degraded \in BOOLEAN
  /\ \A c, d \in User : th_at[c] # "idle" /\ th_at[d] # "idle" => c = d
  /\ \A c \in User :
       /\ th_place[c] = "outside" <=> th_at[c] = "idle"
       /\ th_at[c] # "idle" => th_op[c] \in T!Handler
       /\ th_at[c] \in {"reading", "limit", "shown"} => th_op[c].kind = "show"
       /\ th_at[c] \in {"write", "set"} => th_op[c].kind = "set"

ThReply == [ok : BOOLEAN, data : T!Data]
ThRecord == [reading : T!Data, limit : T!Data]

ThTyped ==
  /\ T!TypeOK /\ ThAlone
  /\ th_reading \in [Sensors -> T!Data] /\ th_recent \in [Sensors -> SUBSET T!Data]
  /\ th_last \in ThReply

LEMMA ThHandler ==
  ASSUME NEW o \in T!Handler
  PROVE  /\ o.kind \in {"show", "set"}
         /\ o.kind = "show" => o.sensor \in Sensors
         /\ o.kind = "set" => o.temps \in Temps
  BY DEF T!Handler

LEMMA ThData ==
  /\ T!Zero \in T!Data
  /\ \A s \in Sensors : Limit[s] \in T!Data /\ TempReading[s] \subseteq T!Data
  BY DEF T!Data

LEMMA ThOthersIdle ==
  ASSUME ThTyped, NEW c \in User, th_at[c] # "idle", NEW d \in User, d # c
  PROVE  th_at[d] = "idle"
  BY DEF ThTyped, ThAlone

LEMMA ThTypedInit == T!Init => ThTyped
PROOF
<1> SUFFICES ASSUME T!Init PROVE ThTyped
  OBVIOUS
<1>1. ThAlone
  BY DEF T!Init, T!Service!Init, ThAlone
<1>2. /\ th_reading \in [Sensors -> T!Data] /\ th_recent \in [Sensors -> SUBSET T!Data]
      /\ th_last \in ThReply
  BY ThData DEF T!Init, ThReply
<1>3. T!TypeOK
  BY ThData DEF T!Init, T!TypeOK, T!Empty
<1> QED BY <1>1, <1>2, <1>3 DEF ThTyped

LEMMA ThLockTyped ==
  ASSUME ThTyped, NEW c \in User, NEW o \in T!Handler, T!Lock(c, o)
  PROVE  ThTyped'
PROOF
<1>1. o.kind \in {"show", "set"} /\ (o.kind = "show" => o.sensor \in Sensors)
  BY ThHandler
<1>2. \A d \in User : th_at[d] = "idle"
  BY DEF ThTyped, ThAlone, T!Lock, T!Service!Enter
<1>3. /\ th_at' = [th_at EXCEPT ![c] = th_at'[c]]
      /\ th_at'[c] \in IF o.kind = "show" THEN {"reading", "shown"} ELSE {"write"}
      /\ th_valid' \in [Sensors -> BOOLEAN]
  BY <1>1 DEF ThTyped, T!TypeOK, T!Lock, T!Goto
<1>4. temp = T!Zero /\ UNCHANGED <<temp, th_fresh, thermal_data, th_reading, internal, th_last, th_recent>>
  BY <1>2 DEF ThTyped, T!TypeOK, T!Lock, T!bmc
<1>5. T!TypeOK'
  BY <1>1, <1>3, <1>4 DEF ThTyped, T!TypeOK, T!Lock
<1>6. ThAlone'
  BY <1>1, <1>2, <1>3 DEF ThTyped, T!TypeOK, ThAlone, T!Lock, T!Service!Enter, T!Service!Move
<1> QED BY <1>4, <1>5, <1>6 DEF ThTyped

(* The three ways in which the end of a message goes on: to the limits,    *)
(* to the end of a refresh, to the end of a store.                         *)
ThGoesOn(c, data) ==
  /\ th_at[c] = "reading" /\ th_at' = [th_at EXCEPT ![c] = "limit"]
  /\ temp' = data /\ data \in T!Data
  /\ UNCHANGED <<th_valid, th_fresh, thermal_data, internal>>
  /\ th_recent' = [th_recent EXCEPT ![th_op[c].sensor] = {th_reading[th_op[c].sensor]}]
  /\ ~th_degraded' => data = th_reading[th_op[c].sensor]

ThRefreshed(c, record, ok) ==
  LET s == th_op[c].sensor IN
  /\ th_at[c] \in {"reading", "limit"} /\ record \in ThRecord
  /\ th_at' = [th_at EXCEPT ![c] = IF th_valid[s] \/ ok THEN "shown" ELSE "error"]
  /\ temp' = T!Zero
  /\ thermal_data' = [thermal_data EXCEPT ![s] = record]
  /\ th_valid' = [th_valid EXCEPT ![s] = @ \/ ok]
  /\ th_fresh' = [th_fresh EXCEPT ![s] = @ \/ ok]
  /\ internal' = internal
  /\ \/ th_recent' = th_recent
     \/ ~ok /\ th_recent' = [th_recent EXCEPT ![s] = {th_reading[s]}]
  /\ ok => th_at[c] = "limit"
  /\ ok /\ ~th_degraded' => record = [reading |-> temp, limit |-> Limit[s]]

ThStored(c, ok) ==
  /\ th_at[c] = "write" /\ th_at' = [th_at EXCEPT ![c] = IF ok THEN "set" ELSE "error"]
  /\ UNCHANGED <<temp, th_valid, th_fresh, thermal_data, th_recent>>
  /\ internal' \in {internal, th_op[c].temps}
  /\ ok /\ ~th_degraded' => internal' = th_op[c].temps \/ ~th_last'.ok

ThEnd(c) ==
  /\ th_last' \in ThReply
  /\ \/ \E data \in T!Data : ThGoesOn(c, data)
     \/ \E record \in ThRecord, ok \in BOOLEAN : ThRefreshed(c, record, ok)
     \/ \E ok \in BOOLEAN : ThStored(c, ok)

LEMMA ThExecuted ==
  ASSUME ThTyped, NEW c \in User, NEW ok \in BOOLEAN, T!Execute(c, ok)
  PROVE  LET s == th_op[c].sensor IN
         /\ th_at[c] \in {"reading", "limit", "write"}
         /\ th_last' \in ThReply /\ th_last'.ok = ok
         /\ th_at[c] # "write" => s \in Sensors /\ internal' = internal
         /\ th_at[c] = "reading" /\ ok => th_last'.data = th_reading[s]
         /\ th_at[c] = "limit" /\ ok => th_last'.data = Limit[s]
         /\ internal' = IF th_at[c] = "write" /\ ok THEN th_op[c].temps ELSE internal
PROOF
<1>1. th_at[c] \in {"reading", "limit", "write"}
  BY DEF T!Execute
<1>2. th_at[c] # "write" => th_op[c].sensor \in Sensors
  BY <1>1, ThHandler DEF ThTyped, ThAlone
<1>3. th_last' \in ThReply
  BY <1>1, <1>2, ThData DEF T!Execute, ThTyped, ThReply
<1> QED BY <1>1, <1>2, <1>3 DEF T!Execute

(* The end of a refresh stores a record that is complete or not.           *)
LEMMA ThRefreshedIs ==
  ASSUME ThTyped, NEW c \in User, NEW record \in ThRecord, NEW ok \in BOOLEAN,
         th_at[c] \in {"reading", "limit"}, T!Refreshed(c, record, ok)
  PROVE  LET s == th_op[c].sensor IN
         /\ s \in Sensors /\ temp' = T!Zero
         /\ th_at' = [th_at EXCEPT ![c] = IF th_valid[s] \/ ok THEN "shown" ELSE "error"]
         /\ thermal_data' = [thermal_data EXCEPT ![s] = record]
         /\ th_valid' = [th_valid EXCEPT ![s] = @ \/ ok]
         /\ th_fresh' = [th_fresh EXCEPT ![s] = @ \/ ok]
PROOF
<1>1. th_op[c].sensor \in Sensors
  BY ThHandler DEF ThTyped, ThAlone
<1> QED BY <1>1 DEF T!Refreshed, ThTyped, T!TypeOK

LEMMA ThAnsweredEnds ==
  ASSUME ThTyped, NEW c \in User, T!Answered(c)
  PROVE  ThEnd(c)
PROOF
<1>1. PICK ok \in BOOLEAN :
        LET code == IF th_answer'[c] = "own" THEN ok ELSE th_last.ok
            held == IF th_answer'[c] = "own" THEN {IF ok THEN th_last'.data ELSE temp}
                    ELSE {temp, th_last.data, th_last'.data} IN
        /\ T!Execute(c, ok)
        /\ \/ \E data \in held : T!ReadingAnswered(c, code, data) \/ T!LimitAnswered(c, code, data)
           \/ T!WriteEnds(c, TRUE)
  BY DEF T!Answered
<1>2. ~th_degraded' => th_answer'[c] = "own"
  BY DEF T!Answered, T!Service!Answer, ThTyped, ThAlone
<1>3. LET s == th_op[c].sensor IN
      /\ th_last' \in ThReply /\ th_last'.ok = ok
      /\ th_at[c] # "write" => s \in Sensors /\ internal' = internal
      /\ th_at[c] = "reading" /\ ok => th_last'.data = th_reading[s]
      /\ th_at[c] = "limit" /\ ok => th_last'.data = Limit[s]
      /\ internal' = IF th_at[c] = "write" /\ ok THEN th_op[c].temps ELSE internal
  BY <1>1, ThExecuted
<1>4. CASE T!WriteEnds(c, TRUE)
  <2>1. ThStored(c, TRUE)
    BY <1>3, <1>4 DEF ThStored, T!WriteEnds, T!Goto, T!cache
  <2> QED BY <1>3, <2>1 DEF ThEnd
<1>5. CASE ~T!WriteEnds(c, TRUE)
  <2>1. PICK code \in BOOLEAN, data \in T!Data :
          /\ T!ReadingAnswered(c, code, data) \/ T!LimitAnswered(c, code, data)
          /\ ~th_degraded' /\ code => ok /\ data = th_last'.data
    <3>1. th_last.ok \in BOOLEAN /\ {temp, th_last.data, th_last'.data} \subseteq T!Data
      BY <1>3 DEF ThTyped, T!TypeOK, ThReply
    <3> QED BY <1>1, <1>2, <1>5, <3>1
  <2>2. CASE T!ReadingAnswered(c, code, data) /\ code
    <3>1. ThGoesOn(c, data)
      BY <1>3, <2>1, <2>2 DEF ThGoesOn, T!ReadingAnswered, T!Goto, T!cache
    <3> QED BY <1>3, <3>1 DEF ThEnd
  <2>3. CASE T!ReadingAnswered(c, code, data) /\ ~code
    <3> DEFINE record == [reading |-> data, limit |-> T!Zero]
    <3>1. /\ record \in ThRecord /\ th_at[c] = "reading" /\ T!Refreshed(c, record, FALSE)
          /\ th_recent' = [th_recent EXCEPT ![th_op[c].sensor] = {th_reading[th_op[c].sensor]}]
      BY <2>3, ThData DEF T!ReadingAnswered, ThRecord
    <3> HIDE DEF record
    <3>2. ThRefreshed(c, record, FALSE)
      BY <1>3, <3>1, ThRefreshedIs DEF ThRefreshed
    <3> QED BY <1>3, <3>1, <3>2 DEF ThEnd
  <2>4. CASE T!LimitAnswered(c, code, data)
    <3> DEFINE record == [reading |-> temp, limit |-> data]
    <3>1. /\ record \in ThRecord /\ th_at[c] = "limit" /\ T!Refreshed(c, record, code)
          /\ th_recent' = th_recent
          /\ code /\ ~th_degraded' => record = [reading |-> temp, limit |-> Limit[th_op[c].sensor]]
      BY <1>3, <2>1, <2>4 DEF T!LimitAnswered, ThRecord, ThTyped, T!TypeOK
    <3> HIDE DEF record
    <3>2. ThRefreshed(c, record, code)
      BY <1>3, <3>1, ThRefreshedIs DEF ThRefreshed
    <3> QED BY <1>3, <3>1, <3>2 DEF ThEnd
  <2> QED BY <2>1, <2>2, <2>3, <2>4
<1> QED BY <1>4, <1>5

LEMMA ThFailsEnds ==
  ASSUME ThTyped, NEW c \in User, T!Fails(c)
  PROVE  ThEnd(c)
PROOF
<1>1. \/ UNCHANGED <<th_last, internal>>
      \/ \E ok \in BOOLEAN : T!Execute(c, ok)
  BY DEF T!Fails
<1>2. /\ th_last' \in ThReply
      /\ th_at[c] # "write" => internal' = internal
      /\ internal' \in {internal, th_op[c].temps}
  BY <1>1, ThExecuted DEF ThTyped
<1>3. CASE T!WriteEnds(c, FALSE)
  <2>1. ThStored(c, FALSE)
    BY <1>2, <1>3 DEF ThStored, T!WriteEnds, T!Goto, T!cache
  <2> QED BY <1>2, <2>1 DEF ThEnd
<1>4. CASE ~T!WriteEnds(c, FALSE)
  <2> DEFINE record == [reading |-> temp, limit |-> T!Zero]
  <2>1. /\ record \in ThRecord /\ th_at[c] \in {"reading", "limit"} /\ T!Refreshed(c, record, FALSE)
        /\ th_recent' = th_recent
    BY <1>4, ThData DEF T!Fails, ThRecord, ThTyped, T!TypeOK
  <2> HIDE DEF record
  <2>2. ThRefreshed(c, record, FALSE)
    BY <1>2, <2>1, ThRefreshedIs DEF ThRefreshed
  <2> QED BY <1>2, <2>1, <2>2 DEF ThEnd
<1> QED BY <1>3, <1>4

LEMMA ThReadingTyped ==
  ASSUME ThTyped, NEW c \in User, th_at[c] \in {"reading", "limit"}
  PROVE  /\ th_op[c].sensor \in Sensors
         /\ th_reading[th_op[c].sensor] \in TempReading[th_op[c].sensor]
         /\ th_reading[th_op[c].sensor] \in T!Data
  BY ThHandler DEF ThTyped, ThAlone, T!TypeOK

LEMMA ThEndsTyped ==
  ASSUME ThTyped, NEW c \in User, T!Answered(c) \/ T!Fails(c)
  PROVE  ThTyped'
PROOF
<1> USE DEF ThTyped
<1>1. ThEnd(c)
  BY ThAnsweredEnds, ThFailsEnds
<1>2. /\ th_place' = [th_place EXCEPT ![c] = "inside"] /\ th_place[c] = "sending"
      /\ th_answer' \in [User -> {"none", "own", "previous"}] /\ th_degraded' \in BOOLEAN
      /\ UNCHANGED <<th_op, th_reading>>
  BY DEF ThAlone, T!Answered, T!Fails, T!Service!Answer, T!Service!Fail, T!Service!Move
<1>3. th_at[c] # "idle"
  BY <1>2 DEF ThAlone
<1>4. \A d \in User \ {c} : th_at[d] = "idle"
  BY <1>3, ThOthersIdle
<1> DEFINE s == th_op[c].sensor
<1>5. /\ th_valid' \in [Sensors -> BOOLEAN] /\ th_fresh' \in [Sensors -> BOOLEAN]
      /\ thermal_data' \in [Sensors -> ThRecord]
      /\ th_recent' \in [Sensors -> SUBSET T!Data]
      /\ \A t \in Sensors : th_recent'[t] \subseteq TempReading[t]
      /\ internal' \in Temps \cup {T!Zero} /\ temp' \in T!Data
      /\ th_at' = [th_at EXCEPT ![c] = th_at'[c]]
      /\ \/ th_at[c] = "reading" /\ th_at'[c] = "limit"
         \/ th_at[c] \in {"reading", "limit"} /\ th_at'[c] \in {"shown", "error"} /\ temp' = T!Zero
         \/ th_at[c] = "write" /\ th_at'[c] \in {"set", "error"} /\ temp' = temp
  <2>1. ASSUME NEW data \in T!Data, ThGoesOn(c, data) PROVE <1>5!:
    <3>1. th_op[c].sensor \in Sensors
      BY <2>1, ThReadingTyped DEF ThGoesOn
    <3>2. /\ th_recent' \in [Sensors -> SUBSET T!Data]
          /\ \A t \in Sensors : th_recent'[t] \subseteq TempReading[t]
      BY <2>1, <3>1, ThReadingTyped DEF ThGoesOn, T!TypeOK
    <3> QED BY <2>1, <3>2, ThData DEF ThGoesOn, T!TypeOK, ThRecord
  <2>2. ASSUME NEW record \in ThRecord, NEW ok \in BOOLEAN, ThRefreshed(c, record, ok) PROVE <1>5!:
    <3>1. s \in Sensors /\ th_reading[s] \in TempReading[s] /\ th_reading[s] \in T!Data
      BY <2>2, ThReadingTyped DEF ThRefreshed
    <3> HIDE DEF s
    <3>2. /\ th_at[c] \in {"reading", "limit"}
          /\ th_at' = [th_at EXCEPT ![c] = IF th_valid[s] \/ ok THEN "shown" ELSE "error"]
          /\ temp' = T!Zero /\ internal' = internal
          /\ thermal_data' = [thermal_data EXCEPT ![s] = record]
          /\ th_valid' = [th_valid EXCEPT ![s] = @ \/ ok]
          /\ th_fresh' = [th_fresh EXCEPT ![s] = @ \/ ok]
          /\ th_recent' = th_recent \/ th_recent' = [th_recent EXCEPT ![s] = {th_reading[s]}]
      BY <2>2 DEF ThRefreshed, s
    <3>3. th_valid' \in [Sensors -> BOOLEAN] /\ th_fresh' \in [Sensors -> BOOLEAN]
      BY <3>2 DEF T!TypeOK
    <3>4. thermal_data' \in [Sensors -> ThRecord]
      BY <3>2 DEF T!TypeOK, ThRecord
    <3>5. /\ th_recent' \in [Sensors -> SUBSET T!Data]
          /\ \A t \in Sensors : th_recent'[t] \subseteq TempReading[t]
      BY <3>1, <3>2 DEF T!TypeOK
    <3>6. th_at' = [th_at EXCEPT ![c] = th_at'[c]] /\ th_at'[c] \in {"shown", "error"}
      BY <3>2 DEF T!TypeOK
    <3> QED BY <3>2, <3>3, <3>4, <3>5, <3>6, ThData DEF T!TypeOK
  <2>3. ASSUME NEW ok \in BOOLEAN, ThStored(c, ok) PROVE <1>5!:
    <3>1. th_op[c].temps \in Temps
      BY <2>3, ThHandler DEF ThStored, ThAlone
    <3> QED BY <2>3, <3>1 DEF ThStored, T!TypeOK, ThRecord
  <2> QED BY <1>1, <2>1, <2>2, <2>3 DEF ThEnd
<1>6. temp' # T!Zero => \E d \in User : th_at'[d] = "limit"
  BY <1>4, <1>5 DEF T!TypeOK
<1>7. T!TypeOK'
  BY <1>2, <1>5, <1>6 DEF T!TypeOK, ThRecord
<1>8. ThAlone'
  BY <1>2, <1>5 DEF T!TypeOK, ThAlone
<1> QED BY <1>1, <1>2, <1>5, <1>7, <1>8 DEF ThEnd

LEMMA ThTypedStep == ThTyped /\ [T!Next]_thermal => ThTyped'
PROOF
<1> SUFFICES ASSUME ThTyped, [T!Next]_thermal PROVE ThTyped'
  OBVIOUS
<1> USE DEF T!service, T!cache, T!bmc
<1>1. CASE UNCHANGED thermal
  BY <1>1 DEF thermal, ThTyped, T!TypeOK, ThAlone
<1>2. ASSUME NEW c \in User, NEW o \in T!Handler, T!Lock(c, o) PROVE ThTyped'
  BY <1>2, ThLockTyped
<1>3. ASSUME NEW c \in User, T!Send(c) PROVE ThTyped'
  <2>1. T!TypeOK'
    BY <1>3 DEF T!Send, ThTyped, T!TypeOK
  <2>2. ThAlone'
    BY <1>3 DEF T!Send, ThTyped, ThAlone, T!Service!Send, T!Service!Move
  <2> QED BY <1>3, <2>1, <2>2 DEF ThTyped, T!Send
<1>4. ASSUME NEW c \in User, T!Answered(c) \/ T!Fails(c) PROVE ThTyped'
  BY <1>4, ThEndsTyped
<1>5. ASSUME NEW c \in User, T!Unlock(c) PROVE ThTyped'
  <2>1. temp' # T!Zero => \E d \in User : th_at'[d] = "limit"
    BY <1>5 DEF T!Unlock, ThTyped, T!TypeOK
  <2>2. T!TypeOK'
    BY <1>5, <2>1 DEF T!Unlock, ThTyped, T!TypeOK
  <2>3. ThAlone'
    BY <1>5 DEF T!Unlock, ThTyped, T!TypeOK, ThAlone, T!Service!Leave, T!Service!Move
  <2> QED BY <1>5, <2>2, <2>3 DEF ThTyped, T!Unlock
<1>6. ASSUME NEW s \in Sensors, T!Expire(s) PROVE ThTyped'
  <2>1. /\ th_recent' \in [Sensors -> SUBSET T!Data]
        /\ \A t \in Sensors : th_recent'[t] \subseteq TempReading[t]
    BY <1>6 DEF T!Expire, ThTyped, T!TypeOK
  <2>2. T!TypeOK'
    BY <1>6, <2>1 DEF T!Expire, ThTyped, T!TypeOK
  <2> QED BY <1>6, <2>1, <2>2 DEF T!Expire, ThTyped, ThAlone
<1>7. ASSUME NEW s \in Sensors, NEW r \in TempReading[s], T!Change(s, r) PROVE ThTyped'
  <2>1. r \in T!Data
    BY ThData
  <2>2. /\ th_recent' \in [Sensors -> SUBSET T!Data] /\ th_reading' \in [Sensors -> T!Data]
        /\ \A t \in Sensors : /\ th_recent'[t] \subseteq TempReading[t]
                              /\ th_reading'[t] \in TempReading[t]
    BY <1>7, <2>1 DEF T!Change, ThTyped, T!TypeOK
  <2>3. T!TypeOK'
    BY <1>7, <2>2 DEF T!Change, ThTyped, T!TypeOK
  <2> QED BY <1>7, <2>2, <2>3 DEF T!Change, ThTyped, ThAlone
<1> QED BY <1>1, <1>2, <1>3, <1>4, <1>5, <1>6, <1>7 DEF T!Next

-----------------------------------------------------------------------------
(* Thermal: the caches, as those of Fan; a refresh that has got its        *)
(* reading keeps it while its sensor's cache is given up, and a cache that *)
(* is young is valid.                                                      *)

ThCached(c) ==
  /\ th_at[c] \in {"reading", "limit"} => ~th_valid[th_op[c].sensor]
  /\ th_at[c] = "shown" => th_valid[th_op[c].sensor] /\ th_fresh[th_op[c].sensor]

ThHeld(s) ==
  th_valid[s] /\ th_fresh[s] =>
    thermal_data[s].reading \in th_recent[s] /\ thermal_data[s].limit = Limit[s]

ThServed ==
  /\ \A c \in User : ThCached(c)
  /\ \A s \in Sensors : th_fresh[s] => th_valid[s]
  /\ ~th_degraded =>
       /\ T!StoredUnlessRefused
       /\ \A s \in Sensors : ThHeld(s)
       /\ \A c \in User : th_at[c] = "limit" => temp \in th_recent[th_op[c].sensor]

ThInv == ThTyped /\ ThServed

LEMMA ThInvInit == T!Init => ThInv
  BY ThTypedInit DEF T!Init, ThInv, ThServed, ThCached, ThHeld, T!StoredUnlessRefused

LEMMA ThLockServed ==
  ASSUME ThInv, NEW c \in User, NEW o \in T!Handler, T!Lock(c, o)
  PROVE  ThServed'
PROOF
<1>1. o.kind \in {"show", "set"} /\ (o.kind = "show" => o.sensor \in Sensors)
  BY ThHandler
<1>2. \A d \in User : th_at[d] = "idle"
  BY DEF ThInv, ThTyped, ThAlone, T!Lock, T!Service!Enter
<1>3. /\ th_op' = [th_op EXCEPT ![c] = o]
      /\ UNCHANGED <<th_fresh, thermal_data, th_recent, internal, th_last>>
      /\ th_degraded' = th_degraded
      /\ \/ o.kind = "show" /\ th_at' = [th_at EXCEPT ![c] = "shown"] /\ th_valid' = th_valid
            /\ th_valid[o.sensor] /\ th_fresh[o.sensor]
         \/ o.kind = "show" /\ th_at' = [th_at EXCEPT ![c] = "reading"]
            /\ th_valid' = [th_valid EXCEPT ![o.sensor] = FALSE]
            /\ ~(th_valid[o.sensor] /\ th_fresh[o.sensor])
         \/ th_at' = [th_at EXCEPT ![c] = "write"] /\ th_valid' = th_valid
  BY DEF T!Lock, T!Goto, T!Service!Enter, T!bmc
<1>4. \A d \in User : ThCached(d)'
  BY <1>1, <1>2, <1>3 DEF ThInv, ThTyped, T!TypeOK, ThCached
<1>5. \A s \in Sensors : th_fresh'[s] => th_valid'[s]
  BY <1>1, <1>3 DEF ThInv, ThTyped, T!TypeOK, ThServed
<1>6. \A s \in Sensors : ThHeld(s) => ThHeld(s)'
  BY <1>1, <1>3 DEF ThInv, ThTyped, T!TypeOK, ThHeld
<1>7. \A d \in User : th_at'[d] \notin {"set", "limit"}
  BY <1>2, <1>3 DEF ThInv, ThTyped, T!TypeOK
<1> QED BY <1>3, <1>4, <1>5, <1>6, <1>7 DEF ThInv, ThServed, T!StoredUnlessRefused

LEMMA ThEndsServed ==
  ASSUME ThInv, NEW c \in User, T!Answered(c) \/ T!Fails(c)
  PROVE  ThServed'
PROOF
<1> USE DEF ThInv
<1>1. ThEnd(c)
  BY ThAnsweredEnds, ThFailsEnds
<1>2. /\ th_op' = th_op /\ (~th_degraded' => ~th_degraded) /\ th_at[c] # "idle"
      /\ th_reading' = th_reading
  BY DEF T!Answered, T!Fails, T!Service!Answer, T!Service!Fail, T!Service!Move, ThTyped, ThAlone
<1>3. \A d \in User \ {c} : th_at[d] = "idle"
  BY <1>2, ThOthersIdle
<1>4. ASSUME NEW data \in T!Data, ThGoesOn(c, data) PROVE ThServed'
  <2> DEFINE s == th_op[c].sensor
  <2>1. s \in Sensors
    BY <1>4, ThReadingTyped DEF ThGoesOn
  <2>2. /\ th_at[c] = "reading" /\ th_at' = [th_at EXCEPT ![c] = "limit"] /\ temp' = data
        /\ UNCHANGED <<th_valid, th_fresh, thermal_data, internal>>
        /\ th_recent' = [th_recent EXCEPT ![s] = {th_reading[s]}]
        /\ ~th_degraded' => data = th_reading[s]
    BY <1>4 DEF ThGoesOn
  <2>3. ~th_valid[s]
    BY <2>2 DEF ThServed, ThCached
  <2>4. \A d \in User : th_at'[d] = IF d = c THEN "limit" ELSE "idle"
    BY <1>3, <2>2 DEF ThTyped, T!TypeOK
  <2>5. th_recent'[s] = {th_reading[s]} /\ \A t \in Sensors \ {s} : th_recent'[t] = th_recent[t]
    BY <2>1, <2>2 DEF ThTyped
  <2>6. \A d \in User : ThCached(d)'
    BY <1>2, <2>2, <2>3, <2>4 DEF ThCached
  <2>7. \A t \in Sensors : ThHeld(t) => ThHeld(t)'
    BY <2>2, <2>3, <2>5 DEF ThHeld
  <2> QED BY <1>2, <2>2, <2>4, <2>5, <2>6, <2>7 DEF ThServed, T!StoredUnlessRefused
<1>5. ASSUME NEW record \in ThRecord, NEW ok \in BOOLEAN, ThRefreshed(c, record, ok) PROVE ThServed'
  <2> DEFINE s == th_op[c].sensor
  <2>1. s \in Sensors
    BY <1>5, ThReadingTyped DEF ThRefreshed
  <2>2. /\ th_at[c] \in {"reading", "limit"}
        /\ th_at' = [th_at EXCEPT ![c] = IF th_valid[s] \/ ok THEN "shown" ELSE "error"]
        /\ thermal_data' = [thermal_data EXCEPT ![s] = record]
        /\ th_valid' = [th_valid EXCEPT ![s] = @ \/ ok]
        /\ th_fresh' = [th_fresh EXCEPT ![s] = @ \/ ok]
        /\ \/ th_recent' = th_recent
           \/ ~ok /\ th_recent' = [th_recent EXCEPT ![s] = {th_reading[s]}]
        /\ ok => th_at[c] = "limit"
        /\ ok /\ ~th_degraded' => record = [reading |-> temp, limit |-> Limit[s]]
    BY <1>5 DEF ThRefreshed
  <2>3. ~th_valid[s] /\ ~th_fresh[s] /\ (~th_degraded /\ ok => temp \in th_recent[s])
    BY <2>1, <2>2 DEF ThServed, ThCached
  <2> HIDE DEF s
  <2>4. \A d \in User : th_at'[d] = IF d = c THEN IF ok THEN "shown" ELSE "error" ELSE "idle"
    BY <1>3, <2>2, <2>3 DEF ThTyped, T!TypeOK
  <2>5. /\ th_valid'[s] = ok /\ th_fresh'[s] = ok /\ thermal_data'[s] = record
        /\ ok => th_recent'[s] = th_recent[s]
    BY <2>1, <2>2, <2>3 DEF ThTyped, T!TypeOK
  <2>6. \A t \in Sensors \ {s} :
          /\ th_valid'[t] = th_valid[t] /\ th_fresh'[t] = th_fresh[t]
          /\ thermal_data'[t] = thermal_data[t] /\ th_recent'[t] = th_recent[t]
    BY <2>1, <2>2 DEF ThTyped, T!TypeOK
  <2>7. \A d \in User : ThCached(d)'
    BY <1>2, <2>4, <2>5 DEF ThCached, s
  <2>8. \A t \in Sensors : th_fresh'[t] => th_valid'[t]
    BY <2>5, <2>6 DEF ThServed
  <2>9. \A t \in Sensors : ~th_degraded' /\ ThHeld(t) => ThHeld(t)'
    <3>1. \A t \in Sensors : t = s /\ ~th_degraded' => ThHeld(t)'
      BY <1>2, <2>2, <2>3, <2>5 DEF ThHeld
    <3>2. \A t \in Sensors \ {s} : ThHeld(t) => ThHeld(t)'
      BY <2>6 DEF ThHeld
    <3> QED BY <3>1, <3>2
  <2> QED BY <1>2, <2>4, <2>7, <2>8, <2>9 DEF ThServed, T!StoredUnlessRefused
<1>6. ASSUME NEW ok \in BOOLEAN, ThStored(c, ok) PROVE ThServed'
  <2>1. /\ th_at[c] = "write" /\ th_at' = [th_at EXCEPT ![c] = IF ok THEN "set" ELSE "error"]
        /\ UNCHANGED <<temp, th_valid, th_fresh, thermal_data, th_recent>>
        /\ ok /\ ~th_degraded' => internal' = th_op[c].temps \/ ~th_last'.ok
    BY <1>6 DEF ThStored
  <2>2. \A d \in User : th_at'[d] = IF d = c THEN IF ok THEN "set" ELSE "error" ELSE "idle"
    BY <1>3, <2>1 DEF ThTyped, T!TypeOK
  <2> QED BY <1>2, <2>1, <2>2 DEF ThServed, ThCached, ThHeld, T!StoredUnlessRefused
<1> QED BY <1>1, <1>4, <1>5, <1>6 DEF ThEnd

LEMMA ThInvStep == ThInv /\ [T!Next]_thermal => ThInv'
PROOF
<1> SUFFICES ASSUME ThInv, [T!Next]_thermal PROVE ThServed'
  BY ThTypedStep DEF ThInv
<1> USE DEF T!service, T!cache, T!bmc
<1>1. CASE UNCHANGED thermal
  BY <1>1 DEF thermal, ThInv, ThServed, ThCached, ThHeld, T!StoredUnlessRefused
<1>2. ASSUME NEW c \in User, NEW o \in T!Handler, T!Lock(c, o) PROVE ThServed'
  BY <1>2, ThLockServed
<1>3. ASSUME NEW c \in User, T!Send(c) PROVE ThServed'
  BY <1>3 DEF T!Send, T!Service!Send, ThInv, ThServed, ThCached, ThHeld, T!StoredUnlessRefused
<1>4. ASSUME NEW c \in User, T!Answered(c) \/ T!Fails(c) PROVE ThServed'
  BY <1>4, ThEndsServed
<1>5. ASSUME NEW c \in User, T!Unlock(c) PROVE ThServed'
  <2>1. \A d \in User : th_at'[d] = "idle"
    BY <1>5, ThOthersIdle DEF T!Unlock, ThInv, ThTyped, T!TypeOK
  <2> QED BY <1>5, <2>1
      DEF T!Unlock, T!Service!Leave, ThInv, ThServed, ThCached, ThHeld, T!StoredUnlessRefused
<1>6. ASSUME NEW s \in Sensors, T!Expire(s) PROVE ThServed'
  <2>1. /\ th_fresh[s] /\ th_fresh' = [th_fresh EXCEPT ![s] = FALSE]
        /\ th_recent' = [th_recent EXCEPT ![s] = {th_reading[s]}]
        /\ \A c \in User : th_at[c] # "shown"
        /\ UNCHANGED <<th_degraded, th_op, th_at, temp, th_valid, thermal_data, internal, th_last>>
    BY <1>6 DEF T!Expire
  <2>2. \A c \in User : th_at[c] = "limit" => th_op[c].sensor # s /\ th_op[c].sensor \in Sensors
    BY <2>1, ThReadingTyped DEF ThInv, ThServed, ThCached
  <2>3. ~th_fresh'[s] /\ \A t \in Sensors \ {s} : th_fresh'[t] = th_fresh[t] /\ th_recent'[t] = th_recent[t]
    BY <2>1 DEF ThInv, ThTyped, T!TypeOK
  <2> QED BY <2>1, <2>2, <2>3 DEF ThInv, ThServed, ThCached, ThHeld, T!StoredUnlessRefused
<1>7. ASSUME NEW s \in Sensors, NEW r \in TempReading[s], T!Change(s, r) PROVE ThServed'
  <2>1. /\ th_recent' = [th_recent EXCEPT ![s] = @ \cup {r}]
        /\ UNCHANGED <<th_degraded, th_op, th_at, temp, th_valid, th_fresh, thermal_data, internal, th_last>>
    BY <1>7 DEF T!Change
  <2>2. \A t \in Sensors : th_recent[t] \subseteq th_recent'[t]
    BY <2>1 DEF ThInv, ThTyped
  <2>3. \A c \in User : th_at[c] = "limit" => th_op[c].sensor \in Sensors
    BY ThReadingTyped DEF ThInv
  <2> QED BY <2>1, <2>2, <2>3 DEF ThInv, ThServed, ThCached, ThHeld, T!StoredUnlessRefused
<1> QED BY <1>1, <1>2, <1>3, <1>4, <1>5, <1>6, <1>7 DEF T!Next

LEMMA ThShows == ThInv => T!TypeOK /\ T!ShowsRecent /\ T!StoredUnlessRefused
PROOF
<1> SUFFICES ASSUME ThInv PROVE T!ShowsRecent /\ (~th_degraded => T!StoredUnlessRefused)
  BY DEF ThInv, ThTyped, T!StoredUnlessRefused
<1>1. \A c \in User : th_at[c] = "shown" => th_op[c].sensor \in Sensors
  BY ThHandler DEF ThInv, ThTyped, ThAlone
<1> QED BY <1>1 DEF ThInv, ThServed, ThCached, ThHeld, T!ShowsRecent

-----------------------------------------------------------------------------
(* Sys: types, and where a process may be in the service.                  *)

SysAlone ==
  /\ sys_place \in [User -> {"outside", "inside", "sending"}]
  /\ sys_answer \in [User -> {"none", "own", "previous"}]
  /\ sys_degraded \in BOOLEAN
  /\ \A c, d \in User : sys_at[c] # "idle" /\ sys_at[d] # "idle" => c = d
  /\ \A c \in User :
       /\ sys_place[c] = "outside" <=> sys_at[c] = "idle"
       /\ sys_at[c] = "idle" => sys_op[c] = S!None
       /\ sys_at[c] # "idle" => sys_op[c] \in S!Handler
       /\ sys_at[c] \in {"eeprom", "show", "store", "regs"} => sys_op[c].kind = sys_at[c]
       /\ sys_at[c] = "write" => sys_op[c].kind = "store"

(* What the BMC can have replied. *)
SysReply ==
  {r \in [ok : BOOLEAN, from : Nat, n : 0..ReadLen] : r.n > 0 => r.from + r.n <= FruSize}

SysTyped ==
  /\ S!TypeOK /\ SysAlone
  /\ sys_last \in SysReply /\ asked \subseteq Piu /\ garbled \in BOOLEAN

LEMMA SysHandler ==
  ASSUME NEW o \in S!Handler
  PROVE  /\ o.kind \in {"eeprom", "show", "store", "regs", "ignored"}
         /\ o.kind = "eeprom" => o.off \in Nat /\ o.count \in Nat \ {0}
         /\ o.kind \in {"show", "store"} => o.piu \in Piu
         /\ o.kind = "regs" => o.count \in Nat
PROOF
<1>1. ASSUME NEW i \in 0..EEPROM_SIZE, NEW n \in 0..EEPROM_SIZE,
             o = [kind |-> "eeprom", off |-> i, count |-> n], o.count > 0
      PROVE  o.kind = "eeprom" /\ o.off \in Nat /\ o.count \in Nat \ {0}
  BY <1>1, SysAssumption DEF S!ConstantsOK
<1>2. \/ \E i, n \in 0..EEPROM_SIZE :
           o = [kind |-> "eeprom", off |-> i, count |-> n] /\ o.count > 0
      \/ o \in [kind : {"show", "store"}, piu : Piu]
      \/ o \in [kind : {"regs"}, count : 1..FPGA_SIZE]
      \/ o \in [kind : {"ignored"}]
  BY DEF S!Handler, S!EepromRead
<1> QED BY <1>1, <1>2

LEMMA SysOthersIdle ==
  ASSUME SysTyped, NEW c \in User, sys_at[c] # "idle", NEW d \in User, d # c
  PROVE  sys_at[d] = "idle"
  BY DEF SysTyped, SysAlone

(* A function on 1..n is a sequence of n, and what is joined to a sequence *)
(* comes after it.                                                         *)
LEMMA AsSeq ==
  ASSUME NEW Values, NEW n \in Nat, NEW b \in [1..n -> Values]
  PROVE  b \in Seq(Values) /\ Len(b) = n
PROOF
<1>1. b \in UNION {[1..m -> Values] : m \in Nat}
  BY Zenon
<1>2. b \in Seq(Values)
  BY <1>1, SeqDef, Zenon
<1>3. 1..Len(b) = 1..n /\ Len(b) \in Nat
  BY <1>2, LenProperties
<1>4. Len(b) = n
  BY <1>3
<1> QED BY <1>2, <1>4

Joins(t, s, b, Values) ==
  /\ t \in Seq(Values) /\ Len(t) = Len(s) + Len(b)
  /\ \A i \in 1..Len(s) : t[i] = s[i]
  /\ \A i \in Len(s) + 1..Len(s) + Len(b) : t[i] = b[i - Len(s)]

LEMMA Joined ==
  ASSUME NEW Values, NEW s \in Seq(Values), NEW b \in Seq(Values)
  PROVE  Joins(s \o b, s, b, Values)
PROOF
<1>1. Len(s) \in Nat /\ Len(b) \in Nat
  BY LenProperties
<1> DEFINE t == s \o b
<1>2. /\ t \in Seq(Values) /\ Len(t) = Len(s) + Len(b)
      /\ \A i \in 1 .. Len(s) + Len(b) : t[i] = IF i <= Len(s) THEN s[i] ELSE b[i - Len(s)]
  BY ConcatProperties, Zenon
<1> HIDE DEF t
<1>3. \A i \in 1..Len(s) : t[i] = s[i]
  BY <1>1, <1>2
<1>4. \A i \in Len(s) + 1..Len(s) + Len(b) : t[i] = b[i - Len(s)]
  BY <1>1, <1>2
<1> QED BY <1>2, <1>3, <1>4 DEF t, Joins

(* An answer goes behind what is already there.                            *)
LEMMA SysAppend ==
  ASSUME NEW s \in Seq(0..FruSize - 1), NEW r \in SysReply, r.n > 0
  PROVE  LET t == s \o S!Bytes(r) IN
         /\ t \in Seq(0..FruSize - 1) /\ Len(t) = Len(s) + r.n
         /\ \A i \in 1..Len(s) : t[i] = s[i]
         /\ \A i \in Len(s) + 1..Len(t) : t[i] = r.from + (i - Len(s)) - 1
PROOF
<1> USE SysAssumption DEF S!ConstantsOK
<1>1. r.n \in Nat /\ r.from \in Nat /\ r.from + r.n <= FruSize
  BY DEF SysReply
<1>2. \A i \in 1..r.n : r.from + i - 1 \in 0..FruSize - 1
  BY <1>1
<1>3. S!Bytes(r) = [i \in 1..r.n |-> r.from + i - 1]
  BY DEF S!Bytes
<1> DEFINE b == [i \in 1..r.n |-> r.from + i - 1]
<1> DEFINE S0 == 0..FruSize - 1
<1>4. b \in Seq(S0) /\ Len(b) = r.n /\ \A i \in 1..r.n : b[i] = r.from + i - 1
  <2>1. b \in [1..r.n -> S0] /\ \A i \in 1..r.n : b[i] = r.from + i - 1
    BY <1>2
  <2> HIDE DEF b, S0
  <2> QED BY <1>1, <2>1, AsSeq
<1> DEFINE t == s \o b
<1>5. Joins(t, s, b, S0)
  <2>1. s \in Seq(S0)
    OBVIOUS
  <2> HIDE DEF b, S0
  <2> QED BY <1>4, <2>1, Joined
<1> HIDE DEF b, t
<1>6. Len(s) \in Nat /\ Len(b) \in Nat
  BY <1>4, LenProperties
<1>7. \A i \in Len(s) + 1..Len(t) : t[i] = r.from + (i - Len(s)) - 1
  <2> SUFFICES ASSUME NEW i \in Len(s) + 1..Len(t) PROVE t[i] = r.from + (i - Len(s)) - 1
    OBVIOUS
  <2>1. i - Len(s) \in 1..r.n /\ i \in Len(s) + 1..Len(s) + Len(b)
    BY <1>1, <1>4, <1>5, <1>6 DEF Joins
  <2> QED BY <1>4, <1>5, <2>1 DEF Joins
<1>8. S!Bytes(r) = b
  BY <1>3 DEF b
<1> QED BY <1>4, <1>5, <1>7, <1>8 DEF t, Joins

LEMMA SysTypedInit == S!Init => SysTyped
PROOF
<1> SUFFICES ASSUME S!Init PROVE SysTyped
  OBVIOUS
<1>1. SysAlone
  BY DEF S!Init, S!Service!Init, SysAlone
<1>2. sys_last \in SysReply
  <2>1. 0 \in 0..ReadLen /\ ~(0 > 0)
    BY SysAssumption DEF S!ConstantsOK
  <2> QED BY <2>1 DEF S!Init, S!NoReply, SysReply
<1>3. buf \in Seq(0..FruSize - 1)
  BY EmptySeq DEF S!Init
<1>4. S!TypeOK
  BY <1>3 DEF S!Init, S!TypeOK
<1> QED BY <1>1, <1>2, <1>4 DEF S!Init, SysTyped

LEMMA SysLockTyped ==
  ASSUME SysTyped, NEW c \in User, NEW o \in S!Handler, S!Lock(c, o)
  PROVE  SysTyped'
PROOF
<1>1. /\ o.kind \in {"eeprom", "show", "store", "regs", "ignored"}
      /\ o.kind = "eeprom" => o.off \in Nat /\ o.count \in Nat
      /\ o.kind = "store" => o.piu \in Piu
  BY SysHandler
<1>2. \A d \in User : sys_at[d] = "idle"
  BY DEF SysTyped, SysAlone, S!Lock, S!Service!Enter
<1>3. /\ sys_at' = [sys_at EXCEPT ![c] = IF o.kind = "ignored" THEN "done" ELSE o.kind]
      /\ sys_op' = [sys_op EXCEPT ![c] = o]
      /\ UNCHANGED <<retval, buf, v, reg, garbled, sys_last>>
      /\ off' \in Nat /\ count' \in Int /\ asked' \subseteq Piu
  BY <1>1 DEF S!Lock, S!Goto, S!locals, SysTyped, S!TypeOK
<1>4. S!TypeOK'
  BY <1>1, <1>3 DEF SysTyped, S!TypeOK
<1>5. SysAlone'
  BY <1>1, <1>2, <1>3 DEF SysTyped, S!TypeOK, SysAlone, S!Lock, S!Service!Enter, S!Service!Move
<1> QED BY <1>3, <1>4, <1>5 DEF SysTyped

(* How a message of a read ends: the read stops, or it has got more.       *)
SysStops(c) ==
  /\ sys_at' = [sys_at EXCEPT ![c] = "done"]
  /\ retval' \in IF retval = 0 THEN {0, -1} ELSE {retval}
  /\ UNCHANGED <<off, count, buf>>

SysGoesOn(c, reply) ==
  /\ reply.n > 0 /\ S!GoOn(c, reply)
  /\ ~sys_degraded' => off < FruSize /\ reply = S!Reply(TRUE)

SysEnd(c) ==
  /\ sys_at[c] = "eeprom" /\ sys_last' \in SysReply
  /\ SysStops(c) \/ \E reply \in SysReply : SysGoesOn(c, reply)

LEMMA SysReplies ==
  ASSUME SysTyped, NEW ok \in BOOLEAN
  PROVE  S!Reply(ok) \in SysReply /\ S!NoReply \in SysReply
PROOF
<1>1. off \in Nat /\ ReadLen \in Nat \ {0} /\ FruSize \in Nat
  BY SysAssumption DEF SysTyped, S!TypeOK, S!ConstantsOK
<1>2. off < FruSize /\ off + ReadLen > FruSize =>
        FruSize - off \in 0..ReadLen /\ off + (FruSize - off) <= FruSize
  BY <1>1
<1>3. ReadLen \in 0..ReadLen /\ 0 \in 0..ReadLen /\ (~(off + ReadLen > FruSize) => off + ReadLen <= FruSize)
  BY <1>1
<1>4. S!Reply(ok) \in SysReply
  BY <1>1, <1>2, <1>3 DEF S!Reply, SysReply
<1> QED BY <1>1, <1>3, <1>4 DEF S!NoReply, SysReply

LEMMA SysEnds ==
  ASSUME SysTyped, NEW c \in User, S!Answered(c) \/ S!Fails(c)
  PROVE  SysEnd(c)
PROOF
<1>1. CASE S!Fails(c)
  <2>1. sys_last' \in SysReply
    BY <1>1, SysReplies DEF S!Fails, SysTyped
  <2>2. SysStops(c)
    BY <1>1 DEF S!Fails, S!Stop, SysStops
  <2> QED BY <1>1, <2>1, <2>2 DEF S!Fails, SysEnd
<1>2. CASE S!Answered(c)
  <2>1. PICK ok \in BOOLEAN :
          LET own == S!Reply(ok)
              code == IF sys_answer'[c] = "own" THEN own.ok ELSE sys_last.ok
              held == IF sys_answer'[c] = "own" THEN {own} ELSE {S!NoReply, sys_last, own} IN
          /\ sys_last' = own
          /\ \E reply \in held :
               IF ~code THEN S!Stop(c, -1)
               ELSE IF reply.n = 0 THEN S!Stop(c, 0) ELSE S!GoOn(c, reply)
    BY <1>2 DEF S!Answered
  <2>2. ~sys_degraded' => sys_answer'[c] = "own"
    BY <1>2 DEF S!Answered, S!Service!Answer, SysTyped, SysAlone
  <2>3. sys_last' \in SysReply /\ sys_at[c] = "eeprom"
    BY <1>2, <2>1, SysReplies DEF S!Answered
  <2>4. CASE \E status \in {0, -1} : S!Stop(c, status)
    BY <2>3, <2>4 DEF S!Stop, SysStops, SysEnd
  <2>5. CASE ~\E status \in {0, -1} : S!Stop(c, status)
    <3>1. PICK reply \in SysReply :
            /\ reply.n # 0 /\ S!GoOn(c, reply)
            /\ ~sys_degraded' => reply = S!Reply(ok) /\ reply.ok
      BY <2>1, <2>2, <2>5, SysReplies DEF SysTyped
    <3>2. reply.n > 0
      BY <3>1 DEF SysReply
    <3>3. ~sys_degraded' => off < FruSize /\ reply = S!Reply(TRUE)
      BY <3>1 DEF S!Reply
    <3> QED BY <2>3, <3>1, <3>2, <3>3 DEF SysGoesOn, SysEnd
  <2> QED BY <2>4, <2>5
<1> QED BY <1>1, <1>2

(* A process that ends a message is in a read, and the only one inside.    *)
LEMMA SysInRead ==
  ASSUME SysTyped, NEW c \in User, S!Answered(c) \/ S!Fails(c)
  PROVE  /\ sys_at[c] = "eeprom" /\ sys_op[c].kind = "eeprom"
         /\ \A d \in User \ {c} : sys_at[d] = "idle" /\ sys_op[d] = S!None
         /\ sys_place[c] = "sending" /\ sys_place' = [sys_place EXCEPT ![c] = "inside"]
         /\ sys_answer' \in [User -> {"none", "own", "previous"}] /\ sys_degraded' \in BOOLEAN
         /\ (~sys_degraded' => ~sys_degraded)
         /\ UNCHANGED <<sys_op, v, reg, asked, garbled>>
PROOF
<1>1. sys_at[c] = "eeprom"
  BY SysEnds DEF SysEnd
<1>2. \A d \in User \ {c} : sys_at[d] = "idle"
  BY <1>1, SysOthersIdle
<1> QED BY <1>1, <1>2
    DEF SysTyped, SysAlone, S!Answered, S!Fails, S!Service!Answer, S!Service!Fail, S!Service!Move, S!fpga

LEMMA SysEndsTyped ==
  ASSUME SysTyped, NEW c \in User, S!Answered(c) \/ S!Fails(c)
  PROVE  SysTyped'
PROOF
<1>1. SysEnd(c)
  BY SysEnds
<1>2. /\ sys_at[c] = "eeprom" /\ sys_op[c].kind = "eeprom"
      /\ \A d \in User \ {c} : sys_at[d] = "idle" /\ sys_op[d] = S!None
      /\ sys_place[c] = "sending" /\ sys_place' = [sys_place EXCEPT ![c] = "inside"]
      /\ sys_answer' \in [User -> {"none", "own", "previous"}] /\ sys_degraded' \in BOOLEAN
      /\ UNCHANGED <<sys_op, v, reg, asked, garbled>>
  BY SysInRead
<1>3. /\ sys_at' = [sys_at EXCEPT ![c] = sys_at'[c]] /\ sys_at'[c] \in {"eeprom", "done"}
      /\ off' \in Nat /\ count' \in Int /\ retval' \in Int /\ buf' \in Seq(0..FruSize - 1)
  <2>1. CASE SysStops(c)
    BY <2>1 DEF SysStops, SysTyped, S!TypeOK
  <2>2. ASSUME NEW reply \in SysReply, SysGoesOn(c, reply) PROVE <1>3!:
    <3>1. buf' \in Seq(0..FruSize - 1)
      BY <2>2, SysAppend DEF SysGoesOn, S!GoOn, SysTyped, S!TypeOK
    <3>2. reply.n \in Nat
      BY DEF SysReply
    <3>3. /\ sys_at' = [sys_at EXCEPT ![c] = IF count' = 0 THEN "done" ELSE "eeprom"]
          /\ off' = off + reply.n /\ count' = count - reply.n /\ retval' = retval + reply.n
      BY <2>2 DEF SysGoesOn, S!GoOn
    <3>4. sys_at' = [sys_at EXCEPT ![c] = sys_at'[c]] /\ sys_at'[c] \in {"eeprom", "done"}
      BY <3>3 DEF SysTyped, S!TypeOK
    <3>5. off \in Nat /\ count \in Int /\ retval \in Int
      BY DEF SysTyped, S!TypeOK
    <3>6. off' \in Nat /\ count' \in Int /\ retval' \in Int
      BY <3>2, <3>3, <3>5
    <3> QED BY <3>1, <3>4, <3>6
  <2> QED BY <1>1, <2>1, <2>2 DEF SysEnd
<1>4. S!TypeOK'
  BY <1>2, <1>3 DEF SysTyped, S!TypeOK
<1>5. SysAlone'
  BY <1>2, <1>3 DEF SysTyped, S!TypeOK, SysAlone
<1> QED BY <1>1, <1>2, <1>4, <1>5 DEF SysEnd, SysTyped

LEMMA SysTypedStep == SysTyped /\ [S!Next]_sys => SysTyped'
PROOF
<1> SUFFICES ASSUME SysTyped, [S!Next]_sys PROVE SysTyped'
  OBVIOUS
<1> USE DEF S!service, S!locals, S!fpga
<1>1. CASE UNCHANGED sys
  BY <1>1 DEF sys, SysTyped, S!TypeOK, SysAlone
<1>2. ASSUME NEW c \in User, NEW o \in S!Handler, S!Lock(c, o) PROVE SysTyped'
  BY <1>2, SysLockTyped
<1>3. ASSUME NEW c \in User, S!Send(c) PROVE SysTyped'
  <2>1. S!TypeOK'
    BY <1>3 DEF S!Send, SysTyped, S!TypeOK
  <2>2. SysAlone'
    BY <1>3 DEF S!Send, SysTyped, SysAlone, S!Service!Send, S!Service!Move
  <2> QED BY <1>3, <2>1, <2>2 DEF SysTyped, S!Send
<1>4. ASSUME NEW c \in User, S!Answered(c) \/ S!Fails(c) PROVE SysTyped'
  BY <1>4, SysEndsTyped
<1>5. ASSUME NEW c \in User, S!ReadByte(c) PROVE SysTyped'
  <2>1. v' \subseteq Piu \cup Others /\ garbled' \in BOOLEAN
    BY <1>5, SysAssumption DEF S!ReadByte, SysTyped, S!TypeOK, S!ConstantsOK
  <2>2. S!TypeOK'
    BY <1>5, <2>1 DEF S!ReadByte, S!Goto, SysTyped, S!TypeOK
  <2>3. SysAlone'
    BY <1>5 DEF S!ReadByte, S!Goto, SysTyped, S!TypeOK, SysAlone
  <2> QED BY <1>5, <2>1, <2>2, <2>3 DEF SysTyped, S!ReadByte
<1>6. ASSUME NEW c \in User, S!WriteByte(c) PROVE SysTyped'
  <2>1. sys_op[c].piu \in Piu
    BY <1>6, SysHandler DEF S!WriteByte, S!Goto, SysTyped, SysAlone
  <2>2. S!TypeOK'
    BY <1>6, <2>1 DEF S!WriteByte, S!Goto, SysTyped, S!TypeOK
  <2>3. SysAlone'
    BY <1>6 DEF S!WriteByte, S!Goto, SysTyped, S!TypeOK, SysAlone
  <2> QED BY <1>6, <2>2, <2>3 DEF SysTyped, S!WriteByte
<1>7. ASSUME NEW c \in User, S!ReadRegisters(c) PROVE SysTyped'
  <2>1. sys_op[c].count \in Nat
    BY <1>7, SysHandler DEF S!ReadRegisters, S!Goto, SysTyped, SysAlone
  <2>2. S!TypeOK'
    BY <1>7, <2>1 DEF S!ReadRegisters, S!Goto, SysTyped, S!TypeOK
  <2>3. SysAlone'
    BY <1>7 DEF S!ReadRegisters, S!Goto, SysTyped, S!TypeOK, SysAlone
  <2> QED BY <1>7, <2>2, <2>3 DEF SysTyped, S!ReadRegisters
<1>8. ASSUME NEW c \in User, S!Unlock(c) PROVE SysTyped'
  <2>1. S!TypeOK'
    BY <1>8, EmptySeq DEF S!Unlock, SysTyped, S!TypeOK
  <2>2. SysAlone'
    BY <1>8 DEF S!Unlock, SysTyped, S!TypeOK, SysAlone, S!Service!Leave, S!Service!Move
  <2> QED BY <1>8, <2>1, <2>2 DEF SysTyped, S!Unlock
<1>9. ASSUME NEW p \in Piu, S!Release(p) PROVE SysTyped'
  BY <1>9 DEF S!Release, SysTyped, S!TypeOK, SysAlone
<1> QED BY <1>1, <1>2, <1>3, <1>4, <1>5, <1>6, <1>7, <1>8, <1>9 DEF S!Next

-----------------------------------------------------------------------------
(* Sys: the reads and the resets.  A read has what comes next of the       *)
(* EEPROM, and the locals say how much; one of whole pieces has not yet    *)
(* got all, and ends a piece unless the EEPROM ends.  A store that has     *)
(* read the register keeps every bit that is still set, and what is set    *)
(* was asked for.                                                          *)

SysInOrder(c) ==
  sys_op[c].kind = "eeprom" =>
    /\ off = sys_op[c].off + Len(buf) /\ count = sys_op[c].count - Len(buf)
    /\ \A i \in 1..Len(buf) : buf[i] = sys_op[c].off + i - 1
    /\ sys_at[c] = "eeprom" => retval = Len(buf)
    /\ retval > 0 => retval = Len(buf)

SysPieces(c) ==
  sys_op[c].kind = "eeprom" /\ S!Whole(sys_op[c].count) =>
    /\ Len(buf) <= sys_op[c].count
    /\ sys_at[c] = "eeprom" =>
         Len(buf) < sys_op[c].count /\ (off >= FruSize \/ S!Whole(Len(buf)))

SysIdle == (\A c \in User : sys_at[c] = "idle") => off = 0 /\ count = 0 /\ retval = 0 /\ buf = <<>>

SysWrites(c) ==
  /\ sys_at[c] \in {"store", "write"} => sys_op[c].piu \in asked
  /\ sys_at[c] = "write" /\ ~garbled => reg \subseteq v /\ v \cap Piu \subseteq asked

SysRead == ~sys_degraded => \A c \in User : SysInOrder(c) /\ SysPieces(c)

SysReset == S!ResetsWereAsked /\ \A c \in User : SysWrites(c)

SysInv == SysTyped /\ SysIdle /\ SysRead /\ SysReset

LEMMA SysInvInit == S!Init => SysInv
PROOF
<1> SUFFICES ASSUME S!Init PROVE SysInv
  OBVIOUS
<1>1. SysTyped
  BY SysTypedInit
<1>2. \A c \in User : sys_at[c] = "idle" /\ sys_op[c].kind = "none"
  BY DEF S!Init, S!None
<1> QED BY <1>1, <1>2, SysAssumption
    DEF S!Init, S!ConstantsOK, SysInv, SysIdle, SysRead, SysReset, SysInOrder, SysPieces, SysWrites, S!ResetsWereAsked

LEMMA SysNextPiece ==
  ASSUME NEW r \in Nat \ {0}, NEW a \in Nat, NEW b \in Nat, a < b,
         NEW k \in Nat, NEW m \in Nat, a = k * r, b = m * r
  PROVE  a + r <= b /\ a + r = (k + 1) * r
PROOF
<1>1. k < m
  <2>1. k >= m => k * r >= m * r
    OBVIOUS
  <2> QED BY <2>1
<1>2. (k + 1) * r = k * r + r
  OBVIOUS
<1>3. k + 1 <= m => (k + 1) * r <= m * r
  OBVIOUS
<1> QED BY <1>1, <1>2, <1>3

(* A read that goes on has the next bytes, as many as it counts.           *)
LEMMA SysGoesOnRead ==
  ASSUME SysInv, NEW c \in User, sys_at[c] = "eeprom", sys_op[c].kind = "eeprom", sys_op' = sys_op,
         ~sys_degraded, ~sys_degraded', NEW reply \in SysReply, SysGoesOn(c, reply)
  PROVE  SysInOrder(c)' /\ SysPieces(c)'
PROOF
<1> DEFINE first == sys_op[c].off
           all == sys_op[c].count
           l == Len(buf)
           n == reply.n
<1>1. /\ first \in Nat /\ all \in Nat /\ l \in Nat /\ n \in Nat
      /\ ReadLen \in Nat \ {0} /\ FruSize \in Nat
  BY SysHandler, SysAssumption, LenProperties
     DEF SysInv, SysTyped, S!TypeOK, SysAlone, S!ConstantsOK, SysReply
<1>2. /\ off = first + l /\ count = all - l /\ retval = l
      /\ \A i \in 1..l : buf[i] = first + i - 1
  BY DEF SysInv, SysRead, SysInOrder
<1>3. /\ buf' = buf \o S!Bytes(reply)
      /\ off' = off + n /\ count' = count - n /\ retval' = retval + n
      /\ sys_at' = [sys_at EXCEPT ![c] = IF count' = 0 THEN "done" ELSE "eeprom"]
      /\ off < FruSize /\ n > 0 /\ reply.from = off
      /\ n = IF off + ReadLen > FruSize THEN FruSize - off ELSE ReadLen
  BY DEF SysGoesOn, S!GoOn, S!Reply
<1>4. /\ Len(buf') = l + n
      /\ \A i \in 1..l : buf'[i] = buf[i]
      /\ \A i \in l + 1..l + n : buf'[i] = off + (i - l) - 1
  BY <1>3, SysAppend DEF SysInv, SysTyped, S!TypeOK
<1>5. sys_at'[c] = IF count' = 0 THEN "done" ELSE "eeprom"
  BY <1>3 DEF SysInv, SysTyped, S!TypeOK
<1>6. S!Whole(all) => l < all /\ (off >= FruSize \/ S!Whole(l))
  BY DEF SysInv, SysRead, SysPieces
<1> HIDE DEF first, all, l, n
<1>7. /\ ~(off >= FruSize)
      /\ n = ReadLen \/ (n < ReadLen /\ off + n = FruSize)
  BY <1>1, <1>2, <1>3
<1>8. off' = first + (l + n) /\ count' = all - (l + n) /\ retval' = l + n
  BY <1>1, <1>2, <1>3
<1>9. \A i \in 1..l + n : buf'[i] = first + i - 1
  <2> SUFFICES ASSUME NEW i \in 1..l + n PROVE buf'[i] = first + i - 1
    OBVIOUS
  <2>1. i \in 1..l \/ i \in l + 1..l + n
    BY <1>1
  <2>2. ASSUME i \in l + 1..l + n PROVE off + (i - l) - 1 = first + i - 1
    BY <1>1, <1>2, <2>2
  <2> QED BY <1>2, <1>4, <2>1, <2>2
<1>10. SysInOrder(c)'
  BY <1>4, <1>8, <1>9 DEF SysInOrder, first, all
<1>11. sys_at'[c] = "eeprom" => l + n # all
  BY <1>1, <1>5, <1>8
<1>12. ASSUME S!Whole(all)
       PROVE  /\ l + n <= all
              /\ l + n = all \/ off' >= FruSize \/ S!Whole(l + n)
              /\ l + n = all \/ l + n < all
  <2>1. PICK m \in Nat : all = m * ReadLen
    BY <1>1, <1>12 DEF S!Whole
  <2>2. PICK k \in 0..l : l = k * ReadLen
    BY <1>6, <1>7, <1>12 DEF S!Whole
  <2>3. k \in Nat /\ k <= l
    BY <1>1, <2>2
  <2>4. l + ReadLen <= all /\ l + ReadLen = (k + 1) * ReadLen
    BY <1>1, <1>6, <1>12, <2>1, <2>2, <2>3, SysNextPiece
  <2>5. l + n <= all
    BY <1>1, <1>7, <2>4
  <2>6. n < ReadLen => off' >= FruSize
    BY <1>1, <1>3, <1>7
  <2>7. n = ReadLen => S!Whole(l + n)
    <3>1. k + 1 \in 0..l + ReadLen
      BY <1>1, <2>3
    <3> QED BY <2>4, <3>1 DEF S!Whole
  <2> QED BY <1>1, <1>7, <2>5, <2>6, <2>7
<1>13. SysPieces(c)'
  <2>1. S!Whole(all)' <=> S!Whole(all)
    BY DEF all, S!Whole
  <2> QED BY <1>4, <1>11, <1>12, <2>1 DEF SysPieces, all
<1> QED BY <1>10, <1>13

LEMMA SysEndsServed ==
  ASSUME SysInv, NEW c \in User, S!Answered(c) \/ S!Fails(c)
  PROVE  SysIdle' /\ SysRead' /\ SysReset'
PROOF
<1>1. SysEnd(c)
  BY SysEnds DEF SysInv
<1>2. /\ sys_at[c] = "eeprom" /\ sys_op[c].kind = "eeprom"
      /\ \A d \in User \ {c} : sys_op[d].kind = "none"
      /\ (~sys_degraded' => ~sys_degraded)
      /\ UNCHANGED <<sys_op, v, reg, asked, garbled>>
  BY SysInRead DEF SysInv, S!None
<1>3. sys_at' = [sys_at EXCEPT ![c] = sys_at'[c]] /\ sys_at'[c] \in {"eeprom", "done"}
  BY <1>1 DEF SysEnd, SysStops, SysGoesOn, S!GoOn, SysInv, SysTyped, S!TypeOK
<1>4. \A d \in User \ {c} : sys_at'[d] = sys_at[d]
  BY <1>3 DEF SysInv, SysTyped, S!TypeOK
<1>5. SysIdle'
  BY <1>3 DEF SysIdle
<1>6. SysReset'
  BY <1>2, <1>3, <1>4 DEF SysInv, SysReset, SysWrites, S!ResetsWereAsked
<1>7. ASSUME ~sys_degraded' PROVE SysInOrder(c)' /\ SysPieces(c)'
  <2>1. CASE SysStops(c)
    <3>1. /\ sys_at'[c] = "done" /\ UNCHANGED <<off, count, buf>>
          /\ retval = Len(buf)
          /\ retval' \in IF retval = 0 THEN {0, -1} ELSE {retval}
      BY <1>2, <1>7, <2>1 DEF SysStops, SysInv, SysTyped, S!TypeOK, SysRead, SysInOrder
    <3>2. retval' > 0 => retval' = Len(buf)
      BY <3>1
    <3> QED BY <1>2, <1>7, <3>1, <3>2 DEF SysInv, SysRead, SysInOrder, SysPieces, S!Whole
  <2>2. ASSUME NEW reply \in SysReply, SysGoesOn(c, reply) PROVE SysInOrder(c)' /\ SysPieces(c)'
    BY <1>2, <1>7, <2>2, SysGoesOnRead
  <2> QED BY <1>1, <2>1, <2>2 DEF SysEnd
<1>8. SysRead'
  BY <1>2, <1>7 DEF SysRead, SysInOrder, SysPieces
<1> QED BY <1>5, <1>6, <1>8

LEMMA SysLockServed ==
  ASSUME SysInv, NEW c \in User, NEW o \in S!Handler, S!Lock(c, o)
  PROVE  SysIdle' /\ SysRead' /\ SysReset'
PROOF
<1>1. /\ o.kind \in {"eeprom", "show", "store", "regs", "ignored"}
      /\ o.kind = "eeprom" => o.off \in Nat /\ o.count \in Nat \ {0}
  BY SysHandler
<1>2. \A d \in User : sys_at[d] = "idle" /\ sys_op[d].kind = "none"
  BY DEF SysInv, SysTyped, SysAlone, S!None, S!Lock, S!Service!Enter
<1>3. /\ sys_at' = [sys_at EXCEPT ![c] = IF o.kind = "ignored" THEN "done" ELSE o.kind]
      /\ sys_op' = [sys_op EXCEPT ![c] = o]
      /\ o.kind = "eeprom" => off' = o.off /\ count' = o.count
      /\ UNCHANGED <<retval, buf, v, reg, garbled>>
      /\ asked' = IF o.kind = "store" THEN asked \cup {o.piu} ELSE asked
  BY DEF S!Lock, S!Goto, S!locals
<1>4. /\ sys_at'[c] = (IF o.kind = "ignored" THEN "done" ELSE o.kind) /\ sys_op'[c] = o
      /\ \A d \in User \ {c} : sys_at'[d] = "idle" /\ sys_op'[d].kind = "none"
  BY <1>2, <1>3 DEF SysInv, SysTyped, S!TypeOK
<1>5. retval' = 0 /\ buf' = <<>> /\ Len(buf') = 0
  BY <1>2, <1>3 DEF SysInv, SysIdle
<1>6. SysIdle'
  BY <1>1, <1>4 DEF SysIdle
<1>7. SysInOrder(c)'
  BY <1>1, <1>3, <1>4, <1>5 DEF SysInOrder
<1>8. SysPieces(c)'
  <2>1. S!Whole(0)
    BY SysAssumption DEF S!Whole, S!ConstantsOK
  <2>2. o.kind = "eeprom" => 0 < o.count
    BY <1>1
  <2> QED BY <1>1, <1>4, <1>5, <2>1, <2>2 DEF SysPieces, S!Whole
<1>9. SysRead'
  BY <1>4, <1>7, <1>8 DEF SysRead, SysInOrder, SysPieces
<1>10. SysReset'
  BY <1>1, <1>3, <1>4 DEF SysInv, SysReset, SysWrites, S!ResetsWereAsked
<1> QED BY <1>6, <1>9, <1>10

LEMMA SysInvStep == SysInv /\ [S!Next]_sys => SysInv'
PROOF
<1> SUFFICES ASSUME SysInv, [S!Next]_sys PROVE SysIdle' /\ SysRead' /\ SysReset'
  BY SysTypedStep DEF SysInv
<1> USE DEF S!service, S!locals, S!fpga
<1>1. CASE UNCHANGED sys
  BY <1>1 DEF sys, SysInv, SysIdle, SysRead, SysInOrder, SysPieces, S!Whole,
              SysReset, SysWrites, S!ResetsWereAsked
<1>2. ASSUME NEW c \in User, NEW o \in S!Handler, S!Lock(c, o) PROVE SysIdle' /\ SysRead' /\ SysReset'
  BY <1>2, SysLockServed
<1>3. ASSUME NEW c \in User, S!Send(c) PROVE SysIdle' /\ SysRead' /\ SysReset'
  BY <1>3 DEF S!Send, S!Service!Send, SysInv, SysIdle, SysRead, SysInOrder, SysPieces, S!Whole,
              SysReset, SysWrites, S!ResetsWereAsked
<1>4. ASSUME NEW c \in User, S!Answered(c) \/ S!Fails(c) PROVE SysIdle' /\ SysRead' /\ SysReset'
  BY <1>4, SysEndsServed
(* The steps at the FPGA: the process is in no read, and nobody else is.   *)
<1>5. ASSUME NEW c \in User, sys_at[c] # "idle", sys_op[c].kind # "eeprom", sys_op' = sys_op,
             sys_at' = [sys_at EXCEPT ![c] = sys_at'[c]], sys_at'[c] # "idle"
      PROVE  /\ SysIdle' /\ SysRead'
             /\ \A d \in User \ {c} : sys_at'[d] = "idle"
  <2>1. \A d \in User \ {c} : sys_at[d] = "idle" /\ sys_op[d].kind = "none"
    BY <1>5, SysOthersIdle DEF SysInv, SysTyped, SysAlone, S!None
  <2>2. \A d \in User \ {c} : sys_at'[d] = "idle"
    BY <1>5, <2>1 DEF SysInv, SysTyped, S!TypeOK
  <2> QED BY <1>5, <2>1, <2>2 DEF SysIdle, SysRead, SysInOrder, SysPieces
<1>6. ASSUME NEW c \in User, S!ReadByte(c) PROVE SysIdle' /\ SysRead' /\ SysReset'
  <2>1. /\ sys_at[c] \in {"show", "store"} /\ sys_op[c].kind = sys_at[c] /\ sys_op' = sys_op
        /\ sys_at' = [sys_at EXCEPT ![c] = sys_at'[c]]
        /\ sys_at'[c] = (IF sys_at[c] = "store" THEN "write" ELSE "done")
        /\ UNCHANGED <<reg, asked>> /\ (~garbled' => ~garbled /\ v' = reg)
    BY <1>6 DEF S!ReadByte, S!Goto, SysInv, SysTyped, S!TypeOK, SysAlone
  <2>2. SysIdle' /\ SysRead' /\ \A d \in User \ {c} : sys_at'[d] = "idle"
    BY <1>5, <2>1
  <2> QED BY <2>1, <2>2 DEF SysInv, SysReset, SysWrites, S!ResetsWereAsked
<1>7. ASSUME NEW c \in User, S!WriteByte(c) PROVE SysIdle' /\ SysRead' /\ SysReset'
  <2>1. /\ sys_at[c] = "write" /\ sys_op[c].kind = "store" /\ sys_op' = sys_op
        /\ sys_at' = [sys_at EXCEPT ![c] = sys_at'[c]] /\ sys_at'[c] = "done"
        /\ UNCHANGED <<asked, garbled>> /\ reg' \in {reg, v \cup {sys_op[c].piu}}
    BY <1>7 DEF S!WriteByte, S!Goto, SysInv, SysTyped, S!TypeOK, SysAlone
  <2>2. SysIdle' /\ SysRead' /\ \A d \in User \ {c} : sys_at'[d] = "idle"
    BY <1>5, <2>1
  <2>3. ~garbled => v \cap Piu \subseteq asked /\ sys_op[c].piu \in asked /\ reg \cap Piu \subseteq asked
    BY <2>1 DEF SysInv, SysReset, SysWrites, S!ResetsWereAsked
  <2> QED BY <2>1, <2>2, <2>3 DEF SysReset, SysWrites, S!ResetsWereAsked
<1>8. ASSUME NEW c \in User, S!ReadRegisters(c) PROVE SysIdle' /\ SysRead' /\ SysReset'
  <2>1. /\ sys_at[c] = "regs" /\ sys_op[c].kind = "regs" /\ sys_op' = sys_op
        /\ sys_at' = [sys_at EXCEPT ![c] = sys_at'[c]] /\ sys_at'[c] = "done"
        /\ UNCHANGED <<v, reg, asked, garbled>>
    BY <1>8 DEF S!ReadRegisters, S!Goto, SysInv, SysTyped, S!TypeOK, SysAlone
  <2>2. SysIdle' /\ SysRead' /\ \A d \in User \ {c} : sys_at'[d] = "idle"
    BY <1>5, <2>1
  <2> QED BY <2>1, <2>2 DEF SysInv, SysReset, SysWrites, S!ResetsWereAsked
<1>9. ASSUME NEW c \in User, S!Unlock(c) PROVE SysIdle' /\ SysRead' /\ SysReset'
  <2>1. \A d \in User : sys_at'[d] = "idle" /\ sys_op'[d].kind = "none"
    BY <1>9, SysOthersIdle DEF S!Unlock, SysInv, SysTyped, S!TypeOK, SysAlone, S!None
  <2> QED BY <1>9, <2>1
      DEF S!Unlock, SysInv, SysIdle, SysRead, SysInOrder, SysPieces, SysReset, SysWrites, S!ResetsWereAsked
<1>10. ASSUME NEW p \in Piu, S!Release(p) PROVE SysIdle' /\ SysRead' /\ SysReset'
  BY <1>10 DEF S!Release, SysInv, SysIdle, SysRead, SysInOrder, SysPieces, S!Whole,
               SysReset, SysWrites, S!ResetsWereAsked
<1> QED BY <1>1, <1>2, <1>3, <1>4, <1>6, <1>7, <1>8, <1>9, <1>10 DEF S!Next

LEMMA SysShows ==
  SysInv => S!TypeOK /\ S!ReadsInOrder /\ S!WholePiecesFit /\ S!ResetsWereAsked
PROOF
<1> SUFFICES ASSUME SysInv PROVE S!ReadsInOrder /\ S!WholePiecesFit
  BY DEF SysInv, SysTyped, SysReset
<1>1. Len(buf) \in Nat /\ retval \in Int
  BY LenProperties DEF SysInv, SysTyped, S!TypeOK
<1> QED BY <1>1 DEF SysInv, SysRead, SysInOrder, SysPieces, S!ReadsInOrder, S!WholePiecesFit, S!Ends

(* Only a store and the FPGA change the register.                          *)
LEMMA SysSets ==
  SysInv /\ [S!Next]_sys => [~garbled' /\ ~(\E p \in Piu : S!Release(p)) => reg \subseteq reg']_reg
PROOF
<1> SUFFICES ASSUME SysInv, S!Next, ~garbled', \A p \in Piu : ~S!Release(p)
             PROVE  reg \subseteq reg'
  BY DEF sys
<1> USE DEF S!service, S!locals, S!fpga
<1>1. ASSUME NEW c \in User, S!WriteByte(c) PROVE reg \subseteq reg'
  BY <1>1 DEF S!WriteByte, S!Goto, SysInv, SysReset, SysWrites
<1>2. ASSUME NEW c \in User,
             \/ \E o \in S!Handler : S!Lock(c, o)
             \/ S!Send(c) \/ S!Answered(c) \/ S!Fails(c) \/ S!ReadByte(c)
             \/ S!ReadRegisters(c) \/ S!Unlock(c)
      PROVE  reg \subseteq reg'
  BY <1>2 DEF S!Lock, S!Send, S!Answered, S!Fails, S!ReadByte, S!ReadRegisters, S!Unlock
<1> QED BY <1>1, <1>2 DEF S!Next

-----------------------------------------------------------------------------
(* The four drivers together.                                              *)

DriversInv == Cached /\ FanInv /\ ThInv /\ SysInv

LEMMA EachMoves ==
  [DriversNext]_<<part, vars, fan, thermal, sys>> =>
    [Next]_vars /\ [F!Next]_fan /\ [T!Next]_thermal /\ [S!Next]_sys
  BY DEF DriversNext

LEMMA DriversInvariant == Drivers => []DriversInv
PROOF
<1>1. DriversInit => DriversInv
  BY CachedInit, FanInvInit, ThInvInit, SysInvInit DEF DriversInit, DriversInv
<1>2. DriversInv /\ [DriversNext]_<<part, vars, fan, thermal, sys>> => DriversInv'
  BY EachMoves, CachedStep, FanInvStep, ThInvStep, SysInvStep DEF DriversInv
<1> QED BY <1>1, <1>2, PTL DEF Drivers

(* Each of the four drivers is well typed.                                 *)
THEOREM DriversTyped == Drivers => []DriversTypeOK
PROOF
<1>1. DriversInv => DriversTypeOK
  BY FanShows, ThShows, SysShows DEF DriversInv, Cached, Typed, DriversTypeOK
<1> QED BY <1>1, DriversInvariant, PTL

(* What a show of the fan or the thermal driver prints, its fan or sensor  *)
(* reported within five seconds, and it is one whole record, whichever     *)
(* refreshes failed before, until a message times out.                     *)
THEOREM ShownIsRecent == Drivers => []ShowsRecent
PROOF
<1>1. DriversInv => ShowsRecent
  BY FanShows, ThShows DEF DriversInv, ShowsRecent
<1> QED BY <1>1, DriversInvariant, PTL

(* A read of the EEPROM returns the bytes it was asked for, in order,      *)
(* whichever of its messages fails or comes short, and one of whole pieces *)
(* never gets more than it has room for, until a message times out.        *)
THEOREM ReadInOrder == Drivers => []ReadsInOrder
PROOF
<1>1. DriversInv => ReadsInOrder
  BY SysShows DEF DriversInv, ReadsInOrder
<1> QED BY <1>1, DriversInvariant, PTL

(* A store of the fan or the thermal driver that reports success has done  *)
(* what it was asked for; no PIU is reset that nobody asked for; and a     *)
(* store clears no bit of the FPGA's register, whatever the FPGA and other *)
(* stores do between its read and its write, unless a read of the FPGA has *)
(* failed.                                                                 *)
THEOREM StoredAsAsked == Drivers => StoresAsAsked
PROOF
<1>1. DriversInv => /\ part = "fan" => F!SuccessIsTrue
                    /\ part = "thermal" => T!StoredUnlessRefused
                    /\ part = "sys" => S!ResetsWereAsked
  BY FanShows, ThShows, SysShows DEF DriversInv
<1>2. DriversInv /\ [DriversNext]_<<part, vars, fan, thermal, sys>> =>
        [~garbled' /\ ~(\E p \in Piu : S!Release(p)) => reg \subseteq reg']_reg
  BY EachMoves, SysSets DEF DriversInv
<1>3. Drivers => [][~garbled' /\ ~(\E p \in Piu : S!Release(p)) => reg \subseteq reg']_reg
  BY <1>2, DriversInvariant, PTL DEF Drivers
<1>4. Drivers => []((part = "fan" => F!SuccessIsTrue) /\ (part = "thermal" => T!StoredUnlessRefused)
                    /\ (part = "sys" => S!ResetsWereAsked))
  BY <1>1, DriversInvariant, PTL
<1> QED BY <1>3, <1>4 DEF StoresAsAsked, S!StoresOnlySet

=============================================================================
