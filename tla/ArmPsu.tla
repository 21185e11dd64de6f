------------------------------- MODULE ArmPsu ------------------------------
(***************************************************************************)
(* The arm64 power supply driver: what two power supplies report over a    *)
(* CAN bus, held for five seconds, and the speed of their fans, which a    *)
(* write changes. Each unit answers requests for one of four frames: PDO1  *)
(* (the type and the speed that is set), PDO4 or PDO3 (the power, from a   *)
(* DC or an AC unit) and PDO2 (the speeds of the fans).                    *)
(***************************************************************************)
EXTENDS Integers

CONSTANTS Caller, NoCaller,
          Unit,
          Request,  \* the speeds that are asked for
          Speed,    \* the speeds that a unit is set to when it is plugged
          Word,     \* the words of a power frame
          Hold      \* the ticks a reading is held: five seconds

ConstantsOK ==
  /\ NoCaller \notin Caller
  /\ Request \subseteq Int /\ Speed \subseteq 0..255
  /\ \A word \in Word : word \in Nat /\ word < 32 * 2048
  /\ Hold \in Nat \ {0}

VARIABLES mutex, job, at,   \* the lock's holder; a process: its call, its step
          work,             \* what an update has read so far
          psu_data, valid,
          last_updated,     \* ticks since, up to Hold
          plugged, pwm,     \* a unit is there; the speed it is set to
          out,              \* ticks since it was pulled, up to Hold
          changed,          \* another one may be there since it was read
          touched           \* a speed was set since the last update

process == <<mutex, job, at, work>>
cache == <<psu_data, valid, last_updated>>
units == <<plugged, pwm, out>>
vars == <<process, cache, units, changed, touched>>

Show(p) == [kind |-> "show", psu |-> p, value |-> 0]
Set(p, v) == [kind |-> "set", psu |-> p, value |-> v]
None == [kind |-> "none"]
Job == {Show(p) : p \in Unit} \cup {Set(p, v) : p \in Unit, v \in Request}
Unread == [status |-> 0, type |-> "not-present", vin |-> -1, rpm |-> -1, pwm |-> -1]

Init ==
  /\ mutex = NoCaller /\ job = [c \in Caller |-> None] /\ at = [c \in Caller |-> "idle"]
  /\ work = Unread
  /\ psu_data = [p \in Unit |-> [status |-> 0, type |-> "not-present", vin |-> 0, rpm |-> 0, pwm |-> 0]]
  /\ valid = [p \in Unit |-> FALSE] /\ last_updated = [p \in Unit |-> Hold]
  /\ plugged \in [Unit -> BOOLEAN] /\ pwm \in [Unit -> Speed] /\ out = [p \in Unit |-> Hold]
  /\ changed = [p \in Unit |-> TRUE] /\ touched = [p \in Unit |-> FALSE]

Psu(c) == job[c].psu
Goto(c, to) == at' = [at EXCEPT ![c] = to]

-----------------------------------------------------------------------------
(* The words of a power frame, in thousandths.                             *)

(* 1 << n *)
Power(n) == <<1, 2, 4, 8, 16, 32, 64, 128, 256, 512, 1024, 2048, 4096, 8192, 16384, 32768, 65536>>[n + 1]

(* Mutant: the one is not added. *)
one_complement_to_int(word, valid_bit) ==
  IF word \div Power(valid_bit - 1) = 1 THEN -(Power(valid_bit) - 1 - word) ELSE word

two_complement_to_int(word, valid_bit) ==
  IF word \div Power(valid_bit - 1) = 1 THEN -((Power(valid_bit) - 1 - word) + 1) ELSE word

(* Five bits of exponent, eleven of mantissa. C divides towards zero. *)
Linear(word) ==
  LET exponent == two_complement_to_int(word \div 2048, 5)
      mantissa == two_complement_to_int(word % 2048, 11) IN
  IF exponent >= 0 THEN mantissa * Power(exponent) * 1000
  ELSE IF mantissa >= 0 THEN (mantissa * 1000) \div Power(-exponent)
  ELSE -((-mantissa * 1000) \div Power(-exponent))

Vin(type, word) == IF type = "DC" THEN Linear(word) ELSE (word * 10000 + 180000) \div 2207

-----------------------------------------------------------------------------
(* Every call: take the lock, and read the unit unless what is held is     *)
(* valid and young.                                                        *)

Enter(c, j) ==
  /\ at[c] = "idle" /\ Goto(c, "lock") /\ job' = [job EXCEPT ![c] = j]
  /\ UNCHANGED <<mutex, work, cache, units, changed, touched>>

AfterUpdate(c) == IF job[c].kind = "show" THEN "answer" ELSE "set"

(* Mutant: readings do not grow old. *)
LockUnexpired(c) ==
  /\ at[c] = "lock" /\ mutex = NoCaller /\ mutex' = c
  /\ IF valid[Psu(c)] THEN Goto(c, AfterUpdate(c)) /\ UNCHANGED valid
     ELSE Goto(c, "PDO1") /\ valid' = [valid EXCEPT ![Psu(c)] = FALSE]
  /\ UNCHANGED <<job, work, psu_data, last_updated, units, changed, touched>>

(* Mutant: nobody waits. *)
LockAtOnce(c) ==
  /\ at[c] = "lock" /\ mutex' = c
  /\ IF last_updated[Psu(c)] < Hold /\ valid[Psu(c)]
     THEN Goto(c, AfterUpdate(c)) /\ UNCHANGED valid
     ELSE Goto(c, "PDO1") /\ valid' = [valid EXCEPT ![Psu(c)] = FALSE]
  /\ UNCHANGED <<job, work, psu_data, last_updated, units, changed, touched>>

Lock(c) ==
  /\ at[c] = "lock" /\ mutex = NoCaller /\ mutex' = c
  /\ IF last_updated[Psu(c)] < Hold /\ valid[Psu(c)]
     THEN Goto(c, AfterUpdate(c)) /\ UNCHANGED valid
     ELSE Goto(c, "PDO1") /\ valid' = [valid EXCEPT ![Psu(c)] = FALSE]
  /\ UNCHANGED <<job, work, psu_data, last_updated, units, changed, touched>>

(* A request is sent and its answer is looked for four times: a unit that  *)
(* is there may answer too late, one that is not there never does.         *)
Answers(c) == plugged[Psu(c)]

(* Mutant: the answer of a unit that is there is waited for. *)
ReadPDO1Forever(c) ==
  /\ at[c] = "PDO1" /\ Answers(c)
  /\ Goto(c, "power")
  /\ \E type \in {"DC", "AC"} :
       work' = [work EXCEPT !.status = 1, !.type = type, !.pwm = pwm[Psu(c)]]
  /\ changed' = [changed EXCEPT ![Psu(c)] = FALSE]
  /\ UNCHANGED <<mutex, job, cache, units, touched>>

ReadPDO1(c) ==
  /\ at[c] = "PDO1"
  /\ \/ /\ Answers(c)
        /\ Goto(c, "power")
        /\ \E type \in {"DC", "AC"} :
             work' = [work EXCEPT !.status = 1, !.type = type, !.pwm = pwm[Psu(c)]]
        /\ changed' = [changed EXCEPT ![Psu(c)] = FALSE]
        /\ UNCHANGED <<psu_data, touched>>
     \/ /\ psu_data' = [psu_data EXCEPT ![Psu(c)] = Unread]
        /\ Goto(c, AfterUpdate(c))
        /\ touched' = [touched EXCEPT ![Psu(c)] = FALSE]
        /\ UNCHANGED <<work, changed>>
  /\ UNCHANGED <<mutex, job, valid, last_updated, units>>

(* Without the power frame the update goes on. *)
ReadPower(c) ==
  /\ at[c] = "power" /\ Goto(c, "PDO2")
  /\ \/ Answers(c) /\ \E word \in Word : work' = [work EXCEPT !.vin = Vin(work.type, word)]
     \/ UNCHANGED work
  /\ UNCHANGED <<mutex, job, cache, units, changed, touched>>

(* Mutant: an update without the speeds of the fans is valid. *)
ReadFansValid(c) ==
  /\ at[c] = "PDO2" /\ Goto(c, AfterUpdate(c))
  /\ valid' = [valid EXCEPT ![Psu(c)] = TRUE] /\ last_updated' = [last_updated EXCEPT ![Psu(c)] = 0]
  /\ \/ Answers(c) /\ psu_data' = [psu_data EXCEPT ![Psu(c)] = [work EXCEPT !.rpm = 1]]
     \/ psu_data' = [psu_data EXCEPT ![Psu(c)] = work]
  /\ work' = Unread /\ touched' = [touched EXCEPT ![Psu(c)] = FALSE]
  /\ UNCHANGED <<mutex, job, units, changed>>

(* Without the fans' the unit is read again by the next call; what was     *)
(* read so far is kept.                                                    *)
ReadFans(c) ==
  /\ at[c] = "PDO2" /\ Goto(c, AfterUpdate(c))
  /\ \/ /\ Answers(c)
        /\ psu_data' = [psu_data EXCEPT ![Psu(c)] = [work EXCEPT !.rpm = 1]]
        /\ valid' = [valid EXCEPT ![Psu(c)] = TRUE]
        /\ last_updated' = [last_updated EXCEPT ![Psu(c)] = 0]
     \/ /\ psu_data' = [psu_data EXCEPT ![Psu(c)] = work]
        /\ UNCHANGED <<valid, last_updated>>
  /\ work' = Unread /\ touched' = [touched EXCEPT ![Psu(c)] = FALSE]
  /\ UNCHANGED <<mutex, job, units, changed>>

Unlock(c) ==
  /\ at[c] = "answer" /\ Goto(c, "idle") /\ job' = [job EXCEPT ![c] = None]
  /\ mutex' = NoCaller
  /\ UNCHANGED <<work, cache, units, changed, touched>>

-----------------------------------------------------------------------------
(* pus_fan_pwm_set, which the call goes on to whatever the update brought: *)
(* data->valid, the array, is never null.                                  *)

Clip(p) == IF p < 30 THEN 30 ELSE p

(* The readings are not valid while the speed is set. *)
SetBegin(c) ==
  /\ at[c] = "set"
  /\ IF job[c].value = 0 THEN Goto(c, "answer") /\ UNCHANGED valid
     ELSE Goto(c, "get") /\ valid' = [valid EXCEPT ![Psu(c)] = FALSE]
  /\ UNCHANGED <<mutex, job, work, psu_data, last_updated, units, changed, touched>>

(* The unit's byte is compared with the number: above 255 they differ. *)
GetPwm(c) ==
  /\ at[c] = "get"
  /\ \/ /\ Answers(c)
        /\ Goto(c, IF pwm[Psu(c)] # Clip(job[c].value) THEN "put" ELSE "kept")
        /\ changed' = [changed EXCEPT ![Psu(c)] = FALSE]
     \/ Goto(c, "answer") /\ UNCHANGED changed
  /\ UNCHANGED <<mutex, job, work, cache, units, touched>>

(* One byte of the frame has the speed. *)
PutPwm(c) ==
  /\ at[c] = "put"
  /\ \/ /\ Goto(c, "kept")
        /\ pwm' = IF plugged[Psu(c)] THEN [pwm EXCEPT ![Psu(c)] = Clip(job[c].value) % 256] ELSE pwm
     \/ Goto(c, "answer") /\ UNCHANGED pwm
  /\ UNCHANGED <<mutex, job, work, cache, plugged, out, changed, touched>>

(* Mutant: the speed that was asked for is shown. *)
KeepAsked(c) ==
  /\ at[c] = "kept" /\ Goto(c, "answer")
  /\ psu_data' = [psu_data EXCEPT ![Psu(c)].pwm = job[c].value]
  /\ valid' = [valid EXCEPT ![Psu(c)] = TRUE] /\ last_updated' = [last_updated EXCEPT ![Psu(c)] = 0]
  /\ touched' = [touched EXCEPT ![Psu(c)] = TRUE]
  /\ UNCHANGED <<mutex, job, work, units, changed>>

(* All the readings count as new from here on. *)
Keep(c) ==
  /\ at[c] = "kept" /\ Goto(c, "answer")
  /\ psu_data' = [psu_data EXCEPT ![Psu(c)].pwm = Clip(job[c].value)]
  /\ valid' = [valid EXCEPT ![Psu(c)] = TRUE] /\ last_updated' = [last_updated EXCEPT ![Psu(c)] = 0]
  /\ touched' = [touched EXCEPT ![Psu(c)] = TRUE]
  /\ UNCHANGED <<mutex, job, work, units, changed>>

-----------------------------------------------------------------------------
(* The units and the time. A call takes less than a tick.                  *)

Pull(p) ==
  /\ plugged[p] /\ plugged' = [plugged EXCEPT ![p] = FALSE]
  /\ out' = [out EXCEPT ![p] = 0] /\ changed' = [changed EXCEPT ![p] = TRUE]
  /\ UNCHANGED <<process, cache, pwm, touched>>

Plug(p) ==
  /\ ~plugged[p] /\ plugged' = [plugged EXCEPT ![p] = TRUE]
  /\ \E s \in Speed : pwm' = [pwm EXCEPT ![p] = s]
  /\ changed' = [changed EXCEPT ![p] = TRUE]
  /\ UNCHANGED <<process, cache, out, touched>>

Later(ticks) == IF ticks < Hold THEN ticks + 1 ELSE ticks
Tick ==
  /\ mutex = NoCaller
  /\ last_updated' = [p \in Unit |-> Later(last_updated[p])]
  /\ out' = [p \in Unit |-> Later(out[p])]
  /\ UNCHANGED <<process, psu_data, valid, plugged, pwm, changed, touched>>

Step(c) ==
  \/ Lock(c) \/ ReadPDO1(c) \/ ReadPower(c) \/ ReadFans(c) \/ Unlock(c)
  \/ SetBegin(c) \/ GetPwm(c) \/ PutPwm(c) \/ Keep(c)

Next ==
  \/ \E c \in Caller : Step(c) \/ \E j \in Job : Enter(c, j)
  \/ \E p \in Unit : Pull(p) \/ Plug(p)
  \/ Tick

Spec == Init /\ [][Next]_vars

-----------------------------------------------------------------------------
(* Properties.                                                             *)

(* Among the rest: a process past the lock has it. *)
TypeOK ==
  /\ mutex \in Caller \cup {NoCaller} /\ job \in [Caller -> Job \cup {None}]
  /\ \A c \in Caller : (at[c] \notin {"idle", "lock"}) <=> mutex = c
  /\ valid \in [Unit -> BOOLEAN] /\ last_updated \in [Unit -> 0..Hold]
  /\ plugged \in [Unit -> BOOLEAN] /\ pwm \in [Unit -> 0..255] /\ out \in [Unit -> 0..Hold]
  /\ changed \in [Unit -> BOOLEAN] /\ touched \in [Unit -> BOOLEAN]

(* No show reports a unit that has been out for as long as readings are    *)
(* held, although each change of the fans' speed makes them new again.     *)
PulledIsNoticed ==
  \A c \in Caller : at[c] = "answer" /\ job[c].kind = "show" /\ psu_data[Psu(c)].status = 1 =>
    plugged[Psu(c)] \/ out[Psu(c)] < Hold

(* The speed that is held as valid is, up to the width of its byte, the    *)
(* one the unit is set to, whoever set it and whatever failed on the way,  *)
(* as long as it is the unit that was read.                                *)
CachedPwm ==
  \A p \in Unit : valid[p] /\ ~changed[p] => psu_data[p].pwm % 256 = pwm[p]

(* An update that missed the unit or its fans is not held: the next call   *)
(* reads again, unless a change of the speed came between.                 *)
PartialIsRetried ==
  \A p \in Unit : valid[p] /\ ~touched[p] => psu_data[p].status = 1 /\ psu_data[p].rpm # -1

(* The words are LINEAR11: a signed exponent and a signed mantissa, here   *)
(* in thousandths, towards zero.                                           *)
LinearRight ==
  \A c \in Caller : at[c] = "PDO2" /\ work.vin # -1 /\ work.type = "DC" =>
    \E word \in Word :
      LET e == IF word \div 2048 >= 16 THEN (word \div 2048) - 32 ELSE word \div 2048
          m == IF word % 2048 >= 1024 THEN (word % 2048) - 2048 ELSE word % 2048 IN
      IF e >= 0 THEN work.vin = m * Power(e) * 1000
      ELSE /\ work.vin * Power(-e) - m * 1000 \in (1 - Power(-e)) .. (Power(-e) - 1)
           /\ IF m >= 0 THEN work.vin >= 0 ELSE work.vin <= 0
=============================================================================
