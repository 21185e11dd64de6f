------------------------------ MODULE Thermal ------------------------------
(***************************************************************************)
(* The x86 temperature driver above its IPMI path: a show refreshes the    *)
(* cache of its sensor, when that is older than five seconds, with two     *)
(* messages, the reading and the thresholds, into one buffer; a store      *)
(* hands the temperatures only the operating system can read to the BMC.   *)
(* A client of IpmiService, as Led is.                                     *)
(***************************************************************************)
EXTENDS Naturals

CONSTANTS Caller,   \* the processes inside a show or store handler
          Sensors,  \* the sensors whose files are used
          Reading,  \* Reading[s]: what the BMC may read of a sensor
          Limit,    \* Limit[s]: the capabilities and thresholds of a sensor
          Temps     \* the lines of temperatures people store

VARIABLES place, answer, degraded,  \* of IpmiService
          op,        \* the handler a process is in
          at,        \* and its step there
          temp,      \* the reading a refresh has got so far
          valid,     \* g_data->valid
          fresh,     \* last_updated is less than five seconds ago
          thermal_data,  \* g_data->thermal_data
          reading,   \* the sensors
          internal,  \* the temperatures the BMC was given
          last,      \* the BMC's reply to the last request it accepted
          recent     \* what a sensor read or could have read within five seconds

service == <<place, answer, degraded>>
cache == <<valid, fresh, thermal_data>>
bmc == <<reading, internal, last, recent>>
vars == <<service, op, at, temp, cache, bmc>>

Service == INSTANCE IpmiService

None == [kind |-> "none"]
Handler == [kind : {"show"}, sensor : Sensors] \cup [kind : {"set"}, temps : Temps]
Zero == 0
Data == {Zero} \cup UNION {Reading[s] \cup {Limit[s]} : s \in Sensors}
Empty == [reading |-> Zero, limit |-> Zero]

Init ==
  /\ Service!Init
  /\ op = [c \in Caller |-> None]
  /\ at = [c \in Caller |-> "idle"]
  /\ temp = Zero
  /\ valid = [s \in Sensors |-> FALSE] /\ fresh = [s \in Sensors |-> FALSE]
  /\ thermal_data = [s \in Sensors |-> Empty]
  /\ reading \in {r \in [Sensors -> Data] : \A s \in Sensors : r[s] \in Reading[s]}
  /\ internal = Zero
  /\ last = [ok |-> TRUE, data |-> Zero]
  /\ recent = [s \in Sensors |-> {}]

Goto(c, from, to) == at[c] = from /\ at' = [at EXCEPT ![c] = to]

(* Mutant: valid is left as it is until the sensor has answered. *)
LockKeepsValid(c, o) ==
  /\ Service!Enter(c)
  /\ op' = [op EXCEPT ![c] = o]
  /\ Goto(c, "idle", IF o.kind = "set" THEN "write"
                     ELSE IF valid[o.sensor] /\ fresh[o.sensor] THEN "shown" ELSE "reading")
  /\ UNCHANGED <<temp, cache, bmc>>

(* show_temp, which prints a cache that is young enough or gives it up,    *)
(* and set_temp, which has parsed its line by then.                        *)
Lock(c, o) ==
  /\ Service!Enter(c)
  /\ op' = [op EXCEPT ![c] = o]
  /\ \/ /\ o.kind = "show" /\ valid[o.sensor] /\ fresh[o.sensor]
        /\ Goto(c, "idle", "shown")
        /\ UNCHANGED valid
     \/ /\ o.kind = "show" /\ ~(valid[o.sensor] /\ fresh[o.sensor])
        /\ Goto(c, "idle", "reading")
        /\ valid' = [valid EXCEPT ![o.sensor] = FALSE]
     \/ o.kind = "set" /\ Goto(c, "idle", "write") /\ UNCHANGED valid
  /\ UNCHANGED <<temp, fresh, thermal_data, bmc>>

(* A sensor gets warmer or colder. *)
Change(s, r) ==
  /\ reading' = [reading EXCEPT ![s] = r]
  /\ recent' = [recent EXCEPT ![s] = @ \cup {r}]
  /\ UNCHANGED <<service, op, at, temp, cache, internal, last>>

(* Five seconds pass; a value that is just being printed is as old as it   *)
(* was when its handler took it.                                           *)
Expire(s) ==
  /\ fresh[s] /\ fresh' = [fresh EXCEPT ![s] = FALSE]
  /\ \A c \in Caller : at[c] # "shown"
  /\ recent' = [recent EXCEPT ![s] = {reading[s]}]
  /\ UNCHANGED <<service, op, at, temp, valid, thermal_data, reading, internal, last>>

Send(c) ==
  /\ at[c] \in {"reading", "limit", "write"}
  /\ Service!Send(c)
  /\ UNCHANGED <<op, at, temp, cache, bmc>>

(* What the BMC does with the message of a process, and its reply to it. *)
Execute(c, ok) ==
  /\ \/ at[c] = "reading" /\ last' = [ok |-> ok, data |-> IF ok THEN reading[op[c].sensor] ELSE Zero]
     \/ at[c] = "limit" /\ last' = [ok |-> ok, data |-> IF ok THEN Limit[op[c].sensor] ELSE Zero]
     \/ at[c] = "write" /\ last' = [ok |-> ok, data |-> Zero]
  /\ internal' = IF at[c] = "write" /\ ok THEN op[c].temps ELSE internal

(* Mutant: the locals of a refresh are static. *)
RefreshedStatic(c, record, complete) ==
  LET s == op[c].sensor IN
  /\ thermal_data' = [thermal_data EXCEPT ![s] = record]
  /\ valid' = [valid EXCEPT ![s] = @ \/ complete]
  /\ fresh' = [fresh EXCEPT ![s] = @ \/ complete]
  /\ at' = [at EXCEPT ![c] = IF valid'[s] THEN "shown" ELSE "error"]
  /\ UNCHANGED temp

(* What was read goes to the cache whether all of it was or not; show_temp *)
(* then looks at valid.                                                    *)
Refreshed(c, record, complete) ==
  LET s == op[c].sensor IN
  /\ thermal_data' = [thermal_data EXCEPT ![s] = record]
  /\ valid' = [valid EXCEPT ![s] = @ \/ complete]
  /\ fresh' = [fresh EXCEPT ![s] = @ \/ complete]
  /\ at' = [at EXCEPT ![c] = IF valid'[s] THEN "shown" ELSE "error"]
  /\ temp' = Zero

(* The first message; the five seconds count from the second one, but what *)
(* is recent from here.                                                    *)
ReadingAnswered(c, ok, data) ==
  /\ at[c] = "reading"
  /\ \/ ok /\ Goto(c, "reading", "limit") /\ temp' = data /\ UNCHANGED cache
     \/ ~ok /\ Refreshed(c, [reading |-> data, limit |-> Zero], FALSE)
  /\ recent' = [recent EXCEPT ![op[c].sensor] = {reading[op[c].sensor]}]

(* Mutant: a sensor without thresholds is as good as one with. *)
LimitAnsweredUnchecked(c, ok, data) ==
  /\ at[c] = "limit"
  /\ Refreshed(c, [reading |-> temp, limit |-> data], TRUE)
  /\ UNCHANGED recent

LimitAnswered(c, ok, data) ==
  /\ at[c] = "limit"
  /\ Refreshed(c, [reading |-> temp, limit |-> data], ok)
  /\ UNCHANGED recent

(* Mutant: a store that failed reports its count. *)
WriteEndsWell(c, ok) ==
  /\ Goto(c, "write", "set")
  /\ UNCHANGED <<temp, cache, recent>>

(* A store looks at whether there was an answer, not at its code. *)
WriteEnds(c, answered) ==
  /\ Goto(c, "write", IF answered THEN "set" ELSE "error")
  /\ UNCHANGED <<temp, cache, recent>>

(* The answer to the request before this one brings its completion code;   *)
(* the buffer holds its payload, or what it held before, or already the    *)
(* right one.                                                              *)
Answered(c) ==
  /\ Service!Answer(c)
  /\ \E ok \in BOOLEAN :
       LET code == IF answer'[c] = "own" THEN ok ELSE last.ok
           held == IF answer'[c] = "own" THEN {IF ok THEN last'.data ELSE temp}
                                         ELSE {temp, last.data, last'.data} IN
       /\ Execute(c, ok)
       /\ \/ \E data \in held : ReadingAnswered(c, code, data) \/ LimitAnswered(c, code, data)
          \/ WriteEnds(c, TRUE)
  /\ UNCHANGED <<op, reading>>

(* The request is not accepted, or it is and its reply does not come in    *)
(* time.                                                                   *)
Fails(c) ==
  /\ Service!Fail(c)
  /\ \/ UNCHANGED <<last, internal>>
     \/ degraded' /\ \E ok \in BOOLEAN : Execute(c, ok)
  /\ \/ /\ at[c] \in {"reading", "limit"}
        /\ Refreshed(c, [reading |-> temp, limit |-> Zero], FALSE)
        /\ UNCHANGED recent
     \/ WriteEnds(c, FALSE)
  /\ UNCHANGED <<op, reading>>

Unlock(c) ==
  /\ Service!Leave(c)
  /\ at[c] \in {"shown", "set", "error"} /\ at' = [at EXCEPT ![c] = "idle"]
  /\ op' = [op EXCEPT ![c] = None]
  /\ UNCHANGED <<temp, cache, bmc>>

Next ==
  \/ \E c \in Caller :
       \/ \E o \in Handler : Lock(c, o)
       \/ Send(c) \/ Answered(c) \/ Fails(c) \/ Unlock(c)
  \/ \E s \in Sensors : Expire(s) \/ \E r \in Reading[s] : Change(s, r)

Spec == Init /\ [][Next]_vars

-----------------------------------------------------------------------------
(* Properties.                                                             *)

TypeOK ==
  /\ op \in [Caller -> Handler \cup {None}]
  /\ at \in [Caller -> {"idle", "reading", "limit", "write", "shown", "set", "error"}]
  /\ temp \in Data /\ (temp # Zero => \E c \in Caller : at[c] = "limit")
  /\ valid \in [Sensors -> BOOLEAN] /\ fresh \in [Sensors -> BOOLEAN]
  /\ thermal_data \in [Sensors -> [reading : Data, limit : Data]]
  /\ \A s \in Sensors : reading[s] \in Reading[s] /\ recent[s] \subseteq Reading[s]
  /\ internal \in Temps \cup {Zero}

(* What a show prints is a whole record of its own sensor: its thresholds, *)
(* and a reading not older than the five seconds and the refresh it came   *)
(* with, whichever refreshes failed half-way before; as long as no message *)
(* has timed out.                                                          *)
ShowsRecent ==
  ~degraded => \A c \in Caller : at[c] = "shown" =>
    LET s == op[c].sensor IN
    thermal_data[s].reading \in recent[s] /\ thermal_data[s].limit = Limit[s]

(* A store that reports its count was answered: the BMC has its            *)
(* temperatures or has refused them, which the store does not tell apart.  *)
StoredUnlessRefused ==
  ~degraded => \A c \in Caller : at[c] = "set" => internal = op[c].temps \/ ~last.ok
=============================================================================
