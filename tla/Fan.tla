-------------------------------- MODULE Fan --------------------------------
(***************************************************************************)
(* The x86 fan driver above its IPMI path: a show refreshes the cache of   *)
(* its fan with one message when it is older than five seconds, and a      *)
(* store sends the duty cycle of all fans, leaving every cache as it is.   *)
(* A client of IpmiService, as Led is.  A reading stands for the speed and *)
(* the status, which arrive together.                                      *)
(***************************************************************************)
EXTENDS Integers

CONSTANTS Caller,   \* the processes inside a show or store handler
          Fans,     \* the fans whose files are used
          Reading,  \* what the BMC may report of a fan
          Percent   \* the numbers people store

ConstantsOK == Percent \subseteq Int

VARIABLES place, answer, degraded,  \* of IpmiService
          op,        \* the handler a process is in
          at,        \* and its step there
          valid,     \* data->valid
          fresh,     \* last_updated is less than five seconds ago
          fan_data,  \* data->fan_data
          reading,   \* the fans
          pwm,       \* the register all fans share
          last,      \* the BMC's reply to the last request it accepted
          recent     \* what a fan reported or could have within five seconds

service == <<place, answer, degraded>>
cache == <<valid, fresh, fan_data>>
vars == <<service, op, at, cache, reading, pwm, last, recent>>

Service == INSTANCE IpmiService

None == [kind |-> "none"]
Handler == [kind : {"show"}, fan : Fans] \cup [kind : {"set"}, fan : Fans, percent : Percent]
Zero == 0

(* Mutant: the number keeps its width. *)
Long(n) == n

(* What a number leaves in a byte of a message. *)
UChar(n) == n % 256

Init ==
  /\ Service!Init
  /\ op = [c \in Caller |-> None]
  /\ at = [c \in Caller |-> "idle"]
  /\ valid = [f \in Fans |-> FALSE] /\ fresh = [f \in Fans |-> FALSE]
  /\ fan_data = [f \in Fans |-> Zero]
  /\ reading \in [Fans -> Reading]
  /\ pwm = Zero
  /\ last = [ok |-> TRUE, data |-> Zero]
  /\ recent = [f \in Fans |-> {}]

Goto(c, from, to) == at[c] = from /\ at' = [at EXCEPT ![c] = to]

(* Mutant: valid is left as it is until the fan has answered. *)
LockKeepsValid(c, o) ==
  /\ Service!Enter(c)
  /\ op' = [op EXCEPT ![c] = o]
  /\ Goto(c, "idle", IF o.kind = "set" THEN "write"
                     ELSE IF valid[o.fan] /\ fresh[o.fan] THEN "shown" ELSE "read")
  /\ UNCHANGED <<cache, reading, pwm, last, recent>>

(* show_fan, which prints a cache that is young enough or gives it up, and *)
(* set_fan, which has parsed the number by then.                           *)
Lock(c, o) ==
  /\ Service!Enter(c)
  /\ op' = [op EXCEPT ![c] = o]
  /\ \/ /\ o.kind = "show" /\ valid[o.fan] /\ fresh[o.fan]
        /\ Goto(c, "idle", "shown")
        /\ UNCHANGED valid
     \/ /\ o.kind = "show" /\ ~(valid[o.fan] /\ fresh[o.fan])
        /\ Goto(c, "idle", "read")
        /\ valid' = [valid EXCEPT ![o.fan] = FALSE]
     \/ o.kind = "set" /\ Goto(c, "idle", "write") /\ UNCHANGED valid
  /\ UNCHANGED <<fresh, fan_data, reading, pwm, last, recent>>

(* A fan changes. *)
Turn(f, r) ==
  /\ reading' = [reading EXCEPT ![f] = r]
  /\ recent' = [recent EXCEPT ![f] = @ \cup {r}]
  /\ UNCHANGED <<service, op, at, cache, pwm, last>>

(* Five seconds pass; a value that is just being printed is as old as it   *)
(* was when its handler took it.                                           *)
Expire(f) ==
  /\ fresh[f] /\ fresh' = [fresh EXCEPT ![f] = FALSE]
  /\ \A c \in Caller : at[c] # "shown"
  /\ recent' = [recent EXCEPT ![f] = {reading[f]}]
  /\ UNCHANGED <<service, op, at, valid, fan_data, reading, pwm, last>>

Send(c) ==
  /\ at[c] \in {"read", "write"}
  /\ Service!Send(c)
  /\ UNCHANGED <<op, at, cache, reading, pwm, last, recent>>

(* What the BMC does with the message of a process, and its reply to it. A *)
(* code other than 0 says nothing about the register.                      *)
Execute(c, ok) ==
  \/ /\ at[c] = "read"
     /\ last' = [ok |-> ok, data |-> IF ok THEN reading[op[c].fan] ELSE Zero]
     /\ UNCHANGED pwm
  \/ /\ at[c] = "write"
     /\ last' = [ok |-> ok, data |-> Zero]
     /\ pwm' = UChar(op[c].percent) \/ (~ok /\ UNCHANGED pwm)

(* The buffer goes to the cache whether the refresh succeeded or not;      *)
(* show_fan then looks at valid.                                           *)
Refreshed(c, ok, data) ==
  LET f == op[c].fan IN
  /\ fan_data' = [fan_data EXCEPT ![f] = data]
  /\ valid' = [valid EXCEPT ![f] = @ \/ ok]
  /\ Goto(c, "read", IF valid'[f] THEN "shown" ELSE "error")
  /\ fresh' = [fresh EXCEPT ![f] = @ \/ ok]
  /\ recent' = [recent EXCEPT ![f] = IF ok THEN {reading[f]} ELSE @]

(* Mutant: the completion code is not looked at. *)
AnsweredUnchecked(c) ==
  /\ Service!Answer(c)
  /\ \E ok \in BOOLEAN :
       /\ Execute(c, ok)
       /\ IF at[c] = "write" THEN Goto(c, "write", "set") /\ UNCHANGED <<cache, recent>>
          ELSE Refreshed(c, TRUE, last'.data)
  /\ UNCHANGED <<op, reading>>

(* The answer to the request before this one brings its completion code;   *)
(* the buffer holds its payload, or nothing yet, or already the right one. *)
Answered(c) ==
  /\ Service!Answer(c)
  /\ \E ok \in BOOLEAN :
       LET code == IF answer'[c] = "own" THEN ok ELSE last.ok
           held == IF answer'[c] = "own" THEN {last'.data} ELSE {Zero, last.data, last'.data} IN
       /\ Execute(c, ok)
       /\ \/ \E data \in held : Refreshed(c, code, data)
          \/ /\ Goto(c, "write", IF code THEN "set" ELSE "error")
             /\ UNCHANGED <<cache, recent>>
  /\ UNCHANGED <<op, reading>>

(* The request is not accepted, or it is and its reply does not come in    *)
(* time.                                                                   *)
Fails(c) ==
  /\ Service!Fail(c)
  /\ \/ UNCHANGED <<last, pwm>>
     \/ degraded' /\ \E ok \in BOOLEAN : Execute(c, ok)
  /\ \/ Refreshed(c, FALSE, Zero)
     \/ Goto(c, "write", "error") /\ UNCHANGED <<cache, recent>>
  /\ UNCHANGED <<op, reading>>

Unlock(c) ==
  /\ Service!Leave(c)
  /\ at[c] \in {"shown", "set", "error"} /\ at' = [at EXCEPT ![c] = "idle"]
  /\ op' = [op EXCEPT ![c] = None]
  /\ UNCHANGED <<cache, reading, pwm, last, recent>>

Next ==
  \/ \E c \in Caller :
       \/ \E o \in Handler : Lock(c, o)
       \/ Send(c) \/ Answered(c) \/ Fails(c) \/ Unlock(c)
  \/ \E f \in Fans : Expire(f) \/ \E r \in Reading : Turn(f, r)

Spec == Init /\ [][Next]_vars

-----------------------------------------------------------------------------
(* Properties.                                                             *)

TypeOK ==
  /\ op \in [Caller -> Handler \cup {None}]
  /\ at \in [Caller -> {"idle", "read", "write", "shown", "set", "error"}]
  /\ valid \in [Fans -> BOOLEAN] /\ fresh \in [Fans -> BOOLEAN]
  /\ fan_data \in [Fans -> Reading \cup {Zero}]
  /\ reading \in [Fans -> Reading] /\ recent \in [Fans -> SUBSET Reading]
  /\ pwm \in 0..255
  /\ last \in [ok : BOOLEAN, data : Reading \cup {Zero}]

(* What a show prints its own fan reported within the last five seconds,   *)
(* whatever refreshes failed before and whatever was stored in between; as *)
(* long as no message has timed out.                                       *)
ShowsRecent ==
  ~degraded => \A c \in Caller : at[c] = "shown" => fan_data[op[c].fan] \in recent[op[c].fan]

(* A store that reports success has set the register of all fans to its    *)
(* number, as far as that fits a byte: 300 percent are 44.                 *)
SuccessIsTrue ==
  ~degraded => \A c \in Caller : at[c] = "set" => pwm = op[c].percent % 256
=============================================================================
