-------------------------------- MODULE Psu --------------------------------
(***************************************************************************)
(* The x86 power supply driver.  A show refreshes the cache of its power   *)
(* supply, unless it is younger than five seconds, with a chain of up to   *)
(* thirteen messages to the BMC, and prints one field.  A number that is   *)
(* negative, as a field that was not read is, is turned down only after    *)
(* the lock was given back, on a path that gives it back once more: from   *)
(* then on two handlers may be in the driver at once and share what the    *)
(* driver has of a channel, so the channel is part of this module.         *)
(*                                                                         *)
(* Of the queries that differ only in what they read one stands for all:   *)
(* pin for the temperature, its thresholds, the five linear readings, the  *)
(* fan speed, the model and the serial number.  What it reads is two       *)
(* fields of a record: pin, a reading, which is -1 when it was not read,   *)
(* and model, for the temperature, the model and the serial number, which  *)
(* are whatever the stack held.  So are the lengths of these two strings,  *)
(* and the copies that end a refresh then reach over the record's own type *)
(* into the next one.  What they overwrite behind the last record is not   *)
(* modelled, nor is the handler's stack, which a length above 32 in the    *)
(* answer to another query would overrun.                                  *)
(***************************************************************************)
EXTENDS Naturals, Integers, FiniteSets

CONSTANTS Caller,   \* the processes inside a show handler
          NoCaller,
          Kind      \* Kind[p]: what is in a slot, "none", "ac" or "dc12v"

Slot == DOMAIN Kind
ASSUME KindAssumption ==
  1 \in Slot /\ Slot \subseteq 1..2 /\ Kind \in [Slot -> {"none", "ac", "dc12v"}]
ASSUME CallerAssumption == NoCaller \notin Caller /\ IsFiniteSet(Caller)

VARIABLES lock,       \* whether update_lock is held
          at, fid,    \* of a process: its step and its slot
          query,      \* the query of its refresh
          read,       \* the locals of its refresh
          ipmi_resp,  \* its reply buffer: the query and slot answered, or zeros
          rx_msg_data,    \* whose buffer a reply is copied to
          tx_message, \* what the next request will ask
          request,    \* of a process: its unanswered request with tx_msgid's number
          outrun,     \* the number it takes for new was taken meanwhile
          rx_result, done,  \* the code of the last reply; read_complete
          valid, fresh, psu_data,  \* the cache
          strayed, failed   \* a lock was given back twice; a message has failed

handlers == <<at, fid, query, read, ipmi_resp>>
numbers == <<request, outrun>>
channel == <<rx_msg_data, tx_message, numbers, rx_result, done>>
cache == <<valid, fresh, psu_data>>
vars == <<lock, handlers, channel, cache, strayed, failed>>

NotRead == -1
Zeros == [query |-> "zeros", fid |-> 0]
Other == 3     \* the bytes of another query's answer
Garbage == 4   \* bytes that were never read
Unread == [type |-> "none", pin |-> NotRead, model |-> Garbage]
NoRequest == [query |-> "zeros", fid |-> 0]

Init ==
  /\ lock = FALSE
  /\ at = [c \in Caller |-> "idle"]
  /\ fid = [c \in Caller |-> 1]
  /\ query = [c \in Caller |-> "status"]
  /\ read = [c \in Caller |-> Unread]
  /\ ipmi_resp = [c \in Caller |-> Zeros]
  /\ rx_msg_data = NoCaller /\ tx_message = NoRequest
  /\ request = [c \in Caller |-> NoRequest] /\ outrun = [c \in Caller |-> FALSE]
  /\ rx_result = TRUE /\ done = 0
  /\ valid = [p \in Slot |-> FALSE] /\ fresh = [p \in Slot |-> FALSE]
  /\ psu_data = [p \in Slot |-> Unread]
  /\ strayed = FALSE /\ failed = FALSE

Goto(c, from, to) == at[c] = from /\ at' = [at EXCEPT ![c] = to]

(* Mutant: valid keeps its value until the refresh succeeds. *)
LockKeepsValid(c, p) ==
  /\ ~lock /\ lock' = TRUE
  /\ fid' = [fid EXCEPT ![c] = p]
  /\ Goto(c, "idle", IF valid[p] /\ fresh[p] THEN "ready" ELSE "send")
  /\ query' = [query EXCEPT ![c] = "status"]
  /\ UNCHANGED <<read, ipmi_resp, channel, cache, strayed, failed>>

(* show_psu takes the lock; a cache that is not valid or too old is given up. *)
Lock(c, p) ==
  /\ ~lock /\ lock' = TRUE
  /\ fid' = [fid EXCEPT ![c] = p]
  /\ Goto(c, "idle", IF valid[p] /\ fresh[p] THEN "ready" ELSE "send")
  /\ query' = [query EXCEPT ![c] = "status"]
  /\ valid' = [valid EXCEPT ![p] = valid[p] /\ fresh[p]]
  /\ UNCHANGED <<read, ipmi_resp, channel, fresh, psu_data, strayed, failed>>

-----------------------------------------------------------------------------
(* ipmi_send_message and ipmi_msg_handler.                                 *)

(* Only the query for the type starts with the buffer of the one before.   *)
(* What will be sent and where the reply goes is the driver's, not the     *)
(* handler's.                                                              *)
Prepare(c) ==
  /\ Goto(c, "send", "number")
  /\ rx_msg_data' = c /\ tx_message' = [query |-> query[c], fid |-> fid[c]]
  /\ ipmi_resp' = [ipmi_resp EXCEPT ![c] = IF query[c] = "type" THEN @ ELSE Zeros]
  /\ UNCHANGED <<lock, fid, query, read, numbers, rx_result, done, cache, strayed, failed>>

(* tx_msgid is counted up without a lock: read here, stored by SetNumber.  *)
ReadNumber(c) ==
  /\ Goto(c, "number", "submit")
  /\ outrun' = [outrun EXCEPT ![c] = FALSE]
  /\ UNCHANGED <<lock, fid, query, read, ipmi_resp, rx_msg_data, tx_message, request, rx_result,
                 done, cache, strayed, failed>>

(* The number c stores is new: every other request loses its own and with  *)
(* it its answer, and who has read tx_msgid but not stored it is outrun.   *)
(* Or another process took it meanwhile, and both requests have it.        *)
(* (The bound: nobody is outrun twice between reading and storing.)        *)
SetNumber(c, asked) ==
  IF outrun[c]
  THEN request' = [request EXCEPT ![c] = asked] /\ outrun' = [outrun EXCEPT ![c] = FALSE]
  ELSE /\ \A d \in Caller : ~outrun[d]
       /\ request' = [d \in Caller |-> IF d = c THEN asked ELSE NoRequest]
       /\ outrun' = [d \in Caller |-> d # c /\ at[d] = "submit"]

Submit(c) ==
  /\ Goto(c, "submit", "wait")
  /\ SetNumber(c, tx_message)
  /\ UNCHANGED <<lock, fid, query, read, ipmi_resp, rx_msg_data, tx_message, rx_result, done,
                 cache, strayed, failed>>

(* The steps of a process inside a refresh, where its reply buffer is.     *)
InRefresh == {"send", "number", "submit", "wait", "use"}

(* A reply with the number in tx_msgid, to whichever request.              *)
Deliver(c, ok) ==
  /\ request[c] # NoRequest /\ request' = [request EXCEPT ![c] = NoRequest]
  /\ rx_result' = ok
  /\ ipmi_resp' = IF ok /\ at[rx_msg_data] \in InRefresh
                    THEN [ipmi_resp EXCEPT ![rx_msg_data] = request[c]] ELSE ipmi_resp
  /\ done' = done + 1
  /\ failed' = (failed \/ ~ok)
  /\ UNCHANGED <<lock, at, fid, query, read, rx_msg_data, tx_message, outrun, cache, strayed>>

(* Mutant: one completion wakes every waiter, now and later. *)
WakeAll(c) ==
  /\ done > 0
  /\ Goto(c, "wait", "use")
  /\ UNCHANGED <<lock, fid, query, read, ipmi_resp, channel, cache, strayed, failed>>

(* A completion wakes any of the waiters. *)
Wake(c) ==
  /\ done > 0 /\ done' = done - 1
  /\ Goto(c, "wait", "use")
  /\ UNCHANGED <<lock, fid, query, read, ipmi_resp, rx_msg_data, tx_message, numbers, rx_result,
                 cache, strayed, failed>>

-----------------------------------------------------------------------------
(* wistron_wtp_01_02_00_psu_update_device and psu_param_get_linear_data.   *)

(* The record of slot p becomes values, and the copies of its two strings  *)
(* overwrite what lies behind them, in this order: its type, and the       *)
(* reading, the strings and the type of the next slot.                     *)
Copied(p, values, reach) ==
  [q \in Slot |->
     CASE q = p -> IF reach > 0 THEN [values EXCEPT !.type = "wild"] ELSE values
       [] q = p + 1 -> [type |-> IF reach > 3 THEN "wild" ELSE psu_data[q].type,
                        pin |-> IF reach > 1 THEN Garbage ELSE psu_data[q].pin,
                        model |-> IF reach > 2 THEN Garbage ELSE psu_data[q].model]
       [] OTHER -> psu_data[q]]

(* What a refresh leaves behind in the driver: the locals go to the cache, *)
(* whether it was complete or not, and the copies end where they should    *)
(* only if it has read their lengths.                                      *)
Store(c, values, complete) ==
  /\ \E reach \in IF values.model = Garbage THEN 0..4 ELSE {0} :
       psu_data' = Copied(fid[c], values, reach)
  /\ valid' = [valid EXCEPT ![fid[c]] = @ \/ complete]
  /\ fresh' = [fresh EXCEPT ![fid[c]] = @ \/ complete]

(* Mutant: the locals of the refresh are static. *)
FinishKeeps(c, values, complete) ==
  /\ at' = [at EXCEPT ![c] = "ready"]
  /\ Store(c, values, complete)
  /\ read' = [read EXCEPT ![c] = values]
  /\ ipmi_resp' = [ipmi_resp EXCEPT ![c] = Zeros]
  /\ query' = [query EXCEPT ![c] = "status"]
  /\ UNCHANGED <<lock, fid, rx_result, strayed>>

(* The end of a refresh and of its locals. *)
Finish(c, values, complete) ==
  /\ at' = [at EXCEPT ![c] = "ready"]
  /\ Store(c, values, complete)
  /\ read' = [read EXCEPT ![c] = Unread]
  /\ ipmi_resp' = [ipmi_resp EXCEPT ![c] = Zeros]
  /\ query' = [query EXCEPT ![c] = "status"]
  /\ UNCHANGED <<lock, fid, rx_result, strayed>>

(* Mutant: the wait has no timer. *)
SendFailsUntimed(c) ==
  /\ at[c] = "submit" /\ SetNumber(c, NoRequest)
  /\ failed' = TRUE
  /\ Finish(c, read[c], FALSE)
  /\ UNCHANGED <<rx_msg_data, tx_message, done>>

(* Mutant: a failed refresh returns from the show and keeps the lock. *)
SendFailsReturns(c) ==
  /\ Goto(c, "wait", "idle") /\ done = 0
  /\ failed' = TRUE
  /\ fid' = [fid EXCEPT ![c] = 1] /\ query' = [query EXCEPT ![c] = "status"]
  /\ UNCHANGED <<lock, read, ipmi_resp, channel, cache, strayed>>

(* The request is not accepted, after it got its number, or its wait times *)
(* out and it stays under way.                                             *)
SendFails(c) ==
  /\ \/ at[c] = "submit" /\ SetNumber(c, NoRequest)
     \/ at[c] = "wait" /\ done = 0 /\ UNCHANGED numbers
  /\ failed' = TRUE
  /\ Finish(c, read[c], FALSE)
  /\ UNCHANGED <<rx_msg_data, tx_message, done>>

ReplyIsError(c) ==
  /\ at[c] = "use" /\ ~rx_result
  /\ Finish(c, read[c], FALSE)
  /\ UNCHANGED <<rx_msg_data, tx_message, numbers, done, failed>>

Value(c) == IF ipmi_resp[c].query = query[c] THEN ipmi_resp[c].fid
            ELSE IF ipmi_resp[c] = Zeros THEN 0 ELSE Other

(* The type in a buffer; the status' first byte may be any of them. *)
Types(c) == CASE ipmi_resp[c].query = "type" -> {Kind[ipmi_resp[c].fid]}
              [] ipmi_resp[c] = Zeros -> {"none"}
              [] OTHER -> {"none", "ac", "dc12v"}

NextQuery(q) == CASE q = "status" -> "type" [] q = "type" -> "pout" [] OTHER -> "pin"

GoOn(c, values) ==
  /\ Goto(c, "use", "send")
  /\ read' = [read EXCEPT ![c] = values]
  /\ query' = [query EXCEPT ![c] = NextQuery(@)]
  /\ ipmi_resp' = [ipmi_resp EXCEPT ![c] = IF query[c] = "status" THEN @ ELSE Zeros]
  /\ UNCHANGED <<lock, fid, rx_result, cache, strayed>>

(* An absent power supply is not asked for more, a DC12V one not after pout. *)
Take(c) ==
  /\ at[c] = "use" /\ rx_result
  /\ LET v == Value(c) IN
     \/ query[c] = "status" /\ GoOn(c, read[c])
     \/ /\ query[c] = "type"
        /\ \E t \in Types(c) :
             LET values == [read[c] EXCEPT !.type = t] IN
             IF t = "none" THEN Finish(c, values, TRUE) ELSE GoOn(c, values)
     \/ /\ query[c] = "pout"
        /\ IF read[c].type = "dc12v" THEN Finish(c, read[c], TRUE) ELSE GoOn(c, read[c])
     \/ query[c] = "pin" /\ Finish(c, [read[c] EXCEPT !.pin = v, !.model = v], TRUE)
  /\ UNCHANGED <<rx_msg_data, tx_message, numbers, done, failed>>

(* Five seconds pass. *)
Expire(p) ==
  /\ fresh[p] /\ fresh' = [fresh EXCEPT ![p] = FALSE]
  /\ \A c \in Caller : at[c] # "ready"
  /\ UNCHANGED <<lock, handlers, channel, valid, psu_data, strayed, failed>>

-----------------------------------------------------------------------------
(* show_psu with the cache.                                                *)

(* The lock is given back, and then a number that is not negative, or any  *)
(* other field, printed: the strings from the record itself.  The test     *)
(* that should turn down a cache that is not valid looks at the address of *)
(* the array, which is never zero.                                         *)
Unlock(c) ==
  /\ \/ Goto(c, "ready", "shown")
     \/ psu_data[fid[c]].pin \in {NotRead, Other, Garbage} /\ Goto(c, "ready", "negative")
  /\ lock' = FALSE
  /\ UNCHANGED <<fid, query, read, ipmi_resp, channel, cache, strayed, failed>>

Return(c) ==
  /\ Goto(c, "shown", "idle")
  /\ fid' = [fid EXCEPT ![c] = 1]
  /\ UNCHANGED <<lock, query, read, ipmi_resp, channel, cache, strayed, failed>>

(* A number below 0: the lock is given back a second time, whoever has it. *)
RefuseNegative(c) ==
  /\ Goto(c, "negative", "idle")
  /\ lock' = FALSE
  /\ strayed' = TRUE
  /\ fid' = [fid EXCEPT ![c] = 1]
  /\ UNCHANGED <<query, read, ipmi_resp, channel, cache, failed>>

Show(c) ==
  \/ Prepare(c) \/ ReadNumber(c) \/ Submit(c) \/ Wake(c) \/ SendFails(c) \/ ReplyIsError(c) \/ Take(c)
  \/ Unlock(c) \/ Return(c) \/ RefuseNegative(c)

Next ==
  \/ \E c \in Caller :
       \/ \E p \in Slot : Lock(c, p)
       \/ Show(c)
       \/ \E ok \in BOOLEAN : Deliver(c, ok)
  \/ \E p \in Slot : Expire(p)

Spec == Init /\ [][Next]_vars

-----------------------------------------------------------------------------
(* Properties.                                                             *)

(* Among the rest: completions that nobody waited for do not pile up.      *)
(* Beyond the processes that wait at most one is pending or to come, and   *)
(* once a lock was given back twice, when several requests may bear one    *)
(* number, at most one for each process there is.                          *)
TypeOK ==
  /\ lock \in BOOLEAN /\ strayed \in BOOLEAN /\ failed \in BOOLEAN
  /\ at \in [Caller -> {"idle", "ready", "shown", "negative"} \cup InRefresh]
  /\ fid \in [Caller -> Slot]
  /\ \A c \in Caller : ipmi_resp[c] = Zeros \/ ipmi_resp[c].fid \in Slot
  /\ rx_msg_data \in Caller \cup {NoCaller}
  /\ LET asked == {c \in Caller : request[c] # NoRequest}
         waiting == {c \in Caller : at[c] = "wait"} IN
     done \in 0..Cardinality(waiting) + (IF strayed THEN Cardinality(Caller) ELSE 1) - Cardinality(asked)
  /\ valid \in [Slot -> BOOLEAN] /\ fresh \in [Slot -> BOOLEAN]
  /\ \A p \in Slot : /\ psu_data[p].pin \in NotRead..Garbage /\ psu_data[p].model \in 0..Garbage
                     /\ psu_data[p].type \in {"none", "ac", "dc12v", "wild"}

(* The power supplies whose refresh ends early, in a slot of the set. *)
EndsEarly(slots) == \E q \in slots \cap Slot : Kind[q] # "ac"

(* What slot p should hold. A refresh that ends early, without the lengths *)
(* of its strings, may have overwritten its own type and what the slot     *)
(* behind it holds.                                                        *)
Own(p) ==
  /\ psu_data[p].type = Kind[p] \/ (psu_data[p].type = "wild" /\ EndsEarly(1..p))
  /\ \/ psu_data[p].pin = IF Kind[p] = "ac" THEN p ELSE NotRead
     \/ psu_data[p].pin = Garbage /\ EndsEarly(1..p - 1)
  /\ \/ psu_data[p].model = p \/ Kind[p] # "ac"
     \/ psu_data[p].model = Garbage /\ EndsEarly(1..p - 1)

(* As long as no message has failed and no lock was given back twice, a    *)
(* show prints what its own power supply answered, although thirteen       *)
(* messages share a buffer and a string is printed after the unlock, when  *)
(* another refresh may be at it. The exceptions are what an early end      *)
(* leaves: no temperature, model or serial number that was read, and what  *)
(* Own says of the fields behind them.                                     *)
ShowsOwn ==
  ~failed /\ ~strayed => \A c \in Caller : at[c] \in {"ready", "shown"} => Own(fid[c])

(* A refresh that fails marks its slot, so that the next show asks again:  *)
(* as long as no lock was given back twice, a slot that counts as valid    *)
(* has a type and, unless its power supply is absent or a DC12V one, an    *)
(* input power, and those of the first slot were read. Those of the second *)
(* may be what a refresh of the first that failed or ended early copied    *)
(* over them.                                                              *)
ValidIsComplete ==
  ~strayed => \A p \in Slot : valid[p] /\ psu_data[p].type = "ac" =>
                /\ psu_data[p].pin # NotRead
                /\ p = 1 => Garbage \notin {psu_data[p].pin, psu_data[p].model}

Inside(c) == at[c] \notin {"idle", "shown", "negative"}

(* The lock is never left held by nobody, however often it is given back   *)
(* too often.                                                              *)
NobodyIsLockedOut == lock => \E c \in Caller : Inside(c)

(* "!= 0 if registers are valid" (psu.c): what a valid slot holds comes    *)
(* from its own power supply.  Without any failure it may not, once a lock *)
(* was given back twice.                                                   *)
ValidIsOwn == ~failed => \A p \in Slot : valid[p] => Own(p)
=============================================================================
