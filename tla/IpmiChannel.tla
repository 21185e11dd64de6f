---------------------------- MODULE IpmiChannel ----------------------------
(***************************************************************************)
(* The request/reply path between a Wistron platform driver and the BMC.   *)
(* The x86 drivers fan, psu, thermal, led and sys each hold a private copy *)
(* of the same three functions (init_ipmi_data, ipmi_send_message and      *)
(* ipmi_msg_handler) around one struct ipmi_data; this module models that  *)
(* copy once, with the lines of the fan driver.                            *)
(*                                                                         *)
(* A caller is a process inside a sysfs show or store handler.  It holds   *)
(* the driver's update_lock and sends zero or more messages, one after the *)
(* other.  The IPMI core calls ipmi_msg_handler from a tasklet, hence      *)
(* between any two steps of the caller, and even after the caller's wait   *)
(* has timed out.                                                          *)
(*                                                                         *)
(* A message is its tx_msgid.  The payload of a reply is the msgid of the  *)
(* request it answers, so that a buffer tells whose answer it holds; 0 is  *)
(* the zero the caller put there itself.                                   *)
(***************************************************************************)
EXTENDS Naturals

CONSTANTS Caller,     \* the processes inside a show or store handler
          NoCaller,   \* the lock is free / the command has no reply buffer
          MaxMsg      \* bound on tx_msgid: requests sent in a behaviour

ASSUME CallerAssumption == NoCaller \notin Caller
ASSUME MaxMsgAssumption == MaxMsg \in Nat

VARIABLES lock,       \* update_lock: its holder or NoCaller
          pc,         \* where each caller is
          tx_msgid,   \* ipmi->tx_msgid
          rx_msg_data,\* ipmi->rx_msg_data: whose buffer a reply is copied to
          rx_result,  \* ipmi->rx_result: the reply that wrote it, and its code
          done,       \* ipmi->read_complete.done
          replies,    \* requests the IPMI core has accepted and not delivered
          handler,    \* the reply ipmi_msg_handler has accepted, 0 if it is idle
          buffer,     \* buffer[c]: the reply in the caller's ipmi_resp, 0 if none
          cur, prev,  \* the last two requests the IPMI core accepted
          used,       \* used[c]: what the caller's last completed send gave it
          timedOut,   \* some wait has timed out
          lateWrite   \* some reply was copied to a buffer its caller had left

chan == <<tx_msgid, rx_msg_data, rx_result, done, replies, handler, cur, prev>>
vars == <<lock, pc, chan, buffer, used, timedOut, lateWrite>>

PC == {"idle", "blocked", "locked", "armed", "waiting", "returned"}

NotUsed == [own |-> 0, result |-> 0, ok |-> FALSE, data |-> 0, read |-> FALSE]

(* init_ipmi_data on the zeroed driver data, before any caller exists. *)
Init ==
  /\ lock = NoCaller
  /\ pc = [c \in Caller |-> "idle"]
  /\ tx_msgid = 0
  /\ rx_msg_data = NoCaller
  /\ rx_result = [id |-> 0, ok |-> TRUE]
  /\ done = 0
  /\ replies = {}
  /\ handler = 0
  /\ buffer = [c \in Caller |-> 0]
  /\ cur = 0
  /\ prev = 0
  /\ used = [c \in Caller |-> NotUsed]
  /\ timedOut = FALSE
  /\ lateWrite = FALSE

Goto(c, from, to) ==
  /\ pc[c] = from
  /\ pc' = [pc EXCEPT ![c] = to]

-----------------------------------------------------------------------------
(* The caller.                                                             *)

(* A process reads or writes a sysfs attribute and reaches mutex_lock. *)
Call(c) ==
  /\ tx_msgid < MaxMsg
  /\ Goto(c, "idle", "blocked")
  /\ UNCHANGED <<lock, chan, buffer, used, timedOut, lateWrite>>

(* Mutant: the handlers forget to lock. *)
AcquireUnlocked(c) ==
  /\ lock' = c
  /\ Goto(c, "blocked", "locked")
  /\ used' = [used EXCEPT ![c] = NotUsed]
  /\ UNCHANGED <<chan, buffer, timedOut, lateWrite>>

Acquire(c) ==
  /\ lock = NoCaller
  /\ lock' = c
  /\ Goto(c, "blocked", "locked")
  /\ used' = [used EXCEPT ![c] = NotUsed]
  /\ UNCHANGED <<chan, buffer, timedOut, lateWrite>>

(* Mutant: rx_msg_data keeps the buffer of the send before. *)
ArmKeepsBuffer(c) ==
  /\ tx_msgid < MaxMsg
  /\ Goto(c, "locked", "armed")
  /\ \/ rx_msg_data' = c /\ rx_msg_data = NoCaller
     \/ UNCHANGED rx_msg_data
  /\ buffer' = [buffer EXCEPT ![c] = 0]
  /\ UNCHANGED <<lock, tx_msgid, rx_result, done, replies, handler, cur, prev,
                 used, timedOut, lateWrite>>

(* ipmi_send_message, up to the address check: the reply buffer is the     *)
(* caller's, freshly zeroed, or none for a command that only writes.       *)
Arm(c) ==
  /\ tx_msgid < MaxMsg
  /\ Goto(c, "locked", "armed")
  /\ rx_msg_data' \in {c, NoCaller}
  /\ buffer' = [buffer EXCEPT ![c] = 0]
  /\ UNCHANGED <<lock, tx_msgid, rx_result, done, replies, handler, cur, prev,
                 used, timedOut, lateWrite>>

(* tx_msgid++ and ipmi_request_settime: the IPMI core takes the request. *)
Submit(c) ==
  /\ Goto(c, "armed", "waiting")
  /\ tx_msgid' = tx_msgid + 1
  /\ replies' = replies \cup {tx_msgid'}
  /\ cur' = tx_msgid'
  /\ prev' = cur
  /\ UNCHANGED <<lock, rx_msg_data, rx_result, done, handler,
                 buffer, used, timedOut, lateWrite>>

(* ipmi_request_settime fails: tx_msgid has already moved. *)
SubmitFails(c) ==
  /\ Goto(c, "armed", "locked")
  /\ tx_msgid' = tx_msgid + 1
  /\ UNCHANGED <<lock, rx_msg_data, rx_result, done, replies, handler, cur, prev,
                 buffer, used, timedOut, lateWrite>>

(* Mutant: the wait leaves the completion done. *)
WaitReturnsKeepsDone(c) ==
  /\ done > 0
  /\ Goto(c, "waiting", "returned")
  /\ UNCHANGED <<lock, chan, buffer, used, timedOut, lateWrite>>

(* wait_for_completion_timeout finds the completion done and consumes it. *)
WaitReturns(c) ==
  /\ done > 0
  /\ Goto(c, "waiting", "returned")
  /\ done' = done - 1
  /\ UNCHANGED <<lock, tx_msgid, rx_msg_data, rx_result, replies, handler, cur, prev,
                 buffer, used, timedOut, lateWrite>>

(* Mutant: the timeout takes back the completion it did not get. *)
WaitTimesOutConsumes(c) ==
  /\ done = 0
  /\ handler = 0
  /\ Goto(c, "waiting", "locked")
  /\ done' = done - 1
  /\ timedOut' = TRUE
  /\ UNCHANGED <<lock, tx_msgid, rx_msg_data, rx_result, replies, handler, cur, prev,
                 buffer, used, lateWrite>>

(* Mutant: wait_for_completion, without a timer. *)
WaitForever(c) == FALSE /\ WaitTimesOutConsumes(c)

(* IPMI_TIMEOUT passes.  Nothing is reset: rx_msg_data keeps pointing to   *)
(* the caller's buffer and tx_msgid still accepts the late reply.  The     *)
(* handler runs for microseconds in a tasklet, so it is never stopped in   *)
(* its middle for the seconds the timeout lasts.                           *)
WaitTimesOut(c) ==
  /\ done = 0
  /\ handler = 0
  /\ Goto(c, "waiting", "locked")
  /\ timedOut' = TRUE
  /\ UNCHANGED <<lock, chan, buffer, used, lateWrite>>

(* The caller looks at rx_result and takes its reply buffer. *)
Use(c) ==
  /\ Goto(c, "returned", "locked")
  /\ used' = [used EXCEPT ![c] =
       [own |-> tx_msgid, result |-> rx_result.id, ok |-> rx_result.ok,
        data |-> buffer[c], read |-> rx_msg_data = c]]
  /\ UNCHANGED <<lock, chan, buffer, timedOut, lateWrite>>

Release(c) ==
  /\ lock' = NoCaller
  /\ Goto(c, "locked", "idle")
  /\ UNCHANGED <<chan, buffer, used, timedOut, lateWrite>>

-----------------------------------------------------------------------------
(* The IPMI core and ipmi_msg_handler.                                     *)

(* Mutant: no msgid comparison. *)
HandlerAcceptsAny(m) ==
  /\ handler = 0
  /\ m \in replies
  /\ handler' = m
  /\ replies' = replies \ {m}
  /\ UNCHANGED <<lock, pc, tx_msgid, rx_msg_data, rx_result, done, cur, prev,
                 buffer, used, timedOut, lateWrite>>

(* The handler is entered with a reply and compares its msgid. *)
HandlerAccepts(m) ==
  /\ handler = 0
  /\ m \in replies
  /\ m = tx_msgid
  /\ handler' = m
  /\ replies' = replies \ {m}
  /\ UNCHANGED <<lock, pc, tx_msgid, rx_msg_data, rx_result, done, cur, prev,
                 buffer, used, timedOut, lateWrite>>

HandlerDrops(m) ==
  /\ handler = 0
  /\ m \in replies
  /\ m # tx_msgid
  /\ replies' = replies \ {m}
  /\ UNCHANGED <<lock, pc, tx_msgid, rx_msg_data, rx_result, done, handler, cur, prev,
                 buffer, used, timedOut, lateWrite>>

(* The caller is still between setting rx_msg_data and reading the buffer. *)
Listening(c) == pc[c] \in {"armed", "waiting", "returned"}

(* The rest of the handler: rx_result, the copy and complete().  A reply   *)
(* with a completion code alone (ok = FALSE) carries no payload.           *)
HandlerCompletes(ok) ==
  /\ handler # 0
  /\ rx_result' = [id |-> handler, ok |-> ok]
  /\ IF ok /\ rx_msg_data # NoCaller
       THEN /\ buffer' = [buffer EXCEPT ![rx_msg_data] = handler]
            /\ lateWrite' = (lateWrite \/ ~Listening(rx_msg_data))
       ELSE UNCHANGED <<buffer, lateWrite>>
  /\ done' = done + 1
  /\ handler' = 0
  /\ UNCHANGED <<lock, pc, tx_msgid, rx_msg_data, replies, cur, prev, used, timedOut>>

(* The bound is reached and every process has left the driver. *)
Quiescent ==
  /\ tx_msgid = MaxMsg
  /\ \A c \in Caller : pc[c] = "idle"
  /\ UNCHANGED vars

-----------------------------------------------------------------------------
CallerStep(c) ==
  \/ Acquire(c) \/ Arm(c) \/ Submit(c) \/ SubmitFails(c)
  \/ WaitReturns(c) \/ WaitTimesOut(c) \/ Use(c) \/ Release(c)

HandlerStep ==
  \/ \E m \in replies : HandlerAccepts(m) \/ HandlerDrops(m)
  \/ \E ok \in BOOLEAN : HandlerCompletes(ok)

Next ==
  \/ \E c \in Caller : Call(c) \/ CallerStep(c)
  \/ HandlerStep
  \/ Quiescent

(* Once inside a handler a process runs on: its wait ends with the reply   *)
(* or with the timer, and the mutex queues its waiters.  Nothing is asked  *)
(* of the BMC, which may never answer, but the tasklet finishes.           *)
Fairness ==
  /\ \A c \in Caller : SF_vars(Acquire(c)) /\ WF_vars(CallerStep(c))
  /\ WF_vars(\E ok \in BOOLEAN : HandlerCompletes(ok))

Spec == Init /\ [][Next]_vars
FairSpec == Spec /\ Fairness

-----------------------------------------------------------------------------
(* Properties.                                                             *)

MsgId == 0..MaxMsg

TypeOK ==
  /\ lock \in Caller \cup {NoCaller}
  /\ pc \in [Caller -> PC]
  /\ tx_msgid \in MsgId
  /\ rx_msg_data \in Caller \cup {NoCaller}
  /\ rx_result \in [id : MsgId, ok : BOOLEAN]
  /\ done \in Nat
  /\ replies \in SUBSET (1..MaxMsg)
  /\ handler \in MsgId
  /\ buffer \in [Caller -> MsgId]
  /\ cur \in MsgId /\ prev \in MsgId
  /\ used \in [Caller -> [own : MsgId, result : MsgId, ok : BOOLEAN,
                          data : MsgId, read : BOOLEAN]]
  /\ timedOut \in BOOLEAN /\ lateWrite \in BOOLEAN

(* Completions that are, or can still become, visible to a wait. *)
Backlog ==
  done + (IF tx_msgid \in replies THEN 1 ELSE 0) + (IF handler # 0 THEN 1 ELSE 0)

(* A timeout leaves read_complete and tx_msgid as they are, so the late    *)
(* reply completes a wait nobody is in.  The excess never grows: at most   *)
(* one stray completion is pending when a send starts, and at most that    *)
(* one and its own while a send waits, however many sends time out.        *)
BacklogBound ==
  Backlog <= IF \E c \in Caller : pc[c] = "waiting" THEN 2 ELSE 1

(* A send that returns 0 was completed by the reply to its own request or  *)
(* to the request accepted just before it, and its buffer holds one of     *)
(* these two or was never written: the off-by-one a late reply causes is   *)
(* never more than one request deep.                                       *)
AnswerLag ==
  \A c \in Caller : (lock = c /\ used[c] # NotUsed /\ used[c].own = cur) =>
    /\ used[c].result \in {cur, prev}
    /\ used[c].data \in {0, cur, prev}

(* As long as no wait has timed out, the caller gets the answer to its own *)
(* request, in full, and no reply is copied to a buffer that was left.     *)
CleanUntilTimeout ==
  ~timedOut =>
    /\ ~lateWrite
    /\ \A c \in Caller : used[c] # NotUsed =>
         /\ used[c].result = used[c].own
         /\ used[c].ok /\ used[c].read => used[c].data = used[c].own

(* What the msgid comparison of ipmi_msg_handler is for ("Mismatch between *)
(* received msgid and transmitted msgid"): a send never takes the answer   *)
(* to another request for its own.  It does, after a timeout.              *)
AnswerIsOwn ==
  \A c \in Caller : used[c] # NotUsed => used[c].result = used[c].own

(* Every process that enters the driver leaves it, whatever the BMC does:  *)
(* a wait is ended by its timer and every path releases update_lock.       *)
EveryCallEnds ==
  \A c \in Caller : pc[c] = "blocked" ~> pc[c] = "idle"
-----------------------------------------------------------------------------
(* The channel implements IpmiService: a caller is inside while it holds   *)
(* update_lock, sending from the moment it sets the buffer to the moment   *)
(* it takes the result, and its answer is told by the reply it was given.  *)

PlaceOf(c) ==
  CASE pc[c] \in {"idle", "blocked"} -> "outside"
    [] pc[c] = "locked" -> "inside"
    [] OTHER -> "sending"

AnswerOf(c) ==
  CASE used[c] = NotUsed -> "none"
    [] used[c] # NotUsed /\ used[c].result = used[c].own -> "own"
    [] OTHER -> "previous"

Service == INSTANCE IpmiService WITH
  place <- [c \in Caller |-> PlaceOf(c)],
  answer <- [c \in Caller |-> AnswerOf(c)],
  degraded <- timedOut

(* Every behaviour of the channel is one the service allows: in            *)
(* particular a stale answer needs an earlier timeout of the driver.       *)
ServiceSpec == Service!Spec
=============================================================================
