------------------------- MODULE IpmiChannelProofs -------------------------
(***************************************************************************)
(* Proofs about IpmiChannel for any set of callers and any number of       *)
(* messages: types, the bound on stray completions, the depth of a stale   *)
(* answer, and that without a timeout every answer is the caller's own.    *)
(***************************************************************************)
EXTENDS IpmiChannel, TLAPS

Waiting == \E c \in Caller : pc[c] = "waiting"
Inside(c) == pc[c] \in {"locked", "armed", "waiting", "returned"}

(* update_lock is held exactly by the caller inside. *)
MutexInv == \A c \in Caller : Inside(c) <=> lock = c

(* The order of the message numbers. *)
NumberInv ==
  /\ cur <= tx_msgid
  /\ prev <= cur
  /\ cur > 0 => prev < cur
  /\ replies \subseteq 1..cur
  /\ \A c \in Caller :
       /\ pc[c] = "armed" => tx_msgid < MaxMsg
       /\ pc[c] \in {"waiting", "returned"} => cur = tx_msgid /\ cur > 0
       /\ Listening(c) => rx_msg_data \in {c, NoCaller}
       /\ used[c].own <= tx_msgid

(* Where a reply that can still complete a wait comes from.  Outside a     *)
(* wait it answers the last request; inside, that one or the one before,   *)
(* and the older one has overtaken nothing.                                *)
FlowInv ==
  /\ ~Waiting =>
       /\ handler \in {0, cur}
       /\ done > 0 => rx_result.id = cur
  /\ Waiting =>
       /\ handler \in {0, cur, prev}
       /\ handler # 0 /\ handler = prev => cur \in replies
       /\ done > 0 => rx_result.id \in {cur, prev}
       /\ done > 0 /\ cur \notin replies /\ handler # cur => rx_result.id = cur

(* What the buffer of the sending caller can hold. *)
BufferInv ==
  \A c \in Caller :
    /\ pc[c] = "armed" => buffer[c] \in {0, cur}
    /\ pc[c] \in {"waiting", "returned"} => buffer[c] \in {0, cur, prev}
    /\ pc[c] = "returned" => rx_result.id \in {cur, prev}

(* The answer of a completed send in full: the state WaitReturns needs. *)
Answered(c) ==
  /\ rx_result.id = cur
  /\ rx_result.ok /\ rx_msg_data = c => buffer[c] = cur

(* Before the first timeout nothing is pending outside a wait, and inside  *)
(* a wait exactly the one reply to the request that is waited for.         *)
CleanInv ==
  ~timedOut =>
    /\ ~Waiting => done = 0 /\ handler = 0 /\ replies = {}
    /\ Waiting =>
         /\ replies \subseteq {cur}
         /\ handler \in {0, cur}
         /\ Backlog = 1
    /\ \A c \in Caller :
         /\ pc[c] = "waiting" /\ done > 0 => Answered(c)
         /\ pc[c] = "returned" => Answered(c)

Base == TypeOK /\ MutexInv /\ NumberInv

-----------------------------------------------------------------------------
(* The types, the mutex and the message numbers.                           *)

(* The zeroed driver data is well typed, and nobody is inside. *)
LEMMA BaseInit == Init => Base
<1> SUFFICES ASSUME Init PROVE Base
  OBVIOUS
<1> USE CallerAssumption, MaxMsgAssumption DEF Init, MsgId
<1>1. NotUsed \in [own : MsgId, result : MsgId, ok : BOOLEAN,
                   data : MsgId, read : BOOLEAN]
  BY DEF NotUsed
<1>2. TypeOK
  <2>1. rx_result \in [id : 0..MaxMsg, ok : BOOLEAN]
    OBVIOUS
  <2>2. pc \in [Caller -> PC] /\ buffer \in [Caller -> 0..MaxMsg]
    BY DEF PC
  <2> QED BY <1>1, <2>1, <2>2 DEF TypeOK
<1>3. MutexInv
  BY DEF MutexInv, Inside
<1>4. NumberInv
  BY DEF NumberInv, Listening, NotUsed
<1> QED BY <1>2, <1>3, <1>4 DEF Base

(* Every step keeps the types, the mutex and the order of the numbers. *)
LEMMA BaseStep == Base /\ [Next]_vars => Base'
<1> SUFFICES ASSUME Base, [Next]_vars PROVE Base'
  OBVIOUS
<1> USE CallerAssumption, MaxMsgAssumption
    DEF Base, TypeOK, MutexInv, NumberInv, Inside, Listening, MsgId, PC, chan, Goto
<1>1. ASSUME NEW c \in Caller, Call(c) PROVE Base'
  <2>1. TypeOK'
    BY <1>1 DEF Call
  <2>2. MutexInv'
    BY <1>1 DEF Call
  <2>3. NumberInv'
    BY <1>1 DEF Call
  <2> QED BY <2>1, <2>2, <2>3
<1>2. ASSUME NEW c \in Caller, Acquire(c) PROVE Base'
  <2>1. TypeOK'
    BY <1>2 DEF Acquire, NotUsed
  <2>2. MutexInv'
    BY <1>2 DEF Acquire
  <2>3. NumberInv'
    BY <1>2 DEF Acquire, NotUsed
  <2> QED BY <2>1, <2>2, <2>3
<1>3. ASSUME NEW c \in Caller, Arm(c) PROVE Base'
  <2>1. TypeOK'
    BY <1>3 DEF Arm
  <2>2. MutexInv'
    BY <1>3 DEF Arm
  <2>3. NumberInv'
    BY <1>3 DEF Arm
  <2> QED BY <2>1, <2>2, <2>3
<1>4. ASSUME NEW c \in Caller, Submit(c) PROVE Base'
  <2>1. TypeOK'
    BY <1>4 DEF Submit
  <2>2. MutexInv'
    BY <1>4 DEF Submit
  <2>3. NumberInv'
    BY <1>4 DEF Submit
  <2> QED BY <2>1, <2>2, <2>3
<1>5. ASSUME NEW c \in Caller, SubmitFails(c) PROVE Base'
  <2>1. TypeOK'
    BY <1>5 DEF SubmitFails
  <2>2. MutexInv'
    BY <1>5 DEF SubmitFails
  <2>3. NumberInv'
    BY <1>5 DEF SubmitFails
  <2> QED BY <2>1, <2>2, <2>3
<1>6. ASSUME NEW c \in Caller, WaitReturns(c) PROVE Base'
  <2>1. TypeOK'
    BY <1>6 DEF WaitReturns
  <2>2. MutexInv'
    BY <1>6 DEF WaitReturns
  <2>3. NumberInv'
    BY <1>6 DEF WaitReturns
  <2> QED BY <2>1, <2>2, <2>3
<1>7. ASSUME NEW c \in Caller, WaitTimesOut(c) PROVE Base'
  <2>1. TypeOK'
    BY <1>7 DEF WaitTimesOut
  <2>2. MutexInv'
    BY <1>7 DEF WaitTimesOut
  <2>3. NumberInv'
    BY <1>7 DEF WaitTimesOut
  <2> QED BY <2>1, <2>2, <2>3
<1>8. ASSUME NEW c \in Caller, Use(c) PROVE Base'
  <2>1. TypeOK'
    BY <1>8 DEF Use
  <2>2. MutexInv'
    BY <1>8 DEF Use
  <2>3. NumberInv'
    BY <1>8 DEF Use
  <2> QED BY <2>1, <2>2, <2>3
<1>9. ASSUME NEW c \in Caller, Release(c) PROVE Base'
  <2>1. TypeOK'
    BY <1>9 DEF Release
  <2>2. MutexInv'
    BY <1>9 DEF Release
  <2>3. NumberInv'
    BY <1>9 DEF Release
  <2> QED BY <2>1, <2>2, <2>3
<1>10. ASSUME NEW m \in replies, HandlerAccepts(m) PROVE Base'
  BY <1>10 DEF HandlerAccepts
<1>11. ASSUME NEW m \in replies, HandlerDrops(m) PROVE Base'
  BY <1>11 DEF HandlerDrops
<1>12. ASSUME NEW ok \in BOOLEAN, HandlerCompletes(ok) PROVE Base'
  BY <1>12 DEF HandlerCompletes
<1>13. CASE UNCHANGED vars
  BY <1>13 DEF vars
<1>14. QED
  BY <1>1, <1>2, <1>3, <1>4, <1>5, <1>6, <1>7, <1>8, <1>9, <1>10, <1>11, <1>12, <1>13
  DEF Next, CallerStep, HandlerStep, Quiescent

(* The driver data is well typed for any callers and any number of         *)
(* messages.                                                               *)
THEOREM TypeCorrect == Spec => []TypeOK
<1>1. Spec => []Base
  BY BaseInit, BaseStep, PTL DEF Spec
<1>2. Base => TypeOK
  BY DEF Base
<1> QED BY <1>1, <1>2, PTL

-----------------------------------------------------------------------------
(* The bound on stray completions.                                         *)

(* No step adds a second stray completion: a send that starts waiting      *)
(* brings one reply, and a wait that times out leaves at most that one.    *)
LEMMA BacklogStep == Base /\ BacklogBound /\ [Next]_vars => BacklogBound'
<1> SUFFICES ASSUME Base, BacklogBound, [Next]_vars PROVE BacklogBound'
  OBVIOUS
<1> USE CallerAssumption, MaxMsgAssumption
    DEF Base, TypeOK, MutexInv, NumberInv, Inside, MsgId, chan, Goto, BacklogBound, Backlog
<1>1. ASSUME NEW c \in Caller, Call(c) PROVE BacklogBound'
  BY <1>1 DEF Call
<1>2. ASSUME NEW c \in Caller, Acquire(c) PROVE BacklogBound'
  BY <1>2 DEF Acquire
<1>3. ASSUME NEW c \in Caller, Arm(c) PROVE BacklogBound'
  BY <1>3 DEF Arm
<1>4. ASSUME NEW c \in Caller, Submit(c) PROVE BacklogBound'
  BY <1>4 DEF Submit
<1>5. ASSUME NEW c \in Caller, SubmitFails(c) PROVE BacklogBound'
  BY <1>5 DEF SubmitFails
<1>6. ASSUME NEW c \in Caller, WaitReturns(c) PROVE BacklogBound'
  BY <1>6 DEF WaitReturns
<1>7. ASSUME NEW c \in Caller, WaitTimesOut(c) PROVE BacklogBound'
  BY <1>7 DEF WaitTimesOut
<1>8. ASSUME NEW c \in Caller, Use(c) PROVE BacklogBound'
  BY <1>8 DEF Use
<1>9. ASSUME NEW c \in Caller, Release(c) PROVE BacklogBound'
  BY <1>9 DEF Release
<1>10. ASSUME NEW m \in replies, HandlerAccepts(m) PROVE BacklogBound'
  BY <1>10 DEF HandlerAccepts
<1>11. ASSUME NEW m \in replies, HandlerDrops(m) PROVE BacklogBound'
  BY <1>11 DEF HandlerDrops
<1>12. ASSUME NEW ok \in BOOLEAN, HandlerCompletes(ok) PROVE BacklogBound'
  BY <1>12 DEF HandlerCompletes
<1>13. CASE UNCHANGED vars
  BY <1>13 DEF vars
<1>14. QED
  BY <1>1, <1>2, <1>3, <1>4, <1>5, <1>6, <1>7, <1>8, <1>9, <1>10, <1>11, <1>12, <1>13
  DEF Next, CallerStep, HandlerStep, Quiescent

(* However many waits time out, a send starts with at most one completion  *)
(* that is not its own: TLC checks it for two callers and four messages.   *)
THEOREM BacklogBounded == Spec => []BacklogBound
<1>1. Init => BacklogBound
  BY DEF Init, BacklogBound, Backlog
<1>2. Spec => [](Base /\ BacklogBound)
  BY <1>1, BaseInit, BaseStep, BacklogStep, PTL DEF Spec
<1> QED BY <1>2, PTL

-----------------------------------------------------------------------------
(* How deep a stale answer can be.                                         *)

Lag == FlowInv /\ BufferInv /\ AnswerLag

(* Replies are accepted in an order that keeps a stale one at most one     *)
(* request old, in rx_result and in the buffer.                            *)
LEMMA LagStep == Base /\ BacklogBound /\ Lag /\ [Next]_vars => Lag'
<1> SUFFICES ASSUME Base, BacklogBound, Lag, [Next]_vars PROVE Lag'
  OBVIOUS
<1> USE CallerAssumption, MaxMsgAssumption
    DEF Base, TypeOK, MutexInv, NumberInv, Inside, MsgId, chan, Goto, Listening,
        BacklogBound, Backlog, Lag, FlowInv, BufferInv, AnswerLag, Waiting, NotUsed
<1>1. ASSUME NEW c \in Caller, Call(c) PROVE Lag'
  <2>1. FlowInv'
    BY <1>1 DEF Call
  <2>2. BufferInv'
    BY <1>1 DEF Call
  <2>3. AnswerLag'
    BY <1>1 DEF Call
  <2> QED BY <2>1, <2>2, <2>3
<1>2. ASSUME NEW c \in Caller, Acquire(c) PROVE Lag'
  <2>1. FlowInv'
    BY <1>2 DEF Acquire
  <2>2. BufferInv'
    BY <1>2 DEF Acquire
  <2>3. AnswerLag'
    BY <1>2 DEF Acquire
  <2> QED BY <2>1, <2>2, <2>3
<1>3. ASSUME NEW c \in Caller, Arm(c) PROVE Lag'
  <2>1. FlowInv'
    BY <1>3 DEF Arm
  <2>2. BufferInv'
    BY <1>3 DEF Arm
  <2>3. AnswerLag'
    BY <1>3 DEF Arm
  <2> QED BY <2>1, <2>2, <2>3
<1>4. ASSUME NEW c \in Caller, Submit(c) PROVE Lag'
  <2>1. FlowInv'
    BY <1>4 DEF Submit
  <2>2. BufferInv'
    BY <1>4 DEF Submit
  <2>3. AnswerLag'
    BY <1>4 DEF Submit
  <2> QED BY <2>1, <2>2, <2>3
<1>5. ASSUME NEW c \in Caller, SubmitFails(c) PROVE Lag'
  <2>1. FlowInv'
    BY <1>5 DEF SubmitFails
  <2>2. BufferInv'
    BY <1>5 DEF SubmitFails
  <2>3. AnswerLag'
    BY <1>5 DEF SubmitFails
  <2> QED BY <2>1, <2>2, <2>3
<1>6. ASSUME NEW c \in Caller, WaitReturns(c) PROVE Lag'
  <2>1. FlowInv'
    BY <1>6 DEF WaitReturns
  <2>2. BufferInv'
    BY <1>6 DEF WaitReturns
  <2>3. AnswerLag'
    BY <1>6 DEF WaitReturns
  <2> QED BY <2>1, <2>2, <2>3
<1>7. ASSUME NEW c \in Caller, WaitTimesOut(c) PROVE Lag'
  <2>1. FlowInv'
    BY <1>7 DEF WaitTimesOut
  <2>2. BufferInv'
    BY <1>7 DEF WaitTimesOut
  <2>3. AnswerLag'
    BY <1>7 DEF WaitTimesOut
  <2> QED BY <2>1, <2>2, <2>3
<1>8. ASSUME NEW c \in Caller, Use(c) PROVE Lag'
  <2>1. FlowInv'
    BY <1>8 DEF Use
  <2>2. BufferInv'
    BY <1>8 DEF Use
  <2>3. AnswerLag'
    BY <1>8 DEF Use
  <2> QED BY <2>1, <2>2, <2>3
<1>9. ASSUME NEW c \in Caller, Release(c) PROVE Lag'
  <2>1. FlowInv'
    BY <1>9 DEF Release
  <2>2. BufferInv'
    BY <1>9 DEF Release
  <2>3. AnswerLag'
    BY <1>9 DEF Release
  <2> QED BY <2>1, <2>2, <2>3
<1>10. ASSUME NEW m \in replies, HandlerAccepts(m) PROVE Lag'
  <2>1. FlowInv'
    BY <1>10 DEF HandlerAccepts
  <2>2. BufferInv'
    BY <1>10 DEF HandlerAccepts
  <2>3. AnswerLag'
    BY <1>10 DEF HandlerAccepts
  <2> QED BY <2>1, <2>2, <2>3
<1>11. ASSUME NEW m \in replies, HandlerDrops(m) PROVE Lag'
  <2>1. FlowInv'
    BY <1>11 DEF HandlerDrops
  <2>2. BufferInv'
    BY <1>11 DEF HandlerDrops
  <2>3. AnswerLag'
    BY <1>11 DEF HandlerDrops
  <2> QED BY <2>1, <2>2, <2>3
<1>12. ASSUME NEW ok \in BOOLEAN, HandlerCompletes(ok) PROVE Lag'
  <2>1. FlowInv'
    BY <1>12 DEF HandlerCompletes
  <2>2. BufferInv'
    BY <1>12 DEF HandlerCompletes
  <2>3. AnswerLag'
    BY <1>12 DEF HandlerCompletes
  <2> QED BY <2>1, <2>2, <2>3
<1>13. CASE UNCHANGED vars
  BY <1>13 DEF vars
<1>14. QED
  BY <1>1, <1>2, <1>3, <1>4, <1>5, <1>6, <1>7, <1>8, <1>9, <1>10, <1>11, <1>12, <1>13
  DEF Next, CallerStep, HandlerStep, Quiescent

(* A successful send is answered by its own request or the one before it,  *)
(* for any number of callers, messages and timeouts.                       *)
THEOREM AnswerLagBounded == Spec => []AnswerLag
<1>1. Init => BacklogBound /\ Lag
  BY DEF Init, BacklogBound, Backlog, Lag, FlowInv, BufferInv, AnswerLag, Waiting,
         NotUsed
<1>2. Spec => [](Base /\ BacklogBound /\ Lag)
  BY <1>1, BaseInit, BaseStep, BacklogStep, LagStep, PTL DEF Spec
<1>3. Lag => AnswerLag
  BY DEF Lag
<1> QED BY <1>2, <1>3, PTL

-----------------------------------------------------------------------------
(* Before the first timeout.                                               *)

Clean == CleanInv /\ CleanUntilTimeout

(* Until a wait times out the one reply pending is the one waited for. *)
LEMMA CleanStep == Base /\ Clean /\ [Next]_vars => Clean'
<1> SUFFICES ASSUME Base, Clean, [Next]_vars PROVE Clean'
  OBVIOUS
<1> USE CallerAssumption, MaxMsgAssumption
    DEF Base, TypeOK, MutexInv, NumberInv, Inside, MsgId, chan, Goto, Listening,
        Backlog, Clean, CleanInv, CleanUntilTimeout, Answered, Waiting, NotUsed
<1>1. ASSUME NEW c \in Caller, Call(c) PROVE Clean'
  <2>1. CleanInv'
    BY <1>1 DEF Call
  <2>2. CleanUntilTimeout'
    BY <1>1 DEF Call
  <2> QED BY <2>1, <2>2
<1>2. ASSUME NEW c \in Caller, Acquire(c) PROVE Clean'
  <2>1. CleanInv'
    BY <1>2 DEF Acquire
  <2>2. CleanUntilTimeout'
    BY <1>2 DEF Acquire
  <2> QED BY <2>1, <2>2
<1>3. ASSUME NEW c \in Caller, Arm(c) PROVE Clean'
  <2>1. CleanInv'
    BY <1>3 DEF Arm
  <2>2. CleanUntilTimeout'
    BY <1>3 DEF Arm
  <2> QED BY <2>1, <2>2
<1>4. ASSUME NEW c \in Caller, Submit(c) PROVE Clean'
  <2>1. CleanInv'
    BY <1>4 DEF Submit
  <2>2. CleanUntilTimeout'
    BY <1>4 DEF Submit
  <2> QED BY <2>1, <2>2
<1>5. ASSUME NEW c \in Caller, SubmitFails(c) PROVE Clean'
  <2>1. CleanInv'
    BY <1>5 DEF SubmitFails
  <2>2. CleanUntilTimeout'
    BY <1>5 DEF SubmitFails
  <2> QED BY <2>1, <2>2
<1>6. ASSUME NEW c \in Caller, WaitReturns(c) PROVE Clean'
  <2>1. CleanInv'
    BY <1>6 DEF WaitReturns
  <2>2. CleanUntilTimeout'
    BY <1>6 DEF WaitReturns
  <2> QED BY <2>1, <2>2
<1>7. ASSUME NEW c \in Caller, WaitTimesOut(c) PROVE Clean'
  <2>1. CleanInv'
    BY <1>7 DEF WaitTimesOut
  <2>2. CleanUntilTimeout'
    BY <1>7 DEF WaitTimesOut
  <2> QED BY <2>1, <2>2
<1>8. ASSUME NEW c \in Caller, Use(c) PROVE Clean'
  <2>1. CleanInv'
    BY <1>8 DEF Use
  <2>2. CleanUntilTimeout'
    BY <1>8 DEF Use
  <2> QED BY <2>1, <2>2
<1>9. ASSUME NEW c \in Caller, Release(c) PROVE Clean'
  <2>1. CleanInv'
    BY <1>9 DEF Release
  <2>2. CleanUntilTimeout'
    BY <1>9 DEF Release
  <2> QED BY <2>1, <2>2
<1>10. ASSUME NEW m \in replies, HandlerAccepts(m) PROVE Clean'
  <2>1. CleanInv'
    BY <1>10 DEF HandlerAccepts
  <2>2. CleanUntilTimeout'
    BY <1>10 DEF HandlerAccepts
  <2> QED BY <2>1, <2>2
<1>11. ASSUME NEW m \in replies, HandlerDrops(m) PROVE Clean'
  <2>1. CleanInv'
    BY <1>11 DEF HandlerDrops
  <2>2. CleanUntilTimeout'
    BY <1>11 DEF HandlerDrops
  <2> QED BY <2>1, <2>2
<1>12. ASSUME NEW ok \in BOOLEAN, HandlerCompletes(ok) PROVE Clean'
  <2>1. CleanInv'
    BY <1>12 DEF HandlerCompletes
  <2>2. CleanUntilTimeout'
    BY <1>12 DEF HandlerCompletes
  <2> QED BY <2>1, <2>2
<1>13. CASE UNCHANGED vars
  BY <1>13 DEF vars
<1>14. QED
  BY <1>1, <1>2, <1>3, <1>4, <1>5, <1>6, <1>7, <1>8, <1>9, <1>10, <1>11, <1>12, <1>13
  DEF Next, CallerStep, HandlerStep, Quiescent

(* As long as no wait times out every answer is the caller's own and no    *)
(* reply reaches a buffer that was left.                                   *)
THEOREM CleanBeforeTimeout == Spec => []CleanUntilTimeout
<1>1. Init => Clean
  BY DEF Init, Clean, CleanInv, CleanUntilTimeout, Backlog, Waiting, NotUsed
<1>2. Spec => [](Base /\ Clean)
  BY <1>1, BaseInit, BaseStep, CleanStep, PTL DEF Spec
<1>3. Clean => CleanUntilTimeout
  BY DEF Clean
<1> QED BY <1>2, <1>3, PTL

-----------------------------------------------------------------------------
(* The channel implements IpmiService.                                     *)

(* The step of the service each step of the channel is, or a stutter. *)
LEMMA ServiceStep ==
  Base /\ Clean /\ Clean' /\ [Next]_vars => [Service!Next]_(Service!svars)
<1> SUFFICES ASSUME Base, Clean, Clean', [Next]_vars
             PROVE  [Service!Next]_(Service!svars)
  OBVIOUS
<1> DEFINE Place == [d \in Caller |-> PlaceOf(d)]
           Answers == [d \in Caller |-> AnswerOf(d)]
<1>a. pc \in [Caller -> PC] /\ used \in [Caller -> [own : MsgId, result : MsgId,
                                ok : BOOLEAN, data : MsgId, read : BOOLEAN]]
  BY DEF Base, TypeOK
<1>b. ASSUME UNCHANGED <<pc, used, timedOut>> PROVE UNCHANGED Service!svars
  BY <1>b DEF Service!svars, PlaceOf, AnswerOf
<1>1. ASSUME NEW c \in Caller, Call(c) PROVE UNCHANGED Service!svars
  BY <1>1, <1>a DEF Call, Goto, Service!svars, PlaceOf, AnswerOf
<1>2. ASSUME NEW c \in Caller, Acquire(c) PROVE Service!Enter(c)
  <2>1. \A d \in Caller : Place[d] = "outside"
    BY <1>2, <1>a, CallerAssumption DEF Acquire, Base, MutexInv, Inside, PC, PlaceOf
  <2>2. Place' = [Place EXCEPT ![c] = "inside"]
    BY <1>2, <1>a DEF Acquire, Goto, PlaceOf
  <2>3. Answers' = [Answers EXCEPT ![c] = "none"]
    BY <1>2, <1>a DEF Acquire, AnswerOf
  <2>4. timedOut' = timedOut
    BY <1>2 DEF Acquire
  <2> QED BY <2>1, <2>2, <2>3, <2>4 DEF Service!Enter, Service!Move
<1>3. ASSUME NEW c \in Caller, Arm(c) PROVE Service!Send(c)
  <2>1. Place[c] = "inside" /\ Place' = [Place EXCEPT ![c] = "sending"]
    BY <1>3, <1>a DEF Arm, Goto, PlaceOf
  <2>2. Answers' = Answers /\ timedOut' = timedOut
    BY <1>3 DEF Arm, AnswerOf
  <2> QED BY <2>1, <2>2 DEF Service!Send, Service!Move
<1>4. ASSUME NEW c \in Caller, Submit(c) PROVE UNCHANGED Service!svars
  BY <1>4, <1>a DEF Submit, Goto, Service!svars, PlaceOf, AnswerOf
<1>5. ASSUME NEW c \in Caller, SubmitFails(c) PROVE Service!Fail(c)
  <2>1. Place[c] = "sending" /\ Place' = [Place EXCEPT ![c] = "inside"]
    BY <1>5, <1>a DEF SubmitFails, Goto, PlaceOf
  <2>2. Answers' = Answers /\ timedOut' = timedOut
    BY <1>5 DEF SubmitFails, AnswerOf
  <2> QED BY <2>1, <2>2 DEF Service!Fail, Service!Move
<1>6. ASSUME NEW c \in Caller, WaitReturns(c) PROVE UNCHANGED Service!svars
  BY <1>6, <1>a DEF WaitReturns, Goto, Service!svars, PlaceOf, AnswerOf
<1>7. ASSUME NEW c \in Caller, WaitTimesOut(c) PROVE Service!Fail(c)
  <2>1. Place[c] = "sending" /\ Place' = [Place EXCEPT ![c] = "inside"]
    BY <1>7, <1>a DEF WaitTimesOut, Goto, PlaceOf
  <2>2. Answers' = Answers /\ timedOut' = TRUE
    BY <1>7 DEF WaitTimesOut, AnswerOf
  <2> QED BY <2>1, <2>2 DEF Service!Fail, Service!Move
<1>8. ASSUME NEW c \in Caller, Use(c) PROVE Service!Answer(c)
  <2>1. Place[c] = "sending" /\ Place' = [Place EXCEPT ![c] = "inside"]
    BY <1>8, <1>a DEF Use, Goto, PlaceOf
  <2>2. timedOut' = timedOut
    BY <1>8 DEF Use
  <2>3. \A d \in Caller \ {c} : used'[d] = used[d]
    BY <1>8, <1>a DEF Use
  <2>4. used'[c].own > 0
    BY <1>8, <1>a DEF Use, Goto, Base, NumberInv, TypeOK, MsgId
  <2>5. used'[c] # NotUsed
    BY <2>4 DEF NotUsed
  <2>6. CASE used'[c].result = used'[c].own
    <3>1. Answers' = [Answers EXCEPT ![c] = "own"]
      BY <2>3, <2>5, <2>6 DEF AnswerOf
    <3> QED BY <2>1, <2>2, <3>1 DEF Service!Answer, Service!Move
  <2>7. CASE used'[c].result # used'[c].own
    <3>1. Answers' = [Answers EXCEPT ![c] = "previous"]
      BY <2>3, <2>5, <2>7 DEF AnswerOf
    <3>2. timedOut = TRUE
      BY <2>2, <2>5, <2>7 DEF Clean, CleanUntilTimeout, Base, TypeOK
    <3> QED BY <2>1, <2>2, <3>1, <3>2 DEF Service!Answer, Service!Move
  <2> QED BY <2>6, <2>7
<1>9. ASSUME NEW c \in Caller, Release(c) PROVE Service!Leave(c)
  <2>1. Place[c] = "inside" /\ Place' = [Place EXCEPT ![c] = "outside"]
    BY <1>9, <1>a DEF Release, Goto, PlaceOf
  <2>2. Answers' = Answers /\ timedOut' = timedOut
    BY <1>9 DEF Release, AnswerOf
  <2> QED BY <2>1, <2>2 DEF Service!Leave, Service!Move
<1>10. ASSUME NEW m \in replies, HandlerAccepts(m) PROVE UNCHANGED <<pc, used, timedOut>>
  BY <1>10 DEF HandlerAccepts
<1>11. ASSUME NEW m \in replies, HandlerDrops(m) PROVE UNCHANGED <<pc, used, timedOut>>
  BY <1>11 DEF HandlerDrops
<1>12. ASSUME NEW ok \in BOOLEAN, HandlerCompletes(ok) PROVE UNCHANGED <<pc, used, timedOut>>
  BY <1>12 DEF HandlerCompletes
<1>13. CASE UNCHANGED vars
  BY <1>13, <1>b DEF vars
<1>14. QED
  BY <1>b, <1>1, <1>2, <1>3, <1>4, <1>5, <1>6, <1>7, <1>8, <1>9, <1>10, <1>11, <1>12, <1>13
  DEF Next, CallerStep, HandlerStep, Quiescent, Service!Next

(* Whatever the BMC and the timers do, the driver sees a service that      *)
(* answers, fails, or, once degraded, is one request behind.               *)
THEOREM ImplementsService == Spec => ServiceSpec
<1>1. Init => Service!Init
  BY DEF Init, Service!Init, PlaceOf, AnswerOf, NotUsed
<1>2. Init => Clean
  BY DEF Init, Clean, CleanInv, CleanUntilTimeout, Backlog, Waiting, NotUsed
<1> QED
  BY <1>1, <1>2, BaseInit, BaseStep, CleanStep, ServiceStep, PTL
  DEF Spec, ServiceSpec, Service!Spec
=============================================================================
