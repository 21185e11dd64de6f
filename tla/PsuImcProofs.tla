---------------------------- MODULE PsuImcProofs ----------------------------
(***************************************************************************)
(* Proofs about Psu for any number of processes and any power supplies in  *)
(* the slots, and that the two drivers side by side (MCPsuImc) keep what   *)
(* each is proved to keep.                                                 *)
(***************************************************************************)
EXTENDS MCPsuImc, FiniteSetTheorems, TLAPS

Query == {"status", "type", "pout", "pin"}
Bytes == {Zeros} \cup [query : Query, fid : Slot]
States == {"idle", "ready", "shown", "negative"} \cup InRefresh
Kinds == {"none", "ac", "dc12v"}
Values == {0, 1, 2, Other}
Locals == [type : Kinds, pin : Values \cup {NotRead}, model : Values \cup {Garbage}]
Records == [type : Kinds \cup {"wild"}, pin : Values \cup {NotRead, Garbage},
            model : Values \cup {Garbage}]

Typed ==
  /\ lock \in BOOLEAN /\ strayed \in BOOLEAN /\ failed \in BOOLEAN
  /\ at \in [Caller -> States]
  /\ fid \in [Caller -> Slot] /\ query \in [Caller -> Query]
  /\ read \in [Caller -> Locals] /\ ipmi_resp \in [Caller -> Bytes]
  /\ rx_msg_data \in Caller \cup {NoCaller}
  /\ tx_message \in Bytes /\ (tx_message # NoRequest => rx_msg_data \in Caller)
  /\ request \in [Caller -> Bytes] /\ outrun \in [Caller -> BOOLEAN]
  /\ \A c \in Caller : request[c] # NoRequest => rx_msg_data \in Caller
  /\ rx_result \in BOOLEAN /\ done \in Nat
  /\ valid \in [Slot -> BOOLEAN] /\ fresh \in [Slot -> BOOLEAN]
  /\ psu_data \in [Slot -> Records]

-----------------------------------------------------------------------------
(* Types. *)

LEMMA SlotTyped ==
  /\ 1 \in Slot /\ Slot \subseteq {1, 2}
  /\ \A p \in Slot : Kind[p] \in Kinds
  BY KindAssumption DEF Kinds

LEMMA RecordsTyped ==
  /\ Zeros \in Bytes /\ NoRequest = Zeros /\ Unread \in Locals /\ Locals \subseteq Records
  /\ \A b \in Bytes : b = Zeros <=> b.query \notin Query
  /\ \A q \in Query, p \in Slot : /\ [query |-> q, fid |-> p] \in Bytes
                                  /\ [query |-> q, fid |-> p] # Zeros
  BY DEF Zeros, Bytes, NoRequest, Unread, Locals, Records, Kinds, Values, Query

LEMMA TypedInit == Init => Typed
<1> SUFFICES ASSUME Init PROVE Typed
  OBVIOUS
<1>1. psu_data \in [Slot -> Records] /\ read \in [Caller -> Locals]
  BY RecordsTyped DEF Init
<1> QED BY <1>1, SlotTyped, RecordsTyped DEF Init, Typed, Query, States

LEMMA ValueTyped ==
  ASSUME Typed, NEW c \in Caller
  PROVE  Value(c) \in Values /\ \A t \in Types(c) : t \in Kinds
<1>1. /\ query[c] \in Query /\ ipmi_resp[c] \in Bytes
      /\ ipmi_resp[c] # Zeros => ipmi_resp[c].fid \in Slot
  BY DEF Typed, Bytes
<1>2. ipmi_resp[c].query \in Query => ipmi_resp[c].fid \in Slot
  BY <1>1, RecordsTyped
<1>3. Value(c) \in Values
  BY <1>1, <1>2, SlotTyped DEF Value, Values
<1>4. \A t \in Types(c) : t \in Kinds
  BY <1>2, SlotTyped DEF Types, Query, Kinds
<1> QED BY <1>3, <1>4

(* The locals of a refresh with the type, or with a reading and a string.  *)
LEMMA LocalsTyped ==
  ASSUME Typed, NEW c \in Caller
  PROVE  /\ read[c] \in Locals
         /\ \A t \in Kinds : [read[c] EXCEPT !.type = t] \in Locals
         /\ \A v \in Values : [read[c] EXCEPT !.pin = v, !.model = v] \in Locals
  BY DEF Typed, Locals

(* The records after the copies, for every length that was not read.       *)
LEMMA CopiedTyped ==
  ASSUME psu_data \in [Slot -> Records], NEW p \in Slot, NEW values \in Locals, NEW reach \in 0..4
  PROVE  /\ Copied(p, values, reach) \in [Slot -> Records]
         /\ reach = 0 => Copied(p, values, reach)[p] = values
         /\ Copied(p, values, reach)[p] \in {values, [values EXCEPT !.type = "wild"]}
         /\ \A q \in Slot \ {p} :
              /\ Copied(p, values, reach)[q].type \in {psu_data[q].type, "wild"}
              /\ Copied(p, values, reach)[q].pin \in {psu_data[q].pin, Garbage}
              /\ Copied(p, values, reach)[q].model \in {psu_data[q].model, Garbage}
              /\ q = 1 \/ reach = 0 => Copied(p, values, reach)[q] = psu_data[q]
<1> DEFINE new == Copied(p, values, reach)
<1>1. new[p] = IF reach > 0 THEN [values EXCEPT !.type = "wild"] ELSE values
  BY SlotTyped DEF Copied
<1>2. [values EXCEPT !.type = "wild"] \in Records /\ values \in Records
  BY DEF Locals, Records
<1>3. ASSUME NEW q \in Slot \ {p}, q = p + 1
      PROVE  /\ new[q] = [type |-> IF reach > 3 THEN "wild" ELSE psu_data[q].type,
                          pin |-> IF reach > 1 THEN Garbage ELSE psu_data[q].pin,
                          model |-> IF reach > 2 THEN Garbage ELSE psu_data[q].model]
             /\ q # 1
  BY <1>3, SlotTyped DEF Copied
<1>4. ASSUME NEW q \in Slot \ {p}, q # p + 1 PROVE new[q] = psu_data[q]
  BY <1>4 DEF Copied
<1>5. ASSUME NEW q \in Slot \ {p}
      PROVE  /\ new[q] \in Records
             /\ new[q].type \in {psu_data[q].type, "wild"}
             /\ new[q].pin \in {psu_data[q].pin, Garbage}
             /\ new[q].model \in {psu_data[q].model, Garbage}
             /\ q = 1 \/ reach = 0 => new[q] = psu_data[q]
  <2>0. psu_data[q] \in Records
    OBVIOUS
  <2>1. CASE q # p + 1
    BY <1>4, <2>0, <2>1
  <2>2. CASE q = p + 1
    <3> DEFINE t == IF reach > 3 THEN "wild" ELSE psu_data[q].type
               i == IF reach > 1 THEN Garbage ELSE psu_data[q].pin
               m == IF reach > 2 THEN Garbage ELSE psu_data[q].model
    <3>1. /\ t \in Kinds \cup {"wild"} /\ i \in Values \cup {NotRead, Garbage}
          /\ m \in Values \cup {Garbage}
      BY <2>0 DEF Records
    <3>2. psu_data[q] = [type |-> psu_data[q].type, pin |-> psu_data[q].pin,
                         model |-> psu_data[q].model]
      BY <2>0 DEF Records
    <3>3. /\ t \in {psu_data[q].type, "wild"} /\ i \in {psu_data[q].pin, Garbage}
          /\ m \in {psu_data[q].model, Garbage}
          /\ reach = 0 => t = psu_data[q].type /\ i = psu_data[q].pin /\ m = psu_data[q].model
      OBVIOUS
    <3>4. new[q] = [type |-> t, pin |-> i, model |-> m] /\ q # 1
      BY <1>3, <2>2
    <3> HIDE DEF t, i, m, new
    <3>5. new[q] \in Records
      BY <3>1, <3>4 DEF Records
    <3> QED BY <3>2, <3>3, <3>4, <3>5
  <2> QED BY <2>1, <2>2
<1>6. new \in [Slot -> Records]
  BY <1>1, <1>2, <1>5 DEF Copied
<1> QED BY <1>1, <1>5, <1>6

LEMMA StoreTyped ==
  ASSUME Typed, NEW c \in Caller, NEW values \in Locals, NEW complete \in BOOLEAN,
         Store(c, values, complete)
  PROVE  /\ valid' \in [Slot -> BOOLEAN] /\ fresh' \in [Slot -> BOOLEAN]
         /\ psu_data' \in [Slot -> Records]
<1>1. PICK reach \in 0..4 : psu_data' = Copied(fid[c], values, reach)
  BY DEF Store
<1>2. psu_data \in [Slot -> Records] /\ fid[c] \in Slot
  BY DEF Typed
<1>3. psu_data' \in [Slot -> Records]
  BY <1>1, <1>2, CopiedTyped
<1> QED BY <1>3 DEF Store, Typed

LEMMA FinishTyped ==
  ASSUME Typed, NEW c \in Caller, NEW values \in Locals, NEW complete \in BOOLEAN,
         Finish(c, values, complete)
  PROVE  /\ lock' \in BOOLEAN /\ strayed' \in BOOLEAN
         /\ at' \in [Caller -> States]
         /\ fid' \in [Caller -> Slot] /\ query' \in [Caller -> Query]
         /\ read' \in [Caller -> Locals] /\ ipmi_resp' \in [Caller -> Bytes]
         /\ rx_result' \in BOOLEAN
         /\ valid' \in [Slot -> BOOLEAN] /\ fresh' \in [Slot -> BOOLEAN]
         /\ psu_data' \in [Slot -> Records]
<1>1. "status" \in Query /\ "ready" \in States
  BY DEF Query, States
<1>2. Store(c, values, complete)
  BY DEF Finish
<1> QED BY <1>1, <1>2, RecordsTyped, StoreTyped DEF Finish, Typed

LEMMA GoOnTyped ==
  ASSUME Typed, NEW c \in Caller, NEW values \in Locals, GoOn(c, values)
  PROVE  /\ lock' \in BOOLEAN /\ strayed' \in BOOLEAN
         /\ at' \in [Caller -> States]
         /\ fid' \in [Caller -> Slot] /\ query' \in [Caller -> Query]
         /\ read' \in [Caller -> Locals] /\ ipmi_resp' \in [Caller -> Bytes]
         /\ rx_result' \in BOOLEAN
         /\ valid' \in [Slot -> BOOLEAN] /\ fresh' \in [Slot -> BOOLEAN]
         /\ psu_data' \in [Slot -> Records]
<1>1. \A q : NextQuery(q) \in Query
  BY DEF NextQuery, Query
<1>2. "send" \in States
  BY DEF States, InRefresh
<1> QED BY <1>1, <1>2, RecordsTyped DEF GoOn, Goto, Typed, cache

LEMMA TakeTyped ==
  ASSUME Typed, NEW c \in Caller, Take(c)
  PROVE  Typed'
<1>1. \/ \E values \in Locals : GoOn(c, values)
      \/ \E values \in Locals : Finish(c, values, TRUE)
  BY ValueTyped, LocalsTyped DEF Take
<1>2. UNCHANGED <<rx_msg_data, tx_message, numbers, done, failed>>
  BY DEF Take
<1>3. CASE \E values \in Locals : GoOn(c, values)
  BY <1>2, <1>3, GoOnTyped DEF Typed, numbers
<1>4. CASE \E values \in Locals : Finish(c, values, TRUE)
  BY <1>2, <1>4, FinishTyped DEF Typed, numbers
<1> QED BY <1>1, <1>3, <1>4

LEMMA NumberTyped ==
  ASSUME Typed, NEW c \in Caller, NEW asked \in Bytes, SetNumber(c, asked)
  PROVE  /\ request' \in [Caller -> Bytes] /\ outrun' \in [Caller -> BOOLEAN]
         /\ request'[c] = asked
         /\ \A d \in Caller : d # c => request'[d] \in {request[d], NoRequest}
         /\ \A d \in Caller : outrun'[d] => outrun[d] \/ (at[d] = "submit" /\ d # c)
  BY RecordsTyped DEF SetNumber, Typed

LEMMA FailureTyped ==
  ASSUME Typed, NEW c \in Caller, SendFails(c) \/ ReplyIsError(c)
  PROVE  Typed'
<1>1. Finish(c, read[c], FALSE) /\ read[c] \in Locals
  BY DEF SendFails, ReplyIsError, Typed
<1>2. SetNumber(c, NoRequest) \/ UNCHANGED <<request, outrun>>
  BY DEF SendFails, ReplyIsError, numbers
<1>3. NoRequest \in Bytes
  BY RecordsTyped
<1>4. /\ request' \in [Caller -> Bytes] /\ outrun' \in [Caller -> BOOLEAN]
      /\ \A d \in Caller : request'[d] # NoRequest => request[d] # NoRequest
  BY <1>2, <1>3, NumberTyped DEF Typed
<1>5. /\ UNCHANGED <<rx_msg_data, tx_message, done>> /\ failed' \in BOOLEAN
  BY DEF SendFails, ReplyIsError, Typed
<1> QED BY <1>1, <1>4, <1>5, FinishTyped DEF Typed

LEMMA ChannelTyped ==
  ASSUME Typed, NEW c \in Caller
  PROVE  /\ Prepare(c) \/ ReadNumber(c) \/ Submit(c) \/ Wake(c) => Typed'
         /\ \A ok \in BOOLEAN : Deliver(c, ok) => Typed'
<1>1. {"number", "submit", "wait", "use"} \subseteq States
  BY DEF States, InRefresh
<1>2. ASSUME Prepare(c) PROVE Typed'
  <2>1. tx_message' \in Bytes /\ ipmi_resp' \in [Caller -> Bytes]
    BY <1>2, RecordsTyped DEF Prepare, Typed
  <2> QED BY <1>1, <1>2, <2>1 DEF Prepare, Goto, Typed, cache, numbers
<1>3. ASSUME ReadNumber(c) PROVE Typed'
  BY <1>1, <1>3 DEF ReadNumber, Goto, Typed, cache
<1>4. ASSUME Submit(c) PROVE Typed'
  <2>1. tx_message \in Bytes /\ SetNumber(c, tx_message)
    BY <1>4 DEF Submit, Typed
  <2>2. /\ request' \in [Caller -> Bytes] /\ outrun' \in [Caller -> BOOLEAN]
        /\ \A d \in Caller : request'[d] # NoRequest => request[d] # NoRequest \/ tx_message # NoRequest
    BY <2>1, NumberTyped
  <2> QED BY <1>1, <1>4, <2>2 DEF Submit, Goto, Typed, cache
<1>5. ASSUME Wake(c) PROVE Typed'
  BY <1>1, <1>5 DEF Wake, Goto, Typed, cache, numbers
<1>6. ASSUME NEW ok \in BOOLEAN, Deliver(c, ok) PROVE Typed'
  <2>1. request' \in [Caller -> Bytes] /\ ipmi_resp' \in [Caller -> Bytes]
    BY <1>6, RecordsTyped DEF Deliver, Typed
  <2>2. \A d \in Caller : request'[d] # NoRequest => request[d] # NoRequest
    BY <1>6 DEF Deliver, Typed
  <2> QED BY <1>6, <2>1, <2>2 DEF Deliver, Typed, cache
<1> QED BY <1>2, <1>3, <1>4, <1>5, <1>6

LEMMA ShowTyped ==
  ASSUME Typed
  PROVE  /\ \A c \in Caller, p \in Slot : Lock(c, p) => Typed'
         /\ \A c \in Caller : Unlock(c) \/ Return(c) \/ RefuseNegative(c) => Typed'
         /\ \A p \in Slot : Expire(p) => Typed'
<1> USE DEF Typed, handlers, channel, cache, numbers
<1>0. {"idle", "ready", "shown", "negative", "send"} \subseteq States
  BY DEF States, InRefresh
<1>1. ASSUME NEW c \in Caller, NEW p \in Slot, Lock(c, p) PROVE Typed'
  BY <1>0, <1>1 DEF Lock, Goto, Query
<1>2. ASSUME NEW c \in Caller, Unlock(c) PROVE Typed'
  BY <1>0, <1>2 DEF Unlock, Goto
<1>3. ASSUME NEW c \in Caller, Return(c) PROVE Typed'
  BY <1>0, <1>3, SlotTyped DEF Return, Goto
<1>4. ASSUME NEW c \in Caller, RefuseNegative(c) PROVE Typed'
  BY <1>0, <1>4, SlotTyped DEF RefuseNegative, Goto
<1>5. ASSUME NEW p \in Slot, Expire(p) PROVE Typed'
  BY <1>5 DEF Expire
<1> QED BY <1>1, <1>2, <1>3, <1>4, <1>5

LEMMA TypedStep == Typed /\ [Next]_vars => Typed'
<1> SUFFICES ASSUME Typed, [Next]_vars PROVE Typed'
  OBVIOUS
<1>1. CASE UNCHANGED vars
  BY <1>1 DEF vars, handlers, channel, cache, numbers, Typed
<1> QED BY <1>1, ChannelTyped, ShowTyped, TakeTyped, FailureTyped DEF Next, Show

-----------------------------------------------------------------------------
(* What the steps inside a refresh have in common, and those outside. *)

Refreshing(c) == at[c] \in InRefresh
Refreshes(c) ==
  Prepare(c) \/ ReadNumber(c) \/ Submit(c) \/ Wake(c) \/ SendFails(c) \/ ReplyIsError(c) \/ Take(c)
Leaves(c) == Unlock(c) \/ Return(c) \/ RefuseNegative(c)

LEMMA RefreshSteps ==
  ASSUME Typed, NEW c \in Caller, Refreshes(c)
  PROVE  /\ Refreshing(c) /\ UNCHANGED <<lock, fid, strayed>>
         /\ at'[c] \in InRefresh \cup {"ready"}
         /\ \A d \in Caller : d # c => at'[d] = at[d] /\ query'[d] = query[d] /\ read'[d] = read[d]
         /\ \/ at'[c] # "ready" /\ UNCHANGED cache
            \/ /\ at'[c] = "ready"
               /\ \/ Take(c) /\ \E values \in Locals : Finish(c, values, TRUE)
                  \/ (SendFails(c) \/ ReplyIsError(c)) /\ Finish(c, read[c], FALSE)
<1> USE DEF Typed, Refreshing, Goto, handlers, cache, InRefresh
<1>1. CASE Prepare(c) BY <1>1 DEF Prepare
<1>2. CASE ReadNumber(c) BY <1>2 DEF ReadNumber
<1>3. CASE Submit(c) BY <1>3 DEF Submit
<1>4. CASE Wake(c) BY <1>4 DEF Wake
<1>5. CASE SendFails(c) \/ ReplyIsError(c)
  BY <1>5 DEF SendFails, ReplyIsError, Finish
<1>6. CASE Take(c)
  <2>1. \/ \E values \in Locals : GoOn(c, values)
        \/ \E values \in Locals : Finish(c, values, TRUE)
    BY <1>6, ValueTyped, LocalsTyped DEF Take
  <2>2. CASE \E values \in Locals : GoOn(c, values)
    BY <2>2 DEF GoOn
  <2>3. CASE \E values \in Locals : Finish(c, values, TRUE)
    BY <1>6, <2>3 DEF Finish, Take
  <2> QED BY <2>1, <2>2, <2>3
<1> QED BY <1>1, <1>2, <1>3, <1>4, <1>5, <1>6 DEF Refreshes

LEMMA OtherSteps ==
  ASSUME Typed
  PROVE  /\ \A c \in Caller, p \in Slot : Lock(c, p) =>
              /\ ~lock /\ lock' /\ fid'[c] = p
              /\ at[c] = "idle" /\ at'[c] = (IF valid[p] /\ fresh[p] THEN "ready" ELSE "send")
              /\ \A d \in Caller : d # c => at'[d] = at[d] /\ fid'[d] = fid[d]
              /\ valid' = [valid EXCEPT ![p] = valid[p] /\ fresh[p]]
              /\ UNCHANGED <<read, psu_data, strayed, failed, channel, ipmi_resp>>
         /\ \A c \in Caller : Leaves(c) =>
              /\ at'[c] \in {"idle", "shown", "negative"} /\ at[c] \in {"ready", "shown", "negative"}
              /\ at'[c] = "shown" => fid'[c] = fid[c] /\ at[c] = "ready"
              /\ lock' => lock
              /\ lock' = lock \/ at[c] = "ready" \/ strayed'
              /\ strayed => strayed'
              /\ \A d \in Caller : d # c => at'[d] = at[d] /\ fid'[d] = fid[d]
              /\ UNCHANGED <<query, read, ipmi_resp, channel, cache, failed>>
<1> USE DEF Typed, Goto, cache, channel, numbers
<1>1. ASSUME NEW c \in Caller, NEW p \in Slot, Lock(c, p)
      PROVE  /\ ~lock /\ lock' /\ fid'[c] = p
             /\ at[c] = "idle" /\ at'[c] = (IF valid[p] /\ fresh[p] THEN "ready" ELSE "send")
             /\ \A d \in Caller : d # c => at'[d] = at[d] /\ fid'[d] = fid[d]
             /\ valid' = [valid EXCEPT ![p] = valid[p] /\ fresh[p]]
             /\ UNCHANGED <<read, psu_data, strayed, failed, channel, ipmi_resp>>
  BY <1>1 DEF Lock
<1>2. ASSUME NEW c \in Caller, Leaves(c)
      PROVE  /\ at'[c] \in {"idle", "shown", "negative"} /\ at[c] \in {"ready", "shown", "negative"}
             /\ at'[c] = "shown" => fid'[c] = fid[c] /\ at[c] = "ready"
             /\ lock' => lock
             /\ lock' = lock \/ at[c] = "ready" \/ strayed'
             /\ strayed => strayed'
             /\ \A d \in Caller : d # c => at'[d] = at[d] /\ fid'[d] = fid[d]
             /\ UNCHANGED <<query, read, ipmi_resp, channel, cache, failed>>
  <2>1. CASE Unlock(c) BY <2>1 DEF Unlock
  <2>2. CASE Return(c) BY <2>2 DEF Return
  <2>3. CASE RefuseNegative(c) BY <2>3 DEF RefuseNegative
  <2> QED BY <1>2, <2>1, <2>2, <2>3 DEF Leaves
<1> QED BY <1>1, <1>2

(* The disjuncts of the next-state relation by these names. *)
LEMMA NextSteps ==
  Next => \/ \E c \in Caller, p \in Slot : Lock(c, p)
          \/ \E c \in Caller : Refreshes(c) \/ Leaves(c)
          \/ \E c \in Caller, ok \in BOOLEAN : Deliver(c, ok)
          \/ \E p \in Slot : Expire(p)
  BY DEF Next, Show, Refreshes, Leaves

-----------------------------------------------------------------------------
(* As long as no lock was given back twice, one process is inside.         *)

Alone ==
  ~strayed => \A c \in Caller : Inside(c) => lock /\ \A d \in Caller : Inside(d) => d = c

LEMMA AloneStep == Typed /\ Alone /\ [Next]_vars => Alone'
<1> SUFFICES ASSUME Typed, Alone, [Next]_vars PROVE Alone'
  OBVIOUS
<1> USE DEF Alone, Inside
<1>1. CASE UNCHANGED vars
  BY <1>1 DEF vars, handlers
<1>2. ASSUME NEW c \in Caller, NEW ok \in BOOLEAN, Deliver(c, ok) PROVE Alone'
  BY <1>2 DEF Deliver
<1>3. ASSUME NEW p \in Slot, Expire(p) PROVE Alone'
  BY <1>3 DEF Expire, handlers
<1>4. ASSUME NEW c \in Caller, NEW p \in Slot, Lock(c, p) PROVE Alone'
  BY <1>4, OtherSteps
<1>5. ASSUME NEW c \in Caller, Leaves(c) PROVE Alone'
  BY <1>5, OtherSteps
<1>6. ASSUME NEW c \in Caller, Refreshes(c) PROVE Alone'
  <2>1. /\ UNCHANGED <<lock, strayed>>
        /\ \A d \in Caller : d # c => at'[d] = at[d]
        /\ Inside(c)
    BY <1>6, RefreshSteps DEF Refreshing, InRefresh
  <2>2. \A d \in Caller : at'[d] \notin {"idle", "shown", "negative"} => Inside(d)
    BY <2>1
  <2> QED BY <2>1, <2>2
<1> QED BY <1>1, <1>2, <1>3, <1>4, <1>5, <1>6, NextSteps

(* And with it one request is under way, and nobody's number is taken.     *)
OneRequest ==
  ~strayed =>
    /\ \A c \in Caller : ~outrun[c]
    /\ \A c, d \in Caller : request[c] # NoRequest /\ request[d] # NoRequest => d = c

LEMMA OneRequestStep == Typed /\ Alone /\ OneRequest /\ [Next]_vars => OneRequest'
<1> SUFFICES ASSUME Typed, Alone, OneRequest, [Next]_vars, ~strayed' PROVE OneRequest'
  BY DEF OneRequest
<1>0. ASSUME ~strayed, UNCHANGED numbers PROVE OneRequest'
  BY <1>0 DEF OneRequest, numbers
<1>1. CASE UNCHANGED vars
  BY <1>0, <1>1 DEF vars, channel
<1>2. ASSUME NEW c \in Caller, NEW ok \in BOOLEAN, Deliver(c, ok) PROVE OneRequest'
  BY <1>2 DEF Deliver, OneRequest, Typed
<1>3. ASSUME NEW p \in Slot, Expire(p) PROVE OneRequest'
  BY <1>0, <1>3 DEF Expire, channel
<1>4. ASSUME NEW c \in Caller, NEW p \in Slot, Lock(c, p) PROVE OneRequest'
  BY <1>0, <1>4 DEF Lock, channel
<1>5. ASSUME NEW c \in Caller, Leaves(c) PROVE OneRequest'
  BY <1>0, <1>5, OtherSteps DEF channel
<1>6. ASSUME NEW c \in Caller, Refreshes(c) PROVE OneRequest'
  <2>1. ~strayed
    BY <1>6, RefreshSteps
  <2>2. ASSUME NEW asked, at[c] = "submit", SetNumber(c, asked) PROVE OneRequest'
    <3>1. ~outrun[c] /\ \A d \in Caller : d # c => at[d] # "submit"
      BY <2>1, <2>2 DEF Alone, OneRequest, Inside
    <3>2. /\ request' = [d \in Caller |-> IF d = c THEN asked ELSE NoRequest]
          /\ outrun' = [d \in Caller |-> d # c /\ at[d] = "submit"]
      BY <2>2, <3>1 DEF SetNumber
    <3> QED BY <3>1, <3>2 DEF OneRequest
  <2>3. CASE Prepare(c) \/ Wake(c) \/ ReplyIsError(c) \/ Take(c)
    BY <1>0, <2>1, <2>3 DEF Prepare, Wake, ReplyIsError, Take
  <2>4. CASE ReadNumber(c)
    BY <2>1, <2>4 DEF ReadNumber, OneRequest, Typed
  <2>5. CASE Submit(c)
    BY <2>2, <2>5 DEF Submit, Goto
  <2>6. CASE SendFails(c)
    BY <1>0, <2>1, <2>2, <2>6 DEF SendFails
  <2> QED BY <1>6, <2>3, <2>4, <2>5, <2>6 DEF Refreshes
<1> QED BY <1>1, <1>2, <1>3, <1>4, <1>5, <1>6, NextSteps

-----------------------------------------------------------------------------
(* Completions: each process that starts to wait brings at most one, and a *)
(* process that stops waiting takes one or leaves none behind.             *)

(* The processes that wait, and those whose request has the number of an   *)
(* answer that will be taken; what may be there beyond the waiters.        *)
Waiting == {c \in Caller : at[c] = "wait"}
Asking == {c \in Caller : request[c] # NoRequest}
Beyond == IF strayed THEN Cardinality(Caller) ELSE 1
Bounded == done + Cardinality(Asking) <= Cardinality(Waiting) + Beyond

LEMMA Counts ==
  ASSUME NEW S \in SUBSET Caller
  PROVE  /\ Cardinality(S) \in Nat /\ Cardinality(S) <= Cardinality(Caller)
         /\ Cardinality(Caller) \in Nat
         /\ \A T \in SUBSET S : Cardinality(T) <= Cardinality(S)
         /\ \A c \in Caller \ S : Cardinality(S \cup {c}) = Cardinality(S) + 1
         /\ \A c \in S : Cardinality(S \ {c}) = Cardinality(S) - 1
<1>1. IsFiniteSet(Caller) /\ IsFiniteSet(S)
  BY CallerAssumption, FS_Subset
<1>2. /\ Cardinality(S) \in Nat /\ Cardinality(S) <= Cardinality(Caller)
      /\ Cardinality(Caller) \in Nat
      /\ \A T \in SUBSET S : Cardinality(T) <= Cardinality(S)
  BY <1>1, FS_Subset, FS_CardinalityType
<1> QED BY <1>1, <1>2, FS_AddElement, FS_RemoveElement

LEMMA SetsTyped ==
  /\ Waiting \in SUBSET Caller /\ Asking \in SUBSET Caller
  /\ Waiting' \in SUBSET Caller /\ Asking' \in SUBSET Caller
  /\ Cardinality(Waiting) \in Nat /\ Cardinality(Asking) \in Nat /\ Beyond \in Nat
  /\ Cardinality(Waiting') \in Nat /\ Cardinality(Asking') \in Nat
<1>1. /\ Waiting \in SUBSET Caller /\ Asking \in SUBSET Caller
      /\ Waiting' \in SUBSET Caller /\ Asking' \in SUBSET Caller
  BY DEF Waiting, Asking
<1> QED BY <1>1, Counts DEF Beyond

(* At most one asks, unless a lock was given back twice. *)
LEMMA FewAsk == OneRequest => Cardinality(Asking) <= Beyond
<1> SUFFICES ASSUME OneRequest PROVE Cardinality(Asking) <= Beyond
  OBVIOUS
<1>1. CASE strayed
  BY <1>1, SetsTyped, Counts DEF Beyond
<1>2. CASE ~strayed /\ Asking = {}
  BY <1>2, FS_EmptySet DEF Beyond
<1>3. CASE ~strayed /\ Asking # {}
  <2>1. PICK c \in Asking : TRUE
    BY <1>3
  <2>2. Asking = {c}
    BY <1>3, <2>1 DEF OneRequest, Asking
  <2>3. Cardinality(Asking) = 1
    BY <2>2, FS_Singleton
  <2> QED BY <1>3, <2>3 DEF Beyond
<1> QED BY <1>1, <1>2, <1>3

LEMMA BoundedInit == Init => Bounded
<1> SUFFICES ASSUME Init PROVE Bounded
  OBVIOUS
<1>1. Asking = {} /\ done = 0 /\ Beyond = 1
  BY DEF Init, Asking, Beyond
<1>2. Cardinality(Asking) = 0
  BY <1>1, FS_EmptySet
<1> QED BY <1>1, <1>2, SetsTyped DEF Bounded

(* The number a request gets is taken from the others, or from none. *)
LEMMA NumberAsks ==
  ASSUME Typed, NEW c \in Caller, NEW asked \in Bytes, SetNumber(c, asked)
  PROVE  /\ Asking' \subseteq Asking \cup {c}
         /\ asked = NoRequest => Asking' \subseteq Asking
         /\ Cardinality(Asking') <= Cardinality(Asking) + 1
         /\ asked = NoRequest => Cardinality(Asking') <= Cardinality(Asking)
<1>1. Asking' \subseteq Asking \cup {c} /\ (asked = NoRequest => Asking' \subseteq Asking)
  BY NumberTyped DEF Asking
<1>2. CASE c \in Asking
  <2>1. Asking' \subseteq Asking
    BY <1>1, <1>2
  <2>2. Cardinality(Asking') <= Cardinality(Asking)
    BY <2>1, SetsTyped, Counts
  <2> QED BY <1>1, <2>2, SetsTyped
<1>3. CASE c \notin Asking
  <2>1. Cardinality(Asking \cup {c}) = Cardinality(Asking) + 1
    BY <1>3, SetsTyped, Counts
  <2>2. Cardinality(Asking') <= Cardinality(Asking \cup {c})
    BY <1>1, SetsTyped, Counts
  <2>3. asked = NoRequest => Cardinality(Asking') <= Cardinality(Asking)
    BY <1>1, SetsTyped, Counts
  <2> QED BY <1>1, <2>1, <2>2, <2>3
<1> QED BY <1>2, <1>3

LEMMA WaitChanges ==
  ASSUME Typed, NEW c \in Caller, Refreshes(c)
  PROVE  /\ at[c] # "wait" /\ at'[c] # "wait" => Waiting' = Waiting
         /\ at[c] # "wait" /\ at'[c] = "wait" => Cardinality(Waiting') = Cardinality(Waiting) + 1
         /\ at[c] = "wait" /\ at'[c] # "wait" => Cardinality(Waiting') = Cardinality(Waiting) - 1
<1>1. \A d \in Caller : d # c => at'[d] = at[d]
  BY RefreshSteps
<1>2. /\ at[c] # "wait" /\ at'[c] # "wait" => Waiting' = Waiting
      /\ at[c] # "wait" /\ at'[c] = "wait" => c \in Caller \ Waiting /\ Waiting' = Waiting \cup {c}
      /\ at[c] = "wait" /\ at'[c] # "wait" => c \in Waiting /\ Waiting' = Waiting \ {c}
  BY <1>1 DEF Waiting
<1> QED BY <1>2, SetsTyped, Counts

(* The sums: d completions, a askers and w waiters before a step, and after. *)
LEMMA Sums ==
  ASSUME NEW d \in Nat, NEW a \in Nat, NEW w \in Nat, NEW b \in Nat,
         NEW e \in Nat, NEW k \in Nat, NEW v \in Nat, d + a <= w + b, a <= b,
         \/ e = d /\ k <= a + 1 /\ v = w + 1
         \/ e = d /\ k <= a /\ v = w
         \/ e = d - 1 /\ k = a /\ v = w - 1
         \/ e = 0 /\ k = a
  PROVE  e + k <= v + b
  OBVIOUS

LEMMA RefreshBounded ==
  ASSUME Typed, OneRequest, Bounded, Typed', NEW c \in Caller, Refreshes(c)
  PROVE  Bounded'
<1>0. Beyond' = Beyond
  <2>1. strayed' = strayed
    BY RefreshSteps
  <2> QED BY <2>1 DEF Beyond
<1>1. /\ done \in Nat /\ Cardinality(Asking) \in Nat /\ Cardinality(Waiting) \in Nat /\ Beyond \in Nat
      /\ done' \in Nat /\ Cardinality(Asking') \in Nat /\ Cardinality(Waiting') \in Nat
      /\ done + Cardinality(Asking) <= Cardinality(Waiting) + Beyond
      /\ Cardinality(Asking) <= Beyond
  BY SetsTyped, FewAsk DEF Typed, Bounded
<1>2. \/ /\ done' = done
         /\ Cardinality(Asking') <= Cardinality(Asking) + 1
         /\ Cardinality(Waiting') = Cardinality(Waiting) + 1
      \/ /\ done' = done
         /\ Cardinality(Asking') <= Cardinality(Asking)
         /\ Cardinality(Waiting') = Cardinality(Waiting)
      \/ /\ done' = done - 1
         /\ Cardinality(Asking') = Cardinality(Asking)
         /\ Cardinality(Waiting') = Cardinality(Waiting) - 1
      \/ done' = 0 /\ Cardinality(Asking') = Cardinality(Asking)
  <2>1. CASE Prepare(c) \/ ReadNumber(c) \/ ReplyIsError(c) \/ Take(c)
    <3>1. at[c] # "wait" /\ at'[c] # "wait" /\ UNCHANGED <<request, done>>
      BY <2>1 DEF Prepare, ReadNumber, ReplyIsError, Take, GoOn, Finish, Goto, Typed, numbers
    <3>2. Waiting' = Waiting /\ Asking' = Asking
      BY <3>1, WaitChanges DEF Asking
    <3> QED BY <1>1, <3>1, <3>2
  <2>2. CASE Submit(c)
    <3>1. at[c] = "submit" /\ at'[c] = "wait" /\ done' = done /\ SetNumber(c, tx_message)
      BY <2>2 DEF Submit, Goto, Typed
    <3> QED BY <3>1, WaitChanges, NumberAsks DEF Typed
  <2>3. CASE Wake(c)
    <3>1. at[c] = "wait" /\ at'[c] = "use" /\ done' = done - 1 /\ request' = request
      BY <2>3 DEF Wake, Goto, Typed, numbers
    <3>2. Asking' = Asking
      BY <3>1 DEF Asking
    <3> QED BY <3>1, <3>2, WaitChanges
  <2>4. CASE SendFails(c) /\ at[c] = "submit"
    <3>1. at'[c] = "ready" /\ done' = done /\ SetNumber(c, NoRequest)
      BY <2>4 DEF SendFails, Finish, Typed
    <3>2. Waiting' = Waiting
      BY <2>4, <3>1, WaitChanges
    <3>3. Cardinality(Asking') <= Cardinality(Asking)
      BY <3>1, RecordsTyped, NumberAsks
    <3> QED BY <3>1, <3>2, <3>3
  <2>5. CASE SendFails(c) /\ at[c] = "wait"
    <3>1. done' = 0 /\ request' = request
      BY <2>5 DEF SendFails, Finish, Typed, numbers
    <3> QED BY <3>1 DEF Asking
  <2> QED BY <2>1, <2>2, <2>3, <2>4, <2>5 DEF Refreshes, SendFails
<1>3. done' + Cardinality(Asking') <= Cardinality(Waiting') + Beyond
  BY <1>1, <1>2, Sums
<1> QED BY <1>0, <1>3 DEF Bounded

LEMMA BoundedStep == Typed /\ Typed' /\ OneRequest /\ Bounded /\ [Next]_vars => Bounded'
<1> SUFFICES ASSUME Typed, Typed', OneRequest, Bounded, [Next]_vars PROVE Bounded'
  OBVIOUS
<1>0. ASSUME Waiting' = Waiting, UNCHANGED <<request, done>>,
             Caller # {} \/ strayed' = strayed, strayed => strayed'
      PROVE  Bounded'
  <2>1. Asking' = Asking /\ done \in Nat
    BY <1>0 DEF Asking, Typed
  <2>2. CASE strayed' = strayed
    <3>1. Beyond' = Beyond
      BY <2>2 DEF Beyond
    <3> QED BY <1>0, <2>1, <3>1 DEF Bounded
  <2>3. CASE Caller # {} /\ ~strayed /\ strayed'
    <3>1. Beyond = 1 /\ Beyond' = Cardinality(Caller)
      BY <2>3 DEF Beyond
    <3>2. PICK c \in Caller : TRUE
      BY <2>3
    <3>3. Cardinality({c}) <= Cardinality(Caller) /\ Cardinality({c}) = 1 /\ Cardinality(Caller) \in Nat
      BY Counts, FS_Singleton
    <3> QED BY <1>0, <2>1, <3>1, <3>3, SetsTyped DEF Bounded
  <2> QED BY <1>0, <2>2, <2>3 DEF Typed
<1> USE DEF handlers, channel, cache, numbers
<1>1. CASE UNCHANGED vars
  BY <1>0, <1>1 DEF vars, Waiting
<1>2. ASSUME NEW c \in Caller, NEW ok \in BOOLEAN, Deliver(c, ok) PROVE Bounded'
  <2>1. /\ Waiting' = Waiting /\ Beyond' = Beyond /\ done' = done + 1
        /\ c \in Asking /\ Asking' = Asking \ {c}
    BY <1>2 DEF Deliver, Waiting, Asking, Beyond, Typed
  <2>2. Cardinality(Asking') = Cardinality(Asking) - 1
    BY <2>1, SetsTyped, Counts
  <2> QED BY <2>1, <2>2, SetsTyped DEF Bounded, Typed
<1>3. ASSUME NEW c \in Caller, NEW p \in Slot, Lock(c, p) PROVE Bounded'
  BY <1>0, <1>3 DEF Lock, Goto, Waiting, Typed
<1>4. ASSUME NEW p \in Slot, Expire(p) PROVE Bounded'
  BY <1>0, <1>4 DEF Expire, Waiting
<1>5. ASSUME NEW c \in Caller, Leaves(c) PROVE Bounded'
  <2>1. Waiting' = Waiting
    BY <1>5, OtherSteps DEF Waiting
  <2> QED BY <1>0, <1>5, <2>1, OtherSteps
<1> QED BY <1>1, <1>2, <1>3, <1>4, <1>5, RefreshBounded, NextSteps

(* Every state is well typed. However many messages time out, at most one  *)
(* completion is pending or to come beyond the processes that wait for     *)
(* one, and after a lock was given back twice, when two handlers may give  *)
(* two requests one number, at most one for each process.                  *)
THEOREM PsuTypeCorrect == Spec => []TypeOK
<1>1. Init => Alone /\ OneRequest
  BY DEF Init, Alone, OneRequest, Inside
<1>2. Typed /\ Bounded => TypeOK
  <2> SUFFICES ASSUME Typed, Bounded PROVE TypeOK
    OBVIOUS
  <2>1. done \in 0..Cardinality(Waiting) + Beyond - Cardinality(Asking)
    BY SetsTyped DEF Bounded, Typed
  <2>2. \A c \in Caller : ipmi_resp[c] = Zeros \/ ipmi_resp[c].fid \in Slot
    BY DEF Typed, Bytes
  <2>3. \A p \in Slot : /\ psu_data[p].pin \in NotRead..Garbage /\ psu_data[p].model \in 0..Garbage
                        /\ psu_data[p].type \in {"none", "ac", "dc12v", "wild"}
    BY DEF Typed, Records, Values, Kinds, NotRead, Other, Garbage
  <2>4. at \in [Caller -> {"idle", "ready", "shown", "negative"} \cup InRefresh]
    BY DEF Typed, States
  <2> QED BY <2>1, <2>2, <2>3, <2>4 DEF TypeOK, Typed, Waiting, Asking, Beyond
<1> QED BY TypedInit, BoundedInit, TypedStep, AloneStep, OneRequestStep, BoundedStep, <1>1, <1>2,
           PTL DEF Spec

(* The lock is never left held by nobody, however often it is given back.  *)
THEOREM NeverLockedOut == Spec => []NobodyIsLockedOut
<1>1. Init => NobodyIsLockedOut
  BY DEF Init, NobodyIsLockedOut
<1>2. Typed /\ NobodyIsLockedOut /\ [Next]_vars => NobodyIsLockedOut'
  <2> SUFFICES ASSUME Typed, NobodyIsLockedOut, [Next]_vars PROVE NobodyIsLockedOut'
    OBVIOUS
  <2>1. ASSUME lock' => lock, \A c \in Caller : Inside(c) => Inside(c)' PROVE NobodyIsLockedOut'
    BY <2>1 DEF NobodyIsLockedOut, Inside
  <2>2. CASE UNCHANGED vars
    BY <2>1, <2>2 DEF vars, handlers, Inside
  <2>3. ASSUME NEW c \in Caller, NEW p \in Slot, Lock(c, p) PROVE NobodyIsLockedOut'
    <3>1. Inside(c)'
      BY <2>3, OtherSteps DEF Inside
    <3> QED BY <3>1 DEF NobodyIsLockedOut
  <2>4. ASSUME NEW c \in Caller, Unlock(c) \/ RefuseNegative(c) PROVE NobodyIsLockedOut'
    BY <2>4 DEF Unlock, RefuseNegative, NobodyIsLockedOut
  <2>5. ASSUME NEW c \in Caller, Return(c) PROVE NobodyIsLockedOut'
    BY <2>1, <2>5 DEF Return, Goto, Inside, Typed
  <2>6. ASSUME NEW c \in Caller, Refreshes(c) PROVE NobodyIsLockedOut'
    <3>1. /\ lock' = lock /\ Inside(c)'
          /\ \A d \in Caller : d # c => at'[d] = at[d]
      BY <2>6, RefreshSteps DEF Inside, InRefresh
    <3> QED BY <2>1, <3>1 DEF Inside
  <2>7. ASSUME NEW c \in Caller, NEW ok \in BOOLEAN, Deliver(c, ok) PROVE NobodyIsLockedOut'
    BY <2>1, <2>7 DEF Deliver, Inside
  <2>8. ASSUME NEW p \in Slot, Expire(p) PROVE NobodyIsLockedOut'
    BY <2>1, <2>8 DEF Expire, handlers, Inside
  <2> QED BY <2>2, <2>3, <2>4, <2>5, <2>6, <2>7, <2>8, NextSteps DEF Leaves
<1> QED BY <1>1, <1>2, TypedInit, TypedStep, PTL DEF Spec

-----------------------------------------------------------------------------
(* A slot that is being refreshed does not count as valid, and one that    *)
(* does is complete.                                                       *)

CompleteAt(p) ==
  valid[p] /\ psu_data[p].type = "ac" =>
    /\ psu_data[p].pin # NotRead
    /\ p = 1 => Garbage \notin {psu_data[p].pin, psu_data[p].model}

Complete ==
  ~strayed => /\ \A c \in Caller : Refreshing(c) => ~valid[fid[c]]
              /\ \A p \in Slot : CompleteAt(p)

(* A refresh that is complete has read what it stores. *)
LEMMA TakenComplete ==
  ASSUME Typed, NEW c \in Caller, Take(c), at'[c] = "ready"
  PROVE  \E values \in Locals :
           /\ Finish(c, values, TRUE)
           /\ values.type = "ac" => values.pin # NotRead /\ Garbage \notin {values.pin, values.model}
<1>1. ASSUME NEW v, GoOn(c, v) PROVE FALSE
  BY <1>1 DEF GoOn, Goto, Typed
<1>2. read[c] \in Locals
  BY LocalsTyped
<1>3. CASE query[c] = "status"
  BY <1>1, <1>3 DEF Take
<1>4. CASE query[c] = "type"
  <2>1. PICK t \in Types(c) : IF t = "none" THEN Finish(c, [read[c] EXCEPT !.type = t], TRUE)
                              ELSE GoOn(c, [read[c] EXCEPT !.type = t])
    BY <1>4 DEF Take
  <2> DEFINE values == [read[c] EXCEPT !.type = "none"]
  <2>2. Finish(c, values, TRUE)
    BY <1>1, <2>1
  <2>3. values \in Locals /\ values.type = "none"
    BY <1>2 DEF Locals, Kinds
  <2> QED BY <2>2, <2>3
<1>5. CASE query[c] = "pout"
  <2>1. IF read[c].type = "dc12v" THEN Finish(c, read[c], TRUE) ELSE GoOn(c, read[c])
    BY <1>5 DEF Take
  <2>2. read[c].type = "dc12v" /\ Finish(c, read[c], TRUE)
    BY <1>1, <2>1
  <2> QED BY <1>2, <2>2
<1>6. CASE query[c] = "pin"
  <2> DEFINE values == [read[c] EXCEPT !.pin = Value(c), !.model = Value(c)]
  <2>1. Finish(c, values, TRUE)
    BY <1>6 DEF Take
  <2>2. values \in Locals
    BY ValueTyped, LocalsTyped
  <2>3. values.pin = Value(c) /\ values.model = Value(c)
    BY <1>2 DEF Locals
  <2>4. Value(c) # NotRead /\ Value(c) # Garbage
    BY ValueTyped DEF Values, NotRead, Garbage, Other
  <2> QED BY <2>1, <2>2, <2>3, <2>4
<1> QED BY <1>3, <1>4, <1>5, <1>6 DEF Typed, Query

(* What the copies leave complete: of the other slots, what was, and of    *)
(* the own one what is stored.                                             *)
LEMMA StoreKeeps ==
  ASSUME Typed, NEW c \in Caller, NEW values \in Locals, NEW complete \in BOOLEAN,
         Store(c, values, complete)
  PROVE  /\ valid'[fid[c]] = (valid[fid[c]] \/ complete)
         /\ \A p \in Slot \ {fid[c]} : valid'[p] = valid[p] /\ (CompleteAt(p) => CompleteAt(p)')
         /\ complete /\ (values.type = "ac" =>
                           values.pin # NotRead /\ Garbage \notin {values.pin, values.model})
              => \A p \in Slot : p = fid[c] => CompleteAt(p)'
<1>1. PICK reach \in 0..4 : psu_data' = Copied(fid[c], values, reach)
  BY DEF Store
<1>2. fid[c] \in Slot /\ psu_data \in [Slot -> Records] /\ values.type # "wild"
  BY DEF Typed, Locals, Kinds
<1>3. /\ valid'[fid[c]] = (valid[fid[c]] \/ complete)
      /\ \A p \in Slot \ {fid[c]} : valid'[p] = valid[p]
  BY <1>2 DEF Store, Typed
<1>4. ASSUME NEW p \in Slot \ {fid[c]}, CompleteAt(p) PROVE CompleteAt(p)'
  <2>1. /\ psu_data'[p].type \in {psu_data[p].type, "wild"}
        /\ psu_data'[p].pin \in {psu_data[p].pin, Garbage}
        /\ p = 1 => psu_data'[p] = psu_data[p]
    BY <1>1, <1>2, CopiedTyped
  <2>2. NotRead # Garbage
    BY DEF NotRead, Garbage
  <2> QED BY <1>3, <1>4, <2>1, <2>2 DEF CompleteAt
<1>5. psu_data'[fid[c]] \in {values, [values EXCEPT !.type = "wild"]}
  BY <1>1, <1>2, CopiedTyped
<1>6. [values EXCEPT !.type = "wild"].type = "wild"
  BY DEF Locals
<1>7. ASSUME values.type = "ac" => values.pin # NotRead /\ Garbage \notin {values.pin, values.model},
             NEW p \in Slot, p = fid[c]
      PROVE  CompleteAt(p)'
  <2>1. CASE psu_data'[p] = values
    BY <1>7, <2>1 DEF CompleteAt
  <2>2. CASE psu_data'[p].type = "wild"
    BY <2>2 DEF CompleteAt
  <2> QED BY <1>5, <1>6, <1>7, <2>1, <2>2
<1> QED BY <1>3, <1>4, <1>7

LEMMA CompleteStep == Typed /\ Alone /\ Complete /\ [Next]_vars => Complete'
<1> SUFFICES ASSUME Typed, Alone, Complete, [Next]_vars, ~strayed' PROVE Complete'
  BY DEF Complete
<1> USE DEF Refreshing, InRefresh
<1>1. CASE UNCHANGED vars
  BY <1>1 DEF vars, handlers, cache, Complete, CompleteAt
<1>2. ASSUME NEW c \in Caller, NEW ok \in BOOLEAN, Deliver(c, ok) PROVE Complete'
  BY <1>2 DEF Deliver, cache, Complete, CompleteAt
<1>3. ASSUME NEW p \in Slot, Expire(p) PROVE Complete'
  BY <1>3 DEF Expire, handlers, cache, Complete, CompleteAt
<1>4. ASSUME NEW c \in Caller, NEW p \in Slot, Lock(c, p) PROVE Complete'
  BY <1>4, OtherSteps DEF Typed, Complete, CompleteAt
<1>5. ASSUME NEW c \in Caller, Leaves(c) PROVE Complete'
  BY <1>5, OtherSteps DEF cache, Complete, CompleteAt
<1>6. ASSUME NEW c \in Caller, Refreshes(c) PROVE Complete'
  <2>0. /\ ~strayed /\ fid' = fid /\ fid[c] \in Slot /\ ~valid[fid[c]]
        /\ \A d \in Caller : d # c => ~Refreshing(d) /\ ~Refreshing(d)'
    <3>1. ~strayed /\ fid' = fid /\ Refreshing(c)
      BY <1>6, RefreshSteps
    <3>2. fid[c] \in Slot /\ ~valid[fid[c]]
      BY <3>1 DEF Typed, Complete
    <3>3. ASSUME NEW d \in Caller, d # c PROVE ~Refreshing(d)
      BY <3>1, <3>3 DEF Alone, Inside
    <3>4. ASSUME NEW d \in Caller, d # c PROVE at'[d] = at[d]
      BY <1>6, <3>4, RefreshSteps
    <3> QED BY <3>1, <3>2, <3>3, <3>4
  <2>1. CASE at'[c] # "ready"
    <3>1. UNCHANGED cache
      BY <1>6, <2>1, RefreshSteps
    <3> QED BY <2>0, <3>1 DEF Complete, CompleteAt, cache
  <2>2. CASE at'[c] = "ready" /\ Take(c)
    <3>1. PICK values \in Locals :
            /\ Finish(c, values, TRUE)
            /\ values.type = "ac" => values.pin # NotRead /\ Garbage \notin {values.pin, values.model}
      BY <2>2, TakenComplete
    <3>2. Store(c, values, TRUE)
      BY <3>1 DEF Finish
    <3>3. \A p \in Slot : CompleteAt(p)'
      BY <2>0, <3>1, <3>2, StoreKeeps DEF Complete
    <3>4. \A d \in Caller : ~Refreshing(d)'
      BY <2>0, <2>2
    <3> QED BY <3>3, <3>4 DEF Complete
  <2>3. CASE at'[c] = "ready" /\ Finish(c, read[c], FALSE)
    <3>1. Store(c, read[c], FALSE) /\ read[c] \in Locals
      BY <2>3, LocalsTyped DEF Finish
    <3>2. valid'[fid[c]] = FALSE /\ \A p \in Slot \ {fid[c]} : CompleteAt(p)'
      BY <2>0, <3>1, StoreKeeps DEF Complete
    <3>3. \A p \in Slot : CompleteAt(p)'
      BY <3>2 DEF CompleteAt
    <3>4. \A d \in Caller : ~Refreshing(d)'
      BY <2>0, <2>3
    <3> QED BY <3>3, <3>4 DEF Complete
  <2> QED BY <1>6, <2>1, <2>2, <2>3, RefreshSteps
<1> QED BY <1>1, <1>2, <1>3, <1>4, <1>5, <1>6, NextSteps

(* A refresh that fails marks its slot: as long as no lock was given back  *)
(* twice, a slot that counts as valid and has a type that is read to the   *)
(* end has a reading, and in the first slot, which no refresh of another   *)
(* one copies over, the one that was read.                                 *)
THEOREM ValidComplete == Spec => []ValidIsComplete
<1>1. Init => Alone /\ Complete
  BY DEF Init, Alone, Complete, CompleteAt, Inside, Refreshing, InRefresh
<1>2. Complete => ValidIsComplete
  BY DEF Complete, CompleteAt, ValidIsComplete
<1> QED BY TypedInit, TypedStep, AloneStep, CompleteStep, <1>1, <1>2, PTL DEF Spec

-----------------------------------------------------------------------------
(* What a refresh knows of its power supply at each of its steps, as long  *)
(* as no message has failed and no lock was given back twice.              *)

Base(p) == [type |-> Kind[p], pin |-> NotRead, model |-> Garbage]

HasRead(c) ==
  /\ query[c] \in {"status", "type"} => read[c] = Unread
  /\ query[c] \in {"pout", "pin"} => read[c] = Base(fid[c]) /\ Kind[fid[c]] # "none"
  /\ query[c] = "pin" => Kind[fid[c]] = "ac"

Question(c) == [query |-> query[c], fid |-> fid[c]]

Honest(c) ==
  /\ ~Refreshing(c) => read[c] = Unread
  /\ Refreshing(c) => HasRead(c)
  /\ at[c] \in {"number", "submit"} => tx_message = Question(c) /\ rx_msg_data = c
  /\ at[c] = "wait" =>
       \/ request[c] = Question(c) /\ done = 0 /\ rx_msg_data = c
       \/ request[c] = NoRequest /\ done = 1 /\ ipmi_resp[c] = Question(c)
  /\ at[c] # "wait" => request[c] = NoRequest
  /\ at[c] = "use" => ipmi_resp[c] = Question(c)

OwnRecords ==
  /\ \A p \in Slot : valid[p] => Own(p)
  /\ \A c \in Caller : at[c] \in {"ready", "shown"} => Own(fid[c])

Owned ==
  ~failed /\ ~strayed =>
    /\ \A c \in Caller : Honest(c)
    /\ (\A c \in Caller : at[c] # "wait") => done = 0
    /\ rx_result

OwnedRecords == ~failed /\ ~strayed => OwnRecords

(* A step of c leaves what the others, who are outside, know. *)
LEMMA OthersHonest ==
  ASSUME Owned, ~failed, ~strayed, NEW d \in Caller, ~Inside(d),
         at'[d] = at[d], read'[d] = read[d], request'[d] \in {request[d], NoRequest}
  PROVE  Honest(d)'
  BY DEF Owned, Honest, Inside, Refreshing, InRefresh

LEMMA OwnedDeliver ==
  ASSUME Typed, Alone, Owned, NEW c \in Caller, NEW ok \in BOOLEAN, Deliver(c, ok), ~failed', ~strayed'
  PROVE  Owned'
<1>1. ~failed /\ ~strayed /\ ok /\ request[c] # NoRequest
  BY DEF Deliver, Typed
<1>2. at[c] = "wait" /\ request[c] = Question(c) /\ done = 0 /\ rx_msg_data = c
  BY <1>1 DEF Owned, Honest
<1>3. ipmi_resp'[c] = Question(c) /\ request'[c] = NoRequest
  BY <1>1, <1>2 DEF Deliver, Typed, InRefresh
<1>4. \A d \in Caller : d # c => ~Inside(d) /\ request'[d] = request[d]
  BY <1>1, <1>2 DEF Alone, Inside, Deliver, Typed
<1>5. UNCHANGED <<at, fid, query, read>> /\ done' = 1 /\ rx_result'
  BY <1>1, <1>2 DEF Deliver
<1>6. Honest(c)'
  BY <1>1, <1>2, <1>3, <1>5 DEF Owned, Honest, HasRead, Question, Refreshing, InRefresh
<1>7. ASSUME NEW d \in Caller, d # c PROVE Honest(d)'
  BY <1>1, <1>4, <1>5, <1>7, OthersHonest
<1> QED BY <1>2, <1>5, <1>6, <1>7 DEF Owned

LEMMA OwnedLock ==
  ASSUME Typed, Alone, Owned, NEW c \in Caller, NEW p \in Slot, Lock(c, p), ~failed', ~strayed'
  PROVE  Owned'
<1>1. /\ ~failed /\ ~strayed /\ UNCHANGED <<channel, numbers, read>>
      /\ at[c] = "idle" /\ at'[c] \in {"ready", "send"}
      /\ fid'[c] = p /\ query'[c] = "status"
      /\ \A d \in Caller : d # c => at'[d] = at[d]
  BY OtherSteps DEF Lock, Typed, channel, numbers
<1>2. \A d \in Caller : ~Inside(d)
  BY <1>1 DEF Alone, Lock
<1>3. read[c] = Unread /\ done = 0 /\ request[c] = NoRequest
  BY <1>1, <1>2 DEF Owned, Honest, Inside, Refreshing, InRefresh
<1>4. Honest(c)'
  BY <1>1, <1>3 DEF Honest, HasRead, Refreshing, numbers
<1>5. ASSUME NEW d \in Caller, d # c PROVE Honest(d)'
  BY <1>1, <1>2, <1>5, OthersHonest DEF numbers
<1>6. done' = 0 /\ rx_result'
  BY <1>1, <1>3 DEF channel, Owned
<1> QED BY <1>4, <1>5, <1>6 DEF Owned

LEMMA OwnedPrepare ==
  ASSUME Typed, Alone, Owned, NEW c \in Caller, Prepare(c) \/ ReadNumber(c), ~failed', ~strayed'
  PROVE  Owned'
<1>1. /\ ~failed /\ ~strayed /\ UNCHANGED <<fid, query, read, request, done, rx_result>>
      /\ at[c] \in {"send", "number"} /\ at'[c] \in {"number", "submit"}
      /\ at[c] = "send" => rx_msg_data' = c /\ tx_message' = Question(c)
      /\ at[c] = "number" => UNCHANGED <<rx_msg_data, tx_message>>
      /\ \A d \in Caller : d # c => at'[d] = at[d]
  BY DEF Prepare, ReadNumber, Goto, Typed, numbers, Question
<1>2. \A d \in Caller : d # c => ~Inside(d)
  BY <1>1 DEF Alone, Inside
<1>3. Honest(c)'
  BY <1>1 DEF Owned, Honest, HasRead, Refreshing, InRefresh, Question
<1>4. ASSUME NEW d \in Caller, d # c PROVE Honest(d)'
  BY <1>1, <1>2, <1>4, OthersHonest
<1>5. done' = 0 /\ rx_result'
  BY <1>1, <1>2 DEF Owned, Inside
<1> QED BY <1>3, <1>4, <1>5 DEF Owned

LEMMA OwnedSubmit ==
  ASSUME Typed, Alone, Owned, NEW c \in Caller, Submit(c), ~failed', ~strayed'
  PROVE  Owned'
<1>1. /\ ~failed /\ ~strayed
      /\ UNCHANGED <<fid, query, read, rx_msg_data, tx_message, done, rx_result>>
      /\ at[c] = "submit" /\ at'[c] = "wait"
      /\ \A d \in Caller : d # c => at'[d] = at[d]
  BY DEF Submit, Goto, Typed
<1>2. request'[c] = tx_message /\ \A d \in Caller : d # c => request'[d] \in {request[d], NoRequest}
  <2>1. tx_message \in Bytes /\ SetNumber(c, tx_message)
    BY DEF Submit, Typed
  <2> QED BY <2>1, NumberTyped
<1>3. \A d \in Caller : d # c => ~Inside(d)
  BY <1>1 DEF Alone, Inside
<1>4. done = 0
  BY <1>1, <1>3 DEF Owned, Inside
<1>5. Honest(c)'
  BY <1>1, <1>2, <1>4 DEF Owned, Honest, HasRead, Refreshing, InRefresh, Question
<1>6. ASSUME NEW d \in Caller, d # c PROVE Honest(d)'
  BY <1>1, <1>2, <1>3, <1>6, OthersHonest
<1> QED BY <1>1, <1>5, <1>6 DEF Owned

LEMMA OwnedWake ==
  ASSUME Typed, Alone, Owned, NEW c \in Caller, Wake(c), ~failed', ~strayed'
  PROVE  Owned'
<1>1. /\ ~failed /\ ~strayed
      /\ UNCHANGED <<fid, query, read, ipmi_resp, request, rx_result>>
      /\ at[c] = "wait" /\ at'[c] = "use" /\ done > 0 /\ done' = done - 1
      /\ \A d \in Caller : d # c => at'[d] = at[d]
  BY DEF Wake, Goto, Typed, numbers
<1>2. \A d \in Caller : d # c => ~Inside(d)
  BY <1>1 DEF Alone, Inside
<1>3. request[c] = NoRequest /\ done = 1 /\ ipmi_resp[c] = Question(c)
  BY <1>1 DEF Owned, Honest
<1>4. Honest(c)'
  BY <1>1, <1>3 DEF Owned, Honest, HasRead, Refreshing, InRefresh, Question
<1>5. ASSUME NEW d \in Caller, d # c PROVE Honest(d)'
  BY <1>1, <1>2, <1>5, OthersHonest
<1> QED BY <1>1, <1>3, <1>4, <1>5 DEF Owned

(* What an answer to its own question says. *)
LEMMA AnswerOwn ==
  ASSUME Typed, NEW c \in Caller, ipmi_resp[c] = Question(c)
  PROVE  Value(c) = fid[c] /\ (query[c] = "type" => Types(c) = {Kind[fid[c]]})
<1>1. ipmi_resp[c].query = query[c] /\ ipmi_resp[c].fid = fid[c]
  BY DEF Question
<1>2. query[c] = "type" => ipmi_resp[c] # Zeros
  BY <1>1 DEF Zeros
<1> QED BY <1>1, <1>2 DEF Value, Types

LEMMA OwnedGoOn ==
  ASSUME Typed, Alone, Owned, NEW c \in Caller, ~failed, ~strayed, at[c] = "use",
         UNCHANGED <<failed, request, done>>, NEW values, GoOn(c, values),
         query[c] = "status" => values = Unread,
         query[c] # "status" =>
           /\ values = Base(fid[c]) /\ Kind[fid[c]] # "none"
           /\ query[c] # "type" => Kind[fid[c]] = "ac"
  PROVE  Owned'
<1>1. /\ UNCHANGED <<fid, rx_result>>
      /\ at'[c] = "send" /\ read'[c] = values /\ query'[c] = NextQuery(query[c])
      /\ \A d \in Caller : d # c => at'[d] = at[d] /\ read'[d] = read[d]
  BY DEF GoOn, Goto, Typed, cache
<1>2. \A d \in Caller : d # c => ~Inside(d)
  BY DEF Alone, Inside
<1>3. done = 0 /\ rx_result /\ request[c] = NoRequest
  BY <1>2 DEF Owned, Honest, Inside
<1>4. HasRead(c)'
  BY <1>1 DEF HasRead, NextQuery, Typed, Query, Base
<1>5. Honest(c)'
  BY <1>1, <1>3, <1>4 DEF Honest, Refreshing, InRefresh
<1>6. ASSUME NEW d \in Caller, d # c PROVE Honest(d)'
  BY <1>1, <1>2, <1>6, OthersHonest
<1> QED BY <1>1, <1>3, <1>5, <1>6 DEF Owned

LEMMA OwnedFinish ==
  ASSUME Typed, Alone, Owned, NEW c \in Caller, ~failed, ~strayed, at[c] = "use",
         UNCHANGED <<failed, request, done>>, NEW values, Finish(c, values, TRUE)
  PROVE  Owned'
<1>1. /\ UNCHANGED <<fid, rx_result, strayed>>
      /\ at'[c] = "ready" /\ read'[c] = Unread
      /\ \A d \in Caller : d # c => at'[d] = at[d] /\ read'[d] = read[d]
  BY DEF Finish, Typed
<1>2. \A d \in Caller : d # c => ~Inside(d)
  BY DEF Alone, Inside
<1>3. done = 0 /\ rx_result /\ request[c] = NoRequest
  BY <1>2 DEF Owned, Honest, Inside
<1>4. Honest(c)'
  BY <1>1, <1>3 DEF Honest, Refreshing, InRefresh
<1>5. ASSUME NEW d \in Caller, d # c PROVE Honest(d)'
  BY <1>1, <1>2, <1>5, OthersHonest
<1> QED BY <1>1, <1>3, <1>4, <1>5 DEF Owned

(* A refresh goes on with what it has read or ends with a whole record. *)
LEMMA TakeOwn ==
  ASSUME Typed, Owned, NEW c \in Caller, ~failed, ~strayed, Take(c)
  PROVE  \/ \E values : /\ GoOn(c, values)
                        /\ query[c] = "status" => values = Unread
                        /\ query[c] # "status" =>
                             /\ values = Base(fid[c]) /\ Kind[fid[c]] # "none"
                             /\ query[c] # "type" => Kind[fid[c]] = "ac"
         \/ /\ Kind[fid[c]] # "ac" /\ Finish(c, Base(fid[c]), TRUE)
         \/ /\ Kind[fid[c]] = "ac"
            /\ Finish(c, [type |-> "ac", pin |-> fid[c], model |-> fid[c]], TRUE)
<1>1. at[c] = "use" /\ query[c] \in Query
  BY DEF Take, Typed
<1>2. HasRead(c) /\ ipmi_resp[c] = Question(c)
  BY <1>1 DEF Owned, Honest, Refreshing, InRefresh
<1>3. Value(c) = fid[c] /\ (query[c] = "type" => Types(c) = {Kind[fid[c]]})
  BY <1>2, AnswerOwn
<1>4. Kind[fid[c]] \in {"none", "ac", "dc12v"}
  BY SlotTyped DEF Typed, Kinds
<1>5. CASE query[c] = "status"
  BY <1>2, <1>5 DEF Take, HasRead
<1>6. CASE query[c] = "type"
  <2> DEFINE values == [read[c] EXCEPT !.type = Kind[fid[c]]]
  <2>1. IF Kind[fid[c]] = "none" THEN Finish(c, values, TRUE) ELSE GoOn(c, values)
    BY <1>3, <1>6 DEF Take
  <2>2. values = Base(fid[c])
    BY <1>2, <1>6 DEF HasRead, Unread, Base
  <2> HIDE DEF values
  <2> QED BY <1>6, <2>1, <2>2
<1>7. CASE query[c] = "pout"
  <2>1. IF read[c].type = "dc12v" THEN Finish(c, read[c], TRUE) ELSE GoOn(c, read[c])
    BY <1>7 DEF Take
  <2>2. read[c] = Base(fid[c]) /\ read[c].type = Kind[fid[c]] /\ Kind[fid[c]] # "none"
    BY <1>2, <1>7 DEF HasRead, Base
  <2>3. CASE Kind[fid[c]] = "dc12v"
    BY <2>1, <2>2, <2>3
  <2>4. CASE Kind[fid[c]] = "ac"
    BY <1>7, <2>1, <2>2, <2>4
  <2> QED BY <1>4, <2>2, <2>3, <2>4
<1>8. CASE query[c] = "pin"
  <2> DEFINE values == [read[c] EXCEPT !.pin = fid[c], !.model = fid[c]]
  <2>1. read[c] = Base(fid[c]) /\ Kind[fid[c]] = "ac" /\ Finish(c, values, TRUE)
    BY <1>2, <1>3, <1>8 DEF Take, HasRead
  <2>2. read[c] = [type |-> "ac", pin |-> NotRead, model |-> Garbage]
    BY <2>1 DEF Base
  <2>3. values = [[type |-> "ac", pin |-> NotRead, model |-> Garbage]
                   EXCEPT !.pin = fid[c], !.model = fid[c]]
    BY <2>2
  <2> HIDE DEF values
  <2>4. values \in [type : {"ac"}, pin : {fid[c]}, model : {fid[c]}]
    BY <2>3
  <2>5. values = [type |-> "ac", pin |-> fid[c], model |-> fid[c]]
    BY <2>4
  <2> QED BY <2>1, <2>5
<1> QED BY <1>1, <1>5, <1>6, <1>7, <1>8 DEF Query

LEMMA OwnedTake ==
  ASSUME Typed, Alone, Owned, NEW c \in Caller, Take(c), ~failed', ~strayed'
  PROVE  Owned'
<1>1. ~failed /\ ~strayed /\ at[c] = "use" /\ UNCHANGED <<failed, request, done>>
  BY RefreshSteps DEF Take, Refreshes, numbers
<1>2. ASSUME NEW values, Finish(c, values, TRUE) PROVE Owned'
  BY <1>1, <1>2, OwnedFinish
<1>3. ASSUME NEW values, GoOn(c, values),
             query[c] = "status" => values = Unread,
             query[c] # "status" =>
               /\ values = Base(fid[c]) /\ Kind[fid[c]] # "none"
               /\ query[c] # "type" => Kind[fid[c]] = "ac"
      PROVE  Owned'
  BY <1>1, <1>3, OwnedGoOn
<1> QED BY <1>1, <1>2, <1>3, TakeOwn

LEMMA OwnedLeave ==
  ASSUME Typed, Alone, Owned, NEW c \in Caller, Leaves(c), ~failed', ~strayed'
  PROVE  Owned'
<1>1. /\ ~failed /\ ~strayed /\ at[c] \notin InRefresh
      /\ at'[c] \in {"idle", "shown", "negative"}
      /\ UNCHANGED <<query, read, ipmi_resp, channel>>
      /\ \A d \in Caller : d # c => at'[d] = at[d] /\ fid'[d] = fid[d]
  BY OtherSteps DEF InRefresh
<1>2. Honest(c)'
  BY <1>1 DEF Owned, Honest, Refreshing, InRefresh, channel, numbers
<1>3. ASSUME NEW d \in Caller, d # c PROVE Honest(d)'
  BY <1>1, <1>3 DEF Owned, Honest, HasRead, Refreshing, Question, channel, numbers
<1>4. (\A d \in Caller : at'[d] # "wait") => done' = 0
  BY <1>1 DEF Owned, channel, InRefresh
<1> QED BY <1>1, <1>2, <1>3, <1>4 DEF Owned, channel

LEMMA OwnedStep == Typed /\ Alone /\ Owned /\ [Next]_vars => Owned'
<1> SUFFICES ASSUME Typed, Alone, Owned, [Next]_vars, ~failed', ~strayed' PROVE Owned'
  BY DEF Owned
<1>1. CASE UNCHANGED vars
  BY <1>1 DEF Owned, vars, handlers, channel, numbers, Honest, HasRead, Refreshing, Question
<1>2. ASSUME NEW p \in Slot, Expire(p) PROVE Owned'
  BY <1>2 DEF Owned, Expire, handlers, channel, numbers, Honest, HasRead, Refreshing, Question
<1>3. ASSUME NEW c \in Caller, SendFails(c) PROVE FALSE
  BY <1>3 DEF SendFails
<1>4. ASSUME NEW c \in Caller, ReplyIsError(c) PROVE FALSE
  <2>1. ~failed /\ ~strayed /\ ~rx_result
    BY <1>4, RefreshSteps DEF ReplyIsError, Refreshes
  <2> QED BY <2>1 DEF Owned
<1>5. ASSUME NEW c \in Caller, Refreshes(c) PROVE Owned'
  BY <1>3, <1>4, <1>5, OwnedPrepare, OwnedSubmit, OwnedWake, OwnedTake DEF Refreshes
<1> QED BY <1>1, <1>2, <1>5, OwnedDeliver, OwnedLock, OwnedLeave, NextSteps

(* What the copies leave of the records.                                   *)
LEMMA StoreOwn ==
  ASSUME Typed, NEW c \in Caller, NEW values \in Locals, Store(c, values, TRUE),
         \/ Kind[fid[c]] # "ac" /\ values = Base(fid[c])
         \/ Kind[fid[c]] = "ac" /\ values = [type |-> "ac", pin |-> fid[c], model |-> fid[c]]
  PROVE  /\ \A p \in Slot : p = fid[c] => Own(p)'
         /\ \A p \in Slot : Own(p) => Own(p)'
         /\ \A p \in Slot \ {fid[c]} : valid'[p] = valid[p]
<1> DEFINE f == fid[c]
<1>1. f \in Slot /\ f \in {1, 2} /\ psu_data \in [Slot -> Records]
  BY SlotTyped DEF Typed
<1>2. PICK reach \in 0..4 : /\ psu_data' = Copied(f, values, reach)
                            /\ values.model # Garbage => reach = 0
  BY DEF Store
<1>3. \A p \in Slot \ {f} : valid'[p] = valid[p]
  BY <1>1 DEF Store, Typed
<1>4. Garbage # f
  BY <1>1 DEF Garbage
<1>5. Kind[f] # "ac" => EndsEarly(1..f) /\ \A p \in Slot : p = f + 1 => EndsEarly(1..p) /\ EndsEarly(1..p - 1)
  BY <1>1, SlotTyped DEF EndsEarly
<1>6. \A p \in Slot : p = f => Own(p)'
  <2>1. CASE Kind[f] # "ac" /\ values = Base(f)
    <3>1. /\ psu_data'[f].type \in {Kind[f], "wild"} /\ psu_data'[f].pin = NotRead
      <4>1. psu_data'[f] \in {values, [values EXCEPT !.type = "wild"]}
        BY <1>1, <1>2, CopiedTyped
      <4> QED BY <2>1, <4>1 DEF Base
    <3> QED BY <1>5, <2>1, <3>1 DEF Own
  <2>2. CASE Kind[f] = "ac" /\ values = [type |-> "ac", pin |-> f, model |-> f]
    <3>1. values.model # Garbage
      BY <1>4, <2>2
    <3>2. psu_data'[f] = values
      BY <1>1, <1>2, <3>1, CopiedTyped
    <3> QED BY <2>2, <3>2 DEF Own
  <2> QED BY <2>1, <2>2
<1>7. ASSUME NEW p \in Slot, p # f, Own(p) PROVE Own(p)'
  <2>1. CASE Kind[f] = "ac" \/ p # f + 1
    <3>1. psu_data'[p] = psu_data[p]
      <4>1. CASE Kind[f] = "ac"
        <5>1. reach = 0
          BY <1>2, <1>4, <4>1
        <5> QED BY <1>1, <1>2, <1>7, <5>1, CopiedTyped
      <4>2. CASE p # f + 1
        BY <1>2, <1>7, <4>2 DEF Copied
      <4> QED BY <2>1, <4>1, <4>2
    <3> QED BY <1>7, <3>1 DEF Own
  <2>2. CASE Kind[f] # "ac" /\ p = f + 1
    <3>1. /\ psu_data'[p].type \in {psu_data[p].type, "wild"}
          /\ psu_data'[p].pin \in {psu_data[p].pin, Garbage}
          /\ psu_data'[p].model \in {psu_data[p].model, Garbage}
      BY <1>1, <1>2, <1>7, CopiedTyped
    <3> QED BY <1>5, <1>7, <2>2, <3>1 DEF Own
  <2> QED BY <2>1, <2>2
<1> QED BY <1>3, <1>6, <1>7

LEMMA OwnedRecordsStep == Typed /\ Owned /\ OwnedRecords /\ [Next]_vars => OwnedRecords'
<1> SUFFICES ASSUME Typed, Owned, OwnedRecords, [Next]_vars, ~failed', ~strayed' PROVE OwnRecords'
  BY DEF OwnedRecords
<1>0. ASSUME ~failed, ~strayed, UNCHANGED psu_data, \A p \in Slot : valid'[p] => valid[p],
             \A d \in Caller : at'[d] \in {"ready", "shown"} =>
               \/ at[d] \in {"ready", "shown"} /\ fid'[d] = fid[d]
               \/ fid'[d] \in Slot /\ valid[fid'[d]]
      PROVE  OwnRecords'
  BY <1>0 DEF OwnedRecords, OwnRecords, Own
<1>1. CASE UNCHANGED vars
  BY <1>0, <1>1 DEF vars, handlers, cache
<1>2. ASSUME NEW c \in Caller, NEW ok \in BOOLEAN, Deliver(c, ok) PROVE OwnRecords'
  <2>1. ~failed /\ ~strayed
    BY <1>2 DEF Deliver
  <2> QED BY <1>0, <1>2, <2>1 DEF Deliver, cache
<1>3. ASSUME NEW p \in Slot, Expire(p) PROVE OwnRecords'
  BY <1>0, <1>3 DEF Expire, handlers
<1>4. ASSUME NEW c \in Caller, NEW p \in Slot, Lock(c, p) PROVE OwnRecords'
  BY <1>0, <1>4, OtherSteps DEF Typed
<1>5. ASSUME NEW c \in Caller, Leaves(c) PROVE OwnRecords'
  BY <1>0, <1>5, OtherSteps DEF cache
<1>6. ASSUME NEW c \in Caller, Refreshes(c) PROVE OwnRecords'
  <2>1. /\ ~strayed /\ fid' = fid
        /\ \A d \in Caller : d # c => at'[d] = at[d]
        /\ at'[c] # "ready" => at'[c] # "shown" /\ UNCHANGED cache
    BY <1>6, RefreshSteps DEF InRefresh
  <2>2. ~failed
    BY <1>6 DEF Refreshes, Prepare, ReadNumber, Submit, Wake, SendFails, ReplyIsError, Take
  <2>3. CASE at'[c] # "ready"
    BY <1>0, <2>1, <2>2, <2>3 DEF cache
  <2>4. CASE at'[c] = "ready" /\ Take(c)
    <3>1. PICK values \in Locals :
            /\ Store(c, values, TRUE)
            /\ \/ Kind[fid[c]] # "ac" /\ values = Base(fid[c])
               \/ Kind[fid[c]] = "ac" /\ values = [type |-> "ac", pin |-> fid[c], model |-> fid[c]]
      <4>1. \A values : GoOn(c, values) => FALSE
        BY <2>4 DEF GoOn, Goto, Typed
      <4>2. /\ Base(fid[c]) \in Locals
            /\ [type |-> "ac", pin |-> fid[c], model |-> fid[c]] \in Locals
        BY SlotTyped DEF Base, Locals, Values, Kinds, Typed
      <4> QED BY <2>1, <2>2, <2>4, <4>1, <4>2, TakeOwn DEF Finish
    <3>2. /\ \A p \in Slot : p = fid[c] => Own(p)'
          /\ \A p \in Slot : Own(p) => Own(p)'
          /\ \A p \in Slot \ {fid[c]} : valid'[p] = valid[p]
      BY <3>1, StoreOwn
    <3>3. \A p \in Slot : valid'[p] => Own(p)'
      BY <2>1, <2>2, <3>2 DEF OwnedRecords, OwnRecords
    <3>4. ASSUME NEW d \in Caller, at'[d] \in {"ready", "shown"} PROVE Own(fid[d])'
      <4>1. fid[d] \in Slot /\ fid[c] \in Slot /\ fid'[d] = fid[d]
        BY <2>1 DEF Typed
      <4>2. CASE d = c
        BY <2>1, <3>2, <4>1, <4>2
      <4>3. CASE d # c
        <5>1. Own(fid[d])
          BY <2>1, <2>2, <3>4, <4>3 DEF OwnedRecords, OwnRecords
        <5>2. \A p \in Slot : p = fid[d] => Own(p)'
          BY <3>2, <4>1, <5>1
        <5> QED BY <2>1, <4>1, <5>2
      <4> QED BY <4>2, <4>3
    <3> QED BY <3>3, <3>4 DEF OwnRecords
  <2>5. ASSUME SendFails(c) \/ ReplyIsError(c) PROVE FALSE
    BY <2>1, <2>2, <2>5 DEF SendFails, ReplyIsError, Owned
  <2> QED BY <1>6, <2>3, <2>4, <2>5, RefreshSteps
<1> QED BY <1>1, <1>2, <1>3, <1>4, <1>5, <1>6, NextSteps

(* As long as no message has failed and no lock was given back twice, a    *)
(* show prints what its own power supply answered, also after it has given *)
(* the lock back, except where a record that ended early was copied over   *)
(* it.                                                                     *)
THEOREM ShowOwn == Spec => []ShowsOwn
<1>1. Init => Alone /\ Owned /\ OwnedRecords
  <2> SUFFICES ASSUME Init PROVE Alone /\ Owned /\ OwnedRecords
    OBVIOUS
  <2>1. Alone /\ \A c \in Caller : Honest(c)
    BY DEF Init, Alone, Inside, Refreshing, InRefresh, Honest
  <2>2. done = 0 /\ rx_result /\ OwnRecords
    BY DEF Init, OwnRecords
  <2> QED BY <2>1, <2>2 DEF Owned, OwnedRecords
<1>2. OwnedRecords => ShowsOwn
  BY DEF OwnedRecords, OwnRecords, ShowsOwn
<1> QED BY TypedInit, TypedStep, AloneStep, OwnedStep, OwnedRecordsStep, <1>1, <1>2, PTL DEF Spec

-----------------------------------------------------------------------------
(* The two drivers side by side.  What ImcProofs proves of Imc holds of    *)
(* the driver in MCPsuImc, which is the same instance by another name.     *)

P == INSTANCE ImcProofs WITH
  Target <- {<<1, 1>>}, can_write <- [i \in 0..1 |-> i = 0], op <- imc_op, at <- imc_at

LEMMA SameImc ==
  /\ P!Init = I!Init /\ P!vars = I!vars /\ P!Next = I!Next
  /\ P!TypeOK = I!TypeOK /\ P!SuccessIsOwn = I!SuccessIsOwn
  /\ P!WritesOnTarget = I!WritesOnTarget /\ P!PollingKept = I!PollingKept
<1> USE DEF I!Chan, P!Chan, I!None, P!None, I!Result, P!Result, I!Nothing,
        P!Nothing, I!Transfer, P!Transfer, I!driver, P!driver, I!process,
        P!process, I!registers, P!registers, I!vars, P!vars, I!Inside,
        P!Inside, I!Goto, P!Goto
<1>1. P!Init = I!Init /\ P!vars = I!vars
  BY DEF I!Init, P!Init
<1>2. P!Next = I!Next
  BY DEF I!Next, P!Next,
         I!Probe, P!Probe, I!AddAdapter, P!AddAdapter, I!Remove, P!Remove,
         I!Gone, P!Gone, I!Suspend, P!Suspend, I!Resume, P!Resume,
         I!DelAdapter, P!DelAdapter, I!Complete, P!Complete, I!Intrude,
         P!Intrude, I!Start, P!Start, I!Claim, P!Claim, I!WriteAddress,
         P!WriteAddress, I!WriteCommand, P!WriteCommand, I!Poll, P!Poll,
         I!Check, P!Check, I!Release, P!Release, I!Step, P!Step
<1>3. /\ P!TypeOK = I!TypeOK /\ P!SuccessIsOwn = I!SuccessIsOwn
      /\ P!WritesOnTarget = I!WritesOnTarget /\ P!PollingKept = I!PollingKept
  BY DEF I!TypeOK, P!TypeOK, I!SuccessIsOwn, P!SuccessIsOwn,
         I!WritesOnTarget, P!WritesOnTarget, I!PollingKept, P!PollingKept
<1> QED BY <1>1, <1>2, <1>3

LEMMA BothKept == PsuImc => Spec /\ P!Spec
<1>1. PsuImcInit => Init /\ P!Init
  BY SameImc DEF PsuImcInit
<1>2. [PsuImcNext]_<<part, vars, imc>> => [Next]_vars /\ [P!Next]_P!vars
  <2> SUFFICES ASSUME [PsuImcNext]_<<part, vars, imc>> PROVE [Next]_vars /\ [P!Next]_P!vars
    OBVIOUS
  <2>1. P!Next \/ UNCHANGED imc
    BY SameImc DEF PsuImcNext
  <2>2. ASSUME UNCHANGED imc PROVE UNCHANGED P!vars
    BY <2>2 DEF imc, P!vars, P!driver, P!process, P!registers
  <2> QED BY <2>1, <2>2 DEF PsuImcNext
<1> QED BY <1>1, <1>2, PTL DEF PsuImc, Spec, P!Spec

(* Side by side, too, both drivers stay well typed, and a transfer of Imc  *)
(* uses an adapter that is there, also while the driver is removed.        *)
THEOREM BothTyped == PsuImc => []PsuImcTypeOK
<1>1. P!ConstantsOK
  BY ImcAssumption DEF I!ConstantsOK, P!ConstantsOK
<1>2. P!Spec => []P!TypeOK
  BY <1>1, P!TypeCorrect
<1>3. P!TypeOK => I!TypeOK
  BY SameImc
<1>4. TypeOK /\ I!TypeOK => PsuImcTypeOK
  BY DEF PsuImcTypeOK
<1> QED BY <1>2, <1>3, <1>4, BothKept, PsuTypeCorrect, PTL

(* A transfer that reports success has read or written its own target and  *)
(* no write is under way that nobody asked for, as long as no transaction  *)
(* was given up (and, for the writes, no suspend met a transfer).          *)
THEOREM OwnTransfers == PsuImc => []TransfersAreOwn
<1>1. P!ConstantsOK
  BY ImcAssumption DEF I!ConstantsOK, P!ConstantsOK
<1>2. P!Spec => []P!SuccessIsOwn /\ []P!WritesOnTarget
  BY <1>1, P!SuccessOwn, P!WritesAsked, PTL
<1>3. P!SuccessIsOwn /\ P!WritesOnTarget => TransfersAreOwn
  BY SameImc DEF TransfersAreOwn
<1> QED BY <1>2, <1>3, BothKept, PTL

(* The polling is as the BIOS chose whenever nobody transfers.             *)
THEOREM PollingAsChosen == PsuImc => []PollingKept
<1>1. P!ConstantsOK
  BY ImcAssumption DEF I!ConstantsOK, P!ConstantsOK
<1>2. P!Spec => []P!PollingKept
  BY <1>1, P!PollingStays
<1>3. P!PollingKept => PollingKept
  BY SameImc DEF PollingKept
<1> QED BY <1>2, <1>3, BothKept, PTL

=============================================================================
