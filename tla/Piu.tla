-------------------------------- MODULE Piu --------------------------------
(***************************************************************************)
(* The driver of one plug-in unit (PIU): piu.c with the bus protocols of   *)
(* aco.c and dco.c.  Any number of processes read its sysfs files or use   *)
(* /dev/piuN while a person swaps the module in the slot, plugs its CFP2   *)
(* transceiver and sets the two simulate_plug_out flags.                   *)
(*                                                                         *)
(* The driver's mutex covers one step of a handler (find the type, look    *)
(* for the CFP2, one register access), not the handler.  Between two steps *)
(* another process may refresh the shared piu->type, and the slot or the   *)
(* flags may change.  While the mutex is held the bus is in use and only   *)
(* hardware changes.                                                       *)
(*                                                                         *)
(* What a module answers is abstracted to whether it is the answer of the  *)
(* addressed register ("genuine") or of none ("bogus": an uninitialised    *)
(* local, a zero, another module's register).                              *)
(***************************************************************************)
EXTENDS Naturals

CONSTANTS Proc,     \* the processes using the driver
          NoProc,   \* the mutex is free
          Module,   \* the kinds of module people put into the slot
          Handler,  \* the handlers that are called
          Reads     \* registers a long handler (strings, eeprom) reads


VARIABLES lock,           \* piu->lock: its owner or NoProc
          type,           \* piu->type, the last type anyone found
          simulate_plug_out, simulate_cfp2_plug_out,
          slot,           \* what is in the slot
          cfp2,           \* a CFP2 transceiver sits in the ACO or DCO module
          op,             \* op[p]: the handler p is in
          pc,             \* pc[p]: its step
          ltype,          \* ltype[p]: the type p was told last
          left,           \* left[p]: register reads still to do
          out,            \* out[p]: what it will return
          opened,         \* opened[p]: p has the character device open
          disturbed       \* disturbed[p]: the slot, the CFP2 or a flag changed, or a
                          \*   transfer failed, since p began to ask for the type

env == <<simulate_plug_out, simulate_cfp2_plug_out, slot, cfp2>>
vars == <<lock, type, env, op, pc, ltype, left, out, opened, disturbed>>

Type == {"unknown", "unplugged", "aco", "dco", "qsfp28"}
Shows == {"piu_type", "cfp2_exists", "mcu_version", "piu_temp", "cfp2_read", "eeprom"}
Ioctls == {"init", "access", "access_cfp2"}   \* PIU_READ and PIU_WRITE run alike
Handlers == Shows \cup Ioctls \cup {"open"}
Holding == {"type_bus", "type_m487", "exists_bus", "access_bus"}
Step == Holding \cup {"idle", "type", "exists", "access", "done"}
Out == {"none", "type", "blank", "present", "absent", "genuine", "bogus", "error"}

Kind == {"aco", "dco", "qsfp28", "odd"}

ConstantsOK ==
  /\ NoProc \notin Proc
  /\ Module \subseteq Kind /\ Handler \subseteq Handlers
  /\ Reads \in Nat \ {0}

(* The address of the access lies in the CFP2's window. *)
Cfp2Access(p) == op[p] \in {"cfp2_read", "access_cfp2"}

Init ==
  /\ lock = NoProc
  /\ type = "unknown"
  /\ simulate_plug_out = FALSE /\ simulate_cfp2_plug_out = FALSE
  /\ slot \in Module \cup {"empty"}
  /\ cfp2 \in BOOLEAN /\ (cfp2 => slot \in {"aco", "dco"})
  /\ op = [p \in Proc |-> "none"]
  /\ pc = [p \in Proc |-> "idle"]
  /\ ltype = [p \in Proc |-> "unknown"]
  /\ left = [p \in Proc |-> 0]
  /\ out = [p \in Proc |-> "none"]
  /\ opened = [p \in Proc |-> FALSE]
  /\ disturbed = [p \in Proc |-> TRUE]

Goto(p, next) == pc' = [pc EXCEPT ![p] = next]
Return(p, answer) == Goto(p, "done") /\ out' = [out EXCEPT ![p] = answer]

-----------------------------------------------------------------------------
(* Handlers are entered.  open, PIU_INIT and every show start with         *)
(* get_piu_type; PIU_READ and PIU_WRITE rely on the type found before.     *)
(* Only a process with the device open remembers what it was told.         *)

Enter(p, o) ==
  /\ pc[p] = "idle"
  /\ o \in Ioctls => opened[p]
  /\ o = "access_cfp2" => ltype[p] \in {"aco", "dco"}
  /\ o = "open" => ~opened[p]
  /\ op' = [op EXCEPT ![p] = o]
  /\ Goto(p, IF o \in Ioctls \ {"init"} THEN "access" ELSE "type")
  /\ left' = [left EXCEPT ![p] = 1]
  /\ disturbed' = IF o \in Ioctls \ {"init"} THEN disturbed
                  ELSE [disturbed EXCEPT ![p] = FALSE]
  /\ UNCHANGED <<lock, type, env, ltype, out, opened>>

Forget(p) ==
  /\ ltype' = [ltype EXCEPT ![p] = "unknown"]
  /\ disturbed' = [disturbed EXCEPT ![p] = TRUE]

Leave(p) ==
  /\ pc[p] = "done"
  /\ Goto(p, "idle")
  /\ op' = [op EXCEPT ![p] = "none"]
  /\ out' = [out EXCEPT ![p] = "none"]
  /\ left' = [left EXCEPT ![p] = 0]
  /\ opened' = [opened EXCEPT ![p] = @ \/ op[p] = "open"]
  /\ IF opened'[p] THEN UNCHANGED <<ltype, disturbed>> ELSE Forget(p)
  /\ UNCHANGED <<lock, type, env>>

Close(p) ==
  /\ pc[p] = "idle" /\ opened[p]
  /\ opened' = [opened EXCEPT ![p] = FALSE]
  /\ Forget(p)
  /\ UNCHANGED <<lock, type, env, op, pc, left, out>>

-----------------------------------------------------------------------------
(* get_piu_type and what each handler does with its answer.                *)

AfterType(p, t) ==
  LET o == op[p] IN
  CASE o \in {"piu_type", "open", "init"} ->
         Return(p, "type") /\ UNCHANGED left
    [] o = "cfp2_exists" -> Goto(p, "exists") /\ UNCHANGED <<left, out>>
    [] o = "cfp2_read" /\ t \in {"aco", "dco"} ->
         Goto(p, "exists") /\ UNCHANGED <<left, out>>
    [] o = "mcu_version" /\ t \in {"aco", "dco", "qsfp28"} ->
         /\ Goto(p, "access")
         /\ left' = [left EXCEPT ![p] = IF t = "aco" THEN 1 ELSE 2]
         /\ UNCHANGED out
    [] o = "piu_temp" /\ t = "aco" ->
         Goto(p, "access") /\ left' = [left EXCEPT ![p] = 2] /\ UNCHANGED out
    [] o = "eeprom" /\ t = "qsfp28" ->
         Goto(p, "access") /\ left' = [left EXCEPT ![p] = Reads] /\ UNCHANGED out
    [] OTHER ->
         Return(p, IF o = "eeprom" THEN "error" ELSE "blank") /\ UNCHANGED left

(* piu->type is written and the mutex released. *)
TypeFound(p, t) ==
  /\ type' = t
  /\ ltype' = [ltype EXCEPT ![p] = t]
  /\ lock' = NoProc
  /\ AfterType(p, t)

(* Mutant: an early return where the code has `goto out`. *)
LockForTypeLeaks(p) ==
  /\ pc[p] = "type"
  /\ lock = NoProc
  /\ lock' = p
  /\ IF simulate_plug_out
       THEN /\ type' = "unplugged"
            /\ ltype' = [ltype EXCEPT ![p] = "unplugged"]
            /\ AfterType(p, "unplugged")
       ELSE /\ Goto(p, "type_bus")
            /\ UNCHANGED <<type, ltype, left, out>>
  /\ UNCHANGED <<env, op, opened, disturbed>>

LockForType(p) ==
  /\ pc[p] = "type"
  /\ lock = NoProc
  /\ IF simulate_plug_out
       THEN TypeFound(p, "unplugged")
       ELSE /\ lock' = p
            /\ Goto(p, "type_bus")
            /\ UNCHANGED <<type, ltype, left, out>>
  /\ UNCHANGED <<env, op, opened, disturbed>>

(* Mutant: a module silent at 0x6A counts as unplugged, and the mutex is   *)
(* free, until the M487 protocol has been tried.                           *)
ReadIdentityEarly(p) ==
  /\ pc[p] = "type_bus"
  /\ \/ /\ slot # "empty"
        /\ TypeFound(p, IF slot = "odd" THEN "unknown" ELSE slot)
     \/ /\ slot # "aco"
        /\ Goto(p, "type_m487")
        /\ type' = "unplugged"
        /\ lock' = NoProc
        /\ UNCHANGED <<ltype, left, out>>
  /\ UNCHANGED <<env, op, opened, disturbed>>

(* The identity byte at 0x6A: ACO modules have it, the others have it or   *)
(* answer the M487 protocol only.                                          *)
ReadIdentity(p) ==
  /\ pc[p] = "type_bus"
  /\ \/ /\ slot # "empty"
        /\ TypeFound(p, IF slot = "odd" THEN "unknown" ELSE slot)
     \/ /\ slot # "aco"
        /\ Goto(p, "type_m487")
        /\ UNCHANGED <<lock, type, ltype, left, out>>
  /\ UNCHANGED <<env, op, opened, disturbed>>

ReadIdentityM487(p) ==
  /\ pc[p] = "type_m487"
  /\ TypeFound(p, CASE slot \in {"dco", "qsfp28"} -> slot
                    [] slot = "odd" -> "unknown"
                    [] OTHER -> "unplugged")
  /\ UNCHANGED <<env, op, opened, disturbed>>

-----------------------------------------------------------------------------
(* cfp2_exists, called with the type get_piu_type returned.                *)

AfterExists(p, there) ==
  IF op[p] = "cfp2_exists"
    THEN Return(p, IF there THEN "present" ELSE "absent") /\ UNCHANGED left
    ELSE IF there
           THEN Goto(p, "access") /\ left' = [left EXCEPT ![p] = Reads] /\ UNCHANGED out
           ELSE Return(p, "blank") /\ UNCHANGED left

LockForExists(p) ==
  /\ pc[p] = "exists"
  /\ lock = NoProc
  /\ IF simulate_plug_out \/ simulate_cfp2_plug_out
       THEN AfterExists(p, FALSE) /\ UNCHANGED lock
       ELSE IF ltype[p] \in {"aco", "dco"}
              THEN lock' = p /\ Goto(p, "exists_bus") /\ UNCHANGED <<left, out>>
              ELSE AfterExists(p, TRUE) /\ UNCHANGED lock
  /\ UNCHANGED <<type, env, op, ltype, opened, disturbed>>

(* What the presence register says. A module of the other protocol does    *)
(* not answer; a QSFP28 one does, with whatever it has at the DCO's        *)
(* register.                                                               *)
Presence(p) ==
  CASE slot = ltype[p] -> {cfp2}
    [] slot = "qsfp28" /\ ltype[p] = "dco" -> BOOLEAN
    [] OTHER -> {FALSE}

ReadExists(p) ==
  /\ pc[p] = "exists_bus"
  /\ lock' = NoProc
  /\ \E there \in Presence(p) : AfterExists(p, there)
  /\ UNCHANGED <<type, env, op, ltype, opened, disturbed>>

-----------------------------------------------------------------------------
(* piu_i2c_read and piu_i2c_write, dispatched on the shared piu->type; the *)
(* address was computed from the handler's own type.                       *)

(* Mutant: the loops over registers run once too often. *)
AfterAccessOneMore(p, answer) ==
  /\ left' = [left EXCEPT ![p] = @ - 1]
  /\ out' = [out EXCEPT ![p] = IF answer = "genuine" THEN "genuine" ELSE "bogus"]
  /\ Goto(p, IF left[p] >= 0 THEN "access" ELSE "done")

(* A failed access: the shows ignore it and go on with what their local    *)
(* variable happens to hold, the others return an error.  piu_temp reads   *)
(* first whether there is a thermometer; its variable is 0 beforehand, and *)
(* it shows an empty line unless it finds a 1.                             *)
AfterAccess(p, answer) ==
  LET seen == IF answer = "genuine" /\ out[p] # "bogus" THEN "genuine" ELSE "bogus" IN
  \/ /\ answer = "error" /\ op[p] \in {"eeprom"} \cup Ioctls
     /\ Return(p, "error")
     /\ UNCHANGED left
  \/ /\ op[p] = "piu_temp" /\ left[p] = 2
     /\ Return(p, "blank")
     /\ UNCHANGED left
  \/ /\ ~(answer = "error" /\ op[p] \in {"eeprom"} \cup Ioctls)
     /\ ~(answer = "error" /\ op[p] = "piu_temp" /\ left[p] = 2)
     /\ left' = [left EXCEPT ![p] = @ - 1]
     /\ out' = [out EXCEPT ![p] = seen]
     /\ Goto(p, IF left[p] > 1 THEN "access" ELSE "done")

(* The types whose CFP2 window the address lies in: `addr & OFFSET`.  The  *)
(* DCO's mask 0x00300000 also hits the addresses of the QSFP28 memories.   *)
Windows(p) ==
  IF Cfp2Access(p) THEN {ltype[p]} ELSE IF op[p] = "eeprom" THEN {"dco"} ELSE {}

(* A simulated plug-out hides the CFP2's window of the current type. *)
Cfp2Hidden(p) == simulate_cfp2_plug_out /\ type \in Windows(p)

(* Mutant: the simulate_plug_out flags are read before mutex_lock, which   *)
(* the access takes in any case.                                           *)
LockForAccessUnchecked(p) ==
  /\ pc[p] = "access"
  /\ lock = NoProc
  /\ lock' = p
  /\ Goto(p, "access_bus")
  /\ UNCHANGED <<left, out, type, env, op, ltype, opened, disturbed>>

LockForAccess(p) ==
  /\ pc[p] = "access"
  /\ lock = NoProc
  /\ IF simulate_plug_out \/ Cfp2Hidden(p) \/ type \notin {"aco", "dco", "qsfp28"}
       THEN AfterAccess(p, "error") /\ UNCHANGED lock
       ELSE lock' = p /\ Goto(p, "access_bus") /\ UNCHANGED <<left, out>>
  /\ UNCHANGED <<type, env, op, ltype, opened, disturbed>>

(* The ACO protocol reaches only an ACO module, the M487 protocol the two  *)
(* others.  The register is the addressed one if the module is of the type *)
(* the address was made for and, in the CFP2's window, a CFP2 answers.     *)
BusAnswer(p) ==
  CASE type = "aco" /\ slot # "aco" -> {"error"}
    [] type # "aco" /\ slot \notin {"dco", "qsfp28"} -> {"error"}
    [] Cfp2Access(p) /\ slot = ltype[p] /\ ~cfp2 -> {"error", "bogus"}
    [] slot # ltype[p] \/ type # ltype[p] -> {"error", "bogus"}
    [] OTHER -> {"genuine"}

BusAccess(p) ==
  /\ pc[p] = "access_bus"
  /\ lock' = NoProc
  /\ \E answer \in BusAnswer(p) : AfterAccess(p, answer)
  /\ UNCHANGED <<type, env, op, ltype, opened, disturbed>>

(* A transfer fails on a good module: get_piu_type falls through to the    *)
(* M487 protocol or reports the slot empty, cfp2_exists says no, an access *)
(* returns its error.                                                      *)
TransferFails(p) ==
  /\ pc[p] \in Holding
  /\ disturbed' = [q \in Proc |-> TRUE]
  /\ CASE pc[p] = "type_bus" ->
            Goto(p, "type_m487") /\ UNCHANGED <<lock, type, ltype, left, out>>
       [] pc[p] = "type_m487" -> TypeFound(p, "unplugged")
       [] pc[p] = "exists_bus" ->
            lock' = NoProc /\ AfterExists(p, FALSE) /\ UNCHANGED <<type, ltype>>
       [] OTHER ->
            lock' = NoProc /\ AfterAccess(p, "error") /\ UNCHANGED <<type, ltype>>
  /\ UNCHANGED <<env, op, opened>>

-----------------------------------------------------------------------------
(* The world: hands in the slot, and the simulate_plug_out stores, which   *)
(* take the mutex for their assignment.                                    *)

Swap ==
  /\ slot' \in Module \cup {"empty"}
  /\ cfp2' \in BOOLEAN /\ (cfp2' => slot' \in {"aco", "dco"})
  /\ <<slot', cfp2'>> # <<slot, cfp2>>
  /\ disturbed' = [p \in Proc |-> TRUE]
  /\ UNCHANGED <<lock, type, simulate_plug_out, simulate_cfp2_plug_out,
                 op, pc, ltype, left, out, opened>>

StoreSimulate ==
  /\ lock = NoProc
  /\ simulate_plug_out' = ~simulate_plug_out
  /\ disturbed' = [p \in Proc |-> TRUE]
  /\ UNCHANGED <<lock, type, simulate_cfp2_plug_out, slot, cfp2,
                 op, pc, ltype, left, out, opened>>

StoreSimulateCfp2 ==
  /\ lock = NoProc
  /\ simulate_cfp2_plug_out' = ~simulate_cfp2_plug_out
  /\ disturbed' = [p \in Proc |-> TRUE]
  /\ UNCHANGED <<lock, type, simulate_plug_out, slot, cfp2,
                 op, pc, ltype, left, out, opened>>

-----------------------------------------------------------------------------
Locks(p) == LockForType(p) \/ LockForExists(p) \/ LockForAccess(p)

Runs(p) ==
  ReadIdentity(p) \/ ReadIdentityM487(p) \/ ReadExists(p) \/ BusAccess(p) \/ Leave(p)

Next ==
  \/ \E p \in Proc :
       \/ \E o \in Handler : Enter(p, o)
       \/ Close(p) \/ Locks(p) \/ Runs(p) \/ TransferFails(p)
  \/ Swap \/ StoreSimulate \/ StoreSimulateCfp2

Spec == Init /\ [][Next]_vars

-----------------------------------------------------------------------------
(* Properties.                                                             *)

TypeOK ==
  /\ lock \in Proc \cup {NoProc}
  /\ type \in Type
  /\ simulate_plug_out \in BOOLEAN /\ simulate_cfp2_plug_out \in BOOLEAN
  /\ slot \in Module \cup {"empty"} /\ cfp2 \in BOOLEAN
  /\ op \in [Proc -> Handlers \cup {"none"}]
  /\ pc \in [Proc -> Step]
  /\ ltype \in [Proc -> Type]
  /\ left \in [Proc -> Nat]
  /\ out \in [Proc -> Out]
  /\ opened \in [Proc -> BOOLEAN]
  /\ disturbed \in [Proc -> BOOLEAN]

(* A simulated plug-out behaves like a real one for the bus: once the      *)
(* store has returned, no handler has a transfer under way, also none that *)
(* looked at the flag before; and with the CFP2 simulated out none is      *)
(* under way in the CFP2's window of the module found last.                *)
SimulatedOutIsSilent ==
  \A p \in Proc :
    /\ simulate_plug_out => pc[p] \notin Holding
    /\ simulate_cfp2_plug_out => ~(pc[p] = "access_bus" /\ type \in Windows(p))

(* The type a healthy get_piu_type finds now. *)
TypeNow ==
  IF simulate_plug_out \/ slot = "empty" THEN "unplugged"
  ELSE IF slot = "odd" THEN "unknown" ELSE slot

(* The answer a handler gives to a process that has the driver to itself.  *)
(* cfp2_exists_show says "present" for every type that has no CFP2.        *)
Answer(o) ==
  LET k == TypeNow
      seen == ~simulate_plug_out /\ ~simulate_cfp2_plug_out
      there == k \in {"aco", "dco"} /\ cfp2 /\ seen IN
  CASE o \in {"piu_type", "open", "init"} -> {"type"}
    [] o = "cfp2_exists" ->
         IF seen /\ (k \in {"aco", "dco"} => cfp2) THEN {"present"} ELSE {"absent"}
    [] o = "mcu_version" -> IF k \in {"aco", "dco", "qsfp28"} THEN {"genuine"} ELSE {"blank"}
    [] o = "piu_temp" -> IF k = "aco" THEN {"genuine", "blank"} ELSE {"blank"}
    [] o = "cfp2_read" -> IF there THEN {"genuine"} ELSE {"blank"}
    [] o = "eeprom" -> IF k = "qsfp28" THEN {"genuine"} ELSE {"error"}
    [] o = "access" ->
         IF k \in {"aco", "dco", "qsfp28"} THEN {"genuine"} ELSE {"error"}
    [] OTHER ->
         IF there THEN {"genuine"} ELSE IF seen THEN {"error", "bogus"} ELSE {"error"}

(* The handlers share piu->type, and every one of them overwrites it while *)
(* the others are between two accesses.  As long as the slot, the CFP2 and *)
(* the flags stay and no transfer fails, that does not show: each handler, *)
(* and each ioctl since its process was last told the type, answers as if  *)
(* it were alone.                                                          *)
UndisturbedAnswer ==
  \A p \in Proc : pc[p] = "done" /\ ~disturbed[p] =>
    /\ out[p] \in Answer(op[p])
    /\ ltype[p] = TypeNow
=============================================================================
