--------------------------- MODULE ModulesProofs ---------------------------
(***************************************************************************)
(* Proofs about Dpll for any processes, pins, pages and requests: types,   *)
(* mutual exclusion until a stray unlock, that an access hits the page its *)
(* address names, that a show tells what is in force, and that priorities  *)
(* and mode change only as asked; and about Piu for any processes, kinds   *)
(* of module and handlers: types, that a simulated plug-out leaves no      *)
(* transfer under way, and that an undisturbed handler answers as if it    *)
(* were alone, although all of them overwrite the type the others use.     *)
(***************************************************************************)
EXTENDS MCModules, TLAPS

AnyOffset == Offset \cup {PAGE_OFFSET_ADDR}
AnyRequest == AllRequests \cup {None}

Accesses == [write : BOOLEAN, reg : Page \X AnyOffset]

(* A selected access is one of the script. *)
ScriptInv == \A c \in Proc : pc[c] = "selected" => step[c] <= Len(Script(op[c]))

(* Until a refused ioctl unlocks for somebody else, whoever is in the      *)
(* critical section owns the mutex.                                        *)
MutexInv == ~stray => \A c \in Proc : Busy(c) => lock = c

(* The cached page is the chip's, and the selected access's.               *)
PageInv ==
  /\ synced => chipPage = current_page
  /\ ~stray => \A c \in Proc : pc[c] = "selected" => current_page = PageOf(c)

-----------------------------------------------------------------------------
(* Scripts.                                                                *)

(* The script of each kind of request. *)
LEMMA ScriptOf ==
  ASSUME NEW o
  PROVE
    /\ o.kind = "mode_show" => Script(o) = <<R(MODE_REFSEL_1)>>
    /\ o.kind = "status_show" => Script(o) = <<R(MODE_REFSEL_1), R(MON_STATUS_1)>>
    /\ o.kind = "mode_store" => Script(o) = <<R(MODE_REFSEL_1), W(MODE_REFSEL_1)>>
    /\ o.kind = "prio_show" => Script(o) = <<W(MB_MASK), W(MB_SEM), R(REF_PRIO(o.pin))>>
    /\ o.kind = "prio_store" => Script(o) = <<W(MB_MASK), W(MB_SEM), R(REF_PRIO(o.pin)),
                           W(REF_PRIO(o.pin)), W(MB_SEM)>>
    /\ o.kind = "ioctl_read" => Script(o) = <<R(o.reg)>>
    /\ o.kind = "ioctl_write" => Script(o) = <<W(o.reg)>>
    /\ o.kind = "ioctl_page" => Script(o) = <<W(<<o.page, PAGE_OFFSET_ADDR>>)>>
    /\ o.kind = "none" => Script(o) = <<>>
PROOF
<1>1. o.kind = "mode_show" =>
       Script(o) = <<R(MODE_REFSEL_1)>>
  BY Zenon DEF Script
<1>2. o.kind = "status_show" =>
       Script(o) = <<R(MODE_REFSEL_1), R(MON_STATUS_1)>>
  BY Zenon DEF Script
<1>3. o.kind = "mode_store" =>
       Script(o) = <<R(MODE_REFSEL_1), W(MODE_REFSEL_1)>>
  BY Zenon DEF Script
<1>4. o.kind = "prio_show" =>
       Script(o) = <<W(MB_MASK), W(MB_SEM), R(REF_PRIO(o.pin))>>
  BY Zenon DEF Script
<1>5. o.kind = "prio_store" =>
       Script(o) = <<W(MB_MASK), W(MB_SEM), R(REF_PRIO(o.pin)),
                           W(REF_PRIO(o.pin)), W(MB_SEM)>>
  BY Zenon DEF Script
<1>6. o.kind = "ioctl_read" =>
       Script(o) = <<R(o.reg)>>
  BY Zenon DEF Script
<1>7. o.kind = "ioctl_write" =>
       Script(o) = <<W(o.reg)>>
  BY Zenon DEF Script
<1>8. o.kind = "ioctl_page" =>
       Script(o) = <<W(<<o.page, PAGE_OFFSET_ADDR>>)>>
  BY Zenon DEF Script
<1>9. o.kind = "none" =>
       Script(o) = <<>>
  BY Zenon DEF Script
<1> QED BY <1>1, <1>2, <1>3, <1>4, <1>5, <1>6, <1>7, <1>8, <1>9

(* A script is short, addresses existing pages, and leaves the registers   *)
(* of a page only for a raw write of the page register.                    *)
LEMMA ScriptType ==
  ASSUME NEW o \in AnyRequest
  PROVE /\ Len(Script(o)) \in 0..5
        /\ \A i \in 1..Len(Script(o)) :
             /\ Script(o)[i] \in Accesses
             /\ Script(o)[i].reg \in Cell \/ o.kind = "ioctl_page"
             /\ o.kind = "ioctl_page" => Script(o)[i].write
PROOF
<1>p. {0, 2, 4, 12} \subseteq Page
  BY PageAssumption
<1>a. \A reg \in Cell :
        /\ R(reg) \in Accesses /\ R(reg).reg = reg
        /\ W(reg) \in Accesses /\ W(reg).reg = reg
  BY DEF R, W, Accesses, AnyOffset, Cell
<1>b. \A page \in Page :
        /\ W(<<page, PAGE_OFFSET_ADDR>>) \in Accesses
        /\ W(<<page, PAGE_OFFSET_ADDR>>).write
  BY DEF W, Accesses, AnyOffset
<1>c. {MODE_REFSEL_1, MON_STATUS_1, MB_MASK, MB_SEM} \subseteq Cell
  BY <1>p, PairsAssumption DEF Cell, Offset, MODE_REFSEL_1, MON_STATUS_1, MB_MASK, MB_SEM
<1>r. \A pin \in Pin : REF_PRIO(pin) \in Cell
  BY <1>p, PairsAssumption DEF REF_PRIO, Pin, Cell, Offset
<1>1. CASE o = None
  <2>1. Script(o) = <<>>
    BY <1>1, ScriptOf DEF None
  <2> QED BY <2>1
<1>2. CASE o \in [kind : {"mode_show", "status_show"}]
  <2>1. o.kind = "mode_show" \/ o.kind = "status_show"
    BY <1>2
  <2>2. Script(o) = <<R(MODE_REFSEL_1)>>
          \/ Script(o) = <<R(MODE_REFSEL_1), R(MON_STATUS_1)>>
    BY <2>1, ScriptOf
  <2> QED BY <2>1, <2>2, <1>a, <1>c
<1>3. CASE o \in [kind : {"mode_store"}, arg : {MODE_FREERUN, MODE_AUTOMATIC}]
  <2>1. o.kind = "mode_store"
    BY <1>3
  <2>2. Script(o) = <<R(MODE_REFSEL_1), W(MODE_REFSEL_1)>>
    BY <2>1, ScriptOf
  <2> QED BY <2>1, <2>2, <1>a, <1>c
<1>4. CASE o \in [kind : {"prio_show"}, pin : Pin]
  <2>1. o.kind = "prio_show" /\ o.pin \in Pin
    BY <1>4
  <2>2. Script(o) = <<W(MB_MASK), W(MB_SEM), R(REF_PRIO(o.pin))>>
    BY <2>1, ScriptOf
  <2> QED BY <2>1, <2>2, <1>a, <1>c, <1>r
<1>5. CASE o \in [kind : {"prio_store"}, pin : Pin, arg : Nib]
  <2>1. o.kind = "prio_store" /\ o.pin \in Pin
    BY <1>5
  <2>2. Script(o) = <<W(MB_MASK), W(MB_SEM), R(REF_PRIO(o.pin)),
                      W(REF_PRIO(o.pin)), W(MB_SEM)>>
    BY <2>1, ScriptOf
  <2> QED BY <2>1, <2>2, <1>a, <1>c, <1>r
<1>6. CASE o \in [kind : {"ioctl_read"}, reg : Cell]
  <2>1. o.kind = "ioctl_read" /\ o.reg \in Cell
    BY <1>6
  <2>2. Script(o) = <<R(o.reg)>>
    BY <2>1, ScriptOf
  <2> QED BY <2>1, <2>2, <1>a
<1>7. CASE o \in [kind : {"ioctl_write"}, reg : Cell, data : Value]
  <2>1. o.kind = "ioctl_write" /\ o.reg \in Cell
    BY <1>7
  <2>2. Script(o) = <<W(o.reg)>>
    BY <2>1, ScriptOf
  <2> QED BY <2>1, <2>2, <1>a
<1>8. CASE o \in [kind : {"ioctl_page"}, page : Page, data : Page]
  <2>1. o.kind = "ioctl_page" /\ o.page \in Page
    BY <1>8
  <2>2. Script(o) = <<W(<<o.page, PAGE_OFFSET_ADDR>>)>>
    BY <2>1, ScriptOf
  <2> QED BY <2>1, <2>2, <1>b
<1> QED
  BY <1>1, <1>2, <1>3, <1>4, <1>5, <1>6, <1>7, <1>8 DEF AnyRequest, AllRequests

(* The arguments a handler has. *)
LEMMA RequestFields ==
  ASSUME NEW o \in AnyRequest
  PROVE /\ o.kind = "mode_store" => o.arg \in {MODE_FREERUN, MODE_AUTOMATIC}
        /\ o.kind \in {"prio_show", "prio_store"} => o.pin \in Pin
        /\ o.kind = "prio_store" => o.arg \in Nib
        /\ o.kind = "ioctl_write" => o.data \in Value
        /\ o.kind = "ioctl_page" => o.data \in Page
        /\ o.kind \in {"none", "mode_show", "status_show", "mode_store", "prio_show",
                       "prio_store", "ioctl_read", "ioctl_write", "ioctl_page"}
  BY DEF AnyRequest, AllRequests, None

-----------------------------------------------------------------------------
(* What a write sends and what the chip makes of it.                       *)

Typed == TypeOK /\ ScriptInv

(* Inside an access the process is at a place of its script. *)
LEMMA AccessType ==
  ASSUME Typed, NEW c \in Proc, pc[c] = "selected"
  PROVE /\ op[c] \in AnyRequest
        /\ step[c] \in 1..Len(Script(op[c])) /\ step[c] \in 1..5
        /\ Access(c) \in Accesses
        /\ PageOf(c) \in Page
        /\ op[c].kind # "ioctl_page" => OffsetOf(c) \in Offset
        /\ op[c].kind = "ioctl_page" => Access(c).write
PROOF
<1>1. op[c] \in AnyRequest /\ step[c] \in 1..6
  BY RequestAssumption DEF Typed, TypeOK, AnyRequest
<1>2. Len(Script(op[c])) \in 0..5
  BY <1>1, ScriptType
<1>3. step[c] \in 1..Len(Script(op[c])) /\ step[c] \in 1..5
  <2> DEFINE n == Len(Script(op[c]))
  <2>1. step[c] <= n
    BY DEF Typed, ScriptInv
  <2>2. n \in 0..5
    BY <1>2
  <2> HIDE DEF n
  <2>3. step[c] \in 1..n /\ step[c] \in 1..5
    BY <1>1, <2>1, <2>2
  <2> QED BY <2>3 DEF n
<1>4. /\ Access(c) \in Accesses
      /\ Access(c).reg \in Cell \/ op[c].kind = "ioctl_page"
      /\ op[c].kind = "ioctl_page" => Access(c).write
  BY <1>1, <1>3, ScriptType DEF Access
<1>5. PageOf(c) \in Page /\ (op[c].kind # "ioctl_page" => OffsetOf(c) \in Offset)
  BY <1>4 DEF PageOf, OffsetOf, Accesses, Cell
<1> QED BY <1>1, <1>3, <1>4, <1>5

(* A byte that is sent is a byte. *)
LEMMA DataType ==
  ASSUME Typed, NEW c \in Proc, pc[c] = "selected",
         Access(c).write, op[c].kind # "ioctl_page"
  PROVE DataOf(c) \in Value
PROOF
<1> DEFINE o == op[c]
<1>0. o \in AnyRequest /\ val[c] \in Value /\ step[c] \in 1..Len(Script(o))
  BY AccessType DEF Typed, TypeOK
<1>1. o.kind = "mode_store" => WithMode(val[c], o.arg) \in Value
  <2> SUFFICES ASSUME o.kind = "mode_store" PROVE WithMode(val[c], o.arg) \in Value
    OBVIOUS
  <2>1. o.arg \in {0, 3}
    BY <1>0, RequestFields DEF MODE_FREERUN, MODE_AUTOMATIC
  <2>2. val[c][1] \in Nib /\ val[c][2] \in Nib
    BY <1>0 DEF Value
  <2>3. val[c][2] \in 0..15
    BY <2>2, NibAssumption
  <2>4. (val[c][2] \div 8) * 8 + o.arg \in Nib
    BY <2>1, <2>2, <2>3, NibAssumption
  <2> QED BY <2>2, <2>4 DEF WithMode, Value
<1>2. o.kind = "ioctl_write" => o.data \in Value
  BY <1>0, RequestFields
<1>3. DPLL1_MAILBOX \in Value /\ MB_READ \in Value /\ MB_WRITE \in Value
  BY NibAssumption DEF DPLL1_MAILBOX, MB_READ, MB_WRITE, Value
<1>4. ASSUME o.kind \notin {"mode_store", "ioctl_write"},
             Access(c).reg # MB_MASK, Access(c).reg # MB_SEM
      PROVE  SetNibble(val[c], o.pin, o.arg) \in Value
  <2>1. \A reg : ~R(reg).write /\ W(reg).reg = reg
    BY DEF R, W
  <2>a. Script(o)[step[c]].write
    BY DEF Access
  <2>2. o.kind # "mode_show" /\ o.kind # "ioctl_read" /\ o.kind # "none"
    <3>1. ASSUME o.kind = "mode_show" \/ o.kind = "ioctl_read" PROVE FALSE
      <4>1. PICK reg : Script(o) = <<R(reg)>>
        BY <3>1, ScriptOf
      <4> QED BY <4>1, <1>0, <2>1, <2>a
    <3>2. o.kind = "none" => Script(o) = <<>>
      BY ScriptOf
    <3> QED BY <1>0, <3>1, <3>2
  <2>3. o.kind # "status_show"
    <3>1. SUFFICES ASSUME o.kind = "status_show" PROVE FALSE
      OBVIOUS
    <3>2. Script(o) = <<R(MODE_REFSEL_1), R(MON_STATUS_1)>>
      BY <3>1, ScriptOf
    <3> QED BY <3>2, <1>0, <2>1, <2>a
  <2>4. o.kind # "prio_show"
    <3>1. SUFFICES ASSUME o.kind = "prio_show" PROVE FALSE
      OBVIOUS
    <3>2. Script(o) = <<W(MB_MASK), W(MB_SEM), R(REF_PRIO(o.pin))>>
      BY <3>1, ScriptOf
    <3>3. Script(o)[step[c]].reg # MB_MASK /\ Script(o)[step[c]].reg # MB_SEM
      BY <1>4 DEF Access
    <3> QED BY <3>2, <3>3, <1>0, <2>1, <2>a
  <2>5. o.pin \in Pin /\ o.arg \in Nib
    BY <1>0, <1>4, <2>2, <2>3, <2>4, RequestFields
  <2> QED BY <1>0, <2>5 DEF SetNibble, Value
<1> HIDE DEF o
<1>5. (IF step[c] = 2 THEN MB_READ ELSE MB_WRITE) \in Value
  BY <1>3
<1> QED BY <1>1, <1>2, <1>3, <1>4, <1>5, Zenon DEF DataOf, o

(* The chip stays a chip when a byte is written to a register. *)
LEMMA ChipType ==
  ASSUME Typed, NEW offset \in Offset, NEW v \in Value, ChipWrite(offset, v)
  PROVE chip' \in [Cell -> Value] /\ table' \in [Pin -> Nib] /\ chipPage' = chipPage
PROOF
<1> DEFINE regs == [chip EXCEPT ![<<chipPage, offset>>] = v]
<1>1. regs \in [Cell -> Value]
  BY DEF Typed, TypeOK, Cell
<1>2. Loaded(regs) \in [Cell -> Value]
  <2> SUFFICES ASSUME NEW x \in Cell, NEW k \in 0..(Pairs - 1), x = <<12, 20 + k>>
               PROVE <<table[2 * (x[2] - 20)], table[2 * (x[2] - 20) + 1]>> \in Value
    BY <1>1 DEF Loaded
  <2>1. 2 * (x[2] - 20) \in Pin /\ 2 * (x[2] - 20) + 1 \in Pin
    BY PairsAssumption DEF Pin
  <2> QED BY <2>1 DEF Typed, TypeOK, Value
<1>3. Stored(regs) \in [Pin -> Nib]
  <2>1. \A p \in Pin : REF_PRIO(p) \in Cell
    BY PageAssumption, PairsAssumption DEF REF_PRIO, Pin, Cell, Offset
  <2> QED BY <1>1, <2>1 DEF Stored, Value
<1> QED BY <1>1, <1>2, <1>3 DEF ChipWrite, Typed, TypeOK

-----------------------------------------------------------------------------
(* Types.                                                                  *)

(* The chip as the model starts it is typed, and nobody is in a script. *)
LEMMA TypedInit == Init => Typed
PROOF
<1> SUFFICES ASSUME Init PROVE Typed
  OBVIOUS
<1> USE DEF Init
<1>1. 0 \in Nib /\ 0 \in Page
  BY NibAssumption, PageAssumption
<1>2. val \in [Proc -> Value] /\ chip \in [Cell -> Value] /\ table \in [Pin -> Nib]
  BY <1>1 DEF Value
<1>3. lock \in Proc \cup {NoProc} /\ op \in [Proc -> Request \cup {None}]
  OBVIOUS
<1>4. /\ pc \in [Proc -> {"idle", "blocked", "running", "selected"}]
      /\ step \in [Proc -> 1..6]
  OBVIOUS
<1>5. current_page \in Page /\ chipPage \in Page
  BY <1>1
<1>6. synced \in BOOLEAN /\ stray \in BOOLEAN
  OBVIOUS
<1> QED BY <1>2, <1>3, <1>4, <1>5, <1>6 DEF Typed, TypeOK, ScriptInv

(* Every step of every handler keeps registers, pages and scripts typed. *)
LEMMA TypedStep == Typed /\ [Next]_vars => Typed'
PROOF
<1> SUFFICES ASSUME Typed, [Next]_vars PROVE Typed'
  OBVIOUS
<1>0. TypeOK /\ ScriptInv
  BY DEF Typed
<1>z. <<0, 0>> \in Value
  BY NibAssumption DEF Value
<1> USE <1>0 DEF chipVars
<1>1. ASSUME NEW c \in Proc, NEW o \in Request, Call(c, o) PROVE Typed'
  BY <1>1 DEF Call, Typed, TypeOK, ScriptInv
<1>2. ASSUME NEW c \in Proc, Lock(c) PROVE Typed'
  BY <1>2 DEF Lock, Typed, TypeOK, ScriptInv
<1>3. ASSUME NEW c \in Proc, SelectPage(c) PROVE Typed'
  <2>1. op[c] \in AnyRequest /\ step[c] \in 1..6 /\ Len(Script(op[c])) \in 0..5
    BY RequestAssumption, ScriptType DEF TypeOK, AnyRequest
  <2>2. step[c] <= Len(Script(op[c]))
    <3> DEFINE n == Len(Script(op[c]))
    <3>1. ~(step[c] > n) /\ n \in 0..5
      BY <1>3, <2>1 DEF SelectPage, Finished
    <3> HIDE DEF n
    <3>2. step[c] <= n
      BY <2>1, <3>1
    <3> QED BY <3>2 DEF n
  <2>3. PageOf(c) \in Page
    <3> DEFINE n == Len(Script(op[c]))
    <3>1. n \in 0..5 /\ step[c] <= n
      BY <2>1, <2>2
    <3>2. \A i \in 1..n : Script(op[c])[i] \in Accesses
      BY <2>1, ScriptType
    <3> HIDE DEF n
    <3>3. step[c] \in 1..n
      BY <2>1, <3>1
    <3>4. Access(c) \in Accesses
      BY <3>2, <3>3 DEF Access
    <3> QED BY <3>4 DEF PageOf, Accesses
  <2>4. TypeOK'
    BY <1>3, <2>3 DEF SelectPage, TypeOK
  <2>5. ScriptInv'
    <3>1. UNCHANGED <<op, step>> /\ pc' = [pc EXCEPT ![c] = "selected"]
      BY <1>3 DEF SelectPage
    <3> QED BY <2>2, <3>1 DEF ScriptInv, TypeOK
  <2> QED BY <2>4, <2>5 DEF Typed
<1>4. ASSUME NEW c \in Proc, Transfer(c), UNCHANGED op PROVE
        /\ ScriptInv'
        /\ pc' \in [Proc -> {"idle", "blocked", "running", "selected"}]
        /\ step' \in [Proc -> 1..6]
  <2>1. step[c] \in 1..5
    BY <1>4, AccessType DEF Transfer
  <2> QED BY <1>4, <2>1 DEF Transfer, ScriptInv, TypeOK
<1>5. ASSUME NEW c \in Proc, Read(c) PROVE Typed'
  <2>1. Transfer(c) /\ UNCHANGED op /\ pc[c] = "selected"
    BY <1>5 DEF Read, Transfer
  <2>2. OffsetOf(c) \in Offset
    BY <1>5, <2>1, AccessType DEF Read
  <2>3. val' \in [Proc -> Value]
    BY <1>5, <2>2 DEF Read, TypeOK, Cell
  <2> QED BY <1>4, <1>5, <2>1, <2>3 DEF Read, Typed, TypeOK
<1>6. ASSUME NEW c \in Proc, Write(c) PROVE Typed'
  <2>1. Transfer(c) /\ UNCHANGED op /\ pc[c] = "selected"
    BY <1>6 DEF Write, Transfer
  <2>2. OffsetOf(c) \in Offset /\ DataOf(c) \in Value
    BY <1>6, <2>1, AccessType, DataType DEF Write
  <2>3. chip' \in [Cell -> Value] /\ table' \in [Pin -> Nib] /\ chipPage' = chipPage
    BY <1>6, <2>2, ChipType DEF Write
  <2> QED BY <1>4, <1>6, <2>1, <2>3 DEF Write, Typed, TypeOK
<1>7. ASSUME NEW c \in Proc, WritePageRegister(c) PROVE Typed'
  <2>1. Transfer(c) /\ UNCHANGED op /\ pc[c] = "selected"
    BY <1>7 DEF WritePageRegister, Transfer
  <2>2. op[c].data \in Page
    BY <1>7, <2>1, AccessType, RequestFields DEF WritePageRegister
  <2> QED BY <1>4, <1>7, <2>1, <2>2 DEF WritePageRegister, Typed, TypeOK
<1>8. ASSUME NEW c \in Proc, Return(c), UNCHANGED <<current_page, chipVars, synced, stray>>,
             lock' \in {lock, NoProc}
      PROVE Typed'
  BY <1>8, <1>z DEF Return, Typed, TypeOK, ScriptInv
<1>9. ASSUME NEW c \in Proc, TransferFails(c) PROVE Typed'
  BY <1>8, <1>9 DEF TransferFails
<1>10. ASSUME NEW c \in Proc, Unlock(c) PROVE Typed'
  BY <1>8, <1>10 DEF Unlock
<1>11. ASSUME NEW c \in Proc, IoctlRejected(c) PROVE Typed'
  BY <1>11 DEF IoctlRejected, Typed, TypeOK, ScriptInv
<1>12. CASE UNCHANGED vars
  BY <1>12 DEF vars, Typed, TypeOK, ScriptInv
<1> QED
  BY <1>1, <1>2, <1>3, <1>5, <1>6, <1>7, <1>9, <1>10, <1>11, <1>12 DEF Next, Run

(* The driver's and the chip's state stay well typed, for any number of    *)
(* pins, any requests, failed transfers and stray unlocks.                 *)
THEOREM TypeCorrect == Spec => []TypeOK
PROOF
<1>1. Typed => TypeOK
  BY DEF Typed
<1> QED BY <1>1, TypedInit, TypedStep, PTL DEF Spec

-----------------------------------------------------------------------------
(* Accesses hit the page their address names.                              *)

Paged == MutexInv /\ PageInv

LEMMA PagedInit == Init => Paged
  BY DEF Init, Paged, MutexInv, PageInv, Busy

(* Other processes' accesses stay where they are when c alone moves. *)
LEMMA PageOfKept ==
  ASSUME NEW d \in Proc, op'[d] = op[d], step'[d] = step[d]
  PROVE PageOf(d)' = PageOf(d)
  BY DEF PageOf, Access

(* The cached page and the chip's part only when a raw write moves the     *)
(* latch, and no process moves it while another is between its two halves. *)
LEMMA PagedStep == Typed /\ Paged /\ [Next]_vars => Paged'
PROOF
<1> SUFFICES ASSUME Typed, Paged, [Next]_vars PROVE Paged'
  OBVIOUS
<1>0. TypeOK /\ MutexInv /\ PageInv
  BY DEF Typed, Paged
<1> USE <1>0, ProcAssumption DEF chipVars, Busy
<1>1. ASSUME NEW c \in Proc, NEW o \in Request, Call(c, o) PROVE Paged'
  <2>1. MutexInv'
    BY <1>1 DEF Call, MutexInv, TypeOK
  <2>2. \A d \in Proc : pc'[d] = "selected" =>
          pc[d] = "selected" /\ op'[d] = op[d] /\ step'[d] = step[d]
    BY <1>1 DEF Call, TypeOK
  <2>3. UNCHANGED <<synced, stray, chipPage, current_page>>
    BY <1>1 DEF Call
  <2> QED BY <2>1, <2>2, <2>3, PageOfKept DEF Paged, PageInv
<1>2. ASSUME NEW c \in Proc, Lock(c) PROVE Paged'
  <2>1. MutexInv'
    BY <1>2 DEF Lock, MutexInv, TypeOK
  <2>2. \A d \in Proc : pc'[d] = "selected" =>
          pc[d] = "selected" /\ op'[d] = op[d] /\ step'[d] = step[d]
    BY <1>2 DEF Lock, TypeOK
  <2>3. UNCHANGED <<synced, stray, chipPage, current_page>>
    BY <1>2 DEF Lock
  <2> QED BY <2>1, <2>2, <2>3, PageOfKept DEF Paged, PageInv
<1>3. ASSUME NEW c \in Proc, SelectPage(c) PROVE Paged'
  <2>1. MutexInv'
    BY <1>3 DEF SelectPage, MutexInv, TypeOK
  <2>2. current_page' = PageOf(c) /\ (synced' => chipPage' = current_page')
    BY <1>3 DEF SelectPage, PageInv
  <2>3. ~stray' => \A d \in Proc : pc'[d] = "selected" => d = c
    BY <1>3 DEF SelectPage, MutexInv, TypeOK
  <2>4. \A d \in Proc : PageOf(d)' = PageOf(d)
    BY <1>3, PageOfKept DEF SelectPage
  <2> QED BY <2>1, <2>2, <2>3, <2>4 DEF Paged, PageInv
<1>4. ASSUME NEW c \in Proc, Transfer(c),
             UNCHANGED <<lock, op, current_page, stray>>,
             synced' => synced /\ UNCHANGED chipPage
      PROVE  Paged'
  <2>1. MutexInv'
    BY <1>4 DEF Transfer, MutexInv, TypeOK
  <2>2. \A d \in Proc : pc'[d] = "selected" =>
          pc[d] = "selected" /\ op'[d] = op[d] /\ step'[d] = step[d]
    BY <1>4 DEF Transfer, TypeOK
  <2> QED BY <1>4, <2>1, <2>2, PageOfKept DEF Paged, PageInv
<1>5. ASSUME NEW c \in Proc, Read(c) PROVE Paged'
  BY <1>4, <1>5 DEF Read
<1>6. ASSUME NEW c \in Proc, Write(c) PROVE Paged'
  BY <1>4, <1>6 DEF Write, ChipWrite
<1>7. ASSUME NEW c \in Proc, WritePageRegister(c) PROVE Paged'
  BY <1>4, <1>7 DEF WritePageRegister
<1>8. ASSUME NEW c \in Proc, Busy(c), Return(c), lock' \in {lock, NoProc},
             UNCHANGED <<current_page, chipVars, synced, stray>>
      PROVE  Paged'
  <2>1. MutexInv'
    BY <1>8 DEF Return, MutexInv, TypeOK
  <2>2. \A d \in Proc : pc'[d] = "selected" =>
          pc[d] = "selected" /\ op'[d] = op[d] /\ step'[d] = step[d]
    BY <1>8 DEF Return, TypeOK
  <2> QED BY <1>8, <2>1, <2>2, PageOfKept DEF Paged, PageInv
<1>9. ASSUME NEW c \in Proc, TransferFails(c) PROVE Paged'
  BY <1>8, <1>9 DEF TransferFails
<1>10. ASSUME NEW c \in Proc, Unlock(c) PROVE Paged'
  BY <1>8, <1>10 DEF Unlock
<1>11. ASSUME NEW c \in Proc, IoctlRejected(c) PROVE Paged'
  <2>1. UNCHANGED <<pc, op, step, current_page, chipPage, synced>>
    BY <1>11 DEF IoctlRejected
  <2>2. ~stray' => ~stray /\ lock = NoProc /\ lock' = NoProc
    BY <1>11 DEF IoctlRejected
  <2>3. MutexInv'
    BY <2>1, <2>2 DEF MutexInv
  <2> QED BY <2>1, <2>2, <2>3, PageOfKept DEF Paged, PageInv
<1>12. CASE UNCHANGED vars
  <2>1. MutexInv'
    BY <1>12 DEF vars, MutexInv
  <2>2. UNCHANGED <<pc, op, step, current_page, chipPage, synced, stray>>
    BY <1>12 DEF vars
  <2> QED BY <2>1, <2>2, PageOfKept DEF Paged, PageInv
<1> QED
  BY <1>1, <1>2, <1>3, <1>5, <1>6, <1>7, <1>9, <1>10, <1>11, <1>12 DEF Next, Run

(* However handlers, raw register accesses, failures and page changes      *)
(* interleave, no access reaches a register of another page, until a       *)
(* refused ioctl or a raw write of the page register takes the premise     *)
(* away.                                                                   *)
THEOREM AccessesHit == Spec => []AccessHits
PROOF
<1>1. Init => Typed /\ Paged
  BY TypedInit, PagedInit
<1>2. Typed /\ Paged /\ [Next]_vars => Typed' /\ Paged'
  BY TypedStep, PagedStep
<1>3. Paged => AccessHits
  BY DEF Paged, PageInv, AccessHits
<1> QED BY <1>1, <1>2, <1>3, PTL DEF Spec

-----------------------------------------------------------------------------
(* How far the owner of the mutex has come.                                *)

PrioKind(o) == o.kind \in {"prio_show", "prio_store"}
ModeKind(o) == o.kind \in {"mode_show", "mode_store"}

(* What the first accesses of a handler have prepared for the next one:    *)
(* the mailbox is selected, the window shows the table, the byte read is   *)
(* the register's, the window holds the change asked for.                  *)
Prepared(c) ==
  /\ PrioKind(op[c]) /\ step[c] > 1 => MailboxSelected
  /\ op[c].kind = "prio_show" /\ step[c] > 2 => Stored(chip) = table
  /\ op[c].kind = "prio_show" /\ step[c] > 3 => val[c] = chip[REF_PRIO(op[c].pin)]
  /\ op[c].kind = "prio_store" /\ step[c] \in {3, 4} => Stored(chip) = table
  /\ op[c].kind = "prio_store" /\ step[c] = 4 => val[c] = chip[REF_PRIO(op[c].pin)]
  /\ op[c].kind = "prio_store" /\ step[c] = 5 =>
       Stored(chip) = [table EXCEPT ![op[c].pin] = op[c].arg]
  /\ op[c].kind = "mode_show" /\ step[c] > 1 => val[c] = chip[MODE_REFSEL_1]
  /\ op[c].kind = "mode_store" /\ step[c] = 2 => val[c] = chip[MODE_REFSEL_1]

Progress == synced /\ ~stray => \A c \in Proc : Busy(c) => Prepared(c)

(* A handler that stays on one page has selected it by its second access. *)
OnPage(c) ==
  step[c] > 1 => /\ PrioKind(op[c]) => current_page = 12
                 /\ ModeKind(op[c]) => current_page = 4

OnePage == ~stray => \A c \in Proc : Busy(c) => OnPage(c)

(* Outside the critical section a handler is at its first access. *)
AtStart == \A c \in Proc : ~Busy(c) => step[c] = 1

Underway == OnePage /\ AtStart /\ Progress

(* The accesses of the handlers that stay on one page. *)
LEMMA PrioAccess ==
  ASSUME Typed, NEW c \in Proc, step[c] <= Len(Script(op[c])), PrioKind(op[c])
  PROVE
    /\ op[c].kind = "prio_show" => step[c] \in 1..3
    /\ step[c] \in 1..5
    /\ step[c] = 1 => Access(c) = W(MB_MASK)
    /\ step[c] = 2 => Access(c) = W(MB_SEM)
    /\ step[c] = 3 => Access(c) = R(REF_PRIO(op[c].pin))
    /\ step[c] = 4 => Access(c) = W(REF_PRIO(op[c].pin))
    /\ step[c] = 5 => Access(c) = W(MB_SEM)
    /\ PageOf(c) = 12
PROOF
<1>0. step[c] \in 1..6
  BY DEF Typed, TypeOK
<1>1. CASE op[c].kind = "prio_show"
  <2>1. Script(op[c]) = <<W(MB_MASK), W(MB_SEM), R(REF_PRIO(op[c].pin))>>
    BY <1>1, ScriptOf
  <2>2. step[c] \in 1..3
    BY <1>0, <2>1
  <2>3. /\ step[c] = 1 => Access(c) = W(MB_MASK)
        /\ step[c] = 2 => Access(c) = W(MB_SEM)
        /\ step[c] = 3 => Access(c) = R(REF_PRIO(op[c].pin))
    BY <2>1 DEF Access
  <2>4. PageOf(c) = 12
    BY <2>2, <2>3 DEF PageOf, R, W, MB_MASK, MB_SEM, REF_PRIO
  <2> QED BY <2>2, <2>3, <2>4
<1>2. CASE op[c].kind = "prio_store"
  <2>1. Script(op[c]) = <<W(MB_MASK), W(MB_SEM), R(REF_PRIO(op[c].pin)),
                          W(REF_PRIO(op[c].pin)), W(MB_SEM)>>
    BY <1>2, ScriptOf
  <2>2. step[c] \in 1..5
    BY <1>0, <2>1
  <2>3. /\ step[c] = 1 => Access(c) = W(MB_MASK)
        /\ step[c] = 2 => Access(c) = W(MB_SEM)
        /\ step[c] = 3 => Access(c) = R(REF_PRIO(op[c].pin))
        /\ step[c] = 4 => Access(c) = W(REF_PRIO(op[c].pin))
        /\ step[c] = 5 => Access(c) = W(MB_SEM)
    BY <2>1 DEF Access
  <2>4. PageOf(c) = 12
    BY <2>2, <2>3 DEF PageOf, R, W, MB_MASK, MB_SEM, REF_PRIO
  <2> QED BY <1>2, <2>2, <2>3, <2>4
<1> QED BY <1>1, <1>2 DEF PrioKind

LEMMA ModeAccess ==
  ASSUME Typed, NEW c \in Proc, step[c] <= Len(Script(op[c])), ModeKind(op[c])
  PROVE
    /\ step[c] = 1 => Access(c) = R(MODE_REFSEL_1)
    /\ step[c] # 1 => step[c] = 2 /\ op[c].kind = "mode_store" /\ Access(c) = W(MODE_REFSEL_1)
    /\ PageOf(c) = 4
PROOF
<1>0. step[c] \in 1..6
  BY DEF Typed, TypeOK
<1>1. CASE op[c].kind = "mode_show"
  <2>1. Script(op[c]) = <<R(MODE_REFSEL_1)>>
    BY <1>1, ScriptOf
  <2>2. step[c] = 1
    BY <1>0, <2>1
  <2>3. Access(c) = R(MODE_REFSEL_1)
    BY <2>1, <2>2 DEF Access
  <2> QED BY <2>2, <2>3 DEF PageOf, R, MODE_REFSEL_1
<1>2. CASE op[c].kind = "mode_store"
  <2>1. Script(op[c]) = <<R(MODE_REFSEL_1), W(MODE_REFSEL_1)>>
    BY <1>2, ScriptOf
  <2>2. step[c] \in 1..2
    BY <1>0, <2>1
  <2>3. /\ step[c] = 1 => Access(c) = R(MODE_REFSEL_1)
        /\ step[c] = 2 => Access(c) = W(MODE_REFSEL_1)
    BY <2>1 DEF Access
  <2>4. PageOf(c) = 4
    BY <2>2, <2>3 DEF PageOf, R, W, MODE_REFSEL_1
  <2> QED BY <1>2, <2>2, <2>3, <2>4
<1> QED BY <1>1, <1>2 DEF ModeKind

(* The registers the handlers name, apart from each other. *)
LEMMA Registers ==
  /\ {MB_MASK, MB_SEM, MODE_REFSEL_1} \subseteq Cell
  /\ MB_MASK # MB_SEM /\ MODE_REFSEL_1 # MB_MASK /\ MODE_REFSEL_1 # MB_SEM
  /\ \A p \in Pin : /\ REF_PRIO(p) \in Cell
                    /\ REF_PRIO(p) \notin {MB_MASK, MB_SEM, MODE_REFSEL_1}
PROOF
<1>1. {0, 2, 4, 12} \subseteq Page
  BY PageAssumption
<1>2. \A p \in Pin : p \div 2 \in 0..(Pairs - 1)
  BY PairsAssumption DEF Pin
<1> QED
  BY <1>1, <1>2, PairsAssumption
  DEF Cell, Offset, MB_MASK, MB_SEM, MODE_REFSEL_1, REF_PRIO

(* Loading shows the table in the window and leaves the other registers. *)
LEMMA LoadedWindow ==
  ASSUME Typed, NEW regs \in [Cell -> Value]
  PROVE /\ Stored(Loaded(regs)) = table
        /\ \A x \in {MB_MASK, MB_SEM, MODE_REFSEL_1} : Loaded(regs)[x] = regs[x]
PROOF
<1>1. table \in [Pin -> Nib]
  BY DEF Typed, TypeOK
<1>2. ASSUME NEW p \in Pin
      PROVE (IF p % 2 = 1 THEN Loaded(regs)[REF_PRIO(p)][2]
                          ELSE Loaded(regs)[REF_PRIO(p)][1]) = table[p]
  <2> DEFINE k == p \div 2
  <2>1. k \in 0..(Pairs - 1) /\ (p % 2 = 1 => p = 2 * k + 1) /\ (p % 2 # 1 => p = 2 * k)
    BY PairsAssumption DEF Pin
  <2>2. REF_PRIO(p) = <<12, 20 + k>> /\ REF_PRIO(p)[2] - 20 = k
    BY <2>1 DEF REF_PRIO
  <2>3. REF_PRIO(p) \in Cell
    BY Registers
  <2>4. Loaded(regs)[REF_PRIO(p)] = <<table[2 * k], table[2 * k + 1]>>
    BY <2>1, <2>2, <2>3 DEF Loaded
  <2> QED BY <2>1, <2>4
<1>3. Stored(Loaded(regs)) = table
  <2>1. Stored(Loaded(regs)) = [p \in Pin |-> table[p]]
    BY <1>2 DEF Stored
  <2> QED BY <1>1, <2>1
<1>4. ASSUME NEW x \in {MB_MASK, MB_SEM, MODE_REFSEL_1} PROVE Loaded(regs)[x] = regs[x]
  <2>1. x \in Cell
    BY Registers
  <2>2. \A k \in 0..(Pairs - 1) : x # <<12, 20 + k>>
    BY PairsAssumption DEF MB_MASK, MB_SEM, MODE_REFSEL_1
  <2> QED BY <2>1, <2>2 DEF Loaded
<1> QED BY <1>3, <1>4

(* A write that leaves the window alone, and one of a nibble of it. *)
LEMMA WindowWrite ==
  ASSUME NEW regs \in [Cell -> Value], NEW x \in Cell, NEW v \in Value,
         NEW after \in [Cell -> Value], after[x] = v,
         \A y \in Cell : y # x => after[y] = regs[y]
  PROVE /\ (\A p \in Pin : x # REF_PRIO(p)) => Stored(after) = Stored(regs)
        /\ \A pin \in Pin, n \in Nib :
             x = REF_PRIO(pin) /\ v = SetNibble(regs[x], pin, n) =>
               Stored(after) = [p \in Pin |-> IF p = pin THEN n ELSE Stored(regs)[p]]
PROOF
<1>0. \A p \in Pin : REF_PRIO(p) \in Cell
  BY Registers
<1>1. ASSUME \A p \in Pin : x # REF_PRIO(p) PROVE Stored(after) = Stored(regs)
  <2>1. \A p \in Pin : after[REF_PRIO(p)] = regs[REF_PRIO(p)]
    BY <1>0, <1>1
  <2> QED BY <2>1 DEF Stored
<1>2. ASSUME NEW pin \in Pin, NEW n \in Nib,
             x = REF_PRIO(pin), v = SetNibble(regs[x], pin, n)
      PROVE  Stored(after) = [p \in Pin |-> IF p = pin THEN n ELSE Stored(regs)[p]]
  <2> DEFINE Of(r, p) == IF p % 2 = 1 THEN r[REF_PRIO(p)][2] ELSE r[REF_PRIO(p)][1]
  <2>1. ASSUME NEW p \in Pin PROVE Of(after, p) = IF p = pin THEN n ELSE Of(regs, p)
    <3>1. CASE REF_PRIO(p) = x
      <4>1. after[REF_PRIO(p)] = v
        BY <1>0, <3>1
      <4>a. REF_PRIO(p)[2] = 20 + p \div 2 /\ REF_PRIO(pin)[2] = 20 + pin \div 2
        BY DEF REF_PRIO
      <4>b. p \in Nat /\ pin \in Nat
        BY PairsAssumption DEF Pin
      <4>2. p \div 2 = pin \div 2
        BY <1>2, <3>1, <4>a, <4>b
      <4>3. p # pin => p % 2 # pin % 2
        BY <4>2, PairsAssumption DEF Pin
      <4>4. p % 2 \in {0, 1} /\ pin % 2 \in {0, 1}
        BY PairsAssumption DEF Pin
      <4>5. v = IF pin % 2 = 1 THEN <<regs[x][1], n>> ELSE <<n, regs[x][2]>>
        BY <1>2 DEF SetNibble
      <4> QED BY <3>1, <4>1, <4>3, <4>4, <4>5
    <3>2. CASE REF_PRIO(p) # x
      <4>1. after[REF_PRIO(p)] = regs[REF_PRIO(p)]
        BY <1>0, <3>2
      <4>2. p # pin
        BY <1>2, <3>2
      <4> QED BY <4>1, <4>2
    <3> QED BY <3>1, <3>2
  <2>2. \A r : Stored(r) = [p \in Pin |-> Of(r, p)]
    BY DEF Stored
  <2> HIDE DEF Of
  <2>3. Stored(after) = [p \in Pin |-> Of(after, p)] /\ Stored(regs) = [p \in Pin |-> Of(regs, p)]
    BY <2>2
  <2> QED BY <2>1, <2>3
<1> QED BY <1>1, <1>2

(* Stepping c touches the other processes only by what they read. *)
LEMMA PreparedKept ==
  ASSUME NEW d \in Proc, op'[d] = op[d], step'[d] = step[d], val'[d] = val[d],
         UNCHANGED <<chip, table>>, Prepared(d)
  PROVE  Prepared(d)'
  BY DEF Prepared, MailboxSelected, Stored

LEMMA OnPageKept ==
  ASSUME NEW d \in Proc, op'[d] = op[d], step'[d] = step[d],
         UNCHANGED current_page, OnPage(d)
  PROVE  OnPage(d)'
  BY DEF OnPage

LEMMA UnderwayInit == Init => Underway
  BY DEF Init, Underway, OnePage, AtStart, Progress, Busy

(* One transfer of a handler prepares the next. *)
LEMMA PreparedRead ==
  ASSUME Typed, AccessHits, synced, ~stray, NEW c \in Proc, Read(c), Prepared(c)
  PROVE  Prepared(c)'
PROOF
<1> DEFINE o == op[c]
<1>1. /\ pc[c] = "selected" /\ ~Access(c).write
      /\ UNCHANGED <<op, chip, table>>
      /\ step'[c] = step[c] + 1 /\ step[c] <= Len(Script(o)) /\ step[c] \in 1..5
  BY AccessType DEF Read, Transfer, Typed, TypeOK, ScriptInv, chipVars
<1>2. chipPage = PageOf(c)
  BY <1>1 DEF AccessHits
<1>3. PageOf(c) = Access(c).reg[1] /\ OffsetOf(c) = Access(c).reg[2]
  BY DEF PageOf, OffsetOf
<1>4. Access(c).reg \in Page \X AnyOffset
  BY <1>1, AccessType DEF Accesses
<1>5. val'[c] = chip[Access(c).reg]
  <2>1. <<chipPage, OffsetOf(c)>> = Access(c).reg
    BY <1>2, <1>3, <1>4
  <2> QED BY <2>1 DEF Read, Typed, TypeOK
<1>6. Stored(chip)' = Stored(chip) /\ MailboxSelected' = MailboxSelected
  BY <1>1 DEF Stored, MailboxSelected
<1>7. \A reg : /\ R(reg).reg = reg /\ ~R(reg).write
               /\ W(reg).reg = reg /\ W(reg).write
  BY DEF R, W
<1>8. CASE PrioKind(o)
  <2>1. step[c] = 3 /\ Access(c).reg = REF_PRIO(o.pin)
    BY <1>1, <1>7, <1>8, PrioAccess
  <2>2. val'[c] = chip'[REF_PRIO(o.pin)] /\ step'[c] = 4 /\ ~ModeKind(o)
    BY <1>1, <1>5, <1>8, <2>1 DEF PrioKind, ModeKind
  <2>3. Stored(chip) = table
    BY <1>8, <2>1 DEF Prepared, PrioKind, ModeKind
  <2> QED BY <1>1, <1>6, <1>8, <2>1, <2>2, <2>3 DEF Prepared, ModeKind
<1>9. CASE ModeKind(o)
  <2>1. step[c] = 1 /\ Access(c).reg = MODE_REFSEL_1
    BY <1>1, <1>7, <1>9, ModeAccess
  <2>2. val'[c] = chip'[MODE_REFSEL_1] /\ step'[c] = 2 /\ ~PrioKind(o)
    BY <1>1, <1>5, <1>9, <2>1 DEF PrioKind, ModeKind
  <2> QED BY <1>1, <2>2 DEF Prepared, PrioKind, ModeKind
<1>10. CASE ~PrioKind(o) /\ ~ModeKind(o)
  BY <1>1, <1>10 DEF Prepared, PrioKind, ModeKind
<1> QED BY <1>8, <1>9, <1>10

(* The byte a store writes, at the register its access names. *)
LEMMA WrittenAt ==
  ASSUME Typed, AccessHits, synced, ~stray, NEW c \in Proc, Write(c)
  PROVE  LET x == Access(c).reg
             regs == [chip EXCEPT ![x] = DataOf(c)] IN
         /\ x \in Cell /\ DataOf(c) \in Value /\ regs \in [Cell -> Value]
         /\ chip' = IF x = MB_SEM /\ DataOf(c) = MB_READ /\ MailboxSelected
                      THEN Loaded(regs) ELSE regs
         /\ table' = IF x = MB_SEM /\ DataOf(c) = MB_WRITE /\ MailboxSelected
                       THEN Stored(regs) ELSE table
PROOF
<1>1. /\ pc[c] = "selected" /\ Access(c).write /\ op[c].kind # "ioctl_page"
      /\ ChipWrite(OffsetOf(c), DataOf(c))
  BY DEF Write, Transfer
<1>2. Access(c).reg \in Page \X AnyOffset /\ OffsetOf(c) \in Offset
  BY <1>1, AccessType DEF Accesses
<1>3. <<chipPage, OffsetOf(c)>> = Access(c).reg
  BY <1>1, <1>2 DEF AccessHits, PageOf, OffsetOf
<1>4. Access(c).reg \in Cell
  BY <1>2 DEF OffsetOf, Cell
<1>5. DataOf(c) \in Value
  BY <1>1, DataType
<1>6. [chip EXCEPT ![Access(c).reg] = DataOf(c)] \in [Cell -> Value]
  BY <1>4, <1>5 DEF Typed, TypeOK
<1>7. /\ chip' = IF Access(c).reg = MB_SEM /\ DataOf(c) = MB_READ /\ MailboxSelected
                   THEN Loaded([chip EXCEPT ![Access(c).reg] = DataOf(c)])
                   ELSE [chip EXCEPT ![Access(c).reg] = DataOf(c)]
      /\ table' = IF Access(c).reg = MB_SEM /\ DataOf(c) = MB_WRITE /\ MailboxSelected
                    THEN Stored([chip EXCEPT ![Access(c).reg] = DataOf(c)]) ELSE table
  BY <1>1, <1>3 DEF ChipWrite
<1> QED BY <1>4, <1>5, <1>6, <1>7

(* What the prio handlers and mode_store send. *)
LEMMA SentByHandlers ==
  ASSUME Typed, NEW c \in Proc, step[c] <= Len(Script(op[c]))
  PROVE
    /\ PrioKind(op[c]) /\ step[c] = 1 => DataOf(c) = DPLL1_MAILBOX
    /\ PrioKind(op[c]) /\ step[c] = 2 => DataOf(c) = MB_READ
    /\ op[c].kind = "prio_store" /\ step[c] = 4 =>
         DataOf(c) = SetNibble(val[c], op[c].pin, op[c].arg)
    /\ op[c].kind = "prio_store" /\ step[c] = 5 => DataOf(c) = MB_WRITE
    /\ op[c].kind = "mode_store" => DataOf(c) = WithMode(val[c], op[c].arg)
PROOF
<1> DEFINE o == op[c]
<1>1. ASSUME o.kind = "mode_store" PROVE DataOf(c) = WithMode(val[c], o.arg)
  <2>1. Access(c).reg = MODE_REFSEL_1
    BY <1>1, ModeAccess DEF ModeKind, R, W
  <2>2. Access(c).reg # MB_MASK /\ Access(c).reg # MB_SEM
    BY <2>1, Registers
  <2> QED BY <1>1, <2>2, Zenon DEF DataOf
<1>2. ASSUME PrioKind(o) PROVE
        /\ step[c] = 1 => DataOf(c) = DPLL1_MAILBOX
        /\ step[c] = 2 => DataOf(c) = MB_READ
        /\ o.kind = "prio_store" /\ step[c] = 4 => DataOf(c) = SetNibble(val[c], o.pin, o.arg)
        /\ o.kind = "prio_store" /\ step[c] = 5 => DataOf(c) = MB_WRITE
  <2>1. o.kind # "mode_store" /\ o.kind # "ioctl_write"
    BY <1>2 DEF PrioKind
  <2>2. /\ Access(c).reg = MB_MASK => DataOf(c) = DPLL1_MAILBOX
        /\ Access(c).reg = MB_SEM /\ Access(c).reg # MB_MASK =>
             DataOf(c) = IF step[c] = 2 THEN MB_READ ELSE MB_WRITE
        /\ Access(c).reg # MB_MASK /\ Access(c).reg # MB_SEM =>
             DataOf(c) = SetNibble(val[c], o.pin, o.arg)
    <3>1. Access(c).reg = MB_MASK => DataOf(c) = DPLL1_MAILBOX
      BY <2>1, Registers, Zenon DEF DataOf
    <3>2. Access(c).reg = MB_SEM /\ Access(c).reg # MB_MASK =>
            DataOf(c) = IF step[c] = 2 THEN MB_READ ELSE MB_WRITE
      BY <2>1, Zenon DEF DataOf
    <3>3. Access(c).reg # MB_MASK /\ Access(c).reg # MB_SEM =>
            DataOf(c) = SetNibble(val[c], o.pin, o.arg)
      BY <2>1, Zenon DEF DataOf
    <3> QED BY <3>1, <3>2, <3>3
  <2>3. o.pin \in Pin
    BY <1>2, RequestAssumption, RequestFields, PrioAccess, ScriptOf DEF PrioKind, Typed, TypeOK, AnyRequest
  <2>4. /\ step[c] = 1 => Access(c).reg = MB_MASK
        /\ step[c] \in {2, 5} => Access(c).reg = MB_SEM
        /\ step[c] = 4 => Access(c).reg = REF_PRIO(o.pin)
    BY <1>2, PrioAccess DEF R, W
  <2> QED BY <2>2, <2>3, <2>4, Registers
<1> QED BY <1>1, <1>2 DEF PrioKind

LEMMA PreparedWrite ==
  ASSUME Typed, AccessHits, synced, ~stray, NEW c \in Proc, Write(c), Prepared(c)
  PROVE  Prepared(c)'
PROOF
<1> DEFINE o == op[c]
           x == Access(c).reg
           regs == [chip EXCEPT ![x] = DataOf(c)]
<1>1. /\ pc[c] = "selected" /\ Access(c).write /\ UNCHANGED <<op, val>>
      /\ step'[c] = step[c] + 1 /\ step[c] <= Len(Script(o)) /\ step[c] \in 1..5
  BY AccessType DEF Write, Transfer, Typed, TypeOK, ScriptInv
<1>2. /\ x \in Cell /\ DataOf(c) \in Value /\ regs \in [Cell -> Value]
      /\ chip' = IF x = MB_SEM /\ DataOf(c) = MB_READ /\ MailboxSelected
                   THEN Loaded(regs) ELSE regs
      /\ table' = IF x = MB_SEM /\ DataOf(c) = MB_WRITE /\ MailboxSelected
                    THEN Stored(regs) ELSE table
  BY WrittenAt
<1>3. \A reg : /\ R(reg).reg = reg /\ ~R(reg).write
               /\ W(reg).reg = reg /\ W(reg).write
  BY DEF R, W
<1>4. chip \in [Cell -> Value] /\ table \in [Pin -> Nib]
  BY DEF Typed, TypeOK
<1>5. Stored(chip)' = Stored(chip')
  BY DEF Stored
<1>6. CASE PrioKind(o)
  <2>0. o.pin \in Pin /\ (o.kind = "prio_store" => o.arg \in Nib) /\ ~ModeKind(o)
    BY <1>6, RequestAssumption, RequestFields DEF PrioKind, ModeKind, Typed, TypeOK, AnyRequest
  <2>1. \/ step[c] = 1 /\ x = MB_MASK
        \/ step[c] = 2 /\ x = MB_SEM
        \/ step[c] = 4 /\ x = REF_PRIO(o.pin) /\ o.kind = "prio_store"
        \/ step[c] = 5 /\ x = MB_SEM /\ o.kind = "prio_store"
    BY <1>1, <1>3, <1>6, PrioAccess DEF PrioKind
  <2>2. CASE step[c] = 1 /\ x = MB_MASK
    <3>1. chip' = regs /\ DataOf(c) = DPLL1_MAILBOX
      BY <1>1, <1>2, <1>6, <2>2, Registers, SentByHandlers
    <3>2. chip'[MB_MASK] = DPLL1_MAILBOX
      BY <1>4, <2>2, <3>1, Registers
    <3> QED BY <1>1, <2>0, <2>2, <3>2 DEF Prepared, MailboxSelected, PrioKind, ModeKind
  <2>3. CASE step[c] = 2 /\ x = MB_SEM
    <3>1. DataOf(c) = MB_READ /\ MailboxSelected
      BY <1>1, <1>6, <2>3, SentByHandlers DEF Prepared
    <3>2. chip' = Loaded(regs) /\ table' = table
      BY <1>2, <2>3, <3>1 DEF MB_READ, MB_WRITE
    <3>3. Stored(chip)' = table'
      BY <1>2, <1>5, <3>2, LoadedWindow
    <3>4. chip'[MB_MASK] = chip[MB_MASK]
      <4>1. chip'[MB_MASK] = regs[MB_MASK]
        BY <1>2, <3>2, LoadedWindow
      <4> QED BY <1>4, <2>3, <4>1, Registers
    <3>5. MailboxSelected'
      BY <3>1, <3>4 DEF MailboxSelected
    <3> QED BY <1>1, <2>0, <2>3, <3>3, <3>5 DEF Prepared, PrioKind, ModeKind
  <2>4. CASE step[c] = 4 /\ x = REF_PRIO(o.pin) /\ o.kind = "prio_store"
    <3>1. x # MB_SEM /\ x # MB_MASK
      BY <2>0, <2>4, Registers
    <3>2. chip' = regs /\ table' = table
      BY <1>2, <3>1
    <3>3. DataOf(c) = SetNibble(chip[x], o.pin, o.arg) /\ Stored(chip) = table /\ MailboxSelected
      BY <1>1, <2>4, SentByHandlers DEF Prepared, PrioKind, ModeKind
    <3>4. Stored(chip)' = [table' EXCEPT ![o.pin] = o.arg]
      <4> DEFINE v == DataOf(c)
      <4>1. /\ x \in Cell /\ v \in Value /\ chip' \in [Cell -> Value] /\ chip'[x] = v
            /\ \A y \in Cell : y # x => chip'[y] = chip[y]
            /\ x = REF_PRIO(o.pin) /\ v = SetNibble(chip[x], o.pin, o.arg)
            /\ o.pin \in Pin /\ o.arg \in Nib
        BY <1>2, <1>4, <2>0, <2>4, <3>2, <3>3
      <4>2. Stored(chip') = [p \in Pin |-> IF p = o.pin THEN o.arg ELSE Stored(chip)[p]]
        <5> HIDE DEF o, x, v
        <5> QED BY <1>4, <4>1, WindowWrite
      <4> QED BY <1>4, <1>5, <3>2, <3>3, <4>2
    <3>5. MailboxSelected'
      BY <1>4, <3>1, <3>2, <3>3, Registers DEF MailboxSelected
    <3> QED BY <1>1, <2>0, <2>4, <3>4, <3>5 DEF Prepared, PrioKind, ModeKind
  <2>5. CASE step[c] = 5 /\ x = MB_SEM /\ o.kind = "prio_store"
    <3>1. DataOf(c) = MB_WRITE /\ MailboxSelected
      BY <1>1, <1>6, <2>5, SentByHandlers DEF Prepared
    <3>2. chip' = regs
      BY <1>2, <3>1 DEF MB_READ, MB_WRITE
    <3>3. MailboxSelected'
      BY <1>4, <2>5, <3>1, <3>2, Registers DEF MailboxSelected
    <3> QED BY <1>1, <2>0, <2>5, <3>3 DEF Prepared, PrioKind, ModeKind
  <2> QED BY <2>1, <2>2, <2>3, <2>4, <2>5
<1>7. CASE ModeKind(o)
  <2>1. step[c] = 2 /\ o.kind = "mode_store"
    BY <1>1, <1>3, <1>7, ModeAccess DEF ModeKind, PrioKind
  <2> QED BY <1>1, <2>1 DEF Prepared, PrioKind, ModeKind
<1>8. CASE ~PrioKind(o) /\ ~ModeKind(o)
  BY <1>1, <1>8 DEF Prepared, PrioKind, ModeKind
<1> QED BY <1>6, <1>7, <1>8

(* The owner of the mutex prepares its next access and nobody disturbs it. *)
LEMMA UnderwayStep == Typed /\ Paged /\ Underway /\ [Next]_vars => Underway'
PROOF
<1> SUFFICES ASSUME Typed, Paged, Underway, [Next]_vars PROVE Underway'
  OBVIOUS
<1>0. TypeOK /\ ScriptInv /\ MutexInv /\ OnePage /\ AtStart /\ Progress /\ AccessHits
  BY DEF Typed, Paged, Underway, PageInv, AccessHits
<1> USE <1>0, ProcAssumption DEF chipVars
<1>1. ASSUME NEW c \in Proc, ~Busy(c)', step'[c] = 1,
             \A d \in Proc \ {c} :
               pc'[d] = pc[d] /\ op'[d] = op[d] /\ step'[d] = step[d] /\ val'[d] = val[d],
             UNCHANGED <<current_page, chip, table, synced, stray>>
      PROVE  Underway'
  <2>1. \A d \in Proc \ {c} : Busy(d)' = Busy(d)
    BY <1>1 DEF Busy
  <2>2. AtStart'
    BY <1>1, <2>1 DEF AtStart
  <2>3. OnePage'
    BY <1>1, <2>1, OnPageKept DEF OnePage
  <2>4. Progress'
    BY <1>1, <2>1, PreparedKept DEF Progress
  <2> QED BY <2>2, <2>3, <2>4 DEF Underway
<1>2. ASSUME NEW c \in Proc, NEW o \in Request, Call(c, o) PROVE Underway'
  <2>1. ~Busy(c)' /\ step'[c] = 1
    BY <1>2 DEF Call, Busy, AtStart, TypeOK
  <2>2. \A d \in Proc \ {c} :
          pc'[d] = pc[d] /\ op'[d] = op[d] /\ step'[d] = step[d] /\ val'[d] = val[d]
    BY <1>2 DEF Call, TypeOK
  <2> QED BY <1>1, <1>2, <2>1, <2>2 DEF Call
<1>3. ASSUME NEW c \in Proc, Lock(c) PROVE Underway'
  <2>1. UNCHANGED <<op, step, val, current_page, chip, table, synced, stray>>
    BY <1>3 DEF Lock
  <2>2. \A d \in Proc \ {c} : Busy(d)' = Busy(d)
    BY <1>3 DEF Lock, Busy, TypeOK
  <2>3. Busy(c)' /\ step[c] = 1
    BY <1>3 DEF Lock, Busy, TypeOK, AtStart
  <2>4. Prepared(c) /\ OnPage(c)
    BY <2>3 DEF Prepared, OnPage
  <2>5. AtStart'
    BY <2>1, <2>2, <2>3 DEF AtStart
  <2>6. OnePage'
    BY <2>1, <2>2, <2>4, OnPageKept DEF OnePage
  <2>7. Progress'
    BY <2>1, <2>2, <2>4, PreparedKept DEF Progress
  <2> QED BY <2>5, <2>6, <2>7 DEF Underway
<1>4. ASSUME NEW c \in Proc, SelectPage(c) PROVE Underway'
  <2>1. UNCHANGED <<op, step, val, chip, table, stray>> /\ current_page' = PageOf(c)
    BY <1>4 DEF SelectPage
  <2>2. Busy(c) /\ \A d \in Proc : Busy(d)' = Busy(d)
    BY <1>4 DEF SelectPage, Busy, TypeOK
  <2>3. ~stray => \A d \in Proc : Busy(d) => d = c
    BY <2>2 DEF MutexInv
  <2>4. step[c] <= Len(Script(op[c])) /\ step[c] \in 1..6
    <3> DEFINE n == Len(Script(op[c]))
    <3>1. op[c] \in AnyRequest /\ step[c] \in 1..6
      BY RequestAssumption DEF TypeOK, AnyRequest
    <3>2. n \in 0..5
      BY <3>1, ScriptType
    <3>3. ~(step[c] > n)
      BY <1>4 DEF SelectPage, Finished
    <3> HIDE DEF n
    <3>4. step[c] <= n
      BY <3>1, <3>2, <3>3
    <3> QED BY <3>1, <3>4 DEF n
  <2>5. /\ PrioKind(op[c]) => PageOf(c) = 12
        /\ ModeKind(op[c]) => PageOf(c) = 4
    BY <2>4, PrioAccess, ModeAccess
  <2>6. OnePage'
    <3>1. OnPage(c)'
      BY <2>1, <2>5 DEF OnPage
    <3> QED BY <2>1, <2>2, <2>3, <3>1 DEF OnePage
  <2>7. AtStart'
    BY <2>1, <2>2 DEF AtStart
  <2>8. ASSUME synced', ~stray PROVE Prepared(c)
    <3>1. CASE synced
      BY <2>2, <2>8, <3>1 DEF Progress
    <3>2. CASE ~synced
      <4>1. current_page # PageOf(c)
        BY <1>4, <2>8, <3>2 DEF SelectPage
      <4>2. OnPage(c)
        BY <2>2, <2>8 DEF OnePage
      <4>3. step[c] > 1 => ~PrioKind(op[c]) /\ ~ModeKind(op[c])
        BY <2>5, <4>1, <4>2 DEF OnPage
      <4> QED BY <2>4, <4>3 DEF Prepared, PrioKind, ModeKind
    <3> QED BY <3>1, <3>2
  <2>9. Progress'
    <3>1. ASSUME synced', ~stray' PROVE Prepared(c)'
      BY <2>1, <2>8, <3>1, PreparedKept
    <3> QED BY <2>1, <2>2, <2>3, <3>1 DEF Progress
  <2> QED BY <2>6, <2>7, <2>9 DEF Underway
<1>5. ASSUME NEW c \in Proc, Transfer(c), UNCHANGED <<lock, op, current_page, stray>>,
             synced' => synced /\ (~stray => Prepared(c)')
      PROVE  Underway'
  <2>1. Busy(c) /\ \A d \in Proc : Busy(d)' = Busy(d)
    BY <1>5 DEF Transfer, Busy, TypeOK
  <2>2. ~stray => \A d \in Proc : Busy(d) => d = c
    BY <2>1 DEF MutexInv
  <2>3. step[c] <= Len(Script(op[c])) /\ step[c] \in 1..5
    BY <1>5, AccessType DEF Transfer, ScriptInv
  <2>4. AtStart'
    BY <1>5, <2>1 DEF AtStart, Transfer, TypeOK
  <2>5. OnePage'
    <3>1. ASSUME ~stray PROVE OnPage(c)'
      <4>1. current_page = PageOf(c)
        BY <1>5, <3>1 DEF Paged, PageInv, Transfer
      <4>2. /\ PrioKind(op[c]) => PageOf(c) = 12
            /\ ModeKind(op[c]) => PageOf(c) = 4
        BY <2>3, PrioAccess, ModeAccess
      <4> QED BY <1>5, <4>1, <4>2 DEF OnPage
    <3> QED BY <1>5, <2>1, <2>2, <3>1 DEF OnePage
  <2>6. Progress'
    BY <1>5, <2>1, <2>2 DEF Progress
  <2> QED BY <2>4, <2>5, <2>6 DEF Underway
<1>6. ASSUME NEW c \in Proc, Read(c) PROVE Underway'
  <2>1. Busy(c)
    BY <1>6 DEF Read, Transfer, Busy
  <2>2. synced' => synced /\ (~stray => Prepared(c)')
    BY <1>6, <2>1, PreparedRead DEF Read, Progress
  <2> QED BY <1>5, <1>6, <2>2 DEF Read
<1>7. ASSUME NEW c \in Proc, Write(c) PROVE Underway'
  <2>1. Busy(c)
    BY <1>7 DEF Write, Transfer, Busy
  <2>2. synced' => synced /\ (~stray => Prepared(c)')
    BY <1>7, <2>1, PreparedWrite DEF Write, Progress
  <2> QED BY <1>5, <1>7, <2>2 DEF Write
<1>8. ASSUME NEW c \in Proc, WritePageRegister(c) PROVE Underway'
  BY <1>5, <1>8 DEF WritePageRegister
<1>9. ASSUME NEW c \in Proc, Return(c), UNCHANGED <<current_page, chipVars, synced, stray>>
      PROVE  Underway'
  <2>1. ~Busy(c)' /\ step'[c] = 1
    BY <1>9 DEF Return, Busy, TypeOK
  <2>2. \A d \in Proc \ {c} :
          pc'[d] = pc[d] /\ op'[d] = op[d] /\ step'[d] = step[d] /\ val'[d] = val[d]
    BY <1>9 DEF Return, TypeOK
  <2> QED BY <1>1, <1>9, <2>1, <2>2
<1>10. ASSUME NEW c \in Proc, TransferFails(c) PROVE Underway'
  BY <1>9, <1>10 DEF TransferFails
<1>11. ASSUME NEW c \in Proc, Unlock(c) PROVE Underway'
  BY <1>9, <1>11 DEF Unlock
<1>12. ASSUME NEW c \in Proc, IoctlRejected(c) PROVE Underway'
  <2>1. ~Busy(c)' /\ step'[c] = 1
    BY <1>12 DEF IoctlRejected, Busy, AtStart
  <2>2. UNCHANGED <<pc, op, step, val, current_page, chip, table, synced>> /\ (~stray' => ~stray)
    BY <1>12 DEF IoctlRejected
  <2>3. \A d \in Proc : Busy(d)' = Busy(d)
    BY <2>2 DEF Busy
  <2>4. OnePage' /\ AtStart'
    BY <2>2, <2>3, OnPageKept DEF OnePage, AtStart
  <2>5. Progress'
    BY <2>2, <2>3, PreparedKept DEF Progress
  <2> QED BY <2>4, <2>5 DEF Underway
<1>13. CASE UNCHANGED vars
  <2>1. \A d \in Proc : Busy(d)' = Busy(d)
    BY <1>13 DEF Busy, vars
  <2>2. UNCHANGED <<op, step, val, current_page, chip, table, synced, stray>>
    BY <1>13 DEF vars
  <2> QED BY <2>1, <2>2, OnPageKept, PreparedKept DEF Underway, OnePage, AtStart, Progress
<1> QED
  BY <1>2, <1>3, <1>4, <1>6, <1>7, <1>8, <1>10, <1>11, <1>12, <1>13 DEF Next, Run

(* What every reachable state satisfies. *)
Safe == Typed /\ Paged /\ Underway

LEMMA SafeInit == Init => Safe
  BY TypedInit, PagedInit, UnderwayInit DEF Safe

LEMMA SafeStep == Safe /\ [Next]_vars => Safe'
  BY TypedStep, PagedStep, UnderwayStep DEF Safe

(* A show that succeeds tells the priority or the mode in force when it    *)
(* returns, for any number of pins, processes and raw accesses.            *)
THEOREM ShowsAreInForce == Spec => []ShowsInForce
PROOF
<1>1. Safe => ShowsInForce
  <2> SUFFICES ASSUME Safe, synced, ~stray, NEW c \in Proc, pc[c] = "running", Finished(c)
               PROVE  /\ op[c].kind = "prio_show" =>
                           NibbleOf(val[c], op[c].pin) = table[op[c].pin]
                      /\ op[c].kind = "mode_show" => val[c] = chip[MODE_REFSEL_1]
    BY DEF ShowsInForce
  <2>0. Typed /\ TypeOK /\ Prepared(c) /\ step[c] \in 1..6
    BY DEF Safe, Underway, Progress, Busy, Typed, TypeOK
  <2>1. op[c] \in AnyRequest
    BY <2>0, RequestAssumption DEF TypeOK, AnyRequest
  <2>2. ASSUME op[c].kind = "prio_show"
        PROVE  NibbleOf(val[c], op[c].pin) = table[op[c].pin]
    <3>1. Script(op[c]) = <<W(MB_MASK), W(MB_SEM), R(REF_PRIO(op[c].pin))>>
      BY <2>2, ScriptOf
    <3>2. step[c] > 3
      BY <2>0, <2>2, <3>1 DEF Finished, StopsEarly
    <3>3. val[c] = chip[REF_PRIO(op[c].pin)] /\ Stored(chip) = table
      BY <2>0, <2>2, <3>2 DEF Prepared
    <3>4. op[c].pin \in Pin
      BY <2>1, <2>2, RequestFields
    <3>5. Stored(chip)[op[c].pin] = NibbleOf(val[c], op[c].pin)
      BY <3>3, <3>4 DEF Stored, NibbleOf
    <3> QED BY <3>3, <3>5
  <2>3. ASSUME op[c].kind = "mode_show" PROVE val[c] = chip[MODE_REFSEL_1]
    <3>1. Script(op[c]) = <<R(MODE_REFSEL_1)>>
      BY <2>3, ScriptOf
    <3>2. step[c] > 1
      BY <2>0, <2>3, <3>1 DEF Finished, StopsEarly
    <3> QED BY <2>0, <2>3, <3>2 DEF Prepared
  <2> QED BY <2>2, <2>3
<1> QED BY <1>1, SafeInit, SafeStep, PTL DEF Spec

(* A change of the priorities or of the mode is the one a running store    *)
(* asked for, on its pin or in its bits alone, or a raw write of the very  *)
(* register: no step of any interleaving does anything else to them.       *)
THEOREM ChangesAreAsked == Spec => ChangesAsAsked
PROOF
<1> DEFINE TableAsAsked == table' # table => \E c \in Proc :
             /\ pc[c] = "selected"
             /\ \/ /\ op[c].kind = "prio_store"
                   /\ table' = [table EXCEPT ![op[c].pin] = op[c].arg]
                \/ op[c].kind = "ioctl_write" /\ op[c].reg = MB_SEM
           ModeAsAsked == chip'[MODE_REFSEL_1] # chip[MODE_REFSEL_1] => \E c \in Proc :
             /\ pc[c] = "selected"
             /\ \/ /\ op[c].kind = "mode_store"
                   /\ chip'[MODE_REFSEL_1] = WithMode(chip[MODE_REFSEL_1], op[c].arg)
                \/ op[c].kind = "ioctl_write" /\ op[c].reg = MODE_REFSEL_1
           AsAsked == synced /\ ~stray => TableAsAsked /\ ModeAsAsked
<1>1. Safe /\ [Next]_vars => AsAsked
  <2> SUFFICES ASSUME Safe, [Next]_vars, synced, ~stray PROVE TableAsAsked /\ ModeAsAsked
    BY DEF AsAsked
  <2>0. Typed /\ TypeOK /\ AccessHits
    BY DEF Safe, Typed, Paged, PageInv, AccessHits
  <2>1. ASSUME NEW c \in Proc, Write(c) PROVE TableAsAsked /\ ModeAsAsked
    <3> DEFINE o == op[c]
               x == Access(c).reg
               regs == [chip EXCEPT ![x] = DataOf(c)]
    <3>1. /\ pc[c] = "selected" /\ Access(c).write
          /\ step[c] \in 1..5 /\ step[c] <= Len(Script(o)) /\ o \in AnyRequest
      BY <2>0, <2>1, AccessType DEF Write, Transfer, Typed, ScriptInv
    <3>2. /\ x \in Cell /\ DataOf(c) \in Value /\ regs \in [Cell -> Value]
          /\ chip' = IF x = MB_SEM /\ DataOf(c) = MB_READ /\ MailboxSelected
                       THEN Loaded(regs) ELSE regs
          /\ table' = IF x = MB_SEM /\ DataOf(c) = MB_WRITE /\ MailboxSelected
                        THEN Stored(regs) ELSE table
      BY <2>0, <2>1, WrittenAt
    <3>3. Prepared(c)
      BY <2>0, <3>1 DEF Safe, Underway, Progress, Busy
    <3>4. chip \in [Cell -> Value]
      BY <2>0 DEF TypeOK
    <3>5. \A reg : /\ R(reg).reg = reg /\ ~R(reg).write
                   /\ W(reg).reg = reg /\ W(reg).write
      BY DEF R, W
    <3>6. CASE PrioKind(o)
      <4>1. \/ step[c] = 1 /\ x = MB_MASK
            \/ step[c] = 2 /\ x = MB_SEM
            \/ step[c] = 4 /\ x = REF_PRIO(o.pin) /\ o.kind = "prio_store"
            \/ step[c] = 5 /\ x = MB_SEM /\ o.kind = "prio_store"
        BY <2>0, <3>1, <3>5, <3>6, PrioAccess DEF PrioKind
      <4>2. o.pin \in Pin
        BY <3>1, <3>6, RequestFields DEF PrioKind
      <4>3. x # MODE_REFSEL_1
        BY <4>1, <4>2, Registers
      <4>4. chip'[MODE_REFSEL_1] = chip[MODE_REFSEL_1]
        <5>1. regs[MODE_REFSEL_1] = chip[MODE_REFSEL_1]
          BY <3>4, <4>3, Registers
        <5>2. Loaded(regs)[MODE_REFSEL_1] = regs[MODE_REFSEL_1]
          BY <2>0, <3>2, LoadedWindow
        <5> HIDE DEF regs
        <5> QED BY <3>2, <5>1, <5>2
      <4>5. CASE step[c] = 5
        <5>1. o.kind = "prio_store" /\ x = MB_SEM
          BY <4>1, <4>5
        <5>2. Stored(chip) = [table EXCEPT ![o.pin] = o.arg]
          BY <3>3, <4>5, <5>1 DEF Prepared
        <5>3. regs \in [Cell -> Value] /\ \A p \in Pin : regs[REF_PRIO(p)] = chip[REF_PRIO(p)]
          BY <3>2, <3>4, <5>1, Registers
        <5>4. Stored(regs) = Stored(chip)
          <6> HIDE DEF regs
          <6> QED BY <5>3 DEF Stored
        <5>5. table' # table => table' = Stored(regs)
          BY <3>2
        <5>6. table' # table => table' = [table EXCEPT ![o.pin] = o.arg]
          <6> HIDE DEF regs
          <6> QED BY <5>2, <5>4, <5>5
        <5> QED BY <3>1, <4>4, <5>1, <5>6
      <4>6. CASE step[c] # 5
        <5>1. table' = table
          BY <2>0, <3>1, <3>2, <3>6, <4>1, <4>2, <4>6, SentByHandlers, Registers
          DEF MB_READ, MB_WRITE
        <5> QED BY <4>4, <5>1
      <4> QED BY <4>5, <4>6
    <3>7. CASE ModeKind(o)
      <4>1. o.kind = "mode_store" /\ step[c] = 2 /\ x = MODE_REFSEL_1
        BY <2>0, <3>1, <3>5, <3>7, ModeAccess DEF ModeKind
      <4>2. table' = table /\ chip' = regs
        BY <3>2, <4>1, Registers
      <4>3. chip'[MODE_REFSEL_1] = DataOf(c)
        BY <3>4, <4>1, <4>2, Registers
      <4>4. DataOf(c) = WithMode(chip[MODE_REFSEL_1], o.arg)
        BY <2>0, <3>1, <3>3, <4>1, SentByHandlers DEF Prepared
      <4> QED BY <3>1, <4>1, <4>2, <4>3, <4>4
    <3>8. CASE ~PrioKind(o) /\ ~ModeKind(o)
      <4>1. o.kind = "ioctl_write"
        <5>1. o.kind \in {"none", "status_show", "ioctl_read", "ioctl_write", "ioctl_page"}
          BY <3>1, <3>8, RequestFields DEF PrioKind, ModeKind
        <5>2. o.kind # "none"
          <6>1. SUFFICES ASSUME o.kind = "none" PROVE FALSE
            OBVIOUS
          <6>2. Script(o) = <<>>
            BY <6>1, ScriptOf
          <6> QED BY <3>1, <6>2
        <5>3. o.kind # "status_show"
          <6>1. SUFFICES ASSUME o.kind = "status_show" PROVE FALSE
            OBVIOUS
          <6>2. Script(o) = <<R(MODE_REFSEL_1), R(MON_STATUS_1)>>
            BY <6>1, ScriptOf
          <6> QED BY <3>1, <3>5, <6>2 DEF Access
        <5>4. o.kind # "ioctl_read"
          <6>1. SUFFICES ASSUME o.kind = "ioctl_read" PROVE FALSE
            OBVIOUS
          <6>2. Script(o) = <<R(o.reg)>>
            BY <6>1, ScriptOf
          <6> QED BY <3>1, <3>5, <6>2 DEF Access
        <5>5. o.kind # "ioctl_page"
          BY <2>1 DEF Write
        <5> QED BY <5>1, <5>2, <5>3, <5>4, <5>5
      <4>2. x = o.reg
        <5>1. Script(o) = <<W(o.reg)>>
          BY <4>1, ScriptOf
        <5>2. step[c] = 1
          BY <3>1, <5>1
        <5> QED BY <3>5, <5>1, <5>2 DEF Access
      <4>3. table' # table => x = MB_SEM
        BY <3>2
      <4>4. chip'[MODE_REFSEL_1] # chip[MODE_REFSEL_1] => x = MODE_REFSEL_1
        <5>1. x # MODE_REFSEL_1 => regs[MODE_REFSEL_1] = chip[MODE_REFSEL_1]
          BY <3>4, Registers
        <5>2. Loaded(regs)[MODE_REFSEL_1] = regs[MODE_REFSEL_1]
          BY <2>0, <3>2, LoadedWindow
        <5> HIDE DEF regs
        <5> QED BY <3>2, <5>1, <5>2
      <4> QED BY <3>1, <4>1, <4>2, <4>3, <4>4
    <3> QED BY <3>6, <3>7, <3>8
  <2>2. ASSUME UNCHANGED <<chip, table>> PROVE TableAsAsked /\ ModeAsAsked
    BY <2>2
  <2>3. (\E c \in Proc : Write(c)) \/ UNCHANGED <<chip, table>>
    BY DEF Next, Run, Call, Lock, SelectPage, Read, WritePageRegister, TransferFails,
           Unlock, IoctlRejected, vars, chipVars
  <2> QED BY <2>1, <2>2, <2>3
<1>2. Safe /\ [Next]_vars => [AsAsked]_vars
  BY <1>1
<1> QED BY <1>2, SafeInit, SafeStep, PTL DEF Spec, ChangesAsAsked

-----------------------------------------------------------------------------
(* Piu: types, the mutex and the steps of a handler.                       *)

(* What a process knows at each step of its handler. *)
Shaped(p) ==
  /\ piu_pc[p] \in {"type", "type_bus", "type_m487"} =>
       piu_op[p] \in P!Shows \cup {"init", "open"}
  /\ piu_pc[p] \in {"exists", "exists_bus"} =>
       /\ piu_op[p] \in {"cfp2_exists", "cfp2_read"}
       /\ piu_op[p] = "cfp2_read" \/ piu_pc[p] = "exists_bus" => ltype[p] \in {"aco", "dco"}
  /\ piu_pc[p] \in {"access", "access_bus"} =>
       /\ piu_op[p] \in {"mcu_version", "piu_temp", "cfp2_read", "eeprom", "access", "access_cfp2"}
       /\ P!Cfp2Access(p) => ltype[p] \in {"aco", "dco"}
       /\ left[p] >= 1
       /\ piu_op[p] \in {"access", "access_cfp2"} => left[p] = 1
  /\ piu_pc[p] \notin {"access", "access_bus", "done"} => out[p] = "none"

(* A process owns the mutex while it has the bus, and only then. *)
Holds(p) == piu_pc[p] \in P!Holding <=> piu_lock = p

PiuTyped == P!TypeOK /\ \A p \in Proc : Shaped(p) /\ Holds(p)

PiuSteps == {"idle", "type", "type_bus", "type_m487", "exists", "exists_bus",
             "access", "access_bus", "done"}

LEMMA StepSet == P!Step = PiuSteps /\ P!Holding \subseteq PiuSteps
  BY DEF P!Step, P!Holding, PiuSteps

(* A step of one process leaves the others where they are. *)
OthersStay(p) ==
  \A q \in Proc \ {p} :
    /\ piu_pc'[q] = piu_pc[q] /\ piu_op'[q] = piu_op[q] /\ ltype'[q] = ltype[q]
    /\ left'[q] = left[q] /\ out'[q] = out[q]

LEMMA OthersTyped ==
  ASSUME PiuTyped, NEW p \in Proc, NEW q \in Proc, q # p, OthersStay(p),
         piu_lock' = piu_lock \/ (piu_lock \in {p, NoProc} /\ piu_lock' \in {p, NoProc})
  PROVE  Shaped(q)' /\ Holds(q)'
PROOF
<1>1. Shaped(q)'
  BY DEF OthersStay, PiuTyped, Shaped, P!Cfp2Access
<1>2. Holds(q)'
  BY ProcAssumption DEF OthersStay, PiuTyped, Holds
<1> QED BY <1>1, <1>2

(* Where get_piu_type leads. *)
LEMMA AfterTypeDoes ==
  ASSUME PiuTyped, NEW p \in Proc, piu_pc[p] \in {"type", "type_bus", "type_m487"},
         NEW t, P!AfterType(p, t)
  PROVE  /\ piu_pc' \in [Proc -> P!Step] /\ left' \in [Proc -> Nat] /\ out' \in [Proc -> P!Out]
         /\ \A q \in Proc \ {p} : piu_pc'[q] = piu_pc[q] /\ left'[q] = left[q] /\ out'[q] = out[q]
         /\ \/ /\ piu_pc'[p] = "done"
               /\ \/ piu_op[p] \in {"piu_type", "open", "init"} /\ out'[p] = "type"
                  \/ piu_op[p] = "cfp2_read" /\ t \notin {"aco", "dco"} /\ out'[p] = "blank"
                  \/ piu_op[p] = "mcu_version" /\ t \notin {"aco", "dco", "qsfp28"} /\ out'[p] = "blank"
                  \/ piu_op[p] = "piu_temp" /\ t # "aco" /\ out'[p] = "blank"
                  \/ piu_op[p] = "eeprom" /\ t # "qsfp28" /\ out'[p] = "error"
            \/ /\ piu_pc'[p] = "exists" /\ out'[p] = "none"
               /\ \/ piu_op[p] = "cfp2_exists"
                  \/ piu_op[p] = "cfp2_read" /\ t \in {"aco", "dco"}
            \/ /\ piu_pc'[p] = "access" /\ out'[p] = "none" /\ left'[p] >= 1
               /\ \/ piu_op[p] = "mcu_version" /\ t \in {"aco", "dco", "qsfp28"}
                  \/ piu_op[p] = "piu_temp" /\ t = "aco"
                  \/ piu_op[p] = "eeprom" /\ t = "qsfp28"
PROOF
<1>0. /\ piu_pc \in [Proc -> P!Step] /\ left \in [Proc -> Nat] /\ out \in [Proc -> P!Out]
      /\ out[p] = "none" /\ Reads \in Nat \ {0}
      /\ piu_op[p] \in {"piu_type", "cfp2_exists", "mcu_version", "piu_temp", "cfp2_read",
                        "eeprom", "init", "open"}
  BY PiuAssumption DEF PiuTyped, P!TypeOK, Shaped, P!ConstantsOK, P!Shows
<1>1. {"idle", "type", "exists", "access", "done"} \subseteq P!Step
      /\ {"none", "type", "blank", "error"} \subseteq P!Out
  BY DEF P!Step, P!Out
<1> HIDE DEF PiuTyped
<1>2. CASE piu_op[p] \in {"piu_type", "open", "init"}
  <2>1. P!Return(p, "type") /\ UNCHANGED left
    BY <1>2 DEF P!AfterType
  <2> QED BY <1>0, <1>1, <1>2, <2>1 DEF P!Return, P!Goto
<1>3. CASE piu_op[p] = "cfp2_exists" \/ (piu_op[p] = "cfp2_read" /\ t \in {"aco", "dco"})
  <2>1. P!Goto(p, "exists") /\ UNCHANGED <<left, out>>
    BY <1>3 DEF P!AfterType
  <2> QED BY <1>0, <1>1, <1>3, <2>1 DEF P!Goto
<1>4. CASE piu_op[p] = "mcu_version" /\ t \in {"aco", "dco", "qsfp28"}
  <2>1. P!Goto(p, "access") /\ UNCHANGED out
        /\ left' = [left EXCEPT ![p] = IF t = "aco" THEN 1 ELSE 2]
    BY <1>4 DEF P!AfterType
  <2> QED BY <1>0, <1>1, <1>4, <2>1 DEF P!Goto
<1>5. CASE piu_op[p] = "piu_temp" /\ t = "aco"
  <2>1. P!Goto(p, "access") /\ UNCHANGED out /\ left' = [left EXCEPT ![p] = 2]
    BY <1>5 DEF P!AfterType
  <2> QED BY <1>0, <1>1, <1>5, <2>1 DEF P!Goto
<1>6. CASE piu_op[p] = "eeprom" /\ t = "qsfp28"
  <2>1. P!Goto(p, "access") /\ UNCHANGED out /\ left' = [left EXCEPT ![p] = Reads]
    BY <1>6 DEF P!AfterType
  <2> QED BY <1>0, <1>1, <1>6, <2>1 DEF P!Goto
<1>7. CASE \/ piu_op[p] = "cfp2_read" /\ t \notin {"aco", "dco"}
           \/ piu_op[p] = "mcu_version" /\ t \notin {"aco", "dco", "qsfp28"}
           \/ piu_op[p] = "piu_temp" /\ t # "aco"
           \/ piu_op[p] = "eeprom" /\ t # "qsfp28"
  <2>1. P!Return(p, IF piu_op[p] = "eeprom" THEN "error" ELSE "blank") /\ UNCHANGED left
    BY <1>7 DEF P!AfterType
  <2> QED BY <1>0, <1>1, <1>7, <2>1 DEF P!Return, P!Goto
<1> QED BY <1>0, <1>2, <1>3, <1>4, <1>5, <1>6, <1>7

(* What cfp2_exists may read. *)
LEMMA PresenceRead ==
  ASSUME PiuTyped, NEW p \in Proc, NEW there \in P!Presence(p)
  PROVE  there \in BOOLEAN /\ (slot = ltype[p] => there = cfp2)
<1>1. cfp2 \in BOOLEAN
  BY DEF PiuTyped, P!TypeOK
<1>2. CASE slot = ltype[p]
  BY <1>1, <1>2 DEF P!Presence
<1>3. CASE slot # ltype[p]
  BY <1>3 DEF P!Presence
<1> QED BY <1>2, <1>3

(* Where cfp2_exists leads. *)
LEMMA AfterExistsDoes ==
  ASSUME PiuTyped, NEW p \in Proc, piu_pc[p] \in {"exists", "exists_bus"},
         NEW there \in BOOLEAN, P!AfterExists(p, there)
  PROVE  /\ piu_pc' \in [Proc -> P!Step] /\ left' \in [Proc -> Nat] /\ out' \in [Proc -> P!Out]
         /\ \A q \in Proc \ {p} : piu_pc'[q] = piu_pc[q] /\ left'[q] = left[q] /\ out'[q] = out[q]
         /\ \/ /\ piu_pc'[p] = "done" /\ piu_op[p] = "cfp2_exists"
               /\ out'[p] = IF there THEN "present" ELSE "absent"
            \/ /\ piu_pc'[p] = "done" /\ piu_op[p] = "cfp2_read" /\ ~there /\ out'[p] = "blank"
            \/ /\ piu_pc'[p] = "access" /\ piu_op[p] = "cfp2_read" /\ there
               /\ out'[p] = "none" /\ left'[p] >= 1
PROOF
<1>0. /\ piu_pc \in [Proc -> P!Step] /\ left \in [Proc -> Nat] /\ out \in [Proc -> P!Out]
      /\ out[p] = "none" /\ Reads \in Nat \ {0} /\ piu_op[p] \in {"cfp2_exists", "cfp2_read"}
  BY PiuAssumption DEF PiuTyped, P!TypeOK, Shaped, P!ConstantsOK
<1>1. {"access", "done"} \subseteq P!Step /\ {"present", "absent", "blank"} \subseteq P!Out
  BY DEF P!Step, P!Out
<1> HIDE DEF PiuTyped
<1> QED BY <1>0, <1>1 DEF P!AfterExists, P!Return, P!Goto

(* Where an access leads. *)
LEMMA AfterAccessDoes ==
  ASSUME PiuTyped, NEW p \in Proc, piu_pc[p] \in {"access", "access_bus"},
         NEW answer \in {"genuine", "bogus", "error"}, P!AfterAccess(p, answer)
  PROVE  /\ piu_pc' \in [Proc -> P!Step] /\ left' \in [Proc -> Nat] /\ out' \in [Proc -> P!Out]
         /\ \A q \in Proc \ {p} : piu_pc'[q] = piu_pc[q] /\ left'[q] = left[q] /\ out'[q] = out[q]
         /\ \/ /\ piu_pc'[p] = "done" /\ out'[p] = "error" /\ answer = "error"
               /\ piu_op[p] \in {"eeprom"} \cup P!Ioctls
            \/ piu_pc'[p] = "done" /\ out'[p] = "blank" /\ piu_op[p] = "piu_temp"
            \/ /\ piu_pc'[p] = "done" \/ (piu_pc'[p] = "access" /\ left[p] > 1 /\ left'[p] >= 1)
               /\ out'[p] = IF answer = "genuine" /\ out[p] # "bogus" THEN "genuine" ELSE "bogus"
               /\ ~(answer = "error" /\ piu_op[p] \in {"eeprom"} \cup P!Ioctls)
PROOF
<1>0. /\ piu_pc \in [Proc -> P!Step] /\ left \in [Proc -> Nat] /\ out \in [Proc -> P!Out]
      /\ left[p] >= 1
  BY DEF PiuTyped, P!TypeOK, Shaped
<1>1. {"access", "done"} \subseteq P!Step /\ {"genuine", "bogus", "blank", "error"} \subseteq P!Out
  BY DEF P!Step, P!Out
<1> HIDE DEF PiuTyped
<1>2. CASE P!Return(p, "error") /\ UNCHANGED left /\ answer = "error"
           /\ piu_op[p] \in {"eeprom"} \cup P!Ioctls
  BY <1>0, <1>1, <1>2 DEF P!Return, P!Goto
<1>3. CASE P!Return(p, "blank") /\ UNCHANGED left /\ piu_op[p] = "piu_temp"
  BY <1>0, <1>1, <1>3 DEF P!Return, P!Goto
<1>4. CASE /\ ~(answer = "error" /\ piu_op[p] \in {"eeprom"} \cup P!Ioctls)
           /\ left' = [left EXCEPT ![p] = left[p] - 1]
           /\ out' = [out EXCEPT ![p] = IF answer = "genuine" /\ out[p] # "bogus"
                                        THEN "genuine" ELSE "bogus"]
           /\ P!Goto(p, IF left[p] > 1 THEN "access" ELSE "done")
  <2>1. left' \in [Proc -> Nat] /\ left'[p] = left[p] - 1
    BY <1>0, <1>4
  <2>2. out' \in [Proc -> P!Out]
        /\ out'[p] = IF answer = "genuine" /\ out[p] # "bogus" THEN "genuine" ELSE "bogus"
    BY <1>0, <1>1, <1>4
  <2>3. piu_pc' \in [Proc -> P!Step] /\ piu_pc'[p] = IF left[p] > 1 THEN "access" ELSE "done"
    BY <1>0, <1>1, <1>4 DEF P!Goto
  <2> QED BY <1>0, <1>4, <2>1, <2>2, <2>3 DEF P!Goto
<1> QED BY <1>2, <1>3, <1>4 DEF P!AfterAccess

(* The lock is let go, or taken, by the process that steps. *)
LEMMA StepTyped ==
  ASSUME PiuTyped, NEW p \in Proc, OthersStay(p),
         piu_lock' = piu_lock \/ (piu_lock \in {p, NoProc} /\ piu_lock' \in {p, NoProc}),
         piu_lock' \in Proc \cup {NoProc}, type' \in P!Type,
         UNCHANGED <<simulate_plug_out, simulate_cfp2_plug_out, slot, cfp2>>,
         piu_op' \in [Proc -> P!Handlers \cup {"none"}], piu_pc' \in [Proc -> P!Step],
         ltype' \in [Proc -> P!Type], left' \in [Proc -> Nat], out' \in [Proc -> P!Out],
         opened' \in [Proc -> BOOLEAN], disturbed' \in [Proc -> BOOLEAN],
         Shaped(p)', Holds(p)'
  PROVE  PiuTyped'
PROOF
<1>1. P!TypeOK'
  BY DEF PiuTyped, P!TypeOK
<1>2. \A q \in Proc : Shaped(q)' /\ Holds(q)'
  BY OthersTyped
<1> QED BY <1>1, <1>2 DEF PiuTyped

LEMMA PiuTypedInit == P!Init => PiuTyped
PROOF
<1> SUFFICES ASSUME P!Init PROVE PiuTyped
  OBVIOUS
<1>1. P!TypeOK
  <2>1. cfp2 \in BOOLEAN /\ slot \in Module \cup {"empty"}
    BY DEF P!Init
  <2>2. /\ piu_op = [p \in Proc |-> "none"] /\ piu_pc = [p \in Proc |-> "idle"]
        /\ ltype = [p \in Proc |-> "unknown"] /\ left = [p \in Proc |-> 0]
        /\ out = [p \in Proc |-> "none"] /\ opened = [p \in Proc |-> FALSE]
        /\ disturbed = [p \in Proc |-> TRUE]
        /\ piu_lock = NoProc /\ type = "unknown"
        /\ simulate_plug_out = FALSE /\ simulate_cfp2_plug_out = FALSE
    BY DEF P!Init
  <2>3. "idle" \in P!Step /\ "unknown" \in P!Type /\ "none" \in P!Out
    BY DEF P!Type, P!Step, P!Out
  <2> QED BY <2>1, <2>2, <2>3 DEF P!TypeOK
<1>2. \A p \in Proc : Shaped(p) /\ Holds(p)
  BY ProcAssumption DEF P!Init, Shaped, Holds, P!Holding
<1> QED BY <1>1, <1>2 DEF PiuTyped

(* A type was found: the mutex is free and the handler goes on. *)
LEMMA TypeFoundTyped ==
  ASSUME PiuTyped, NEW p \in Proc, piu_pc[p] \in {"type", "type_bus", "type_m487"},
         piu_lock \in {p, NoProc}, NEW t \in P!Type, P!TypeFound(p, t),
         UNCHANGED <<simulate_plug_out, simulate_cfp2_plug_out, slot, cfp2, piu_op, opened>>,
         disturbed' \in [Proc -> BOOLEAN]
  PROVE  PiuTyped'
PROOF
<1>1. type' = t /\ ltype' = [ltype EXCEPT ![p] = t] /\ piu_lock' = NoProc /\ P!AfterType(p, t)
  BY DEF P!TypeFound
<1>2. /\ piu_op \in [Proc -> P!Handlers \cup {"none"}] /\ ltype \in [Proc -> P!Type]
      /\ opened \in [Proc -> BOOLEAN]
  BY DEF PiuTyped, P!TypeOK
<1>3. /\ piu_pc' \in [Proc -> P!Step] /\ left' \in [Proc -> Nat] /\ out' \in [Proc -> P!Out]
      /\ \A q \in Proc \ {p} : piu_pc'[q] = piu_pc[q] /\ left'[q] = left[q] /\ out'[q] = out[q]
      /\ \/ piu_pc'[p] = "done"
         \/ /\ piu_pc'[p] = "exists" /\ out'[p] = "none"
            /\ \/ piu_op[p] = "cfp2_exists"
               \/ piu_op[p] = "cfp2_read" /\ t \in {"aco", "dco"}
         \/ /\ piu_pc'[p] = "access" /\ out'[p] = "none" /\ left'[p] >= 1
            /\ piu_op[p] \in {"mcu_version", "piu_temp", "eeprom"}
  BY <1>1, AfterTypeDoes
<1>4. ltype' \in [Proc -> P!Type] /\ ltype'[p] = t /\ OthersStay(p)
  BY <1>1, <1>2, <1>3 DEF OthersStay
<1>5. Shaped(p)'
  BY <1>3, <1>4 DEF Shaped, P!Cfp2Access
<1>6. Holds(p)'
  BY <1>1, <1>3, ProcAssumption DEF Holds, P!Holding
<1> QED BY <1>1, <1>2, <1>3, <1>4, <1>5, <1>6, StepTyped

(* A handler goes on, or ends, after cfp2_exists or an access. *)
LEMMA ExistsTyped ==
  ASSUME PiuTyped, NEW p \in Proc, piu_pc[p] \in {"exists", "exists_bus"},
         piu_lock \in {p, NoProc}, piu_lock' = NoProc,
         NEW there \in BOOLEAN, P!AfterExists(p, there),
         piu_op[p] = "cfp2_read" => ltype[p] \in {"aco", "dco"},
         UNCHANGED <<simulate_plug_out, simulate_cfp2_plug_out, slot, cfp2, piu_op, opened,
                     type, ltype>>,
         disturbed' \in [Proc -> BOOLEAN]
  PROVE  PiuTyped'
PROOF
<1>1. /\ piu_op \in [Proc -> P!Handlers \cup {"none"}] /\ ltype \in [Proc -> P!Type]
      /\ opened \in [Proc -> BOOLEAN] /\ type \in P!Type
  BY DEF PiuTyped, P!TypeOK
<1>2. /\ piu_pc' \in [Proc -> P!Step] /\ left' \in [Proc -> Nat] /\ out' \in [Proc -> P!Out]
      /\ \A q \in Proc \ {p} : piu_pc'[q] = piu_pc[q] /\ left'[q] = left[q] /\ out'[q] = out[q]
      /\ \/ piu_pc'[p] = "done"
         \/ piu_pc'[p] = "access" /\ piu_op[p] = "cfp2_read" /\ left'[p] >= 1
  BY AfterExistsDoes
<1>3. OthersStay(p)
  BY <1>2 DEF OthersStay
<1>4. Shaped(p)'
  BY <1>2 DEF Shaped, P!Cfp2Access
<1>5. Holds(p)'
  BY <1>2, ProcAssumption DEF Holds, P!Holding
<1> QED BY <1>1, <1>2, <1>3, <1>4, <1>5, StepTyped

LEMMA AccessTyped ==
  ASSUME PiuTyped, NEW p \in Proc, piu_pc[p] \in {"access", "access_bus"},
         piu_lock \in {p, NoProc}, piu_lock' = NoProc,
         NEW answer \in {"genuine", "bogus", "error"}, P!AfterAccess(p, answer),
         UNCHANGED <<simulate_plug_out, simulate_cfp2_plug_out, slot, cfp2, piu_op, opened,
                     type, ltype>>,
         disturbed' \in [Proc -> BOOLEAN]
  PROVE  PiuTyped'
PROOF
<1>1. /\ piu_op \in [Proc -> P!Handlers \cup {"none"}] /\ ltype \in [Proc -> P!Type]
      /\ opened \in [Proc -> BOOLEAN] /\ type \in P!Type
  BY DEF PiuTyped, P!TypeOK
<1>2. /\ piu_pc' \in [Proc -> P!Step] /\ left' \in [Proc -> Nat] /\ out' \in [Proc -> P!Out]
      /\ \A q \in Proc \ {p} : piu_pc'[q] = piu_pc[q] /\ left'[q] = left[q] /\ out'[q] = out[q]
      /\ \/ piu_pc'[p] = "done"
         \/ piu_pc'[p] = "access" /\ left[p] > 1 /\ left'[p] >= 1
  BY AfterAccessDoes
<1>3. OthersStay(p)
  BY <1>2 DEF OthersStay
<1>4. Shaped(p)'
  <2>1. Shaped(p)
    BY DEF PiuTyped
  <2>2. piu_pc'[p] = "access" => piu_op[p] \notin {"access", "access_cfp2"}
    BY <1>2, <2>1 DEF Shaped
  <2> QED BY <1>2, <2>1, <2>2 DEF Shaped, P!Cfp2Access
<1>5. Holds(p)'
  BY <1>2, ProcAssumption DEF Holds, P!Holding
<1> QED BY <1>1, <1>2, <1>3, <1>4, <1>5, StepTyped

LEMMA PiuTypedStep == PiuTyped /\ [P!Next]_P!vars => PiuTyped'
PROOF
<1> SUFFICES ASSUME PiuTyped, [P!Next]_P!vars PROVE PiuTyped'
  OBVIOUS
<1>0. /\ piu_lock \in Proc \cup {NoProc} /\ type \in P!Type
      /\ simulate_plug_out \in BOOLEAN /\ simulate_cfp2_plug_out \in BOOLEAN
      /\ slot \in P!Kind \cup {"empty"} /\ cfp2 \in BOOLEAN
      /\ piu_op \in [Proc -> P!Handlers \cup {"none"}] /\ piu_pc \in [Proc -> P!Step]
      /\ ltype \in [Proc -> P!Type] /\ left \in [Proc -> Nat] /\ out \in [Proc -> P!Out]
      /\ opened \in [Proc -> BOOLEAN] /\ disturbed \in [Proc -> BOOLEAN]
      /\ Handler \subseteq P!Handlers
      /\ \A p \in Proc : Shaped(p) /\ Holds(p)
  BY PiuAssumption DEF PiuTyped, P!TypeOK, P!ConstantsOK
<1>t. /\ PiuSteps = P!Step /\ "none" \in P!Out
      /\ {"unknown", "unplugged", "aco", "dco", "qsfp28"} \subseteq P!Type
  BY StepSet DEF P!Out, P!Type
<1> USE <1>0, <1>t
<1>1. ASSUME NEW p \in Proc, NEW o \in Handler, P!Enter(p, o) PROVE PiuTyped'
  <2>1. /\ piu_pc[p] = "idle" /\ piu_op' = [piu_op EXCEPT ![p] = o]
        /\ piu_pc' = [piu_pc EXCEPT ![p] = IF o \in P!Ioctls \ {"init"} THEN "access" ELSE "type"]
        /\ left' = [left EXCEPT ![p] = 1]
        /\ disturbed' = IF o \in P!Ioctls \ {"init"} THEN disturbed
                        ELSE [disturbed EXCEPT ![p] = FALSE]
        /\ o = "access_cfp2" => ltype[p] \in {"aco", "dco"}
        /\ UNCHANGED <<piu_lock, type, simulate_plug_out, simulate_cfp2_plug_out, slot, cfp2,
                       ltype, out, opened>>
    BY <1>1 DEF P!Enter, P!Goto, P!env
  <2>2. o \in P!Handlers /\ {"access", "type"} \subseteq P!Step
    BY DEF PiuSteps
  <2>3. /\ piu_op' \in [Proc -> P!Handlers \cup {"none"}] /\ piu_pc' \in [Proc -> P!Step]
        /\ left' \in [Proc -> Nat] /\ disturbed' \in [Proc -> BOOLEAN]
    BY <2>1, <2>2
  <2>4. OthersStay(p)
    BY <2>1 DEF OthersStay
  <2>5. Shaped(p)'
    <3>1. /\ piu_op'[p] = o /\ left'[p] = 1 /\ out'[p] = out[p] /\ ltype'[p] = ltype[p]
          /\ piu_pc'[p] = IF o \in P!Ioctls \ {"init"} THEN "access" ELSE "type"
      BY <2>1
    <3>2. out[p] = "none"
      BY <2>1 DEF Shaped
    <3> QED
      BY <2>1, <2>2, <3>1, <3>2 DEF Shaped, P!Cfp2Access, P!Ioctls, P!Handlers, P!Shows
  <2>6. Holds(p)'
    BY <2>1 DEF Holds, P!Holding
  <2> QED BY <2>1, <2>3, <2>4, <2>5, <2>6, StepTyped
<1>2. ASSUME NEW p \in Proc, P!Leave(p) PROVE PiuTyped'
  <2>1. /\ piu_pc[p] = "done" /\ piu_op' = [piu_op EXCEPT ![p] = "none"]
        /\ piu_pc' = [piu_pc EXCEPT ![p] = "idle"]
        /\ left' = [left EXCEPT ![p] = 0] /\ out' = [out EXCEPT ![p] = "none"]
        /\ opened' = [opened EXCEPT ![p] = opened[p] \/ piu_op[p] = "open"]
        /\ \/ UNCHANGED <<ltype, disturbed>>
           \/ /\ ltype' = [ltype EXCEPT ![p] = "unknown"]
              /\ disturbed' = [disturbed EXCEPT ![p] = TRUE]
        /\ UNCHANGED <<piu_lock, type, simulate_plug_out, simulate_cfp2_plug_out, slot, cfp2>>
    BY <1>2 DEF P!Leave, P!Goto, P!Forget, P!env
  <2>2. "idle" \in P!Step
    BY DEF PiuSteps
  <2>3. /\ piu_op' \in [Proc -> P!Handlers \cup {"none"}] /\ piu_pc' \in [Proc -> P!Step]
        /\ left' \in [Proc -> Nat] /\ out' \in [Proc -> P!Out]
        /\ disturbed' \in [Proc -> BOOLEAN] /\ ltype' \in [Proc -> P!Type]
    BY <2>1, <2>2
  <2>o. opened' \in [Proc -> BOOLEAN]
    BY <2>1
  <2>4. OthersStay(p)
    BY <2>1 DEF OthersStay
  <2>5. Shaped(p)' /\ Holds(p)'
    BY <2>1 DEF Shaped, Holds, P!Holding
  <2> QED BY <2>1, <2>3, <2>o, <2>4, <2>5, StepTyped
<1>3. ASSUME NEW p \in Proc, P!Close(p) PROVE PiuTyped'
  <2>1. /\ piu_pc[p] = "idle" /\ opened' = [opened EXCEPT ![p] = FALSE]
        /\ ltype' = [ltype EXCEPT ![p] = "unknown"]
        /\ disturbed' = [disturbed EXCEPT ![p] = TRUE]
        /\ UNCHANGED <<piu_lock, type, simulate_plug_out, simulate_cfp2_plug_out, slot, cfp2,
                       piu_op, piu_pc, left, out>>
    BY <1>3 DEF P!Close, P!Forget, P!env
  <2>2. OthersStay(p)
    BY <2>1 DEF OthersStay
  <2>3. Shaped(p)' /\ Holds(p)'
    BY <2>1 DEF Shaped, Holds
  <2> QED BY <2>1, <2>2, <2>3, StepTyped
<1>4. ASSUME NEW p \in Proc, P!LockForType(p) PROVE PiuTyped'
  <2>1. CASE simulate_plug_out
    <3>1. /\ P!TypeFound(p, "unplugged") /\ piu_lock = NoProc /\ piu_pc[p] = "type"
          /\ UNCHANGED <<simulate_plug_out, simulate_cfp2_plug_out, slot, cfp2, piu_op, opened>>
          /\ disturbed' \in [Proc -> BOOLEAN]
      BY <1>4, <2>1 DEF P!LockForType, P!env
    <3> QED BY <3>1, TypeFoundTyped
  <2>2. CASE ~simulate_plug_out
    <3>1. /\ piu_lock = NoProc /\ piu_pc[p] = "type" /\ piu_lock' = p
          /\ piu_pc' = [piu_pc EXCEPT ![p] = "type_bus"]
          /\ UNCHANGED <<type, simulate_plug_out, simulate_cfp2_plug_out, slot, cfp2,
                         piu_op, ltype, left, out, opened, disturbed>>
      BY <1>4, <2>2 DEF P!LockForType, P!Goto, P!env
    <3>2. OthersStay(p) /\ "type_bus" \in P!Step
      BY <3>1 DEF OthersStay, PiuSteps
    <3>3. Shaped(p)' /\ Holds(p)'
      BY <3>1 DEF Shaped, Holds, P!Holding
    <3> QED BY <3>1, <3>2, <3>3, StepTyped
  <2> QED BY <2>1, <2>2
<1>5. ASSUME NEW p \in Proc, piu_pc[p] = "type_bus", P!Goto(p, "type_m487"),
             UNCHANGED <<piu_lock, type, simulate_plug_out, simulate_cfp2_plug_out, slot, cfp2,
                         piu_op, ltype, left, out, opened>>,
             disturbed' \in [Proc -> BOOLEAN]
      PROVE  PiuTyped'
  <2>1. piu_pc' = [piu_pc EXCEPT ![p] = "type_m487"]
    BY <1>5 DEF P!Goto
  <2>2. OthersStay(p) /\ "type_m487" \in P!Step
    BY <1>5, <2>1 DEF OthersStay, PiuSteps
  <2>3. Shaped(p)' /\ Holds(p)'
    BY <1>5, <2>1 DEF Shaped, Holds, P!Holding
  <2> QED BY <1>5, <2>1, <2>2, <2>3, StepTyped
<1>6. ASSUME NEW p \in Proc, piu_pc[p] \in P!Holding PROVE piu_lock = p
  BY <1>6 DEF Holds
<1>7. ASSUME NEW p \in Proc, P!ReadIdentity(p) PROVE PiuTyped'
  <2>1. /\ piu_pc[p] = "type_bus"
        /\ UNCHANGED <<simulate_plug_out, simulate_cfp2_plug_out, slot, cfp2, piu_op, opened,
                       disturbed>>
    BY <1>7 DEF P!ReadIdentity, P!env
  <2>2. CASE slot # "empty" /\ P!TypeFound(p, IF slot = "odd" THEN "unknown" ELSE slot)
    <3>1. (IF slot = "odd" THEN "unknown" ELSE slot) \in P!Type
      BY <2>2 DEF P!Kind, P!Type
    <3> QED BY <1>6, <2>1, <2>2, <3>1, TypeFoundTyped DEF P!Holding
  <2>3. CASE P!Goto(p, "type_m487") /\ UNCHANGED <<piu_lock, type, ltype, left, out>>
    BY <1>5, <2>1, <2>3
  <2> QED BY <1>7, <2>2, <2>3 DEF P!ReadIdentity
<1>8. ASSUME NEW p \in Proc, P!ReadIdentityM487(p) PROVE PiuTyped'
  <2> DEFINE t == CASE slot \in {"dco", "qsfp28"} -> slot
                    [] slot = "odd" -> "unknown"
                    [] OTHER -> "unplugged"
  <2>1. /\ piu_pc[p] = "type_m487" /\ P!TypeFound(p, t)
        /\ UNCHANGED <<simulate_plug_out, simulate_cfp2_plug_out, slot, cfp2, piu_op, opened,
                       disturbed>>
    BY <1>8 DEF P!ReadIdentityM487, P!env
  <2>2. t \in P!Type
    BY DEF P!Type
  <2> HIDE DEF t
  <2> QED BY <1>6, <2>1, <2>2, TypeFoundTyped DEF P!Holding
<1>9. ASSUME NEW p \in Proc, P!LockForExists(p) PROVE PiuTyped'
  <2>1. /\ piu_pc[p] = "exists" /\ piu_lock = NoProc
        /\ UNCHANGED <<type, simulate_plug_out, simulate_cfp2_plug_out, slot, cfp2,
                       piu_op, ltype, opened, disturbed>>
        /\ piu_op[p] = "cfp2_read" => ltype[p] \in {"aco", "dco"}
    BY <1>9 DEF P!LockForExists, P!env, Shaped
  <2>2. CASE \E there \in BOOLEAN : P!AfterExists(p, there) /\ UNCHANGED piu_lock
    BY <2>1, <2>2, ExistsTyped
  <2>3. CASE ltype[p] \in {"aco", "dco"} /\ piu_lock' = p /\ P!Goto(p, "exists_bus")
             /\ UNCHANGED <<left, out>>
    <3>1. piu_pc' = [piu_pc EXCEPT ![p] = "exists_bus"] /\ OthersStay(p) /\ "exists_bus" \in P!Step
      BY <2>1, <2>3 DEF OthersStay, PiuSteps, P!Goto
    <3>2. Shaped(p)' /\ Holds(p)'
      BY <2>1, <2>3, <3>1 DEF Shaped, Holds, P!Holding
    <3> QED BY <2>1, <2>3, <3>1, <3>2, StepTyped
  <2> QED BY <1>9, <2>2, <2>3 DEF P!LockForExists
<1>10. ASSUME NEW p \in Proc, P!ReadExists(p) PROVE PiuTyped'
  <2>1. /\ piu_pc[p] = "exists_bus" /\ piu_lock' = NoProc
        /\ \E there \in BOOLEAN : P!AfterExists(p, there)
        /\ UNCHANGED <<type, simulate_plug_out, simulate_cfp2_plug_out, slot, cfp2,
                       piu_op, ltype, opened, disturbed>>
        /\ piu_op[p] = "cfp2_read" => ltype[p] \in {"aco", "dco"}
    BY <1>10, PresenceRead DEF P!ReadExists, P!env, Shaped
  <2> QED BY <1>6, <2>1, ExistsTyped DEF P!Holding
<1>11. ASSUME NEW p \in Proc, P!LockForAccess(p) PROVE PiuTyped'
  <2>1. /\ piu_pc[p] = "access" /\ piu_lock = NoProc
        /\ UNCHANGED <<type, simulate_plug_out, simulate_cfp2_plug_out, slot, cfp2,
                       piu_op, ltype, opened, disturbed>>
    BY <1>11 DEF P!LockForAccess, P!env
  <2>2. CASE P!AfterAccess(p, "error") /\ UNCHANGED piu_lock
    BY <2>1, <2>2, AccessTyped
  <2>3. CASE piu_lock' = p /\ P!Goto(p, "access_bus") /\ UNCHANGED <<left, out>>
    <3>1. piu_pc' = [piu_pc EXCEPT ![p] = "access_bus"] /\ OthersStay(p) /\ "access_bus" \in P!Step
      BY <2>1, <2>3 DEF OthersStay, PiuSteps, P!Goto
    <3>2. Shaped(p)' /\ Holds(p)'
      BY <2>1, <2>3, <3>1 DEF Shaped, Holds, P!Holding, P!Cfp2Access
    <3> QED BY <2>1, <2>3, <3>1, <3>2, StepTyped
  <2> QED BY <1>11, <2>2, <2>3 DEF P!LockForAccess
<1>12. ASSUME NEW p \in Proc, P!BusAccess(p) PROVE PiuTyped'
  <2>1. /\ piu_pc[p] = "access_bus" /\ piu_lock' = NoProc
        /\ UNCHANGED <<type, simulate_plug_out, simulate_cfp2_plug_out, slot, cfp2,
                       piu_op, ltype, opened, disturbed>>
    BY <1>12 DEF P!BusAccess, P!env
  <2>2. PICK answer \in {"genuine", "bogus", "error"} : P!AfterAccess(p, answer)
    BY <1>12 DEF P!BusAccess, P!BusAnswer
  <2> QED BY <1>6, <2>1, <2>2, AccessTyped DEF P!Holding
<1>13. ASSUME NEW p \in Proc, P!TransferFails(p) PROVE PiuTyped'
  <2>1. /\ piu_lock = p /\ disturbed' \in [Proc -> BOOLEAN]
        /\ UNCHANGED <<simulate_plug_out, simulate_cfp2_plug_out, slot, cfp2, piu_op, opened>>
    BY <1>6, <1>13 DEF P!TransferFails, P!env
  <2>2. CASE piu_pc[p] = "type_bus"
    <3>1. P!Goto(p, "type_m487") /\ UNCHANGED <<piu_lock, type, ltype, left, out>>
      BY <1>13, <2>2 DEF P!TransferFails
    <3> QED BY <1>5, <2>1, <2>2, <3>1
  <2>3. CASE piu_pc[p] = "type_m487"
    <3>1. P!TypeFound(p, "unplugged")
      BY <1>13, <2>3 DEF P!TransferFails
    <3> QED BY <2>1, <2>3, <3>1, TypeFoundTyped
  <2>4. CASE piu_pc[p] = "exists_bus"
    <3>1. piu_lock' = NoProc /\ P!AfterExists(p, FALSE) /\ UNCHANGED <<type, ltype>>
      BY <1>13, <2>4 DEF P!TransferFails
    <3> QED BY <2>1, <2>4, <3>1, ExistsTyped DEF Shaped
  <2>5. CASE piu_pc[p] = "access_bus"
    <3>1. piu_lock' = NoProc /\ P!AfterAccess(p, "error") /\ UNCHANGED <<type, ltype>>
      BY <1>13, <2>5 DEF P!TransferFails
    <3> QED BY <2>1, <2>5, <3>1, AccessTyped
  <2> QED BY <1>13, <2>2, <2>3, <2>4, <2>5 DEF P!TransferFails, P!Holding
<1>14. CASE P!Swap \/ P!StoreSimulate \/ P!StoreSimulateCfp2
  <2>1. /\ UNCHANGED <<piu_lock, type, piu_op, piu_pc, ltype, left, out, opened>>
        /\ disturbed' = [p \in Proc |-> TRUE]
        /\ slot' \in Module \cup {"empty"} /\ cfp2' \in BOOLEAN
        /\ simulate_plug_out' \in BOOLEAN /\ simulate_cfp2_plug_out' \in BOOLEAN
    BY <1>14 DEF P!Swap, P!StoreSimulate, P!StoreSimulateCfp2, PiuTyped, P!TypeOK
  <2>2. P!TypeOK'
    BY <2>1 DEF PiuTyped, P!TypeOK
  <2>3. \A p \in Proc : Shaped(p)' /\ Holds(p)'
    BY <2>1 DEF Shaped, Holds, P!Cfp2Access
  <2> QED BY <2>2, <2>3 DEF PiuTyped
<1>15. CASE UNCHANGED P!vars
  <2>1. /\ UNCHANGED <<piu_lock, type, piu_op, piu_pc, ltype, left, out, opened, disturbed>>
        /\ UNCHANGED <<simulate_plug_out, simulate_cfp2_plug_out, slot, cfp2>>
    BY <1>15 DEF P!vars, P!env
  <2>2. P!TypeOK'
    BY <2>1 DEF PiuTyped, P!TypeOK
  <2>3. \A p \in Proc : Shaped(p)' /\ Holds(p)'
    BY <2>1 DEF Shaped, Holds, P!Cfp2Access
  <2> QED BY <2>2, <2>3 DEF PiuTyped
<1> QED
  BY <1>1, <1>2, <1>3, <1>4, <1>7, <1>8, <1>9, <1>10, <1>11, <1>12, <1>13, <1>14, <1>15
  DEF P!Next, P!Locks, P!Runs

-----------------------------------------------------------------------------
(* Piu: a simulated plug-out keeps everyone from the bus.                  *)

(* What a step of one process may change for the others. *)
LEMMA HandlerSteps ==
  ASSUME PiuTyped, NEW p \in Proc,
         \/ \E o \in Handler : P!Enter(p, o)
         \/ P!Close(p) \/ P!Locks(p) \/ P!Runs(p) \/ P!TransferFails(p)
  PROVE  /\ OthersStay(p)
         /\ UNCHANGED <<simulate_plug_out, simulate_cfp2_plug_out, slot, cfp2>>
         /\ \A q \in Proc : q # p => disturbed'[q] = disturbed[q] \/ disturbed'[q]
         /\ type' # type => piu_lock \in {p, NoProc}
PROOF
<1>0. /\ piu_op \in [Proc -> P!Handlers \cup {"none"}] /\ piu_pc \in [Proc -> P!Step]
      /\ ltype \in [Proc -> P!Type] /\ left \in [Proc -> Nat] /\ out \in [Proc -> P!Out]
      /\ opened \in [Proc -> BOOLEAN] /\ disturbed \in [Proc -> BOOLEAN]
      /\ piu_pc[p] \in P!Holding => piu_lock = p
  BY DEF PiuTyped, P!TypeOK, Holds
<1>1. ASSUME piu_pc[p] \in {"type", "type_bus", "type_m487"}, NEW t, P!TypeFound(p, t),
             UNCHANGED piu_op
      PROVE  OthersStay(p)
  <2>1. ltype' = [ltype EXCEPT ![p] = t] /\ P!AfterType(p, t)
    BY <1>1 DEF P!TypeFound
  <2>2. \A q \in Proc \ {p} : piu_pc'[q] = piu_pc[q] /\ left'[q] = left[q] /\ out'[q] = out[q]
    BY <1>1, <2>1, AfterTypeDoes
  <2> QED BY <1>0, <1>1, <2>1, <2>2 DEF OthersStay
<1>2. ASSUME piu_pc[p] \in {"exists", "exists_bus"}, NEW there \in BOOLEAN,
             P!AfterExists(p, there), UNCHANGED <<piu_op, ltype>>
      PROVE  OthersStay(p)
  BY <1>2, AfterExistsDoes DEF OthersStay
<1>3. ASSUME piu_pc[p] \in {"access", "access_bus"}, NEW answer \in {"genuine", "bogus", "error"},
             P!AfterAccess(p, answer), UNCHANGED <<piu_op, ltype>>
      PROVE  OthersStay(p)
  BY <1>3, AfterAccessDoes DEF OthersStay
<1>4. ASSUME NEW next, P!Goto(p, next), UNCHANGED <<piu_op, ltype, left, out>>
      PROVE  OthersStay(p)
  BY <1>0, <1>4 DEF OthersStay, P!Goto
<1>5. CASE \E o \in Handler : P!Enter(p, o)
  <2>1. OthersStay(p)
    BY <1>0, <1>5 DEF P!Enter, P!Goto, OthersStay
  <2> QED BY <1>0, <1>5, <2>1 DEF P!Enter, P!env
<1>6. CASE P!Close(p)
  <2>1. OthersStay(p)
    BY <1>0, <1>6 DEF P!Close, P!Forget, OthersStay
  <2> QED BY <1>0, <1>6, <2>1 DEF P!Close, P!Forget, P!env
<1>7. CASE P!Leave(p)
  <2>1. OthersStay(p)
    BY <1>0, <1>7 DEF P!Leave, P!Goto, P!Forget, OthersStay
  <2> QED BY <1>0, <1>7, <2>1 DEF P!Leave, P!Forget, P!env
<1>8. CASE P!LockForType(p)
  <2>1. piu_pc[p] = "type" /\ piu_lock = NoProc /\ UNCHANGED <<piu_op, disturbed>>
        /\ UNCHANGED <<simulate_plug_out, simulate_cfp2_plug_out, slot, cfp2>>
    BY <1>8 DEF P!LockForType, P!env
  <2>2. OthersStay(p)
    BY <1>1, <1>4, <1>8, <2>1 DEF P!LockForType
  <2> QED BY <2>1, <2>2
<1>9. CASE P!ReadIdentity(p) \/ P!ReadIdentityM487(p)
  <2>1. piu_pc[p] \in {"type_bus", "type_m487"} /\ piu_lock = p /\ UNCHANGED <<piu_op, disturbed>>
        /\ UNCHANGED <<simulate_plug_out, simulate_cfp2_plug_out, slot, cfp2>>
    BY <1>0, <1>9 DEF P!ReadIdentity, P!ReadIdentityM487, P!env, P!Holding
  <2>2. OthersStay(p)
    BY <1>1, <1>4, <1>9, <2>1 DEF P!ReadIdentity, P!ReadIdentityM487
  <2> QED BY <2>1, <2>2
<1>10. CASE P!LockForExists(p) \/ P!ReadExists(p)
  <2>1. piu_pc[p] \in {"exists", "exists_bus"} /\ UNCHANGED <<type, piu_op, ltype, disturbed>>
        /\ UNCHANGED <<simulate_plug_out, simulate_cfp2_plug_out, slot, cfp2>>
    BY <1>10 DEF P!LockForExists, P!ReadExists, P!env
  <2>2. \A there \in P!Presence(p) : there \in BOOLEAN
    BY PresenceRead
  <2>3. OthersStay(p)
    BY <1>2, <1>4, <1>10, <2>1, <2>2 DEF P!LockForExists, P!ReadExists
  <2> QED BY <2>1, <2>3
<1>11. CASE P!LockForAccess(p) \/ P!BusAccess(p)
  <2>1. piu_pc[p] \in {"access", "access_bus"} /\ UNCHANGED <<type, piu_op, ltype, disturbed>>
        /\ UNCHANGED <<simulate_plug_out, simulate_cfp2_plug_out, slot, cfp2>>
    BY <1>11 DEF P!LockForAccess, P!BusAccess, P!env
  <2>2. P!BusAnswer(p) \subseteq {"genuine", "bogus", "error"}
    BY DEF P!BusAnswer
  <2>3. OthersStay(p)
    BY <1>3, <1>4, <1>11, <2>1, <2>2 DEF P!LockForAccess, P!BusAccess
  <2> QED BY <2>1, <2>3
<1>12. CASE P!TransferFails(p)
  <2>1. piu_pc[p] \in P!Holding /\ piu_lock = p /\ UNCHANGED piu_op
        /\ disturbed' = [q \in Proc |-> TRUE]
        /\ UNCHANGED <<simulate_plug_out, simulate_cfp2_plug_out, slot, cfp2>>
    BY <1>0, <1>12 DEF P!TransferFails, P!env
  <2>2. CASE piu_pc[p] = "type_bus"
    BY <1>4, <1>12, <2>1, <2>2 DEF P!TransferFails
  <2>3. CASE piu_pc[p] = "type_m487"
    <3>1. P!TypeFound(p, "unplugged")
      BY <1>12, <2>3 DEF P!TransferFails
    <3> QED BY <1>1, <2>1, <2>3, <3>1
  <2>4. CASE piu_pc[p] = "exists_bus"
    <3>1. P!AfterExists(p, FALSE) /\ UNCHANGED ltype
      BY <1>12, <2>4 DEF P!TransferFails
    <3> QED BY <1>2, <2>1, <2>4, <3>1
  <2>5. CASE piu_pc[p] = "access_bus"
    <3>1. P!AfterAccess(p, "error") /\ UNCHANGED ltype
      BY <1>12, <2>5 DEF P!TransferFails
    <3> QED BY <1>3, <2>1, <2>5, <3>1
  <2> QED BY <2>1, <2>2, <2>3, <2>4, <2>5 DEF P!Holding
<1> QED
  BY <1>5, <1>6, <1>7, <1>8, <1>9, <1>10, <1>11, <1>12 DEF P!Locks, P!Runs

(* Whoever gets to the bus has looked at the flags with the mutex held. *)
LEMMA EntersBus ==
  ASSUME PiuTyped, NEW p \in Proc,
         \/ \E o \in Handler : P!Enter(p, o)
         \/ P!Close(p) \/ P!Locks(p) \/ P!Runs(p) \/ P!TransferFails(p),
         piu_pc'[p] \in P!Holding
  PROVE  /\ piu_pc[p] \in P!Holding \/ ~simulate_plug_out
         /\ piu_pc'[p] = "access_bus" => ~P!Cfp2Hidden(p) /\ UNCHANGED <<type, piu_op, ltype>>
         /\ piu_pc'[p] = "exists_bus" => ~simulate_cfp2_plug_out
PROOF
<1>0. piu_pc \in [Proc -> P!Step]
  BY DEF PiuTyped, P!TypeOK
<1>h. piu_pc'[p] \in {"type_bus", "type_m487", "exists_bus", "access_bus"}
  BY DEF P!Holding
<1>1. ASSUME piu_pc[p] \in {"type", "type_bus", "type_m487"}, NEW t, P!TypeFound(p, t) PROVE FALSE
  BY <1>1, <1>h, AfterTypeDoes DEF P!TypeFound
<1>2. ASSUME piu_pc[p] \in {"exists", "exists_bus"}, NEW there \in BOOLEAN, P!AfterExists(p, there)
      PROVE  FALSE
  BY <1>2, <1>h, AfterExistsDoes
<1>3. ASSUME piu_pc[p] \in {"access", "access_bus"}, NEW answer \in {"genuine", "bogus", "error"},
             P!AfterAccess(p, answer)
      PROVE  FALSE
  BY <1>3, <1>h, AfterAccessDoes
<1>4. CASE (\E o \in Handler : P!Enter(p, o)) \/ P!Close(p) \/ P!Leave(p)
  BY <1>0, <1>4, <1>h DEF P!Enter, P!Close, P!Leave, P!Goto
<1>5. CASE P!LockForType(p)
  <2>1. piu_pc[p] = "type" /\ ~simulate_plug_out /\ P!Goto(p, "type_bus")
    BY <1>1, <1>5 DEF P!LockForType
  <2> QED BY <1>0, <2>1 DEF P!Goto
<1>6. CASE P!ReadIdentity(p) \/ P!ReadIdentityM487(p)
  <2>1. piu_pc[p] \in {"type_bus", "type_m487"} /\ P!Goto(p, "type_m487")
    BY <1>1, <1>6 DEF P!ReadIdentity, P!ReadIdentityM487
  <2> QED BY <1>0, <2>1 DEF P!Goto, P!Holding
<1>7. CASE P!LockForExists(p) \/ P!ReadExists(p)
  <2>1. \A there \in P!Presence(p) : there \in BOOLEAN
    BY PresenceRead
  <2>2. /\ P!LockForExists(p) /\ ~simulate_plug_out /\ ~simulate_cfp2_plug_out
        /\ P!Goto(p, "exists_bus")
    BY <1>2, <1>7, <2>1 DEF P!LockForExists, P!ReadExists
  <2> QED BY <1>0, <2>2 DEF P!Goto
<1>8. CASE P!LockForAccess(p) \/ P!BusAccess(p)
  <2>1. P!BusAnswer(p) \subseteq {"genuine", "bogus", "error"}
    BY DEF P!BusAnswer
  <2>2. /\ P!LockForAccess(p) /\ ~simulate_plug_out /\ ~P!Cfp2Hidden(p)
        /\ P!Goto(p, "access_bus")
    BY <1>3, <1>8, <2>1 DEF P!LockForAccess, P!BusAccess
  <2> QED BY <1>0, <2>2 DEF P!Goto, P!LockForAccess
<1>9. CASE P!TransferFails(p)
  <2>1. piu_pc[p] \in P!Holding
    BY <1>9 DEF P!TransferFails
  <2>2. piu_pc[p] = "type_bus"
    <3>1. piu_pc[p] # "type_m487"
      BY <1>1, <1>9 DEF P!TransferFails
    <3>2. piu_pc[p] # "exists_bus"
      BY <1>2, <1>9 DEF P!TransferFails
    <3>3. piu_pc[p] # "access_bus"
      BY <1>3, <1>9 DEF P!TransferFails
    <3> QED BY <2>1, <3>1, <3>2, <3>3 DEF P!Holding
  <2>3. P!Goto(p, "type_m487")
    BY <1>9, <2>2 DEF P!TransferFails
  <2> QED BY <1>0, <2>1, <2>3 DEF P!Goto
<1> QED BY <1>4, <1>5, <1>6, <1>7, <1>8, <1>9 DEF P!Locks, P!Runs

LEMMA SilentInit == P!Init => P!SimulatedOutIsSilent
  BY Zenon DEF P!Init, P!SimulatedOutIsSilent

LEMMA SilentStep ==
  PiuTyped /\ P!SimulatedOutIsSilent /\ [P!Next]_P!vars => P!SimulatedOutIsSilent'
PROOF
<1> SUFFICES ASSUME PiuTyped, P!SimulatedOutIsSilent, [P!Next]_P!vars, NEW q \in Proc
             PROVE  /\ simulate_plug_out' => piu_pc'[q] \notin P!Holding
                    /\ simulate_cfp2_plug_out' =>
                         ~(piu_pc'[q] = "access_bus" /\ type' \in P!Windows(q)')
  BY DEF P!SimulatedOutIsSilent, P!Holding
<1>0. /\ simulate_plug_out => piu_pc[q] \notin P!Holding
      /\ simulate_cfp2_plug_out => ~(piu_pc[q] = "access_bus" /\ type \in P!Windows(q))
      /\ piu_pc[q] \in P!Holding => piu_lock = q
  BY DEF P!SimulatedOutIsSilent, PiuTyped, Holds
<1>1. "access_bus" \in P!Holding
  BY DEF P!Holding
<1>2. ASSUME NEW p \in Proc,
             \/ \E o \in Handler : P!Enter(p, o)
             \/ P!Close(p) \/ P!Locks(p) \/ P!Runs(p) \/ P!TransferFails(p)
      PROVE  /\ simulate_plug_out' => piu_pc'[q] \notin P!Holding
             /\ simulate_cfp2_plug_out' =>
                  ~(piu_pc'[q] = "access_bus" /\ type' \in P!Windows(q)')
  <2>1. /\ OthersStay(p) /\ UNCHANGED <<simulate_plug_out, simulate_cfp2_plug_out>>
        /\ type' # type => piu_lock \in {p, NoProc}
    BY <1>2, HandlerSteps
  <2>2. CASE q # p
    <3>1. piu_pc'[q] = piu_pc[q] /\ P!Windows(q)' = P!Windows(q)
      BY <2>1, <2>2 DEF OthersStay, P!Windows, P!Cfp2Access
    <3>2. piu_pc[q] = "access_bus" => type' = type
      BY <1>0, <1>1, <2>1, <2>2, ProcAssumption
    <3> QED BY <1>0, <2>1, <3>1, <3>2
  <2>3. CASE q = p
    <3>1. piu_pc'[p] \in P!Holding => piu_pc[p] \in P!Holding \/ ~simulate_plug_out
      BY <1>2, EntersBus
    <3>2. piu_pc'[p] = "access_bus" => ~P!Cfp2Hidden(p) /\ UNCHANGED <<type, piu_op, ltype>>
      BY <1>1, <1>2, EntersBus
    <3>3. piu_pc'[p] = "access_bus" => type' = type /\ P!Windows(p)' = P!Windows(p)
      BY <3>2 DEF P!Windows, P!Cfp2Access
    <3> QED BY <1>0, <2>1, <2>3, <3>1, <3>2, <3>3 DEF P!Cfp2Hidden
  <2> QED BY <2>2, <2>3
<1>3. CASE P!Swap
  BY <1>0, <1>3 DEF P!Swap, P!Windows, P!Cfp2Access
<1>4. CASE P!StoreSimulate \/ P!StoreSimulateCfp2
  <2>1. piu_pc[q] \notin P!Holding /\ UNCHANGED piu_pc
    BY <1>0, <1>4, ProcAssumption DEF P!StoreSimulate, P!StoreSimulateCfp2
  <2> QED BY <1>1, <2>1
<1>5. CASE UNCHANGED P!vars
  BY <1>0, <1>5 DEF P!vars, P!env, P!Windows, P!Cfp2Access
<1> QED BY <1>2, <1>3, <1>4, <1>5 DEF P!Next

-----------------------------------------------------------------------------
(* Piu: the answers of handlers that nothing disturbs.                     *)

(* What holds for a process since it last began to ask for the type, as    *)
(* long as nothing disturbed it: nobody is about to report its module      *)
(* unplugged; the type it was told is the one there is, and the one that   *)
(* all handlers share; and it only goes where that type leads it.          *)
Sound(p) ==
  /\ piu_pc[p] # "type" => \A q \in Proc : piu_pc[q] = "type_m487" => slot # "aco"
  /\ piu_pc[p] \notin {"type", "type_bus", "type_m487"} =>
       ltype[p] = P!TypeNow /\ type = P!TypeNow
  /\ piu_pc[p] = "exists_bus" => ~simulate_cfp2_plug_out
  /\ piu_pc[p] = "access_bus" => P!TypeNow \in {"aco", "dco", "qsfp28"}
  /\ piu_pc[p] \in {"access", "access_bus"} =>
       /\ out[p] \in {"none", "genuine"}
       /\ piu_op[p] = "mcu_version" => P!TypeNow \in {"aco", "dco", "qsfp28"}
       /\ piu_op[p] = "piu_temp" => P!TypeNow = "aco"
       /\ piu_op[p] = "eeprom" => P!TypeNow = "qsfp28"
       /\ piu_op[p] = "cfp2_read" =>
            P!TypeNow \in {"aco", "dco"} /\ cfp2 /\ ~simulate_cfp2_plug_out
  /\ piu_pc[p] = "done" => out[p] \in P!Answer(piu_op[p])

Soundly == \A p \in Proc : ~disturbed[p] => Sound(p)

(* What is answered, by the type there is. *)
LEMMA AnswerOf ==
  ASSUME NEW o
  PROVE
    LET k == P!TypeNow
        seen == ~simulate_plug_out /\ ~simulate_cfp2_plug_out
        there == k \in {"aco", "dco"} /\ cfp2 /\ seen IN
    /\ o \in {"piu_type", "open", "init"} => P!Answer(o) = {"type"}
    /\ o = "cfp2_exists" => P!Answer(o) =
         IF seen /\ (k \in {"aco", "dco"} => cfp2) THEN {"present"} ELSE {"absent"}
    /\ o = "mcu_version" => P!Answer(o) =
         IF k \in {"aco", "dco", "qsfp28"} THEN {"genuine"} ELSE {"blank"}
    /\ o = "piu_temp" => P!Answer(o) = IF k = "aco" THEN {"genuine", "blank"} ELSE {"blank"}
    /\ o = "cfp2_read" => P!Answer(o) = IF there THEN {"genuine"} ELSE {"blank"}
    /\ o = "eeprom" => P!Answer(o) = IF k = "qsfp28" THEN {"genuine"} ELSE {"error"}
    /\ o = "access" => P!Answer(o) =
         IF k \in {"aco", "dco", "qsfp28"} THEN {"genuine"} ELSE {"error"}
    /\ o = "access_cfp2" => P!Answer(o) =
         IF there THEN {"genuine"} ELSE IF seen THEN {"error", "bogus"} ELSE {"error"}
  BY DEF P!Answer

(* The type there is tells what is in the slot, and the other way round. *)
LEMMA TypeNowIs ==
  ASSUME slot \in P!Kind \cup {"empty"}, simulate_plug_out \in BOOLEAN
  PROVE  /\ simulate_plug_out \/ slot = "empty" => P!TypeNow = "unplugged"
         /\ ~simulate_plug_out /\ slot = "odd" => P!TypeNow = "unknown"
         /\ ~simulate_plug_out /\ slot \in {"aco", "dco", "qsfp28"} => P!TypeNow = slot
         /\ P!TypeNow \in {"aco", "dco", "qsfp28"} => ~simulate_plug_out /\ slot = P!TypeNow
  BY DEF P!TypeNow, P!Kind

(* What everyone learns and shares is the type there is. *)
LEMMA LearnsTypeNow ==
  ASSUME PiuTyped, P!SimulatedOutIsSilent, NEW q \in Proc,
         P!LockForType(q) \/ P!ReadIdentity(q) \/ P!ReadIdentityM487(q),
         piu_pc[q] = "type_m487" => slot # "aco"
  PROVE  \/ P!TypeFound(q, P!TypeNow)
         \/ /\ UNCHANGED <<type, ltype, left, out>>
            /\ P!Goto(q, "type_bus") \/ (P!Goto(q, "type_m487") /\ slot # "aco")
PROOF
<1>0. /\ simulate_plug_out \in BOOLEAN /\ slot \in P!Kind \cup {"empty"}
      /\ piu_pc[q] \in {"type_bus", "type_m487"} => ~simulate_plug_out
  BY PiuAssumption DEF PiuTyped, P!TypeOK, P!ConstantsOK, P!SimulatedOutIsSilent, P!Holding
<1>1. CASE P!LockForType(q)
  <2>1. CASE simulate_plug_out
    BY <1>0, <1>1, <2>1, TypeNowIs DEF P!LockForType
  <2>2. CASE ~simulate_plug_out
    BY <1>1, <2>2 DEF P!LockForType
  <2> QED BY <2>1, <2>2
<1>2. CASE P!ReadIdentity(q)
  <2>1. CASE slot # "empty" /\ P!TypeFound(q, IF slot = "odd" THEN "unknown" ELSE slot)
    <3>1. (IF slot = "odd" THEN "unknown" ELSE slot) = P!TypeNow
      BY <1>0, <1>2, <2>1, TypeNowIs DEF P!Kind, P!ReadIdentity
    <3> QED BY <2>1, <3>1
  <2> QED BY <1>2, <2>1 DEF P!ReadIdentity
<1>3. CASE P!ReadIdentityM487(q)
  <2> DEFINE t == CASE slot \in {"dco", "qsfp28"} -> slot
                    [] slot = "odd" -> "unknown"
                    [] OTHER -> "unplugged"
  <2>1. piu_pc[q] = "type_m487" /\ P!TypeFound(q, t)
    BY <1>3 DEF P!ReadIdentityM487
  <2>2. t = P!TypeNow
    BY <1>0, <2>1, TypeNowIs DEF P!Kind
  <2> HIDE DEF t
  <2> QED BY <2>1, <2>2
<1> QED BY <1>1, <1>2, <1>3

(* As long as the slot, the CFP2 and the flags stay, so do the type there  *)
(* is and the answers. *)
LEMMA AnswersStay ==
  ASSUME UNCHANGED <<simulate_plug_out, simulate_cfp2_plug_out, slot, cfp2>>
  PROVE  /\ P!TypeNow' = P!TypeNow
         /\ \A p : piu_op'[p] = piu_op[p] => P!Answer(piu_op[p])' = P!Answer(piu_op[p])
PROOF
<1>1. P!TypeNow' = P!TypeNow
  BY DEF P!TypeNow
<1> QED BY <1>1 DEF P!Answer

(* A process is not disturbed by what another one does. *)
LEMMA OthersSound ==
  ASSUME NEW p \in Proc, NEW q \in Proc, q # p, Sound(p), OthersStay(q),
         UNCHANGED <<simulate_plug_out, simulate_cfp2_plug_out, slot, cfp2>>,
         type' \in {type, P!TypeNow} \/ piu_pc[p] \in {"type", "type_bus", "type_m487"},
         piu_pc[p] # "type" /\ piu_pc'[q] = "type_m487" => slot # "aco"
  PROVE  Sound(p)'
PROOF
<1>1. /\ piu_pc'[p] = piu_pc[p] /\ piu_op'[p] = piu_op[p] /\ ltype'[p] = ltype[p]
      /\ out'[p] = out[p]
  BY DEF OthersStay
<1>2. P!TypeNow' = P!TypeNow /\ P!Answer(piu_op[p])' = P!Answer(piu_op[p])
  BY <1>1, AnswersStay
<1>3. piu_pc[p] # "type" => \A r \in Proc : piu_pc'[r] = "type_m487" => slot # "aco"
  BY DEF Sound, OthersStay
<1> QED BY <1>1, <1>2, <1>3 DEF Sound

(* A process that has just found the type is on its way. *)
LEMMA FoundSound ==
  ASSUME PiuTyped, NEW p \in Proc, piu_pc[p] \in {"type", "type_bus", "type_m487"},
         P!TypeFound(p, P!TypeNow), UNCHANGED piu_op,
         UNCHANGED <<simulate_plug_out, simulate_cfp2_plug_out, slot, cfp2>>,
         \A q \in Proc : q # p /\ piu_pc[q] = "type_m487" => slot # "aco"
  PROVE  Sound(p)'
PROOF
<1> DEFINE t == P!TypeNow
<1>1. P!AfterType(p, t) /\ type' = t /\ ltype'[p] = t
  BY DEF P!TypeFound, PiuTyped, P!TypeOK
<1>2. t' = t /\ P!Answer(piu_op[p])' = P!Answer(piu_op[p])
  BY AnswersStay
<1> HIDE DEF t
<1>3. /\ \A q \in Proc \ {p} : piu_pc'[q] = piu_pc[q] /\ left'[q] = left[q] /\ out'[q] = out[q]
      /\ \/ /\ piu_pc'[p] = "done"
            /\ \/ piu_op[p] \in {"piu_type", "open", "init"} /\ out'[p] = "type"
               \/ piu_op[p] = "cfp2_read" /\ t \notin {"aco", "dco"} /\ out'[p] = "blank"
               \/ piu_op[p] = "mcu_version" /\ t \notin {"aco", "dco", "qsfp28"} /\ out'[p] = "blank"
               \/ piu_op[p] = "piu_temp" /\ t # "aco" /\ out'[p] = "blank"
               \/ piu_op[p] = "eeprom" /\ t # "qsfp28" /\ out'[p] = "error"
         \/ /\ piu_pc'[p] = "exists" /\ out'[p] = "none"
            /\ \/ piu_op[p] = "cfp2_exists"
               \/ piu_op[p] = "cfp2_read" /\ t \in {"aco", "dco"}
         \/ /\ piu_pc'[p] = "access" /\ out'[p] = "none" /\ left'[p] >= 1
            /\ \/ piu_op[p] = "mcu_version" /\ t \in {"aco", "dco", "qsfp28"}
               \/ piu_op[p] = "piu_temp" /\ t = "aco"
               \/ piu_op[p] = "eeprom" /\ t = "qsfp28"
  BY <1>1, AfterTypeDoes
<1>4. piu_pc'[p] = "done" => out'[p] \in P!Answer(piu_op[p])
  BY <1>3, AnswerOf DEF t
<1>5. \A q \in Proc : piu_pc'[q] = "type_m487" => slot # "aco"
  BY <1>3
<1> QED BY <1>1, <1>2, <1>3, <1>4, <1>5 DEF Sound, t

(* A process that has looked for the CFP2. *)
LEMMA ExistsSound ==
  ASSUME PiuTyped, NEW p \in Proc, piu_pc[p] \in {"exists", "exists_bus"}, Sound(p),
         NEW there \in BOOLEAN, P!AfterExists(p, there), UNCHANGED <<piu_op, type, ltype>>,
         UNCHANGED <<simulate_plug_out, simulate_cfp2_plug_out, slot, cfp2>>,
         there <=> /\ ~simulate_plug_out /\ ~simulate_cfp2_plug_out
                   /\ P!TypeNow \in {"aco", "dco"} => cfp2
  PROVE  Sound(p)'
PROOF
<1> DEFINE t == P!TypeNow
<1>1. t' = t /\ P!Answer(piu_op[p])' = P!Answer(piu_op[p])
  BY AnswersStay
<1>2. ltype[p] = t /\ type = t /\ (piu_op[p] = "cfp2_read" => t \in {"aco", "dco"})
  BY DEF Sound, PiuTyped, Shaped
<1>3. /\ \A q \in Proc \ {p} : piu_pc'[q] = piu_pc[q] /\ left'[q] = left[q] /\ out'[q] = out[q]
      /\ \/ /\ piu_pc'[p] = "done" /\ piu_op[p] = "cfp2_exists"
            /\ out'[p] = IF there THEN "present" ELSE "absent"
         \/ /\ piu_pc'[p] = "done" /\ piu_op[p] = "cfp2_read" /\ ~there /\ out'[p] = "blank"
         \/ /\ piu_pc'[p] = "access" /\ piu_op[p] = "cfp2_read" /\ there
            /\ out'[p] = "none" /\ left'[p] >= 1
  BY AfterExistsDoes
<1>4. piu_pc'[p] = "done" => out'[p] \in P!Answer(piu_op[p])
  BY <1>2, <1>3, AnswerOf
<1>5. \A q \in Proc : piu_pc'[q] = "type_m487" => slot # "aco"
  BY <1>3 DEF Sound
<1> HIDE DEF t
<1>6. piu_pc'[p] = "access" => t \in {"aco", "dco"} /\ cfp2 /\ ~simulate_cfp2_plug_out
  BY <1>2, <1>3 DEF t
<1> QED BY <1>1, <1>2, <1>3, <1>4, <1>5, <1>6 DEF Sound, t

(* A process that has made an access: it succeeded, unless its handler is  *)
(* one that answers so. *)
LEMMA AccessSound ==
  ASSUME PiuTyped, NEW p \in Proc, piu_pc[p] \in {"access", "access_bus"}, Sound(p),
         NEW answer \in {"genuine", "bogus", "error"}, P!AfterAccess(p, answer),
         UNCHANGED <<piu_op, type, ltype>>,
         UNCHANGED <<simulate_plug_out, simulate_cfp2_plug_out, slot, cfp2>>,
         \/ answer = "genuine" /\ piu_op[p] # "access_cfp2" /\ P!TypeNow \in {"aco", "dco", "qsfp28"}
         \/ piu_op[p] = "access" /\ answer = "error" /\ P!TypeNow \notin {"aco", "dco", "qsfp28"}
         \/ piu_op[p] = "access_cfp2" /\ answer \in P!Answer(piu_op[p])
  PROVE  Sound(p)'
PROOF
<1> DEFINE t == P!TypeNow
<1>1. t' = t /\ P!Answer(piu_op[p])' = P!Answer(piu_op[p])
  BY AnswersStay
<1>2. ltype[p] = t /\ type = t /\ out[p] \in {"none", "genuine"}
  BY DEF Sound
<1>3. /\ \A q \in Proc \ {p} : piu_pc'[q] = piu_pc[q] /\ left'[q] = left[q] /\ out'[q] = out[q]
      /\ \/ /\ piu_pc'[p] = "done" /\ out'[p] = "error" /\ answer = "error"
            /\ piu_op[p] \in {"eeprom"} \cup P!Ioctls
         \/ piu_pc'[p] = "done" /\ out'[p] = "blank" /\ piu_op[p] = "piu_temp"
         \/ /\ piu_pc'[p] = "done" \/ (piu_pc'[p] = "access" /\ left[p] > 1 /\ left'[p] >= 1)
            /\ out'[p] = IF answer = "genuine" /\ out[p] # "bogus" THEN "genuine" ELSE "bogus"
            /\ ~(answer = "error" /\ piu_op[p] \in {"eeprom"} \cup P!Ioctls)
  BY AfterAccessDoes
<1>4. /\ piu_op[p] \in {"mcu_version", "piu_temp", "cfp2_read", "eeprom", "access", "access_cfp2"}
      /\ piu_op[p] \in {"access", "access_cfp2"} => left[p] = 1
  BY DEF PiuTyped, Shaped
<1>5. \A q \in Proc : piu_pc'[q] = "type_m487" => slot # "aco"
  BY <1>3 DEF Sound
<1>6. CASE answer = "genuine" /\ piu_op[p] # "access_cfp2" /\ t \in {"aco", "dco", "qsfp28"}
  <2>1. out'[p] = "genuine" \/ (piu_op[p] = "piu_temp" /\ out'[p] = "blank" /\ piu_pc'[p] = "done")
    BY <1>2, <1>3, <1>6
  <2>2. /\ piu_op[p] = "mcu_version" => t \in {"aco", "dco", "qsfp28"}
        /\ piu_op[p] = "piu_temp" => t = "aco"
        /\ piu_op[p] = "eeprom" => t = "qsfp28"
        /\ piu_op[p] = "cfp2_read" => t \in {"aco", "dco"} /\ cfp2 /\ ~simulate_cfp2_plug_out
        /\ ~simulate_plug_out
    <3>1. ~simulate_plug_out
      BY <1>6 DEF P!TypeNow
    <3> QED BY <3>1 DEF Sound
  <2>3. out'[p] \in P!Answer(piu_op[p])
    BY <1>4, <1>6, <2>1, <2>2, AnswerOf
  <2>4. piu_pc'[p] \in {"access", "done"} /\ (piu_pc'[p] = "access" => out'[p] = "genuine")
    BY <1>3, <2>1
  <2> HIDE DEF t
  <2> QED BY <1>1, <1>2, <1>5, <2>2, <2>3, <2>4 DEF Sound, t
<1>7. CASE piu_op[p] = "access" /\ answer = "error" /\ t \notin {"aco", "dco", "qsfp28"}
  <2>1. piu_pc'[p] = "done" /\ out'[p] = "error"
    BY <1>3, <1>7 DEF P!Ioctls
  <2>2. out'[p] \in P!Answer(piu_op[p])
    BY <1>7, <2>1, AnswerOf
  <2> QED BY <1>1, <1>2, <1>5, <2>1, <2>2 DEF Sound
<1>8. CASE piu_op[p] = "access_cfp2" /\ answer \in P!Answer(piu_op[p])
  <2>1. piu_pc'[p] = "done" /\ out'[p] = answer
    BY <1>2, <1>3, <1>4, <1>8 DEF P!Ioctls
  <2> QED BY <1>1, <1>2, <1>5, <1>8, <2>1 DEF Sound
<1> QED BY <1>6, <1>7, <1>8

(* Each step of an undisturbed process itself. *)
LEMMA OwnSound ==
  ASSUME PiuTyped, P!SimulatedOutIsSilent, NEW p \in Proc, ~disturbed'[p],
         ~disturbed[p] => Sound(p),
         \/ \E o \in Handler : P!Enter(p, o)
         \/ P!Close(p) \/ P!Locks(p) \/ P!Runs(p) \/ P!TransferFails(p)
  PROVE  Sound(p)'
PROOF
<1>0. /\ simulate_plug_out \in BOOLEAN /\ simulate_cfp2_plug_out \in BOOLEAN
      /\ slot \in P!Kind \cup {"empty"} /\ cfp2 \in BOOLEAN
      /\ piu_op \in [Proc -> P!Handlers \cup {"none"}] /\ piu_pc \in [Proc -> P!Step]
      /\ ltype \in [Proc -> P!Type] /\ out \in [Proc -> P!Out]
      /\ opened \in [Proc -> BOOLEAN] /\ disturbed \in [Proc -> BOOLEAN]
      /\ \A q \in Proc : Shaped(q) /\ (piu_pc[q] \in P!Holding <=> piu_lock = q)
  BY PiuAssumption DEF PiuTyped, P!TypeOK, P!ConstantsOK, Holds
<1>s. piu_pc[p] \in P!Holding => ~simulate_plug_out
  BY DEF P!SimulatedOutIsSilent
<1>m. UNCHANGED <<simulate_plug_out, simulate_cfp2_plug_out, slot, cfp2>> /\ OthersStay(p)
  BY HandlerSteps
<1>f. piu_lock \in {p, NoProc} => \A q \in Proc : q # p => piu_pc[q] # "type_m487"
  BY <1>0, ProcAssumption DEF P!Holding
<1>1. ASSUME NEW o \in Handler, P!Enter(p, o) PROVE Sound(p)'
  <2>1. /\ piu_pc[p] = "idle" /\ piu_op'[p] = o /\ UNCHANGED <<type, ltype, out>>
        /\ piu_pc'[p] = IF o \in P!Ioctls \ {"init"} THEN "access" ELSE "type"
        /\ disturbed'[p] = IF o \in P!Ioctls \ {"init"} THEN disturbed[p] ELSE FALSE
    BY <1>0, <1>1 DEF P!Enter, P!Goto
  <2>2. CASE o \in P!Ioctls \ {"init"}
    <3>1. Sound(p) /\ out[p] = "none" /\ P!TypeNow' = P!TypeNow /\ o \in {"access", "access_cfp2"}
      BY <1>0, <1>m, <2>1, <2>2, AnswersStay DEF Shaped, P!Ioctls
    <3>2. \A q \in Proc : piu_pc'[q] = "type_m487" => slot # "aco"
      BY <1>m, <2>1, <2>2, <3>1 DEF Sound, OthersStay
    <3> QED BY <1>m, <2>1, <2>2, <3>1, <3>2 DEF Sound
  <2>3. CASE o \notin P!Ioctls \ {"init"}
    BY <2>1, <2>3 DEF Sound
  <2> QED BY <2>2, <2>3
<1>2. ASSUME P!Leave(p) PROVE Sound(p)'
  <2>1. /\ piu_pc[p] = "done" /\ piu_pc'[p] = "idle" /\ UNCHANGED type
        /\ UNCHANGED <<ltype, disturbed>> \/ disturbed'[p]
    BY <1>0, <1>2 DEF P!Leave, P!Goto, P!Forget
  <2>2. Sound(p) /\ UNCHANGED ltype /\ P!TypeNow' = P!TypeNow
    BY <1>m, <2>1, AnswersStay
  <2>3. \A q \in Proc : piu_pc'[q] = "type_m487" => slot # "aco"
    BY <1>m, <2>1, <2>2 DEF Sound, OthersStay
  <2> QED BY <1>m, <2>1, <2>2, <2>3 DEF Sound
<1>3. ~P!Close(p) /\ ~P!TransferFails(p)
  BY <1>0 DEF P!Close, P!Forget, P!TransferFails
<1>4. ASSUME P!LockForType(p) \/ P!ReadIdentity(p) \/ P!ReadIdentityM487(p) PROVE Sound(p)'
  <2>1. /\ piu_pc[p] \in {"type", "type_bus", "type_m487"} /\ UNCHANGED <<piu_op, disturbed>>
        /\ piu_lock \in {p, NoProc}
    BY <1>0, <1>4 DEF P!LockForType, P!ReadIdentity, P!ReadIdentityM487, P!Holding
  <2>2. Sound(p)
    BY <2>1
  <2>3. piu_pc[p] = "type_m487" => slot # "aco"
    BY <2>2 DEF Sound
  <2>4. \A q \in Proc : q # p => piu_pc[q] # "type_m487"
    BY <1>f, <2>1
  <2>5. CASE P!TypeFound(p, P!TypeNow)
    BY <1>m, <2>1, <2>4, <2>5, FoundSound
  <2>6. CASE /\ UNCHANGED <<type, ltype, left, out>>
             /\ P!Goto(p, "type_bus") \/ (P!Goto(p, "type_m487") /\ slot # "aco")
    <3>1. piu_pc'[p] = "type_bus" \/ (piu_pc'[p] = "type_m487" /\ slot # "aco")
      BY <1>0, <2>6 DEF P!Goto
    <3>2. \A q \in Proc : piu_pc'[q] = "type_m487" => slot # "aco"
      BY <1>m, <2>4, <3>1 DEF OthersStay
    <3> QED BY <1>m, <3>1, <3>2 DEF Sound
  <2> QED BY <1>4, <2>3, <2>5, <2>6, LearnsTypeNow
<1>5. ASSUME P!LockForExists(p) \/ P!ReadExists(p) PROVE Sound(p)'
  <2>1. /\ piu_pc[p] \in {"exists", "exists_bus"} /\ UNCHANGED <<piu_op, type, ltype, disturbed>>
    BY <1>5 DEF P!LockForExists, P!ReadExists
  <2>2. Sound(p) /\ ltype[p] = P!TypeNow
    BY <2>1 DEF Sound
  <2>3. CASE P!LockForExists(p) /\ (simulate_plug_out \/ simulate_cfp2_plug_out)
    <3>1. P!AfterExists(p, FALSE)
      BY <2>3 DEF P!LockForExists
    <3> QED BY <1>m, <2>1, <2>2, <2>3, <3>1, ExistsSound
  <2>4. CASE /\ P!LockForExists(p) /\ ~simulate_plug_out /\ ~simulate_cfp2_plug_out
             /\ ltype[p] \in {"aco", "dco"}
    <3>1. P!Goto(p, "exists_bus") /\ UNCHANGED <<left, out>>
      BY <2>4 DEF P!LockForExists
    <3>2. piu_pc'[p] = "exists_bus" /\ P!TypeNow' = P!TypeNow
      BY <1>0, <1>m, <3>1, AnswersStay DEF P!Goto
    <3>3. \A q \in Proc : piu_pc'[q] = "type_m487" => slot # "aco"
      BY <1>m, <2>1, <2>2, <3>2 DEF Sound, OthersStay
    <3> QED BY <1>m, <2>1, <2>2, <2>4, <3>2, <3>3 DEF Sound
  <2>5. CASE /\ P!LockForExists(p) /\ ~simulate_plug_out /\ ~simulate_cfp2_plug_out
             /\ ltype[p] \notin {"aco", "dco"}
    <3>1. P!AfterExists(p, TRUE)
      BY <2>5 DEF P!LockForExists
    <3> QED BY <1>m, <2>1, <2>2, <2>5, <3>1, ExistsSound
  <2>6. CASE P!ReadExists(p)
    <3>0. PICK there \in P!Presence(p) : P!AfterExists(p, there)
      BY <2>6 DEF P!ReadExists
    <3>1. piu_pc[p] = "exists_bus" /\ there \in BOOLEAN
      BY <2>6, PresenceRead DEF P!ReadExists
    <3>2. ~simulate_plug_out /\ ~simulate_cfp2_plug_out /\ ltype[p] \in {"aco", "dco"}
      BY <1>0, <1>s, <2>2, <3>1 DEF Sound, Shaped, P!Holding
    <3>3. slot = ltype[p]
      BY <1>0, <2>2, <3>2, TypeNowIs
    <3>4. there <=> cfp2
      BY <3>3, PresenceRead
    <3> QED BY <1>m, <2>1, <2>2, <3>0, <3>1, <3>2, <3>4, ExistsSound
  <2> QED BY <1>5, <2>3, <2>4, <2>5, <2>6
<1>6. ASSUME P!LockForAccess(p) \/ P!BusAccess(p) PROVE Sound(p)'
  <2>1. /\ piu_pc[p] \in {"access", "access_bus"} /\ UNCHANGED <<piu_op, type, ltype, disturbed>>
    BY <1>6 DEF P!LockForAccess, P!BusAccess
  <2>2. Sound(p) /\ ltype[p] = P!TypeNow /\ type = P!TypeNow
    BY <2>1 DEF Sound
  <2>3. /\ piu_op[p] \in {"mcu_version", "piu_temp", "cfp2_read", "eeprom", "access", "access_cfp2"}
        /\ piu_op[p] \in {"cfp2_read", "access_cfp2"} => P!TypeNow \in {"aco", "dco"}
    BY <1>0, <2>1, <2>2 DEF Shaped, P!Cfp2Access
  <2>4. /\ piu_op[p] = "mcu_version" => P!TypeNow \in {"aco", "dco", "qsfp28"}
        /\ piu_op[p] = "piu_temp" => P!TypeNow = "aco"
        /\ piu_op[p] = "eeprom" => P!TypeNow = "qsfp28"
        /\ piu_op[p] = "cfp2_read" => cfp2 /\ ~simulate_cfp2_plug_out
    BY <2>1, <2>2 DEF Sound
  <2>5. P!TypeNow \in {"aco", "dco", "qsfp28"} => ~simulate_plug_out /\ slot = P!TypeNow
    BY <1>0, TypeNowIs
  <2>6. P!Cfp2Hidden(p) <=> /\ simulate_cfp2_plug_out
                            /\ \/ piu_op[p] \in {"cfp2_read", "access_cfp2"}
                               \/ piu_op[p] = "eeprom" /\ P!TypeNow = "dco"
    BY <2>2, <2>3 DEF P!Cfp2Hidden, P!Windows, P!Cfp2Access
  <2>7. CASE P!LockForAccess(p) /\ (simulate_plug_out \/ P!Cfp2Hidden(p) \/ type \notin {"aco", "dco", "qsfp28"})
    <3>1. P!AfterAccess(p, "error")
      BY <2>7 DEF P!LockForAccess
    <3>2. CASE piu_op[p] = "access"
      <4>1. P!TypeNow \notin {"aco", "dco", "qsfp28"}
        BY <2>2, <2>5, <2>6, <2>7, <3>2
      <4> QED BY <1>m, <2>1, <2>2, <3>1, <3>2, <4>1, AccessSound
    <3>3. CASE piu_op[p] = "access_cfp2"
      <4>1. simulate_cfp2_plug_out
        BY <2>2, <2>3, <2>5, <2>6, <2>7, <3>3
      <4>2. "error" \in P!Answer(piu_op[p])
        BY <3>3, <4>1, AnswerOf
      <4> QED BY <1>m, <2>1, <2>2, <3>1, <3>3, <4>2, AccessSound
    <3> QED BY <2>2, <2>3, <2>4, <2>5, <2>6, <2>7, <3>2, <3>3
  <2>8. CASE /\ P!LockForAccess(p)
             /\ ~(simulate_plug_out \/ P!Cfp2Hidden(p) \/ type \notin {"aco", "dco", "qsfp28"})
    <3>1. P!Goto(p, "access_bus") /\ UNCHANGED <<left, out>>
      BY <2>8 DEF P!LockForAccess
    <3>2. piu_pc'[p] = "access_bus" /\ P!TypeNow' = P!TypeNow
      BY <1>0, <1>m, <3>1, AnswersStay DEF P!Goto
    <3>3. \A q \in Proc : piu_pc'[q] = "type_m487" => slot # "aco"
      BY <1>m, <2>1, <2>2, <3>2 DEF Sound, OthersStay
    <3>4. P!TypeNow \in {"aco", "dco", "qsfp28"}
      BY <2>2, <2>8
    <3>5. UNCHANGED <<out, piu_op, type, ltype, slot, cfp2, simulate_cfp2_plug_out>>
      BY <1>m, <2>1, <3>1
    <3> QED BY <2>1, <2>2, <2>4, <3>2, <3>3, <3>4, <3>5 DEF Sound
  <2>9. CASE P!BusAccess(p)
    <3>1. PICK answer \in P!BusAnswer(p) : P!AfterAccess(p, answer)
      BY <2>9 DEF P!BusAccess
    <3>2. piu_pc[p] = "access_bus" /\ ~simulate_plug_out
      BY <1>s, <2>9 DEF P!BusAccess, P!Holding
    <3>3. CASE P!TypeNow \in {"aco", "dco", "qsfp28"}
      <4>1. slot = P!TypeNow /\ slot = ltype[p] /\ type = slot
        BY <2>2, <2>5, <3>3
      <4>2. CASE piu_op[p] = "access_cfp2" /\ ~cfp2
        <5>1. answer \in {"error", "bogus"}
          BY <3>1, <3>3, <4>1, <4>2 DEF P!BusAnswer, P!Cfp2Access
        <5>2. ~simulate_cfp2_plug_out
          <6>1. ~P!Cfp2Hidden(p)
            BY <3>2 DEF P!SimulatedOutIsSilent, P!Cfp2Hidden
          <6> QED BY <2>6, <4>2, <6>1
        <5>3. answer \in P!Answer(piu_op[p])
          BY <3>2, <4>2, <5>1, <5>2, AnswerOf
        <5> QED BY <1>m, <2>1, <2>2, <3>1, <4>2, <5>1, <5>3, AccessSound
      <4>3. CASE piu_op[p] = "access_cfp2" /\ cfp2
        <5>1. answer = "genuine"
          BY <3>1, <3>3, <4>1, <4>3 DEF P!BusAnswer, P!Cfp2Access
        <5>2. ~simulate_cfp2_plug_out
          <6>1. ~P!Cfp2Hidden(p)
            BY <3>2 DEF P!SimulatedOutIsSilent, P!Cfp2Hidden
          <6> QED BY <2>6, <4>3, <6>1
        <5>3. answer \in P!Answer(piu_op[p])
          BY <2>3, <3>2, <4>3, <5>1, <5>2, AnswerOf
        <5> QED BY <1>m, <2>1, <2>2, <3>1, <4>3, <5>1, <5>3, AccessSound
      <4>4. CASE piu_op[p] # "access_cfp2"
        <5>1. answer = "genuine"
          BY <2>4, <3>1, <3>3, <4>1, <4>4 DEF P!BusAnswer, P!Cfp2Access
        <5> QED BY <1>m, <2>1, <2>2, <3>1, <3>3, <4>4, <5>1, AccessSound
      <4> QED BY <4>2, <4>3, <4>4
    <3>4. P!TypeNow \in {"aco", "dco", "qsfp28"}
      BY <2>2, <3>2 DEF Sound
    <3> QED BY <3>3, <3>4
  <2> QED BY <1>6, <2>7, <2>8, <2>9
<1> QED BY <1>1, <1>2, <1>3, <1>4, <1>5, <1>6 DEF P!Locks, P!Runs

(* What the bus may answer. *)
LEMMA BusAnswers ==
  ASSUME NEW p, NEW answer \in P!BusAnswer(p)
  PROVE  answer \in {"genuine", "bogus", "error"}
  BY DEF P!BusAnswer

LEMMA SoundStep ==
  PiuTyped /\ P!SimulatedOutIsSilent /\ Soundly /\ [P!Next]_P!vars => Soundly'
PROOF
<1> SUFFICES ASSUME PiuTyped, P!SimulatedOutIsSilent, Soundly, [P!Next]_P!vars,
                    NEW p \in Proc, ~disturbed'[p]
             PROVE  Sound(p)'
  BY DEF Soundly
<1>0. /\ ~disturbed[p] => Sound(p)
      /\ disturbed \in [Proc -> BOOLEAN] /\ piu_pc \in [Proc -> P!Step]
      /\ piu_lock \in Proc \cup {NoProc}
      /\ \A q \in Proc : piu_pc[q] \in P!Holding <=> piu_lock = q
  BY DEF Soundly, PiuTyped, P!TypeOK, Holds
<1>1. ASSUME NEW q \in Proc,
             \/ \E o \in Handler : P!Enter(q, o)
             \/ P!Close(q) \/ P!Locks(q) \/ P!Runs(q) \/ P!TransferFails(q)
      PROVE  Sound(p)'
  <2>1. CASE q = p
    BY <1>0, <1>1, <2>1, OwnSound
  <2>2. CASE q # p
    <3>1. /\ OthersStay(q) /\ UNCHANGED <<simulate_plug_out, simulate_cfp2_plug_out, slot, cfp2>>
          /\ ~disturbed[p]
      BY <1>1, <2>2, HandlerSteps
    <3>2. Sound(p)
      BY <1>0, <3>1
    <3>3. ~P!TransferFails(q)
      BY DEF P!TransferFails
    <3>4. CASE P!LockForType(q) \/ P!ReadIdentity(q) \/ P!ReadIdentityM487(q)
      <4>1. CASE piu_pc[p] = "type"
        BY <2>2, <3>1, <3>2, <4>1, OthersSound
      <4>2. CASE piu_pc[p] # "type"
        <5>1. piu_pc[q] = "type_m487" => slot # "aco"
          BY <3>2, <4>2 DEF Sound
        <5>2. CASE P!TypeFound(q, P!TypeNow)
          <6>1. type' = P!TypeNow /\ P!AfterType(q, P!TypeNow)
            BY <5>2 DEF P!TypeFound
          <6>2. piu_pc'[q] # "type_m487"
            <7>1. piu_pc[q] \in {"type", "type_bus", "type_m487"}
              BY <3>4 DEF P!LockForType, P!ReadIdentity, P!ReadIdentityM487
            <7>2. piu_pc'[q] \in {"done", "exists", "access"}
              BY <6>1, <7>1, AfterTypeDoes
            <7> QED BY <7>2
          <6> QED BY <2>2, <3>1, <3>2, <6>1, <6>2, OthersSound
        <5>3. CASE /\ UNCHANGED <<type, ltype, left, out>>
                   /\ P!Goto(q, "type_bus") \/ (P!Goto(q, "type_m487") /\ slot # "aco")
          <6>1. piu_pc'[q] = "type_bus" \/ slot # "aco"
            BY <1>0, <5>3 DEF P!Goto
          <6> QED BY <2>2, <3>1, <3>2, <5>3, <6>1, OthersSound
        <5> QED BY <3>4, <5>1, <5>2, <5>3, LearnsTypeNow
      <4> QED BY <4>1, <4>2
    <3>5. CASE \/ \E o \in Handler : P!Enter(q, o)
               \/ P!Close(q) \/ P!LockForExists(q) \/ P!LockForAccess(q)
               \/ P!ReadExists(q) \/ P!BusAccess(q) \/ P!Leave(q)
      <4>1. type' = type /\ piu_pc'[q] # "type_m487"
        <5>1. CASE (\E o \in Handler : P!Enter(q, o)) \/ P!Close(q) \/ P!Leave(q)
          BY <1>0, <5>1 DEF P!Enter, P!Close, P!Leave, P!Goto
        <5>2. CASE P!LockForExists(q) \/ P!ReadExists(q)
          <6>1. /\ piu_pc[q] \in {"exists", "exists_bus"} /\ type' = type
                /\ \/ P!Goto(q, "exists_bus")
                   \/ \E there \in BOOLEAN : P!AfterExists(q, there)
            BY <5>2, PresenceRead DEF P!LockForExists, P!ReadExists
          <6>2. ASSUME NEW there \in BOOLEAN, P!AfterExists(q, there)
                PROVE  piu_pc'[q] # "type_m487"
            BY <6>1, <6>2, AfterExistsDoes
          <6> QED BY <1>0, <6>1, <6>2 DEF P!Goto
        <5>3. CASE P!LockForAccess(q) \/ P!BusAccess(q)
          <6>1. /\ piu_pc[q] \in {"access", "access_bus"} /\ type' = type
                /\ \/ P!Goto(q, "access_bus")
                   \/ \E answer \in {"genuine", "bogus", "error"} : P!AfterAccess(q, answer)
            BY <5>3, BusAnswers DEF P!LockForAccess, P!BusAccess
          <6>2. ASSUME NEW answer \in {"genuine", "bogus", "error"}, P!AfterAccess(q, answer)
                PROVE  piu_pc'[q] # "type_m487"
            BY <6>1, <6>2, AfterAccessDoes
          <6> QED BY <1>0, <6>1, <6>2 DEF P!Goto
        <5> QED BY <3>5, <5>1, <5>2, <5>3
      <4> QED BY <2>2, <3>1, <3>2, <4>1, OthersSound
    <3> QED BY <1>1, <3>3, <3>4, <3>5 DEF P!Locks, P!Runs
  <2> QED BY <2>1, <2>2
<1>2. ~P!Swap /\ ~P!StoreSimulate /\ ~P!StoreSimulateCfp2
  BY DEF P!Swap, P!StoreSimulate, P!StoreSimulateCfp2
<1>3. CASE UNCHANGED P!vars
  <2>1. /\ UNCHANGED <<type, simulate_plug_out, simulate_cfp2_plug_out, slot, cfp2,
                       piu_op, piu_pc, ltype, out, disturbed>>
    BY <1>3 DEF P!vars, P!env
  <2>2. P!TypeNow' = P!TypeNow /\ P!Answer(piu_op[p])' = P!Answer(piu_op[p])
    BY <2>1, AnswersStay
  <2> QED BY <1>0, <2>1, <2>2 DEF Sound
<1> QED BY <1>1, <1>2, <1>3 DEF P!Next

-----------------------------------------------------------------------------
(* Both drivers side by side.                                              *)

LEMMA BothSpecs == Modules => Spec /\ P!Spec
PROOF
<1>1. ModulesInit => Init /\ P!Init
  BY DEF ModulesInit
<1>2. [ModulesNext]_<<part, vars, piu>> => [Next]_vars /\ [P!Next]_P!vars
  <2>1. UNCHANGED piu => UNCHANGED P!vars
    BY DEF piu, P!vars, P!env
  <2> QED BY <2>1 DEF ModulesNext
<1> QED BY <1>1, <1>2, PTL DEF Modules, Spec, P!Spec

(* The inductive invariant of Piu: its parts need each other in this order. *)
PiuInv == PiuTyped /\ P!SimulatedOutIsSilent /\ Soundly

LEMMA PiuInvariant == P!Spec => []PiuInv
PROOF
<1>1. P!Init => PiuInv
  <2>1. P!Init => Soundly
    BY DEF P!Init, Soundly
  <2> QED BY <2>1, PiuTypedInit, SilentInit DEF PiuInv
<1>2. PiuInv /\ [P!Next]_P!vars => PiuInv'
  BY PiuTypedStep, SilentStep, SoundStep DEF PiuInv
<1> QED BY <1>1, <1>2, PTL DEF P!Spec

(* Both drivers are well typed, however many processes use them and        *)
(* whatever is done to the slot and the flags.                             *)
THEOREM ModulesTyped == Modules => []ModulesTypeOK
PROOF
<1>1. PiuInv => P!TypeOK
  BY DEF PiuInv, PiuTyped
<1>2. TypeOK /\ P!TypeOK => ModulesTypeOK
  BY DEF ModulesTypeOK
<1> QED BY <1>1, <1>2, BothSpecs, TypeCorrect, PiuInvariant, PTL

(* Once simulate_plug_out or simulate_cfp2_plug_out has been set, no       *)
(* handler has a transfer under way that the flag forbids, also none that  *)
(* looked at the flag before it was set.                                   *)
THEOREM OutIsSilent == Modules => []SimulatedOutIsSilent
PROOF
<1>1. PiuInv => SimulatedOutIsSilent
  BY DEF PiuInv, SimulatedOutIsSilent
<1> QED BY <1>1, BothSpecs, PiuInvariant, PTL

(* A handler since whose question for the type neither the slot, the CFP2  *)
(* and the flags changed nor a transfer failed answers as if its process   *)
(* were alone, although the others overwrite piu->type all the time.       *)
THEOREM AnswersUndisturbed == Modules => []UndisturbedAnswer
PROOF
<1>1. PiuInv => P!UndisturbedAnswer
  BY DEF PiuInv, Soundly, Sound, P!UndisturbedAnswer
<1>2. P!UndisturbedAnswer => UndisturbedAnswer
  BY DEF UndisturbedAnswer
<1> QED BY <1>1, <1>2, BothSpecs, PiuInvariant, PTL

=============================================================================
