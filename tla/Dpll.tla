-------------------------------- MODULE Dpll --------------------------------
(***************************************************************************)
(* The DPLL character/sysfs driver of the arm64 board (dpll/main.c): a     *)
(* clock chip behind a paged register window on I2C, shared by any number  *)
(* of processes under one mutex.                                           *)
(*                                                                         *)
(* A handler is a script of register accesses done under priv->lock.  An   *)
(* access selects the page if the cached current_page differs and then     *)
(* reads or writes the register at the offset: two I2C transfers, each     *)
(* atomic and each able to fail.  The chip resolves an offset against its  *)
(* own page latch, whatever the driver believes.                           *)
(*                                                                         *)
(* A register holds a pair of nibbles <<high, low>>.  The input priorities *)
(* sit behind a mailbox: MB_SEM = 2 loads the window registers REF_PRIO_x  *)
(* from the priority table, MB_SEM = 1 stores the window to the table.     *)
(***************************************************************************)
EXTENDS Integers, Sequences

CONSTANTS Proc,       \* processes using sysfs files or /dev/dpll1
          NoProc,     \* the mutex is free
          Pairs,      \* number of REF_PRIO registers, two input pins each
          Page,       \* the pages a register access or a raw write can name
          Nib,        \* the nibbles used as modes, priorities and raw data
          Request,    \* the calls processes make, a subset of AllRequests
          Unprivileged\* the processes whose ioctls are refused

ASSUME ProcAssumption == NoProc \notin Proc
ASSUME PairsAssumption == Pairs \in 1..4
ASSUME PageAssumption == {0, 2, 4, 12} \subseteq Page /\ Page \subseteq Nat
ASSUME NibAssumption ==
  /\ 0..3 \subseteq Nib /\ Nib \subseteq 0..15
  /\ \A n \in Nib : {(n \div 8) * 8, (n \div 8) * 8 + 3} \subseteq Nib

Pin == 0..(2 * Pairs - 1)

PAGE_OFFSET_ADDR == 127
MODE_REFSEL_1 == <<4, 20>>        \* 0x0214
MON_STATUS_1 == <<2, 25>>         \* 0x0119
MB_MASK == <<12, 3>>              \* 0x0603
MB_SEM == <<12, 4>>               \* 0x0604
REF_PRIO(pin) == <<12, 20 + pin \div 2>>   \* 0x0614 + pin/2

MODE_FREERUN == 0
MODE_AUTOMATIC == 3

DPLL1_MAILBOX == <<0, 2>>
MB_READ == <<0, 2>>
MB_WRITE == <<0, 1>>

Offset == {3, 4, 25} \cup (20..(19 + Pairs))
Cell == Page \X Offset
Value == Nib \X Nib

AllRequests ==
  [kind : {"mode_show", "status_show"}]
    \cup [kind : {"mode_store"}, arg : {MODE_FREERUN, MODE_AUTOMATIC}]
    \cup [kind : {"prio_show"}, pin : Pin]
    \cup [kind : {"prio_store"}, pin : Pin, arg : Nib]
    \cup [kind : {"ioctl_read"}, reg : Cell]
    \cup [kind : {"ioctl_write"}, reg : Cell, data : Value]
    \cup [kind : {"ioctl_page"}, page : Page, data : Page]

ASSUME RequestAssumption ==
  /\ Request \subseteq AllRequests
  /\ Unprivileged \subseteq Proc

VARIABLES lock,         \* priv->lock: its owner or NoProc
          pc,           \* idle, blocked on the mutex, running its
                        \*   script or with the page of its next access selected
          op,           \* the handler each process is in
          step,         \* the index of its next access
          val,          \* the value its last read returned
          current_page, \* priv->current_page
          chipPage,     \* the chip's page latch
          chip,         \* the chip's registers
          table,        \* the priorities in force
          synced,       \* the driver has selected the page since probe or since
                        \*   the last raw write of the page register
          stray         \* an ioctl that never locked has unlocked the mutex

chipVars == <<chipPage, chip, table>>
vars == <<lock, pc, op, step, val, current_page, chipVars, synced, stray>>

-----------------------------------------------------------------------------
(* The handlers as scripts.                                                *)

R(reg) == [write |-> FALSE, reg |-> reg]
W(reg) == [write |-> TRUE, reg |-> reg]

None == [kind |-> "none"]

(* Mutant: the prio handlers read the window without loading it first. *)
ScriptUnloaded(o) ==
  CASE o.kind = "mode_show" -> <<R(MODE_REFSEL_1)>>
    [] o.kind = "mode_store" -> <<R(MODE_REFSEL_1), W(MODE_REFSEL_1)>>
    [] o.kind = "prio_show" -> <<W(MB_MASK), R(REF_PRIO(o.pin))>>
    [] o.kind = "prio_store" -> <<W(MB_MASK), R(REF_PRIO(o.pin)),
                                  W(REF_PRIO(o.pin)), W(MB_SEM)>>
    [] o.kind = "ioctl_write" -> <<W(o.reg)>>
    [] OTHER -> <<>>

(* get_mode, set_mode, get_automatic_mode_status, get_prio, set_prio and   *)
(* the two ioctls.  ioctl_page is DPLL_WRITE with offset 0x7F.             *)
Script(o) ==
  CASE o.kind = "mode_show" -> <<R(MODE_REFSEL_1)>>
    [] o.kind = "status_show" -> <<R(MODE_REFSEL_1), R(MON_STATUS_1)>>
    [] o.kind = "mode_store" -> <<R(MODE_REFSEL_1), W(MODE_REFSEL_1)>>
    [] o.kind = "prio_show" -> <<W(MB_MASK), W(MB_SEM), R(REF_PRIO(o.pin))>>
    [] o.kind = "prio_store" -> <<W(MB_MASK), W(MB_SEM), R(REF_PRIO(o.pin)),
                                  W(REF_PRIO(o.pin)), W(MB_SEM)>>
    [] o.kind = "ioctl_read" -> <<R(o.reg)>>
    [] o.kind = "ioctl_write" -> <<W(o.reg)>>
    [] o.kind = "ioctl_page" -> <<W(<<o.page, PAGE_OFFSET_ADDR>>)>>
    [] OTHER -> <<>>

Access(c) == Script(op[c])[step[c]]

(* Mutant: `high` added to the page of every address. *)
PageOfAlwaysHigh(c) == Access(c).reg[1] + 1

PageOf(c) == Access(c).reg[1]
OffsetOf(c) == Access(c).reg[2]

(* The mode is the low three bits of its register. *)
Mode(v) == v[2] % 8
WithMode(v, m) == <<v[1], (v[2] \div 8) * 8 + m>>

(* set_mode has nothing to write, the status needs automatic mode. *)
StopsEarly(c) ==
  /\ step[c] = 2
  /\ \/ op[c].kind = "mode_store" /\ Mode(val[c]) = op[c].arg
     \/ op[c].kind = "status_show" /\ Mode(val[c]) # MODE_AUTOMATIC

Finished(c) == step[c] > Len(Script(op[c])) \/ StopsEarly(c)

(* Mutant: the nibbles of the even and the odd pin exchanged. *)
SetOtherNibble(v, pin, n) == IF pin % 2 = 0 THEN <<v[1], n>> ELSE <<n, v[2]>>

SetNibble(v, pin, n) == IF pin % 2 = 1 THEN <<v[1], n>> ELSE <<n, v[2]>>

(* The byte a writing access sends. *)
DataOf(c) ==
  LET o == op[c] IN
  CASE o.kind = "mode_store" -> WithMode(val[c], o.arg)
    [] o.kind = "ioctl_write" -> o.data
    [] Access(c).reg = MB_MASK -> DPLL1_MAILBOX
    [] Access(c).reg = MB_SEM -> IF step[c] = 2 THEN MB_READ ELSE MB_WRITE
    [] OTHER -> SetNibble(val[c], o.pin, o.arg)

-----------------------------------------------------------------------------
(* The chip.                                                               *)

(* The window registers filled from the table, and the table they describe. *)
Loaded(regs) ==
  [x \in Cell |-> IF \E k \in 0..(Pairs - 1) : x = <<12, 20 + k>>
                    THEN <<table[2 * (x[2] - 20)], table[2 * (x[2] - 20) + 1]>>
                    ELSE regs[x]]

Stored(regs) ==
  [p \in Pin |-> IF p % 2 = 1 THEN regs[REF_PRIO(p)][2] ELSE regs[REF_PRIO(p)][1]]

MailboxSelected == chip[MB_MASK] = DPLL1_MAILBOX

(* A byte written at an offset reaches the register of the latched page;   *)
(* one written to MB_SEM also runs the mailbox.                            *)
ChipWrite(offset, v) ==
  LET hit == <<chipPage, offset>>
      regs == [chip EXCEPT ![hit] = v] IN
  /\ chip' = IF hit = MB_SEM /\ v = MB_READ /\ MailboxSelected
               THEN Loaded(regs) ELSE regs
  /\ table' = IF hit = MB_SEM /\ v = MB_WRITE /\ MailboxSelected
                THEN Stored(regs) ELSE table
  /\ UNCHANGED chipPage

-----------------------------------------------------------------------------
Init ==
  /\ lock = NoProc
  /\ pc = [c \in Proc |-> "idle"]
  /\ op = [c \in Proc |-> None]
  /\ step = [c \in Proc |-> 1]
  /\ val = [c \in Proc |-> <<0, 0>>]
  /\ current_page = 0
  /\ chipPage \in Page
  /\ chip = [x \in Cell |-> <<0, 0>>]
  /\ table = [p \in Pin |-> 0]
  /\ synced = FALSE
  /\ stray = FALSE

(* A process enters a handler, its arguments checked, and reaches mutex_lock. *)
Call(c, o) ==
  /\ pc[c] = "idle"
  /\ pc' = [pc EXCEPT ![c] = "blocked"]
  /\ op' = [op EXCEPT ![c] = o]
  /\ UNCHANGED <<lock, step, val, current_page, chipVars, synced, stray>>

Lock(c) ==
  /\ pc[c] = "blocked"
  /\ lock = NoProc
  /\ lock' = c
  /\ pc' = [pc EXCEPT ![c] = "running"]
  /\ UNCHANGED <<op, step, val, current_page, chipVars, synced, stray>>

(* The handler is left and its locals with it. *)
Return(c) ==
  /\ pc' = [pc EXCEPT ![c] = "idle"]
  /\ op' = [op EXCEPT ![c] = None]
  /\ step' = [step EXCEPT ![c] = 1]
  /\ val' = [val EXCEPT ![c] = <<0, 0>>]

(* Mutant: the page is selected and not remembered. *)
SelectPageUncached(c) ==
  /\ pc[c] = "running" /\ ~Finished(c)
  /\ pc' = [pc EXCEPT ![c] = "selected"]
  /\ IF current_page # PageOf(c)
       THEN chipPage' = PageOf(c) /\ synced' = TRUE
       ELSE UNCHANGED <<chipPage, synced>>
  /\ UNCHANGED <<lock, op, step, val, current_page, chip, table, stray>>

(* First half of dpll_read and dpll_write: the page is current or is       *)
(* selected, on the chip and then in current_page.                         *)
SelectPage(c) ==
  /\ pc[c] = "running" /\ ~Finished(c)
  /\ pc' = [pc EXCEPT ![c] = "selected"]
  /\ IF current_page # PageOf(c)
       THEN /\ chipPage' = PageOf(c)
            /\ current_page' = PageOf(c)
            /\ synced' = TRUE
       ELSE UNCHANGED <<chipPage, current_page, synced>>
  /\ UNCHANGED <<lock, op, step, val, chip, table, stray>>

(* Mutant: the status is read again until the mode is automatic. *)
TransferAgain(c) ==
  /\ pc[c] = "selected"
  /\ pc' = [pc EXCEPT ![c] = "running"]
  /\ step' = IF op[c].kind = "status_show" /\ step[c] = 1 THEN step
             ELSE [step EXCEPT ![c] = @ + 1]

(* Second half: the byte is read or written at the offset. *)
Transfer(c) ==
  /\ pc[c] = "selected"
  /\ pc' = [pc EXCEPT ![c] = "running"]
  /\ step' = [step EXCEPT ![c] = @ + 1]

Read(c) ==
  /\ Transfer(c)
  /\ ~Access(c).write
  /\ val' = [val EXCEPT ![c] = chip[<<chipPage, OffsetOf(c)>>]]
  /\ UNCHANGED <<lock, op, current_page, chipVars, synced, stray>>

Write(c) ==
  /\ Transfer(c)
  /\ Access(c).write
  /\ op[c].kind # "ioctl_page"
  /\ ChipWrite(OffsetOf(c), DataOf(c))
  /\ UNCHANGED <<lock, op, val, current_page, synced, stray>>

(* A raw write of the page register moves the chip's latch and leaves      *)
(* current_page as it is.                                                  *)
WritePageRegister(c) ==
  /\ Transfer(c)
  /\ op[c].kind = "ioctl_page"
  /\ chipPage' = op[c].data
  /\ synced' = FALSE
  /\ UNCHANGED <<lock, op, val, current_page, chip, table, stray>>

Busy(c) == pc[c] \in {"running", "selected"}

Store(o) == o.kind \in {"mode_store", "prio_store"}

(* An I2C transfer fails and has no effect on the chip.  The store         *)
(* handlers return without mutex_unlock, every other path unlocks.         *)
TransferFails(c) ==
  /\ Busy(c) /\ ~Finished(c)
  /\ Return(c)
  /\ lock' = IF Store(op[c]) THEN lock ELSE NoProc
  /\ UNCHANGED <<current_page, chipVars, synced, stray>>

Unlock(c) ==
  /\ pc[c] = "running" /\ Finished(c)
  /\ Return(c)
  /\ lock' = NoProc
  /\ UNCHANGED <<current_page, chipVars, synced, stray>>

(* dpll_ioctl without CAP_SYS_ADMIN or with a bad pointer goes to done and *)
(* unlocks the mutex it never locked: whoever owns it loses it.            *)
IoctlRejected(c) ==
  /\ c \in Unprivileged
  /\ pc[c] = "idle"
  /\ stray' = (stray \/ lock # NoProc)
  /\ lock' = NoProc
  /\ UNCHANGED <<pc, op, step, val, current_page, chipVars, synced>>

Run(c) ==
  \/ Lock(c) \/ SelectPage(c) \/ Read(c) \/ Write(c) \/ WritePageRegister(c)
  \/ TransferFails(c) \/ Unlock(c)

Next == \E c \in Proc :
  \/ \E o \in Request : Call(c, o)
  \/ Run(c)
  \/ IoctlRejected(c)

Spec == Init /\ [][Next]_vars

-----------------------------------------------------------------------------
(* Properties.                                                             *)

TypeOK ==
  /\ lock \in Proc \cup {NoProc}
  /\ pc \in [Proc -> {"idle", "blocked", "running", "selected"}]
  /\ op \in [Proc -> Request \cup {None}]
  /\ step \in [Proc -> 1..6]
  /\ val \in [Proc -> Value]
  /\ current_page \in Page /\ chipPage \in Page
  /\ chip \in [Cell -> Value]
  /\ table \in [Pin -> Nib]
  /\ synced \in BOOLEAN /\ stray \in BOOLEAN

(* The cached page number saves an I2C write per access and must never     *)
(* send a byte to the wrong register: whenever the offset is about to be   *)
(* put on the bus, the chip's latch is the page the address names.  Two    *)
(* things void it, and the model says which: no page has been selected     *)
(* since probe or since a raw write of the page register, or a refused     *)
(* ioctl has unlocked a mutex it did not own.                              *)
AccessHits ==
  synced /\ ~stray =>
    \A c \in Proc : pc[c] = "selected" => chipPage = PageOf(c)

(* Two pins share a priority register and the mailbox stores all of them   *)
(* at once, so a priority is changed by five accesses.  Still each change  *)
(* of the table is the one a running prio_store asked for, on its pin      *)
(* alone, and the mode register changes only by mode_store, which keeps    *)
(* the other bits; raw writes of these registers apart.                    *)
ChangesAsAsked ==
  [][synced /\ ~stray =>
      /\ table' # table => \E c \in Proc :
           /\ pc[c] = "selected"
           /\ \/ /\ op[c].kind = "prio_store"
                 /\ table' = [table EXCEPT ![op[c].pin] = op[c].arg]
              \/ op[c].kind = "ioctl_write" /\ op[c].reg = MB_SEM
      /\ chip'[MODE_REFSEL_1] # chip[MODE_REFSEL_1] => \E c \in Proc :
           /\ pc[c] = "selected"
           /\ \/ /\ op[c].kind = "mode_store"
                 /\ chip'[MODE_REFSEL_1] = WithMode(chip[MODE_REFSEL_1], op[c].arg)
              \/ op[c].kind = "ioctl_write" /\ op[c].reg = MODE_REFSEL_1]_vars

NibbleOf(v, pin) == IF pin % 2 = 1 THEN v[2] ELSE v[1]

(* A show that succeeds tells what is in force when it returns: the        *)
(* priority comes out of the table by way of a mailbox other handlers and  *)
(* raw writes leave in any state, the mode out of a paged register.        *)
ShowsInForce ==
  synced /\ ~stray =>
    \A c \in Proc : pc[c] = "running" /\ Finished(c) =>
      /\ op[c].kind = "prio_show" => NibbleOf(val[c], op[c].pin) = table[op[c].pin]
      /\ op[c].kind = "mode_show" => val[c] = chip[MODE_REFSEL_1]
=============================================================================
