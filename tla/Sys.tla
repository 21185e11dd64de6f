-------------------------------- MODULE Sys --------------------------------
(***************************************************************************)
(* The x86 system driver: the EEPROM behind the BMC, read in pieces of 32  *)
(* bytes, and the FPGA on the I2C bus, whose register 0x0e holds a reset   *)
(* bit for each PIU and whose registers can be read as a file.  One lock   *)
(* serves both.  Towards the BMC it is a client of IpmiService, as Led is. *)
(*                                                                         *)
(* A byte of the EEPROM is its address; the sizes are constants, so that a *)
(* small EEPROM can be checked.                                            *)
(***************************************************************************)
EXTENDS Integers, Sequences

CONSTANTS Caller,       \* the processes inside a handler
          EEPROM_SIZE,  \* the size of the file, 256
          ReadLen,      \* the bytes of a message, 32
          FruSize,      \* the bytes the BMC has
          Piu,          \* the PIUs, a subset of the register's bits
          Others,       \* the other bits of the register
          FPGA_SIZE,    \* the registers of the FPGA, 32
          Errno         \* the bits of the low byte of a failed read's error

ConstantsOK ==
  /\ EEPROM_SIZE \in Nat /\ ReadLen \in Nat \ {0} /\ FruSize \in Nat
  /\ Errno \subseteq SUBSET (Piu \cup Others)
  /\ Piu \cap Others = {}

VARIABLES place, answer, degraded,  \* of IpmiService
          op,      \* the handler a process is in
          at,      \* and its step there
          off, count, retval, buf,   \* the locals of sysfs_bin_read
          v,       \* the byte read for a reset
          reg,     \* register 0x0e: the bits that are set
          last,    \* the BMC's reply to the last request it accepted
          asked,   \* the PIUs that somebody asked to reset
          garbled  \* a read of the FPGA has failed

service == <<place, answer, degraded>>
locals == <<off, count, retval, buf>>
fpga == <<v, reg, asked, garbled>>
vars == <<service, op, at, locals, fpga, last>>

Service == INSTANCE IpmiService

None == [kind |-> "none"]
EepromRead == {[kind |-> "eeprom", off |-> o, count |-> n] : o, n \in 0..EEPROM_SIZE}
(* sysfs cuts a read at the end of the file, and an empty one returns.     *)
Handler ==
  {o \in EepromRead : o.count > 0 /\ o.off + o.count <= EEPROM_SIZE}
    \cup [kind : {"show", "store"}, piu : Piu] \cup [kind : {"regs"}, count : 1..FPGA_SIZE]
    \cup [kind : {"ignored"}]

NoReply == [ok |-> TRUE, from |-> 0, n |-> 0]

Init ==
  /\ Service!Init
  /\ op = [c \in Caller |-> None] /\ at = [c \in Caller |-> "idle"]
  /\ off = 0 /\ count = 0 /\ retval = 0 /\ buf = <<>>
  /\ v = {} /\ reg \in SUBSET Others
  /\ last = NoReply
  /\ asked = {} /\ garbled = FALSE

Goto(c, from, to) == at[c] = from /\ at' = [at EXCEPT ![c] = to]

(* A store of 0, or of less, does nothing. *)
Lock(c, o) ==
  /\ Service!Enter(c)
  /\ op' = [op EXCEPT ![c] = o]
  /\ Goto(c, "idle", IF o.kind = "ignored" THEN "done" ELSE o.kind)
  /\ IF o.kind = "eeprom" THEN off' = o.off /\ count' = o.count /\ UNCHANGED <<retval, buf>>
                          ELSE UNCHANGED locals
  /\ asked' = IF o.kind = "store" THEN asked \cup {o.piu} ELSE asked
  /\ UNCHANGED <<v, reg, garbled, last>>

-----------------------------------------------------------------------------
(* sysfs_bin_read and sys_eeprom_read.                                     *)

Send(c) ==
  /\ at[c] = "eeprom"
  /\ Service!Send(c)
  /\ UNCHANGED <<op, at, locals, fpga, last>>

(* A message asks for 32 bytes, however many are wanted.  The BMC refuses  *)
(* to read past its end.                                                   *)
Reply(ok) ==
  IF ok /\ off < FruSize
  THEN [ok |-> TRUE, from |-> off, n |-> IF off + ReadLen > FruSize THEN FruSize - off ELSE ReadLen]
  ELSE [ok |-> FALSE, from |-> off, n |-> 0]

(* Mutant: the bytes start with the count. *)
BytesShifted(reply) == [i \in 1..reply.n |-> reply.from + i]

(* The first byte of an answer is its count. *)
Bytes(reply) == [i \in 1..reply.n |-> reply.from + i - 1]

(* The read returns what it has got, or the error if that is nothing. *)
Stop(c, status) ==
  /\ at' = [at EXCEPT ![c] = "done"]
  /\ retval' = IF retval = 0 THEN status ELSE retval
  /\ UNCHANGED <<off, count, buf>>

(* Mutant: what is left to read is not counted. *)
GoOnUncounted(c, reply) ==
  /\ buf' = buf \o Bytes(reply)
  /\ off' = off + reply.n /\ retval' = retval + reply.n
  /\ at' = [at EXCEPT ![c] = IF count = reply.n THEN "done" ELSE "eeprom"]
  /\ UNCHANGED count

(* Mutant: the next piece goes where this one went. *)
GoOnInPlace(c, reply) ==
  /\ buf' = Bytes(reply)
  /\ off' = off + reply.n /\ count' = count - reply.n /\ retval' = retval + reply.n
  /\ at' = [at EXCEPT ![c] = IF count' = 0 THEN "done" ELSE "eeprom"]

(* Only when exactly nothing is left to read does the loop end by itself;  *)
(* below 0 the unsigned count starts again from the top.                   *)
GoOn(c, reply) ==
  /\ buf' = buf \o Bytes(reply)
  /\ off' = off + reply.n /\ count' = count - reply.n /\ retval' = retval + reply.n
  /\ at' = [at EXCEPT ![c] = IF count' = 0 THEN "done" ELSE "eeprom"]

(* An answer of no bytes ends the read as an error does.  The answer to    *)
(* the request before this one brings its code; the buffer holds its       *)
(* bytes, or nothing yet, or already the right ones.                       *)
Answered(c) ==
  /\ at[c] = "eeprom"
  /\ Service!Answer(c)
  /\ \E ok \in BOOLEAN :
       LET own == Reply(ok)
           code == IF answer'[c] = "own" THEN own.ok ELSE last.ok
           held == IF answer'[c] = "own" THEN {own} ELSE {NoReply, last, own} IN
       /\ last' = own
       /\ \E reply \in held :
            IF ~code THEN Stop(c, -1)
            ELSE IF reply.n = 0 THEN Stop(c, 0) ELSE GoOn(c, reply)
  /\ UNCHANGED <<op, fpga>>

Fails(c) ==
  /\ at[c] = "eeprom"
  /\ Service!Fail(c)
  /\ \/ UNCHANGED last
     \/ degraded' /\ \E ok \in BOOLEAN : last' = Reply(ok)
  /\ Stop(c, -1)
  /\ UNCHANGED <<op, fpga>>

-----------------------------------------------------------------------------
(* The FPGA: show_piu_reset, store_piu_reset and fpga_read.                *)

(* A read of a register that fails returns a negative error, of which the  *)
(* callers use the bits.                                                   *)
ReadByte(c) ==
  /\ \/ v' = reg /\ UNCHANGED garbled
     \/ v' \in Errno /\ garbled' = TRUE
  /\ \/ Goto(c, "show", "done")
     \/ Goto(c, "store", "write")
  /\ UNCHANGED <<service, op, locals, reg, asked, last>>

(* Mutant: the byte is written without what was read. *)
WriteOnly(c) ==
  /\ Goto(c, "write", "done")
  /\ reg' \in {reg, {op[c].piu}}
  /\ v' = {}
  /\ UNCHANGED <<service, op, locals, asked, garbled, last>>

(* Mutant: the PIUs count from 0. *)
WriteNext(c) ==
  /\ Goto(c, "write", "done")
  /\ reg' \in {reg, v \cup {op[c].piu + 1}}
  /\ v' = {}
  /\ UNCHANGED <<service, op, locals, asked, garbled, last>>

(* Bits are only ever set.  A write may fail, which nobody looks at. *)
WriteByte(c) ==
  /\ Goto(c, "write", "done")
  /\ reg' \in {reg, v \cup {op[c].piu}}
  /\ v' = {}
  /\ UNCHANGED <<service, op, locals, asked, garbled, last>>

(* The registers are read from the first one, wherever the read starts. *)
ReadRegisters(c) ==
  /\ Goto(c, "regs", "done")
  /\ retval' = op[c].count
  /\ UNCHANGED <<service, op, off, count, buf, fpga, last>>

(* The FPGA ends a reset. *)
Release(p) ==
  /\ p \in reg /\ reg' = reg \ {p}
  /\ UNCHANGED <<service, op, at, locals, v, asked, garbled, last>>

Unlock(c) ==
  /\ at[c] = "done" /\ at' = [at EXCEPT ![c] = "idle"]
  /\ Service!Leave(c)
  /\ op' = [op EXCEPT ![c] = None]
  /\ off' = 0 /\ count' = 0 /\ retval' = 0 /\ buf' = <<>> /\ v' = {}
  /\ UNCHANGED <<reg, asked, garbled, last>>

Next ==
  \/ \E c \in Caller :
       \/ \E o \in Handler : Lock(c, o)
       \/ Send(c) \/ Answered(c) \/ Fails(c)
       \/ ReadByte(c) \/ WriteByte(c) \/ ReadRegisters(c) \/ Unlock(c)
  \/ \E p \in Piu : Release(p)

Spec == Init /\ [][Next]_vars

-----------------------------------------------------------------------------
(* Properties.                                                             *)

TypeOK ==
  /\ op \in [Caller -> Handler \cup {None}]
  /\ at \in [Caller -> {"idle", "eeprom", "show", "store", "write", "regs", "done"}]
  /\ off \in Nat /\ count \in Int /\ retval \in Int
  /\ buf \in Seq(0..FruSize - 1)
  /\ v \subseteq Piu \cup Others /\ reg \subseteq Piu \cup Others

Ends(c, kind) == at[c] = "done" /\ op[c].kind = kind

(* Whatever piece of a read of the EEPROM fails or comes short, what the   *)
(* read returns are the bytes it was asked for, from the first one on and  *)
(* in order; as long as no message has timed out.                          *)
ReadsInOrder ==
  ~degraded => \A c \in Caller : Ends(c, "eeprom") /\ retval > 0 =>
    retval <= Len(buf) /\ \A i \in 1..retval : buf[i] = op[c].off + i - 1

(* As many bytes as some number of messages brings. *)
Whole(n) == \E k \in 0..n : n = k * ReadLen

(* A read of whole pieces never gets more bytes than it has room for.  Any *)
(* other does: the count passes 0 and the loop goes on to the end of the   *)
(* EEPROM.                                                                 *)
WholePiecesFit ==
  ~degraded => \A c \in Caller :
    op[c].kind = "eeprom" /\ Whole(op[c].count) => Len(buf) <= op[c].count

(* Two stores and the FPGA itself change one register: a store clears no   *)
(* bit, whatever happens between its read and its write, unless a read of  *)
(* the FPGA has failed.                                                    *)
StoresOnlySet ==
  [][~garbled' /\ ~(\E p \in Piu : Release(p)) => reg \subseteq reg']_reg

(* A PIU is reset only after somebody asked for it, unless a read of the   *)
(* FPGA has failed: then the bits of the error reset any.                  *)
ResetsWereAsked == ~garbled => reg \cap Piu \subseteq asked
=============================================================================
