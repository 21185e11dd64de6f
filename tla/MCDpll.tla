------------------------------- MODULE MCDpll -------------------------------
(* Instances of Dpll for TLC: one priority register, hence two pins that   *)
(* share it, and the raw requests that can disturb them.                   *)
EXTENDS Dpll, TLC

Stores ==
  {[kind |-> "prio_store", pin |-> 0, arg |-> 1],
   [kind |-> "prio_store", pin |-> 1, arg |-> 1],
   [kind |-> "prio_store", pin |-> 1, arg |-> 0],
   [kind |-> "mode_store", arg |-> MODE_AUTOMATIC],
   [kind |-> "mode_store", arg |-> MODE_FREERUN]}

Shows == {[kind |-> "mode_show"], [kind |-> "status_show"],
          [kind |-> "prio_show", pin |-> 1]}

(* The page register, a register at the offset of MODE and REF_PRIO on     *)
(* another page, a window register, the mailbox mask, and a read of page 0 *)
Raw ==
  {[kind |-> "ioctl_page", page |-> 4, data |-> 12],
   [kind |-> "ioctl_write", reg |-> <<2, 20>>, data |-> <<1, 1>>],
   [kind |-> "ioctl_write", reg |-> REF_PRIO(0), data |-> <<1, 1>>],
   [kind |-> "ioctl_write", reg |-> MB_MASK, data |-> <<0, 1>>],
   [kind |-> "ioctl_read", reg |-> <<0, 25>>]}

MCRaw == Stores \cup Raw \cup {[kind |-> "mode_show"], [kind |-> "prio_show", pin |-> 1]}
MCAll == Stores \cup Shows

(* Nothing is claimed once a refused ioctl has unlocked another's mutex. *)
UntilStray == ~stray
MCSymmetry == Permutations(Proc)
=============================================================================
