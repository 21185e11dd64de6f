---------------------------- MODULE IpmiService ----------------------------
(***************************************************************************)
(* What a driver may rely on when it talks to the BMC through              *)
(* ipmi_send_message, without message numbers, buffers or completions.     *)
(*                                                                         *)
(* One caller at a time is inside.  A send fails, or it is answered: with  *)
(* the reply to its own request, or, but only in a driver that has already *)
(* seen a timeout (degraded), with the reply to the request before it.     *)
(***************************************************************************)
CONSTANT Caller

VARIABLES place,     \* place[c]: outside, inside the critical section, sending
          answer,    \* answer[c]: what its last answered send was given
          degraded   \* a send has timed out since the driver was loaded

svars == <<place, answer, degraded>>

Init ==
  /\ place = [c \in Caller |-> "outside"]
  /\ answer = [c \in Caller |-> "none"]
  /\ degraded = FALSE

Move(c, from, to) ==
  /\ place[c] = from
  /\ place' = [place EXCEPT ![c] = to]

Enter(c) ==
  /\ \A d \in Caller : place[d] = "outside"
  /\ Move(c, "outside", "inside")
  /\ answer' = [answer EXCEPT ![c] = "none"]
  /\ UNCHANGED degraded

Send(c) == Move(c, "inside", "sending") /\ UNCHANGED <<answer, degraded>>

Answer(c) ==
  /\ Move(c, "sending", "inside")
  /\ \/ answer' = [answer EXCEPT ![c] = "own"]
     \/ degraded /\ answer' = [answer EXCEPT ![c] = "previous"]
  /\ UNCHANGED degraded

Fail(c) ==
  /\ Move(c, "sending", "inside")
  /\ degraded' \in {degraded, TRUE}
  /\ UNCHANGED answer

Leave(c) == Move(c, "inside", "outside") /\ UNCHANGED <<answer, degraded>>

Next == \E c \in Caller : Enter(c) \/ Send(c) \/ Answer(c) \/ Fail(c) \/ Leave(c)

Spec == Init /\ [][Next]_svars
=============================================================================
