------------------------------ MODULE Transfer ------------------------------
(***************************************************************************)
(* What every benchmark of the repository promises, whatever mechanism it  *)
(* measures: one process hands count messages to another through a channel *)
(* that holds at most Capacity of them.  A message is received only after  *)
(* it was sent, none is lost, none is received twice, and the sender is    *)
(* held back while the channel is full.                                    *)
(*                                                                         *)
(* ShmSem, StreamPair and MsgQueue are shown to implement this module.     *)
(***************************************************************************)
EXTENDS Naturals

CONSTANT Capacity     \* messages the channel holds at once

VARIABLES count,      \* messages of this run, the <count> argument
          sent,       \* messages handed to the channel in this run
          received    \* messages taken out of it in this run

vars == <<count, sent, received>>

Init == sent = 0 /\ received = 0

Send ==
    /\ sent < count
    /\ sent - received < Capacity
    /\ sent' = sent + 1
    /\ UNCHANGED <<count, received>>

Receive ==
    /\ received < sent
    /\ received' = received + 1
    /\ UNCHANGED <<count, sent>>

(* The program is started again: a run transfers its own count messages.   *)
Restart == sent' = 0 /\ received' = 0

Next == Send \/ Receive \/ Restart

Spec == Init /\ [][Next]_vars
=============================================================================
