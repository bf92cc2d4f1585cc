------------------------------ MODULE Datagram ------------------------------
(***************************************************************************)
(* udp.c, and UDPSocket in ipc_bm.c: a sender (the parent) sends Count     *)
(* datagrams of size bytes to a receiver (the child) on the loopback       *)
(* interface.  Nothing holds the sender back: a datagram that finds no     *)
(* bound socket or a full receive buffer is dropped, and sendto returns    *)
(* size all the same.  The receiver makes Count recv calls and then        *)
(* compares the bytes it got with Count * size.                            *)
(*                                                                         *)
(* Datagrams are counted, not told apart.  Count * size is taken to fit    *)
(* into an int.                                                            *)
(***************************************************************************)
EXTENDS Integers

CONSTANTS
    Sizes,             \* the <size> arguments the run may be started with
    Count,             \* the <count> argument
    Slots,             \* datagrams the receive buffer holds
    MaxKills,          \* bound: processes killed
    MaxErrors,         \* bound: failing bind, recv and sendto calls
    SleepCoversSetup,  \* TRUE: the receiver is bound within the sender's sleep(1)
    ForkMayFail        \* whether fork may return -1

ASSUME ArgAssumption == Sizes \subseteq Nat /\ Count \in Nat /\ Slots \in Nat \ {0}
ASSUME EnvAssumption == MaxKills \in Nat /\ MaxErrors \in Nat
ASSUME OsAssumption  == SleepCoversSetup \in BOOLEAN /\ ForkMayFail \in BOOLEAN

(* What the two programs do after a failing recv or sendto.                *)
udp       == [onError |-> "return"]
UDPSocket == [onError |-> "continue"]

Programs == {udp, UDPSocket}

VARIABLES
    prog,       \* the program that runs
    size,       \* its message size
    inbox,      \* datagrams in the receive buffer
    lost,       \* datagrams dropped
    sum,        \* the receiver's sum
    pc, alive,  \* where each process stands; FALSE once it is gone
    i,          \* each process's loop counter
    kills, errors   \* processes killed; calls that failed

vars == <<prog, size, inbox, lost, sum, pc, alive, i, kills, errors>>

Receiver == "receiver"    \* the child
Sender == "sender"        \* the parent
Proc == {Receiver, Sender}

Stopped == {"done", "failed", "sumError"}
Ended(p) == ~alive[p] \/ pc[p] \in Stopped
At(p, label) == alive[p] /\ pc[p] = label
Goto(p, label) == pc' = [pc EXCEPT ![p] = label]
Advance(p) == i' = [i EXCEPT ![p] = @ + 1]

(* The receiver's socket: bound from its bind to its end.                  *)
Bound == At(Receiver, "recv") \/ At(Receiver, "check")
-----------------------------------------------------------------------------
(* The receiver.                                                           *)
ReceiverBind ==
    /\ At(Receiver, "bind")
    /\ \/ Goto(Receiver, "recv") /\ UNCHANGED errors
       \/ errors < MaxErrors /\ errors' = errors + 1 /\ Goto(Receiver, "failed")
    /\ UNCHANGED <<prog, size, inbox, lost, sum, alive, i, kills>>

Receiving == At(Receiver, "recv") /\ i[Receiver] < Count

(* Mutant: the datagram is only peeked at.                                 *)
ReceiverReceive_peeks ==
    /\ Receiving
    /\ inbox > 0
    /\ sum' = sum + size
    /\ \/ size = 0 /\ Goto(Receiver, "check") /\ UNCHANGED i
       \/ size > 0 /\ Advance(Receiver) /\ UNCHANGED pc
    /\ UNCHANGED <<prog, size, inbox, lost, alive, kills, errors>>

(* recv waits for a datagram and returns its size bytes; an empty one is   *)
(* taken for the end and leaves the loop.                                  *)
ReceiverReceive ==
    /\ Receiving
    /\ inbox > 0
    /\ inbox' = inbox - 1
    /\ sum' = sum + size
    /\ \/ size = 0 /\ Goto(Receiver, "check") /\ UNCHANGED i
       \/ size > 0 /\ Advance(Receiver) /\ UNCHANGED pc
    /\ UNCHANGED <<prog, size, lost, alive, kills, errors>>

(* recv returns -1; UDPSocket adds it to the sum and goes on.              *)
ReceiverError ==
    /\ Receiving
    /\ errors < MaxErrors
    /\ errors' = errors + 1
    /\ \/ /\ prog.onError = "return"
          /\ Goto(Receiver, "failed")
          /\ UNCHANGED <<sum, i>>
       \/ /\ prog.onError = "continue"
          /\ sum' = sum - 1
          /\ Advance(Receiver)
          /\ UNCHANGED pc
    /\ UNCHANGED <<prog, size, inbox, lost, alive, kills>>

(* Mutant: only a sum that is too large is an error.                       *)
ReceiverCheck_lenient ==
    /\ \/ At(Receiver, "check")
       \/ At(Receiver, "recv") /\ i[Receiver] = Count
    /\ Goto(Receiver, IF sum <= Count * size THEN "done" ELSE "sumError")
    /\ UNCHANGED <<prog, size, inbox, lost, sum, alive, i, kills, errors>>

(* if (sum != count * size), close and exit.                               *)
ReceiverCheck ==
    /\ \/ At(Receiver, "check")
       \/ At(Receiver, "recv") /\ i[Receiver] = Count
    /\ Goto(Receiver, IF sum = Count * size THEN "done" ELSE "sumError")
    /\ UNCHANGED <<prog, size, inbox, lost, sum, alive, i, kills, errors>>

ReceiverNext == ReceiverBind \/ ReceiverReceive \/ ReceiverCheck
-----------------------------------------------------------------------------
(* The sender.                                                             *)

(* sleep(1) orders nothing by itself.                                      *)
SenderWake ==
    /\ At(Sender, "sleep")
    /\ SleepCoversSetup => Ended(Receiver) \/ pc[Receiver] # "bind"
    /\ Goto(Sender, "send")
    /\ UNCHANGED <<prog, size, inbox, lost, sum, alive, i, kills, errors>>

Sending == At(Sender, "send") /\ i[Sender] < Count

(* sendto never waits: the datagram is queued or dropped.                  *)
SenderSend ==
    /\ Sending
    /\ \/ Bound /\ inbox < Slots /\ inbox' = inbox + 1 /\ UNCHANGED lost
       \/ ~(Bound /\ inbox < Slots) /\ lost' = lost + 1 /\ UNCHANGED inbox
    /\ Advance(Sender)
    /\ UNCHANGED <<prog, size, sum, pc, alive, kills, errors>>

(* sendto returns -1, for example for a size beyond 65507.                 *)
SenderError ==
    /\ Sending
    /\ errors < MaxErrors
    /\ errors' = errors + 1
    /\ \/ prog.onError = "return" /\ Goto(Sender, "failed") /\ UNCHANGED i
       \/ prog.onError = "continue" /\ Advance(Sender) /\ UNCHANGED pc
    /\ UNCHANGED <<prog, size, inbox, lost, sum, alive, kills>>

(* Mutant: the loop stops one message early.                               *)
SenderReport_early ==
    /\ At(Sender, "send") /\ i[Sender] = Count - 1
    /\ Goto(Sender, "done")
    /\ UNCHANGED <<prog, size, inbox, lost, sum, alive, i, kills, errors>>

(* The report; UDPSocket's waitpid does not accept WEXITED and returns.    *)
SenderReport ==
    /\ At(Sender, "send") /\ i[Sender] = Count
    /\ Goto(Sender, "done")
    /\ UNCHANGED <<prog, size, inbox, lost, sum, alive, i, kills, errors>>

SenderNext == SenderWake \/ SenderSend \/ SenderReport
-----------------------------------------------------------------------------
Kill(p) ==
    /\ kills < MaxKills
    /\ ~Ended(p)
    /\ kills' = kills + 1
    /\ alive' = [alive EXCEPT ![p] = FALSE]
    /\ UNCHANGED <<prog, size, inbox, lost, sum, pc, i, errors>>

Terminating == (\A p \in Proc : Ended(p)) /\ UNCHANGED vars

(* After the fork, whose result is not compared with -1.                   *)
Init ==
    /\ prog \in Programs /\ size \in Sizes
    /\ inbox = 0 /\ lost = 0 /\ sum = 0
    /\ pc = [p \in Proc |-> IF p = Receiver THEN "bind" ELSE "sleep"]
    /\ \/ alive = [p \in Proc |-> TRUE]
       \/ ForkMayFail /\ alive = [p \in Proc |-> p = Sender]
    /\ i = [p \in Proc |-> 0]
    /\ kills = 0 /\ errors = 0

Next ==
    \/ ReceiverNext \/ ReceiverError
    \/ SenderNext \/ SenderError
    \/ \E p \in Proc : Kill(p)
    \/ Terminating

Spec == Init /\ [][Next]_vars

(* The scheduler runs a process that is not blocked in a call.             *)
FairSpec == Spec /\ WF_vars(ReceiverNext) /\ WF_vars(SenderNext)
-----------------------------------------------------------------------------
(* Type invariant.                                                         *)
TypeOK ==
    /\ prog \in Programs /\ size \in Sizes
    /\ inbox \in 0..Slots /\ lost \in 0..Count /\ sum \in Int
    /\ pc \in [Proc -> {"bind", "recv", "check", "sleep", "send"} \cup Stopped]
    /\ pc[Receiver] \notin {"sleep", "send"}
    /\ pc[Sender] \notin {"bind", "recv", "check", "sumError"}
    /\ alive \in [Proc -> BOOLEAN]
    /\ i \in [Proc -> 0..Count]
    /\ kills \in 0..MaxKills /\ errors \in 0..MaxErrors

(* Every datagram is received, waiting or lost, none of them twice.        *)
Conservation ==
    size > 0 /\ errors = 0 => i[Sender] = i[Receiver] + inbox + lost

(* A run that passes the check of udp.c:65 lost nothing: the receiver      *)
(* counts datagrams as well as bytes, so a single lost or failed one keeps *)
(* it from reaching the check, or fails it.                                *)
OnlyCompleteRunsPass ==
    size > 0 /\ pc[Receiver] = "done" =>
        lost = 0 /\ inbox = 0 /\ i[Sender] = Count /\ errors = 0

(* On the other hand the check never reports a loss: with one datagram     *)
(* missing the receiver waits in recv instead.                             *)
LossNotReported == errors = 0 => pc[Receiver] # "sumError"

(* The check of udp.c:65 has one meaning only: a loss shows as a hang.     *)
LossShowsAsHang == OnlyCompleteRunsPass /\ LossNotReported

Blocked(p) == p = Receiver /\ Receiving /\ inbox = 0

(* The sender never waits, and the receiver waits for ever only if a       *)
(* datagram was dropped, or the sender was killed or had an error.         *)
HangHasCause ==
    \/ \E p \in Proc : ~Ended(p) /\ ~Blocked(p)
    \/ \A p \in Proc : Ended(p)
    \/ lost > 0 \/ errors > 0 \/ ~alive[Sender]

(* If nothing is lost, killed or failing, both sides finish.               *)
Undisturbed == lost = 0 /\ errors = 0 /\ \A p \in Proc : alive[p]

CompletesUnlessLost ==
    []Undisturbed => <>(\A p \in Proc : pc[p] = "done")
=============================================================================
