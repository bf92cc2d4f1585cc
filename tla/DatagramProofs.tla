--------------------------- MODULE DatagramProofs ---------------------------
(***************************************************************************)
(* Proofs about Datagram: what the sum check of udp.c says about lost      *)
(* datagrams, for every set of sizes, count and receive buffer, whichever  *)
(* calls fail and whoever is killed.                                       *)
(***************************************************************************)
EXTENDS Datagram, TLAPS

(* What the loop counters say where the processes stand.                   *)
Positions ==
    /\ pc[Sender] = "sleep" => i[Sender] = 0
    /\ pc[Sender] = "failed" => i[Sender] < Count
    /\ pc[Sender] = "done" => i[Sender] = Count
    /\ pc[Receiver] = "bind" => i[Receiver] = 0
    /\ pc[Receiver] = "check" => size = 0
    /\ pc[Receiver] \in {"done", "sumError"} => size = 0 \/ i[Receiver] = Count
    /\ pc[Receiver] = "done" => sum = Count * size
    /\ pc[Receiver] = "sumError" => sum # Count * size
    /\ \A p \in Proc : pc[p] = "failed" => errors > 0
    /\ lost <= i[Sender]

(* Every datagram is received, waiting or lost; an empty one is not        *)
(* counted when it takes the receiver out of its loop.                     *)
Flow ==
    errors = 0 /\ (size > 0 \/ pc[Receiver] \in {"bind", "recv"}) =>
        i[Sender] = i[Receiver] + inbox + lost

(* Each turn of the receiver's loop adds size, or -1 in place of it.       *)
Sums ==
    /\ size > 0 => sum <= i[Receiver] * size
    /\ errors = 0 => sum = i[Receiver] * size

(* If every turn added size, every turn took a datagram that was sent.     *)
Evidence ==
    size > 0 /\ sum = i[Receiver] * size =>
        /\ i[Receiver] + inbox + lost <= i[Sender]
        /\ i[Receiver] + inbox + lost = i[Sender] =>
               errors = 0 \/ \E p \in Proc : pc[p] = "failed"

IInv == TypeOK /\ Positions /\ Flow /\ Sums /\ Evidence
-----------------------------------------------------------------------------
USE DEF Receiver, Sender, Proc, Stopped, At, Goto, Ended, Advance, Receiving,
        Sending

(* The arithmetic of i * size that the solvers do not do by themselves.    *)
LEMMA NextMultiple ==
  ASSUME NEW m \in Int, NEW s \in Int
  PROVE  (m + 1) * s = m * s + s
  OBVIOUS

(* Every step keeps the types.                                             *)
LEMMA TypeStep ==
  ASSUME TypeOK, Positions, [Next]_vars
  PROVE  TypeOK'
<1> USE ArgAssumption, EnvAssumption DEF TypeOK, Positions
<1>1. CASE ReceiverBind
  BY <1>1 DEF ReceiverBind
<1>2. CASE ReceiverReceive
  BY <1>2 DEF ReceiverReceive
<1>3. CASE ReceiverCheck
  BY <1>3 DEF ReceiverCheck
<1>4. CASE ReceiverError
  <2>1. CASE prog.onError = "return"
    BY <1>4, <2>1 DEF ReceiverError
  <2>2. CASE prog.onError = "continue"
    BY <1>4, <2>2 DEF ReceiverError
  <2> QED
    BY <1>4, <2>1, <2>2 DEF ReceiverError
<1>5. CASE SenderWake
  BY <1>5 DEF SenderWake
<1>6. CASE SenderSend
  BY <1>6 DEF SenderSend, Bound
<1>7. CASE SenderReport
  BY <1>7 DEF SenderReport
<1>8. CASE SenderError
  <2>1. CASE prog.onError = "return"
    BY <1>8, <2>1 DEF SenderError
  <2>2. CASE prog.onError = "continue"
    BY <1>8, <2>2 DEF SenderError
  <2> QED
    BY <1>8, <2>1, <2>2 DEF SenderError
<1>9. ASSUME NEW p \in Proc, Kill(p) PROVE TypeOK'
  BY <1>9 DEF Kill
<1>10. CASE UNCHANGED vars
  BY <1>10 DEF vars
<1> QED
  BY <1>1, <1>2, <1>3, <1>4, <1>5, <1>6, <1>7, <1>8, <1>9, <1>10
     DEF Next, ReceiverNext, SenderNext, Terminating

(* Every step keeps the loop counters and the verdict of the check.        *)
LEMMA PositionsStep ==
  ASSUME TypeOK, Positions, [Next]_vars
  PROVE  Positions'
<1> USE ArgAssumption, EnvAssumption DEF TypeOK, Positions
<1>1. CASE ReceiverBind
  BY <1>1 DEF ReceiverBind
<1>2. CASE ReceiverReceive
  BY <1>2 DEF ReceiverReceive
<1>3. CASE ReceiverCheck
  BY <1>3 DEF ReceiverCheck
<1>4. CASE ReceiverError
  <2>1. CASE prog.onError = "return"
    BY <1>4, <2>1 DEF ReceiverError
  <2>2. CASE prog.onError = "continue"
    BY <1>4, <2>2 DEF ReceiverError
  <2> QED
    BY <1>4, <2>1, <2>2 DEF ReceiverError
<1>5. CASE SenderWake
  BY <1>5 DEF SenderWake
<1>6. CASE SenderSend
  BY <1>6 DEF SenderSend, Bound
<1>7. CASE SenderReport
  BY <1>7 DEF SenderReport
<1>8. CASE SenderError
  <2>1. CASE prog.onError = "return"
    BY <1>8, <2>1 DEF SenderError
  <2>2. CASE prog.onError = "continue"
    BY <1>8, <2>2 DEF SenderError
  <2> QED
    BY <1>8, <2>1, <2>2 DEF SenderError
<1>9. ASSUME NEW p \in Proc, Kill(p) PROVE Positions'
  BY <1>9 DEF Kill
<1>10. CASE UNCHANGED vars
  BY <1>10 DEF vars
<1> QED
  BY <1>1, <1>2, <1>3, <1>4, <1>5, <1>6, <1>7, <1>8, <1>9, <1>10
     DEF Next, ReceiverNext, SenderNext, Terminating

(* Every step keeps the account of the datagrams.                          *)
LEMMA FlowStep ==
  ASSUME TypeOK, Positions, Flow, [Next]_vars
  PROVE  Flow'
<1> USE ArgAssumption, EnvAssumption DEF TypeOK, Positions, Flow
<1>1. CASE ReceiverBind
  BY <1>1 DEF ReceiverBind
<1>2. CASE ReceiverReceive
  BY <1>2 DEF ReceiverReceive
<1>3. CASE ReceiverCheck
  BY <1>3 DEF ReceiverCheck
<1>4. CASE ReceiverError
  <2>1. CASE prog.onError = "return"
    BY <1>4, <2>1 DEF ReceiverError
  <2>2. CASE prog.onError = "continue"
    BY <1>4, <2>2 DEF ReceiverError
  <2> QED
    BY <1>4, <2>1, <2>2 DEF ReceiverError
<1>5. CASE SenderWake
  BY <1>5 DEF SenderWake
<1>6. CASE SenderSend
  BY <1>6 DEF SenderSend, Bound
<1>7. CASE SenderReport
  BY <1>7 DEF SenderReport
<1>8. CASE SenderError
  <2>1. CASE prog.onError = "return"
    BY <1>8, <2>1 DEF SenderError
  <2>2. CASE prog.onError = "continue"
    BY <1>8, <2>2 DEF SenderError
  <2> QED
    BY <1>8, <2>1, <2>2 DEF SenderError
<1>9. ASSUME NEW p \in Proc, Kill(p) PROVE Flow'
  BY <1>9 DEF Kill
<1>10. CASE UNCHANGED vars
  BY <1>10 DEF vars
<1> QED
  BY <1>1, <1>2, <1>3, <1>4, <1>5, <1>6, <1>7, <1>8, <1>9, <1>10
     DEF Next, ReceiverNext, SenderNext, Terminating

(* Every step keeps what the sum says.                                     *)
LEMMA SumsStep ==
  ASSUME TypeOK, Positions, Sums, [Next]_vars
  PROVE  Sums'
<1> USE ArgAssumption, EnvAssumption, NextMultiple DEF TypeOK, Positions, Sums
<1>1. CASE ReceiverBind
  BY <1>1 DEF ReceiverBind
<1>2. CASE ReceiverReceive
  BY <1>2 DEF ReceiverReceive
<1>3. CASE ReceiverCheck
  BY <1>3 DEF ReceiverCheck
<1>4. CASE ReceiverError
  <2>1. CASE prog.onError = "return"
    BY <1>4, <2>1 DEF ReceiverError
  <2>2. CASE prog.onError = "continue"
    BY <1>4, <2>2 DEF ReceiverError
  <2> QED
    BY <1>4, <2>1, <2>2 DEF ReceiverError
<1>5. CASE SenderWake
  BY <1>5 DEF SenderWake
<1>6. CASE SenderSend
  BY <1>6 DEF SenderSend, Bound
<1>7. CASE SenderReport
  BY <1>7 DEF SenderReport
<1>8. CASE SenderError
  <2>1. CASE prog.onError = "return"
    BY <1>8, <2>1 DEF SenderError
  <2>2. CASE prog.onError = "continue"
    BY <1>8, <2>2 DEF SenderError
  <2> QED
    BY <1>8, <2>1, <2>2 DEF SenderError
<1>9. ASSUME NEW p \in Proc, Kill(p) PROVE Sums'
  BY <1>9 DEF Kill
<1>10. CASE UNCHANGED vars
  BY <1>10 DEF vars
<1> QED
  BY <1>1, <1>2, <1>3, <1>4, <1>5, <1>6, <1>7, <1>8, <1>9, <1>10
     DEF Next, ReceiverNext, SenderNext, Terminating

(* Every step keeps what a full sum is evidence of.                        *)
LEMMA EvidenceStep ==
  ASSUME TypeOK, Positions, Sums, Evidence, [Next]_vars
  PROVE  Evidence'
<1> USE ArgAssumption, EnvAssumption, NextMultiple DEF TypeOK, Positions, Sums, Evidence
<1>1. CASE ReceiverBind
  BY <1>1 DEF ReceiverBind
<1>2. CASE ReceiverReceive
  BY <1>2 DEF ReceiverReceive
<1>3. CASE ReceiverCheck
  BY <1>3 DEF ReceiverCheck
<1>4. CASE ReceiverError
  <2>1. CASE prog.onError = "return"
    BY <1>4, <2>1 DEF ReceiverError
  <2>2. CASE prog.onError = "continue"
    BY <1>4, <2>2 DEF ReceiverError
  <2> QED
    BY <1>4, <2>1, <2>2 DEF ReceiverError
<1>5. CASE SenderWake
  BY <1>5 DEF SenderWake
<1>6. CASE SenderSend
  BY <1>6 DEF SenderSend, Bound
<1>7. CASE SenderReport
  BY <1>7 DEF SenderReport
<1>8. CASE SenderError
  <2>1. CASE prog.onError = "return"
    BY <1>8, <2>1 DEF SenderError
  <2>2. CASE prog.onError = "continue"
    BY <1>8, <2>2 DEF SenderError
  <2> QED
    BY <1>8, <2>1, <2>2 DEF SenderError
<1>9. ASSUME NEW p \in Proc, Kill(p) PROVE Evidence'
  BY <1>9 DEF Kill
<1>10. CASE UNCHANGED vars
  BY <1>10 DEF vars
<1> QED
  BY <1>1, <1>2, <1>3, <1>4, <1>5, <1>6, <1>7, <1>8, <1>9, <1>10
     DEF Next, ReceiverNext, SenderNext, Terminating
-----------------------------------------------------------------------------
(* The program starts in the inductive invariant and stays in it.          *)
LEMMA Initially == Init => IInv
<1> SUFFICES ASSUME Init PROVE IInv
  OBVIOUS
<1> USE ArgAssumption, EnvAssumption
<1>1. TypeOK
  <2>1. alive \in [Proc -> BOOLEAN]
    <3>1. CASE alive = [p \in Proc |-> TRUE]
      BY <3>1
    <3>2. CASE alive = [p \in Proc |-> p = Sender]
      BY <3>2, Zenon
    <3> QED
      BY <3>1, <3>2 DEF Init
  <2> QED
    BY <2>1 DEF Init, TypeOK
<1>2. /\ inbox = 0 /\ lost = 0 /\ sum = 0 /\ errors = 0
      /\ i[Sender] = 0 /\ i[Receiver] = 0 /\ 0 * size = 0
      /\ pc[Sender] = "sleep" /\ pc[Receiver] = "bind"
  BY DEF Init
<1> QED
  BY <1>1, <1>2 DEF IInv, Positions, Flow, Sums, Evidence

LEMMA Inductive == IInv /\ [Next]_vars => IInv'
  BY TypeStep, PositionsStep, FlowStep, SumsStep, EvidenceStep DEF IInv

LEMMA Invariance == Spec => []IInv
  BY Initially, Inductive, PTL DEF Spec

(* The variables of both programs keep their types.                        *)
THEOREM TypeCorrect == Spec => []TypeOK
<1>1. IInv => TypeOK
  BY DEF IInv
<1> QED
  BY <1>1, Invariance, PTL

(* Every datagram is received, waiting or lost, none of them twice.        *)
THEOREM DatagramsConserved == Spec => []Conservation
<1>1. IInv => Conservation
  BY DEF IInv, Flow, Conservation
<1> QED
  BY <1>1, Invariance, PTL

(* A run that passes the check of udp.c:65 lost nothing and had no error.  *)
THEOREM PassedIsComplete == Spec => []OnlyCompleteRunsPass
<1>1. IInv => OnlyCompleteRunsPass
  <2> SUFFICES ASSUME IInv, size > 0, pc[Receiver] = "done"
               PROVE  lost = 0 /\ inbox = 0 /\ i[Sender] = Count /\ errors = 0
    BY DEF OnlyCompleteRunsPass
  <2> USE ArgAssumption, EnvAssumption
  <2>1. /\ i[Sender] \in 0..Count /\ inbox \in Nat /\ lost \in Nat /\ size # 0
    BY DEF IInv, TypeOK
  <2>2. i[Receiver] = Count /\ sum = i[Receiver] * size
    BY <2>1 DEF IInv, Positions
  <2>3. /\ i[Receiver] + inbox + lost <= i[Sender]
        /\ i[Receiver] + inbox + lost = i[Sender] =>
               errors = 0 \/ \E p \in Proc : pc[p] = "failed"
    BY <2>2 DEF IInv, Evidence
  <2>4. inbox = 0 /\ lost = 0 /\ i[Sender] = Count
    BY <2>1, <2>2, <2>3
  <2>5. \A p \in Proc : pc[p] # "failed"
    BY <2>4 DEF IInv, Positions
  <2> QED
    BY <2>2, <2>3, <2>4, <2>5
<1> QED
  BY <1>1, Invariance, PTL

(* The check never reports a loss: only an error makes it fail.            *)
THEOREM LossIsSilent == Spec => []LossNotReported
<1>1. IInv => LossNotReported
  <2> SUFFICES ASSUME IInv, errors = 0, pc[Receiver] = "sumError" PROVE FALSE
    BY DEF LossNotReported
  <2>1. sum = i[Receiver] * size /\ sum # Count * size
    BY DEF IInv, Sums, Positions
  <2>2. CASE size = 0
    BY <2>1, <2>2, ArgAssumption DEF IInv, TypeOK
  <2>3. CASE i[Receiver] = Count
    BY <2>1, <2>3
  <2> QED
    BY <2>2, <2>3 DEF IInv, Positions
<1> QED
  BY <1>1, Invariance, PTL

(* Both together: what the check of udp.c:65 tells of a run.               *)
THEOREM LossIsAHang == Spec => []LossShowsAsHang
  BY PassedIsComplete, LossIsSilent, PTL DEF LossShowsAsHang

(* The receiver is left waiting only for a datagram that was dropped or    *)
(* never sent.                                                             *)
THEOREM HangsHaveCauses == Spec => []HangHasCause
<1>1. IInv => HangHasCause
  <2> SUFFICES ASSUME IInv, ~HangHasCause PROVE FALSE
    OBVIOUS
  <2> USE ArgAssumption, EnvAssumption
  <2>1. /\ \A p \in Proc : Ended(p) \/ Blocked(p)
        /\ \E p \in Proc : ~Ended(p)
        /\ lost = 0 /\ errors = 0 /\ alive[Sender]
    BY DEF HangHasCause, IInv, TypeOK
  <2>2. Receiving /\ inbox = 0
    BY <2>1 DEF Blocked
  <2>3. i[Sender] = Count
    BY <2>1 DEF Blocked, IInv, TypeOK, Positions
  <2>4. i[Sender] = i[Receiver] + inbox + lost
    BY <2>1, <2>2 DEF IInv, Flow
  <2> QED
    BY <2>1, <2>2, <2>3, <2>4 DEF IInv, TypeOK
<1> QED
  BY <1>1, Invariance, PTL
=============================================================================
