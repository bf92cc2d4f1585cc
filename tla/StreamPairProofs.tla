-------------------------- MODULE StreamPairProofs --------------------------
(***************************************************************************)
(* Proofs about StreamPair: the programs' byte count is honest, for every  *)
(* size, count and buffer, whichever calls fail and whoever is killed, and *)
(* the stream of messages written in one piece implements Transfer.        *)
(***************************************************************************)
EXTENDS StreamPair, TLAPS

(* What the loop counters say where the processes stand.                   *)
Positions ==
    /\ i[Writer] = Count => off = 0
    /\ pc[Writer] \in {"wait", "done"} => i[Writer] = Count
    /\ pc[Reader] \in {"done", "sumError"} => i[Reader] = Count
    /\ pc[Reader] = "done" => sum = Count * Size
    /\ pc[Reader] = "sumError" => sum # Count * Size
    /\ sum <= i[Reader] * Size

(* Of messages written in one piece the stream holds whole ones, and every *)
(* read takes out one.                                                     *)
WholeMessages ==
    Size <= atomicMax =>
        /\ off = 0
        /\ swallowed = 0 => /\ chan = (i[Writer] - i[Reader]) * Size
                            /\ sum = i[Reader] * Size

IInv == TypeOK /\ Positions /\ Accounting /\ WholeMessages
-----------------------------------------------------------------------------
USE DEF env, Reader, Writer, Proc, Stopped, At, Goto, Ended, Advance, Room, Writing,
        Reading

(* The arithmetic of i * Size that the solvers do not do by themselves.    *)
LEMMA NextMultiple ==
  ASSUME NEW m \in Int, NEW s \in Int
  PROVE  (m + 1) * s = m * s + s
  OBVIOUS

LEMMA MoreIsLonger ==
  ASSUME NEW m \in Nat, NEW n \in Nat, m < n
  PROVE  m * Size + Size <= n * Size
<1>1. PICK d \in Nat : n = (m + 1) + d
  <2> WITNESS n - (m + 1) \in Nat
  <2> QED
    OBVIOUS
<1>2. n * Size = (m + 1) * Size + d * Size
  BY <1>1, ArgAssumption
<1>3. d * Size >= 0
  BY <1>1, ArgAssumption
<1> QED
  BY <1>2, <1>3, NextMultiple, ArgAssumption

(* Every step keeps the types.                                             *)
LEMMA TypeStep ==
  ASSUME TypeOK, [Next]_vars
  PROVE  TypeOK'
<1> USE ArgAssumption, BufAssumption, EnvAssumption DEF TypeOK
<1>1. CASE WriterWrite
  BY <1>1 DEF WriterWrite
<1>2. CASE WriterWritePart
  BY <1>2 DEF WriterWritePart, Least
<1>3. CASE WriterReport
  BY <1>3 DEF WriterReport
<1>4. CASE WriterError
  BY <1>4 DEF WriterError
<1>5. CASE ReaderRead
  BY <1>5 DEF ReaderRead, Least
<1>6. CASE ReaderCheck
  BY <1>6 DEF ReaderCheck
<1>7. CASE ReaderError
  <2>1. CASE prog.readError = "return"
    BY <1>7, <2>1 DEF ReaderError
  <2>2. CASE prog.readError = "killgroup"
    BY <1>7, <2>2 DEF ReaderError
  <2>3. CASE prog.readError = "continue"
    BY <1>7, <2>3 DEF ReaderError
  <2> QED
    BY <1>7, <2>1, <2>2, <2>3 DEF ReaderError
<1>8. ASSUME NEW p \in Proc, Kill(p) PROVE TypeOK'
  BY <1>8 DEF Kill
<1>9. CASE UNCHANGED vars
  BY <1>9 DEF vars
<1> QED
  BY <1>1, <1>2, <1>3, <1>4, <1>5, <1>6, <1>7, <1>8, <1>9
     DEF Next, WriterNext, ReaderNext, Terminating

(* Every step keeps the loop counters and the verdict of the check.        *)
LEMMA PositionsStep ==
  ASSUME TypeOK, Positions, WholeMessages, [Next]_vars
  PROVE  Positions'
<1> USE ArgAssumption, BufAssumption, NextMultiple DEF TypeOK, Positions
<1>1. CASE WriterWrite
  BY <1>1 DEF WriterWrite, WholeMessages
<1>2. CASE WriterWritePart
  BY <1>2 DEF WriterWritePart, Least
<1>3. CASE WriterReport
  BY <1>3 DEF WriterReport
<1>4. CASE WriterError
  BY <1>4 DEF WriterError
<1>5. CASE ReaderRead
  BY <1>5 DEF ReaderRead, Least
<1>6. CASE ReaderCheck
  BY <1>6 DEF ReaderCheck
<1>7. CASE ReaderError
  <2>1. CASE prog.readError = "return"
    BY <1>7, <2>1 DEF ReaderError
  <2>2. CASE prog.readError = "killgroup"
    BY <1>7, <2>2 DEF ReaderError
  <2>3. CASE prog.readError = "continue"
    BY <1>7, <2>3 DEF ReaderError
  <2> QED
    BY <1>7, <2>1, <2>2, <2>3 DEF ReaderError
<1>8. ASSUME NEW p \in Proc, Kill(p) PROVE Positions'
  BY <1>8 DEF Kill
<1>9. CASE UNCHANGED vars
  BY <1>9 DEF vars
<1> QED
  BY <1>1, <1>2, <1>3, <1>4, <1>5, <1>6, <1>7, <1>8, <1>9
     DEF Next, WriterNext, ReaderNext, Terminating

(* Every step keeps the account of the bytes.                              *)
LEMMA AccountingStep ==
  ASSUME TypeOK, Positions, Accounting, [Next]_vars
  PROVE  Accounting'
<1> USE ArgAssumption, BufAssumption, NextMultiple
        DEF TypeOK, Positions, Accounting, Written
<1>1. CASE WriterWrite
  BY <1>1 DEF WriterWrite
<1>2. CASE WriterWritePart
  <2>1. PICK n \in 1..Least(Size - off, Room) :
           /\ chan' = chan + n
           /\ \/ off + n < Size /\ off' = off + n /\ UNCHANGED i
              \/ off + n = Size /\ off' = 0 /\ i' = [i EXCEPT ![Writer] = @ + 1]
    BY <1>2 DEF WriterWritePart
  <2>2. /\ UNCHANGED <<sum, swallowed>> /\ n \in Int /\ Size \in Int /\ off \in Int
        /\ chan \in Int /\ sum \in Int /\ i[Writer] \in Int /\ swallowed \in Int
    BY <1>2, <2>1 DEF WriterWritePart, Least
  <2>3. Written' = Written + n
    <3>1. CASE off' = off + n /\ UNCHANGED i
      BY <2>2, <3>1
    <3>2. CASE off + n = Size /\ off' = 0 /\ i' = [i EXCEPT ![Writer] = @ + 1]
      <4>1. i[Writer]' = i[Writer] + 1
        BY <3>2
      <4> QED
        BY <2>2, <3>2, <4>1
    <3> QED
      BY <2>1, <3>1, <3>2
  <2>4. Written \in Int
    BY <2>2
  <2> HIDE DEF TypeOK, Positions, Written
  <2> QED
    BY <2>1, <2>2, <2>3, <2>4
<1>3. CASE WriterReport
  BY <1>3 DEF WriterReport
<1>4. CASE WriterError
  BY <1>4 DEF WriterError
<1>5. CASE ReaderRead
  BY <1>5 DEF ReaderRead, Least
<1>6. CASE ReaderCheck
  BY <1>6 DEF ReaderCheck
<1>7. CASE ReaderError
  <2>1. CASE prog.readError = "return"
    BY <1>7, <2>1 DEF ReaderError
  <2>2. CASE prog.readError = "killgroup"
    BY <1>7, <2>2 DEF ReaderError
  <2>3. CASE prog.readError = "continue"
    BY <1>7, <2>3 DEF ReaderError
  <2> QED
    BY <1>7, <2>1, <2>2, <2>3 DEF ReaderError
<1>8. ASSUME NEW p \in Proc, Kill(p) PROVE Accounting'
  BY <1>8 DEF Kill
<1>9. CASE UNCHANGED vars
  BY <1>9 DEF vars
<1> QED
  BY <1>1, <1>2, <1>3, <1>4, <1>5, <1>6, <1>7, <1>8, <1>9
     DEF Next, WriterNext, ReaderNext, Terminating

(* Every step keeps messages whole.                                        *)
LEMMA WholeMessagesStep ==
  ASSUME TypeOK, WholeMessages, [Next]_vars
  PROVE  WholeMessages'
<1> USE ArgAssumption, BufAssumption, NextMultiple
        DEF TypeOK, WholeMessages
<1>1. CASE WriterWrite
  <2>1. /\ chan' = chan + Size /\ i[Writer]' = i[Writer] + 1 /\ Size \in Int
        /\ UNCHANGED <<off, sum, swallowed>> /\ i[Reader]' = i[Reader]
    BY <1>1 DEF WriterWrite
  <2>2. i[Writer]' - i[Reader]' = (i[Writer] - i[Reader]) + 1
    BY <2>1
  <2>3. (i[Writer]' - i[Reader]') * Size = (i[Writer] - i[Reader]) * Size + Size
    BY <2>1, <2>2
  <2> QED
    <3> HIDE DEF TypeOK
    <3>1. Size \in Int /\ chan \in Int /\ atomicMax' = atomicMax
      BY <1>1, <2>1 DEF TypeOK, WriterWrite
    <3>2. CASE Size <= atomicMax /\ swallowed = 0
      <4>1. chan' = (i[Writer]' - i[Reader]') * Size
        BY <2>1, <2>3, <3>1, <3>2
      <4> QED
        BY <2>1, <3>1, <3>2, <4>1
    <3>3. CASE ~(Size <= atomicMax /\ swallowed = 0)
      BY <2>1, <3>1, <3>3
    <3> QED
      BY <3>2, <3>3
<1>2. CASE WriterWritePart
  BY <1>2 DEF WriterWritePart, Least
<1>3. CASE WriterReport
  BY <1>3 DEF WriterReport
<1>4. CASE WriterError
  BY <1>4 DEF WriterError
<1>5. CASE ReaderRead
  <2>1. /\ chan' = chan - Least(Size, chan) /\ sum' = sum + Least(Size, chan)
        /\ i[Reader]' = i[Reader] + 1 /\ i[Writer]' = i[Writer]
        /\ UNCHANGED <<off, swallowed, atomicMax>> /\ (chan > 0 \/ Size = 0)
    BY <1>5 DEF ReaderRead
  <2>2. Size \in Nat /\ chan \in Nat /\ sum \in Int /\ i[Reader] \in Nat /\ i[Writer] \in Nat
    OBVIOUS
  <2> HIDE DEF TypeOK
  <2>3. CASE Size <= atomicMax /\ swallowed = 0
    <3> DEFINE ahead == i[Writer] - i[Reader]
    <3>1. chan = ahead * Size /\ sum = i[Reader] * Size /\ off = 0
      BY <2>3
    <3>2. Least(Size, chan) = Size
      <4>1. CASE Size = 0
        BY <2>2, <3>1, <4>1 DEF Least
      <4>2. CASE Size > 0
        <5>1. ahead >= 1
          BY <2>1, <2>2, <3>1, <4>2
        <5>2. PICK d \in Nat : ahead = d + 1
          <6>1. ahead - 1 \in Nat /\ ahead = (ahead - 1) + 1
            BY <2>2, <5>1
          <6> QED
            BY <6>1
        <5>3. ahead * Size = d * Size + Size /\ d * Size >= 0
          BY <2>2, <5>2
        <5> QED
          BY <2>2, <3>1, <5>3 DEF Least
      <4> QED
        BY <2>2, <4>1, <4>2
    <3>3. (ahead - 1) * Size = ahead * Size - Size /\ (i[Reader] + 1) * Size = i[Reader] * Size + Size
      BY <2>2
    <3>4. i[Writer]' - i[Reader]' = ahead - 1
      BY <2>1, <2>2
    <3> HIDE DEF ahead
    <3>5. chan' = (i[Writer]' - i[Reader]') * Size /\ sum' = i[Reader]' * Size
      BY <2>1, <3>1, <3>2, <3>3, <3>4
    <3> QED
      BY <2>1, <2>3, <3>1, <3>5
  <2>4. CASE ~(Size <= atomicMax /\ swallowed = 0)
    BY <2>1, <2>4
  <2> QED
    BY <2>3, <2>4
<1>6. CASE ReaderCheck
  BY <1>6 DEF ReaderCheck
<1>7. CASE ReaderError
  <2>1. CASE prog.readError = "return"
    BY <1>7, <2>1 DEF ReaderError
  <2>2. CASE prog.readError = "killgroup"
    BY <1>7, <2>2 DEF ReaderError
  <2>3. CASE prog.readError = "continue"
    BY <1>7, <2>3 DEF ReaderError
  <2> QED
    BY <1>7, <2>1, <2>2, <2>3 DEF ReaderError
<1>8. ASSUME NEW p \in Proc, Kill(p) PROVE WholeMessages'
  BY <1>8 DEF Kill
<1>9. CASE UNCHANGED vars
  BY <1>9 DEF vars
<1> QED
  BY <1>1, <1>2, <1>3, <1>4, <1>5, <1>6, <1>7, <1>8, <1>9
     DEF Next, WriterNext, ReaderNext, Terminating
-----------------------------------------------------------------------------
(* The program starts in the inductive invariant and stays in it.          *)
LEMMA Initially == Init => IInv
<1> SUFFICES ASSUME Init PROVE IInv
  OBVIOUS
<1> USE ArgAssumption, BufAssumption, EnvAssumption
<1>1. TypeOK
  <2>1. alive \in [Proc -> BOOLEAN]
    <3>1. CASE alive = [p \in Proc |-> TRUE]
      BY <3>1
    <3>2. CASE alive = [p \in Proc |-> p = Writer]
      BY <3>2, Zenon
    <3> QED
      BY <3>1, <3>2 DEF Init
  <2> QED
    BY <2>1 DEF Init, TypeOK
<1>2. /\ chan = 0 /\ off = 0 /\ sum = 0 /\ swallowed = 0
      /\ i[Writer] = 0 /\ i[Reader] = 0 /\ 0 * Size = 0
      /\ pc[Writer] = "write" /\ pc[Reader] = "read"
  BY DEF Init
<1> QED
  BY <1>1, <1>2 DEF IInv, Positions, Accounting, Written, WholeMessages

LEMMA Inductive == IInv /\ [Next]_vars => IInv'
  BY TypeStep, PositionsStep, AccountingStep, WholeMessagesStep DEF IInv

LEMMA Invariance == Spec => []IInv
  BY Initially, Inductive, PTL DEF Spec

(* The variables of the six programs keep their types.                     *)
THEOREM TypeCorrect == Spec => []TypeOK
<1>1. IInv => TypeOK
  BY DEF IInv
<1> QED
  BY <1>1, Invariance, PTL

(* No byte is lost or counted twice.                                       *)
THEOREM BytesAccounted == Spec => []Accounting
<1>1. IInv => Accounting
  BY DEF IInv
<1> QED
  BY <1>1, Invariance, PTL

(* A check that passes tells the truth: every message was received.        *)
LEMMA TruthfulNow == IInv => Truthful
<1> SUFFICES ASSUME IInv, Size > 0, pc[Reader] = "done"
             PROVE  i[Writer] = Count /\ chan = 0 /\ off = 0 /\ swallowed = 0
  BY DEF Truthful
<1> USE ArgAssumption, BufAssumption, EnvAssumption
<1>1. /\ i[Writer] \in 0..Count /\ off \in Nat /\ off < Size
      /\ chan \in Nat /\ swallowed \in Nat
  BY DEF IInv, TypeOK
<1>2. Count * Size + chan + swallowed <= i[Writer] * Size + off
  BY DEF IInv, Positions, Accounting, Written
<1>3. i[Writer] = Count
  <2>1. SUFFICES ASSUME i[Writer] < Count PROVE FALSE
    BY <1>1
  <2>2. i[Writer] * Size + Size <= Count * Size
    BY <1>1, <2>1, MoreIsLonger
  <2>3. i[Writer] * Size \in Int /\ Count * Size \in Int
    BY <1>1
  <2> QED
    BY <1>1, <1>2, <2>2, <2>3
<1>4. off = 0
  BY <1>3 DEF IInv, Positions
<1> QED
  BY <1>1, <1>2, <1>3, <1>4

THEOREM CheckIsTruthful == Spec => []Truthful
  BY TruthfulNow, Invariance, PTL

(* The check never fails messages written in one piece.                    *)
THEOREM NeverASumError == Spec => []NoSumError
<1>1. IInv => NoSumError
  BY DEF IInv, Positions, WholeMessages, NoSumError
<1> QED
  BY <1>1, Invariance, PTL

(* Both together: the check of pipe.c:54 is right.                         *)
THEOREM CheckRight == Spec => []CheckIsRight
  BY CheckIsTruthful, NeverASumError, PTL DEF CheckIsRight

(* A process hangs only when its peer is gone or gave up.                  *)
THEOREM HangsHaveCauses == Spec => []HangHasCause
<1>1. IInv => HangHasCause
  <2> SUFFICES ASSUME IInv, ~HangHasCause PROVE FALSE
    OBVIOUS
  <2> USE ArgAssumption, BufAssumption, EnvAssumption
  <2>1. /\ \A p \in Proc : Ended(p) \/ Blocked(p)
        /\ \A p \in Proc : alive[p] /\ pc[p] \notin {"failed", "sumError"}
        /\ \E p \in Proc : ~Ended(p)
        /\ swallowed = 0
    BY DEF IInv, TypeOK, HangHasCause
  <2>2. CASE pc[Reader] = "done"
    <3>1. Size > 0 => i[Writer] = Count
      BY <2>2, TruthfulNow DEF Truthful
    <3> QED
      BY <2>1, <2>2, <3>1 DEF Blocked, IInv, TypeOK
  <2>3. CASE pc[Reader] # "done"
    <3>1. Reading /\ chan = 0 /\ Size > 0
      BY <2>1, <2>3 DEF Blocked
    <3>2. ~Writing
      BY <2>1, <3>1 DEF Blocked, IInv, TypeOK
    <3>3. i[Writer] = Count /\ off = 0
      BY <2>1, <3>2 DEF Blocked, IInv, TypeOK, Positions
    <3>4. sum = Count * Size /\ sum <= i[Reader] * Size
      BY <2>1, <3>1, <3>3 DEF IInv, TypeOK, Accounting, Written, Positions
    <3>5. i[Reader] * Size + Size <= Count * Size
      BY <3>1, MoreIsLonger DEF IInv, TypeOK
    <3> QED
      BY <3>1, <3>4, <3>5 DEF IInv, TypeOK
  <2> QED
    BY <2>2, <2>3
<1> QED
  BY <1>1, Invariance, PTL

(* Stated for n messages in the stream: that there is room for one more    *)
(* means that there is room for one more message.                          *)
LEMMA RoomForOneMore ==
  ASSUME NEW n \in Nat, Size > 0, Size <= Capacity - n * Size
  PROVE  n < Capacity \div Size
<1> DEFINE q == Capacity \div Size
<1>1. q \in Nat /\ Capacity < (q + 1) * Size
  BY ArgAssumption, BufAssumption
<1>2. SUFFICES ASSUME q <= n PROVE FALSE
  BY <1>1
<1>3. CASE q = n
  BY <1>1, <1>3, NextMultiple, ArgAssumption, BufAssumption
<1>4. CASE q < n
  <2>1. q * Size + Size <= n * Size
    BY <1>1, <1>4, MoreIsLonger
  <2> QED
    BY <1>1, <2>1, NextMultiple, ArgAssumption, BufAssumption
<1> QED
  BY <1>1, <1>2, <1>3, <1>4

(* A stream that holds m - n messages and has a byte holds a message.      *)
LEMMA ByteMeansMessage ==
  ASSUME NEW m \in Nat, NEW n \in Nat, (m - n) * Size > 0, Size > 0
  PROVE  n < m
<1>1. SUFFICES ASSUME m <= n PROVE FALSE
  OBVIOUS
<1>2. PICK d \in Nat : m + d = n
  <2> n - m \in Nat /\ m + (n - m) = n
    BY <1>1
  <2> QED
    OBVIOUS
<1>3. m - n = -d
  BY <1>2
<1>4. (m - n) * Size = -(d * Size) /\ d * Size >= 0
  BY <1>3, ArgAssumption
<1> QED
  BY <1>4, ArgAssumption

(* The stream of messages written in one piece is a channel that holds     *)
(* Capacity \div Size of them, until an error is ignored.  (Messages of no *)
(* bytes are read without waiting for their write.)                        *)
THEOREM ImplementsTransfer == Size > 0 /\ Spec => TransfersWhole
<1>1. Init => Messages!Init
  BY DEF Init, Messages!Init, Counted
<1>2. Size > 0 /\ IInv /\ IInv' /\ [Next]_vars => [Messages!Next]_(Messages!vars)
  <2> SUFFICES ASSUME Size > 0, IInv, IInv', [Next]_vars
               PROVE  [Messages!Next]_(Messages!vars)
    OBVIOUS
  <2> USE ArgAssumption, BufAssumption, EnvAssumption
  <2>1. /\ chan \in Nat /\ i[Reader] \in 0..Count /\ i[Writer] \in 0..Count
        /\ swallowed \in Nat /\ atomicMax \in Nat
        /\ i \in [Proc -> 0..Count]
    BY DEF IInv, TypeOK
  <2>2. UNCHANGED atomicMax /\ (swallowed # 0 => swallowed' # 0)
    BY <2>1 DEF Next, WriterNext, ReaderNext, Terminating, vars, WriterWrite,
       WriterWritePart, WriterReport, WriterError, ReaderRead, ReaderCheck,
       ReaderError, Kill
  <2>3. CASE ~(Size <= atomicMax /\ swallowed' = 0)
    <3>1. Counted(Writer)' = 0 /\ Counted(Reader)' = 0
      BY <2>2, <2>3 DEF Counted
    <3> QED
      BY <3>1 DEF Messages!Next, Messages!Restart
  <2>4. CASE Size <= atomicMax /\ swallowed' = 0
    <3>1. /\ Counted(Writer) = i[Writer] /\ Counted(Writer)' = i'[Writer]
          /\ Counted(Reader) = i[Reader] /\ Counted(Reader)' = i'[Reader]
          /\ swallowed = 0 /\ chan = (i[Writer] - i[Reader]) * Size
      BY <2>2, <2>4 DEF Counted, IInv, WholeMessages
    <3>2. CASE WriterWrite
      <4>1. /\ i'[Writer] = i[Writer] + 1 /\ i'[Reader] = i[Reader]
            /\ i[Writer] < Count /\ Size <= Capacity - chan
        BY <2>1, <3>2 DEF WriterWrite
      <4>2. i[Writer] - i[Reader] < Capacity \div Size
        <5> DEFINE n == i[Writer] - i[Reader]
        <5>1. n \in Int /\ chan = n * Size /\ Size <= Capacity - n * Size
          BY <2>1, <3>1, <4>1
        <5>2. CASE n \in Nat
          BY <5>1, <5>2, RoomForOneMore
        <5>3. CASE n < 0
          <6>1. Capacity \div Size >= 0
            OBVIOUS
          <6> QED
            BY <5>1, <5>3, <6>1
        <5> QED
          BY <5>1, <5>2, <5>3
      <4> QED
        BY <3>1, <4>1, <4>2 DEF Messages!Next, Messages!Send
    <3>3. CASE ReaderRead
      <4>1. /\ i'[Reader] = i[Reader] + 1 /\ i'[Writer] = i[Writer] /\ chan > 0
        BY <2>1, <3>3 DEF ReaderRead
      <4>2. i[Reader] < i[Writer]
        BY <2>1, <3>1, <4>1, ByteMeansMessage
      <4> QED
        BY <3>1, <4>1, <4>2 DEF Messages!Next, Messages!Receive
    <3>4. CASE WriterReport \/ ReaderCheck \/ (\E p \in Proc : Kill(p)) \/ UNCHANGED vars
      <4>1. UNCHANGED i
        BY <3>4 DEF WriterReport, ReaderCheck, Kill, vars
      <4> QED
        BY <3>1, <4>1 DEF Messages!vars
    <3>5. CASE WriterError
      <4>1. UNCHANGED i
        BY <2>1, <2>4, <3>1, <3>5 DEF WriterError
      <4> QED
        BY <3>1, <4>1 DEF Messages!vars
    <3>6. CASE ReaderError
      <4>1. UNCHANGED i
        BY <2>1, <2>4, <3>1, <3>6 DEF ReaderError
      <4> QED
        BY <3>1, <4>1 DEF Messages!vars
    <3>7. ~WriterWritePart
      BY <2>1, <2>4 DEF WriterWritePart
    <3> QED
      BY <3>2, <3>3, <3>4, <3>5, <3>6, <3>7 DEF Next, WriterNext, ReaderNext, Terminating
  <2> QED
    BY <2>3, <2>4
<1>3. CASE Size > 0
  <2>1. IInv /\ IInv' /\ [Next]_vars => [Messages!Next]_(Messages!vars)
    BY <1>2, <1>3
  <2> QED
    BY <1>1, <2>1, Invariance, PTL DEF Spec, TransfersWhole, Messages!Spec
<1>4. CASE ~(Size > 0)
  BY <1>4
<1> QED
  BY <1>3, <1>4
=============================================================================
