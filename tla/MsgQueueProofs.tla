--------------------------- MODULE MsgQueueProofs ---------------------------
(***************************************************************************)
(* Proofs about MsgQueue, for every size and count and any number of runs  *)
(* and kills: which queue the two processes get hold of, what arrives in   *)
(* which order, what a run that hangs is due to, and the refinement of     *)
(* Transfer.                                                               *)
(***************************************************************************)
EXTENDS MsgQueue, SequenceTheorems, TLAPS

(* Handles and the name denote queues that were created.                   *)
Handles ==
    /\ msgsize \in [Queues -> Nat]
    /\ \A p \in Proc : Opened(p) <=> pc[p] \notin {"open", "failed"}
    /\ \A p \in Proc : Opened(p) => msgsize[qd[p]] # 0
    /\ name # NoQueue => msgsize[name] # 0
    /\ \A p \in Proc : pc[p] = "open" => i[p] = 0

(* A queue is created once.                                                *)
NotYetCreated ==
    /\ \A q \in Queues : q > 2 * run => msgsize[q] = 0
    /\ \A p \in Proc : pc[p] = "open" => msgsize[Created(p)] = 0

(* If the linked queue fitted when the run started, every queue the run    *)
(* meets does: the others it creates itself.                               *)
QueuesFit ==
    LeftoverFits =>
        /\ name # NoQueue => msgsize[name] = size
        /\ \A p \in Proc : Opened(p) => msgsize[qd[p]] = size

(* While one side has the queue open and the other has not, the first      *)
(* cannot get to its mq_unlink: a writer is stopped by the full queue, a   *)
(* reader by the empty one.                                                *)
FirstComerWaits ==
    /\ Opened(Writer) /\ ~Opened(Reader) =>
           /\ name = qd[Writer] /\ pc[Writer] = "send"
           /\ i[Writer] <= Len(queue(Writer))
    /\ Opened(Reader) /\ ~Opened(Writer) =>
           /\ name = qd[Reader] /\ pc[Reader] = "receive"
           /\ i[Reader] + Len(queue(Reader)) <= MaxMessages
    /\ Opened(Reader) /\ Opened(Writer) => qd[Reader] = qd[Writer]

OneQueue == count > MaxMessages /\ LeftoverFits => FirstComerWaits

(* Each side leaves its loop after count messages, and the writer leaves   *)
(* its waitpid after the reader.                                           *)
Positions ==
    /\ pc[Reader] = "done" => i[Reader] = count
    /\ pc[Writer] \in {"wait", "done"} => i[Writer] = count
    /\ pc[Writer] = "done" => Ended(Reader)

(* Messages are taken by this run's reader and added by this run's writer  *)
(* only; up to MaxMessages may have been there before.                     *)
Flow ==
    LeftoverFits =>
        /\ Opened(Writer) /\ qd[Reader] # qd[Writer] => i[Writer] <= Len(queue(Writer))
        /\ Opened(Reader) /\ qd[Reader] # qd[Writer] =>
               i[Reader] + Len(queue(Reader)) <= MaxMessages
        /\ Opened(Reader) /\ qd[Reader] = qd[Writer] =>
               /\ i[Writer] <= i[Reader] + Len(queue(Reader))
               /\ i[Reader] + Len(queue(Reader)) <= MaxMessages + i[Writer]

(* If one side is refused its queue, so is the other.                      *)
RefusedBoth ==
    count > MaxMessages /\ LeftoverFits /\ (\E p \in Proc : pc[p] = "failed") =>
        name = NoQueue /\ size \notin 1..SizeLimit /\ \A p \in Proc : ~Opened(p)

(* Messages m+1 to m+n of run r.                                           *)
Block(r, m, n) == [k \in 1..n |-> <<r, m + k>>]

(* As long as nothing was killed there are only this run's queues and this *)
(* run's messages: what the reader received is the beginning of what was   *)
(* sent, and the queue holds the rest of it.                               *)
OwnQueues ==
    /\ leftover = NoQueue
    /\ \A p \in Proc : alive[p]
    /\ name # NoQueue => msgsize[name] = size /\ \E p \in Proc : name = qd[p]
    /\ \A p \in Proc : Opened(p) => msgsize[qd[p]] = size /\ size \in 1..SizeLimit
    /\ \A p \in Proc : pc[p] = "failed" => size \notin 1..SizeLimit

OwnMessages ==
    /\ got = Block(run, 0, i[Reader])
    /\ Opened(Writer) /\ qd[Reader] # qd[Writer] => queue(Writer) = Block(run, 0, i[Writer])
    /\ Opened(Reader) /\ qd[Reader] # qd[Writer] => queue(Reader) = <<>> /\ i[Reader] = 0
    /\ Opened(Reader) /\ qd[Reader] = qd[Writer] =>
           /\ i[Reader] <= i[Writer]
           /\ queue(Reader) = Block(run, i[Reader], i[Writer] - i[Reader])
    /\ \A p \in Proc : ~Opened(p) => i[p] = 0
    /\ \A q \in Queues : msgsize[q] = 0 => msgs[q] = <<>>

Undisturbed == kills = 0 => OwnQueues /\ OwnMessages

IInv ==
    /\ TypeOK /\ Handles /\ NotYetCreated /\ QueuesFit /\ OneQueue /\ NothingLeft
    /\ Positions /\ Flow /\ RefusedBoth /\ Undisturbed
-----------------------------------------------------------------------------
USE DEF control, Reader, Writer, Proc, NoQueue, Queues, Stopped, At, Goto,
        Ended, Advance, queue, Opened, Receiving, Sending

(* Every step keeps the types of what the processes have.                  *)
LEMMA ProcessTypesStep ==
  ASSUME ProcessTypes, [Next]_vars
  PROVE  ProcessTypes'
<1> USE SizesAssumption, CountAssumption, RunsAssumption DEF ProcessTypes
<1>1. CASE ReaderOpen
  BY <1>1 DEF ReaderOpen, mq_open, Created
<1>2. CASE ReaderReceive
  BY <1>2 DEF ReaderReceive
<1>3. CASE ReaderReceiveFails
  BY <1>3 DEF ReaderReceiveFails
<1>4. CASE ReaderExit
  BY <1>4 DEF ReaderExit
<1>5. CASE WriterOpen
  BY <1>5 DEF WriterOpen, mq_open, Created
<1>6. CASE WriterSend
  BY <1>6 DEF WriterSend
<1>7. CASE WriterSendFails
  BY <1>7 DEF WriterSendFails
<1>8. CASE WriterUnlink
  BY <1>8 DEF WriterUnlink
<1>9. CASE WriterWait
  BY <1>9 DEF WriterWait
<1>10. ASSUME NEW p \in Proc, Kill(p) PROVE ProcessTypes'
  BY <1>10 DEF Kill
<1>11. CASE NewRun
  BY <1>11 DEF NewRun, Fresh
<1>12. CASE UNCHANGED vars
  BY <1>12 DEF vars
<1> QED
  BY <1>1, <1>2, <1>3, <1>4, <1>5, <1>6, <1>7, <1>8, <1>9, <1>10, <1>11, <1>12
     DEF Next, ReaderNext, WriterNext, Terminating

(* Every step keeps the types of the messages and the queues' capacity.    *)
LEMMA QueueTypesStep ==
  ASSUME ProcessTypes, QueueTypes, [Next]_vars
  PROVE  QueueTypes'
<1> USE CountAssumption, QueueAssumption, RunsAssumption DEF QueueTypes
<1>1. CASE ReaderOpen
  BY <1>1 DEF ReaderOpen, mq_open, Created
<1>2. CASE ReaderReceive
  <2>1. /\ qd[Reader] \in Queues
        /\ queue(Reader) \in Seq(Message) /\ queue(Reader) # <<>>
    <3>1. qd[Reader] \in 0 .. 2 * run /\ qd[Reader] # NoQueue /\ run \in 1..MaxRuns
      BY <1>2 DEF ReaderReceive, ProcessTypes
    <3>2. qd[Reader] \in Queues
      BY <3>1
    <3> QED
      BY <1>2, <3>2 DEF ReaderReceive
  <2>2. /\ Head(queue(Reader)) \in Message /\ Tail(queue(Reader)) \in Seq(Message)
        /\ Len(Tail(queue(Reader))) <= MaxMessages
    BY <2>1
  <2> QED
    BY <1>2, <2>1, <2>2 DEF ReaderReceive
<1>3. CASE ReaderReceiveFails
  BY <1>3 DEF ReaderReceiveFails
<1>4. CASE ReaderExit
  BY <1>4 DEF ReaderExit
<1>5. CASE WriterOpen
  BY <1>5 DEF WriterOpen, mq_open, Created
<1>6. CASE WriterSend
  <2> HIDE DEF QueueTypes
  <2>1. qd[Writer] \in Queues
    BY <1>6 DEF WriterSend, ProcessTypes
  <2>2. run \in 1..MaxRuns /\ i[Writer] + 1 \in Nat \ {0}
    BY <1>6 DEF WriterSend, ProcessTypes
  <2>3. <<run, i[Writer] + 1>> \in Message
    BY <2>2 DEF Message
  <2>4. queue(Writer) \in Seq(Message)
    BY <2>1 DEF QueueTypes
  <2>5. /\ Append(queue(Writer), <<run, i[Writer] + 1>>) \in Seq(Message)
        /\ Len(Append(queue(Writer), <<run, i[Writer] + 1>>)) <= MaxMessages
    BY <1>6, <2>3, <2>4 DEF WriterSend
  <2> QED
    BY <1>6, <2>1, <2>5 DEF WriterSend, QueueTypes
<1>7. CASE WriterSendFails
  BY <1>7 DEF WriterSendFails
<1>8. CASE WriterUnlink
  BY <1>8 DEF WriterUnlink
<1>9. CASE WriterWait
  BY <1>9 DEF WriterWait
<1>10. ASSUME NEW p \in Proc, Kill(p) PROVE QueueTypes'
  BY <1>10 DEF Kill
<1>11. CASE NewRun
  BY <1>11 DEF NewRun, Fresh
<1>12. CASE UNCHANGED vars
  BY <1>12 DEF vars
<1> QED
  BY <1>1, <1>2, <1>3, <1>4, <1>5, <1>6, <1>7, <1>8, <1>9, <1>10, <1>11, <1>12
     DEF Next, ReaderNext, WriterNext, Terminating

(* Every step keeps the handles on created queues.                         *)
LEMMA HandlesStep ==
  ASSUME ProcessTypes, Handles, [Next]_vars
  PROVE  Handles'
<1> USE SizesAssumption, RunsAssumption DEF ProcessTypes, Handles
<1>1. CASE ReaderOpen
  <2>1. CASE name = NoQueue /\ size \in 1..SizeLimit
    <3>1. /\ name' = Created(Reader) /\ name' \in Queues /\ name' # NoQueue
          /\ qd' = [qd EXCEPT ![Reader] = name']
          /\ pc' = [pc EXCEPT ![Reader] = "receive"]
          /\ msgsize' = [msgsize EXCEPT ![name'] = size] /\ size # 0
      BY <1>1, <2>1 DEF ReaderOpen, mq_open, Created
    <3> QED
      BY <1>1, <3>1 DEF ReaderOpen, mq_open
  <2>2. CASE name # NoQueue
    BY <1>1, <2>2 DEF ReaderOpen, mq_open
  <2>3. CASE name = NoQueue /\ size \notin 1..SizeLimit
    BY <1>1, <2>3 DEF ReaderOpen, mq_open
  <2> QED
    BY <1>1, <2>1, <2>2, <2>3 DEF ReaderOpen, mq_open
<1>2. CASE ReaderReceive
  BY <1>2 DEF ReaderReceive
<1>3. CASE ReaderReceiveFails
  BY <1>3 DEF ReaderReceiveFails
<1>4. CASE ReaderExit
  BY <1>4 DEF ReaderExit
<1>5. CASE WriterOpen
  <2>1. CASE name = NoQueue /\ size \in 1..SizeLimit
    <3>1. /\ name' = Created(Writer) /\ name' \in Queues /\ name' # NoQueue
          /\ qd' = [qd EXCEPT ![Writer] = name']
          /\ pc' = [pc EXCEPT ![Writer] = "send"]
          /\ msgsize' = [msgsize EXCEPT ![name'] = size] /\ size # 0
      BY <1>5, <2>1 DEF WriterOpen, mq_open, Created
    <3> QED
      BY <1>5, <3>1 DEF WriterOpen, mq_open
  <2>2. CASE name # NoQueue
    BY <1>5, <2>2 DEF WriterOpen, mq_open
  <2>3. CASE name = NoQueue /\ size \notin 1..SizeLimit
    BY <1>5, <2>3 DEF WriterOpen, mq_open
  <2> QED
    BY <1>5, <2>1, <2>2, <2>3 DEF WriterOpen, mq_open
<1>6. CASE WriterSend
  BY <1>6 DEF WriterSend
<1>7. CASE WriterSendFails
  BY <1>7 DEF WriterSendFails
<1>8. CASE WriterUnlink
  BY <1>8 DEF WriterUnlink
<1>9. CASE WriterWait
  BY <1>9 DEF WriterWait
<1>10. ASSUME NEW p \in Proc, Kill(p) PROVE Handles'
  BY <1>10 DEF Kill
<1>11. CASE NewRun
  BY <1>11 DEF NewRun, Fresh
<1>12. CASE UNCHANGED vars
  BY <1>12 DEF vars
<1> QED
  BY <1>1, <1>2, <1>3, <1>4, <1>5, <1>6, <1>7, <1>8, <1>9, <1>10, <1>11, <1>12
     DEF Next, ReaderNext, WriterNext, Terminating

(* Every step keeps the queues of later opens unused.                      *)
LEMMA NotYetCreatedStep ==
  ASSUME ProcessTypes, Handles, NotYetCreated, [Next]_vars
  PROVE  NotYetCreated'
<1> USE RunsAssumption DEF ProcessTypes, Handles, NotYetCreated, Created
<1>1. CASE ReaderOpen
  BY <1>1 DEF ReaderOpen, mq_open, Created
<1>2. CASE ReaderReceive
  BY <1>2 DEF ReaderReceive
<1>3. CASE ReaderReceiveFails
  BY <1>3 DEF ReaderReceiveFails
<1>4. CASE ReaderExit
  BY <1>4 DEF ReaderExit
<1>5. CASE WriterOpen
  BY <1>5 DEF WriterOpen, mq_open, Created
<1>6. CASE WriterSend
  BY <1>6 DEF WriterSend
<1>7. CASE WriterSendFails
  BY <1>7 DEF WriterSendFails
<1>8. CASE WriterUnlink
  BY <1>8 DEF WriterUnlink
<1>9. CASE WriterWait
  BY <1>9 DEF WriterWait
<1>10. ASSUME NEW p \in Proc, Kill(p) PROVE NotYetCreated'
  BY <1>10 DEF Kill
<1>11. CASE NewRun
  BY <1>11 DEF NewRun, Fresh
<1>12. CASE UNCHANGED vars
  BY <1>12 DEF vars
<1> QED
  BY <1>1, <1>2, <1>3, <1>4, <1>5, <1>6, <1>7, <1>8, <1>9, <1>10, <1>11, <1>12
     DEF Next, ReaderNext, WriterNext, Terminating

(* Within a run nothing changes its arguments, the queue it found linked   *)
(* or that queue's message size.                                           *)
LEMMA FitsBefore ==
  ASSUME ProcessTypes, Handles, NotYetCreated, [Next]_vars, ~NewRun
  PROVE  (LeftoverFits' <=> LeftoverFits) /\ UNCHANGED <<run, size, count>>
<1>1. CASE ReaderOpen \/ WriterOpen
  <2>1. UNCHANGED <<run, size, count, leftover>>
    BY <1>1 DEF ReaderOpen, WriterOpen, mq_open
  <2>2. ASSUME leftover # NoQueue PROVE msgsize'[leftover] = msgsize[leftover]
    <3>1. run \in 1..MaxRuns /\ leftover \in 1 .. 2 * (run - 1)
      BY <2>2, RunsAssumption DEF ProcessTypes
    <3>2. \A p \in Proc : leftover # Created(p)
      BY <3>1, RunsAssumption DEF Created
    <3>3. PICK p \in Proc : \/ UNCHANGED msgsize
                            \/ msgsize' = [msgsize EXCEPT ![Created(p)] = size]
      BY <1>1 DEF ReaderOpen, WriterOpen, mq_open
    <3>4. leftover \in Queues /\ leftover # Created(p) /\ msgsize \in [Queues -> Nat]
      BY <3>1, <3>2, RunsAssumption DEF Handles
    <3> QED
      BY <3>3, <3>4
  <2> QED
    BY <2>1, <2>2 DEF LeftoverFits
<1>2. CASE ~(ReaderOpen \/ WriterOpen)
  BY <1>2 DEF LeftoverFits, Next, ReaderNext, WriterNext, Terminating, vars,
     ReaderReceive, ReaderReceiveFails, ReaderExit, WriterSend, WriterSendFails,
     WriterUnlink, WriterWait, Kill
<1> QED
  BY <1>1, <1>2

(* What an open does: it takes the linked queue, links a new one, or is    *)
(* refused.                                                                *)
LEMMA OpenCases ==
  ASSUME ProcessTypes, Handles, NotYetCreated,
         NEW p \in Proc, NEW next, mq_open(p, next)
  PROVE  /\ ~Opened(p) /\ i[p] = 0 /\ pc[p] = "open" /\ alive[p]
         /\ UNCHANGED <<control, msgs, alive, i, got>>
         /\ \/ /\ name # NoQueue /\ name \in Queues /\ UNCHANGED <<name, msgsize>>
               /\ qd' = [qd EXCEPT ![p] = name] /\ pc' = [pc EXCEPT ![p] = next]
            \/ /\ name = NoQueue /\ size \in 1..SizeLimit
               /\ name' \in Queues /\ msgsize[name'] = 0
               /\ \A o \in Proc : name' # qd[o]
               /\ msgsize' = [msgsize EXCEPT ![name'] = size]
               /\ qd' = [qd EXCEPT ![p] = name'] /\ pc' = [pc EXCEPT ![p] = next]
            \/ /\ name = NoQueue /\ size \notin 1..SizeLimit
               /\ UNCHANGED <<name, msgsize, qd>> /\ pc' = [pc EXCEPT ![p] = "failed"]
<1>1. /\ pc[p] = "open" /\ alive[p] /\ ~Opened(p) /\ i[p] = 0
      /\ UNCHANGED <<control, msgs, alive, i, got>>
  BY DEF mq_open, Handles
<1>2. CASE name = NoQueue /\ size \in 1..SizeLimit
  <2>1. /\ name' = Created(p) /\ qd' = [qd EXCEPT ![p] = name']
        /\ msgsize' = [msgsize EXCEPT ![name'] = size]
        /\ pc' = [pc EXCEPT ![p] = next]
    BY <1>2 DEF mq_open
  <2>2. name' \in Queues /\ msgsize[name'] = 0
    BY <1>1, <2>1, RunsAssumption DEF NotYetCreated, Created, ProcessTypes
  <2>3. \A o \in Proc : name' # qd[o]
    BY <2>2 DEF Handles
  <2> QED
    BY <1>1, <1>2, <2>1, <2>2, <2>3
<1>3. CASE name # NoQueue
  <2>1. name \in Queues
    BY <1>3, RunsAssumption DEF ProcessTypes
  <2> QED
    BY <1>1, <1>3, <2>1 DEF mq_open
<1>4. CASE name = NoQueue /\ size \notin 1..SizeLimit
  BY <1>1, <1>4 DEF mq_open
<1> QED
  BY <1>2, <1>3, <1>4

(* Every step keeps the sizes of the run's queues in agreement.            *)
LEMMA QueuesFitStep ==
  ASSUME ProcessTypes, Handles, NotYetCreated, QueuesFit, [Next]_vars
  PROVE  QueuesFit'
<1> SUFFICES ASSUME LeftoverFits' PROVE QueuesFit'
  BY DEF QueuesFit
<1>1. CASE NewRun
  BY <1>1 DEF NewRun, Fresh, QueuesFit, LeftoverFits
<1>2. CASE ~NewRun
  <2>1. /\ UNCHANGED <<run, size, count>>
        /\ name # NoQueue => msgsize[name] = size
        /\ \A p \in Proc : Opened(p) => msgsize[qd[p]] = size
    BY <1>2, FitsBefore DEF QueuesFit
  <2>2. ASSUME NEW p \in Proc, NEW next \in {"receive", "send"}, mq_open(p, next)
        PROVE  QueuesFit'
    <3>1. CASE name = NoQueue /\ size \in 1..SizeLimit
      <4>1. /\ name' \in Queues /\ msgsize[name'] = 0
            /\ msgsize' = [msgsize EXCEPT ![name'] = size]
            /\ qd' = [qd EXCEPT ![p] = name']
        BY <2>2, <3>1, OpenCases
      <4>2. \A o \in Proc : Opened(o) => qd[o] # name'
        BY <4>1 DEF Handles
      <4> QED
        BY <2>1, <4>1, <4>2 DEF QueuesFit, Handles, ProcessTypes
    <3>2. CASE ~(name = NoQueue /\ size \in 1..SizeLimit)
      BY <2>1, <2>2, <3>2 DEF mq_open, QueuesFit, ProcessTypes
    <3> QED
      BY <3>1, <3>2
  <2>3. CASE ~(ReaderOpen \/ WriterOpen)
    BY <1>2, <2>1, <2>3 DEF QueuesFit, Next, ReaderNext, WriterNext, Terminating, vars,
       ReaderReceive, ReaderReceiveFails, ReaderExit, WriterSend, WriterSendFails,
       WriterUnlink, WriterWait, Kill
  <2> QED
    BY <2>2, <2>3 DEF ReaderOpen, WriterOpen
<1> QED
  BY <1>1, <1>2

(* Every step keeps the two sides on one queue.                            *)
LEMMA OneQueueStep ==
  ASSUME TypeOK, Handles, NotYetCreated, QueuesFit, OneQueue, [Next]_vars
  PROVE  OneQueue'
<1> SUFFICES ASSUME count' > MaxMessages, LeftoverFits'
             PROVE  FirstComerWaits'
  BY DEF OneQueue
<1> USE CountAssumption, QueueAssumption, RunsAssumption
<1>1. ASSUME NEW q \in Queues PROVE Len(msgs[q]) \in 0..MaxMessages
  BY <1>1 DEF TypeOK, QueueTypes
<1>2. ProcessTypes /\ \A p \in Proc : Opened(p) => qd[p] \in Queues
  BY DEF TypeOK, ProcessTypes
<1>3. CASE NewRun
  BY <1>3 DEF NewRun, Fresh, FirstComerWaits
<1>4. CASE ~NewRun
  <2>1. LeftoverFits /\ count' = count
    BY <1>2, <1>4, FitsBefore
  <2>2. /\ count > MaxMessages /\ count \in Nat /\ FirstComerWaits
        /\ \A p \in Proc : Opened(p) => msgsize[qd[p]] = size
    <3>1. count > MaxMessages /\ count \in Nat
      BY <1>2, <2>1 DEF ProcessTypes
    <3> QED
      BY <2>1, <3>1 DEF OneQueue, QueuesFit
  <2>3. CASE ReaderOpen
    <3>1. ~Opened(Reader) /\ i[Reader] = 0
      BY <2>3 DEF ReaderOpen, mq_open, Handles
    <3>2. CASE Opened(Writer)
      <4>1. name = qd[Writer]
        BY <2>2, <3>1, <3>2 DEF FirstComerWaits
      <4> QED
        BY <2>3, <3>2, <4>1, <1>2 DEF ReaderOpen, mq_open, FirstComerWaits, ProcessTypes
    <3>3. CASE ~Opened(Writer)
      <4>1. CASE Opened(Reader)'
        <5>1. name' \in Queues
          <6>1. CASE name = NoQueue
            BY <2>3, <3>1, <4>1, <6>1, <1>2 DEF ReaderOpen, mq_open, Created, ProcessTypes
          <6>2. CASE name # NoQueue
            BY <2>3, <6>2, <1>2 DEF ReaderOpen, mq_open, ProcessTypes
          <6> QED
            BY <6>1, <6>2
        <5>2. /\ qd' = [qd EXCEPT ![Reader] = name']
              /\ pc' = [pc EXCEPT ![Reader] = "receive"]
              /\ UNCHANGED <<msgs, i>>
          BY <2>3, <3>1, <4>1 DEF ReaderOpen, mq_open
        <5> QED
          BY <3>1, <3>3, <5>1, <5>2, <1>1, <1>2 DEF FirstComerWaits, ProcessTypes
      <4>2. CASE ~Opened(Reader)'
        BY <2>3, <3>3, <4>2 DEF ReaderOpen, mq_open, FirstComerWaits, ProcessTypes, TypeOK
      <4> QED
        BY <4>1, <4>2
    <3> QED
      BY <3>2, <3>3
  <2>4. CASE WriterOpen
    <3>1. ~Opened(Writer) /\ i[Writer] = 0
      BY <2>4 DEF WriterOpen, mq_open, Handles
    <3>2. CASE Opened(Reader)
      <4>1. name = qd[Reader]
        BY <2>2, <3>1, <3>2 DEF FirstComerWaits
      <4> QED
        BY <2>4, <3>2, <4>1, <1>2 DEF WriterOpen, mq_open, FirstComerWaits, ProcessTypes
    <3>3. CASE ~Opened(Reader)
      <4>1. CASE Opened(Writer)'
        <5>1. name' \in Queues
          <6>1. CASE name = NoQueue
            BY <2>4, <3>1, <4>1, <6>1, <1>2 DEF WriterOpen, mq_open, Created, ProcessTypes
          <6>2. CASE name # NoQueue
            BY <2>4, <6>2, <1>2 DEF WriterOpen, mq_open, ProcessTypes
          <6> QED
            BY <6>1, <6>2
        <5>2. /\ qd' = [qd EXCEPT ![Writer] = name']
              /\ pc' = [pc EXCEPT ![Writer] = "send"]
              /\ UNCHANGED <<msgs, i>>
          BY <2>4, <3>1, <4>1 DEF WriterOpen, mq_open
        <5> QED
          BY <3>1, <3>3, <5>1, <5>2, <1>1, <1>2 DEF FirstComerWaits, ProcessTypes
      <4>2. CASE ~Opened(Writer)'
        BY <2>4, <3>3, <4>2 DEF WriterOpen, mq_open, FirstComerWaits, ProcessTypes, TypeOK
      <4> QED
        BY <4>1, <4>2
    <3> QED
      BY <3>2, <3>3
  <2>5. CASE ReaderReceive
    <3>1. /\ queue(Reader) \in Seq(Message) /\ queue(Reader) # <<>>
          /\ qd[Reader] \in Queues /\ Opened(Reader) /\ pc[Reader] = "receive"
      BY <2>5, <1>2 DEF ReaderReceive, TypeOK, QueueTypes, Handles
    <3>2. Len(Tail(queue(Reader))) = Len(queue(Reader)) - 1 /\ Len(queue(Reader)) \in Nat
      BY <3>1
    <3>3. Len(queue(Reader))' = Len(queue(Reader)) - 1
      BY <2>5, <3>1, <3>2 DEF ReaderReceive, TypeOK, QueueTypes
    <3>4. i[Reader]' = i[Reader] + 1 /\ UNCHANGED <<name, pc, qd>> /\ i[Reader] \in Nat
      BY <2>5, <1>2 DEF ReaderReceive, ProcessTypes
    <3> QED
      BY <2>2, <3>1, <3>2, <3>3, <3>4 DEF FirstComerWaits
  <2>6. CASE WriterSend
    <3>1. /\ queue(Writer) \in Seq(Message) /\ <<run, i[Writer] + 1>> \in Message
          /\ qd[Writer] \in Queues /\ Opened(Writer) /\ pc[Writer] = "send"
      <4>1. run \in 1..MaxRuns /\ i[Writer] + 1 \in Nat \ {0}
        BY <2>6, <1>2 DEF WriterSend, ProcessTypes
      <4> QED
        BY <2>6, <1>2, <4>1 DEF WriterSend, TypeOK, QueueTypes, Handles, Message
    <3>2. /\ Len(Append(queue(Writer), <<run, i[Writer] + 1>>)) = Len(queue(Writer)) + 1
          /\ Len(queue(Writer)) \in Nat
      BY <3>1
    <3>3. Len(queue(Writer))' = Len(queue(Writer)) + 1
      BY <2>6, <3>1, <3>2 DEF WriterSend, TypeOK, QueueTypes
    <3>4. i[Writer]' = i[Writer] + 1 /\ UNCHANGED <<name, pc, qd>> /\ i[Writer] \in Nat
      BY <2>6, <1>2 DEF WriterSend, ProcessTypes
    <3> QED
      BY <2>2, <3>1, <3>2, <3>3, <3>4 DEF FirstComerWaits
  <2>7. ~ReaderReceiveFails /\ ~WriterSendFails
    <3>1. ASSUME NEW p \in Proc, pc[p] \in {"receive", "send"}
          PROVE  msgsize[qd[p]] = size /\ size \in Nat
      BY <2>2, <3>1, SizesAssumption, <1>2 DEF Handles, ProcessTypes
    <3> QED
      BY <3>1 DEF ReaderReceiveFails, WriterSendFails
  <2>8. CASE ReaderExit
    <3>1. Opened(Reader) /\ qd[Reader] \in Queues /\ i[Reader] = count
      BY <2>8, <1>2 DEF ReaderExit, Handles
    <3>2. Opened(Writer)
      BY <2>2, <3>1, <1>1 DEF FirstComerWaits
    <3> QED
      BY <2>2, <2>8, <3>1, <3>2 DEF ReaderExit, FirstComerWaits
  <2>9. CASE WriterUnlink
    <3>1. Opened(Writer) /\ qd[Writer] \in Queues /\ i[Writer] = count
      BY <2>9, <1>2 DEF WriterUnlink, Handles
    <3>2. Opened(Reader)
      BY <2>2, <3>1, <1>1 DEF FirstComerWaits
    <3> QED
      BY <2>2, <2>9, <3>1, <3>2 DEF WriterUnlink, FirstComerWaits
  <2>10. CASE WriterWait
    BY <2>2, <2>10 DEF WriterWait, Handles, FirstComerWaits
  <2>11. CASE (\E p \in Proc : Kill(p)) \/ UNCHANGED vars
    BY <2>2, <2>11 DEF Kill, vars, FirstComerWaits
  <2> QED
    BY <1>4, <2>3, <2>4, <2>5, <2>6, <2>7, <2>8, <2>9, <2>10, <2>11
       DEF Next, ReaderNext, WriterNext, Terminating
<1> QED
  BY <1>3, <1>4

(* Every step keeps the loop counters in agreement with the control.       *)
LEMMA PositionsStep ==
  ASSUME ProcessTypes, Positions, [Next]_vars
  PROVE  Positions'
  BY DEF ProcessTypes, Positions, Next, ReaderNext, WriterNext, Terminating, vars,
     ReaderOpen, WriterOpen, mq_open, ReaderReceive, ReaderReceiveFails, ReaderExit,
     WriterSend, WriterSendFails, WriterUnlink, WriterWait, Kill, NewRun, Fresh



(* A message that is received leaves one less in the queue, one that is    *)
(* sent one more.                                                          *)
LEMMA ReceiveTakesOne ==
  ASSUME TypeOK, Handles, ReaderReceive
  PROVE  /\ qd[Reader] \in Queues /\ Opened(Reader) /\ pc[Reader] = "receive"
         /\ queue(Reader) \in Seq(Message) /\ queue(Reader) # <<>>
         /\ Len(queue(Reader)) \in Nat \ {0}
         /\ msgs' = [msgs EXCEPT ![qd[Reader]] = Tail(queue(Reader))]
         /\ Len(Tail(queue(Reader))) = Len(queue(Reader)) - 1
         /\ i' = [i EXCEPT ![Reader] = @ + 1] /\ i[Reader] < count
         /\ UNCHANGED <<control, name, msgsize, pc, alive, qd>>
<1>1. qd[Reader] \in Queues /\ Opened(Reader) /\ pc[Reader] = "receive"
  BY RunsAssumption DEF ReaderReceive, TypeOK, ProcessTypes
<1>2. queue(Reader) \in Seq(Message) /\ queue(Reader) # <<>>
  BY <1>1 DEF ReaderReceive, TypeOK, QueueTypes
<1>3. /\ Len(queue(Reader)) \in Nat \ {0}
      /\ Len(Tail(queue(Reader))) = Len(queue(Reader)) - 1
  BY <1>2
<1> QED
  BY <1>1, <1>2, <1>3 DEF ReaderReceive

LEMMA SendAddsOne ==
  ASSUME TypeOK, Handles, WriterSend
  PROVE  /\ qd[Writer] \in Queues /\ Opened(Writer) /\ pc[Writer] = "send"
         /\ queue(Writer) \in Seq(Message) /\ Len(queue(Writer)) \in Nat
         /\ Len(queue(Writer)) < MaxMessages
         /\ msgs' = [msgs EXCEPT ![qd[Writer]] = Append(queue(Writer), <<run, i[Writer] + 1>>)]
         /\ Len(Append(queue(Writer), <<run, i[Writer] + 1>>)) = Len(queue(Writer)) + 1
         /\ i' = [i EXCEPT ![Writer] = @ + 1] /\ i[Writer] < count
         /\ UNCHANGED <<control, name, msgsize, pc, alive, qd, got>>
<1>1. qd[Writer] \in Queues /\ Opened(Writer) /\ pc[Writer] = "send"
  BY RunsAssumption DEF WriterSend, TypeOK, ProcessTypes
<1>2. <<run, i[Writer] + 1>> \in Message
  <2>1. run \in 1..MaxRuns /\ i[Writer] + 1 \in Nat \ {0}
    BY DEF TypeOK, ProcessTypes
  <2> QED
    BY <2>1 DEF Message
<1>4. queue(Writer) \in Seq(Message)
  BY <1>1 DEF TypeOK, QueueTypes
<1>3. /\ Len(Append(queue(Writer), <<run, i[Writer] + 1>>)) = Len(queue(Writer)) + 1
      /\ Len(queue(Writer)) \in Nat
  BY <1>2, <1>4
<1> QED
  BY <1>1, <1>3, <1>4 DEF WriterSend

(* Of queues of the run's own size no call fails with EMSGSIZE.            *)
LEMMA NothingTooLong ==
  ASSUME TypeOK, Handles, \A p \in Proc : Opened(p) => msgsize[qd[p]] = size
  PROVE  ~ReaderReceiveFails /\ ~WriterSendFails
<1>1. ASSUME NEW p \in Proc, pc[p] \in {"receive", "send"}
      PROVE  msgsize[qd[p]] = size /\ size \in Nat
  BY <1>1, SizesAssumption DEF Handles, TypeOK, ProcessTypes
<1> QED
  BY <1>1 DEF ReaderReceiveFails, WriterSendFails

(* Every step keeps the account of the messages in a queue.                *)
LEMMA FlowStep ==
  ASSUME TypeOK, Handles, NotYetCreated, QueuesFit, Flow, [Next]_vars
  PROVE  Flow'
<1> USE CountAssumption, QueueAssumption, RunsAssumption
<1>1. ProcessTypes /\ \A p \in Proc : Opened(p) => qd[p] \in Queues
  BY DEF TypeOK, ProcessTypes
<1>2. CASE NewRun
  BY <1>2 DEF NewRun, Fresh, Flow
<1>3. CASE ~NewRun
  <2> SUFFICES ASSUME LeftoverFits' PROVE Flow'
    BY DEF Flow
  <2>1. LeftoverFits /\ UNCHANGED <<run, size, count>>
    BY <1>1, <1>3, FitsBefore
  <2>2. /\ \A p \in Proc : i[p] \in 0..count
        /\ count \in Nat
        /\ \A q \in Queues : Len(msgs[q]) \in 0..MaxMessages
    BY DEF TypeOK, ProcessTypes, QueueTypes
  <2>3. \A p \in Proc : Opened(p) => msgsize[qd[p]] = size
    BY <2>1 DEF QueuesFit
  <2>4. ASSUME NEW p \in Proc, NEW next \in {"receive", "send"}, mq_open(p, next)
        PROVE  Flow'
    <3>1. ~Opened(p) /\ i[p] = 0 /\ UNCHANGED <<msgs, i>>
      BY <1>1, <2>4, OpenCases
    <3>2. CASE UNCHANGED qd
      BY <2>1, <3>1, <3>2 DEF Flow
    <3>3. CASE ~UNCHANGED qd
      <4>1. qd' = [qd EXCEPT ![p] = name'] /\ name' \in Queues
        BY <1>1, <2>4, <3>3, OpenCases
      <4>2. Len(msgs[name']) \in 0..MaxMessages
        BY <2>2, <4>1
      <4>3. CASE p = Reader
        <5>1. qd'[Reader] = name' /\ qd'[Writer] = qd[Writer]
          BY <4>1, <4>3, <1>1 DEF ProcessTypes
        <5> QED
          BY <1>1, <2>1, <2>2, <3>1, <4>1, <4>2, <4>3, <5>1 DEF Flow
      <4>4. CASE p = Writer
        <5>1. qd'[Writer] = name' /\ qd'[Reader] = qd[Reader]
          BY <4>1, <4>4, <1>1 DEF ProcessTypes
        <5> QED
          BY <1>1, <2>1, <2>2, <3>1, <4>1, <4>2, <4>4, <5>1 DEF Flow
      <4> QED
        BY <4>3, <4>4
    <3> QED
      BY <3>2, <3>3
  <2>5. CASE ReaderReceive
    <3>1. /\ qd[Reader] \in Queues /\ Len(queue(Reader)) \in Nat /\ Opened(Reader)
          /\ msgs' = [msgs EXCEPT ![qd[Reader]] = Tail(queue(Reader))]
          /\ Len(Tail(queue(Reader))) = Len(queue(Reader)) - 1
          /\ i' = [i EXCEPT ![Reader] = @ + 1] /\ UNCHANGED qd
      BY <2>5, ReceiveTakesOne
    <3>2. DOMAIN msgs = Queues /\ DOMAIN i = Proc
      BY <1>1 DEF TypeOK, ProcessTypes, QueueTypes
    <3>3. Len(msgs'[qd[Reader]]) = Len(queue(Reader)) - 1
      BY <3>1, <3>2
    <3>4. qd[Reader] # qd[Writer] => msgs'[qd[Writer]] = queue(Writer)
      BY <3>1, <3>2
    <3>5. i'[Reader] = i[Reader] + 1 /\ i'[Writer] = i[Writer]
      BY <3>1, <3>2
    <3>6. CASE qd[Reader] = qd[Writer]
      <4>1. qd'[Reader] = qd'[Writer] /\ Len(queue(Reader))' = Len(queue(Reader)) - 1
        BY <3>1, <3>3, <3>6
      <4>2. /\ i[Writer] <= i[Reader] + Len(queue(Reader))
            /\ i[Reader] + Len(queue(Reader)) <= MaxMessages + i[Writer]
        BY <2>1, <3>1, <3>6 DEF Flow
      <4>3. i[Reader] \in Nat /\ i[Writer] \in Nat /\ Len(queue(Reader)) \in Nat
        BY <2>2, <3>1
      <4>4. i'[Writer] <= i'[Reader] + Len(queue(Reader))'
        BY <3>5, <4>1, <4>2, <4>3
      <4>5. i'[Reader] + Len(queue(Reader))' <= MaxMessages + i'[Writer]
        BY <3>5, <4>1, <4>2, <4>3
      <4> QED
        BY <4>1, <4>4, <4>5 DEF Flow
    <3>7. CASE qd[Reader] # qd[Writer]
      <4>1. i'[Reader] + Len(queue(Reader))' <= MaxMessages
        <5>1. i[Reader] + Len(queue(Reader)) <= MaxMessages
          BY <2>1, <3>1, <3>7 DEF Flow
        <5> QED
          BY <2>2, <3>1, <3>3, <3>5, <5>1
      <4>2. Opened(Writer) => i'[Writer] <= Len(queue(Writer))'
        BY <2>1, <3>1, <3>4, <3>5, <3>7 DEF Flow
      <4> QED
        BY <3>1, <3>7, <4>1, <4>2 DEF Flow
    <3> QED
      BY <3>6, <3>7
  <2>6. CASE WriterSend
    <3>1. /\ qd[Writer] \in Queues /\ Len(queue(Writer)) \in Nat /\ Opened(Writer)
          /\ msgs' = [msgs EXCEPT ![qd[Writer]] = Append(queue(Writer), <<run, i[Writer] + 1>>)]
          /\ Len(Append(queue(Writer), <<run, i[Writer] + 1>>)) = Len(queue(Writer)) + 1
          /\ i' = [i EXCEPT ![Writer] = @ + 1] /\ UNCHANGED qd
      BY <2>6, SendAddsOne
    <3>2. DOMAIN msgs = Queues /\ DOMAIN i = Proc
      BY <1>1 DEF TypeOK, ProcessTypes, QueueTypes
    <3>3. Len(msgs'[qd[Writer]]) = Len(queue(Writer)) + 1
      BY <3>1, <3>2
    <3>4. qd[Writer] # qd[Reader] => msgs'[qd[Reader]] = queue(Reader)
      BY <3>1, <3>2
    <3>5. i'[Writer] = i[Writer] + 1 /\ i'[Reader] = i[Reader]
      BY <3>1, <3>2
    <3>6. CASE qd[Reader] = qd[Writer]
      <4>1. qd'[Reader] = qd'[Writer] /\ Len(queue(Reader))' = Len(queue(Reader)) + 1
        BY <3>1, <3>3, <3>6
      <4>2. /\ i[Writer] <= i[Reader] + Len(queue(Reader))
            /\ i[Reader] + Len(queue(Reader)) <= MaxMessages + i[Writer]
        BY <2>1, <3>1, <3>6 DEF Flow
      <4>3. i[Reader] \in Nat /\ i[Writer] \in Nat /\ Len(queue(Reader)) \in Nat
        BY <2>2, <3>1, <3>6
      <4>4. i'[Writer] <= i'[Reader] + Len(queue(Reader))'
        BY <3>5, <4>1, <4>2, <4>3
      <4>5. i'[Reader] + Len(queue(Reader))' <= MaxMessages + i'[Writer]
        BY <3>5, <4>1, <4>2, <4>3
      <4> QED
        BY <4>1, <4>4, <4>5 DEF Flow
    <3>7. CASE qd[Reader] # qd[Writer]
      BY <2>1, <2>2, <3>1, <3>3, <3>4, <3>5, <3>7 DEF Flow
    <3> QED
      BY <3>6, <3>7
  <2>8. ~ReaderReceiveFails /\ ~WriterSendFails
    BY <2>3, NothingTooLong
  <2>9. CASE ReaderExit \/ WriterUnlink \/ WriterWait \/ (\E p \in Proc : Kill(p)) \/ UNCHANGED vars
    BY <2>1, <2>9 DEF ReaderExit, WriterUnlink, WriterWait, Kill, vars, Flow
  <2> QED
    BY <1>3, <2>4, <2>5, <2>6, <2>8, <2>9
       DEF Next, ReaderNext, WriterNext, Terminating, ReaderOpen, WriterOpen
<1> QED
  BY <1>2, <1>3

(* Every step keeps a refusal a refusal of both.                           *)
LEMMA RefusedBothStep ==
  ASSUME TypeOK, Handles, NotYetCreated, OneQueue, RefusedBoth, [Next]_vars
  PROVE  RefusedBoth'
<1>1. ProcessTypes
  BY DEF TypeOK
<1>2. CASE NewRun
  BY <1>2 DEF NewRun, Fresh, RefusedBoth
<1>3. CASE ~NewRun
  <2> SUFFICES ASSUME LeftoverFits', count' > MaxMessages PROVE RefusedBoth'
    BY DEF RefusedBoth
  <2>1. LeftoverFits /\ UNCHANGED <<run, size, count>> /\ count > MaxMessages
    BY <1>1, <1>3, FitsBefore
  <2>2. FirstComerWaits
    BY <2>1 DEF OneQueue
  <2>3. ASSUME NEW p \in Proc, NEW next \in {"receive", "send"}, mq_open(p, next)
        PROVE  RefusedBoth'
    BY <1>1, <2>1, <2>2, <2>3, OpenCases DEF RefusedBoth, FirstComerWaits, ProcessTypes
  <2>4. CASE ~(ReaderOpen \/ WriterOpen)
    BY <1>3, <2>1, <2>4, <1>1
       DEF RefusedBoth, ProcessTypes, Next, ReaderNext, WriterNext, Terminating, vars,
           ReaderReceive, ReaderReceiveFails, ReaderExit, WriterSend, WriterSendFails,
           WriterUnlink, WriterWait, Kill
  <2> QED
    BY <2>3, <2>4 DEF ReaderOpen, WriterOpen
<1> QED
  BY <1>2, <1>3

(* Blocks of consecutive messages as queues: what Append, Head and Tail    *)
(* make of them.                                                           *)
Own(r) == {r} \X Nat

LEMMA BlockIsSeq ==
  ASSUME NEW r, NEW m \in Nat, NEW n \in Nat
  PROVE  Block(r, m, n) \in Seq(Own(r)) /\ Len(Block(r, m, n)) = n
  BY DEF Block, Own

LEMMA BlockElement ==
  ASSUME NEW r, NEW m \in Nat, NEW n \in Nat, NEW k \in 1..n
  PROVE  Block(r, m, n)[k] = <<r, m + k>>
  BY DEF Block

LEMMA EmptyBlock ==
  ASSUME NEW r, NEW m \in Nat, NEW n \in Nat
  PROVE  Block(r, m, n) = <<>> <=> n = 0
  BY DEF Block

LEMMA BlockAppend ==
  ASSUME NEW r, NEW m \in Nat, NEW n \in Nat
  PROVE  Append(Block(r, m, n), <<r, m + n + 1>>) = Block(r, m, n + 1)
<1> DEFINE e == <<r, m + n + 1>>
           s == Append(Block(r, m, n), e)
           t == Block(r, m, n + 1)
<1>1. n + 1 \in Nat /\ e \in Own(r)
  BY DEF Own
<1>2. Block(r, m, n) \in Seq(Own(r)) /\ Len(Block(r, m, n)) = n
  BY BlockIsSeq
<1>3. t \in Seq(Own(r)) /\ Len(t) = n + 1
  BY <1>1, BlockIsSeq
<1>4. /\ s \in Seq(Own(r)) /\ Len(s) = n + 1
      /\ \A k \in 1..n : s[k] = Block(r, m, n)[k]
      /\ s[n + 1] = e
  BY <1>1, <1>2, AppendProperties
<1>5. ASSUME NEW k \in 1 .. n + 1 PROVE s[k] = t[k]
  <2>1. t[k] = <<r, m + k>>
    BY <1>1, BlockElement
  <2>2. CASE k = n + 1
    BY <1>4, <2>1, <2>2
  <2>3. CASE k # n + 1
    <3>1. k \in 1..n
      BY <2>3
    <3>2. Block(r, m, n)[k] = <<r, m + k>>
      BY <3>1, BlockElement
    <3> QED
      BY <1>4, <2>1, <3>1, <3>2
  <2> QED
    BY <2>2, <2>3
<1> HIDE DEF s, t
<1>6. s = t
  BY <1>3, <1>4, <1>5, SeqEqual
<1> QED
  BY <1>6 DEF s, t

LEMMA BlockHeadTail ==
  ASSUME NEW r, NEW m \in Nat, NEW n \in Nat \ {0}
  PROVE  /\ Head(Block(r, m, n)) = <<r, m + 1>>
         /\ Tail(Block(r, m, n)) = Block(r, m + 1, n - 1)
<1> DEFINE s == Tail(Block(r, m, n))
           t == Block(r, m + 1, n - 1)
<1>1. n - 1 \in Nat /\ m + 1 \in Nat /\ 1 \in 1..n
  OBVIOUS
<1>2. Block(r, m, n) \in Seq(Own(r)) /\ Len(Block(r, m, n)) = n /\ Block(r, m, n) # <<>>
  BY BlockIsSeq, EmptyBlock
<1>3. Head(Block(r, m, n)) = <<r, m + 1>>
  <2>1. Block(r, m, n)[1] = <<r, m + 1>>
    BY <1>1, BlockElement
  <2> QED
    BY <1>2, <2>1
<1>4. t \in Seq(Own(r)) /\ Len(t) = n - 1
  BY <1>1, BlockIsSeq
<1>5. /\ s \in Seq(Own(r)) /\ Len(s) = n - 1
      /\ \A k \in 1 .. Len(s) : s[k] = Block(r, m, n)[k + 1]
  BY <1>2, HeadTailProperties
<1>6. ASSUME NEW k \in 1 .. n - 1 PROVE s[k] = t[k]
  <2>1. k + 1 \in 1..n /\ m + (k + 1) = (m + 1) + k
    OBVIOUS
  <2>2. Block(r, m, n)[k + 1] = <<r, m + (k + 1)>>
    BY <2>1, BlockElement
  <2>3. t[k] = <<r, (m + 1) + k>>
    BY <1>1, BlockElement
  <2> QED
    BY <1>5, <2>1, <2>2, <2>3
<1> HIDE DEF s, t
<1>7. s = t
  BY <1>4, <1>5, <1>6, SeqEqual
<1> QED
  BY <1>3, <1>7 DEF s, t

(* Without a kill a run ends with its queue unlinked, so the next one      *)
(* starts without a queue.                                                 *)
LEMMA NothingInherited ==
  ASSUME TypeOK, Handles, NothingLeft, OwnQueues, NewRun
  PROVE  name = NoQueue
<1> SUFFICES ASSUME name # NoQueue PROVE FALSE
  OBVIOUS
<1>1. \A p \in Proc : pc[p] \in Stopped
  BY DEF NewRun, OwnQueues
<1>2. PICK p \in Proc : Opened(p)
  BY DEF OwnQueues
<1>3. \A o \in Proc : pc[o] = "done"
  BY <1>1, <1>2 DEF OwnQueues
<1> QED
  BY <1>3 DEF NothingLeft

(* Every step but a kill keeps the queues the run's own.                   *)
LEMMA OwnQueuesStep ==
  ASSUME TypeOK, Handles, NotYetCreated, NothingLeft, OwnQueues, [Next]_vars,
         \A p \in Proc : ~Kill(p)
  PROVE  OwnQueues'
<1>1. ProcessTypes
  BY DEF TypeOK
<1>2. CASE NewRun
  BY <1>2, NothingInherited DEF NewRun, Fresh, OwnQueues
<1>3. ASSUME NEW p \in Proc, NEW next \in {"receive", "send"}, mq_open(p, next)
      PROVE  OwnQueues'
  <2>1. /\ ~Opened(p) /\ UNCHANGED <<size, alive, leftover>> /\ msgsize \in [Queues -> Nat]
        /\ \A o \in Proc : Opened(o) => qd[o] \in Queues
    BY <1>1, <1>3, OpenCases, RunsAssumption DEF TypeOK, ProcessTypes
  <2>2. CASE name # NoQueue
    <3>1. /\ UNCHANGED <<name, msgsize>> /\ qd' = [qd EXCEPT ![p] = name]
          /\ pc' = [pc EXCEPT ![p] = next]
      BY <1>1, <1>3, <2>2, OpenCases
    <3>2. PICK o \in Proc : name = qd[o] /\ o # p
      BY <2>1, <2>2 DEF OwnQueues
    <3>3. msgsize[name] = size /\ size \in 1..SizeLimit
      BY <2>2, <3>2 DEF OwnQueues
    <3> QED
      BY <1>1, <2>1, <3>1, <3>2, <3>3 DEF OwnQueues, ProcessTypes
  <2>3. CASE name = NoQueue /\ size \in 1..SizeLimit
    <3>1. /\ name' \in Queues /\ qd' = [qd EXCEPT ![p] = name']
          /\ msgsize' = [msgsize EXCEPT ![name'] = size]
          /\ pc' = [pc EXCEPT ![p] = next]
      BY <1>1, <1>3, <2>3, OpenCases
    <3>2. \A o \in Proc : Opened(o)' => msgsize'[qd'[o]] = size
      BY <1>1, <2>1, <3>1 DEF OwnQueues, ProcessTypes
    <3> QED
      BY <1>1, <2>1, <2>3, <3>1, <3>2 DEF OwnQueues, ProcessTypes
  <2>4. CASE name = NoQueue /\ size \notin 1..SizeLimit
    BY <1>1, <1>3, <2>1, <2>4, OpenCases DEF OwnQueues, ProcessTypes
  <2> QED
    BY <2>2, <2>3, <2>4
<1>4. ~ReaderReceiveFails /\ ~WriterSendFails
  BY NothingTooLong DEF OwnQueues
<1>5. CASE ReaderReceive \/ WriterSend \/ ReaderExit \/ WriterUnlink \/ WriterWait
           \/ UNCHANGED vars
  BY <1>1, <1>5
     DEF ReaderReceive, WriterSend, ReaderExit, WriterUnlink, WriterWait, vars,
         OwnQueues, ProcessTypes
<1> QED
  BY <1>2, <1>3, <1>4, <1>5
     DEF Next, ReaderNext, WriterNext, Terminating, ReaderOpen, WriterOpen

(* Every step but a kill keeps what was received, and what is queued, in   *)
(* the order it was sent.                                                  *)
LEMMA OwnMessagesStep ==
  ASSUME TypeOK, Handles, NotYetCreated, NothingLeft, OwnQueues, OwnMessages,
         [Next]_vars, \A p \in Proc : ~Kill(p)
  PROVE  OwnMessages'
<1>1. /\ ProcessTypes /\ DOMAIN msgs = Queues /\ DOMAIN i = Proc
      /\ \A p \in Proc : i[p] \in Nat
      /\ \A p \in Proc : Opened(p) => qd[p] \in Queues
  <2>1. ProcessTypes /\ DOMAIN msgs = Queues
    BY DEF TypeOK, QueueTypes
  <2>2. DOMAIN i = Proc /\ \A p \in Proc : i[p] \in Nat
    BY <2>1, CountAssumption DEF ProcessTypes
  <2>3. \A p \in Proc : Opened(p) => qd[p] \in Queues
    BY <2>1, RunsAssumption DEF ProcessTypes
  <2> QED
    BY <2>1, <2>2, <2>3
<1>2. CASE NewRun
  <2>1. /\ \A p \in Proc : i'[p] = 0 /\ ~Opened(p)'
        /\ got' = <<>> /\ UNCHANGED <<msgs, msgsize>>
    BY <1>2 DEF NewRun, Fresh
  <2>2. Block(run', 0, 0) = <<>>
    BY EmptyBlock
  <2> QED
    BY <2>1, <2>2 DEF OwnMessages
<1>3. ASSUME NEW p \in Proc, NEW next \in {"receive", "send"}, mq_open(p, next)
      PROVE  OwnMessages'
  <2>1. ~Opened(p) /\ i[p] = 0 /\ UNCHANGED <<run, msgs, i, got>> /\ DOMAIN qd = Proc
    BY <1>1, <1>3, OpenCases DEF ProcessTypes
  <2>2. Block(run, 0, 0) = <<>>
    BY EmptyBlock
  <2>3. CASE name # NoQueue
    <3>1. UNCHANGED msgsize /\ qd' = [qd EXCEPT ![p] = name]
      BY <1>1, <1>3, <2>3, OpenCases
    <3>2. PICK o \in Proc : name = qd[o] /\ o # p
      BY <2>1, <2>3 DEF OwnQueues
    <3>3. qd'[p] = qd[o] /\ qd'[o] = qd[o] /\ Opened(o) /\ qd[p] # qd[o]
      BY <2>1, <2>3, <3>1, <3>2
    <3>4. CASE p = Reader /\ o = Writer
      <4>1. queue(Writer) = Block(run, 0, i[Writer]) /\ i[Writer] - 0 = i[Writer]
        BY <1>1, <3>3, <3>4 DEF OwnMessages
      <4> QED
        BY <1>1, <2>1, <3>1, <3>3, <3>4, <4>1 DEF OwnMessages
    <3>5. CASE p = Writer /\ o = Reader
      <4>1. queue(Reader) = <<>> /\ i[Reader] = 0 /\ i[Writer] = 0
        BY <2>1, <3>3, <3>5 DEF OwnMessages
      <4> QED
        BY <2>1, <2>2, <3>1, <3>3, <3>5, <4>1 DEF OwnMessages
    <3> QED
      BY <3>2, <3>4, <3>5
  <2>4. CASE name = NoQueue /\ size \in 1..SizeLimit
    <3>1. /\ name' \in Queues /\ msgsize[name'] = 0 /\ \A o \in Proc : name' # qd[o]
          /\ msgsize' = [msgsize EXCEPT ![name'] = size]
          /\ qd' = [qd EXCEPT ![p] = name']
      BY <1>1, <1>3, <2>4, OpenCases
    <3>2. msgs[name'] = <<>> /\ \A q \in Queues : msgsize'[q] = 0 => msgs[q] = <<>>
      BY <2>4, <3>1 DEF OwnMessages, Handles
    <3>3. CASE p = Reader
      <4>1. qd'[Reader] = name' /\ qd'[Writer] = qd[Writer]
        BY <2>1, <3>1, <3>3
      <4> QED
        BY <2>1, <3>1, <3>2, <3>3, <4>1 DEF OwnMessages
    <3>4. CASE p = Writer
      <4>1. qd'[Writer] = name' /\ qd'[Reader] = qd[Reader]
        BY <2>1, <3>1, <3>4
      <4> QED
        BY <2>1, <2>2, <3>1, <3>2, <3>4, <4>1 DEF OwnMessages
    <3> QED
      BY <3>3, <3>4
  <2>5. CASE name = NoQueue /\ size \notin 1..SizeLimit
    <3>1. UNCHANGED <<msgsize, qd>>
      BY <1>1, <1>3, <2>5, OpenCases
    <3> QED
      BY <2>1, <3>1 DEF OwnMessages
  <2> QED
    BY <2>3, <2>4, <2>5
<1>4. CASE ReaderReceive
  <2>1. /\ qd[Reader] \in Queues /\ Opened(Reader) /\ queue(Reader) # <<>>
        /\ msgs' = [msgs EXCEPT ![qd[Reader]] = Tail(queue(Reader))]
        /\ i' = [i EXCEPT ![Reader] = @ + 1]
        /\ got' = Append(got, Head(queue(Reader)))
        /\ UNCHANGED <<run, msgsize, qd>>
    BY <1>4, ReceiveTakesOne DEF ReaderReceive
  <2> DEFINE m == i[Reader]  n == i[Writer] - i[Reader]
  <2>2. qd[Reader] = qd[Writer] /\ queue(Reader) = Block(run, m, n) /\ i[Reader] <= i[Writer]
    BY <2>1 DEF OwnMessages
  <2>3. m \in Nat /\ n \in Nat \ {0}
    BY <1>1, <2>1, <2>2, EmptyBlock
  <2>4. /\ Head(queue(Reader)) = <<run, m + 1>>
        /\ Tail(queue(Reader)) = Block(run, m + 1, n - 1)
    BY <2>2, <2>3, BlockHeadTail
  <2>5. got' = Block(run, 0, m + 1)
    <3>1. got = Block(run, 0, m) /\ 0 + m + 1 = m + 1
      BY <2>3 DEF OwnMessages
    <3>2. Append(Block(run, 0, m), <<run, 0 + m + 1>>) = Block(run, 0, m + 1)
      BY <2>3, BlockAppend
    <3> QED
      BY <2>1, <2>4, <3>1, <3>2
  <2>6. i'[Reader] = m + 1 /\ i'[Writer] = i[Writer] /\ i'[Writer] - i'[Reader] = n - 1
    BY <1>1, <2>1, <2>3
  <2>7. msgs'[qd[Reader]] = Block(run, m + 1, n - 1)
    BY <1>1, <2>1, <2>4
  <2>8. /\ \A q \in Queues : msgsize[q] = 0 => msgs'[q] = <<>>
        /\ Opened(Writer) /\ i'[Reader] <= i'[Writer]
    BY <1>1, <2>1, <2>2, <2>3, <2>6 DEF OwnMessages, Handles
  <2> HIDE DEF m, n
  <2>9. got' = Block(run', 0, i'[Reader])
    BY <2>1, <2>5, <2>6
  <2>10. queue(Reader)' = Block(run', i'[Reader], i'[Writer] - i'[Reader])
    BY <2>1, <2>6, <2>7
  <2>11. qd'[Reader] = qd'[Writer] /\ Opened(Reader)' /\ Opened(Writer)'
    BY <2>1, <2>2, <2>8
  <2> QED
    BY <2>1, <2>8, <2>9, <2>10, <2>11 DEF OwnMessages
<1>5. CASE WriterSend
  <2>1. /\ qd[Writer] \in Queues /\ Opened(Writer)
        /\ msgs' = [msgs EXCEPT ![qd[Writer]] = Append(queue(Writer), <<run, i[Writer] + 1>>)]
        /\ i' = [i EXCEPT ![Writer] = @ + 1]
        /\ UNCHANGED <<run, msgsize, qd, got>>
    BY <1>5, SendAddsOne
  <2>2. i'[Writer] = i[Writer] + 1 /\ i'[Reader] = i[Reader]
    BY <1>1, <2>1
  <2>3. \A q \in Queues : msgsize[q] = 0 => msgs'[q] = <<>>
    BY <1>1, <2>1 DEF OwnMessages, Handles
  <2>4. CASE qd[Reader] = qd[Writer]
    <3> DEFINE m == i[Reader]  n == i[Writer] - i[Reader]
    <3>1. queue(Writer) = Block(run, m, n) /\ i[Reader] <= i[Writer]
      BY <2>1, <2>4 DEF OwnMessages
    <3>2. m \in Nat /\ n \in Nat /\ m + n + 1 = i[Writer] + 1
      BY <1>1, <3>1
    <3>3. Append(Block(run, m, n), <<run, m + n + 1>>) = Block(run, m, n + 1)
      BY <3>2, BlockAppend
    <3>4. msgs'[qd[Writer]] = Block(run, m, n + 1)
      BY <1>1, <2>1, <3>1, <3>2, <3>3
    <3>5. i'[Writer] - i'[Reader] = n + 1 /\ i'[Reader] <= i'[Writer] /\ i'[Reader] = m
      BY <1>1, <2>2, <3>1
    <3> HIDE DEF m, n
    <3> QED
      BY <2>1, <2>2, <2>3, <2>4, <3>4, <3>5 DEF OwnMessages
  <2>5. CASE qd[Reader] # qd[Writer]
    <3>1. queue(Writer) = Block(run, 0, i[Writer])
      BY <2>1, <2>5 DEF OwnMessages
    <3>2. Append(Block(run, 0, i[Writer]), <<run, 0 + i[Writer] + 1>>) = Block(run, 0, i[Writer] + 1)
      BY <1>1, BlockAppend
    <3>3. 0 + i[Writer] + 1 = i[Writer] + 1
      BY <1>1
    <3>4. /\ msgs'[qd[Writer]] = Block(run, 0, i[Writer] + 1)
          /\ Opened(Reader) => msgs'[qd[Reader]] = queue(Reader)
      BY <1>1, <2>1, <2>5, <3>1, <3>2, <3>3
    <3> QED
      BY <2>1, <2>2, <2>3, <2>5, <3>4 DEF OwnMessages
  <2> QED
    BY <2>4, <2>5
<1>6. ~ReaderReceiveFails /\ ~WriterSendFails
  BY NothingTooLong DEF OwnQueues
<1>7. CASE ReaderExit \/ WriterUnlink \/ WriterWait \/ UNCHANGED vars
  BY <1>7 DEF ReaderExit, WriterUnlink, WriterWait, vars, OwnMessages
<1> QED
  BY <1>2, <1>3, <1>4, <1>5, <1>6, <1>7
     DEF Next, ReaderNext, WriterNext, Terminating, ReaderOpen, WriterOpen

(* Every step keeps the account of a run without a kill.                   *)
LEMMA UndisturbedStep ==
  ASSUME TypeOK, Handles, NotYetCreated, NothingLeft, Undisturbed, [Next]_vars
  PROVE  Undisturbed'
<1> SUFFICES ASSUME kills' = 0 PROVE OwnQueues' /\ OwnMessages'
  BY DEF Undisturbed
<1>1. kills = 0 /\ \A p \in Proc : ~Kill(p)
  BY DEF Next, ReaderNext, WriterNext, Terminating, vars, ReaderOpen, WriterOpen,
     mq_open, ReaderReceive, ReaderReceiveFails, ReaderExit, WriterSend,
     WriterSendFails, WriterUnlink, WriterWait, Kill, NewRun, TypeOK, ProcessTypes
<1> QED
  BY <1>1, OwnQueuesStep, OwnMessagesStep DEF Undisturbed

(* The name is gone when both sides are through with their unlinks.        *)
LEMMA NothingLeftStep ==
  ASSUME TypeOK, NothingLeft, [Next]_vars
  PROVE  NothingLeft'
  BY DEF TypeOK, ProcessTypes, NothingLeft, Next, ReaderNext, WriterNext,
     Terminating, vars, ReaderOpen, WriterOpen, mq_open, ReaderReceive,
     ReaderReceiveFails, ReaderExit, WriterSend, WriterSendFails, WriterUnlink,
     WriterWait, Kill, NewRun, Fresh

-----------------------------------------------------------------------------
(* The program starts in the inductive invariant and stays in it.          *)
LEMMA Initially == Init => IInv
<1> SUFFICES ASSUME Init PROVE IInv
  OBVIOUS
<1> USE SizesAssumption, CountAssumption, QueueAssumption, RunsAssumption
<1>1. TypeOK /\ Handles /\ NotYetCreated
  BY DEF Init, Fresh, TypeOK, ProcessTypes, QueueTypes, Handles, NotYetCreated, Created
<1>2. OneQueue /\ NothingLeft /\ Positions /\ Flow /\ RefusedBoth
  BY DEF Init, Fresh, OneQueue, FirstComerWaits, NothingLeft, Positions, Flow, RefusedBoth
<1>5. QueuesFit
  BY DEF Init, Fresh, QueuesFit
<1>3. Block(run, 0, 0) = <<>>
  BY EmptyBlock
<1>4. OwnQueues /\ OwnMessages
  BY <1>3 DEF Init, Fresh, OwnQueues, OwnMessages
<1> QED
  BY <1>1, <1>2, <1>4, <1>5 DEF IInv, Undisturbed

LEMMA Inductive == IInv /\ [Next]_vars => IInv'
<1> SUFFICES ASSUME IInv, [Next]_vars PROVE IInv'
  OBVIOUS
<1>1. /\ TypeOK /\ Handles /\ NotYetCreated /\ QueuesFit /\ OneQueue /\ NothingLeft
      /\ Positions /\ Flow /\ RefusedBoth /\ Undisturbed
      /\ ProcessTypes /\ QueueTypes
  BY DEF IInv, TypeOK
<1>2. ProcessTypes' /\ QueueTypes' /\ Handles' /\ NotYetCreated'
  BY <1>1, ProcessTypesStep, QueueTypesStep, HandlesStep, NotYetCreatedStep
<1>3. TypeOK'
  BY <1>2 DEF TypeOK, Handles
<1>4. QueuesFit' /\ OneQueue' /\ NothingLeft' /\ Positions'
  BY <1>1, QueuesFitStep, OneQueueStep, NothingLeftStep, PositionsStep
<1>5. Flow' /\ RefusedBoth' /\ Undisturbed'
  BY <1>1, FlowStep, RefusedBothStep, UndisturbedStep
<1> QED
  BY <1>2, <1>3, <1>4, <1>5 DEF IInv

LEMMA Invariance == Spec => []IInv
  BY Initially, Inductive, PTL DEF Spec

(* The variables of posixq.c keep their types.                             *)
THEOREM TypeCorrect == Spec => []TypeOK
<1>1. IInv => TypeOK
  BY DEF IInv
<1> QED
  BY <1>1, Invariance, PTL

(* With more messages than a queue holds both sides use one queue.         *)
THEOREM OneQueueForBoth == Spec => []SameQueue
<1>1. IInv => SameQueue
  BY DEF IInv, OneQueue, FirstComerWaits, SameQueue
<1> QED
  BY <1>1, Invariance, PTL

(* The name is gone when both sides are through with their unlinks.        *)
THEOREM NameUnlinked == Spec => []NothingLeft
<1>1. IInv => NothingLeft
  BY DEF IInv
<1> QED
  BY <1>1, Invariance, PTL

(* A reader that ends has received the run's messages, in order.           *)
THEOREM ReceivedInOrder == Spec => []InOrder
<1>1. IInv => InOrder
  <2> SUFFICES ASSUME IInv, kills = 0, pc[Reader] = "done"
               PROVE  got = [k \in 1..count |-> <<run, k>>]
    BY DEF InOrder
  <2>1. got = Block(run, 0, count) /\ count \in Nat
    BY CountAssumption DEF IInv, Undisturbed, OwnMessages, Positions, TypeOK, ProcessTypes
  <2>2. ASSUME NEW k \in 1..count PROVE 0 + k = k
    OBVIOUS
  <2> QED
    BY <2>1, <2>2 DEF Block
<1> QED
  BY <1>1, Invariance, PTL

(* A process hangs only beside a killed one, on a queue of its own, or on  *)
(* the queue of another size that a killed run left linked.                *)
THEOREM HangsHaveCauses == Spec => []HangHasCause
<1>1. IInv => HangHasCause
  <2> SUFFICES ASSUME IInv, ~HangHasCause PROVE FALSE
    OBVIOUS
  <2> USE CountAssumption, QueueAssumption, RunsAssumption
  <2>1. /\ \A p \in Proc : pc[p] \in Stopped \/ Blocked(p)
        /\ \E p \in Proc : pc[p] \notin Stopped
        /\ \A p \in Proc : alive[p]
        /\ LeftoverFits
        /\ count > MaxMessages \/ qd[Reader] = qd[Writer]
    <3>1. kills = 0 => leftover = NoQueue
      BY DEF IInv, Undisturbed, OwnQueues
    <3>2. kills \in Nat
      BY DEF IInv, TypeOK, ProcessTypes
    <3> QED
      BY <3>1, <3>2 DEF HangHasCause, LeftoverFits, Stuck, IInv, TypeOK, ProcessTypes
  <2>2. /\ ProcessTypes /\ Flow /\ Positions /\ Handles
        /\ \A p \in Proc : Opened(p) => qd[p] \in Queues
        /\ \A p \in Proc : i[p] \in 0..count
    BY DEF IInv, TypeOK, ProcessTypes
  <2>3. count \in Nat /\ \A p \in Proc : Opened(p) => Len(queue(p)) \in 0..MaxMessages
    <3>1. count \in Nat
      BY DEF IInv, TypeOK, ProcessTypes
    <3>2. ASSUME NEW q \in Queues PROVE Len(msgs[q]) \in 0..MaxMessages
      <4>1. msgs[q] \in Seq(Message) /\ Len(msgs[q]) <= MaxMessages
        BY DEF IInv, TypeOK, QueueTypes
      <4>2. Len(msgs[q]) \in Nat
        BY <4>1, LenProperties
      <4> QED
        BY <4>1, <4>2
    <3> QED
      BY <2>2, <3>1, <3>2
  <2>4. Opened(Reader) /\ Opened(Writer) /\ qd[Reader] = qd[Writer]
    <3>1. PICK p \in Proc : Blocked(p)
      BY <2>1
    <3>2. Opened(p)
      BY <2>2, <3>1 DEF Blocked, Handles
    <3>3. CASE count > MaxMessages
      <4>1. \A o \in Proc : pc[o] # "failed"
        BY <2>1, <3>2, <3>3 DEF IInv, RefusedBoth
      <4>2. \A o \in Proc : pc[o] # "open"
        BY <2>1, <2>2 DEF Blocked, ProcessTypes
      <4>3. \A o \in Proc : Opened(o)
        BY <2>2, <4>1, <4>2 DEF Handles
      <4> QED
        BY <2>1, <3>3, <4>3 DEF IInv, OneQueue, FirstComerWaits
    <3> QED
      BY <2>1, <3>2, <3>3
  <2>5. /\ i[Writer] <= i[Reader] + Len(queue(Reader))
        /\ i[Reader] + Len(queue(Reader)) <= MaxMessages + i[Writer]
    BY <2>1, <2>2, <2>4 DEF Flow
  <2>6. \A p \in Proc : pc[p] \notin {"open", "failed"}
    BY <2>2, <2>4 DEF Handles
  <2>7. CASE pc[Reader] = "done"
    <3>1. i[Reader] = count /\ Ended(Reader)
      BY <2>2, <2>7 DEF Positions
    <3>2. Sending /\ Len(queue(Writer)) = MaxMessages
      BY <2>1, <2>7, <3>1 DEF Blocked
    <3>3. Len(queue(Reader)) = MaxMessages /\ i[Writer] < count
      BY <2>4, <3>2
    <3> QED
      BY <2>2, <2>3, <2>5, <3>1, <3>3
  <2>8. CASE pc[Reader] # "done"
    <3>1. Receiving /\ queue(Reader) = <<>>
      BY <2>1, <2>6, <2>8 DEF Blocked
    <3>2. Len(queue(Reader)) = 0 /\ i[Reader] < count
      BY <3>1
    <3>3. ~Sending
      <4>1. Sending => Len(queue(Writer)) = MaxMessages
        BY <2>1 DEF Blocked
      <4>2. Len(queue(Writer)) = 0
        BY <2>4, <3>2
      <4> QED
        BY <4>1, <4>2
    <3>4. i[Writer] = count
      <4>1. pc[Writer] \in {"send", "wait", "done"}
        BY <2>2, <2>6 DEF ProcessTypes
      <4>2. CASE pc[Writer] = "send"
        <5>1. ~(i[Writer] < count)
          BY <2>1, <3>3, <4>2 DEF Sending, At
        <5>2. i[Writer] \in 0..count
          BY <2>2
        <5> QED
          BY <2>3, <5>1, <5>2
      <4>3. CASE pc[Writer] \in {"wait", "done"}
        BY <2>2, <4>3 DEF Positions
      <4> QED
        BY <4>1, <4>2, <4>3
    <3> QED
      BY <2>2, <2>3, <2>5, <3>2, <3>4
  <2> QED
    BY <2>7, <2>8
<1> QED
  BY <1>1, Invariance, PTL

(* Until something is killed the queue is a channel of MaxMessages.        *)
THEOREM ImplementsTransfer == Spec => TransfersThroughQueue
<1>1. Init => Queue!Init
  BY DEF Init, Fresh, Queue!Init, Sent, Received
<1>2. IInv /\ IInv' /\ [Next]_vars => [Queue!Next]_(Queue!vars)
  <2> SUFFICES ASSUME IInv, IInv', [Next]_vars
               PROVE  [Queue!Next]_(Queue!vars)
    OBVIOUS
  <2> USE CountAssumption, QueueAssumption, RunsAssumption DEF Queue!vars
  <2>1. CASE kills' # 0
    <3>1. Sent' = 0 /\ Received' = 0
      BY <2>1 DEF Sent, Received
    <3> QED
      BY <3>1 DEF Queue!Next, Queue!Restart
  <2>2. CASE NewRun
    <3>1. Sent' = 0 /\ Received' = 0
      BY <2>2 DEF Sent, Received, NewRun, Fresh
    <3> QED
      BY <3>1 DEF Queue!Next, Queue!Restart
  <2>3. CASE kills' = 0 /\ ~NewRun
    <3>1. kills = 0 /\ \A p \in Proc : ~Kill(p)
      BY <2>3
         DEF Next, ReaderNext, WriterNext, Terminating, vars, ReaderOpen, WriterOpen,
             mq_open, ReaderReceive, ReaderReceiveFails, ReaderExit, WriterSend,
             WriterSendFails, WriterUnlink, WriterWait, Kill, IInv, TypeOK, ProcessTypes
    <3>2. OwnQueues /\ OwnMessages /\ OwnMessages' /\ TypeOK /\ Handles
      BY <2>3, <3>1 DEF IInv, Undisturbed
    <3>3. \A p \in Proc : i[p] \in Nat /\ i'[p] \in Nat
      <4>1. count \in Nat /\ \A p \in Proc : i[p] \in 0..count
        BY DEF IInv, TypeOK, ProcessTypes
      <4>2. count' \in Nat /\ \A p \in Proc : i'[p] \in 0..count'
        BY DEF IInv, TypeOK, ProcessTypes
      <4> QED
        BY <4>1, <4>2
    <3>4. /\ Sent = i[Writer] /\ Sent' = i'[Writer]
          /\ Received = i[Reader] /\ Received' = i'[Reader]
      <4>1. Len(got) = i[Reader] /\ Len(got') = i'[Reader]
        <5>1. got = Block(run, 0, i[Reader]) /\ got' = Block(run', 0, i'[Reader])
          BY <3>2 DEF OwnMessages
        <5>2. \A r : /\ Len(Block(r, 0, i[Reader])) = i[Reader]
                     /\ Len(Block(r, 0, i'[Reader])) = i'[Reader]
          BY <3>3, BlockIsSeq
        <5> QED
          BY <5>1, <5>2
      <4> QED
        BY <2>3, <3>1, <4>1 DEF Sent, Received
    <3>5. CASE ReaderReceive
      <4>1. /\ queue(Reader) # <<>> /\ Opened(Reader) /\ UNCHANGED count
            /\ i'[Reader] = i[Reader] + 1 /\ i'[Writer] = i[Writer]
        BY <3>2, <3>5, ReceiveTakesOne DEF TypeOK, ProcessTypes
      <4>2. /\ i[Reader] <= i[Writer]
            /\ queue(Reader) = Block(run, i[Reader], i[Writer] - i[Reader])
        BY <3>2, <4>1 DEF OwnMessages
      <4>3. i[Reader] # i[Writer]
        BY <3>3, <4>1, <4>2, EmptyBlock
      <4>4. i[Reader] < i[Writer]
        BY <3>3, <4>2, <4>3
      <4> QED
        BY <3>4, <4>1, <4>4 DEF Queue!Next, Queue!Receive
    <3>6. CASE WriterSend
      <4>1. /\ Len(queue(Writer)) < MaxMessages /\ Opened(Writer) /\ UNCHANGED count
            /\ i'[Writer] = i[Writer] + 1 /\ i'[Reader] = i[Reader] /\ i[Writer] < count
        BY <3>2, <3>6, SendAddsOne DEF TypeOK, ProcessTypes
      <4>2. i[Writer] - i[Reader] = Len(queue(Writer))
        <5>1. CASE qd[Reader] = qd[Writer]
          <6>1. /\ i[Writer] - i[Reader] \in Nat
                /\ queue(Writer) = Block(run, i[Reader], i[Writer] - i[Reader])
            <7>1. /\ i[Reader] <= i[Writer] /\ Opened(Reader)
                  /\ queue(Reader) = Block(run, i[Reader], i[Writer] - i[Reader])
              BY <3>2, <4>1, <5>1 DEF OwnMessages, Opened
            <7>2. queue(Writer) = queue(Reader)
              BY <5>1
            <7>3. i[Writer] - i[Reader] \in Nat
              BY <3>3, <7>1
            <7> QED
              BY <7>1, <7>2, <7>3
          <6>2. Len(Block(run, i[Reader], i[Writer] - i[Reader])) = i[Writer] - i[Reader]
            BY <3>3, <6>1, BlockIsSeq
          <6> QED
            BY <6>1, <6>2
        <5>2. CASE qd[Reader] # qd[Writer]
          <6>1. queue(Writer) = Block(run, 0, i[Writer]) /\ i[Reader] = 0
            BY <3>2, <4>1, <5>2 DEF OwnMessages
          <6>2. Len(Block(run, 0, i[Writer])) = i[Writer]
            BY <3>3, BlockIsSeq
          <6>3. i[Writer] - 0 = i[Writer]
            BY <3>3
          <6> QED
            BY <6>1, <6>2, <6>3
        <5> QED
          BY <5>1, <5>2
      <4> QED
        BY <3>4, <4>1, <4>2 DEF Queue!Next, Queue!Send
    <3>7. ~ReaderReceiveFails /\ ~WriterSendFails
      BY <3>2, NothingTooLong DEF OwnQueues
    <3>8. CASE ReaderOpen \/ WriterOpen \/ ReaderExit \/ WriterUnlink \/ WriterWait
               \/ UNCHANGED vars
      <4>1. UNCHANGED <<count, i>>
        BY <3>8 DEF ReaderOpen, WriterOpen, mq_open, ReaderExit, WriterUnlink, WriterWait, vars
      <4> QED
        BY <3>4, <4>1
    <3> QED
      BY <2>3, <3>1, <3>5, <3>6, <3>7, <3>8 DEF Next, ReaderNext, WriterNext, Terminating
  <2> QED
    BY <2>1, <2>2, <2>3
<1> QED
  BY <1>1, <1>2, Invariance, PTL DEF Spec, TransfersThroughQueue, Queue!Spec
=============================================================================
