------------------------------ MODULE MsgQueue ------------------------------
(***************************************************************************)
(* posixq.c, and PosixQ in ipc_bm.c: a writer (the parent) hands count     *)
(* messages to a reader (the child) through a POSIX message queue.         *)
(*                                                                         *)
(* Both processes open the queue by name with O_CREAT after the fork, and  *)
(* both unlink the name when they have finished, so whether they get hold  *)
(* of the same queue depends on their order.  A queue stays under its name *)
(* with its messages when a run is killed, and the next run opens it: a    *)
(* behaviour follows up to MaxRuns runs.                                   *)
(***************************************************************************)
EXTENDS Naturals, Sequences

CONSTANTS
    Sizes,         \* the <size> arguments a run may be started with
    Counts,        \* the <count> arguments a run may be started with
    MaxMessages,   \* MAX_MESSAGES, 10
    SizeLimit,     \* the system's largest mq_msgsize
    MaxRuns,       \* bound: runs in one behaviour
    MaxKills       \* bound: processes killed in one behaviour

ASSUME SizesAssumption == Sizes \subseteq Nat /\ Sizes # {}
ASSUME CountAssumption == Counts \subseteq Nat /\ Counts # {}
ASSUME QueueAssumption == MaxMessages \in Nat \ {0} /\ SizeLimit \in Nat
ASSUME RunsAssumption  == MaxRuns \in Nat \ {0} /\ MaxKills \in Nat

VARIABLES
    run,     \* which run this is
    size,    \* its message size
    count,   \* its number of messages
    kills,   \* processes killed so far
    leftover, \* history: the queue linked when this run started, if any
    name,    \* the queue linked under SERVER_QUEUE_NAME
    msgsize, \* each queue's mq_msgsize
    msgs,    \* each queue's messages: the run and the index of each
    pc, alive,
    qd,      \* the queue each process has open
    i,       \* each process's loop counter
    got      \* the messages the reader received in this run

control == <<run, size, count, kills, leftover>>
vars == <<control, name, msgsize, msgs, pc, alive, qd, i, got>>

Reader == "reader"       \* the child, "Server" in its messages
Writer == "writer"       \* the parent
Proc == {Reader, Writer}

(* A process opens one queue per run, so a queue is named by the run and   *)
(* the process that created it.                                            *)
NoQueue == 0
Created(p) == 2 * run - (IF p = Reader THEN 1 ELSE 0)
Queues == 1 .. 2 * MaxRuns

Stopped == {"done", "failed"}
Ended(p) == ~alive[p] \/ pc[p] \in Stopped
At(p, label) == alive[p] /\ pc[p] = label
Goto(p, label) == pc' = [pc EXCEPT ![p] = label]
Advance(p) == i' = [i EXCEPT ![p] = @ + 1]

queue(p) == msgs[qd[p]]
-----------------------------------------------------------------------------
(* Mutant: the largest size the system takes is refused.                   *)
mq_open_limitExclusive(p, next) ==
    /\ At(p, "open")
    /\ \/ /\ name # NoQueue
          /\ qd' = [qd EXCEPT ![p] = name]
          /\ Goto(p, next)
          /\ UNCHANGED <<name, msgsize>>
       \/ /\ name = NoQueue /\ size \in 1 .. SizeLimit - 1
          /\ name' = Created(p)
          /\ msgsize' = [msgsize EXCEPT ![name'] = size]
          /\ qd' = [qd EXCEPT ![p] = name']
          /\ Goto(p, next)
       \/ /\ name = NoQueue /\ size \notin 1 .. SizeLimit - 1
          /\ Goto(p, "failed")
          /\ UNCHANGED <<name, msgsize, qd>>
    /\ UNCHANGED <<control, msgs, alive, i, got>>

(* mq_open(name, O_CREAT | ..., &attr): a linked queue is opened as it is  *)
(* and attr is ignored; otherwise a queue of messages of size bytes is     *)
(* created, which the system refuses for size 0 and beyond its limit.      *)
mq_open(p, next) ==
    /\ At(p, "open")
    /\ \/ /\ name # NoQueue
          /\ qd' = [qd EXCEPT ![p] = name]
          /\ Goto(p, next)
          /\ UNCHANGED <<name, msgsize>>
       \/ /\ name = NoQueue /\ size \in 1..SizeLimit
          /\ name' = Created(p)
          /\ msgsize' = [msgsize EXCEPT ![name'] = size]
          /\ qd' = [qd EXCEPT ![p] = name']
          /\ Goto(p, next)
       \/ /\ name = NoQueue /\ size \notin 1..SizeLimit
          /\ Goto(p, "failed")
          /\ UNCHANGED <<name, msgsize, qd>>
    /\ UNCHANGED <<control, msgs, alive, i, got>>

(* Mutant: the reader unlinks a leftover queue first, as fifo.c does with  *)
(* its path.                                                               *)
ReaderOpen_unlinksFirst ==
    /\ At(Reader, "open") /\ size \in 1..SizeLimit
    /\ name' = Created(Reader)
    /\ msgsize' = [msgsize EXCEPT ![name'] = size]
    /\ qd' = [qd EXCEPT ![Reader] = name']
    /\ Goto(Reader, "receive")
    /\ UNCHANGED <<control, msgs, alive, i, got>>

ReaderOpen == mq_open(Reader, "receive")
WriterOpen == mq_open(Writer, "send")

(* Mutant: one message too many is waited for.                             *)
Receiving_oneMore == At(Reader, "receive") /\ i[Reader] <= count

Receiving == At(Reader, "receive") /\ i[Reader] < count
Sending   == At(Writer, "send") /\ i[Writer] < count

(* mq_receive waits for a message.                                         *)
ReaderReceive ==
    /\ Receiving
    /\ size >= msgsize[qd[Reader]]
    /\ queue(Reader) # <<>>
    /\ got' = Append(got, Head(queue(Reader)))
    /\ msgs' = [msgs EXCEPT ![qd[Reader]] = Tail(@)]
    /\ Advance(Reader)
    /\ UNCHANGED <<control, name, msgsize, pc, alive, qd>>

(* A buffer smaller than mq_msgsize is EMSGSIZE at once.  The reader says  *)
(* so, adds size to its sum all the same, and goes on.                     *)
ReaderReceiveFails ==
    /\ Receiving
    /\ size < msgsize[qd[Reader]]
    /\ Advance(Reader)
    /\ UNCHANGED <<control, name, msgsize, msgs, pc, alive, qd, got>>

(* mq_close, mq_unlink, the sum check and exit: after count additions of   *)
(* size the sum is count * size whatever was received.                     *)
ReaderExit ==
    /\ At(Reader, "receive") /\ i[Reader] = count
    /\ name' = NoQueue
    /\ Goto(Reader, "done")
    /\ UNCHANGED <<control, msgsize, msgs, alive, qd, i, got>>

(* Mutant: the queue never fills up.                                       *)
WriterSend_neverFull ==
    /\ Sending
    /\ size <= msgsize[qd[Writer]]
    /\ msgs' = [msgs EXCEPT ![qd[Writer]] = Append(@, <<run, i[Writer] + 1>>)]
    /\ Advance(Writer)
    /\ UNCHANGED <<control, name, msgsize, pc, alive, qd, got>>

(* Mutant: message i is sent with priority i and overtakes the others.     *)
WriterSend_priority ==
    /\ Sending
    /\ size <= msgsize[qd[Writer]]
    /\ Len(queue(Writer)) < MaxMessages
    /\ msgs' = [msgs EXCEPT ![qd[Writer]] = <<<<run, i[Writer] + 1>>>> \o @]
    /\ Advance(Writer)
    /\ UNCHANGED <<control, name, msgsize, pc, alive, qd, got>>

(* mq_send waits while the queue is full.                                  *)
WriterSend ==
    /\ Sending
    /\ size <= msgsize[qd[Writer]]
    /\ Len(queue(Writer)) < MaxMessages
    /\ msgs' = [msgs EXCEPT ![qd[Writer]] = Append(@, <<run, i[Writer] + 1>>)]
    /\ Advance(Writer)
    /\ UNCHANGED <<control, name, msgsize, pc, alive, qd, got>>

(* A message longer than mq_msgsize is EMSGSIZE at once: continue.         *)
WriterSendFails ==
    /\ Sending
    /\ size > msgsize[qd[Writer]]
    /\ Advance(Writer)
    /\ UNCHANGED <<control, name, msgsize, msgs, pc, alive, qd, got>>

(* Mutant: the writer closes the queue and leaves the name.                *)
WriterUnlink_keepsName ==
    /\ At(Writer, "send") /\ i[Writer] = count
    /\ Goto(Writer, "wait")
    /\ UNCHANGED <<control, name, msgsize, msgs, alive, qd, i, got>>

(* mq_close and mq_unlink; ENOENT, when the reader was first, is ignored.  *)
WriterUnlink ==
    /\ At(Writer, "send") /\ i[Writer] = count
    /\ name' = NoQueue
    /\ Goto(Writer, "wait")
    /\ UNCHANGED <<control, msgsize, msgs, alive, qd, i, got>>

(* waitpid(pid, &status, WUNTRACED | WCONTINUED) and the report.           *)
WriterWait ==
    /\ At(Writer, "wait") /\ Ended(Reader)
    /\ Goto(Writer, "done")
    /\ UNCHANGED <<control, name, msgsize, msgs, alive, qd, i, got>>

ReaderNext == ReaderOpen \/ ReaderReceive \/ ReaderReceiveFails \/ ReaderExit
WriterNext ==
    \/ WriterOpen \/ WriterSend \/ WriterSendFails
    \/ WriterUnlink \/ WriterWait
-----------------------------------------------------------------------------
(* A killed process has its descriptor closed; the name stays linked.  An  *)
(* mq_open that fails for another reason than the size (no descriptor, no  *)
(* permission) ends the process in exit, and is a kill at "open": nothing  *)
(* reads the state of a process that has ended.                            *)
Kill(p) ==
    /\ kills < MaxKills
    /\ ~Ended(p)
    /\ kills' = kills + 1
    /\ alive' = [alive EXCEPT ![p] = FALSE]
    /\ UNCHANGED <<run, size, count, leftover, name, msgsize, msgs, pc, qd, i, got>>

(* The processes of a run right after the fork; if it fails the parent     *)
(* exits and there is no run.                                              *)
Fresh ==
    [pc    |-> [p \in Proc |-> "open"],
     alive |-> [p \in Proc |-> TRUE],
     qd    |-> [p \in Proc |-> NoQueue],
     i     |-> [p \in Proc |-> 0]]

(* The next run, when both processes of this one are gone.                 *)
NewRun ==
    /\ \A p \in Proc : Ended(p)
    /\ run < MaxRuns
    /\ run' = run + 1
    /\ size' \in Sizes /\ count' \in Counts
    /\ leftover' = name
    /\ pc' = Fresh.pc /\ alive' = Fresh.alive
    /\ qd' = Fresh.qd /\ i' = Fresh.i
    /\ got' = <<>>
    /\ UNCHANGED <<kills, name, msgsize, msgs>>

Terminating ==
    /\ \A p \in Proc : Ended(p)
    /\ run = MaxRuns
    /\ UNCHANGED vars

Init ==
    /\ run = 1 /\ size \in Sizes /\ count \in Counts /\ kills = 0
    /\ leftover = NoQueue /\ name = NoQueue
    /\ msgsize = [q \in Queues |-> 0] /\ msgs = [q \in Queues |-> <<>>]
    /\ pc = Fresh.pc /\ alive = Fresh.alive
    /\ qd = Fresh.qd /\ i = Fresh.i
    /\ got = <<>>

Next ==
    \/ ReaderNext \/ WriterNext
    \/ \E p \in Proc : Kill(p)
    \/ NewRun
    \/ Terminating

Spec == Init /\ [][Next]_vars

(* The scheduler runs a process that is not blocked in a call.             *)
FairSpec == Spec /\ WF_vars(ReaderNext) /\ WF_vars(WriterNext)
-----------------------------------------------------------------------------
Message == (1..MaxRuns) \X (Nat \ {0})

ProcessTypes ==
    /\ run \in 1..MaxRuns /\ size \in Sizes /\ count \in Counts /\ kills \in 0..MaxKills
    /\ leftover \in 0 .. 2 * (run - 1)
    /\ name \in 0 .. 2 * run
    /\ pc \in [Proc -> {"open", "receive", "send", "wait"} \cup Stopped]
    /\ pc[Reader] \notin {"send", "wait"} /\ pc[Writer] # "receive"
    /\ alive \in [Proc -> BOOLEAN]
    /\ qd \in [Proc -> 0 .. 2 * run]
    /\ \A p \in Proc : pc[p] \notin {"open", "failed"} => qd[p] # NoQueue
    /\ i \in [Proc -> 0..count]

QueueTypes ==
    /\ msgs \in [Queues -> Seq(Message)]
    /\ \A q \in Queues : Len(msgs[q]) <= MaxMessages
    /\ got \in Seq(Message)

(* Type invariant.                                                         *)
TypeOK == ProcessTypes /\ msgsize \in [Queues -> Nat] /\ QueueTypes

Opened(p) == qd[p] # NoQueue

(* A queue that was still linked when this run started was created for     *)
(* messages of this run's size.                                            *)
LeftoverFits == leftover # NoQueue => msgsize[leftover] = size

(* posixq.c:57 and posixq.c:91: although each side unlinks the name while  *)
(* the other may not have opened it yet, both have the same queue open     *)
(* whenever there are more messages than a queue holds, whatever the sizes *)
(* of the runs before, and also when one of them was killed and left a     *)
(* queue with messages of this run's size.                                 *)
SameQueue ==
    count > MaxMessages /\ LeftoverFits /\ (\A p \in Proc : Opened(p))
        => qd[Reader] = qd[Writer]

(* If nothing was killed, a reader that ends received the count messages   *)
(* of this run, each once and in the order they were sent.                 *)
InOrder ==
    kills = 0 /\ pc[Reader] = "done" => got = [k \in 1..count |-> <<run, k>>]

(* When both sides got as far as their mq_unlink no queue is left linked   *)
(* for the next run, however the opens and unlinks interleaved and         *)
(* whatever an earlier run left behind.                                    *)
NothingLeft ==
    (\A p \in Proc : pc[p] \in {"wait", "done"}) => name = NoQueue

Blocked(p) ==
    IF p = Reader
    THEN Receiving /\ size >= msgsize[qd[p]] /\ queue(p) = <<>>
    ELSE \/ Sending /\ size <= msgsize[qd[p]] /\ Len(queue(p)) = MaxMessages
         \/ At(p, "wait") /\ ~Ended(Reader)

Stuck == ~(\A p \in Proc : Ended(p)) /\ \A p \in Proc : Ended(p) \/ Blocked(p)

(* A run hangs for ever only if one of its own processes was killed, or    *)
(* there are so few messages that the two sides may have different queues, *)
(* or an earlier run was killed and its queue, of another message size,    *)
(* was still linked when this one started.  In particular the messages a   *)
(* killed run of the same size left do not hang the next, and a run that   *)
(* ended leaves nothing that could.                                        *)
HangHasCause ==
    Stuck => \/ \E p \in Proc : ~alive[p]
             \/ count <= MaxMessages /\ qd[Reader] # qd[Writer]
             \/ kills > 0 /\ ~LeftoverFits

(* With more messages than a queue holds and no kill every run ends on     *)
(* both sides, normally unless the system refuses the message size.        *)
Outcome == IF size \in 1..SizeLimit THEN "done" ELSE "failed"

EveryRunCompletes ==
    [](kills = 0) => \A r \in 1..MaxRuns :
        run = r /\ count > MaxMessages
            ~> run = r /\ \A p \in Proc : pc[p] = Outcome

(* What the check of posixq.c:81 asserts by passing.                       *)
CheckMeansReceived == pc[Reader] = "done" => Len(got) = count

(* The queue is a channel of capacity MaxMessages, until a process is      *)
(* killed: from then on messages of an earlier run may be in it.           *)
Sent == IF kills = 0 THEN i[Writer] ELSE 0
Received == IF kills = 0 THEN Len(got) ELSE 0

Queue == INSTANCE Transfer WITH
    Capacity <- MaxMessages, count <- count, sent <- Sent, received <- Received

TransfersThroughQueue == Queue!Spec
=============================================================================
