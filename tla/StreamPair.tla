----------------------------- MODULE StreamPair -----------------------------
(***************************************************************************)
(* The benchmarks whose processes share a byte stream opened before the    *)
(* fork: pipe.c, fifo.c and socketpair.c, and AnonPipe, NamedPipeFifo and  *)
(* SockPair of ipc_bm.c.                                                   *)
(*                                                                         *)
(* The writer (the parent) writes Count messages of Size bytes.  The       *)
(* reader (the child) makes exactly Count read calls of at most Size bytes *)
(* and then compares the number of bytes it got with Count * Size.         *)
(* Neither process closes the end it does not use, so both ends stay open  *)
(* in both: a reader whose writer is gone never sees end-of-file, and a    *)
(* writer whose reader is gone never gets SIGPIPE or EPIPE.                *)
(*                                                                         *)
(* Bytes are counted, not told apart.  Count * Size is taken to fit into   *)
(* an int, as the signed arithmetic of the programs needs.                 *)
(***************************************************************************)
EXTENDS Integers

CONSTANTS
    Size,         \* the <size> argument
    Count,        \* the <count> argument
    AtomicSizes,  \* what atomicMax may be
    Capacity,     \* bytes the kernel buffers
    MaxKills,     \* bound: processes killed
    MaxErrors,    \* bound: read and write errors a loop carries on after
    ForkMayFail   \* whether fork may return -1

ASSUME ArgAssumption  == Size \in Nat /\ Count \in Nat
ASSUME BufAssumption  == Capacity \in Nat /\ AtomicSizes \subseteq 1..Capacity
ASSUME EnvAssumption  == MaxKills \in Nat /\ MaxErrors \in Nat /\ ForkMayFail \in BOOLEAN

(***************************************************************************)
(* The six programs differ in what they do about an error and in whether   *)
(* the parent waits for the child.                                         *)
(***************************************************************************)
pipe       == [readError |-> "return", writeError |-> "return", reaps |-> FALSE]
fifo       == [readError |-> "return", writeError |-> "return", reaps |-> FALSE]
socketpair == [readError |-> "return", writeError |-> "return", reaps |-> FALSE]

AnonPipe   == [readError |-> "return", writeError |-> "return", reaps |-> TRUE]

(* kill(pid, SIGKILL) runs in the child, where pid is 0: the signal goes   *)
(* to every process of the group, not to the parent alone.                 *)
NamedPipeFifo == [readError |-> "killgroup", writeError |-> "continue", reaps |-> TRUE]

(* waitpid does not accept WEXITED and returns EINVAL at once.             *)
SockPair   == [readError |-> "continue", writeError |-> "continue", reaps |-> FALSE]

Programs == {pipe, fifo, socketpair, AnonPipe, NamedPipeFifo, SockPair}

VARIABLES
    prog,       \* the program that runs
    atomicMax,  \* bytes one write moves in one piece: PIPE_BUF, or one
                \* socket buffer
    chan,       \* bytes in the kernel's buffer
    off,        \* bytes of the writer's current message already in it
    sum,        \* the reader's sum
    pc, alive,  \* where each process stands; FALSE once it is gone
    i,          \* each process's loop counter
    kills, swallowed   \* killed processes; errors a loop carried on after

env == <<prog, atomicMax>>
vars == <<env, chan, off, sum, pc, alive, i, kills, swallowed>>

Reader == "reader"
Writer == "writer"
Proc == {Reader, Writer}

Stopped == {"done", "failed", "sumError"}
Ended(p) == ~alive[p] \/ pc[p] \in Stopped
At(p, label) == alive[p] /\ pc[p] = label
Goto(p, label) == pc' = [pc EXCEPT ![p] = label]
Advance(p) == i' = [i EXCEPT ![p] = @ + 1]

Least(m, n) == IF m <= n THEN m ELSE n
-----------------------------------------------------------------------------
(* The writer.                                                             *)
Room == Capacity - chan

Writing == At(Writer, "write") /\ i[Writer] < Count

(* Mutant: the write does not wait for room.                               *)
WriterWrite_neverWaits ==
    /\ Writing
    /\ Size <= atomicMax
    /\ chan' = chan + Size
    /\ Advance(Writer)
    /\ UNCHANGED <<env, off, sum, pc, alive, kills, swallowed>>

(* write(fd, buf, size) of a message that goes in one piece: it waits      *)
(* until there is room for all of it.                                      *)
WriterWrite ==
    /\ Writing
    /\ Size <= atomicMax /\ Size <= Room
    /\ chan' = chan + Size
    /\ Advance(Writer)
    /\ UNCHANGED <<env, off, sum, pc, alive, kills, swallowed>>

(* Mutant: the offset is not reset for the next message.                   *)
WriterWritePart_keepsOffset ==
    /\ Writing
    /\ Size > atomicMax
    /\ \E n \in 1..Least(Size - off, Room) :
          /\ chan' = chan + n
          /\ \/ off + n < Size /\ off' = off + n /\ UNCHANGED i
             \/ off + n = Size /\ UNCHANGED off /\ Advance(Writer)
    /\ UNCHANGED <<env, sum, pc, alive, kills, swallowed>>

(* A longer message goes in as room appears; the call returns size when    *)
(* the last byte is in.                                                    *)
WriterWritePart ==
    /\ Writing
    /\ Size > atomicMax
    /\ \E n \in 1..Least(Size - off, Room) :
          /\ chan' = chan + n
          /\ \/ off + n < Size /\ off' = off + n /\ UNCHANGED i
             \/ off + n = Size /\ off' = 0 /\ Advance(Writer)
    /\ UNCHANGED <<env, sum, pc, alive, kills, swallowed>>

(* write returns something else than size: an error, or the short count of *)
(* an error that came after a part of the message.                         *)
WriterError ==
    /\ Writing
    /\ swallowed < MaxErrors
    /\ \/ /\ prog.writeError = "return"
          /\ Goto(Writer, "failed")
          /\ UNCHANGED <<off, i, swallowed>>
       \/ /\ prog.writeError = "continue"
          /\ off' = 0
          /\ Advance(Writer)
          /\ swallowed' = swallowed + 1
          /\ UNCHANGED pc
    /\ UNCHANGED <<env, chan, sum, alive, kills>>

(* Mutant: the writer's loop stops one message early.                      *)
WriterReport_early ==
    /\ \/ At(Writer, "write") /\ i[Writer] = Count - 1
          /\ Goto(Writer, IF prog.reaps THEN "wait" ELSE "done")
       \/ At(Writer, "wait") /\ Ended(Reader) /\ Goto(Writer, "done")
    /\ UNCHANGED <<env, chan, off, sum, alive, i, kills, swallowed>>

(* After the loop: waitpid if the program has a working one, the report,   *)
(* and the end of the function.                                            *)
WriterReport ==
    /\ \/ At(Writer, "write") /\ i[Writer] = Count
          /\ Goto(Writer, IF prog.reaps THEN "wait" ELSE "done")
       \/ At(Writer, "wait") /\ Ended(Reader) /\ Goto(Writer, "done")
    /\ UNCHANGED <<env, chan, off, sum, alive, i, kills, swallowed>>

WriterNext == WriterWrite \/ WriterWritePart \/ WriterReport
-----------------------------------------------------------------------------
(* The reader.                                                             *)
Reading == At(Reader, "read") /\ i[Reader] < Count

(* Mutant: the reader adds size instead of what read returned, as PosixQ   *)
(* does.                                                                   *)
ReaderRead_addsSize ==
    /\ Reading
    /\ chan > 0 \/ Size = 0
    /\ chan' = chan - Least(Size, chan)
    /\ sum' = sum + Size
    /\ Advance(Reader)
    /\ UNCHANGED <<env, off, pc, alive, kills, swallowed>>

(* read(fd, buf, size) waits for a byte and takes what is there, up to     *)
(* size; with size 0 it returns 0 at once.                                 *)
ReaderRead ==
    /\ Reading
    /\ chan > 0 \/ Size = 0
    /\ LET n == Least(Size, chan)
       IN chan' = chan - n /\ sum' = sum + n
    /\ Advance(Reader)
    /\ UNCHANGED <<env, off, pc, alive, kills, swallowed>>

(* read returns -1, and SockPair adds it to the sum.                       *)
ReaderError ==
    /\ Reading
    /\ swallowed < MaxErrors
    /\ \/ /\ prog.readError = "return"
          /\ Goto(Reader, "failed")
          /\ UNCHANGED <<sum, alive, i, swallowed>>
       \/ /\ prog.readError = "killgroup"
          /\ alive' = [p \in Proc |-> FALSE]
          /\ UNCHANGED <<sum, pc, i, swallowed>>
       \/ /\ prog.readError = "continue"
          /\ sum' = sum - 1
          /\ Advance(Reader)
          /\ swallowed' = swallowed + 1
          /\ UNCHANGED <<pc, alive>>
    /\ UNCHANGED <<env, chan, off, kills>>

(* if (sum != count * size): the program's own check.                      *)
ReaderCheck ==
    /\ At(Reader, "read") /\ i[Reader] = Count
    /\ Goto(Reader, IF sum = Count * Size THEN "done" ELSE "sumError")
    /\ UNCHANGED <<env, chan, off, sum, alive, i, kills, swallowed>>

ReaderNext == ReaderRead \/ ReaderCheck
-----------------------------------------------------------------------------
Kill(p) ==
    /\ kills < MaxKills
    /\ ~Ended(p)
    /\ kills' = kills + 1
    /\ alive' = [alive EXCEPT ![p] = FALSE]
    /\ UNCHANGED <<env, chan, off, sum, pc, i, swallowed>>

Terminating == (\A p \in Proc : Ended(p)) /\ UNCHANGED vars

(* After the fork.  Its result is not compared with -1: if it failed the   *)
(* parent takes the writer's branch with no reader.                        *)
Init ==
    /\ prog \in Programs /\ atomicMax \in AtomicSizes
    /\ chan = 0 /\ off = 0 /\ sum = 0
    /\ pc = [p \in Proc |-> IF p = Reader THEN "read" ELSE "write"]
    /\ \/ alive = [p \in Proc |-> TRUE]
       \/ ForkMayFail /\ alive = [p \in Proc |-> p = Writer]
    /\ i = [p \in Proc |-> 0]
    /\ kills = 0 /\ swallowed = 0

Next ==
    \/ WriterNext \/ WriterError
    \/ ReaderNext \/ ReaderError
    \/ \E p \in Proc : Kill(p)
    \/ Terminating

Spec == Init /\ [][Next]_vars

(* The scheduler runs a process that is not blocked in a call.             *)
FairSpec == Spec /\ WF_vars(WriterNext) /\ WF_vars(ReaderNext)
-----------------------------------------------------------------------------
(* Type invariant.                                                         *)
TypeOK ==
    /\ prog \in Programs /\ atomicMax \in AtomicSizes
    /\ chan \in 0..Capacity /\ off \in Nat /\ (off = 0 \/ off < Size)
    /\ sum \in Int
    /\ pc \in [Proc -> {"read", "write", "wait"} \cup Stopped]
    /\ pc[Reader] \in {"read"} \cup Stopped /\ pc[Writer] \in {"write", "wait"} \cup Stopped
    /\ alive \in [Proc -> BOOLEAN]
    /\ i \in [Proc -> 0..Count]
    /\ kills \in 0..MaxKills /\ swallowed \in 0..MaxErrors

Written == i[Writer] * Size + off

(* No byte is lost or counted twice: what was written is in the buffer or  *)
(* in the reader's sum, and every error a loop carries on after can only   *)
(* lower the sum.                                                          *)
Accounting ==
    /\ Size > 0 => sum + chan + swallowed <= Written
    /\ swallowed = 0 => sum + chan = Written

(* The check of pipe.c:54 is right to let a run pass: a reader that ends   *)
(* without a sum error got every message, whatever Size is, however the    *)
(* writes were split and whichever errors were ignored.                    *)
Truthful ==
    Size > 0 /\ pc[Reader] = "done" =>
        i[Writer] = Count /\ chan = 0 /\ off = 0 /\ swallowed = 0

(* The check of pipe.c:54 never fails a run of messages that are written   *)
(* in one piece: every read then returns one whole message.                *)
NoSumError == Size <= atomicMax /\ swallowed = 0 => pc[Reader] # "sumError"

(* The check of pipe.c:54 says what it should: both of these.              *)
CheckIsRight == Truthful /\ NoSumError

Blocked(p) ==
    IF p = Reader THEN Reading /\ chan = 0 /\ Size > 0
    ELSE \/ Writing /\ (IF Size <= atomicMax THEN Size > Room ELSE Room = 0)
         \/ At(Writer, "wait") /\ ~Ended(Reader)

(* A process blocked for ever has a cause outside the transfer: a peer     *)
(* that was killed, was never forked, or gave up.  In particular a writer  *)
(* can hang behind a reader only if that reader reported a sum error.      *)
HangHasCause ==
    \/ \E p \in Proc : ~Ended(p) /\ ~Blocked(p)
    \/ \A p \in Proc : Ended(p)
    \/ swallowed > 0
    \/ \E p \in Proc : ~alive[p] \/ pc[p] \in {"failed", "sumError"}

(* With no kill and no error the reader always finishes its Count reads,   *)
(* and the writer finishes whenever the reader's check passed, which it    *)
(* does for messages written in one piece.                                 *)
Undisturbed ==
    swallowed = 0 /\ \A p \in Proc : alive[p] /\ pc[p] # "failed"

Completes ==
    []Undisturbed =>
        /\ <>Ended(Reader) /\ (pc[Reader] = "done" ~> pc[Writer] = "done")
        /\ Size <= atomicMax => <>(\A p \in Proc : pc[p] = "done")

(* What pipe.c:54 asserts, for every Size.                                 *)
SumCheckPasses == pc[Reader] # "sumError"

(* For messages that are written in one piece the stream is a channel that *)
(* holds Capacity \div Size messages, until an error is ignored: then the  *)
(* counters no longer count messages and the transfer is void.             *)
Counted(p) == IF Size <= atomicMax /\ swallowed = 0 THEN i[p] ELSE 0

Messages == INSTANCE Transfer WITH
    Capacity <- Capacity \div Size, count <- Count,
    sent <- Counted(Writer), received <- Counted(Reader)

TransfersWhole == Messages!Spec
=============================================================================
