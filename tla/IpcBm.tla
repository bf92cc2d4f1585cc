-------------------------------- MODULE IpcBm --------------------------------
(***************************************************************************)
(* The combined program ipc_bm.c: main calls seven benchmarks one after    *)
(* the other, each of which forks a reader.  What becomes of its processes *)
(* when a reader outlives its benchmark, or an error makes one return into *)
(* main, which then runs the remaining benchmarks as well.                 *)
(*                                                                         *)
(* The count messages of one benchmark are one unit here, which its writer *)
(* puts into a medium: they are followed one by one in the modules of the  *)
(* benchmarks.  sleep(1) is taken to last until the reader is set up, and  *)
(* fork to succeed.  The program starts with nothing left of an earlier    *)
(* one: what leftovers do is in the modules of the benchmarks as well.     *)
(***************************************************************************)
EXTENDS Integers, SequencesExt

CONSTANT MaxFaults  \* bound: processes killed, calls that fail

ASSUME FaultAssumption == MaxFaults \in Nat

(* The benchmarks in the order of main.                                    *)
PosixQ == 1
ShrMem == 2
NamedPipeFifo == 3
AnonPipe == 4
SockPair == 5
TCPSocket == 6
UDPSocket == 7

Benchmarks == 1..7
Exit == 8       \* exit(0) at the end of main

VARIABLES
    proc,       \* the living processes
    piped,      \* stdout is a pipe or a file, so printf only fills a buffer
    fits,       \* the benchmarks of which the kernel's buffers hold all messages
    units,      \* transfers that are under way: who wrote them, in which medium
    mq,         \* the queue under SERVER_QUEUE_NAME: the process that created it
    fifo,       \* the FIFO that ./fifo-ipc names: the process that made it
    listener,   \* the process that listens on TCP port 55001
    backlog,    \* connections it has not accepted, by their writers
    copies,     \* how often each report was written to stdout
    returned,   \* benchmarks whose reader returned into main
    faults

env == <<piped, fits>>
net == <<fifo, listener, backlog>>
vars == <<proc, env, units, mq, net, copies, returned, faults>>

(* A process is named by the benchmarks it was forked in: the first one is *)
(* <<>>, and the reader that p forks in benchmark b is Append(p, b).       *)
First == <<>>
None == <<0>>
Reader(p) == Append(p, proc[p].at)

P == DOMAIN proc
At(p, benchmark, step) == proc[p].at = benchmark /\ proc[p].step = step
Reads(p) == proc[p].step \in {"setup", "read"}

(* Those whose writer waits for its reader: the other calls of waitpid ask *)
(* for WEXITED, which is refused, or for nothing.                          *)
Reaped == {PosixQ, NamedPipeFifo, AnonPipe}

(* Where the reader has something to set up while the writer sleeps.       *)
SetUp == {ShrMem, TCPSocket, UDPSocket}

(* Where the kernel holds what is written and not yet read, and how much   *)
(* depends on <size> and <count>: for PosixQ MAX_MESSAGES messages.        *)
Buffered == {PosixQ, NamedPipeFifo, AnonPipe, SockPair, TCPSocket}
-----------------------------------------------------------------------------
(* A process goes on in main, or ends.                                     *)
Step(p, step) == proc' = [proc EXCEPT ![p].step = step]

Onward(p) == [proc[p] EXCEPT !.at = @ + 1, !.step = "call", !.medium = None]

Return(p) == proc' = [proc EXCEPT ![p] = Onward(p)]

(* With a process go its sockets, the listener's port and its backlog.     *)
Gone(ps) ==
    /\ proc' = Restrict(proc, P \ ps)
    /\ listener' = IF listener \in ps THEN None ELSE listener
    /\ backlog' = IF listener \in ps THEN <<>> ELSE backlog
    /\ UNCHANGED fifo

(* Mutant: _exit, which leaves the buffer where it is.                     *)
exit_discards(p) == Gone({p}) /\ UNCHANGED copies

(* exit writes what the process has in its buffer, its own reports and the *)
(* copies of those its parent had in the buffer when it forked.            *)
exit(p) ==
    /\ Gone({p})
    /\ copies' = [b \in Benchmarks |-> copies[b] + (IF b \in proc[p].out THEN 1 ELSE 0)]

(* The report of a benchmark.                                              *)
Reported(r, b) == IF piped THEN [r EXCEPT !.out = @ \cup {b}] ELSE r

printf(p, r) ==
    /\ proc' = [proc EXCEPT ![p] = Reported(r, proc[p].at)]
    /\ copies' = IF piped THEN copies ELSE [copies EXCEPT ![proc[p].at] = @ + 1]
-----------------------------------------------------------------------------
(* The writer.                                                             *)

(* mq_open with O_CREAT takes the queue that is linked, or links a new     *)
(* one.  Both sides of PosixQ call it after the fork, in either order.     *)
mq_open(p, next) ==
    LET queue == IF mq = None THEN p ELSE mq
    IN /\ mq' = queue
       /\ proc' = [proc EXCEPT ![p].step = next, ![p].medium = queue]

(* Mutant: the writer unlinks the name as soon as it has the queue open.   *)
QueueOpen_unlinks(p) ==
    /\ At(p, PosixQ, "open")
    /\ proc' = [proc EXCEPT ![p].step = "write",
                            ![p].medium = IF mq = None THEN p ELSE mq]
    /\ mq' = None
    /\ UNCHANGED <<env, units, net, copies, returned, faults>>

QueueOpen(p) ==
    /\ At(p, PosixQ, "open")
    /\ mq_open(p, "write")
    /\ UNCHANGED <<env, units, net, copies, returned, faults>>

QueueUnlink(p) ==
    /\ At(p, PosixQ, "unlink")
    /\ mq' = None
    /\ Step(p, "wait")
    /\ UNCHANGED <<env, units, net, copies, returned, faults>>

(* unlink, mkfifo and open of NamedPipeFifo.                               *)
FifoUnlink(p) ==
    /\ At(p, NamedPipeFifo, "call")
    /\ fifo' = None
    /\ Step(p, "unlinked")
    /\ UNCHANGED <<env, units, mq, listener, backlog, copies, returned, faults>>

FifoMake(p) ==
    /\ At(p, NamedPipeFifo, "unlinked")
    /\ \/ fifo = None /\ fifo' = p /\ Step(p, "made")
       \/ fifo # None /\ UNCHANGED fifo /\ Return(p)
    /\ UNCHANGED <<env, units, mq, listener, backlog, copies, returned, faults>>

FifoOpen(p) ==
    /\ At(p, NamedPipeFifo, "made")
    /\ \/ fifo # None /\ proc' = [proc EXCEPT ![p].step = "opened", ![p].medium = fifo]
       \/ fifo = None /\ Return(p)
    /\ UNCHANGED <<env, units, mq, net, copies, returned, faults>>

(* The reader inherits the buffer of stdout, the open sockets and, of      *)
(* NamedPipeFifo, AnonPipe and SockPair, the medium.                       *)
Forked(p) ==
    LET b == proc[p].at
        opens == SetUp \cup {PosixQ}
    IN [proc[p] EXCEPT !.step = IF b \in opens THEN "setup" ELSE "read",
                       !.medium = CASE b = NamedPipeFifo -> @
                                    [] b \in opens -> None
                                    [] OTHER -> p]

Fork(p) ==
    /\ proc[p].at \in Benchmarks
    /\ proc[p].step = IF proc[p].at = NamedPipeFifo THEN "opened" ELSE "call"
    /\ LET writes == CASE proc[p].at = PosixQ -> "open"
                       [] proc[p].at = TCPSocket -> "connect"
                       [] OTHER -> "write"
       IN proc' = [q \in P \cup {Reader(p)} |->
                     CASE q = p -> [proc[p] EXCEPT !.step = writes]
                       [] q = Reader(p) -> Forked(p)
                       [] OTHER -> proc[q]]
    /\ UNCHANGED <<env, units, mq, net, copies, returned, faults>>

ReaderThere(p) == Reader(p) \in P /\ Reads(Reader(p)) /\ proc[Reader(p)].at = proc[p].at
Awake(p) ==
    ~(proc[p].at \in SetUp /\ Reader(p) \in P /\ At(Reader(p), proc[p].at, "setup"))

TcpConnect(p) ==
    /\ At(p, TCPSocket, "connect") /\ Awake(p)
    /\ \/ /\ listener # None
          /\ backlog' = Append(backlog, p)
          /\ proc' = [proc EXCEPT ![p].step = "write", ![p].conn = @ \cup {p}]
       \/ listener = None /\ Return(p) /\ UNCHANGED backlog
    /\ UNCHANGED <<env, units, mq, fifo, listener, copies, returned, faults>>

Accepted(p) == \E r \in P : At(r, TCPSocket, "read") /\ proc[r].medium = p
Pending(p) == \E k \in DOMAIN backlog : backlog[k] = p

(* Whether somebody may read what p writes.                                *)
Served(p) ==
    CASE proc[p].at \in {PosixQ, NamedPipeFifo} ->
            \E r \in P : At(r, proc[p].at, "read") /\ proc[r].medium = proc[p].medium
      [] proc[p].at = TCPSocket -> Accepted(p)
      [] OTHER -> ReaderThere(p)

CanWrite(p) ==
    /\ proc[p].step = "write" /\ Awake(p)
    /\ CASE proc[p].at = ShrMem -> ReaderThere(p)
         [] proc[p].at = TCPSocket -> Accepted(p) \/ (Pending(p) /\ TCPSocket \in fits)
         [] proc[p].at = UDPSocket -> TRUE
         [] OTHER -> Served(p) \/ proc[p].at \in fits

Unit(b, medium, p) == [at |-> b, medium |-> medium, writer |-> p]

(* All messages are written.  What goes to the UDP port reaches a process  *)
(* that is bound to it, or is lost; a TCP reader waits for end-of-file     *)
(* only.                                                                   *)
Written(p) ==
    CASE proc[p].at = UDPSocket ->
            {{}} \cup {{Unit(UDPSocket, r, p)} : r \in {q \in P : At(q, UDPSocket, "read")}}
      [] proc[p].at \in {PosixQ, NamedPipeFifo} -> {{Unit(proc[p].at, proc[p].medium, p)}}
      [] proc[p].at = TCPSocket -> {{}}
      [] OTHER -> {{Unit(proc[p].at, p, p)}}

(* Mutant: no writer waits for its reader.                                 *)
Write_reapsNone(p) ==
    /\ CanWrite(p)
    /\ \E more \in Written(p) : units' = units \cup more
    /\ \/ proc[p].at \in Benchmarks \ {ShrMem} /\ printf(p, Onward(p))
       \/ proc[p].at = ShrMem /\ printf(p, [proc[p] EXCEPT !.step = "drain"])
    /\ UNCHANGED <<env, mq, net, returned, faults>>

(* Then come, for PosixQ, the unlink, waitpid and the report; ShrMem has a *)
(* semaphore to wait for after it.                                         *)
Write(p) ==
    /\ CanWrite(p)
    /\ \E more \in Written(p) : units' = units \cup more
    /\ \/ /\ proc[p].at \in Reaped
          /\ Step(p, IF proc[p].at = PosixQ THEN "unlink" ELSE "wait")
          /\ UNCHANGED copies
       \/ proc[p].at = ShrMem /\ printf(p, [proc[p] EXCEPT !.step = "drain"])
       \/ proc[p].at \notin Reaped \cup {ShrMem} /\ printf(p, Onward(p))
    /\ UNCHANGED <<env, mq, net, returned, faults>>

(* waitpid waits for the end of the process, also of one that left the     *)
(* benchmark and runs the rest of main.                                    *)
Wait(p) ==
    /\ proc[p].step = "wait" /\ Reader(p) \notin P
    /\ printf(p, Onward(p))
    /\ UNCHANGED <<env, units, mq, net, returned, faults>>

(* The reader's last release; then the semaphores are removed.             *)
Drain(p) ==
    /\ proc[p].step = "drain" /\ Unit(ShrMem, p, p) \notin units
    /\ Return(p)
    /\ UNCHANGED <<env, units, mq, net, copies, returned, faults>>

MainExit(p) ==
    /\ At(p, Exit, "call")
    /\ exit(p)
    /\ UNCHANGED <<env, units, mq, returned, faults>>
-----------------------------------------------------------------------------
(* The reader.                                                             *)

(* A second bind to the TCP port is refused; to the UDP port it is not.    *)
ReaderSetup(r) ==
    /\ proc[r].step = "setup"
    /\ proc[r].at = PosixQ \/ UNCHANGED mq
    /\ \/ /\ proc[r].at = PosixQ
          /\ mq_open(r, "read")
          /\ UNCHANGED <<net, copies>>
       \/ /\ proc[r].at = ShrMem
          /\ proc' = [q \in P |->
                        IF q = r THEN [proc[r] EXCEPT !.step = "read", !.medium = Front(r)]
                          ELSE IF q = Front(r) THEN [proc[q] EXCEPT !.medium = q] ELSE proc[q]]
          /\ UNCHANGED <<net, copies>>
       \/ /\ proc[r].at = UDPSocket
          /\ proc' = [proc EXCEPT ![r].step = "read", ![r].medium = r]
          /\ UNCHANGED <<net, copies>>
       \/ /\ proc[r].at = TCPSocket /\ listener = None
          /\ listener' = r /\ Step(r, "read")
          /\ UNCHANGED <<fifo, backlog, copies>>
       \/ proc[r].at = TCPSocket /\ listener # None /\ exit(r)
    /\ UNCHANGED <<env, units, returned, faults>>

TcpAccept(r) ==
    /\ At(r, TCPSocket, "read") /\ proc[r].medium = None
    /\ listener = r /\ backlog # <<>>
    /\ proc' = [proc EXCEPT ![r].medium = Head(backlog)]
    /\ backlog' = Tail(backlog)
    /\ UNCHANGED <<env, units, mq, fifo, listener, copies, returned, faults>>

MyUnits(r) == {u \in units : u.at = proc[r].at /\ u.medium = proc[r].medium}

(* end-of-file: nobody has the writing end of the connection any more.     *)
AtEof(r) ==
    /\ proc[r].medium # None
    /\ \A q \in P : proc[r].medium \notin proc[q].conn

CanFinish(r) ==
    /\ proc[r].step = "read"
    /\ IF proc[r].at = TCPSocket THEN AtEof(r) ELSE MyUnits(r) # {}

(* The reader has all messages, or is at end-of-file, and exits; that of   *)
(* PosixQ unlinks the queue first.                                         *)
Finish(r) ==
    /\ CanFinish(r)
    /\ \/ proc[r].at = TCPSocket /\ UNCHANGED units
       \/ proc[r].at # TCPSocket /\ \E u \in MyUnits(r) : units' = units \ {u}
    /\ exit(r)
    /\ mq' = IF proc[r].at = PosixQ THEN None ELSE mq
    /\ UNCHANGED <<env, returned, faults>>
-----------------------------------------------------------------------------
(* Faults.                                                                 *)
Fault == faults < MaxFaults /\ faults' = faults + 1

(* A call of the reader fails, or its reads come short of a message, and   *)
(* it ends with exit(-1).                                                  *)
ReaderFails(r) ==
    /\ Fault /\ Reads(r)
    /\ exit(r)
    /\ UNCHANGED <<env, units, mq, returned>>

(* A call fails and the reader returns into main: of ShrMem while it is    *)
(* set up, and in shmdt when all is read; of AnonPipe in read.             *)
ReaderReturns(r) ==
    /\ Fault
    /\ \/ At(r, ShrMem, "setup") /\ UNCHANGED units
       \/ At(r, ShrMem, "read") /\ MyUnits(r) # {} /\ units' = units \ MyUnits(r)
       \/ At(r, AnonPipe, "read") /\ UNCHANGED units
    /\ Return(r)
    /\ returned' = returned \cup {proc[r].at}
    /\ UNCHANGED <<env, mq, net, copies>>

(* kill(pid, SIGKILL) with pid = 0: the whole group.                       *)
FifoReadFails(r) ==
    /\ Fault /\ At(r, NamedPipeFifo, "read")
    /\ Gone(P)
    /\ UNCHANGED <<env, units, mq, copies, returned>>

(* A call of the writer fails before or after the fork.                    *)
WriterFails(p) ==
    /\ Fault
    /\ \/ /\ At(p, PosixQ, "open") /\ exit(p)
       \/ /\ \/ proc[p].step = "call" /\ proc[p].at \in {PosixQ, NamedPipeFifo, AnonPipe, SockPair}
             \/ /\ proc[p].step \in {"connect", "write"} /\ Awake(p)
                /\ proc[p].at \in {ShrMem, AnonPipe, TCPSocket}
          /\ Return(p)
          /\ UNCHANGED <<net, copies>>
    /\ UNCHANGED <<env, units, mq, returned>>

(* What may follow of a fault of the reader.  If it was not set up the     *)
(* writer of ShrMem finds no semaphores or no segment, unless an earlier   *)
(* run left them.  If it is gone, a write to its connection is an error or *)
(* a SIGPIPE.                                                              *)
WriterStranded(p) ==
    /\ \/ /\ At(p, ShrMem, "write") /\ Awake(p) /\ proc[p].medium = None
          /\ Return(p) /\ UNCHANGED net
       \/ /\ At(p, TCPSocket, "write") /\ ~Accepted(p) /\ ~Pending(p)
          /\ \/ Return(p) /\ UNCHANGED net
             \/ Gone({p})
    /\ UNCHANGED <<env, units, mq, copies, returned, faults>>

Kill(p) ==
    /\ Fault
    /\ Gone({p})
    /\ UNCHANGED <<env, units, mq, copies, returned>>
-----------------------------------------------------------------------------
Init ==
    /\ proc = [p \in {First} |->
                 [at |-> PosixQ, step |-> "call", medium |-> None, out |-> {}, conn |-> {}]]
    /\ piped \in BOOLEAN /\ fits \in SUBSET Buffered
    /\ units = {} /\ mq = None /\ fifo = None
    /\ listener = None /\ backlog = <<>>
    /\ copies = [b \in Benchmarks |-> 0]
    /\ returned = {} /\ faults = 0

Terminating == P = {} /\ UNCHANGED vars

Next ==
    \/ \E p \in P :
          \/ QueueOpen(p) \/ QueueUnlink(p)
          \/ FifoUnlink(p) \/ FifoMake(p) \/ FifoOpen(p) \/ Fork(p)
          \/ TcpConnect(p) \/ Write(p) \/ Wait(p) \/ Drain(p) \/ MainExit(p)
          \/ ReaderSetup(p) \/ TcpAccept(p) \/ Finish(p)
          \/ WriterStranded(p)
    \/ \E p \in P :
          \/ ReaderFails(p) \/ ReaderReturns(p) \/ FifoReadFails(p)
          \/ WriterFails(p) \/ Kill(p)
    \/ Terminating

Spec == Init /\ [][Next]_vars
-----------------------------------------------------------------------------
(* Where a process cannot go on by itself: in connect or a full buffer, in *)
(* waitpid, in the wait for the last release, in read or accept.           *)
Blocked(p) ==
    \/ proc[p].step = "connect" /\ ~Awake(p)
    \/ proc[p].step = "write" /\ ~CanWrite(p)
    \/ proc[p].step = "wait" /\ Reader(p) \in P
    \/ proc[p].step = "drain" /\ Unit(ShrMem, p, p) \in units
    \/ /\ proc[p].step = "read" /\ ~CanFinish(p)
       /\ proc[p].at = TCPSocket => proc[p].medium # None \/ listener # p \/ backlog = <<>>

Quiet == \A p \in P : Blocked(p)

(* The receiver of UDPSocket lost a datagram, and the reader of TCPSocket  *)
(* waits for an end-of-file until that receiver, which inherited the       *)
(* connection at ipc_bm.c:361, is gone.                                    *)
DatagramLost ==
    \E u, r \in P :
        /\ P = {u, r}
        /\ At(u, UDPSocket, "read") /\ MyUnits(u) = {}
        /\ At(r, TCPSocket, "read") /\ proc[r].medium \in proc[u].conn

(* There are at most MAX_MESSAGES messages, and the writer of PosixQ sent  *)
(* them and unlinked the queue (ipc_bm.c:743) before its reader opened one *)
(* (ipc_bm.c:691), which is another.                                       *)
QueueMissed ==
    /\ PosixQ \in fits
    /\ \E r \in P :
           /\ P = {First, r}
           /\ At(First, PosixQ, "wait")
           /\ At(r, PosixQ, "read") /\ proc[r].medium = r

(* Without a fault the program leaves no process behind, or just two: a    *)
(* writer and a reader of PosixQ that missed each other's queue, so that   *)
(* main never gets to the other benchmarks, or two readers after a lost    *)
(* datagram, when main has ended.                                          *)
HangHasCause ==
    faults = 0 /\ Quiet /\ P # {} => QueueMissed \/ DatagramLost

(* A run without a fault that ends has written every report, once to a     *)
(* terminal; to a pipe once more for each reader that was forked after it  *)
(* (the exit of ipc_bm.c:816).                                             *)
ReportsWritten ==
    faults = 0 /\ P = {} =>
        \A b \in Benchmarks : copies[b] = IF piped THEN Exit - b ELSE 1

(* Two processes are in the same benchmark, with the same names and ports, *)
(* only after the reader of ShrMem returned into main (ipc_bm.c:123), or   *)
(* after a second fault: a reader of AnonPipe that returns has a parent    *)
(* that waits for it.                                                      *)
SameBenchmark ==
    \E p, q \in P :
        p # q /\ ~Reads(p) /\ ~Reads(q) /\ proc[p].at = proc[q].at /\ proc[p].at # Exit

OneWriter == SameBenchmark => ShrMem \in returned \/ faults > 1
=============================================================================
