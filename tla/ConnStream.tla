----------------------------- MODULE ConnStream -----------------------------
(***************************************************************************)
(* The benchmarks whose processes connect after the fork: uds.c, tcp.c,    *)
(* and UDSocket and TCPSocket of ipc_bm.c.                                 *)
(*                                                                         *)
(* The reader (the child) listens under a fixed path or port and accepts   *)
(* one connection, whoever makes it; it reads to end-of-file and compares  *)
(* the bytes it got with count * Size.  The writer (the parent) sleeps,    *)
(* connects, writes count messages and ends without waiting for the        *)
(* reader.  A shell starts the next run when the writer has gone: readers  *)
(* of earlier runs may still be there, and a behaviour follows up to       *)
(* MaxRuns runs with all their processes.                                  *)
(*                                                                         *)
(* Bytes are counted, not told apart.  count * Size is taken to fit into   *)
(* an int; messages of size 0 are left out.  A process that has finished   *)
(* is taken to have ended, also in UDSocket, whose child would return to   *)
(* its caller; main does not call UDSocket.                                *)
(***************************************************************************)
EXTENDS Integers

CONSTANTS
    Size,        \* the <size> argument
    Counts,      \* the <count> arguments considered
    Capacity,    \* bytes the kernel buffers in one connection
    MaxRuns,     \* bound: runs in one behaviour
    MaxFaults    \* bound: kills, failing calls and sleeps that are too short

ASSUME ArgAssumption   == Size \in Nat \ {0} /\ Counts \subseteq Nat
ASSUME BufAssumption   == Capacity \in Nat \ {0}
ASSUME BoundAssumption == MaxRuns \in Nat \ {0} /\ MaxFaults \in Nat

(***************************************************************************)
(* Two families of names, what a reader does about a failing read, and     *)
(* whether the writer's process outlives its benchmark with the socket     *)
(* open (waitpid does not accept WEXITED and returns at once; processes    *)
(* forked later inherit the socket).                                       *)
(***************************************************************************)
uds       == [family |-> "unix", readError |-> "return",   keepsOpen |-> FALSE]
tcp       == [family |-> "inet", readError |-> "return",   keepsOpen |-> FALSE]
UDSocket  == [family |-> "unix", readError |-> "return",   keepsOpen |-> TRUE]
TCPSocket == [family |-> "inet", readError |-> "continue", keepsOpen |-> TRUE]

Programs == {uds, tcp, UDSocket, TCPSocket}
Runs == 1..MaxRuns
Nobody == 0

VARIABLES
    prog,       \* the program that is run
    count,      \* its <count> argument
    run,        \* runs started so far
    name,       \* the reader whose socket was bound to the path or port last
    rpc, wpc,   \* where the reader and the writer of each run stand
    peer,       \* the reader whose listener each writer connected to
    conn,       \* the writer whose connection each reader accepted
    i, off,     \* each writer's loop counter; bytes of that message written
    chan,       \* bytes buffered in each writer's connection
    open,       \* whether that connection is still open at the writer's end
    sum,        \* each reader's sum
    swallowed,  \* readers that added the -1 of a failing read
    early,      \* runs whose writer was out of its sleep, or gone, before
                \* the reader listened
    faults      \* kills, failing calls and short sleeps so far

args == <<prog, count>>
net == <<name, peer, conn>>
data == <<i, off, chan, open, sum>>
history == <<swallowed, early, faults>>
vars == <<args, run, rpc, wpc, net, data, history>>

Stopped == {"done", "failed", "sumError", "killed"}
ReaderEnded(r) == rpc[r] \in Stopped
WriterEnded(w) == wpc[w] \in Stopped
SettingUp(r) == rpc[r] \in {"unlink", "bind"}
Listening(r) == rpc[r] \in {"accept", "read"}       \* fd is never closed

Fault == faults < MaxFaults /\ faults' = faults + 1
Total == count * Size
Least(m, n) == IF m <= n THEN m ELSE n
-----------------------------------------------------------------------------
(* The reader.                                                             *)
FirstLabel(program) == IF program.family = "unix" THEN "unlink" ELSE "bind"

(* Mutant: the path of an earlier run is not removed.                      *)
ReaderUnlink_missing(r) ==
    /\ rpc[r] = "unlink"
    /\ rpc' = [rpc EXCEPT ![r] = "bind"]
    /\ UNCHANGED <<args, run, wpc, net, data, history>>

(* unlink("./uds-ipc"): a listener of an earlier run loses its name.       *)
ReaderUnlink(r) ==
    /\ rpc[r] = "unlink"
    /\ name' = Nobody
    /\ rpc' = [rpc EXCEPT ![r] = "bind"]
    /\ UNCHANGED <<args, run, wpc, peer, conn, data, history>>

(* Somebody listens under the name.                                        *)
Answers == \E r \in Runs : name = r /\ Listening(r)

(* EADDRINUSE: the path exists, or the port has a listener (SO_REUSEADDR   *)
(* only ignores connections that are closing).                             *)
NameTaken == name # Nobody /\ (prog.family = "unix" \/ Answers)

(* Mutant: the result of bind is not looked at.                            *)
ReaderBind_unchecked(r) ==
    /\ rpc[r] = "bind"
    /\ name' = IF NameTaken THEN name ELSE r
    /\ rpc' = [rpc EXCEPT ![r] = "accept"]
    /\ UNCHANGED <<args, run, wpc, peer, conn, data, history>>

(* bind and listen.                                                        *)
ReaderBind(r) ==
    /\ rpc[r] = "bind"
    /\ \/ ~NameTaken /\ name' = r /\ rpc' = [rpc EXCEPT ![r] = "accept"]
       \/ NameTaken /\ UNCHANGED name /\ rpc' = [rpc EXCEPT ![r] = "failed"]
    /\ UNCHANGED <<args, run, wpc, peer, conn, data, history>>

(* Writers connect in the order of their runs, so the first in the backlog *)
(* is the one of the earliest run.                                         *)
Backlog(r) == {w \in Runs : peer[w] = r}

(* Mutant: the connection made last is accepted first.                     *)
ReaderAccept_last(r) ==
    /\ rpc[r] = "accept"
    /\ \E w \in Backlog(r) :
          /\ \A v \in Backlog(r) : v <= w
          /\ conn' = [conn EXCEPT ![r] = w]
    /\ rpc' = [rpc EXCEPT ![r] = "read"]
    /\ UNCHANGED <<args, run, wpc, name, peer, data, history>>

ReaderAccept(r) ==
    /\ rpc[r] = "accept"
    /\ \E w \in Backlog(r) :
          /\ \A v \in Backlog(r) : w <= v
          /\ conn' = [conn EXCEPT ![r] = w]
    /\ rpc' = [rpc EXCEPT ![r] = "read"]
    /\ UNCHANGED <<args, run, wpc, name, peer, data, history>>

(* read(nfd, buf, size) takes what is there, up to size.                   *)
ReaderRead(r) ==
    /\ rpc[r] = "read" /\ chan[conn[r]] > 0
    /\ LET n == Least(Size, chan[conn[r]])
       IN /\ chan' = [chan EXCEPT ![conn[r]] = @ - n]
          /\ sum' = [sum EXCEPT ![r] = @ + n]
    /\ UNCHANGED <<args, run, rpc, wpc, net, i, off, open, history>>

(* Mutant: the reader stops at an empty buffer, not at end-of-file.        *)
ReaderEof_early(r) ==
    /\ rpc[r] = "read"
    /\ chan[conn[r]] = 0
    /\ rpc' = [rpc EXCEPT ![r] = IF sum[r] = Total THEN "done" ELSE "sumError"]
    /\ UNCHANGED <<args, run, wpc, net, data, history>>

(* n == 0: the end of the stream, and the check of the sum.                *)
ReaderEof(r) ==
    /\ rpc[r] = "read"
    /\ chan[conn[r]] = 0 /\ ~open[conn[r]]
    /\ rpc' = [rpc EXCEPT ![r] = IF sum[r] = Total THEN "done" ELSE "sumError"]
    /\ UNCHANGED <<args, run, wpc, net, data, history>>

(* bind, listen or accept fails, or read: TCPSocket adds the -1 and reads  *)
(* on.                                                                     *)
ReaderError(r) ==
    /\ Fault
    /\ \/ /\ \/ rpc[r] \in {"bind", "accept"}
             \/ rpc[r] = "read" /\ prog.readError = "return"
          /\ rpc' = [rpc EXCEPT ![r] = "failed"]
          /\ UNCHANGED <<sum, swallowed>>
       \/ /\ rpc[r] = "read" /\ prog.readError = "continue"
          /\ sum' = [sum EXCEPT ![r] = @ - 1]
          /\ swallowed' = swallowed \cup {r}
          /\ UNCHANGED rpc
    /\ UNCHANGED <<args, run, wpc, net, i, off, chan, open, early>>

ReaderNext(r) ==
    \/ ReaderUnlink(r) \/ ReaderBind(r) \/ ReaderAccept(r)
    \/ ReaderRead(r) \/ ReaderEof(r)
-----------------------------------------------------------------------------
(* The writer.                                                             *)

(* sleep(1) orders nothing by itself: it may be too short.                 *)
WriterWake(w) ==
    /\ wpc[w] = "sleep"
    /\ \/ ~SettingUp(w) /\ UNCHANGED <<early, faults>>
       \/ /\ SettingUp(w) /\ Fault
          /\ early' = early \cup {w}
    /\ wpc' = [wpc EXCEPT ![w] = "connect"]
    /\ UNCHANGED <<args, run, rpc, net, data, swallowed>>

(* connect is done when the connection is in the backlog of a listener; it *)
(* is refused if the socket of that name does not listen any more.         *)
WriterConnect(w) ==
    /\ wpc[w] = "connect"
    /\ \/ /\ Answers
          /\ peer' = [peer EXCEPT ![w] = name]
          /\ open' = [open EXCEPT ![w] = TRUE]
          /\ wpc' = [wpc EXCEPT ![w] = "write"]
       \/ /\ ~Answers
          /\ wpc' = [wpc EXCEPT ![w] = "failed"]
          /\ UNCHANGED <<peer, open>>
    /\ UNCHANGED <<args, run, rpc, name, conn, i, off, chan, sum, history>>

(* A part of a message goes in as room appears; the call returns size when *)
(* the last byte is in.  On a TCP connection whose other end has gone it   *)
(* may still do so, until the reset arrives.                               *)
WriterWrite(w) ==
    /\ wpc[w] = "write" /\ i[w] < count
    /\ ReaderEnded(peer[w]) => prog.family = "inet"
    /\ \E n \in 1..Least(Size - off[w], Capacity - chan[w]) :
          /\ chan' = [chan EXCEPT ![w] = @ + n]
          /\ \/ off[w] + n < Size /\ off' = [off EXCEPT ![w] = @ + n] /\ UNCHANGED i
             \/ /\ off[w] + n = Size
                /\ off' = [off EXCEPT ![w] = 0] /\ i' = [i EXCEPT ![w] = @ + 1]
    /\ UNCHANGED <<args, run, rpc, wpc, net, open, sum, history>>

(* The reader, or the listener with the connection in its backlog, has     *)
(* gone: ECONNRESET, or EPIPE with a SIGPIPE that ends the writer.         *)
WriterBroken(w) ==
    /\ wpc[w] = "write" /\ i[w] < count
    /\ ReaderEnded(peer[w])
    /\ wpc' = [wpc EXCEPT ![w] = "failed"]
    /\ open' = [open EXCEPT ![w] = prog.keepsOpen]
    /\ UNCHANGED <<args, run, rpc, net, i, off, chan, sum, history>>

(* connect or write fails for another reason: return 1.                    *)
WriterError(w) ==
    /\ Fault
    /\ \/ wpc[w] = "connect"
       \/ wpc[w] = "write" /\ i[w] < count
    /\ wpc' = [wpc EXCEPT ![w] = "failed"]
    /\ open' = [open EXCEPT ![w] = @ /\ prog.keepsOpen]
    /\ UNCHANGED <<args, run, rpc, net, i, off, chan, sum, swallowed, early>>

(* Mutant: the socket stays open behind the writer.                        *)
WriterReport_keepsOpen(w) ==
    /\ wpc[w] = "write" /\ i[w] = count
    /\ wpc' = [wpc EXCEPT ![w] = "done"]
    /\ UNCHANGED <<args, run, rpc, net, data, history>>

(* The report and the end of the benchmark; the end of the process closes  *)
(* the socket.                                                             *)
WriterReport(w) ==
    /\ wpc[w] = "write" /\ i[w] = count
    /\ wpc' = [wpc EXCEPT ![w] = "done"]
    /\ open' = [open EXCEPT ![w] = prog.keepsOpen]
    /\ UNCHANGED <<args, run, rpc, net, i, off, chan, sum, history>>

(* ipc_bm and the last process that inherited the socket end.              *)
LaterClose(w) ==
    /\ wpc[w] \in {"done", "failed"} /\ open[w]
    /\ open' = [open EXCEPT ![w] = FALSE]
    /\ UNCHANGED <<args, run, rpc, wpc, net, i, off, chan, sum, history>>

WriterNext(w) ==
    \/ WriterWake(w) \/ WriterConnect(w) \/ WriterWrite(w)
    \/ WriterBroken(w) \/ WriterReport(w)
-----------------------------------------------------------------------------
(* Around the processes.                                                   *)

(* A kill; of the reader also the fork that failed, which is not checked.  *)
KillReader(r) ==
    /\ Fault
    /\ rpc[r] \notin Stopped \cup {"none"}
    /\ rpc' = [rpc EXCEPT ![r] = "killed"]
    /\ UNCHANGED <<args, run, wpc, net, data, swallowed, early>>

KillWriter(w) ==
    /\ Fault
    /\ wpc[w] \notin Stopped \cup {"none"}
    /\ wpc' = [wpc EXCEPT ![w] = "killed"]
    /\ open' = [open EXCEPT ![w] = FALSE]
    /\ early' = IF SettingUp(w) THEN early \cup {w} ELSE early
    /\ UNCHANGED <<args, run, rpc, net, i, off, chan, sum, swallowed>>

(* The shell's next command, when the process it started has ended.        *)
NewRun ==
    /\ run < MaxRuns
    /\ WriterEnded(run)
    /\ run' = run + 1
    /\ rpc' = [rpc EXCEPT ![run'] = FirstLabel(prog)]
    /\ wpc' = [wpc EXCEPT ![run'] = "sleep"]
    /\ UNCHANGED <<args, net, data, history>>

Terminating ==
    /\ run = MaxRuns
    /\ \A r \in Runs : ReaderEnded(r) /\ WriterEnded(r)
    /\ UNCHANGED vars

Init ==
    /\ prog \in Programs /\ count \in Counts
    /\ run = 1 /\ name = Nobody
    /\ rpc = [r \in Runs |-> IF r = 1 THEN FirstLabel(prog) ELSE "none"]
    /\ wpc = [w \in Runs |-> IF w = 1 THEN "sleep" ELSE "none"]
    /\ peer = [w \in Runs |-> Nobody] /\ conn = [r \in Runs |-> Nobody]
    /\ i = [w \in Runs |-> 0] /\ off = [w \in Runs |-> 0] /\ chan = [w \in Runs |-> 0]
    /\ open = [w \in Runs |-> FALSE] /\ sum = [r \in Runs |-> 0]
    /\ swallowed = {} /\ early = {} /\ faults = 0

Next ==
    \/ \E r \in Runs : ReaderNext(r) \/ ReaderError(r) \/ KillReader(r)
    \/ \E w \in Runs : WriterNext(w) \/ WriterError(w) \/ KillWriter(w) \/ LaterClose(w)
    \/ NewRun
    \/ Terminating

Spec == Init /\ [][Next]_vars

(* The scheduler runs a process that is not blocked in a call.             *)
FairSpec ==
    Spec /\ \A r \in Runs : WF_vars(ReaderNext(r)) /\ WF_vars(WriterNext(r))
-----------------------------------------------------------------------------
ReaderLabels == {"none", "unlink", "bind", "accept", "read"} \cup Stopped
WriterLabels == {"none", "sleep", "connect", "write", "done", "failed", "killed"}

(* Type invariant.                                                         *)
TypeOK ==
    /\ prog \in Programs /\ count \in Counts
    /\ run \in Runs /\ name \in {Nobody} \cup Runs
    /\ rpc \in [Runs -> ReaderLabels] /\ wpc \in [Runs -> WriterLabels]
    /\ peer \in [Runs -> {Nobody} \cup Runs] /\ conn \in [Runs -> {Nobody} \cup Runs]
    /\ i \in [Runs -> 0..count]
    /\ off \in [Runs -> 0 .. Size - 1] /\ chan \in [Runs -> 0..Capacity]
    /\ open \in [Runs -> BOOLEAN] /\ sum \in [Runs -> Int]
    /\ swallowed \in SUBSET Runs /\ early \in SUBSET Runs
    /\ faults \in 0..MaxFaults

(* The check of uds.c:81 and tcp.c:74 is exact: it passes only if the      *)
(* writer that was accepted had written its last message, and apart from   *)
(* an ignored read error it fails only if that writer had not, however the *)
(* writes and reads were split and whichever run the writer belongs to.    *)
CheckIsExact ==
    \A r \in Runs :
        /\ rpc[r] = "done" => conn[r] # Nobody /\ i[conn[r]] = count
        /\ rpc[r] = "sumError" /\ r \notin swallowed => i[conn[r]] < count

(* Up to run r every writer slept until its reader listened.               *)
SleptUpTo(r) == \A q \in 1..r : q \notin early

(* uds.c:95, tcp.c:85: if the sleeps suffice a writer gets to a reader of  *)
(* another run only if its own reader failed or was killed, whatever       *)
(* readers of earlier runs are still listening.                            *)
OwnReader ==
    \A w \in Runs :
        SleptUpTo(w) /\ peer[w] \notin {Nobody, w} => rpc[w] \in {"failed", "killed"}

(* uds.c:60, tcp.c:57: the one connection a reader accepts is that of its  *)
(* own writer, although writers of later runs may have connected to the    *)
(* same listener before the accept, unless its own writer never connected. *)
OwnWriterFirst ==
    \A r \in Runs :
        SleptUpTo(r) /\ conn[r] \notin {Nobody, r} => wpc[r] \in {"failed", "killed"}

ReaderBlocked(r) ==
    \/ rpc[r] = "accept" /\ Backlog(r) = {}
    \/ rpc[r] = "read" /\ chan[conn[r]] = 0 /\ open[conn[r]]

WriterBlocked(w) ==
    /\ wpc[w] = "write" /\ i[w] < count
    /\ chan[w] = Capacity /\ ~ReaderEnded(peer[w])

Stuck ==
    \A r \in Runs :
        /\ ReaderEnded(r) \/ ReaderBlocked(r) \/ rpc[r] = "none"
        /\ WriterEnded(r) \/ WriterBlocked(r) \/ wpc[r] = "none"

(* Of uds.c and tcp.c nothing hangs in read or write: when nothing can go  *)
(* on, what is left are readers in accept whose own writer failed or was   *)
(* killed, or who missed it because a sleep was too short.                 *)
OnlyAcceptHangs ==
    Stuck /\ ~prog.keepsOpen =>
        \A r \in Runs :
            /\ wpc[r] = "none" \/ WriterEnded(r)
            /\ \/ rpc[r] = "none" \/ ReaderEnded(r)
               \/ rpc[r] = "accept" /\ (wpc[r] \in {"failed", "killed"} \/ ~SleptUpTo(r))

(* Without faults every run of uds.c completes, even if readers of earlier *)
(* runs are still there, and every run of tcp.c completes that starts when *)
(* the reader of the one before has gone.                                  *)
Calm ==
    /\ faults = 0 /\ ~prog.keepsOpen
    /\ prog.family = "unix" \/ \A q \in 1 .. run - 1 : ReaderEnded(q)

EveryRunCompletes ==
    []Calm => \A r \in Runs : run = r ~> rpc[r] = "done" /\ wpc[r] = "done"
=============================================================================
