------------------------------- MODULE ShmSem -------------------------------
(***************************************************************************)
(* shm.c, and ShrMem in ipc_bm.c: a writer (the parent) hands Count        *)
(* messages to a reader (the child) through one System V shared-memory     *)
(* segment, in turns that two System V semaphores give.                    *)
(*                                                                         *)
(* The semaphore set and the segment are kernel objects under fixed keys.  *)
(* They outlive the processes, so a run that is killed leaves them behind  *)
(* for the next one: a behaviour follows up to MaxRuns runs, each of which *)
(* starts when both processes of the one before are gone.                  *)
(***************************************************************************)
EXTENDS Naturals

CONSTANTS
    Sizes,            \* the <size> arguments a run may be started with
    Count,            \* the <count> argument
    MaxRuns,          \* bound: runs in one behaviour
    MaxKills,         \* bound: processes killed in one behaviour
    Faults,           \* the set-up calls that may fail (ENOSPC, ENOMEM, EMFILE)
    SleepCoversSetup  \* TRUE: the reader is set up within the writer's sleep(1)

(* The reader's calls, and the shmat of the writer.                        *)
SetupCalls == {"semget", "shmget", "shmat", "attach"}

ASSUME SizesAssumption == Sizes \subseteq Nat \ {0} /\ Sizes # {}
ASSUME CountAssumption == Count \in Nat
ASSUME RunsAssumption  == MaxRuns \in Nat \ {0} /\ MaxKills \in Nat
ASSUME FaultAssumption == Faults \subseteq SetupCalls
ASSUME SleepAssumption == SleepCoversSetup \in BOOLEAN

VARIABLES
    run,     \* which run this is
    size,    \* its message size
    kills,   \* processes killed so far
    semid,   \* semaphore set registered under SEM_KEY, 0 if there is none;
             \* a set is named by the run that created it
    sem,     \* the values of that set's two semaphores
    shmid,   \* segment registered under SHM_KEY, 0 if there is none
    shmsize, \* its size
    cell,    \* its contents: the message each half of it belongs to
    pc,      \* where each process stands
    alive,   \* FALSE once a process has been killed
    i,       \* each process's loop counter
    hsem,    \* the semaphore set each process works on
    hshm,    \* the segment each process works on
    buf      \* the reader's copy of the message

kernel == <<semid, sem, shmid, shmsize>>
control == <<run, size, kills>>
vars == <<control, kernel, cell, pc, alive, i, hsem, hshm, buf>>

Reader == "reader"       \* the child, fork() = 0
Writer == "writer"       \* the parent
Proc == {Reader, Writer}

WRITE_SEM == 0
READ_SEM  == 1
Half == {"lo", "hi"}     \* memcpy is not atomic: it copies one half, then the other

ReaderSetup == {"semget", "initW", "initR", "shmget", "shmat"}
Holding     == {"lo", "hi", "release"}      \* between a reserve and its release
Loop        == {"reserve"} \cup Holding
WriterStart == {"sleep", "semget", "shmget"}
Drained     == {"rmSem", "rmShm", "done"}   \* the writer after its last reserve

(* "failed" is an error return, "aborted" the exit(-1) of a semaphore      *)
(* wrapper or the signal of a bad memory access.                           *)
Stopped == {"done", "failed", "aborted"}

Ended(p) == ~alive[p] \/ pc[p] \in Stopped

At(p, label) == alive[p] /\ pc[p] = label
Goto(p, label) == pc' = [pc EXCEPT ![p] = label]

(* The set a process works on is still there: semop and semctl on a set    *)
(* that was removed return -1.                                             *)
SemValid(p) == semid # 0 /\ hsem[p] = semid
-----------------------------------------------------------------------------
(* The semaphore wrappers.                                                 *)

(* sem_init: SETVAL overwrites whatever value the semaphore has.           *)
sem_init(p, s, v, next) ==
    \/ /\ SemValid(p)
       /\ sem' = [sem EXCEPT ![s] = v]
       /\ Goto(p, next)
    \/ /\ ~SemValid(p)
       /\ Goto(p, "aborted")
       /\ UNCHANGED sem

sem_release(p, s, next) ==
    \/ /\ SemValid(p)
       /\ sem' = [sem EXCEPT ![s] = @ + 1]
       /\ Goto(p, next)
    \/ /\ ~SemValid(p)
       /\ Goto(p, "aborted")
       /\ UNCHANGED sem

(* sem_reserve blocks while the value is 0.                                *)
sem_reserve(p, s, next) ==
    \/ /\ SemValid(p)
       /\ sem[s] > 0
       /\ sem' = [sem EXCEPT ![s] = @ - 1]
       /\ Goto(p, next)
    \/ /\ ~SemValid(p)
       /\ Goto(p, "aborted")
       /\ UNCHANGED sem

LoopTop(p, n, after) == IF n < Count THEN "reserve" ELSE after
-----------------------------------------------------------------------------
(* The reader.                                                             *)

(* A set-up call fails for a reason outside the program; the child returns *)
(* and leaves behind what the earlier calls created.                       *)
ReaderFault ==
    /\ \E call \in Faults : At(Reader, call)
    /\ Goto(Reader, "failed")
    /\ UNCHANGED <<control, kernel, cell, alive, i, hsem, hshm, buf>>

(* semget(SEM_KEY, 2, 0600 | IPC_CREAT): an existing set is taken as it is, *)
(* a new one starts with both values 0.                                    *)
ReaderSemget ==
    /\ At(Reader, "semget")
    /\ \/ semid # 0 /\ UNCHANGED <<semid, sem>>
       \/ semid = 0 /\ semid' = run /\ sem' = [s \in {WRITE_SEM, READ_SEM} |-> 0]
    /\ hsem' = [hsem EXCEPT ![Reader] = semid']
    /\ Goto(Reader, "initW")
    /\ UNCHANGED <<control, shmid, shmsize, cell, alive, i, hshm, buf>>

(* Mutant: the writer is given two turns to start with.                    *)
ReaderInitWrite_two ==
    /\ At(Reader, "initW")
    /\ sem_init(Reader, WRITE_SEM, 2, "initR")
    /\ UNCHANGED <<control, semid, shmid, shmsize, cell, alive, i, hsem, hshm, buf>>

ReaderInitWrite ==
    /\ At(Reader, "initW")
    /\ sem_init(Reader, WRITE_SEM, 1, "initR")
    /\ UNCHANGED <<control, semid, shmid, shmsize, cell, alive, i, hsem, hshm, buf>>

(* Mutant: both semaphores start with a turn.                              *)
ReaderInitRead_one ==
    /\ At(Reader, "initR")
    /\ sem_init(Reader, READ_SEM, 1, "shmget")
    /\ UNCHANGED <<control, semid, shmid, shmsize, cell, alive, i, hsem, hshm, buf>>

ReaderInitRead ==
    /\ At(Reader, "initR")
    /\ sem_init(Reader, READ_SEM, 0, "shmget")
    /\ UNCHANGED <<control, semid, shmid, shmsize, cell, alive, i, hsem, hshm, buf>>

(* shmget(SHM_KEY, size, IPC_CREAT | 0600) returns an existing segment     *)
(* unless it is smaller than size.                                         *)
ReaderShmget ==
    /\ At(Reader, "shmget")
    /\ \/ /\ shmid # 0 /\ shmsize >= size
          /\ Goto(Reader, "shmat")
          /\ UNCHANGED <<shmid, shmsize, cell>>
       \/ /\ shmid # 0 /\ shmsize < size
          /\ Goto(Reader, "failed")
          /\ UNCHANGED <<shmid, shmsize, cell>>
       \/ /\ shmid = 0
          /\ shmid' = run /\ shmsize' = size
          /\ cell' = [h \in Half |-> 0]
          /\ Goto(Reader, "shmat")
    /\ hshm' = [hshm EXCEPT ![Reader] = shmid']
    /\ UNCHANGED <<control, semid, sem, alive, i, hsem, buf>>

ReaderShmat ==
    /\ At(Reader, "shmat")
    /\ Goto(Reader, IF shmid # 0 /\ hshm[Reader] = shmid
                    THEN LoopTop(Reader, 0, "done") ELSE "failed")
    /\ UNCHANGED <<control, kernel, cell, alive, i, hsem, hshm, buf>>

(* Mutant: the reader waits for the writer's turn.                         *)
ReaderReserve_wrongTurn ==
    /\ At(Reader, "reserve")
    /\ sem_reserve(Reader, WRITE_SEM, "lo")
    /\ UNCHANGED <<control, semid, shmid, shmsize, cell, alive, i, hsem, hshm, buf>>

ReaderReserve ==
    /\ At(Reader, "reserve")
    /\ sem_reserve(Reader, READ_SEM, "lo")
    /\ UNCHANGED <<control, semid, shmid, shmsize, cell, alive, i, hsem, hshm, buf>>

(* memcpy(buf, addr, size), one half of it.                                *)
ReaderCopy(h, next) ==
    /\ At(Reader, h)
    /\ buf' = [buf EXCEPT ![h] = cell[h]]
    /\ Goto(Reader, next)
    /\ UNCHANGED <<control, kernel, cell, alive, i, hsem, hshm>>

(* Mutant: the reader gives the turn back to itself.                       *)
ReaderRelease_wrongTurn ==
    /\ At(Reader, "release")
    /\ sem_release(Reader, READ_SEM, LoopTop(Reader, i[Reader] + 1, "done"))
    /\ i' = IF SemValid(Reader) THEN [i EXCEPT ![Reader] = @ + 1] ELSE i
    /\ UNCHANGED <<control, semid, shmid, shmsize, cell, alive, hsem, hshm, buf>>

(* The last statement of the body; after Count turns the child detaches    *)
(* and returns.                                                            *)
ReaderRelease ==
    /\ At(Reader, "release")
    /\ sem_release(Reader, WRITE_SEM, LoopTop(Reader, i[Reader] + 1, "done"))
    /\ i' = IF SemValid(Reader) THEN [i EXCEPT ![Reader] = @ + 1] ELSE i
    /\ UNCHANGED <<control, semid, shmid, shmsize, cell, alive, hsem, hshm, buf>>

ReaderNext ==
    \/ ReaderSemget \/ ReaderInitWrite \/ ReaderInitRead
    \/ ReaderShmget \/ ReaderShmat \/ ReaderReserve
    \/ ReaderCopy("lo", "hi") \/ ReaderCopy("hi", "release")
    \/ ReaderRelease
-----------------------------------------------------------------------------
(* The writer.                                                             *)

(* sleep(1) orders nothing by itself; SleepCoversSetup says whether the    *)
(* reader's set-up is over by the time it returns.                         *)
WriterWake ==
    /\ At(Writer, "sleep")
    /\ SleepCoversSetup => Ended(Reader) \/ pc[Reader] \notin ReaderSetup
    /\ Goto(Writer, "semget")
    /\ UNCHANGED <<control, kernel, cell, alive, i, hsem, hshm, buf>>

(* semget(SEM_KEY, 0, 0): no IPC_CREAT, so the set must exist.             *)
WriterSemget ==
    /\ At(Writer, "semget")
    /\ hsem' = [hsem EXCEPT ![Writer] = semid]
    /\ Goto(Writer, IF semid # 0 THEN "shmget" ELSE "failed")
    /\ UNCHANGED <<control, kernel, cell, alive, i, hshm, buf>>

(* shmget(SHM_KEY, 0, 0) and shmat: any existing segment will do, of any   *)
(* size; only the writer removes segments, so the shmat finds it.          *)
WriterShmget ==
    /\ At(Writer, "shmget")
    /\ hshm' = [hshm EXCEPT ![Writer] = shmid]
    /\ Goto(Writer, IF shmid # 0 THEN LoopTop(Writer, 0, "drain") ELSE "failed")
    /\ UNCHANGED <<control, kernel, cell, alive, i, hsem, buf>>

(* The shmat fails for a reason outside the program; the parent returns    *)
(* and leaves the reader and the kernel objects behind.                    *)
WriterFault ==
    /\ "attach" \in Faults
    /\ At(Writer, "shmget") /\ shmid # 0
    /\ hshm' = [hshm EXCEPT ![Writer] = shmid]
    /\ Goto(Writer, "failed")
    /\ UNCHANGED <<control, kernel, cell, alive, i, hsem, buf>>

WriterReserve ==
    /\ At(Writer, "reserve")
    /\ sem_reserve(Writer, WRITE_SEM, "lo")
    /\ UNCHANGED <<control, semid, shmid, shmsize, cell, alive, i, hsem, hshm, buf>>

(* memcpy(addr, buf, size), one half of it.  The segment the writer is     *)
(* attached to is the registered one: nobody else removes it.  Its size    *)
(* was never compared with size: past its end the copy may still fit into  *)
(* the last page, or the process gets a SIGSEGV or SIGBUS.                 *)
WriterCopy(h, next) ==
    /\ At(Writer, h)
    /\ \/ cell' = [cell EXCEPT ![h] = i[Writer] + 1] /\ Goto(Writer, next)
       \/ shmsize < size /\ Goto(Writer, "aborted") /\ UNCHANGED cell
    /\ UNCHANGED <<control, kernel, alive, i, hsem, hshm, buf>>

(* Mutant: the writer gives the turn back to itself.                       *)
WriterRelease_wrongTurn ==
    /\ At(Writer, "release")
    /\ sem_release(Writer, WRITE_SEM, LoopTop(Writer, i[Writer] + 1, "drain"))
    /\ i' = IF SemValid(Writer) THEN [i EXCEPT ![Writer] = @ + 1] ELSE i
    /\ UNCHANGED <<control, semid, shmid, shmsize, cell, alive, hsem, hshm, buf>>

WriterRelease ==
    /\ At(Writer, "release")
    /\ sem_release(Writer, READ_SEM, LoopTop(Writer, i[Writer] + 1, "drain"))
    /\ i' = IF SemValid(Writer) THEN [i EXCEPT ![Writer] = @ + 1] ELSE i
    /\ UNCHANGED <<control, semid, shmid, shmsize, cell, alive, hsem, hshm, buf>>

(* Mutant: the reserve after the report is missing.                        *)
WriterDrain_missing ==
    /\ At(Writer, "drain")
    /\ Goto(Writer, "rmSem")
    /\ UNCHANGED <<control, kernel, cell, alive, i, hsem, hshm, buf>>

(* The reserve after the report: the writer waits for the turn the reader  *)
(* gives back after the last message, before it removes the set.           *)
WriterDrain ==
    /\ At(Writer, "drain")
    /\ sem_reserve(Writer, WRITE_SEM, "rmSem")
    /\ UNCHANGED <<control, semid, shmid, shmsize, cell, alive, i, hsem, hshm, buf>>

(* semctl(sem_id, 0, IPC_RMID); its result is not looked at.               *)
WriterRemoveSem ==
    /\ At(Writer, "rmSem")
    /\ semid' = IF SemValid(Writer) THEN 0 ELSE semid
    /\ Goto(Writer, "rmShm")
    /\ UNCHANGED <<control, sem, shmid, shmsize, cell, alive, i, hsem, hshm, buf>>

(* Mutant: the segment is detached but not removed.                        *)
WriterRemoveShm_keeps ==
    /\ At(Writer, "rmShm")
    /\ Goto(Writer, "done")
    /\ UNCHANGED <<control, kernel, cell, alive, i, hsem, hshm, buf>>

(* shmdt and shmctl(shm_id, IPC_RMID).                                     *)
WriterRemoveShm ==
    /\ At(Writer, "rmShm")
    /\ shmid' = IF hshm[Writer] = shmid THEN 0 ELSE shmid
    /\ Goto(Writer, "done")
    /\ UNCHANGED <<control, semid, sem, shmsize, cell, alive, i, hsem, hshm, buf>>

WriterNext ==
    \/ WriterWake \/ WriterSemget \/ WriterShmget \/ WriterReserve
    \/ WriterCopy("lo", "hi") \/ WriterCopy("hi", "release")
    \/ WriterRelease \/ WriterDrain \/ WriterRemoveSem \/ WriterRemoveShm
-----------------------------------------------------------------------------
(* Around the two processes.                                               *)

(* A process is killed.  sem_flg is 0: without SEM_UNDO the turn it holds  *)
(* is not given back.                                                      *)
Kill(p) ==
    /\ kills < MaxKills
    /\ ~Ended(p)
    /\ kills' = kills + 1
    /\ alive' = [alive EXCEPT ![p] = FALSE]
    /\ UNCHANGED <<run, size, kernel, cell, pc, i, hsem, hshm, buf>>

Fresh ==
    [pc    |-> [p \in Proc |-> IF p = Reader THEN "semget" ELSE "sleep"],
     alive |-> [p \in Proc |-> TRUE],
     zero  |-> [p \in Proc |-> 0],
     buf   |-> [h \in Half |-> 0]]

(* The next run, when both processes of this one are gone: a test driver   *)
(* goes on when the last holder of the program's output has ended.         *)
NewRun ==
    /\ \A p \in Proc : Ended(p)
    /\ run < MaxRuns
    /\ run' = run + 1
    /\ size' \in Sizes
    /\ pc' = Fresh.pc /\ alive' = Fresh.alive
    /\ i' = Fresh.zero /\ hsem' = Fresh.zero /\ hshm' = Fresh.zero
    /\ buf' = Fresh.buf
    /\ UNCHANGED <<kills, kernel, cell>>

Terminating ==
    /\ \A p \in Proc : Ended(p)
    /\ run = MaxRuns
    /\ UNCHANGED vars

Init ==
    /\ run = 1 /\ size \in Sizes /\ kills = 0
    /\ semid = 0 /\ sem = [s \in {WRITE_SEM, READ_SEM} |-> 0]
    /\ shmid = 0 /\ shmsize = 0 /\ cell = [h \in Half |-> 0]
    /\ pc = Fresh.pc /\ alive = Fresh.alive
    /\ i = Fresh.zero /\ hsem = Fresh.zero /\ hshm = Fresh.zero
    /\ buf = Fresh.buf

Next ==
    \/ ReaderNext
    \/ ReaderFault
    \/ WriterNext
    \/ WriterFault
    \/ \E p \in Proc : Kill(p)
    \/ NewRun
    \/ Terminating

Spec == Init /\ [][Next]_vars

(* The scheduler runs a process that is not blocked in a call; nothing is  *)
(* assumed of kills, faults or the start of another run.                   *)
FairSpec == Spec /\ WF_vars(ReaderNext) /\ WF_vars(WriterNext)
-----------------------------------------------------------------------------
ReaderLabels == ReaderSetup \cup Loop \cup Stopped
WriterLabels == WriterStart \cup Loop \cup {"drain", "rmSem", "rmShm"} \cup Stopped

(* Type invariant of the variables of shm.c and of the kernel objects.     *)
TypeOK ==
    /\ run \in 1..MaxRuns /\ size \in Sizes /\ kills \in 0..MaxKills
    /\ semid \in 0..run /\ shmid \in 0..run
    /\ sem \in [{WRITE_SEM, READ_SEM} -> Nat]
    /\ shmsize \in Nat
    /\ cell \in [Half -> 0..Count] /\ buf \in [Half -> 0..Count]
    /\ pc \in [Proc -> ReaderLabels \cup WriterLabels]
    /\ pc[Reader] \in ReaderLabels /\ pc[Writer] \in WriterLabels
    /\ alive \in [Proc -> BOOLEAN]
    /\ i \in [Proc -> 0..Count]
    /\ hsem \in [Proc -> 0..run] /\ hshm \in [Proc -> 0..run]

(* The two memcpy calls on the segment, shm.c:118 and shm.c:158, never     *)
(* overlap, whatever is killed and whatever an earlier run left behind.    *)
MutualExclusion == ~(\A p \in Proc : alive[p] /\ pc[p] \in Half)

(* The reader's k-th turn copies out the k-th message, whole: no message   *)
(* is overwritten before it was read, read twice, or read half-written.    *)
Intact ==
    pc[Reader] = "release" => \A h \in Half : buf[h] = i[Reader] + 1

(* The reserve at shm.c:169 holds the removal of the semaphores back until *)
(* the reader has made its last semop, so no semop of either process finds *)
(* its set gone and runs into the exit(-1) of sem_reserve or sem_release.  *)
RemovalWaits ==
    /\ pc[Writer] \in Drained => i[Reader] = Count
    /\ pc[Reader] # "aborted"
    /\ pc[Writer] = "aborted" => Ended(Reader)

(* A writer that ends normally leaves neither semaphores nor segment for   *)
(* the next run to trip over.                                              *)
NothingLeft == pc[Writer] = "done" => semid = 0 /\ shmid = 0

(* A process waits in sem_reserve for a turn that is not there.            *)
Waits(p, s) == SemValid(p) /\ sem[s] = 0

Blocked ==
    [p \in Proc |-> IF p = Reader THEN pc[p] = "reserve" /\ Waits(p, READ_SEM)
                    ELSE pc[p] \in {"reserve", "drain"} /\ Waits(p, WRITE_SEM)]

(* The two processes never wait for one another, and neither waits for one *)
(* that has finished: only a killed or failed peer leaves a process        *)
(* blocked in semop for ever.                                              *)
NoMutualWait ==
    \/ \E p \in Proc : ~Ended(p) /\ ~Blocked[p]
    \/ \E p \in Proc : ~alive[p] \/ pc[p] \in {"failed", "aborted"}
    \/ \A p \in Proc : pc[p] = "done"

(* As long as nothing was killed every run starts without a segment, and   *)
(* then the transfer is safe even if sleep(1) is too short: the writer     *)
(* cannot find the segment before the semaphores have been initialised.    *)
(* (A reader that failed in shmat would have left one.)  With a message to *)
(* wait for the removal comes last as well.                                *)
SafeWithoutSleep ==
    kills = 0 => MutualExclusion /\ Intact /\ (Count # 0 => RemovalWaits)

(* The writer failed although the segment was there.                       *)
AttachFailed == pc[Writer] = "failed" /\ hshm[Writer] # 0

(* With no kill, no failing call and a sufficient sleep every run ends     *)
(* normally on both sides.                                                 *)
Undisturbed == kills = 0 /\ pc[Reader] # "failed" /\ ~AttachFailed

EveryRunCompletes ==
    []Undisturbed => \A r \in 1..MaxRuns :
        run = r ~> run = r /\ \A p \in Proc : pc[p] = "done"

(* The shared segment is a channel of capacity one: a message is in it     *)
(* from the end of the writer's memcpy to the end of the reader's.         *)
Copied(p) == i[p] + (IF pc[p] = "release" THEN 1 ELSE 0)

OneSlot == INSTANCE Transfer WITH
    Capacity <- 1, count <- Count,
    sent <- Copied(Writer), received <- Copied(Reader)

TransfersInTurn == OneSlot!Spec
=============================================================================
