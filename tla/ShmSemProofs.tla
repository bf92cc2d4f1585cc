---------------------------- MODULE ShmSemProofs ----------------------------
(***************************************************************************)
(* Proofs about ShmSem, for every size and count, any number of runs,      *)
(* kills and failing set-up calls.                                         *)
(*                                                                         *)
(* The properties are not inductive.  Behind them stands one fact about    *)
(* the two semaphores: from the reader's sem_init on, the values and the   *)
(* loop counters of the two processes add up, so that there is exactly one *)
(* turn: in WRITE_SEM, in READ_SEM or in the hands of a process (Turns).   *)
(* It needs the writer to stay away until the semaphores are initialised   *)
(* (SetupFirst) and the set to exist as long as it is used (Handles).  The *)
(* sleep keeps the writer away, or, as long as nothing is killed, the want *)
(* of a segment (Tidy).                                                    *)
(***************************************************************************)
EXTENDS ShmSem, TLAPS

(* Either sleep(1) is long enough, or there is no earlier run that could   *)
(* have left a segment for an early writer to find.                        *)
Covered == SleepCoversSetup \/ MaxRuns = 1

BeforeSegment == {"semget", "initW", "initR", "shmget"}

Initialised ==
    \/ pc[Reader] \in Loop \cup {"done"}
    \/ alive[Reader] /\ pc[Reader] \in {"shmget", "shmat"}

held(p) == IF pc[p] \in Holding THEN 1 ELSE 0
drained == IF pc[Writer] \in Drained THEN 1 ELSE 0

(* The loop counters agree with where the processes stand.                 *)
Counters ==
    /\ \A p \in Proc : pc[p] \in Loop => i[p] < Count
    /\ pc[Reader] \in ReaderSetup \cup {"failed"} => i[Reader] = 0
    /\ pc[Reader] = "done" => i[Reader] = Count
    /\ pc[Writer] \in WriterStart \cup {"failed"} => i[Writer] = 0
    /\ pc[Writer] \in {"drain"} \cup Drained => i[Writer] = Count

(* While the reader has not got its segment the writer has not got one.    *)
SetupFirst ==
    alive[Reader] /\ pc[Reader] \in BeforeSegment =>
        /\ pc[Writer] \in WriterStart \cup {"failed"}
        /\ (SleepCoversSetup /\ pc[Writer] = "sleep") \/ shmid = 0

(* What the processes hold in their hands still exists.                    *)
Handles ==
    /\ pc[Writer] \in {"shmget"} \cup Loop \cup {"drain", "rmSem"} => SemValid(Writer)
    /\ pc[Writer] \in Loop \cup {"drain", "rmSem", "rmShm"} =>
           shmid # 0 /\ hshm[Writer] = shmid
    /\ pc[Writer] \in {"rmShm", "done"} => semid = 0
    /\ pc[Writer] = "done" => shmid = 0
    /\ Initialised /\ pc[Writer] \notin {"rmShm", "done"} => SemValid(Reader)
    /\ alive[Reader] /\ pc[Reader] \in {"initW", "initR"} => SemValid(Reader)
    /\ Initialised /\ pc[Reader] # "shmget" => shmsize >= size

(* There is one turn.                                                      *)
Turns ==
    /\ Initialised =>
           /\ sem[WRITE_SEM] + i[Writer] + held(Writer) + drained = 1 + i[Reader]
           /\ sem[READ_SEM] + i[Reader] + held(Reader) = i[Writer]
    /\ ~Initialised => sem[WRITE_SEM] + i[Writer] + held(Writer) + drained <= 1
    /\ alive[Reader] /\ pc[Reader] = "initR" => sem[WRITE_SEM] = 1

NoAbort ==
    /\ pc[Reader] # "aborted"
    /\ pc[Writer] = "aborted" => Ended(Reader)

(* What the segment and the reader's buffer contain.                       *)
Contents ==
    /\ Initialised /\ sem[READ_SEM] > 0 => \A h \in Half : cell[h] = i[Writer]
    /\ pc[Reader] \in Holding => \A h \in Half : cell[h] = i[Reader] + 1
    /\ pc[Writer] = "hi" => cell["lo"] = i[Writer] + 1
    /\ pc[Writer] = "release" => \A h \in Half : cell[h] = i[Writer] + 1
    /\ pc[Reader] = "hi" => buf["lo"] = i[Reader] + 1
    /\ pc[Reader] = "release" => \A h \in Half : buf[h] = i[Reader] + 1

Control == SetupFirst /\ Handles /\ Turns /\ NoAbort

IInv == TypeOK /\ Counters /\ Control /\ Contents

(* As long as nothing was killed a run leaves no segment, so that the next *)
(* one has its reader's to wait for, however early the writer wakes up.    *)
Tidy ==
    /\ \A p \in Proc : alive[p]
    /\ pc[Reader] = "failed" => shmid = 0
    /\ pc[Reader] = "shmat" => shmid # 0 /\ hshm[Reader] = shmid
    /\ pc[Writer] # "aborted"

Clean == kills = 0 => Control /\ Contents /\ Tidy

UncoveredInv == TypeOK /\ Counters /\ Clean
-----------------------------------------------------------------------------
(* How control points and processes are spelled is used everywhere.        *)
USE DEF control, kernel, Proc, Reader, Writer, Half, WRITE_SEM, READ_SEM,
        ReaderSetup, Holding, Loop, WriterStart, Drained, Stopped,
        At, Goto, Ended, SemValid

(* Every step keeps the types and the loop counters, whatever the sleep    *)
(* covers.                                                                 *)
LEMMA TypeStep ==
  ASSUME TypeOK, Counters, [Next]_vars
  PROVE  TypeOK' /\ Counters'
<1> USE SizesAssumption, CountAssumption, RunsAssumption, FaultAssumption
        DEF TypeOK, Counters, ReaderLabels, WriterLabels
<1>1. CASE ReaderSemget
  BY <1>1 DEF ReaderSemget
<1>2. CASE ReaderInitWrite
  BY <1>2 DEF ReaderInitWrite, sem_init
<1>3. CASE ReaderInitRead
  BY <1>3 DEF ReaderInitRead, sem_init
<1>4. CASE ReaderShmget
  BY <1>4 DEF ReaderShmget
<1>5. CASE ReaderShmat
  BY <1>5 DEF ReaderShmat, LoopTop
<1>6. CASE ReaderReserve
  BY <1>6 DEF ReaderReserve, sem_reserve
<1>7. CASE ReaderCopy("lo", "hi")
  BY <1>7 DEF ReaderCopy
<1>8. CASE ReaderCopy("hi", "release")
  BY <1>8 DEF ReaderCopy
<1>9. CASE ReaderRelease
  BY <1>9 DEF ReaderRelease, sem_release, LoopTop
<1>10. CASE ReaderFault
  BY <1>10 DEF ReaderFault, SetupCalls
<1>11. CASE WriterWake
  BY <1>11 DEF WriterWake
<1>12. CASE WriterSemget
  BY <1>12 DEF WriterSemget
<1>13. CASE WriterShmget
  BY <1>13 DEF WriterShmget, LoopTop
<1>14. CASE WriterReserve
  BY <1>14 DEF WriterReserve, sem_reserve
<1>15. CASE WriterCopy("lo", "hi")
  BY <1>15 DEF WriterCopy
<1>16. CASE WriterCopy("hi", "release")
  BY <1>16 DEF WriterCopy
<1>17. CASE WriterRelease
  BY <1>17 DEF WriterRelease, sem_release, LoopTop
<1>18. CASE WriterDrain
  BY <1>18 DEF WriterDrain, sem_reserve
<1>19. CASE WriterRemoveSem
  BY <1>19 DEF WriterRemoveSem
<1>20. CASE WriterRemoveShm
  BY <1>20 DEF WriterRemoveShm
<1>21. CASE WriterFault
  BY <1>21 DEF WriterFault
<1>22. ASSUME NEW p \in Proc, Kill(p) PROVE TypeOK' /\ Counters'
  BY <1>22 DEF Kill
<1>23. CASE NewRun
  BY <1>23 DEF NewRun, Fresh
<1>24. CASE UNCHANGED vars
  BY <1>24 DEF vars
<1> QED
  BY <1>1, <1>2, <1>3, <1>4, <1>5, <1>6, <1>7, <1>8, <1>9, <1>10, <1>11,
     <1>12, <1>13, <1>14, <1>15, <1>16, <1>17, <1>18, <1>19, <1>20, <1>21, <1>22, <1>23, <1>24
     DEF Next, ReaderNext, WriterNext, Terminating

(* Every step keeps the writer away from a set-up in progress: an early    *)
(* writer finds no segment, a late one no set-up.                          *)
LEMMA SetupFirstStep ==
  ASSUME Covered, TypeOK, SetupFirst, [Next]_vars
  PROVE  SetupFirst'
<1> USE SleepAssumption
        DEF Covered, TypeOK, BeforeSegment, SetupFirst
<1>1. CASE ReaderSemget
  BY <1>1 DEF ReaderSemget
<1>2. CASE ReaderInitWrite
  BY <1>2 DEF ReaderInitWrite, sem_init
<1>3. CASE ReaderInitRead
  BY <1>3 DEF ReaderInitRead, sem_init
<1>4. CASE ReaderShmget
  BY <1>4 DEF ReaderShmget
<1>5. CASE ReaderShmat
  BY <1>5 DEF ReaderShmat, LoopTop
<1>6. CASE ReaderReserve
  BY <1>6 DEF ReaderReserve, sem_reserve
<1>7. CASE ReaderCopy("lo", "hi")
  BY <1>7 DEF ReaderCopy
<1>8. CASE ReaderCopy("hi", "release")
  BY <1>8 DEF ReaderCopy
<1>9. CASE ReaderRelease
  BY <1>9 DEF ReaderRelease, sem_release, LoopTop
<1>10. CASE ReaderFault
  BY <1>10 DEF ReaderFault, SetupCalls
<1>11. CASE WriterWake
  BY <1>11 DEF WriterWake
<1>12. CASE WriterSemget
  BY <1>12 DEF WriterSemget
<1>13. CASE WriterShmget
  BY <1>13 DEF WriterShmget, LoopTop
<1>14. CASE WriterReserve
  BY <1>14 DEF WriterReserve, sem_reserve
<1>15. CASE WriterCopy("lo", "hi")
  BY <1>15 DEF WriterCopy
<1>16. CASE WriterCopy("hi", "release")
  BY <1>16 DEF WriterCopy
<1>17. CASE WriterRelease
  BY <1>17 DEF WriterRelease, sem_release, LoopTop
<1>18. CASE WriterDrain
  BY <1>18 DEF WriterDrain, sem_reserve
<1>19. CASE WriterRemoveSem
  BY <1>19 DEF WriterRemoveSem
<1>20. CASE WriterRemoveShm
  BY <1>20 DEF WriterRemoveShm
<1>21. CASE WriterFault
  BY <1>21 DEF WriterFault
<1>22. ASSUME NEW p \in Proc, Kill(p) PROVE SetupFirst'
  BY <1>22 DEF Kill
<1>23. CASE NewRun
  BY <1>23 DEF NewRun, Fresh
<1>24. CASE UNCHANGED vars
  BY <1>24 DEF vars
<1> QED
  BY <1>1, <1>2, <1>3, <1>4, <1>5, <1>6, <1>7, <1>8, <1>9, <1>10, <1>11,
     <1>12, <1>13, <1>14, <1>15, <1>16, <1>17, <1>18, <1>19, <1>20, <1>21, <1>22, <1>23, <1>24
     DEF Next, ReaderNext, WriterNext, Terminating

(* Every step keeps what the processes hold: only the writer removes, and  *)
(* only after the last turn came back.                                     *)
LEMMA HandlesStep ==
  ASSUME TypeOK, Counters, SetupFirst, Handles, Turns, [Next]_vars
  PROVE  Handles'
<1> USE SizesAssumption, CountAssumption, RunsAssumption
        DEF TypeOK, Counters, BeforeSegment, Initialised, SetupFirst,
            Handles, Turns, held, drained
<1>1. CASE ReaderSemget
  BY <1>1 DEF ReaderSemget
<1>2. CASE ReaderInitWrite
  BY <1>2 DEF ReaderInitWrite, sem_init
<1>3. CASE ReaderInitRead
  BY <1>3 DEF ReaderInitRead, sem_init
<1>4. CASE ReaderShmget
  BY <1>4 DEF ReaderShmget
<1>5. CASE ReaderShmat
  BY <1>5 DEF ReaderShmat, LoopTop
<1>6. CASE ReaderReserve
  BY <1>6 DEF ReaderReserve, sem_reserve
<1>7. CASE ReaderCopy("lo", "hi")
  BY <1>7 DEF ReaderCopy
<1>8. CASE ReaderCopy("hi", "release")
  BY <1>8 DEF ReaderCopy
<1>9. CASE ReaderRelease
  BY <1>9 DEF ReaderRelease, sem_release, LoopTop
<1>10. CASE ReaderFault
  BY <1>10 DEF ReaderFault, SetupCalls
<1>11. CASE WriterWake
  BY <1>11 DEF WriterWake
<1>12. CASE WriterSemget
  BY <1>12 DEF WriterSemget
<1>13. CASE WriterShmget
  BY <1>13 DEF WriterShmget, LoopTop
<1>14. CASE WriterReserve
  BY <1>14 DEF WriterReserve, sem_reserve
<1>15. CASE WriterCopy("lo", "hi")
  BY <1>15 DEF WriterCopy
<1>16. CASE WriterCopy("hi", "release")
  BY <1>16 DEF WriterCopy
<1>17. CASE WriterRelease
  BY <1>17 DEF WriterRelease, sem_release, LoopTop
<1>18. CASE WriterDrain
  BY <1>18 DEF WriterDrain, sem_reserve
<1>19. CASE WriterRemoveSem
  BY <1>19 DEF WriterRemoveSem
<1>20. CASE WriterRemoveShm
  BY <1>20 DEF WriterRemoveShm
<1>21. CASE WriterFault
  BY <1>21 DEF WriterFault
<1>22. ASSUME NEW p \in Proc, Kill(p) PROVE Handles'
  BY <1>22 DEF Kill
<1>23. CASE NewRun
  BY <1>23 DEF NewRun, Fresh
<1>24. CASE UNCHANGED vars
  BY <1>24 DEF vars
<1> QED
  BY <1>1, <1>2, <1>3, <1>4, <1>5, <1>6, <1>7, <1>8, <1>9, <1>10, <1>11,
     <1>12, <1>13, <1>14, <1>15, <1>16, <1>17, <1>18, <1>19, <1>20, <1>21, <1>22, <1>23, <1>24
     DEF Next, ReaderNext, WriterNext, Terminating

(* Every step keeps the number of turns at one.                            *)
LEMMA TurnsStep ==
  ASSUME TypeOK, Counters, SetupFirst, Handles, Turns, [Next]_vars
  PROVE  Turns'
<1> USE SizesAssumption, CountAssumption, FaultAssumption
        DEF TypeOK, Counters, BeforeSegment, Initialised, SetupFirst,
            Handles, Turns, held, drained
<1>1. CASE ReaderSemget
  BY <1>1 DEF ReaderSemget
<1>2. CASE ReaderInitWrite
  BY <1>2 DEF ReaderInitWrite, sem_init
<1>3. CASE ReaderInitRead
  BY <1>3 DEF ReaderInitRead, sem_init
<1>4. CASE ReaderShmget
  BY <1>4 DEF ReaderShmget
<1>5. CASE ReaderShmat
  BY <1>5 DEF ReaderShmat, LoopTop
<1>6. CASE ReaderReserve
  BY <1>6 DEF ReaderReserve, sem_reserve
<1>7. CASE ReaderCopy("lo", "hi")
  BY <1>7 DEF ReaderCopy
<1>8. CASE ReaderCopy("hi", "release")
  BY <1>8 DEF ReaderCopy
<1>9. CASE ReaderRelease
  BY <1>9 DEF ReaderRelease, sem_release, LoopTop
<1>10. CASE ReaderFault
  BY <1>10 DEF ReaderFault, SetupCalls
<1>11. CASE WriterWake
  BY <1>11 DEF WriterWake
<1>12. CASE WriterSemget
  BY <1>12 DEF WriterSemget
<1>13. CASE WriterShmget
  BY <1>13 DEF WriterShmget, LoopTop
<1>14. CASE WriterReserve
  <2>1. SemValid(Writer) /\ (Initialised' <=> Initialised)
    BY <1>14 DEF WriterReserve, sem_reserve
  <2>2. /\ sem'[WRITE_SEM] = sem[WRITE_SEM] - 1
        /\ sem'[READ_SEM] = sem[READ_SEM]
    BY <1>14, <2>1 DEF WriterReserve, sem_reserve
  <2>3. held(Writer) = 0 /\ drained = 0
    BY <1>14 DEF WriterReserve
  <2>4. held(Writer)' = 1 /\ drained' = 0
    BY <1>14, <2>1 DEF WriterReserve, sem_reserve
  <2>5. /\ i[Reader]' = i[Reader] /\ held(Reader)' = held(Reader)
        /\ i[Writer]' = i[Writer] + 0 /\ held(Reader) \in {0, 1}
    BY <1>14, <2>1 DEF WriterReserve, sem_reserve
  <2>6. ~(alive[Reader] /\ pc[Reader] = "initR")'
    BY <1>14 DEF WriterReserve, sem_reserve
  <2> HIDE DEF Initialised, held, drained
  <2> QED
    BY <2>1, <2>2, <2>3, <2>4, <2>5, <2>6
<1>15. CASE WriterCopy("lo", "hi")
  BY <1>15 DEF WriterCopy
<1>16. CASE WriterCopy("hi", "release")
  BY <1>16 DEF WriterCopy
<1>17. CASE WriterRelease
  <2>1. SemValid(Writer) /\ (Initialised' <=> Initialised)
    BY <1>17 DEF WriterRelease, sem_release
  <2>2. /\ sem'[READ_SEM] = sem[READ_SEM] + 1
        /\ sem'[WRITE_SEM] = sem[WRITE_SEM]
    BY <1>17, <2>1 DEF WriterRelease, sem_release
  <2>3. held(Writer) = 1 /\ drained = 0
    BY <1>17 DEF WriterRelease
  <2>4. held(Writer)' = 0 /\ drained' = 0
    BY <1>17, <2>1 DEF WriterRelease, sem_release, LoopTop
  <2>5. /\ i[Reader]' = i[Reader] /\ held(Reader)' = held(Reader)
        /\ i[Writer]' = i[Writer] + 1 /\ held(Reader) \in {0, 1}
    BY <1>17, <2>1 DEF WriterRelease, sem_release
  <2>6. ~(alive[Reader] /\ pc[Reader] = "initR")'
    BY <1>17 DEF WriterRelease, sem_release
  <2> HIDE DEF Initialised, held, drained
  <2> QED
    BY <2>1, <2>2, <2>3, <2>4, <2>5, <2>6
<1>18. CASE WriterDrain
  <2>1. SemValid(Writer) /\ (Initialised' <=> Initialised)
    BY <1>18 DEF WriterDrain, sem_reserve
  <2>2. /\ sem'[WRITE_SEM] = sem[WRITE_SEM] - 1
        /\ sem'[READ_SEM] = sem[READ_SEM]
    BY <1>18, <2>1 DEF WriterDrain, sem_reserve
  <2>3. held(Writer) = 0 /\ drained = 0
    BY <1>18 DEF WriterDrain
  <2>4. held(Writer)' = 0 /\ drained' = 1
    BY <1>18, <2>1 DEF WriterDrain, sem_reserve
  <2>5. /\ i[Reader]' = i[Reader] /\ held(Reader)' = held(Reader)
        /\ i[Writer]' = i[Writer] + 0 /\ held(Reader) \in {0, 1}
    BY <1>18, <2>1 DEF WriterDrain, sem_reserve
  <2>6. ~(alive[Reader] /\ pc[Reader] = "initR")'
    BY <1>18 DEF WriterDrain, sem_reserve
  <2> HIDE DEF Initialised, held, drained
  <2> QED
    BY <2>1, <2>2, <2>3, <2>4, <2>5, <2>6
<1>19. CASE WriterRemoveSem
  BY <1>19 DEF WriterRemoveSem
<1>20. CASE WriterRemoveShm
  BY <1>20 DEF WriterRemoveShm
<1>21. CASE WriterFault
  BY <1>21 DEF WriterFault
<1>22. ASSUME NEW p \in Proc, Kill(p) PROVE Turns'
  BY <1>22 DEF Kill
<1>23. CASE NewRun
  BY <1>23 DEF NewRun, Fresh
<1>24. CASE UNCHANGED vars
  BY <1>24 DEF vars
<1> QED
  BY <1>1, <1>2, <1>3, <1>4, <1>5, <1>6, <1>7, <1>8, <1>9, <1>10, <1>11,
     <1>12, <1>13, <1>14, <1>15, <1>16, <1>17, <1>18, <1>19, <1>20, <1>21, <1>22, <1>23, <1>24
     DEF Next, ReaderNext, WriterNext, Terminating

(* No step runs into the exit(-1) of a semaphore wrapper, and the writer   *)
(* is stopped by a short segment only if no reader is there.               *)
LEMMA NoAbortStep ==
  ASSUME TypeOK, Counters, SetupFirst, Handles, Turns, NoAbort, [Next]_vars
  PROVE  NoAbort'
<1> USE SizesAssumption, CountAssumption
        DEF TypeOK, Counters, ReaderLabels, BeforeSegment, Initialised, SetupFirst,
            Handles, Turns, NoAbort, held, drained
<1>1. CASE ReaderSemget
  BY <1>1 DEF ReaderSemget
<1>2. CASE ReaderInitWrite
  BY <1>2 DEF ReaderInitWrite, sem_init
<1>3. CASE ReaderInitRead
  BY <1>3 DEF ReaderInitRead, sem_init
<1>4. CASE ReaderShmget
  BY <1>4 DEF ReaderShmget
<1>5. CASE ReaderShmat
  BY <1>5 DEF ReaderShmat, LoopTop
<1>6. CASE ReaderReserve
  BY <1>6 DEF ReaderReserve, sem_reserve
<1>7. CASE ReaderCopy("lo", "hi")
  BY <1>7 DEF ReaderCopy
<1>8. CASE ReaderCopy("hi", "release")
  BY <1>8 DEF ReaderCopy
<1>9. CASE ReaderRelease
  BY <1>9 DEF ReaderRelease, sem_release, LoopTop
<1>10. CASE ReaderFault
  BY <1>10 DEF ReaderFault, SetupCalls
<1>11. CASE WriterWake
  BY <1>11 DEF WriterWake
<1>12. CASE WriterSemget
  BY <1>12 DEF WriterSemget
<1>13. CASE WriterShmget
  BY <1>13 DEF WriterShmget, LoopTop
<1>14. CASE WriterReserve
  BY <1>14 DEF WriterReserve, sem_reserve
<1>15. CASE WriterCopy("lo", "hi")
  BY <1>15 DEF WriterCopy
<1>16. CASE WriterCopy("hi", "release")
  BY <1>16 DEF WriterCopy
<1>17. CASE WriterRelease
  BY <1>17 DEF WriterRelease, sem_release, LoopTop
<1>18. CASE WriterDrain
  BY <1>18 DEF WriterDrain, sem_reserve
<1>19. CASE WriterRemoveSem
  BY <1>19 DEF WriterRemoveSem
<1>20. CASE WriterRemoveShm
  BY <1>20 DEF WriterRemoveShm
<1>21. CASE WriterFault
  BY <1>21 DEF WriterFault
<1>22. ASSUME NEW p \in Proc, Kill(p) PROVE NoAbort'
  BY <1>22 DEF Kill
<1>23. CASE NewRun
  BY <1>23 DEF NewRun, Fresh
<1>24. CASE UNCHANGED vars
  BY <1>24 DEF vars
<1> QED
  BY <1>1, <1>2, <1>3, <1>4, <1>5, <1>6, <1>7, <1>8, <1>9, <1>10, <1>11,
     <1>12, <1>13, <1>14, <1>15, <1>16, <1>17, <1>18, <1>19, <1>20, <1>21, <1>22, <1>23, <1>24
     DEF Next, ReaderNext, WriterNext, Terminating

(* Every step keeps the contents of the segment and the buffer.            *)
LEMMA ContentsStep ==
  ASSUME TypeOK, Counters, SetupFirst, Handles, Turns, Contents, [Next]_vars
  PROVE  Contents'
<1> USE CountAssumption
        DEF TypeOK, Counters, BeforeSegment, Initialised, SetupFirst,
            Handles, Turns, Contents, held, drained
<1>1. CASE ReaderSemget
  BY <1>1 DEF ReaderSemget
<1>2. CASE ReaderInitWrite
  BY <1>2 DEF ReaderInitWrite, sem_init
<1>3. CASE ReaderInitRead
  BY <1>3 DEF ReaderInitRead, sem_init
<1>4. CASE ReaderShmget
  BY <1>4 DEF ReaderShmget
<1>5. CASE ReaderShmat
  BY <1>5 DEF ReaderShmat, LoopTop
<1>6. CASE ReaderReserve
  BY <1>6 DEF ReaderReserve, sem_reserve
<1>7. CASE ReaderCopy("lo", "hi")
  BY <1>7 DEF ReaderCopy
<1>8. CASE ReaderCopy("hi", "release")
  BY <1>8 DEF ReaderCopy
<1>9. CASE ReaderRelease
  BY <1>9 DEF ReaderRelease, sem_release, LoopTop
<1>10. CASE ReaderFault
  BY <1>10 DEF ReaderFault, SetupCalls
<1>11. CASE WriterWake
  BY <1>11 DEF WriterWake
<1>12. CASE WriterSemget
  BY <1>12 DEF WriterSemget
<1>13. CASE WriterShmget
  BY <1>13 DEF WriterShmget, LoopTop
<1>14. CASE WriterReserve
  BY <1>14 DEF WriterReserve, sem_reserve
<1>15. CASE WriterCopy("lo", "hi")
  BY <1>15 DEF WriterCopy
<1>16. CASE WriterCopy("hi", "release")
  BY <1>16 DEF WriterCopy
<1>17. CASE WriterRelease
  BY <1>17 DEF WriterRelease, sem_release, LoopTop
<1>18. CASE WriterDrain
  BY <1>18 DEF WriterDrain, sem_reserve
<1>19. CASE WriterRemoveSem
  BY <1>19 DEF WriterRemoveSem
<1>20. CASE WriterRemoveShm
  BY <1>20 DEF WriterRemoveShm
<1>21. CASE WriterFault
  BY <1>21 DEF WriterFault
<1>22. ASSUME NEW p \in Proc, Kill(p) PROVE Contents'
  BY <1>22 DEF Kill
<1>23. CASE NewRun
  BY <1>23 DEF NewRun, Fresh
<1>24. CASE UNCHANGED vars
  BY <1>24 DEF vars
<1> QED
  BY <1>1, <1>2, <1>3, <1>4, <1>5, <1>6, <1>7, <1>8, <1>9, <1>10, <1>11,
     <1>12, <1>13, <1>14, <1>15, <1>16, <1>17, <1>18, <1>19, <1>20, <1>21, <1>22, <1>23, <1>24
     DEF Next, ReaderNext, WriterNext, Terminating

(* Without a kill, and unless a reader fails with its segment made, the    *)
(* writer stays away from a set-up even if nothing makes it wait.          *)
LEMMA TidyStep ==
  ASSUME ~SleepCoversSetup, Count # 0, "shmat" \notin Faults,
         TypeOK, Counters, Control, Contents, Tidy, [Next]_vars, kills' = 0
  PROVE  SetupFirst' /\ Tidy'
<1> USE SizesAssumption, CountAssumption, RunsAssumption, FaultAssumption
        DEF TypeOK, Counters, ReaderLabels, WriterLabels, BeforeSegment, Initialised,
            Control, SetupFirst, Handles, Turns, NoAbort, Tidy, held, drained
<1>1. CASE ReaderSemget
  BY <1>1 DEF ReaderSemget
<1>2. CASE ReaderInitWrite
  BY <1>2 DEF ReaderInitWrite, sem_init
<1>3. CASE ReaderInitRead
  BY <1>3 DEF ReaderInitRead, sem_init
<1>4. CASE ReaderShmget
  BY <1>4 DEF ReaderShmget
<1>5. CASE ReaderShmat
  BY <1>5 DEF ReaderShmat, LoopTop
<1>6. CASE ReaderReserve
  BY <1>6 DEF ReaderReserve, sem_reserve
<1>7. CASE ReaderCopy("lo", "hi")
  BY <1>7 DEF ReaderCopy
<1>8. CASE ReaderCopy("hi", "release")
  BY <1>8 DEF ReaderCopy
<1>9. CASE ReaderRelease
  BY <1>9 DEF ReaderRelease, sem_release, LoopTop
<1>10. CASE ReaderFault
  BY <1>10 DEF ReaderFault, SetupCalls
<1>11. CASE WriterWake
  BY <1>11 DEF WriterWake
<1>12. CASE WriterSemget
  BY <1>12 DEF WriterSemget
<1>13. CASE WriterShmget
  BY <1>13 DEF WriterShmget, LoopTop
<1>14. CASE WriterReserve
  BY <1>14 DEF WriterReserve, sem_reserve
<1>15. CASE WriterCopy("lo", "hi")
  BY <1>15 DEF WriterCopy
<1>16. CASE WriterCopy("hi", "release")
  BY <1>16 DEF WriterCopy
<1>17. CASE WriterRelease
  BY <1>17 DEF WriterRelease, sem_release, LoopTop
<1>18. CASE WriterDrain
  BY <1>18 DEF WriterDrain, sem_reserve
<1>19. CASE WriterRemoveSem
  BY <1>19 DEF WriterRemoveSem
<1>20. CASE WriterRemoveShm
  BY <1>20 DEF WriterRemoveShm
<1>21. CASE WriterFault
  BY <1>21 DEF WriterFault
<1>22. ASSUME NEW p \in Proc, Kill(p) PROVE FALSE
  BY <1>22 DEF Kill
<1>23. CASE NewRun
  <2>1. \A p \in Proc : pc[p] \in Stopped
    BY <1>23 DEF NewRun
  <2>2. pc[Reader] \in {"done", "failed"} /\ pc[Writer] \in {"done", "failed"}
    BY <2>1
  <2>3. shmid = 0
    BY <2>2
  <2> QED
    BY <1>23, <2>3 DEF NewRun, Fresh
<1>24. CASE UNCHANGED vars
  BY <1>24 DEF vars
<1> QED
  BY <1>1, <1>2, <1>3, <1>4, <1>5, <1>6, <1>7, <1>8, <1>9, <1>10, <1>11,
     <1>12, <1>13, <1>14, <1>15, <1>16, <1>17, <1>18, <1>19, <1>20, <1>21, <1>22, <1>23, <1>24
     DEF Next, ReaderNext, WriterNext, Terminating

-----------------------------------------------------------------------------
(* The program starts in the inductive invariant and stays in it.          *)
LEMMA Initially == Init => IInv
  BY SizesAssumption, CountAssumption, RunsAssumption
     DEF Init, Fresh, IInv, TypeOK, Counters, Control, SetupFirst, Handles,
         Turns, NoAbort, Contents, Initialised, BeforeSegment, held, drained,
         ReaderLabels, WriterLabels

LEMMA Inductive == Covered /\ IInv /\ [Next]_vars => IInv'
<1> SUFFICES ASSUME Covered, IInv, [Next]_vars PROVE IInv'
  OBVIOUS
<1>1. TypeOK /\ Counters /\ SetupFirst /\ Handles /\ Turns /\ NoAbort /\ Contents
  BY DEF IInv, Control
<1>2. TypeOK' /\ Counters'
  BY <1>1, TypeStep
<1>3. SetupFirst' /\ Handles' /\ Turns' /\ NoAbort' /\ Contents'
  BY <1>1, SetupFirstStep, HandlesStep, TurnsStep, NoAbortStep, ContentsStep
<1> QED
  BY <1>2, <1>3 DEF IInv, Control

LEMMA Invariance == Covered /\ Spec => []IInv
<1>1. Covered /\ IInv /\ [Next]_vars => IInv'
  BY Inductive
<1>2. Covered /\ [][Next]_vars /\ IInv => []IInv
  <2>1. CASE Covered
    <3>1. IInv /\ [Next]_vars => IInv'
      BY <1>1, <2>1
    <3> QED
      BY <3>1, PTL
  <2>2. CASE ~Covered
    BY <2>2
  <2> QED
    BY <2>1, <2>2
<1> QED
  BY Initially, <1>2, PTL DEF Spec

(* The variables of shm.c keep their types.                                *)
THEOREM TypeCorrect == Spec => []TypeOK
<1>1. Init => TypeOK /\ Counters
  BY Initially DEF IInv
<1>2. TypeOK /\ Counters /\ [Next]_vars => (TypeOK /\ Counters)'
  BY TypeStep
<1> QED
  BY <1>1, <1>2, PTL DEF Spec

(* The memcpy calls of the two processes never overlap.                    *)
THEOREM MutuallyExclusive == Covered /\ Spec => []MutualExclusion
<1>1. IInv => MutualExclusion
  BY DEF IInv, TypeOK, Control, Turns, Initialised, held, drained, MutualExclusion
<1> QED
  BY <1>1, Invariance, PTL

(* The reader copies out every message in its turn and whole.              *)
THEOREM MessagesIntact == Covered /\ Spec => []Intact
<1>1. IInv => Intact
  BY DEF IInv, Contents, Intact
<1> QED
  BY <1>1, Invariance, PTL

(* The set is removed only when the reader is through with it.             *)
THEOREM RemovalIsLast == Covered /\ Spec => []RemovalWaits
<1>1. IInv => RemovalWaits
  BY CountAssumption
     DEF IInv, TypeOK, Counters, Control, Turns, NoAbort, Initialised, held,
         drained, RemovalWaits
<1> QED
  BY <1>1, Invariance, PTL

(* A run that ends normally cleans up after itself.                        *)
THEOREM CleansUp == Covered /\ Spec => []NothingLeft
<1>1. IInv => NothingLeft
  BY DEF IInv, Control, Handles, NothingLeft
<1> QED
  BY <1>1, Invariance, PTL

(* The processes never wait for each other in vain.                        *)
THEOREM NeverBothWait == Covered /\ Spec => []NoMutualWait
<1>1. IInv => NoMutualWait
  <2> SUFFICES ASSUME IInv, ~NoMutualWait PROVE FALSE
    OBVIOUS
  <2> USE CountAssumption
      DEF IInv, TypeOK, Counters, ReaderLabels, WriterLabels, Control, Turns,
          Initialised, held, drained
  <2>1. /\ \A p \in Proc : pc[p] = "done" \/ Blocked[p]
        /\ \A p \in Proc : alive[p] /\ pc[p] \notin {"failed", "aborted"}
        /\ \E p \in Proc : pc[p] # "done"
    BY DEF NoMutualWait
  <2>2. CASE pc[Reader] = "done"
    <3>1. pc[Writer] \in {"reserve", "drain"} /\ sem[WRITE_SEM] = 0
      BY <2>1, <2>2 DEF Blocked, Waits
    <3> QED
      BY <2>2, <3>1
  <2>3. CASE pc[Reader] # "done"
    <3>1. pc[Reader] = "reserve" /\ sem[READ_SEM] = 0
      BY <2>1, <2>3 DEF Blocked, Waits
    <3>2. i[Reader] = i[Writer] /\ i[Reader] < Count
      BY <3>1
    <3>3. pc[Writer] # "done"
      BY <3>1, <3>2
    <3>4. pc[Writer] \in {"reserve", "drain"} /\ sem[WRITE_SEM] = 0
      BY <2>1, <3>3 DEF Blocked, Waits
    <3> QED
      BY <3>1, <3>2, <3>4
  <2> QED
    BY <2>2, <2>3
<1> QED
  BY <1>1, Invariance, PTL

(* The segment is a channel of capacity one.                               *)
THEOREM ImplementsOneSlot == Covered /\ Spec => TransfersInTurn
<1>1. Init => OneSlot!Init
  BY DEF Init, Fresh, OneSlot!Init, Copied
<1>2. IInv /\ IInv' /\ [Next]_vars => [OneSlot!Next]_(OneSlot!vars)
  <2> SUFFICES ASSUME IInv, IInv', [Next]_vars
               PROVE  [OneSlot!Next]_(OneSlot!vars)
    OBVIOUS
  <2> USE CountAssumption, FaultAssumption DEF Copied, OneSlot!vars
  <2>1. CASE WriterCopy("hi", "release")
    <3>1. CASE pc[Writer]' = "release"
      <4>1. /\ Copied(Writer) = i[Writer] /\ Copied(Writer)' = i[Writer] + 1
            /\ Copied(Reader)' = Copied(Reader) /\ i[Writer] < Count
        BY <2>1, <3>1 DEF WriterCopy, IInv, TypeOK, Counters
      <4>2. Copied(Reader) = i[Writer]
        BY <2>1 DEF WriterCopy, IInv, TypeOK, Counters, Control, Turns, NoAbort,
            ReaderLabels, Initialised, held, drained
      <4> QED
        BY <4>1, <4>2 DEF OneSlot!Next, OneSlot!Send, IInv, TypeOK
    <3>2. CASE pc[Writer]' # "release"
      BY <2>1, <3>2 DEF WriterCopy, IInv, TypeOK
    <3> QED
      BY <3>1, <3>2
  <2>2. CASE ReaderCopy("hi", "release")
    <3>1. /\ Copied(Reader) = i[Reader] /\ Copied(Reader)' = i[Reader] + 1
          /\ Copied(Writer)' = Copied(Writer)
      BY <2>2 DEF ReaderCopy, IInv, TypeOK
    <3>2. Copied(Writer) = i[Reader] + 1
      BY <2>2 DEF ReaderCopy, IInv, TypeOK, Control, Turns, Initialised, held, drained
    <3> QED
      BY <3>1, <3>2 DEF OneSlot!Next, OneSlot!Receive, IInv, TypeOK
  <2>3. CASE NewRun
    BY <2>3 DEF NewRun, Fresh, OneSlot!Next, OneSlot!Restart
  <2>4. CASE ReaderRelease \/ WriterRelease
    <3>1. pc[Reader]' # "aborted" /\ (WriterRelease => SemValid(Writer))
      BY DEF IInv, Control, NoAbort, Handles, WriterRelease
    <3> QED
      BY <2>4, <3>1 DEF ReaderRelease, WriterRelease, sem_release, LoopTop, IInv, TypeOK
  <2>5. CASE ReaderSemget \/ ReaderInitWrite \/ ReaderInitRead \/ ReaderShmget
             \/ ReaderShmat \/ ReaderReserve \/ ReaderCopy("lo", "hi") \/ ReaderFault
    BY <2>5 DEF ReaderSemget, ReaderInitWrite, ReaderInitRead, sem_init,
        ReaderShmget, ReaderShmat, LoopTop, ReaderReserve, sem_reserve,
        ReaderCopy, ReaderFault, SetupCalls, IInv, TypeOK
  <2>6. CASE WriterWake \/ WriterSemget \/ WriterShmget \/ WriterReserve
             \/ WriterCopy("lo", "hi") \/ WriterDrain \/ WriterRemoveSem
             \/ WriterRemoveShm \/ WriterFault
    BY <2>6 DEF WriterWake, WriterSemget, WriterShmget, LoopTop, WriterReserve,
        WriterDrain, sem_reserve, WriterCopy, WriterRemoveSem, WriterRemoveShm,
        WriterFault, IInv, TypeOK
  <2>7. CASE (\E p \in Proc : Kill(p)) \/ UNCHANGED vars
    BY <2>7 DEF Kill, vars
  <2> QED
    BY <2>1, <2>2, <2>3, <2>4, <2>5, <2>6, <2>7
       DEF Next, ReaderNext, WriterNext, Terminating
<1> QED
  BY <1>1, <1>2, Invariance, PTL DEF Spec, TransfersInTurn, OneSlot!Spec

(* Without the sleep the same invariant holds as long as nothing is killed. *)
LEMMA UncoveredInvariance ==
  ~SleepCoversSetup /\ Count # 0 /\ "shmat" \notin Faults /\ Spec => []UncoveredInv
<1>1. Init => UncoveredInv
  <2>1. Init => Tidy
    BY DEF Init, Fresh, Tidy
  <2> QED
    BY <2>1, Initially DEF IInv, UncoveredInv, Clean
<1> DEFINE Hyp == ~SleepCoversSetup /\ Count # 0 /\ "shmat" \notin Faults
<1>2. Hyp /\ UncoveredInv /\ [Next]_vars => UncoveredInv'
  <2> SUFFICES ASSUME Hyp, UncoveredInv, [Next]_vars PROVE UncoveredInv'
    OBVIOUS
  <2>1. TypeOK /\ Counters /\ TypeOK' /\ Counters'
    BY TypeStep DEF UncoveredInv
  <2>2. kills' = 0 => kills = 0
    BY <2>1, RunsAssumption
       DEF TypeOK, Next, ReaderNext, WriterNext, Terminating, vars, ReaderSemget,
           ReaderInitWrite, ReaderInitRead, ReaderShmget, ReaderShmat, ReaderReserve,
           ReaderCopy, ReaderRelease, ReaderFault, WriterWake, WriterSemget,
           WriterShmget, WriterReserve, WriterCopy, WriterRelease, WriterDrain,
           WriterRemoveSem, WriterRemoveShm, WriterFault, Kill, NewRun
  <2>3. ASSUME kills' = 0 PROVE Control' /\ Contents' /\ Tidy'
    <3>1. Control /\ Contents /\ Tidy
      BY <2>2, <2>3 DEF UncoveredInv, Clean
    <3>2. SetupFirst' /\ Tidy'
      BY <2>1, <2>3, <3>1, TidyStep
    <3>3. Handles' /\ Turns' /\ NoAbort' /\ Contents'
      BY <2>1, <3>1, HandlesStep, TurnsStep, NoAbortStep, ContentsStep DEF Control
    <3> QED
      BY <3>2, <3>3 DEF Control
  <2> QED
    BY <2>1, <2>3 DEF UncoveredInv, Clean
<1>3. Hyp /\ [][Next]_vars /\ UncoveredInv => []UncoveredInv
  <2>1. CASE Hyp
    <3>1. UncoveredInv /\ [Next]_vars => UncoveredInv'
      BY <1>2, <2>1
    <3> HIDE DEF Hyp
    <3> QED
      BY <3>1, PTL
  <2>2. CASE ~Hyp
    BY <2>2
  <2> QED
    BY <2>1, <2>2
<1> HIDE DEF Hyp
<1>4. Hyp /\ Spec => []UncoveredInv
  BY <1>1, <1>3, PTL DEF Spec
<1> QED
  BY <1>4 DEF Hyp

(* If nothing is killed the transfer is safe without the sleep, and the    *)
(* objects are removed last if there is a message, unless a reader fails   *)
(* in shmat and leaves its segment behind.                                 *)
THEOREM SafeWhateverTheSleep ==
  (Covered \/ "shmat" \notin Faults) /\ Spec => []SafeWithoutSleep
<1>1. ASSUME TypeOK, Counters, Control, Contents
      PROVE  MutualExclusion /\ Intact /\ RemovalWaits
  <2>1. MutualExclusion /\ Intact
    BY <1>1 DEF TypeOK, Control, Contents, Turns, Initialised, held, drained,
                MutualExclusion, Intact
  <2>2. RemovalWaits
    BY <1>1, CountAssumption
       DEF TypeOK, Counters, Control, Turns, NoAbort, Initialised, held, drained, RemovalWaits
  <2> QED
    BY <2>1, <2>2
<1>2. IInv => SafeWithoutSleep
  BY <1>1 DEF IInv, SafeWithoutSleep
<1>3. UncoveredInv => SafeWithoutSleep
  BY <1>1 DEF UncoveredInv, Clean, SafeWithoutSleep
<1>4. Count = 0 /\ TypeOK /\ Counters => SafeWithoutSleep
  BY DEF TypeOK, Counters, SafeWithoutSleep, MutualExclusion, Intact
<1>5. TypeOK /\ Counters /\ [Next]_vars => (TypeOK /\ Counters)'
  BY TypeStep
<1>6. Init => TypeOK /\ Counters
  BY Initially DEF IInv
<1>7. Spec => [](TypeOK /\ Counters)
  BY <1>5, <1>6, PTL DEF Spec
<1>8. Covered /\ Spec => []SafeWithoutSleep
  BY <1>2, Invariance, PTL
<1>9. CASE Count = 0
  <2>1. TypeOK /\ Counters => SafeWithoutSleep
    BY <1>4, <1>9
  <2> QED
    BY <1>7, <2>1, PTL
<1>10. CASE Count # 0
  <2>1. ~SleepCoversSetup /\ "shmat" \notin Faults /\ Spec => []UncoveredInv
    BY <1>10, UncoveredInvariance
  <2>2. ~SleepCoversSetup /\ "shmat" \notin Faults /\ Spec => []SafeWithoutSleep
    BY <1>3, <2>1, PTL
  <2>3. SleepCoversSetup => Covered
    BY DEF Covered
  <2> QED
    BY <1>8, <2>2, <2>3
<1> QED
  BY <1>9, <1>10
=============================================================================
