---------------------------- MODULE IpcBmProofs ----------------------------
(***************************************************************************)
(* Proofs about IpcBm, for every number of faults: how many processes      *)
(* write at once, how often each report comes out, and what is left of a   *)
(* run that hangs.                                                         *)
(*                                                                         *)
(* The inductive invariants build on each other. TypeOK places the steps   *)
(* of main. WInv follows who writes when at most one fault happened, and  *)
(* the others are about runs without a fault: RInv accounts for the        *)
(* readers that were forked, the buffers they inherited and those that are *)
(* written already, and says that main's own calls find the FIFO, the      *)
(* segment and the port as they expect them; HInv says which messages and  *)
(* connections are under way, and whose they are, and QInv which queue the *)
(* two sides of PosixQ have.                                               *)
(***************************************************************************)
EXTENDS IpcBm, FiniteSetTheorems, SequenceTheorems, TLAPS

Names == Seq(Int)

Steps == {"call", "open", "unlinked", "made", "opened", "connect", "write", "unlink", "wait", "drain",
          "setup", "read"}

Processes == [at : 1..Exit, step : Steps, medium : Names, out : SUBSET Benchmarks, conn : SUBSET Names]

(* Which steps belong to which benchmark.                                  *)
Placed(r) ==
    /\ r.step # "call" => r.at \in Benchmarks
    /\ r.step \in {"open", "unlink"} => r.at = PosixQ
    /\ r.step \in {"unlinked", "made", "opened"} => r.at = NamedPipeFifo
    /\ r.step = "connect" => r.at = TCPSocket
    /\ r.step = "drain" => r.at = ShrMem
    /\ r.step = "wait" => r.at \in Reaped
    /\ r.step = "setup" => r.at \in SetUp \cup {PosixQ}

ProcOK == P \subseteq Names /\ proc \in [P -> Processes] /\ \A p \in P : Placed(proc[p])

TypeOK ==
    /\ ProcOK
    /\ piped \in BOOLEAN /\ fits \subseteq Buffered
    /\ mq \in Names /\ fifo \in Names /\ listener \in Names /\ backlog \in Seq(Names)
    /\ copies \in [Benchmarks -> Nat]
    /\ returned \subseteq Benchmarks
    /\ faults \in Nat

(* The reader that the first process forks in a benchmark.                 *)
Child(b) == <<b>>

(* The steps of a writer after its fork, and when a reaped reader has all  *)
(* messages to come.                                                       *)
ForkStep(b) == CASE b = PosixQ -> "open" [] b = TCPSocket -> "connect" [] OTHER -> "write"

AfterWrite(b) == IF b = PosixQ THEN "unlink" ELSE "wait"
-----------------------------------------------------------------------------
(* Names of processes.                                                     *)
LEMMA NamesDiffer ==
    /\ First \in Names /\ None \in Names /\ First # None
    /\ \A b \in Int : Child(b) \in Names /\ Child(b) # First /\ (b # 0 => Child(b) # None)
    /\ \A b, c \in Int : Child(b) = Child(c) => b = c
<1>1. First \in Names /\ None \in Names /\ First # None
  BY EmptySeq DEF First, None, Names
<1>2. ASSUME NEW b \in Int PROVE Child(b) \in Names /\ Child(b) # First /\ Child(b)[1] = b
  BY DEF Child, Names, First
<1>3. None[1] = 0
  BY DEF None
<1> QED  BY <1>1, <1>2, <1>3

LEMMA ReaderName ==
    ASSUME NEW p \in Names, NEW b \in Int
    PROVE  /\ Append(p, b) \in Names
           /\ Append(p, b) # p /\ Append(p, b) # First
           /\ Front(Append(p, b)) = p
           /\ p = First => Append(p, b) = Child(b)
           /\ \A c \in Int : Append(p, b) = Child(c) => p = First /\ b = c
<1> DEFINE q == Append(p, b)
<1>1. /\ q \in Names /\ Len(q) = Len(p) + 1 /\ Len(p) \in Nat
      /\ q[Len(q)] = b
  BY AppendProperties, LenProperties DEF Names
<1>2. q # p
  BY <1>1
<1>3. q # First
  BY <1>1, EmptySeq DEF First
<1>4. Front(q) = p
  <2>1. Front(q) = SubSeq(q, 1, Len(p))
    BY <1>1 DEF Front
  <2>2. SubSeq(q, 1, Len(p)) = SubSeq(p, 1, Len(p))
    <3>1. \A i \in 1..Len(p) : q[i] = p[i]
      BY AppendProperties DEF Names
    <3>2. \A i \in 1..Len(p) : q[i] \in Int /\ p[i] \in Int
      BY <3>1, ElementOfSeq DEF Names
    <3>3. SubSeq(q, 1, Len(p)) \in Seq(Int) /\ Len(SubSeq(q, 1, Len(p))) = Len(p)
          /\ \A i \in 1..Len(p) : SubSeq(q, 1, Len(p))[i] = q[i]
      BY <3>2, <1>1, SubSeqProperties
    <3> QED  BY <3>1, <3>3, SeqEqual, SubSeqFull DEF Names
  <2> QED  BY <2>1, <2>2, SubSeqFull DEF Names
<1>5. p = First => q = Child(b)
  BY DEF First, Child
<1>6. ASSUME NEW c \in Int, q = Child(c) PROVE p = First /\ b = c
  <2>1. Len(Child(c)) = 1 /\ Child(c)[1] = c
    BY DEF Child
  <2>2. Len(p) + 1 = 1 /\ Len(p) \in Nat
    BY <1>1, <2>1, <1>6
  <2>3. Len(p) = 0
    BY <2>2
  <2>4. q[1] = b /\ q[1] = c
    BY <1>1, <2>1, <2>3, <1>6
  <2> QED  BY <2>3, <2>4, EmptySeq DEF First, Names
<1> QED  BY <1>1, <1>2, <1>3, <1>4, <1>5, <1>6
-----------------------------------------------------------------------------
(* The type invariant.                                                     *)
LEMMA OneChanges ==
    ASSUME ProcOK, NEW p \in P, NEW r \in Processes, Placed(r), proc' = [proc EXCEPT ![p] = r]
    PROVE  ProcOK' /\ P' = P
  BY DEF ProcOK, P

LEMMA OneSteps ==
    ASSUME ProcOK, NEW p \in P, NEW s \in Steps, Step(p, s),
           Placed([proc[p] EXCEPT !.step = s])
    PROVE  ProcOK'
<1>1. [proc[p] EXCEPT !.step = s] \in Processes
  BY DEF ProcOK, Processes
<1>2. proc' = [proc EXCEPT ![p] = [proc[p] EXCEPT !.step = s]]
  BY DEF Step, ProcOK
<1> QED  BY <1>1, <1>2, OneChanges

LEMMA GoesOn ==
    ASSUME ProcOK, NEW p \in P, proc[p].at \in Benchmarks
    PROVE  Onward(p) \in Processes /\ Placed(Onward(p))
<1>1. proc[p] \in Processes
  BY DEF ProcOK
<1>2. proc[p].at + 1 \in 1..Exit
  BY DEF Benchmarks, Exit
<1>3. Onward(p) \in Processes
  BY <1>1, <1>2, NamesDiffer DEF Onward, Processes, Steps
<1>4. Onward(p).step = "call"
  BY <1>1 DEF Onward, Processes
<1> QED  BY <1>3, <1>4 DEF Placed

LEMMA OneReturns ==
    ASSUME ProcOK, NEW p \in P, proc[p].at \in Benchmarks, Return(p)
    PROVE  ProcOK'
  BY GoesOn, OneChanges DEF Return

LEMMA OneReports ==
    ASSUME ProcOK, copies \in [Benchmarks -> Nat], NEW p \in P, NEW r \in Processes, Placed(r),
           proc[p].at \in Benchmarks, printf(p, r)
    PROVE  ProcOK' /\ copies' \in [Benchmarks -> Nat]
<1>1. Reported(r, proc[p].at) \in Processes
  BY DEF Reported, Processes
<1>2. Placed(Reported(r, proc[p].at))
  BY DEF Reported, Placed, Processes
<1>3. ProcOK'
  BY <1>1, <1>2, OneChanges DEF printf
<1>4. copies' \in [Benchmarks -> Nat]
  BY DEF printf
<1> QED  BY <1>3, <1>4

LEMMA SomeLeave ==
    ASSUME TypeOK, NEW ps, Gone(ps)
    PROVE  ProcOK' /\ fifo' \in Names /\ listener' \in Names /\ backlog' \in Seq(Names)
<1>1. P' = P \ ps /\ \A q \in P' : proc'[q] = proc[q]
  BY DEF Gone, Restrict, P
<1>2. ProcOK'
  BY <1>1 DEF TypeOK, ProcOK, Gone, Restrict, P
<1>3. fifo' \in Names /\ listener' \in Names /\ backlog' \in Seq(Names)
  BY NamesDiffer, EmptySeq DEF TypeOK, Gone
<1> QED  BY <1>2, <1>3

LEMMA OneExits ==
    ASSUME TypeOK, NEW p \in P, exit(p)
    PROVE  /\ ProcOK' /\ fifo' \in Names /\ listener' \in Names /\ backlog' \in Seq(Names)
           /\ copies' \in [Benchmarks -> Nat]
<1>1. copies' \in [Benchmarks -> Nat]
  BY DEF TypeOK, exit
<1> QED  BY <1>1, SomeLeave DEF exit

LEMMA FrontIsName == ASSUME NEW p \in Names PROVE Front(p) \in Names
<1>1. Len(p) \in Nat /\ \A i \in 1..(Len(p) - 1) : p[i] \in Int
  BY LenProperties, ElementOfSeq DEF Names
<1> QED  BY <1>1, SubSeqProperties DEF Front, Names

LEMMA TypeInvariance == TypeOK /\ [Next]_vars => TypeOK'
<1> SUFFICES ASSUME TypeOK, [Next]_vars PROVE TypeOK'
  OBVIOUS
<1> USE DEF env, net
<1>0. CASE UNCHANGED vars
  BY <1>0 DEF TypeOK, ProcOK, vars, P
<1>24. ASSUME NEW p \in P, NEW s \in {"write", "read"}, proc[p].at = PosixQ, mq_open(p, s)
       PROVE  ProcOK' /\ mq' \in Names
  <2> DEFINE queue == IF mq = None THEN p ELSE mq
             r == [proc[p] EXCEPT !.step = s, !.medium = queue]
  <2>1. proc[p] \in Processes /\ p \in Names /\ queue \in Names
    BY DEF TypeOK, ProcOK
  <2>2. r \in Processes /\ r.step = s /\ r.at = PosixQ
    BY <1>24, <2>1 DEF Processes, Steps
  <2>3. Placed(r)
    BY <2>2, <1>24 DEF Placed, PosixQ, Benchmarks
  <2>4. proc' = [proc EXCEPT ![p] = r] /\ mq' = queue
    BY <1>24, <2>1 DEF mq_open, TypeOK, ProcOK, Processes
  <2> QED  BY <2>1, <2>2, <2>3, <2>4, OneChanges DEF TypeOK
<1>22. ASSUME NEW p \in P, QueueOpen(p) PROVE TypeOK'
  <2>1. ProcOK' /\ mq' \in Names
    BY <1>22, <1>24 DEF QueueOpen, At
  <2> QED  BY <1>22, <2>1 DEF QueueOpen, TypeOK
<1>23. ASSUME NEW p \in P, QueueUnlink(p) PROVE TypeOK'
  <2>1. ProcOK'
    BY <1>23, OneSteps DEF QueueUnlink, At, Placed, Steps, Reaped, PosixQ, Benchmarks, TypeOK, ProcOK, Processes
  <2> QED  BY <1>23, <2>1, NamesDiffer DEF QueueUnlink, TypeOK
<1>1. ASSUME NEW p \in P, FifoUnlink(p) PROVE TypeOK'
  <2>1. ProcOK'
    BY <1>1, OneSteps DEF FifoUnlink, At, Placed, Steps, NamedPipeFifo, Benchmarks, TypeOK, ProcOK, Processes
  <2> QED  BY <1>1, <2>1, NamesDiffer DEF FifoUnlink, TypeOK
<1>2. ASSUME NEW p \in P, FifoMake(p) PROVE TypeOK'
  <2>1. ProcOK'
    BY <1>2, OneSteps, OneReturns DEF FifoMake, At, Placed, Steps, NamedPipeFifo, Benchmarks, TypeOK, ProcOK, Processes
  <2> QED  BY <1>2, <2>1 DEF FifoMake, TypeOK, ProcOK
<1>3. ASSUME NEW p \in P, FifoOpen(p) PROVE TypeOK'
  <2>1. ProcOK'
    <3> DEFINE r == [proc[p] EXCEPT !.step = "opened", !.medium = fifo]
    <3>1. proc[p] \in Processes /\ proc[p].at = NamedPipeFifo
      BY <1>3 DEF TypeOK, ProcOK, FifoOpen, At
    <3>2. r \in Processes
      BY <3>1 DEF TypeOK, Processes, Steps
    <3>3. Placed(r)
      BY <3>1 DEF Placed, NamedPipeFifo, Benchmarks, Processes
    <3>4. CASE proc' = [proc EXCEPT ![p].step = "opened", ![p].medium = fifo]
      <4>1. proc' = [proc EXCEPT ![p] = r]
        BY <3>1, <3>4 DEF TypeOK, ProcOK, Processes
      <4> QED  BY <3>2, <3>3, <4>1, OneChanges DEF TypeOK
    <3>5. CASE Return(p)
      BY <3>1, <3>5, OneReturns DEF TypeOK, NamedPipeFifo, Benchmarks
    <3> QED  BY <1>3, <3>4, <3>5 DEF FifoOpen
  <2> QED  BY <1>3, <2>1 DEF FifoOpen, TypeOK
<1>4. ASSUME NEW p \in P, Fork(p) PROVE TypeOK'
  <2> DEFINE w == [proc[p] EXCEPT !.step = ForkStep(proc[p].at)]
  <2>1. proc[p] \in Processes /\ proc[p].at \in Benchmarks /\ p \in Names
    BY <1>4 DEF TypeOK, ProcOK, Fork
  <2>2. Reader(p) \in Names /\ Reader(p) # p
    <3>1. proc[p].at \in Int
      BY <2>1 DEF Benchmarks
    <3> QED  BY <2>1, <3>1, ReaderName DEF Reader
  <2>3. w \in Processes /\ Placed(w)
    BY <2>1 DEF Processes, Placed, Steps, ForkStep
  <2>4. Forked(p) \in Processes /\ Placed(Forked(p))
    BY <2>1, NamesDiffer DEF Forked, Processes, Placed, Steps
  <2>5. /\ P' = P \cup {Reader(p)} /\ proc' \in [P' -> Processes]
        /\ proc'[p] = w /\ proc'[Reader(p)] = Forked(p)
        /\ \A q \in P \ {p, Reader(p)} : proc'[q] = proc[q]
    BY <1>4, <2>2, <2>3, <2>4 DEF Fork, ForkStep, TypeOK, ProcOK, P
  <2>6. ProcOK'
    BY <2>2, <2>3, <2>4, <2>5 DEF TypeOK, ProcOK
  <2> QED  BY <1>4, <2>6 DEF Fork, TypeOK
<1>5. ASSUME NEW p \in P, TcpConnect(p) PROVE TypeOK'
  <2> DEFINE r == [proc[p] EXCEPT !.step = "write", !.conn = @ \cup {p}]
  <2>1. proc[p] \in Processes /\ proc[p].at = TCPSocket /\ p \in Names
    BY <1>5 DEF TypeOK, ProcOK, TcpConnect, At
  <2>2. r \in Processes /\ Placed(r)
    <3>1. r \in Processes /\ r.step = "write" /\ r.at = TCPSocket
      BY <2>1 DEF Processes, Steps
    <3> QED  BY <3>1 DEF Placed, TCPSocket, Benchmarks
  <2>3. ASSUME proc' = [proc EXCEPT ![p].step = "write", ![p].conn = @ \cup {p}] PROVE ProcOK'
    <3>1. proc' = [proc EXCEPT ![p] = r]
      BY <2>1, <2>3 DEF TypeOK, ProcOK, Processes
    <3> QED  BY <2>2, <3>1, OneChanges DEF TypeOK
  <2>4. ASSUME Return(p) PROVE ProcOK'
    BY <2>1, <2>4, OneReturns DEF TypeOK, TCPSocket, Benchmarks
  <2>5. ProcOK'
    BY <1>5, <2>3, <2>4 DEF TcpConnect
  <2>6. backlog' \in Seq(Names)
    <3>1. Append(backlog, p) \in Seq(Names)
      BY <2>1, AppendProperties DEF TypeOK
    <3> QED  BY <1>5, <3>1 DEF TcpConnect, TypeOK
  <2> QED  BY <1>5, <2>5, <2>6 DEF TcpConnect, TypeOK
<1>6. ASSUME NEW p \in P, Write(p) PROVE TypeOK'
  <2>1. proc[p] \in Processes /\ proc[p].step = "write" /\ proc[p].at \in Benchmarks
    BY <1>6 DEF TypeOK, ProcOK, Write, CanWrite, Placed
  <2>2. CASE proc[p].at \in Reaped /\ Step(p, AfterWrite(proc[p].at)) /\ UNCHANGED copies
    <3>1. Placed([proc[p] EXCEPT !.step = AfterWrite(proc[p].at)])
      BY <2>1, <2>2 DEF Placed, Processes, AfterWrite
    <3>2. AfterWrite(proc[p].at) \in Steps
      BY DEF AfterWrite, Steps
    <3> QED  BY <2>2, <3>1, <3>2, <1>6, OneSteps DEF TypeOK, Write
  <2>3. CASE proc[p].at = ShrMem /\ printf(p, [proc[p] EXCEPT !.step = "drain"])
    <3>1. Placed([proc[p] EXCEPT !.step = "drain"]) /\ [proc[p] EXCEPT !.step = "drain"] \in Processes
      BY <2>1, <2>3 DEF Placed, Processes, Steps
    <3> QED  BY <2>1, <2>3, <3>1, <1>6, OneReports DEF TypeOK, Write
  <2>4. CASE printf(p, Onward(p))
    BY <2>1, <2>4, <1>6, GoesOn, OneReports DEF TypeOK, Write
  <2> QED  BY <1>6, <2>2, <2>3, <2>4 DEF Write, AfterWrite
<1>7. ASSUME NEW p \in P, Wait(p) PROVE TypeOK'
  <2>1. proc[p] \in Processes /\ proc[p].at \in Benchmarks
    BY <1>7 DEF TypeOK, ProcOK, Wait, Placed
  <2> QED  BY <2>1, <1>7, GoesOn, OneReports DEF TypeOK, Wait
<1>8. ASSUME NEW p \in P, Drain(p) PROVE TypeOK'
  <2>1. proc[p].at \in Benchmarks
    BY <1>8 DEF TypeOK, ProcOK, Drain, Placed
  <2> QED  BY <2>1, <1>8, OneReturns DEF TypeOK, Drain
<1>9. ASSUME NEW p \in P, MainExit(p) PROVE TypeOK'
  BY <1>9, OneExits DEF TypeOK, MainExit
<1>10. ASSUME NEW r \in P, ReaderSetup(r) PROVE TypeOK'
  <2>1. /\ proc[r] \in Processes /\ proc[r].step = "setup" /\ r \in Names
    BY <1>10 DEF TypeOK, ProcOK, ReaderSetup
  <2>7. proc[r].at \in SetUp => proc[r].at \in Benchmarks /\ mq' = mq
    BY <1>10 DEF ReaderSetup, SetUp, Benchmarks, PosixQ, ShrMem, TCPSocket, UDPSocket
  <2>8. ASSUME NEW s \in Processes, proc[r].at \in SetUp, s.step = "read", s.at = proc[r].at PROVE Placed(s)
    BY <2>7, <2>8 DEF Placed
  <2>6. CASE /\ proc[r].at = PosixQ
             /\ mq_open(r, "read")
             /\ UNCHANGED <<net, copies>>
    <3>1. ProcOK' /\ mq' \in Names
      BY <1>24, <2>6
    <3> QED  BY <1>10, <2>6, <3>1 DEF ReaderSetup, TypeOK
  <2>2. CASE /\ proc[r].at = ShrMem
             /\ proc' = [q \in P |->
                        IF q = r THEN [proc[r] EXCEPT !.step = "read", !.medium = Front(r)]
                          ELSE IF q = Front(r) THEN [proc[q] EXCEPT !.medium = q] ELSE proc[q]]
             /\ UNCHANGED <<net, copies>>
    <3>1. [proc[r] EXCEPT !.step = "read", !.medium = Front(r)] \in Processes
      BY <2>1, FrontIsName DEF Processes, Steps
    <3>2. Placed([proc[r] EXCEPT !.step = "read", !.medium = Front(r)])
      <4> DEFINE s == [proc[r] EXCEPT !.step = "read", !.medium = Front(r)]
      <4>1. s \in Processes /\ s.step = "read" /\ s.at = proc[r].at
        BY <2>1, <3>1 DEF Processes
      <4> QED  BY <2>2, <2>8, <4>1 DEF SetUp
    <3>3. ASSUME NEW q \in P
          PROVE  [proc[q] EXCEPT !.medium = q] \in Processes /\ Placed([proc[q] EXCEPT !.medium = q])
      BY DEF TypeOK, ProcOK, Processes, Placed
    <3>4. P' = P /\ \A q \in P : proc'[q] \in Processes /\ Placed(proc'[q])
      BY <2>2, <3>1, <3>2, <3>3 DEF TypeOK, ProcOK, P
    <3>5. ProcOK'
      BY <2>2, <3>4 DEF TypeOK, ProcOK
    <3> QED  BY <1>10, <2>2, <2>7, <3>5 DEF ReaderSetup, TypeOK, SetUp
  <2>3. CASE /\ proc[r].at = UDPSocket
             /\ proc' = [proc EXCEPT ![r].step = "read", ![r].medium = r]
             /\ UNCHANGED <<net, copies>>
    <3> DEFINE s == [proc[r] EXCEPT !.step = "read", !.medium = r]
    <3>1. s \in Processes /\ Placed(s)
      <4>1. s \in Processes /\ s.step = "read" /\ s.at = proc[r].at
        BY <2>1 DEF Processes, Steps
      <4> QED  BY <2>3, <2>8, <4>1 DEF SetUp
    <3>2. proc' = [proc EXCEPT ![r] = s]
      BY <2>1, <2>3 DEF TypeOK, ProcOK, Processes
    <3>3. ProcOK'
      BY <3>1, <3>2, OneChanges DEF TypeOK
    <3> QED  BY <1>10, <2>3, <2>7, <3>3 DEF ReaderSetup, TypeOK, SetUp
  <2>4. CASE /\ proc[r].at = TCPSocket /\ listener' = r /\ Step(r, "read")
             /\ UNCHANGED <<fifo, backlog, copies>>
    <3>1. Placed([proc[r] EXCEPT !.step = "read"])
      <4> DEFINE s == [proc[r] EXCEPT !.step = "read"]
      <4>1. s \in Processes /\ s.step = "read" /\ s.at = proc[r].at
        BY <2>1 DEF Processes, Steps
      <4> QED  BY <2>4, <2>8, <4>1 DEF SetUp
    <3>2. ProcOK'
      BY <2>4, <3>1, OneSteps DEF TypeOK, Steps
    <3> QED  BY <1>10, <2>1, <2>4, <2>7, <3>2 DEF ReaderSetup, TypeOK, SetUp
  <2>5. CASE proc[r].at = TCPSocket /\ exit(r)
    BY <1>10, <2>5, <2>7, OneExits DEF ReaderSetup, TypeOK, SetUp
  <2> QED  BY <1>10, <2>2, <2>3, <2>4, <2>5, <2>6 DEF ReaderSetup
<1>11. ASSUME NEW r \in P, TcpAccept(r) PROVE TypeOK'
  <2> DEFINE s == [proc[r] EXCEPT !.medium = Head(backlog)]
  <2>1. proc[r] \in Processes /\ Placed(proc[r])
    BY DEF TypeOK, ProcOK
  <2>2. Head(backlog) \in Names /\ Tail(backlog) \in Seq(Names)
    BY <1>11, HeadTailProperties DEF TcpAccept, TypeOK
  <2>3. s \in Processes /\ Placed(s)
    BY <2>1, <2>2 DEF Processes, Placed
  <2>4. proc' = [proc EXCEPT ![r] = s]
    BY <1>11, <2>1 DEF TcpAccept, TypeOK, ProcOK, Processes
  <2> QED  BY <1>11, <2>2, <2>3, <2>4, OneChanges DEF TcpAccept, TypeOK
<1>12. ASSUME NEW r \in P, Finish(r) PROVE TypeOK'
  BY <1>12, OneExits, NamesDiffer DEF TypeOK, Finish
<1>13. ASSUME NEW p \in P, WriterStranded(p) PROVE TypeOK'
  <2>1. CASE Return(p) /\ UNCHANGED net /\ proc[p].at \in {ShrMem, TCPSocket}
    BY <1>13, <2>1, OneReturns DEF TypeOK, WriterStranded, ShrMem, TCPSocket, Benchmarks
  <2>2. CASE Gone({p})
    BY <1>13, <2>2, SomeLeave DEF TypeOK, WriterStranded
  <2> QED  BY <1>13, <2>1, <2>2 DEF WriterStranded, At
<1>14. ASSUME NEW r \in P, ReaderFails(r) PROVE TypeOK'
  BY <1>14, OneExits DEF TypeOK, ReaderFails, Fault
<1>15. ASSUME NEW r \in P, ReaderReturns(r) PROVE TypeOK'
  <2>1. proc[r].at \in Benchmarks
    BY <1>15 DEF ReaderReturns, At, ShrMem, AnonPipe, Benchmarks
  <2> QED  BY <1>15, <2>1, OneReturns DEF TypeOK, ReaderReturns, Fault
<1>16. ASSUME NEW r \in P, FifoReadFails(r) PROVE TypeOK'
  BY <1>16, SomeLeave DEF TypeOK, FifoReadFails, Fault
<1>17. ASSUME NEW p \in P, WriterFails(p) PROVE TypeOK'
  <2>1. CASE exit(p)
    BY <1>17, <2>1, OneExits DEF TypeOK, WriterFails, Fault
  <2>2. CASE Return(p) /\ UNCHANGED <<net, copies>>
             /\ proc[p].at \in {PosixQ, NamedPipeFifo, AnonPipe, SockPair, ShrMem, TCPSocket}
    <3>1. proc[p].at \in Benchmarks
      BY <2>2 DEF PosixQ, NamedPipeFifo, AnonPipe, SockPair, ShrMem, TCPSocket, Benchmarks
    <3> QED  BY <1>17, <2>2, <3>1, OneReturns DEF TypeOK, WriterFails, Fault
  <2> QED  BY <1>17, <2>1, <2>2 DEF WriterFails
<1>18. ASSUME NEW p \in P, Kill(p) PROVE TypeOK'
  BY <1>18, SomeLeave DEF TypeOK, Kill, Fault
<1>19. CASE Terminating
  BY <1>0, <1>19 DEF Terminating
<1> QED
  BY <1>0, <1>1, <1>2, <1>3, <1>4, <1>5, <1>6, <1>7, <1>8, <1>9, <1>10, <1>11, <1>12, <1>13,
     <1>14, <1>15, <1>16, <1>17, <1>18, <1>19, <1>22, <1>23 DEF Next
-----------------------------------------------------------------------------
(* Who writes.  The first process forked the reader of AnonPipe ...        *)
Second == Child(AnonPipe)

(* ... and then it is in that benchmark until this reader has ended.       *)
FirstWaits == First \in P => proc[First].at = AnonPipe /\ proc[First].step \in {"write", "wait"}

OwnReaders == faults = 0 => \A p \in P : IF Reads(p) THEN p = Child(proc[p].at) ELSE p = First

SecondHolds == faults = 0 /\ Second \in P => FirstWaits

TwoWriters ==
    /\ \A p \in P : ~Reads(p) => p \in {First, Second}
    /\ Second \in P /\ ~Reads(Second) => proc[Second].at > AnonPipe /\ FirstWaits

Writers == faults <= 1 /\ ShrMem \notin returned => TwoWriters

WInv == OwnReaders /\ SecondHolds /\ Writers

(* Five kinds of steps, by what they do to who is where.                   *)
Kept(q) == proc'[q].at = proc[q].at /\ proc'[q].step = proc[q].step

WriterMoves(p) ==
    /\ ~Reads(p) /\ P' = P /\ \A q \in P \ {p} : Kept(q)
    /\ proc'[p].step \notin {"setup", "read"}
    /\ proc'[p].at >= proc[p].at
    /\ proc[p].at = AnonPipe /\ proc[p].step \in {"write", "wait"} =>
          \/ proc'[p].at = AnonPipe /\ proc'[p].step \in {"write", "wait"}
          \/ Reader(p) \notin P
          \/ faults' = faults + 1
    /\ faults' \in {faults, faults + 1} /\ returned' = returned

ReaderMoves(r) ==
    /\ Reads(r) /\ P' = P /\ \A q \in P \ {r} : Kept(q)
    /\ proc'[r].at = proc[r].at /\ proc'[r].step \in {"setup", "read"}
    /\ faults' = faults /\ returned' = returned

ReaderBecomesWriter(r) ==
    /\ Reads(r) /\ P' = P /\ \A q \in P \ {r} : Kept(q)
    /\ proc'[r].at = proc[r].at + 1 /\ proc'[r].step = "call"
    /\ proc[r].at \in {ShrMem, AnonPipe}
    /\ faults' = faults + 1 /\ returned' = returned \cup {proc[r].at}

Leave(ps) ==
    /\ P' = P \ ps /\ \A q \in P' : Kept(q)
    /\ faults' >= faults /\ returned' = returned

ReaderForked(p) ==
    /\ ~Reads(p) /\ proc[p].step \notin {"write", "wait"}
    /\ P' = P \cup {Reader(p)} /\ \A q \in P \ {p, Reader(p)} : Kept(q)
    /\ proc'[p].at = proc[p].at /\ proc'[p].step \in {"open", "connect", "write"}
    /\ proc[p].at = AnonPipe => proc'[p].step = "write"
    /\ proc'[Reader(p)].at = proc[p].at /\ proc'[Reader(p)].step \in {"setup", "read"}
    /\ faults' = faults /\ returned' = returned

LEMMA SecondName == Second \in Names /\ Second # First /\ Second = Child(AnonPipe)
  BY NamesDiffer DEF Second, AnonPipe

LEMMA WritersWhenWriterMoves ==
    ASSUME TypeOK, TypeOK', WInv, NEW p \in P, WriterMoves(p)
    PROVE  WInv'
<1>1. /\ \A q \in P : Reads(q)' <=> Reads(q)
      /\ \A q \in P : proc'[q].at >= proc[q].at /\ (Reads(q) => proc'[q].at = proc[q].at)
  <2>1. \A q \in P : proc[q].at \in Int
    BY DEF TypeOK, ProcOK, Processes
  <2> QED  BY <2>1 DEF WriterMoves, Kept, Reads
<1>2. faults \in Nat /\ (faults' = 0 => faults = 0) /\ faults' >= faults
  BY DEF TypeOK, WriterMoves
<1>3. OwnReaders'
  BY <1>1, <1>2 DEF WInv, OwnReaders, WriterMoves
<1>4. p = First /\ proc[p].at = AnonPipe => Reader(p) = Second
  <2>1. AnonPipe \in Int
    BY DEF AnonPipe
  <2> QED  BY <2>1, ReaderName, NamesDiffer DEF Reader, Second
<1>5. Second \in P /\ FirstWaits /\ p # Second /\ faults' = faults => FirstWaits'
  BY <1>2, <1>4, SecondName DEF FirstWaits, WriterMoves, Kept
<1>6. p = Second /\ FirstWaits => FirstWaits'
  BY SecondName DEF FirstWaits, WriterMoves, Kept
<1>7. SecondHolds'
  BY <1>2, <1>5, <1>6 DEF WInv, SecondHolds, WriterMoves
<1>8. ASSUME faults' <= 1, ShrMem \notin returned' PROVE TwoWriters'
  <2>1. TwoWriters /\ faults <= 1
    BY <1>2, <1>8 DEF WInv, Writers, WriterMoves
  <2>2. \A q \in P' : ~Reads(q)' => q \in {First, Second}
    BY <2>1, <1>1 DEF TwoWriters, WriterMoves
  <2>3. ASSUME Second \in P', ~Reads(Second)' PROVE proc'[Second].at > AnonPipe /\ FirstWaits'
    <3>1. Second \in P /\ ~Reads(Second) /\ proc[Second].at > AnonPipe /\ FirstWaits
      BY <2>1, <2>3, <1>1 DEF TwoWriters, WriterMoves
    <3>2. faults # 0
      BY <3>1, SecondName DEF WInv, OwnReaders
    <3>3. faults' = faults
      BY <1>2, <1>8, <3>2 DEF WriterMoves
    <3>4. proc'[Second].at >= proc[Second].at /\ proc'[Second].at \in Int /\ proc[Second].at \in Int
      BY <1>1, <2>3, <3>1 DEF WriterMoves, TypeOK, ProcOK, Processes
    <3> QED  BY <3>1, <3>3, <3>4, <1>5, <1>6 DEF AnonPipe
  <2> QED  BY <2>2, <2>3 DEF TwoWriters
<1> QED  BY <1>3, <1>7, <1>8 DEF WInv, Writers

LEMMA WritersWhenReaderMoves ==
    ASSUME TypeOK, WInv, NEW r \in P, ReaderMoves(r)
    PROVE  WInv'
<1>1. \A q \in P : (Reads(q)' <=> Reads(q)) /\ proc'[q].at = proc[q].at
                    /\ (~Reads(q) => proc'[q].step = proc[q].step)
  BY DEF ReaderMoves, Kept, Reads
<1>2. OwnReaders'
  BY <1>1 DEF WInv, OwnReaders, ReaderMoves
<1>3. FirstWaits => FirstWaits'
  BY <1>1 DEF FirstWaits, ReaderMoves, Reads
<1>4. SecondHolds'
  BY <1>3 DEF WInv, SecondHolds, ReaderMoves
<1>5. Writers'
  BY <1>1, <1>3 DEF WInv, Writers, TwoWriters, ReaderMoves
<1> QED  BY <1>2, <1>4, <1>5 DEF WInv

LEMMA WritersWhenReaderReturns ==
    ASSUME TypeOK, WInv, NEW r \in P, ReaderBecomesWriter(r)
    PROVE  WInv'
<1>1. faults' # 0 /\ (faults' <= 1 => faults = 0)
  BY DEF ReaderBecomesWriter, TypeOK
<1>2. ASSUME faults' <= 1, ShrMem \notin returned' PROVE TwoWriters'
  <2>1. faults = 0 /\ proc[r].at = AnonPipe /\ r = Second
    BY <1>1, <1>2 DEF ReaderBecomesWriter, WInv, OwnReaders, Second
  <2>2. \A q \in P' : ~Reads(q)' => q \in {First, Second}
    BY <2>1 DEF ReaderBecomesWriter, WInv, OwnReaders, Kept, Reads
  <2>3. proc'[Second].at > AnonPipe
    BY <2>1 DEF ReaderBecomesWriter, AnonPipe
  <2>4. FirstWaits'
    BY <2>1, SecondName DEF WInv, SecondHolds, FirstWaits, ReaderBecomesWriter, Kept
  <2> QED  BY <2>2, <2>3, <2>4 DEF TwoWriters
<1> QED  BY <1>1, <1>2 DEF WInv, OwnReaders, SecondHolds, Writers

LEMMA WritersWhenSomeLeave ==
    ASSUME TypeOK, TypeOK', WInv, NEW ps, Leave(ps)
    PROVE  WInv'
<1>1. \A q \in P' : q \in P /\ (Reads(q)' <=> Reads(q)) /\ proc'[q].at = proc[q].at
                                                  /\ proc'[q].step = proc[q].step
  BY DEF Leave, Kept, Reads
<1>2. (faults' = 0 => faults = 0) /\ (faults' <= 1 => faults <= 1)
  BY DEF Leave, TypeOK
<1>3. FirstWaits => FirstWaits'
  BY <1>1 DEF FirstWaits
<1>4. OwnReaders'
  BY <1>1, <1>2 DEF WInv, OwnReaders
<1>5. SecondHolds'
  BY <1>1, <1>2, <1>3 DEF WInv, SecondHolds
<1>6. Writers'
  BY <1>1, <1>2, <1>3 DEF WInv, Writers, TwoWriters, Leave
<1> QED  BY <1>4, <1>5, <1>6 DEF WInv

LEMMA WritersWhenForked ==
    ASSUME TypeOK, WInv, NEW p \in P, ReaderForked(p)
    PROVE  WInv'
<1>1. proc[p].at \in Int /\ p \in Names /\ Reader(p) = Append(p, proc[p].at)
  BY DEF TypeOK, ProcOK, Processes, Reader
<1>2. /\ Reader(p) # p /\ Reader(p) # First
      /\ p = First => Reader(p) = Child(proc[p].at)
      /\ Reader(p) = Second => p = First /\ proc[p].at = AnonPipe
  <2>1. AnonPipe \in Int
    BY DEF AnonPipe
  <2>2. Append(p, proc[p].at) # p /\ Append(p, proc[p].at) # First
    BY <1>1, ReaderName
  <2>3. p = First => Append(p, proc[p].at) = Child(proc[p].at)
    BY <1>1, ReaderName
  <2>4. Append(p, proc[p].at) = Child(AnonPipe) => p = First /\ proc[p].at = AnonPipe
    BY <1>1, <2>1, ReaderName
  <2> QED  BY <1>1, <2>2, <2>3, <2>4 DEF Second
<1>3. /\ \A q \in P' : q \in P \/ q = Reader(p)
      /\ \A q \in P' \ {Reader(p)} : (Reads(q)' <=> Reads(q)) /\ proc'[q].at = proc[q].at
      /\ Reader(p) \in P' /\ proc'[Reader(p)].step \in {"setup", "read"}
      /\ proc'[Reader(p)].at = proc[p].at
  <2>1. P' = P \cup {Reader(p)}
    BY DEF ReaderForked
  <2>2. \A q \in P : q # p /\ q # Reader(p) => Kept(q)
    BY DEF ReaderForked
  <2>3. ~Reads(p) /\ (Reads(p)' <=> proc'[p].step \in {"setup", "read"}) /\ proc'[p].step \notin {"setup", "read"}
    BY DEF ReaderForked, Reads
  <2>4. proc'[p].at = proc[p].at
    BY DEF ReaderForked
  <2>5. \A q \in P : q # p /\ q # Reader(p) => (Reads(q)' <=> Reads(q)) /\ proc'[q].at = proc[q].at
    BY <2>2 DEF Kept, Reads
  <2>6. \A q \in P' \ {Reader(p)} : (Reads(q)' <=> Reads(q)) /\ proc'[q].at = proc[q].at
    BY <2>1, <2>3, <2>4, <2>5
  <2> QED  BY <2>1, <2>6 DEF ReaderForked
<1>4. OwnReaders'
  <2> SUFFICES ASSUME faults = 0, NEW q \in P'
               PROVE  (IF Reads(q) THEN q = Child(proc[q].at) ELSE q = First)'
    BY DEF OwnReaders, ReaderForked
  <2>1. CASE q = Reader(p)
    <3>1. p = First
      BY DEF WInv, OwnReaders, ReaderForked
    <3> QED  BY <2>1, <3>1, <1>2, <1>3 DEF Reads
  <2>2. CASE q # Reader(p)
    BY <2>2, <1>3 DEF WInv, OwnReaders
  <2> QED  BY <2>1, <2>2
<1>5. FirstWaits => FirstWaits' /\ p # First
  BY <1>2 DEF FirstWaits, ReaderForked, Kept
<1>6. SecondHolds'
  <2>1. SUFFICES ASSUME faults = 0, Second \in P' PROVE FirstWaits'
    BY DEF SecondHolds, ReaderForked
  <2>2. p = First
    BY <2>1 DEF WInv, OwnReaders, ReaderForked
  <2>3. Second \notin P
    BY <2>1, <2>2, <1>5 DEF WInv, SecondHolds
  <2> QED  BY <2>1, <2>2, <2>3, <1>2, <1>3 DEF FirstWaits, ReaderForked
<1>7. Writers'
  <2>1. SUFFICES ASSUME faults <= 1, ShrMem \notin returned PROVE TwoWriters'
    BY DEF Writers, ReaderForked
  <2>2. TwoWriters
    BY <2>1 DEF WInv, Writers
  <2>3. \A q \in P' : ~Reads(q)' => q \in {First, Second}
    BY <2>2, <1>3 DEF TwoWriters, Reads
  <2>4. ASSUME Second \in P', ~Reads(Second)' PROVE proc'[Second].at > AnonPipe /\ FirstWaits'
    <3>1. Second \in P /\ ~Reads(Second) /\ proc'[Second].at = proc[Second].at
      BY <2>4, <1>3 DEF Reads
    <3> QED  BY <2>2, <3>1, <1>5 DEF TwoWriters
  <2> QED  BY <2>3, <2>4 DEF TwoWriters
<1> QED  BY <1>4, <1>6, <1>7 DEF WInv

LEMMA ChangeKeeps ==
    ASSUME TypeOK, NEW p \in P, NEW r, proc' = [proc EXCEPT ![p] = r]
    PROVE  P' = P /\ proc'[p] = r /\ \A q \in P \ {p} : Kept(q)
  BY DEF TypeOK, ProcOK, P, Kept

LEMMA StepKeeps ==
    ASSUME TypeOK, NEW p \in P, NEW s, Step(p, s)
    PROVE  /\ P' = P /\ \A q \in P \ {p} : Kept(q)
           /\ proc'[p].at = proc[p].at /\ proc'[p].step = s
  BY DEF TypeOK, ProcOK, Processes, P, Kept, Step

LEMMA OpenKeeps ==
    ASSUME TypeOK, NEW p \in P, NEW s, mq_open(p, s)
    PROVE  /\ P' = P /\ \A q \in P \ {p} : Kept(q)
           /\ proc'[p].at = proc[p].at /\ proc'[p].step = s
  BY DEF TypeOK, ProcOK, Processes, P, Kept, mq_open

LEMMA OnwardFields ==
    ASSUME TypeOK, NEW p \in P
    PROVE  Onward(p).at = proc[p].at + 1 /\ Onward(p).step = "call"
  BY DEF TypeOK, ProcOK, Processes, Onward

LEMMA ReturnKeeps ==
    ASSUME TypeOK, NEW p \in P, Return(p)
    PROVE  /\ P' = P /\ \A q \in P \ {p} : Kept(q)
           /\ proc'[p].at = proc[p].at + 1 /\ proc'[p].step = "call"
  BY ChangeKeeps, OnwardFields DEF Return

LEMMA ReportKeeps ==
    ASSUME TypeOK, NEW p \in P, NEW r \in Processes, printf(p, r)
    PROVE  /\ P' = P /\ \A q \in P \ {p} : Kept(q)
           /\ proc'[p].at = r.at /\ proc'[p].step = r.step
<1>1. Reported(r, proc[p].at).at = r.at /\ Reported(r, proc[p].at).step = r.step
  BY DEF Reported, Processes
<1> QED  BY <1>1, ChangeKeeps DEF printf

LEMMA GoneKeeps ==
    ASSUME NEW ps, Gone(ps)
    PROVE  P' = P \ ps /\ \A q \in P' : Kept(q)
  BY DEF Gone, Restrict, P, Kept

LEMMA AtIsInt == ASSUME TypeOK, NEW p \in P PROVE proc[p].at \in Int /\ proc[p].at + 1 >= proc[p].at
<1>1. proc[p].at \in Int
  BY DEF TypeOK, ProcOK, Processes
<1> QED  BY <1>1

LEMMA WritersInvariance == TypeOK /\ TypeOK' /\ WInv /\ [Next]_vars => WInv'
<1> SUFFICES ASSUME TypeOK, TypeOK', WInv, [Next]_vars PROVE WInv'
  OBVIOUS
<1> USE DEF env, net
<1>0. CASE UNCHANGED vars
  BY <1>0 DEF WInv, OwnReaders, SecondHolds, Writers, TwoWriters, FirstWaits, Reads, P, vars
<1>22. ASSUME NEW p \in P, QueueOpen(p) PROVE WInv'
  <2>1. /\ P' = P /\ \A q \in P \ {p} : Kept(q)
        /\ proc'[p].at = proc[p].at /\ proc'[p].step = "write"
    BY <1>22, OpenKeeps DEF QueueOpen
  <2>2. WriterMoves(p)
    BY <1>22, <2>1, AtIsInt DEF QueueOpen, At, WriterMoves, Reads, PosixQ, AnonPipe
  <2> QED  BY <2>2, WritersWhenWriterMoves
<1>23. ASSUME NEW p \in P, QueueUnlink(p) PROVE WInv'
  <2>1. WriterMoves(p)
    BY <1>23, StepKeeps, AtIsInt DEF QueueUnlink, At, WriterMoves, Reads, PosixQ, AnonPipe
  <2> QED  BY <2>1, WritersWhenWriterMoves
<1>1. ASSUME NEW p \in P, FifoUnlink(p) PROVE WInv'
  <2>1. WriterMoves(p)
    BY <1>1, StepKeeps, AtIsInt DEF FifoUnlink, At, WriterMoves, Reads, NamedPipeFifo, AnonPipe
  <2> QED  BY <2>1, WritersWhenWriterMoves
<1>2. ASSUME NEW p \in P, FifoMake(p) PROVE WInv'
  <2>1. WriterMoves(p)
    BY <1>2, StepKeeps, ReturnKeeps, AtIsInt DEF FifoMake, At, WriterMoves, Reads, NamedPipeFifo, AnonPipe
  <2> QED  BY <2>1, WritersWhenWriterMoves
<1>3. ASSUME NEW p \in P, FifoOpen(p) PROVE WInv'
  <2>1. ASSUME proc' = [proc EXCEPT ![p].step = "opened", ![p].medium = fifo]
        PROVE  /\ P' = P /\ \A q \in P \ {p} : Kept(q)
               /\ proc'[p].at = proc[p].at /\ proc'[p].step = "opened"
    BY <2>1 DEF TypeOK, ProcOK, Processes, P, Kept
  <2>2. WriterMoves(p)
    BY <1>3, <2>1, ReturnKeeps, AtIsInt DEF FifoOpen, At, WriterMoves, Reads, NamedPipeFifo, AnonPipe
  <2> QED  BY <2>2, WritersWhenWriterMoves
<1>4. ASSUME NEW p \in P, Fork(p) PROVE WInv'
  <2>1. Reader(p) # p
    BY AtIsInt, ReaderName DEF Reader, TypeOK, ProcOK
  <2>2. /\ proc'[p] = [proc[p] EXCEPT !.step = ForkStep(proc[p].at)]
        /\ proc'[Reader(p)] = Forked(p)
        /\ P' = P \cup {Reader(p)} /\ \A q \in P \ {p, Reader(p)} : Kept(q)
    BY <1>4, <2>1 DEF Fork, ForkStep, Kept, P
  <2>3. Forked(p).at = proc[p].at /\ Forked(p).step \in {"setup", "read"}
    BY DEF Forked, TypeOK, ProcOK, Processes
  <2>4. /\ proc'[p].at = proc[p].at /\ proc'[p].step \in {"open", "connect", "write"}
        /\ proc[p].at = AnonPipe => proc'[p].step = "write"
    BY <2>2 DEF TypeOK, ProcOK, Processes, ForkStep, AnonPipe, TCPSocket, PosixQ
  <2>5. proc[p].step \in {"call", "opened"}
    BY <1>4 DEF Fork
  <2>6. ReaderForked(p)
    BY <1>4, <2>2, <2>3, <2>4, <2>5 DEF Fork, ReaderForked, Reads
  <2> QED  BY <2>6, WritersWhenForked
<1>5. ASSUME NEW p \in P, TcpConnect(p) PROVE WInv'
  <2>1. ASSUME proc' = [proc EXCEPT ![p].step = "write", ![p].conn = @ \cup {p}]
        PROVE  /\ P' = P /\ \A q \in P \ {p} : Kept(q)
               /\ proc'[p].at = proc[p].at /\ proc'[p].step = "write"
    BY <2>1 DEF TypeOK, ProcOK, Processes, P, Kept
  <2>2. WriterMoves(p)
    BY <1>5, <2>1, ReturnKeeps, AtIsInt DEF TcpConnect, At, WriterMoves, Reads, TCPSocket, AnonPipe
  <2> QED  BY <2>2, WritersWhenWriterMoves
<1>6. ASSUME NEW p \in P, Write(p) PROVE WInv'
  <2>1. proc[p] \in Processes /\ proc[p].step = "write" /\ proc[p].at \in Benchmarks
    BY <1>6 DEF TypeOK, ProcOK, Write, CanWrite, Placed
  <2>2. faults' = faults /\ returned' = returned /\ ~Reads(p)
    BY <1>6, <2>1 DEF Write, Reads
  <2>3. ASSUME proc[p].at \in Reaped /\ Step(p, AfterWrite(proc[p].at)) PROVE WriterMoves(p)
    <3>1. /\ P' = P /\ \A q \in P \ {p} : Kept(q)
          /\ proc'[p].at = proc[p].at /\ proc'[p].step = AfterWrite(proc[p].at)
      BY <2>3, StepKeeps
    <3> QED  BY <2>1, <2>2, <3>1, AtIsInt DEF WriterMoves, AfterWrite, PosixQ, AnonPipe
  <2>4. ASSUME proc[p].at = ShrMem /\ printf(p, [proc[p] EXCEPT !.step = "drain"])
        PROVE  WriterMoves(p)
    <3> DEFINE r == [proc[p] EXCEPT !.step = "drain"]
    <3>1. r \in Processes /\ r.at = proc[p].at /\ r.step = "drain"
      BY <2>1 DEF Processes, Steps
    <3>2. /\ P' = P /\ \A q \in P \ {p} : Kept(q)
          /\ proc'[p].at = r.at /\ proc'[p].step = r.step
      BY <2>4, <3>1, ReportKeeps
    <3> QED  BY <2>2, <2>4, <3>1, <3>2, AtIsInt DEF WriterMoves, ShrMem, AnonPipe
  <2>5. ASSUME proc[p].at \notin Reaped \cup {ShrMem} /\ printf(p, Onward(p))
        PROVE  WriterMoves(p)
    <3>1. /\ P' = P /\ \A q \in P \ {p} : Kept(q)
          /\ proc'[p].at = proc[p].at + 1 /\ proc'[p].step = "call"
      BY <2>1, <2>5, ReportKeeps, GoesOn, OnwardFields DEF TypeOK
    <3> QED  BY <2>2, <2>5, <3>1, AtIsInt DEF WriterMoves, Reaped
  <2>6. WriterMoves(p)
    BY <1>6, <2>3, <2>4, <2>5 DEF Write, AfterWrite
  <2> QED  BY <2>6, WritersWhenWriterMoves
<1>7. ASSUME NEW p \in P, Wait(p) PROVE WInv'
  <2>1. proc[p].at \in Benchmarks
    BY <1>7 DEF TypeOK, ProcOK, Wait, Placed
  <2>2. /\ P' = P /\ \A q \in P \ {p} : Kept(q)
        /\ proc'[p].at = proc[p].at + 1 /\ proc'[p].step = "call"
    BY <1>7, <2>1, ReportKeeps, GoesOn, OnwardFields DEF TypeOK, Wait
  <2>3. WriterMoves(p)
    BY <1>7, <2>2, AtIsInt DEF WriterMoves, Wait, Reads
  <2> QED  BY <2>3, WritersWhenWriterMoves
<1>8. ASSUME NEW p \in P, Drain(p) PROVE WInv'
  <2>1. WriterMoves(p)
    BY <1>8, ReturnKeeps, AtIsInt DEF WriterMoves, Drain, Reads
  <2> QED  BY <2>1, WritersWhenWriterMoves
<1>20. ASSUME NEW ps, Gone(ps), faults' >= faults, returned' = returned PROVE WInv'
  BY <1>20, GoneKeeps, WritersWhenSomeLeave DEF Leave
<1>21. faults >= faults /\ faults + 1 >= faults
  BY DEF TypeOK
<1>9. ASSUME NEW p \in P, MainExit(p) PROVE WInv'
  BY <1>9, <1>20, <1>21 DEF MainExit, exit
<1>10. ASSUME NEW r \in P, ReaderSetup(r) PROVE WInv'
  <2>1. proc[r] \in Processes /\ proc[r].step = "setup" /\ Reads(r) /\ faults' = faults /\ returned' = returned
    BY <1>10 DEF TypeOK, ProcOK, ReaderSetup, Reads
  <2>6. CASE mq_open(r, "read")
    <3>1. ReaderMoves(r)
      BY <2>1, <2>6, OpenKeeps DEF ReaderMoves
    <3> QED  BY <3>1, WritersWhenReaderMoves
  <2>2. CASE proc' = [q \in P |->
                        IF q = r THEN [proc[r] EXCEPT !.step = "read", !.medium = Front(r)]
                          ELSE IF q = Front(r) THEN [proc[q] EXCEPT !.medium = q] ELSE proc[q]]
    <3>1. /\ P' = P /\ \A q \in P \ {r} : Kept(q)
          /\ proc'[r].at = proc[r].at /\ proc'[r].step = "read"
      <4>1. P' = P
        BY <2>2 DEF P
      <4>2. ASSUME NEW q \in P \ {r} PROVE Kept(q)
        <5>1. proc'[q] \in {proc[q], [proc[q] EXCEPT !.medium = q]} /\ proc[q] \in Processes
          BY <2>2 DEF TypeOK, ProcOK
        <5> QED  BY <5>1 DEF Kept, Processes
      <4>3. proc'[r] = [proc[r] EXCEPT !.step = "read", !.medium = Front(r)]
        BY <2>2
      <4> QED  BY <2>1, <4>1, <4>2, <4>3 DEF Processes
    <3>2. ReaderMoves(r)
      BY <2>1, <3>1 DEF ReaderMoves
    <3> QED  BY <3>2, WritersWhenReaderMoves
  <2>3. CASE proc' = [proc EXCEPT ![r].step = "read", ![r].medium = r]
    <3>1. /\ P' = P /\ \A q \in P \ {r} : Kept(q)
          /\ proc'[r].at = proc[r].at /\ proc'[r].step = "read"
      BY <2>1, <2>3 DEF TypeOK, ProcOK, Processes, P, Kept
    <3>2. ReaderMoves(r)
      BY <2>1, <3>1 DEF ReaderMoves
    <3> QED  BY <3>2, WritersWhenReaderMoves
  <2>4. CASE Step(r, "read")
    <3>1. ReaderMoves(r)
      BY <2>1, <2>4, StepKeeps DEF ReaderMoves
    <3> QED  BY <3>1, WritersWhenReaderMoves
  <2>5. CASE exit(r)
    BY <2>1, <2>5, <1>20, <1>21 DEF exit
  <2> QED  BY <1>10, <2>2, <2>3, <2>4, <2>5, <2>6 DEF ReaderSetup
<1>11. ASSUME NEW r \in P, TcpAccept(r) PROVE WInv'
  <2>1. /\ P' = P /\ \A q \in P \ {r} : Kept(q)
        /\ proc'[r].at = proc[r].at /\ proc'[r].step = proc[r].step
    BY <1>11 DEF TcpAccept, TypeOK, ProcOK, Processes, P, Kept
  <2>2. ReaderMoves(r)
    BY <1>11, <2>1 DEF TcpAccept, At, ReaderMoves, Reads
  <2> QED  BY <2>2, WritersWhenReaderMoves
<1>12. ASSUME NEW r \in P, Finish(r) PROVE WInv'
  BY <1>12, <1>20, <1>21 DEF Finish, exit
<1>13. ASSUME NEW p \in P, WriterStranded(p) PROVE WInv'
  <2>1. CASE Return(p) /\ proc[p].step = "write" /\ proc[p].at \in {ShrMem, TCPSocket}
    <3>1. WriterMoves(p)
      BY <1>13, <2>1, ReturnKeeps, AtIsInt DEF WriterMoves, WriterStranded, Reads, ShrMem, TCPSocket, AnonPipe
    <3> QED  BY <3>1, WritersWhenWriterMoves
  <2>2. CASE Gone({p})
    BY <1>13, <2>2, <1>20, <1>21 DEF WriterStranded
  <2> QED  BY <1>13, <2>1, <2>2 DEF WriterStranded, At
<1>14. ASSUME NEW r \in P, ReaderFails(r) PROVE WInv'
  BY <1>14, <1>20, <1>21 DEF ReaderFails, Fault, exit
<1>15. ASSUME NEW r \in P, ReaderReturns(r) PROVE WInv'
  <2>1. ReaderBecomesWriter(r)
    BY <1>15, ReturnKeeps DEF ReaderReturns, Fault, At, ReaderBecomesWriter, Reads
  <2> QED  BY <2>1, WritersWhenReaderReturns
<1>16. ASSUME NEW r \in P, FifoReadFails(r) PROVE WInv'
  BY <1>16, <1>20, <1>21 DEF FifoReadFails, Fault
<1>17. ASSUME NEW p \in P, WriterFails(p) PROVE WInv'
  <2>1. CASE exit(p)
    BY <1>17, <2>1, <1>20, <1>21 DEF WriterFails, Fault, exit
  <2>2. CASE Return(p) /\ proc[p].step \in {"call", "connect", "write"}
    <3>1. WriterMoves(p)
      BY <1>17, <2>2, ReturnKeeps, AtIsInt DEF WriterMoves, WriterFails, Fault, Reads
    <3> QED  BY <3>1, WritersWhenWriterMoves
  <2> QED  BY <1>17, <2>1, <2>2 DEF WriterFails
<1>18. ASSUME NEW p \in P, Kill(p) PROVE WInv'
  BY <1>18, <1>20, <1>21 DEF Kill, Fault
<1>19. CASE Terminating
  BY <1>0, <1>19 DEF Terminating
<1> QED
  BY <1>0, <1>1, <1>2, <1>3, <1>4, <1>5, <1>6, <1>7, <1>8, <1>9, <1>10, <1>11, <1>12, <1>13,
     <1>14, <1>15, <1>16, <1>17, <1>18, <1>19, <1>22, <1>23 DEF Next

(* Every variable keeps its type, and a process is only in steps that the  *)
(* benchmark it is in has.                                                 *)
THEOREM TypeCorrect == Spec => []TypeOK
<1>1. Init => TypeOK
  <2> SUFFICES ASSUME Init PROVE TypeOK
    OBVIOUS
  <2>1. P = {First} /\ proc[First] = [at |-> PosixQ, step |-> "call", medium |-> None, out |-> {}, conn |-> {}]
    BY DEF Init, P
  <2>2. ProcOK
    BY <2>1, NamesDiffer DEF Init, ProcOK, Processes, Placed, Steps, PosixQ, Exit
  <2> QED  BY <2>2, NamesDiffer, EmptySeq DEF Init, TypeOK, Benchmarks, env
<1> QED  BY <1>1, TypeInvariance, PTL DEF Spec

(* Two processes run main at the same benchmark only after the reader of   *)
(* ShrMem returned into main (ipc_bm.c:123), or after a second fault: the  *)
(* return of AnonPipe's reader alone is harmless, as its parent waits in   *)
(* waitpid for it.                                                         *)
THEOREM AtMostOneWriter == Spec => []OneWriter
<1>1. Init => WInv
  <2> SUFFICES ASSUME Init PROVE WInv
    OBVIOUS
  <2>1. P = {First} /\ ~Reads(First)
    BY DEF Init, P, Reads
  <2> QED  BY <2>1, SecondName DEF WInv, OwnReaders, SecondHolds, Writers, TwoWriters
<1>2. TypeOK /\ WInv => OneWriter
  <2> SUFFICES ASSUME TypeOK, WInv, SameBenchmark, ShrMem \notin returned, ~(faults > 1) PROVE FALSE
    BY DEF OneWriter
  <2>1. TwoWriters
    BY DEF WInv, Writers, TypeOK
  <2>2. PICK p, q \in P : p # q /\ ~Reads(p) /\ ~Reads(q) /\ proc[p].at = proc[q].at
    BY DEF SameBenchmark
  <2>3. /\ First \in P /\ Second \in P /\ ~Reads(Second) /\ proc[First].at = proc[Second].at
    BY <2>1, <2>2 DEF TwoWriters
  <2>4. proc[Second].at > AnonPipe /\ proc[First].at = AnonPipe
    BY <2>1, <2>3 DEF TwoWriters, FirstWaits
  <2> QED  BY <2>3, <2>4 DEF AnonPipe
<1> QED  BY <1>1, <1>2, TypeCorrect, WritersInvariance, PTL DEF Spec
-----------------------------------------------------------------------------
(* Who has which report.  In a run without a fault the first process has   *)
(* begun a benchmark when its reader is forked ...                         *)
Begun(b) ==
    First \in P =>
        \/ b < proc[First].at
        \/ /\ b = proc[First].at
           /\ proc[First].step \in {"open", "connect", "write", "unlink", "wait", "drain"}

(* ... and later has reported it.                                          *)
Told(b) ==
    First \in P =>
        \/ b < proc[First].at
        \/ b = proc[First].at /\ proc[First].step = "drain"

ReadersBegun == \A p \in P : Reads(p) => Begun(proc[p].at)

(* A buffer holds what its process or the one that forked it has reported. *)
Buffer(p) ==
    IF ~piped THEN {}
    ELSE IF p = First THEN {b \in Benchmarks : Told(b)}
    ELSE {b \in Benchmarks : b < proc[p].at}

Buffers == \A p \in P : proc[p].out = Buffer(p)

(* The readers that were there, and the first process, by the benchmark.   *)
Ended == {c \in 1..Exit : IF c = Exit THEN First \notin P ELSE Begun(c) /\ Child(c) \notin P}

EndedAfter(b) == {c \in Ended : b < c}

Flushed ==
    \A b \in Benchmarks :
        copies[b] = IF piped THEN Cardinality(EndedAfter(b)) ELSE IF Told(b) THEN 1 ELSE 0

Accounts == ReadersBegun /\ Buffers /\ Flushed

LEMMA AccountsKept ==
    ASSUME TypeOK, Accounts, P' = P, piped' = piped, copies' = copies,
           \A b \in Benchmarks : (Begun(b)' <=> Begun(b)) /\ (Told(b)' <=> Told(b)),
           \A q \in P : proc'[q].out = proc[q].out /\ (Reads(q)' <=> Reads(q))
                         /\ (q # First \/ Reads(q) => proc'[q].at = proc[q].at),
           \A q \in P : Reads(q) => proc[q].at \in Benchmarks
    PROVE  Accounts'
<1>1. ReadersBegun'
  BY DEF Accounts, ReadersBegun
<1>2. \A q \in P : Buffer(q)' = Buffer(q)
  BY DEF Buffer
<1>3. Buffers'
  BY <1>2 DEF Accounts, Buffers
<1>4. Ended' = Ended
  BY DEF Ended, Benchmarks, Exit
<1>5. Flushed'
  BY <1>4 DEF Accounts, Flushed, EndedAfter
<1> QED  BY <1>1, <1>3, <1>5 DEF Accounts

LEMMA AccountsReported ==
    ASSUME TypeOK, Accounts, First \in P, P' = P, piped' = piped, NEW a \in Benchmarks, ~Told(a),
           \A b \in Benchmarks : (Begun(b)' <=> Begun(b)) /\ (Told(b)' <=> Told(b) \/ b = a),
           \A q \in P \ {First} : proc'[q] = proc[q],
           ~Reads(First), ~Reads(First)',
           proc'[First].out = IF piped THEN proc[First].out \cup {a} ELSE proc[First].out,
           copies' = IF piped THEN copies ELSE [copies EXCEPT ![a] = @ + 1],
           \A q \in P : Reads(q) => proc[q].at \in Benchmarks
    PROVE  Accounts'
<1>1. ReadersBegun'
  BY DEF Accounts, ReadersBegun, Reads
<1>2. \A q \in P \ {First} : Buffer(q)' = Buffer(q)
  BY DEF Buffer
<1>3. Buffer(First)' = IF piped THEN Buffer(First) \cup {a} ELSE Buffer(First)
  BY DEF Buffer
<1>4. Buffers'
  BY <1>2, <1>3 DEF Accounts, Buffers
<1>5. Ended' = Ended
  BY DEF Ended, Benchmarks, Exit
<1>6. \A b : EndedAfter(b)' = EndedAfter(b)
  BY <1>5 DEF EndedAfter
<1>7. ASSUME NEW b \in Benchmarks
      PROVE  copies'[b] = IF piped THEN Cardinality(EndedAfter(b)') ELSE IF Told(b)' THEN 1 ELSE 0
  <2>1. copies[b] = IF piped THEN Cardinality(EndedAfter(b)) ELSE IF Told(b) THEN 1 ELSE 0
    BY DEF Accounts, Flushed
  <2>2. CASE piped
    BY <1>6, <2>1, <2>2
  <2>3. CASE ~piped /\ b = a
    <3>1. copies'[b] = copies[b] + 1 /\ copies[b] = 0
      BY <2>1, <2>3 DEF TypeOK
    <3> QED  BY <2>3, <3>1
  <2>4. CASE ~piped /\ b # a
    BY <2>1, <2>4 DEF TypeOK
  <2> QED  BY <2>2, <2>3, <2>4
<1>8. Flushed'
  BY <1>7 DEF Flushed
<1> QED  BY <1>1, <1>4, <1>8 DEF Accounts

(* What a process that exits has in its buffer are the benchmarks before   *)
(* its own.                                                                *)
Rank(p) == IF p = First THEN Exit ELSE proc[p].at

LEMMA EndedFinite ==
    ASSUME NEW b
    PROVE  IsFiniteSet(EndedAfter(b)) /\ Cardinality(EndedAfter(b)) \in Nat
<1>1. IsFiniteSet(1..Exit)
  <2>1. 1 \in Int /\ Exit \in Int
    BY DEF Exit
  <2> QED  BY <2>1, FS_Interval
<1>2. EndedAfter(b) \subseteq 1..Exit
  BY DEF EndedAfter, Ended
<1>3. IsFiniteSet(EndedAfter(b))
  BY <1>1, <1>2, FS_Subset
<1> QED  BY <1>3, FS_CardinalityType

LEMMA AccountsWhenExits ==
    ASSUME TypeOK, Accounts, OwnReaders, faults = 0, NEW p \in P, exit(p), piped' = piped,
           p = First => proc[First].at = Exit,
           Reads(p) => proc[p].at \in Benchmarks
    PROVE  Accounts'
<1>1. P' = P \ {p} /\ \A q \in P' : proc'[q] = proc[q]
  BY DEF exit, Gone, Restrict, P
<1>2. p # First => Reads(p) /\ p = Child(proc[p].at) /\ proc[p].at \in Benchmarks /\ Begun(proc[p].at)
  BY DEF OwnReaders, Accounts, ReadersBegun
<1>3. \A b \in Benchmarks : (Begun(b)' <=> Begun(b)) /\ (Told(b)' <=> Told(b))
  BY <1>1 DEF Begun, Told, Benchmarks, Exit
<1>4. ReadersBegun'
  <2>1. \A q \in P' : Reads(q)' => q \in P /\ Reads(q) /\ proc'[q].at = proc[q].at
    BY <1>1 DEF Reads
  <2>2. \A q \in P' : Begun(proc[q].at) => Begun(proc[q].at)'
    BY <1>1 DEF Begun
  <2> QED  BY <1>1, <2>1 DEF Accounts, ReadersBegun, Begun
<1>5. Buffers'
  BY <1>1, <1>3 DEF Accounts, Buffers, Buffer
<1>6. Rank(p) \in 1..Exit /\ Rank(p) \notin Ended
  BY <1>2 DEF Rank, Ended, Benchmarks, Exit
<1>7. Ended' = Ended \cup {Rank(p)}
  <2>1. CASE p = First
    <3>1. \A c \in Benchmarks : Child(c) \in P' <=> Child(c) \in P
      BY <1>1, <2>1, NamesDiffer DEF Benchmarks
    <3> QED  BY <1>1, <1>3, <2>1, <3>1 DEF Ended, Rank, Benchmarks, Exit
  <2>2. CASE p # First
    <3>1. \A c \in Benchmarks : Child(c) \in P' <=> Child(c) \in P /\ c # proc[p].at
      BY <1>1, <1>2, <2>2, NamesDiffer DEF Benchmarks
    <3>2. First \in P' <=> First \in P
      BY <1>1, <2>2
    <3> QED  BY <1>2, <1>3, <2>2, <3>1, <3>2 DEF Ended, Rank, Benchmarks, Exit
  <2> QED  BY <2>1, <2>2
<1>8. \A b \in Benchmarks : b \in proc[p].out <=> piped /\ b < Rank(p)
  <2>1. proc[p].out = Buffer(p)
    BY DEF Accounts, Buffers
  <2>2. p = First => \A b \in Benchmarks : Told(b) /\ b < Rank(p)
    BY DEF Told, Rank, Benchmarks, Exit
  <2> QED  BY <2>1, <2>2 DEF Buffer, Rank
<1>9. ASSUME NEW b \in Benchmarks
      PROVE  copies'[b] = IF piped THEN Cardinality(EndedAfter(b)') ELSE IF Told(b)' THEN 1 ELSE 0
  <2>1. copies'[b] = copies[b] + (IF b \in proc[p].out THEN 1 ELSE 0) /\ copies[b] \in Nat
    BY DEF exit, TypeOK
  <2>2. CASE ~piped
    BY <1>3, <1>8, <2>1, <2>2 DEF Accounts, Flushed
  <2>3. CASE piped /\ b < Rank(p)
    <3>1. EndedAfter(b)' = EndedAfter(b) \cup {Rank(p)} /\ Rank(p) \notin EndedAfter(b)
      BY <1>6, <1>7, <2>3 DEF EndedAfter
    <3>2. Cardinality(EndedAfter(b)') = Cardinality(EndedAfter(b)) + 1
      BY <3>1, EndedFinite, FS_AddElement
    <3> QED  BY <1>8, <2>1, <2>3, <3>2 DEF Accounts, Flushed
  <2>4. CASE piped /\ ~(b < Rank(p))
    <3>1. EndedAfter(b)' = EndedAfter(b)
      BY <1>7, <2>4 DEF EndedAfter
    <3> QED  BY <1>8, <2>1, <2>4, <3>1 DEF Accounts, Flushed
  <2> QED  BY <2>2, <2>3, <2>4
<1>10. Flushed'
  BY <1>9 DEF Flushed
<1> QED  BY <1>4, <1>5, <1>10 DEF Accounts

LEMMA AccountsWhenForked ==
    ASSUME TypeOK, Accounts, OwnReaders, faults = 0, First \in P, Fork(First)
    PROVE  Accounts'
<1> DEFINE a == proc[First].at
           w == [proc[First] EXCEPT !.step = ForkStep(proc[First].at)]
<1>1. a \in Benchmarks /\ a \in Int /\ Reader(First) = Child(a) /\ Child(a) # First
  BY ReaderName, NamesDiffer DEF Fork, Reader, Benchmarks
<1>2. proc[First].step \in {"call", "opened"} /\ proc[First] \in Processes
  BY DEF Fork, TypeOK, ProcOK
<1>3. /\ P' = P \cup {Child(a)} /\ proc'[First] = w /\ proc'[Child(a)] = Forked(First)
      /\ \A q \in P \ {First, Child(a)} : proc'[q] = proc[q]
      /\ copies' = copies /\ piped' = piped
  BY <1>1 DEF Fork, ForkStep, P, env
<1>4. /\ w.at = a /\ w.out = proc[First].out /\ w.step \in {"open", "connect", "write"}
      /\ Forked(First).at = a /\ Forked(First).out = proc[First].out
      /\ Forked(First).step \in {"setup", "read"}
  BY <1>2 DEF Forked, ForkStep, Processes
<1>5. \A b \in Benchmarks : /\ Begun(b)' <=> Begun(b) \/ b = a
                            /\ Told(b)' <=> Told(b)
                            /\ Told(b) <=> b < a
  BY <1>2, <1>3, <1>4 DEF Begun, Told
<1>6. ~Begun(a)
  BY <1>1, <1>2 DEF Begun
<1>7. \A q \in P : q # First => q = Child(proc[q].at) /\ Reads(q) /\ Begun(proc[q].at)
  BY DEF OwnReaders, Accounts, ReadersBegun
<1>8. Child(a) \notin P
  <2> SUFFICES ASSUME Child(a) \in P PROVE FALSE
    OBVIOUS
  <2>1. proc[Child(a)].at \in Int /\ Child(a) = Child(proc[Child(a)].at)
    BY <1>1, <1>7 DEF TypeOK, ProcOK, Processes
  <2>2. proc[Child(a)].at = a
    BY <1>1, <2>1, NamesDiffer
  <2> QED  BY <1>1, <1>6, <1>7, <2>2
<1> HIDE DEF a, w
<1>9. \A q \in P : q # First => proc[q].at \in Benchmarks
  BY <1>7 DEF TypeOK, ProcOK, Placed, Reads
<1>10. ReadersBegun'
  <2> SUFFICES ASSUME NEW q \in P', Reads(q)' PROVE Begun(proc[q].at)'
    BY DEF ReadersBegun
  <2>1. CASE q = Child(a)
    BY <1>1, <1>3, <1>4, <1>5, <2>1
  <2>2. CASE q = First
    BY <1>3, <1>4, <2>2, <2>1 DEF Reads
  <2>3. CASE q # Child(a) /\ q # First
    <3>1. q \in P /\ proc'[q] = proc[q] /\ proc[q].at \in Benchmarks /\ Begun(proc[q].at)
      BY <1>3, <1>7, <1>9, <2>3
    <3> QED  BY <1>5, <3>1
  <2> QED  BY <2>1, <2>2, <2>3
<1>11. Buffers'
  <2> SUFFICES ASSUME NEW q \in P' PROVE proc'[q].out = Buffer(q)'
    BY DEF Buffers
  <2>1. proc[First].out = IF piped THEN {b \in Benchmarks : b < a} ELSE {}
    BY <1>5 DEF Accounts, Buffers, Buffer
  <2>2. CASE q = Child(a)
    BY <1>1, <1>3, <1>4, <2>1, <2>2 DEF Buffer
  <2>3. CASE q = First
    BY <1>3, <1>4, <1>5, <2>1, <2>3 DEF Buffer
  <2>4. CASE q # Child(a) /\ q # First
    BY <1>3, <2>4 DEF Accounts, Buffers, Buffer
  <2> QED  BY <2>2, <2>3, <2>4
<1>12. Ended' = Ended
  <2>1. \A c \in Benchmarks : (Begun(c) /\ Child(c) \notin P)' <=> Begun(c) /\ Child(c) \notin P
    <3> SUFFICES ASSUME NEW c \in Benchmarks
                 PROVE  (Begun(c) /\ Child(c) \notin P)' <=> Begun(c) /\ Child(c) \notin P
      OBVIOUS
    <3>1. CASE c = a
      BY <1>3, <1>6, <3>1
    <3>2. CASE c # a
      BY <1>1, <1>3, <1>5, <3>2, NamesDiffer DEF Benchmarks
    <3> QED  BY <3>1, <3>2
  <2>2. First \in P'
    BY <1>3
  <2> QED  BY <2>1, <2>2 DEF Ended, Benchmarks, Exit
<1>13. Flushed'
  BY <1>3, <1>5, <1>12 DEF Accounts, Flushed, EndedAfter
<1> QED  BY <1>10, <1>11, <1>13 DEF Accounts
-----------------------------------------------------------------------------
(* In a run without a fault no call of main is refused: the FIFO is the    *)
(* one just made, ...                                                      *)
FifoOurs ==
    /\ First \in P /\ At(First, NamedPipeFifo, "unlinked") => fifo = None
    /\ First \in P /\ At(First, NamedPipeFifo, "made") => fifo = First

(* ... the reader of ShrMem has set up before the writer goes on, ...      *)
ShmServed ==
    First \in P /\ At(First, ShrMem, "write") /\ proc[First].medium = None =>
        Child(ShrMem) \in P /\ At(Child(ShrMem), ShrMem, "setup")

(* ... and so has that of TCPSocket, which stays until it is at            *)
(* end-of-file.                                                            *)
Tcp == Child(TCPSocket)

PortFree == ~Begun(TCPSocket) => listener = None /\ backlog = <<>>

Connects ==
    First \in P /\ At(First, TCPSocket, "connect") =>
        /\ Tcp \in P /\ proc[Tcp].at = TCPSocket /\ proc[Tcp].medium = None
        /\ backlog = <<>>
        /\ \/ proc[Tcp].step = "setup" /\ listener = None
           \/ proc[Tcp].step = "read" /\ listener = Tcp

Connected ==
    First \in P /\ At(First, TCPSocket, "write") =>
        /\ First \in proc[First].conn
        /\ Tcp \in P /\ At(Tcp, TCPSocket, "read")
        /\ \/ listener = Tcp /\ backlog = <<First>> /\ proc[Tcp].medium = None
           \/ backlog = <<>> /\ proc[Tcp].medium = First

Peers == FifoOurs /\ ShmServed /\ PortFree /\ Connects /\ Connected

RInv == faults = 0 => Accounts /\ Peers

(* The assumptions of the lemmas that follow.                              *)
Calm == TypeOK /\ WInv /\ RInv /\ faults = 0

LEMMA CalmFacts ==
    ASSUME Calm
    PROVE  /\ OwnReaders /\ Accounts /\ Peers
           /\ \A p \in P : ~Reads(p) => p = First
           /\ \A p \in P : Reads(p) => /\ p = Child(proc[p].at) /\ p # First /\ p # None
                                       /\ proc[p].at \in Benchmarks /\ Begun(proc[p].at)
           /\ None \notin P
           /\ First \in P => ~Reads(First)
<1>1. OwnReaders /\ Accounts /\ Peers
  BY DEF Calm, WInv, RInv
<1>2. \A p \in P : ~Reads(p) => p = First
  BY <1>1 DEF OwnReaders, Calm
<1>3. \A p \in P : Reads(p) => p = Child(proc[p].at) /\ proc[p].at \in Benchmarks /\ Begun(proc[p].at)
  <2>1. \A p \in P : Reads(p) => proc[p].at \in Benchmarks
    BY DEF Calm, TypeOK, ProcOK, Placed, Reads
  <2> QED  BY <1>1, <2>1 DEF OwnReaders, Calm, Accounts, ReadersBegun
<1>4. \A b \in Benchmarks : Child(b) # First /\ Child(b) # None
  BY NamesDiffer DEF Benchmarks
<1>5. First # None
  BY NamesDiffer
<1> QED  BY <1>1, <1>2, <1>3, <1>4, <1>5

LEMMA TcpName == Tcp # First /\ Tcp # None /\ Tcp # Child(ShrMem) /\ First # None
                  /\ Child(ShrMem) # First
  BY NamesDiffer DEF Tcp, TCPSocket, ShrMem

(* A step of main that leaves the sockets alone and does not lead to where *)
(* a peer is needed.                                                       *)
LEMMA PeersWhenFirstMoves ==
    ASSUME Calm, First \in P, P' = P, listener' = listener, backlog' = backlog,
           \/ proc'[First].step \in {"call", "opened", "unlink", "wait", "drain"}
           \/ proc'[First].at = PosixQ,
           Begun(TCPSocket) => Begun(TCPSocket)'
    PROVE  Peers'
<1>1. PortFree'
  BY CalmFacts DEF Peers, PortFree
<1> QED
  BY <1>1 DEF Peers, FifoOurs, ShmServed, Connects, Connected, At, PosixQ, NamedPipeFifo, ShrMem, TCPSocket

LEMMA PeersWhenExits ==
    ASSUME Calm, NEW p \in P, Gone({p}),
           p = Tcp /\ First \in P =>
              ~At(First, TCPSocket, "connect") /\ ~At(First, TCPSocket, "write"),
           p = Child(ShrMem) => ~At(p, ShrMem, "setup")
    PROVE  Peers'
<1>1. P' = P \ {p} /\ \A q \in P' : proc'[q] = proc[q]
  BY DEF Gone, Restrict, P
<1>2. Peers /\ None \notin P
  BY CalmFacts
<1>3. fifo' = fifo /\ (listener # p => listener' = listener /\ backlog' = backlog)
      /\ (listener = p => listener' = None /\ backlog' = <<>>)
  BY DEF Gone
<1>4. Begun(TCPSocket) => Begun(TCPSocket)'
  BY <1>1 DEF Begun
<1>5. FifoOurs'
  BY <1>1, <1>2, <1>3 DEF Peers, FifoOurs, At
<1>6. ShmServed'
  BY <1>1, <1>2 DEF Peers, ShmServed, At
<1>7. PortFree'
  BY <1>2, <1>3, <1>4 DEF Peers, PortFree
<1>8. Connects'
  <2> SUFFICES ASSUME First \in P', At(First, TCPSocket, "connect")' PROVE Connects'
    BY DEF Connects
  <2>1. First \in P /\ At(First, TCPSocket, "connect") /\ p # Tcp
    BY <1>1 DEF At
  <2>2. listener # p
    BY <1>2, <2>1 DEF Peers, Connects
  <2> QED  BY <1>1, <1>2, <1>3, <2>1, <2>2 DEF Peers, Connects
<1>9. Connected'
  <2> SUFFICES ASSUME First \in P', At(First, TCPSocket, "write")' PROVE Connected'
    BY DEF Connected
  <2>1. First \in P /\ At(First, TCPSocket, "write") /\ p # Tcp /\ proc'[First] = proc[First]
    BY <1>1 DEF At
  <2>2. Tcp \in P' /\ proc'[Tcp] = proc[Tcp]
    BY <1>1, <1>2, <2>1 DEF Peers, Connected
  <2>3. \/ listener' = Tcp /\ backlog' = <<First>> /\ proc'[Tcp].medium = None
        \/ backlog' = <<>> /\ proc'[Tcp].medium = First
    BY <1>2, <1>3, <2>1, <2>2 DEF Peers, Connected
  <2> QED  BY <1>2, <2>1, <2>2, <2>3 DEF Peers, Connected, At
<1> QED  BY <1>5, <1>6, <1>7, <1>8, <1>9 DEF Peers

LEMMA PeersWhenForked ==
    ASSUME Calm, First \in P, Fork(First)
    PROVE  Peers'
<1> DEFINE a == proc[First].at
           w == [proc[First] EXCEPT !.step = ForkStep(proc[First].at)]
<1>1. a \in Benchmarks /\ Reader(First) = Child(a) /\ Child(a) # First /\ a \in Int
  BY ReaderName, NamesDiffer DEF Fork, Reader, Benchmarks
<1>2. proc[First].step = (IF a = NamedPipeFifo THEN "opened" ELSE "call") /\ proc[First] \in Processes
  BY DEF Fork, Calm, TypeOK, ProcOK
<1>3. /\ P' = P \cup {Child(a)} /\ proc'[First] = w /\ proc'[Child(a)] = Forked(First)
      /\ fifo' = fifo /\ listener' = listener /\ backlog' = backlog
  BY <1>1 DEF Fork, ForkStep, P, net
<1>4. /\ w.at = a
      /\ w.step = (IF a = PosixQ THEN "open" ELSE IF a = TCPSocket THEN "connect" ELSE "write")
      /\ Forked(First).at = a
      /\ a \in SetUp => Forked(First).step = "setup" /\ Forked(First).medium = None
  BY <1>2 DEF Forked, ForkStep, Processes, SetUp, PosixQ, ShrMem, TCPSocket, UDPSocket, NamedPipeFifo
<1>5. Peers
  BY CalmFacts
<1>6. FifoOurs'
  BY <1>3, <1>4 DEF FifoOurs, At
<1>7. ShmServed'
  BY <1>3, <1>4 DEF ShmServed, At, SetUp
<1>8. PortFree'
  <2>1. Begun(TCPSocket) => Begun(TCPSocket)'
    BY <1>2, <1>3, <1>4 DEF Begun
  <2> QED  BY <1>3, <1>5, <2>1 DEF Peers, PortFree
<1>9. Connects'
  <2> SUFFICES ASSUME a = TCPSocket PROVE Connects'
    BY <1>3, <1>4 DEF Connects, At
  <2>1. ~Begun(TCPSocket)
    BY <1>2 DEF Begun, TCPSocket, NamedPipeFifo
  <2>2. listener = None /\ backlog = <<>>
    BY <1>5, <2>1 DEF Peers, PortFree
  <2>3. Tcp = Child(a) /\ Tcp \in P' /\ proc'[Tcp] = Forked(First) /\ a \in SetUp
    BY <1>3 DEF Tcp, SetUp
  <2>4. proc'[Tcp].at = TCPSocket /\ proc'[Tcp].medium = None /\ proc'[Tcp].step = "setup"
    BY <1>4, <2>3
  <2> QED  BY <1>3, <2>2, <2>3, <2>4 DEF Connects
<1>10. Connected'
  BY <1>3, <1>4 DEF Connected, At
<1> QED  BY <1>6, <1>7, <1>8, <1>9, <1>10 DEF Peers

(* A step of main that reports nothing.                                    *)
LEMMA AccountsWhenFirstMoves ==
    ASSUME Calm, First \in P, P' = P, piped' = piped, copies' = copies,
           proc'[First].out = proc[First].out, ~Reads(First), ~Reads(First)',
           \A q \in P \ {First} : proc'[q] = proc[q],
           \A b \in Benchmarks : (Begun(b)' <=> Begun(b)) /\ (Told(b)' <=> Told(b))
    PROVE  Accounts'
<1>1. TypeOK /\ Accounts /\ \A q \in P : Reads(q) => proc[q].at \in Benchmarks
  BY CalmFacts DEF Calm
<1>2. ASSUME NEW q \in P
      PROVE  proc'[q].out = proc[q].out /\ (Reads(q)' <=> Reads(q))
               /\ (q # First \/ Reads(q) => proc'[q].at = proc[q].at)
  BY DEF Reads
<1> QED  BY <1>1, <1>2, AccountsKept

LEMMA AccountsWhenReports ==
    ASSUME Calm, First \in P, NEW r \in Processes, printf(First, r), piped' = piped,
           proc[First].at \in Benchmarks, proc[First].step \in {"write", "wait"},
           r.out = proc[First].out,
           \/ r.at = proc[First].at + 1 /\ r.step = "call"
           \/ r.at = proc[First].at /\ r.step = "drain"
    PROVE  /\ Accounts' /\ P' = P
           /\ proc'[First].step = r.step /\ proc'[First].at = r.at
<1> DEFINE a == proc[First].at
           s == Reported(r, a)
<1>1. /\ s.at = r.at /\ s.step = r.step
      /\ s.out = IF piped THEN proc[First].out \cup {a} ELSE proc[First].out
  BY DEF Reported, Processes
<1>2. /\ P' = P /\ proc'[First] = s /\ \A q \in P \ {First} : proc'[q] = proc[q]
      /\ copies' = IF piped THEN copies ELSE [copies EXCEPT ![a] = @ + 1]
  BY DEF printf, P, Calm, TypeOK, ProcOK
<1>3. a \in Benchmarks /\ a \in Int
  BY DEF Benchmarks
<1>4. \A b \in Benchmarks : b \in Int
  BY DEF Benchmarks
<1>5. ~Told(a) /\ ~Reads(First) /\ ~Reads(First)'
  BY <1>1, <1>2, <1>3 DEF Told, Reads
<1>6. \A b \in Benchmarks : Begun(b)' <=> Begun(b)
  BY <1>1, <1>2, <1>3, <1>4 DEF Begun
<1>7. \A b \in Benchmarks : Told(b)' <=> Told(b) \/ b = a
  BY <1>1, <1>2, <1>3, <1>4 DEF Told
<1>8. TypeOK /\ Accounts /\ \A q \in P : Reads(q) => proc[q].at \in Benchmarks
  BY CalmFacts DEF Calm
<1> HIDE DEF a, s
<1>9. Accounts'
  BY <1>1, <1>2, <1>3, <1>5, <1>6, <1>7, <1>8, AccountsReported
<1> QED  BY <1>1, <1>2, <1>9

LEMMA CalmQueueOpen ==
    ASSUME Calm, NEW p \in P, QueueOpen(p) PROVE Accounts' /\ Peers'
<1>1. p = First /\ proc[First] \in Processes /\ proc[First].at = PosixQ /\ proc[First].step = "open"
  BY CalmFacts DEF QueueOpen, At, Reads, Calm, TypeOK, ProcOK
<1>2. /\ P' = P /\ \A q \in P \ {First} : proc'[q] = proc[q]
      /\ proc'[First].at = PosixQ /\ proc'[First].step = "write" /\ proc'[First].out = proc[First].out
      /\ listener' = listener /\ backlog' = backlog /\ copies' = copies /\ piped' = piped
  BY <1>1 DEF QueueOpen, mq_open, P, env, net, Processes, Calm, TypeOK, ProcOK
<1>3. \A b : (Begun(b)' <=> Begun(b)) /\ (Told(b)' <=> Told(b))
  BY <1>1, <1>2 DEF Begun, Told
<1>4. Accounts'
  BY <1>1, <1>2, <1>3, AccountsWhenFirstMoves DEF Reads
<1>5. Peers'
  BY <1>1, <1>2, <1>3, PeersWhenFirstMoves
<1> QED  BY <1>4, <1>5

LEMMA CalmQueueUnlink ==
    ASSUME Calm, NEW p \in P, QueueUnlink(p) PROVE Accounts' /\ Peers'
<1>1. p = First /\ proc[First] \in Processes /\ proc[First].at = PosixQ /\ proc[First].step = "unlink"
  BY CalmFacts DEF QueueUnlink, At, Reads, Calm, TypeOK, ProcOK
<1>2. /\ P' = P /\ \A q \in P \ {First} : proc'[q] = proc[q]
      /\ proc'[First].at = PosixQ /\ proc'[First].step = "wait" /\ proc'[First].out = proc[First].out
      /\ listener' = listener /\ backlog' = backlog /\ copies' = copies /\ piped' = piped
  BY <1>1 DEF QueueUnlink, Step, P, env, net, Processes, Calm, TypeOK, ProcOK
<1>3. \A b : (Begun(b)' <=> Begun(b)) /\ (Told(b)' <=> Told(b))
  BY <1>1, <1>2 DEF Begun, Told
<1>4. Accounts'
  BY <1>1, <1>2, <1>3, AccountsWhenFirstMoves DEF Reads
<1>5. Peers'
  BY <1>1, <1>2, <1>3, PeersWhenFirstMoves
<1> QED  BY <1>4, <1>5

LEMMA CalmUnlink ==
    ASSUME Calm, NEW p \in P, FifoUnlink(p) PROVE Accounts' /\ Peers'
<1>1. p = First /\ proc[First] \in Processes
  BY CalmFacts DEF FifoUnlink, At, Reads, Calm, TypeOK, ProcOK
<1>2. /\ P' = P /\ \A q \in P \ {First} : proc'[q] = proc[q]
      /\ proc'[First] = [proc[First] EXCEPT !.step = "unlinked"]
      /\ fifo' = None /\ listener' = listener /\ backlog' = backlog /\ copies' = copies /\ piped' = piped
      /\ proc[First].at = NamedPipeFifo /\ proc[First].step = "call"
  BY <1>1 DEF FifoUnlink, At, Step, P, env
<1>3. /\ proc'[First].at = NamedPipeFifo /\ proc'[First].step = "unlinked"
      /\ proc'[First].out = proc[First].out
  BY <1>1, <1>2 DEF Processes
<1>4. \A b : (Begun(b)' <=> Begun(b)) /\ (Told(b)' <=> Told(b))
  BY <1>2, <1>3 DEF Begun, Told
<1>5. Accounts'
  BY <1>1, <1>2, <1>3, <1>4, AccountsWhenFirstMoves DEF Reads
<1>6. PortFree'
  BY <1>2, <1>4, CalmFacts DEF Peers, PortFree
<1>7. Peers'
  BY <1>2, <1>3, <1>6 DEF Peers, FifoOurs, ShmServed, Connects, Connected, At
<1> QED  BY <1>5, <1>7

LEMMA CalmMake ==
    ASSUME Calm, NEW p \in P, FifoMake(p) PROVE Accounts' /\ Peers'
<1>1. p = First /\ proc[First] \in Processes /\ fifo = None
  BY CalmFacts DEF FifoMake, At, Reads, Calm, TypeOK, ProcOK, Peers, FifoOurs
<1>2. /\ P' = P /\ \A q \in P \ {First} : proc'[q] = proc[q]
      /\ proc'[First] = [proc[First] EXCEPT !.step = "made"]
      /\ fifo' = First /\ listener' = listener /\ backlog' = backlog /\ copies' = copies /\ piped' = piped
      /\ proc[First].at = NamedPipeFifo /\ proc[First].step = "unlinked"
  BY <1>1 DEF FifoMake, At, Step, P, env
<1>3. /\ proc'[First].at = NamedPipeFifo /\ proc'[First].step = "made"
      /\ proc'[First].out = proc[First].out
  BY <1>1, <1>2 DEF Processes
<1>4. \A b : (Begun(b)' <=> Begun(b)) /\ (Told(b)' <=> Told(b))
  BY <1>2, <1>3 DEF Begun, Told
<1>5. Accounts'
  BY <1>1, <1>2, <1>3, <1>4, AccountsWhenFirstMoves DEF Reads
<1>6. PortFree'
  BY <1>2, <1>4, CalmFacts DEF Peers, PortFree
<1>7. Peers'
  BY <1>2, <1>3, <1>6 DEF Peers, FifoOurs, ShmServed, Connects, Connected, At
<1> QED  BY <1>5, <1>7

LEMMA CalmOpen ==
    ASSUME Calm, NEW p \in P, FifoOpen(p) PROVE Accounts' /\ Peers'
<1>1. p = First /\ proc[First] \in Processes /\ fifo # None
  BY CalmFacts, TcpName DEF FifoOpen, At, Reads, Calm, TypeOK, ProcOK, Peers, FifoOurs
<1>2. /\ P' = P /\ \A q \in P \ {First} : proc'[q] = proc[q]
      /\ proc' = [proc EXCEPT ![First].step = "opened", ![First].medium = fifo]
      /\ listener' = listener /\ backlog' = backlog /\ copies' = copies /\ piped' = piped
      /\ proc[First].at = NamedPipeFifo /\ proc[First].step = "made"
  BY <1>1 DEF FifoOpen, At, P, env, net
<1>3. /\ proc'[First].at = NamedPipeFifo /\ proc'[First].step = "opened"
      /\ proc'[First].out = proc[First].out
  BY <1>1, <1>2 DEF Processes, Calm, TypeOK, ProcOK
<1>4. \A b : (Begun(b)' <=> Begun(b)) /\ (Told(b)' <=> Told(b))
  BY <1>2, <1>3 DEF Begun, Told
<1>5. Accounts'
  BY <1>1, <1>2, <1>3, <1>4, AccountsWhenFirstMoves DEF Reads
<1>6. Peers'
  BY <1>1, <1>2, <1>3, <1>4, PeersWhenFirstMoves
<1> QED  BY <1>5, <1>6

LEMMA CalmFork ==
    ASSUME Calm, NEW p \in P, Fork(p) PROVE Accounts' /\ Peers'
<1>1. p = First
  BY CalmFacts DEF Fork, Reads
<1>2. OwnReaders /\ Accounts /\ TypeOK /\ faults = 0
  BY CalmFacts DEF Calm
<1> QED  BY <1>1, <1>2, AccountsWhenForked, PeersWhenForked

LEMMA FirstReader ==
    ASSUME Calm, First \in P
    PROVE  /\ Reader(First) = Child(proc[First].at)
           /\ proc[First].at = TCPSocket => Reader(First) = Tcp
<1>1. proc[First].at \in Int
  BY DEF Calm, TypeOK, ProcOK, Processes
<1> QED  BY <1>1, ReaderName, NamesDiffer DEF Reader, Tcp

LEMMA CalmConnect ==
    ASSUME Calm, NEW p \in P, TcpConnect(p) PROVE Accounts' /\ Peers'
<1>1. p = First /\ proc[First] \in Processes /\ proc[First].at = TCPSocket /\ proc[First].step = "connect"
  BY CalmFacts DEF TcpConnect, At, Reads, Calm, TypeOK, ProcOK
<1>2. /\ Tcp \in P /\ At(Tcp, TCPSocket, "read") /\ proc[Tcp].medium = None
      /\ backlog = <<>> /\ listener = Tcp
  BY <1>1, CalmFacts, FirstReader DEF Peers, Connects, TcpConnect, Awake, SetUp, At
<1>3. /\ proc' = [proc EXCEPT ![First].step = "write", ![First].conn = @ \cup {First}]
      /\ backlog' = Append(backlog, First) /\ listener' = listener
      /\ copies' = copies /\ piped' = piped
  BY <1>1, <1>2, TcpName DEF TcpConnect, env
<1>4. /\ P' = P /\ \A q \in P \ {First} : proc'[q] = proc[q]
      /\ proc'[First].at = TCPSocket /\ proc'[First].step = "write"
      /\ proc'[First].out = proc[First].out /\ First \in proc'[First].conn
  BY <1>1, <1>3 DEF P, Processes, Calm, TypeOK, ProcOK
<1>5. \A b : (Begun(b)' <=> Begun(b)) /\ (Told(b)' <=> Told(b))
  BY <1>1, <1>4 DEF Begun, Told
<1>6. Accounts'
  BY <1>1, <1>3, <1>4, <1>5, AccountsWhenFirstMoves DEF Reads
<1>7. backlog' = <<First>>
  BY <1>2, <1>3
<1>8. PortFree'
  BY <1>1, <1>4 DEF PortFree, Begun
<1>9. Connected'
  BY <1>2, <1>3, <1>4, <1>7, TcpName DEF Connected, At
<1>10. Peers'
  BY <1>4, <1>8, <1>9 DEF Peers, FifoOurs, ShmServed, Connects, At, TCPSocket, NamedPipeFifo, ShrMem
<1> QED  BY <1>6, <1>10

LEMMA CalmReport ==
    ASSUME Calm, First \in P, NEW r \in Processes, printf(First, r), piped' = piped,
           listener' = listener, backlog' = backlog,
           proc[First].at \in Benchmarks, proc[First].step \in {"write", "wait"},
           r.out = proc[First].out,
           \/ r.at = proc[First].at + 1 /\ r.step = "call"
           \/ r.at = proc[First].at /\ r.step = "drain"
    PROVE  Accounts' /\ Peers'
<1>1. /\ Accounts' /\ P' = P
      /\ proc'[First].step = r.step /\ proc'[First].at = r.at
  BY AccountsWhenReports
<1>2. Begun(TCPSocket) => Begun(TCPSocket)'
  BY <1>1 DEF Begun, TCPSocket, Benchmarks
<1>3. Peers'
  BY <1>1, <1>2, PeersWhenFirstMoves
<1> QED  BY <1>1, <1>3

LEMMA CalmOnward ==
    ASSUME Calm, First \in P, proc[First].at \in Benchmarks
    PROVE  /\ Onward(First) \in Processes /\ Onward(First).out = proc[First].out
           /\ Onward(First).at = proc[First].at + 1 /\ Onward(First).step = "call"
<1>1. Onward(First) \in Processes
  BY GoesOn DEF Calm, TypeOK
<1>2. Onward(First).out = proc[First].out
  BY DEF Onward, Calm, TypeOK, ProcOK, Processes
<1> QED  BY <1>1, <1>2, OnwardFields DEF Calm

LEMMA CalmWrite ==
    ASSUME Calm, NEW p \in P, Write(p) PROVE Accounts' /\ Peers'
<1>1. p = First /\ proc[First] \in Processes /\ proc[First].step = "write"
  BY CalmFacts DEF Write, CanWrite, Reads, Calm, TypeOK, ProcOK
<1>2. proc[First].at \in Benchmarks /\ piped' = piped /\ listener' = listener /\ backlog' = backlog
  BY <1>1 DEF Write, env, net, Calm, TypeOK, ProcOK, Placed
<1>3. CASE proc[p].at \in Reaped /\ Step(p, AfterWrite(proc[p].at)) /\ UNCHANGED copies
  <2>1. /\ P' = P /\ \A q \in P \ {First} : proc'[q] = proc[q]
        /\ proc'[First] = [proc[First] EXCEPT !.step = AfterWrite(proc[First].at)] /\ copies' = copies
    BY <1>1, <1>3 DEF Step, P
  <2>2. /\ proc'[First].at = proc[First].at /\ proc'[First].step \in {"unlink", "wait"}
        /\ proc'[First].out = proc[First].out
    BY <1>1, <2>1 DEF Processes, AfterWrite
  <2>3. \A b : (Begun(b)' <=> Begun(b)) /\ (Told(b)' <=> Told(b))
    BY <1>1, <2>1, <2>2 DEF Begun, Told
  <2>4. Accounts'
    BY <1>1, <1>2, <2>1, <2>2, <2>3, AccountsWhenFirstMoves DEF Reads
  <2>5. Peers'
    BY <1>1, <1>2, <2>1, <2>2, <2>3, PeersWhenFirstMoves
  <2> QED  BY <2>4, <2>5
<1>4. CASE proc[p].at = ShrMem /\ printf(p, [proc[p] EXCEPT !.step = "drain"])
  <2> DEFINE r == [proc[First] EXCEPT !.step = "drain"]
  <2>1. r \in Processes /\ r.out = proc[First].out /\ r.at = proc[First].at /\ r.step = "drain"
    BY <1>1 DEF Processes, Steps
  <2> QED  BY <1>1, <1>2, <1>4, <2>1, CalmReport
<1>5. CASE printf(p, Onward(p))
  BY <1>1, <1>2, <1>5, CalmOnward, CalmReport
<1> QED  BY <1>3, <1>4, <1>5 DEF Write, AfterWrite

LEMMA CalmWait ==
    ASSUME Calm, NEW p \in P, Wait(p) PROVE Accounts' /\ Peers'
<1>1. p = First /\ proc[First].step = "wait"
  BY CalmFacts DEF Wait, Reads
<1>2. proc[First].at \in Benchmarks /\ piped' = piped /\ listener' = listener /\ backlog' = backlog
  BY <1>1 DEF Wait, env, net, Calm, TypeOK, ProcOK, Placed
<1> QED  BY <1>1, <1>2, CalmOnward, CalmReport DEF Wait

LEMMA CalmDrain ==
    ASSUME Calm, NEW p \in P, Drain(p) PROVE Accounts' /\ Peers'
<1>1. p = First /\ proc[First].step = "drain" /\ proc[First].at = ShrMem
  BY CalmFacts DEF Drain, Reads, Calm, TypeOK, ProcOK, Placed
<1>2. /\ P' = P /\ \A q \in P \ {First} : proc'[q] = proc[q]
      /\ proc'[First] = Onward(First)
      /\ listener' = listener /\ backlog' = backlog /\ copies' = copies /\ piped' = piped
  BY <1>1 DEF Drain, Return, P, env, net, Calm, TypeOK, ProcOK
<1>3. /\ proc'[First].at = NamedPipeFifo /\ proc'[First].step = "call"
      /\ proc'[First].out = proc[First].out
  BY <1>1, <1>2, CalmOnward DEF ShrMem, NamedPipeFifo, Benchmarks
<1>4. \A b \in Benchmarks : (Begun(b)' <=> Begun(b)) /\ (Told(b)' <=> Told(b))
  BY <1>1, <1>2, <1>3 DEF Begun, Told, Benchmarks, ShrMem, NamedPipeFifo
<1>5. TCPSocket \in Benchmarks
  BY DEF TCPSocket, Benchmarks
<1>6. Accounts'
  BY <1>1, <1>2, <1>3, <1>4, AccountsWhenFirstMoves DEF Reads
<1>7. Peers'
  BY <1>1, <1>2, <1>3, <1>4, <1>5, PeersWhenFirstMoves
<1> QED  BY <1>6, <1>7

LEMMA CalmExits ==
    ASSUME Calm, NEW p \in P, exit(p), piped' = piped,
           p = First => proc[First].at = Exit,
           p = Tcp /\ First \in P =>
              ~At(First, TCPSocket, "connect") /\ ~At(First, TCPSocket, "write"),
           p = Child(ShrMem) => ~At(p, ShrMem, "setup")
    PROVE  Accounts' /\ Peers'
<1>1. Accounts'
  BY CalmFacts, AccountsWhenExits DEF Calm
<1>2. Peers'
  BY PeersWhenExits DEF exit
<1> QED  BY <1>1, <1>2

LEMMA CalmMainExit ==
    ASSUME Calm, NEW p \in P, MainExit(p) PROVE Accounts' /\ Peers'
<1>1. p = First /\ proc[First].at = Exit
  BY CalmFacts DEF MainExit, At, Reads
<1> QED  BY <1>1, TcpName, CalmExits DEF MainExit, env

(* The reader that ends is past its set-up, and that of TCPSocket has seen *)
(* its writer close the connection.                                        *)
LEMMA CalmFinish ==
    ASSUME Calm, NEW p \in P, Finish(p) PROVE Accounts' /\ Peers'
<1>1. Reads(p) /\ p # First /\ proc[p].step = "read" /\ exit(p) /\ piped' = piped
  BY CalmFacts DEF Finish, CanFinish, Reads, env
<1>2. ASSUME p = Tcp, First \in P
      PROVE  ~At(First, TCPSocket, "connect") /\ ~At(First, TCPSocket, "write")
  <2>1. proc[Tcp].at = TCPSocket
    BY <1>1, <1>2, CalmFacts, NamesDiffer DEF Tcp, TCPSocket, Benchmarks
  <2>2. proc[Tcp].medium # None /\ proc[Tcp].medium \notin proc[First].conn
    BY <1>2, <2>1 DEF Finish, CanFinish, AtEof
  <2>3. ~At(First, TCPSocket, "connect")
    BY <1>2, <2>2, CalmFacts DEF Peers, Connects
  <2>4. ~At(First, TCPSocket, "write")
    BY <1>2, <2>2, CalmFacts DEF Peers, Connected
  <2> QED  BY <2>3, <2>4
<1> QED  BY <1>1, <1>2, CalmExits DEF At

LEMMA CalmStranded ==
    ASSUME Calm, NEW p \in P, WriterStranded(p) PROVE FALSE
<1>1. p = First /\ proc[First].step = "write"
  BY CalmFacts DEF WriterStranded, At, Reads
<1>2. CASE At(p, ShrMem, "write") /\ Awake(p) /\ proc[p].medium = None
  BY <1>1, <1>2, CalmFacts, FirstReader DEF Peers, ShmServed, Awake, SetUp, At
<1>3. CASE At(p, TCPSocket, "write") /\ ~Accepted(p) /\ ~Pending(p)
  <2>1. /\ Tcp \in P /\ At(Tcp, TCPSocket, "read")
        /\ backlog = <<First>> \/ proc[Tcp].medium = First
    BY <1>1, <1>3, CalmFacts DEF Peers, Connected
  <2>2. backlog = <<First>> => Pending(First)
    <3>1. 1 \in DOMAIN <<First>> /\ <<First>>[1] = First
      OBVIOUS
    <3> QED  BY <3>1 DEF Pending
  <2> QED  BY <1>1, <1>3, <2>1, <2>2 DEF Accepted
<1> QED  BY <1>2, <1>3 DEF WriterStranded

(* A reader's step that leaves everybody where he is, and his buffer.      *)
LEMMA AccountsWhenReaderMoves ==
    ASSUME Calm, P' = P, piped' = piped, copies' = copies,
           \A q \in P : /\ proc'[q].at = proc[q].at /\ proc'[q].out = proc[q].out
                        /\ Reads(q)' <=> Reads(q),
           First \in P => proc'[First].step = proc[First].step
    PROVE  /\ Accounts'
           /\ \A b : (Begun(b)' <=> Begun(b)) /\ (Told(b)' <=> Told(b))
<1>1. \A b : (Begun(b)' <=> Begun(b)) /\ (Told(b)' <=> Told(b))
  BY DEF Begun, Told
<1>2. TypeOK /\ Accounts /\ \A q \in P : Reads(q) => proc[q].at \in Benchmarks
  BY CalmFacts DEF Calm
<1> QED  BY <1>1, <1>2, AccountsKept

LEMMA CalmSetup ==
    ASSUME Calm, NEW r \in P, ReaderSetup(r) PROVE Accounts' /\ Peers'
<1>1. /\ Reads(r) /\ proc[r].step = "setup" /\ r # First /\ r = Child(proc[r].at)
      /\ proc[r].at \in Benchmarks /\ Begun(proc[r].at) /\ piped' = piped /\ Peers
      /\ First \in P => ~Reads(First)
  BY CalmFacts DEF ReaderSetup, Reads, env
<1>2. \A q \in P : proc[q] \in Processes
  BY DEF Calm, TypeOK, ProcOK
<1>7. CASE /\ proc[r].at = PosixQ
           /\ mq_open(r, "read")
           /\ UNCHANGED <<net, copies>>
  <2>1. r # Tcp /\ r # Child(ShrMem)
    BY <1>1, <1>7, NamesDiffer DEF Tcp, TCPSocket, ShrMem, PosixQ
  <2>2. /\ P' = P /\ proc'[r].at = proc[r].at /\ proc'[r].out = proc[r].out /\ proc'[r].step = "read"
        /\ \A q \in P \ {r} : proc'[q] = proc[q]
    BY <1>2, <1>7 DEF mq_open, P, Processes, Calm, TypeOK, ProcOK
  <2>3. /\ Accounts'
        /\ \A b : (Begun(b)' <=> Begun(b)) /\ (Told(b)' <=> Told(b))
    BY <1>1, <1>7, <2>2, AccountsWhenReaderMoves DEF Reads
  <2>4. fifo' = fifo /\ listener' = listener /\ backlog' = backlog
    BY <1>7 DEF net
  <2> QED
    BY <1>1, <2>1, <2>2, <2>3, <2>4 DEF Peers, FifoOurs, ShmServed, PortFree, Connects, Connected, At
<1>3. CASE /\ proc[r].at = ShrMem
           /\ proc' = [q \in P |->
                        IF q = r THEN [proc[r] EXCEPT !.step = "read", !.medium = Front(r)]
                          ELSE IF q = Front(r) THEN [proc[q] EXCEPT !.medium = q] ELSE proc[q]]
           /\ UNCHANGED <<net, copies>>
  <2>1. Front(r) = First /\ r = Child(ShrMem) /\ r # Tcp
    <3>1. proc[r].at \in Int /\ First \in Names
      BY <1>1, NamesDiffer DEF Benchmarks
    <3>2. ShrMem \in Int /\ r = Child(ShrMem)
      BY <1>1, <1>3, <3>1
    <3>3. Front(Append(First, ShrMem)) = First /\ Append(First, ShrMem) = Child(ShrMem)
      BY <3>1, <3>2, ReaderName
    <3> QED  BY <3>2, <3>3, TcpName
  <2>2. /\ P' = P /\ proc'[r].at = proc[r].at /\ proc'[r].out = proc[r].out /\ proc'[r].step = "read"
        /\ \A q \in P \ {r, First} : proc'[q] = proc[q]
    BY <1>2, <1>3, <2>1 DEF P, Processes
  <2>3. First \in P => /\ proc'[First].at = proc[First].at /\ proc'[First].step = proc[First].step
                       /\ proc'[First].out = proc[First].out /\ proc'[First].conn = proc[First].conn
                       /\ proc'[First].medium = First
    BY <1>1, <1>2, <1>3, <2>1 DEF Processes
  <2>4. /\ Accounts'
        /\ \A b : (Begun(b)' <=> Begun(b)) /\ (Told(b)' <=> Told(b))
    BY <1>1, <1>3, <2>2, <2>3, AccountsWhenReaderMoves DEF Reads
  <2>5. fifo' = fifo /\ listener' = listener /\ backlog' = backlog
    BY <1>3 DEF net
  <2>6. FifoOurs'
    BY <1>1, <2>2, <2>3, <2>5 DEF Peers, FifoOurs, At
  <2>7. ShmServed'
    BY <2>2, <2>3, TcpName DEF ShmServed
  <2>8. PortFree'
    BY <1>1, <2>4, <2>5 DEF Peers, PortFree
  <2>9. Connects'
    BY <1>1, <2>1, <2>2, <2>3, <2>5, TcpName DEF Peers, Connects, At
  <2>10. Connected'
    BY <1>1, <2>1, <2>2, <2>3, <2>5, TcpName DEF Peers, Connected, At
  <2> QED  BY <2>4, <2>6, <2>7, <2>8, <2>9, <2>10 DEF Peers
<1>4. CASE /\ proc[r].at = UDPSocket
           /\ proc' = [proc EXCEPT ![r].step = "read", ![r].medium = r]
           /\ UNCHANGED <<net, copies>>
  <2>1. r # Tcp /\ r # Child(ShrMem)
    BY <1>1, <1>4, NamesDiffer DEF Tcp, TCPSocket, ShrMem, UDPSocket
  <2>2. /\ P' = P /\ proc'[r].at = proc[r].at /\ proc'[r].out = proc[r].out /\ proc'[r].step = "read"
        /\ \A q \in P \ {r} : proc'[q] = proc[q]
    BY <1>2, <1>4 DEF P, Processes, Calm, TypeOK, ProcOK
  <2>3. /\ Accounts'
        /\ \A b : (Begun(b)' <=> Begun(b)) /\ (Told(b)' <=> Told(b))
    BY <1>1, <1>4, <2>2, AccountsWhenReaderMoves DEF Reads
  <2>4. fifo' = fifo /\ listener' = listener /\ backlog' = backlog
    BY <1>4 DEF net
  <2> QED
    BY <1>1, <2>1, <2>2, <2>3, <2>4 DEF Peers, FifoOurs, ShmServed, PortFree, Connects, Connected, At
<1>5. CASE /\ proc[r].at = TCPSocket /\ listener = None
           /\ listener' = r /\ Step(r, "read")
           /\ UNCHANGED <<fifo, backlog, copies>>
  <2>1. r = Tcp /\ r # Child(ShrMem)
    BY <1>1, <1>5, TcpName DEF Tcp
  <2>2. /\ P' = P /\ proc'[r].at = proc[r].at /\ proc'[r].out = proc[r].out /\ proc'[r].step = "read"
        /\ proc'[r].medium = proc[r].medium
        /\ \A q \in P \ {r} : proc'[q] = proc[q]
    BY <1>2, <1>5 DEF Step, P, Processes, Calm, TypeOK, ProcOK
  <2>3. /\ Accounts'
        /\ \A b : (Begun(b)' <=> Begun(b)) /\ (Told(b)' <=> Told(b))
    BY <1>1, <1>5, <2>2, AccountsWhenReaderMoves DEF Reads
  <2>4. FifoOurs' /\ ShmServed'
    BY <1>1, <1>5, <2>1, <2>2 DEF Peers, FifoOurs, ShmServed, At
  <2>5. PortFree'
    BY <1>1, <1>5, <2>3 DEF PortFree
  <2>6. Connects'
    BY <1>1, <1>5, <2>1, <2>2 DEF Peers, Connects, At
  <2>7. Connected'
    BY <1>1, <1>5, <2>1, <2>2 DEF Peers, Connected, At
  <2> QED  BY <2>3, <2>4, <2>5, <2>6, <2>7 DEF Peers
<1>6. CASE proc[r].at = TCPSocket /\ listener # None /\ exit(r)
  <2>1. r = Tcp /\ r # Child(ShrMem)
    BY <1>1, <1>6, TcpName DEF Tcp
  <2>2. First \in P => ~At(First, TCPSocket, "connect") /\ ~At(First, TCPSocket, "write")
    BY <1>1, <1>6, <2>1 DEF Peers, Connects, Connected, At
  <2> QED  BY <1>1, <1>6, <2>1, <2>2, CalmExits
<1> QED  BY <1>3, <1>4, <1>5, <1>6, <1>7 DEF ReaderSetup

LEMMA CalmAccept ==
    ASSUME Calm, NEW r \in P, TcpAccept(r) PROVE Accounts' /\ Peers'
<1>1. /\ Reads(r) /\ proc[r].step = "read" /\ r # First /\ r = Tcp /\ proc[r].at = TCPSocket
      /\ backlog # <<>> /\ proc[r] \in Processes /\ piped' = piped /\ Peers /\ r # Child(ShrMem)
  BY CalmFacts, TcpName DEF TcpAccept, At, Reads, env, Tcp, Calm, TypeOK, ProcOK
<1>2. /\ P' = P /\ proc'[r].at = proc[r].at /\ proc'[r].out = proc[r].out
      /\ proc'[r].step = proc[r].step /\ proc'[r].medium = Head(backlog)
      /\ \A q \in P \ {r} : proc'[q] = proc[q]
      /\ fifo' = fifo /\ listener' = listener /\ backlog' = Tail(backlog) /\ copies' = copies
  BY <1>1 DEF TcpAccept, P, Processes, Calm, TypeOK, ProcOK
<1>3. /\ Accounts'
      /\ \A b : (Begun(b)' <=> Begun(b)) /\ (Told(b)' <=> Told(b))
  BY <1>1, <1>2, AccountsWhenReaderMoves DEF Reads
<1>4. FifoOurs' /\ ShmServed'
  BY <1>1, <1>2 DEF Peers, FifoOurs, ShmServed, At
<1>5. PortFree'
  BY <1>1, <1>2, <1>3 DEF Peers, PortFree
<1>6. Connects'
  BY <1>1, <1>2 DEF Peers, Connects, At
<1>7. Connected'
  <2> SUFFICES ASSUME First \in P, At(First, TCPSocket, "write") PROVE Connected'
    BY <1>1, <1>2 DEF Connected, At
  <2>1. backlog = <<First>> /\ First \in proc[First].conn
    BY <1>1 DEF Peers, Connected
  <2>2. Head(backlog) = First /\ Tail(backlog) = <<>>
    BY <2>1
  <2> QED  BY <1>1, <1>2, <2>1, <2>2 DEF Connected, At
<1> QED  BY <1>3, <1>4, <1>5, <1>6, <1>7 DEF Peers

LEMMA ReportsInvariance == TypeOK /\ WInv /\ RInv /\ [Next]_vars => RInv'
<1> SUFFICES ASSUME TypeOK, WInv, RInv, [Next]_vars, faults' = 0 PROVE Accounts' /\ Peers'
  BY DEF RInv
<1>1. faults + 1 # 0
  BY DEF TypeOK
<1>2. CASE UNCHANGED vars
  <2>1. /\ proc' = proc /\ P' = P /\ piped' = piped /\ copies' = copies
        /\ fifo' = fifo /\ listener' = listener /\ backlog' = backlog
    BY <1>2 DEF vars, env, net, P
  <2>2. Calm
    BY <1>2 DEF Calm, vars
  <2>3. Accounts' /\ \A b : (Begun(b)' <=> Begun(b)) /\ (Told(b)' <=> Told(b))
    BY <2>1, <2>2, AccountsWhenReaderMoves DEF Reads
  <2>4. Peers'
    BY <2>1, <2>2, <2>3, CalmFacts DEF Peers, FifoOurs, ShmServed, PortFree, Connects, Connected, At
  <2> QED  BY <2>3, <2>4
<1>3. ASSUME NEW p \in P,
             \/ QueueOpen(p) \/ QueueUnlink(p)
             \/ FifoUnlink(p) \/ FifoMake(p) \/ FifoOpen(p) \/ Fork(p)
             \/ TcpConnect(p) \/ Write(p) \/ Wait(p) \/ Drain(p) \/ MainExit(p)
             \/ ReaderSetup(p) \/ TcpAccept(p) \/ Finish(p)
             \/ WriterStranded(p)
      PROVE  Accounts' /\ Peers'
  <2>1. Calm
    BY <1>3 DEF Calm, QueueOpen, QueueUnlink, FifoUnlink, FifoMake, FifoOpen, Fork, TcpConnect, Write,
       Wait, Drain, MainExit, ReaderSetup, TcpAccept, Finish, WriterStranded
  <2> QED
    BY <1>3, <2>1, CalmQueueOpen, CalmQueueUnlink, CalmUnlink, CalmMake, CalmOpen, CalmFork, CalmConnect, CalmWrite, CalmWait, CalmDrain,
       CalmMainExit, CalmSetup, CalmAccept, CalmFinish, CalmStranded
<1>4. ASSUME NEW p \in P,
             \/ ReaderFails(p) \/ ReaderReturns(p) \/ FifoReadFails(p)
             \/ WriterFails(p) \/ Kill(p)
      PROVE  FALSE
  BY <1>1, <1>4 DEF ReaderFails, ReaderReturns, FifoReadFails, WriterFails, Kill, Fault
<1> QED  BY <1>2, <1>3, <1>4 DEF Next, Terminating

LEMMA InitReports == Init => WInv /\ RInv
<1> SUFFICES ASSUME Init PROVE WInv /\ RInv
  OBVIOUS
<1>1. /\ P = {First} /\ ~Reads(First) /\ proc[First].at = 1 /\ proc[First].step = "call"
      /\ proc[First].out = {}
  BY DEF Init, P, Reads, PosixQ
<1>2. WInv
  BY <1>1, SecondName DEF WInv, OwnReaders, SecondHolds, Writers, TwoWriters
<1>3. \A b \in Benchmarks : ~Begun(b) /\ ~Told(b)
  BY <1>1 DEF Begun, Told, Benchmarks
<1>4. ReadersBegun
  BY <1>1 DEF ReadersBegun
<1>5. Buffers
  BY <1>1, <1>3 DEF Buffers, Buffer
<1>6. Ended = {}
  BY <1>1, <1>3 DEF Ended, Benchmarks, Exit
<1>7. Flushed
  <2>1. \A b : EndedAfter(b) = {}
    BY <1>6 DEF EndedAfter
  <2> QED  BY <1>3, <2>1, FS_EmptySet DEF Flushed, Init
<1>8. Peers
  BY <1>1 DEF Peers, FifoOurs, ShmServed, PortFree, Connects, Connected, At, Init,
     ShrMem, NamedPipeFifo, TCPSocket
<1> QED  BY <1>2, <1>4, <1>5, <1>7, <1>8 DEF RInv, Accounts

(* A run of ipc_bm without a fault that has ended wrote each report once   *)
(* to a terminal, and into a pipe or file once more for each process       *)
(* forked after it: their exit (ipc_bm.c:816 and the readers' own) flushes *)
(* the buffer they inherited.                                              *)
THEOREM ReportsOnce == Spec => []ReportsWritten
<1>1. Init => WInv /\ RInv
  BY InitReports
<1>2. TypeOK /\ RInv => ReportsWritten
  <2> SUFFICES ASSUME TypeOK, RInv, faults = 0, P = {}, NEW b \in Benchmarks
               PROVE  copies[b] = IF piped THEN Exit - b ELSE 1
    BY DEF ReportsWritten
  <2>1. copies[b] = IF piped THEN Cardinality(EndedAfter(b)) ELSE 1
    BY DEF RInv, Accounts, Flushed, Told
  <2>2. EndedAfter(b) = (b + 1)..Exit
    BY DEF EndedAfter, Ended, Begun, Benchmarks, Exit
  <2>3. b + 1 \in Int /\ Exit \in Int /\ b + 1 <= Exit /\ Exit - (b + 1) + 1 = Exit - b
    BY DEF Benchmarks, Exit
  <2>4. Cardinality((b + 1)..Exit) = Exit - (b + 1) + 1
    <3> DEFINE l == b + 1
    <3>1. l \in Int /\ Exit \in Int /\ ~(l > Exit)
      BY <2>3
    <3> HIDE DEF l
    <3>2. Cardinality(l..Exit) = Exit - l + 1
      BY <3>1, FS_Interval
    <3> QED  BY <3>2 DEF l
  <2> QED  BY <2>1, <2>2, <2>3, <2>4
<1> QED  BY <1>1, <1>2, TypeCorrect, WritersInvariance, ReportsInvariance, PTL DEF Spec
-----------------------------------------------------------------------------
(* Who waits for what.  In these benchmarks the reader waits for messages  *)
(* that are never lost, ...                                                *)
Local == {ShrMem, NamedPipeFifo, AnonPipe, SockPair}

Sent(b) ==
    First \in P =>
        \/ b < proc[First].at
        \/ b = proc[First].at /\ proc[First].step \in {"wait", "drain"}

Message(b) == Unit(b, First, First)

FifoKept ==
    First \in P /\ proc[First].at = NamedPipeFifo /\ proc[First].step \in {"opened", "write"} =>
        proc[First].medium = First

UnitsSent ==
    \A u \in units : u.at \in Local => u = Message(u.at) /\ Child(u.at) \in P /\ Sent(u.at)

SentWaits ==
    \A b \in Local : Child(b) \in P /\ Sent(b) =>
        Message(b) \in units /\ proc[Child(b)].at = b /\ proc[Child(b)].step = "read"

Listens ==
    \A b \in Local : Child(b) \in P /\ proc[Child(b)].step = "read" => proc[Child(b)].medium = First

ReaderStays ==
    \A b \in Local : First \in P /\ proc[First].at = b /\ proc[First].step = "write" => Child(b) \in P

(* ... and that of TCPSocket for the end of those that have the connection.*)
Udp == Child(UDPSocket)

Past ==
    First \in P =>
        \/ TCPSocket < proc[First].at
        \/ proc[First].at = TCPSocket /\ proc[First].step = "write"

TcpWaits ==
    Tcp \in P /\ Past =>
        /\ proc[Tcp].at = TCPSocket /\ proc[Tcp].step = "read"
        /\ \/ listener = Tcp /\ backlog = <<First>> /\ proc[Tcp].medium = None
           \/ proc[Tcp].medium = First

Holders == \A q \in P : proc[q].conn = IF Past /\ q \in {First, Udp} THEN {First} ELSE {}

TcpStays == Past /\ (First \in P \/ Udp \in P) => Tcp \in P

Inbound == FifoKept /\ UnitsSent /\ SentWaits /\ Listens /\ ReaderStays
Connection == TcpWaits /\ Holders /\ TcpStays

HInv == faults = 0 => Inbound /\ Connection

CalmReady == Calm /\ Inbound /\ Connection

LEMMA LocalNames ==
    /\ Local \subseteq Benchmarks /\ Local \subseteq Int
    /\ \A b \in Local : Child(b) # First /\ Child(b) # None /\ Child(b) # Tcp /\ Child(b) # Udp
    /\ \A b, c \in Local : Child(b) = Child(c) => b = c
    /\ Udp # Tcp /\ Udp # First /\ Udp # None
<1>1. Local \subseteq Benchmarks /\ Local \subseteq Int /\ TCPSocket \notin Local /\ UDPSocket \notin Local
      /\ TCPSocket \in Int /\ UDPSocket \in Int /\ UDPSocket # 0 /\ TCPSocket # UDPSocket
      /\ \A b \in Local : b # 0
  BY DEF Local, Benchmarks, PosixQ, ShrMem, NamedPipeFifo, AnonPipe, SockPair, TCPSocket, UDPSocket
<1> QED  BY <1>1, NamesDiffer DEF Tcp, Udp

LEMMA LocalNumbers == Local = 2..5 /\ PosixQ = 1 /\ TCPSocket = 6 /\ UDPSocket = 7 /\ Exit = 8
  BY DEF Local, PosixQ, ShrMem, NamedPipeFifo, AnonPipe, SockPair, TCPSocket, UDPSocket, Exit

LEMMA ChildAt ==
    ASSUME Calm, NEW b \in Benchmarks, Child(b) \in P
    PROVE  /\ Reads(Child(b)) /\ proc[Child(b)].at = b
           /\ proc[Child(b)].step \in {"setup", "read"} /\ Begun(b)
<1>1. b \in Int /\ Child(b) # First
  BY NamesDiffer DEF Benchmarks
<1>2. Reads(Child(b)) /\ Child(b) = Child(proc[Child(b)].at) /\ proc[Child(b)].at \in Benchmarks
      /\ Begun(proc[Child(b)].at)
  BY <1>1, CalmFacts
<1>3. proc[Child(b)].at \in Int
  BY <1>2 DEF Benchmarks
<1>4. proc[Child(b)].at = b
  BY <1>1, <1>2, <1>3, NamesDiffer
<1> QED  BY <1>2, <1>4 DEF Reads

(* A step of main that changes nothing of this.                            *)
LEMMA ReadyWhenFirstMoves ==
    ASSUME CalmReady, First \in P, P' = P, listener' = listener, backlog' = backlog,
           units \subseteq units', \A u \in units' \ units : u.at \notin Local,
           \A q \in P \ {First} : proc'[q] = proc[q],
           proc'[First].conn = proc[First].conn,
           proc'[First].step = "write" => proc'[First].at = PosixQ,
           proc'[First].at = NamedPipeFifo /\ proc'[First].step = "opened" => proc'[First].medium = First,
           \A b \in Local : Sent(b)' <=> Sent(b),
           Past' <=> Past
    PROVE  Inbound' /\ Connection'
<1>1. Inbound /\ Connection /\ \A b \in Local : Child(b) # First
  BY LocalNames DEF CalmReady
<1>2. FifoKept' /\ ReaderStays'
  BY LocalNumbers DEF FifoKept, ReaderStays, NamedPipeFifo
<1>3. UnitsSent'
  BY <1>1 DEF Inbound, UnitsSent, Message, Unit
<1>4. SentWaits' /\ Listens'
  BY <1>1 DEF Inbound, SentWaits, Listens, Message, Unit
<1>5. TcpWaits' /\ Holders' /\ TcpStays'
  BY <1>1, TcpName DEF Connection, TcpWaits, Holders, TcpStays
<1> QED  BY <1>2, <1>3, <1>4, <1>5 DEF Inbound, Connection

(* The messages are sent.                                                  *)
LEMMA ReadyWhenSent ==
    ASSUME CalmReady, First \in P, P' = P, listener' = listener, backlog' = backlog,
           NEW a \in Local, proc[First].at = a, proc[First].step = "write",
           Child(a) \in P => proc[Child(a)].step # "setup",
           units' = units \cup {Message(a)},
           \A q \in P \ {First} : proc'[q] = proc[q],
           proc'[First].conn = proc[First].conn, proc'[First].step \in {"call", "wait", "drain"},
           \A b \in Local : Sent(b)' <=> Sent(b) \/ b = a,
           Past' <=> Past
    PROVE  Inbound' /\ Connection'
<1>1. Inbound /\ Connection /\ \A b \in Local : Child(b) # First
  BY LocalNames DEF CalmReady
<1>2. Child(a) \in P
  BY <1>1 DEF Inbound, ReaderStays
<1>3. Reads(Child(a)) /\ proc[Child(a)].at = a /\ proc[Child(a)].step = "read"
  <2>1. Reads(Child(a)) /\ Child(a) = Child(proc[Child(a)].at) /\ proc[Child(a)].at \in Benchmarks
    BY <1>1, <1>2, CalmFacts DEF CalmReady
  <2>2. proc[Child(a)].at = a
    BY <2>1, LocalNames, NamesDiffer DEF Benchmarks
  <2> QED  BY <1>2, <2>1, <2>2 DEF Reads
<1>4. FifoKept' /\ ReaderStays'
  BY DEF FifoKept, ReaderStays
<1>5. Message(a).at = a
  BY DEF Message, Unit
<1>6. UnitsSent'
  BY <1>1, <1>2, <1>5 DEF Inbound, UnitsSent, Message, Unit
<1>7. SentWaits'
  BY <1>1, <1>3 DEF Inbound, SentWaits, Message, Unit
<1>8. Listens'
  BY <1>1 DEF Inbound, Listens
<1>9. TcpWaits' /\ Holders' /\ TcpStays'
  BY <1>1, TcpName DEF Connection, TcpWaits, Holders, TcpStays
<1> QED  BY <1>4, <1>6, <1>7, <1>8, <1>9 DEF Inbound, Connection

(* A process ends: main at its end, a reader that has its messages or its  *)
(* end-of-file.                                                            *)
LEMMA ReadyWhenExits ==
    ASSUME CalmReady, NEW p \in P, Gone({p}), units' \subseteq units,
           p = First => proc[First].at = Exit,
           p = Tcp => First \notin P /\ Udp \notin P,
           \A b \in Local : IF p = Child(b) THEN Sent(b) /\ Message(b) \notin units'
                            ELSE Message(b) \in units => Message(b) \in units'
    PROVE  Inbound' /\ Connection'
<1>1. P' = P \ {p} /\ \A q \in P' : proc'[q] = proc[q]
  BY DEF Gone, Restrict, P
<1>2. Inbound /\ Connection
  BY DEF CalmReady
<1>3. listener # p => listener' = listener /\ backlog' = backlog
  BY DEF Gone
<1>4. \A b \in Local : Sent(b)' <=> Sent(b)
  BY <1>1, LocalNumbers DEF Sent
<1>5. Past' <=> Past
  BY <1>1 DEF Past, TCPSocket, Exit
<1>6. FifoKept'
  BY <1>1, <1>2 DEF Inbound, FifoKept
<1>7. ReaderStays'
  <2> SUFFICES ASSUME NEW b \in Local, First \in P', proc'[First].at = b, proc'[First].step = "write"
               PROVE  Child(b) \in P'
    BY DEF ReaderStays
  <2>1. First \in P /\ proc[First].at = b /\ proc[First].step = "write"
    BY <1>1
  <2>2. ~Sent(b) /\ Child(b) \in P
    BY <1>2, <2>1, LocalNumbers DEF Sent, Inbound, ReaderStays
  <2> QED  BY <1>1, <2>2
<1>8. UnitsSent'
  <2> SUFFICES ASSUME NEW u \in units', u.at \in Local
               PROVE  u = Message(u.at) /\ Child(u.at) \in P' /\ Sent(u.at)'
    BY DEF UnitsSent, Message, Unit
  <2>1. u = Message(u.at) /\ Child(u.at) \in P /\ Sent(u.at)
    BY <1>2 DEF Inbound, UnitsSent
  <2>2. Child(u.at) # p
    BY <2>1
  <2> QED  BY <1>1, <1>4, <2>1, <2>2
<1>9. SentWaits'
  <2> SUFFICES ASSUME NEW b \in Local, Child(b) \in P', Sent(b)'
               PROVE  Message(b) \in units' /\ proc'[Child(b)].at = b /\ proc'[Child(b)].step = "read"
    BY DEF SentWaits, Message, Unit
  <2>1. Child(b) \in P /\ Sent(b) /\ p # Child(b) /\ proc'[Child(b)] = proc[Child(b)]
    BY <1>1, <1>4
  <2> QED  BY <1>2, <2>1 DEF Inbound, SentWaits
<1>10. Listens'
  BY <1>1, <1>2 DEF Inbound, Listens
<1>11. TcpWaits'
  <2> SUFFICES ASSUME Tcp \in P', Past' PROVE TcpWaits'
    BY DEF TcpWaits
  <2>1. Tcp \in P /\ p # Tcp /\ proc'[Tcp] = proc[Tcp]
    BY <1>1
  <2> QED  BY <1>2, <1>3, <1>5, <2>1 DEF Connection, TcpWaits
<1>12. Holders'
  BY <1>1, <1>2, <1>5 DEF Connection, Holders
<1>13. TcpStays'
  BY <1>1, <1>2, <1>5 DEF Connection, TcpStays
<1> QED  BY <1>6, <1>7, <1>8, <1>9, <1>10, <1>11, <1>12, <1>13 DEF Inbound, Connection

LEMMA ReadyWhenForked ==
    ASSUME CalmReady, First \in P, Fork(First)
    PROVE  Inbound' /\ Connection'
<1> DEFINE a == proc[First].at
           w == [proc[First] EXCEPT !.step = ForkStep(proc[First].at)]
<1>1. a \in Benchmarks /\ Reader(First) = Child(a) /\ Child(a) # First /\ a \in Int
  BY ReaderName, NamesDiffer DEF Fork, Reader, Benchmarks
<1>2. proc[First].step = (IF a = NamedPipeFifo THEN "opened" ELSE "call") /\ proc[First] \in Processes
  BY DEF Fork, CalmReady, Calm, TypeOK, ProcOK
<1>3. /\ P' = P \cup {Child(a)} /\ proc'[First] = w /\ proc'[Child(a)] = Forked(First)
      /\ \A q \in P \ {First, Child(a)} : proc'[q] = proc[q]
      /\ units' = units /\ listener' = listener /\ backlog' = backlog
  BY <1>1 DEF Fork, ForkStep, P, net
<1>4. /\ w.at = a
      /\ w.step = (IF a = PosixQ THEN "open" ELSE IF a = TCPSocket THEN "connect" ELSE "write")
      /\ w.medium = proc[First].medium /\ w.conn = proc[First].conn
      /\ Forked(First).at = a /\ Forked(First).conn = proc[First].conn
      /\ Forked(First).step = (IF a \in SetUp \cup {PosixQ} THEN "setup" ELSE "read")
      /\ a = NamedPipeFifo => Forked(First).medium = proc[First].medium
      /\ a \notin SetUp \cup {PosixQ, NamedPipeFifo} => Forked(First).medium = First
  BY <1>2 DEF Forked, ForkStep, Processes, SetUp, PosixQ, ShrMem, TCPSocket, UDPSocket, NamedPipeFifo
<1>5. Inbound /\ Connection
  BY DEF CalmReady
<1>6. \A b \in Local : (Sent(b)' <=> Sent(b)) /\ (b = a => ~Sent(b))
  BY <1>1, <1>2, <1>3, <1>4, LocalNumbers DEF Sent
<1>7. /\ a # TCPSocket => (Past' <=> Past)
      /\ a = TCPSocket => ~Past' /\ ~Past
      /\ a = UDPSocket => Past
  BY <1>1, <1>2, <1>3, <1>4 DEF Past, PosixQ, TCPSocket, UDPSocket, NamedPipeFifo
<1>8. /\ a # TCPSocket => Child(a) # Tcp
      /\ a # UDPSocket => Child(a) # Udp
      /\ a = UDPSocket => Child(a) = Udp
      /\ Tcp # First /\ Udp # First
      /\ \A b \in Local : Child(b) # First /\ (b # a => Child(b) # Child(a))
  BY <1>1, LocalNames, NamesDiffer, TcpName DEF Tcp, Udp, TCPSocket, UDPSocket
<1>9. FifoKept'
  BY <1>2, <1>3, <1>4, <1>5 DEF Inbound, FifoKept
<1>10. UnitsSent'
  BY <1>3, <1>5, <1>6 DEF Inbound, UnitsSent, Message, Unit
<1>11. SentWaits'
  <2> SUFFICES ASSUME NEW b \in Local, Child(b) \in P', Sent(b)'
               PROVE  Message(b) \in units' /\ proc'[Child(b)].at = b /\ proc'[Child(b)].step = "read"
    BY DEF SentWaits, Message, Unit
  <2>1. Sent(b) /\ b # a
    BY <1>6
  <2>2. Child(b) \in P /\ proc'[Child(b)] = proc[Child(b)]
    BY <1>3, <1>8, <2>1
  <2> QED  BY <1>3, <1>5, <2>1, <2>2 DEF Inbound, SentWaits
<1>12. Listens'
  <2> SUFFICES ASSUME NEW b \in Local, Child(b) \in P', proc'[Child(b)].step = "read"
               PROVE  proc'[Child(b)].medium = First
    BY DEF Listens
  <2>1. CASE b # a
    BY <1>3, <1>5, <1>8, <2>1 DEF Inbound, Listens
  <2>2. CASE b = a
    <3>1. a = NamedPipeFifo => proc[First].medium = First
      BY <1>2, <1>5 DEF Inbound, FifoKept
    <3> QED  BY <1>3, <1>4, <2>2, <3>1
  <2> QED  BY <2>1, <2>2
<1>13. ReaderStays'
  BY <1>3, <1>4 DEF ReaderStays
<1>14. TcpWaits'
  <2> SUFFICES ASSUME Tcp \in P', Past' PROVE TcpWaits'
    BY DEF TcpWaits
  <2>1. a # TCPSocket /\ Past /\ Tcp \in P /\ proc'[Tcp] = proc[Tcp]
    BY <1>3, <1>7, <1>8
  <2> QED  BY <1>3, <1>5, <2>1 DEF Connection, TcpWaits
<1>15. Holders'
  <2> SUFFICES ASSUME NEW q \in P'
               PROVE  proc'[q].conn = IF Past' /\ q \in {First, Udp} THEN {First} ELSE {}
    BY DEF Holders
  <2>1. Past' <=> Past
    BY <1>7
  <2>2. proc[First].conn = IF Past THEN {First} ELSE {}
    BY <1>5 DEF Connection, Holders
  <2>3. CASE q = First
    BY <1>3, <1>4, <2>1, <2>2, <2>3
  <2>4. CASE q = Child(a)
    <3>1. a < TCPSocket \/ a = TCPSocket => ~Past
      BY <1>1, <1>2 DEF Past, TCPSocket, NamedPipeFifo
    <3>2. a # UDPSocket => ~Past
      BY <1>1, <3>1 DEF Benchmarks, TCPSocket, UDPSocket
    <3> QED  BY <1>3, <1>4, <1>7, <1>8, <2>1, <2>2, <2>4, <3>2
  <2>5. CASE q # First /\ q # Child(a)
    BY <1>3, <1>5, <2>1, <2>5 DEF Connection, Holders
  <2> QED  BY <2>3, <2>4, <2>5
<1>16. TcpStays'
  BY <1>3, <1>5, <1>7 DEF Connection, TcpStays
<1> QED  BY <1>9, <1>10, <1>11, <1>12, <1>13, <1>14, <1>15, <1>16 DEF Inbound, Connection

LEMMA ReadyWhenConnects ==
    ASSUME CalmReady, NEW p \in P, TcpConnect(p)
    PROVE  Inbound' /\ Connection'
<1>1. p = First /\ proc[First] \in Processes /\ proc[First].at = TCPSocket /\ proc[First].step = "connect"
  BY CalmFacts DEF TcpConnect, At, Reads, CalmReady, Calm, TypeOK, ProcOK
<1>2. /\ Tcp \in P /\ At(Tcp, TCPSocket, "read") /\ proc[Tcp].medium = None
      /\ backlog = <<>> /\ listener = Tcp
  BY <1>1, CalmFacts, FirstReader DEF CalmReady, Peers, Connects, TcpConnect, Awake, SetUp, At
<1>3. /\ proc' = [proc EXCEPT ![First].step = "write", ![First].conn = @ \cup {First}]
      /\ backlog' = Append(backlog, First) /\ listener' = listener /\ units' = units
  BY <1>1, <1>2, TcpName DEF TcpConnect
<1>4. /\ P' = P /\ \A q \in P \ {First} : proc'[q] = proc[q]
      /\ proc'[First].at = TCPSocket /\ proc'[First].step = "write"
      /\ proc'[First].conn = proc[First].conn \cup {First}
  BY <1>1, <1>3 DEF P, Processes, CalmReady, Calm, TypeOK, ProcOK
<1>5. Inbound /\ Connection /\ backlog' = <<First>>
  BY <1>2, <1>3 DEF CalmReady
<1>6. Past' /\ ~Past
  BY <1>1, <1>4 DEF Past, TCPSocket
<1>7. \A b \in Local : Sent(b)' <=> Sent(b)
  BY <1>1, <1>4, LocalNumbers DEF Sent
<1>8. \A b \in Local : Child(b) # First /\ b # TCPSocket
  BY LocalNames, LocalNumbers
<1>9. FifoKept' /\ ReaderStays'
  BY <1>4, <1>8 DEF FifoKept, ReaderStays, TCPSocket, NamedPipeFifo
<1>10. UnitsSent'
  BY <1>3, <1>4, <1>5, <1>7 DEF Inbound, UnitsSent, Message, Unit
<1>11. SentWaits' /\ Listens'
  BY <1>3, <1>4, <1>5, <1>7, <1>8 DEF Inbound, SentWaits, Listens, Message, Unit
<1>12. TcpWaits'
  BY <1>2, <1>3, <1>4, <1>5, TcpName DEF TcpWaits, At
<1>13. Udp \notin P
  <2> SUFFICES ASSUME Udp \in P PROVE FALSE
    OBVIOUS
  <2>1. Begun(proc[Udp].at) /\ Udp = Child(proc[Udp].at) /\ proc[Udp].at \in Benchmarks
    BY CalmFacts, LocalNames DEF CalmReady
  <2>2. proc[Udp].at = UDPSocket
    BY <2>1, NamesDiffer DEF Udp, UDPSocket, Benchmarks
  <2> QED  BY <1>1, <2>1, <2>2 DEF Begun, UDPSocket, TCPSocket
<1>14. Holders'
  BY <1>1, <1>4, <1>5, <1>6, <1>13 DEF Connection, Holders
<1>15. TcpStays'
  BY <1>2, <1>4 DEF TcpStays
<1> QED  BY <1>9, <1>10, <1>11, <1>12, <1>14, <1>15 DEF Inbound, Connection

(* A reader that has set up, or accepts.                                   *)
LEMMA ReadyWhenReaderMoves ==
    ASSUME CalmReady, NEW r \in P, Reads(r), P' = P, units' = units,
           \A q \in P : /\ proc'[q].at = proc[q].at /\ proc'[q].conn = proc[q].conn
                        /\ q # r => proc'[q].step = proc[q].step
                        /\ q # r /\ q # First => proc'[q] = proc[q],
           proc'[r].step = "read",
           First \in P => proc'[First].medium \in {proc[First].medium, First},
           \A b \in Local : r = Child(b) => proc'[r].medium = First,
           r # Tcp => listener' = listener /\ backlog' = backlog,
           r = Tcp /\ Past => \/ listener' = Tcp /\ backlog' = <<First>> /\ proc'[Tcp].medium = None
                              \/ proc'[Tcp].medium = First
    PROVE  Inbound' /\ Connection'
<1>1. Inbound /\ Connection /\ r # First /\ Tcp # First
      /\ \A b \in Local : Child(b) # First
  BY CalmFacts, LocalNames, TcpName DEF CalmReady
<1>2. /\ \A b \in Local : Sent(b)' <=> Sent(b)
      /\ Past' <=> Past
  BY <1>1 DEF Sent, Past
<1>3. FifoKept' /\ ReaderStays'
  BY <1>1 DEF Inbound, FifoKept, ReaderStays
<1>4. UnitsSent'
  BY <1>1, <1>2 DEF Inbound, UnitsSent, Message, Unit
<1>5. SentWaits'
  BY <1>1, <1>2 DEF Inbound, SentWaits, Message, Unit
<1>6. Listens'
  BY <1>1 DEF Inbound, Listens
<1>7. TcpWaits'
  <2> SUFFICES ASSUME Tcp \in P, Past PROVE TcpWaits'
    BY <1>2 DEF TcpWaits
  <2>1. proc[Tcp].at = TCPSocket
    BY <1>1 DEF Connection, TcpWaits
  <2>2. CASE r = Tcp
    BY <2>1, <2>2 DEF TcpWaits
  <2>3. CASE r # Tcp
    BY <1>1, <2>3 DEF Connection, TcpWaits
  <2> QED  BY <2>2, <2>3
<1>8. Holders' /\ TcpStays'
  BY <1>1, <1>2 DEF Connection, Holders, TcpStays
<1> QED  BY <1>3, <1>4, <1>5, <1>6, <1>7, <1>8 DEF Inbound, Connection

LEMMA ReadyQueueOpen ==
    ASSUME CalmReady, NEW p \in P, QueueOpen(p) PROVE Inbound' /\ Connection'
<1>1. p = First /\ proc[First] \in Processes /\ proc[First].at = PosixQ /\ proc[First].step = "open"
  BY CalmFacts DEF QueueOpen, At, Reads, CalmReady, Calm, TypeOK, ProcOK
<1>2. /\ P' = P /\ \A q \in P \ {First} : proc'[q] = proc[q]
      /\ proc'[First].at = PosixQ /\ proc'[First].step = "write" /\ proc'[First].conn = proc[First].conn
      /\ units' = units /\ listener' = listener /\ backlog' = backlog
  BY <1>1 DEF QueueOpen, mq_open, P, net, Processes, CalmReady, Calm, TypeOK, ProcOK
<1>3. (Past' <=> Past) /\ \A b \in Local : Sent(b)' <=> Sent(b)
  BY <1>1, <1>2, LocalNumbers DEF Past, Sent
<1> QED  BY <1>1, <1>2, <1>3, ReadyWhenFirstMoves

LEMMA ReadyQueueUnlink ==
    ASSUME CalmReady, NEW p \in P, QueueUnlink(p) PROVE Inbound' /\ Connection'
<1>1. p = First /\ proc[First] \in Processes /\ proc[First].at = PosixQ /\ proc[First].step = "unlink"
  BY CalmFacts DEF QueueUnlink, At, Reads, CalmReady, Calm, TypeOK, ProcOK
<1>2. /\ P' = P /\ \A q \in P \ {First} : proc'[q] = proc[q]
      /\ proc'[First].at = PosixQ /\ proc'[First].step = "wait" /\ proc'[First].conn = proc[First].conn
      /\ units' = units /\ listener' = listener /\ backlog' = backlog
  BY <1>1 DEF QueueUnlink, Step, P, net, Processes, CalmReady, Calm, TypeOK, ProcOK
<1>3. (Past' <=> Past) /\ \A b \in Local : Sent(b)' <=> Sent(b)
  BY <1>1, <1>2, LocalNumbers DEF Past, Sent
<1> QED  BY <1>1, <1>2, <1>3, ReadyWhenFirstMoves

LEMMA ReadyUnlink ==
    ASSUME CalmReady, NEW p \in P, FifoUnlink(p) PROVE Inbound' /\ Connection'
<1>1. p = First /\ proc[First] \in Processes
  BY CalmFacts DEF FifoUnlink, At, Reads, CalmReady, Calm, TypeOK, ProcOK
<1>2. /\ P' = P /\ \A q \in P \ {First} : proc'[q] = proc[q]
      /\ proc'[First] = [proc[First] EXCEPT !.step = "unlinked"]
      /\ units' = units /\ listener' = listener /\ backlog' = backlog
      /\ proc[First].step = "call"
  BY <1>1 DEF FifoUnlink, At, Step, P
<1>3. /\ proc'[First].at = proc[First].at /\ proc'[First].step = "unlinked"
      /\ proc'[First].conn = proc[First].conn
  BY <1>1, <1>2 DEF Processes
<1>4. (Past' <=> Past) /\ \A b \in Local : Sent(b)' <=> Sent(b)
  BY <1>2, <1>3 DEF Past, Sent
<1> QED  BY <1>1, <1>2, <1>3, <1>4, ReadyWhenFirstMoves

LEMMA ReadyMake ==
    ASSUME CalmReady, NEW p \in P, FifoMake(p) PROVE Inbound' /\ Connection'
<1>1. p = First /\ proc[First] \in Processes /\ fifo = None
  BY CalmFacts DEF FifoMake, At, Reads, CalmReady, Calm, TypeOK, ProcOK, Peers, FifoOurs
<1>2. /\ P' = P /\ \A q \in P \ {First} : proc'[q] = proc[q]
      /\ proc'[First] = [proc[First] EXCEPT !.step = "made"]
      /\ units' = units /\ listener' = listener /\ backlog' = backlog
      /\ proc[First].step = "unlinked"
  BY <1>1 DEF FifoMake, At, Step, P
<1>3. /\ proc'[First].at = proc[First].at /\ proc'[First].step = "made"
      /\ proc'[First].conn = proc[First].conn
  BY <1>1, <1>2 DEF Processes
<1>4. (Past' <=> Past) /\ \A b \in Local : Sent(b)' <=> Sent(b)
  BY <1>2, <1>3 DEF Past, Sent
<1> QED  BY <1>1, <1>2, <1>3, <1>4, ReadyWhenFirstMoves

LEMMA ReadyOpen ==
    ASSUME CalmReady, NEW p \in P, FifoOpen(p) PROVE Inbound' /\ Connection'
<1>1. p = First /\ proc[First] \in Processes /\ fifo = First
  BY CalmFacts DEF FifoOpen, At, Reads, CalmReady, Calm, TypeOK, ProcOK, Peers, FifoOurs
<1>2. /\ P' = P /\ \A q \in P \ {First} : proc'[q] = proc[q]
      /\ proc' = [proc EXCEPT ![First].step = "opened", ![First].medium = First]
      /\ units' = units /\ listener' = listener /\ backlog' = backlog
      /\ proc[First].step = "made"
  BY <1>1, TcpName DEF FifoOpen, At, P, net
<1>3. /\ proc'[First].at = proc[First].at /\ proc'[First].step = "opened"
      /\ proc'[First].conn = proc[First].conn /\ proc'[First].medium = First
  BY <1>1, <1>2 DEF Processes, CalmReady, Calm, TypeOK, ProcOK
<1>4. (Past' <=> Past) /\ \A b \in Local : Sent(b)' <=> Sent(b)
  BY <1>2, <1>3 DEF Past, Sent
<1> QED  BY <1>1, <1>2, <1>3, <1>4, ReadyWhenFirstMoves

LEMMA ReportKeepsConn ==
    ASSUME CalmReady, First \in P, NEW r \in Processes, printf(First, r)
    PROVE  /\ P' = P /\ \A q \in P \ {First} : proc'[q] = proc[q]
           /\ proc'[First].conn = r.conn /\ proc'[First].at = r.at /\ proc'[First].step = r.step
<1>1. LET s == Reported(r, proc[First].at)
      IN  s.conn = r.conn /\ s.at = r.at /\ s.step = r.step
  BY DEF Reported, Processes
<1> QED  BY <1>1 DEF printf, P, CalmReady, Calm, TypeOK, ProcOK

LEMMA OnwardConn ==
    ASSUME CalmReady, First \in P, proc[First].at \in Benchmarks
    PROVE  /\ Onward(First) \in Processes /\ Onward(First).conn = proc[First].conn
           /\ Onward(First).at = proc[First].at + 1 /\ Onward(First).step = "call"
<1>1. Onward(First).conn = proc[First].conn
  BY DEF Onward, CalmReady, Calm, TypeOK, ProcOK, Processes
<1> QED  BY <1>1, CalmOnward DEF CalmReady

LEMMA ReadyWrite ==
    ASSUME CalmReady, NEW p \in P, Write(p) PROVE Inbound' /\ Connection'
<1>1. p = First /\ proc[First] \in Processes /\ proc[First].step = "write" /\ Inbound /\ Connection
  BY CalmFacts DEF Write, CanWrite, Reads, CalmReady, Calm, TypeOK, ProcOK
<1>2. proc[First].at \in Benchmarks /\ proc[First].at \in Int
      /\ listener' = listener /\ backlog' = backlog
  BY <1>1 DEF Write, net, CalmReady, Calm, TypeOK, ProcOK, Placed, Benchmarks
<1> DEFINE a == proc[First].at
(* Where main is after that.                                               *)
<1>3. /\ P' = P /\ \A q \in P \ {First} : proc'[q] = proc[q]
      /\ proc'[First].conn = proc[First].conn
      /\ \/ proc'[First].at = a /\ a \in Reaped /\ proc'[First].step = AfterWrite(a)
         \/ proc'[First].at = a /\ a = ShrMem /\ proc'[First].step = "drain"
         \/ proc'[First].at = a + 1 /\ proc'[First].step = "call"
  <2>1. ASSUME a \in Reaped, Step(First, AfterWrite(a))
        PROVE  /\ P' = P /\ \A q \in P \ {First} : proc'[q] = proc[q]
               /\ proc'[First].conn = proc[First].conn
               /\ proc'[First].at = a /\ proc'[First].step = AfterWrite(a)
    BY <1>1, <2>1 DEF Step, P, Processes, CalmReady, Calm, TypeOK, ProcOK
  <2>2. ASSUME printf(First, [proc[First] EXCEPT !.step = "drain"])
        PROVE  /\ P' = P /\ \A q \in P \ {First} : proc'[q] = proc[q]
               /\ proc'[First].conn = proc[First].conn
               /\ proc'[First].at = a /\ proc'[First].step = "drain"
    <3> DEFINE r == [proc[First] EXCEPT !.step = "drain"]
    <3>1. r \in Processes /\ r.conn = proc[First].conn /\ r.at = a /\ r.step = "drain"
      BY <1>1 DEF Processes, Steps
    <3> QED  BY <1>1, <2>2, <3>1, ReportKeepsConn
  <2>3. ASSUME printf(First, Onward(First))
        PROVE  /\ P' = P /\ \A q \in P \ {First} : proc'[q] = proc[q]
               /\ proc'[First].conn = proc[First].conn
               /\ proc'[First].at = a + 1 /\ proc'[First].step = "call"
    BY <1>1, <1>2, <2>3, OnwardConn, ReportKeepsConn
  <2> QED  BY <1>1, <2>1, <2>2, <2>3 DEF Write, AfterWrite
<1>4. Past' <=> Past
  BY <1>1, <1>2, <1>3 DEF Past, TCPSocket, Reaped, ShrMem, PosixQ, NamedPipeFifo, AnonPipe
<1>5. \A b \in Local : Sent(b)' <=> Sent(b) \/ b = a
  BY <1>1, <1>2, <1>3, LocalNumbers DEF Sent, AfterWrite
<1>6. PICK more \in Written(First) : units' = units \cup more
  BY <1>1 DEF Write
<1>7. Child(a) \in P => proc[Child(a)].step # "setup" \/ a \notin Local
  <2>1. Awake(First) /\ Reader(First) = Child(a)
    BY <1>1, FirstReader DEF Write, CanWrite, CalmReady
  <2>2. Child(a) \in P /\ a \in Local => proc[Child(a)].at = a
    BY ChildAt, LocalNames DEF CalmReady
  <2>3. Child(a) \in P /\ proc[Child(a)].step = "setup" => proc[Child(a)].at \in SetUp \cup {PosixQ}
    BY DEF CalmReady, Calm, TypeOK, ProcOK, Placed
  <2> QED  BY <2>1, <2>2, <2>3, LocalNumbers DEF Awake, At
<1>8. CASE a \in Local
  <2>1. more = {Message(a)}
    <3>1. a = NamedPipeFifo => proc[First].medium = First
      BY <1>1 DEF Inbound, FifoKept
    <3>2. a # UDPSocket /\ a # TCPSocket /\ a # PosixQ
      BY <1>8 DEF Local, PosixQ, ShrMem, NamedPipeFifo, AnonPipe, SockPair, TCPSocket, UDPSocket
    <3>3. more \in (IF a = NamedPipeFifo THEN {{Unit(a, proc[First].medium, First)}}
                    ELSE {{Unit(a, First, First)}})
      BY <1>6, <3>2 DEF Written
    <3> QED  BY <3>1, <3>3 DEF Message
  <2>2. AfterWrite(a) = "wait"
    BY <1>8, LocalNumbers DEF AfterWrite
  <2> QED  BY <1>1, <1>2, <1>3, <1>4, <1>5, <1>6, <1>7, <1>8, <2>1, <2>2, ReadyWhenSent
<1>9. CASE a \notin Local
  <2>1. a = PosixQ \/ a = TCPSocket \/ a = UDPSocket
    BY <1>2, <1>9 DEF Local, Benchmarks, PosixQ, ShrMem, NamedPipeFifo, AnonPipe, SockPair, TCPSocket, UDPSocket
  <2>2. \A u \in more : u.at \notin Local
    BY <1>6, <2>1 DEF Written, Unit, Local, PosixQ, ShrMem, NamedPipeFifo, AnonPipe, SockPair, TCPSocket, UDPSocket
  <2>3. proc'[First].step # "write" /\ proc'[First].step # "opened"
    BY <1>3 DEF AfterWrite
  <2> QED  BY <1>1, <1>2, <1>3, <1>4, <1>5, <1>6, <1>9, <2>2, <2>3, ReadyWhenFirstMoves
<1> QED  BY <1>8, <1>9

LEMMA ReadyWait ==
    ASSUME CalmReady, NEW p \in P, Wait(p) PROVE Inbound' /\ Connection'
<1>1. p = First /\ proc[First].step = "wait"
  BY CalmFacts DEF Wait, Reads, CalmReady
<1>2. proc[First].at \in Benchmarks /\ proc[First].at \in Int /\ proc[First].at # TCPSocket
      /\ units' = units /\ listener' = listener /\ backlog' = backlog
  BY <1>1 DEF Wait, net, CalmReady, Calm, TypeOK, ProcOK, Placed, Benchmarks, Reaped,
     PosixQ, NamedPipeFifo, AnonPipe, TCPSocket
<1>3. /\ P' = P /\ \A q \in P \ {First} : proc'[q] = proc[q]
      /\ proc'[First].conn = proc[First].conn
      /\ proc'[First].at = proc[First].at + 1 /\ proc'[First].step = "call"
  BY <1>1, <1>2, OnwardConn, ReportKeepsConn DEF Wait
<1>4. Past' <=> Past
  BY <1>1, <1>2, <1>3 DEF Past, TCPSocket
<1>5. \A b \in Local : Sent(b)' <=> Sent(b)
  BY <1>1, <1>2, <1>3, LocalNumbers DEF Sent
<1> QED  BY <1>1, <1>2, <1>3, <1>4, <1>5, ReadyWhenFirstMoves

LEMMA ReadyDrain ==
    ASSUME CalmReady, NEW p \in P, Drain(p) PROVE Inbound' /\ Connection'
<1>1. p = First /\ proc[First].step = "drain" /\ proc[First].at = ShrMem
  BY CalmFacts DEF Drain, Reads, CalmReady, Calm, TypeOK, ProcOK, Placed
<1>2. /\ P' = P /\ \A q \in P \ {First} : proc'[q] = proc[q]
      /\ proc'[First] = Onward(First)
      /\ units' = units /\ listener' = listener /\ backlog' = backlog
  BY <1>1 DEF Drain, Return, P, net, CalmReady, Calm, TypeOK, ProcOK
<1>3. proc'[First].at = ShrMem + 1 /\ proc'[First].step = "call" /\ proc'[First].conn = proc[First].conn
  BY <1>1, <1>2, OnwardConn DEF ShrMem, Benchmarks
<1>4. Past' <=> Past
  BY <1>1, <1>2, <1>3 DEF Past, TCPSocket, ShrMem
<1>5. \A b \in Local : Sent(b)' <=> Sent(b)
  BY <1>1, <1>2, <1>3, LocalNumbers DEF Sent, ShrMem
<1> QED  BY <1>1, <1>2, <1>3, <1>4, <1>5, ReadyWhenFirstMoves

LEMMA ReadyMainExit ==
    ASSUME CalmReady, NEW p \in P, MainExit(p) PROVE Inbound' /\ Connection'
<1>1. p = First /\ proc[First].at = Exit /\ Gone({p}) /\ units' = units
  BY CalmFacts DEF MainExit, At, Reads, exit, CalmReady
<1> QED  BY <1>1, TcpName, LocalNames, ReadyWhenExits

LEMMA ReadySetup ==
    ASSUME CalmReady, NEW r \in P, ReaderSetup(r) PROVE Inbound' /\ Connection'
<1>1. /\ Reads(r) /\ proc[r].step = "setup" /\ r # First /\ r = Child(proc[r].at)
      /\ proc[r].at \in Benchmarks /\ proc[r].at \in Int /\ Peers /\ Inbound /\ Connection
      /\ units' = units
  BY CalmFacts DEF ReaderSetup, Reads, CalmReady, Benchmarks
<1>2. \A q \in P : proc[q] \in Processes
  BY DEF CalmReady, Calm, TypeOK, ProcOK
<1>3. r = Tcp => ~Past
  BY <1>1 DEF Connection, TcpWaits
<1>4. \A b \in Local : r = Child(b) => b = proc[r].at
  BY <1>1, LocalNames, NamesDiffer
<1>9. CASE /\ proc[r].at = PosixQ
           /\ mq_open(r, "read")
           /\ UNCHANGED <<net, copies>>
  <2>1. r # Tcp /\ \A b \in Local : r # Child(b)
    <3>1. r # Tcp
      BY <1>1, <1>9, NamesDiffer DEF Tcp, TCPSocket, PosixQ
    <3> QED  BY <1>4, <1>9, <3>1, LocalNumbers
  <2>2. /\ P' = P /\ proc'[r].at = proc[r].at /\ proc'[r].conn = proc[r].conn /\ proc'[r].step = "read"
        /\ \A q \in P \ {r} : proc'[q] = proc[q]
    BY <1>2, <1>9 DEF mq_open, P, Processes, CalmReady, Calm, TypeOK, ProcOK
  <2>3. listener' = listener /\ backlog' = backlog
    BY <1>9 DEF net
  <2> QED  BY <1>1, <2>1, <2>2, <2>3, ReadyWhenReaderMoves
<1>5. CASE /\ proc[r].at = ShrMem
           /\ proc' = [q \in P |->
                        IF q = r THEN [proc[r] EXCEPT !.step = "read", !.medium = Front(r)]
                          ELSE IF q = Front(r) THEN [proc[q] EXCEPT !.medium = q] ELSE proc[q]]
           /\ UNCHANGED <<net, copies>>
  <2>1. Front(r) = First /\ r # Tcp
    <3>1. First \in Names /\ ShrMem \in Int /\ r = Child(ShrMem)
      BY <1>1, <1>5, NamesDiffer
    <3>2. Front(Append(First, ShrMem)) = First /\ Append(First, ShrMem) = Child(ShrMem)
      BY <3>1, ReaderName
    <3> QED  BY <3>1, <3>2, TcpName
  <2>2. /\ P' = P /\ \A q \in P \ {r, First} : proc'[q] = proc[q]
        /\ proc'[r].at = proc[r].at /\ proc'[r].conn = proc[r].conn
        /\ proc'[r].step = "read" /\ proc'[r].medium = First
    BY <1>2, <1>5, <2>1 DEF P, Processes
  <2>3. First \in P => /\ proc'[First].at = proc[First].at /\ proc'[First].step = proc[First].step
                       /\ proc'[First].conn = proc[First].conn /\ proc'[First].medium = First
    BY <1>1, <1>2, <1>5, <2>1 DEF Processes
  <2>4. listener' = listener /\ backlog' = backlog
    BY <1>5 DEF net
  <2> QED  BY <1>1, <2>1, <2>2, <2>3, <2>4, ReadyWhenReaderMoves
<1>6. CASE /\ proc[r].at = UDPSocket
           /\ proc' = [proc EXCEPT ![r].step = "read", ![r].medium = r]
           /\ UNCHANGED <<net, copies>>
  <2>1. r = Udp /\ r # Tcp /\ \A b \in Local : r # Child(b)
    BY <1>1, <1>6, LocalNames DEF Udp
  <2>2. /\ P' = P /\ proc'[r].at = proc[r].at /\ proc'[r].conn = proc[r].conn /\ proc'[r].step = "read"
        /\ \A q \in P \ {r} : proc'[q] = proc[q]
    BY <1>2, <1>6 DEF P, Processes, CalmReady, Calm, TypeOK, ProcOK
  <2>3. listener' = listener /\ backlog' = backlog
    BY <1>6 DEF net
  <2> QED  BY <1>1, <2>1, <2>2, <2>3, ReadyWhenReaderMoves
<1>7. CASE /\ proc[r].at = TCPSocket /\ listener = None
           /\ listener' = r /\ Step(r, "read")
           /\ UNCHANGED <<fifo, backlog, copies>>
  <2>1. r = Tcp /\ \A b \in Local : r # Child(b)
    BY <1>1, <1>7, LocalNames DEF Tcp
  <2>2. /\ P' = P /\ proc'[r].at = proc[r].at /\ proc'[r].conn = proc[r].conn /\ proc'[r].step = "read"
        /\ \A q \in P \ {r} : proc'[q] = proc[q]
    BY <1>2, <1>7 DEF Step, P, Processes, CalmReady, Calm, TypeOK, ProcOK
  <2> QED  BY <1>1, <1>3, <2>1, <2>2, ReadyWhenReaderMoves
(* The port is free, so no reader is refused it.                           *)
<1>8. CASE proc[r].at = TCPSocket /\ listener # None /\ exit(r)
  <2>1. r = Tcp
    BY <1>1, <1>8 DEF Tcp
  <2>2. First \in P /\ proc[First].at = TCPSocket /\ proc[First].step = "connect"
    <3>1. Begun(TCPSocket) /\ ~Past
      BY <1>1, <1>3, <1>8, <2>1, ChildAt DEF CalmReady, Tcp
    <3>2. First \in P => proc[First].step = "write" \/ proc[First].step = "connect" \/ proc[First].at # TCPSocket
                         \/ proc[First].step \notin {"open", "connect", "write", "unlink", "wait", "drain"}
      BY DEF CalmReady, Calm, TypeOK, ProcOK, Placed, Reaped, PosixQ, ShrMem, NamedPipeFifo, AnonPipe, TCPSocket
    <3> QED  BY <3>1, <3>2 DEF Begun, Past
  <2> QED  BY <1>1, <1>8, <2>1, <2>2 DEF Peers, Connects, At
<1> QED  BY <1>5, <1>6, <1>7, <1>8, <1>9 DEF ReaderSetup

LEMMA ReadyAccept ==
    ASSUME CalmReady, NEW r \in P, TcpAccept(r) PROVE Inbound' /\ Connection'
<1>1. /\ Reads(r) /\ proc[r].step = "read" /\ r = Tcp /\ r # First /\ proc[r] \in Processes
      /\ proc[r].medium = None /\ units' = units /\ Connection
  BY CalmFacts DEF TcpAccept, At, Reads, CalmReady, Calm, TypeOK, ProcOK, Tcp
<1>2. /\ P' = P /\ proc'[r].at = proc[r].at /\ proc'[r].conn = proc[r].conn
      /\ proc'[r].step = "read" /\ proc'[r].medium = Head(backlog)
      /\ \A q \in P \ {r} : proc'[q] = proc[q]
  BY <1>1 DEF TcpAccept, P, Processes, CalmReady, Calm, TypeOK, ProcOK
<1>3. \A b \in Local : r # Child(b)
  BY <1>1, LocalNames
<1>4. Past => proc'[Tcp].medium = First
  <2>1. Past => backlog = <<First>>
    BY <1>1, TcpName DEF Connection, TcpWaits
  <2>2. backlog = <<First>> => Head(backlog) = First
    OBVIOUS
  <2> QED  BY <1>1, <1>2, <2>1, <2>2
<1> QED  BY <1>1, <1>2, <1>3, <1>4, ReadyWhenReaderMoves

LEMMA ReadyFinish ==
    ASSUME CalmReady, NEW r \in P, Finish(r) PROVE Inbound' /\ Connection'
<1>1. /\ Reads(r) /\ proc[r].step = "read" /\ r = Child(proc[r].at) /\ r # First /\ Gone({r})
      /\ proc[r].at \in Benchmarks /\ proc[r].at \in Int /\ Inbound /\ Connection /\ Peers
  BY CalmFacts DEF Finish, CanFinish, exit, Reads, CalmReady, Benchmarks
<1> DEFINE b == proc[r].at
<1>2. CASE b = TCPSocket
  <2>1. r = Tcp /\ units' = units /\ \A c \in Local : r # Child(c)
    BY <1>1, <1>2, LocalNames DEF Finish, Tcp
  <2>2. proc[Tcp].medium # None /\ \A q \in P : proc[Tcp].medium \notin proc[q].conn
    BY <1>2, <2>1 DEF Finish, CanFinish, AtEof
  <2>3. Past
    <3>1. Begun(TCPSocket)
      BY <1>1, <1>2, ChildAt DEF CalmReady, Tcp
    <3>2. ~(First \in P /\ At(First, TCPSocket, "connect"))
      BY <1>1, <2>1, <2>2 DEF Peers, Connects
    <3>3. First \in P => proc[First].step = "write" \/ proc[First].step = "connect" \/ proc[First].at # TCPSocket
                         \/ proc[First].step \notin {"open", "connect", "write", "unlink", "wait", "drain"}
      BY DEF CalmReady, Calm, TypeOK, ProcOK, Placed, Reaped, PosixQ, ShrMem, NamedPipeFifo, AnonPipe, TCPSocket
    <3> QED  BY <3>1, <3>2, <3>3 DEF Begun, Past, At
  <2>4. proc[Tcp].medium = First
    BY <1>1, <2>1, <2>2, <2>3 DEF Connection, TcpWaits
  <2>5. First \notin P /\ Udp \notin P
    BY <1>1, <2>2, <2>3, <2>4 DEF Connection, Holders
  <2> QED  BY <1>1, <2>1, <2>5, ReadyWhenExits
<1>3. CASE b # TCPSocket
  <2>1. r # Tcp
    BY <1>1, <1>3, NamesDiffer DEF Tcp, TCPSocket
  <2>2. PICK u \in MyUnits(r) : units' = units \ {u}
    BY <1>3 DEF Finish
  <2>3. u \in units /\ u.at = b
    BY <2>2 DEF MyUnits
  <2>4. b \in Local => u = Message(b) /\ Sent(b)
    BY <1>1, <2>3 DEF Inbound, UnitsSent
  <2>5. \A c \in Local : Message(c).at = c
    BY DEF Message, Unit
  <2>6. \A c \in Local : r = Child(c) => c = b
    BY <1>1, LocalNames, NamesDiffer
  <2> QED  BY <1>1, <2>1, <2>2, <2>3, <2>4, <2>5, <2>6, ReadyWhenExits
<1> QED  BY <1>2, <1>3

LEMMA ReadyInvariance == TypeOK /\ WInv /\ RInv /\ HInv /\ [Next]_vars => HInv'
<1> SUFFICES ASSUME TypeOK, WInv, RInv, HInv, [Next]_vars, faults' = 0 PROVE Inbound' /\ Connection'
  BY DEF HInv
<1>1. faults + 1 # 0
  BY DEF TypeOK
<1>2. CASE UNCHANGED vars
  <2>1. /\ proc' = proc /\ P' = P /\ units' = units /\ listener' = listener /\ backlog' = backlog
        /\ Inbound /\ Connection
    BY <1>2 DEF vars, net, P, HInv
  <2>2. (Past' <=> Past) /\ \A b : Sent(b)' <=> Sent(b)
    BY <2>1 DEF Past, Sent
  <2>3. Inbound'
    BY <2>1, <2>2 DEF Inbound, FifoKept, UnitsSent, SentWaits, Listens, ReaderStays, Message, Unit
  <2>4. Connection'
    BY <2>1, <2>2 DEF Connection, TcpWaits, Holders, TcpStays
  <2> QED  BY <2>3, <2>4
<1>3. ASSUME NEW p \in P,
             \/ QueueOpen(p) \/ QueueUnlink(p)
             \/ FifoUnlink(p) \/ FifoMake(p) \/ FifoOpen(p) \/ Fork(p)
             \/ TcpConnect(p) \/ Write(p) \/ Wait(p) \/ Drain(p) \/ MainExit(p)
             \/ ReaderSetup(p) \/ TcpAccept(p) \/ Finish(p)
             \/ WriterStranded(p)
      PROVE  Inbound' /\ Connection'
  <2>1. Calm /\ CalmReady
    BY <1>3 DEF Calm, CalmReady, HInv, QueueOpen, QueueUnlink, FifoUnlink, FifoMake, FifoOpen, Fork, TcpConnect, Write, Wait, Drain,
       MainExit, ReaderSetup, TcpAccept, Finish, WriterStranded
  <2>2. Fork(p) => p = First
    BY <2>1, CalmFacts DEF Fork, Reads
  <2> QED
    BY <1>3, <2>1, <2>2, ReadyQueueOpen, ReadyQueueUnlink, ReadyUnlink, ReadyMake, ReadyOpen, ReadyWhenForked, ReadyWhenConnects, ReadyWrite,
       ReadyWait, ReadyDrain, ReadyMainExit, ReadySetup, ReadyAccept, ReadyFinish, CalmStranded
<1>4. ASSUME NEW p \in P,
             \/ ReaderFails(p) \/ ReaderReturns(p) \/ FifoReadFails(p)
             \/ WriterFails(p) \/ Kill(p)
      PROVE  FALSE
  BY <1>1, <1>4 DEF ReaderFails, ReaderReturns, FifoReadFails, WriterFails, Kill, Fault
<1> QED  BY <1>2, <1>3, <1>4 DEF Next, Terminating

-----------------------------------------------------------------------------
(* The queue of PosixQ, which its two sides open by name in either order   *)
(* and both unlink.  Main stays until its reader has ended, ...            *)
Receiver == Child(PosixQ)

Receives == Receiver \in P /\ proc[Receiver].step = "read"

InQueue(steps) == First \in P /\ proc[First].at = PosixQ /\ proc[First].step \in steps

AtQueue == First \in P /\ proc[First].at = PosixQ

ReceiverBefore ==
    /\ Receiver \in P => AtQueue
    /\ InQueue({"open", "write"}) => Receiver \in P

(* ... the name is free until one of them opens the queue, then both have  *)
(* the one that is linked, ...                                             *)
QueueLinked ==
    /\ InQueue({"call", "open"}) => mq = IF Receives THEN Receiver ELSE None
    /\ InQueue({"open"}) /\ Receives => proc[Receiver].medium = Receiver
    /\ InQueue({"write", "unlink"}) /\ Receiver \in P =>
          /\ mq = proc[First].medium /\ mq # None
          /\ Receives => proc[Receiver].medium = proc[First].medium

(* ... and what main sent is there; a reader that opens its queue after    *)
(* that, which only as many messages as it holds allow, gets another one.  *)
QueueFilled ==
    /\ InQueue({"call", "open", "write"}) => \A u \in units : u.at # PosixQ
    /\ InQueue({"unlink", "wait"}) /\ Receiver \in P =>
          /\ Unit(PosixQ, proc[First].medium, First) \in units
          /\ Receives \/ PosixQ \in fits
    /\ InQueue({"wait"}) /\ Receiver \in P =>
          IF Receives THEN \/ proc[Receiver].medium = proc[First].medium
                           \/ proc[Receiver].medium = Receiver /\ PosixQ \in fits
          ELSE mq = None

Queue == ReceiverBefore /\ QueueLinked /\ QueueFilled

QInv == faults = 0 => Queue

LEMMA ReceiverName == Receiver # First /\ Receiver # None /\ First # None /\ PosixQ \in Benchmarks
  BY NamesDiffer DEF Receiver, PosixQ, Benchmarks

(* Once main is past the queue nothing of this can change.                 *)
LEMMA QueueAway == ASSUME ~AtQueue', Receiver \notin P' PROVE Queue'
  BY DEF Queue, ReceiverBefore, QueueLinked, QueueFilled, InQueue, AtQueue

LEMMA QueueFacts ==
    ASSUME Calm, AtQueue
    PROVE  /\ proc[First].step \in {"call", "open", "write", "unlink", "wait"}
           /\ \A p \in P : p = First \/ p = Receiver
           /\ Reader(First) = Receiver /\ proc[First] \in Processes
           /\ Receiver \in P => /\ proc[Receiver].at = PosixQ /\ proc[Receiver].step \in {"setup", "read"}
                                /\ proc[First].step # "call" /\ proc[Receiver] \in Processes
<1>1. ~Reads(First) /\ proc[First] \in Processes /\ Placed(proc[First])
  BY CalmFacts DEF AtQueue, Calm, TypeOK, ProcOK
<1>2. proc[First].step \in {"call", "open", "write", "unlink", "wait"}
  BY <1>1 DEF AtQueue, Reads, Processes, Steps, Placed, PosixQ, NamedPipeFifo, ShrMem, TCPSocket
<1>3. ASSUME NEW p \in P, p # First PROVE p = Receiver
  <2>1. p = Child(proc[p].at) /\ Begun(proc[p].at) /\ proc[p].at \in Benchmarks
    BY <1>3, CalmFacts
  <2>2. proc[p].at = PosixQ
    BY <2>1 DEF AtQueue, Begun, PosixQ, Benchmarks
  <2> QED  BY <2>1, <2>2 DEF Receiver
<1>4. Reader(First) = Receiver
  BY FirstReader DEF AtQueue, Receiver
<1>5. Receiver \in P => /\ proc[Receiver].at = PosixQ /\ proc[Receiver].step \in {"setup", "read"}
                        /\ Begun(PosixQ) /\ proc[Receiver] \in Processes
  BY ReceiverName, ChildAt DEF Receiver, Calm, TypeOK, ProcOK
<1>6. Begun(PosixQ) => proc[First].step # "call"
  BY DEF Begun, AtQueue, PosixQ
<1> QED  BY <1>1, <1>2, <1>3, <1>4, <1>5, <1>6

LEMMA QueueStepOpen ==
    ASSUME Calm, Queue, NEW p \in P, QueueOpen(p) PROVE Queue'
<1>1. p = First /\ AtQueue /\ proc[First].step = "open" /\ proc[First] \in Processes
  BY CalmFacts DEF QueueOpen, At, Reads, AtQueue, Calm, TypeOK, ProcOK
<1>2. Receiver \in P /\ mq = (IF Receives THEN Receiver ELSE None)
      /\ (Receives => proc[Receiver].medium = Receiver) /\ \A u \in units : u.at # PosixQ
  BY <1>1 DEF Queue, ReceiverBefore, QueueLinked, QueueFilled, InQueue, AtQueue
<1>3. /\ P' = P /\ proc'[Receiver] = proc[Receiver]
      /\ proc'[First].at = PosixQ /\ proc'[First].step = "write"
      /\ proc'[First].medium = (IF Receives THEN Receiver ELSE First)
      /\ mq' = (IF Receives THEN Receiver ELSE First) /\ units' = units
  BY <1>1, <1>2, ReceiverName DEF QueueOpen, mq_open, P, AtQueue, Processes, Calm, TypeOK, ProcOK
<1>4. AtQueue' /\ (Receives' <=> Receives)
  BY <1>1, <1>3 DEF AtQueue, Receives
<1> QED
  BY <1>2, <1>3, <1>4, ReceiverName DEF Queue, ReceiverBefore, QueueLinked, QueueFilled, InQueue, AtQueue

LEMMA QueueStepUnlink ==
    ASSUME Calm, Queue, NEW p \in P, QueueUnlink(p) PROVE Queue'
<1>1. p = First /\ AtQueue /\ proc[First].step = "unlink" /\ proc[First] \in Processes
  BY CalmFacts DEF QueueUnlink, At, Reads, AtQueue, Calm, TypeOK, ProcOK
<1>2. Receiver \in P => /\ Unit(PosixQ, proc[First].medium, First) \in units
                        /\ Receives \/ PosixQ \in fits
                        /\ Receives => proc[Receiver].medium = proc[First].medium
  BY <1>1 DEF Queue, QueueLinked, QueueFilled, InQueue, AtQueue
<1>3. /\ P' = P /\ (Receiver \in P => proc'[Receiver] = proc[Receiver])
      /\ proc'[First].at = PosixQ /\ proc'[First].step = "wait"
      /\ proc'[First].medium = proc[First].medium
      /\ mq' = None /\ units' = units /\ fits' = fits
  BY <1>1, ReceiverName DEF QueueUnlink, Step, P, env, AtQueue, Processes, Calm, TypeOK, ProcOK
<1>4. AtQueue' /\ (Receives' <=> Receives)
  BY <1>1, <1>3 DEF AtQueue, Receives
<1>5. Unit(PosixQ, proc[First].medium, First)' = Unit(PosixQ, proc[First].medium, First)
  BY <1>3 DEF Unit
<1> QED
  BY <1>2, <1>3, <1>4, <1>5 DEF Queue, ReceiverBefore, QueueLinked, QueueFilled, InQueue, AtQueue

LEMMA QueueStepFork ==
    ASSUME Calm, Queue, NEW p \in P, Fork(p) PROVE Queue'
<1>1. p = First /\ proc[First] \in Processes
  BY CalmFacts DEF Fork, Reads, Calm, TypeOK, ProcOK
<1> DEFINE a == proc[First].at
           w == [proc[First] EXCEPT !.step = ForkStep(proc[First].at)]
<1>2. a \in Benchmarks /\ a \in Int /\ Reader(First) = Child(a) /\ Child(a) # First
  BY <1>1, ReaderName, NamesDiffer DEF Fork, Reader, Benchmarks
<1>3. /\ P' = P \cup {Child(a)} /\ proc'[First] = w /\ proc'[Child(a)] = Forked(First)
      /\ mq' = mq /\ units' = units
  BY <1>1, <1>2 DEF Fork, ForkStep, P
<1>4. w.at = a /\ (a = PosixQ => w.step = "open")
      /\ (a = PosixQ => Forked(First).step = "setup")
  BY <1>1 DEF Processes, ForkStep, Forked, PosixQ, TCPSocket
<1>5. CASE a = PosixQ
  <2>1. AtQueue /\ proc[First].step = "call" /\ Child(a) = Receiver
    BY <1>1, <1>5 DEF Fork, AtQueue, Receiver, PosixQ, NamedPipeFifo
  <2>2. Receiver \notin P
    BY <2>1, QueueFacts
  <2>3. mq = None /\ \A u \in units : u.at # PosixQ
    BY <2>1, <2>2 DEF Queue, QueueLinked, QueueFilled, InQueue, AtQueue, Receives
  <2>4. proc'[First].at = PosixQ /\ proc'[First].step = "open" /\ proc'[Receiver].step = "setup"
        /\ First \in P' /\ Receiver \in P'
    BY <1>1, <1>3, <1>4, <1>5, <2>1
  <2>5. AtQueue' /\ ~Receives'
    BY <2>4 DEF AtQueue, Receives
  <2> QED
    BY <1>3, <2>3, <2>4, <2>5 DEF Queue, ReceiverBefore, QueueLinked, QueueFilled, InQueue
<1>6. CASE a # PosixQ
  <2>1. ~AtQueue /\ Receiver \notin P /\ ~AtQueue'
    BY <1>1, <1>3, <1>4, <1>6 DEF AtQueue, Queue, ReceiverBefore
  <2>2. Receiver # Child(a)
    BY <1>2, <1>6, NamesDiffer DEF Receiver, PosixQ
  <2>3. Receiver \notin P'
    BY <1>3, <2>1, <2>2
  <2> QED  BY <2>1, <2>3, QueueAway
<1> QED  BY <1>5, <1>6

LEMMA QueueStaysAway ==
    ASSUME Queue, ~AtQueue, P' \subseteq P, First \in P' => proc'[First].at # PosixQ
    PROVE  Queue'
<1>1. ~AtQueue' /\ Receiver \notin P'
  BY DEF Queue, ReceiverBefore, AtQueue
<1> QED  BY <1>1, QueueAway

LEMMA QueueStepWrite ==
    ASSUME Calm, Queue, NEW p \in P, Write(p) PROVE Queue'
<1>1. p = First /\ proc[First] \in Processes /\ proc[First].step = "write"
      /\ proc[First].at \in Benchmarks
  BY CalmFacts DEF Write, CanWrite, Reads, Calm, TypeOK, ProcOK, Placed
<1> DEFINE a == proc[First].at
<1>2. CASE a = PosixQ
  <2>1. AtQueue /\ Receiver \in P /\ mq = proc[First].medium /\ mq # None
        /\ (Receives => proc[Receiver].medium = proc[First].medium)
    BY <1>1, <1>2 DEF Queue, ReceiverBefore, QueueLinked, InQueue, AtQueue
  <2>2. Receives \/ PosixQ \in fits
    <3>1. Served(First) \/ PosixQ \in fits
      BY <1>1, <1>2 DEF Write, CanWrite, PosixQ, ShrMem, TCPSocket, UDPSocket
    <3>2. ASSUME NEW r \in P, At(r, PosixQ, "read") PROVE Receives
      BY <1>1, <2>1, <3>2, QueueFacts DEF At, Receives
    <3>3. Served(First) => \E r \in P : At(r, PosixQ, "read")
      BY <1>2 DEF Served, PosixQ, NamedPipeFifo, TCPSocket
    <3> QED  BY <3>1, <3>2, <3>3
  <2>3. PosixQ \in Reaped /\ PosixQ # ShrMem /\ AfterWrite(PosixQ) = "unlink"
    BY DEF Reaped, PosixQ, ShrMem, AfterWrite
  <2>4. Step(First, "unlink") /\ mq' = mq /\ fits' = fits
    BY <1>1, <1>2, <2>3 DEF Write, env
  <2>5. /\ P' = P /\ proc'[Receiver] = proc[Receiver]
        /\ proc'[First].at = PosixQ /\ proc'[First].step = "unlink"
        /\ proc'[First].medium = proc[First].medium
    BY <1>1, <1>2, <2>1, <2>4, ReceiverName DEF Step, P, Processes, Calm, TypeOK, ProcOK
  <2>6. Unit(PosixQ, proc[First].medium, First) \in units'
    <3>1. Written(First) = {{Unit(PosixQ, proc[First].medium, First)}}
      BY <1>2 DEF Written, PosixQ, UDPSocket, TCPSocket
    <3> QED  BY <1>1, <3>1 DEF Write
  <2>7. Unit(PosixQ, proc[First].medium, First)' = Unit(PosixQ, proc[First].medium, First)
    BY <2>5 DEF Unit
  <2>8. AtQueue' /\ (Receives' <=> Receives)
    BY <2>1, <2>5 DEF AtQueue, Receives
  <2> QED
    BY <2>1, <2>2, <2>4, <2>5, <2>6, <2>7, <2>8 DEF Queue, ReceiverBefore, QueueLinked, QueueFilled, InQueue
<1>3. CASE a # PosixQ
  <2>1. a \in 2..7
    BY <1>1, <1>3 DEF PosixQ, Benchmarks
  <2>2. P' = P /\ proc'[First].at \in {a, a + 1}
    <3>1. ASSUME NEW s, Step(First, s) PROVE P' = P /\ proc'[First].at = a
      BY <1>1, <3>1, StepKeeps DEF Calm
    <3>2. ASSUME printf(First, [proc[First] EXCEPT !.step = "drain"]) PROVE P' = P /\ proc'[First].at = a
      <4> DEFINE r == [proc[First] EXCEPT !.step = "drain"]
      <4>1. r \in Processes /\ r.at = a
        BY <1>1 DEF Processes, Steps
      <4> QED  BY <1>1, <3>2, <4>1, ReportKeeps DEF Calm
    <3>3. ASSUME printf(First, Onward(First)) PROVE P' = P /\ proc'[First].at = a + 1
      BY <1>1, <3>3, CalmOnward, ReportKeeps DEF Calm
    <3> QED  BY <1>1, <3>1, <3>2, <3>3 DEF Write
  <2>3. proc'[First].at # PosixQ
    BY <2>1, <2>2 DEF PosixQ
  <2> QED  BY <1>3, <2>2, <2>3, QueueStaysAway DEF AtQueue
<1> QED  BY <1>2, <1>3

LEMMA QueueStepWait ==
    ASSUME Calm, Queue, NEW p \in P, Wait(p) PROVE Queue'
<1>1. p = First /\ Reader(First) \notin P /\ proc[First].at \in Benchmarks
  BY CalmFacts DEF Wait, Reads, Calm, TypeOK, ProcOK, Placed
<1>2. P' = P /\ proc'[First].at = proc[First].at + 1
  BY <1>1, CalmOnward, ReportKeeps DEF Wait, Calm
<1>3. proc'[First].at # PosixQ
  BY <1>1, <1>2 DEF Benchmarks, PosixQ
<1>4. Receiver \notin P
  BY <1>1, QueueFacts DEF Queue, ReceiverBefore
<1> QED  BY <1>2, <1>3, <1>4, QueueAway DEF AtQueue

LEMMA QueueStepSetup ==
    ASSUME Calm, Queue, NEW r \in P, ReaderSetup(r) PROVE Queue'
<1>1. /\ proc[r].step = "setup" /\ r # First /\ r = Child(proc[r].at) /\ proc[r].at \in Int
      /\ units' = units /\ fits' = fits
  BY CalmFacts DEF ReaderSetup, Reads, env, Benchmarks
<1>2. CASE proc[r].at = PosixQ
  <2>1. r = Receiver /\ AtQueue /\ ~Receives
    BY <1>1, <1>2 DEF Receiver, Receives, Queue, ReceiverBefore
  <2>2. mq_open(r, "read")
    BY <1>2 DEF ReaderSetup, PosixQ, ShrMem, TCPSocket, UDPSocket
  <2> DEFINE queue == IF mq = None THEN Receiver ELSE mq
  <2>3. /\ P' = P /\ proc'[First] = proc[First] /\ mq' = queue
        /\ proc'[Receiver].step = "read" /\ proc'[Receiver].medium = queue
    <3>1. proc[Receiver] \in Processes /\ Receiver \in P /\ First \in P /\ Receiver # First
      BY <1>1, <2>1 DEF AtQueue, Calm, TypeOK, ProcOK
    <3>2. /\ proc' = [proc EXCEPT ![Receiver].step = "read", ![Receiver].medium = queue]
          /\ mq' = queue
      BY <2>1, <2>2 DEF mq_open
    <3> HIDE DEF queue
    <3>3. P' = P /\ proc'[First] = proc[First]
      BY <3>1, <3>2 DEF P, Calm, TypeOK, ProcOK
    <3>4. proc'[Receiver] = [proc[Receiver] EXCEPT !.step = "read", !.medium = queue]
      BY <3>1, <3>2 DEF P, Processes, Calm, TypeOK, ProcOK
    <3>5. proc'[Receiver].step = "read" /\ proc'[Receiver].medium = queue
      BY <3>1, <3>4 DEF Processes
    <3> QED  BY <3>2, <3>3, <3>5
  <2>4. AtQueue' /\ Receives' /\ Receiver \in P
    BY <2>1, <2>3 DEF AtQueue, Receives
  <2>5. Unit(PosixQ, proc[First].medium, First)' = Unit(PosixQ, proc[First].medium, First)
    BY <2>3 DEF Unit
  <2>6. proc[First].step \in {"open", "write", "unlink", "wait"}
    BY <2>1, <2>4, QueueFacts
  <2>7. CASE proc[First].step = "open"
    <3>1. mq = None /\ \A u \in units : u.at # PosixQ
      BY <2>1, <2>7 DEF Queue, QueueLinked, QueueFilled, InQueue, AtQueue
    <3> QED
      BY <1>1, <2>1, <2>3, <2>4, <2>7, <3>1 DEF Queue, ReceiverBefore, QueueLinked, QueueFilled, InQueue
  <2>8. CASE proc[First].step = "write"
    <3>1. mq # None /\ mq = proc[First].medium /\ \A u \in units : u.at # PosixQ
      BY <2>1, <2>4, <2>8 DEF Queue, QueueLinked, QueueFilled, InQueue, AtQueue
    <3> QED
      BY <1>1, <2>1, <2>3, <2>4, <2>8, <3>1 DEF Queue, ReceiverBefore, QueueLinked, QueueFilled, InQueue
  <2>9. CASE proc[First].step = "unlink"
    <3>1. mq # None /\ mq = proc[First].medium /\ Unit(PosixQ, proc[First].medium, First) \in units
      BY <2>1, <2>4, <2>9 DEF Queue, QueueLinked, QueueFilled, InQueue, AtQueue
    <3> QED
      BY <1>1, <2>1, <2>3, <2>4, <2>5, <2>9, <3>1
         DEF Queue, ReceiverBefore, QueueLinked, QueueFilled, InQueue
  <2>10. CASE proc[First].step = "wait"
    <3>1. mq = None /\ PosixQ \in fits /\ Unit(PosixQ, proc[First].medium, First) \in units
      BY <2>1, <2>4, <2>10 DEF Queue, QueueLinked, QueueFilled, InQueue, AtQueue
    <3> QED
      BY <1>1, <2>1, <2>3, <2>4, <2>5, <2>10, <3>1
         DEF Queue, ReceiverBefore, QueueLinked, QueueFilled, InQueue
  <2> QED  BY <2>6, <2>7, <2>8, <2>9, <2>10
<1>3. CASE proc[r].at # PosixQ
  <2>1. ~AtQueue
    BY <1>1, <1>3, QueueFacts DEF AtQueue
  <2>2. P' \subseteq P /\ (First \in P' => proc'[First].at = proc[First].at)
    <3>1. CASE proc' = [q \in P |->
                        IF q = r THEN [proc[r] EXCEPT !.step = "read", !.medium = Front(r)]
                          ELSE IF q = Front(r) THEN [proc[q] EXCEPT !.medium = q] ELSE proc[q]]
      BY <1>1, <3>1 DEF P, Processes, Calm, TypeOK, ProcOK
    <3>2. CASE proc' = [proc EXCEPT ![r].step = "read", ![r].medium = r]
      BY <1>1, <3>2 DEF P, Calm, TypeOK, ProcOK
    <3>3. CASE Step(r, "read")
      BY <1>1, <3>3 DEF Step, P, Calm, TypeOK, ProcOK
    <3>4. CASE exit(r)
      BY <1>1, <3>4, GoneKeeps DEF exit, Kept
    <3> QED  BY <1>3, <3>1, <3>2, <3>3, <3>4 DEF ReaderSetup
  <2> QED  BY <2>1, <2>2, QueueStaysAway DEF AtQueue
<1> QED  BY <1>2, <1>3

LEMMA QueueStepFinish ==
    ASSUME Calm, Queue, NEW r \in P, Finish(r) PROVE Queue'
<1>1. /\ proc[r].step = "read" /\ r # First /\ r = Child(proc[r].at)
      /\ P' = P \ {r} /\ \A q \in P' : proc'[q] = proc[q]
  BY CalmFacts DEF Finish, CanFinish, exit, Gone, Restrict, P, Reads
<1>2. CASE proc[r].at = PosixQ
  <2>1. r = Receiver /\ AtQueue
    BY <1>1, <1>2 DEF Receiver, Queue, ReceiverBefore
  <2>2. PICK u \in units : u.at = PosixQ
    BY <1>2 DEF Finish, CanFinish, MyUnits, PosixQ, TCPSocket
  <2>3. proc[First].step \notin {"call", "open", "write"}
    BY <2>1, <2>2 DEF Queue, QueueFilled, InQueue, AtQueue
  <2>4. Receiver \notin P' /\ (First \in P' => proc'[First] = proc[First])
    BY <1>1, <2>1
  <2> QED
    BY <2>3, <2>4 DEF Queue, ReceiverBefore, QueueLinked, QueueFilled, InQueue
<1>3. CASE proc[r].at # PosixQ
  <2>1. ~AtQueue
    BY <1>1, <1>3, QueueFacts DEF AtQueue
  <2> QED  BY <1>1, <2>1, QueueStaysAway DEF AtQueue
<1> QED  BY <1>2, <1>3

(* The other steps are those of main in a later benchmark, or of a reader  *)
(* there.                                                                  *)
LEMMA QueueStepOther ==
    ASSUME Calm, Queue, NEW p \in P,
           \/ FifoUnlink(p) \/ FifoMake(p) \/ FifoOpen(p) \/ TcpConnect(p) \/ Drain(p) \/ MainExit(p)
           \/ TcpAccept(p)
    PROVE  Queue'
<1>1. CASE \/ FifoUnlink(p) \/ FifoMake(p) \/ FifoOpen(p) \/ TcpConnect(p) \/ Drain(p)
  <2>1. p = First /\ proc[First] \in Processes /\ proc[First].at \in {ShrMem, NamedPipeFifo, TCPSocket}
    BY <1>1, CalmFacts DEF FifoUnlink, FifoMake, FifoOpen, TcpConnect, Drain, At, Reads,
       Calm, TypeOK, ProcOK, Placed
  <2>2. \/ Return(First) \/ \E s : Step(First, s)
        \/ proc' = [proc EXCEPT ![First].step = "opened", ![First].medium = fifo]
        \/ proc' = [proc EXCEPT ![First].step = "write", ![First].conn = @ \cup {First}]
    BY <1>1, <2>1 DEF FifoUnlink, FifoMake, FifoOpen, TcpConnect, Drain
  <2>3. P' = P /\ proc'[First].at \in {proc[First].at, proc[First].at + 1}
    <3>1. CASE Return(First)
      BY <2>1, <3>1, ReturnKeeps DEF Calm
    <3>2. CASE \E s : Step(First, s)
      BY <2>1, <3>2, StepKeeps DEF Calm
    <3>3. CASE \/ proc' = [proc EXCEPT ![First].step = "opened", ![First].medium = fifo]
               \/ proc' = [proc EXCEPT ![First].step = "write", ![First].conn = @ \cup {First}]
      BY <2>1, <3>3 DEF P, Processes, Calm, TypeOK, ProcOK
    <3> QED  BY <2>2, <3>1, <3>2, <3>3
  <2>4. proc[First].at # PosixQ /\ proc'[First].at # PosixQ
    BY <2>1, <2>3 DEF PosixQ, ShrMem, NamedPipeFifo, TCPSocket
  <2> QED  BY <2>3, <2>4, QueueStaysAway DEF AtQueue
<1>2. CASE MainExit(p)
  <2>1. p = First /\ proc[First].at = Exit /\ First \notin P' /\ P' \subseteq P
    BY <1>2, CalmFacts, GoneKeeps DEF MainExit, At, Reads, exit
  <2> QED  BY <2>1, QueueStaysAway DEF AtQueue, PosixQ, Exit
<1>3. CASE TcpAccept(p)
  <2>1. p # First /\ Reads(p) /\ proc[p].at = TCPSocket
    BY <1>3, CalmFacts DEF TcpAccept, At, Reads
  <2>2. ~AtQueue
    BY <2>1, QueueFacts DEF TCPSocket, PosixQ
  <2>3. P' = P /\ (First \in P => proc'[First] = proc[First])
    BY <1>3, <2>1 DEF TcpAccept, P, Calm, TypeOK, ProcOK
  <2> QED  BY <2>2, <2>3, QueueStaysAway DEF AtQueue
<1> QED  BY <1>1, <1>2, <1>3

LEMMA QueueInvariance == TypeOK /\ WInv /\ RInv /\ QInv /\ [Next]_vars => QInv'
<1> SUFFICES ASSUME TypeOK, WInv, RInv, QInv, [Next]_vars, faults' = 0 PROVE Queue'
  BY DEF QInv
<1>1. faults + 1 # 0
  BY DEF TypeOK
<1>2. CASE UNCHANGED vars
  <2>1. proc' = proc /\ P' = P /\ units' = units /\ mq' = mq /\ fits' = fits /\ Queue
    BY <1>2 DEF vars, env, P, QInv
  <2> QED
    BY <2>1 DEF Queue, ReceiverBefore, QueueLinked, QueueFilled, InQueue, AtQueue, Receives, Unit
<1>3. ASSUME NEW p \in P,
             \/ QueueOpen(p) \/ QueueUnlink(p)
             \/ FifoUnlink(p) \/ FifoMake(p) \/ FifoOpen(p) \/ Fork(p)
             \/ TcpConnect(p) \/ Write(p) \/ Wait(p) \/ Drain(p) \/ MainExit(p)
             \/ ReaderSetup(p) \/ TcpAccept(p) \/ Finish(p)
             \/ WriterStranded(p)
      PROVE  Queue'
  <2>1. Calm /\ Queue
    BY <1>3 DEF Calm, QInv, QueueOpen, QueueUnlink, FifoUnlink, FifoMake, FifoOpen, Fork, TcpConnect, Write,
       Wait, Drain, MainExit, ReaderSetup, TcpAccept, Finish, WriterStranded
  <2> QED
    BY <1>3, <2>1, QueueStepOpen, QueueStepUnlink, QueueStepFork, QueueStepWrite, QueueStepWait,
       QueueStepSetup, QueueStepFinish, QueueStepOther, CalmStranded
<1>4. ASSUME NEW p \in P,
             \/ ReaderFails(p) \/ ReaderReturns(p) \/ FifoReadFails(p)
             \/ WriterFails(p) \/ Kill(p)
      PROVE  FALSE
  BY <1>1, <1>4 DEF ReaderFails, ReaderReturns, FifoReadFails, WriterFails, Kill, Fault
<1> QED  BY <1>2, <1>3, <1>4 DEF Next, Terminating
-----------------------------------------------------------------------------
(* A reader whose messages are sent has them before it.                    *)
LEMMA SentNotBlocked ==
    ASSUME CalmReady, NEW b \in Local, Child(b) \in P, Sent(b)
    PROVE  ~Blocked(Child(b))
<1>1. Message(b) \in units /\ proc[Child(b)].at = b /\ proc[Child(b)].step = "read"
      /\ proc[Child(b)].medium = First
  BY DEF CalmReady, Inbound, SentWaits, Listens
<1>2. Message(b) \in MyUnits(Child(b))
  BY <1>1 DEF MyUnits, Message, Unit
<1>3. b # TCPSocket
  BY LocalNumbers
<1>4. CanFinish(Child(b))
  BY <1>1, <1>2, <1>3 DEF CanFinish
<1> QED  BY <1>1, <1>4 DEF Blocked

LEMMA SetupNotBlocked ==
    ASSUME NEW p \in P, proc[p].step = "setup"
    PROVE  ~Blocked(p)
  BY DEF Blocked

(* In PosixQ only a reader with another queue keeps main from going on.    *)
LEMMA QueueGoesOn ==
    ASSUME Calm, Queue, AtQueue, Quiet
    PROVE  QueueMissed
<1>1. /\ First \in P /\ proc[First].at = PosixQ /\ Blocked(First)
      /\ Receiver \in P => Blocked(Receiver)
  BY DEF AtQueue, Quiet
<1>2. /\ proc[First].step \in {"call", "open", "write", "unlink", "wait"}
      /\ \A p \in P : p = First \/ p = Receiver
      /\ Reader(First) = Receiver
      /\ Receiver \in P => proc[Receiver].at = PosixQ /\ proc[Receiver].step \in {"setup", "read"}
  BY QueueFacts
<1>3. Receiver \in P => Receives
  BY <1>1, <1>2, SetupNotBlocked DEF Receives
<1>4. proc[First].step # "write"
  <2> SUFFICES ASSUME proc[First].step = "write" PROVE FALSE
    OBVIOUS
  <2>1. Receiver \in P /\ At(Receiver, PosixQ, "read") /\ proc[Receiver].medium = proc[First].medium
    BY <1>1, <1>2, <1>3 DEF Queue, ReceiverBefore, QueueLinked, InQueue, Receives, At
  <2>2. Served(First)
    <3>1. proc[First].at \in {PosixQ, NamedPipeFifo} /\ proc[First].at # TCPSocket
      BY <1>1 DEF PosixQ, TCPSocket
    <3>2. \E r \in P : At(r, proc[First].at, "read") /\ proc[r].medium = proc[First].medium
      BY <1>1, <2>1
    <3> QED  BY <3>1, <3>2 DEF Served
  <2>3. Awake(First)
    BY <1>1 DEF Awake, SetUp, PosixQ, ShrMem, TCPSocket, UDPSocket
  <2>4. CanWrite(First)
    BY <1>1, <2>2, <2>3 DEF CanWrite, PosixQ, ShrMem, TCPSocket, UDPSocket
  <2> QED  BY <1>1, <2>4 DEF Blocked
<1>5. proc[First].step = "wait" /\ Receiver \in P
  BY <1>1, <1>2, <1>4 DEF Blocked
<1>6. /\ Unit(PosixQ, proc[First].medium, First) \in units
      /\ \/ proc[Receiver].medium = proc[First].medium
         \/ proc[Receiver].medium = Receiver /\ PosixQ \in fits
  BY <1>1, <1>3, <1>5 DEF Queue, QueueFilled, InQueue
<1>7. proc[Receiver].medium # proc[First].medium
  <2> SUFFICES ASSUME proc[Receiver].medium = proc[First].medium PROVE FALSE
    OBVIOUS
  <2>1. Unit(PosixQ, proc[First].medium, First) \in MyUnits(Receiver)
    BY <1>2, <1>5, <1>6 DEF MyUnits, Unit
  <2>2. CanFinish(Receiver)
    BY <1>2, <1>3, <1>5, <2>1 DEF CanFinish, Receives, PosixQ, TCPSocket
  <2> QED  BY <1>1, <1>3, <1>5, <2>2 DEF Blocked, Receives
<1>8. P = {First, Receiver}
  BY <1>1, <1>2, <1>5
<1> QED  BY <1>1, <1>2, <1>3, <1>5, <1>6, <1>7, <1>8 DEF QueueMissed, At, Receives

(* While the first process lives, past PosixQ, somebody can go on: what it *)
(* waits for is always another process that does not wait.                 *)
LEMMA MainGoesOn ==
    ASSUME CalmReady, First \in P, ~AtQueue
    PROVE  ~Quiet
<1> SUFFICES ASSUME \A p \in P : Blocked(p) PROVE FALSE
  BY DEF Quiet
<1> DEFINE a == proc[First].at
<1>1. /\ Blocked(First) /\ ~Reads(First) /\ proc[First] \in Processes
      /\ Reader(First) = Child(a) /\ Peers /\ Inbound /\ Connection
  BY CalmFacts, FirstReader DEF CalmReady, Calm, TypeOK, ProcOK
<1>2. proc[First].step # "call" => a \in Benchmarks
  BY DEF CalmReady, Calm, TypeOK, ProcOK, Placed
<1>3. a \in Benchmarks /\ a \in Int /\ a # PosixQ
  BY <1>1, <1>2 DEF Blocked, Benchmarks, AtQueue
<1>4. Awake(First)
  BY <1>1, SetupNotBlocked DEF Awake, At
<1>5. CASE proc[First].step = "write" /\ ~CanWrite(First)
  <2>1. CASE a \in Local
    <3>1. Child(a) \in P /\ Reads(Child(a)) /\ proc[Child(a)].at = a /\ proc[Child(a)].step = "read"
      <4>1. Child(a) \in P
        BY <1>1, <1>5, <2>1 DEF Inbound, ReaderStays
      <4> QED  BY <1>3, <4>1, ChildAt, SetupNotBlocked DEF CalmReady
    <3>2. ReaderThere(First)
      BY <1>1, <3>1 DEF ReaderThere
    <3>3. a = NamedPipeFifo => Served(First)
      <4>1. a = NamedPipeFifo => proc[Child(a)].medium = First /\ proc[First].medium = First
        BY <1>1, <1>5, <2>1, <3>1 DEF Inbound, Listens, FifoKept
      <4>2. a = NamedPipeFifo => \E r \in P : At(r, NamedPipeFifo, "read")
                                             /\ proc[r].medium = proc[First].medium
        BY <3>1, <4>1 DEF At
      <4>3. NamedPipeFifo # TCPSocket
        BY DEF NamedPipeFifo, TCPSocket
      <4> QED  BY <4>2, <4>3 DEF Served
    <3>4. a # TCPSocket
      BY <2>1, LocalNumbers
    <3>5. Served(First)
      BY <1>3, <3>2, <3>3, <3>4 DEF Served
    <3> QED  BY <1>4, <1>5, <3>2, <3>4, <3>5 DEF CanWrite
  <2>2. CASE a = TCPSocket
    <3>1. Past
      BY <1>5, <2>2 DEF Past
    <3>2. Tcp \in P /\ At(Tcp, TCPSocket, "read") /\ Blocked(Tcp)
      BY <1>1, <3>1 DEF Connection, TcpStays, TcpWaits, At
    <3>3. proc[Tcp].medium = First
      <4> SUFFICES ASSUME listener = Tcp, backlog = <<First>>, proc[Tcp].medium = None PROVE FALSE
        BY <1>1, <3>1, <3>2 DEF Connection, TcpWaits
      <4>1. backlog # <<>>
        OBVIOUS
      <4> QED  BY <3>2, <4>1 DEF Blocked, At
    <3>4. Accepted(First)
      BY <3>2, <3>3 DEF Accepted
    <3> QED  BY <1>4, <1>5, <2>2, <3>4 DEF CanWrite, TCPSocket, ShrMem
  <2>3. CASE a = UDPSocket
    BY <1>4, <1>5, <2>3 DEF CanWrite, UDPSocket, TCPSocket, ShrMem
  <2> QED  BY <1>3, <2>1, <2>2, <2>3, LocalNumbers DEF Benchmarks
<1>6. CASE proc[First].step = "wait" /\ Reader(First) \in P
  <2>1. a \in Local
    BY <1>3, <1>6 DEF CalmReady, Calm, TypeOK, ProcOK, Placed, Reaped, Local
  <2>2. Sent(a) /\ Child(a) \in P
    BY <1>1, <1>6 DEF Sent
  <2> QED  BY <2>1, <2>2, SentNotBlocked
<1>7. CASE proc[First].step = "drain" /\ Unit(ShrMem, First, First) \in units
  <2>1. ShrMem \in Local /\ Unit(ShrMem, First, First).at = ShrMem
    BY DEF Local, Unit
  <2>2. Child(ShrMem) \in P /\ Sent(ShrMem)
    BY <1>1, <1>7, <2>1 DEF Inbound, UnitsSent
  <2> QED  BY <2>1, <2>2, SentNotBlocked
<1> QED  BY <1>1, <1>4, <1>5, <1>6, <1>7 DEF Blocked, Reads

(* If ipc_bm comes to a halt without a fault before all its processes have *)
(* ended, two are left: main and the reader of PosixQ, which opened its    *)
(* queue after main had sent all messages and unlinked its own             *)
(* (ipc_bm.c:691, 743); or the receiver of UDPSocket, which lost a         *)
(* datagram, and the reader of TCPSocket, which waits for an end-of-file   *)
(* that the first one's inherited connection (ipc_bm.c:361) withholds.     *)
THEOREM HangsHaveCauses == Spec => []HangHasCause
<1>1. Init => WInv /\ RInv /\ HInv /\ QInv
  <2> SUFFICES ASSUME Init PROVE HInv /\ QInv
    BY InitReports
  <2>1. /\ P = {First} /\ proc[First].at = 1 /\ proc[First].step = "call"
        /\ proc[First].conn = {} /\ units = {} /\ mq = None
    BY DEF Init, P, PosixQ
  <2>6. Queue
    BY <2>1, ReceiverName DEF Queue, ReceiverBefore, QueueLinked, QueueFilled, InQueue, AtQueue, Receives, PosixQ
  <2>2. \A b \in Benchmarks : Child(b) # First
    BY NamesDiffer DEF Benchmarks
  <2>3. ~Past
    BY <2>1 DEF Past, TCPSocket
  <2>4. Inbound
    BY <2>1, <2>2, LocalNames DEF Inbound, FifoKept, UnitsSent, SentWaits, Listens, ReaderStays
  <2>5. Connection
    BY <2>1, <2>3, TcpName DEF Connection, TcpWaits, Holders, TcpStays
  <2> QED  BY <2>4, <2>5, <2>6 DEF HInv, QInv
<1>2. TypeOK /\ WInv /\ RInv /\ HInv /\ QInv => HangHasCause
  <2> SUFFICES ASSUME TypeOK, WInv, RInv, HInv, QInv, faults = 0, Quiet, P # {}, ~QueueMissed
               PROVE  DatagramLost
    BY DEF HangHasCause
  <2>1. Calm /\ CalmReady /\ Inbound /\ Connection /\ Queue /\ \A p \in P : Blocked(p)
    BY DEF Calm, CalmReady, HInv, QInv, Quiet
  <2>11. ~AtQueue
    BY <2>1, QueueGoesOn
  <2>2. First \notin P
    BY <2>1, <2>11, MainGoesOn
  <2>3. Past /\ \A b : Sent(b)
    BY <2>2 DEF Past, Sent
  <2>4. \A p \in P : p \in {Tcp, Udp} /\ proc[p].step = "read"
    <3> SUFFICES ASSUME NEW p \in P PROVE p \in {Tcp, Udp} /\ proc[p].step = "read"
      OBVIOUS
    <3>1. p = Child(proc[p].at) /\ Reads(p) /\ proc[p].at \in Benchmarks
      BY <2>1, <2>2, CalmFacts
    <3>2. proc[p].at \notin Local
      BY <2>1, <2>3, <3>1, SentNotBlocked
    <3>4. proc[p].at # PosixQ
      BY <2>1, <2>11, <3>1 DEF Queue, ReceiverBefore, Receiver
    <3>3. proc[p].at \in {TCPSocket, UDPSocket}
      BY <3>1, <3>2, <3>4, LocalNumbers DEF Benchmarks
    <3> QED  BY <2>1, <3>1, <3>3, SetupNotBlocked DEF Reads, Tcp, Udp
  <2>5. Tcp \in P
    BY <2>1, <2>3, <2>4 DEF Connection, TcpStays
  <2>6. At(Tcp, TCPSocket, "read") /\ proc[Tcp].medium = First
    <3>1. proc[Tcp].at = TCPSocket /\ proc[Tcp].step = "read"
      BY <2>1, <2>3, <2>5 DEF Connection, TcpWaits
    <3>2. ASSUME listener = Tcp, backlog = <<First>>, proc[Tcp].medium = None PROVE FALSE
      <4>1. backlog # <<>>
        BY <3>2
      <4> QED  BY <2>1, <2>5, <3>1, <3>2, <4>1 DEF Blocked
    <3> QED  BY <2>1, <2>3, <2>5, <3>1, <3>2 DEF Connection, TcpWaits, At
  <2>7. Udp \in P
    <3>1. ~AtEof(Tcp)
      BY <2>1, <2>5, <2>6 DEF Blocked, CanFinish, At
    <3>2. PICK q \in P : First \in proc[q].conn
      BY <2>6, <3>1, TcpName DEF AtEof
    <3>3. q \in {First, Udp}
      BY <2>1, <3>2 DEF Connection, Holders
    <3> QED  BY <2>2, <3>2, <3>3
  <2>8. At(Udp, UDPSocket, "read") /\ First \in proc[Udp].conn
    <3>1. UDPSocket \in Benchmarks
      BY DEF UDPSocket, Benchmarks
    <3> QED  BY <2>1, <2>3, <2>4, <2>7, <3>1, ChildAt DEF Connection, Holders, Udp, At
  <2>9. MyUnits(Udp) = {}
    BY <2>1, <2>7, <2>8 DEF Blocked, CanFinish, At, UDPSocket, TCPSocket
  <2>10. P = {Udp, Tcp}
    BY <2>4, <2>5, <2>7
  <2> QED  BY <2>5, <2>6, <2>7, <2>8, <2>9, <2>10 DEF DatagramLost
<1> QED
  BY <1>1, <1>2, TypeCorrect, WritersInvariance, ReportsInvariance, ReadyInvariance, QueueInvariance, PTL
     DEF Spec
=============================================================================
