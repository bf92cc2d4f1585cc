-------------------------- MODULE ConnStreamProofs --------------------------
(***************************************************************************)
(* Proofs about ConnStream: for every size, count, buffer, number of runs  *)
(* and of faults the check of the sum is exact; processes of different     *)
(* runs meet only after a failure; and uds.c and tcp.c hang in accept or   *)
(* not at all.                                                             *)
(***************************************************************************)
EXTENDS ConnStream, TLAPS

(* The type invariant in two parts.                                        *)
ControlTypes ==
    /\ prog \in Programs /\ count \in Counts
    /\ run \in Runs /\ name \in {Nobody} \cup Runs
    /\ rpc \in [Runs -> ReaderLabels] /\ wpc \in [Runs -> WriterLabels]
    /\ peer \in [Runs -> {Nobody} \cup Runs] /\ conn \in [Runs -> {Nobody} \cup Runs]
    /\ swallowed \in SUBSET Runs /\ early \in SUBSET Runs
    /\ faults \in 0..MaxFaults

ByteTypes ==
    /\ i \in [Runs -> 0..count]
    /\ off \in [Runs -> 0 .. Size - 1] /\ chan \in [Runs -> 0..Capacity]
    /\ open \in [Runs -> BOOLEAN] /\ sum \in [Runs -> Int]

(* Runs start one by one, each when the writer before has gone.            *)
Order ==
    /\ \A q \in Runs :
          /\ q < run => WriterEnded(q)
          /\ q > run <=> rpc[q] = "none"
          /\ q > run <=> wpc[q] = "none"
    /\ name <= run

(* Where a reader stands says what it is connected to.                     *)
Readers ==
    \A r \in Runs :
        /\ rpc[r] \in {"none", "unlink", "bind", "accept"} =>
              conn[r] = Nobody /\ sum[r] = 0
        /\ rpc[r] \in {"read", "done", "sumError"} => conn[r] # Nobody
        /\ rpc[r] \in {"none", "unlink", "bind"} =>
              name # r /\ \A w \in Runs : peer[w] # r
        /\ conn[r] # Nobody => peer[conn[r]] = r

(* Where a writer stands says what it has written and whether it is still  *)
(* connected; it connects to a reader of its own or an earlier run.        *)
Writers ==
    \A w \in Runs :
        /\ wpc[w] \in {"none", "sleep", "connect"} => peer[w] = Nobody /\ ~open[w]
        /\ wpc[w] \in {"write", "done"} => peer[w] # Nobody
        /\ wpc[w] = "write" => open[w]
        /\ wpc[w] = "done" => i[w] = count
        /\ i[w] = count => off[w] = 0
        /\ open[w] /\ ~prog.keepsOpen => wpc[w] = "write"
        /\ peer[w] <= w

Written(w) == i[w] * Size + off[w]

(* Every byte written is in the connection's buffer or in the sum of the   *)
(* reader that accepted it, up to the -1s of ignored errors.               *)
Accounts ==
    /\ \A r \in Runs :
          conn[r] # Nobody =>
             /\ sum[r] + chan[conn[r]] <= Written(conn[r])
             /\ r \notin swallowed => sum[r] + chan[conn[r]] = Written(conn[r])
    /\ \A w \in Runs : (\A r \in Runs : conn[r] # w) => chan[w] = Written(w)

(* What a reader's verdict says of the writer it accepted.                 *)
Verdicts ==
    \A r \in Runs :
        /\ rpc[r] = "done" => i[conn[r]] = count
        /\ rpc[r] = "sumError" =>
              /\ wpc[conn[r]] # "write"
              /\ r \notin swallowed => i[conn[r]] < count

(* If all sleeps sufficed the current reader's socket has the name while   *)
(* its writer is on the way to it.                                         *)
Meeting ==
    /\ \A q \in Runs : wpc[q] \notin {"none", "sleep"} /\ q \notin early => ~SettingUp(q)
    /\ /\ SleptUpTo(run) /\ wpc[run] \in {"sleep", "connect"}
       /\ rpc[run] \in {"accept", "read", "done", "sumError"}
       => name = run

IInv ==
    /\ ControlTypes /\ ByteTypes
    /\ Order /\ Readers /\ Writers /\ Accounts /\ Verdicts
    /\ Meeting /\ OwnReader /\ OwnWriterFirst
-----------------------------------------------------------------------------
USE ArgAssumption, BufAssumption, BoundAssumption
USE DEF Nobody, Stopped, ReaderEnded, WriterEnded, SettingUp, Listening,
        Fault, args, net, data, history

(* The numbers of the runs.                                                *)
LEMMA RunsArePositive ==
  /\ \A r \in Runs : r \in Nat /\ r > 0
  /\ 0 \notin Runs
  BY DEF Runs

LEMMA NextRun ==
  ASSUME run \in Runs, NewRun
  PROVE  run' \in Runs /\ run' = run + 1 /\ run' > run
  BY DEF NewRun, Runs

LEMMA KeepsOpenIsBoolean ==
  ASSUME prog \in Programs
  PROVE  prog.keepsOpen \in BOOLEAN
<1>1. CASE prog = uds
  BY <1>1 DEF uds
<1>2. CASE prog = tcp
  BY <1>2 DEF tcp
<1>3. CASE prog = UDSocket
  BY <1>3 DEF UDSocket
<1>4. CASE prog = TCPSocket
  BY <1>4 DEF TCPSocket
<1> QED
  BY <1>1, <1>2, <1>3, <1>4 DEF Programs

(* The arithmetic of i * Size that the solvers do not do by themselves.    *)
LEMMA NextMultiple ==
  ASSUME NEW m \in Int, NEW s \in Int
  PROVE  (m + 1) * s = m * s + s
  OBVIOUS

LEMMA FewerAreShorter ==
  ASSUME NEW m \in Nat, NEW n \in Nat, m < n
  PROVE  m * Size + Size <= n * Size
<1>1. PICK d \in Nat : n = (m + 1) + d
  <2> WITNESS n - (m + 1) \in Nat
  <2> QED
    OBVIOUS
<1>2. n * Size = (m + 1) * Size + d * Size
  BY <1>1
<1>3. d * Size >= 0
  BY <1>1
<1> QED
  BY <1>2, <1>3, NextMultiple

(* A writer has written everything or less.                                *)
LEMMA FullOrShort ==
  ASSUME NEW m \in Nat, NEW n \in Nat, m <= n,
         NEW o \in 0 .. Size - 1, m = n => o = 0
  PROVE  /\ m * Size + o <= n * Size
         /\ m * Size + o = n * Size <=> m = n
<1>1. m * Size \in Int /\ n * Size \in Int
  OBVIOUS
<1>2. CASE m = n
  BY <1>1, <1>2
<1>3. CASE m < n
  <2>1. m * Size + Size <= n * Size
    BY <1>3, FewerAreShorter
  <2> QED
    BY <1>1, <1>3, <2>1
<1> QED
  BY <1>2, <1>3

(* Every step keeps the types of the processes' state.                     *)
LEMMA ControlTypesStep ==
  ASSUME ControlTypes, [Next]_vars
  PROVE  ControlTypes'
<1> USE RunsArePositive
        DEF ControlTypes, ReaderLabels, WriterLabels
<1>1. ASSUME NEW r \in Runs, ReaderUnlink(r) PROVE ControlTypes'
  BY <1>1 DEF ReaderUnlink
<1>2. ASSUME NEW r \in Runs, ReaderBind(r) PROVE ControlTypes'
  BY <1>2 DEF ReaderBind
<1>3. ASSUME NEW r \in Runs, ReaderAccept(r) PROVE ControlTypes'
  BY <1>3 DEF ReaderAccept, Backlog
<1>4. ASSUME NEW r \in Runs, ReaderRead(r) PROVE ControlTypes'
  BY <1>4 DEF ReaderRead
<1>5. ASSUME NEW r \in Runs, ReaderEof(r) PROVE ControlTypes'
  BY <1>5 DEF ReaderEof
<1>6. ASSUME NEW r \in Runs, ReaderError(r) PROVE ControlTypes'
  BY <1>6 DEF ReaderError
<1>7. ASSUME NEW r \in Runs, KillReader(r) PROVE ControlTypes'
  BY <1>7 DEF KillReader
<1>8. ASSUME NEW w \in Runs, WriterWake(w) PROVE ControlTypes'
  BY <1>8 DEF WriterWake
<1>9. ASSUME NEW w \in Runs, WriterConnect(w) PROVE ControlTypes'
  BY <1>9 DEF WriterConnect
<1>10. ASSUME NEW w \in Runs, WriterWrite(w) PROVE ControlTypes'
  BY <1>10 DEF WriterWrite
<1>11. ASSUME NEW w \in Runs, WriterBroken(w) PROVE ControlTypes'
  BY <1>11 DEF WriterBroken
<1>12. ASSUME NEW w \in Runs, WriterError(w) PROVE ControlTypes'
  BY <1>12 DEF WriterError
<1>13. ASSUME NEW w \in Runs, WriterReport(w) PROVE ControlTypes'
  BY <1>13 DEF WriterReport
<1>14. ASSUME NEW w \in Runs, KillWriter(w) PROVE ControlTypes'
  BY <1>14 DEF KillWriter
<1>15. ASSUME NEW w \in Runs, LaterClose(w) PROVE ControlTypes'
  BY <1>15 DEF LaterClose
<1>16. CASE NewRun
  BY <1>16, NextRun DEF NewRun, FirstLabel
<1>17. CASE UNCHANGED vars
  BY <1>17 DEF vars
<1> QED
  BY <1>1, <1>2, <1>3, <1>4, <1>5, <1>6, <1>7, <1>8, <1>9, <1>10,
     <1>11, <1>12, <1>13, <1>14, <1>15, <1>16, <1>17
     DEF Next, ReaderNext, WriterNext, Terminating

(* Every step keeps the types of the bytes' state.                         *)
LEMMA ByteTypesStep ==
  ASSUME ControlTypes, Readers, ByteTypes, [Next]_vars
  PROVE  ByteTypes'
<1> USE RunsArePositive, KeepsOpenIsBoolean
        DEF ControlTypes, Readers, ByteTypes
<1>1. ASSUME NEW r \in Runs, ReaderUnlink(r) PROVE ByteTypes'
  BY <1>1 DEF ReaderUnlink
<1>2. ASSUME NEW r \in Runs, ReaderBind(r) PROVE ByteTypes'
  BY <1>2 DEF ReaderBind
<1>3. ASSUME NEW r \in Runs, ReaderAccept(r) PROVE ByteTypes'
  BY <1>3 DEF ReaderAccept, Backlog
<1>4. ASSUME NEW r \in Runs, ReaderRead(r) PROVE ByteTypes'
  BY <1>4 DEF ReaderRead, Least
<1>5. ASSUME NEW r \in Runs, ReaderEof(r) PROVE ByteTypes'
  BY <1>5 DEF ReaderEof
<1>6. ASSUME NEW r \in Runs, ReaderError(r) PROVE ByteTypes'
  BY <1>6 DEF ReaderError
<1>7. ASSUME NEW r \in Runs, KillReader(r) PROVE ByteTypes'
  BY <1>7 DEF KillReader
<1>8. ASSUME NEW w \in Runs, WriterWake(w) PROVE ByteTypes'
  BY <1>8 DEF WriterWake
<1>9. ASSUME NEW w \in Runs, WriterConnect(w) PROVE ByteTypes'
  BY <1>9 DEF WriterConnect
<1>10. ASSUME NEW w \in Runs, WriterWrite(w) PROVE ByteTypes'
  BY <1>10 DEF WriterWrite, Least
<1>11. ASSUME NEW w \in Runs, WriterBroken(w) PROVE ByteTypes'
  BY <1>11 DEF WriterBroken
<1>12. ASSUME NEW w \in Runs, WriterError(w) PROVE ByteTypes'
  BY <1>12 DEF WriterError
<1>13. ASSUME NEW w \in Runs, WriterReport(w) PROVE ByteTypes'
  BY <1>13 DEF WriterReport
<1>14. ASSUME NEW w \in Runs, KillWriter(w) PROVE ByteTypes'
  BY <1>14 DEF KillWriter
<1>15. ASSUME NEW w \in Runs, LaterClose(w) PROVE ByteTypes'
  BY <1>15 DEF LaterClose
<1>16. CASE NewRun
  BY <1>16 DEF NewRun
<1>17. CASE UNCHANGED vars
  BY <1>17 DEF vars
<1> QED
  BY <1>1, <1>2, <1>3, <1>4, <1>5, <1>6, <1>7, <1>8, <1>9, <1>10,
     <1>11, <1>12, <1>13, <1>14, <1>15, <1>16, <1>17
     DEF Next, ReaderNext, WriterNext, Terminating

(* Every step keeps the order of the runs.                                 *)
LEMMA OrderStep ==
  ASSUME ControlTypes, Order, [Next]_vars
  PROVE  Order'
<1> USE RunsArePositive
        DEF ControlTypes, Order
<1>1. ASSUME NEW r \in Runs, ReaderUnlink(r) PROVE Order'
  BY <1>1 DEF ReaderUnlink
<1>2. ASSUME NEW r \in Runs, ReaderBind(r) PROVE Order'
  BY <1>2 DEF ReaderBind
<1>3. ASSUME NEW r \in Runs, ReaderAccept(r) PROVE Order'
  BY <1>3 DEF ReaderAccept
<1>4. ASSUME NEW r \in Runs, ReaderRead(r) PROVE Order'
  BY <1>4 DEF ReaderRead
<1>5. ASSUME NEW r \in Runs, ReaderEof(r) PROVE Order'
  BY <1>5 DEF ReaderEof
<1>6. ASSUME NEW r \in Runs, ReaderError(r) PROVE Order'
  BY <1>6 DEF ReaderError
<1>7. ASSUME NEW r \in Runs, KillReader(r) PROVE Order'
  BY <1>7 DEF KillReader
<1>8. ASSUME NEW w \in Runs, WriterWake(w) PROVE Order'
  BY <1>8 DEF WriterWake
<1>9. ASSUME NEW w \in Runs, WriterConnect(w) PROVE Order'
  BY <1>9 DEF WriterConnect
<1>10. ASSUME NEW w \in Runs, WriterWrite(w) PROVE Order'
  BY <1>10 DEF WriterWrite
<1>11. ASSUME NEW w \in Runs, WriterBroken(w) PROVE Order'
  BY <1>11 DEF WriterBroken
<1>12. ASSUME NEW w \in Runs, WriterError(w) PROVE Order'
  BY <1>12 DEF WriterError
<1>13. ASSUME NEW w \in Runs, WriterReport(w) PROVE Order'
  BY <1>13 DEF WriterReport
<1>14. ASSUME NEW w \in Runs, KillWriter(w) PROVE Order'
  BY <1>14 DEF KillWriter
<1>15. ASSUME NEW w \in Runs, LaterClose(w) PROVE Order'
  BY <1>15 DEF LaterClose
<1>16. CASE NewRun
  BY <1>16 DEF NewRun, FirstLabel
<1>17. CASE UNCHANGED vars
  BY <1>17 DEF vars
<1> QED
  BY <1>1, <1>2, <1>3, <1>4, <1>5, <1>6, <1>7, <1>8, <1>9, <1>10,
     <1>11, <1>12, <1>13, <1>14, <1>15, <1>16, <1>17
     DEF Next, ReaderNext, WriterNext, Terminating

(* Every step keeps what the readers' places say.                          *)
LEMMA ReadersStep ==
  ASSUME ControlTypes, ByteTypes, Order, Readers, Writers, [Next]_vars
  PROVE  Readers'
<1> USE RunsArePositive
        DEF ControlTypes, ByteTypes, Readers
<1>1. ASSUME NEW r \in Runs, ReaderUnlink(r) PROVE Readers'
  BY <1>1 DEF ReaderUnlink
<1>2. ASSUME NEW r \in Runs, ReaderBind(r) PROVE Readers'
  BY <1>2 DEF ReaderBind
<1>3. ASSUME NEW r \in Runs, ReaderAccept(r) PROVE Readers'
  BY <1>3 DEF ReaderAccept, Backlog
<1>4. ASSUME NEW r \in Runs, ReaderRead(r) PROVE Readers'
  BY <1>4 DEF ReaderRead
<1>5. ASSUME NEW r \in Runs, ReaderEof(r) PROVE Readers'
  BY <1>5 DEF ReaderEof
<1>6. ASSUME NEW r \in Runs, ReaderError(r) PROVE Readers'
  BY <1>6 DEF ReaderError
<1>7. ASSUME NEW r \in Runs, KillReader(r) PROVE Readers'
  BY <1>7 DEF KillReader
<1>8. ASSUME NEW w \in Runs, WriterWake(w) PROVE Readers'
  BY <1>8 DEF WriterWake
<1>9. ASSUME NEW w \in Runs, WriterConnect(w) PROVE Readers'
  BY <1>9 DEF WriterConnect, Answers, Writers
<1>10. ASSUME NEW w \in Runs, WriterWrite(w) PROVE Readers'
  BY <1>10 DEF WriterWrite
<1>11. ASSUME NEW w \in Runs, WriterBroken(w) PROVE Readers'
  BY <1>11 DEF WriterBroken
<1>12. ASSUME NEW w \in Runs, WriterError(w) PROVE Readers'
  BY <1>12 DEF WriterError
<1>13. ASSUME NEW w \in Runs, WriterReport(w) PROVE Readers'
  BY <1>13 DEF WriterReport
<1>14. ASSUME NEW w \in Runs, KillWriter(w) PROVE Readers'
  BY <1>14 DEF KillWriter
<1>15. ASSUME NEW w \in Runs, LaterClose(w) PROVE Readers'
  BY <1>15 DEF LaterClose
<1>16. CASE NewRun
  BY <1>16 DEF NewRun, FirstLabel, Order
<1>17. CASE UNCHANGED vars
  BY <1>17 DEF vars
<1> QED
  BY <1>1, <1>2, <1>3, <1>4, <1>5, <1>6, <1>7, <1>8, <1>9, <1>10,
     <1>11, <1>12, <1>13, <1>14, <1>15, <1>16, <1>17
     DEF Next, ReaderNext, WriterNext, Terminating

(* Every step keeps what the writers' places say.                          *)
LEMMA WritersStep ==
  ASSUME ControlTypes, ByteTypes, Order, Writers, [Next]_vars
  PROVE  Writers'
<1> USE RunsArePositive
        DEF ControlTypes, ByteTypes, Order, Writers
<1>1. ASSUME NEW r \in Runs, ReaderUnlink(r) PROVE Writers'
  BY <1>1 DEF ReaderUnlink
<1>2. ASSUME NEW r \in Runs, ReaderBind(r) PROVE Writers'
  BY <1>2 DEF ReaderBind
<1>3. ASSUME NEW r \in Runs, ReaderAccept(r) PROVE Writers'
  BY <1>3 DEF ReaderAccept
<1>4. ASSUME NEW r \in Runs, ReaderRead(r) PROVE Writers'
  BY <1>4 DEF ReaderRead
<1>5. ASSUME NEW r \in Runs, ReaderEof(r) PROVE Writers'
  BY <1>5 DEF ReaderEof
<1>6. ASSUME NEW r \in Runs, ReaderError(r) PROVE Writers'
  BY <1>6 DEF ReaderError
<1>7. ASSUME NEW r \in Runs, KillReader(r) PROVE Writers'
  BY <1>7 DEF KillReader
<1>8. ASSUME NEW w \in Runs, WriterWake(w) PROVE Writers'
  BY <1>8 DEF WriterWake
<1>9. ASSUME NEW w \in Runs, WriterConnect(w) PROVE Writers'
  BY <1>9 DEF WriterConnect, Answers
<1>10. ASSUME NEW w \in Runs, WriterWrite(w) PROVE Writers'
  BY <1>10 DEF WriterWrite, Least
<1>11. ASSUME NEW w \in Runs, WriterBroken(w) PROVE Writers'
  BY <1>11 DEF WriterBroken
<1>12. ASSUME NEW w \in Runs, WriterError(w) PROVE Writers'
  BY <1>12 DEF WriterError
<1>13. ASSUME NEW w \in Runs, WriterReport(w) PROVE Writers'
  BY <1>13 DEF WriterReport
<1>14. ASSUME NEW w \in Runs, KillWriter(w) PROVE Writers'
  BY <1>14 DEF KillWriter
<1>15. ASSUME NEW w \in Runs, LaterClose(w) PROVE Writers'
  BY <1>15 DEF LaterClose
<1>16. CASE NewRun
  BY <1>16 DEF NewRun
<1>17. CASE UNCHANGED vars
  BY <1>17 DEF vars
<1> QED
  BY <1>1, <1>2, <1>3, <1>4, <1>5, <1>6, <1>7, <1>8, <1>9, <1>10,
     <1>11, <1>12, <1>13, <1>14, <1>15, <1>16, <1>17
     DEF Next, ReaderNext, WriterNext, Terminating

(* Every step keeps the account of the bytes.                              *)
LEMMA AccountsStep ==
  ASSUME ControlTypes, ByteTypes, Readers, Writers, Accounts, [Next]_vars
  PROVE  Accounts'
<1> USE RunsArePositive, NextMultiple
        DEF ControlTypes, ByteTypes, Readers, Accounts, Written
<1>1. ASSUME NEW r \in Runs, ReaderUnlink(r) PROVE Accounts'
  BY <1>1 DEF ReaderUnlink
<1>2. ASSUME NEW r \in Runs, ReaderBind(r) PROVE Accounts'
  BY <1>2 DEF ReaderBind
<1>3. ASSUME NEW r \in Runs, ReaderAccept(r) PROVE Accounts'
  BY <1>3 DEF ReaderAccept, Backlog
<1>4. ASSUME NEW r \in Runs, ReaderRead(r) PROVE Accounts'
  BY <1>4 DEF ReaderRead, Least
<1>5. ASSUME NEW r \in Runs, ReaderEof(r) PROVE Accounts'
  BY <1>5 DEF ReaderEof
<1>6. ASSUME NEW r \in Runs, ReaderError(r) PROVE Accounts'
  BY <1>6 DEF ReaderError
<1>7. ASSUME NEW r \in Runs, KillReader(r) PROVE Accounts'
  BY <1>7 DEF KillReader
<1>8. ASSUME NEW w \in Runs, WriterWake(w) PROVE Accounts'
  BY <1>8 DEF WriterWake
<1>9. ASSUME NEW w \in Runs, WriterConnect(w) PROVE Accounts'
  BY <1>9 DEF WriterConnect
<1>10. ASSUME NEW w \in Runs, WriterWrite(w) PROVE Accounts'
  <2>1. PICK n \in 1..Least(Size - off[w], Capacity - chan[w]) :
          /\ chan' = [chan EXCEPT ![w] = @ + n]
          /\ \/ off[w] + n < Size /\ off' = [off EXCEPT ![w] = @ + n] /\ UNCHANGED i
             \/ /\ off[w] + n = Size
                /\ off' = [off EXCEPT ![w] = 0] /\ i' = [i EXCEPT ![w] = @ + 1]
    BY <1>10 DEF WriterWrite
  <2>2. UNCHANGED <<conn, sum, swallowed>>
    BY <1>10 DEF WriterWrite
  <2>3. n \in Nat
    BY <2>1 DEF Least
  <2>4. /\ chan'[w] = chan[w] + n
        /\ Written(w)' = Written(w) + n
    <3>1. i[w] \in Int /\ (i[w] + 1) * Size = i[w] * Size + Size
      OBVIOUS
    <3>2. CASE UNCHANGED i
      BY <2>1, <2>3, <3>1, <3>2
    <3>3. CASE i' = [i EXCEPT ![w] = @ + 1] /\ off' = [off EXCEPT ![w] = 0] /\ off[w] + n = Size
      BY <2>3, <2>1, <3>1, <3>3
    <3> QED
      BY <2>1, <3>2, <3>3
  <2>5. \A v \in Runs \ {w} : chan'[v] = chan[v] /\ Written(v)' = Written(v)
    BY <2>1
  <2>6. \A v \in Runs : Written(v) \in Int
    OBVIOUS
  <2> HIDE DEF Written
  <2> QED
    BY <2>2, <2>3, <2>4, <2>5, <2>6
<1>11. ASSUME NEW w \in Runs, WriterBroken(w) PROVE Accounts'
  BY <1>11 DEF WriterBroken
<1>12. ASSUME NEW w \in Runs, WriterError(w) PROVE Accounts'
  BY <1>12 DEF WriterError
<1>13. ASSUME NEW w \in Runs, WriterReport(w) PROVE Accounts'
  BY <1>13 DEF WriterReport
<1>14. ASSUME NEW w \in Runs, KillWriter(w) PROVE Accounts'
  BY <1>14 DEF KillWriter
<1>15. ASSUME NEW w \in Runs, LaterClose(w) PROVE Accounts'
  BY <1>15 DEF LaterClose
<1>16. CASE NewRun
  BY <1>16 DEF NewRun
<1>17. CASE UNCHANGED vars
  BY <1>17 DEF vars
<1> QED
  BY <1>1, <1>2, <1>3, <1>4, <1>5, <1>6, <1>7, <1>8, <1>9, <1>10,
     <1>11, <1>12, <1>13, <1>14, <1>15, <1>16, <1>17
     DEF Next, ReaderNext, WriterNext, Terminating

(* Every step keeps what the verdicts say.                                 *)
LEMMA VerdictsStep ==
  ASSUME ControlTypes, ByteTypes, Order, Readers, Writers, Accounts, Verdicts, [Next]_vars
  PROVE  Verdicts'
<1> USE RunsArePositive
        DEF ControlTypes, ByteTypes, Readers, Writers, Verdicts
<1>1. ASSUME NEW r \in Runs, ReaderUnlink(r) PROVE Verdicts'
  BY <1>1 DEF ReaderUnlink
<1>2. ASSUME NEW r \in Runs, ReaderBind(r) PROVE Verdicts'
  BY <1>2 DEF ReaderBind
<1>3. ASSUME NEW r \in Runs, ReaderAccept(r) PROVE Verdicts'
  BY <1>3 DEF ReaderAccept
<1>4. ASSUME NEW r \in Runs, ReaderRead(r) PROVE Verdicts'
  BY <1>4 DEF ReaderRead
<1>5. ASSUME NEW r \in Runs, ReaderEof(r) PROVE Verdicts'
  <2>1. PICK c \in Runs :
          /\ c = conn[r] /\ chan[c] = 0 /\ ~open[c]
          /\ UNCHANGED <<conn, wpc, i, count, swallowed>>
    BY <1>5 DEF ReaderEof
  <2>2. /\ i[c] \in Nat /\ count \in Nat /\ i[c] <= count
        /\ off[c] \in 0 .. Size - 1 /\ (i[c] = count => off[c] = 0)
    BY <2>1
  <2>3. /\ Written(c) <= Total
        /\ Written(c) = Total <=> i[c] = count
    <3> HIDE DEF ControlTypes, ByteTypes, Readers, Writers, Verdicts
    <3> DEFINE m == i[c] o == off[c]
    <3>1. /\ m * Size + o <= count * Size
          /\ m * Size + o = count * Size <=> m = count
      <4> HIDE DEF m, o
      <4> QED
        BY <2>2, FullOrShort DEF m, o
    <3> QED
      BY <3>1 DEF Written, Total
  <2>4. /\ sum[r] <= Written(c)
        /\ r \notin swallowed => sum[r] = Written(c)
    BY <2>1 DEF Accounts, Written
  <2>5. sum[r] \in Int /\ Written(c) \in Int /\ Total \in Int
    BY <2>2 DEF Written, Total
  <2>6. /\ sum[r] = Total => i[c] = count
        /\ sum[r] # Total /\ r \notin swallowed => i[c] < count
    <3> HIDE DEF ControlTypes, ByteTypes, Readers, Writers, Verdicts
    <3> QED
      BY <2>2, <2>3, <2>4, <2>5
  <2>7. wpc[c] # "write"
    BY <2>1
  <2>8. rpc' = [rpc EXCEPT ![r] = IF sum[r] = Total THEN "done" ELSE "sumError"]
    BY <1>5 DEF ReaderEof
  <2> QED
    BY <2>1, <2>6, <2>7, <2>8
<1>6. ASSUME NEW r \in Runs, ReaderError(r) PROVE Verdicts'
  BY <1>6 DEF ReaderError
<1>7. ASSUME NEW r \in Runs, KillReader(r) PROVE Verdicts'
  BY <1>7 DEF KillReader
<1>8. ASSUME NEW w \in Runs, WriterWake(w) PROVE Verdicts'
  BY <1>8 DEF WriterWake
<1>9. ASSUME NEW w \in Runs, WriterConnect(w) PROVE Verdicts'
  BY <1>9 DEF WriterConnect
<1>10. ASSUME NEW w \in Runs, WriterWrite(w) PROVE Verdicts'
  BY <1>10 DEF WriterWrite
<1>11. ASSUME NEW w \in Runs, WriterBroken(w) PROVE Verdicts'
  BY <1>11 DEF WriterBroken
<1>12. ASSUME NEW w \in Runs, WriterError(w) PROVE Verdicts'
  BY <1>12 DEF WriterError
<1>13. ASSUME NEW w \in Runs, WriterReport(w) PROVE Verdicts'
  BY <1>13 DEF WriterReport
<1>14. ASSUME NEW w \in Runs, KillWriter(w) PROVE Verdicts'
  BY <1>14 DEF KillWriter
<1>15. ASSUME NEW w \in Runs, LaterClose(w) PROVE Verdicts'
  BY <1>15 DEF LaterClose
<1>16. CASE NewRun
  <2>1. run' \in Runs /\ run' > run
    BY <1>16, NextRun
  <2>2. /\ rpc' = [rpc EXCEPT ![run'] = FirstLabel(prog)]
        /\ wpc' = [wpc EXCEPT ![run'] = "sleep"]
        /\ UNCHANGED <<conn, i, count, swallowed>>
    BY <1>16 DEF NewRun
  <2> QED
    BY <2>1, <2>2 DEF FirstLabel
<1>17. CASE UNCHANGED vars
  BY <1>17 DEF vars
<1> QED
  BY <1>1, <1>2, <1>3, <1>4, <1>5, <1>6, <1>7, <1>8, <1>9, <1>10,
     <1>11, <1>12, <1>13, <1>14, <1>15, <1>16, <1>17
     DEF Next, ReaderNext, WriterNext, Terminating

(* Every step keeps the meeting of the current two.                        *)
LEMMA MeetingStep ==
  ASSUME ControlTypes, Order, Readers, Meeting, [Next]_vars
  PROVE  Meeting'
<1> USE RunsArePositive
        DEF ControlTypes, Order, Meeting, SleptUpTo
<1>1. ASSUME NEW r \in Runs, ReaderUnlink(r) PROVE Meeting'
  BY <1>1 DEF ReaderUnlink
<1>2. ASSUME NEW r \in Runs, ReaderBind(r) PROVE Meeting'
  BY <1>2 DEF ReaderBind
<1>3. ASSUME NEW r \in Runs, ReaderAccept(r) PROVE Meeting'
  BY <1>3 DEF ReaderAccept
<1>4. ASSUME NEW r \in Runs, ReaderRead(r) PROVE Meeting'
  BY <1>4 DEF ReaderRead
<1>5. ASSUME NEW r \in Runs, ReaderEof(r) PROVE Meeting'
  BY <1>5 DEF ReaderEof
<1>6. ASSUME NEW r \in Runs, ReaderError(r) PROVE Meeting'
  BY <1>6 DEF ReaderError
<1>7. ASSUME NEW r \in Runs, KillReader(r) PROVE Meeting'
  BY <1>7 DEF KillReader
<1>8. ASSUME NEW w \in Runs, WriterWake(w) PROVE Meeting'
  BY <1>8 DEF WriterWake
<1>9. ASSUME NEW w \in Runs, WriterConnect(w) PROVE Meeting'
  BY <1>9 DEF WriterConnect
<1>10. ASSUME NEW w \in Runs, WriterWrite(w) PROVE Meeting'
  BY <1>10 DEF WriterWrite
<1>11. ASSUME NEW w \in Runs, WriterBroken(w) PROVE Meeting'
  BY <1>11 DEF WriterBroken
<1>12. ASSUME NEW w \in Runs, WriterError(w) PROVE Meeting'
  BY <1>12 DEF WriterError
<1>13. ASSUME NEW w \in Runs, WriterReport(w) PROVE Meeting'
  BY <1>13 DEF WriterReport
<1>14. ASSUME NEW w \in Runs, KillWriter(w) PROVE Meeting'
  BY <1>14 DEF KillWriter
<1>15. ASSUME NEW w \in Runs, LaterClose(w) PROVE Meeting'
  BY <1>15 DEF LaterClose
<1>16. CASE NewRun
  <2>1. run' \in Runs /\ wpc'[run'] = "sleep" /\ rpc'[run'] \in {"unlink", "bind"}
    BY <1>16, NextRun DEF NewRun, FirstLabel
  <2>2. \A q \in Runs : q # run' => wpc'[q] = wpc[q] /\ rpc'[q] = rpc[q]
    BY <1>16, NextRun DEF NewRun
  <2>3. early' = early
    BY <1>16 DEF NewRun
  <2> QED
    BY <2>1, <2>2, <2>3
<1>17. CASE UNCHANGED vars
  BY <1>17 DEF vars
<1> QED
  BY <1>1, <1>2, <1>3, <1>4, <1>5, <1>6, <1>7, <1>8, <1>9, <1>10,
     <1>11, <1>12, <1>13, <1>14, <1>15, <1>16, <1>17
     DEF Next, ReaderNext, WriterNext, Terminating

(* Nobody leaves early again.                                              *)
LEMMA EarlyStays ==
  ASSUME [Next]_vars, NEW q \in Runs, SleptUpTo(q)'
  PROVE  SleptUpTo(q)
<1>1. early \subseteq early'
  BY DEF Next, ReaderNext, WriterNext, Terminating, vars, ReaderUnlink, ReaderBind,
         ReaderAccept, ReaderRead, ReaderEof, ReaderError, KillReader, WriterWake,
         WriterConnect, WriterWrite, WriterBroken, WriterError, WriterReport,
         KillWriter, LaterClose, NewRun
<1> QED
  BY <1>1 DEF SleptUpTo

(* Every step keeps writers with readers of their runs.                    *)
LEMMA OwnReaderStep ==
  ASSUME ControlTypes, Order, Meeting, OwnReader, [Next]_vars
  PROVE  OwnReader'
<1> USE RunsArePositive, EarlyStays
        DEF ControlTypes, Order, OwnReader
<1>1. ASSUME NEW r \in Runs, ReaderUnlink(r) PROVE OwnReader'
  BY <1>1 DEF ReaderUnlink
<1>2. ASSUME NEW r \in Runs, ReaderBind(r) PROVE OwnReader'
  BY <1>2 DEF ReaderBind
<1>3. ASSUME NEW r \in Runs, ReaderAccept(r) PROVE OwnReader'
  BY <1>3 DEF ReaderAccept
<1>4. ASSUME NEW r \in Runs, ReaderRead(r) PROVE OwnReader'
  BY <1>4 DEF ReaderRead
<1>5. ASSUME NEW r \in Runs, ReaderEof(r) PROVE OwnReader'
  BY <1>5 DEF ReaderEof
<1>6. ASSUME NEW r \in Runs, ReaderError(r) PROVE OwnReader'
  BY <1>6 DEF ReaderError
<1>7. ASSUME NEW r \in Runs, KillReader(r) PROVE OwnReader'
  BY <1>7 DEF KillReader
<1>8. ASSUME NEW w \in Runs, WriterWake(w) PROVE OwnReader'
  BY <1>8 DEF WriterWake
<1>9. ASSUME NEW w \in Runs, WriterConnect(w) PROVE OwnReader'
  <2>1. UNCHANGED <<rpc, early>>
    BY <1>9 DEF WriterConnect
  <2>2. CASE ~Answers
    BY <1>9, <2>1, <2>2 DEF WriterConnect, SleptUpTo
  <2>3. CASE Answers
    <3>1. peer' = [peer EXCEPT ![w] = name] /\ w = run
      BY <1>9, <2>3 DEF WriterConnect
    <3>2. SleptUpTo(w) => w \notin early
      BY DEF SleptUpTo, Runs
    <3>3. SleptUpTo(w) /\ name # w => rpc[w] \in {"failed", "killed"}
      BY <1>9, <3>1, <3>2 DEF WriterConnect, Meeting, ReaderLabels
    <3> QED
      BY <2>1, <3>1, <3>3 DEF SleptUpTo
  <2> QED
    BY <2>2, <2>3
<1>10. ASSUME NEW w \in Runs, WriterWrite(w) PROVE OwnReader'
  BY <1>10 DEF WriterWrite
<1>11. ASSUME NEW w \in Runs, WriterBroken(w) PROVE OwnReader'
  BY <1>11 DEF WriterBroken
<1>12. ASSUME NEW w \in Runs, WriterError(w) PROVE OwnReader'
  BY <1>12 DEF WriterError
<1>13. ASSUME NEW w \in Runs, WriterReport(w) PROVE OwnReader'
  BY <1>13 DEF WriterReport
<1>14. ASSUME NEW w \in Runs, KillWriter(w) PROVE OwnReader'
  BY <1>14 DEF KillWriter
<1>15. ASSUME NEW w \in Runs, LaterClose(w) PROVE OwnReader'
  BY <1>15 DEF LaterClose
<1>16. CASE NewRun
  BY <1>16, NextRun DEF NewRun, FirstLabel
<1>17. CASE UNCHANGED vars
  BY <1>17 DEF vars
<1> QED
  BY <1>1, <1>2, <1>3, <1>4, <1>5, <1>6, <1>7, <1>8, <1>9, <1>10,
     <1>11, <1>12, <1>13, <1>14, <1>15, <1>16, <1>17
     DEF Next, ReaderNext, WriterNext, Terminating

(* Every step keeps readers with writers of their runs.                    *)
LEMMA OwnWriterFirstStep ==
  ASSUME ControlTypes, Order, Readers, Writers, OwnReader, OwnWriterFirst, [Next]_vars
  PROVE  OwnWriterFirst'
<1> USE RunsArePositive, EarlyStays
        DEF ControlTypes, OwnWriterFirst
<1>1. ASSUME NEW r \in Runs, ReaderUnlink(r) PROVE OwnWriterFirst'
  BY <1>1 DEF ReaderUnlink
<1>2. ASSUME NEW r \in Runs, ReaderBind(r) PROVE OwnWriterFirst'
  BY <1>2 DEF ReaderBind
<1>3. ASSUME NEW r \in Runs, ReaderAccept(r) PROVE OwnWriterFirst'
  <2>1. PICK w \in Runs :
          /\ peer[w] = r /\ \A v \in Runs : peer[v] = r => w <= v
          /\ conn' = [conn EXCEPT ![r] = w]
    BY <1>3 DEF ReaderAccept, Backlog
  <2>2. rpc[r] = "accept" /\ UNCHANGED <<wpc, early>>
    BY <1>3 DEF ReaderAccept
  <2>3. ASSUME SleptUpTo(r), w # r PROVE wpc[r] \in {"failed", "killed"}
    <3>1. r < w
      BY <2>1, <2>3 DEF Writers
    <3>2. peer[r] # r
      BY <2>1, <3>1
    <3>3. WriterEnded(r)
      BY <2>1, <2>2, <3>1 DEF Order, Writers, WriterLabels
    <3>4. wpc[r] # "done"
      BY <2>2, <2>3, <3>2 DEF Writers, OwnReader
    <3> QED
      BY <3>3, <3>4 DEF WriterLabels
  <2> QED
    BY <2>1, <2>2, <2>3 DEF SleptUpTo
<1>4. ASSUME NEW r \in Runs, ReaderRead(r) PROVE OwnWriterFirst'
  BY <1>4 DEF ReaderRead
<1>5. ASSUME NEW r \in Runs, ReaderEof(r) PROVE OwnWriterFirst'
  BY <1>5 DEF ReaderEof
<1>6. ASSUME NEW r \in Runs, ReaderError(r) PROVE OwnWriterFirst'
  BY <1>6 DEF ReaderError
<1>7. ASSUME NEW r \in Runs, KillReader(r) PROVE OwnWriterFirst'
  BY <1>7 DEF KillReader
<1>8. ASSUME NEW w \in Runs, WriterWake(w) PROVE OwnWriterFirst'
  BY <1>8 DEF WriterWake
<1>9. ASSUME NEW w \in Runs, WriterConnect(w) PROVE OwnWriterFirst'
  BY <1>9 DEF WriterConnect
<1>10. ASSUME NEW w \in Runs, WriterWrite(w) PROVE OwnWriterFirst'
  BY <1>10 DEF WriterWrite
<1>11. ASSUME NEW w \in Runs, WriterBroken(w) PROVE OwnWriterFirst'
  BY <1>11 DEF WriterBroken
<1>12. ASSUME NEW w \in Runs, WriterError(w) PROVE OwnWriterFirst'
  BY <1>12 DEF WriterError
<1>13. ASSUME NEW w \in Runs, WriterReport(w) PROVE OwnWriterFirst'
  BY <1>13 DEF WriterReport
<1>14. ASSUME NEW w \in Runs, KillWriter(w) PROVE OwnWriterFirst'
  BY <1>14 DEF KillWriter
<1>15. ASSUME NEW w \in Runs, LaterClose(w) PROVE OwnWriterFirst'
  BY <1>15 DEF LaterClose
<1>16. CASE NewRun
  BY <1>16, NextRun DEF NewRun, Order, Readers
<1>17. CASE UNCHANGED vars
  BY <1>17 DEF vars
<1> QED
  BY <1>1, <1>2, <1>3, <1>4, <1>5, <1>6, <1>7, <1>8, <1>9, <1>10,
     <1>11, <1>12, <1>13, <1>14, <1>15, <1>16, <1>17
     DEF Next, ReaderNext, WriterNext, Terminating

(* The initial states satisfy the invariant.                               *)
LEMMA InitInv == Init => IInv
<1> SUFFICES ASSUME Init PROVE IInv
  OBVIOUS
<1> USE RunsArePositive
<1>1. 1 \in Runs
  BY DEF Runs
<1>2. ControlTypes
  BY <1>1 DEF Init, ControlTypes, ReaderLabels, WriterLabels, FirstLabel
<1>3. ByteTypes
  BY <1>2 DEF Init, ByteTypes, ControlTypes
<1>4. Order
  BY <1>1 DEF Init, Order, FirstLabel
<1>5. Readers /\ Writers /\ Verdicts
  BY DEF Init, Readers, Writers, Verdicts, FirstLabel
<1>6. Accounts
  BY DEF Init, Accounts, Written
<1>7. Meeting
  BY <1>1 DEF Init, Meeting, FirstLabel
<1>8. OwnReader /\ OwnWriterFirst
  BY DEF Init, OwnReader, OwnWriterFirst
<1> QED
  BY <1>2, <1>3, <1>4, <1>5, <1>6, <1>7, <1>8 DEF IInv

(* Every step keeps the invariant.                                         *)
LEMMA StepInv == IInv /\ [Next]_vars => IInv'
<1> SUFFICES ASSUME IInv, [Next]_vars PROVE IInv'
  OBVIOUS
<1>1. ControlTypes' /\ ByteTypes'
  BY ControlTypesStep, ByteTypesStep DEF IInv
<1>2. Order' /\ Readers' /\ Writers'
  BY OrderStep, ReadersStep, WritersStep DEF IInv
<1>3. Accounts' /\ Verdicts'
  BY AccountsStep, VerdictsStep DEF IInv
<1>4. Meeting' /\ OwnReader' /\ OwnWriterFirst'
  BY MeetingStep, OwnReaderStep, OwnWriterFirstStep DEF IInv
<1> QED
  BY <1>1, <1>2, <1>3, <1>4 DEF IInv

THEOREM Invariance == Spec => []IInv
  BY InitInv, StepInv, PTL DEF Spec
-----------------------------------------------------------------------------
(* The type invariant, for every size, count, buffer and number of runs.   *)
THEOREM TypeCorrect == Spec => []TypeOK
<1>1. IInv => TypeOK
  BY DEF IInv, ControlTypes, ByteTypes, TypeOK
<1> QED
  BY Invariance, <1>1, PTL

(* The check of uds.c:81 and tcp.c:74 passes only if the accepted writer   *)
(* wrote every message, and fails without an ignored error only if not.    *)
THEOREM ExactCheck == Spec => []CheckIsExact
<1>1. IInv => CheckIsExact
  BY DEF IInv, Readers, Verdicts, CheckIsExact
<1> QED
  BY Invariance, <1>1, PTL

(* A writer that slept long enough meets its own reader, unless that one   *)
(* failed or was killed, whichever old readers still listen.               *)
THEOREM MeetsOwnReader == Spec => []OwnReader
<1>1. IInv => OwnReader
  BY DEF IInv
<1> QED
  BY Invariance, <1>1, PTL

(* A reader serves its own writer, unless that one failed or was killed.   *)
THEOREM ServesOwnWriter == Spec => []OwnWriterFirst
<1>1. IInv => OwnWriterFirst
  BY DEF IInv
<1> QED
  BY Invariance, <1>1, PTL

(* The invariant leaves accept as the only call to wait in for ever.       *)
LEMMA StuckInAccept ==
  ASSUME IInv, Stuck, ~prog.keepsOpen, NEW r \in Runs
  PROVE  /\ wpc[r] = "none" \/ WriterEnded(r)
         /\ \/ rpc[r] = "none" \/ ReaderEnded(r)
            \/ rpc[r] = "accept" /\ (wpc[r] \in {"failed", "killed"} \/ ~SleptUpTo(r))
<1> USE RunsArePositive DEF IInv, ControlTypes, ReaderLabels, WriterLabels
<1>1. \A w \in Runs : wpc[w] = "write" => w = run
  BY DEF Order
<1>2. \A w \in Runs : ~WriterBlocked(w)
  <2> SUFFICES ASSUME NEW w \in Runs, WriterBlocked(w) PROVE FALSE
    OBVIOUS
  <2>1. PICK p \in Runs : p = peer[w]
    BY DEF WriterBlocked, Writers
  <2>2. ReaderBlocked(p) /\ w \in Backlog(p)
    BY <2>1 DEF Stuck, WriterBlocked, Readers, Backlog
  <2>3. rpc[p] = "read" /\ chan[conn[p]] = 0 /\ open[conn[p]]
    BY <2>2 DEF ReaderBlocked
  <2>4. conn[p] \in Runs /\ wpc[conn[p]] = "write"
    BY <2>3 DEF Readers, Writers
  <2>5. conn[p] = w
    BY <1>1, <2>4 DEF WriterBlocked
  <2> QED
    BY <2>3, <2>5 DEF WriterBlocked
<1>3. wpc[r] = "none" \/ WriterEnded(r)
  BY <1>2 DEF Stuck
<1>4. CASE rpc[r] = "read"
  <2>1. ReaderBlocked(r)
    BY <1>4 DEF Stuck
  <2>2. conn[r] \in Runs /\ wpc[conn[r]] = "write"
    BY <1>4, <2>1 DEF ReaderBlocked, Readers, Writers
  <2> QED
    BY <1>2, <2>2 DEF Stuck
<1>5. CASE rpc[r] = "accept" /\ SleptUpTo(r)
  <2>1. Backlog(r) = {}
    BY <1>5 DEF Stuck, ReaderBlocked
  <2>2. peer[r] # r
    BY <2>1 DEF Backlog
  <2>3. wpc[r] # "done"
    BY <1>5, <2>2 DEF Writers, OwnReader
  <2>4. wpc[r] # "none"
    BY <1>5 DEF Order
  <2> QED
    BY <1>3, <1>5, <2>3, <2>4
<1>6. CASE rpc[r] \in {"unlink", "bind"}
  BY <1>6 DEF Stuck, ReaderBlocked
<1> QED
  BY <1>3, <1>4, <1>5, <1>6

(* Nothing of uds.c or tcp.c hangs in read or write, and what hangs in     *)
(* accept has lost its writer.                                             *)
THEOREM HangsInAcceptOnly == Spec => []OnlyAcceptHangs
<1>1. IInv => OnlyAcceptHangs
  BY StuckInAccept DEF OnlyAcceptHangs
<1> QED
  BY Invariance, <1>1, PTL
=============================================================================
