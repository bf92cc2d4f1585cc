# A verification of ipc_benchmark

`ipc_benchmark` measures how fast two processes can hand each other messages
through the IPC mechanisms of Linux. Every benchmark has the same plan: a
process forks, the parent writes `count` messages of `size` bytes, the child
takes them out and compares what it got with `count * size`, and the parent
reports MB/s and msg/s. Two drivers run the programs for several sizes and
print tables.

The programs are short, and nearly everything that can go wrong in them is an
interleaving of the two processes with each other, with the kernel object
between them, and with what an earlier run left behind. This directory models
them in TLA+, checks the models with TLC and proves the main properties with
TLAPS for every size, count and number of runs. The drivers' tables are drawn by
a copy of PrettyTable that stands beside the programs; it is the longest source
file, and its state, its printing and its HTML are modelled as well.

## 1. Inventory

| Component | State | Operations | Correct when |
|---|---|---|---|
| **Shared memory** `shm.c`, `ShrMem` | semaphore set and segment under fixed keys (they outlive the processes), loop counters, buffer | `semget`, `sem_init`, `shmget`, `shmat`, `sem_reserve`, `memcpy`, `sem_release`, removal | the two `memcpy` never overlap, messages arrive whole and in turn, the objects are removed after their last use, nothing is left, nobody waits for ever |
| **Inherited streams** `pipe.c`, `fifo.c`, `socketpair.c`, `AnonPipe`, `NamedPipeFifo`, `SockPair` | bytes in the kernel's buffer, byte sum, loop counters | `write`, `read`, sum check, `waitpid`, `kill` | no byte lost or counted twice, the sum check passes exactly the complete runs, no process is stranded |
| **Message queue** `posixq.c`, `PosixQ` | the queue linked under `/mq-test`, the queues still open, their messages | `mq_open`, `mq_send`, `mq_receive`, `mq_unlink`, `waitpid` | both sides use one queue, messages in order and once, no name left, no mutual wait |
| **Datagrams** `udp.c`, `UDPSocket` | bound socket and its receive buffer, byte sum | `bind`, `sendto`, `recv` | a run that passes lost nothing; a loss is noticed |
| **Connected streams** `uds.c`, `tcp.c`, `UDSocket`, `TCPSocket` | listener under a path or port, connection, byte sum | `bind`, `listen`, `accept`, `connect`, `read` to end-of-file | the writer meets the reader of its own run, the sum is complete at end-of-file, the next run can bind |
| **`ipc_bm` main** | all of the above in turn, inherited descriptors, unflushed output, unreaped children | the benchmark functions in order | one process tree per benchmark, every report printed once, no leftovers between benchmarks |
| **Report** `getdetlatimeofday`, `timediff`, `printf` | `count * size` in an `int` | multiplication | no overflow for the sizes the drivers use |
| **Drivers** `run_tests.sh`, `run_test.py` | output of a run, two columns, log file | run, split, collect | a failed run is not reported as a figure; the series ends |
| **`PrettyTable`** `prettytable.py` | field names, alignment map, rows, widths, options | `field_names`, `add_row`, `add_column`, `del_*`, `clear*`, `copy`, `get_string` | every field has an alignment and a width, rows are as long as the header |
| **`TableHandler`** `prettytable.py` | rows, last row and cell, active tag, widest row | `handle_starttag`, `handle_endtag`, `handle_data`, `generate_table` | rows padded to the width, unique field names |

How they interact: the benchmark's processes share only kernel objects; a
driver waits until every process that holds the benchmark's standard output
has gone, then starts the next run; `run_test.py` hands rows to `PrettyTable`.
Objects with a fixed name (System V keys, `/mq-test`, `./uds-ipc`, the ports)
also connect a run with the runs before it.

What is hard: nothing but `sleep(1)` orders set-up in `shm.c`, `udp.c`,
`uds.c` and `tcp.c`; both sides of `posixq.c` create and unlink the same name;
`pipe.c` and its like read once per message although a write may be split;
both processes keep both ends of a stream open; a killed run leaves kernel
objects; UDP drops. `PROJECT.json` lists each hazard at its line under
`hazards`, with the property that covers it or the reason why none does.

## 2. Plan

The order was: the mechanisms first, those with most interplay before the
others, then the program that combines them, then the code that prints.

| Module | Models | Builds on | Proofs |
|---|---|---|---|
| `Transfer` | what the mechanisms promise (abstract) | | |
| `ShmSem` | `shm.c`, `ShrMem` | refines `Transfer` | `ShmSemProofs` |
| `StreamPair` | the six stream programs | refines `Transfer` | `StreamPairProofs` |
| `MsgQueue` | `posixq.c`, `PosixQ` | refines `Transfer` | `MsgQueueProofs` |
| `Datagram` | `udp.c`, `UDPSocket` | | `DatagramProofs` |
| `ConnStream` | `uds.c`, `tcp.c`, `UDSocket`, `TCPSocket` | | `ConnStreamProofs` |
| `IpcBm` | the seven benchmarks of `ipc_bm` in a row | | `IpcBmProofs` |
| `TableOps` | the operations of a PrettyTable on its data | | |
| `Table` | programs that call them | `TableOps` | `TableProofs` |
| `TableText` | options, styles, `get_string` | `TableOps` | `TableTextProofs` |
| `HtmlTable` | `get_html_string`, `from_html` | `TableOps` | `TableTextProofs` |

Every model that is run has an `MC` module with the values of its constants.
Nothing of the plan is left: of what the runs check, all invariants and step
properties are proved as well, and the liveness properties remain with TLC.

## 3. Modules

### Transfer (abstract)

`sent` and `received` count the messages of one run; `Send` is held back at
`Capacity`, `Receive` needs a message, and `Restart` begins a new run. Three
models implement it under these mappings (datagrams do not: they are lost;
for the connected streams `CheckIsExact` says what a passed run promises):

| Model | `sent` | `received` | `Capacity` |
|---|---|---|---|
| `ShmSem` | messages the writer has finished copying in | messages the reader has finished copying out | 1 |
| `StreamPair` | writer's `i`, 0 once an error was ignored | reader's `i`, 0 likewise | `Capacity \div Size` |
| `MsgQueue` | writer's `i`, 0 once something was killed | `Len(got)`, 0 likewise | `MAX_MESSAGES` |

The two provisos are real: a loop that goes on after an error counts turns and
no longer messages, and after a kill a queue may hold messages of another run.

### ShmSem

One action per system call or statement that touches shared state, in program
order by the `pc` of each process; `memcpy` takes two steps, so that torn
messages can be seen. The semaphore set and the segment are named by the run
that created them: that is how a handle to a removed object is told from a
handle to its successor. `NewRun` is the driver starting the program again
when both processes are gone; the kernel objects stay. `Kill` ends a process
anywhere, and without `SEM_UNDO` its turn is not given back. `ReaderFault`
and `WriterFault` let a set-up call fail: a writer that fails in `shmat` leaves
its reader and the objects behind. A leftover segment smaller than the new size makes
the reader's `shmget` fail, and a writer that copies past its end may survive
or be stopped by a signal (the last page). `ShrMem` differs from `shm.c` by a
`waitpid` with an option it does not accept, which returns at once, and an
unchecked fork, whose failure is the case of a reader that is killed before
its first step.

### StreamPair

Bytes are counted. A write of at most `atomicMax` bytes, which is one of
`AtomicSizes` throughout a behaviour, goes in one piece when
there is room for all of it, a longer one in pieces of any size; a read takes
what is there, up to `Size`. The six programs are six records that say what
they do about a failing read or write and whether they wait for their child
(`SockPair`'s `waitpid` fails at once). Both processes keep both ends, so
there is neither end-of-file nor `EPIPE`.

### MsgQueue

`mq_open` opens the linked queue as it is or creates one; `mq_unlink` removes
the name only. Queues are named by run and creator, and `leftover` is the one
that was still linked when the run started, if any. An `mq_open` that fails for
another reason than the size ends its process, which is the case of a kill
before it. `mq_receive` with a buffer
smaller than the queue's message size, and `mq_send` of a longer message, fail
at once, and both loops go on.

### Datagram

`sendto` always succeeds; the datagram is queued if the socket is bound and the
buffer has a slot, else it is lost. A datagram of size 0 ends the receiver's
loop. `SleepCoversSetup` says whether the receiver is bound when the sender
wakes.

### ConnStream

A reader and a writer per run, and up to `MaxRuns` runs whose processes
overlap: the writer is the process the shell waits for, so the next run starts
when the writer has gone, whether or not its reader has (`run_tests.sh`
captures the output and so waits for the reader too; then runs do not
overlap, which is one of the behaviours). `name` is the reader whose socket
was bound last. With a path, `bind` fails while the path exists, which is what
the `unlink` before it prevents; with a port, while somebody listens.
`bind` and `listen` are one step; a writer is connected (`peer`) once it is in
the backlog, before the reader's `accept` (`conn`), and may be done by then.
`open` is the writer's end of the connection: closed with its process, except
in the functions of `ipc_bm`, where the process and the children it forks
later go on (`keepsOpen`, `LaterClose`). Writes arrive in pieces; reads take
what is there. `early` records the runs whose sleep did not cover the reader's
set-up, `faults` bounds such sleeps, kills and failing calls together. On TCP a
write after the reader's end may still succeed; on a path it may not.

### IpcBm

The whole program as a tree of processes. A process is a path of benchmarks:
`<<>>` is the first one, `<<3, 4>>` the reader that the reader of benchmark 3
forked in benchmark 4 after it had returned into `main`. Each process has a
place in `main` (`at`), a step in that benchmark, the reports still in its copy
of the buffer of `stdout`, and the TCP connections whose writing end it holds; a
fork copies the last two. `medium` is what a reader reads from: the pipe and
the socket pair are inherited and belong to their fork, the fifo is whatever the path named when it
was opened, the TCP connection is the one accepted, and the UDP port is shared
by all that are bound to it. The queue of `PosixQ` is opened by name on both
sides after the fork, in either order, and unlinked by both (`mq_open`,
`QueueUnlink`, `Finish`); `mq` is the one that is linked. The `count` messages of one benchmark are one
`unit`: they are followed one by one in the modules above. `fits` is the set of
benchmarks whose messages the kernel can hold all at once, that is, whose writer
can be done before its reader is (for `PosixQ`, at most `MAX_MESSAGES` of
them); `piped` says whether `stdout` is buffered.

Only `PosixQ`, `NamedPipeFifo` and `AnonPipe` wait for their reader: the other
calls pass `WEXITED`, which `waitpid` refuses. `ReaderReturns` are the error
paths that return into `main` instead of ending the process.

### TableOps and Table

`TableOps` has one operator per method, from a table and its alignment
dictionaries to the table, the dictionaries and the exception (none, the
module's own `Exception`, or one of Python's that escapes). A method that
raises in the middle leaves what it has done. `Table` lets a program make any
calls on several objects. The alignment dictionaries are kept apart from the
table (`look`, `uses`) since `__getitem__` gives a slice the dictionaries of its
table by reference, while `copy` makes new ones. Cells have no contents here.
Rows may have no cells: a table that has only such rows refuses the names that
the next `add_row` gives it. A slice of a table without fields raises
`UnboundLocalError` or not as the code does. `Failure` is what `get_string` would
raise.

### TableText

Text by its geometry: a line of a cell is `n` characters of `w` blocks, a line
of text is a sequence of marks and padded cells with their widths. The module
keeps the three places an option can come from apart: `__init__`, where a false
value means the default, the setters and styles, and the arguments of the call.
`Updated` is Python's `dict.update`. A format (`int_format`, `float_format`) is a
minimal width for the numbers of a field; the constructor cannot set one, an
assignment sets it for fields (`Added`), and printing asks the table for it,
never the call (`_format_value`), as it does for `header_style` and for the
`vertical_char` of a row. `rows.sort` is a sort by rank: the n-th row
printed is the one that n - 1 others come before (`Before`), with equal rows in
their old order. A row without cells, which only a table without fields has, is
an empty line, and an `IndexError` where a rule is wanted below it. The
characters of marks are a set of their own, `Chars`.

### HtmlTable

A page is a sequence of start tags, end tags and texts, as `HTMLParser.feed`
calls the handler with them; `<br/>` is a start and an end tag. `handle_endtag`
is one action per kind of tag. `generate_table` is a recursive function over the
rows, which applies `TableOps`' `_set_field_names` or `add_row` to each
(`AddWritten`) until one raises. `make_fields_unique` is one over the turns of
its outer loop: in a turn only later fields change, so the inner loop is a
choice for each of them. A text is a sequence of words, so that joining,
stripping and adding a quote are what they are in Python. Among the words are
`<`, `>` and `&` (`Special`): `escape` makes references of them, which the parser
of Python 3 (from 3.5 on) turns back before `handle_data`, and which that of
Python 2, in which `run_test.py` is written, hands to a callback that
`TableHandler` does not have; `Heard` is what `handle_data` gets. A header without
fields is written as an empty row, which the parser cannot tell from a data row
and so adds as one (`IsHeader`). Since `TableTextProofs` is about this module
and `TableText` both, the initial states, steps and specification are called
`ReadInit`, `ReadNext` and `ReadSpec` here.

Left out of all models: usage messages, `malloc`, the time of day and the
report's text, sizes and counts that are negative, empty messages on a
connection, and counts for which `count * size` leaves the range of `int`.

The definitions ending in `_neverWaits`, `_early` and the like, each under a
comment that begins with "Mutant", are variants that a plausible bug would make
of the definition below them. No specification uses them; with one in place of
its original the property named in `PROJECT.json` is violated.

## 4. Runs

| Run | What it asks | Bounds |
|---|---|---|
| `ShmSem_kills` | all safety properties, the one-slot refinement and the end of undisturbed runs, with kills, faults and leftovers | 2 sizes, 3 messages, 3 runs, 2 kills |
| `ShmSem_early` | what is left of safety if `sleep(1)` is too short | 2 sizes, 2 messages, 3 runs, 1 kill, failing set-up calls other than the reader's `shmat` |
| `StreamPair_runs` | accounting, the truth of the check, hangs, refinement, completion, for whole and split messages | 4 messages of 3 bytes, atomic writes of up to 2 or 3, buffer of 7, 1 kill, 1 ignored error, a failed fork |
| `StreamPair_sumerror` | **violated**: the check of `pipe.c:54` | 2 messages of 3 bytes |
| `MsgQueue_kills` | one queue, order, leftovers, causes of hangs, refinement, the end of every run | 2 or 3 messages, queue of 2, 3 runs, 2 kills, sizes 1, 2 and one refused |
| `MsgQueue_check` | **violated**: the check of `posixq.c:81` | 3 messages, 2 runs, 2 kills |
| `ConnStream_runs` | exact sum check, who meets whom, what can hang, completion | 1 or 2 messages of 2 bytes, buffer of 3, 2 overlapping runs, 2 faults |
| `Datagram_lossy` | conservation, the meaning of the check, hangs, completion | 4 datagrams, 2 slots, sizes 0 and 2, 1 kill, 2 errors |
| `IpcBm_faults` | what an undisturbed run leaves, how often a report is written, who runs one benchmark | all 7 benchmarks, every set of those whose buffer holds all messages, 1 fault |
| `Table_calls` | which calls can break a table, and others with it | 2 objects, 2 names, rows and columns of 0 to 2 cells, 6 calls |
| `TableText_options` | grid, options passed and set, wrapping | 9 tables of up to 2 columns and 4 rows, 25 settings: one at construction, one set later or a style, one passed |
| `HtmlTable_pages` | the way to HTML and back, what can fail | pages of 1 table of up to 3 rows, or 2 tables of up to 2 rows, rows of 0 to 3 cells, with and without blanks around them; read in Python 3 and, where the cells differ, in Python 2 |

Why the bounds are enough to be interesting: in `ShmSem` a second run meets the
leftovers of the first and a third those of both, and two kills can take one
process in each of two runs or both in one; the loop bodies do not depend on
the index except at its first and last value. The stream runs have more
messages than the buffer holds and a buffer that is no multiple of the message;
the queue runs have counts on both sides of the queue's capacity, which is what
decides whether the two sides can miss each other; the datagram run has fewer
slots than messages; in the connected runs a message does not always fit into
the buffer at once, one message alone does, so that a writer can be gone before
it is accepted, and a second run meets whatever processes, listener and path
the first has left. In `IpcBm` one fault is enough for a second process to run
the rest of `main` through all that follows; with two the run takes more than
twenty times as long. Six calls make a table, name it, fill it, slice or clear
it, rename it and rename it again, which reaches each of the exceptions that
`PrintingEndsForCause` names, on two objects. The tables and pages hold each
awkward case: cells of several lines, wide characters, columns limited to
nothing, missing cells, hidden columns; equal names, names that end in a quote,
rows of every width in every order. For larger values the proofs of section 6 stand in.

What they show:

* `shm.c` is safe across killed runs because the reader resets both semaphores
  before the writer can be past its sleep. Without that hypothesis safety
  survives as long as nothing was killed (`SafeWithoutSleep`, with the order of
  removal where there is a message to wait for): a writer that
  is early finds no segment and fails. A reader that fails in `shmat` would
  leave its segment for such a writer, and then a third run can go wrong; the run
  leaves that fault out. The reserve after the report
  (`shm.c:169`) is what keeps the reader from losing its semaphores.
* The byte sum of the stream programs is honest (the first half of `CheckIsRight`), but
  fair only to messages written in one piece (the second): see the findings.
* `posixq.c` opens and unlinks one name on both sides without coordination, and
  this is safe exactly because a run has more messages than the queue holds
  (`SameQueue`): then the first comer is stuck, and cannot unlink, until the
  other has opened. The sizes of earlier runs do not matter, only that of a
  queue which a killed one has left linked (`LeftoverFits`): if it is another
  size, every call fails at once and nobody is stuck. With at most
  `MAX_MESSAGES` messages the sides may open different queues and hang.
  `HangHasCause` names these two and a kill in the run itself as the only causes.
  The messages a killed run of the same size leaves never hang the next one, nor
  does anything that a run which ended leaves.
* In `udp.c` a loss never produces a sum error: the receiver waits for the
  datagram that is missing (`LossShowsAsHang`, `HangHasCause`).
* `uds.c` and `tcp.c` read to end-of-file, and their check is exact
  (`CheckIsExact`). The path or port is shared by all runs, but as long as the
  sleeps suffice a writer reaches another run's reader only if its own has
  failed, which for `tcp.c` it does whenever an old reader still listens, and
  for `uds.c` only if the reader is killed before its `unlink`. The price
  of the single `accept` is that a reader whose writer fails waits for ever, and that is the only hang
  (`OnlyAcceptHangs`).
* `ipc_bm` with no fault ends completely, or leaves exactly two processes
  (`HangHasCause`). Either these are `main` and the reader of `PosixQ`, which with
  at most `MAX_MESSAGES` messages can miss each other's queue as in `posixq.c`:
  then `main` never gets beyond its first benchmark (`QueueMissed`). Or they are the
  UDP receiver that lost a datagram, and the TCP reader, whose end-of-file the
  other holds back with the connection it inherited (`DatagramLost`). Into a
  pipe the first report is written seven times (`ReportsWritten`: once by
  `main` and once by each reader forked after it). A second process
  enters a benchmark after one fault only by way of `ShrMem`'s error returns: a
  reader of `AnonPipe` that returns has a parent that waits for it
  (`OneWriter`).
* A PrettyTable that prints goes on printing through any calls, also on tables
  that share its dictionaries, except for a stale `sortby`, a row too short for
  it, and new names after `clear()` (`PrintingEndsForCause`). The loops at
  `prettytable.py:419` and `:428` look for names without an entry and so remove
  nothing; that they do not is what keeps slices printable (the mutant
  `Relabel_pops`). A refused call leaves no trace, not even an `add_row` that is
  refused in the middle, when it names the fields of a table of empty rows
  (`RefusedCallsChangeNothing`); but an `UnboundLocalError` after `clear()` does:
  the names are set.
* Its text is a grid but for wide characters in a limited column and rows made
  too short by `add_column` (`Grid`). A passed option is like one that was set,
  except that a passed `vertical_char` does not reach the rows, and a passed
  `header_style`, `int_format` or `float_format` nothing at all
  (`PassedLikeSet`), although `get_string` documents the two formats among its
  arguments (`prettytable.py:961`, `:962`). The constructor takes a 0 for "not given", so
  `vrules=FRAME` and a padding of 0 have no effect there (`__init__`).
* Tables of even width survive the way to HTML and back in their rows and
  cells, but not all that is in a cell (`TablesComeBack`): its lines come back
  run together, or only the last one where breaks are written `<br/>`, and in
  Python 2 every `<`, `>` and `&` is lost. A row narrower than the
  widest row before it on the page ends up one cell short or makes the
  reading fail, and `make_fields_unique` can produce two equal names from
  `a'`, `a`, `a` (`FailureHasCause`).

### Findings

* `StreamPair_sumerror`: `pipe.c:45` reads once per message, and the assertion
  at `pipe.c:54` counts on every read returning a whole one. With a message
  above `PIPE_BUF` the run reports a sum error although nothing was lost, and
  the writer hangs.
* `MsgQueue_check`: `posixq.c:71` adds `size` after a failed receive as well, so
  the check at `posixq.c:81` cannot fail.

## 5. Fairness

`FairSpec` adds weak fairness of each process's next step. A step of a process
is disabled exactly while it is blocked in a system call, so this says that the
scheduler runs every process that can run, which Linux does. No fairness is
assumed of kills, errors or faults. The start of another run is not fair
either. The liveness properties (`EveryRunCompletes`, `Completes`,
`CompletesUnlessLost`) have the premise that nothing disturbs the behaviour,
spelled out in each: with a kill or an error the programs do hang, and
`HangHasCause`, `NoMutualWait` and `OnlyAcceptHangs` say when. For `tcp.c`
the premise (`Calm`) also asks that a run starts only when the reader before
it has gone: otherwise its `bind` may fail.

`IpcBm` and the models of PrettyTable state no fairness: their properties are of
states and steps.

All runs of the IPC models have `CHECK_DEADLOCK FALSE`: a process whose peer is gone really waits
for ever. The deadlocks that would be a fault of the programs are excluded by
those invariants, which are stated without `ENABLED`, from the
conditions under which each system call blocks (`Blocked` in each model). The PrettyTable models end in an
explicit `Terminating` step and are checked for deadlock.

## 6. Proofs

Each `...Proofs` module extends its model, defines an inductive invariant
(`IInv`; in `IpcBmProofs` four that build on each other), and proves that it
holds initially and is kept by every step, with one lemma per conjunct or
action, and then the properties from it.

* **ShmSemProofs.** The heart is `Turns`: once the semaphores are initialised,
  `sem[WRITE_SEM] + i[Writer] + held + drained = 1 + i[Reader]` and
  `sem[READ_SEM] + i[Reader] + held = i[Writer]`, that is, there is one turn and
  it is in one place. It needs `SetupFirst` (the writer is away until then),
  `Handles` (the set exists while it is used) and `NoAbort`. `Contents` says
  what the turn carries. Proved: `TypeOK` without hypothesis, and mutual
  exclusion, whole messages, the order of removal, the clean end, the absence
  of mutual waiting and the refinement of the one-slot `Transfer` under
  `Covered`: the sleep suffices, or there is only one run. The hypothesis is
  needed: with a short sleep and a killed earlier run the writer can work on
  leftovers while the reader resets the semaphores. `SafeWhateverTheSleep`, which
  is about the copies, the messages and the order of removal, does
  without it while nothing is killed, for any number of runs: `Tidy` says that
  a run that was not killed leaves no segment, so that an early writer of the
  next run finds one only when its reader has initialised the semaphores, and
  from there on `Turns` holds as before. With no message to wait for, the early
  writer's removal may come before the reader has set up, so the order of
  removal is stated for `Count # 0`. It asks that no reader fails in
  `shmat`, the one fault that leaves a segment without its removal ahead; the
  model violates the property otherwise.
* **StreamPairProofs.** `Accounting` and `Positions` give the first half of
  `CheckIsRight`; `WholeMessages` (of atomic messages the buffer holds whole
  ones) gives the second and `HangHasCause`. The lemmas on `i * Size` do the nonlinear
  arithmetic the solver does not. `ImplementsTransfer`: a write that fits is a
  `Send` within `Capacity \div Size`, a read a `Receive`. It asks for
  `Size > 0`, since an empty message is read before it is written.
* **MsgQueueProofs.** `FirstComerWaits` is the argument above: while only one
  side has the queue open, the writer has sent no more than is in the queue,
  and the reader's messages are bounded by the leftovers, so neither can reach
  its unlink if `count > MaxMessages`. It is about a run whose `leftover` queue,
  if there is one, is of its size: all queues it can have open then are.
  `NameUnlinked` needs no hypothesis.
  `ReceivedInOrder` and `ImplementsTransfer` rest on `Undisturbed`: without a
  kill the queues are this run's, what the reader got is a block of the
  writer's messages from the first on, and its queue holds the block after it
  (`OwnMessages`). `HangsHaveCauses` also speaks of runs after a kill. For it
  `Flow` bounds what leftovers may be in the queue: the reader cannot starve on
  a queue the writer filled, as that has sent no more than was taken or is
  still there, and the writer cannot block on a queue the reader emptied, as at
  most `MaxMessages` messages were not its own; `RefusedBoth` says that a size
  the system refuses is refused to both sides.
* **DatagramProofs.** `Flow` is the account of the datagrams as long as no call
  fails. `Evidence` carries the argument that survives failing calls: a sum
  that is full for the turns made shows that every turn took a datagram that
  was sent, and if it took all of them no call has failed, except one that
  ended its process. With `Sums` this gives what a passed and a failed check
  mean.

* **ConnStreamProofs.** `Accounts` follows every byte from the writer to the
  sum of the reader that accepted it, and `Verdicts` keeps what the check says
  once it is made. For the meetings of runs, `Order` says that only the last
  writer is active, `Meeting` that its reader's socket has the name by then,
  and from them follow `OwnReader` and, since a writer never connects to a
  later run's reader, `OwnWriterFirst`. `StuckInAccept` derives the hang
  property from the invariant: a writer that waits for room has a reader that
  waits for data of another writer, and there is no other writer.

* **TableProofs.** One lemma per method says that it keeps tables tables and no
  row longer than the field list (`...Sound`), and what it can do to printing.
  The argument for the dictionaries is in `CallKeeps` and `MakeKeeps`: a call
  may add entries to dictionaries that other tables use and never takes one
  away, so whatever printed before still finds its fields (`GrownPrints`); the
  owner of a table's dictionaries exists, so a new object never overwrites
  those another one uses. `Renaming` needs `Keyed`: dictionaries of a table with
  fields have alignments (`NamesKeyed`), so that the loop at
  `prettytable.py:418` does run.

* **IpcBmProofs.** The processes form a tree of any depth and the number of
  faults is any. `TypeCorrect` comes first: it also says which step belongs to
  which benchmark. `AtMostOneWriter` rests on `WInv`: without a fault the first
  process is the only one that runs `main`, and every other is its reader; with
  one fault, unless `ShrMem`'s reader returned, at most the reader of `AnonPipe`
  joins it, and the first process is then in its `waitpid` (`FirstWaits`).
  `ReportsOnce` rests on `RInv`: the buffer of a process holds the reports of
  the benchmarks before its own, so a report has been written as often as
  processes forked after it have ended (`Flushed`, with the cardinality of that
  set); for this no call of `main` may be refused, which is what `Peers` says of
  the FIFO, the segment and the port. `HangsHaveCauses` rests on `HInv` and
  `QInv`. `HInv`: a reader
  of a benchmark on this machine's memory whose writer has gone on has its unit in the
  medium (`SentWaits`) and can take it, the TCP reader has been connected, and
  only the first process and the reader of `UDPSocket` hold the connection's
  other end (`Holders`). From this a first process that still lives can always
  go on or waits for a reader that can (`MainGoesOn`); without it only the
  readers of `TCPSocket` and `UDPSocket` can be waiting, and the first of them
  only for the second. `QInv` is about the queue, whose name both sides open and
  unlink: until the first process has unlinked it, the queue that is linked is
  the one it has open (`QueueLinked`), and a reader that has not opened one by
  then gets another, which only happens if all messages fit into the queue
  (`QueueFilled`); that is `QueueMissed`.

`TableTextProofs` has a simple inductive invariant (`IInv`): the options keep
their types, the sort field is a field, and the text is what `get_string` makes
of the options of its call. The work is in the operators, which are folds, sorts
and maxima. The library's induction theorems cannot be instantiated here, but
the one fact needed from it can be cited: `<` on the naturals is well-founded.
From it follow that a set of naturals has a least element (`LeastNumber`), that
what holds for 1 and is passed on holds up to n (`UpTo`), what `FlattenSeq` gives
(`FlattenType`, `AlikeFlattened`), that a finite set has a maximum (`MaxExists`)
and that the order of Python's lists is total (`FirstDifference`), so that the
sort by rank is a permutation's (`Ranked`, `SortedRows`). `TextsAreGrids` then shows for the
header, the rules and each line of a row that it has the shape of the rule:
widths are at least those of the names and of the unlimited cells (`WidthsOf`),
and what is wider is cut to fit (`WrappedFits`). `PassingIsSetting` needs
that printing looks at the table's own options for the four of `AskedOfTable`
alone (`RowHidesTable`, `SameAsked`), and that setting an option other than a
format is an update (`AssignedOptions`). `HeadersKeepWidths` assumes that no field name is empty: with
an empty one and a `max_width` of 0, `textwrap` is called with a width of 0.

The same module proves `TablesReadBack` and `ReadingFailsForCause` for pages of
any number of tables, rows, cells and lines, of any words. The properties speak
of the whole page, the handler only sees the next tag, so the inductive
invariant `ReadInv` has to say where on the page it is: `Somewhere` is the
disjunction of the places between two tables, rows or cells, and before, after
and within the break after a line of a cell (`AtTable`, `AtRow`, `AtCell`,
`AtLines`). At each place `input` is what follows there (`AfterTable`, `AfterRow`,
`AfterCell`, `AfterLine`: the rest of a `FlattenSeq`, then the end tag and the
rest of what is around it), `rows` and `last_row` are the part before it as it is
read (`RowsRead`, `CellsUpTo`), `last_content` is blanks and what is kept of the
cell's lines as they are heard so far (`Holds`, `HeardLines`), and `max_row_width` is the widest row of the page up to
there, the tables before included (`Widest`). One lemma per place says which
place the next step leads to (`FromTable` to `FromTableEnd`); the markup lemmas
(`AfterTables` to `AfterLines`) say which tag that is. What happens at
`</table>` is shown about the two recursive functions. `TableGenerated`: after i
rows the table has the i-th data row in its place, filled up, and the fields of
its last header. `NeverFails`: with rows of equal width and headers that can be
made unique no row raises. `UniqueMade` is the argument for
`make_fields_unique`: each name is its field with quotes after it, and after pass i
(`Passed`) the first i names are shorter than the later names of an equal field,
which are still alike. So in the end names of equal fields differ in length, and
names of different fields differ unless a field ended in a quote to begin with
(`Plain`). `UniqueKept`: unique fields stay what they are.

Assumptions are those of the constants, named in the models: sizes are
naturals, the queue and the atomic write are not empty, and so on.

Model-checked only:

* Everything temporal beyond safety (`EveryRunCompletes`, `Completes`,
  `CompletesUnlessLost`): liveness under fairness is out of the prover's reach.
* The two properties that are violated.

The type invariants are proved and no run checks them any more.

## 7. Not modelled

* The report (`timediff` and the final `printf`): times of day and floating
  point have no counterpart in TLC. With it `count * size` in an `int` is left
  out; the models count in unbounded numbers.
* `run_test.py`, and of `run_tests.sh` all but its loop over sizes: sequential
  scripts that cut text into columns and keep no state a later step could find
  changed.
* Of `prettytable.py`: `from_csv`, `from_db_cursor` (a constructor and `add_row`
  calls behind a reader of Python's), `sort_key`, an entry of `align` set by
  itself, the style attributes of formatted HTML, the tokenizer of `HTMLParser`
  and what it makes of references before Python 3.5, and the block widths
  of single characters, of which 1 and 2 stand for all.
* A UDP run next to a receiver of an earlier run of `udp.c` (within `ipc_bm` it
  is modelled).
* `Makefile`, `.travis.yml` and the documents have no behaviour at run time.
