# TLA+ verification of InMemoryFuzzing

InMemoryFuzzing fuzzes one region of a program that runs on an embedded device.
gdb stops the target at the start of the region, the fuzzer takes a snapshot (a
gdb execution record), writes generated data into memory or to a socket, lets
the region run to its end or to a crash, goes back with reverse execution and
starts the next run. An agent on the device starts programs and sends back what
the target writes to log pipes. This directory models the control of that
system in TLA+, from the loop to the analysis of the heap log it collects,
checks it with TLC, and proves with TLAPS every safety property the passing runs
check.

Paths below are relative to `src/`.

## 1. Inventory

| Component | State | Operations | Works with |
|---|---|---|---|
| Fuzzing loop, `Fuzzer/FuzzController.cs` | list of locations, snapshot, logger prefix | `Fuzz`, `RestoreAndFuzz`, `InvokeFuzzLocations` | connector, locations, loggers; a pool thread runs the preconditions beside it |
| Locations, triggers, stop conditions, `Fuzzer/FuzzLocations`, `Fuzzer/FuzzDescriptions` | `_currentCount`, `_triggerFirst`, `_current` | `Run`, `IsTriggered`, `NextFuzzRun`, `IsFinished` | connector (memory), socket, data generator |
| Snapshot, `GDB/GDBSnapshot.cs` | breakpoint, record | constructor, `Restore`, `Destroy` | connector |
| gdb command queue, `GDB/GDBSubProcess.cs` | `_commands`, `_gdbReadyForInput`, `_currentCommand`, `currentLines` | `QueueCommand`, `ProcessQueue`, `ReadThread`, `ReceivedNewLine` | gdb's stdin and stdout; callbacks run on the read thread under the queue's lock |
| Command classes and response handlers, `GDB/*Cmd.cs`, `GDB/*RH.cs` | callbacks | `HandleResponse` | queue, connector |
| Connector, `GDB/GDBConnector.cs`, `GDBSymbolTable.cs` | `_lastDebuggerStop`, `_gdbStopEventHandler`, breakpoints | memory, breakpoints, symbols, `DebugContinue` | blocks its caller until a callback sets an event |
| Remote control, client, `Fuzzer/RemoteControl` | receive buffer, `_requestedPipes`, `_registeredPipes` | requests; handlers of RPIR, RPIP, RPIC, REXS, RPRC | agent, over one connection; handlers run on the connection's thread |
| Remote control, agent, `remote_control/remote_control.c` | receive buffer, `next_pipe_id`, list of pipe threads, `connection_fd` | ECHO, PIPE, EXEC, PROC; one thread per pipe | client, target's pipes |
| Data loggers, `Fuzzer/DataLoggers` | `_sink`, `_prefix`, error log | `StartingFuzzRun`, `FinishedFuzzRun`, `LogDebuggerStop` | loop, connection's thread |
| Data generators, `Fuzzer/DataGenerators` | last length, recorded data | `GenerateData` | locations, data logger |
| Analyzers, `Fuzzer/Analyzers` | the runs' log files | `Analyze` | files the loggers wrote |
| Allocation logger, `log_memory_allocations/` | pipe, `loglock` | `malloc`, `calloc`, `realloc`, `free` | preloaded into the target; writes to a log pipe |
| Starting of programs, `Fuzzer/XmlFactory` | `_currentRemoteExecInfo`, its event | `RemoteExec`, `SendCommand` | client, connection's thread |
| Rest of the XML configuration, scripting, apama, libbfd.net, `Utils` | | set-up, helpers | |

What is hard in this code, and therefore what the properties are about:

* **The loop's bookkeeping is spread out.** A run's log files are opened at two
  places, closed at a third, and the prefix changes at a fourth; crashes, exits
  and the end of the last location take different ways through them. A run must
  have its own log files, a crash its entry, a fuzzed run its closed files, and
  the loop must end.
* **Restore knows the snapshot only by its address.** Any other stop with this
  address, and any call that makes the snapshot again, moves the point every
  later run starts from.
* **One thread reads gdb, others wait for it.** Answers are found by the text of
  lines, belong to "the current command", and callbacks queue commands of their
  own. Answers and stops must reach the call they belong to, and every call must
  return, since none has a timeout.
* **The connection's thread works beside the fuzzing thread**: pipe names, the
  current log file and the queue of requests are used by both.
* **The agent's threads, buffer and list** outlive connections and runs. Packets
  are cut anywhere by the connection; several threads write them; the list of
  threads has no lock; a client may go at any time.
* **What a run has written is read much later**, from files the end of the run
  cut off anywhere and in which several threads of the target wrote.

Every hazard, with its line and the properties that would catch it, is in
`PROJECT.json`.

## 2. Modules

| Module | Models | Lines of argument |
|---|---|---|
| `FuzzController` | loop, locations, triggers, stop conditions, snapshot, what the loggers and the error log are told | `FuzzControllerProofs`, runs through `MCFuzzController` |
| `GdbCommandQueue` | command queue, read thread, all response handlers, callers of the connector | `GdbCommandQueueProofs`, runs through `MCGdbCommandQueue` |
| `RemotePipes` | pipe logger, client's pipe tables, agent's pipe threads, packets under way | `RemotePipesProofs`, runs through `MCRemotePipes` |
| `PacketChannel` | abstract: packets are received whole and in the order in which they were sent | refined by `PacketFraming` |
| `PacketFraming` | packets as bytes: send and receive on both sides of the connection | `PacketFramingProofs`, runs through `MCPacketFraming` |
| `AgentPipes` | the agent's process: accept loop, pipe threads, the linked list of them | `AgentPipesProofs` with `NaturalsFacts`, runs through `MCAgentPipes` |
| `RemoteExec` | starting programs: factory, connection's thread, EXEC and PROC handlers | `RemoteExecProofs` with `NaturalsFacts`, runs through `MCRemoteExec` |
| `AllocationLog` | the preloaded library: heap calls and the lines they write | extended by `HeapAnalysis` |
| `HeapAnalysis` | which runs are analyzed, and the heap analyzer | `HeapAnalysisProofs` with `NaturalsFacts`, runs through `MCHeapAnalysis` |

### FuzzController

`pc` is the place in `Fuzz()`; each action is a stretch of it between two points
where something else can be observed: `TakeSnapshot`/`NoSnapshotYet` (the first
`if`), `RegionEndReached`/`ErrorReached`/`OtherStop` (the other two),
`SkipFinished`/`NotTriggered`/`RunSocket`/`RunMemory` (one turn of
`InvokeFuzzLocations` each) and `InvokeDone` (the removal behind that loop),
`FinishRun`, `Restore` (one turn of its do-while), `NextRun`, `DebugContinue`.

The target and gdb's record are external: `ForwardStop` ends a continue at any
breakpoint gdb holds, by a signal anywhere, or by exit; `trail` is the sequence
of breakpoint stops since the record began at `base`, and `ReverseStop` walks it
back. With `Reentrant = FALSE` the target passes RegionStart once per run.
Triggers and locations are numbers in list order. Data, its generation and the
contents of the log files are left out; `fuzzed`, `crashed`, `lastRun` and
`mishaps` are history variables.

### GdbCommandQueue

`proc` holds the fields of `GDBSubProcess` and the stop event of
`GDBConnector`; the code of `GDBSubProcess` is written as functions on it
(`QueueCommand`, `ProcessQueue`, `ReceivedNewLine`, `FinishCurrent`, ...), since
the lock on `_commands` makes each of them one step together with the callbacks
it runs. `QueueCommand` of a caller takes the lock twice and is two steps
(`Issue`, `Process`). A line of gdb's output is abstracted to what a handler can
tell of it. `HandleResponse` gives for each of the 20 handlers of commands the
decision, whether the callback is called and what is queued on the way; the five
permanent handlers follow in the order in which they are registered.

gdb is external: `GdbAnswers` takes one command and prints a response from
`Expected`, or, with `"refusal"`, `"signal"` or `"breakpoint"` in `Surprises`,
one the handlers do not expect.

### RemotePipes

Three parties: the fuzzing thread (`RequestPipe`, `CountRequest`, `SendRequest`,
then `StartingFuzzRun`, `FinishedFuzzRun`, `ForgetSink` run after run), the
connection's thread (`Handler...`, `DequeueRequest`, `WriteSink`) and the agent
(`HandlerRequestPipe` and, for each pipe, `OpenPipe`, `OpenFails`, `ReadPipe`,
`EndOfPipe`). Test and use of `_sink`, and `Close` and the assignment of null,
are separate steps because nothing locks them. `Enqueue` and `Dequeue` are read
and write of the queue's size; with `MayOverlap = FALSE` the two threads do not
meet inside them. `RemotePipes` assumes what `FuzzController` shows of the
loggers (`LogBracketing`): runs are opened and closed in turn with new prefixes.
Packets arrive whole and in order, which is what `PacketFraming` shows
(`CommandsInOrder`, `ResponsesInOrder`).

### PacketFraming and PacketChannel

`PacketChannel` is two sequences: what was sent, and what was received, always
a prefix of it. `PacketFraming` is the code: `up` and `down` are the bytes under
way, and a read takes any non-empty part of them. The agent's main thread reads
into its buffer (`Read`), searches it (`NoMagic`, `Incomplete`, `ProcessPacket`
are the three ways one search ends) and closes the connection when there is no
room left (`BufferFull`). `send_packet` is `Lock`, three times `Write` and
`WriteLast`, for the main thread's replies and for a pipe thread. On the client's
side `CBRead` and `ProcessBuffer` (`WaitForMore`, `HandlePacket`) do the same with
a buffer that grows and a search that stops one position earlier. The refinement
mappings `Up` and `Down` take the history of sent and handled packets for the
two sequences.

### AgentPipes

The agent's list is modelled as memory: `head`, a `next` field for each node, and
whether a node is allocated or freed. `start_thread` is `FindTail`,
`CreateThread` (from here on the thread runs), `Link`, and `StoreInfo` in its
caller; `delete_running_thread_info` is `FindVictim`, `Unlink`, `FreeNode`. With
`MayOverlap = FALSE` two operations on the list do not meet; with `TRUE` they may,
as in the code. `StoreInfo` may come after its thread has ended in both: the
thread then searches for a pointer nobody has written, does not find it and
leaves its node. `Send` goes to whatever connection `connection_fd` stands for;
to a client that is gone it is lost or ends the process with SIGPIPE.

### RemoteExec

`main` is the factory's place in the loop over the configured programs; the
connection's thread stores an answer (`StoreStatus`) and sets the event
(`SetEvent`) in two steps. Strings are sequences of bytes: `Data` encodes a
command as `RemoteExecCommand` does, `Parsed` takes it apart as `handler_exec`
does, so the offsets of one are checked against those of the other.
`handler_proc` fills a buffer of `ProcBuffer` bytes with the arithmetic of the
code: entries that do not fit are counted and skipped, and beyond the end the
agent may die. The processes of the device are external and may end at any time.

### AllocationLog and HeapAnalysis

A heap call does its work and then writes its line in five pieces; with the lock
(`locked`) a line is written in one go, without it two threads' lines mix. A run
ends anywhere, also inside a line, and what it wrote becomes its file. The
analysis goes through the finished runs: `ReadLine` takes the pieces up to the
next newline for a line and interprets them with the analyzer's own rules
(`Throws`, `Recognised`, `RangeOf`), `AnalyzeChange` judges one memory write.
The heap is a set of blocks at few addresses; addresses are small numbers and
`Limit` stands for the 4096 bytes beyond which a write is not taken for the
heap's. Calls before `init_me` return NULL and are left out, and so are blocks
from before the snapshot.

## 3. Runs

| Run | Instance | Checks | Result |
|---|---|---|---|
| `fuzz_loop` | memory location before every run with a location trigger besides, socket location at the end of every second run, both counted | `TypeOK`, `LogBracketing`, `CrashReported`, `FailureHasCause`, `RestoredToSnapshot`, `SnapshotAtRegionStart`, `FuzzEnds` | hold |
| `fuzz_single_address` | RegionStart = RegionEnd; a location with two triggers, one with `!`; a memory location before every third run | `LogBracketing`, `RestoredToSnapshot`, `FuzzedRunsFinished`, `FuzzEnds` | hold |
| `gdb_calls` | one caller, every method, gdb as expected | `TypeOK`, `CallbacksAttributed`, `StopIsOwn`, `NoRequestAtPrompt`, `CallsReturn` | hold |
| `gdb_pair` | the loop's calls and a precondition's at the same time | `OneOutstanding`, `WaitersServed` | hold |
| `remote_pipes` | two pipes, three runs | `TypeOK`, `DataAttributed`, `LoggedUnlessDead`, `DataDelivered` | hold |
| `packet_framing` | up to two commands out of: one that fills the buffer exactly and has the prefix as its data, one without data, one that is a byte too long; a pipe thread's packet beside them | `TypeOK`, `ClosedOnlyByLongPacket`, `CommandsInOrder`, `ResponsesInOrder`, `PacketsDelivered` | hold: both directions implement `PacketChannel` |
| `agent_pipes` | three requests over two connections, list operations one after the other | `TypeOK`, `ListIntact`, `IdsStandForOnePipe`, `ServesNextClient` | hold |
| `remote_exec` | a target and a debugger that attaches to it, or one program twice; devices with no, one, and more processes than the buffer has room for | `TypeOK`, `SuccessMeansStarted`, `PidFresh`, `ExecEnds` | hold |
| `heap_log` | two threads, two runs, library with and without its lock | `TypeOK`, `RangesAreBlocks`, `NoFalseReport`, `NearOverflowReported`, `ThrowsOnlyOnCutLine` | hold |
| `gdb_signal` | a signal `SignalEnum` does not name | `ContinueReturns` | violated: the read thread ends |
| `agent_overlap` | two operations on the agent's list overlap | `ListIntact` | violated: a node is lost, or freed while it is linked |
| `heap_distance` | a block near the write and one far away | `SmallestDistanceDecides` | violated: the far one decides, the overflow is not reported |

The violated properties state what a comment of the code says; `findings` in
`PROJECT.json` quotes each line.

Each property of a passing run has a mutant: a definition named `Bug...` beside
the one it stands in for, with a slip the code could have had (a missing reset,
a wrong order, a dropped guard). Replacing the definition by its mutant breaks
the property.

### Bounds

* `MaxPrefix` (8 and 10): runs of the loop. The counters and periods of the
  instances are at most 3, so the locations are finished and removed well
  before; `FuzzEnds` would fail if the bound were met first.
* `MaxTrail` (2): breakpoint stops of a run besides the crash or the exit, so
  that Restore has to go back over more than one.
* `MaxCommands` (4, 5): a continue without a process is followed by run and by the
  question for `$pc`, so three commands can belong to one call; the others let a
  second call meet what the first left behind.
* `MaxNoise` (1): one line before and one behind each line that matters;
  handlers treat a second one like the first.
* `MaxChunks` (1), `MaxRuns` (3): data of one run may arrive in that run, between
  runs, in the next and in the one after.

* `BufferSize` (14) for the agent's 10000 bytes: room for a packet with four bytes
  of data, so that exactly full, one too long and a second packet behind the
  first all happen. `ReadSize` lets the client read any part at once.
* `MaxRequests` (3), `MaxConnections` (2): a node in the middle of the list, a pipe
  that outlives its client, and a new client beside it.
* `ProcBuffer` (40) for 9000 bytes and `MaxPid` (4): the list of two processes fits,
  the third does not. Ids have one digit.
* `MaxCalls` (2), `MaxRuns` (2), `MaxWrites` (1) in all runs together: two lines that
  mix, two blocks, and a write before, between or behind them. `Places` are 2 and 5
  with blocks of 0 or 2 bytes and `Limit` 3 (2 and 12 with 5 in `heap_distance`, so
  that one block is farther than the limit).

CHECK_DEADLOCK FALSE is set where a bound ends the behaviour (callers that issue
no more commands, a loop that starts no more runs, an analysis that is done) and
in `remote_exec`, where the client hangs once the agent has died. The two passing runs of
`FuzzController` check for deadlock: `Terminated` stands for a loop that has
returned, thrown or hangs.

### Fairness

* `FuzzController`: `WF(Next)`, since `Fuzz()` is one thread. Strong fairness of
  `DebugContinue` says two things of the target, without which fuzzing it is
  pointless: it comes to RegionStart, and a run of the region ends at its end or
  in a stop without breakpoint. It is not assumed which.
* `GdbCommandQueue`: weak fairness of the read thread, of gdb's answer and of each
  caller's way through a call it has begun; none of a call being made.
* `RemotePipes`: weak fairness of the threads of client and agent; the target
  writes or closes as it likes, and opening a pipe is not assumed to succeed.
* `PacketFraming`: weak fairness of the receivers and of a thread that is sending,
  strong fairness of `Lock` for each thread: a mutex that is released again and
  again is not withheld from one thread for ever. Nobody has to send.
* `AgentPipes`: weak fairness of the main thread and of threads that are ending;
  clients and the target do what they like.
* `RemoteExec`: weak fairness of the factory (its five seconds pass), of the
  connection's thread and of the agent. Processes need not end.
* `HeapAnalysis` has no liveness property and needs none.

## 4. Proofs

TLAPS checks the proof modules to the last leaf, for every value of the
constants that satisfies the named assumptions. Where a property does not hold
for every value, the theorem states its condition as a hypothesis (`ASSUME ...
PROVE`); the hypotheses are listed with the reason for them. Each inductive
invariant was checked with TLC on the instances of the runs before it was proved.

**FuzzControllerProofs** assumes `ConfigAssumption` (the configuration is
well-typed: each trigger has an owner, addresses are not 0). `TypeCorrect` is
inductive by itself. The other four results follow from one inductive invariant,

    LoopInv == TypeOK /\ LogInv /\ CrashInv /\ FuzzedInv /\ RecordInv /\ FailureHasCause

which adds to the properties what they lack for induction: before the snapshot
the loop is only in its waiting part (`BeforeSnapshot`); a crash not yet in the
error log is the one whose stop the loop is about to look at (`CrashInv`); a run
that was fuzzed keeps its location in the list until the next pass, because a
pass never removes what it ran (`FuzzedInv`); with a snapshot the target is
recorded unless it has exited (`RecordInv`). One lemma per part shows that every
action preserves it. The theorems: `TypeCorrect`, `LogsAreBracketed`,
`CrashesAreReported`, `NoFuzzedRunIsLost`, `FailuresHaveCauses`. They do not
depend on the bounds being finite numbers TLC could reach, on the number of
locations, or on `Reentrant`.

`RestoresToSnapshot` and `SnapshotStays` have two hypotheses, each excluding a
configuration for which section 5 describes how the snapshot moves: `~Reentrant`
(the target passes RegionStart once per run) and `MemoryAtStart` (no `end` trigger
belongs to a memory location). Their invariant `RestoreInv` says that the record
begins at the snapshot, and that the only stop at the snapshot's address it may
hold is its last one, at the end of a region that is one address; so a step back
ends at that address only when the record is used up. A region of one address
and a target that was started again are covered.

**GdbCommandQueueProofs** assumes `CallersAssumption`. It has four parts, each with
an invariant of its own that builds on those before. The first, `QueueInv`, is
`TypeOK`, that the current command has a handler, and `OneOutstanding`. The
functions that make up `GDBSubProcess` are shown, from the inside out, to keep
the record's type and to write to gdb only when it was ready, and then at most
one command (`Sends`); the steps follow from that. The theorems:
`QueueTypeCorrect` and `OneCommandUnderWay`, for any number of callers, any use
of the connector and every surprise of gdb.

Its second part proves `CallbacksAreAttributed` and `NoLineRequestedAtPrompt` under
`"refusal" \notin Surprises`: gdb answers what it is asked. With a refusal
both are false, since a handler that finds no line it knows is still waiting when
the next command's lines come. Signals and breakpoints gdb reports unasked are
allowed. The invariant `AnswerInv` orders the numbers of commands (called back,
current, queued, still to be issued: `Order`, `Fresh`), and says that all lines
kept, under way or about to be printed belong to the command that is current, and
that among them is one its handler decides on before the prompt (`Attributed`).

Its third part proves `StopsAreOwn` under the same hypothesis and
`SingleRunner`: one caller at most uses `DebugContinue`, which is so in the program
because only `Fuzz()` and what it calls let the target run. With two runners the
stop event, one field, is overwritten. The invariant `StopInv` follows a continue
from the queue through gdb to the report: each command that runs the target, and
each line that reports a stop, was asked for by the one waiting call
(`CommandsAsked`, `LinesAsked`), at most one report is under way (`AtMostOne`), and
a response begins with the line that decides whether a run takes the continue's
place (`FirstDecides`).

Its fourth part proves `NobodyWaitsInVain`, which is `WaitersServed`, under three
hypotheses. `Surprises = {}`: a refusal leaves `DebugContinue` without the line it
waits for, and a signal `SignalEnum` does not name ends the read thread
(`gdb_signal`). `SingleRunner`, as before. `NamesAlone`: a caller that uses
`SetBreakpointNameCmd` is the only one; its callback makes the queue finish
whatever is current, and with a second caller that is the second one's command,
whose caller then waits for ever (section 5; TLC finds the behaviour when one
caller sets a breakpoint by name and another prints). In the program
`ResolveSymbolToBreakpointAddress` is called while the methods are listed
(`GDBConnector.cs:670`, `GDBSymbolTable.cs:202`), which is part of the set-up before
the loop and its preconditions run. The invariant `WaitInv` says that the read thread lives;
that when gdb is ready and commands are queued, a caller is between the two halves
of `QueueCommand` and about to send them; that what a caller waits for is queued,
current or called back (`Pending`), for a continue that the stop has come or that a
command or a line on its way leads to it (`Coming`); and, so that this survives the
end of a response, that a handler which can be done without a callback finds
its answer first (`Promised`, `FirstAnswers`) and nothing is queued behind a
breakpoint by name (`NameLast`).

**PacketFramingProofs** assumes `FramingAssumption` only. `Stream(s, sent, n)` says
that the bytes `s` are the encodings of the packets behind the n-th, one behind
the other. It is stated with the sequence of what remains after each packet
instead of a recursive function, so that no induction over data is needed.
`ParsePacket` shows that the search finds a packet that lies at the start of the
buffer exactly there and whole, whatever its data: no prefix inside the data is
ever looked at. The buffer and what is under way together are always such a
stream (`UpInv`); towards the client, what the holder of the mutex has not written
yet is its end (`DownInv`, `SenderInv`). From this follow `FramingTypeCorrect`,
`ClosedOnlyOverLongPacket` and the two refinements of `PacketChannel`,
`CommandsArriveInOrder` and `ResponsesArriveInOrder`, as theorems about `Spec`: the
initial states map to initial states and every step to a step or a stutter.

**AgentPipesProofs** has two parts. `IdsAreUnique` needs `MaxRequests < 65536`, as
`next_pipe_id` has 16 bits, and nothing about overlap: ids depend on the main
thread only (`CoreInv`). `TypeCorrect` and `ListStaysIntact` need `~MayOverlap`
besides; `agent_overlap` shows that they are false otherwise. The invariant
`ListInv` says that the nodes of threads that have not unlinked theirs form a chain in
increasing order, that what an operation has found (`tail`, `prev`) is still so when
it uses it, and that one operation is under way at a time. Which nodes are
reached from `head` is a least fixed point, and its equality with the chain needs
induction along the list; `NaturalsFacts` derives what is needed from the least
element of a set of natural numbers.

**RemotePipesProofs** has the hypotheses `NumPipes < 65536` (ids do not wrap) and
`~MayOverlap` (`Enqueue` and `Dequeue` do not meet; section 5 says what happens when
they do). The invariant `PipesInv` is an agreement of four parties: the requests
in the client's queue, the requests under way, the ids the agent has given and the
packets under way, in each of which the order is the same; a pipe's packets come
behind its RPIR and its RPIC is the last of them (`Wire`). From it follow
`PipesTypeCorrect`, `DataIsAttributed` and, with `LogInv`, `DataIsLogged`, for any
number of pipes, chunks and runs.

**RemoteExecProofs** assumes `ExecAssumption`: texts and lists have fewer than 32768
entries, the range of the 16-bit lengths the client writes, and ids are in
1..255, since an id is one byte of the model's arguments (its digits are left out). `ArgumentsArrive` is about the two
algorithms alone: `Parsed(Data(x))` is the program `x` again, for lists of
any length. `PutList` and `ItemAt` are recursive functions; what they compute is
shown by induction in the form `NaturalsFacts` offers it, for a set of numbers that
holds 0 and is closed under successor. `TypeCorrect`, `ProgramsAreStarted` and
`PidIsFresh` follow from

    Inv == TypeInv /\ StageInv /\ StartedInv /\ PidInv

`StageInv` says that one question is in flight, on the way to the agent, back, or
stored and not yet signalled, and that the calls of `posix_spawn` are one for each
program in its turn; so an answer is always that of the current program, although
the handler compares names only. `StartedInv` is the property for the programs
behind; `PidInv` says that the list of processes was asked for after the program's
turn began. There is no hypothesis: a buffer that is too small and an agent that
dies are among the behaviours.

**HeapAnalysisProofs** assumes `LogAssumption` (no thread is `Nobody`, blocks are not
at 0) and `LimitAssumption`. `TypeCorrect`, `OnlyCutLinesThrow` and
`NearOverflowsAreReported` hold with and without the lock, whatever mixture of
lines is read; the choice over all ranges (`Chosen`, a recursive function) is shown
by induction over the number of ranges. `RangesAreTheBlocks` says
that with the lock the ranges are exactly the logged blocks, and that without it
each still begins at an address a call returned; `NoFalseReports` is about the
library with the lock. They follow from

    Inv == TypeInv /\ (locked => LockInv /\ BlockInv) /\ ReadInv /\ NoFalseReport

`LockInv`: the log is whole lines and the beginning of one, whose rest is what the
holder has still to write. `BlockInv`: a block of malloc or calloc is in the log or
in what its call has still to write, and when a write goes into it, in the log.
`ReadInv`: the reader is at the start of a line, and its ranges are those of the lines
before, in its own run's file.

Only model-checked: the liveness properties (`FuzzEnds`, `CallsReturn`,
`DataDelivered`, `PacketsDelivered`, `ServesNextClient`, `ExecEnds`), which TLAPS does
not reach. Every invariant and action property of the passing runs is stated by a
theorem; where it has hypotheses, the run's instance satisfies them.

## 5. Seen in the code, without a run of its own

* `count|n` runs its location n + 1 times: `IFuzzStopCondition.cs:53` compares
  with `>`, `SampleFuzzDescription.xml:131` describes n.
* The first run is never fuzzed: the snapshot is taken and the target continued
  (`FuzzController.cs:137`) before `start` locations are asked for the first
  time, against `SampleFuzzDescription.xml:110`.
* `location|...` triggers set a breakpoint and are never invoked:
  `FuzzController.cs:155` is commented out, against
  `SampleFuzzDescription.xml:118`.
* A `start|n` trigger fires every n-th run only until it has fired for the first
  time: its counter is advanced by the loop and by its own location
  (`Trigger.cs:57`).
* A memory location with an `end` trigger makes the snapshot again where it
  writes, at RegionEnd (`GDBConnector.cs:231`); and when the target passes
  RegionStart twice in a run, Restore stops at the later pass
  (`GDBSnapshot.cs:57`). `fuzz_loop` and `fuzz_single_address` have neither.
* When gdb refuses a continue, no line of its answer ends the wait of
  `DebugContinue` (`GDBConnector.cs:341`).
* `SetBreakpointNameCmd`'s callback queues a delete while its own command is being
  finished; at the prompt it is sent at once, becomes the current command, and is
  finished in its place (`GDBSubProcess.cs:322`).
* `RemoteRequestPipe` enqueues without the lock its handler dequeues under
  (`RemoteControlProtocol.cs:217`): with `MayOverlap = TRUE` `RemotePipes` loses a
  request, and the second pipe is never registered.
* `InfoLineRH.cs:71` requests a line at the prompt when gdb knows no line, which
  `GDBResponseHandler.cs:45` forbids.
* `RemotePipeLogger.cs:56-58` tests and uses `_sink` on the connection's thread
  while `FinishedFuzzRun` closes it: the exception ends the process. This is the
  exception `LoggedUnlessDead` makes. Data that comes between two runs is
  dropped.
* A pipe thread whose pipe cannot be opened returns without RPIC and without
  taking its node out of the list (`remote_control.c:356`); one that ends before
  `StoreInfo` leaves its node, too. `ListIntact` counts both among the nodes that
  stay. A pipe thread that writes to a closed connection may end the agent with
  SIGPIPE, the exception `ServesNextClient` makes.
* `handler_proc` writes the field count of an entry without looking at the room
  left (`remote_control.c:170`), so enough processes make it write behind its
  buffer, and the wait for its answer has no timeout
  (`RemoteExecutionInfo.cs:120`): the exception `ExecEnds` makes.
* `realloc` logs without the comma behind its name
  (`log_memory_allocations.c:214`): the whole format is the name, and the bytes of
  the old block are the format. Such a line is never a known one for the
  analyzer, so blocks of `realloc` are unknown to it.
* A line the end of a run cut off makes the analyzer's `Substring` throw
  (`SimpleHeapOverflowAnalyzer.cs:248`); nothing catches it, and the runs behind
  are not analyzed. `ThrowsOnlyOnCutLine` shows that nothing else does.
* The head of `log_memory_allocations.c` names stderr as the output without a
  pipe, `init_me` duplicates stdin (line 27 and line 105).
* `DataGeneratorLogger.cs:66-71` writes the generated bytes as they are, while
  `ReplayDataGenerator.cs:68-74` reads a length before each of them, against the
  logger's own description (line 26): recorded data cannot be replayed.

## 6. Not modelled

* The precondition thread of the loop itself (its use of the connector is in
  `gdb_pair`), predefined locations, the constructor of `FuzzController` that
  takes a snapshot (unused).
* Stopping gdb, the loss of the gdb process, the contents of responses.
* Packets with 32768 bytes of data or more, whose length the receivers read as a
  negative number (`FramingAssumption` excludes them; nothing sends one), ECHO's
  contents, data shorter than its lengths say, `handler_exec`'s exits for it.
* The loss of the connection while the client writes; the client does not connect
  again.
* The allocation logger before `init_me` and its choice of a descriptor; blocks
  from before the snapshot; the other analyzers, which compare values of one file.
* Data generators and `Utils`: sequential code that one thread calls; the random
  data and the user's scripts are outside the system.
* The rest of the XML configuration (read once, sequential), scripting (user
  code), the apama connector (mostly `NotImplementedException`) and libbfd.net
  (bindings).
* `test_sources/` and the other vendored trees (ht-editor, proftpd and so on).
  They are programs to be fuzzed, not part of the fuzzer, and they are nearly all
  of the C and C++ in the repository: the fuzzer is C#, with two C files,
  `remote_control.c` and `log_memory_allocations.c`, both modelled. The share of
  the repository's C and C++ lines the models cover is therefore small however
  much of the fuzzer they cover.

## 7. Plan

Done in this order: the loop, the queue every call of the loop goes through, the
pipes whose data a run is judged by, the connection they and the commands cross,
the agent's threads, the starting of programs, the heap log and its analysis.

Left to model: the precondition thread and shared predefined locations in
`FuzzController`; `OneTimeStream` and `BitMap` as pure algorithms.
