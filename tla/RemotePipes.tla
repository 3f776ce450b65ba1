----------------------------- MODULE RemotePipes ------------------------------
(***************************************************************************)
(* The log pipes of the target: RemotePipeLogger requests them, the agent  *)
(* (remote_control.c) reads each in a thread of its own and sends what it  *)
(* reads over the connection, RemoteControlProtocol finds the name of the  *)
(* pipe a packet belongs to, and the logger writes it to the file of the   *)
(* current run.                                                            *)
(*                                                                         *)
(* Three parties of the client's process are concurrent: the fuzzing       *)
(* thread (requests, then run after run), the thread the connection is     *)
(* read on, and nothing protects _sink or the count of _requestedPipes,    *)
(* whose unlocked uses are steps of their own.  A chunk is what one read   *)
(* of a pipe returns.                                                      *)
(***************************************************************************)
EXTENDS Integers, Sequences, FiniteSets

CONSTANTS
  NumPipes,    \* the pipes of the logger, requested in the order 1, 2, ...
  MayOverlap,  \* Enqueue and Dequeue of the two threads may overlap
  MaxChunks,   \* bound: chunks the target writes to a pipe
  MaxRuns      \* bound: runs of the fuzzing loop

Pipe == 1..NumPipes
Run  == 1..MaxRuns

ASSUME PipesAssumption ==
  /\ NumPipes \in Nat /\ MaxChunks \in Nat /\ MaxRuns \in Nat
  /\ MayOverlap \in BOOLEAN

NotAvailable == 0        \* the name "<not available>"
NoSink       == 0        \* _sink = null
MaxId        == 65535
Ids          == 0..MaxId \* int16_t next_pipe_id

Chunk  == [pipe: Pipe, nr: Nat]
Packet == [type: {"RPIR", "RPIP", "RPIC"}, id: Ids, data: Seq(Chunk)]

VARIABLES
  main,       \* the fuzzing thread: where it is
  requests,   \* pipes it has called RemoteRequestPipe for
  run,        \* the prefix of the current run, 0 before the first
  queue,      \* _requestedPipes: its count, and the items taken and added
  counted,    \* the count the fuzzing thread (1) and the reader (2) have read
  registered, \* _registeredPipes
  reader,     \* the thread of CBRead: what it is doing
  sink,       \* _sink: the run its file belongs to
  sinkOpen,   \* that file is open
  files,      \* what the file of each run holds
  events,     \* history: the calls of PipeData, with _sink as the logger found it
  toAgent,    \* the connection, by direction
  toClient,
  nextId,     \* next_pipe_id
  thread,     \* thread_request_pipe of each pipe
  fifo,       \* chunks in the pipe
  written,    \* chunks the target has written to the pipe
  eof         \* the target has closed the pipe

mainVars   == <<main, requests, run>>
queueVars  == <<queue, counted>>
sinkVars   == <<sink, sinkOpen>>
clientVars == <<registered, reader, files, events>>
agentVars  == <<nextId, thread>>
targetVars == <<written, eof>>
vars == <<mainVars, queueVars, sinkVars, clientVars, toAgent, toClient, agentVars, fifo, targetVars>>

NoThread == [pc |-> "none", id |-> 0]
NoPacket == [type |-> "RPIC", id |-> 0, data |-> <<>>]
Idle     == [pc |-> "idle", packet |-> NoPacket]

TypeOK ==
  /\ main \in {"request", "count", "send", "idle", "running", "closed"}
  /\ requests \in 0..NumPipes /\ run \in 0..MaxRuns
  /\ queue \in [count: Int, taken: Nat, added: Nat]
  /\ counted \in [{1, 2} -> Int]
  /\ DOMAIN registered \subseteq Ids
  /\ \A id \in DOMAIN registered : registered[id] \in Pipe
  /\ reader \in [pc: {"idle", "dequeue", "write", "dead"}, packet: Packet]
  /\ sink \in Run \union {NoSink} /\ sinkOpen \in BOOLEAN
  /\ files \in [Run -> Seq(Chunk)]
  /\ events \in Seq([name: Pipe \union {NotAvailable}, chunk: Chunk, sink: Run \union {NoSink}])
  /\ toAgent \in Seq(Pipe) /\ toClient \in Seq(Packet)
  /\ nextId \in Ids
  /\ thread \in [Pipe -> [pc: {"none", "opening", "reading", "ended", "failed"}, id: Ids]]
  /\ fifo \in [Pipe -> Seq(Chunk)]
  /\ written \in [Pipe -> Nat] /\ eof \in [Pipe -> BOOLEAN]

(* The connection is made, the agent waits, the logger is constructed. *)
Init ==
  /\ main = "request" /\ requests = 0 /\ run = 0
  /\ queue = [count |-> 0, taken |-> 0, added |-> 0]
  /\ counted = [t \in {1, 2} |-> 0]
  /\ registered = <<>>
  /\ reader = Idle /\ sink = NoSink /\ sinkOpen = FALSE
  /\ files = [r \in Run |-> <<>>] /\ events = <<>>
  /\ toAgent = <<>> /\ toClient = <<>>
  /\ nextId = 0 /\ thread = [p \in Pipe |-> NoThread]
  /\ fifo = [p \in Pipe |-> <<>>]
  /\ written = [p \in Pipe |-> 0] /\ eof = [p \in Pipe |-> FALSE]

-----------------------------------------------------------------------------
(* The fuzzing thread.  An exception on the connection's thread ends the   *)
(* process.                                                                *)

At(pc) == main = pc /\ reader.pc # "dead"

(* RemoteRequestPipe: Queue.Enqueue stores the item and increases _size, a *)
(* read and a write; then the packet is sent.                              *)
RequestPipe ==
  /\ At("request") /\ requests < NumPipes
  /\ MayOverlap \/ reader.pc # "dequeue"
  /\ requests' = requests + 1
  /\ queue' = [queue EXCEPT !.added = @ + 1]
  /\ counted' = [counted EXCEPT ![1] = queue.count]
  /\ main' = "count"
  /\ UNCHANGED <<run, sinkVars, clientVars, toAgent, toClient, agentVars, fifo, targetVars>>

CountRequest ==
  /\ At("count")
  /\ queue' = [queue EXCEPT !.count = counted[1] + 1]
  /\ main' = "send"
  /\ UNCHANGED <<requests, run, counted, sinkVars, clientVars, toAgent, toClient, agentVars,
                 fifo, targetVars>>

SendRequest ==
  /\ At("send")
  /\ toAgent' = Append(toAgent, requests)
  /\ main' = IF requests = NumPipes THEN "idle" ELSE "request"
  /\ UNCHANGED <<requests, run, queueVars, sinkVars, clientVars, toClient, agentVars,
                 fifo, targetVars>>

(* A new StreamWriter empties the file it names; _sink is assigned after   *)
(* that.  FinishedFuzzRun has set _sink to null before.                    *)
OpenFile(r) ==
  /\ files' = [files EXCEPT ![r] = <<>>]
  /\ run' = r
  /\ sink' = r /\ sinkOpen' = TRUE
  /\ main' = "running"
  /\ UNCHANGED <<requests, queueVars, registered, reader, events, toAgent, toClient, agentVars,
                 fifo, targetVars>>

(* Mutant of StartingFuzzRun: the name of the file does not change from    *)
(* run to run.                                                             *)
BugSameFile == At("idle") /\ run < MaxRuns /\ OpenFile(1)

StartingFuzzRun == At("idle") /\ run < MaxRuns /\ OpenFile(run + 1)

(* _sink.Close () *)
FinishedFuzzRun ==
  /\ At("running")
  /\ sinkOpen' = FALSE
  /\ main' = "closed"
  /\ UNCHANGED <<requests, run, sink, queueVars, clientVars, toAgent, toClient, agentVars,
                 fifo, targetVars>>

(* _sink = null *)
ForgetSink ==
  /\ At("closed")
  /\ sink' = NoSink
  /\ main' = "idle"
  /\ UNCHANGED <<requests, run, sinkOpen, queueVars, clientVars, toAgent, toClient, agentVars,
                 fifo, targetVars>>

-----------------------------------------------------------------------------
(* The thread that reads the connection: ProcessBuffer takes one packet    *)
(* after the other.                                                        *)

Receive(type) ==
  /\ reader.pc = "idle" /\ toClient # <<>> /\ Head(toClient).type = type
  /\ toClient' = Tail(toClient)

GetPipeName(id) == IF id \in DOMAIN registered THEN registered[id] ELSE NotAvailable

Register(id, name) ==
  [i \in DOMAIN registered \union {id} |-> IF i = id THEN name ELSE registered[i]]

(* RPIR for a request that is known of: Dequeue begins by reading _size.   *)
(* An id that is registered already is an error of Dictionary.Add.         *)
HandlerRegisteredPipe ==
  /\ Receive("RPIR")
  /\ MayOverlap \/ main # "count"
  /\ LET id == Head(toClient).id IN
     reader' = CASE queue.count = 0          -> reader
                 [] queue.count # 0 /\ id \in DOMAIN registered -> [reader EXCEPT !.pc = "dead"]
                 [] OTHER -> [pc |-> "dequeue", packet |-> Head(toClient)]
  /\ counted' = [counted EXCEPT ![2] = queue.count]
  /\ UNCHANGED <<mainVars, queue, registered, files, events, sinkVars, toAgent, agentVars,
                 fifo, targetVars>>

(* Mutant of DequeueRequest: the slot before the head is read. *)
BugWrongSlot ==
  /\ reader.pc = "dequeue"
  /\ registered' = Register(reader.packet.id, queue.taken)
  /\ queue' = [queue EXCEPT !.count = counted[2] - 1, !.taken = @ + 1]
  /\ reader' = Idle
  /\ UNCHANGED <<mainVars, counted, files, events, sinkVars, toAgent, toClient, agentVars,
                 fifo, targetVars>>

(* Mutant of DequeueRequest: the item stays in the queue. *)
BugPeekRequest ==
  /\ reader.pc = "dequeue"
  /\ registered' = Register(reader.packet.id, queue.taken + 1)
  /\ reader' = Idle
  /\ UNCHANGED <<mainVars, queueVars, files, events, sinkVars, toAgent, toClient, agentVars,
                 fifo, targetVars>>

DequeueRequest ==
  /\ reader.pc = "dequeue"
  /\ registered' = Register(reader.packet.id, queue.taken + 1)
  /\ queue' = [queue EXCEPT !.count = counted[2] - 1, !.taken = @ + 1]
  /\ reader' = Idle
  /\ UNCHANGED <<mainVars, counted, files, events, sinkVars, toAgent, toClient, agentVars,
                 fifo, targetVars>>

(* RPIP: the PipeData event, whose handler tests _sink. *)
HandlerPipeData ==
  /\ Receive("RPIP")
  /\ LET packet == Head(toClient)
         name   == GetPipeName(packet.id) IN
     /\ events' = Append(events, [name |-> name, chunk |-> packet.data[1], sink |-> sink])
     /\ reader' = IF name # NotAvailable /\ sink # NoSink
                  THEN [pc |-> "write", packet |-> packet] ELSE reader
  /\ UNCHANGED <<mainVars, queueVars, registered, files, sinkVars, toAgent, agentVars,
                 fifo, targetVars>>

(* It reads _sink again to write: null, or a file closed meanwhile, is an  *)
(* exception nobody handles.                                               *)
WriteSink ==
  /\ reader.pc = "write"
  /\ IF sink # NoSink /\ sinkOpen
     THEN /\ files' = [files EXCEPT ![sink] = Append(@, reader.packet.data[1])]
          /\ reader' = Idle
     ELSE /\ reader' = [reader EXCEPT !.pc = "dead"]
          /\ UNCHANGED files
  /\ UNCHANGED <<mainVars, queueVars, registered, events, sinkVars, toAgent, toClient, agentVars,
                 fifo, targetVars>>

HandlerPipeClosed ==
  /\ Receive("RPIC")
  /\ registered' = [i \in DOMAIN registered \ {Head(toClient).id} |-> registered[i]]
  /\ UNCHANGED <<mainVars, queueVars, reader, files, events, sinkVars, toAgent, agentVars,
                 fifo, targetVars>>

-----------------------------------------------------------------------------
(* The agent.  send_packet holds a mutex for the whole packet.             *)

SendPacket(type, id, data) ==
  toClient' = Append(toClient, [type |-> type, id |-> id, data |-> data])

(* handler_request_pipe: RPIR, then the thread. *)
HandlerRequestPipe ==
  /\ toAgent # <<>>
  /\ toAgent' = Tail(toAgent)
  /\ SendPacket("RPIR", nextId, <<>>)
  /\ thread' = [thread EXCEPT ![Head(toAgent)] = [pc |-> "opening", id |-> nextId]]
  /\ nextId' = (nextId + 1) % 65536
  /\ UNCHANGED <<mainVars, queueVars, sinkVars, clientVars, fifo, targetVars>>

(* open() returns when the target opens the pipe for writing. *)
OpenPipe(p) ==
  /\ thread[p].pc = "opening"
  /\ thread' = [thread EXCEPT ![p].pc = "reading"]
  /\ UNCHANGED <<mainVars, queueVars, sinkVars, clientVars, toAgent, toClient, nextId,
                 fifo, targetVars>>

(* An error of mkfifo or open: the thread returns at once. *)
OpenFails(p) ==
  /\ thread[p].pc = "opening"
  /\ thread' = [thread EXCEPT ![p].pc = "failed"]
  /\ UNCHANGED <<mainVars, queueVars, sinkVars, clientVars, toAgent, toClient, nextId,
                 fifo, targetVars>>

ReadPipe(p) ==
  /\ thread[p].pc = "reading" /\ fifo[p] # <<>>
  /\ SendPacket("RPIP", thread[p].id, <<Head(fifo[p])>>)
  /\ fifo' = [fifo EXCEPT ![p] = Tail(@)]
  /\ UNCHANGED <<mainVars, queueVars, sinkVars, clientVars, toAgent, agentVars, targetVars>>

(* Mutant of EndOfPipe: the end is taken for reached while data is left. *)
BugEndsEarly(p) ==
  /\ thread[p].pc = "reading" /\ eof[p]
  /\ SendPacket("RPIC", thread[p].id, <<>>)
  /\ thread' = [thread EXCEPT ![p].pc = "ended"]
  /\ UNCHANGED <<mainVars, queueVars, sinkVars, clientVars, toAgent, nextId, fifo, targetVars>>

(* read() returns 0: RPIC, and the thread takes itself off the list. *)
EndOfPipe(p) ==
  /\ thread[p].pc = "reading" /\ fifo[p] = <<>> /\ eof[p]
  /\ SendPacket("RPIC", thread[p].id, <<>>)
  /\ thread' = [thread EXCEPT ![p].pc = "ended"]
  /\ UNCHANGED <<mainVars, queueVars, sinkVars, clientVars, toAgent, nextId, fifo, targetVars>>

-----------------------------------------------------------------------------
(* The target (external): it writes and, when it ends, closes the pipe.    *)

TargetWrites(p) ==
  /\ thread[p].pc = "reading" /\ ~eof[p] /\ written[p] < MaxChunks
  /\ written' = [written EXCEPT ![p] = @ + 1]
  /\ fifo' = [fifo EXCEPT ![p] = Append(@, [pipe |-> p, nr |-> written[p] + 1])]
  /\ UNCHANGED <<mainVars, queueVars, sinkVars, clientVars, toAgent, toClient, agentVars, eof>>

TargetCloses(p) ==
  /\ thread[p].pc = "reading" /\ ~eof[p]
  /\ eof' = [eof EXCEPT ![p] = TRUE]
  /\ UNCHANGED <<mainVars, queueVars, sinkVars, clientVars, toAgent, toClient, agentVars,
                 fifo, written>>

-----------------------------------------------------------------------------
Main   == RequestPipe \/ CountRequest \/ SendRequest
            \/ StartingFuzzRun \/ FinishedFuzzRun \/ ForgetSink
Reader == HandlerRegisteredPipe \/ DequeueRequest \/ HandlerPipeData \/ WriteSink
            \/ HandlerPipeClosed
PipeThread(p) == OpenPipe(p) \/ OpenFails(p) \/ ReadPipe(p) \/ EndOfPipe(p)

Next == Main \/ Reader \/ HandlerRequestPipe
          \/ \E p \in Pipe : PipeThread(p) \/ TargetWrites(p) \/ TargetCloses(p)

Spec == Init /\ [][Next]_vars

(* Threads that can go on do; the target may write or not.                 *)
FairSpec ==
  /\ Spec
  /\ WF_vars(Main) /\ WF_vars(Reader) /\ WF_vars(HandlerRequestPipe)
  /\ \A p \in Pipe : WF_vars(ReadPipe(p) \/ EndOfPipe(p))

-----------------------------------------------------------------------------
Received == {events[i].chunk : i \in DOMAIN events}
Logged   == UNION {{files[r][i] : i \in DOMAIN files[r]} : r \in Run}

(* PipeData names the pipe the data was read from: the n-th RPIR answers   *)
(* the n-th request, and no data overtakes the RPIR before it or the RPIC  *)
(* behind it (HandlerRegisteredPipe, HandlerPipeData, HandlerPipeClosed).  *)
DataAttributed == \A i \in DOMAIN events : events[i].name = events[i].chunk.pipe

(* A message the logger received with a file open is in a file, or about   *)
(* to be written, or the process ended over it: FinishedFuzzRun closed     *)
(* _sink between the test and the use in HandlerPipeData.                  *)
LoggedUnlessDead ==
  \A i \in DOMAIN events :
     \/ events[i].sink = NoSink
     \/ events[i].chunk \in Logged
     \/ reader.pc \in {"write", "dead"} /\ reader.packet.data[1] = events[i].chunk

(* What the target has written to an opened pipe is read to its end and    *)
(* delivered, also after the target has closed the pipe, unless the        *)
(* client's process has ended (thread_request_pipe, CBRead).               *)
DataDelivered ==
  \A p \in Pipe : \A n \in 1..MaxChunks :
    written[p] >= n ~> ([pipe |-> p, nr |-> n] \in Received \/ reader.pc = "dead")
===============================================================================
