------------------------------ MODULE AgentPipes ------------------------------
(***************************************************************************)
(* The agent's process: one main thread that serves one connection after   *)
(* the other, a thread for every pipe a client has asked for, and the list *)
(* request_pipe_threads in which main enters them and from which they take *)
(* themselves.  Pipe threads outlive the connection they were started for. *)
(*                                                                         *)
(* The list is memory: nodes with a next pointer, allocated and freed.     *)
(* Nothing locks it, so the reads and writes of start_thread and           *)
(* delete_running_thread_info are separate steps.  The k-th request that   *)
(* the agent handles has thread k and node k.                              *)
(***************************************************************************)
EXTENDS Integers, Sequences, FiniteSets

CONSTANTS
  MayOverlap,      \* operations on the list may overlap
  MaxRequests,     \* bound: PIPE requests
  MaxConnections,  \* bound: connections, one after the other
  MaxChunks        \* bound: chunks the target writes to its pipes

ASSUME AgentAssumption ==
  /\ MayOverlap \in BOOLEAN
  /\ MaxRequests \in Nat /\ MaxConnections \in Nat /\ MaxChunks \in Nat

Thread     == 1..MaxRequests
Connection == 1..MaxConnections
Null       == 0          \* NULL, also a connection_fd that is closed
Garbage    == -1         \* a pointer that was never assigned
Pointer    == Thread \union {Null}
MaxId      == 65535
Ids        == 0..MaxId   \* int16_t next_pipe_id
Id         == 0..MaxRequests   \* those in use
Packet     == [type: {"RPIR", "RPIP", "RPIC"}, pipe: Thread]

VARIABLES
  alive,     \* the process has not been ended by SIGPIPE
  main,      \* where main is
  fd,        \* connection_fd: the connection it stands for
  connected, \* the client of that connection has not closed it
  pending,   \* requests under way on it
  clients,   \* connections there have been
  received,  \* what arrived at the client of each connection, for each id
  nextId,    \* next_pipe_id
  started,   \* requests handled
  tail,      \* start_thread: current_thread_info behind its loop
  head,      \* request_pipe_threads
  next,      \* the next field of each node
  memory,    \* each node: "new", "allocated", "freed"
  thread,    \* each pipe thread: its place, its id and its local variables
  chunks     \* chunks sent

connVars == <<fd, connected, pending, clients>>
listVars == <<head, next, memory>>
mainVars == <<main, nextId, started, tail>>
vars == <<alive, connVars, received, mainVars, listVars, thread, chunks>>

ThreadPc == {"none", "opening", "reading", "destroy", "unlink", "free", "failed", "lost", "ended"}

TypeOK ==
  /\ alive \in BOOLEAN /\ connected \in BOOLEAN
  /\ main \in {"accept", "receive", "start", "create", "link", "store"}
  /\ fd \in Connection \union {Null} /\ pending \in 0..MaxRequests /\ clients \in 0..MaxConnections
  /\ received \in [Connection -> [Id -> Seq(Packet)]]
  /\ nextId \in Ids /\ started \in 0..MaxRequests
  /\ tail \in Pointer /\ head \in Pointer
  /\ next \in [Thread -> Pointer] /\ memory \in [Thread -> {"new", "allocated", "freed"}]
  /\ thread \in [Thread -> [pc: ThreadPc, id: Ids, info: Thread \union {Garbage}, prev: Pointer]]
  /\ chunks \in 0..MaxChunks

Init ==
  /\ alive = TRUE /\ main = "accept"
  /\ fd = Null /\ connected = FALSE /\ pending = 0 /\ clients = 0
  /\ received = [c \in Connection |-> [i \in Id |-> <<>>]]
  /\ nextId = 0 /\ started = 0 /\ tail = Null
  /\ head = Null /\ next = [n \in Thread |-> Null] /\ memory = [n \in Thread |-> "new"]
  /\ thread = [k \in Thread |-> [pc |-> "none", id |-> 0, info |-> Garbage, prev |-> Null]]
  /\ chunks = 0

-----------------------------------------------------------------------------
(* Clients (external), while there is an agent.                            *)

RequestPipe ==
  /\ alive /\ connected /\ started + pending < MaxRequests
  /\ pending' = pending + 1
  /\ UNCHANGED <<alive, fd, connected, clients, received, mainVars, listVars, thread, chunks>>

Disconnect ==
  /\ alive /\ connected
  /\ connected' = FALSE
  /\ UNCHANGED <<alive, fd, pending, clients, received, mainVars, listVars, thread, chunks>>

-----------------------------------------------------------------------------
(* send_packet, to whatever connection_fd stands for by now.  A closed     *)
(* descriptor is an error nobody looks at.  When the client has closed the *)
(* connection and main has not noticed yet the packet is lost or, nobody   *)
(* having asked to ignore SIGPIPE, ends the process.                       *)
Send(type, id, k) ==
  IF fd # Null /\ connected
  THEN /\ received' = [received EXCEPT ![fd][id] = Append(@, [type |-> type, pipe |-> k])]
       /\ UNCHANGED alive
  ELSE /\ UNCHANGED received
       /\ alive' \in IF fd = Null THEN {TRUE} ELSE BOOLEAN

(* The operations of the list; with MayOverlap they may meet. *)
ListInUse == main \in {"create", "link"} \/ \E k \in Thread : thread[k].pc \in {"unlink", "free"}
MayUseList == MayOverlap \/ ~ListInUse

-----------------------------------------------------------------------------
(* The main thread.                                                        *)

Accepted(id) ==
  /\ alive /\ main = "accept" /\ clients < MaxConnections
  /\ clients' = clients + 1 /\ fd' = clients + 1
  /\ connected' = TRUE /\ pending' = 0
  /\ nextId' = id
  /\ main' = "receive"
  /\ UNCHANGED <<alive, received, started, tail, listVars, thread, chunks>>

(* Mutant of Accept: every connection begins with fresh ids. *)
BugNewIds == Accepted(0)

Accept == Accepted(nextId)

(* Mutant of ConnectionEnds: a read of 0 bytes does not end the loop. *)
BugReadsOn ==
  /\ alive /\ main = "receive" /\ ~connected /\ pending = 0
  /\ UNCHANGED vars

(* The read that returns 0, close and the next turn of the accept loop. *)
ConnectionEnds ==
  /\ alive /\ main = "receive" /\ ~connected /\ pending = 0
  /\ fd' = Null
  /\ main' = "accept"
  /\ UNCHANGED <<alive, connected, pending, clients, received, nextId, started, tail, listVars,
                 thread, chunks>>

(* handler_request_pipe, up to start_thread: the id and RPIR. *)
HandlerRequestPipe ==
  /\ alive /\ main = "receive" /\ pending > 0
  /\ pending' = pending - 1
  /\ started' = started + 1
  /\ thread' = [thread EXCEPT ![started + 1].id = nextId]
  /\ nextId' = (nextId + 1) % 65536
  /\ Send("RPIR", nextId, started + 1)
  /\ main' = "start"
  /\ UNCHANGED <<fd, connected, clients, tail, listVars, chunks>>

(* Nodes that can be reached from the head: they are in every set that has *)
(* the head and, with a node, its next one.                                *)
Closed(S) == head \in S /\ \A m \in S \intersect Thread : next[m] \in S
Listed    == {k \in Thread : \A S \in SUBSET Pointer : Closed(S) => k \in S}

(* start_thread: the loop to the end of the list. *)
FindTail ==
  /\ alive /\ main = "start" /\ MayUseList
  /\ tail' = IF head = Null THEN Null
             ELSE CHOOSE n \in Listed : next[n] = Null
  /\ main' = "create"
  /\ UNCHANGED <<alive, connVars, received, nextId, started, listVars, thread, chunks>>

Create(n) ==
  /\ alive /\ main = "create"
  /\ memory' = [memory EXCEPT ![started] = "allocated"]
  /\ next' = [next EXCEPT ![started] = n]
  /\ thread' = [thread EXCEPT ![started].pc = "opening"]
  /\ main' = "link"
  /\ UNCHANGED <<alive, connVars, received, nextId, started, tail, head, chunks>>

(* Mutant of CreateThread: next is what malloc left there. *)
BugNextNotSet == Create(Garbage)

(* malloc, next = NULL, pthread_create: the thread runs from here on. *)
CreateThread == Create(Null)

LinkBehind(n) ==
  /\ alive /\ main = "link"
  /\ IF n = Null THEN head' = started /\ UNCHANGED next
     ELSE next' = [next EXCEPT ![n] = started] /\ UNCHANGED head
  /\ main' = "store" /\ tail' = Null
  /\ UNCHANGED <<alive, connVars, received, nextId, started, memory, thread, chunks>>

(* Mutant of Link: the new node always becomes the first. *)
BugLinksFirst == LinkBehind(Null)

Link == LinkBehind(tail)

(* thread_info->request_pipe_running_thread_info = ... *)
StoreInfo ==
  /\ alive /\ main = "store"
  /\ thread' = [thread EXCEPT ![started].info = started]
  /\ main' = "receive"
  /\ UNCHANGED <<alive, connVars, received, nextId, started, tail, listVars, chunks>>

-----------------------------------------------------------------------------
(* thread_request_pipe, the thread of pipe k.                              *)

At(k, pc) == alive /\ thread[k].pc = pc
Goto(k, pc) == thread' = [thread EXCEPT ![k].pc = pc]

OpenPipe(k) ==
  /\ At(k, "opening") /\ Goto(k, "reading")
  /\ UNCHANGED <<alive, connVars, received, mainVars, listVars, chunks>>

(* mkfifo or open fail: the thread returns, without destroy_callback. *)
OpenFails(k) ==
  /\ At(k, "opening") /\ Goto(k, "failed")
  /\ UNCHANGED <<alive, connVars, received, mainVars, listVars, chunks>>

ReadPipe(k) ==
  /\ At(k, "reading") /\ chunks < MaxChunks
  /\ Send("RPIP", thread[k].id, k)
  /\ chunks' = chunks + 1
  /\ UNCHANGED <<connVars, mainVars, listVars, thread>>

EndOfPipe(k) ==
  /\ At(k, "reading")
  /\ Send("RPIC", thread[k].id, k)
  /\ Goto(k, "destroy")
  /\ UNCHANGED <<connVars, mainVars, listVars, chunks>>

(* delete_running_thread_info: the search.  A victim that is not in the    *)
(* list, such as one that main has not stored yet, is given up.            *)
FindVictim(k) ==
  /\ At(k, "destroy") /\ MayUseList
  /\ LET victim == thread[k].info IN
     IF victim \in Listed
     THEN thread' = [thread EXCEPT ![k].pc = "unlink",
                       ![k].prev = IF head = victim THEN Null
                                   ELSE CHOOSE n \in Listed : next[n] = victim]
     ELSE Goto(k, "lost")
  /\ UNCHANGED <<alive, connVars, received, mainVars, listVars, chunks>>

(* *first_element = ..., or prev_element->next = current_element->next *)
Unlink(k) ==
  /\ At(k, "unlink")
  /\ LET prev == thread[k].prev
         cur  == thread[k].info IN
     IF prev = Null THEN head' = next[cur] /\ UNCHANGED next
     ELSE next' = [next EXCEPT ![prev] = next[cur]] /\ UNCHANGED head
  /\ thread' = [thread EXCEPT ![k].pc = "free", ![k].prev = Null]
  /\ UNCHANGED <<alive, connVars, received, mainVars, memory, chunks>>

(* simple_free; the thread exits. *)
FreeNode(k) ==
  /\ At(k, "free") /\ Goto(k, "ended")
  /\ memory' = [memory EXCEPT ![thread[k].info] = "freed"]
  /\ UNCHANGED <<alive, connVars, received, mainVars, head, next, chunks>>

-----------------------------------------------------------------------------
Main == Accept \/ ConnectionEnds \/ HandlerRequestPipe
          \/ FindTail \/ CreateThread \/ Link \/ StoreInfo
Destroy(k) == FindVictim(k) \/ Unlink(k) \/ FreeNode(k)
PipeThread(k) == OpenPipe(k) \/ OpenFails(k) \/ ReadPipe(k) \/ EndOfPipe(k) \/ Destroy(k)

Next == Main \/ RequestPipe \/ Disconnect \/ \E k \in Thread : PipeThread(k)

Spec == Init /\ [][Next]_vars

(* Main goes on when it can, and so does one of the threads that end;      *)
(* clients and the target do what they like.                               *)
FairSpec == Spec /\ WF_vars(Main) /\ WF_vars(\E k \in Thread : Destroy(k))

-----------------------------------------------------------------------------
(* The list, whenever nobody is changing it: every node that can be        *)
(* reached is allocated, and the nodes are those of the threads that have  *)
(* not ended, and of those that ended without finding theirs.  A victim is *)
(* detached and freed, nobody else is (start_thread,                       *)
(* delete_running_thread_info).                                            *)
ListIntact ==
  ~ListInUse =>
    Listed = {k \in Thread : memory[k] = "allocated"}
    /\ \A k \in Listed : thread[k].pc # "ended"

(* In what one client receives an id stands for one pipe, also when pipes  *)
(* of earlier connections still send: RPIR is the first packet of an id    *)
(* the client has asked for, nothing comes behind RPIC, and data under     *)
(* this id comes from the pipe RPIR was sent for (handler_request_pipe,    *)
(* thread_request_pipe, next_pipe_id).                                     *)
IdsStandForOnePipe ==
  \A c \in Connection, id \in Id : LET r == received[c][id] IN
    \A i, j \in DOMAIN r : i < j =>
      /\ r[i].pipe = r[j].pipe
      /\ r[j].type # "RPIR" /\ r[i].type # "RPIC"

(* When a client has gone the agent serves the next one, unless SIGPIPE    *)
(* ended it: no pipe thread keeps main from accepting (receive_packet_loop *)
(* returns, main).                                                         *)
ServesNextClient ==
  (fd # Null /\ ~connected) ~> (main = "accept" \/ ~alive)
===============================================================================
