--------------------------- MODULE AgentPipesProofs ---------------------------
(***************************************************************************)
(* Proofs about AgentPipes, for any number of requests, connections and    *)
(* chunks.  What one client receives under an id belongs to one pipe       *)
(* whatever happens to the list.  The list itself is intact when its       *)
(* operations do not overlap: it holds its nodes in increasing order.      *)
(***************************************************************************)
EXTENDS AgentPipes, NaturalsFacts

-----------------------------------------------------------------------------
(* What the packets depend on, with and without overlap.                   *)

Closing == {"destroy", "unlink", "free", "lost", "ended"}

CoreType ==
  /\ main \in {"accept", "receive", "start", "create", "link", "store"}
  /\ received \in [Connection -> [Id -> Seq(Packet)]]
  /\ fd \in Connection \union {Null} /\ clients \in 0..MaxConnections
  /\ connected \in BOOLEAN /\ alive \in BOOLEAN
  /\ pending \in Nat /\ started \in Nat /\ started + pending <= MaxRequests
  /\ nextId = started
  /\ chunks \in 0..MaxChunks
  /\ head \in Pointer /\ next \in [Thread -> Pointer]
  /\ thread \in [Thread -> [pc: ThreadPc, id: Ids, info: Thread \union {Garbage}, prev: Pointer]]

(* Requests have the ids 0, 1, ...; a thread runs once it is created. *)
ThreadInv ==
  /\ main \in {"start", "create", "link", "store"} => started >= 1
  /\ \A k \in Thread :
       /\ k <= started => thread[k].id = k - 1
       /\ thread[k].info \in {k, Garbage}
       /\ thread[k].pc = "none" <=>
            k > started \/ (k = started /\ main \in {"start", "create"})
       /\ thread[k].pc \in {"unlink", "free"} => thread[k].info = k

PacketInv ==
  \A c \in Connection, id \in Id : LET r == received[c][id] IN
    \A i \in 1..Len(r) :
      /\ r[i].pipe = id + 1 /\ id + 1 <= started
      /\ r[i].type = "RPIR" => i = 1
      /\ r[i].type = "RPIC" => i = Len(r) /\ thread[id + 1].pc \in Closing

CoreInv == CoreType /\ ThreadInv /\ PacketInv

-----------------------------------------------------------------------------
(* Reachability, with and without overlap.                                 *)

(* What the head or a listed node points to is NULL or listed. *)
LEMMA ListedClosed ==
  ASSUME head \in Pointer, next \in [Thread -> Pointer]
  PROVE  /\ head = Null \/ head \in Listed
         /\ \A m \in Listed : next[m] = Null \/ next[m] \in Listed
BY DEF Listed, Closed, Pointer, Null, Thread

(* A listed node that is not the first has a listed one before it. *)
LEMMA Predecessor ==
  ASSUME head \in Pointer, next \in [Thread -> Pointer],
         NEW victim \in Listed, head # victim
  PROVE  \E n \in Listed : next[n] = victim
<1> SUFFICES ASSUME \A n \in Listed : next[n] # victim PROVE FALSE
  OBVIOUS
<1> DEFINE S == {p \in Pointer : (p = Null \/ p \in Listed) /\ p # victim}
<1>1. victim \in Thread /\ Null \notin Thread /\ Listed \subseteq Thread
  BY DEF Listed, Thread, Null
<1>2. S \in SUBSET Pointer
  OBVIOUS
<1>3. head \in S
  BY ListedClosed
<1>4. ASSUME NEW m \in S \intersect Thread PROVE next[m] \in S
  BY <1>1, ListedClosed DEF Pointer
<1>5. Closed(S)
  BY <1>3, <1>4 DEF Closed
<1>6. victim \in S
  BY <1>2, <1>5 DEF Listed
<1> QED BY <1>6

-----------------------------------------------------------------------------
(* What the client receives.                                               *)

(* One call of send_packet: at most one sequence grows, by one packet. *)
LEMMA SendReceived ==
  ASSUME CoreType, NEW type \in {"RPIR", "RPIP", "RPIC"}, NEW id \in Id, NEW k \in Thread,
         Send(type, id, k)
  PROVE  /\ received' \in [Connection -> [Id -> Seq(Packet)]] /\ alive' \in BOOLEAN
         /\ \A c \in Connection, i \in Id :
              \/ received'[c][i] = received[c][i]
              \/ i = id /\ received'[c][i] = Append(received[c][i], [type |-> type, pipe |-> k])
<1> DEFINE p == [type |-> type, pipe |-> k]
<1>1. p \in Packet
  BY DEF Packet
<1>2. CASE fd # Null /\ connected
  <2>1. fd \in Connection
    BY <1>2 DEF CoreType
  <2>2. Append(received[fd][id], p) \in Seq(Packet)
    BY <1>1, <2>1 DEF CoreType
  <2>3. received' = [received EXCEPT ![fd][id] = Append(received[fd][id], p)] /\ alive' = alive
    BY <1>2 DEF Send
  <2> QED BY <2>1, <2>2, <2>3 DEF CoreType
<1>3. CASE ~(fd # Null /\ connected)
  BY <1>3 DEF Send, CoreType
<1> QED BY <1>2, <1>3

(* Steps that send nothing keep PacketInv. *)
LEMMA QuietPackets ==
  ASSUME CoreInv, received' = received, started' = started,
         \A k \in Thread : thread[k].pc \in Closing => thread'[k].pc \in Closing
  PROVE  PacketInv'
<1> SUFFICES ASSUME NEW c \in Connection, NEW id \in Id, NEW i \in 1..Len(received[c][id])
             PROVE  LET r == received[c][id] IN
                    /\ r[i].pipe = id + 1 /\ id + 1 <= started
                    /\ r[i].type = "RPIR" => i = 1
                    /\ r[i].type = "RPIC" => i = Len(r) /\ thread'[id + 1].pc \in Closing
  BY DEF PacketInv
<1>1. id + 1 <= started
  BY DEF CoreInv, PacketInv
<1>2. id + 1 \in Thread
  BY <1>1, AgentAssumption DEF CoreInv, CoreType, Id, Thread
<1> QED BY <1>1, <1>2 DEF CoreInv, PacketInv

(* Steps in which a pipe thread sends a packet under its id keep it. *)
LEMMA PipeThreadPackets ==
  ASSUME CoreInv, NEW k \in Thread, thread[k].pc = "reading",
         NEW type \in {"RPIP", "RPIC"}, Send(type, thread[k].id, k), started' = started,
         \A j \in Thread \ {k} : thread'[j].pc = thread[j].pc,
         type = "RPIC" => thread'[k].pc \in Closing,
         type = "RPIP" => thread'[k].pc = "reading"
  PROVE  received' \in [Connection -> [Id -> Seq(Packet)]] /\ alive' \in BOOLEAN /\ PacketInv'
<1> DEFINE p == [type |-> type, pipe |-> k]
<1>1. k <= started /\ thread[k].id = k - 1 /\ k - 1 \in Id
  <2>1. started \in Nat /\ k \in 1..MaxRequests
    BY DEF CoreInv, CoreType, Thread
  <2>2. ~(k > started)
    BY DEF CoreInv, ThreadInv
  <2>3. thread[k].id = k - 1
    BY <2>1, <2>2 DEF CoreInv, ThreadInv
  <2> QED BY <2>1, <2>2, <2>3, AgentAssumption DEF Id
<1>2. /\ received' \in [Connection -> [Id -> Seq(Packet)]] /\ alive' \in BOOLEAN
      /\ \A c \in Connection, i \in Id :
           \/ received'[c][i] = received[c][i]
           \/ i = k - 1 /\ received'[c][i] = Append(received[c][i], p)
  BY <1>1, SendReceived DEF CoreInv
<1>3. ASSUME NEW c \in Connection, NEW id \in Id, NEW i \in 1..Len(received'[c][id])
      PROVE  LET r == received'[c][id] IN
             /\ r[i].pipe = id + 1 /\ id + 1 <= started
             /\ r[i].type = "RPIR" => i = 1
             /\ r[i].type = "RPIC" => i = Len(r) /\ thread'[id + 1].pc \in Closing
  <2> DEFINE r == received[c][id]
  <2>0. r \in Seq(Packet)
    BY DEF CoreInv, CoreType
  <2>1. \A j \in 1..Len(r) : /\ r[j].pipe = id + 1 /\ id + 1 <= started
                             /\ r[j].type = "RPIR" => j = 1
                             /\ r[j].type = "RPIC" => j = Len(r) /\ thread[id + 1].pc \in Closing
    BY DEF CoreInv, PacketInv
  <2>2. CASE received'[c][id] = r
    <3>1. id + 1 \in Thread
      BY <2>1, <2>2, AgentAssumption DEF CoreInv, CoreType, Id, Thread
    <3>2. thread[id + 1].pc \in Closing => thread'[id + 1].pc \in Closing
      BY <3>1 DEF Closing
    <3> QED BY <2>1, <2>2, <3>2
  <2>3. CASE id = k - 1 /\ received'[c][id] = Append(r, p)
    <3>1. \A j \in 1..Len(r) : r[j].type # "RPIC"
      BY <2>1, <2>3, SMTT(30) DEF Closing, Thread
    <3>2. id + 1 = k
      BY <2>3 DEF Thread
    <3>3. CASE i \in 1..Len(r)
      <4>1. received'[c][id][i] = r[i]
        BY <2>0, <2>3, <3>3
      <4> QED BY <2>1, <3>1, <3>3, <4>1
    <3>4. CASE i = Len(r) + 1
      <4>1. received'[c][id][i] = p /\ Len(received'[c][id]) = i
        BY <2>0, <2>3, <3>4
      <4> QED BY <1>1, <3>2, <4>1
    <3> QED BY <2>0, <2>3, <3>3, <3>4
  <2> QED BY <1>2, <2>2, <2>3
<1>4. PacketInv'
  BY <1>3 DEF PacketInv
<1> QED BY <1>2, <1>4

(* The ids of int16_t, as unsigned numbers. *)
LEMMA IdsAre == \A n \in Nat : n <= 65535 => n \in Ids
<1>1. MaxId \in Nat /\ \A n \in Nat : n <= 65535 => n <= MaxId
  BY DEF MaxId
<1> QED BY <1>1 DEF Ids

(* No packet has been sent at the start. *)
LEMMA CoreInit == Init => CoreInv
<1> SUFFICES ASSUME Init PROVE CoreInv
  OBVIOUS
<1> USE AgentAssumption DEF Init, Null, Garbage
<1>1. CoreType
  <2>1. received \in [Connection -> [Id -> Seq(Packet)]]
    OBVIOUS
  <2>2. thread \in [Thread -> [pc: ThreadPc, id: Ids, info: Thread \union {Garbage}, prev: Pointer]]
    BY IdsAre DEF ThreadPc, Pointer
  <2>3. next \in [Thread -> Pointer] /\ head \in Pointer /\ fd \in Connection \union {Null}
    BY DEF Pointer
  <2>4. chunks \in 0..MaxChunks /\ clients \in 0..MaxConnections
    OBVIOUS
  <2>5. alive \in BOOLEAN /\ connected \in BOOLEAN
    OBVIOUS
  <2>6. main = "accept" /\ pending = 0 /\ started = 0 /\ nextId = 0
    OBVIOUS
  <2> HIDE DEF Init
  <2> QED BY <2>1, <2>2, <2>3, <2>4, <2>5, <2>6 DEF CoreType
<1>2. ThreadInv
  BY DEF ThreadInv, Thread
<1>3. PacketInv
  BY DEF PacketInv
<1> QED BY <1>1, <1>2, <1>3 DEF CoreInv

(* handler_request_pipe gives a new id, under which nothing was sent. *)
LEMMA CoreRequest ==
  ASSUME CoreInv, MaxRequests < 65536, HandlerRequestPipe
  PROVE  CoreInv'
<1> DEFINE k == started + 1
           p == [type |-> "RPIR", pipe |-> k]
<1>1. k \in Thread /\ started \in Id /\ k <= MaxRequests /\ started \in Nat
  BY AgentAssumption DEF HandlerRequestPipe, CoreInv, CoreType, Thread, Id
<1>2. nextId' = k /\ started' = k /\ nextId = started
  <2>1. nextId = started /\ started' = k /\ nextId' = (nextId + 1) % 65536
    BY DEF HandlerRequestPipe, CoreInv, CoreType
  <2>2. k % 65536 = k
    BY <1>1, AgentAssumption
  <2> QED BY <2>1, <2>2
<1>3. /\ received' \in [Connection -> [Id -> Seq(Packet)]] /\ alive' \in BOOLEAN
      /\ \A c \in Connection, i \in Id :
           \/ received'[c][i] = received[c][i]
           \/ i = started /\ received'[c][i] = Append(received[c][i], p)
  BY <1>1, <1>2, SendReceived DEF HandlerRequestPipe, CoreInv
<1>4. thread' = [thread EXCEPT ![k].id = started]
  BY <1>2 DEF HandlerRequestPipe
<1>5. CoreType'
  <2>0. started \in Nat /\ started <= 65535
    BY <1>1, AgentAssumption
  <2>1. started \in Ids
    BY <2>0, IdsAre
  <2>2. thread' \in [Thread -> [pc: ThreadPc, id: Ids, info: Thread \union {Garbage}, prev: Pointer]]
    BY <1>1, <1>4, <2>1, SMTT(30) DEF CoreInv, CoreType
  <2> QED BY <1>1, <1>2, <1>3, <2>2 DEF HandlerRequestPipe, CoreInv, CoreType, listVars
<1>6. ThreadInv'
  <2>1. main' = "start" /\ main = "receive"
    BY DEF HandlerRequestPipe
  <2>2. ASSUME NEW j \in Thread
        PROVE  /\ thread'[j].pc = thread[j].pc /\ thread'[j].info = thread[j].info
               /\ thread'[j].id = IF j = k THEN started ELSE thread[j].id
    BY <1>1, <1>4 DEF CoreInv, CoreType
  <2>3. ASSUME NEW j \in Thread
        PROVE  /\ j <= k => thread'[j].id = j - 1
               /\ thread'[j].pc = "none" <=> j > k \/ j = k
    BY <1>1, <2>1, <2>2 DEF CoreInv, ThreadInv, Thread
  <2> QED BY <1>1, <1>2, <2>1, <2>2, <2>3 DEF CoreInv, ThreadInv
<1>7. ASSUME NEW c \in Connection, NEW id \in Id, NEW i \in 1..Len(received'[c][id])
      PROVE  LET r == received'[c][id] IN
             /\ r[i].pipe = id + 1 /\ id + 1 <= started'
             /\ r[i].type = "RPIR" => i = 1
             /\ r[i].type = "RPIC" => i = Len(r) /\ thread'[id + 1].pc \in Closing
  <2> DEFINE r == received[c][id]
  <2>1. /\ r \in Seq(Packet)
        /\ \A j \in 1..Len(r) : /\ r[j].pipe = id + 1 /\ id + 1 <= started
                                /\ r[j].type = "RPIR" => j = 1
                                /\ r[j].type = "RPIC" => j = Len(r) /\ thread[id + 1].pc \in Closing
    BY DEF CoreInv, CoreType, PacketInv
  <2>2. CASE received'[c][id] = r
    <3>1. id + 1 <= started /\ id + 1 \in Thread
      BY <1>1, <2>1, <2>2, AgentAssumption DEF Id, Thread
    <3>2. thread'[id + 1].pc = thread[id + 1].pc
      BY <1>1, <1>4, <3>1 DEF CoreInv, CoreType
    <3> QED BY <1>1, <1>2, <2>1, <2>2, <3>1, <3>2 DEF Id
  <2>3. CASE id = started /\ received'[c][id] = Append(r, p)
    <3>1. Len(r) = 0
      BY <1>1, <2>1, <2>3
    <3>2. i = 1 /\ received'[c][id][i] = p
      BY <2>1, <2>3, <3>1
    <3> QED BY <1>1, <1>2, <2>3, <3>2
  <2> QED BY <1>3, <2>2, <2>3
<1>8. PacketInv'
  BY <1>7 DEF PacketInv
<1> QED BY <1>5, <1>6, <1>8 DEF CoreInv

(* The other steps of the main thread and the client's. *)
LEMMA CoreMain ==
  ASSUME CoreInv, Accept \/ ConnectionEnds \/ FindTail \/ CreateThread \/ Link \/ StoreInfo
                  \/ RequestPipe \/ Disconnect
  PROVE  CoreInv'
<1> USE AgentAssumption DEF CoreInv, mainVars, connVars, listVars
<1>1. CASE Accept
  <2>1. CoreType'
    BY <1>1 DEF Accept, Accepted, CoreType, Connection
  <2>2. ThreadInv'
    BY <1>1 DEF Accept, Accepted, ThreadInv
  <2>3. PacketInv'
    BY <1>1, QuietPackets DEF Accept, Accepted
  <2> QED BY <2>1, <2>2, <2>3
<1>2. CASE ConnectionEnds
  <2>1. CoreType'
    BY <1>2 DEF ConnectionEnds, CoreType
  <2>2. ThreadInv'
    BY <1>2 DEF ConnectionEnds, ThreadInv
  <2>3. PacketInv'
    BY <1>2, QuietPackets DEF ConnectionEnds
  <2> QED BY <2>1, <2>2, <2>3
<1>3. CASE FindTail
  <2>1. CoreType'
    BY <1>3 DEF FindTail, CoreType
  <2>2. ThreadInv'
    BY <1>3 DEF FindTail, ThreadInv
  <2>3. PacketInv'
    BY <1>3, QuietPackets DEF FindTail
  <2> QED BY <2>1, <2>2, <2>3
<1>4. CASE CreateThread
  <2>0. started \in Thread /\ thread[started].pc = "none" /\ main = "create" /\ main' = "link"
    BY <1>4 DEF CreateThread, Create, CoreType, ThreadInv, Thread
  <2>1. CoreType'
    <3>1. "opening" \in ThreadPc /\ Null \in Pointer
      BY DEF ThreadPc, Pointer
    <3> QED BY <1>4, <2>0, <3>1 DEF CreateThread, Create, CoreType
  <2>2. ASSUME NEW k \in Thread
        PROVE  /\ thread'[k].id = thread[k].id /\ thread'[k].info = thread[k].info
               /\ thread'[k].pc = IF k = started THEN "opening" ELSE thread[k].pc
    BY <1>4, <2>0 DEF CreateThread, Create, CoreType
  <2>3. ThreadInv'
    BY <1>4, <2>0, <2>2 DEF CreateThread, Create, ThreadInv, Thread, CoreType
  <2>4. PacketInv'
    BY <1>4, <2>0, <2>2, QuietPackets DEF CreateThread, Create, Closing
  <2> QED BY <2>1, <2>3, <2>4
<1>5. CASE Link
  <2>0. started \in Thread /\ main = "link" /\ main' = "store"
    BY <1>5 DEF Link, LinkBehind, CoreType, ThreadInv, Thread
  <2>1. CoreType'
    BY <1>5, <2>0 DEF Link, LinkBehind, CoreType, Pointer
  <2>2. ThreadInv'
    BY <1>5, <2>0 DEF Link, LinkBehind, ThreadInv
  <2>3. PacketInv'
    BY <1>5, QuietPackets DEF Link, LinkBehind
  <2> QED BY <2>1, <2>2, <2>3
<1>6. CASE StoreInfo
  <2>0. started \in Thread /\ main = "store" /\ main' = "receive"
    BY <1>6 DEF StoreInfo, CoreType, ThreadInv, Thread
  <2>1. CoreType'
    BY <1>6, <2>0 DEF StoreInfo, CoreType
  <2>2. ASSUME NEW k \in Thread
        PROVE  /\ thread'[k].id = thread[k].id /\ thread'[k].pc = thread[k].pc
               /\ thread'[k].info = IF k = started THEN started ELSE thread[k].info
    BY <1>6, <2>0 DEF StoreInfo, CoreType
  <2>3. ThreadInv'
    BY <1>6, <2>0, <2>2 DEF StoreInfo, ThreadInv
  <2>4. PacketInv'
    BY <1>6, <2>2, QuietPackets DEF StoreInfo
  <2> QED BY <2>1, <2>3, <2>4
<1>7. CASE RequestPipe
  <2>1. CoreType'
    BY <1>7 DEF RequestPipe, CoreType
  <2>2. ThreadInv'
    BY <1>7 DEF RequestPipe, ThreadInv
  <2>3. PacketInv'
    BY <1>7, QuietPackets DEF RequestPipe
  <2> QED BY <2>1, <2>2, <2>3
<1>8. CASE Disconnect
  <2>1. CoreType'
    BY <1>8 DEF Disconnect, CoreType
  <2>2. ThreadInv'
    BY <1>8 DEF Disconnect, ThreadInv
  <2>3. PacketInv'
    BY <1>8, QuietPackets DEF Disconnect
  <2> QED BY <2>1, <2>2, <2>3
<1> QED BY <1>1, <1>2, <1>3, <1>4, <1>5, <1>6, <1>7, <1>8

(* A step of a pipe thread that leaves all but its pc and prev alone. *)
LEMMA CoreThread ==
  ASSUME CoreInv, NEW k \in Thread, NEW pc \in ThreadPc, NEW prev \in Pointer,
         thread' = [thread EXCEPT ![k].pc = pc, ![k].prev = prev],
         thread[k].pc # "none", pc # "none",
         pc \in {"unlink", "free"} => thread[k].info = k,
         UNCHANGED <<main, started>>
  PROVE  /\ thread' \in [Thread -> [pc: ThreadPc, id: Ids, info: Thread \union {Garbage}, prev: Pointer]]
         /\ \A j \in Thread : thread'[j].pc = IF j = k THEN pc ELSE thread[j].pc
         /\ ThreadInv'
<1>1. thread' \in [Thread -> [pc: ThreadPc, id: Ids, info: Thread \union {Garbage}, prev: Pointer]]
  BY DEF CoreInv, CoreType
<1>2. ASSUME NEW j \in Thread
      PROVE  /\ thread'[j].id = thread[j].id /\ thread'[j].info = thread[j].info
             /\ thread'[j].pc = IF j = k THEN pc ELSE thread[j].pc
  BY DEF CoreInv, CoreType
<1>3. ThreadInv'
  BY <1>2, ZenonT(60) DEF CoreInv, ThreadInv
<1> QED BY <1>1, <1>2, <1>3

(* The steps of a pipe thread keep what the packets depend on. *)
LEMMA CorePipeThread ==
  ASSUME CoreInv, NEW k \in Thread, PipeThread(k)
  PROVE  CoreInv'
<1> USE DEF mainVars, connVars, listVars
<1>0. /\ thread[k] = [thread[k] EXCEPT !.prev = thread[k].prev]
      /\ thread[k].prev \in Pointer /\ thread[k].pc \in ThreadPc
      /\ thread = [thread EXCEPT ![k].pc = thread[k].pc, ![k].prev = thread[k].prev]
      /\ \A pc : [thread EXCEPT ![k].pc = pc] =
                 [thread EXCEPT ![k].pc = pc, ![k].prev = thread[k].prev]
  BY DEF CoreInv, CoreType
<1>1. ASSUME OpenPipe(k) \/ OpenFails(k) PROVE CoreInv'
  <2>1. PICK pc \in {"reading", "failed"} :
          thread' = [thread EXCEPT ![k].pc = pc, ![k].prev = thread[k].prev]
    BY <1>0, <1>1 DEF OpenPipe, OpenFails, Goto
  <2>2. thread[k].pc = "opening" /\ UNCHANGED <<alive, connVars, received, mainVars, listVars, chunks>>
    BY <1>1 DEF OpenPipe, OpenFails, At
  <2>3. pc \in ThreadPc
    BY DEF ThreadPc
  <2>4. /\ thread' \in [Thread -> [pc: ThreadPc, id: Ids, info: Thread \union {Garbage}, prev: Pointer]]
        /\ \A j \in Thread : thread'[j].pc = IF j = k THEN pc ELSE thread[j].pc
        /\ ThreadInv'
    BY <1>0, <2>1, <2>2, <2>3, CoreThread
  <2>5. CoreType'
    BY <2>2, <2>4 DEF CoreInv, CoreType
  <2>6. PacketInv'
    BY <2>2, <2>4, QuietPackets DEF Closing
  <2> QED BY <2>4, <2>5, <2>6 DEF CoreInv
<1>2. ASSUME ReadPipe(k) PROVE CoreInv'
  <2>1. /\ thread[k].pc = "reading" /\ Send("RPIP", thread[k].id, k)
        /\ UNCHANGED <<connVars, mainVars, listVars, thread>>
        /\ chunks' \in 0..MaxChunks
    BY <1>2, AgentAssumption DEF ReadPipe, At, CoreInv, CoreType
  <2>2. received' \in [Connection -> [Id -> Seq(Packet)]] /\ alive' \in BOOLEAN /\ PacketInv'
    BY <2>1, PipeThreadPackets
  <2>3. CoreType'
    BY <2>1, <2>2 DEF CoreInv, CoreType
  <2>4. ThreadInv'
    BY <2>1 DEF CoreInv, ThreadInv
  <2> QED BY <2>2, <2>3, <2>4 DEF CoreInv
<1>3. ASSUME EndOfPipe(k) PROVE CoreInv'
  <2>1. /\ thread[k].pc = "reading" /\ Send("RPIC", thread[k].id, k)
        /\ UNCHANGED <<connVars, mainVars, listVars, chunks>>
        /\ thread' = [thread EXCEPT ![k].pc = "destroy", ![k].prev = thread[k].prev]
    BY <1>0, <1>3 DEF EndOfPipe, At, Goto
  <2>2. "destroy" \in ThreadPc
    BY DEF ThreadPc
  <2>3. /\ thread' \in [Thread -> [pc: ThreadPc, id: Ids, info: Thread \union {Garbage}, prev: Pointer]]
        /\ \A j \in Thread : thread'[j].pc = IF j = k THEN "destroy" ELSE thread[j].pc
        /\ ThreadInv'
    BY <1>0, <2>1, <2>2, CoreThread, ZenonT(60)
  <2>4. received' \in [Connection -> [Id -> Seq(Packet)]] /\ alive' \in BOOLEAN /\ PacketInv'
    BY <2>1, <2>3, PipeThreadPackets DEF Closing
  <2>5. CoreType'
    BY <2>1, <2>3, <2>4 DEF CoreInv, CoreType
  <2> QED BY <2>3, <2>4, <2>5 DEF CoreInv
<1>4. ASSUME FindVictim(k) PROVE CoreInv'
  <2>0. head \in Pointer /\ next \in [Thread -> Pointer] /\ thread[k].pc = "destroy"
        /\ UNCHANGED <<alive, connVars, received, mainVars, listVars, chunks>>
    BY <1>4 DEF FindVictim, At, CoreInv, CoreType
  <2>1. PICK pc \in {"unlink", "lost"}, prev \in Pointer :
          /\ thread' = [thread EXCEPT ![k].pc = pc, ![k].prev = prev]
          /\ pc = "unlink" => thread[k].info = k
    <3>1. CASE thread[k].info \in Listed
      <4> DEFINE prev == IF head = thread[k].info THEN Null
                         ELSE CHOOSE n \in Listed : next[n] = thread[k].info
      <4>1. prev \in Pointer
        BY <2>0, <3>1, Predecessor DEF Listed, Pointer
      <4>2. thread[k].info = k
        BY <3>1 DEF Listed, CoreInv, ThreadInv, Garbage, Thread
      <4>3. thread' = [thread EXCEPT ![k].pc = "unlink", ![k].prev = prev]
        BY <1>4, <3>1 DEF FindVictim
      <4> QED BY <4>1, <4>2, <4>3
    <3>2. CASE thread[k].info \notin Listed
      BY <1>0, <1>4, <3>2 DEF FindVictim, Goto
    <3> QED BY <3>1, <3>2
  <2>2. pc \in ThreadPc
    BY DEF ThreadPc
  <2>3. /\ thread' \in [Thread -> [pc: ThreadPc, id: Ids, info: Thread \union {Garbage}, prev: Pointer]]
        /\ \A j \in Thread : thread'[j].pc = IF j = k THEN pc ELSE thread[j].pc
        /\ ThreadInv'
    BY <2>0, <2>1, <2>2, CoreThread
  <2>4. CoreType'
    BY <2>0, <2>3 DEF CoreInv, CoreType
  <2>5. PacketInv'
    BY <2>0, <2>3, QuietPackets DEF Closing
  <2> QED BY <2>3, <2>4, <2>5 DEF CoreInv
<1>5. ASSUME Unlink(k) PROVE CoreInv'
  <2>0. /\ thread[k].pc = "unlink" /\ thread[k].info = k
        /\ UNCHANGED <<alive, connVars, received, mainVars, memory, chunks>>
        /\ thread' = [thread EXCEPT ![k].pc = "free", ![k].prev = Null]
    BY <1>5 DEF Unlink, At, CoreInv, ThreadInv
  <2>1. head' \in Pointer /\ next' \in [Thread -> Pointer]
    BY <1>5, <2>0 DEF Unlink, CoreInv, CoreType
  <2>2. "free" \in ThreadPc /\ Null \in Pointer
    BY DEF ThreadPc, Pointer
  <2>3. /\ thread' \in [Thread -> [pc: ThreadPc, id: Ids, info: Thread \union {Garbage}, prev: Pointer]]
        /\ \A j \in Thread : thread'[j].pc = IF j = k THEN "free" ELSE thread[j].pc
        /\ ThreadInv'
    BY <2>0, <2>2, CoreThread
  <2>4. CoreType'
    BY <2>0, <2>1, <2>3 DEF CoreInv, CoreType
  <2>5. PacketInv'
    BY <2>0, <2>3, QuietPackets DEF Closing
  <2> QED BY <2>3, <2>4, <2>5 DEF CoreInv
<1>6. ASSUME FreeNode(k) PROVE CoreInv'
  <2>0. /\ thread[k].pc = "free"
        /\ UNCHANGED <<alive, connVars, received, mainVars, head, next, chunks>>
        /\ thread' = [thread EXCEPT ![k].pc = "ended", ![k].prev = thread[k].prev]
    BY <1>0, <1>6 DEF FreeNode, At, Goto
  <2>1. UNCHANGED <<main, started>> /\ thread[k].pc # "none"
    BY <2>0
  <2>2. "ended" \in ThreadPc /\ "ended" # "none" /\ "ended" \notin {"unlink", "free"}
    BY DEF ThreadPc
  <2>3. /\ thread' \in [Thread -> [pc: ThreadPc, id: Ids, info: Thread \union {Garbage}, prev: Pointer]]
        /\ \A j \in Thread : thread'[j].pc = IF j = k THEN "ended" ELSE thread[j].pc
        /\ ThreadInv'
    BY <1>0, <2>0, <2>1, <2>2, CoreThread
  <2>4. CoreType'
    BY <2>0, <2>3 DEF CoreInv, CoreType
  <2>5. PacketInv'
    BY <2>0, <2>3, QuietPackets DEF Closing
  <2> QED BY <2>3, <2>4, <2>5 DEF CoreInv
<1> QED BY <1>1, <1>2, <1>3, <1>4, <1>5, <1>6 DEF PipeThread, Destroy

(* Every step keeps what the packets depend on. *)
LEMMA CoreNext ==
  ASSUME CoreInv, MaxRequests < 65536, [Next]_vars
  PROVE  CoreInv'
<1>1. CASE Main
  BY <1>1, CoreRequest, CoreMain DEF Main
<1>2. CASE RequestPipe \/ Disconnect
  BY <1>2, CoreMain
<1>3. CASE \E k \in Thread : PipeThread(k)
  BY <1>3, CorePipeThread
<1>4. CASE UNCHANGED vars
  BY <1>4 DEF vars, connVars, listVars, mainVars, CoreInv, CoreType, ThreadInv, PacketInv
<1> QED BY <1>1, <1>2, <1>3, <1>4 DEF Next

(* In what one client receives an id stands for one pipe, for any number   *)
(* of connections, whether or not operations on the list overlap, as long  *)
(* as next_pipe_id has not wrapped (handler_request_pipe,                  *)
(* thread_request_pipe).                                                   *)
THEOREM IdsAreUnique ==
  ASSUME MaxRequests < 65536
  PROVE  Spec => []IdsStandForOnePipe
<1>1. CoreInv => IdsStandForOnePipe
  <2> SUFFICES ASSUME CoreInv, NEW c \in Connection, NEW id \in Id,
                      NEW i \in DOMAIN received[c][id], NEW j \in DOMAIN received[c][id], i < j
               PROVE  LET r == received[c][id] IN
                      /\ r[i].pipe = r[j].pipe
                      /\ r[j].type # "RPIR" /\ r[i].type # "RPIC"
    BY DEF IdsStandForOnePipe
  <2>1. received[c][id] \in Seq(Packet)
    BY DEF CoreInv, CoreType
  <2>2. i \in 1..Len(received[c][id]) /\ j \in 1..Len(received[c][id])
    BY <2>1
  <2> QED BY <2>2 DEF CoreInv, PacketInv
<1>2. CoreInv /\ [Next]_vars => CoreInv'
  BY CoreNext
<1> QED BY <1>1, <1>2, CoreInit, PTL DEF Spec

-----------------------------------------------------------------------------
(* The list, when operations on it do not overlap.                         *)

Linked == {k \in Thread : /\ memory[k] = "allocated" /\ thread[k].pc # "free"
                          /\ ~(main = "link" /\ k = started)}

(* The pointer behind x, where 0 stands for the head. *)
Nxt(x) == IF x = 0 THEN head ELSE next[x]

(* It leads to the next larger node of the list, or is NULL. *)
Chain ==
  \A x \in Linked \union {0} :
    \/ Nxt(x) = 0 /\ \A k \in Linked : k <= x
    \/ Nxt(x) \in Linked /\ Nxt(x) > x /\ \A k \in Linked : k <= x \/ k >= Nxt(x)

MemoryInv ==
  \A k \in Thread :
    /\ memory[k] = "new" <=> thread[k].pc = "none"
    /\ memory[k] = "freed" <=> thread[k].pc = "ended"

(* One operation at a time. *)
Alone ==
  /\ main \in {"create", "link"} => \A k \in Thread : thread[k].pc \notin {"unlink", "free"}
  /\ \A j, k \in Thread :
       thread[j].pc \in {"unlink", "free"} /\ thread[k].pc \in {"unlink", "free"} => j = k

(* What an operation has found is still so when it uses it. *)
Found ==
  /\ main \in {"create", "link"} =>
       /\ tail \in Linked \union {0}
       /\ \A k \in Linked : k <= tail
  /\ main = "link" => next[started] = 0 /\ memory[started] = "allocated"
  /\ \A k \in Thread : thread[k].pc = "unlink" =>
       thread[k].prev \in Linked \union {0} /\ Nxt(thread[k].prev) = k

ListType ==
  /\ tail \in Pointer
  /\ memory \in [Thread -> {"new", "allocated", "freed"}]

ListInv == ListType /\ MemoryInv /\ Alone /\ Found /\ Chain

(* The chain holds exactly the nodes that can be reached. *)
LEMMA LinkedIsListed ==
  ASSUME head \in Pointer, next \in [Thread -> Pointer], Chain
  PROVE  Listed = Linked
<1> USE DEF Null
<1>0. Linked \subseteq Thread /\ Thread \subseteq Nat /\ 0 \notin Thread /\ Thread \subseteq 0..MaxRequests
  BY AgentAssumption DEF Linked, Thread
<1>a. \A k \in Linked : k \in Nat /\ k \in 0..MaxRequests /\ k # 0
  BY <1>0
<1>1. Listed \subseteq Linked
  <2> DEFINE S == Linked \union {0}
  <2>1. S \in SUBSET Pointer
    BY <1>0 DEF Pointer
  <2>2. Closed(S)
    BY <1>0 DEF Closed, Chain, Nxt
  <2>3. \A k \in Listed : k \in S /\ k \in Thread
    BY <2>1, <2>2 DEF Listed
  <2> QED BY <1>0, <2>3
<1>2. ASSUME Linked \ Listed # {} PROVE FALSE
  <2> DEFINE T == Linked \ Listed
  <2>1. PICK x \in T : \A y \in T : x <= y
    <3>1. T \subseteq Nat /\ T # {}
      BY <1>0, <1>2
    <3> HIDE DEF T
    <3> QED BY <3>1, LeastNat
  <2> DEFINE P == {k \in Linked \union {0} : k < x}
  <2>2. PICK p \in P : \A k \in P : k <= p
    <3>1. MaxRequests \in Nat /\ P \subseteq 0..MaxRequests /\ 0 \in P
      <4>1. MaxRequests \in Nat
        BY AgentAssumption
      <4>2. 0 < x
        BY <1>0, <2>1 DEF Thread
      <4>3. 0 \in P
        BY <4>2
      <4>4. P \subseteq 0..MaxRequests
        BY <1>a, <4>1
      <4> QED BY <4>1, <4>3, <4>4
    <3> HIDE DEF P
    <3> QED BY <3>1, GreatestNat
  <2>3. Nxt(p) = x
    <3>1. CASE Nxt(p) = 0 /\ \A k \in Linked : k <= p
      BY <1>0, <2>1, <2>2, <3>1
    <3>2. CASE Nxt(p) \in Linked /\ Nxt(p) > p /\ \A k \in Linked : k <= p \/ k >= Nxt(p)
      <4>0. x \in Nat /\ p \in Nat /\ Nxt(p) \in Nat
        <5>1. x \in Linked /\ (p \in Linked \/ p = 0) /\ Nxt(p) \in Linked
          BY <2>1, <2>2, <3>2
        <5> QED BY <1>a, <5>1
      <4>1. x >= Nxt(p)
        BY <1>0, <2>1, <2>2, <3>2
      <4>2. ASSUME Nxt(p) < x PROVE FALSE
        <5>1. Nxt(p) \in P
          BY <3>2, <4>2
        <5>2. Nxt(p) <= p
          BY <2>2, <5>1
        <5> QED BY <3>2, <4>0, <5>2
      <4> QED BY <4>0, <4>1, <4>2
    <3> QED BY <2>2, <3>1, <3>2 DEF Chain
  <2>4. x # 0 /\ x \notin Listed
    BY <1>0, <2>1
  <2>5. CASE p = 0
    BY <2>3, <2>4, <2>5, ListedClosed DEF Nxt
  <2>6. CASE p # 0
    <3>1. p \in Listed
      BY <1>0, <2>1, <2>2, <2>6
    <3> QED BY <2>3, <2>4, <2>6, <3>1, ListedClosed DEF Nxt
  <2> QED BY <2>5, <2>6
<1> QED BY <1>1, <1>2

(* A list that is not empty has a last node. *)
LEMMA LastNode ==
  ASSUME Chain, Linked # {}
  PROVE  /\ \E n \in Linked : next[n] = 0
         /\ \A n \in Linked : next[n] = 0 => \A k \in Linked : k <= n
<1>0. Linked \subseteq 0..MaxRequests /\ MaxRequests \in Nat /\ 0 \notin Linked
  BY AgentAssumption DEF Linked, Thread
<1>a. \A k \in Linked : k \in Nat
  BY <1>0
<1>1. PICK n \in Linked : \A k \in Linked : k <= n
  BY <1>0, GreatestNat
<1>2. Nxt(n) = 0
  <2>1. CASE Nxt(n) \in Linked /\ Nxt(n) > n
    BY <1>a, <1>1, <2>1
  <2>2. n \in Linked \union {0}
    BY <1>1
  <2> QED BY <2>1, <2>2 DEF Chain
<1>3. \A m \in Linked : Nxt(m) = next[m]
  BY <1>0 DEF Nxt
<1>4. \A m \in Linked : next[m] = 0 => \A k \in Linked : k <= m
  BY <1>0, <1>3 DEF Chain
<1> QED BY <1>1, <1>2, <1>3, <1>4

(* The list is empty at the start. *)
LEMMA ListInit == Init => ListInv
BY DEF Init, ListInv, ListType, MemoryInv, Alone, Found, Chain, Linked, Nxt, Pointer, Null

Quiet == {"opening", "reading", "failed", "destroy", "lost"}

(* Steps that leave the list and what was found in it alone. *)
LEMMA ListQuiet ==
  ASSUME ListInv, UNCHANGED <<head, next, memory, tail>>,
         \A k \in Thread : \/ thread'[k].pc = thread[k].pc
                           \/ thread[k].pc \in Quiet /\ thread'[k].pc \in Quiet,
         \A k \in Thread : thread'[k].prev = thread[k].prev,
         \/ UNCHANGED <<main, started>>
         \/ main \notin {"create", "link"} /\ main' \notin {"create", "link"}
  PROVE  ListInv'
<1> USE DEF ListInv, Quiet
<1>1. Linked' = Linked
  BY DEF Linked
<1>2. \A x \in Linked \union {0} : Nxt(x)' = Nxt(x)
  BY DEF Nxt
<1>3. Chain'
  BY <1>1, <1>2 DEF Chain
<1>4. ListType' /\ MemoryInv' /\ Alone'
  BY DEF ListType, MemoryInv, Alone
<1>5. Found'
  <2>1. \A k \in Thread : thread'[k].pc = "unlink" => thread[k].pc = "unlink"
    OBVIOUS
  <2> QED BY <1>1, <1>2, <2>1 DEF Found
<1> QED BY <1>3, <1>4, <1>5

(* The numbers in the list, and the node that is not in it yet. *)
LEMMA LinkedFacts ==
  ASSUME CoreInv, ListInv
  PROVE  /\ Linked \subseteq Thread
         /\ \A k \in Linked : k \in Nat /\ k # 0 /\ k <= started
         /\ main \in {"create", "link"} =>
              started \in Thread /\ started \notin Linked /\ \A k \in Linked : k < started
<1>1. \A k \in Linked : k \in Thread /\ k \in Nat /\ k # 0
  BY DEF Linked, Thread
<1>2. started \in Nat
  BY DEF CoreInv, CoreType
<1>3. ASSUME NEW k \in Linked PROVE k <= started
  <2>1. thread[k].pc # "none"
    BY <1>1 DEF Linked, ListInv, MemoryInv
  <2> QED BY <1>1, <1>2, <2>1 DEF CoreInv, ThreadInv
<1>4. ASSUME main \in {"create", "link"} PROVE started \in Thread /\ started \notin Linked
  <2>1. started \in Thread
    BY <1>2, <1>4, AgentAssumption DEF CoreInv, CoreType, ThreadInv, Thread
  <2>2. CASE main = "create"
    <3>1. thread[started].pc = "none"
      BY <2>1, <2>2 DEF CoreInv, ThreadInv
    <3>2. memory[started] = "new"
      BY <2>1, <3>1 DEF ListInv, MemoryInv
    <3> QED BY <2>1, <3>2 DEF Linked
  <2>3. CASE main = "link"
    BY <2>1, <2>3 DEF Linked
  <2> QED BY <1>4, <2>1, <2>2, <2>3
<1> QED BY <1>1, <1>2, <1>3, <1>4

(* start_thread finds the last node of the chain. *)
LEMMA ListFindTail ==
  ASSUME CoreInv, ListInv, ~MayOverlap, FindTail
  PROVE  ListInv'
<1> USE DEF ListInv, FindTail, listVars, connVars
<1>1. main \notin {"create", "link"} /\ \A k \in Thread : thread[k].pc \notin {"unlink", "free"}
  BY DEF MayUseList, ListInUse
<1>2. Linked' = Linked
  BY DEF Linked
<1>3. \A x \in Linked \union {0} : Nxt(x)' = Nxt(x)
  BY DEF Nxt
<1>4. Chain'
  BY <1>2, <1>3 DEF Chain
<1>5. MemoryInv' /\ Alone'
  BY <1>1 DEF MemoryInv, Alone
<1>6. tail' \in Linked \union {0} /\ tail' \in Pointer /\ \A k \in Linked : k <= tail'
  <2>1. head \in Pointer /\ next \in [Thread -> Pointer]
    BY DEF CoreInv, CoreType
  <2>2. CASE head = 0
    <3>1. tail' = 0
      BY <2>2 DEF Null
    <3>2. Nxt(0) \notin Linked
      BY <2>2 DEF Nxt, Linked, Thread
    <3>3. \A k \in Linked : k <= 0
      BY <3>2 DEF Chain
    <3> QED BY <3>1, <3>3 DEF Pointer, Null
  <2>3. CASE head # 0
    <3>1. Listed = Linked
      BY <2>1, LinkedIsListed
    <3>2. head \in Linked
      <4>1. Nxt(0) = head
        BY DEF Nxt
      <4> QED BY <2>3, <4>1 DEF Chain
    <3>3. \E n \in Linked : next[n] = 0
      BY <3>2, LastNode
    <3>4. tail' = CHOOSE n \in Linked : next[n] = 0
      BY <2>3, <3>1 DEF Null
    <3>5. tail' \in Linked /\ next[tail'] = 0
      BY <3>3, <3>4
    <3>6. \A k \in Linked : k <= tail'
      BY <3>2, <3>5, LastNode
    <3> QED BY <3>5, <3>6 DEF Pointer, Linked
  <2> QED BY <2>2, <2>3
<1>7. ListType'
  BY <1>6 DEF ListType
<1>8. Found'
  BY <1>1, <1>2, <1>6 DEF Found
<1> QED BY <1>4, <1>5, <1>7, <1>8

(* The new node is not in the list when its thread begins to run. *)
LEMMA ListCreateThread ==
  ASSUME CoreInv, ListInv, CreateThread
  PROVE  ListInv'
<1> USE DEF ListInv
<1>0. /\ started \in Thread /\ started \notin Linked /\ Linked \subseteq Thread
      /\ main = "create" /\ main' = "link" /\ 0 \notin Thread
      /\ UNCHANGED <<started, tail, head>>
  BY LinkedFacts DEF CreateThread, Create, Thread
<1>1. /\ memory' = [memory EXCEPT ![started] = "allocated"]
      /\ next' = [next EXCEPT ![started] = 0]
      /\ thread' = [thread EXCEPT ![started].pc = "opening"]
  BY DEF CreateThread, Create, Null
<1>2. /\ memory' \in [Thread -> {"new", "allocated", "freed"}]
      /\ \A k \in Thread : memory'[k] = IF k = started THEN "allocated" ELSE memory[k]
  BY <1>0, <1>1 DEF ListType
<1>3. \A k \in Thread : thread'[k].pc = IF k = started THEN "opening" ELSE thread[k].pc
  BY <1>0, <1>1 DEF CoreInv, CoreType
<1>4. \A k \in Thread : next'[k] = IF k = started THEN 0 ELSE next[k]
  BY <1>0, <1>1 DEF CoreInv, CoreType
<1>5. Linked' = Linked
  BY <1>0, <1>2, <1>3 DEF Linked
<1>6. \A x \in Linked \union {0} : Nxt(x)' = Nxt(x)
  BY <1>0, <1>4 DEF Nxt
<1>7. Chain'
  BY <1>5, <1>6 DEF Chain
<1>8. ListType' /\ MemoryInv' /\ Alone'
  BY <1>0, <1>2, <1>3 DEF ListType, MemoryInv, Alone
<1>9. Found'
  <2>1. \A k \in Thread : thread'[k].pc # "unlink"
    BY <1>0, <1>3 DEF Alone
  <2> QED BY <1>0, <1>2, <1>4, <1>5, <2>1 DEF Found
<1> QED BY <1>7, <1>8, <1>9

(* The new node is larger than every other, and goes behind the last. *)
LEMMA ListLink ==
  ASSUME CoreInv, ListInv, Link
  PROVE  ListInv'
<1> USE DEF ListInv
<1>0. /\ started \in Thread /\ started \notin Linked /\ Linked \subseteq Thread
      /\ \A k \in Linked : k < started
      /\ main = "link" /\ main' = "store" /\ 0 \notin Thread
      /\ UNCHANGED <<started, memory, thread>> /\ tail' = 0
  BY LinkedFacts DEF Link, LinkBehind, Thread, Null
<1>1. memory[started] = "allocated" /\ thread[started].pc # "free"
  BY <1>0 DEF Found, Alone
<1>2. Linked' = Linked \union {started}
  BY <1>0, <1>1 DEF Linked
<1>3. /\ tail \in Linked \union {0} /\ \A k \in Linked : k <= tail
      /\ next[started] = 0
  BY <1>0 DEF Found
<1>4. \A x \in Linked \union {0} : Nxt(x)' = IF x = tail THEN started ELSE Nxt(x)
  <2>1. CASE tail = 0
    BY <1>0, <2>1 DEF Link, LinkBehind, Nxt, Null
  <2>2. CASE tail # 0
    <3>1. next' = [next EXCEPT ![tail] = started] /\ head' = head /\ tail \in Thread
      BY <1>0, <1>3, <2>2 DEF Link, LinkBehind, Null
    <3> QED BY <1>0, <2>2, <3>1 DEF Nxt, CoreInv, CoreType
  <2> QED BY <2>1, <2>2
<1>5. ASSUME NEW x, x = started PROVE Nxt(x)' = 0
  <2>1. started # 0 /\ started # tail
    BY <1>0, <1>3
  <2>2. next'[started] = next[started]
    BY <1>0, <2>1 DEF Link, LinkBehind, CoreInv, CoreType
  <2> QED BY <1>3, <1>5, <2>1, <2>2 DEF Nxt
<1>6. \A k \in Linked \union {0, started} : k \in Nat /\ k <= started
  BY <1>0, LinkedFacts DEF CoreInv, CoreType
<1>7. Chain'
  <2>1. ASSUME NEW x \in Linked \union {0}
        PROVE  \/ Nxt(x)' = 0 /\ \A k \in Linked' : k <= x
               \/ Nxt(x)' \in Linked' /\ Nxt(x)' > x /\ \A k \in Linked' : k <= x \/ k >= Nxt(x)'
    <3>1. CASE x = tail
      <4>1. Nxt(x)' = started /\ started > x
        BY <1>0, <1>3, <1>4, <1>6, <3>1 DEF Thread
      <4> QED BY <1>2, <1>3, <1>6, <3>1, <4>1
    <3>2. CASE x # tail
      <4>1. Nxt(x)' = Nxt(x)
        BY <1>4, <3>2
      <4>2. CASE Nxt(x) = 0 /\ \A k \in Linked : k <= x
        <5>1. tail <= x /\ x <= tail
          BY <1>3, <1>6, <4>2
        <5> QED BY <1>3, <1>6, <3>2, <5>1
      <4>3. CASE Nxt(x) \in Linked /\ Nxt(x) > x /\ \A k \in Linked : k <= x \/ k >= Nxt(x)
        BY <1>2, <1>6, <4>1, <4>3
      <4> QED BY <4>2, <4>3 DEF Chain
    <3> QED BY <3>1, <3>2
  <2>2. ASSUME NEW x, x = started PROVE Nxt(x)' = 0 /\ \A k \in Linked' : k <= x
    BY <1>2, <1>5, <1>6, <2>2
  <2>3. ASSUME NEW x \in Linked' \union {0}
        PROVE  \/ Nxt(x)' = 0 /\ \A k \in Linked' : k <= x
               \/ Nxt(x)' \in Linked' /\ Nxt(x)' > x /\ \A k \in Linked' : k <= x \/ k >= Nxt(x)'
    BY <1>2, <2>1, <2>2
  <2> QED BY <2>3 DEF Chain
<1>8. ListType' /\ MemoryInv' /\ Alone'
  BY <1>0 DEF ListType, MemoryInv, Alone, Pointer, Null
<1>9. Found'
  BY <1>0 DEF Found, Alone
<1> QED BY <1>7, <1>8, <1>9

(* delete_running_thread_info finds the node of its own thread, and the one before it. *)
LEMMA ListFindVictim ==
  ASSUME CoreInv, ListInv, ~MayOverlap, NEW k \in Thread, FindVictim(k)
  PROVE  ListInv'
<1> USE DEF ListInv
<1>0. /\ UNCHANGED <<main, started, tail, head, next, memory>> /\ thread[k].pc = "destroy"
      /\ main \notin {"create", "link"} /\ \A j \in Thread : thread[j].pc \notin {"unlink", "free"}
  BY DEF FindVictim, At, MayUseList, ListInUse, mainVars, listVars
<1>1. CASE thread[k].info \notin Listed
  <2>1. thread' = [thread EXCEPT ![k].pc = "lost"]
    BY <1>1 DEF FindVictim, Goto
  <2>2. \A j \in Thread : /\ thread'[j].pc = IF j = k THEN "lost" ELSE thread[j].pc
                          /\ thread'[j].prev = thread[j].prev
    BY <2>1 DEF CoreInv, CoreType
  <2> QED BY <1>0, <2>2, ListQuiet DEF Quiet
<1>2. CASE thread[k].info \in Listed
  <2> DEFINE prev == IF head = k THEN 0 ELSE CHOOSE n \in Listed : next[n] = k
  <2>0. head \in Pointer /\ next \in [Thread -> Pointer]
    BY DEF CoreInv, CoreType
  <2>1. thread[k].info = k /\ k \in Listed
    BY <1>2 DEF Listed, CoreInv, ThreadInv, Garbage, Thread
  <2>2. thread' = [thread EXCEPT ![k].pc = "unlink", ![k].prev = prev]
    BY <1>2, <2>1 DEF FindVictim, Null
  <2>3. Listed = Linked
    BY <2>0, LinkedIsListed
  <2>4. prev \in Linked \union {0} /\ Nxt(prev) = k
    <3>1. CASE head = k
      BY <3>1 DEF Nxt
    <3>2. CASE head # k
      <4>1. prev \in Linked /\ next[prev] = k
        BY <2>0, <2>1, <2>3, <3>2, Predecessor
      <4> QED BY <4>1, LinkedFacts DEF Nxt
    <3> QED BY <3>1, <3>2
  <2> HIDE DEF prev
  <2>5. \A j \in Thread : /\ thread'[j].pc = IF j = k THEN "unlink" ELSE thread[j].pc
                          /\ thread'[j].prev = IF j = k THEN prev ELSE thread[j].prev
    BY <2>2 DEF CoreInv, CoreType
  <2>6. Linked' = Linked
    BY <1>0, <2>5 DEF Linked
  <2>7. \A x \in Linked \union {0} : Nxt(x)' = Nxt(x)
    BY <1>0 DEF Nxt
  <2>8. Chain'
    BY <2>6, <2>7 DEF Chain
  <2>9. ListType' /\ MemoryInv' /\ Alone'
    BY <1>0, <2>5 DEF ListType, MemoryInv, Alone
  <2>10. Found'
    BY <1>0, <2>4, <2>5, <2>6, <2>7 DEF Found
  <2> QED BY <2>8, <2>9, <2>10
<1> QED BY <1>1, <1>2

(* The node before the victim points to the one behind it. *)
LEMMA ListUnlink ==
  ASSUME CoreInv, ListInv, NEW k \in Thread, Unlink(k)
  PROVE  ListInv'
<1> USE DEF ListInv
<1> DEFINE prev == thread[k].prev
<1>0. /\ UNCHANGED <<main, started, tail, memory>> /\ thread[k].pc = "unlink"
      /\ thread[k].info = k /\ thread' = [thread EXCEPT ![k].pc = "free", ![k].prev = Null]
  BY DEF Unlink, At, mainVars, CoreInv, ThreadInv
<1>1. main \notin {"create", "link"} /\ prev \in Linked \union {0} /\ Nxt(prev) = k
  BY <1>0 DEF Alone, Found
<1>2. \A j \in Thread : thread'[j].pc = IF j = k THEN "free" ELSE thread[j].pc
  BY <1>0 DEF CoreInv, CoreType
<1>3. k \in Linked /\ Linked' = Linked \ {k}
  <2>1. memory[k] = "allocated"
    BY <1>0 DEF ListType, MemoryInv
  <2>2. k \in Linked
    BY <1>0, <1>1, <2>1 DEF Linked
  <2> QED BY <1>0, <1>1, <1>2, <2>2 DEF Linked
<1>4. \A x \in Linked \union {0} : x \in Nat
  BY LinkedFacts
<1>5. \A x \in Linked : x # 0 /\ x \in Thread
  BY LinkedFacts
<1>6. \A x \in Linked \union {0} : Nxt(x)' = IF x = prev THEN Nxt(k) ELSE Nxt(x)
  <2>1. CASE prev = 0
    BY <1>0, <1>3, <1>5, <2>1 DEF Unlink, Nxt, Null
  <2>2. CASE prev # 0
    <3>1. next' = [next EXCEPT ![prev] = next[k]] /\ head' = head /\ prev \in Thread
      BY <1>0, <1>1, <1>5, <2>2 DEF Unlink, Null
    <3> QED BY <1>3, <1>5, <2>2, <3>1 DEF Nxt, CoreInv, CoreType
  <2> QED BY <2>1, <2>2
<1> HIDE DEF prev
<1>7. prev < k /\ \A j \in Linked : j <= prev \/ j >= k
  <2>1. prev \in Linked \union {0} /\ Nxt(prev) # 0
    BY <1>1, <1>3, <1>5
  <2> QED BY <1>1, <2>1, <1>4 DEF Chain
<1>8. Chain'
  <2>1. ASSUME NEW x \in Linked' \union {0}
        PROVE  \/ Nxt(x)' = 0 /\ \A j \in Linked' : j <= x
               \/ Nxt(x)' \in Linked' /\ Nxt(x)' > x /\ \A j \in Linked' : j <= x \/ j >= Nxt(x)'
    <3>0. x \in Linked \union {0} /\ x # k /\ k \in Linked \union {0}
      BY <1>3, <1>5
    <3>1. CASE x = prev
      <4>1. Nxt(x)' = Nxt(k)
        BY <1>6, <3>0, <3>1
      <4>2. CASE Nxt(k) = 0 /\ \A j \in Linked : j <= k
        BY <1>3, <1>4, <1>7, <3>1, <4>1, <4>2
      <4>3. CASE Nxt(k) \in Linked /\ Nxt(k) > k /\ \A j \in Linked : j <= k \/ j >= Nxt(k)
        <5>1. Nxt(k) \in Linked' /\ Nxt(k) > x
          BY <1>3, <1>4, <1>7, <3>0, <3>1, <4>3
        <5>2. ASSUME NEW j \in Linked' PROVE j <= x \/ j >= Nxt(k)
          BY <1>3, <1>4, <1>7, <3>0, <3>1, <4>3
        <5> QED BY <4>1, <5>1, <5>2
      <4> QED BY <3>0, <4>2, <4>3 DEF Chain
    <3>2. CASE x # prev
      <4>1. Nxt(x)' = Nxt(x)
        BY <1>6, <3>0, <3>2
      <4>2. CASE Nxt(x) = 0 /\ \A j \in Linked : j <= x
        BY <1>3, <4>1, <4>2
      <4>3. CASE Nxt(x) \in Linked /\ Nxt(x) > x /\ \A j \in Linked : j <= x \/ j >= Nxt(x)
        <5>1. Nxt(x) # k
          <6> SUFFICES ASSUME Nxt(x) = k PROVE FALSE
            OBVIOUS
          <6>1. x < k
            BY <4>3
          <6>2. x <= prev
            BY <1>4, <1>7, <3>0, <1>1, <6>1 DEF Nxt
          <6>3. prev <= x
            BY <1>1, <1>4, <1>7, <3>0, <4>3
          <6> QED BY <1>1, <1>4, <3>0, <3>2, <6>2, <6>3
        <5> QED BY <1>3, <4>1, <4>3, <5>1
      <4> QED BY <3>0, <4>2, <4>3 DEF Chain
    <3> QED BY <3>1, <3>2
  <2> QED BY <2>1 DEF Chain
<1>a. UNCHANGED <<main, started, tail, memory>> /\ thread[k].pc = "unlink"
  BY <1>0
<1>b. \A j \in Thread : j # k => thread[j].pc \notin {"unlink", "free"}
  BY <1>a DEF Alone
<1>9. ListType' /\ MemoryInv' /\ Alone'
  <2>1. ListType'
    BY <1>a DEF ListType
  <2>2. MemoryInv'
    BY <1>a, <1>2 DEF MemoryInv
  <2>3. Alone'
    BY <1>a, <1>b, <1>1, <1>2 DEF Alone
  <2> QED BY <2>1, <2>2, <2>3
<1>10. Found'
  <2>1. \A j \in Thread : thread'[j].pc # "unlink"
    BY <1>b, <1>2
  <2> QED BY <1>0, <1>1, <2>1 DEF Found
<1> QED BY <1>8, <1>9, <1>10

(* A node is freed when nothing points to it any more. *)
LEMMA ListFreeNode ==
  ASSUME CoreInv, ListInv, NEW k \in Thread, FreeNode(k)
  PROVE  ListInv'
<1> USE DEF ListInv
<1>0. /\ UNCHANGED <<main, started, tail, head, next>> /\ thread[k].pc = "free"
      /\ thread' = [thread EXCEPT ![k].pc = "ended"]
      /\ memory' = [memory EXCEPT ![k] = "freed"]
  BY DEF FreeNode, At, Goto, mainVars, CoreInv, ThreadInv
<1>1. main \notin {"create", "link"}
  BY <1>0 DEF Alone
<1>2. \A j \in Thread : /\ thread'[j].pc = IF j = k THEN "ended" ELSE thread[j].pc
                        /\ thread'[j].prev = thread[j].prev
                        /\ memory'[j] = IF j = k THEN "freed" ELSE memory[j]
  BY <1>0 DEF CoreInv, CoreType, ListType
<1>3. Linked' = Linked
  BY <1>0, <1>1, <1>2 DEF Linked
<1>4. \A x \in Linked \union {0} : Nxt(x)' = Nxt(x)
  BY <1>0 DEF Nxt
<1>5. Chain'
  BY <1>3, <1>4 DEF Chain
<1>6. ListType'
  BY <1>0 DEF ListType
<1>7. MemoryInv' /\ Alone'
  BY <1>0, <1>1, <1>2 DEF MemoryInv, Alone, ListType
<1>8. Found'
  BY <1>0, <1>1, <1>2, <1>3, <1>4 DEF Found
<1> QED BY <1>5, <1>6, <1>7, <1>8

(* Every step keeps the chain when operations on the list do not overlap. *)
LEMMA ListNext ==
  ASSUME CoreInv, ListInv, ~MayOverlap, [Next]_vars
  PROVE  ListInv'
<1> USE DEF mainVars, listVars, connVars
<1>1. CASE Accept \/ ConnectionEnds \/ RequestPipe \/ Disconnect
  BY <1>1, ListQuiet DEF Accept, Accepted, ConnectionEnds, RequestPipe, Disconnect
<1>2. CASE HandlerRequestPipe
  <2>1. started + 1 \in Thread
    BY <1>2, AgentAssumption DEF HandlerRequestPipe, CoreInv, CoreType, Thread
  <2>2. \A k \in Thread : thread'[k].pc = thread[k].pc /\ thread'[k].prev = thread[k].prev
    BY <1>2, <2>1 DEF HandlerRequestPipe, CoreInv, CoreType
  <2> QED BY <1>2, <2>2, ListQuiet DEF HandlerRequestPipe
<1>3. CASE StoreInfo
  <2>1. \A k \in Thread : thread'[k].pc = thread[k].pc /\ thread'[k].prev = thread[k].prev
    BY <1>3 DEF StoreInfo, CoreInv, CoreType
  <2> QED BY <1>3, <2>1, ListQuiet DEF StoreInfo
<1>4. CASE FindTail \/ CreateThread \/ Link
  BY <1>4, ListFindTail, ListCreateThread, ListLink
<1>5. ASSUME NEW k \in Thread, OpenPipe(k) \/ OpenFails(k) \/ EndOfPipe(k) PROVE ListInv'
  <2>1. PICK pc \in {"reading", "failed", "destroy"} :
          thread[k].pc \in Quiet /\ thread' = [thread EXCEPT ![k].pc = pc]
    BY <1>5 DEF OpenPipe, OpenFails, EndOfPipe, At, Goto, Quiet
  <2>2. \A j \in Thread : /\ thread'[j].pc = IF j = k THEN pc ELSE thread[j].pc
                          /\ thread'[j].prev = thread[j].prev
    BY <2>1 DEF CoreInv, CoreType
  <2>3. UNCHANGED <<head, next, memory, tail, main, started>>
    BY <1>5 DEF OpenPipe, OpenFails, EndOfPipe
  <2> QED BY <2>1, <2>2, <2>3, ListQuiet DEF Quiet
<1>6. ASSUME NEW k \in Thread, ReadPipe(k) PROVE ListInv'
  BY <1>6, ListQuiet DEF ReadPipe
<1>7. ASSUME NEW k \in Thread, Destroy(k) PROVE ListInv'
  BY <1>7, ListFindVictim, ListUnlink, ListFreeNode DEF Destroy
<1>8. CASE UNCHANGED vars
  BY <1>8, ListQuiet DEF vars
<1> QED BY <1>1, <1>2, <1>3, <1>4, <1>5, <1>6, <1>7, <1>8 DEF Next, Main, PipeThread

(* Every variable keeps its type: no operation on the list follows or      *)
(* stores a pointer that was never assigned (start_thread,                 *)
(* delete_running_thread_info), when the operations do not overlap and     *)
(* next_pipe_id does not wrap.                                             *)
THEOREM TypeCorrect ==
  ASSUME MaxRequests < 65536, ~MayOverlap
  PROVE  Spec => []TypeOK
<1>1. CoreInv /\ ListInv => TypeOK
  <2> SUFFICES ASSUME CoreInv, ListInv PROVE TypeOK
    OBVIOUS
  <2>1. pending \in 0..MaxRequests /\ started \in 0..MaxRequests /\ nextId \in Nat /\ nextId <= 65535
    BY AgentAssumption DEF CoreInv, CoreType
  <2>2. nextId \in Ids
    BY <2>1, IdsAre
  <2> QED BY <2>1, <2>2 DEF TypeOK, CoreInv, CoreType, ListInv, ListType
<1>2. CoreInv /\ ListInv /\ [Next]_vars => (CoreInv /\ ListInv)'
  BY CoreNext, ListNext
<1> QED BY <1>1, <1>2, CoreInit, ListInit, PTL DEF Spec

(* The list holds exactly the allocated nodes, and none of a thread that   *)
(* has ended, whenever no operation on it is under way, and for any number *)
(* of requests, when the operations do not overlap (start_thread,          *)
(* delete_running_thread_info).                                            *)
THEOREM ListStaysIntact ==
  ASSUME MaxRequests < 65536, ~MayOverlap
  PROVE  Spec => []ListIntact
<1>1. CoreInv /\ ListInv => ListIntact
  <2> SUFFICES ASSUME CoreInv, ListInv, ~ListInUse
               PROVE  /\ Listed = {k \in Thread : memory[k] = "allocated"}
                      /\ \A k \in Listed : thread[k].pc # "ended"
    BY DEF ListIntact
  <2>1. Listed = Linked
    BY LinkedIsListed DEF CoreInv, CoreType, ListInv
  <2>2. Linked = {k \in Thread : memory[k] = "allocated"}
    BY DEF Linked, ListInUse
  <2> QED BY <2>1, <2>2 DEF ListInv, MemoryInv
<1>2. CoreInv /\ ListInv /\ [Next]_vars => (CoreInv /\ ListInv)'
  BY CoreNext, ListNext
<1> QED BY <1>1, <1>2, CoreInit, ListInit, PTL DEF Spec
===============================================================================
