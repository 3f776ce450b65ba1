---------------------------- MODULE PacketFraming -----------------------------
(***************************************************************************)
(* How packets <FUZZ><receiver 4><length 2><data> cross the connection     *)
(* between RemoteControlProtocol (client) and remote_control.c (agent).    *)
(* The connection is a stream of bytes in each direction; a read returns   *)
(* any non-empty part of what has arrived, so packets are cut anywhere.    *)
(*                                                                         *)
(* Client to agent: SendPacket, receive_packet_loop with its fixed buffer, *)
(* process_packet.  Agent to client: send_packet, called by the main       *)
(* thread (replies of handlers) and by a pipe thread, CBRead and           *)
(* ProcessBuffer.  One turn of a search loop is one step.                  *)
(***************************************************************************)
EXTENDS Integers, Sequences

CONSTANTS
  BufferSize,   \* bytes of the agent's buffer (10000)
  ReadSize,     \* bytes of _intermediateReadBuffer (1000)
  Commands,     \* the packets the client may send
  PipePackets,  \* the packets the pipe thread sends, in order
  MaxCommands   \* bound: commands the client sends

MaxByte == 255
Byte   == 0..MaxByte
Packet == [receiver: Seq(Byte), data: Seq(Byte)]

ASSUME FramingAssumption ==
  /\ BufferSize \in Nat /\ BufferSize >= 10
  /\ ReadSize \in Nat \ {0} /\ MaxCommands \in Nat
  /\ Commands \subseteq Packet /\ PipePackets \in Seq(Packet)
  /\ \A p \in Commands \union {PipePackets[i] : i \in DOMAIN PipePackets} :
       Len(p.receiver) = 4 /\ Len(p.data) < 32768   \* read as int16_t

Magic == <<70, 85, 90, 90>>   \* "FUZZ"
ECHO  == <<69, 67, 72, 79>>
PIPE  == <<80, 73, 80, 69>>
EXEC  == <<69, 88, 69, 67>>
PROC  == <<80, 82, 79, 67>>
RPIR  == <<82, 80, 73, 82>>
REXS  == <<82, 69, 88, 83>>
RPRC  == <<82, 80, 82, 67>>

Threads  == {"main", "pipe"}
Nobody   == "nobody"
NoPacket == [receiver |-> <<>>, data |-> <<>>]

VARIABLES
  up, down,      \* bytes under way to the agent and to the client
  open,          \* the agent has not closed the connection
  buffer,        \* agent: the first write_pos bytes of its buffer
  agent,         \* agent's main thread: "read", "scan", "reply", "closed"
  mutex,         \* socket_mutex: who holds it
  out,           \* the packet each thread of the agent is sending
  pieces,        \* how many of its four writes are done
  piped,         \* packets the pipe thread has begun to send
  clientBuffer,  \* _buffer
  client,        \* connection's thread of the client: "read", "process", "stopped"
  commandsSent, commandsReceived, responsesSent, responsesReceived   \* history

connection == <<up, down, open>>
agentVars  == <<buffer, agent>>
senderVars == <<mutex, out, pieces, piped>>
clientVars == <<clientBuffer, client>>
commands   == <<commandsSent, commandsReceived>>
responses  == <<responsesSent, responsesReceived>>
vars == <<connection, agentVars, senderVars, clientVars, commands, responses>>

TypeOK ==
  /\ up \in Seq(Byte) /\ down \in Seq(Byte) /\ open \in BOOLEAN
  /\ buffer \in Seq(Byte) /\ Len(buffer) <= BufferSize
  /\ agent \in {"read", "scan", "reply", "closed"}
  /\ mutex \in Threads \union {Nobody}
  /\ out \in [Threads -> Packet] /\ pieces \in [Threads -> 0..3]
  /\ piped \in 0..Len(PipePackets)
  /\ clientBuffer \in Seq(Byte) /\ client \in {"read", "process", "stopped"}
  /\ commandsSent \in Seq(Packet) /\ commandsReceived \in Seq(Packet)
  /\ responsesSent \in Seq(Packet) /\ responsesReceived \in Seq(Packet)

Init ==
  /\ up = <<>> /\ down = <<>> /\ open = TRUE
  /\ buffer = <<>> /\ agent = "read"
  /\ mutex = Nobody /\ piped = 0
  /\ out = [t \in Threads |-> NoPacket] /\ pieces = [t \in Threads |-> 0]
  /\ clientBuffer = <<>> /\ client = "read"
  /\ commandsSent = <<>> /\ commandsReceived = <<>>
  /\ responsesSent = <<>> /\ responsesReceived = <<>>

-----------------------------------------------------------------------------
(* The encoding, and the parts both receivers share.                       *)

Drop(s, n)  == SubSeq(s, n + 1, Len(s))
First(s, n) == SubSeq(s, 1, n)

WriteInt16(n)    == <<n % 256, (n \div 256) % 256>>
ReadInt16(bytes) == LET n == bytes[1] + 256 * bytes[2] IN IF n < 32768 THEN n ELSE n - 65536

(* The four writes of a packet. *)
Pieces(p) == <<Magic, p.receiver, WriteInt16(Len(p.data)), p.data>>
Encode(p) == LET w == Pieces(p) IN w[1] \o w[2] \o w[3] \o w[4]

Size(p) == 10 + Len(p.data)

(* The packet at offset c, which has all its bytes. *)
HasLength(b, c) == Len(b) - c >= 10
LengthAt(b, c)  == ReadInt16(SubSeq(b, c + 9, c + 10))
Complete(b, c)  == HasLength(b, c) /\ Len(b) - c >= 10 + LengthAt(b, c)
PacketAt(b, c)  == [receiver |-> SubSeq(b, c + 5, c + 8),
                    data     |-> SubSeq(b, c + 11, c + 10 + LengthAt(b, c))]

MagicAt(b, c) == SubSeq(b, c + 1, c + 4) = Magic
FirstOf(positions) == CHOOSE c \in positions : \A d \in positions : c <= d

-----------------------------------------------------------------------------
(* Client to agent.                                                        *)

(* SendPacket, called by one thread only. *)
SendPacket(p) ==
  /\ Len(commandsSent) < MaxCommands
  /\ up' = IF open THEN up \o Encode(p) ELSE up
  /\ commandsSent' = Append(commandsSent, p)
  /\ UNCHANGED <<down, open, agentVars, senderVars, clientVars, commandsReceived, responses>>

(* Mutant of Room: what is in the buffer is not taken off. *)
BugWholeBuffer == BufferSize

(* Mutant of Room: the last byte of the buffer is never used. *)
BugOneLess == BufferSize - 1 - Len(buffer)

(* What read is asked for: 10000 - write_pos. *)
Room == BufferSize - Len(buffer)

Read ==
  /\ agent = "read"
  /\ \E n \in 1..Len(up) :
       /\ n <= Room
       /\ buffer' = buffer \o First(up, n)
       /\ up' = Drop(up, n)
  /\ agent' = "scan"
  /\ UNCHANGED <<down, open, senderVars, clientVars, commands, responses>>

(* With a full buffer read is asked for no bytes and returns 0: the loop   *)
(* ends and main closes the connection.  What is under way to the client   *)
(* arrives or, when the reset overtakes it, does not.                      *)
BufferFull ==
  /\ agent = "read" /\ Room = 0
  /\ agent' = "closed" /\ open' = FALSE
  /\ up' = <<>> /\ down' \in {down, <<>>}
  /\ UNCHANGED <<buffer, senderVars, clientVars, commands, responses>>

(* c < write_pos - 3 *)
MagicInBuffer == {c \in 0..Len(buffer) - 4 : MagicAt(buffer, c)}

NoMagic ==
  /\ agent = "scan" /\ MagicInBuffer = {}
  /\ agent' = "read"
  /\ UNCHANGED <<connection, buffer, senderVars, clientVars, commands, responses>>

(* The packet is moved to the start of the buffer to wait for the rest. *)
Incomplete ==
  /\ agent = "scan" /\ MagicInBuffer # {}
  /\ LET c == FirstOf(MagicInBuffer) IN
       /\ ~Complete(buffer, c)
       /\ buffer' = Drop(buffer, c)
  /\ agent' = "read"
  /\ UNCHANGED <<connection, senderVars, clientVars, commands, responses>>

(* The replies the handlers send; ECHO and unknown receivers have none.    *)
(* The contents do not matter here.                                        *)
Reply(p) == CASE p.receiver = PIPE -> [receiver |-> RPIR, data |-> <<0, 0>>]
              [] p.receiver = EXEC -> [receiver |-> REXS, data |-> <<1>>]
              [] p.receiver = PROC -> [receiver |-> RPRC, data |-> <<70>>]
              [] OTHER -> NoPacket

(* extract_packet, process_packet and, behind them, copy_to_start; the     *)
(* search begins anew behind header and data.  A handler that replies goes *)
(* on in send_packet.                                                      *)
Process(header) ==
  /\ agent = "scan" /\ MagicInBuffer # {}
  /\ LET c == FirstOf(MagicInBuffer)
         p == PacketAt(buffer, c) IN
       /\ Complete(buffer, c)
       /\ commandsReceived' = Append(commandsReceived, p)
       /\ buffer' = Drop(buffer, c + header + LengthAt(buffer, c))
       /\ out' = [out EXCEPT !["main"] = Reply(p)]
       /\ agent' = IF Reply(p) # NoPacket THEN "reply" ELSE "scan"
  /\ UNCHANGED <<connection, mutex, pieces, piped, clientVars, commandsSent, responses>>

(* Mutant of ProcessPacket: only the data is skipped, so that a prefix in  *)
(* the data is taken for the next packet.                                  *)
BugKeepsHeader == Process(0)

ProcessPacket == Process(10)

-----------------------------------------------------------------------------
(* Agent to client: send_packet.                                           *)

(* The pipe thread has read something. *)
PipeData ==
  /\ out["pipe"] = NoPacket /\ piped < Len(PipePackets)
  /\ out' = [out EXCEPT !["pipe"] = PipePackets[piped + 1]]
  /\ piped' = piped + 1
  /\ UNCHANGED <<connection, agentVars, mutex, pieces, clientVars, commands, responses>>

Begin(t) ==
  /\ out[t] # NoPacket /\ mutex # t /\ pieces[t] = 0
  /\ mutex' = t
  /\ responsesSent' = Append(responsesSent, out[t])
  /\ UNCHANGED <<connection, agentVars, out, pieces, piped, clientVars, commands, responsesReceived>>

(* Mutant of Lock: the mutex is not waited for. *)
BugNoLock(t) == Begin(t)

(* pthread_mutex_lock *)
Lock(t) == mutex = Nobody /\ Begin(t)

(* One write; the last one is followed by pthread_mutex_unlock.  Writes to *)
(* a closed connection fail, which nobody looks at.                        *)
Write(t) ==
  /\ mutex = t /\ pieces[t] < 3
  /\ down' = IF open THEN down \o Pieces(out[t])[pieces[t] + 1] ELSE down
  /\ pieces' = [pieces EXCEPT ![t] = @ + 1]
  /\ UNCHANGED <<up, open, agentVars, mutex, out, piped, clientVars, commands, responses>>

WriteLast(t) ==
  /\ mutex = t /\ pieces[t] = 3
  /\ down' = IF open THEN down \o Pieces(out[t])[4] ELSE down
  /\ pieces' = [pieces EXCEPT ![t] = 0]
  /\ out' = [out EXCEPT ![t] = NoPacket]
  /\ mutex' = Nobody
  /\ agent' = IF t = "main" THEN "scan" ELSE agent
  /\ UNCHANGED <<up, open, buffer, piped, clientVars, commands, responses>>

-----------------------------------------------------------------------------
(* The client's receiver.                                                  *)

(* CBRead *)
CBRead ==
  /\ client = "read"
  /\ \E n \in 1..Len(down) :
       /\ n <= ReadSize
       /\ clientBuffer' = clientBuffer \o First(down, n)
       /\ down' = Drop(down, n)
  /\ client' = "process"
  /\ UNCHANGED <<up, open, agentVars, senderVars, commands, responses>>

(* EndRead returns 0: no other read is begun. *)
ConnectionClosed ==
  /\ client = "read" /\ ~open /\ down = <<>>
  /\ client' = "stopped"
  /\ UNCHANGED <<connection, agentVars, senderVars, clientBuffer, commands, responses>>

(* FindFirstOccurance: i < _buffer.Count - data.Length *)
Occurances == {i \in 0..Len(clientBuffer) - 5 : MagicAt(clientBuffer, i)}

(* ProcessBuffer returns: no prefix, or not all of the packet yet.  What   *)
(* is before the prefix has been removed.                                  *)
WaitForMore ==
  /\ client = "process"
  /\ IF Occurances = {} THEN UNCHANGED clientBuffer
     ELSE LET i == FirstOf(Occurances) IN
          /\ ~Complete(clientBuffer, i)
          /\ clientBuffer' = Drop(clientBuffer, i)
  /\ client' = "read"
  /\ UNCHANGED <<connection, agentVars, senderVars, commands, responses>>

HandleFirst(next) ==
  /\ client = "process" /\ Occurances # {}
  /\ LET i == FirstOf(Occurances) IN
       /\ Complete(clientBuffer, i)
       /\ responsesReceived' = Append(responsesReceived, PacketAt(clientBuffer, i))
       /\ clientBuffer' = Drop(clientBuffer, i + 10 + LengthAt(clientBuffer, i))
  /\ client' = next
  /\ UNCHANGED <<connection, agentVars, senderVars, commands, responsesSent>>

(* Mutant of HandlePacket: one packet for each read. *)
BugOnePacket == HandleFirst("read")

(* A complete packet is removed and its handler called; the while loop     *)
(* goes on.                                                                *)
HandlePacket == HandleFirst("process")

-----------------------------------------------------------------------------
Receiver == Read \/ BufferFull \/ NoMagic \/ Incomplete \/ ProcessPacket
Sender(t) == Lock(t) \/ Write(t) \/ WriteLast(t)
Client == CBRead \/ ConnectionClosed \/ WaitForMore \/ HandlePacket

Next == \/ Receiver \/ Client \/ PipeData
        \/ \E p \in Commands : SendPacket(p)
        \/ \E t \in Threads : Sender(t)

Spec == Init /\ [][Next]_vars

(* The threads that can go on do; nobody has to send a command.  The mutex *)
(* goes to a thread that waits for it again and again.                     *)
FairSpec ==
  /\ Spec
  /\ WF_vars(Receiver) /\ WF_vars(Client)
  /\ \A t \in Threads : SF_vars(Lock(t)) /\ WF_vars(Write(t) \/ WriteLast(t))

-----------------------------------------------------------------------------
Responses == {Reply(p) : p \in Commands} \union {PipePackets[i] : i \in DOMAIN PipePackets}

Up   == INSTANCE PacketChannel WITH Packet <- Commands,
                                    sent <- commandsSent, received <- commandsReceived
Down == INSTANCE PacketChannel WITH Packet <- Responses,
                                    sent <- responsesSent, received <- responsesReceived

(* Commands reach the agent's handlers whole and in order, wherever the    *)
(* stream is cut and whatever their data holds: receive_packet_loop        *)
(* implements PacketChannel.                                               *)
CommandsInOrder == Up!Spec

(* The packets of the agent's threads reach the client's handlers whole    *)
(* and in the order of socket_mutex: send_packet and ProcessBuffer         *)
(* implement PacketChannel.                                                *)
ResponsesInOrder == Down!Spec

(* The agent gives a connection up only over a packet that is longer than  *)
(* its buffer: packets of exactly 10K are received, as the protocol's      *)
(* description says (receive_packet_loop).                                 *)
ClosedOnlyByLongPacket ==
  ~open => /\ Len(commandsReceived) < Len(commandsSent)
           /\ Size(commandsSent[Len(commandsReceived) + 1]) > BufferSize

(* Whatever was sent arrives while the connection is open, also the last   *)
(* packet, behind which nothing follows: no receiver waits for more bytes  *)
(* than the packet has, and none leaves a complete packet in its buffer    *)
(* (receive_packet_loop, ProcessBuffer, FindFirstOccurance).  Commands are *)
(* finitely many here, so there is always a time when all have arrived.    *)
PacketsDelivered ==
  []<>(\/ ~open
       \/ commandsReceived = commandsSent /\ responsesReceived = responsesSent)
===============================================================================
