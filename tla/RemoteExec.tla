------------------------------ MODULE RemoteExec ------------------------------
(***************************************************************************)
(* Starting programs on the device.  XmlFuzzFactory.RemoteExec takes one   *)
(* configured program after the other: RemoteExecutionInfo.SendCommand     *)
(* replaces {remote-pid|...} by the id of a process it asks the agent for  *)
(* (PROC, RPRC), sends EXEC, and the factory waits five seconds for REXS.  *)
(* The agent parses the data (handler_exec), spawns and answers.  Answers  *)
(* are handled on the connection's thread.                                 *)
(*                                                                         *)
(* Strings are sequences of bytes, encoded with a 16-bit length before     *)
(* them; an argument {remote-pid|...} is PidArg.                           *)
(***************************************************************************)
EXTENDS Integers, Sequences, FiniteSets

CONSTANTS
  Scripts,     \* sequences of programs: the Exec nodes of configurations
  Tables,      \* the commands of the processes that run at the beginning
  ProcBuffer,  \* bytes of output_buffer in handler_proc (9000)
  MaxPid       \* bound: process ids

Byte    == 0..255
Text    == Seq(Byte)
Program == [name: Text, path: Text, args: Seq(Text), env: Seq(Text), search: Text]
PidArg  == <<0>>

(* A length fits the Int16 it is sent as. *)
Short(s) == Len(s) < 32768

Encodable(x) ==
  /\ Short(x.name) /\ Short(x.path) /\ Short(x.args) /\ Short(x.env)
  /\ \A i \in DOMAIN x.args : Short(x.args[i])
  /\ \A i \in DOMAIN x.env : Short(x.env[i])

ASSUME ExecAssumption ==
  /\ Scripts \subseteq Seq(Program) /\ \A s \in Scripts : \A i \in DOMAIN s : Encodable(s[i])
  /\ Tables \subseteq Seq(Text) /\ \A t \in Tables : Len(t) <= MaxPid
  /\ ProcBuffer \in Nat /\ MaxPid \in 1..255

NoList   == [known |-> FALSE, garbled |-> FALSE, list |-> <<>>]   \* processes = null
NoPid    == 0
NoAnswer == [kind |-> "none"]

VARIABLES
  script,     \* the programs of this configuration
  main,       \* where the factory is
  current,    \* the program it is at
  info,       \* _currentRemoteExecInfo: name, status and event
  processes,  \* processes of SendCommand; its evt is set when known
  pid,        \* the id that replaced {remote-pid|...}
  toAgent, toClient,
  handler,    \* the answer the connection's thread has stored, before Set
  alive,      \* the agent
  table,      \* the processes of the device, by id
  spawned,    \* history: what posix_spawn was called with, and its result
  recent      \* history: the processes there were since SendCommand began

factory == <<main, current, info, processes, pid>>
device  == <<alive, table, spawned, recent>>
vars == <<script, factory, toAgent, toClient, handler, device>>

Pid == 1..MaxPid
Ended == {"done", "not found", "timeout", "failed", "crashed"}
Status == {"Success", "Error"}

Init ==
  /\ script \in Scripts
  /\ main = "next" /\ current = 0
  /\ info = [program |-> 0, status |-> "Success", set |-> FALSE]
  /\ processes = NoList /\ pid = NoPid
  /\ toAgent = <<>> /\ toClient = <<>> /\ handler = NoAnswer
  /\ alive = TRUE
  /\ \E t \in Tables : table = [p \in 1..Len(t) |-> t[p]]
  /\ spawned = <<>> /\ recent = {}

-----------------------------------------------------------------------------
(* RemoteExecCommand.Data: name, path, and the two lists.                  *)

Int16(n)   == <<n % 256, (n \div 256) % 256>>
PutText(s) == Int16(Len(s)) \o s
PutList(l) == LET put[i \in 0..Len(l)] == IF i = 0 THEN Int16(Len(l)) ELSE put[i - 1] \o PutText(l[i])
              IN put[Len(l)]
Data(x)    == PutText(x.name) \o PutText(x.path) \o PutList(x.args) \o PutList(x.env)

-----------------------------------------------------------------------------
(* The factory's thread.  An exception on either thread ends the program.  *)

At(pc) == main = pc

(* The next turn of RemoteExec: a new RemoteExecutionInfo, whose status is *)
(* Success until it is assigned.                                           *)
Turn(last) ==
  /\ At("next") /\ current < last
  /\ current' = current + 1
  /\ info' = [program |-> current + 1, status |-> "Success", set |-> FALSE]
  /\ main' = "subscribe"
  /\ UNCHANGED <<script, processes, pid, toAgent, toClient, handler, device>>

(* Mutant of NewInfo: one turn too many. *)
BugOneTurnMore == Turn(Len(script) + 1)

NewInfo == Turn(Len(script))

AllStarted ==
  /\ At("next") /\ current = Len(script)
  /\ main' = "done"
  /\ UNCHANGED <<script, current, info, processes, pid, toAgent, toClient, handler, device>>

NeedsPid(x) == \E i \in DOMAIN x.args : x.args[i] = PidArg

Running == {[pid |-> p, cmd |-> table[p]] : p \in DOMAIN table}

(* SendCommand begins: processes = null and the delegate that assigns it   *)
(* is registered; the list is only asked for when it is needed.            *)
Subscribe(known) ==
  /\ At("subscribe")
  /\ processes' = known /\ pid' = NoPid
  /\ recent' = Running
  /\ main' = IF ~NeedsPid(script[current]) THEN "send"
             ELSE IF ~known.known THEN "ask" ELSE "find"
  /\ UNCHANGED <<script, current, info, toAgent, toClient, handler, alive, table, spawned>>

(* Mutant of BeginSend: the processes of the last time are kept. *)
BugKeepsProcesses == Subscribe(processes)

BeginSend == Subscribe(NoList)

(* RemoteProcesses; evt.WaitOne has no timeout. *)
AskProcesses ==
  /\ At("ask")
  /\ toAgent' = Append(toAgent, [kind |-> "PROC", data |-> <<>>])
  /\ main' = "wait processes"
  /\ UNCHANGED <<script, current, info, processes, pid, toClient, handler, device>>

HaveProcesses ==
  /\ At("wait processes") /\ processes.known
  /\ main' = "find"
  /\ UNCHANGED <<script, current, info, processes, pid, toAgent, toClient, handler, device>>

Contains(s, t) == \E o \in 0..Len(s) - Len(t) : SubSeq(s, o + 1, o + Len(t)) = t

(* FindProcess: the first one in the list; none is an exception. *)
FindProcess ==
  /\ At("find")
  /\ LET l     == processes.list
         found == {i \in DOMAIN l : Contains(l[i].cmd, script[current].search)} IN
     IF found = {} THEN main' = "not found" /\ UNCHANGED pid
     ELSE /\ pid' = l[CHOOSE i \in found : \A j \in found : i <= j].pid
          /\ main' = "send"
  /\ UNCHANGED <<script, current, info, processes, toAgent, toClient, handler, device>>

(* SimpleFormatter.  It is applied to path and environment, too; here only *)
(* arguments have a {remote-pid|...}.                                      *)
Formatted(x) ==
  [x EXCEPT !.args = [i \in DOMAIN x.args |-> IF x.args[i] = PidArg THEN <<pid>> ELSE x.args[i]]]

SendExec ==
  /\ At("send")
  /\ toAgent' = Append(toAgent, [kind |-> "EXEC", data |-> Data(Formatted(script[current]))])
  /\ main' = "wait status"
  /\ UNCHANGED <<script, current, info, processes, pid, toClient, handler, device>>

(* SyncEvent.WaitOne (5000), and the test of the status. *)
HaveStatus ==
  /\ At("wait status") /\ info.set
  /\ main' = IF info.status = "Success" THEN "next" ELSE "failed"
  /\ UNCHANGED <<script, current, info, processes, pid, toAgent, toClient, handler, device>>

Timeout ==
  /\ At("wait status") /\ ~info.set
  /\ main' = "timeout"
  /\ UNCHANGED <<script, current, info, processes, pid, toAgent, toClient, handler, device>>

-----------------------------------------------------------------------------
(* The connection's thread, while the program runs.                        *)

Receive(kind) ==
  /\ main \notin Ended /\ handler = NoAnswer
  /\ toClient # <<>> /\ Head(toClient).kind = kind
  /\ toClient' = Tail(toClient)

(* Mutant of StoreStatus: the event is set first. *)
BugSetsFirst ==
  /\ Receive("REXS")
  /\ LET a == Head(toClient) IN
     IF info.program # 0 /\ script[info.program].name = a.name
     THEN info' = [info EXCEPT !.set = TRUE] /\ handler' = a
     ELSE UNCHANGED <<info, handler>>
  /\ UNCHANGED <<script, main, current, processes, pid, toAgent, device>>

(* HandlerExecStatus and the factory's handler: names are compared, status *)
(* and pid are assigned, then the event is set.                            *)
StoreStatus ==
  /\ Receive("REXS")
  /\ LET a == Head(toClient) IN
     IF info.program # 0 /\ script[info.program].name = a.name
     THEN /\ info' = [info EXCEPT !.status = IF a.status = 0 THEN "Success" ELSE "Error"]
          /\ handler' = a
     ELSE UNCHANGED <<info, handler>>
  /\ UNCHANGED <<script, main, current, processes, pid, toAgent, device>>

SetEvent ==
  /\ main \notin Ended /\ handler # NoAnswer
  /\ info' = [info EXCEPT !.set = TRUE]
  /\ handler' = NoAnswer
  /\ UNCHANGED <<script, main, current, processes, pid, toAgent, toClient, device>>

(* HandlerRemoteProcesses: the delegate stores the list and sets evt.  An  *)
(* entry that was not written completely has any id.                       *)
HandlerRemoteProcesses ==
  /\ Receive("RPRC")
  /\ LET a == Head(toClient) IN
     \E n \in 0..Len(a.list) - a.whole, p \in 0..MaxPid :
       /\ n <= 1
       /\ processes' = [known |-> TRUE, garbled |-> a.whole < Len(a.list),
                        list |-> SubSeq(a.list, 1, a.whole)
                                 \o [i \in 1..n |-> [pid |-> p, cmd |-> a.list[a.whole + 1].cmd]]]
  /\ UNCHANGED <<script, main, current, info, pid, toAgent, handler, device>>

(* A list the agent could not write completely may be unreadable. *)
UnreadableProcesses ==
  /\ Receive("RPRC") /\ Head(toClient).whole < Len(Head(toClient).list)
  /\ main' = "crashed"
  /\ UNCHANGED <<script, current, info, processes, pid, toAgent, handler, device>>

-----------------------------------------------------------------------------
(* The agent.                                                              *)

Command(kind) == alive /\ toAgent # <<>> /\ Head(toAgent).kind = kind

(* handler_exec: offsets count from 0, strings are copied by               *)
(* read_string_malloc and lists by read_string_list.  It returns without   *)
(* an answer when the data is shorter than its lengths say, which what     *)
(* Data makes never is.                                                    *)
Int16At(d, o) == d[o + 1] + 256 * d[o + 2]
TextAt(d, o)  == SubSeq(d, o + 3, o + 2 + Int16At(d, o))
Behind(d, o)  == o + 2 + Int16At(d, o)
ItemAt(d, o, n) == LET at[i \in 1..n] == IF i = 1 THEN o + 2 ELSE Behind(d, at[i - 1]) IN at[n]
ListAt(d, o)  == [i \in 1..Int16At(d, o) |-> TextAt(d, ItemAt(d, o, i))]
BehindList(d, o) == LET n == Int16At(d, o) IN IF n = 0 THEN o + 2 ELSE Behind(d, ItemAt(d, o, n))

(* One extra item at index 0: the path. *)
SpawnArgs(path, args) == <<path>> \o args

Parsed(d) ==
  LET path == Behind(d, 0)
      args == Behind(d, path)
      env  == BehindList(d, args) IN
  [name |-> TextAt(d, 0), path |-> TextAt(d, path),
   argv |-> SpawnArgs(TextAt(d, path), ListAt(d, args)), envp |-> ListAt(d, env)]

FreePids == Pid \ DOMAIN table

(* posix_spawn succeeds with a new process, or returns an error. *)
HandlerExec ==
  /\ Command("EXEC")
  /\ toAgent' = Tail(toAgent)
  /\ LET x == Parsed(Head(toAgent).data)
         answer(status) == [kind |-> "REXS", name |-> x.name, status |-> status, list |-> <<>>,
                            whole |-> 0]
         call(ok) == [path |-> x.path, argv |-> x.argv, envp |-> x.envp, ok |-> ok] IN
     \/ /\ FreePids # {}
        /\ \E p \in FreePids :
             /\ \A q \in FreePids : p <= q
             /\ table' = [r \in DOMAIN table \union {p} |-> IF r = p THEN x.path ELSE table[r]]
             /\ recent' = recent \union {[pid |-> p, cmd |-> x.path]}
        /\ spawned' = Append(spawned, call(TRUE))
        /\ toClient' = Append(toClient, answer(0))
     \/ /\ spawned' = Append(spawned, call(FALSE))
        /\ toClient' = Append(toClient, answer(2))
        /\ UNCHANGED <<table, recent>>
  /\ UNCHANGED <<script, factory, handler, alive>>

(* handler_proc lists the processes in the order of their ids. *)
Listings ==
  LET n == Cardinality(DOMAIN table)
      ascending == {ids \in [1..n -> DOMAIN table] : \A i, j \in 1..n : i < j => ids[i] < ids[j]}
  IN {[i \in 1..n |-> [pid |-> ids[i], cmd |-> table[ids[i]]]] : ids \in ascending}

(* Where the entries begin in output_buffer.  An entry whose command does  *)
(* not fit is not written but counted; one whose pid does not fit advances *)
(* by one.                                                                 *)
PidText == 5   \* length of pid=n
EntryAt(l) ==
  LET at[i \in 1..Len(l) + 1] ==
        IF i = 1 THEN 4
        ELSE LET behindCmd == at[i - 1] + 2 + 2 + 4 + Len(l[i - 1].cmd) IN
             behindCmd + 2 + IF ProcBuffer - behindCmd >= PidText + 2 THEN PidText ELSE -1
  IN at
Fitting(l) == {i \in DOMAIN l : ProcBuffer - EntryAt(l)[i] >= 8 + Len(l[i].cmd) + 2 + PidText}
Overrun(l) == \E i \in DOMAIN l : EntryAt(l)[i] + 2 > ProcBuffer

Listed(l) == [kind |-> "RPRC", name |-> <<>>, status |-> 0, list |-> l,
              whole |-> Cardinality(Fitting(l))]

ProcPacket(answer) ==
  /\ Command("PROC")
  /\ toAgent' = Tail(toAgent)
  /\ toClient' = toClient \o answer
  /\ UNCHANGED <<script, factory, handler, device>>

(* Mutant of HandlerProc: it gives up when the buffer is full. *)
BugGivesUp ==
  \E l \in Listings : ProcPacket(IF Fitting(l) = DOMAIN l THEN <<Listed(l)>> ELSE <<>>)

HandlerProc == \E l \in Listings : ProcPacket(<<Listed(l)>>)

(* Writing behind output_buffer may end the agent. *)
BufferOverrun ==
  /\ Command("PROC") /\ \E l \in Listings : Overrun(l)
  /\ alive' = FALSE
  /\ UNCHANGED <<script, factory, toAgent, toClient, handler, table, spawned, recent>>

(* A process of the device ends (external). *)
ProcessEnds(p) ==
  /\ main \notin Ended /\ p \in DOMAIN table
  /\ table' = [q \in DOMAIN table \ {p} |-> table[q]]
  /\ UNCHANGED <<script, factory, toAgent, toClient, handler, alive, spawned, recent>>

-----------------------------------------------------------------------------
Factory == \/ NewInfo \/ AllStarted \/ BeginSend \/ AskProcesses \/ HaveProcesses
           \/ FindProcess \/ SendExec \/ HaveStatus
Connection == StoreStatus \/ SetEvent \/ HandlerRemoteProcesses \/ UnreadableProcesses
Agent == HandlerExec \/ HandlerProc \/ BufferOverrun

Next == Factory \/ Timeout \/ Connection \/ Agent \/ \E p \in Pid : ProcessEnds(p)

Spec == Init /\ [][Next]_vars

(* Each thread goes on when it can, and five seconds pass. *)
FairSpec == Spec /\ WF_vars(Factory \/ Timeout) /\ WF_vars(Connection) /\ WF_vars(Agent)

-----------------------------------------------------------------------------
(* The state of both sides.  Packet data is a sequence of bytes, lists are *)
(* of processes with ids in the bound.                                     *)
Process == [pid: 0..MaxPid, cmd: Text]
Answer  == [kind: {"REXS", "RPRC"}, name: Text, status: Nat, list: Seq(Process), whole: Nat]

TypeOK ==
  /\ script \in Scripts
  /\ main \in Ended \union {"next", "subscribe", "ask", "wait processes", "find", "send", "wait status"}
  /\ current \in 0..Len(script)
  /\ info \in [program: 0..Len(script), status: Status, set: BOOLEAN]
  /\ processes \in [known: BOOLEAN, garbled: BOOLEAN, list: Seq(Process)]
  /\ pid \in 0..MaxPid
  /\ toAgent \in Seq([kind: {"PROC", "EXEC"}, data: Seq(Byte)])
  /\ toClient \in Seq(Answer)
  /\ handler \in Answer \union {NoAnswer}
  /\ alive \in BOOLEAN
  /\ DOMAIN table \subseteq Pid /\ \A p \in DOMAIN table : table[p] \in Text
  /\ \A i \in DOMAIN spawned :
       spawned[i] \in [path: Text, argv: Seq(Text), envp: Seq(Text), ok: BOOLEAN]
  /\ recent \subseteq Process

(* A program the factory goes on from was started: posix_spawn was called  *)
(* once for each program so far, in their order, with the path, the path   *)
(* before the arguments, and the environment of the configuration, and     *)
(* succeeded.  An argument {remote-pid|...} became some process id.        *)
StartedAs(x, call) ==
  /\ call.ok /\ call.path = x.path /\ call.envp = x.env
  /\ Len(call.argv) = Len(x.args) + 1 /\ call.argv[1] = x.path
  /\ \A i \in DOMAIN x.args :
       \/ call.argv[i + 1] = x.args[i]
       \/ x.args[i] = PidArg /\ \E p \in 0..MaxPid : call.argv[i + 1] = <<p>>

SuccessMeansStarted ==
  LET behind == IF main \in {"next", "done"} THEN current ELSE current - 1 IN
  main \notin Ended \ {"done"} =>
    /\ Len(spawned) \in behind..current
    /\ \A i \in 1..behind : StartedAs(script[i], spawned[i])

(* The id sent in place of {remote-pid|...} is that of a process whose     *)
(* command contains the text, and which was running at some time since     *)
(* this SendCommand began, unless the agent had no room for the list.      *)
PidFresh ==
  At("wait status") /\ NeedsPid(script[current]) /\ ~processes.garbled =>
    \E r \in recent : r.pid = pid /\ Contains(r.cmd, script[current].search)

(* Starting the programs ends, in success or with an error, as long as the *)
(* agent lives: the wait for the process list, which has no timeout, is    *)
(* always answered.                                                        *)
ExecEnds == <>(main \in Ended \/ ~alive)
===============================================================================
