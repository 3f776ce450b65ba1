--------------------------- MODULE GdbCommandQueue ----------------------------
(***************************************************************************)
(* GDBSubProcess and the callers of GDBConnector: the queue of gdb         *)
(* commands, the thread that reads gdb's output, and the response handlers *)
(* that turn output into answers for the threads that wait for them.       *)
(*                                                                         *)
(* gdb is external: it takes one command, prints lines and then a prompt.  *)
(* A line is what a handler can tell of it: the text its command's handler *)
(* looks for ("answer"), a stop report, or other text ("noise"); a line    *)
(* that continues the one before it (leading blank) is part of that line.  *)
(*                                                                         *)
(* _commands is held for the whole of ProcessQueue, ReceivedNewLine and    *)
(* the prompt block of ReadThread, callbacks included: one step each.      *)
(* QueueCommand takes it twice, so it is two steps.                        *)
(***************************************************************************)
EXTENDS Integers, Sequences, FiniteSets

CONSTANTS
  Callers,      \* the threads that use the connector
  Uses,         \* Uses[c]: the command classes caller c issues
  Surprises,    \* what gdb may do that the handlers do not expect:
                \* "refusal" (no line a handler knows), "signal" (a signal
                \* SignalEnum does not name), "breakpoint" (a stop at one
                \* the connector did not set)
  MaxCommands,  \* bound: no call begins once so many commands were queued
  MaxNoise      \* bound: noise lines in a row

(* The commands.  SimpleCmd is the "y" that confirms a run; a command      *)
(* without a response handler is like RecordCmd or SetCmd.                 *)
FileCmd                   == "file"
AttachCmd                 == "attach"
TargetCmd                 == "target"
ContinueCmd               == "continue"
RunCmd                    == "run"
SimpleCmd                 == "yes"
InfoLineCmd               == "line"
InfoAddressCmd            == "address"
WhatIsCmd                 == "whatis"
ExamineCmd                == "examine"
RestoreCmd                == "restore"
DeleteBreakpointCmd       == "delete"
ReadMemoryCmd             == "read"
InfoFrameCmd              == "frame"
InfoScopeCmd              == "scope"
InfoFunctionsCmd          == "functions"
SetBreakpointCmd          == "break"
SetBreakpointNameCmd      == "breakname"
MaintPrintRawRegistersCmd == "registers"
RecordSaveCmd             == "save"
MaintArchitectureCmd      == "architecture"
PrintCmd                  == "print"
RecordCmd                 == "record"
SetCmd                    == "set"

(* The commands by the way their response handler decides. *)
AnyResponse   == {RestoreCmd, DeleteBreakpointCmd}
FirstLine     == {WhatIsCmd, ExamineCmd}
Search        == {FileCmd, AttachCmd, TargetCmd, ContinueCmd, RunCmd, SimpleCmd}
SearchOrMore  == {InfoLineCmd}
SearchOnce    == {InfoAddressCmd}
Collect       == {SetBreakpointCmd, SetBreakpointNameCmd, ReadMemoryCmd, InfoFrameCmd,
                  InfoScopeCmd, InfoFunctionsCmd, MaintPrintRawRegistersCmd, RecordSaveCmd}
CollectKnown  == {MaintArchitectureCmd}
CollectSearch == {PrintCmd}
NoHandler     == {RecordCmd, SetCmd}
Class == AnyResponse \union FirstLine \union Search \union SearchOrMore \union SearchOnce
           \union Collect \union CollectKnown \union CollectSearch \union NoHandler

(* What the caller of the connector blocks on after queueing the command:  *)
(* nothing, CommandFinishedEvent, _gdbStopEventHandler, else its callback. *)
AwaitsNothing == {DeleteBreakpointCmd, RecordCmd, SetCmd}
AwaitsFinish  == {RestoreCmd, RecordSaveCmd, MaintPrintRawRegistersCmd}
AwaitsStop    == {ContinueCmd}

ASSUME CallersAssumption ==
  /\ Uses \in [Callers -> SUBSET (Class \ {RunCmd, SimpleCmd})]
  /\ Surprises \subseteq {"refusal", "signal", "breakpoint"}
  /\ MaxCommands \in Nat /\ MaxNoise \in Nat

VARIABLES
  proc,     \* the fields of GDBSubProcess and GDBConnector, see Proc
  caller,   \* what each caller is doing
  lastLine, \* ReadThread: the complete line not delivered yet, or Nothing
  output,   \* gdb's standard output, not yet read
  alive     \* gdb has a process to continue

vars == <<proc, caller, lastLine, output, alive>>

Nothing == [kind |-> "nothing"]
Prompt  == [kind |-> "prompt"]
StopKind == {"break", "symbol", "foreign", "exit", "signal", "unknown", "history"}
LineKind == {"answer", "notrun", "already", "addr", "noise"} \union StopKind

Command == [id: Nat \ {0}, class: Class, by: Callers]
Line    == [kind: LineKind, of: Command]
NoStop  == [id |-> 0, addr |-> FALSE]
Stop    == [id: Nat, addr: BOOLEAN]  \* of the command that led to it
Idle    == [pc |-> "idle", class |-> SetCmd, id |-> 0]

(* issued, callbacks and misplaced are history.                            *)
Proc == [queue: Seq(Command),            \* _commands
         ready: BOOLEAN,                 \* _gdbReadyForInput
         current: Command \union {Nothing}, \* _currentCommand
         lines: Seq(Line),               \* currentLines of ReadThread
         input: Seq(Command),            \* written to gdb, not yet taken
         called: SUBSET Nat,             \* commands whose callback set the event
         finished: SUBSET Nat,           \* commands CommandFinished was called of
         stopSet: BOOLEAN,               \* _gdbStopEventHandler
         lastStop: Stop,                 \* _lastDebuggerStop
         dead: BOOLEAN,                  \* ReadThread ended by an exception
         issued: Nat,                    \* commands created
         callbacks: Seq([id: Nat, of: SUBSET Nat]), \* calls and the lines they saw
         misplaced: BOOLEAN]             \* a line was requested at the prompt

TypeOK ==
  /\ proc \in Proc
  /\ caller \in [Callers -> [pc: {"idle", "queued", "waiting"}, class: Class, id: Nat]]
  /\ lastLine \in Line \union {Nothing}
  /\ output \in Seq(Line \union {Prompt})
  /\ alive \in BOOLEAN

(* gdb has been started and prints its first prompt. *)
Init ==
  /\ proc = [queue |-> <<>>, ready |-> FALSE, current |-> Nothing, lines |-> <<>>,
             input |-> <<>>, called |-> {}, finished |-> {}, stopSet |-> FALSE,
             lastStop |-> NoStop, dead |-> FALSE, issued |-> 0, callbacks |-> <<>>,
             misplaced |-> FALSE]
  /\ caller = [c \in Callers |-> Idle]
  /\ lastLine = Nothing /\ output = <<Prompt>> /\ alive = FALSE
-----------------------------------------------------------------------------
(* The response handlers.  HandleResponse returns what the handler decided *)
(* and whether it called its callback; "queues" is the command class it or *)
(* its callback queues, SetCmd for none (no handler queues that one).       *)

Reply(result, calls, queues) == [result |-> result, calls |-> calls, queues |-> queues]
Handled     == Reply("Handled", TRUE, SetCmd)
HandledMute == Reply("Handled", FALSE, SetCmd)
NotHandled  == Reply("NotHandled", FALSE, SetCmd)
RequestLine == Reply("RequestLine", FALSE, SetCmd)
Throws      == Reply("throws", FALSE, SetCmd)

(* The first line of one of these kinds; 0 when there is none. *)
FirstOf(ls, kinds) ==
  LET at == {i \in 1..Len(ls) : ls[i].kind \in kinds} IN
  IF at = {} THEN 0 ELSE CHOOSE i \in at : \A j \in at : i <= j

Answered(c, ls) == \E i \in 1..Len(ls) : ls[i].kind = "answer" /\ ls[i].of.class = c.class

(* foreach line: the text looked for, else this line is not for us. *)
SearchLines(c, ls) == IF Answered(c, ls) THEN Handled ELSE NotHandled
FileRH(c, ls)   == SearchLines(c, ls)
AttachRH(c, ls) == SearchLines(c, ls)
TargetRH(c, ls) == SearchLines(c, ls)

(* The first line that is the answer or the objection decides.             *)
AnswerOr(c, ls, objection, queues) ==
  LET i == FirstOf(ls, {"answer", objection}) IN
  IF i = 0 \/ (ls[i].kind = "answer" /\ ls[i].of.class # c.class) THEN NotHandled
  ELSE IF ls[i].kind = "answer" THEN Handled
  ELSE Reply("Handled", FALSE, queues)

ContinueRH(c, ls) == AnswerOr(c, ls, "notrun", RunCmd)
RunRH(c, ls)      == AnswerOr(c, ls, "already", SimpleCmd)

InfoLineRH(c, ls) == IF Answered(c, ls) THEN Handled ELSE RequestLine
InfoAddressRH(c, ls) == IF Answered(c, ls) THEN Handled ELSE HandledMute

(* responseLines[0], whatever it says. *)
FirstResponseLine(ls) == IF ls = <<>> THEN Throws ELSE Handled
WhatIsRH(ls)  == FirstResponseLine(ls)
ExamineRH(ls) == FirstResponseLine(ls)

RestoreRH == HandledMute
DeleteBreakpointRH == HandledMute

(* As many lines as gdb prints, then the callback whatever they say. *)
CollectLines(allow) == IF allow THEN RequestLine ELSE Handled
ReadMemoryRH(allow)    == CollectLines(allow)
BugAsksAgain(allow)    == RequestLine   \* mutant of InfoFrameRH
InfoFrameRH(allow)     == CollectLines(allow)
InfoScopeRH(allow)     == CollectLines(allow)
InfoFunctionsRH(allow) == CollectLines(allow)
SetBreakpointRH(allow) == CollectLines(allow)
MaintPrintRawRegistersRH(allow) == IF allow THEN RequestLine ELSE HandledMute
RecordSaveRH(allow)    == IF allow THEN RequestLine ELSE HandledMute

(* The callback of Connect sets its event only for "bfd_arch_info".        *)
MaintArchitectureRH(c, ls, allow) ==
  IF allow THEN RequestLine ELSE IF Answered(c, ls) THEN Handled ELSE HandledMute

PrintRH(c, ls, allow) == IF allow THEN RequestLine ELSE SearchLines(c, ls)

(* ResolveSymbolToBreakpointAddress: a breakpoint was set, delete it again. *)
SetBreakpointName(c, ls, allow) ==
  IF ~allow /\ Answered(c, ls) THEN Reply("Handled", TRUE, DeleteBreakpointCmd)
  ELSE SetBreakpointRH(allow)

HandleResponse(c, ls, allow) ==
  CASE c.class = FileCmd                   -> FileRH(c, ls)
    [] c.class = AttachCmd                 -> AttachRH(c, ls)
    [] c.class = TargetCmd                 -> TargetRH(c, ls)
    [] c.class = ContinueCmd               -> ContinueRH(c, ls)
    [] c.class \in {RunCmd, SimpleCmd}        -> RunRH(c, ls)
    [] c.class = InfoLineCmd               -> InfoLineRH(c, ls)
    [] c.class = InfoAddressCmd            -> InfoAddressRH(c, ls)
    [] c.class = WhatIsCmd                 -> WhatIsRH(ls)
    [] c.class = ExamineCmd                -> ExamineRH(ls)
    [] c.class = RestoreCmd                -> RestoreRH
    [] c.class = DeleteBreakpointCmd       -> DeleteBreakpointRH
    [] c.class = ReadMemoryCmd             -> ReadMemoryRH(allow)
    [] c.class = InfoFrameCmd              -> InfoFrameRH(allow)
    [] c.class = InfoScopeCmd              -> InfoScopeRH(allow)
    [] c.class = InfoFunctionsCmd          -> InfoFunctionsRH(allow)
    [] c.class = SetBreakpointCmd          -> SetBreakpointRH(allow)
    [] c.class = SetBreakpointNameCmd      -> SetBreakpointName(c, ls, allow)
    [] c.class = MaintPrintRawRegistersCmd -> MaintPrintRawRegistersRH(allow)
    [] c.class = RecordSaveCmd             -> RecordSaveRH(allow)
    [] c.class = MaintArchitectureCmd      -> MaintArchitectureRH(c, ls, allow)
    [] c.class = PrintCmd                  -> PrintRH(c, ls, allow)

-----------------------------------------------------------------------------
(* GDBSubProcess, as functions of its fields.                              *)

Enqueue(p, class, by) ==
  [p EXCEPT !.queue = Append(@, [id |-> p.issued + 1, class |-> class, by |-> by]),
            !.issued = @ + 1]

(* Mutant: gdb is still taken to be ready after a command was written. *)
BugStaysReady(p) ==
  IF p.queue = <<>> \/ ~p.ready THEN p
  ELSE [p EXCEPT !.queue = Tail(@), !.input = Append(@, Head(p.queue)), !.current = Head(p.queue)]

ProcessQueue(p) ==
  IF p.queue = <<>> \/ ~p.ready THEN p
  ELSE LET c == Head(p.queue)
           mute == c.class \in NoHandler IN
       [p EXCEPT !.queue = Tail(@), !.ready = FALSE, !.input = Append(@, c),
                 !.current = IF mute THEN Nothing ELSE c,
                 !.finished = IF mute THEN @ \union {c.id} ELSE @]

QueueCommand(p, class, by) == ProcessQueue(Enqueue(p, class, by))

(* What the handler of the current command calls: its callback, with the   *)
(* lines it has, and the command that is queued on the way.                *)
Callback(p, r) ==
  LET c == p.current
      q == IF r.calls
           THEN [p EXCEPT !.called = @ \union {c.id},
                          !.callbacks = Append(@, [id |-> c.id,
                            of |-> {p.lines[i].of.id : i \in 1..Len(p.lines)}])]
           ELSE p
  IN IF r.queues = SetCmd THEN q ELSE QueueCommand(q, r.queues, c.by)

(* Mutant: the lines of the response outlive it. *)
BugKeepsLines(p) ==
  [p EXCEPT !.finished = @ \union {p.current.id}, !.current = Nothing]

(* "_currentCommand.CommandFinished()", of the command that is current     *)
(* now.  A null reference is raised again by the exception handler's own   *)
(* use of _currentCommand and ends ReadThread.                             *)
FinishCurrent(p) ==
  IF p.current = Nothing THEN [p EXCEPT !.dead = TRUE]
  ELSE [p EXCEPT !.finished = @ \union {p.current.id}, !.current = Nothing, !.lines = <<>>]

(* The handler of the command gdb was given last.  What it throws is       *)
(* logged and forgotten, as is a line it requests at the prompt.           *)
CurrentHandler(p) ==
  LET r == HandleResponse(p.current, p.lines, ~p.ready) IN
  IF r.result = "Handled" THEN FinishCurrent(Callback(p, r))
  ELSE [p EXCEPT !.misplaced = @ \/ (r.result = "RequestLine" /\ p.ready)]

GdbStopped(p, i, addr) ==
  [p EXCEPT !.lastStop = [id |-> p.lines[i].of.id, addr |-> addr],
            !.stopSet = TRUE, !.lines = <<>>]

(* The address line that may follow the line i of a signal or of the end   *)
(* of the record.                                                          *)
AddressAfter(ls, i) == \E j \in i + 1..Len(ls) : ls[j].kind = "addr"

BreakpointRH(p, i) ==
  IF p.lines[i].kind = "foreign" THEN [p EXCEPT !.lines = <<>>]
  ELSE GdbStopped(p, i, p.lines[i].kind = "break")

ExitRH(p, i) == GdbStopped(p, i, FALSE)

(* Mutant: a signal without an address line is waited for even at the prompt. *)
BugInsistsOnAddress(p, i) ==
  IF ~AddressAfter(p.lines, i) THEN p ELSE GdbStopped(p, i, TRUE)

(* Waits for the address as long as lines may come; Enum.Parse throws for  *)
(* a name SignalEnum does not have, and nothing catches it but ReadThread. *)
SignalRH(p, i) ==
  IF ~AddressAfter(p.lines, i) /\ ~p.ready THEN p
  ELSE IF p.lines[i].kind = "unknown" THEN [p EXCEPT !.dead = TRUE]
  ELSE GdbStopped(p, i, AddressAfter(p.lines, i))

RecordLogRH(p, i) ==
  IF ~AddressAfter(p.lines, i) /\ ~p.ready THEN p
  ELSE GdbStopped(p, i, AddressAfter(p.lines, i))

UnhandledRH(p) == [p EXCEPT !.lines = <<>>]

(* The permanent handlers in the order GDBConnector registers them.        *)
PermanentHandlers(p) ==
  LET breakpoint == FirstOf(p.lines, {"break", "symbol", "foreign"})
      exit       == FirstOf(p.lines, {"exit"})
      signal     == FirstOf(p.lines, {"signal", "unknown"})
      history    == FirstOf(p.lines, {"history"})
  IN CASE breakpoint # 0 -> BreakpointRH(p, breakpoint)
       [] breakpoint = 0 /\ exit # 0 -> ExitRH(p, exit)
       [] breakpoint = 0 /\ exit = 0 /\ signal # 0 -> SignalRH(p, signal)
       [] breakpoint = 0 /\ exit = 0 /\ signal = 0 /\ history # 0 -> RecordLogRH(p, history)
       [] OTHER -> UnhandledRH(p)

ReceivedNewLine(p) ==
  IF p.current # Nothing THEN CurrentHandler(p) ELSE PermanentHandlers(p)

Deliver(p, line) == ReceivedNewLine([p EXCEPT !.lines = Append(@, line)])

(* Mutant: the prompt does not send the next command. *)
BugPromptSendsNothing(p) == ReceivedNewLine([p EXCEPT !.ready = TRUE])

(* The prompt block of ReadThread. *)
AtPrompt(p) ==
  LET q == ReceivedNewLine([p EXCEPT !.ready = TRUE]) IN
  IF q.dead THEN q ELSE ProcessQueue(q)

-----------------------------------------------------------------------------
(* ReadThread.                                                             *)

(* Mutant: a line is delivered even when there was none before. *)
BugDeliversNothing ==
  /\ ~proc.dead /\ output # <<>> /\ Head(output) # Prompt
  /\ proc' = Deliver(proc, lastLine)
  /\ lastLine' = Head(output) /\ output' = Tail(output)
  /\ UNCHANGED <<caller, alive>>

(* The first character of a line delivers the line before it. *)
ReadLine ==
  /\ ~proc.dead /\ output # <<>> /\ Head(output) # Prompt
  /\ proc' = IF lastLine = Nothing THEN proc ELSE Deliver(proc, lastLine)
  /\ lastLine' = Head(output) /\ output' = Tail(output)
  /\ UNCHANGED <<caller, alive>>

(* So does the first character of the prompt, before the lock is taken.    *)
ReadPromptStart ==
  /\ ~proc.dead /\ output # <<>> /\ Head(output) = Prompt /\ lastLine # Nothing
  /\ proc' = Deliver(proc, lastLine)
  /\ lastLine' = Nothing
  /\ UNCHANGED <<caller, output, alive>>

ReadPrompt ==
  /\ ~proc.dead /\ output # <<>> /\ Head(output) = Prompt /\ lastLine = Nothing
  /\ proc' = AtPrompt(proc)
  /\ output' = Tail(output)
  /\ UNCHANGED <<caller, lastLine, alive>>

-----------------------------------------------------------------------------
(* gdb (external).  It takes a command when it has printed the prompt and  *)
(* prints its whole response and the next prompt.                          *)

Noise == UNION {[1..n -> {"noise"}] : n \in 0..MaxNoise}
Around(middle) == {pre \o m \o post : pre \in Noise, m \in middle, post \in Noise}

StopReport ==
  {<<"break">>, <<"symbol">>, <<"exit">>, <<"signal">>, <<"signal", "addr">>,
   <<"signal", "noise", "addr">>, <<"history">>, <<"history", "addr">>}
  \union (IF "signal" \in Surprises THEN {<<"unknown">>, <<"unknown", "addr">>} ELSE {})
  \union (IF "breakpoint" \in Surprises THEN {<<"foreign">>} ELSE {})

(* What gdb prints for a command of the class, as the handlers expect it:  *)
(* a search finds its line, the others find it first or need none.         *)
Expected(class) ==
  IF class \in (Search \ {ContinueCmd, RunCmd, SimpleCmd}) \union SearchOrMore \union CollectKnown
                 \union CollectSearch
    THEN Around({<<"answer">>})
  ELSE IF class = ContinueCmd /\ ~alive THEN {<<"notrun">>}
  ELSE IF class \in {ContinueCmd, RunCmd, SimpleCmd}
    THEN {<<"answer">> \o r : r \in Around(StopReport)}
  ELSE IF class \in FirstLine \union SearchOnce THEN {<<"answer">> \o n : n \in Noise}
  ELSE IF class \in Collect THEN Around({<<"answer">>}) \union Noise
  ELSE Noise

Responses(class) ==
  Expected(class) \union (IF "refusal" \in Surprises THEN Noise ELSE {})

Ran(response)    == \E i \in 1..Len(response) : response[i] \in StopKind
Exited(response) == \E i \in 1..Len(response) : response[i] = "exit"

GdbAnswers ==
  /\ proc.input # <<>>
  /\ LET c == Head(proc.input) IN
     \E r \in Responses(c.class) :
       /\ output' = output \o [i \in 1..Len(r) |-> [kind |-> r[i], of |-> c]] \o <<Prompt>>
       /\ alive' = IF Ran(r) THEN ~Exited(r) ELSE alive
  /\ proc' = [proc EXCEPT !.input = Tail(@)]
  /\ UNCHANGED <<caller, lastLine>>

-----------------------------------------------------------------------------
(* The callers: a method of GDBConnector queues a command and waits.       *)

(* Mutant: DebugContinue does not reset the stop event. *)
BugNoReset(c, class) ==
  /\ caller[c].pc = "idle" /\ class \in Uses[c] /\ proc.issued < MaxCommands
  /\ proc' = Enqueue(proc, class, c)
  /\ caller' = [caller EXCEPT ![c] = [pc |-> "queued", class |-> class, id |-> proc.issued + 1]]
  /\ UNCHANGED <<lastLine, output, alive>>

(* The first half of QueueCommand; DebugContinue resets the event before.  *)
Issue(c, class) ==
  /\ caller[c].pc = "idle" /\ class \in Uses[c] /\ proc.issued < MaxCommands
  /\ proc' = Enqueue([proc EXCEPT !.stopSet = @ /\ class \notin AwaitsStop], class, c)
  /\ caller' = [caller EXCEPT ![c] = [pc |-> "queued", class |-> class, id |-> proc.issued + 1]]
  /\ UNCHANGED <<lastLine, output, alive>>

(* Its second half. *)
Process(c) ==
  /\ caller[c].pc = "queued"
  /\ proc' = ProcessQueue(proc)
  /\ caller' = IF caller[c].class \in AwaitsNothing THEN [caller EXCEPT ![c] = Idle]
               ELSE [caller EXCEPT ![c].pc = "waiting"]
  /\ UNCHANGED <<lastLine, output, alive>>

(* The event caller c waits for is set. *)
Woken(c) ==
  IF caller[c].class \in AwaitsStop THEN proc.stopSet
  ELSE caller[c].id \in (IF caller[c].class \in AwaitsFinish THEN proc.finished ELSE proc.called)

Return(c) ==
  /\ caller[c].pc = "waiting" /\ Woken(c)
  /\ caller[c].class \in AwaitsStop => proc.lastStop.addr
  /\ caller' = [caller EXCEPT ![c] = Idle]
  /\ UNCHANGED <<proc, lastLine, output, alive>>

(* DebugContinue asks for $pc when the stop came without an address.       *)
AskForPc(c) ==
  /\ caller[c].pc = "waiting" /\ caller[c].class \in AwaitsStop
  /\ Woken(c) /\ ~proc.lastStop.addr
  /\ proc' = Enqueue(proc, PrintCmd, c)
  /\ caller' = [caller EXCEPT ![c] = [pc |-> "queued", class |-> PrintCmd, id |-> proc.issued + 1]]
  /\ UNCHANGED <<lastLine, output, alive>>

Reader == ReadLine \/ ReadPromptStart \/ ReadPrompt

Caller(c) == (\E class \in Class : Issue(c, class)) \/ Process(c) \/ Return(c) \/ AskForPc(c)

Next == Reader \/ GdbAnswers \/ \E c \in Callers : Caller(c)

Spec == Init /\ [][Next]_vars

(* ReadThread and the callers are threads of their own, gdb answers what   *)
(* it is given (a target that never stops keeps its caller for good).      *)
FairSpec ==
  /\ Spec
  /\ WF_vars(Reader) /\ WF_vars(GdbAnswers)
  /\ \A c \in Callers : WF_vars(Process(c) \/ Return(c) \/ AskForPc(c))

-----------------------------------------------------------------------------
(* Properties.                                                             *)

(* gdb is never sent a command before the prompt that ends the response to *)
(* the one before it was read: ready means that nothing is under way, and  *)
(* otherwise either one command was written and nothing is left to read,   *)
(* or gdb has taken it and its output ends with the only prompt.           *)
OneOutstanding ==
  ~proc.dead =>
    IF proc.ready THEN proc.input = <<>> /\ output = <<>> /\ lastLine = Nothing
    ELSE \/ Len(proc.input) = 1 /\ output = <<>> /\ lastLine = Nothing
         \/ /\ proc.input = <<>> /\ output # <<>>
            /\ \A i \in 1..Len(output) : output[i] = Prompt <=> i = Len(output)

(* A callback is called at most once for a command, and only with lines    *)
(* gdb printed for that command: nothing a response left behind in         *)
(* currentLines reaches the handler of the next command.                   *)
CallbacksAttributed ==
  \A i \in 1..Len(proc.callbacks) :
    /\ proc.callbacks[i].of \subseteq {proc.callbacks[i].id}
    /\ \A j \in 1..Len(proc.callbacks) :
         proc.callbacks[i].id = proc.callbacks[j].id => i = j

(* A caller whose event is not set has its command queued, or gdb still    *)
(* owes a prompt: nobody waits for an answer that was already consumed.    *)
WaitersServed ==
  \A c \in Callers : caller[c].pc = "waiting" /\ ~Woken(c) =>
    \/ ~proc.ready /\ ~proc.dead
    \/ proc.queue # <<>> /\ \E d \in Callers : caller[d].pc = "queued"

(* The stop DebugContinue returns is one its own continue (or the run that *)
(* replaced it) led to, never one left from before the event was reset.    *)
StopIsOwn ==
  \A c \in Callers :
    caller[c].pc = "waiting" /\ caller[c].class \in AwaitsStop /\ proc.stopSet
      => proc.lastStop.id >= caller[c].id

(* Every call of the connector returns.                                    *)
CallsReturn == \A c \in Callers : caller[c].pc = "waiting" ~> caller[c].pc # "waiting"

(* ITargetConnector.cs:116: DebugContinue "continues from the current      *)
(* position, to the next break": it returns once the target has stopped.   *)
ContinueReturns ==
  \A c \in Callers :
    caller[c].pc = "waiting" /\ caller[c].class \in AwaitsStop ~> caller[c].pc # "waiting"

(* No handler asks for another line at the prompt, where none can come     *)
(* ("Wrong behaviour", GDBSubProcess.cs:328): it would stay current and be *)
(* given the lines of nobody's command.                                    *)
NoRequestAtPrompt == ~proc.misplaced
===============================================================================
