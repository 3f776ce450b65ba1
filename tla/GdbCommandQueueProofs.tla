------------------------ MODULE GdbCommandQueueProofs -------------------------
(***************************************************************************)
(* GdbCommandQueue, for any set of callers and any commands they use:      *)
(*   - it is type correct and never has two commands under way, whatever   *)
(*     gdb prints (QueueInv);                                              *)
(*   - every callback is called once, with lines of its own command, when  *)
(*     gdb refuses nothing (AnswerInv);                                    *)
(*   - the stop DebugContinue returns is one it asked for, when besides    *)
(*     only one thread continues the target (StopInv);                     *)
(*   - nobody waits in vain, when besides gdb does nothing unexpected and  *)
(*     a breakpoint is resolved by name while no other thread uses the     *)
(*     connector (WaitInv).                                                *)
(* Each invariant rests on the ones before it.                             *)
(***************************************************************************)
EXTENDS GdbCommandQueue, SequenceTheorems, WellFoundedInduction, TLAPS

USE DEF FileCmd, AttachCmd, TargetCmd, ContinueCmd,
        RunCmd, SimpleCmd, InfoLineCmd, InfoAddressCmd,
        WhatIsCmd, ExamineCmd, RestoreCmd, DeleteBreakpointCmd,
        ReadMemoryCmd, InfoFrameCmd, InfoScopeCmd, InfoFunctionsCmd,
        SetBreakpointCmd, SetBreakpointNameCmd, MaintPrintRawRegistersCmd, RecordSaveCmd,
        MaintArchitectureCmd, PrintCmd, RecordCmd, SetCmd

(* A command that is kept as the current one has a response handler.       *)
CurrentHasHandler(p) == p.current = Nothing \/ p.current.class \notin NoHandler

ReplyType == [result: {"Handled", "NotHandled", "RequestLine", "throws"},
              calls: BOOLEAN, queues: Class]

(* Every handler of a command answers with a reply. *)
LEMMA HandleResponseType ==
  ASSUME NEW c \in Command, NEW ls, NEW allow \in BOOLEAN, c.class \notin NoHandler
  PROVE  HandleResponse(c, ls, allow) \in ReplyType
<1> DEFINE r == HandleResponse(c, ls, allow)
<1>1. {Handled, HandledMute, NotHandled, RequestLine, Throws} \subseteq ReplyType
  BY DEF Handled, HandledMute, NotHandled, RequestLine, Throws, Reply, ReplyType, Class, NoHandler
<1>2. /\ Reply("Handled", FALSE, RunCmd) \in ReplyType
      /\ Reply("Handled", FALSE, SimpleCmd) \in ReplyType
      /\ Reply("Handled", TRUE, DeleteBreakpointCmd) \in ReplyType
  BY DEF Reply, ReplyType, Class, Search, AnyResponse
<1>3. /\ SearchLines(c, ls) \in ReplyType /\ FirstResponseLine(ls) \in ReplyType
      /\ CollectLines(allow) \in ReplyType
  BY <1>1 DEF SearchLines, FirstResponseLine, CollectLines
<1>4. /\ ContinueRH(c, ls) \in ReplyType /\ RunRH(c, ls) \in ReplyType
      /\ InfoLineRH(c, ls) \in ReplyType /\ InfoAddressRH(c, ls) \in ReplyType
  BY <1>1, <1>2 DEF ContinueRH, RunRH, AnswerOr, InfoLineRH, InfoAddressRH
<1>5. /\ MaintPrintRawRegistersRH(allow) \in ReplyType /\ RecordSaveRH(allow) \in ReplyType
      /\ MaintArchitectureRH(c, ls, allow) \in ReplyType /\ PrintRH(c, ls, allow) \in ReplyType
      /\ SetBreakpointName(c, ls, allow) \in ReplyType
  BY <1>1, <1>2, <1>3 DEF MaintPrintRawRegistersRH, RecordSaveRH, MaintArchitectureRH, PrintRH,
    SetBreakpointName, SetBreakpointRH
<1>6. /\ FileRH(c, ls) \in ReplyType /\ AttachRH(c, ls) \in ReplyType /\ TargetRH(c, ls) \in ReplyType
      /\ WhatIsRH(ls) \in ReplyType /\ ExamineRH(ls) \in ReplyType
      /\ RestoreRH \in ReplyType /\ DeleteBreakpointRH \in ReplyType
      /\ ReadMemoryRH(allow) \in ReplyType /\ InfoFrameRH(allow) \in ReplyType
      /\ InfoScopeRH(allow) \in ReplyType /\ InfoFunctionsRH(allow) \in ReplyType
      /\ SetBreakpointRH(allow) \in ReplyType
  BY <1>1, <1>3 DEF FileRH, AttachRH, TargetRH, WhatIsRH, ExamineRH, RestoreRH, DeleteBreakpointRH,
    ReadMemoryRH, InfoFrameRH, InfoScopeRH, InfoFunctionsRH, SetBreakpointRH
<1>7. c.class \in Class \ NoHandler
  BY DEF Command
<1> QED
  BY <1>4, <1>5, <1>6, <1>7 DEF HandleResponse, Class, AnyResponse, FirstLine, Search, SearchOrMore,
    SearchOnce, Collect, CollectKnown, CollectSearch

(* What Enqueue and ProcessQueue do to the fields, and what they leave. *)
LEMMA EnqueueFrame ==
  ASSUME NEW p \in Proc, NEW class \in Class, NEW by \in Callers
  PROVE  LET q == Enqueue(p, class, by) IN
         /\ q \in Proc /\ q.current = p.current /\ q.input = p.input
         /\ q.ready = p.ready /\ q.dead = p.dead /\ q.lines = p.lines
<1> DEFINE c == [id |-> p.issued + 1, class |-> class, by |-> by]
           q == Enqueue(p, class, by)
<1>1. p.issued \in Nat /\ p.issued + 1 \in Nat
  BY DEF Proc
<1>2. c \in Command
  BY <1>1 DEF Command
<1> HIDE DEF c
<1>3. Append(p.queue, c) \in Seq(Command)
  BY <1>2 DEF Proc
<1>4. q = [p EXCEPT !.queue = Append(p.queue, c), !.issued = p.issued + 1]
  BY DEF Enqueue, c
<1> HIDE DEF q
<1>5. q \in Proc
  BY <1>1, <1>3, <1>4 DEF Proc
<1>6. /\ q.current = p.current /\ q.input = p.input
      /\ q.ready = p.ready /\ q.dead = p.dead /\ q.lines = p.lines
  BY <1>4 DEF Proc
<1> QED
  BY <1>5, <1>6 DEF q

(* ProcessQueue writes one command, and only when gdb was ready. *)
LEMMA ProcessQueueFrame ==
  ASSUME NEW p \in Proc, CurrentHasHandler(p)
  PROVE  LET q == ProcessQueue(p) IN
         /\ q \in Proc /\ CurrentHasHandler(q) /\ q.dead = p.dead
         /\ ~p.ready => q = p
         /\ p.ready => \/ q = p
                       \/ ~q.ready /\ \E c \in Command : q.input = Append(p.input, c)
<1> DEFINE q == ProcessQueue(p)
<1>1. CASE p.queue = <<>> \/ ~p.ready
  BY <1>1 DEF ProcessQueue
<1>2. CASE ~(p.queue = <<>> \/ ~p.ready)
  <2> DEFINE c == Head(p.queue)
             mute == c.class \in NoHandler
  <2>1. c \in Command /\ Tail(p.queue) \in Seq(Command)
    BY <1>2 DEF Proc
  <2>2. q = [p EXCEPT !.queue = Tail(p.queue), !.ready = FALSE, !.input = Append(p.input, c),
                      !.current = IF mute THEN Nothing ELSE c,
                      !.finished = IF mute THEN p.finished \union {c.id} ELSE p.finished]
    BY <1>2 DEF ProcessQueue, Proc
  <2>3. c.id \in Nat
    BY <2>1 DEF Command
  <2>a. Append(p.input, c) \in Seq(Command)
    BY <2>1 DEF Proc
  <2> HIDE DEF c, q
  <2>4. q \in Proc /\ q.dead = p.dead /\ ~q.ready /\ q.input = Append(p.input, c)
    BY <2>1, <2>2, <2>3, <2>a DEF Proc
  <2>5. q.current = IF mute THEN Nothing ELSE c
    BY <2>2 DEF Proc
  <2>6. CurrentHasHandler(q)
    BY <2>5 DEF CurrentHasHandler
  <2> QED
    BY <1>2, <2>1, <2>4, <2>6 DEF q
<1> QED
  BY <1>1, <1>2

(* What a step of GDBSubProcess may do with gdb: nothing while gdb is not  *)
(* ready, else at most write one command and stop being ready.             *)
Sends(p, q) ==
  /\ ~p.ready => ~q.ready /\ q.input = p.input
  /\ p.ready => \/ q.ready /\ q.input = p.input
                \/ ~q.ready /\ \E c \in Command : q.input = Append(p.input, c)

Good(p) == p \in Proc /\ CurrentHasHandler(p)

(* So does a callback, whatever it queues. *)
LEMMA CallbackFrame ==
  ASSUME NEW p, Good(p), p.current # Nothing, NEW r \in ReplyType
  PROVE  Good(Callback(p, r)) /\ Sends(p, Callback(p, r)) /\ Callback(p, r).dead = p.dead
<1> DEFINE c == p.current
           entry == [id |-> c.id, of |-> {p.lines[i].of.id : i \in 1..Len(p.lines)}]
           q == IF r.calls THEN [p EXCEPT !.called = @ \union {c.id}, !.callbacks = Append(@, entry)]
                ELSE p
<1>1. c \in Command /\ c.id \in Nat /\ c.by \in Callers
  BY DEF Good, Proc, Command
<1>2. \A i \in 1..Len(p.lines) : p.lines[i].of.id \in Nat
  <2>1. p.lines \in Seq(Line)
    BY DEF Good, Proc
  <2>2. \A i \in 1..Len(p.lines) : p.lines[i] \in Line
    BY <2>1
  <2> QED
    BY <2>2 DEF Line, Command
<1>3. entry \in [id: Nat, of: SUBSET Nat]
  BY <1>1, <1>2
<1>4. q \in Proc /\ q.current = c /\ q.input = p.input /\ q.ready = p.ready /\ q.dead = p.dead
  <2>1. CASE r.calls
    <3> HIDE DEF entry
    <3>1. q = [p EXCEPT !.called = p.called \union {c.id}, !.callbacks = Append(p.callbacks, entry)]
      BY <2>1
    <3>2. /\ p.called \union {c.id} \in SUBSET Nat
          /\ Append(p.callbacks, entry) \in Seq([id: Nat, of: SUBSET Nat])
      BY <1>1, <1>3 DEF Good, Proc
    <3> HIDE DEF q
    <3> QED
      BY <3>1, <3>2 DEF Good, Proc
  <2>2. CASE ~r.calls
    BY <2>2 DEF Good
  <2> QED
    BY <2>1, <2>2 DEF ReplyType
<1>5. CurrentHasHandler(q)
  BY <1>4 DEF Good, CurrentHasHandler
<1>6. Callback(p, r) = IF r.queues = SetCmd THEN q ELSE QueueCommand(q, r.queues, c.by)
  BY DEF Callback
<1> HIDE DEF q
<1>7. CASE r.queues = SetCmd
  BY <1>4, <1>5, <1>6, <1>7 DEF Good, Sends
<1>8. CASE r.queues # SetCmd
  <2> DEFINE e == Enqueue(q, r.queues, c.by)
  <2>1. r.queues \in Class
    BY DEF ReplyType
  <2>2. e \in Proc /\ e.current = c /\ e.input = p.input /\ e.ready = p.ready /\ e.dead = p.dead
    BY <1>1, <1>4, <2>1, EnqueueFrame
  <2>3. CurrentHasHandler(e)
    BY <1>4, <1>5, <2>2 DEF CurrentHasHandler
  <2>4. Callback(p, r) = ProcessQueue(e)
    BY <1>6, <1>8 DEF QueueCommand
  <2> HIDE DEF e
  <2>5. LET z == ProcessQueue(e) IN
         /\ z \in Proc /\ CurrentHasHandler(z) /\ z.dead = e.dead
         /\ ~e.ready => z = e
         /\ e.ready => \/ z = e
                       \/ ~z.ready /\ \E d \in Command : z.input = Append(e.input, d)
    BY <2>2, <2>3, ProcessQueueFrame
  <2> QED
    BY <2>2, <2>4, <2>5 DEF Good, Sends
<1> QED
  BY <1>7, <1>8

(* Finishing the current command sends nothing. *)
LEMMA FinishFrame ==
  ASSUME NEW p, Good(p)
  PROVE  LET q == FinishCurrent(p) IN
         Good(q) /\ q.ready = p.ready /\ q.input = p.input /\ (p.dead => q.dead)
<1> DEFINE q == FinishCurrent(p)
<1>1. CASE p.current = Nothing
  <2>1. q = [p EXCEPT !.dead = TRUE]
    BY <1>1 DEF FinishCurrent
  <2> QED
    BY <2>1, <1>1 DEF Good, Proc, CurrentHasHandler
<1>2. CASE p.current # Nothing
  <2>1. q = [p EXCEPT !.finished = p.finished \union {p.current.id}, !.current = Nothing,
                      !.lines = <<>>]
    BY <1>2 DEF FinishCurrent
  <2>2. p.finished \union {p.current.id} \in SUBSET Nat
    BY <1>2 DEF Good, Proc, Command
  <2>3. <<>> \in Seq(Line)
    OBVIOUS
  <2> HIDE DEF q
  <2>4. q \in Proc /\ q.current = Nothing /\ q.ready = p.ready /\ q.input = p.input /\ q.dead = p.dead
    BY <2>1, <2>2, <2>3 DEF Good, Proc
  <2> QED
    BY <2>4 DEF q, Good, CurrentHasHandler
<1> QED
  BY <1>1, <1>2

(* The handler of the current command sends at most one. *)
LEMMA CurrentHandlerFrame ==
  ASSUME NEW p, Good(p), p.current # Nothing
  PROVE  LET q == CurrentHandler(p) IN Good(q) /\ Sends(p, q) /\ (p.dead => q.dead)
<1> DEFINE r == HandleResponse(p.current, p.lines, ~p.ready)
           q == CurrentHandler(p)
<1>1. r \in ReplyType
  <2>1. p.current \in Command /\ (~p.ready) \in BOOLEAN /\ p.current.class \notin NoHandler
    BY DEF Good, Proc, CurrentHasHandler
  <2> QED
    BY <2>1, HandleResponseType
<1> HIDE DEF r
<1>2. CASE r.result = "Handled"
  <2> DEFINE b == Callback(p, r)
  <2>1. Good(b) /\ Sends(p, b) /\ b.dead = p.dead
    BY <1>1, CallbackFrame
  <2>2. q = FinishCurrent(b)
    BY <1>2 DEF CurrentHandler, r
  <2> HIDE DEF b, q
  <2>3. Good(q) /\ q.ready = b.ready /\ q.input = b.input /\ (b.dead => q.dead)
    BY <2>1, <2>2, FinishFrame
  <2> QED
    BY <2>1, <2>3 DEF Sends, q
<1>3. CASE r.result # "Handled"
  <2> DEFINE m == p.misplaced \/ (r.result = "RequestLine" /\ p.ready)
  <2>1. q = [p EXCEPT !.misplaced = m]
    BY <1>3 DEF CurrentHandler, r
  <2>2. m \in BOOLEAN
    OBVIOUS
  <2> HIDE DEF m, q
  <2>3. q \in Proc /\ q.current = p.current /\ q.ready = p.ready /\ q.input = p.input /\ q.dead = p.dead
    BY <2>1, <2>2 DEF Good, Proc
  <2> QED
    BY <2>3 DEF Good, Sends, CurrentHasHandler, q
<1> QED
  BY <1>2, <1>3

(* FirstOf yields the number of a line of these kinds, or 0 without one. *)
LEMMA FirstOfIndex ==
  ASSUME NEW ls \in Seq(Line), NEW kinds
  PROVE  IF FirstOf(ls, kinds) # 0
         THEN FirstOf(ls, kinds) \in 1..Len(ls) /\ ls[FirstOf(ls, kinds)].kind \in kinds
         ELSE \A i \in 1..Len(ls) : ls[i].kind \notin kinds
<1> DEFINE at == {i \in 1..Len(ls) : ls[i].kind \in kinds}
<1>1. CASE at = {}
  BY <1>1 DEF FirstOf
<1>2. CASE at # {}
  <2>1. at \subseteq Nat
    OBVIOUS
  <2>2. PICK x \in at : \A y \in at : ~(<<y, x>> \in OpToRel(<, Nat))
    <3> DEFINE R == OpToRel(<, Nat)
    <3>1. IsWellFoundedOn(R, Nat)
      BY NatLessThanWellFounded
    <3> HIDE DEF R, at
    <3>2. \E x \in at : \A y \in at : ~(<<y, x>> \in R)
      BY <1>2, <2>1, <3>1, WFMin
    <3> QED
      BY <3>2 DEF R
  <2>3. \A y \in at : x <= y
    <3> HIDE DEF at
    <3> TAKE y \in at
    <3>1. x \in Nat /\ y \in Nat
      BY <2>1
    <3>2. ~(<<y, x>> \in OpToRel(<, Nat))
      BY <2>2
    <3>3. ~(y < x)
      BY <3>1, <3>2 DEF OpToRel
    <3> QED
      BY <3>1, <3>3
  <2>4. FirstOf(ls, kinds) = CHOOSE i \in at : \A j \in at : i <= j
    BY <1>2 DEF FirstOf
  <2> HIDE DEF at
  <2>5. FirstOf(ls, kinds) \in at
    BY <2>3, <2>4
  <2>6. FirstOf(ls, kinds) # 0
    BY <2>5 DEF at
  <2> QED
    BY <2>5, <2>6 DEF at
<1> QED
  BY <1>1, <1>2

(* The permanent handlers touch neither the queue nor what gdb was sent. *)
Quiet(p, q) == Good(q) /\ q.ready = p.ready /\ q.input = p.input /\ (p.dead => q.dead)

(* A stop is stored, and nothing is sent to gdb for it. *)
LEMMA GdbStoppedFrame ==
  ASSUME NEW p, Good(p), NEW i \in 1..Len(p.lines), NEW addr \in BOOLEAN
  PROVE  Quiet(p, GdbStopped(p, i, addr))
<1> DEFINE q == GdbStopped(p, i, addr)
           stop == [id |-> p.lines[i].of.id, addr |-> addr]
<1>1. stop \in Stop
  <2>1. p.lines \in Seq(Line)
    BY DEF Good, Proc
  <2>2. p.lines[i] \in Line
    BY <2>1
  <2> QED
    BY <2>2 DEF Line, Command, Stop
<1>2. q = [p EXCEPT !.lastStop = stop, !.stopSet = TRUE, !.lines = <<>>]
  BY DEF GdbStopped
<1>3. <<>> \in Seq(Line)
  OBVIOUS
<1> HIDE DEF q, stop
<1>4. /\ q \in Proc /\ q.current = p.current /\ q.ready = p.ready /\ q.input = p.input
      /\ q.dead = p.dead
  BY <1>1, <1>2, <1>3 DEF Good, Proc
<1> QED
  BY <1>4 DEF Quiet, Good, CurrentHasHandler, q

(* Dropping lines, or the end of the read thread, sends nothing. *)
LEMMA DropsFrame ==
  ASSUME NEW p, Good(p)
  PROVE  Quiet(p, p) /\ Quiet(p, [p EXCEPT !.lines = <<>>]) /\ Quiet(p, [p EXCEPT !.dead = TRUE])
<1>1. <<>> \in Seq(Line)
  OBVIOUS
<1> DEFINE q == [p EXCEPT !.lines = <<>>]
           d == [p EXCEPT !.dead = TRUE]
<1>2. /\ q \in Proc /\ q.current = p.current /\ q.ready = p.ready /\ q.input = p.input
      /\ q.dead = p.dead
  BY <1>1 DEF Good, Proc
<1>3. /\ d \in Proc /\ d.current = p.current /\ d.ready = p.ready /\ d.input = p.input
      /\ d.dead
  BY DEF Good, Proc
<1> HIDE DEF q, d
<1>4. Quiet(p, q) /\ Quiet(p, d) /\ Quiet(p, p)
  BY <1>2, <1>3 DEF Quiet, Good, CurrentHasHandler
<1> QED
  BY <1>4 DEF q, d

(* The permanent handlers send nothing. *)
LEMMA PermanentHandlersFrame ==
  ASSUME NEW p, Good(p)
  PROVE  Quiet(p, PermanentHandlers(p))
<1> DEFINE breakpoint == FirstOf(p.lines, {"break", "symbol", "foreign"})
           exit       == FirstOf(p.lines, {"exit"})
           signal     == FirstOf(p.lines, {"signal", "unknown"})
           history    == FirstOf(p.lines, {"history"})
<1>1. p.lines \in Seq(Line)
  BY DEF Good, Proc
<1>2. /\ breakpoint # 0 => breakpoint \in 1..Len(p.lines)
      /\ exit # 0 => exit \in 1..Len(p.lines)
      /\ signal # 0 => signal \in 1..Len(p.lines)
      /\ history # 0 => history \in 1..Len(p.lines)
  BY <1>1, FirstOfIndex
<1>3. \A i \in 1..Len(p.lines) :
        /\ Quiet(p, BreakpointRH(p, i)) /\ Quiet(p, ExitRH(p, i))
        /\ Quiet(p, SignalRH(p, i)) /\ Quiet(p, RecordLogRH(p, i))
  <2> TAKE i \in 1..Len(p.lines)
  <2>1. Quiet(p, BreakpointRH(p, i))
    <3>1. (p.lines[i].kind = "break") \in BOOLEAN
      OBVIOUS
    <3> QED
      BY <3>1, GdbStoppedFrame, DropsFrame DEF BreakpointRH
  <2>2. Quiet(p, ExitRH(p, i))
    BY GdbStoppedFrame DEF ExitRH
  <2>3. AddressAfter(p.lines, i) \in BOOLEAN
    BY DEF AddressAfter
  <2>4. Quiet(p, SignalRH(p, i))
    BY <2>3, GdbStoppedFrame, DropsFrame DEF SignalRH
  <2>5. Quiet(p, RecordLogRH(p, i))
    BY <2>3, GdbStoppedFrame, DropsFrame DEF RecordLogRH
  <2> QED
    BY <2>1, <2>2, <2>4, <2>5
<1>4. Quiet(p, UnhandledRH(p))
  BY DropsFrame DEF UnhandledRH
<1> HIDE DEF breakpoint, exit, signal, history
<1> QED
  BY <1>2, <1>3, <1>4 DEF PermanentHandlers, breakpoint, exit, signal, history

(* A line sends at most one command, and only when gdb was ready. *)
LEMMA ReceivedNewLineFrame ==
  ASSUME NEW p, Good(p)
  PROVE  LET q == ReceivedNewLine(p) IN Good(q) /\ Sends(p, q) /\ (p.dead => q.dead)
<1>1. CASE p.current # Nothing
  BY <1>1, CurrentHandlerFrame DEF ReceivedNewLine
<1>2. CASE p.current = Nothing
  BY <1>2, PermanentHandlersFrame DEF ReceivedNewLine, Quiet, Sends
<1> QED
  BY <1>1, <1>2

(* Delivering a line while gdb is not ready sends nothing. *)
LEMMA DeliverFrame ==
  ASSUME NEW p, Good(p), NEW line \in Line
  PROVE  LET q == Deliver(p, line) IN Good(q) /\ Sends(p, q) /\ (p.dead => q.dead)
<1> DEFINE a == [p EXCEPT !.lines = Append(p.lines, line)]
<1>1. Append(p.lines, line) \in Seq(Line)
  BY DEF Good, Proc
<1>2. /\ a \in Proc /\ a.current = p.current /\ a.ready = p.ready /\ a.input = p.input
      /\ a.dead = p.dead
  BY <1>1 DEF Good, Proc
<1>3. Deliver(p, line) = ReceivedNewLine(a)
  BY DEF Deliver
<1> HIDE DEF a
<1>4. Good(a)
  BY <1>2 DEF Good, CurrentHasHandler
<1> QED
  BY <1>2, <1>3, <1>4, ReceivedNewLineFrame DEF Sends

(* The prompt block sends at most one command. *)
LEMMA AtPromptFrame ==
  ASSUME NEW p, Good(p)
  PROVE  LET q == AtPrompt(p) IN
         /\ Good(q) /\ (p.dead => q.dead)
         /\ \/ q.ready /\ q.input = p.input
            \/ ~q.ready /\ \E c \in Command : q.input = Append(p.input, c)
<1> DEFINE a == [p EXCEPT !.ready = TRUE]
           b == ReceivedNewLine(a)
<1>1. /\ a \in Proc /\ a.current = p.current /\ a.ready /\ a.input = p.input /\ a.dead = p.dead
  BY DEF Good, Proc
<1> HIDE DEF a
<1>2. Good(a)
  BY <1>1 DEF Good, CurrentHasHandler
<1>3. Good(b) /\ Sends(a, b) /\ (a.dead => b.dead)
  BY <1>2, ReceivedNewLineFrame
<1>4. AtPrompt(p) = IF b.dead THEN b ELSE ProcessQueue(b)
  BY DEF AtPrompt, a
<1> HIDE DEF b
<1>5. LET z == ProcessQueue(b) IN
       /\ z \in Proc /\ CurrentHasHandler(z) /\ z.dead = b.dead
       /\ ~b.ready => z = b
       /\ b.ready => \/ z = b
                     \/ ~z.ready /\ \E d \in Command : z.input = Append(b.input, d)
  BY <1>3, ProcessQueueFrame DEF Good
<1> QED
  BY <1>1, <1>3, <1>4, <1>5 DEF Good, Sends

-----------------------------------------------------------------------------
(* What gdb prints, whatever it is, is a sequence of lines. *)
LEMMA NoiseType == \A n \in Noise : n \in Seq(LineKind)
<1> SUFFICES ASSUME NEW k \in 0..MaxNoise, NEW n \in [1..k -> {"noise"}]
             PROVE  n \in Seq(LineKind)
  BY DEF Noise
<1>1. n \in [1..k -> LineKind] /\ k \in Nat
  BY CallersAssumption DEF LineKind
<1> QED
  BY <1>1

(* Two sequences one behind the other. *)
LEMMA ConcatType ==
  ASSUME NEW s \in Seq(LineKind), NEW t \in Seq(LineKind)
  PROVE  s \o t \in Seq(LineKind)
BY ConcatProperties

(* Other lines around a response keep it a sequence of lines. *)
LEMMA AroundType ==
  ASSUME NEW S, \A m \in S : m \in Seq(LineKind)
  PROVE  \A r \in Around(S) : r \in Seq(LineKind)
<1> TAKE r \in Around(S)
<1>1. PICK pre \in Noise, m \in S, post \in Noise : r = pre \o m \o post
  BY DEF Around
<1>2. pre \in Seq(LineKind) /\ m \in Seq(LineKind) /\ post \in Seq(LineKind)
  BY NoiseType
<1>3. pre \o m \in Seq(LineKind)
  BY <1>2, ConcatType
<1> QED
  BY <1>1, <1>2, <1>3, ConcatType

(* Every response, expected or not, is a sequence of lines. *)
LEMMA ResponsesType ==
  ASSUME NEW class \in Class
  PROVE  \A r \in Responses(class) : r \in Seq(LineKind)
<1>1. <<"answer">> \in Seq(LineKind) /\ <<"notrun">> \in Seq(LineKind)
  BY DEF LineKind
<1>2. \A r \in Around({<<"answer">>}) : r \in Seq(LineKind)
  BY <1>1, AroundType
<1>3. \A r \in StopReport : r \in Seq(LineKind)
  <2>1. /\ \A a \in LineKind : <<a>> \in Seq(LineKind)
        /\ \A a, b \in LineKind : <<a, b>> \in Seq(LineKind)
        /\ \A a, b, c \in LineKind : <<a, b, c>> \in Seq(LineKind)
    OBVIOUS
  <2>2. {"break", "symbol", "exit", "signal", "addr", "noise", "history", "unknown", "foreign"}
          \subseteq LineKind
    BY DEF LineKind, StopKind
  <2>3. /\ <<"break">> \in Seq(LineKind) /\ <<"symbol">> \in Seq(LineKind)
        /\ <<"exit">> \in Seq(LineKind) /\ <<"signal">> \in Seq(LineKind)
        /\ <<"history">> \in Seq(LineKind) /\ <<"unknown">> \in Seq(LineKind)
        /\ <<"foreign">> \in Seq(LineKind)
    BY <2>1, <2>2
  <2>4. /\ <<"signal", "addr">> \in Seq(LineKind) /\ <<"history", "addr">> \in Seq(LineKind)
        /\ <<"unknown", "addr">> \in Seq(LineKind)
    BY <2>1, <2>2
  <2>5. <<"signal", "noise", "addr">> \in Seq(LineKind)
    BY <2>1, <2>2
  <2> QED
    BY <2>3, <2>4, <2>5, Zenon DEF StopReport
<1>4. \A r \in Around(StopReport) : r \in Seq(LineKind)
  BY <1>3, AroundType
<1>5. \A r \in {<<"answer">> \o q : q \in Around(StopReport)} : r \in Seq(LineKind)
  BY <1>1, <1>4, ConcatType
<1>6. \A r \in {<<"answer">> \o n : n \in Noise} : r \in Seq(LineKind)
  BY <1>1, NoiseType, ConcatType
<1>7. \A r \in Expected(class) : r \in Seq(LineKind)
  BY <1>1, <1>2, <1>5, <1>6, NoiseType DEF Expected
<1> QED
  BY <1>7, NoiseType DEF Responses

(* The inductive invariant: the types, a handler for every current command *)
(* and the discipline on what gdb has been sent.                           *)
QueueInv == TypeOK /\ CurrentHasHandler(proc) /\ OneOutstanding

(* Nothing has been sent at the start. *)
LEMMA InitInv == Init => QueueInv
<1> SUFFICES ASSUME Init PROVE QueueInv
  OBVIOUS
<1>1. proc \in Proc
  BY DEF Init, Proc, Stop, NoStop
<1>2. Idle \in [pc: {"idle", "queued", "waiting"}, class: Class, id: Nat]
  BY DEF Idle, Class, NoHandler
<1>a. output \in Seq(Line \union {Prompt})
  BY DEF Init
<1>b. caller \in [Callers -> [pc: {"idle", "queued", "waiting"}, class: Class, id: Nat]]
  <2> HIDE DEF Idle
  <2> QED
    BY <1>2 DEF Init
<1>3. TypeOK
  BY <1>1, <1>a, <1>b DEF Init, TypeOK
<1>4. ~proc.ready /\ proc.input = <<>> /\ proc.current = Nothing
  BY DEF Init
<1>5. OneOutstanding
  BY <1>4 DEF Init, OneOutstanding
<1> QED
  BY <1>3, <1>4, <1>5 DEF QueueInv, CurrentHasHandler

(* The prompt is not a line. *)
LEMMA PromptIsNoLine == \A l \in Line : l # Prompt
BY DEF Line, Prompt, LineKind, StopKind

(* Reading a line keeps the invariant. *)
LEMMA ReadLineStep == QueueInv /\ ReadLine => QueueInv'
<1> SUFFICES ASSUME QueueInv, ReadLine PROVE QueueInv'
  OBVIOUS
<1> USE DEF QueueInv
<1>1. Good(proc) /\ ~proc.dead /\ output # <<>> /\ output \in Seq(Line \union {Prompt})
  BY DEF Good, TypeOK, ReadLine
<1>2. ~proc.ready /\ proc.input = <<>> /\ \A i \in 1..Len(output) : output[i] = Prompt <=> i = Len(output)
  BY <1>1 DEF OneOutstanding
<1>3. Head(output) \in Line /\ Head(output) = output[1] /\ Len(output) \in Nat /\ Len(output) >= 1
  BY <1>1 DEF ReadLine
<1>4. Good(proc') /\ Sends(proc, proc')
  BY <1>1, DeliverFrame DEF ReadLine, TypeOK, Sends
<1>5. ~proc'.ready /\ proc'.input = <<>>
  BY <1>2, <1>4 DEF Sends
<1>6. Len(output) # 1
  BY <1>2, <1>3 DEF ReadLine
<1>7. /\ output' \in Seq(Line \union {Prompt}) /\ Len(output') = Len(output) - 1
      /\ \A i \in 1..Len(output') : output'[i] = output[i + 1]
  BY <1>1, <1>3 DEF ReadLine
<1>8. \A i \in 1..Len(output') : output'[i] = Prompt <=> i = Len(output')
  BY <1>2, <1>3, <1>7
<1>9. output' # <<>>
  BY <1>3, <1>6, <1>7
<1>10. OneOutstanding'
  BY <1>5, <1>8, <1>9 DEF OneOutstanding
<1>11. TypeOK'
  BY <1>3, <1>4, <1>7 DEF TypeOK, ReadLine, Good
<1> QED
  BY <1>4, <1>10, <1>11 DEF Good

(* Reading the first half of a prompt keeps the invariant. *)
LEMMA ReadPromptStartStep == QueueInv /\ ReadPromptStart => QueueInv'
<1> SUFFICES ASSUME QueueInv, ReadPromptStart PROVE QueueInv'
  OBVIOUS
<1> USE DEF QueueInv
<1>1. Good(proc) /\ lastLine \in Line /\ ~proc.dead /\ output # <<>> /\ output' = output
  BY DEF Good, TypeOK, ReadPromptStart
<1>2. ~proc.ready /\ proc.input = <<>> /\ \A i \in 1..Len(output) : output[i] = Prompt <=> i = Len(output)
  BY <1>1 DEF OneOutstanding
<1>3. Good(proc') /\ Sends(proc, proc')
  BY <1>1, DeliverFrame DEF ReadPromptStart
<1>4. ~proc'.ready /\ proc'.input = <<>>
  BY <1>2, <1>3 DEF Sends
<1>5. OneOutstanding'
  BY <1>1, <1>2, <1>4 DEF OneOutstanding
<1>6. TypeOK'
  BY <1>3 DEF TypeOK, ReadPromptStart, Good
<1> QED
  BY <1>3, <1>5, <1>6 DEF Good

(* The prompt makes gdb ready, and the next command takes that away again. *)
LEMMA ReadPromptStep == QueueInv /\ ReadPrompt => QueueInv'
<1> SUFFICES ASSUME QueueInv, ReadPrompt PROVE QueueInv'
  OBVIOUS
<1> USE DEF QueueInv
<1>1. Good(proc) /\ ~proc.dead /\ output # <<>> /\ output \in Seq(Line \union {Prompt})
  BY DEF Good, TypeOK, ReadPrompt
<1>2. ~proc.ready /\ proc.input = <<>> /\ \A i \in 1..Len(output) : output[i] = Prompt <=> i = Len(output)
  BY <1>1 DEF OneOutstanding
<1>3. output[1] = Prompt /\ Len(output) \in Nat /\ Len(output) >= 1
  BY <1>1 DEF ReadPrompt
<1>4. Len(output) = 1
  <2>1. 1 \in 1..Len(output)
    BY <1>3
  <2>2. output[1] = Prompt <=> 1 = Len(output)
    BY <1>2, <2>1
  <2> QED
    BY <1>3, <2>2
<1>5. output' = <<>>
  BY <1>1, <1>4 DEF ReadPrompt
<1>6. /\ Good(proc')
      /\ \/ proc'.ready /\ proc'.input = proc.input
         \/ ~proc'.ready /\ \E c \in Command : proc'.input = Append(proc.input, c)
  BY <1>1, AtPromptFrame DEF ReadPrompt
<1>7. \/ proc'.ready /\ proc'.input = <<>>
      \/ ~proc'.ready /\ Len(proc'.input) = 1
  <2>1. \A c \in Command : Len(Append(<<>>, c)) = 1
    OBVIOUS
  <2>2. CASE proc'.ready
    BY <1>2, <1>6, <2>2
  <2>3. CASE ~proc'.ready
    <3>1. PICK c \in Command : proc'.input = Append(proc.input, c)
      BY <1>6, <2>3
    <3>2. proc'.input = Append(<<>>, c)
      BY <1>2, <3>1
    <3> QED
      BY <2>1, <2>3, <3>2
  <2> QED
    BY <2>2, <2>3
<1>8. OneOutstanding'
  BY <1>5, <1>7 DEF OneOutstanding, ReadPrompt
<1>9. TypeOK'
  BY <1>5, <1>6 DEF TypeOK, ReadPrompt, Good
<1> QED
  BY <1>6, <1>8, <1>9 DEF Good

(* gdb takes the one command and prints one prompt behind its response. *)
LEMMA GdbAnswersStep == QueueInv /\ GdbAnswers => QueueInv'
<1> SUFFICES ASSUME QueueInv, GdbAnswers PROVE QueueInv'
  OBVIOUS
<1> USE DEF QueueInv
<1> DEFINE c == Head(proc.input)
<1>1. proc \in Proc /\ proc.input \in Seq(Command) /\ proc.input # <<>> /\ c \in Command
  BY DEF TypeOK, Proc, GdbAnswers
<1>2. PICK r \in Responses(c.class) :
        /\ output' = output \o [i \in 1..Len(r) |-> [kind |-> r[i], of |-> c]] \o <<Prompt>>
        /\ alive' = IF Ran(r) THEN ~Exited(r) ELSE alive
  BY DEF GdbAnswers
<1>3. r \in Seq(LineKind)
  BY <1>1, ResponsesType DEF Command
<1> DEFINE ls == [i \in 1..Len(r) |-> [kind |-> r[i], of |-> c]]
           end == <<Prompt>>
<1>4. ls \in Seq(Line) /\ Len(ls) = Len(r) /\ Len(ls) \in Nat
  <2>1. \A i \in 1..Len(r) : [kind |-> r[i], of |-> c] \in Line
    BY <1>1, <1>3 DEF Line
  <2> QED
    BY <1>3, <2>1
<1>5. \A i \in 1..Len(ls) : ls[i] \in Line
  BY <1>4
<1> HIDE DEF ls, c
<1>6. ls \o end \in Seq(Line \union {Prompt}) /\ Len(ls \o end) = Len(ls) + 1
  BY <1>4
<1>7. /\ \A i \in 1..Len(ls) : (ls \o end)[i] = ls[i]
      /\ (ls \o end)[Len(ls) + 1] = Prompt
  BY <1>4
<1>8. \A i \in 1..Len(ls \o end) : (ls \o end)[i] = Prompt <=> i = Len(ls \o end)
  BY <1>4, <1>5, <1>6, <1>7, PromptIsNoLine
<1>9. TypeOK'
  <2>1. output' \in Seq(Line \union {Prompt})
    <3>1. output \in Seq(Line \union {Prompt}) /\ ls \in Seq(Line \union {Prompt})
          /\ end \in Seq(Line \union {Prompt})
      BY <1>4 DEF TypeOK
    <3>2. output \o ls \in Seq(Line \union {Prompt})
      BY <3>1, ConcatProperties
    <3> QED
      BY <1>2, <3>1, <3>2, ConcatProperties DEF ls
  <2>2. alive' \in BOOLEAN
    BY <1>2 DEF TypeOK, Ran, Exited
  <2>3. proc' \in Proc
    <3>1. proc' = [proc EXCEPT !.input = Tail(proc.input)] /\ Tail(proc.input) \in Seq(Command)
      BY <1>1 DEF GdbAnswers
    <3> QED
      BY <1>1, <3>1 DEF Proc
  <2> QED
    BY <2>1, <2>2, <2>3 DEF TypeOK, GdbAnswers
<1>10. /\ proc'.current = proc.current /\ proc'.ready = proc.ready /\ proc'.dead = proc.dead
       /\ proc'.input = Tail(proc.input)
  BY <1>1 DEF GdbAnswers, Proc
<1>11. OneOutstanding'
  <2> SUFFICES ASSUME ~proc.dead PROVE OneOutstanding'
    BY <1>10 DEF OneOutstanding
  <2>1. ~proc.ready /\ Len(proc.input) = 1 /\ output = <<>>
    BY <1>1 DEF OneOutstanding
  <2>2. proc'.input = <<>>
    <3>1. Tail(proc.input) \in Seq(Command) /\ Len(Tail(proc.input)) = 0
      BY <1>1, <2>1, HeadTailProperties
    <3> QED
      BY <1>10, <3>1, EmptySeq
  <2>3. output' = ls \o end
    <3>1. output \o ls = ls
      BY <1>4, <2>1
    <3> QED
      BY <1>2, <3>1 DEF ls
  <2>4. output' # <<>>
    <3>1. Len(ls \o end) # 0
      BY <1>4, <1>6
    <3> QED
      BY <2>3, <3>1
  <2>5. \A i \in 1..Len(output') : output'[i] = Prompt <=> i = Len(output')
    BY <1>8, <2>3
  <2> HIDE DEF ls
  <2> QED
    BY <1>10, <2>1, <2>2, <2>4, <2>5 DEF OneOutstanding
<1> QED
  BY <1>9, <1>10, <1>11 DEF CurrentHasHandler

(* A caller's half of QueueCommand changes nothing gdb sees; its other half *)
(* writes a command only when gdb is ready.                                 *)
LEMMA IssueStep ==
  ASSUME NEW c \in Callers, NEW class \in Class, QueueInv, Issue(c, class)
  PROVE  QueueInv'
<1> USE DEF QueueInv
<1> DEFINE a == [proc EXCEPT !.stopSet = proc.stopSet /\ class \notin AwaitsStop]
<1>1. /\ a \in Proc /\ a.current = proc.current /\ a.ready = proc.ready /\ a.input = proc.input
      /\ a.dead = proc.dead
  BY DEF TypeOK, Proc
<1>2. proc' = Enqueue(a, class, c)
  BY DEF Issue
<1> HIDE DEF a
<1>3. /\ proc' \in Proc /\ proc'.current = proc.current /\ proc'.ready = proc.ready
      /\ proc'.input = proc.input /\ proc'.dead = proc.dead
  BY <1>1, <1>2, EnqueueFrame
<1>4. proc.issued + 1 \in Nat
  BY DEF TypeOK, Proc
<1>5. TypeOK'
  BY <1>3, <1>4 DEF TypeOK, Issue
<1> QED
  BY <1>3, <1>5 DEF CurrentHasHandler, OneOutstanding, Issue

(* Asking for $pc keeps the invariant. *)
LEMMA AskForPcStep ==
  ASSUME NEW c \in Callers, QueueInv, AskForPc(c)
  PROVE  QueueInv'
<1> USE DEF QueueInv
<1>1. proc \in Proc /\ PrintCmd \in Class
  BY DEF TypeOK, Class, CollectSearch
<1>2. /\ proc' \in Proc /\ proc'.current = proc.current /\ proc'.ready = proc.ready
      /\ proc'.input = proc.input /\ proc'.dead = proc.dead
  BY <1>1, EnqueueFrame DEF AskForPc
<1>3. proc.issued + 1 \in Nat
  BY <1>1 DEF Proc
<1>4. TypeOK'
  BY <1>1, <1>2, <1>3 DEF TypeOK, AskForPc
<1> QED
  BY <1>2, <1>4 DEF CurrentHasHandler, OneOutstanding, AskForPc

(* The second half of QueueCommand sends only when gdb is ready. *)
LEMMA ProcessStep ==
  ASSUME NEW c \in Callers, QueueInv, Process(c)
  PROVE  QueueInv'
<1> USE DEF QueueInv
<1>1. proc \in Proc /\ CurrentHasHandler(proc) /\ proc' = ProcessQueue(proc)
  BY DEF TypeOK, Process
<1>2. /\ proc' \in Proc /\ CurrentHasHandler(proc') /\ proc'.dead = proc.dead
      /\ ~proc.ready => proc' = proc
      /\ proc.ready => \/ proc' = proc
                       \/ ~proc'.ready /\ \E d \in Command : proc'.input = Append(proc.input, d)
  BY <1>1, ProcessQueueFrame
<1>3. TypeOK'
  <2>1. Idle \in [pc: {"idle", "queued", "waiting"}, class: Class, id: Nat]
    BY DEF Idle, Class, NoHandler
  <2> QED
    BY <1>2, <2>1 DEF TypeOK, Process
<1>4. OneOutstanding'
  <2> SUFFICES ASSUME ~proc.dead PROVE OneOutstanding'
    BY <1>2 DEF OneOutstanding
  <2>1. CASE proc' = proc
    BY <2>1 DEF OneOutstanding, Process
  <2>2. CASE proc' # proc
    <3>1. proc.ready /\ proc.input = <<>> /\ output = <<>> /\ lastLine = Nothing
      BY <1>2, <2>2 DEF OneOutstanding
    <3>2. PICK d \in Command : ~proc'.ready /\ proc'.input = Append(proc.input, d)
      BY <1>2, <2>2, <3>1
    <3>3. Len(Append(<<>>, d)) = 1
      OBVIOUS
    <3>4. Len(proc'.input) = 1
      BY <3>1, <3>2, <3>3
    <3> QED
      BY <3>1, <3>2, <3>4 DEF OneOutstanding, Process
  <2> QED
    BY <2>1, <2>2
<1> QED
  BY <1>2, <1>3, <1>4

(* A call that returns keeps the invariant. *)
LEMMA ReturnStep ==
  ASSUME NEW c \in Callers, QueueInv, Return(c)
  PROVE  QueueInv'
<1>1. Idle \in [pc: {"idle", "queued", "waiting"}, class: Class, id: Nat]
  BY DEF Idle, Class, NoHandler
<1>2. TypeOK'
  BY <1>1 DEF QueueInv, TypeOK, Return
<1> QED
  BY <1>2 DEF QueueInv, OneOutstanding, Return

(* QueueInv is an invariant, for any callers, uses and surprises. *)
THEOREM QueueInvariant == Spec => []QueueInv
<1>1. Init => QueueInv
  BY InitInv
<1>2. QueueInv /\ [Next]_vars => QueueInv'
  <2> SUFFICES ASSUME QueueInv, [Next]_vars PROVE QueueInv'
    OBVIOUS
  <2>1. CASE Reader
    BY <2>1, ReadLineStep, ReadPromptStartStep, ReadPromptStep DEF Reader
  <2>2. CASE GdbAnswers
    BY <2>2, GdbAnswersStep
  <2>3. ASSUME NEW c \in Callers, Caller(c) PROVE QueueInv'
    BY <2>3, IssueStep, ProcessStep, ReturnStep, AskForPcStep DEF Caller
  <2>4. CASE UNCHANGED vars
    BY <2>4 DEF vars, QueueInv, TypeOK, OneOutstanding, CurrentHasHandler
  <2> QED
    BY <2>1, <2>2, <2>3, <2>4 DEF Next
<1> QED
  BY <1>1, <1>2, PTL DEF Spec

(* Every field of GDBSubProcess keeps its type, whatever gdb prints. *)
THEOREM QueueTypeCorrect == Spec => []TypeOK
BY QueueInvariant, PTL DEF QueueInv

(* gdb never has two commands under way, and _gdbReadyForInput is exactly  *)
(* that it has none, for any number of threads using the connector.        *)
THEOREM OneCommandUnderWay == Spec => []OneOutstanding
BY QueueInvariant, PTL DEF QueueInv

-----------------------------------------------------------------------------
(* To whom the answers go, when gdb answers what it is asked (no           *)
(* "refusal"): for any number of callers, callbacks get the lines of their *)
(* own command, once, and no handler asks for a line that cannot come.     *)
(* First what each function of GDBSubProcess changes, then that the        *)
(* invariant survives every step.                                          *)

(* The places of a sequence with one element more. *)
LEMMA AppendAt ==
  ASSUME NEW S, NEW s \in Seq(S), NEW x \in S
  PROVE  /\ Append(s, x) \in Seq(S) /\ Len(s) \in Nat /\ Len(Append(s, x)) = Len(s) + 1
         /\ \A i \in 1..Len(s) : Append(s, x)[i] = s[i]
         /\ Append(s, x)[Len(s) + 1] = x
BY AppendProperties, LenProperties

(* The places of a sequence without its first element. *)
LEMMA TailAt ==
  ASSUME NEW S, NEW s \in Seq(S), s # <<>>
  PROVE  /\ Tail(s) \in Seq(S) /\ Len(s) \in Nat /\ Len(s) >= 1 /\ Len(Tail(s)) = Len(s) - 1
         /\ Head(s) \in S /\ Head(s) = s[1]
         /\ \A i \in 1..Len(s) - 1 : Tail(s)[i] = s[i + 1]
<1>1. Len(s) \in Nat /\ Len(s) >= 1
  BY LenProperties, EmptySeq
<1> QED BY <1>1, HeadTailProperties

(* The elements of a sequence, place by place. *)
LEMMA SeqAt == ASSUME NEW S, NEW s \in Seq(S) PROVE Len(s) \in Nat /\ \A i \in 1..Len(s) : s[i] \in S
OBVIOUS

-----------------------------------------------------------------------------
(* The fields.  History of the callbacks, the stop, and what gdb sees.     *)
SameCalls(p, q) == q.called = p.called /\ q.callbacks = p.callbacks /\ q.misplaced = p.misplaced
SameStop(p, q)  == q.stopSet = p.stopSet /\ q.lastStop = p.lastStop
SameQueue(p, q) ==
  /\ q.queue = p.queue /\ q.issued = p.issued /\ q.input = p.input
  /\ q.ready = p.ready /\ q.dead = p.dead

(* What QueueCommand changes before it looks at the prompt. *)
LEMMA EnqueueFields ==
  ASSUME NEW p \in Proc, NEW class \in Class, NEW by \in Callers
  PROVE  LET q == Enqueue(p, class, by)
             c == [id |-> p.issued + 1, class |-> class, by |-> by] IN
         /\ q \in Proc /\ c \in Command
         /\ q.queue = Append(p.queue, c) /\ q.issued = p.issued + 1
         /\ q.current = p.current /\ q.lines = p.lines /\ q.input = p.input
         /\ q.ready = p.ready /\ q.dead = p.dead /\ q.finished = p.finished
         /\ SameCalls(p, q) /\ SameStop(p, q)
<1> DEFINE c == [id |-> p.issued + 1, class |-> class, by |-> by]
           q == Enqueue(p, class, by)
<1>1. p.issued + 1 \in Nat \ {0}
  BY DEF Proc
<1>2. c \in Command
  BY <1>1 DEF Command
<1> HIDE DEF c
<1>3. q = [p EXCEPT !.queue = Append(p.queue, c), !.issued = p.issued + 1]
  BY DEF Enqueue, c
<1>4. q \in Proc
  BY EnqueueFrame
<1> HIDE DEF q
<1>5. /\ q.queue = Append(p.queue, c) /\ q.issued = p.issued + 1
      /\ q.current = p.current /\ q.lines = p.lines /\ q.input = p.input
      /\ q.ready = p.ready /\ q.dead = p.dead /\ q.finished = p.finished
      /\ SameCalls(p, q) /\ SameStop(p, q)
  BY <1>3 DEF Proc, SameCalls, SameStop
<1> QED
  BY <1>2, <1>4, <1>5 DEF q, c

(* ProcessQueue sends the first command, or leaves everything. *)
Sent(p, q) ==
  /\ p.ready /\ p.queue # <<>>
  /\ ~q.ready /\ q.queue = Tail(p.queue) /\ q.input = Append(p.input, Head(p.queue))
  /\ q.current = IF Head(p.queue).class \in NoHandler THEN Nothing ELSE Head(p.queue)
  /\ p.finished \subseteq q.finished
  /\ q.issued = p.issued /\ q.lines = p.lines /\ q.dead = p.dead
  /\ SameCalls(p, q) /\ SameStop(p, q)

(* ProcessQueue sends the first command, or changes nothing. *)
LEMMA ProcessQueueFields ==
  ASSUME NEW p \in Proc
  PROVE  \/ (p.queue = <<>> \/ ~p.ready) /\ ProcessQueue(p) = p
         \/ Sent(p, ProcessQueue(p))
<1> DEFINE q == ProcessQueue(p)
<1>1. CASE p.queue = <<>> \/ ~p.ready
  BY <1>1 DEF ProcessQueue
<1>2. CASE ~(p.queue = <<>> \/ ~p.ready)
  <2> DEFINE c == Head(p.queue)
             mute == c.class \in NoHandler
  <2>1. q = [p EXCEPT !.queue = Tail(p.queue), !.ready = FALSE, !.input = Append(p.input, c),
                      !.current = IF mute THEN Nothing ELSE c,
                      !.finished = IF mute THEN p.finished \union {c.id} ELSE p.finished]
    BY <1>2 DEF ProcessQueue, Proc
  <2> HIDE DEF c, q, mute
  <2>2. /\ ~q.ready /\ q.queue = Tail(p.queue) /\ q.input = Append(p.input, c)
        /\ q.current = IF mute THEN Nothing ELSE c
        /\ q.finished = IF mute THEN p.finished \union {c.id} ELSE p.finished
        /\ q.issued = p.issued /\ q.lines = p.lines /\ q.dead = p.dead
        /\ SameCalls(p, q) /\ SameStop(p, q)
    BY <2>1 DEF Proc, SameCalls, SameStop
  <2>3. p.finished \subseteq q.finished
    BY <2>2
  <2> QED
    BY <1>2, <2>2, <2>3 DEF Sent, q, c, mute
<1> QED
  BY <1>1, <1>2

(* Whatever is current is finished; without one ReadThread ends. *)
LEMMA FinishFields ==
  ASSUME NEW p \in Proc
  PROVE  LET q == FinishCurrent(p) IN
         /\ q.current = Nothing /\ q.queue = p.queue /\ q.issued = p.issued
         /\ q.input = p.input /\ q.ready = p.ready
         /\ SameCalls(p, q) /\ SameStop(p, q)
         /\ IF p.current = Nothing THEN q.dead /\ q.finished = p.finished /\ q.lines = p.lines
            ELSE /\ q.dead = p.dead /\ q.lines = <<>>
                 /\ q.finished = p.finished \union {p.current.id}
<1> DEFINE q == FinishCurrent(p)
<1>1. CASE p.current = Nothing
  <2>1. q = [p EXCEPT !.dead = TRUE]
    BY <1>1 DEF FinishCurrent
  <2> HIDE DEF q
  <2>2. /\ q.current = Nothing /\ q.queue = p.queue /\ q.issued = p.issued
        /\ q.input = p.input /\ q.ready = p.ready
        /\ SameCalls(p, q) /\ SameStop(p, q) /\ q.dead /\ q.finished = p.finished /\ q.lines = p.lines
    BY <1>1, <2>1 DEF Proc, SameCalls, SameStop
  <2> QED
    BY <1>1, <2>2 DEF q
<1>2. CASE p.current # Nothing
  <2>1. q = [p EXCEPT !.finished = p.finished \union {p.current.id}, !.current = Nothing,
                      !.lines = <<>>]
    BY <1>2 DEF FinishCurrent
  <2> HIDE DEF q
  <2>2. /\ q.current = Nothing /\ q.queue = p.queue /\ q.issued = p.issued
        /\ q.input = p.input /\ q.ready = p.ready
        /\ SameCalls(p, q) /\ SameStop(p, q)
        /\ q.dead = p.dead /\ q.lines = <<>> /\ q.finished = p.finished \union {p.current.id}
    BY <2>1 DEF Proc, SameCalls, SameStop
  <2> QED
    BY <1>2, <2>2 DEF q
<1> QED
  BY <1>1, <1>2
(* The entry a callback leaves in the history. *)
Entry(p) == [id |-> p.current.id, of |-> {p.lines[i].of.id : i \in 1..Len(p.lines)}]

Entered(p, m, calls) ==
  /\ m.current = p.current /\ m.lines = p.lines /\ m.finished = p.finished
  /\ m.misplaced = p.misplaced /\ SameQueue(p, m) /\ SameStop(p, m)
  /\ IF calls THEN /\ m.called = p.called \union {p.current.id}
                   /\ m.callbacks = Append(p.callbacks, Entry(p))
     ELSE m.called = p.called /\ m.callbacks = p.callbacks

(* The history has one well-typed entry per callback. *)
LEMMA EntryType ==
  ASSUME NEW p \in Proc, p.current # Nothing
  PROVE  Entry(p) \in [id: Nat, of: SUBSET Nat] /\ p.current \in Command
<1>1. p.current \in Command /\ p.current.id \in Nat
  BY DEF Proc, Command
<1>2. p.lines \in Seq(Line)
  BY DEF Proc
<1>3. \A i \in 1..Len(p.lines) : p.lines[i] \in Line
  BY <1>2
<1>4. \A i \in 1..Len(p.lines) : p.lines[i].of.id \in Nat
  BY <1>3 DEF Line, Command
<1> QED
  BY <1>1, <1>4 DEF Entry

(* What a callback changes: the history, the queue and, at the prompt, what it sends. *)
LEMMA CallbackFields ==
  ASSUME NEW p \in Proc, p.current # Nothing, NEW r \in ReplyType
  PROVE  \E m \in Proc :
           /\ Entered(p, m, r.calls)
           /\ Callback(p, r) = IF r.queues = SetCmd THEN m
                               ELSE ProcessQueue(Enqueue(m, r.queues, p.current.by))
<1> DEFINE m == IF r.calls THEN [p EXCEPT !.called = p.called \union {p.current.id},
                                          !.callbacks = Append(p.callbacks, Entry(p))]
                ELSE p
<1>1. Callback(p, r) = IF r.queues = SetCmd THEN m
                       ELSE ProcessQueue(Enqueue(m, r.queues, p.current.by))
  BY DEF Callback, QueueCommand, Entry
<1>2. m \in Proc /\ Entered(p, m, r.calls)
  <2>1. CASE r.calls
    <3>1. m = [p EXCEPT !.called = p.called \union {p.current.id},
                        !.callbacks = Append(p.callbacks, Entry(p))]
      BY <2>1
    <3>a. p.called \union {p.current.id} \in SUBSET Nat
      BY EntryType DEF Proc, Command
    <3>b. p.callbacks \in Seq([id: Nat, of: SUBSET Nat])
      BY DEF Proc
    <3>2. Append(p.callbacks, Entry(p)) \in Seq([id: Nat, of: SUBSET Nat])
      BY <3>b, EntryType, AppendAt
    <3> HIDE DEF m
    <3>3. m \in Proc
      BY <3>1, <3>a, <3>2 DEF Proc
    <3>4. /\ m.current = p.current /\ m.lines = p.lines /\ m.finished = p.finished
          /\ m.misplaced = p.misplaced /\ SameQueue(p, m) /\ SameStop(p, m)
          /\ m.called = p.called \union {p.current.id} /\ m.callbacks = Append(p.callbacks, Entry(p))
      BY <3>1 DEF Proc, SameQueue, SameStop
    <3> QED
      BY <2>1, <3>3, <3>4 DEF Entered
  <2>2. CASE ~r.calls
    BY <2>2 DEF Entered, SameQueue, SameStop
  <2> QED
    BY <2>1, <2>2
<1> QED
  BY <1>1, <1>2

-----------------------------------------------------------------------------
(* Commands are numbered in the order of their creation and sent in it, so *)
(* callbacks come in it, too, each for a command that has left the queue.  *)
QueueOrder(p) ==
  /\ \A i, j \in 1..Len(p.queue) : i < j => p.queue[i].id < p.queue[j].id
  /\ \A i \in 1..Len(p.queue) : p.queue[i].id <= p.issued

CallOrder(p) ==
  /\ \A k, l \in 1..Len(p.callbacks) : k < l => p.callbacks[k].id < p.callbacks[l].id
  /\ \A k \in 1..Len(p.callbacks) :
       /\ p.callbacks[k].id <= p.issued
       /\ p.callbacks[k].of \subseteq {p.callbacks[k].id}
       /\ \A i \in 1..Len(p.queue) : p.callbacks[k].id < p.queue[i].id

CurrentOrder(p) ==
  p.current # Nothing =>
    /\ p.current.id <= p.issued
    /\ \A i \in 1..Len(p.queue) : p.current.id < p.queue[i].id

Order(p) == QueueOrder(p) /\ CallOrder(p) /\ CurrentOrder(p)

(* The callback of the current command has not been called. *)
Fresh(p) ==
  p.current # Nothing => \A k \in 1..Len(p.callbacks) : p.callbacks[k].id < p.current.id

(* The types of the single fields of GDBSubProcess. *)
LEMMA ProcTypes ==
  ASSUME NEW p \in Proc
  PROVE  /\ p.queue \in Seq(Command) /\ p.issued \in Nat /\ p.input \in Seq(Command)
         /\ p.lines \in Seq(Line) /\ p.ready \in BOOLEAN /\ p.dead \in BOOLEAN
         /\ p.callbacks \in Seq([id: Nat, of: SUBSET Nat])
         /\ Len(p.queue) \in Nat /\ Len(p.callbacks) \in Nat /\ Len(p.lines) \in Nat
         /\ \A i \in 1..Len(p.queue) : p.queue[i] \in Command /\ p.queue[i].id \in Nat
         /\ \A i \in 1..Len(p.callbacks) : p.callbacks[i].id \in Nat
         /\ \A i \in 1..Len(p.lines) : p.lines[i] \in Line
         /\ p.current # Nothing => p.current \in Command /\ p.current.id \in Nat
<1>1. /\ p.queue \in Seq(Command) /\ p.issued \in Nat /\ p.input \in Seq(Command)
      /\ p.lines \in Seq(Line) /\ p.ready \in BOOLEAN /\ p.dead \in BOOLEAN
      /\ p.callbacks \in Seq([id: Nat, of: SUBSET Nat])
      /\ p.current # Nothing => p.current \in Command
  BY DEF Proc
<1>2. Len(p.queue) \in Nat /\ Len(p.callbacks) \in Nat /\ Len(p.lines) \in Nat
  BY <1>1, LenProperties
<1>3. /\ \A i \in 1..Len(p.queue) : p.queue[i] \in Command
      /\ \A i \in 1..Len(p.callbacks) : p.callbacks[i] \in [id: Nat, of: SUBSET Nat]
      /\ \A i \in 1..Len(p.lines) : p.lines[i] \in Line
  BY <1>1, SeqAt
<1>4. \A c \in Command : c.id \in Nat
  BY DEF Command
<1> QED
  BY <1>1, <1>2, <1>3, <1>4

(* A command that is queued gets a number of its own, behind all others. *)
LEMMA EnqueueOrder ==
  ASSUME NEW p \in Proc, NEW class \in Class, NEW by \in Callers, Order(p)
  PROVE  LET q == Enqueue(p, class, by) IN Order(q) /\ (Fresh(p) => Fresh(q))
<1> DEFINE q == Enqueue(p, class, by)
           c == [id |-> p.issued + 1, class |-> class, by |-> by]
<1>1. /\ q \in Proc /\ c \in Command
      /\ q.queue = Append(p.queue, c) /\ q.issued = p.issued + 1
      /\ q.current = p.current /\ q.callbacks = p.callbacks
  BY EnqueueFields DEF SameCalls
<1>2. c.id = p.issued + 1
  OBVIOUS
<1> HIDE DEF q, c
<1>3. /\ Len(q.queue) = Len(p.queue) + 1 /\ q.queue[Len(p.queue) + 1].id = p.issued + 1
      /\ \A i \in 1..Len(p.queue) : q.queue[i] = p.queue[i]
  BY <1>1, <1>2, ProcTypes, AppendAt
<1>4. /\ Len(p.queue) \in Nat /\ p.issued \in Nat
      /\ \A i \in 1..Len(p.queue) : p.queue[i].id \in Nat
      /\ \A i \in 1..Len(p.callbacks) : p.callbacks[i].id \in Nat
      /\ p.current # Nothing => p.current.id \in Nat
  BY ProcTypes
<1>5. QueueOrder(q)
  BY <1>1, <1>3, <1>4, SMTT(30) DEF Order, QueueOrder
<1>6. CallOrder(q)
  BY <1>1, <1>3, <1>4, SMTT(30) DEF Order, CallOrder
<1>7. CurrentOrder(q)
  BY <1>1, <1>3, <1>4 DEF Order, CurrentOrder
<1>8. Fresh(p) => Fresh(q)
  BY <1>1 DEF Fresh
<1> QED
  BY <1>5, <1>6, <1>7, <1>8 DEF Order, q

(* Sending the first command keeps the order of the numbers. *)
LEMMA ProcessQueueOrder ==
  ASSUME NEW p \in Proc, Order(p)
  PROVE  LET q == ProcessQueue(p) IN Order(q) /\ (Fresh(p) => Fresh(q))
<1> DEFINE q == ProcessQueue(p)
<1>1. CASE q = p
  BY <1>1
<1>2. CASE Sent(p, q)
  <2> HIDE DEF q
  <2>1. /\ Len(p.queue) \in Nat /\ Len(p.queue) >= 1 /\ Len(q.queue) = Len(p.queue) - 1
        /\ Head(p.queue) = p.queue[1]
        /\ \A i \in 1..Len(q.queue) : q.queue[i] = p.queue[i + 1]
    BY <1>2, ProcTypes, TailAt DEF Sent
  <2>2. /\ p.issued \in Nat /\ q.issued = p.issued /\ q.callbacks = p.callbacks
        /\ (q.current = Nothing \/ q.current = p.queue[1])
    BY <1>2, <2>1, ProcTypes DEF Sent, SameCalls
  <2>a. \A i \in 1..Len(q.queue) : i + 1 \in 1..Len(p.queue)
    BY <2>1
  <2>b. \A i, j \in 1..Len(q.queue) : i < j => i + 1 < j + 1
    BY <2>1
  <2>3. QueueOrder(q)
    <3>1. \A i, j \in 1..Len(q.queue) : i < j => q.queue[i].id < q.queue[j].id
      <4> TAKE i, j \in 1..Len(q.queue)
      <4> HAVE i < j
      <4>1. i + 1 \in 1..Len(p.queue) /\ j + 1 \in 1..Len(p.queue) /\ i + 1 < j + 1
        BY <2>a, <2>b
      <4> QED
        BY <2>1, <4>1 DEF Order, QueueOrder
    <3>2. \A i \in 1..Len(q.queue) : q.queue[i].id <= q.issued
      BY <2>1, <2>2, <2>a DEF Order, QueueOrder
    <3> QED
      BY <3>1, <3>2 DEF QueueOrder
  <2>4. CallOrder(q)
    BY <2>1, <2>2 DEF Order, CallOrder
  <2>5. CurrentOrder(q)
    <3> SUFFICES ASSUME q.current # Nothing PROVE CurrentOrder(q)
      BY DEF CurrentOrder
    <3>1. q.current = p.queue[1] /\ 1 \in 1..Len(p.queue)
      BY <2>1, <2>2
    <3>2. \A i \in 1..Len(q.queue) : p.queue[1].id < p.queue[i + 1].id
      <4> TAKE i \in 1..Len(q.queue)
      <4>1. i + 1 \in 1..Len(p.queue) /\ 1 < i + 1
        BY <2>1, <2>a
      <4> QED
        BY <3>1, <4>1 DEF Order, QueueOrder
    <3> QED
      BY <2>1, <2>2, <3>1, <3>2 DEF Order, QueueOrder, CurrentOrder
  <2>6. Fresh(q)
    BY <2>1, <2>2 DEF Order, CallOrder, Fresh
  <2> QED
    BY <2>3, <2>4, <2>5, <2>6 DEF Order, q
<1> QED
  BY <1>1, <1>2, ProcessQueueFields

(* ProcessQueue keeps the type of the record. *)
LEMMA ProcessQueueProc == ASSUME NEW p \in Proc PROVE ProcessQueue(p) \in Proc
<1>1. CASE p.queue = <<>> \/ ~p.ready
  BY <1>1 DEF ProcessQueue
<1>2. CASE ~(p.queue = <<>> \/ ~p.ready)
  <2> DEFINE c == Head(p.queue)
             mute == c.class \in NoHandler
             q == ProcessQueue(p)
  <2>1. c \in Command /\ Tail(p.queue) \in Seq(Command) /\ Append(p.input, c) \in Seq(Command)
    BY <1>2 DEF Proc
  <2>2. q = [p EXCEPT !.queue = Tail(p.queue), !.ready = FALSE, !.input = Append(p.input, c),
                      !.current = IF mute THEN Nothing ELSE c,
                      !.finished = IF mute THEN p.finished \union {c.id} ELSE p.finished]
    BY <1>2 DEF ProcessQueue, Proc
  <2>3. c.id \in Nat
    BY <2>1 DEF Command
  <2>4. (IF mute THEN Nothing ELSE c) \in Command \union {Nothing}
    BY <2>1
  <2>5. (IF mute THEN p.finished \union {c.id} ELSE p.finished) \in SUBSET Nat
    BY <2>3 DEF Proc
  <2> HIDE DEF c, q, mute
  <2>6. q \in Proc
    BY <2>1, <2>2, <2>4, <2>5 DEF Proc
  <2> QED
    BY <2>6 DEF q
<1> QED
  BY <1>1, <1>2

(* The lines that are gathered are those of the current command. *)
OwnLines(p) == \A i \in 1..Len(p.lines) : p.lines[i].of = p.current

(* A callback keeps the order of the numbers. *)
LEMMA CallbackOrder ==
  ASSUME NEW p \in Proc, p.current # Nothing, NEW r \in ReplyType, Order(p), Fresh(p), OwnLines(p)
  PROVE  Order(Callback(p, r)) /\ Callback(p, r) \in Proc
<1>1. PICK m \in Proc :
           /\ Entered(p, m, r.calls)
           /\ Callback(p, r) = IF r.queues = SetCmd THEN m
                               ELSE ProcessQueue(Enqueue(m, r.queues, p.current.by))
  BY CallbackFields
<1>2. m.current = p.current /\ m.queue = p.queue /\ m.issued = p.issued
  BY <1>1 DEF Entered, SameQueue
<1>3. /\ Len(p.queue) \in Nat /\ p.issued \in Nat /\ p.callbacks \in Seq([id: Nat, of: SUBSET Nat])
      /\ \A i \in 1..Len(p.queue) : p.queue[i].id \in Nat
      /\ \A i \in 1..Len(p.callbacks) : p.callbacks[i].id \in Nat
      /\ p.current \in Command /\ p.current.id \in Nat
  BY ProcTypes
<1>4. QueueOrder(m) /\ CurrentOrder(m)
  BY <1>2 DEF Order, QueueOrder, CurrentOrder
<1>5. CallOrder(m)
  <2>1. CASE ~r.calls
    BY <1>1, <1>2, <2>1 DEF Entered, Order, CallOrder
  <2>2. CASE r.calls
    <3>1. Entry(p).id = p.current.id /\ Entry(p).of \subseteq {p.current.id}
      BY DEF Entry, OwnLines
    <3>2. m.callbacks = Append(p.callbacks, Entry(p))
      BY <1>1, <2>2 DEF Entered
    <3>3. /\ Len(m.callbacks) = Len(p.callbacks) + 1 /\ Len(p.callbacks) \in Nat
          /\ \A i \in 1..Len(p.callbacks) : m.callbacks[i] = p.callbacks[i]
          /\ m.callbacks[Len(p.callbacks) + 1] = Entry(p)
      BY <1>3, <3>2, EntryType, AppendAt
    <3>4. \A k \in 1..Len(m.callbacks) : k \in 1..Len(p.callbacks) \/ k = Len(p.callbacks) + 1
      BY <3>3
    <3>5. \A k, l \in 1..Len(m.callbacks) : k < l => m.callbacks[k].id < m.callbacks[l].id
      <4> TAKE k, l \in 1..Len(m.callbacks)
      <4> HAVE k < l
      <4>1. k \in 1..Len(p.callbacks)
        BY <3>3
      <4>2. CASE l \in 1..Len(p.callbacks)
        BY <3>3, <4>1, <4>2 DEF Order, CallOrder
      <4>3. CASE l = Len(p.callbacks) + 1
        BY <3>1, <3>3, <4>1, <4>3 DEF Fresh
      <4> QED
        BY <3>4, <4>2, <4>3
    <3>6. \A k \in 1..Len(m.callbacks) :
            /\ m.callbacks[k].id <= m.issued
            /\ \A i \in 1..Len(m.queue) : m.callbacks[k].id < m.queue[i].id
      BY <1>2, <1>3, <3>1, <3>3, <3>4, ZenonT(60) DEF Order, CallOrder, CurrentOrder
    <3>7. \A k \in 1..Len(m.callbacks) : m.callbacks[k].of \subseteq {m.callbacks[k].id}
      BY <3>1, <3>3, <3>4 DEF Order, CallOrder
    <3> QED
      BY <3>5, <3>6, <3>7 DEF CallOrder
  <2> QED
    BY <2>1, <2>2
<1>6. Order(m)
  BY <1>4, <1>5 DEF Order
<1>7. CASE r.queues = SetCmd
  BY <1>1, <1>6, <1>7
<1>8. CASE r.queues # SetCmd
  <2> DEFINE e == Enqueue(m, r.queues, p.current.by)
  <2>1. r.queues \in Class /\ p.current.by \in Callers
    BY <1>3 DEF ReplyType, Command
  <2>2. e \in Proc /\ Order(e)
    BY <1>6, <2>1, EnqueueOrder, EnqueueFields
  <2> HIDE DEF e
  <2>3. Order(ProcessQueue(e))
    BY <2>2, ProcessQueueOrder
  <2>4. Callback(p, r) = ProcessQueue(e)
    BY <1>1, <1>8 DEF e
  <2>5. ProcessQueue(e) \in Proc
    BY <2>2, ProcessQueueProc
  <2> QED
    BY <2>3, <2>4, <2>5
<1> QED
  BY <1>7, <1>8

-----------------------------------------------------------------------------
(* The handlers' decisions.  Needs are the classes whose handler does not  *)
(* finish at the prompt without a line that decides.                       *)
Needs == Search \union SearchOrMore \union CollectSearch \union FirstLine

Decides(c, l) == l.kind = "answer" \/ (l.kind = "notrun" /\ c.class = ContinueCmd)

(* The handler of each class. *)
LEMMA HandlerOf ==
  ASSUME NEW c \in Command, NEW ls, NEW allow \in BOOLEAN
  PROVE  LET h == HandleResponse(c, ls, allow) IN
         /\ c.class = FileCmd => h = FileRH(c, ls)
         /\ c.class = AttachCmd => h = AttachRH(c, ls)
         /\ c.class = TargetCmd => h = TargetRH(c, ls)
         /\ c.class = ContinueCmd => h = ContinueRH(c, ls)
         /\ c.class \in {RunCmd, SimpleCmd} => h = RunRH(c, ls)
         /\ c.class = InfoLineCmd => h = InfoLineRH(c, ls)
         /\ c.class = InfoAddressCmd => h = InfoAddressRH(c, ls)
         /\ c.class = WhatIsCmd => h = WhatIsRH(ls)
         /\ c.class = ExamineCmd => h = ExamineRH(ls)
         /\ c.class = RestoreCmd => h = RestoreRH
         /\ c.class = DeleteBreakpointCmd => h = DeleteBreakpointRH
         /\ c.class = ReadMemoryCmd => h = ReadMemoryRH(allow)
         /\ c.class = InfoFrameCmd => h = InfoFrameRH(allow)
         /\ c.class = InfoScopeCmd => h = InfoScopeRH(allow)
         /\ c.class = InfoFunctionsCmd => h = InfoFunctionsRH(allow)
         /\ c.class = SetBreakpointCmd => h = SetBreakpointRH(allow)
         /\ c.class = SetBreakpointNameCmd => h = SetBreakpointName(c, ls, allow)
         /\ c.class = MaintPrintRawRegistersCmd => h = MaintPrintRawRegistersRH(allow)
         /\ c.class = RecordSaveCmd => h = RecordSaveRH(allow)
         /\ c.class = MaintArchitectureCmd => h = MaintArchitectureRH(c, ls, allow)
         /\ c.class = PrintCmd => h = PrintRH(c, ls, allow)
BY DEF HandleResponse

(* What a handler decides at the prompt, given the lines of its own command. *)
LEMMA HandledAtPrompt ==
  ASSUME NEW c \in Command, c.class \notin NoHandler, NEW ls \in Seq(Line),
         NEW allow \in BOOLEAN, ~allow,
         \A i \in 1..Len(ls) : ls[i].of = c,
         c.class \in Needs => \E i \in 1..Len(ls) : Decides(c, ls[i])
  PROVE  HandleResponse(c, ls, allow).result = "Handled"
<1>1. /\ Handled.result = "Handled" /\ HandledMute.result = "Handled"
      /\ \A b, q : Reply("Handled", b, q).result = "Handled"
  BY DEF Handled, HandledMute, Reply
<1>2. c.class \in Class \ NoHandler
  BY DEF Command
<1>3. CASE c.class \in Needs
  <2>1. PICK i \in 1..Len(ls) : Decides(c, ls[i])
    BY <1>3
  <2>2. ls # <<>>
    BY <2>1
  <2>3. c.class # ContinueCmd => Answered(c, ls)
    BY <2>1 DEF Decides, Answered
  <2>4. c.class \in {ContinueCmd, RunCmd, SimpleCmd} =>
          /\ c.class = ContinueCmd => ContinueRH(c, ls).result = "Handled"
          /\ c.class # ContinueCmd => RunRH(c, ls).result = "Handled"
    <3> DEFINE n == FirstOf(ls, {"answer", "notrun"})
               a == FirstOf(ls, {"answer", "already"})
    <3>1. c.class = ContinueCmd => n # 0 /\ n \in 1..Len(ls)
      BY <2>1, FirstOfIndex DEF Decides
    <3>2. c.class # ContinueCmd => a # 0 /\ a \in 1..Len(ls)
      BY <2>1, FirstOfIndex DEF Decides
    <3> HIDE DEF n, a
    <3>3. c.class = ContinueCmd => ContinueRH(c, ls).result = "Handled"
      BY <1>1, <3>1 DEF ContinueRH, AnswerOr, n
    <3>4. c.class # ContinueCmd => RunRH(c, ls).result = "Handled"
      BY <1>1, <3>2 DEF RunRH, AnswerOr, a
    <3> QED
      BY <3>3, <3>4
  <2>5. c.class \in {FileCmd, AttachCmd, TargetCmd, ContinueCmd, RunCmd, SimpleCmd, InfoLineCmd,
                     PrintCmd, WhatIsCmd, ExamineCmd}
    BY <1>3 DEF Needs, Search, SearchOrMore, CollectSearch, FirstLine
  <2>6. /\ FirstResponseLine(ls).result = "Handled"
        /\ c.class # ContinueCmd => SearchLines(c, ls).result = "Handled"
    BY <1>1, <2>2, <2>3 DEF FirstResponseLine, SearchLines
  <2>7. /\ c.class # ContinueCmd =>
             /\ FileRH(c, ls).result = "Handled" /\ AttachRH(c, ls).result = "Handled"
             /\ TargetRH(c, ls).result = "Handled" /\ PrintRH(c, ls, allow).result = "Handled"
             /\ InfoLineRH(c, ls).result = "Handled"
        /\ WhatIsRH(ls).result = "Handled" /\ ExamineRH(ls).result = "Handled"
    BY <1>1, <2>3, <2>6 DEF FileRH, AttachRH, TargetRH, PrintRH, InfoLineRH, WhatIsRH, ExamineRH
  <2> QED
    BY <2>4, <2>5, <2>7, HandlerOf
<1>4. CASE c.class \notin Needs
  <2>1. c.class \in {InfoAddressCmd, RestoreCmd, DeleteBreakpointCmd, ReadMemoryCmd, InfoFrameCmd,
                     InfoScopeCmd, InfoFunctionsCmd, SetBreakpointCmd, SetBreakpointNameCmd,
                     MaintPrintRawRegistersCmd, RecordSaveCmd, MaintArchitectureCmd}
    BY <1>2, <1>4 DEF Needs, Class, AnyResponse, FirstLine, Search, SearchOrMore, SearchOnce, Collect,
      CollectKnown, CollectSearch
  <2>2. CollectLines(allow).result = "Handled" /\ InfoAddressRH(c, ls).result = "Handled"
    BY <1>1 DEF CollectLines, InfoAddressRH
  <2>3. /\ RestoreRH.result = "Handled" /\ DeleteBreakpointRH.result = "Handled"
        /\ ReadMemoryRH(allow).result = "Handled" /\ InfoFrameRH(allow).result = "Handled"
        /\ InfoScopeRH(allow).result = "Handled" /\ InfoFunctionsRH(allow).result = "Handled"
        /\ SetBreakpointRH(allow).result = "Handled"
    BY <1>1, <2>2 DEF RestoreRH, DeleteBreakpointRH, ReadMemoryRH, InfoFrameRH, InfoScopeRH,
      InfoFunctionsRH, SetBreakpointRH
  <2>4. /\ SetBreakpointName(c, ls, allow).result = "Handled"
        /\ MaintPrintRawRegistersRH(allow).result = "Handled" /\ RecordSaveRH(allow).result = "Handled"
        /\ MaintArchitectureRH(c, ls, allow).result = "Handled"
    BY <1>1, <2>3 DEF SetBreakpointName, MaintPrintRawRegistersRH, RecordSaveRH, MaintArchitectureRH
  <2> QED
    BY <2>1, <2>2, <2>3, <2>4, HandlerOf
<1> QED
  BY <1>3, <1>4

(* What is left by the permanent handlers: they wait for the address, the  *)
(* thread ends over a signal it does not know, or the lines are consumed,  *)
(* with the report of a stop if one of them was a stop's.                  *)
Waits(p, q)    == q = p /\ ~p.ready /\ \E i \in 1..Len(p.lines) : p.lines[i].kind \in StopKind
Dies(p, q)     == q.dead /\ SameStop(p, q) /\ \E i \in 1..Len(p.lines) : p.lines[i].kind = "unknown"
Stops(p, q)    == /\ q.dead = p.dead /\ q.lines = <<>> /\ q.stopSet
                  /\ \E i \in 1..Len(p.lines) :
                       p.lines[i].kind \in StopKind /\ q.lastStop.id = p.lines[i].of.id
Discards(p, q) == /\ q.dead = p.dead /\ q.lines = <<>> /\ SameStop(p, q)
                  /\ \A i \in 1..Len(p.lines) : p.lines[i].kind \in StopKind =>
                       \E j \in 1..Len(p.lines) : p.lines[j].kind = "foreign"

LeavesQueue(p, q) ==
  /\ q.current = p.current /\ q.queue = p.queue /\ q.issued = p.issued /\ q.input = p.input
  /\ q.ready = p.ready /\ q.finished = p.finished /\ SameCalls(p, q)

(* GdbStopped changes the stop event and leaves the queue alone. *)
LEMMA GdbStoppedFields ==
  ASSUME NEW p \in Proc, NEW i \in 1..Len(p.lines), NEW addr, p.lines[i].kind \in StopKind
  PROVE  LeavesQueue(p, GdbStopped(p, i, addr)) /\ Stops(p, GdbStopped(p, i, addr))
<1> DEFINE q == GdbStopped(p, i, addr)
           stop == [id |-> p.lines[i].of.id, addr |-> addr]
<1>1. q = [p EXCEPT !.lastStop = stop, !.stopSet = TRUE, !.lines = <<>>]
  BY DEF GdbStopped
<1>2. stop.id = p.lines[i].of.id
  OBVIOUS
<1> HIDE DEF q, stop
<1>3. /\ LeavesQueue(p, q) /\ q.dead = p.dead /\ q.lines = <<>> /\ q.stopSet /\ q.lastStop = stop
  BY <1>1 DEF Proc, LeavesQueue, SameCalls
<1> QED
  BY <1>2, <1>3 DEF Stops, q

(* Dropping the lines, or the end of the read thread, changes nothing else. *)
LEMMA DropsFields ==
  ASSUME NEW p \in Proc
  PROVE  LET q == [p EXCEPT !.lines = <<>>]
             d == [p EXCEPT !.dead = TRUE] IN
         /\ LeavesQueue(p, q) /\ SameStop(p, q) /\ q.dead = p.dead /\ q.lines = <<>>
         /\ LeavesQueue(p, d) /\ SameStop(p, d) /\ d.dead
         /\ LeavesQueue(p, p)
BY DEF Proc, LeavesQueue, SameStop, SameCalls

(* The permanent handlers call no callback of a command. *)
LEMMA PermanentFields ==
  ASSUME NEW p \in Proc
  PROVE  LET q == PermanentHandlers(p) IN
         LeavesQueue(p, q) /\ (Waits(p, q) \/ Dies(p, q) \/ Stops(p, q) \/ Discards(p, q))
<1> DEFINE breakpoint == FirstOf(p.lines, {"break", "symbol", "foreign"})
           exit       == FirstOf(p.lines, {"exit"})
           signal     == FirstOf(p.lines, {"signal", "unknown"})
           history    == FirstOf(p.lines, {"history"})
           Fine(q)    == LeavesQueue(p, q) /\ (Waits(p, q) \/ Dies(p, q) \/ Stops(p, q) \/ Discards(p, q))
<1>1. p.lines \in Seq(Line)
  BY DEF Proc
<1>2. CASE breakpoint # 0
  <2>1. breakpoint \in 1..Len(p.lines) /\ p.lines[breakpoint].kind \in {"break", "symbol", "foreign"}
    BY <1>1, <1>2, FirstOfIndex
  <2> HIDE DEF breakpoint
  <2>2. CASE p.lines[breakpoint].kind = "foreign"
    <3>1. BreakpointRH(p, breakpoint) = [p EXCEPT !.lines = <<>>]
      BY <2>2 DEF BreakpointRH
    <3>2. Fine(BreakpointRH(p, breakpoint))
      BY <2>1, <2>2, <3>1, DropsFields DEF Discards
    <3> QED
      BY <1>2, <3>2 DEF PermanentHandlers, breakpoint
  <2>3. CASE p.lines[breakpoint].kind # "foreign"
    <3>1. Fine(BreakpointRH(p, breakpoint))
      BY <2>1, <2>3, GdbStoppedFields DEF BreakpointRH, StopKind
    <3> QED
      BY <1>2, <3>1 DEF PermanentHandlers, breakpoint
  <2> QED
    BY <2>2, <2>3
<1>3. CASE breakpoint = 0 /\ exit # 0
  <2>1. exit \in 1..Len(p.lines) /\ p.lines[exit].kind \in StopKind
    BY <1>1, <1>3, FirstOfIndex DEF StopKind
  <2> HIDE DEF breakpoint, exit
  <2>2. Fine(ExitRH(p, exit))
    BY <2>1, GdbStoppedFields DEF ExitRH
  <2> QED
    BY <1>3, <2>2 DEF PermanentHandlers, breakpoint, exit
<1>4. CASE breakpoint = 0 /\ exit = 0 /\ signal # 0
  <2>1. signal \in 1..Len(p.lines) /\ p.lines[signal].kind \in {"signal", "unknown"}
    BY <1>1, <1>4, FirstOfIndex
  <2>2. p.lines[signal].kind \in StopKind
    BY <2>1 DEF StopKind
  <2> HIDE DEF breakpoint, exit, signal
  <2>3. Fine(SignalRH(p, signal))
    BY <2>1, <2>2, GdbStoppedFields, DropsFields DEF SignalRH, Waits, Dies
  <2> QED
    BY <1>4, <2>3 DEF PermanentHandlers, breakpoint, exit, signal
<1>5. CASE breakpoint = 0 /\ exit = 0 /\ signal = 0 /\ history # 0
  <2>1. history \in 1..Len(p.lines) /\ p.lines[history].kind \in StopKind
    BY <1>1, <1>5, FirstOfIndex DEF StopKind
  <2> HIDE DEF breakpoint, exit, signal, history
  <2>2. Fine(RecordLogRH(p, history))
    BY <2>1, GdbStoppedFields, DropsFields DEF RecordLogRH, Waits
  <2> QED
    BY <1>5, <2>2 DEF PermanentHandlers, breakpoint, exit, signal, history
<1>6. CASE breakpoint = 0 /\ exit = 0 /\ signal = 0 /\ history = 0
  <2>1. \A i \in 1..Len(p.lines) : p.lines[i].kind \notin StopKind
    BY <1>1, <1>6, FirstOfIndex DEF StopKind
  <2> HIDE DEF breakpoint, exit, signal, history
  <2>2. Fine(UnhandledRH(p))
    BY <2>1, DropsFields DEF UnhandledRH, Discards
  <2> QED
    BY <1>6, <2>2 DEF PermanentHandlers, breakpoint, exit, signal, history
<1> QED
  BY <1>2, <1>3, <1>4, <1>5, <1>6

-----------------------------------------------------------------------------
(* The current command's handler: it keeps the command, or finishes it.    *)
KeepsCurrent(p, q) ==
  /\ q.current = p.current /\ q.lines = p.lines /\ SameQueue(p, q) /\ SameStop(p, q)
  /\ q.finished = p.finished /\ q.called = p.called /\ q.callbacks = p.callbacks
  /\ q.misplaced => p.misplaced \/ p.ready

(* What the handler of the current command changes. *)
LEMMA CurrentHandlerFields ==
  ASSUME NEW p \in Proc, CurrentHasHandler(p), p.current # Nothing
  PROVE  LET r == HandleResponse(p.current, p.lines, ~p.ready)
             q == CurrentHandler(p) IN
         /\ r \in ReplyType
         /\ IF r.result = "Handled" THEN q = FinishCurrent(Callback(p, r)) ELSE KeepsCurrent(p, q)
<1> DEFINE r == HandleResponse(p.current, p.lines, ~p.ready)
           q == CurrentHandler(p)
<1>1. r \in ReplyType
  <2>1. p.current \in Command /\ (~p.ready) \in BOOLEAN /\ p.current.class \notin NoHandler
    BY DEF Proc, CurrentHasHandler
  <2> QED
    BY <2>1, HandleResponseType
<1>2. CASE r.result = "Handled"
  BY <1>1, <1>2 DEF CurrentHandler
<1>3. CASE r.result # "Handled"
  <2> DEFINE m == p.misplaced \/ (r.result = "RequestLine" /\ p.ready)
  <2>1. q = [p EXCEPT !.misplaced = m]
    BY <1>3 DEF CurrentHandler
  <2>2. m => p.misplaced \/ p.ready
    OBVIOUS
  <2> HIDE DEF m, q, r
  <2>3. /\ q.current = p.current /\ q.lines = p.lines /\ SameQueue(p, q) /\ SameStop(p, q)
        /\ q.finished = p.finished /\ q.called = p.called /\ q.callbacks = p.callbacks
        /\ q.misplaced = m
    BY <2>1 DEF Proc, SameQueue, SameStop
  <2> QED
    BY <1>1, <1>3, <2>2, <2>3 DEF KeepsCurrent, q, r
<1> QED
  BY <1>2, <1>3

(* A command that is finished, with its callback and what that queued. *)
LEMMA FinishedFields ==
  ASSUME NEW p \in Proc, p.current # Nothing, NEW r \in ReplyType
  PROVE  LET q == FinishCurrent(Callback(p, r))
             c == [id |-> p.issued + 1, class |-> r.queues, by |-> p.current.by] IN
         /\ Callback(p, r) \in Proc
         /\ q.current = Nothing /\ q.misplaced = p.misplaced /\ SameStop(p, q)
         /\ q.dead \/ q.lines = <<>>
         /\ ~p.ready =>
              /\ q.dead = p.dead /\ q.lines = <<>> /\ q.input = p.input /\ ~q.ready
              /\ q.finished = p.finished \union {p.current.id}
              /\ q.called = IF r.calls THEN p.called \union {p.current.id} ELSE p.called
              /\ IF r.queues = SetCmd THEN q.queue = p.queue /\ q.issued = p.issued
                 ELSE q.queue = Append(p.queue, c) /\ q.issued = p.issued + 1
<1> DEFINE q == FinishCurrent(Callback(p, r))
           c == [id |-> p.issued + 1, class |-> r.queues, by |-> p.current.by]
           b == Callback(p, r)
<1>1. PICK m \in Proc :
           /\ Entered(p, m, r.calls)
           /\ b = IF r.queues = SetCmd THEN m ELSE ProcessQueue(Enqueue(m, r.queues, p.current.by))
  BY CallbackFields
<1>2. /\ m.current = p.current /\ m.lines = p.lines /\ m.finished = p.finished
      /\ m.misplaced = p.misplaced /\ SameStop(p, m) /\ m.queue = p.queue /\ m.issued = p.issued
      /\ m.input = p.input /\ m.ready = p.ready /\ m.dead = p.dead
      /\ m.called = IF r.calls THEN p.called \union {p.current.id} ELSE p.called
  BY <1>1 DEF Entered, SameQueue
<1>3. /\ b \in Proc /\ b.misplaced = p.misplaced /\ SameStop(p, b)
      /\ ~p.ready =>
           /\ b.current = p.current /\ b.dead = p.dead /\ b.input = p.input /\ ~b.ready
           /\ b.finished = p.finished
           /\ b.called = IF r.calls THEN p.called \union {p.current.id} ELSE p.called
           /\ IF r.queues = SetCmd THEN b.queue = p.queue /\ b.issued = p.issued
              ELSE b.queue = Append(p.queue, c) /\ b.issued = p.issued + 1
  <2>1. CASE r.queues = SetCmd
    <3>1. b = m
      BY <1>1, <2>1
    <3> HIDE DEF b
    <3> QED
      BY <1>2, <2>1, <3>1 DEF SameStop
  <2>2. CASE r.queues # SetCmd
    <3> DEFINE e == Enqueue(m, r.queues, p.current.by)
    <3>1. r.queues \in Class /\ p.current.by \in Callers
      BY EntryType DEF ReplyType, Command
    <3> DEFINE d == [id |-> m.issued + 1, class |-> r.queues, by |-> p.current.by]
    <3>a. /\ e \in Proc /\ e.queue = Append(m.queue, d) /\ e.issued = m.issued + 1
          /\ e.current = m.current /\ e.lines = m.lines /\ e.input = m.input
          /\ e.ready = m.ready /\ e.dead = m.dead /\ e.finished = m.finished
          /\ SameCalls(m, e) /\ SameStop(m, e)
      BY <3>1, EnqueueFields
    <3>b. d = c
      BY <1>2
    <3>3. b = ProcessQueue(e)
      BY <1>1, <2>2
    <3> HIDE DEF e, c, d
    <3>2. /\ e \in Proc /\ e.queue = Append(p.queue, c) /\ e.issued = p.issued + 1
          /\ e.current = p.current /\ e.lines = p.lines /\ e.input = p.input
          /\ e.ready = p.ready /\ e.dead = p.dead /\ e.finished = p.finished
          /\ SameCalls(m, e) /\ SameStop(m, e)
      BY <1>2, <3>a, <3>b
    <3> HIDE DEF e, b, c
    <3>4. e.called = m.called /\ e.misplaced = p.misplaced /\ SameStop(p, e)
      BY <1>2, <3>2 DEF SameCalls, SameStop
    <3>5. b \in Proc /\ (((e.queue = <<>> \/ ~e.ready) /\ b = e) \/ Sent(e, b))
      BY <3>2, <3>3, ProcessQueueFields, ProcessQueueProc
    <3>6. CASE b = e
      BY <1>2, <2>2, <3>2, <3>4, <3>5, <3>6
    <3>7. CASE Sent(e, b)
      <4>1. p.ready /\ b.misplaced = e.misplaced /\ SameStop(e, b)
        BY <3>2, <3>7 DEF Sent, SameCalls
      <4> QED
        BY <3>4, <3>5, <4>1 DEF SameStop
    <3> QED
      BY <3>5, <3>6, <3>7
  <2> QED
    BY <2>1, <2>2
<1> HIDE DEF b, c
<1>4. /\ q.current = Nothing /\ q.queue = b.queue /\ q.issued = b.issued
      /\ q.input = b.input /\ q.ready = b.ready
      /\ SameCalls(b, q) /\ SameStop(b, q)
      /\ IF b.current = Nothing THEN q.dead /\ q.finished = b.finished /\ q.lines = b.lines
         ELSE /\ q.dead = b.dead /\ q.lines = <<>>
              /\ q.finished = b.finished \union {b.current.id}
  BY <1>3, FinishFields DEF b
<1> HIDE DEF q
<1>5. q.misplaced = p.misplaced /\ SameStop(p, q) /\ q.called = b.called
  BY <1>3, <1>4 DEF SameCalls, SameStop
<1>6. q.dead \/ q.lines = <<>>
  BY <1>4
<1> QED
  BY <1>3, <1>4, <1>5, <1>6 DEF q, b, c

(* ReadThread's step keeps the order. *)
LEMMA ReceivedOrder ==
  ASSUME NEW p, Good(p), Order(p), Fresh(p), p.current # Nothing => OwnLines(p)
  PROVE  Order(ReceivedNewLine(p)) /\ Fresh(ReceivedNewLine(p))
<1> DEFINE q == ReceivedNewLine(p)
<1>1. p \in Proc /\ CurrentHasHandler(p)
  BY DEF Good
<1>2. CASE p.current = Nothing
  <2>1. q = PermanentHandlers(p)
    BY <1>2 DEF ReceivedNewLine
  <2>2. LeavesQueue(p, q)
    BY <1>1, <2>1, PermanentFields
  <2> QED
    BY <2>2 DEF LeavesQueue, SameCalls, Order, QueueOrder, CallOrder, CurrentOrder, Fresh
<1>3. CASE p.current # Nothing
  <2> DEFINE r == HandleResponse(p.current, p.lines, ~p.ready)
  <2>1. /\ q = CurrentHandler(p) /\ r \in ReplyType
        /\ IF r.result = "Handled" THEN q = FinishCurrent(Callback(p, r)) ELSE KeepsCurrent(p, q)
    BY <1>1, <1>3, CurrentHandlerFields DEF ReceivedNewLine
  <2> HIDE DEF r, q
  <2>2. CASE r.result = "Handled"
    <3> DEFINE b == Callback(p, r)
    <3>1. Order(b) /\ b \in Proc /\ q = FinishCurrent(b)
      BY <1>1, <1>3, <2>1, <2>2, CallbackOrder
    <3> HIDE DEF b
    <3>2. q.current = Nothing /\ q.queue = b.queue /\ q.issued = b.issued /\ SameCalls(b, q)
      BY <3>1, FinishFields
    <3> QED
      BY <3>1, <3>2 DEF q, SameCalls, Order, QueueOrder, CallOrder, CurrentOrder, Fresh
  <2>3. CASE r.result # "Handled"
    <3>1. KeepsCurrent(p, q)
      BY <2>1, <2>3
    <3> QED
      BY <3>1 DEF q, KeepsCurrent, SameQueue, Order, QueueOrder, CallOrder, CurrentOrder, Fresh
  <2> QED
    BY <2>2, <2>3
<1> QED
  BY <1>2, <1>3

-----------------------------------------------------------------------------
(* The lines gathered, and those in rest that are still to come, are the   *)
(* current command's, and a line that decides is among them; a command     *)
(* gdb has not taken yet finds no lines; at the prompt nothing is left.    *)
Attributed(p, rest) ==
  /\ p.current # Nothing =>
       /\ OwnLines(p)
       /\ \A l \in rest : l.of = p.current
       /\ p.input = <<>> /\ p.current.class \in Needs =>
            \/ \E i \in 1..Len(p.lines) : Decides(p.current, p.lines[i])
            \/ \E l \in rest : Decides(p.current, l)
  /\ p.input # <<>> => p.lines = <<>> /\ (p.current = Nothing \/ p.current = Head(p.input))
  /\ p.ready => p.current = Nothing /\ p.lines = <<>>

(* A line that is delivered while gdb is busy. *)
LEMMA DeliverAttributed ==
  ASSUME NEW p, Good(p), Order(p), Fresh(p), ~p.dead, ~p.ready, p.input = <<>>, ~p.misplaced,
         NEW line \in Line, NEW rest, Attributed(p, rest \union {line})
  PROVE  LET q == Deliver(p, line) IN
         /\ Order(q) /\ Fresh(q) /\ ~q.misplaced
         /\ ~q.dead => Attributed(q, rest)
<1> DEFINE a == [p EXCEPT !.lines = Append(p.lines, line)]
           q == Deliver(p, line)
<1>1. Append(p.lines, line) \in Seq(Line) /\ p \in Proc
  BY DEF Good, Proc
<1>2. /\ a \in Proc /\ LeavesQueue(p, a) /\ a.lines = Append(p.lines, line) /\ ~a.dead
      /\ SameStop(p, a)
  BY <1>1 DEF Proc, LeavesQueue, SameCalls, SameStop
<1>3. q = ReceivedNewLine(a)
  BY DEF Deliver
<1> HIDE DEF a, q
<1>4. /\ a.current = p.current /\ a.queue = p.queue /\ a.issued = p.issued /\ a.input = <<>>
      /\ ~a.ready /\ a.callbacks = p.callbacks /\ ~a.misplaced
  BY <1>2 DEF LeavesQueue, SameCalls
<1>5. Good(a)
  BY <1>2, <1>4 DEF Good, CurrentHasHandler
<1>6. Order(a) /\ Fresh(a)
  BY <1>4 DEF Order, QueueOrder, CallOrder, CurrentOrder, Fresh
<1>7. /\ Len(a.lines) = Len(p.lines) + 1 /\ Len(p.lines) \in Nat /\ a.lines[Len(p.lines) + 1] = line
      /\ \A i \in 1..Len(p.lines) : a.lines[i] = p.lines[i]
  BY <1>1, <1>2, ProcTypes, AppendAt
<1>8. p.current # Nothing => OwnLines(a)
  BY <1>4, <1>7, SMTT(30) DEF Attributed, OwnLines
<1>9. p.current # Nothing /\ p.current.class \in Needs =>
        \/ \E i \in 1..Len(a.lines) : Decides(a.current, a.lines[i])
        \/ \E l \in rest : Decides(a.current, l)
  <2> SUFFICES ASSUME p.current # Nothing, p.current.class \in Needs,
                      ~\E l \in rest : Decides(p.current, l)
               PROVE  \E i \in 1..Len(a.lines) : Decides(a.current, a.lines[i])
    BY <1>4
  <2>1. CASE Decides(p.current, line)
    <3>1. Len(p.lines) + 1 \in 1..Len(a.lines)
      BY <1>7
    <3> QED
      BY <1>4, <1>7, <2>1, <3>1
  <2>2. CASE ~Decides(p.current, line)
    <3>1. PICK i \in 1..Len(p.lines) : Decides(p.current, p.lines[i])
      BY <2>2 DEF Attributed
    <3>2. i \in 1..Len(a.lines)
      BY <1>7
    <3> QED
      BY <1>4, <1>7, <3>1, <3>2
  <2> QED
    BY <2>1, <2>2
<1>10. Order(q) /\ Fresh(q)
  BY <1>3, <1>4, <1>5, <1>6, <1>8, ReceivedOrder
<1>11. CASE p.current = Nothing
  <2>1. LeavesQueue(a, q)
    BY <1>2, <1>3, <1>4, <1>11, PermanentFields DEF ReceivedNewLine
  <2>2. q.current = Nothing /\ q.input = <<>> /\ ~q.ready /\ ~q.misplaced
    BY <1>4, <1>11, <2>1 DEF LeavesQueue, SameCalls
  <2> QED
    BY <1>10, <2>2 DEF Attributed, q
<1>12. CASE p.current # Nothing
  <2> DEFINE r == HandleResponse(a.current, a.lines, ~a.ready)
  <2>1. /\ r \in ReplyType
        /\ IF r.result = "Handled" THEN q = FinishCurrent(Callback(a, r)) ELSE KeepsCurrent(a, q)
    BY <1>2, <1>3, <1>4, <1>5, <1>12, CurrentHandlerFields DEF ReceivedNewLine, Good
  <2> HIDE DEF r
  <2>2. CASE r.result = "Handled"
    <3>1. q.current = Nothing /\ ~q.misplaced /\ q.input = <<>> /\ ~q.ready
      BY <1>2, <1>4, <1>12, <2>1, <2>2, FinishedFields, ZenonT(60)
    <3> QED
      BY <1>10, <3>1 DEF Attributed, q
  <2>3. CASE r.result # "Handled"
    <3>1. /\ q.current = a.current /\ q.lines = a.lines /\ q.input = <<>> /\ ~q.ready
          /\ ~q.misplaced
      BY <1>4, <2>1, <2>3 DEF KeepsCurrent, SameQueue
    <3>2. OwnLines(q)
      BY <1>8, <1>12, <3>1 DEF OwnLines
    <3>3. \A l \in rest : l.of = q.current
      BY <1>4, <1>12, <3>1 DEF Attributed
    <3>4. Attributed(q, rest)
      BY <1>4, <1>9, <1>12, <3>1, <3>2, <3>3 DEF Attributed
    <3> QED
      BY <1>10, <3>1, <3>4 DEF q
  <2> QED
    BY <2>2, <2>3
<1> QED
  BY <1>11, <1>12

(* A command that is sent finds no lines. *)
LEMMA ProcessQueueAttributed ==
  ASSUME NEW p \in Proc, Attributed(p, {}), p.ready => p.input = <<>>
  PROVE  Attributed(ProcessQueue(p), {})
<1> DEFINE q == ProcessQueue(p)
<1>1. CASE q = p
  BY <1>1
<1>2. CASE Sent(p, q)
  <2> HIDE DEF q
  <2>1. /\ p.input = <<>> /\ p.lines = <<>> /\ ~q.ready /\ q.lines = <<>>
        /\ (q.current = Nothing \/ q.current = Head(p.queue))
        /\ q.input = Append(<<>>, Head(p.queue))
    BY <1>2 DEF Sent, Attributed
  <2>2. Head(p.queue) \in Command
    BY <1>2, ProcTypes, TailAt DEF Sent
  <2>3. q.input # <<>> /\ Head(q.input) = Head(p.queue)
    <3> DEFINE h == Head(p.queue)
    <3> HIDE DEF h
    <3>1. Append(<<>>, h) = <<h>>
      BY <2>2 DEF h
    <3> QED
      BY <2>1, <3>1 DEF h
  <2>4. Len(q.lines) = 0
    BY <2>1
  <2> QED
    BY <2>1, <2>3, <2>4 DEF Attributed, OwnLines, q
<1> QED
  BY <1>1, <1>2, ProcessQueueFields

(* The prompt: the command gdb has answered is finished. *)
LEMMA AtPromptAttributed ==
  ASSUME NEW p, Good(p), Order(p), Fresh(p), ~p.dead, p.input = <<>>, ~p.misplaced,
         Attributed(p, {})
  PROVE  LET q == AtPrompt(p) IN
         /\ Order(q) /\ Fresh(q) /\ ~q.misplaced
         /\ ~q.dead => Attributed(q, {})
<1> DEFINE a == [p EXCEPT !.ready = TRUE]
           b == ReceivedNewLine(a)
<1>1. /\ a \in Proc /\ a.current = p.current /\ a.ready /\ a.input = <<>> /\ ~a.dead
      /\ a.lines = p.lines /\ a.queue = p.queue /\ a.issued = p.issued
      /\ a.callbacks = p.callbacks /\ ~a.misplaced
  BY DEF Good, Proc
<1> HIDE DEF a
<1>2. Good(a) /\ Order(a) /\ Fresh(a) /\ (a.current # Nothing => OwnLines(a))
  BY <1>1 DEF Good, CurrentHasHandler, Order, QueueOrder, CallOrder, CurrentOrder, Fresh, OwnLines,
    Attributed
<1>3. Order(b) /\ Fresh(b) /\ Good(b) /\ Sends(a, b)
  BY <1>2, ReceivedOrder, ReceivedNewLineFrame
<1>4. AtPrompt(p) = IF b.dead THEN b ELSE ProcessQueue(b)
  BY DEF AtPrompt, a
<1>5. b.current = Nothing /\ ~b.misplaced /\ (b.dead \/ b.lines = <<>>)
  <2>1. CASE a.current = Nothing
    <3>1. b = PermanentHandlers(a)
      BY <2>1 DEF ReceivedNewLine
    <3>2. LeavesQueue(a, b) /\ (Waits(a, b) \/ Dies(a, b) \/ Stops(a, b) \/ Discards(a, b))
      BY <1>1, <3>1, PermanentFields
    <3> HIDE DEF b
    <3> QED
      BY <1>1, <2>1, <3>2 DEF LeavesQueue, SameCalls, Waits, Dies, Stops, Discards
  <2>2. CASE a.current # Nothing
    <3> DEFINE r == HandleResponse(a.current, a.lines, ~a.ready)
    <3>1. a.current \in Command /\ a.current.class \notin NoHandler /\ a.lines \in Seq(Line)
      BY <1>1, <1>2, <2>2, ProcTypes DEF Good, CurrentHasHandler
    <3>2. /\ \A i \in 1..Len(a.lines) : a.lines[i].of = a.current
          /\ a.current.class \in Needs => \E i \in 1..Len(a.lines) : Decides(a.current, a.lines[i])
      BY <1>1, <2>2 DEF Attributed, OwnLines
    <3>3. r.result = "Handled"
      <4>1. (~a.ready) \in BOOLEAN /\ ~~a.ready
        BY <1>1
      <4> QED
        BY <3>1, <3>2, <4>1, HandledAtPrompt
    <3>4. r \in ReplyType /\ b = FinishCurrent(Callback(a, r))
      BY <1>1, <1>2, <2>2, <3>3, CurrentHandlerFields DEF ReceivedNewLine, Good
    <3> HIDE DEF r, b
    <3> QED
      BY <1>1, <2>2, <3>4, FinishedFields
  <2> QED
    BY <2>1, <2>2
<1> HIDE DEF b
<1>6. CASE b.dead
  BY <1>3, <1>4, <1>5, <1>6
<1>7. CASE ~b.dead
  <2> DEFINE q == ProcessQueue(b)
  <2>1. Len(b.lines) = 0 /\ b.lines = <<>>
    BY <1>5, <1>7
  <2>2. Attributed(b, {}) /\ (b.ready => b.input = <<>>)
    BY <1>1, <1>3, <1>5, <2>1 DEF Attributed, Sends
  <2>3. b \in Proc
    BY <1>3 DEF Good
  <2>4. Attributed(q, {}) /\ Order(q) /\ Fresh(q)
    BY <1>3, <2>2, <2>3, ProcessQueueAttributed, ProcessQueueOrder
  <2>5. q.misplaced = b.misplaced
    BY <2>3, ProcessQueueFields DEF Sent, SameCalls
  <2> QED
    BY <1>4, <1>5, <1>7, <2>4, <2>5
<1> QED
  BY <1>6, <1>7

-----------------------------------------------------------------------------
(* Without a refusal, gdb prints a line that decides for every command     *)
(* that needs one.                                                         *)
LEMMA ConcatAt ==
  ASSUME NEW S, NEW s \in Seq(S), NEW t \in Seq(S)
  PROVE  /\ s \o t \in Seq(S) /\ Len(s) \in Nat /\ Len(t) \in Nat /\ Len(s \o t) = Len(s) + Len(t)
         /\ \A i \in 1..Len(s) : (s \o t)[i] = s[i]
         /\ \A i \in 1..Len(t) : (s \o t)[Len(s) + i] = t[i]
<1>1. s \o t \in Seq(S) /\ Len(s) \in Nat /\ Len(t) \in Nat /\ Len(s \o t) = Len(s) + Len(t)
  BY ConcatProperties, LenProperties
<1>2. \A i \in 1..Len(s) + Len(t) : (s \o t)[i] = IF i <= Len(s) THEN s[i] ELSE t[i - Len(s)]
  BY ConcatProperties
<1>3. ASSUME NEW i \in 1..Len(t) PROVE (s \o t)[Len(s) + i] = t[i]
  <2>1. Len(s) + i \in 1..Len(s) + Len(t) /\ ~(Len(s) + i <= Len(s)) /\ Len(s) + i - Len(s) = i
    BY <1>1
  <2> QED
    BY <1>2, <2>1
<1>4. ASSUME NEW i \in 1..Len(s) PROVE (s \o t)[i] = s[i]
  BY <1>1, <1>2
<1> QED
  BY <1>1, <1>3, <1>4

(* The line that decides, in an answer that begins with it. *)
LEMMA AnswerFirst ==
  ASSUME NEW t \in Seq(LineKind)
  PROVE  (<<"answer">> \o t)[1] = "answer" /\ 1 \in 1..Len(<<"answer">> \o t)
<1>1. <<"answer">> \in Seq(LineKind) /\ Len(<<"answer">>) = 1 /\ <<"answer">>[1] = "answer"
  BY DEF LineKind
<1> HIDE DEF LineKind
<1> QED
  BY <1>1, ConcatAt

(* The line that decides, in an answer with other lines around it. *)
LEMMA AnswerAround ==
  ASSUME NEW r \in Around({<<"answer">>})
  PROVE  \E i \in 1..Len(r) : r[i] = "answer"
<1>1. PICK pre \in Noise, post \in Noise : r = (pre \o <<"answer">>) \o post
  BY DEF Around
<1>2. pre \in Seq(LineKind) /\ post \in Seq(LineKind)
  BY NoiseType
<1>3. <<"answer">> \in Seq(LineKind) /\ Len(<<"answer">>) = 1 /\ <<"answer">>[1] = "answer"
  BY DEF LineKind
<1> DEFINE h == pre \o <<"answer">>
<1>4. /\ h \in Seq(LineKind) /\ Len(pre) \in Nat /\ Len(h) = Len(pre) + 1
      /\ h[Len(pre) + 1] = "answer"
  BY <1>2, <1>3, ConcatAt
<1> HIDE DEF h
<1>5. Len(post) \in Nat /\ Len(h \o post) = Len(h) + Len(post) /\ \A i \in 1..Len(h) : (h \o post)[i] = h[i]
  BY <1>2, <1>4, ConcatAt
<1>6. Len(pre) + 1 \in 1..Len(h) /\ Len(pre) + 1 \in 1..Len(h \o post)
  BY <1>4, <1>5
<1>7. (h \o post)[Len(pre) + 1] = "answer"
  BY <1>4, <1>5, <1>6
<1> QED
  BY <1>1, <1>6, <1>7 DEF h

(* A report of a stop is a sequence of lines. *)
LEMMA StopReportType == \A r \in StopReport : r \in Seq(LineKind)
<1>1. /\ \A a \in LineKind : <<a>> \in Seq(LineKind)
      /\ \A a, b \in LineKind : <<a, b>> \in Seq(LineKind)
      /\ \A a, b, c \in LineKind : <<a, b, c>> \in Seq(LineKind)
  OBVIOUS
<1>2. {"break", "symbol", "exit", "signal", "addr", "noise", "history", "unknown", "foreign"}
        \subseteq LineKind
  BY DEF LineKind, StopKind
<1>3. /\ <<"break">> \in Seq(LineKind) /\ <<"symbol">> \in Seq(LineKind)
      /\ <<"exit">> \in Seq(LineKind) /\ <<"signal">> \in Seq(LineKind)
      /\ <<"history">> \in Seq(LineKind) /\ <<"unknown">> \in Seq(LineKind)
      /\ <<"foreign">> \in Seq(LineKind)
  BY <1>1, <1>2
<1>4. /\ <<"signal", "addr">> \in Seq(LineKind) /\ <<"history", "addr">> \in Seq(LineKind)
      /\ <<"unknown", "addr">> \in Seq(LineKind)
  BY <1>1, <1>2
<1>5. <<"signal", "noise", "addr">> \in Seq(LineKind)
  BY <1>1, <1>2
<1> QED
  BY <1>3, <1>4, <1>5, Zenon DEF StopReport

(* In every response gdb is expected to give, a line decides before the prompt. *)
LEMMA ExpectedDecides ==
  ASSUME NEW class \in Needs, NEW r \in Expected(class)
  PROVE  \E i \in 1..Len(r) : r[i] = "answer" \/ (r[i] = "notrun" /\ class = ContinueCmd)
<1>1. CASE class \in {FileCmd, AttachCmd, TargetCmd, InfoLineCmd, PrintCmd}
  <2>1. r \in Around({<<"answer">>})
    BY <1>1 DEF Expected, Search, SearchOrMore, CollectKnown, CollectSearch
  <2> QED
    BY <2>1, AnswerAround
<1>2. CASE class = ContinueCmd /\ ~alive
  <2>1. r = <<"notrun">>
    BY <1>2 DEF Expected, Search, SearchOrMore, CollectKnown, CollectSearch
  <2> QED
    BY <1>2, <2>1
<1>3. CASE class \in {ContinueCmd, RunCmd, SimpleCmd} /\ ~(class = ContinueCmd /\ ~alive)
  <2>1. PICK t \in Around(StopReport) : r = <<"answer">> \o t
    BY <1>3 DEF Expected, Search, SearchOrMore, CollectKnown, CollectSearch
  <2>2. t \in Seq(LineKind)
    BY <2>1, StopReportType, AroundType
  <2> QED
    BY <2>1, <2>2, AnswerFirst
<1>4. CASE class \in FirstLine
  <2>1. PICK t \in Noise : r = <<"answer">> \o t
    BY <1>4 DEF Expected, Search, SearchOrMore, CollectKnown, CollectSearch, FirstLine
  <2>2. t \in Seq(LineKind)
    BY <2>1, NoiseType
  <2> QED
    BY <2>1, <2>2, AnswerFirst
<1> QED
  BY <1>1, <1>2, <1>3, <1>4 DEF Needs, Search, SearchOrMore, CollectSearch, FirstLine

-----------------------------------------------------------------------------
(* The lines gdb has printed that no handler has seen. *)
OutputLines == {l \in Line : \E i \in 1..Len(output) : output[i] = l}
Rest        == {l \in Line : l = lastLine} \union OutputLines

AnswerInv ==
  /\ Order(proc) /\ Fresh(proc) /\ ~proc.misplaced
  /\ ~proc.dead => Attributed(proc, Rest)

(* The absence of a line is not a line, nor is the prompt. *)
LEMMA NothingIsNoLine == Nothing \notin Line /\ Prompt \notin Line /\ Nothing # Prompt
BY DEF Line, Nothing, Prompt, LineKind, StopKind

(* No callback has been called at the start. *)
LEMMA AnswerInit == Init => AnswerInv
<1> SUFFICES ASSUME Init PROVE AnswerInv
  OBVIOUS
<1>1. /\ proc.queue = <<>> /\ proc.callbacks = <<>> /\ proc.current = Nothing /\ proc.input = <<>>
      /\ ~proc.ready /\ ~proc.misplaced
  BY DEF Init
<1>2. Len(proc.queue) = 0 /\ Len(proc.callbacks) = 0
  BY <1>1
<1> QED
  BY <1>1, <1>2 DEF AnswerInv, Order, QueueOrder, CallOrder, CurrentOrder, Fresh, Attributed

(* What is left to read when a line is read: all but the line before it.   *)
LEMMA ReadLineRest ==
  ASSUME QueueInv, ReadLine
  PROVE  Rest' = OutputLines
<1>1. output # <<>> /\ output \in Seq(Line \union {Prompt}) /\ Head(output) # Prompt
  BY DEF QueueInv, TypeOK, ReadLine
<1>2. /\ Tail(output) \in Seq(Line \union {Prompt}) /\ Len(output) \in Nat /\ Len(output) >= 1
      /\ Len(Tail(output)) = Len(output) - 1 /\ Head(output) = output[1]
      /\ \A i \in 1..Len(output) - 1 : Tail(output)[i] = output[i + 1]
  BY <1>1, TailAt
<1>3. lastLine' = output[1] /\ output' = Tail(output)
  BY <1>2 DEF ReadLine
<1>4. \A l \in Line : l \in Rest' <=> l \in OutputLines
  <2> TAKE l \in Line
  <2>1. l \in Rest' => l \in OutputLines
    <3>1. CASE l = lastLine'
      BY <1>2, <1>3, <3>1 DEF OutputLines
    <3>2. ASSUME NEW i \in 1..Len(output'), output'[i] = l PROVE l \in OutputLines
      <4>1. i + 1 \in 1..Len(output) /\ output[i + 1] = l
        BY <1>2, <1>3, <3>2
      <4> QED
        BY <4>1 DEF OutputLines
    <3> QED
      BY <3>1, <3>2 DEF Rest, OutputLines
  <2>2. ASSUME NEW i \in 1..Len(output), output[i] = l PROVE l \in Rest'
    <3>1. CASE i = 1
      BY <1>3, <2>2, <3>1 DEF Rest
    <3>2. CASE i # 1
      <4>1. i - 1 \in 1..Len(output') /\ output'[i - 1] = l
        <5>1. i - 1 \in 1..Len(output) - 1 /\ (i - 1) + 1 = i
          BY <1>2, <3>2
        <5> QED
          BY <1>2, <1>3, <2>2, <5>1
      <4> QED
        BY <4>1 DEF Rest, OutputLines
    <3> QED
      BY <3>1, <3>2
  <2> QED
    BY <2>1, <2>2 DEF OutputLines
<1> QED
  BY <1>4 DEF Rest, OutputLines

(* A line that is read reaches the handler of its own command. *)
LEMMA ReadLineAnswer == QueueInv /\ AnswerInv /\ ReadLine => AnswerInv'
<1> SUFFICES ASSUME QueueInv, AnswerInv, ReadLine PROVE AnswerInv'
  OBVIOUS
<1>1. Rest' = OutputLines
  BY ReadLineRest
<1>2. /\ Good(proc) /\ ~proc.dead /\ ~proc.ready /\ proc.input = <<>> /\ ~proc.misplaced
      /\ Order(proc) /\ Fresh(proc) /\ Attributed(proc, Rest)
  BY DEF QueueInv, TypeOK, Good, OneOutstanding, AnswerInv, ReadLine
<1>3. CASE lastLine = Nothing
  <2>1. Rest = OutputLines
    BY <1>3, NothingIsNoLine DEF Rest
  <2>2. proc' = proc
    BY <1>3 DEF ReadLine
  <2> QED
    BY <1>1, <1>2, <2>1, <2>2 DEF AnswerInv
<1>4. CASE lastLine # Nothing
  <2>1. lastLine \in Line /\ proc' = Deliver(proc, lastLine)
    BY <1>4 DEF QueueInv, TypeOK, ReadLine
  <2>2. Rest = OutputLines \union {lastLine}
    BY <2>1 DEF Rest
  <2>3. Order(proc') /\ Fresh(proc') /\ ~proc'.misplaced /\ (~proc'.dead => Attributed(proc', OutputLines))
    BY <1>2, <2>1, <2>2, DeliverAttributed
  <2> QED
    BY <1>1, <2>3 DEF AnswerInv
<1> QED
  BY <1>3, <1>4

(* The first half of a prompt is no line of a response. *)
LEMMA ReadPromptStartAnswer == QueueInv /\ AnswerInv /\ ReadPromptStart => AnswerInv'
<1> SUFFICES ASSUME QueueInv, AnswerInv, ReadPromptStart PROVE AnswerInv'
  OBVIOUS
<1>1. /\ Good(proc) /\ ~proc.dead /\ ~proc.ready /\ proc.input = <<>> /\ ~proc.misplaced
      /\ Order(proc) /\ Fresh(proc) /\ Attributed(proc, Rest)
  BY DEF QueueInv, TypeOK, Good, OneOutstanding, AnswerInv, ReadPromptStart
<1>2. lastLine \in Line /\ proc' = Deliver(proc, lastLine) /\ lastLine' = Nothing /\ output' = output
  BY DEF QueueInv, TypeOK, ReadPromptStart
<1>3. Rest = OutputLines \union {lastLine}
  BY <1>2 DEF Rest
<1>4. Rest' = OutputLines
  BY <1>2, NothingIsNoLine DEF Rest, OutputLines
<1>5. Order(proc') /\ Fresh(proc') /\ ~proc'.misplaced /\ (~proc'.dead => Attributed(proc', OutputLines))
  BY <1>1, <1>2, <1>3, DeliverAttributed
<1> QED
  BY <1>4, <1>5 DEF AnswerInv

(* At the prompt the current command is finished and the next one sent. *)
LEMMA ReadPromptAnswer == QueueInv /\ AnswerInv /\ ReadPrompt => AnswerInv'
<1> SUFFICES ASSUME QueueInv, AnswerInv, ReadPrompt PROVE AnswerInv'
  OBVIOUS
<1>1. /\ Good(proc) /\ ~proc.dead /\ ~proc.ready /\ proc.input = <<>> /\ ~proc.misplaced
      /\ Order(proc) /\ Fresh(proc) /\ Attributed(proc, Rest)
      /\ output # <<>> /\ output \in Seq(Line \union {Prompt})
      /\ \A i \in 1..Len(output) : output[i] = Prompt <=> i = Len(output)
  BY DEF QueueInv, TypeOK, Good, OneOutstanding, AnswerInv, ReadPrompt
<1>2. Len(output) = 1 /\ output[1] = Prompt
  <2>1. Len(output) \in Nat /\ Len(output) >= 1 /\ Head(output) = output[1]
    BY <1>1, TailAt
  <2>2. output[1] = Prompt /\ 1 \in 1..Len(output)
    BY <2>1 DEF ReadPrompt
  <2> QED
    BY <1>1, <2>2
<1>3. Rest = {}
  BY <1>2, NothingIsNoLine DEF Rest, OutputLines, ReadPrompt
<1>4. Tail(output) \in Seq(Line \union {Prompt}) /\ Len(Tail(output)) = 0
  BY <1>1, <1>2, TailAt
<1>5. Rest' = {}
  BY <1>4, NothingIsNoLine DEF Rest, OutputLines, ReadPrompt
<1>6. proc' = AtPrompt(proc)
  BY DEF ReadPrompt
<1>7. Order(proc') /\ Fresh(proc') /\ ~proc'.misplaced /\ (~proc'.dead => Attributed(proc', {}))
  BY <1>1, <1>3, <1>6, AtPromptAttributed
<1> QED
  BY <1>5, <1>7 DEF AnswerInv

(* What gdb prints for the command it has taken, which is the current one  *)
(* or one without a handler.                                               *)
Prints(c, r) ==
  /\ Len(proc.input) = 1 /\ c = proc.input[1] /\ proc'.input = <<>>
  /\ ~proc.ready /\ proc.lines = <<>> /\ (proc.current = Nothing \/ proc.current = c)
  /\ lastLine' = Nothing /\ Len(r) \in Nat /\ Len(output') = Len(r) + 1
  /\ output'[Len(r) + 1] = Prompt
  /\ \A i \in 1..Len(r) : output'[i] \in Line /\ output'[i].of = c /\ output'[i].kind = r[i]

(* What gdb prints for a command belongs to that command. *)
LEMMA GdbPrints ==
  ASSUME "refusal" \notin Surprises, QueueInv, AnswerInv, GdbAnswers, ~proc.dead
  PROVE  \E c \in Command : \E r \in Expected(c.class) : Prints(c, r)
<1> DEFINE c == Head(proc.input)
<1>1. proc \in Proc /\ proc.input \in Seq(Command) /\ proc.input # <<>> /\ c \in Command
  BY DEF QueueInv, TypeOK, Proc, GdbAnswers
<1>2. PICK r \in Responses(c.class) :
        output' = output \o [i \in 1..Len(r) |-> [kind |-> r[i], of |-> c]] \o <<Prompt>>
  BY DEF GdbAnswers
<1>3. r \in Seq(LineKind) /\ r \in Expected(c.class)
  BY <1>1, ResponsesType DEF Command, Responses
<1> DEFINE ls == [i \in 1..Len(r) |-> [kind |-> r[i], of |-> c]]
<1>4. proc'.input = Tail(proc.input) /\ lastLine' = lastLine
  BY <1>1 DEF GdbAnswers, Proc
<1>5. ~proc.ready /\ Len(proc.input) = 1 /\ output = <<>> /\ lastLine = Nothing
  BY <1>1 DEF QueueInv, OneOutstanding
<1>6. proc.lines = <<>> /\ (proc.current = Nothing \/ proc.current = c)
  BY <1>1 DEF AnswerInv, Attributed
<1>7. proc'.input = <<>> /\ c = proc.input[1]
  <2>1. Tail(proc.input) \in Seq(Command) /\ Len(Tail(proc.input)) = 0 /\ Head(proc.input) = proc.input[1]
    BY <1>1, <1>5, TailAt
  <2> QED
    BY <1>4, <2>1, EmptySeq
<1>8. ls \in Seq(Line) /\ Len(ls) = Len(r) /\ Len(r) \in Nat
  <2>1. \A i \in 1..Len(r) : [kind |-> r[i], of |-> c] \in Line
    BY <1>1, <1>3 DEF Line
  <2> QED
    BY <1>3, <2>1
<1>9. \A i \in 1..Len(r) : ls[i].of = c /\ ls[i].kind = r[i] /\ ls[i] \in Line
  BY <1>1, <1>8
<1> HIDE DEF ls
<1>10. output' = ls \o <<Prompt>>
  <2>1. output \o ls = ls
    BY <1>5, <1>8
  <2> QED
    BY <1>2, <2>1 DEF ls
<1>11. /\ Len(output') = Len(r) + 1 /\ output'[Len(r) + 1] = Prompt
       /\ \A i \in 1..Len(r) : output'[i] = ls[i]
  <2> DEFINE end == <<Prompt>>
             o   == ls \o end
             T   == Line \union {Prompt}
  <2>1. ls \in Seq(T) /\ end \in Seq(T) /\ Len(end) = 1 /\ end[1] = Prompt
    BY <1>8
  <2> HIDE DEF end, T
  <2>2. /\ Len(o) = Len(ls) + Len(end) /\ \A i \in 1..Len(ls) : o[i] = ls[i]
        /\ \A i \in 1..Len(end) : o[Len(ls) + i] = end[i]
    BY <2>1, ConcatAt, SMTT(30)
  <2>3. output' = o
    BY <1>10 DEF end
  <2> HIDE DEF o
  <2>4. Len(o) = Len(r) + 1 /\ o[Len(r) + 1] = Prompt /\ \A i \in 1..Len(r) : o[i] = ls[i]
    BY <1>8, <2>1, <2>2
  <2> QED
    BY <2>3, <2>4
<1>12. \A i \in 1..Len(r) : output'[i] \in Line /\ output'[i].of = c /\ output'[i].kind = r[i]
  BY <1>9, <1>11
<1> HIDE DEF c
<1> QED
  BY <1>1, <1>3, <1>4, <1>5, <1>6, <1>7, <1>8, <1>11, <1>12 DEF Prints

(* gdb answers the command the handler is waiting for. *)
LEMMA GdbAnswersAnswer ==
  ASSUME "refusal" \notin Surprises, QueueInv, AnswerInv, GdbAnswers
  PROVE  AnswerInv'
<1>1. proc \in Proc /\ proc' = [proc EXCEPT !.input = Tail(proc.input)]
  BY DEF QueueInv, TypeOK, GdbAnswers
<1>2. /\ proc'.current = proc.current /\ proc'.lines = proc.lines /\ proc'.ready = proc.ready
      /\ proc'.queue = proc.queue /\ proc'.issued = proc.issued /\ proc'.callbacks = proc.callbacks
      /\ proc'.misplaced = proc.misplaced /\ proc'.dead = proc.dead
  BY <1>1 DEF Proc
<1>3. Order(proc') /\ Fresh(proc') /\ ~proc'.misplaced
  BY <1>2 DEF AnswerInv, Order, QueueOrder, CallOrder, CurrentOrder, Fresh
<1>4. ASSUME ~proc.dead PROVE Attributed(proc', Rest')
  <2>1. PICK c \in Command : \E r \in Expected(c.class) : Prints(c, r)
    BY <1>4, GdbPrints
  <2>2. PICK r \in Expected(c.class) : Prints(c, r)
    BY <2>1
  <2>a. /\ proc'.input = <<>> /\ ~proc.ready /\ proc.lines = <<>>
        /\ (proc.current = Nothing \/ proc.current = c)
        /\ lastLine' = Nothing /\ Len(r) \in Nat /\ Len(output') = Len(r) + 1
        /\ output'[Len(r) + 1] = Prompt
        /\ \A i \in 1..Len(r) : output'[i] \in Line /\ output'[i].of = c /\ output'[i].kind = r[i]
    BY <2>2 DEF Prints
  <2>3. ASSUME NEW l \in Rest' PROVE l.of = c
    <3>1. PICK i \in 1..Len(output') : output'[i] = l /\ l \in Line
      BY <2>a, NothingIsNoLine DEF Rest, OutputLines
    <3>2. i \in 1..Len(r)
      BY <2>a, <3>1, NothingIsNoLine
    <3> QED
      BY <2>a, <3>1, <3>2
  <2>4. ASSUME c.class \in Needs PROVE \E l \in Rest' : Decides(c, l)
    <3>1. PICK i \in 1..Len(r) : r[i] = "answer" \/ (r[i] = "notrun" /\ c.class = ContinueCmd)
      BY <2>4, ExpectedDecides
    <3>2. i \in 1..Len(output')
      BY <2>a
    <3>3. output'[i] \in Rest'
      BY <2>a, <3>2 DEF Rest, OutputLines
    <3>4. Decides(c, output'[i])
      BY <2>a, <3>1 DEF Decides
    <3> QED
      BY <3>3, <3>4
  <2>5. Len(proc.lines) = 0
    BY <2>a
  <2> QED
    BY <1>2, <2>a, <2>3, <2>4, <2>5 DEF Attributed, OwnLines
<1> QED
  BY <1>2, <1>3, <1>4 DEF AnswerInv

(* A caller's command waits in the queue or is sent when nothing is left.  *)
LEMMA CallerAnswer ==
  ASSUME NEW c \in Callers, QueueInv, AnswerInv, Caller(c)
  PROVE  AnswerInv'
<1>1. proc \in Proc /\ CurrentHasHandler(proc)
  BY DEF QueueInv, TypeOK
<1>2. Rest' = Rest
  BY DEF Caller, Issue, Process, Return, AskForPc, Rest, OutputLines
<1>3. ASSUME NEW p \in Proc, NEW class \in Class, proc' = Enqueue(p, class, c),
             LeavesQueue(proc, p), p.lines = proc.lines, p.dead = proc.dead
      PROVE  AnswerInv'
  <2>1. Order(p) /\ Fresh(p) /\ p.current = proc.current /\ p.input = proc.input
        /\ p.ready = proc.ready /\ p.misplaced = proc.misplaced
    BY <1>3 DEF LeavesQueue, SameCalls, AnswerInv, Order, QueueOrder, CallOrder, CurrentOrder, Fresh
  <2>2. Order(proc') /\ Fresh(proc')
    BY <1>3, <2>1, EnqueueOrder
  <2>3. /\ proc'.current = proc.current /\ proc'.lines = proc.lines /\ proc'.input = proc.input
        /\ proc'.ready = proc.ready /\ proc'.dead = proc.dead /\ proc'.misplaced = proc.misplaced
    BY <1>3, <2>1, EnqueueFields DEF SameCalls
  <2>4. ~proc'.dead => Attributed(proc', Rest')
    BY <1>2, <2>3 DEF AnswerInv, Attributed, OwnLines
  <2> QED
    BY <2>2, <2>3, <2>4 DEF AnswerInv
<1>4. ASSUME NEW class \in Class, Issue(c, class) PROVE AnswerInv'
  <2> DEFINE p == [proc EXCEPT !.stopSet = proc.stopSet /\ class \notin AwaitsStop]
  <2>1. proc' = Enqueue(p, class, c)
    BY <1>4 DEF Issue
  <2>2. p \in Proc /\ LeavesQueue(proc, p) /\ p.lines = proc.lines /\ p.dead = proc.dead
    BY <1>1 DEF Proc, LeavesQueue, SameCalls
  <2> HIDE DEF p
  <2> QED
    BY <1>3, <2>1, <2>2
<1>5. CASE AskForPc(c)
  <2>1. proc' = Enqueue(proc, PrintCmd, c) /\ PrintCmd \in Class
    BY <1>5 DEF AskForPc, Class, CollectSearch
  <2>2. LeavesQueue(proc, proc)
    BY DEF LeavesQueue, SameCalls
  <2> QED
    BY <1>1, <1>3, <2>1, <2>2
<1>6. CASE Process(c)
  <2>1. proc' = ProcessQueue(proc)
    BY <1>6 DEF Process
  <2>2. Order(proc') /\ Fresh(proc')
    BY <1>1, <2>1, ProcessQueueOrder DEF AnswerInv
  <2>3. CASE proc' = proc
    BY <1>2, <2>3 DEF AnswerInv
  <2>4. CASE Sent(proc, proc')
    <3>1. proc'.misplaced = proc.misplaced /\ proc'.dead = proc.dead /\ proc.ready
      BY <2>4 DEF Sent, SameCalls
    <3>2. ~proc.dead => proc.input = <<>> /\ output = <<>> /\ lastLine = Nothing
      BY <3>1 DEF QueueInv, OneOutstanding
    <3>3. ~proc.dead => Rest = {}
      <4>1. Len(<<>>) = 0
        OBVIOUS
      <4> QED
        BY <3>2, <4>1, NothingIsNoLine DEF Rest, OutputLines
    <3>4. ~proc.dead => Attributed(proc', {})
      BY <1>1, <2>1, <3>2, <3>3, ProcessQueueAttributed DEF AnswerInv
    <3> QED
      BY <1>2, <2>2, <3>1, <3>3, <3>4 DEF AnswerInv
  <2> QED
    BY <1>1, <2>1, <2>3, <2>4, ProcessQueueFields
<1>7. CASE Return(c)
  BY <1>2, <1>7 DEF Return, AnswerInv
<1> QED
  BY <1>4, <1>5, <1>6, <1>7 DEF Caller

(* The invariant of the answers, when gdb refuses nothing. *)
THEOREM AnswerInvariant ==
  ASSUME "refusal" \notin Surprises
  PROVE  Spec => []AnswerInv
<1>1. Init => AnswerInv
  BY AnswerInit
<1>2. QueueInv /\ AnswerInv /\ [Next]_vars => AnswerInv'
  <2> SUFFICES ASSUME QueueInv, AnswerInv, [Next]_vars PROVE AnswerInv'
    OBVIOUS
  <2>1. CASE Reader
    BY <2>1, ReadLineAnswer, ReadPromptStartAnswer, ReadPromptAnswer DEF Reader
  <2>2. CASE GdbAnswers
    BY <2>2, GdbAnswersAnswer
  <2>3. ASSUME NEW c \in Callers, Caller(c) PROVE AnswerInv'
    BY <2>3, CallerAnswer
  <2>4. CASE UNCHANGED vars
    BY <2>4 DEF vars, AnswerInv, Rest, OutputLines
  <2> QED
    BY <2>1, <2>2, <2>3, <2>4 DEF Next
<1> QED
  BY <1>1, <1>2, QueueInvariant, PTL DEF Spec

(* A callback gets the lines of its own command and is called once, for    *)
(* any number of callers whose commands follow each other in any order     *)
(* (ReceivedNewLine, currentLines of ReadThread).                          *)
THEOREM CallbacksAreAttributed ==
  ASSUME "refusal" \notin Surprises
  PROVE  Spec => []CallbacksAttributed
<1>1. QueueInv /\ AnswerInv => CallbacksAttributed
  <2> SUFFICES ASSUME QueueInv, AnswerInv PROVE CallbacksAttributed
    OBVIOUS
  <2>1. proc \in Proc
    BY DEF QueueInv, TypeOK
  <2>2. Len(proc.callbacks) \in Nat /\ \A i \in 1..Len(proc.callbacks) : proc.callbacks[i].id \in Nat
    BY <2>1, ProcTypes
  <2> QED
    BY <2>2 DEF AnswerInv, Order, CallOrder, CallbacksAttributed
<1> QED
  BY <1>1, QueueInvariant, AnswerInvariant, PTL

(* No handler requests a line at the prompt, where none can come           *)
(* (GDBSubProcess.ReceivedNewLine, "Wrong behaviour").                     *)
THEOREM NoLineRequestedAtPrompt ==
  ASSUME "refusal" \notin Surprises
  PROVE  Spec => []NoRequestAtPrompt
<1>1. AnswerInv => NoRequestAtPrompt
  BY DEF AnswerInv, NoRequestAtPrompt
<1> QED
  BY <1>1, AnswerInvariant, PTL

-----------------------------------------------------------------------------
(* Which stop DebugContinue returns, when gdb answers what it is asked and *)
(* only one thread, the fuzzing loop, lets the target run: a stop that     *)
(* came after the call.  The invariant follows each command that runs the  *)
(* target, from the queue through gdb to the line that reports the stop    *)
(* and the question for $pc behind it: all of them were asked for by the   *)
(* call that is waiting, and at most one is under way.                     *)

(* Stops.  A continue, the run it is replaced by and the confirmation of   *)
(* that run lead to a stop; so many are on their way as the only thread    *)
(* that continues the target waits for, one or none.                       *)
RunLike == {ContinueCmd, RunCmd, SimpleCmd}
Running == StopKind \union {"notrun"}

(* What a handler queues, and when. *)
LEMMA QueuedByHandler ==
  ASSUME NEW c \in Command, c.class \notin NoHandler, NEW ls \in Seq(Line), NEW allow \in BOOLEAN
  PROVE  LET r == HandleResponse(c, ls, allow) IN
         \/ r.queues \in {SetCmd, DeleteBreakpointCmd}
         \/ c.class = ContinueCmd /\ r.queues = RunCmd /\ \E i \in 1..Len(ls) : ls[i].kind = "notrun"
         \/ \E i \in 1..Len(ls) : ls[i].kind = "already"
<1> DEFINE r == HandleResponse(c, ls, allow)
           Mild == {SetCmd, DeleteBreakpointCmd}
<1>1. /\ Handled.queues \in Mild /\ HandledMute.queues \in Mild /\ NotHandled.queues \in Mild
      /\ RequestLine.queues \in Mild /\ Throws.queues \in Mild
      /\ Reply("Handled", TRUE, DeleteBreakpointCmd).queues \in Mild
      /\ Reply("Handled", FALSE, RunCmd).queues = RunCmd
  BY DEF Handled, HandledMute, NotHandled, RequestLine, Throws, Reply
<1>2. c.class \in Class \ NoHandler
  BY DEF Command
<1>3. CASE c.class = ContinueCmd
  <2> DEFINE n == FirstOf(ls, {"answer", "notrun"})
  <2>1. n # 0 => n \in 1..Len(ls) /\ ls[n].kind \in {"answer", "notrun"}
    BY FirstOfIndex
  <2> HIDE DEF n
  <2>2. r = IF n = 0 \/ (ls[n].kind = "answer" /\ ls[n].of.class # c.class) THEN NotHandled
            ELSE IF ls[n].kind = "answer" THEN Handled ELSE Reply("Handled", FALSE, RunCmd)
    BY <1>3, HandlerOf DEF ContinueRH, AnswerOr, n
  <2> QED
    BY <1>1, <1>3, <2>1, <2>2
<1>4. CASE c.class \in {RunCmd, SimpleCmd}
  <2> DEFINE n == FirstOf(ls, {"answer", "already"})
  <2>1. n # 0 => n \in 1..Len(ls) /\ ls[n].kind \in {"answer", "already"}
    BY FirstOfIndex
  <2> HIDE DEF n
  <2>2. r = IF n = 0 \/ (ls[n].kind = "answer" /\ ls[n].of.class # c.class) THEN NotHandled
            ELSE IF ls[n].kind = "answer" THEN Handled ELSE Reply("Handled", FALSE, SimpleCmd)
    BY <1>4, HandlerOf DEF RunRH, AnswerOr, n
  <2> QED
    BY <1>1, <1>4, <2>1, <2>2
<1>5. CASE c.class \in {FileCmd, AttachCmd, TargetCmd, InfoLineCmd, InfoAddressCmd, WhatIsCmd, ExamineCmd,
                        RestoreCmd, DeleteBreakpointCmd, PrintCmd}
  <2>1. /\ SearchLines(c, ls).queues \in Mild /\ FirstResponseLine(ls).queues \in Mild
        /\ InfoLineRH(c, ls).queues \in Mild /\ InfoAddressRH(c, ls).queues \in Mild
        /\ RestoreRH.queues \in Mild /\ DeleteBreakpointRH.queues \in Mild
    BY <1>1 DEF SearchLines, FirstResponseLine, InfoLineRH, InfoAddressRH, RestoreRH, DeleteBreakpointRH
  <2>2. /\ FileRH(c, ls).queues \in Mild /\ AttachRH(c, ls).queues \in Mild
        /\ TargetRH(c, ls).queues \in Mild /\ PrintRH(c, ls, allow).queues \in Mild
        /\ WhatIsRH(ls).queues \in Mild /\ ExamineRH(ls).queues \in Mild
    BY <1>1, <2>1 DEF FileRH, AttachRH, TargetRH, PrintRH, WhatIsRH, ExamineRH
  <2> HIDE DEF Mild
  <2>3. r.queues \in Mild
    BY <1>5, <2>1, <2>2, HandlerOf
  <2> QED
    BY <2>3 DEF Mild
<1>6. CASE c.class \in {ReadMemoryCmd, InfoFrameCmd, InfoScopeCmd, InfoFunctionsCmd, SetBreakpointCmd,
                        SetBreakpointNameCmd, MaintPrintRawRegistersCmd, RecordSaveCmd,
                        MaintArchitectureCmd}
  <2>1. CollectLines(allow).queues \in Mild
    BY <1>1 DEF CollectLines
  <2>2. /\ ReadMemoryRH(allow).queues \in Mild /\ InfoFrameRH(allow).queues \in Mild
        /\ InfoScopeRH(allow).queues \in Mild /\ InfoFunctionsRH(allow).queues \in Mild
        /\ SetBreakpointRH(allow).queues \in Mild
    BY <2>1 DEF ReadMemoryRH, InfoFrameRH, InfoScopeRH, InfoFunctionsRH, SetBreakpointRH
  <2>3. /\ SetBreakpointName(c, ls, allow).queues \in Mild
        /\ MaintPrintRawRegistersRH(allow).queues \in Mild /\ RecordSaveRH(allow).queues \in Mild
        /\ MaintArchitectureRH(c, ls, allow).queues \in Mild
    BY <1>1, <2>2 DEF SetBreakpointName, MaintPrintRawRegistersRH, RecordSaveRH, MaintArchitectureRH
  <2> HIDE DEF Mild
  <2>4. r.queues \in Mild
    BY <1>6, <2>2, <2>3, HandlerOf
  <2> QED
    BY <2>4 DEF Mild
<1> QED
  BY <1>2, <1>3, <1>4, <1>5, <1>6 DEF Class, AnyResponse, FirstLine, Search, SearchOrMore, SearchOnce,
    Collect, CollectKnown, CollectSearch

(* The handlers of those commands take the first line, which decides.      *)
LEMMA HandledAtOnce ==
  ASSUME NEW c \in Command, c.class \in RunLike, NEW ls \in Seq(Line), NEW allow \in BOOLEAN,
         Len(ls) = 1, ls[1].of = c, Decides(c, ls[1])
  PROVE  LET r == HandleResponse(c, ls, allow) IN
         /\ r.result = "Handled"
         /\ IF ls[1].kind = "answer" THEN r.queues = SetCmd
            ELSE r.queues = RunCmd /\ ls[1].kind = "notrun"
<1> DEFINE r    == HandleResponse(c, ls, allow)
           runs == Reply("Handled", FALSE, RunCmd)
<1>1. Handled.result = "Handled" /\ Handled.queues = SetCmd
  BY DEF Handled, Reply
<1>2. runs.result = "Handled" /\ runs.queues = RunCmd
  BY DEF Reply
<1>3. 1 \in 1..Len(ls) /\ \A i \in 1..Len(ls) : i = 1
  OBVIOUS
<1>4. CASE c.class = ContinueCmd
  <2> DEFINE n == FirstOf(ls, {"answer", "notrun"})
  <2>1. ls[1].kind \in {"answer", "notrun"}
    BY DEF Decides
  <2>2. IF n # 0 THEN n \in 1..Len(ls) ELSE \A i \in 1..Len(ls) : ls[i].kind \notin {"answer", "notrun"}
    BY FirstOfIndex
  <2>3. n = 1
    <3> HIDE DEF n
    <3> QED
      BY <1>3, <2>1, <2>2
  <2>4. r = ContinueRH(c, ls)
    BY <1>4, HandlerOf
  <2>5. r = IF n = 0 \/ (ls[n].kind = "answer" /\ ls[n].of.class # c.class) THEN NotHandled
            ELSE IF ls[n].kind = "answer" THEN Handled ELSE runs
    BY <2>4 DEF ContinueRH, AnswerOr
  <2> HIDE DEF n, r, runs
  <2> QED
    BY <1>1, <1>2, <2>1, <2>3, <2>5 DEF r
<1>5. CASE c.class \in {RunCmd, SimpleCmd}
  <2> DEFINE n == FirstOf(ls, {"answer", "already"})
  <2>1. ls[1].kind = "answer"
    BY <1>5 DEF Decides
  <2>2. IF n # 0 THEN n \in 1..Len(ls) ELSE \A i \in 1..Len(ls) : ls[i].kind \notin {"answer", "already"}
    BY FirstOfIndex
  <2>3. n = 1
    <3> HIDE DEF n
    <3> QED
      BY <1>3, <2>1, <2>2
  <2>4. r = RunRH(c, ls)
    BY <1>5, HandlerOf
  <2>5. r = IF n = 0 \/ (ls[n].kind = "answer" /\ ls[n].of.class # c.class) THEN NotHandled
            ELSE IF ls[n].kind = "answer" THEN Handled ELSE Reply("Handled", FALSE, SimpleCmd)
    BY <2>4 DEF RunRH, AnswerOr
  <2> HIDE DEF n, r
  <2> QED
    BY <1>1, <2>1, <2>3, <2>5 DEF r
<1> QED
  BY <1>4, <1>5 DEF RunLike

-----------------------------------------------------------------------------
(* A stop is asked for by a caller that continues the target and waits for *)
(* the event: its command is the n-th or an earlier one.                   *)
Asked(p, n) ==
  ~p.stopSet /\ \E d \in Callers : caller[d].class = ContinueCmd /\ caller[d].id <= n

NoRun(s) == \A i \in 1..Len(s) : s[i].class \notin RunLike

(* Commands that run the target are asked for; while one is queued there   *)
(* is no other.                                                            *)
CommandsAsked(p) ==
  /\ \A i \in 1..Len(p.queue) : p.queue[i].class \in RunLike =>
       /\ Asked(p, p.queue[i].id)
       /\ \A j \in 1..Len(p.queue) : p.queue[j].class \in RunLike => i = j
       /\ p.current # Nothing => p.current.class \notin RunLike
       /\ NoRun(p.input)
  /\ \A i \in 1..Len(p.input) : p.input[i].class \in RunLike => Asked(p, p.input[i].id)
  /\ p.current # Nothing /\ p.current.class \in RunLike => Asked(p, p.current.id)

LineAsked(p, l) ==
  /\ l.kind # "already"
  /\ l.kind \in Running => l.of.class \in RunLike /\ Asked(p, l.of.id) /\ NoRun(p.queue)

(* So are the lines that report a stop; when one is among those gathered,  *)
(* none is still to come.                                                  *)
LinesAsked(p, rest) ==
  /\ \A i \in 1..Len(p.lines) : LineAsked(p, p.lines[i])
  /\ \A l \in rest : LineAsked(p, l)
  /\ \A i \in 1..Len(p.lines) : p.lines[i].kind \in Running => \A l \in rest : l.kind \notin Running

(* Who asked for a run of the target depends on the stop event only. *)
LEMMA SameStopAsked ==
  ASSUME NEW p, NEW q, SameStop(p, q)
  PROVE  \A n : Asked(p, n) <=> Asked(q, n)
BY DEF SameStop, Asked

(* Sending a command that was asked for leaves it asked for. *)
LEMMA ProcessQueueAsked ==
  ASSUME NEW p \in Proc, CommandsAsked(p), p.ready => p.input = <<>>
  PROVE  LET q == ProcessQueue(p) IN
         CommandsAsked(q) /\ (NoRun(p.queue) => NoRun(q.queue)) /\ q.lines = p.lines /\ SameStop(p, q)
<1> DEFINE q == ProcessQueue(p)
<1>1. CASE q = p
  BY <1>1 DEF SameStop
<1>2. CASE Sent(p, q)
  <2> DEFINE h == Head(p.queue)
  <2> HIDE DEF q
  <2>1. p.queue # <<>> /\ p.queue \in Seq(Command) /\ p.input = <<>> /\ SameStop(p, q)
    BY <1>2, ProcTypes DEF Sent
  <2>2. /\ Len(p.queue) \in Nat /\ Len(p.queue) >= 1 /\ Len(q.queue) = Len(p.queue) - 1
        /\ h = p.queue[1] /\ h \in Command
        /\ \A i \in 1..Len(p.queue) - 1 : q.queue[i] = p.queue[i + 1]
    BY <1>2, <2>1, TailAt DEF Sent
  <2>3. Len(q.input) = 1 /\ q.input[1] = h
    <3> HIDE DEF h
    <3>1. Append(<<>>, h) = <<h>>
      BY <2>2
    <3> QED
      BY <1>2, <2>1, <3>1 DEF Sent, h
  <2>4. q.current = Nothing \/ q.current = h
    BY <1>2 DEF Sent
  <2>5. \A i \in 1..Len(q.queue) : i + 1 \in 1..Len(p.queue) /\ i + 1 # 1 /\ q.queue[i] = p.queue[i + 1]
    BY <2>2
  <2>6. NoRun(p.queue) => NoRun(q.queue)
    BY <2>5 DEF NoRun
  <2>7. \A n : Asked(p, n) => Asked(q, n)
    BY <2>1, SameStopAsked
  <2>a. 1 \in 1..Len(p.queue)
    BY <2>2
  <2>8. h.class \in RunLike => NoRun(q.queue) /\ Asked(q, h.id)
    BY <2>2, <2>5, <2>7, <2>a DEF CommandsAsked, NoRun
  <2>9. \A i \in 1..Len(q.input) : q.input[i] = h
    BY <2>3
  <2>10. ASSUME NEW i \in 1..Len(q.queue), q.queue[i].class \in RunLike
         PROVE  /\ Asked(q, q.queue[i].id) /\ h.class \notin RunLike
                /\ \A j \in 1..Len(q.queue) : q.queue[j].class \in RunLike => i = j
    <3>1. Asked(q, q.queue[i].id) /\ h.class \notin RunLike
      BY <2>5, <2>7, <2>8, <2>10 DEF CommandsAsked, NoRun
    <3>2. ASSUME NEW j \in 1..Len(q.queue), q.queue[j].class \in RunLike PROVE i = j
      <4>1. i + 1 = j + 1
        BY <2>5, <2>10, <3>2 DEF CommandsAsked
      <4> QED
        BY <2>2, <4>1
    <3> QED
      BY <3>1, <3>2
  <2> HIDE DEF h
  <2>11. CommandsAsked(q)
    BY <2>4, <2>8, <2>9, <2>10 DEF CommandsAsked, NoRun
  <2>12. q.lines = p.lines
    BY <1>2 DEF Sent
  <2> QED
    BY <2>1, <2>6, <2>11, <2>12 DEF q
<1> QED
  BY <1>1, <1>2, ProcessQueueFields

(* A command that runs the target may be queued when there is none. *)
LEMMA EnqueueAsked ==
  ASSUME NEW p \in Proc, CommandsAsked(p), NEW class \in Class, NEW by \in Callers,
         class \in RunLike =>
           /\ Asked(p, p.issued + 1) /\ NoRun(p.queue) /\ NoRun(p.input)
           /\ p.current # Nothing => p.current.class \notin RunLike
  PROVE  LET q == Enqueue(p, class, by) IN
         CommandsAsked(q) /\ (NoRun(p.queue) /\ class \notin RunLike => NoRun(q.queue))
<1> DEFINE c == [id |-> p.issued + 1, class |-> class, by |-> by]
           q == Enqueue(p, class, by)
<1>1. /\ q \in Proc /\ c \in Command
      /\ q.queue = Append(p.queue, c)
      /\ q.current = p.current /\ q.input = p.input /\ SameStop(p, q)
  BY EnqueueFields
<1>2. c.class = class /\ c.id = p.issued + 1
  OBVIOUS
<1> HIDE DEF c, q
<1>3. /\ Len(p.queue) \in Nat /\ Len(q.queue) = Len(p.queue) + 1 /\ q.queue[Len(p.queue) + 1] = c
      /\ \A i \in 1..Len(p.queue) : q.queue[i] = p.queue[i]
  BY <1>1, ProcTypes, AppendAt
<1>4. \A n : Asked(p, n) => Asked(q, n)
  BY <1>1, SameStopAsked
<1>5. \A i \in 1..Len(q.queue) : q.queue[i].class \in RunLike =>
        \/ i \in 1..Len(p.queue) /\ q.queue[i] = p.queue[i] /\ class \notin RunLike
        \/ i = Len(p.queue) + 1 /\ q.queue[i] = c /\ class \in RunLike
  <2> TAKE i \in 1..Len(q.queue)
  <2>1. i \in 1..Len(p.queue) \/ i = Len(p.queue) + 1
    BY <1>3
  <2>2. CASE i \in 1..Len(p.queue)
    BY <1>3, <2>2 DEF NoRun
  <2>3. CASE i = Len(p.queue) + 1
    BY <1>2, <1>3, <2>3
  <2> QED
    BY <2>1, <2>2, <2>3
<1>6. ASSUME NEW i \in 1..Len(q.queue), q.queue[i].class \in RunLike
      PROVE  /\ Asked(q, q.queue[i].id)
             /\ \A j \in 1..Len(q.queue) : q.queue[j].class \in RunLike => i = j
             /\ q.current # Nothing => q.current.class \notin RunLike
             /\ NoRun(q.input)
  <2>1. CASE class \in RunLike
    BY <1>1, <1>2, <1>4, <1>5, <1>6, <2>1
  <2>2. CASE class \notin RunLike
    BY <1>1, <1>4, <1>5, <1>6, <2>2 DEF CommandsAsked
  <2> QED
    BY <2>1, <2>2
<1>7. /\ \A i \in 1..Len(q.input) : q.input[i].class \in RunLike => Asked(q, q.input[i].id)
      /\ q.current # Nothing /\ q.current.class \in RunLike => Asked(q, q.current.id)
  BY <1>1, <1>4 DEF CommandsAsked
<1>8. CommandsAsked(q)
  BY <1>6, <1>7 DEF CommandsAsked
<1>9. NoRun(p.queue) /\ class \notin RunLike => NoRun(q.queue)
  BY <1>5 DEF NoRun
<1> QED
  BY <1>8, <1>9 DEF q

(* A handler's end leaves the commands asked for, when what it queues does *)
(* not run the target.                                                     *)
LEMMA FinishedAsked ==
  ASSUME NEW p \in Proc, p.current # Nothing, NEW r \in ReplyType, r.queues \notin RunLike,
         CommandsAsked(p), p.ready => p.input = <<>>
  PROVE  LET q == FinishCurrent(Callback(p, r)) IN
         CommandsAsked(q) /\ (NoRun(p.queue) => NoRun(q.queue))
<1> DEFINE b == Callback(p, r)
           q == FinishCurrent(b)
<1>1. PICK m \in Proc :
           /\ Entered(p, m, r.calls)
           /\ b = IF r.queues = SetCmd THEN m ELSE ProcessQueue(Enqueue(m, r.queues, p.current.by))
  BY CallbackFields
<1>2. /\ m.current = p.current /\ m.queue = p.queue /\ m.input = p.input /\ m.ready = p.ready
      /\ SameStop(p, m)
  BY <1>1 DEF Entered, SameQueue
<1>3. CommandsAsked(m)
  BY <1>2, SameStopAsked DEF CommandsAsked
<1>4. b \in Proc /\ CommandsAsked(b) /\ (NoRun(p.queue) => NoRun(b.queue))
  <2>1. CASE r.queues = SetCmd
    BY <1>1, <1>2, <1>3, <2>1
  <2>2. CASE r.queues # SetCmd
    <3> DEFINE e == Enqueue(m, r.queues, p.current.by)
    <3>1. r.queues \in Class /\ p.current.by \in Callers
      BY EntryType DEF ReplyType, Command
    <3>2. e \in Proc /\ e.ready = p.ready /\ e.input = p.input
      BY <1>2, <3>1, EnqueueFields
    <3>3. CommandsAsked(e) /\ (NoRun(p.queue) => NoRun(e.queue))
      BY <1>2, <1>3, <3>1, EnqueueAsked
    <3>4. b = ProcessQueue(e)
      BY <1>1, <2>2
    <3> HIDE DEF e, b
    <3> QED
      BY <3>2, <3>3, <3>4, ProcessQueueAsked, ProcessQueueProc
  <2> QED
    BY <2>1, <2>2
<1> HIDE DEF b
<1>5. q.current = Nothing /\ q.queue = b.queue /\ q.input = b.input /\ SameStop(b, q)
  BY <1>4, FinishFields
<1> HIDE DEF q
<1>6. CommandsAsked(q) /\ (NoRun(p.queue) => NoRun(q.queue))
  BY <1>4, <1>5, SameStopAsked DEF CommandsAsked, NoRun
<1> QED
  BY <1>6 DEF q, b

(* The stop that is reported is one the waiting caller asked for. *)
Reported(p, q) ==
  \/ q.stopSet = p.stopSet /\ q.lastStop = p.lastStop
  \/ q.stopSet /\ Asked(p, q.lastStop.id)

(* A line that is delivered; it is the first one of a command that runs    *)
(* the target.                                                             *)
LEMMA DeliverAsked ==
  ASSUME TypeOK, NEW p, Good(p), Order(p), ~p.dead, ~p.ready, p.input = <<>>,
         NEW line \in Line, NEW rest, Attributed(p, rest \union {line}),
         CommandsAsked(p), LinesAsked(p, rest \union {line}),
         line.kind \in Running => \A l \in rest : l.kind \notin Running,
         p.current # Nothing /\ p.current.class \in RunLike => p.lines = <<>> /\ Decides(p.current, line)
  PROVE  LET q == Deliver(p, line) IN
         /\ Reported(p, q)
         /\ ~q.dead => /\ CommandsAsked(q) /\ LinesAsked(q, rest)
                       /\ q.current # Nothing => q.current.class \notin RunLike
<1> DEFINE a == [p EXCEPT !.lines = Append(p.lines, line)]
           q == Deliver(p, line)
<1>1. Append(p.lines, line) \in Seq(Line) /\ p \in Proc
  BY DEF Good, Proc
<1>2. /\ a \in Proc /\ LeavesQueue(p, a) /\ a.lines = Append(p.lines, line) /\ ~a.dead
      /\ SameStop(p, a)
  BY <1>1 DEF Proc, LeavesQueue, SameCalls, SameStop
<1>3. q = ReceivedNewLine(a)
  BY DEF Deliver
<1> HIDE DEF a, q
<1>4. /\ a.current = p.current /\ a.queue = p.queue /\ a.issued = p.issued /\ a.input = <<>>
      /\ ~a.ready
  BY <1>2 DEF LeavesQueue, SameCalls
<1>5. Good(a)
  BY <1>2, <1>4 DEF Good, CurrentHasHandler
<1>6. /\ Len(a.lines) = Len(p.lines) + 1 /\ Len(p.lines) \in Nat /\ a.lines[Len(p.lines) + 1] = line
      /\ \A i \in 1..Len(p.lines) : a.lines[i] = p.lines[i]
  BY <1>1, <1>2, ProcTypes, AppendAt
<1>7. CommandsAsked(a)
  BY <1>2, <1>4, SameStopAsked DEF CommandsAsked
<1>8. \A l : LineAsked(p, l) => LineAsked(a, l)
  BY <1>2, <1>4, SameStopAsked DEF LineAsked
<1>9. \A i \in 1..Len(a.lines) : (i \in 1..Len(p.lines) /\ a.lines[i] = p.lines[i]) \/ a.lines[i] = line
  BY <1>6
<1>10. LinesAsked(a, rest)
  BY <1>8, <1>9 DEF LinesAsked
<1>11. \A n : Asked(a, n) => Asked(p, n)
  BY <1>2, SameStopAsked
<1>12. CASE p.current = Nothing
  <2>1. LeavesQueue(a, q) /\ (Waits(a, q) \/ Dies(a, q) \/ Stops(a, q) \/ Discards(a, q))
    BY <1>2, <1>3, <1>4, <1>12, PermanentFields DEF ReceivedNewLine
  <2>2. q.current = Nothing /\ q.queue = a.queue /\ q.input = a.input
    BY <1>4, <1>12, <2>1 DEF LeavesQueue
  <2>3. CASE Waits(a, q)
    <3>1. q = a
      BY <2>3 DEF Waits
    <3> QED
      BY <1>2, <1>4, <1>7, <1>10, <1>12, <3>1 DEF Reported, SameStop, q
  <2>4. CASE Dies(a, q)
    BY <1>2, <2>4 DEF Dies, Reported, SameStop, q
  <2>5. CASE Stops(a, q)
    <3>1. PICK i \in 1..Len(a.lines) : a.lines[i].kind \in StopKind /\ q.lastStop.id = a.lines[i].of.id
      BY <2>5 DEF Stops
    <3>2. a.lines[i].kind \in Running
      BY <3>1 DEF Running
    <3>3. Asked(a, q.lastStop.id) /\ NoRun(q.queue) /\ \A l \in rest : l.kind \notin Running
      BY <1>10, <2>2, <3>1, <3>2 DEF LinesAsked, LineAsked
    <3>4. q.stopSet /\ q.lines = <<>>
      BY <2>5 DEF Stops
    <3>5. Reported(p, q)
      BY <1>11, <3>3, <3>4 DEF Reported
    <3>6. CommandsAsked(q)
      <4>1. Len(q.input) = 0
        BY <1>4, <2>2
      <4> QED
        BY <2>2, <3>3, <4>1 DEF CommandsAsked, NoRun
    <3>7. LinesAsked(q, rest)
      <4>1. Len(q.lines) = 0
        BY <3>4
      <4> QED
        BY <1>10, <3>3, <4>1 DEF LinesAsked, LineAsked
    <3> QED
      BY <2>2, <3>5, <3>6, <3>7 DEF q
  <2>6. CASE Discards(a, q)
    <3>1. q.lines = <<>> /\ SameStop(a, q)
      BY <2>6 DEF Discards
    <3>2. Len(q.lines) = 0
      BY <3>1
    <3>3. CommandsAsked(q)
      BY <1>4, <1>7, <1>12, <2>2, <3>1, SameStopAsked DEF CommandsAsked
    <3>4. LinesAsked(q, rest)
      BY <1>10, <2>2, <3>1, <3>2, SameStopAsked DEF LinesAsked, LineAsked
    <3> QED
      BY <1>2, <2>2, <3>1, <3>3, <3>4 DEF Reported, SameStop, q
  <2> QED
    BY <2>1, <2>3, <2>4, <2>5, <2>6
<1>13. CASE p.current # Nothing
  <2> DEFINE r == HandleResponse(a.current, a.lines, ~a.ready)
  <2>1. /\ r \in ReplyType
        /\ IF r.result = "Handled" THEN q = FinishCurrent(Callback(a, r)) ELSE KeepsCurrent(a, q)
    BY <1>2, <1>3, <1>4, <1>5, <1>13, CurrentHandlerFields DEF ReceivedNewLine, Good
  <2>2. /\ a.current \in Command /\ a.current.class \notin NoHandler /\ a.lines \in Seq(Line)
        /\ (~a.ready) \in BOOLEAN
    BY <1>2, <1>4, <1>5, <1>13, ProcTypes DEF Good, CurrentHasHandler
  <2>3. r.queues \in {SetCmd, DeleteBreakpointCmd} \/ a.current.class = ContinueCmd
    BY <1>10, <2>2, QueuedByHandler DEF LinesAsked, LineAsked
  <2>4. a.current.class \in RunLike =>
          /\ r.result = "Handled"
          /\ IF line.kind = "answer" THEN r.queues = SetCmd ELSE r.queues = RunCmd /\ line.kind = "notrun"
    <3> SUFFICES ASSUME a.current.class \in RunLike
                 PROVE  /\ r.result = "Handled"
                        /\ IF line.kind = "answer" THEN r.queues = SetCmd
                           ELSE r.queues = RunCmd /\ line.kind = "notrun"
      OBVIOUS
    <3>1. Len(p.lines) = 0 /\ Decides(a.current, line)
      BY <1>4, <1>13
    <3>2. Len(a.lines) = 1 /\ a.lines[1] = line
      BY <1>6, <3>1
    <3>3. line.of = a.current
      BY <1>4, <1>13 DEF Attributed
    <3> QED
      BY <2>2, <3>1, <3>2, <3>3, HandledAtOnce
  <2> HIDE DEF r
  <2>5. CASE r.result = "Handled" /\ r.queues \notin RunLike
    <3>1. q = FinishCurrent(Callback(a, r))
      BY <2>1, <2>5
    <3>2. CommandsAsked(q) /\ (NoRun(a.queue) => NoRun(q.queue))
      BY <1>2, <1>4, <1>7, <1>13, <2>1, <2>5, <3>1, FinishedAsked
    <3>3. q.current = Nothing /\ SameStop(a, q) /\ q.lines = <<>>
      BY <1>2, <1>4, <1>13, <2>1, <3>1, FinishedFields
    <3>4. Len(q.lines) = 0
      BY <3>3
    <3>5. LinesAsked(q, rest)
      BY <1>10, <3>2, <3>3, <3>4, SameStopAsked DEF LinesAsked, LineAsked
    <3> QED
      BY <1>2, <3>2, <3>3, <3>5 DEF Reported, SameStop, q
  <2>6. CASE r.result = "Handled" /\ r.queues \in RunLike
    <3> DEFINE c == [id |-> a.issued + 1, class |-> r.queues, by |-> a.current.by]
    <3>1. q = FinishCurrent(Callback(a, r)) /\ r.queues # SetCmd
      BY <2>1, <2>6 DEF RunLike
    <3>2. /\ q.current = Nothing /\ SameStop(a, q) /\ q.lines = <<>> /\ q.input = <<>>
          /\ q.queue = Append(a.queue, c)
      BY <1>2, <1>4, <1>13, <2>1, <3>1, FinishedFields
    <3>3. a.current.class = ContinueCmd /\ line.kind = "notrun"
      BY <2>3, <2>4, <2>6, <3>1 DEF RunLike
    <3>4. line.kind \in Running
      BY <3>3 DEF Running
    <3>5. NoRun(a.queue) /\ \A l \in rest : l.kind \notin Running
      BY <1>4, <3>4 DEF LinesAsked, LineAsked
    <3>6. Asked(a, a.current.id)
      BY <1>4, <1>7, <1>13, <3>3 DEF CommandsAsked, RunLike
    <3>7. a.current.id <= a.issued /\ a.current.id \in Nat /\ a.issued \in Nat
      BY <1>2, <1>4, <1>13, ProcTypes DEF Order, CurrentOrder
    <3>8. Asked(q, a.issued + 1)
      <4>1. PICK d \in Callers : caller[d].class = ContinueCmd /\ caller[d].id <= a.current.id
        BY <3>6 DEF Asked
      <4>3. caller[d].id \in Nat
        BY DEF TypeOK
      <4>2. ~q.stopSet
        BY <3>2, <3>6 DEF Asked, SameStop
      <4> QED
        BY <3>7, <4>1, <4>2, <4>3 DEF Asked
    <3>9. c \in Command /\ c.id = a.issued + 1
      BY <2>1, <2>2, <3>7 DEF Command, ReplyType
    <3> HIDE DEF c
    <3>10. /\ Len(a.queue) \in Nat /\ Len(q.queue) = Len(a.queue) + 1 /\ q.queue[Len(a.queue) + 1] = c
           /\ \A i \in 1..Len(a.queue) : q.queue[i] = a.queue[i]
      BY <1>2, <3>2, <3>9, ProcTypes, AppendAt
    <3>11. \A i \in 1..Len(q.queue) : q.queue[i].class \in RunLike => i = Len(a.queue) + 1 /\ q.queue[i] = c
      BY <3>5, <3>10 DEF NoRun
    <3>12. Len(q.input) = 0 /\ Len(q.lines) = 0
      BY <3>2
    <3>13. CommandsAsked(q)
      BY <3>2, <3>8, <3>9, <3>11, <3>12 DEF CommandsAsked, NoRun
    <3>14. LinesAsked(q, rest)
      BY <1>10, <3>5, <3>12 DEF LinesAsked, LineAsked
    <3> QED
      BY <1>2, <3>2, <3>13, <3>14 DEF Reported, SameStop, q
  <2>7. CASE r.result # "Handled"
    <3>1. /\ q.current = a.current /\ q.lines = a.lines /\ q.queue = a.queue /\ q.input = a.input
          /\ SameStop(a, q) /\ q.current.class \notin RunLike
      BY <2>1, <2>4, <2>7 DEF KeepsCurrent, SameQueue
    <3>2. CommandsAsked(q)
      BY <1>7, <3>1, SameStopAsked DEF CommandsAsked
    <3>3. LinesAsked(q, rest)
      BY <1>10, <3>1, SameStopAsked DEF LinesAsked, LineAsked
    <3> QED
      BY <1>2, <3>1, <3>2, <3>3 DEF Reported, SameStop, q
  <2> QED
    BY <2>5, <2>6, <2>7
<1> QED
  BY <1>12, <1>13

(* The prompt: no command that runs the target is current any more. *)
LEMMA AtPromptAsked ==
  ASSUME NEW p, Good(p), Order(p), Fresh(p), ~p.dead, p.input = <<>>, ~p.misplaced,
         Attributed(p, {}), CommandsAsked(p), LinesAsked(p, {}),
         p.current # Nothing => p.current.class \notin RunLike
  PROVE  LET q == AtPrompt(p) IN
         Reported(p, q) /\ (~q.dead => CommandsAsked(q) /\ LinesAsked(q, {}))
<1> DEFINE a == [p EXCEPT !.ready = TRUE]
           b == ReceivedNewLine(a)
<1>1. /\ a \in Proc /\ a.current = p.current /\ a.ready /\ a.input = <<>> /\ ~a.dead
      /\ a.lines = p.lines /\ a.queue = p.queue /\ SameStop(p, a)
  BY DEF Good, Proc, SameStop
<1> HIDE DEF a
<1>2. Good(a)
  BY <1>1 DEF Good, CurrentHasHandler
<1>3. Good(b) /\ Sends(a, b)
  BY <1>2, ReceivedNewLineFrame
<1>4. AtPrompt(p) = IF b.dead THEN b ELSE ProcessQueue(b)
  BY DEF AtPrompt, a
<1>5. CommandsAsked(a) /\ LinesAsked(a, {})
  BY <1>1, SameStopAsked DEF CommandsAsked, LinesAsked, LineAsked
<1>6. Reported(p, b) /\ (~b.dead => CommandsAsked(b) /\ b.lines = <<>>)
  <2>1. CASE a.current = Nothing
    <3>1. b = PermanentHandlers(a)
      BY <2>1 DEF ReceivedNewLine
    <3>2. LeavesQueue(a, b) /\ (Waits(a, b) \/ Dies(a, b) \/ Stops(a, b) \/ Discards(a, b))
      BY <1>1, <3>1, PermanentFields
    <3> HIDE DEF b
    <3>3. b.current = Nothing /\ b.queue = a.queue /\ b.input = <<>>
      BY <1>1, <2>1, <3>2 DEF LeavesQueue
    <3>4. ~Waits(a, b)
      BY <1>1 DEF Waits
    <3>5. CASE Dies(a, b)
      BY <1>1, <3>5 DEF Dies, Reported, SameStop
    <3>6. CASE Stops(a, b)
      <4>1. PICK i \in 1..Len(a.lines) : a.lines[i].kind \in StopKind /\ b.lastStop.id = a.lines[i].of.id
        BY <3>6 DEF Stops
      <4>2. a.lines[i].kind \in Running
        BY <4>1 DEF Running
      <4>3. Asked(a, b.lastStop.id) /\ NoRun(b.queue)
        BY <1>5, <3>3, <4>1, <4>2 DEF LinesAsked, LineAsked
      <4>4. b.stopSet /\ b.lines = <<>> /\ Len(b.input) = 0
        BY <3>3, <3>6 DEF Stops
      <4>5. Reported(p, b)
        BY <1>1, <4>3, <4>4, SameStopAsked DEF Reported
      <4>6. CommandsAsked(b)
        BY <3>3, <4>3, <4>4 DEF CommandsAsked, NoRun
      <4> QED
        BY <4>4, <4>5, <4>6
    <3>7. CASE Discards(a, b)
      <4>1. b.lines = <<>> /\ SameStop(a, b)
        BY <3>7 DEF Discards
      <4>2. CommandsAsked(b)
        BY <1>1, <1>5, <2>1, <3>3, <4>1, SameStopAsked DEF CommandsAsked
      <4> QED
        BY <1>1, <4>1, <4>2 DEF Reported, SameStop
    <3> QED
      BY <3>2, <3>4, <3>5, <3>6, <3>7
  <2>2. CASE a.current # Nothing
    <3> DEFINE r == HandleResponse(a.current, a.lines, ~a.ready)
    <3>1. a.current \in Command /\ a.current.class \notin NoHandler /\ a.lines \in Seq(Line)
      BY <1>1, <1>2, <2>2, ProcTypes DEF Good, CurrentHasHandler
    <3>2. /\ \A i \in 1..Len(a.lines) : a.lines[i].of = a.current
          /\ a.current.class \in Needs => \E i \in 1..Len(a.lines) : Decides(a.current, a.lines[i])
      BY <1>1, <2>2 DEF Attributed, OwnLines
    <3>3. (~a.ready) \in BOOLEAN /\ ~~a.ready
      BY <1>1
    <3>4. r.result = "Handled"
      BY <3>1, <3>2, <3>3, HandledAtPrompt
    <3>5. r \in ReplyType /\ b = FinishCurrent(Callback(a, r))
      BY <1>1, <1>2, <2>2, <3>4, CurrentHandlerFields DEF ReceivedNewLine, Good
    <3>6. r.queues \in {SetCmd, DeleteBreakpointCmd} \/ a.current.class = ContinueCmd
      BY <1>5, <3>1, <3>3, QueuedByHandler DEF LinesAsked, LineAsked
    <3>7. r.queues \notin RunLike
      BY <1>1, <2>2, <3>6 DEF RunLike
    <3> HIDE DEF r, b
    <3>8. CommandsAsked(b)
      BY <1>1, <1>5, <2>2, <3>5, <3>7, FinishedAsked
    <3>9. SameStop(a, b) /\ (b.dead \/ b.lines = <<>>)
      BY <1>1, <2>2, <3>5, FinishedFields
    <3> QED
      BY <1>1, <3>8, <3>9 DEF Reported, SameStop
  <2> QED
    BY <2>1, <2>2
<1> HIDE DEF b
<1>7. CASE b.dead
  BY <1>4, <1>6, <1>7
<1>8. CASE ~b.dead
  <2> DEFINE q == ProcessQueue(b)
  <2>1. b \in Proc /\ (b.ready => b.input = <<>>)
    BY <1>1, <1>3 DEF Good, Sends
  <2>2. CommandsAsked(q) /\ q.lines = b.lines /\ SameStop(b, q)
    BY <1>6, <1>8, <2>1, ProcessQueueAsked
  <2> HIDE DEF q
  <2>3. Len(q.lines) = 0
    BY <1>6, <1>8, <2>2
  <2>4. LinesAsked(q, {}) /\ Reported(p, q)
    BY <1>6, <2>2, <2>3 DEF LinesAsked, Reported, SameStop
  <2> QED
    BY <1>4, <1>8, <2>2, <2>4 DEF q
<1> QED
  BY <1>7, <1>8

-----------------------------------------------------------------------------
(* Only one thread continues the target: the fuzzing loop.                 *)
SingleRunner ==
  \A c, d \in Callers : ContinueCmd \in Uses[c] /\ ContinueCmd \in Uses[d] => c = d

(* At most one line gdb has printed reports a stop. *)
AtMostOne(last, out) ==
  /\ last.kind \in Running => \A i \in 1..Len(out) : out[i].kind \notin Running
  /\ \A i, j \in 1..Len(out) : i < j /\ out[i].kind \in Running => out[j].kind \notin Running

(* The first line of a command that runs the target decides. *)
FirstDecides(p, last, out) ==
  p.current # Nothing /\ p.current.class \in RunLike /\ p.input = <<>> =>
    /\ p.lines = <<>>
    /\ IF last # Nothing THEN Decides(p.current, last)
       ELSE out # <<>> /\ out[1] # Prompt /\ Decides(p.current, out[1])

(* A caller that continues waits, and the stop that is set is its own.     *)
Owners ==
  \A c \in Callers : caller[c].class = ContinueCmd =>
    /\ ContinueCmd \in Uses[c] /\ caller[c].pc # "idle"
    /\ proc.stopSet => caller[c].id <= proc.lastStop.id

StopInv ==
  /\ Owners
  /\ ~proc.dead => /\ CommandsAsked(proc) /\ LinesAsked(proc, Rest)
                   /\ AtMostOne(lastLine, output) /\ FirstDecides(proc, lastLine, output)

(* Nothing runs the target at the start. *)
LEMMA StopInit == Init => StopInv
<1> SUFFICES ASSUME Init PROVE StopInv
  OBVIOUS
<1>1. \A c \in Callers : caller[c].class # ContinueCmd
  BY DEF Init, Idle
<1>2. /\ proc.queue = <<>> /\ proc.current = Nothing /\ proc.input = <<>> /\ proc.lines = <<>>
      /\ output = <<Prompt>> /\ lastLine = Nothing
  BY DEF Init
<1>3. Len(proc.queue) = 0 /\ Len(proc.input) = 0 /\ Len(proc.lines) = 0
  BY <1>2
<1>4. Len(output) = 1 /\ output[1] = Prompt
  BY <1>2
<1>5. Rest = {}
  BY <1>2, <1>4, NothingIsNoLine DEF Rest, OutputLines
<1>6. lastLine.kind \notin Running /\ output[1].kind \notin Running
  BY <1>2, <1>4 DEF Nothing, Prompt, Running, StopKind
<1> QED
  BY <1>1, <1>2, <1>3, <1>4, <1>5, <1>6
  DEF StopInv, Owners, CommandsAsked, LinesAsked, AtMostOne, FirstDecides

(* A report keeps the owners, the caller asked for being the only one.     *)
LEMMA ReportedOwners ==
  ASSUME SingleRunner, QueueInv, Owners, QueueInv', UNCHANGED caller, Reported(proc, proc')
  PROVE  Owners'
<1>1. CASE proc'.stopSet = proc.stopSet /\ proc'.lastStop = proc.lastStop
  BY <1>1 DEF Owners
<1>2. CASE proc'.stopSet /\ Asked(proc, proc'.lastStop.id)
  <2>1. PICK d \in Callers : caller[d].class = ContinueCmd /\ caller[d].id <= proc'.lastStop.id
    BY <1>2 DEF Asked
  <2>2. \A c \in Callers : caller[c].class = ContinueCmd => c = d
    BY <2>1 DEF Owners, SingleRunner
  <2> QED
    BY <2>1, <2>2 DEF Owners
<1> QED
  BY <1>1, <1>2 DEF Reported

(* A line that is read is handled as the waiting call asked. *)
LEMMA ReadLineStop ==
  ASSUME SingleRunner, QueueInv, QueueInv', AnswerInv, StopInv, ReadLine
  PROVE  StopInv'
<1>1. Rest' = OutputLines
  BY ReadLineRest
<1>2. /\ Good(proc) /\ ~proc.dead /\ ~proc.ready /\ proc.input = <<>> /\ Order(proc) /\ TypeOK
      /\ Attributed(proc, Rest) /\ CommandsAsked(proc) /\ LinesAsked(proc, Rest)
      /\ AtMostOne(lastLine, output) /\ FirstDecides(proc, lastLine, output) /\ Owners
  BY DEF QueueInv, TypeOK, Good, OneOutstanding, AnswerInv, StopInv, ReadLine
<1>3. output # <<>> /\ output \in Seq(Line \union {Prompt}) /\ Head(output) # Prompt
  BY DEF QueueInv, TypeOK, ReadLine
<1>4. /\ Len(output) \in Nat /\ Len(output) >= 1
      /\ Len(Tail(output)) = Len(output) - 1 /\ Head(output) = output[1]
      /\ \A i \in 1..Len(output) - 1 : Tail(output)[i] = output[i + 1]
  BY <1>3, TailAt
<1>5. lastLine' = output[1] /\ output' = Tail(output) /\ lastLine' \in Line /\ UNCHANGED caller
  <2>1. 1 \in 1..Len(output) /\ output[1] # Prompt
    BY <1>3, <1>4
  <2> QED
    BY <1>3, <1>4, <2>1, SeqAt DEF ReadLine
<1>6. \A i \in 1..Len(output') : i + 1 \in 1..Len(output) /\ 1 < i + 1 /\ output'[i] = output[i + 1]
  BY <1>4, <1>5
<1>7. AtMostOne(lastLine', output')
  <2>1. 1 \in 1..Len(output)
    BY <1>4
  <2>2. lastLine'.kind \in Running => \A i \in 1..Len(output') : output'[i].kind \notin Running
    BY <1>2, <1>5, <1>6, <2>1 DEF AtMostOne
  <2>3. ASSUME NEW i \in 1..Len(output'), NEW j \in 1..Len(output'), i < j, output'[i].kind \in Running
        PROVE  output'[j].kind \notin Running
    <3>1. i + 1 < j + 1
      BY <1>4, <1>5, <2>3
    <3> QED
      BY <1>2, <1>6, <2>3, <3>1 DEF AtMostOne
  <2> QED
    BY <2>2, <2>3 DEF AtMostOne
<1>8. CASE lastLine = Nothing
  <2>1. Rest = OutputLines /\ proc' = proc
    BY <1>8, NothingIsNoLine DEF Rest, ReadLine
  <2>2. FirstDecides(proc', lastLine', output')
    BY <1>2, <1>5, <1>8, <2>1, NothingIsNoLine DEF FirstDecides
  <2>3. Owners'
    BY <1>2, <1>5, <2>1 DEF Owners
  <2>4. CommandsAsked(proc)' /\ LinesAsked(proc, Rest)'
    BY <1>1, <1>2, <1>5, <2>1 DEF CommandsAsked, LinesAsked, LineAsked, Asked
  <2> QED
    BY <1>7, <2>2, <2>3, <2>4 DEF StopInv
<1>9. CASE lastLine # Nothing
  <2>1. lastLine \in Line /\ proc' = Deliver(proc, lastLine)
    BY <1>9 DEF QueueInv, TypeOK, ReadLine
  <2>2. Rest = OutputLines \union {lastLine}
    BY <2>1 DEF Rest
  <2>3. lastLine.kind \in Running => \A l \in OutputLines : l.kind \notin Running
    BY <1>2 DEF AtMostOne, OutputLines
  <2>4. proc.current # Nothing /\ proc.current.class \in RunLike =>
          proc.lines = <<>> /\ Decides(proc.current, lastLine)
    BY <1>2, <1>9 DEF FirstDecides
  <2>5. /\ Reported(proc, proc')
        /\ ~proc'.dead => /\ CommandsAsked(proc') /\ LinesAsked(proc', OutputLines)
                          /\ proc'.current # Nothing => proc'.current.class \notin RunLike
    BY <1>2, <2>1, <2>2, <2>3, <2>4, DeliverAsked
  <2>6. Owners'
    BY <1>2, <1>5, <2>5, ReportedOwners
  <2>7. ~proc'.dead => FirstDecides(proc', lastLine', output')
    BY <2>5 DEF FirstDecides
  <2>8. ~proc'.dead => CommandsAsked(proc)' /\ LinesAsked(proc, Rest)'
    BY <1>1, <1>5, <2>5 DEF CommandsAsked, LinesAsked, LineAsked, Asked
  <2> QED
    BY <1>7, <2>6, <2>7, <2>8 DEF StopInv
<1> QED
  BY <1>8, <1>9

(* The first half of a prompt is no stop. *)
LEMMA ReadPromptStartStop ==
  ASSUME SingleRunner, QueueInv, QueueInv', AnswerInv, StopInv, ReadPromptStart
  PROVE  StopInv'
<1>1. /\ Good(proc) /\ ~proc.dead /\ ~proc.ready /\ proc.input = <<>> /\ Order(proc) /\ TypeOK
      /\ Attributed(proc, Rest) /\ CommandsAsked(proc) /\ LinesAsked(proc, Rest)
      /\ AtMostOne(lastLine, output) /\ FirstDecides(proc, lastLine, output) /\ Owners
  BY DEF QueueInv, TypeOK, Good, OneOutstanding, AnswerInv, StopInv, ReadPromptStart
<1>2. /\ lastLine \in Line /\ proc' = Deliver(proc, lastLine) /\ lastLine' = Nothing
      /\ output' = output /\ lastLine # Nothing /\ UNCHANGED caller
  BY DEF QueueInv, TypeOK, ReadPromptStart
<1>3. Rest = OutputLines \union {lastLine}
  BY <1>2 DEF Rest
<1>4. Rest' = OutputLines
  BY <1>2, NothingIsNoLine DEF Rest, OutputLines
<1>5. lastLine.kind \in Running => \A l \in OutputLines : l.kind \notin Running
  BY <1>1 DEF AtMostOne, OutputLines
<1>6. proc.current # Nothing /\ proc.current.class \in RunLike =>
        proc.lines = <<>> /\ Decides(proc.current, lastLine)
  BY <1>1, <1>2 DEF FirstDecides
<1>7. /\ Reported(proc, proc')
      /\ ~proc'.dead => /\ CommandsAsked(proc') /\ LinesAsked(proc', OutputLines)
                        /\ proc'.current # Nothing => proc'.current.class \notin RunLike
  BY <1>1, <1>2, <1>3, <1>5, <1>6, DeliverAsked
<1>8. Owners'
  BY <1>1, <1>2, <1>7, ReportedOwners
<1>9. ~proc'.dead => FirstDecides(proc', lastLine', output')
  BY <1>7 DEF FirstDecides
<1>10. lastLine'.kind \notin Running
  BY <1>2 DEF Nothing, Running, StopKind
<1>11. AtMostOne(lastLine', output')
  BY <1>1, <1>2, <1>10 DEF AtMostOne
<1>12. ~proc'.dead => CommandsAsked(proc)' /\ LinesAsked(proc, Rest)'
  BY <1>2, <1>4, <1>7 DEF CommandsAsked, LinesAsked, LineAsked, Asked
<1> QED
  BY <1>8, <1>9, <1>11, <1>12 DEF StopInv

(* The prompt finishes the command and sends one that was asked for. *)
LEMMA ReadPromptStop ==
  ASSUME SingleRunner, QueueInv, QueueInv', AnswerInv, StopInv, ReadPrompt
  PROVE  StopInv'
<1>1. /\ Good(proc) /\ ~proc.dead /\ ~proc.ready /\ proc.input = <<>> /\ ~proc.misplaced
      /\ Order(proc) /\ Fresh(proc) /\ Attributed(proc, Rest)
      /\ output # <<>> /\ output \in Seq(Line \union {Prompt})
      /\ \A i \in 1..Len(output) : output[i] = Prompt <=> i = Len(output)
  BY DEF QueueInv, TypeOK, Good, OneOutstanding, AnswerInv, ReadPrompt
<1>a. /\ CommandsAsked(proc) /\ LinesAsked(proc, Rest) /\ FirstDecides(proc, lastLine, output) /\ Owners
  BY <1>1 DEF StopInv
<1>b. proc' = AtPrompt(proc) /\ lastLine = Nothing /\ lastLine' = Nothing /\ output' = Tail(output)
      /\ UNCHANGED caller
  BY DEF ReadPrompt
<1>2. Len(output) = 1 /\ output[1] = Prompt
  <2>1. Len(output) \in Nat /\ Len(output) >= 1 /\ Head(output) = output[1]
    BY <1>1, TailAt
  <2>2. output[1] = Prompt /\ 1 \in 1..Len(output)
    BY <2>1 DEF ReadPrompt
  <2> QED
    BY <1>1, <2>2
<1>3. Rest = {}
  BY <1>2, <1>b, NothingIsNoLine DEF Rest, OutputLines
<1>4. Len(output') = 0
  BY <1>1, <1>2, <1>b, TailAt
<1>5. Rest' = {}
  BY <1>4, <1>b, NothingIsNoLine DEF Rest, OutputLines
<1>6. proc.current # Nothing => proc.current.class \notin RunLike
  BY <1>1, <1>2, <1>a, <1>b DEF FirstDecides
<1>7. Reported(proc, proc') /\ (~proc'.dead => CommandsAsked(proc') /\ LinesAsked(proc', {}))
  BY <1>1, <1>3, <1>6, <1>a, <1>b, AtPromptAsked
<1>8. Owners'
  BY <1>7, <1>a, <1>b, ReportedOwners
<1>9. lastLine'.kind \notin Running
  BY <1>b DEF Nothing, Running, StopKind
<1>10. AtMostOne(lastLine', output')
  BY <1>4, <1>9 DEF AtMostOne
<1>11. ~proc'.dead => CommandsAsked(proc)' /\ LinesAsked(proc, Rest)'
  BY <1>5, <1>7, <1>b DEF CommandsAsked, LinesAsked, LineAsked, Asked
<1>12. ~proc'.dead => FirstDecides(proc', lastLine', output')
  <2> SUFFICES ASSUME ~proc'.dead, proc'.input = <<>> PROVE proc'.current = Nothing
    BY DEF FirstDecides
  <2>1. proc'.ready
    BY <1>1, <1>4, <1>b DEF QueueInv, OneOutstanding
  <2>2. Attributed(proc', {})
    BY <1>1, <1>3, <1>b, AtPromptAttributed
  <2> QED
    BY <2>1, <2>2 DEF Attributed
<1> QED
  BY <1>8, <1>10, <1>11, <1>12 DEF StopInv

-----------------------------------------------------------------------------
(* What gdb prints reports at most one stop, and none unless it ran.       *)
Stopless(s) == \A i \in 1..Len(s) : s[i] \notin Running /\ s[i] # "already"
OneRun(s) ==
  /\ \A i \in 1..Len(s) : s[i] # "already"
  /\ \A i, j \in 1..Len(s) : i < j /\ s[i] \in Running => s[j] \notin Running

(* Each place of a concatenation is one of its parts'. *)
LEMMA ConcatPlaces ==
  ASSUME NEW s \in Seq(LineKind), NEW t \in Seq(LineKind), NEW i \in 1..Len(s \o t)
  PROVE  \/ i \in 1..Len(s) /\ (s \o t)[i] = s[i]
         \/ i - Len(s) \in 1..Len(t) /\ (s \o t)[i] = t[i - Len(s)]
<1>1. /\ Len(s) \in Nat /\ Len(t) \in Nat /\ Len(s \o t) = Len(s) + Len(t)
      /\ \A k \in 1..Len(s) : (s \o t)[k] = s[k]
      /\ \A k \in 1..Len(t) : (s \o t)[Len(s) + k] = t[k]
  BY ConcatAt
<1>2. CASE i <= Len(s)
  BY <1>1, <1>2
<1>3. CASE ~(i <= Len(s))
  <2>1. i - Len(s) \in 1..Len(t) /\ Len(s) + (i - Len(s)) = i
    BY <1>1, <1>3
  <2> QED
    BY <1>1, <2>1
<1> QED
  BY <1>2, <1>3

(* Two sequences without a stop, one behind the other. *)
LEMMA StoplessConcat ==
  ASSUME NEW s \in Seq(LineKind), NEW t \in Seq(LineKind), Stopless(s), Stopless(t)
  PROVE  s \o t \in Seq(LineKind) /\ Stopless(s \o t)
<1>1. s \o t \in Seq(LineKind)
  BY ConcatAt
<1>2. ASSUME NEW i \in 1..Len(s \o t) PROVE (s \o t)[i] \notin Running /\ (s \o t)[i] # "already"
  BY ConcatPlaces DEF Stopless
<1> QED
  BY <1>1, <1>2 DEF Stopless

(* A sequence with one stop, with lines that are none around it. *)
LEMMA OneRunConcat ==
  ASSUME NEW s \in Seq(LineKind), NEW t \in Seq(LineKind), OneRun(s), Stopless(t)
  PROVE  OneRun(s \o t) /\ OneRun(t \o s)
<1>1. Len(s) \in Nat /\ Len(t) \in Nat
  BY LenProperties
<1>2. OneRun(s \o t)
  <2> DEFINE u == s \o t
  <2>1. \A i \in 1..Len(u) : \/ i \in 1..Len(s) /\ u[i] = s[i]
                             \/ u[i] \notin Running /\ u[i] # "already"
    BY ConcatPlaces DEF Stopless
  <2> HIDE DEF u
  <2>2. OneRun(u)
    BY <2>1 DEF OneRun
  <2> QED
    BY <2>2 DEF u
<1>3. OneRun(t \o s)
  <2> DEFINE u == t \o s
  <2>1. \A i \in 1..Len(u) : \/ i - Len(t) \in 1..Len(s) /\ u[i] = s[i - Len(t)]
                             \/ u[i] \notin Running /\ u[i] # "already"
    BY ConcatPlaces DEF Stopless
  <2> HIDE DEF u
  <2>2. \A i \in 1..Len(u) : u[i] # "already"
    BY <2>1 DEF OneRun
  <2>3. ASSUME NEW i \in 1..Len(u), NEW j \in 1..Len(u), i < j, u[i] \in Running, u[j] \in Running
        PROVE  FALSE
    <3>1. i - Len(t) < j - Len(t)
      BY <1>1, <2>3
    <3> QED
      BY <2>1, <2>3, <3>1 DEF OneRun
  <2>4. OneRun(u)
    BY <2>2, <2>3 DEF OneRun
  <2> QED
    BY <2>4 DEF u
<1> QED
  BY <1>2, <1>3

(* The parts of a response that hold no stop. *)
LEMMA StoplessParts ==
  /\ \A n \in Noise : n \in Seq(LineKind) /\ Stopless(n)
  /\ <<"answer">> \in Seq(LineKind) /\ Stopless(<<"answer">>)
<1>1. \A n \in Noise : n \in Seq(LineKind)
  BY NoiseType
<1>2. ASSUME NEW n \in Noise PROVE Stopless(n)
  <2>1. PICK k \in 0..MaxNoise : n \in [1..k -> {"noise"}]
    BY DEF Noise
  <2>2. \A i \in 1..k : n[i] = "noise"
    BY <2>1
  <2>3. Len(n) = k
    BY <2>1, CallersAssumption
  <2> QED
    BY <2>2, <2>3 DEF Stopless, Running, StopKind
<1>3. <<"answer">> \in Seq(LineKind) /\ Stopless(<<"answer">>)
  BY DEF LineKind, Stopless, Running, StopKind
<1> QED
  BY <1>1, <1>2, <1>3

(* A report of a stop holds one. *)
LEMMA StopReportOne == \A r \in StopReport : OneRun(r)
<1>1. /\ \A a \in {"break", "symbol", "exit", "signal", "history", "unknown", "foreign"} : OneRun(<<a>>)
      /\ \A a \in {"signal", "history", "unknown"} : OneRun(<<a, "addr">>)
  BY DEF OneRun, Running, StopKind
<1>2. OneRun(<<"signal", "noise", "addr">>)
  <2> DEFINE s == <<"signal", "noise", "addr">>
  <2>1. Len(s) = 3 /\ s[1] = "signal" /\ s[2] = "noise" /\ s[3] = "addr"
    OBVIOUS
  <2> HIDE DEF s
  <2>2. OneRun(s)
    BY <2>1 DEF OneRun, Running, StopKind
  <2> QED
    BY <2>2 DEF s
<1>3. /\ OneRun(<<"break">>) /\ OneRun(<<"symbol">>) /\ OneRun(<<"exit">>) /\ OneRun(<<"signal">>)
      /\ OneRun(<<"history">>) /\ OneRun(<<"unknown">>) /\ OneRun(<<"foreign">>)
      /\ OneRun(<<"signal", "addr">>) /\ OneRun(<<"history", "addr">>) /\ OneRun(<<"unknown", "addr">>)
  BY <1>1
<1> QED
  BY <1>2, <1>3, Zenon DEF StopReport

(* Other lines around an answer add no stop. *)
LEMMA AroundStopless ==
  ASSUME NEW r \in Around({<<"answer">>})
  PROVE  Stopless(r)
<1>1. PICK pre \in Noise, post \in Noise : r = (pre \o <<"answer">>) \o post
  BY DEF Around
<1>2. pre \o <<"answer">> \in Seq(LineKind) /\ Stopless(pre \o <<"answer">>)
  BY StoplessParts, StoplessConcat
<1> QED
  BY <1>1, <1>2, StoplessParts, StoplessConcat

(* Other lines around a response with one stop add none. *)
LEMMA AroundOne ==
  ASSUME NEW r \in Around(StopReport)
  PROVE  r \in Seq(LineKind) /\ OneRun(r)
<1>1. PICK pre \in Noise, m \in StopReport, post \in Noise : r = (pre \o m) \o post
  BY SMTT(30) DEF Around
<1>2. m \in Seq(LineKind) /\ OneRun(m)
  BY StopReportType, StopReportOne
<1>3. pre \o m \in Seq(LineKind) /\ OneRun(pre \o m)
  BY <1>2, StoplessParts, OneRunConcat, ConcatAt
<1> QED
  BY <1>1, <1>3, StoplessParts, OneRunConcat, ConcatAt

(* Only the response to a command that runs the target holds a stop, and then one. *)
LEMMA ExpectedRuns ==
  ASSUME NEW class \in Class, NEW r \in Expected(class)
  PROVE  /\ IF class \in RunLike THEN OneRun(r) ELSE Stopless(r)
         /\ class \in RunLike =>
              /\ 1 \in 1..Len(r)
              /\ r[1] = "answer" \/ (r[1] = "notrun" /\ class = ContinueCmd)
<1> DEFINE Needy == (Search \ {ContinueCmd, RunCmd, SimpleCmd}) \union SearchOrMore \union CollectKnown
                      \union CollectSearch
<1>a. Needy \intersect RunLike = {} /\ (FirstLine \union SearchOnce) \intersect RunLike = {}
  BY DEF RunLike, FirstLine, SearchOnce, SearchOrMore, CollectKnown, CollectSearch
<1>1. CASE class \in Needy
  <2>1. r \in Around({<<"answer">>})
    BY <1>1 DEF Expected
  <2> QED
    BY <1>1, <1>a, <2>1, AroundStopless
<1>2. CASE class = ContinueCmd /\ ~alive
  <2>0. class \notin Needy
    BY <1>2, <1>a DEF RunLike
  <2>1. r = <<"notrun">>
    BY <1>2, <2>0 DEF Expected
  <2>2. OneRun(r)
    BY <2>1 DEF OneRun
  <2> QED
    BY <1>2, <2>1, <2>2 DEF RunLike
<1>3. CASE class \in RunLike /\ ~(class = ContinueCmd /\ ~alive)
  <2>0. class \notin Needy /\ class \in {ContinueCmd, RunCmd, SimpleCmd}
    BY <1>3, <1>a DEF RunLike
  <2>1. PICK t \in Around(StopReport) : r = <<"answer">> \o t
    BY <1>3, <2>0 DEF Expected
  <2>2. t \in Seq(LineKind) /\ OneRun(t)
    BY <2>1, AroundOne
  <2> QED
    BY <1>3, <2>1, <2>2, AnswerFirst, StoplessParts, OneRunConcat
<1>4. CASE class \notin RunLike /\ class \notin Needy
  <2>0. class \notin {ContinueCmd, RunCmd, SimpleCmd}
    BY <1>4 DEF RunLike
  <2>1. CASE class \in FirstLine \union SearchOnce
    <3>1. PICK t \in Noise : r = <<"answer">> \o t
      BY <1>4, <2>0, <2>1 DEF Expected
    <3> QED
      BY <1>4, <3>1, StoplessParts, StoplessConcat
  <2>2. CASE class \notin FirstLine \union SearchOnce
    <3>1. r \in Around({<<"answer">>}) \/ r \in Noise
      BY <1>4, <2>0, <2>2 DEF Expected
    <3> QED
      BY <1>4, <3>1, AroundStopless, StoplessParts
  <2> QED
    BY <2>1, <2>2
<1> QED
  BY <1>1, <1>2, <1>3, <1>4

-----------------------------------------------------------------------------
(* gdb reports a stop only for a command that was asked for. *)
LEMMA GdbAnswersStop ==
  ASSUME "refusal" \notin Surprises, QueueInv, AnswerInv, StopInv, GdbAnswers
  PROVE  StopInv'
<1>1. proc \in Proc /\ proc' = [proc EXCEPT !.input = Tail(proc.input)] /\ caller' = caller
  BY DEF QueueInv, TypeOK, GdbAnswers
<1>2. /\ proc'.current = proc.current /\ proc'.lines = proc.lines /\ proc'.queue = proc.queue
      /\ proc'.dead = proc.dead /\ proc'.stopSet = proc.stopSet /\ proc'.lastStop = proc.lastStop
  BY <1>1 DEF Proc
<1>3. Owners'
  BY <1>1, <1>2 DEF StopInv, Owners
<1>4. ASSUME ~proc.dead
      PROVE  /\ CommandsAsked(proc)' /\ LinesAsked(proc, Rest)'
             /\ AtMostOne(lastLine', output') /\ FirstDecides(proc', lastLine', output')
  <2>1. PICK c \in Command : \E r \in Expected(c.class) : Prints(c, r)
    BY <1>4, GdbPrints
  <2>2. PICK r \in Expected(c.class) : Prints(c, r)
    BY <2>1
  <2>3. /\ Len(proc.input) = 1 /\ c = proc.input[1] /\ proc'.input = <<>>
        /\ ~proc.ready /\ proc.lines = <<>> /\ (proc.current = Nothing \/ proc.current = c)
        /\ lastLine' = Nothing /\ Len(r) \in Nat /\ Len(output') = Len(r) + 1
        /\ output'[Len(r) + 1] = Prompt
        /\ \A i \in 1..Len(r) : output'[i] \in Line /\ output'[i].of = c /\ output'[i].kind = r[i]
    BY <2>2 DEF Prints
  <2>4. c.class \in Class /\ CommandsAsked(proc)
    BY <1>4 DEF Command, StopInv
  <2>5. /\ IF c.class \in RunLike THEN OneRun(r) ELSE Stopless(r)
        /\ c.class \in RunLike =>
             1 \in 1..Len(r) /\ (r[1] = "answer" \/ (r[1] = "notrun" /\ c.class = ContinueCmd))
    BY <2>2, <2>4, ExpectedRuns
  <2>6. c.class \in RunLike => Asked(proc, c.id) /\ NoRun(proc.queue)
    <3>1. 1 \in 1..Len(proc.input)
      BY <2>3
    <3> QED
      BY <2>3, <2>4, <3>1 DEF CommandsAsked, NoRun
  <2>7. \A n : Asked(proc, n) => Asked(proc, n)'
    BY <1>1, <1>2 DEF Asked
  <2>8. CommandsAsked(proc)'
    <3>1. Len(proc'.input) = 0
      BY <2>3
    <3> QED
      BY <1>2, <2>4, <2>7, <3>1 DEF CommandsAsked, NoRun
  <2>9. ASSUME NEW l \in Rest' PROVE LineAsked(proc, l)'
    <3>1. PICK i \in 1..Len(output') : output'[i] = l /\ l \in Line
      BY <2>3, NothingIsNoLine DEF Rest, OutputLines
    <3>2. i \in 1..Len(r)
      BY <2>3, <3>1, NothingIsNoLine
    <3>3. l.of = c /\ l.kind = r[i]
      BY <2>3, <3>1, <3>2
    <3>4. l.kind # "already" /\ (l.kind \in Running => c.class \in RunLike)
      BY <2>5, <3>2, <3>3 DEF OneRun, Stopless
    <3>5. l.kind \in Running => l.of.class \in RunLike /\ Asked(proc, l.of.id)' /\ NoRun(proc'.queue)
      BY <1>2, <2>6, <2>7, <3>3, <3>4
    <3> QED
      BY <3>4, <3>5 DEF LineAsked
  <2>10. LinesAsked(proc, Rest)'
    <3>1. Len(proc'.lines) = 0
      BY <1>2, <2>3
    <3> QED
      BY <2>9, <3>1 DEF LinesAsked
  <2>11. AtMostOne(lastLine', output')
    <3>1. lastLine'.kind \notin Running /\ Prompt.kind \notin Running
      BY <2>3 DEF Nothing, Prompt, Running, StopKind
    <3>2. \A i \in 1..Len(output') : output'[i].kind \in Running => i \in 1..Len(r) /\ r[i] \in Running
      <4> TAKE i \in 1..Len(output')
      <4>1. CASE i \in 1..Len(r)
        BY <2>3, <4>1
      <4>2. CASE i \notin 1..Len(r)
        <5>1. i = Len(r) + 1
          BY <2>3, <4>2
        <5> QED
          BY <2>3, <3>1, <5>1
      <4> QED
        BY <4>1, <4>2
    <3>3. \A i, j \in 1..Len(r) : i < j /\ r[i] \in Running => r[j] \notin Running
      BY <2>5 DEF OneRun, Stopless
    <3> QED
      BY <3>1, <3>2, <3>3 DEF AtMostOne
  <2>12. FirstDecides(proc', lastLine', output')
    <3> SUFFICES ASSUME proc'.current # Nothing, proc'.current.class \in RunLike
                 PROVE  proc'.lines = <<>> /\ output' # <<>> /\ output'[1] # Prompt
                        /\ Decides(proc'.current, output'[1])
      BY <2>3 DEF FirstDecides
    <3>1. proc'.current = c
      BY <1>2, <2>3
    <3>2. 1 \in 1..Len(r) /\ Decides(c, output'[1]) /\ output'[1] \in Line
      BY <2>3, <2>5, <3>1 DEF Decides
    <3>3. output' # <<>>
      BY <2>3
    <3> QED
      BY <1>2, <2>3, <3>1, <3>2, <3>3, NothingIsNoLine
  <2> QED
    BY <2>8, <2>10, <2>11, <2>12
<1> QED
  BY <1>2, <1>3, <1>4 DEF StopInv

(* The queue after a command was put into it. *)
LEMMA EnqueuePlaces ==
  ASSUME NEW p \in Proc, NEW class \in Class, NEW by \in Callers
  PROVE  LET q == Enqueue(p, class, by) IN
         \A i \in 1..Len(q.queue) :
           \/ i \in 1..Len(p.queue) /\ q.queue[i] = p.queue[i]
           \/ i = Len(p.queue) + 1 /\ q.queue[i].class = class /\ q.queue[i].id = p.issued + 1
<1> DEFINE c == [id |-> p.issued + 1, class |-> class, by |-> by]
           q == Enqueue(p, class, by)
<1>1. q.queue = Append(p.queue, c) /\ c \in Command /\ p.queue \in Seq(Command)
  BY EnqueueFields, ProcTypes
<1>2. c.class = class /\ c.id = p.issued + 1
  OBVIOUS
<1> HIDE DEF c, q
<1>3. /\ Len(p.queue) \in Nat /\ Len(q.queue) = Len(p.queue) + 1 /\ q.queue[Len(p.queue) + 1] = c
      /\ \A i \in 1..Len(p.queue) : q.queue[i] = p.queue[i]
  BY <1>1, AppendAt
<1>4. ASSUME NEW i \in 1..Len(q.queue)
      PROVE  \/ i \in 1..Len(p.queue) /\ q.queue[i] = p.queue[i]
             \/ i = Len(p.queue) + 1 /\ q.queue[i] = c
  BY <1>3
<1> QED
  BY <1>2, <1>4 DEF q

(* Nothing that runs the target is under way unless it was asked for. *)
LEMMA NothingRuns ==
  ASSUME ~proc.dead, StopInv, \A n : ~Asked(proc, n)
  PROVE  /\ NoRun(proc.queue) /\ NoRun(proc.input)
         /\ proc.current # Nothing => proc.current.class \notin RunLike
         /\ \A i \in 1..Len(proc.lines) : proc.lines[i].kind \notin Running /\ proc.lines[i].kind # "already"
         /\ \A l \in Rest : l.kind \notin Running /\ l.kind # "already"
BY DEF StopInv, CommandsAsked, LinesAsked, LineAsked, NoRun

(* DebugContinue finds nothing that runs the target. *)
LEMMA ContinueStop ==
  ASSUME SingleRunner, NEW c \in Callers, QueueInv, StopInv, Issue(c, ContinueCmd)
  PROVE  StopInv'
<1> DEFINE p == [proc EXCEPT !.stopSet = proc.stopSet /\ ContinueCmd \notin AwaitsStop]
<1>1. proc \in Proc /\ ContinueCmd \in Class /\ proc' = Enqueue(p, ContinueCmd, c)
  BY DEF QueueInv, TypeOK, Issue, Class, Search
<1>2. /\ p \in Proc /\ LeavesQueue(proc, p) /\ p.lines = proc.lines /\ p.dead = proc.dead
      /\ ~p.stopSet
  BY <1>1 DEF Proc, LeavesQueue, SameCalls, AwaitsStop
<1> HIDE DEF p
<1>3. /\ p.queue = proc.queue /\ p.current = proc.current /\ p.input = proc.input
      /\ p.issued = proc.issued /\ Len(proc.queue) \in Nat /\ proc.issued \in Nat
  BY <1>1, <1>2, ProcTypes DEF LeavesQueue
<1>4. /\ proc'.current = proc.current /\ proc'.lines = proc.lines /\ proc'.input = proc.input
      /\ proc'.dead = proc.dead /\ ~proc'.stopSet
  <2>1. /\ proc'.current = p.current /\ proc'.lines = p.lines /\ proc'.input = p.input
        /\ proc'.dead = p.dead /\ SameStop(p, proc')
    BY <1>1, <1>2, EnqueueFields
  <2> QED
    BY <1>2, <1>3, <2>1 DEF SameStop
<1>5. \A i \in 1..Len(proc'.queue) :
        \/ i \in 1..Len(proc.queue) /\ proc'.queue[i] = proc.queue[i]
        \/ i = Len(proc.queue) + 1 /\ proc'.queue[i].id = proc.issued + 1
  BY <1>1, <1>2, <1>3, EnqueuePlaces
<1>6. /\ ContinueCmd \in Uses[c] /\ caller[c].pc = "idle" /\ output' = output /\ lastLine' = lastLine
      /\ caller' = [caller EXCEPT ![c] = [pc |-> "queued", class |-> ContinueCmd, id |-> proc.issued + 1]]
      /\ caller \in [Callers -> [pc: {"idle", "queued", "waiting"}, class: Class, id: Nat]]
  BY DEF Issue, QueueInv, TypeOK
<1>7. /\ caller'[c].class = ContinueCmd /\ caller'[c].pc = "queued" /\ caller'[c].id = proc.issued + 1
      /\ \A d \in Callers : d # c => caller'[d] = caller[d]
  BY <1>6
<1>8. \A d \in Callers : caller[d].class # ContinueCmd
  BY <1>6 DEF StopInv, Owners, SingleRunner
<1>9. \A n : ~Asked(proc, n)
  BY <1>8 DEF Asked
<1>10. Owners'
  BY <1>4, <1>6, <1>7, <1>8 DEF Owners
<1>11. ASSUME ~proc.dead
       PROVE  /\ CommandsAsked(proc)' /\ LinesAsked(proc, Rest)'
              /\ AtMostOne(lastLine', output') /\ FirstDecides(proc', lastLine', output')
  <2>1. /\ NoRun(proc.queue) /\ NoRun(proc.input)
        /\ proc.current # Nothing => proc.current.class \notin RunLike
        /\ \A i \in 1..Len(proc.lines) : proc.lines[i].kind \notin Running /\ proc.lines[i].kind # "already"
        /\ \A l \in Rest : l.kind \notin Running /\ l.kind # "already"
    BY <1>9, <1>11, NothingRuns
  <2>2. \A i \in 1..Len(proc'.queue) : proc'.queue[i].class \in RunLike =>
          i = Len(proc.queue) + 1 /\ Asked(proc, proc.queue[i].id)'
    <3> SUFFICES ASSUME NEW i \in 1..Len(proc'.queue), proc'.queue[i].class \in RunLike
                 PROVE  i = Len(proc.queue) + 1 /\ Asked(proc, proc.queue[i].id)'
      OBVIOUS
    <3>1. i = Len(proc.queue) + 1 /\ proc'.queue[i].id = proc.issued + 1
      BY <1>5, <2>1 DEF NoRun
    <3>2. caller'[c].id <= proc'.queue[i].id
      BY <1>3, <1>7, <3>1
    <3> QED
      BY <1>4, <1>7, <3>1, <3>2 DEF Asked
  <2>3. CommandsAsked(proc)'
    BY <1>3, <1>4, <2>1, <2>2 DEF CommandsAsked, NoRun
  <2>4. Rest' = Rest
    BY <1>6 DEF Rest, OutputLines
  <2>5. LinesAsked(proc, Rest)'
    BY <1>4, <2>1, <2>4 DEF LinesAsked, LineAsked
  <2>6. AtMostOne(lastLine', output') /\ FirstDecides(proc', lastLine', output')
    BY <1>4, <1>6, <1>11 DEF StopInv, AtMostOne, FirstDecides
  <2> QED
    BY <2>3, <2>5, <2>6
<1> QED
  BY <1>4, <1>10, <1>11 DEF StopInv

(* Any other command that is queued leaves what was asked for. *)
LEMMA QueuesStop ==
  ASSUME NEW c \in Callers, NEW class \in Class \ RunLike, NEW p \in Proc,
         QueueInv, StopInv, Owners',
         proc' = Enqueue(p, class, c), LeavesQueue(proc, p), SameStop(proc, p),
         p.lines = proc.lines, p.dead = proc.dead, UNCHANGED <<lastLine, output>>,
         \A n : Asked(proc, n) =>
           \E d \in Callers : caller'[d].class = ContinueCmd /\ caller'[d].id <= n
  PROVE  StopInv'
<1>1. /\ p.queue = proc.queue /\ p.current = proc.current /\ p.input = proc.input
      /\ p.stopSet = proc.stopSet /\ Len(proc.queue) \in Nat
  BY ProcTypes DEF LeavesQueue, SameStop
<1>2. /\ proc'.current = proc.current /\ proc'.lines = proc.lines /\ proc'.input = proc.input
      /\ proc'.dead = proc.dead /\ proc'.stopSet = proc.stopSet
  BY <1>1, EnqueueFields DEF SameStop
<1>3. \A i \in 1..Len(proc'.queue) : proc'.queue[i].class \in RunLike =>
        i \in 1..Len(proc.queue) /\ proc'.queue[i] = proc.queue[i]
  BY <1>1, EnqueuePlaces
<1>4. \A n : Asked(proc, n) => Asked(proc, n)'
  BY <1>2 DEF Asked
<1>5. Rest' = Rest
  BY DEF Rest, OutputLines
<1>6. ASSUME ~proc.dead
      PROVE  /\ CommandsAsked(proc)' /\ LinesAsked(proc, Rest)'
             /\ AtMostOne(lastLine', output') /\ FirstDecides(proc', lastLine', output')
  <2>1. /\ CommandsAsked(proc) /\ LinesAsked(proc, Rest)
        /\ AtMostOne(lastLine, output) /\ FirstDecides(proc, lastLine, output)
    BY <1>6 DEF StopInv
  <2>2. CommandsAsked(proc)'
    BY <1>2, <1>3, <1>4, <2>1, SMTT(30) DEF CommandsAsked, NoRun
  <2>3. \A l : LineAsked(proc, l) => LineAsked(proc, l)'
    BY <1>3, <1>4 DEF LineAsked, NoRun
  <2>4. LinesAsked(proc, Rest)'
    BY <1>2, <1>5, <2>1, <2>3 DEF LinesAsked
  <2>5. AtMostOne(lastLine', output') /\ FirstDecides(proc', lastLine', output')
    BY <1>2, <2>1 DEF AtMostOne, FirstDecides
  <2> QED
    BY <2>2, <2>4, <2>5
<1> QED
  BY <1>2, <1>6 DEF StopInv

(* A caller's step. *)
LEMMA CallerStop ==
  ASSUME SingleRunner, NEW c \in Callers, QueueInv, AnswerInv, StopInv, Caller(c)
  PROVE  StopInv'
<1>1. /\ proc \in Proc /\ Owners
      /\ caller \in [Callers -> [pc: {"idle", "queued", "waiting"}, class: Class, id: Nat]]
  BY DEF QueueInv, TypeOK, StopInv
<1>2. ASSUME NEW class \in Class, Issue(c, class) PROVE StopInv'
  <2>1. CASE class = ContinueCmd
    BY <1>2, <2>1, ContinueStop
  <2>2. CASE class # ContinueCmd
    <3> DEFINE p == [proc EXCEPT !.stopSet = proc.stopSet /\ class \notin AwaitsStop]
    <3>1. proc' = Enqueue(p, class, c)
      BY <1>2 DEF Issue
    <3>2. p \in Proc /\ LeavesQueue(proc, p) /\ p.lines = proc.lines /\ p.dead = proc.dead
      BY <1>1 DEF Proc, LeavesQueue, SameCalls
    <3>3. SameStop(proc, p)
      BY <1>1, <2>2 DEF Proc, SameStop, AwaitsStop
    <3> HIDE DEF p
    <3>4. class \in Class \ RunLike
      BY <1>2, <2>2, CallersAssumption DEF Issue, RunLike
    <3>5. /\ caller[c].pc = "idle" /\ UNCHANGED <<lastLine, output>>
          /\ caller' = [caller EXCEPT ![c] = [pc |-> "queued", class |-> class, id |-> proc.issued + 1]]
      BY <1>2 DEF Issue
    <3>6. caller'[c].class # ContinueCmd /\ \A d \in Callers : d # c => caller'[d] = caller[d]
      BY <1>1, <2>2, <3>5
    <3>7. caller[c].class # ContinueCmd
      BY <1>1, <3>5 DEF Owners
    <3>8. \A n : Asked(proc, n) =>
            \E d \in Callers : caller'[d].class = ContinueCmd /\ caller'[d].id <= n
      BY <3>6, <3>7 DEF Asked
    <3>9. SameStop(proc, proc')
      BY <3>1, <3>2, <3>3, EnqueueFields DEF SameStop
    <3>10. Owners'
      BY <1>1, <3>6, <3>9 DEF Owners, SameStop
    <3> QED
      BY <3>1, <3>2, <3>3, <3>4, <3>5, <3>8, <3>10, QueuesStop
  <2> QED
    BY <2>1, <2>2
<1>3. CASE AskForPc(c)
  <2>1. /\ proc' = Enqueue(proc, PrintCmd, c) /\ PrintCmd \in Class \ RunLike
        /\ UNCHANGED <<lastLine, output>> /\ proc.stopSet
        /\ caller' = [caller EXCEPT ![c] = [pc |-> "queued", class |-> PrintCmd, id |-> proc.issued + 1]]
    BY <1>3 DEF AskForPc, Class, CollectSearch, RunLike, Woken
  <2>2. LeavesQueue(proc, proc) /\ SameStop(proc, proc)
    BY DEF LeavesQueue, SameCalls, SameStop
  <2>3. caller'[c].class # ContinueCmd /\ \A d \in Callers : d # c => caller'[d] = caller[d]
    BY <1>1, <2>1
  <2>4. \A n : Asked(proc, n) =>
          \E d \in Callers : caller'[d].class = ContinueCmd /\ caller'[d].id <= n
    BY <2>1 DEF Asked
  <2>5. SameStop(proc, proc')
    BY <1>1, <2>1, EnqueueFields
  <2>6. Owners'
    BY <1>1, <2>3, <2>5 DEF Owners, SameStop
  <2> QED
    BY <1>1, <2>1, <2>2, <2>4, <2>6, QueuesStop
<1>4. CASE Process(c)
  <2>1. /\ proc' = ProcessQueue(proc) /\ UNCHANGED <<lastLine, output>> /\ caller[c].pc = "queued"
        /\ caller' = IF caller[c].class \in AwaitsNothing THEN [caller EXCEPT ![c] = Idle]
                     ELSE [caller EXCEPT ![c].pc = "waiting"]
    BY <1>4 DEF Process
  <2>2. Idle.class # ContinueCmd
    BY DEF Idle
  <2>3. \A d \in Callers :
          /\ caller'[d].class = ContinueCmd => /\ caller[d].class = ContinueCmd
                                               /\ caller'[d].pc # "idle" /\ caller'[d].id = caller[d].id
          /\ caller[d].class = ContinueCmd =>
               caller'[d].class = ContinueCmd /\ caller'[d].id = caller[d].id
    <3>1. ContinueCmd \notin AwaitsNothing
      BY DEF AwaitsNothing
    <3>2. CASE caller[c].class \in AwaitsNothing
      <4>1. caller'[c] = Idle /\ \A d \in Callers : d # c => caller'[d] = caller[d]
        BY <1>1, <2>1, <3>2
      <4> QED
        BY <1>1, <2>2, <3>1, <3>2, <4>1 DEF Owners
    <3>3. CASE caller[c].class \notin AwaitsNothing
      <4>1. /\ caller'[c].class = caller[c].class /\ caller'[c].id = caller[c].id
            /\ caller'[c].pc = "waiting" /\ \A d \in Callers : d # c => caller'[d] = caller[d]
        BY <1>1, <2>1, <3>3
      <4> QED
        BY <1>1, <4>1 DEF Owners
    <3> QED
      BY <3>2, <3>3
  <2>4. ((proc.queue = <<>> \/ ~proc.ready) /\ proc' = proc) \/ Sent(proc, proc')
    BY <1>1, <2>1, ProcessQueueFields
  <2>5. /\ SameStop(proc, proc') /\ proc'.dead = proc.dead /\ proc'.lines = proc.lines
        /\ proc' = proc \/ proc'.input = Append(proc.input, Head(proc.queue))
    BY <2>4 DEF Sent, SameStop
  <2>6. Owners'
    BY <1>1, <2>3, <2>5 DEF Owners, SameStop
  <2>7. \A n : Asked(proc, n) => Asked(proc, n)'
    BY <2>3, <2>5 DEF Asked, SameStop
  <2>8. ASSUME ~proc.dead
        PROVE  /\ CommandsAsked(proc)' /\ LinesAsked(proc, Rest)'
               /\ AtMostOne(lastLine', output') /\ FirstDecides(proc', lastLine', output')
    <3>1. /\ CommandsAsked(proc) /\ LinesAsked(proc, Rest) /\ (proc.ready => proc.input = <<>>)
          /\ AtMostOne(lastLine, output) /\ FirstDecides(proc, lastLine, output)
      BY <2>8 DEF StopInv, QueueInv, OneOutstanding
    <3>2. CommandsAsked(proc') /\ (NoRun(proc.queue) => NoRun(proc'.queue))
      BY <1>1, <2>1, <3>1, ProcessQueueAsked
    <3>3. \A n : Asked(proc', n) => Asked(proc, n)'
      BY <2>3 DEF Asked
    <3>4. CommandsAsked(proc)'
      BY <3>2, <3>3 DEF CommandsAsked
    <3>5. \A l : LineAsked(proc, l) => LineAsked(proc, l)'
      BY <2>7, <3>2 DEF LineAsked
    <3>6. Rest' = Rest
      BY <2>1 DEF Rest, OutputLines
    <3>7. LinesAsked(proc, Rest)'
      BY <2>5, <3>1, <3>5, <3>6 DEF LinesAsked
    <3>8. AtMostOne(lastLine', output')
      BY <2>1, <3>1 DEF AtMostOne
    <3>9. FirstDecides(proc', lastLine', output')
      <4>1. CASE proc' = proc
        BY <2>1, <3>1, <4>1
      <4>2. CASE Sent(proc, proc')
        <5>1. Head(proc.queue) \in Command
          BY <1>1, <4>2, ProcTypes, TailAt DEF Sent
        <5>2. proc'.input # <<>>
          <6> DEFINE h == Head(proc.queue)
          <6> HIDE DEF h
          <6>1. proc.input \in Seq(Command) /\ h \in Command
            BY <1>1, <5>1, ProcTypes DEF h
          <6>2. Append(proc.input, h) # <<>>
            BY <6>1, AppendProperties
          <6> QED
            BY <4>2, <6>2 DEF Sent, h
        <5> QED
          BY <5>2 DEF FirstDecides
      <4> QED
        BY <2>4, <4>1, <4>2
    <3> QED
      BY <3>4, <3>7, <3>8, <3>9
  <2> QED
    BY <2>5, <2>6, <2>8 DEF StopInv
<1>5. CASE Return(c)
  <2>1. /\ UNCHANGED <<proc, lastLine, output>> /\ caller' = [caller EXCEPT ![c] = Idle]
        /\ caller[c].class = ContinueCmd => proc.stopSet
    BY <1>5 DEF Return, Woken, AwaitsStop
  <2>2. caller'[c] = Idle /\ \A d \in Callers : d # c => caller'[d] = caller[d]
    BY <1>1, <2>1
  <2>3. Idle.class # ContinueCmd
    BY DEF Idle
  <2>4. Owners'
    BY <1>1, <2>1, <2>2, <2>3 DEF Owners
  <2>5. \A n : Asked(proc, n) => Asked(proc, n)'
    BY <2>1, <2>2 DEF Asked
  <2>6. Rest' = Rest
    BY <2>1 DEF Rest, OutputLines
  <2>7. CommandsAsked(proc) => CommandsAsked(proc)'
    BY <2>1, <2>5 DEF CommandsAsked
  <2>8. LinesAsked(proc, Rest) => LinesAsked(proc, Rest)'
    BY <2>1, <2>5, <2>6 DEF LinesAsked, LineAsked
  <2> QED
    BY <2>1, <2>4, <2>7, <2>8 DEF StopInv, AtMostOne, FirstDecides
<1> QED
  BY <1>2, <1>3, <1>4, <1>5 DEF Caller

(* The invariant of the stops, for one thread that continues the target. *)
THEOREM StopInvariant ==
  ASSUME "refusal" \notin Surprises, SingleRunner
  PROVE  Spec => []StopInv
<1>1. Init => StopInv
  BY StopInit
<1>2. QueueInv /\ QueueInv' /\ AnswerInv /\ StopInv /\ [Next]_vars => StopInv'
  <2> SUFFICES ASSUME QueueInv, QueueInv', AnswerInv, StopInv, [Next]_vars PROVE StopInv'
    OBVIOUS
  <2>1. CASE Reader
    BY <2>1, ReadLineStop, ReadPromptStartStop, ReadPromptStop DEF Reader
  <2>2. CASE GdbAnswers
    BY <2>2, GdbAnswersStop
  <2>3. ASSUME NEW c \in Callers, Caller(c) PROVE StopInv'
    BY <2>3, CallerStop
  <2>4. CASE UNCHANGED vars
    BY <2>4 DEF vars, StopInv, Owners, CommandsAsked, LinesAsked, LineAsked, Asked, AtMostOne,
      FirstDecides, Rest, OutputLines
  <2> QED
    BY <2>1, <2>2, <2>3, <2>4 DEF Next
<1> QED
  BY <1>1, <1>2, QueueInvariant, AnswerInvariant, PTL DEF Spec

(* The stop DebugContinue returns is one its own continue, or the run that *)
(* replaced it, led to: when only one thread continues the target (the     *)
(* fuzzing loop) and gdb refuses nothing, whatever the other callers do    *)
(* between the reset of _gdbStopEventHandler and its being set.            *)
THEOREM StopsAreOwn ==
  ASSUME "refusal" \notin Surprises, SingleRunner
  PROVE  Spec => []StopIsOwn
<1>1. StopInv => StopIsOwn
  <2> SUFFICES ASSUME StopInv PROVE StopIsOwn
    OBVIOUS
  <2>1. \A c \in Callers : caller[c].class = ContinueCmd /\ proc.stopSet => caller[c].id <= proc.lastStop.id
    BY DEF StopInv, Owners
  <2> QED
    BY <2>1 DEF StopIsOwn, AwaitsStop
<1> QED
  BY <1>1, StopInvariant, PTL

-----------------------------------------------------------------------------
(* Nobody waits in vain, when gdb does what the handlers expect.  The      *)
(* invariant has three parts: the command a caller waits for is queued,    *)
(* current or answered (Pending); when a call of DebugContinue waits, a    *)
(* stop is on its way (Coming); and gdb's lines are such that every        *)
(* handler finds what it needs to call back (Promised).                    *)

(* The commands whose caller waits for the callback or the end of its own. *)
Replied == Class \ (AwaitsNothing \union AwaitsStop \union {RunCmd, SimpleCmd})

(* The command of a caller k is answered, or will be. *)
Pending(p, k) ==
  \/ k.id \in IF k.class \in AwaitsFinish THEN p.finished ELSE p.called
  \/ \E i \in 1..Len(p.queue) : p.queue[i].id = k.id /\ p.queue[i].class = k.class
  \/ p.current # Nothing /\ p.current.id = k.id /\ p.current.class = k.class

(* The target has stopped, or a command or a line on its way leads to it. *)
Coming(p, rest) ==
  \/ p.stopSet
  \/ \E i \in 1..Len(p.queue) : p.queue[i].class \in RunLike
  \/ \E i \in 1..Len(p.input) : p.input[i].class \in RunLike
  \/ \E i \in 1..Len(p.lines) : p.lines[i].kind \in StopKind
  \/ \E l \in rest : l.kind \in Running

(* ResolveSymbolToBreakpointAddress: its handler queues a delete and then  *)
(* finishes whatever is current, so that nothing may be queued behind it.  *)
Named(p, n) ==
  /\ n \notin p.called
  /\ \E c \in Callers : /\ Callers = {c} /\ caller[c].pc # "idle"
                        /\ caller[c].class = SetBreakpointNameCmd /\ caller[c].id = n

NameLast(p) ==
  /\ \A n \in p.called : n <= p.issued
  /\ \A i \in 1..Len(p.queue) : p.queue[i].class = SetBreakpointNameCmd =>
       Named(p, p.queue[i].id) /\ i = Len(p.queue)
  /\ p.current # Nothing /\ p.current.class = SetBreakpointNameCmd =>
       Named(p, p.current.id) /\ p.queue = <<>>

(* Every stop is one the permanent handlers know; "not being run" is the   *)
(* only line of its response; the two handlers that also finish without    *)
(* a callback find their answer.                                           *)
Strange == {"foreign", "unknown"}

Promised(p, rest) ==
  /\ \A i \in 1..Len(p.lines) : p.lines[i].kind \notin Strange
  /\ \A l \in rest : l.kind \notin Strange
  /\ \A l \in rest : l.kind = "notrun" =>
       /\ p.current # Nothing /\ p.current.class = ContinueCmd
       /\ \A m \in rest : m.kind = "notrun"
  /\ p.current # Nothing /\ p.current.class = MaintArchitectureCmd /\ p.input = <<>> =>
       \/ \E i \in 1..Len(p.lines) : p.lines[i].kind = "answer"
       \/ \E l \in rest : l.kind = "answer"
  /\ \A i \in 1..Len(p.input) : p.input[i].class = ContinueCmd => p.current = p.input[i]

FirstAnswers(p, last, out) ==
  p.current # Nothing /\ p.current.class = InfoAddressCmd /\ p.input = <<>> =>
    /\ p.lines = <<>>
    /\ IF last # Nothing THEN last.kind = "answer"
       ELSE out # <<>> /\ out[1] # Prompt /\ out[1].kind = "answer"

-----------------------------------------------------------------------------
(* The handlers again. *)

(* A handler that is done has called back, when its caller waits for that. *)
LEMMA HandledCalls ==
  ASSUME NEW c \in Command, c.class \in Replied \ AwaitsFinish, NEW ls \in Seq(Line),
         NEW allow \in BOOLEAN, HandleResponse(c, ls, allow).result = "Handled",
         c.class \in {MaintArchitectureCmd, InfoAddressCmd} => Answered(c, ls)
  PROVE  HandleResponse(c, ls, allow).calls
<1> DEFINE r == HandleResponse(c, ls, allow)
<1>1. /\ Handled.calls /\ NotHandled.result # "Handled" /\ RequestLine.result # "Handled"
      /\ Throws.result # "Handled" /\ Reply("Handled", TRUE, DeleteBreakpointCmd).calls
  BY DEF Handled, NotHandled, RequestLine, Throws, Reply
<1>2. c.class \in {FileCmd, AttachCmd, TargetCmd, InfoLineCmd, InfoAddressCmd, WhatIsCmd, ExamineCmd,
                   ReadMemoryCmd, InfoFrameCmd, InfoScopeCmd, InfoFunctionsCmd, SetBreakpointCmd,
                   SetBreakpointNameCmd, MaintArchitectureCmd, PrintCmd}
  BY DEF Replied, Class, AnyResponse, FirstLine, Search, SearchOrMore, SearchOnce, Collect,
    CollectKnown, CollectSearch, NoHandler, AwaitsNothing, AwaitsStop, AwaitsFinish
<1>3. CASE c.class \in {FileCmd, AttachCmd, TargetCmd, PrintCmd}
  <2>1. r \in {Handled, NotHandled, RequestLine}
    BY <1>3, HandlerOf DEF FileRH, AttachRH, TargetRH, PrintRH, SearchLines
  <2> HIDE DEF r
  <2> QED
    BY <1>1, <2>1 DEF r
<1>4. CASE c.class \in {InfoLineCmd, WhatIsCmd, ExamineCmd}
  <2>1. r \in {Handled, RequestLine, Throws}
    BY <1>4, HandlerOf DEF InfoLineRH, WhatIsRH, ExamineRH, FirstResponseLine
  <2> HIDE DEF r
  <2> QED
    BY <1>1, <2>1 DEF r
<1>5. CASE c.class \in {InfoAddressCmd, MaintArchitectureCmd}
  <2>1. r \in {Handled, RequestLine}
    BY <1>5, HandlerOf DEF InfoAddressRH, MaintArchitectureRH
  <2> HIDE DEF r
  <2> QED
    BY <1>1, <2>1 DEF r
<1>6. CASE c.class \in {ReadMemoryCmd, InfoFrameCmd, InfoScopeCmd, InfoFunctionsCmd, SetBreakpointCmd,
                        SetBreakpointNameCmd}
  <2>1. r \in {Handled, RequestLine, Reply("Handled", TRUE, DeleteBreakpointCmd)}
    BY <1>6, HandlerOf DEF ReadMemoryRH, InfoFrameRH, InfoScopeRH, InfoFunctionsRH, SetBreakpointRH,
      SetBreakpointName, CollectLines
  <2> HIDE DEF r
  <2> QED
    BY <1>1, <2>1 DEF r
<1> QED
  BY <1>2, <1>3, <1>4, <1>5, <1>6

(* Only the handler of a named breakpoint queues a delete, at the prompt. *)
LEMMA DeleteQueuedBy ==
  ASSUME NEW c \in Command, c.class \notin NoHandler, NEW ls \in Seq(Line), NEW allow \in BOOLEAN,
         HandleResponse(c, ls, allow).queues = DeleteBreakpointCmd
  PROVE  c.class = SetBreakpointNameCmd /\ ~allow
<1> DEFINE r == HandleResponse(c, ls, allow)
           Some == {Handled, HandledMute, NotHandled, RequestLine, Throws,
                    Reply("Handled", FALSE, RunCmd), Reply("Handled", FALSE, SimpleCmd)}
<1>1. \A x \in Some : x.queues # DeleteBreakpointCmd
  BY DEF Handled, HandledMute, NotHandled, RequestLine, Throws, Reply
<1>2. c.class \in Class \ NoHandler
  BY DEF Command
<1>3. r \in Some \/ (c.class = SetBreakpointNameCmd /\ ~allow)
  <2>1. CASE c.class \in {FileCmd, AttachCmd, TargetCmd, PrintCmd, InfoLineCmd, WhatIsCmd, ExamineCmd}
    <3>1. /\ SearchLines(c, ls) \in Some /\ PrintRH(c, ls, allow) \in Some
          /\ InfoLineRH(c, ls) \in Some /\ FirstResponseLine(ls) \in Some
      BY DEF PrintRH, SearchLines, InfoLineRH, FirstResponseLine
    <3> HIDE DEF Some
    <3> QED
      BY <2>1, <3>1, HandlerOf DEF FileRH, AttachRH, TargetRH, WhatIsRH, ExamineRH
  <2>2. CASE c.class \in {ContinueCmd, RunCmd, SimpleCmd}
    <3>1. ContinueRH(c, ls) \in Some /\ RunRH(c, ls) \in Some
      BY DEF ContinueRH, RunRH, AnswerOr
    <3> QED
      BY <2>2, <3>1, HandlerOf
  <2>3. CASE c.class \in {InfoAddressCmd, MaintArchitectureCmd, RestoreCmd, DeleteBreakpointCmd,
                          MaintPrintRawRegistersCmd, RecordSaveCmd}
    <3>1. /\ InfoAddressRH(c, ls) \in Some /\ MaintArchitectureRH(c, ls, allow) \in Some
          /\ RestoreRH \in Some /\ DeleteBreakpointRH \in Some
          /\ MaintPrintRawRegistersRH(allow) \in Some /\ RecordSaveRH(allow) \in Some
      BY DEF InfoAddressRH, MaintArchitectureRH, RestoreRH, DeleteBreakpointRH,
        MaintPrintRawRegistersRH, RecordSaveRH
    <3> HIDE DEF Some
    <3> QED
      BY <2>3, <3>1, HandlerOf
  <2>4. CASE c.class \in {ReadMemoryCmd, InfoFrameCmd, InfoScopeCmd, InfoFunctionsCmd, SetBreakpointCmd,
                          SetBreakpointNameCmd}
    <3>1. /\ CollectLines(allow) \in Some
          /\ SetBreakpointName(c, ls, allow) \in Some \/ ~allow
      BY DEF SetBreakpointRH, SetBreakpointName, CollectLines
    <3> HIDE DEF Some
    <3> QED
      BY <2>4, <3>1, HandlerOf DEF ReadMemoryRH, InfoFrameRH, InfoScopeRH, InfoFunctionsRH, SetBreakpointRH
  <2> QED
    BY <1>2, <2>1, <2>2, <2>3, <2>4 DEF Class, AnyResponse, FirstLine, Search, SearchOrMore, SearchOnce,
      Collect, CollectKnown, CollectSearch
<1> HIDE DEF r, Some
<1> QED
  BY <1>1, <1>3 DEF r

(* A handler that takes what it gets is done with the first line. *)
LEMMA AddressHandled ==
  ASSUME NEW c \in Command, c.class = InfoAddressCmd, NEW ls, NEW allow \in BOOLEAN
  PROVE  HandleResponse(c, ls, allow).result = "Handled"
<1>1. HandleResponse(c, ls, allow) = InfoAddressRH(c, ls)
  BY HandlerOf
<1> QED
  BY <1>1 DEF InfoAddressRH, Handled, HandledMute, Reply

(* Others are not done before the prompt. *)
LEMMA NotBeforePrompt ==
  ASSUME NEW c \in Command, c.class \in {MaintArchitectureCmd, SetBreakpointNameCmd}, NEW ls
  PROVE  HandleResponse(c, ls, TRUE).result # "Handled"
<1>1. HandleResponse(c, ls, TRUE) = RequestLine
  BY HandlerOf DEF MaintArchitectureRH, SetBreakpointName, SetBreakpointRH, CollectLines
<1>2. RequestLine.result # "Handled"
  BY DEF RequestLine, Reply
<1> QED
  BY <1>1, <1>2

-----------------------------------------------------------------------------
(* What the functions of GDBSubProcess keep. *)

(* Nothing is lost from a queue to which a command is added. *)
LEMMA LongerQueue ==
  ASSUME NEW p \in Proc, NEW c \in Command, NEW s, s = p.queue \/ s = Append(p.queue, c)
  PROVE  \A i \in 1..Len(p.queue) : i \in 1..Len(s) /\ s[i] = p.queue[i]
<1>1. CASE s = p.queue
  BY <1>1
<1>2. CASE s = Append(p.queue, c)
  <2>1. /\ Len(p.queue) \in Nat /\ Len(s) = Len(p.queue) + 1
        /\ \A i \in 1..Len(p.queue) : s[i] = p.queue[i]
    BY <1>2, ProcTypes, AppendAt
  <2> QED
    BY <2>1
<1> QED
  BY <1>1, <1>2

(* At the prompt the current command is finished; what its handler queues  *)
(* when nothing waits in the queue is sent and finished with it.           *)
LEMMA PromptFinished ==
  ASSUME NEW p \in Proc, p.current # Nothing, NEW r \in ReplyType, p.ready,
         r.queues = SetCmd \/ (p.queue = <<>> /\ r.queues \notin NoHandler)
  PROVE  LET q == FinishCurrent(Callback(p, r)) IN
         /\ q.dead = p.dead /\ q.queue = p.queue /\ p.issued <= q.issued
         /\ p.finished \subseteq q.finished
         /\ r.queues = SetCmd => p.current.id \in q.finished /\ q.input = p.input
         /\ r.queues # SetCmd => /\ ~q.ready
                                 /\ \E c \in Command : c.class = r.queues /\ q.input = Append(p.input, c)
         /\ q.called = IF r.calls THEN p.called \union {p.current.id} ELSE p.called
<1> DEFINE b == Callback(p, r)
           q == FinishCurrent(b)
<1>1. PICK m \in Proc :
           /\ Entered(p, m, r.calls)
           /\ b = IF r.queues = SetCmd THEN m ELSE ProcessQueue(Enqueue(m, r.queues, p.current.by))
  BY CallbackFields
<1>2. /\ m.current = p.current /\ m.finished = p.finished
      /\ m.queue = p.queue /\ m.issued = p.issued
      /\ m.input = p.input /\ m.ready = p.ready /\ m.dead = p.dead
      /\ m.called = IF r.calls THEN p.called \union {p.current.id} ELSE p.called
  BY <1>1 DEF Entered, SameQueue
<1>i. p.issued \in Nat
  BY ProcTypes
<1>3. CASE r.queues = SetCmd
  <2>1. b = m
    BY <1>1, <1>3
  <2> HIDE DEF b
  <2>2. /\ q.queue = b.queue /\ q.issued = b.issued /\ SameCalls(b, q) /\ q.dead = b.dead
        /\ q.input = b.input /\ q.finished = b.finished \union {b.current.id}
    BY <1>2, <2>1, FinishFields
  <2> HIDE DEF q
  <2> QED
    BY <1>2, <1>3, <1>i, <2>1, <2>2 DEF q, b, SameCalls
<1>4. CASE r.queues # SetCmd
  <2> DEFINE e == Enqueue(m, r.queues, p.current.by)
             c == [id |-> p.issued + 1, class |-> r.queues, by |-> p.current.by]
  <2>1. r.queues \in Class /\ p.current.by \in Callers
    BY EntryType DEF ReplyType, Command
  <2> DEFINE d == [id |-> m.issued + 1, class |-> r.queues, by |-> p.current.by]
  <2>a. /\ e \in Proc /\ e.queue = Append(m.queue, d) /\ e.issued = m.issued + 1 /\ d \in Command
        /\ e.input = m.input /\ e.ready = m.ready /\ e.dead = m.dead /\ e.finished = m.finished
        /\ SameCalls(m, e)
    BY <2>1, EnqueueFields
  <2>b. d = c
    BY <1>2
  <2>c. c.class = r.queues
    OBVIOUS
  <2> HIDE DEF e, d, c
  <2>2. /\ e \in Proc /\ e.queue = Append(<<>>, c) /\ e.issued = p.issued + 1 /\ c \in Command
        /\ e.input = p.input /\ e.ready = p.ready /\ e.dead = p.dead /\ e.finished = p.finished
        /\ SameCalls(m, e)
    BY <1>2, <1>4, <2>a, <2>b
  <2>3. b = ProcessQueue(e) /\ c.class = r.queues
    BY <1>1, <1>4, <2>c DEF e
  <2> HIDE DEF c, e, b
  <2>4. Append(<<>>, c) = <<c>>
    BY <2>2
  <2>5. e.queue = <<c>> /\ Head(e.queue) = c /\ Tail(e.queue) = <<>> /\ e.queue # <<>>
    BY <2>2, <2>4
  <2>6. Sent(e, b) /\ b \in Proc
    BY <2>2, <2>3, <2>5, ProcessQueueFields, ProcessQueueProc
  <2>7. /\ b.current = c /\ b.queue = <<>> /\ b.dead = p.dead /\ b.issued = p.issued + 1 /\ ~b.ready
        /\ p.finished \subseteq b.finished /\ SameCalls(e, b) /\ b.input = Append(p.input, c)
    BY <1>4, <2>2, <2>3, <2>5, <2>6 DEF Sent
  <2>8. c # Nothing
    BY <2>2 DEF Command, Nothing
  <2>9. /\ q.queue = b.queue /\ q.issued = b.issued /\ SameCalls(b, q) /\ q.dead = b.dead
        /\ q.input = b.input /\ q.ready = b.ready /\ q.finished = b.finished \union {b.current.id}
    BY <2>6, <2>7, <2>8, FinishFields
  <2> HIDE DEF q
  <2>10. q.called = m.called
    BY <2>2, <2>7, <2>9 DEF SameCalls
  <2> QED
    BY <1>2, <1>4, <1>i, <2>2, <2>3, <2>6, <2>7, <2>9, <2>10 DEF q, b
<1> QED
  BY <1>3, <1>4

(* Sending a command loses nothing. *)
LEMMA ProcessQueueWaits ==
  ASSUME NEW p \in Proc, p.ready => p.current = Nothing /\ p.input = <<>>
  PROVE  LET q == ProcessQueue(p) IN
         /\ q.dead = p.dead /\ ~(q.ready /\ q.queue # <<>>)
         /\ \A k : k.class \in Replied /\ Pending(p, k) => Pending(q, k)
         /\ \A rest : Coming(p, rest) => Coming(q, rest)
         /\ NameLast(p) => NameLast(q)
         /\ \A i \in 1..Len(q.input) : q.input[i].class = ContinueCmd =>
              (i \in 1..Len(p.input) /\ q = p) \/ q.current = q.input[i]
<1> DEFINE q == ProcessQueue(p)
<1>1. CASE (p.queue = <<>> \/ ~p.ready) /\ q = p
  BY <1>1
<1>2. CASE Sent(p, q)
  <2> DEFINE h == Head(p.queue)
  <2> HIDE DEF q
  <2>1. /\ p.queue # <<>> /\ p.queue \in Seq(Command) /\ p.input = <<>> /\ p.current = Nothing
        /\ ~q.ready /\ q.dead = p.dead /\ p.finished \subseteq q.finished /\ q.called = p.called
        /\ q.issued = p.issued /\ q.stopSet = p.stopSet /\ q.lines = p.lines
    BY <1>2, ProcTypes DEF Sent, SameCalls, SameStop
  <2>2. /\ Len(p.queue) \in Nat /\ Len(p.queue) >= 1 /\ Len(q.queue) = Len(p.queue) - 1
        /\ h = p.queue[1] /\ h \in Command /\ q.queue \in Seq(Command)
        /\ \A i \in 1..Len(p.queue) - 1 : q.queue[i] = p.queue[i + 1]
    BY <1>2, <2>1, TailAt DEF Sent
  <2>3. Len(q.input) = 1 /\ q.input[1] = h
    <3> HIDE DEF h
    <3>1. Append(<<>>, h) = <<h>>
      BY <2>2
    <3> QED
      BY <1>2, <2>1, <3>1 DEF Sent, h
  <2>4. q.current = IF h.class \in NoHandler THEN Nothing ELSE h
    BY <1>2 DEF Sent
  <2>5. \A i \in 1..Len(p.queue) : i = 1 \/ (i - 1 \in 1..Len(q.queue) /\ q.queue[i - 1] = p.queue[i])
    <3> TAKE i \in 1..Len(p.queue)
    <3>1. CASE i # 1
      <4>1. i - 1 \in 1..Len(p.queue) - 1 /\ (i - 1) + 1 = i
        BY <2>2, <3>1
      <4> QED
        BY <2>2, <4>1
    <3> QED
      BY <3>1
  <2>6. \A i \in 1..Len(q.queue) : i + 1 \in 1..Len(p.queue) /\ q.queue[i] = p.queue[i + 1]
    BY <2>2
  <2>7. h # Nothing
    <3>1. h \in Command
      BY <2>2
    <3> HIDE DEF h
    <3> QED
      BY <3>1 DEF Command, Nothing
  <2>8. Replied \intersect NoHandler = {} /\ RunLike \intersect NoHandler = {} /\ ContinueCmd \notin NoHandler
    BY DEF Replied, AwaitsNothing, NoHandler, RunLike
  <2> HIDE DEF h
  <2>9. ASSUME NEW k, k.class \in Replied, Pending(p, k) PROVE Pending(q, k)
    <3>1. CASE k.id \in IF k.class \in AwaitsFinish THEN p.finished ELSE p.called
      BY <2>1, <3>1 DEF Pending
    <3>2. ASSUME NEW i \in 1..Len(p.queue), p.queue[i].id = k.id, p.queue[i].class = k.class
          PROVE  Pending(q, k)
      <4>1. CASE i = 1
        <5>1. q.current = h /\ h.id = k.id /\ h.class = k.class
          BY <2>2, <2>4, <2>8, <2>9, <3>2, <4>1
        <5> QED
          BY <2>7, <5>1 DEF Pending
      <4>2. CASE i # 1
        BY <2>5, <3>2, <4>2 DEF Pending
      <4> QED
        BY <4>1, <4>2
    <3> QED
      BY <2>1, <2>9, <3>1, <3>2 DEF Pending
  <2>10. ASSUME NEW rest, Coming(p, rest) PROVE Coming(q, rest)
    <3>1. ASSUME NEW i \in 1..Len(p.queue), p.queue[i].class \in RunLike PROVE Coming(q, rest)
      <4>1. CASE i = 1
        <5>1. 1 \in 1..Len(q.input) /\ q.input[1].class \in RunLike
          BY <2>2, <2>3, <3>1, <4>1
        <5> QED
          BY <5>1 DEF Coming
      <4>2. CASE i # 1
        BY <2>5, <3>1, <4>2 DEF Coming
      <4> QED
        BY <4>1, <4>2
    <3>2. Len(p.input) = 0
      BY <2>1
    <3> QED
      BY <2>1, <2>10, <3>1, <3>2 DEF Coming
  <2>11. ASSUME NameLast(p) PROVE NameLast(q)
    <3>0. \A n : Named(p, n) => Named(q, n)
      BY <2>1 DEF Named
    <3>1. \A i \in 1..Len(q.queue) : q.queue[i].class = SetBreakpointNameCmd =>
            Named(q, q.queue[i].id) /\ i = Len(q.queue)
      <4> SUFFICES ASSUME NEW i \in 1..Len(q.queue), q.queue[i].class = SetBreakpointNameCmd
                   PROVE  Named(q, q.queue[i].id) /\ i = Len(q.queue)
        OBVIOUS
      <4>1. i + 1 \in 1..Len(p.queue) /\ q.queue[i] = p.queue[i + 1]
        BY <2>6
      <4>2. Named(p, q.queue[i].id) /\ i + 1 = Len(p.queue)
        BY <2>11, <4>1 DEF NameLast
      <4> QED
        BY <2>2, <3>0, <4>2
    <3>2. q.current # Nothing /\ q.current.class = SetBreakpointNameCmd =>
            Named(q, q.current.id) /\ q.queue = <<>>
      <4> SUFFICES ASSUME q.current # Nothing, q.current.class = SetBreakpointNameCmd
                   PROVE  Named(q, q.current.id) /\ q.queue = <<>>
        OBVIOUS
      <4>1. q.current = p.queue[1] /\ 1 \in 1..Len(p.queue)
        BY <2>2, <2>4
      <4>2. Named(p, q.current.id) /\ 1 = Len(p.queue)
        BY <2>11, <4>1 DEF NameLast
      <4>3. q.queue = <<>>
        BY <2>2, <4>2, EmptySeq
      <4> QED
        BY <3>0, <4>2, <4>3
    <3>3. \A n \in q.called : n <= q.issued
      BY <2>1, <2>11 DEF NameLast
    <3> QED
      BY <3>1, <3>2, <3>3 DEF NameLast
  <2>12. \A i \in 1..Len(q.input) : q.input[i].class = ContinueCmd => q.current = q.input[i]
    BY <2>3, <2>4, <2>8
  <2> QED
    BY <2>1, <2>9, <2>10, <2>11, <2>12 DEF q
<1> QED
  BY <1>1, <1>2, ProcessQueueFields

(* Both depend on the queue, the current command and the answered ones. *)
LEMMA SameWaits ==
  ASSUME NEW p, NEW q, q.queue = p.queue, q.current = p.current, q.called = p.called,
         q.finished = p.finished, q.issued = p.issued
  PROVE  (\A k : Pending(p, k) => Pending(q, k)) /\ (NameLast(p) => NameLast(q))
<1>1. \A k : Pending(p, k) => Pending(q, k)
  BY DEF Pending
<1>2. \A n : Named(p, n) => Named(q, n)
  BY DEF Named
<1>3. NameLast(p) => NameLast(q)
  BY <1>2 DEF NameLast
<1> QED
  BY <1>1, <1>3

(* A command that is done before the prompt keeps what waits. *)
LEMMA FinishedWaits ==
  ASSUME NEW p \in Proc, p.current # Nothing, ~p.ready, Order(p), NameLast(p), NEW r \in ReplyType,
         r.queues \in {SetCmd, RunCmd},
         r.queues = RunCmd => \A i \in 1..Len(p.queue) : p.queue[i].class # SetBreakpointNameCmd,
         p.current.class \in Replied \ AwaitsFinish => r.calls
  PROVE  LET q == FinishCurrent(Callback(p, r)) IN
         NameLast(q) /\ \A k : k.class \in Replied /\ Pending(p, k) => Pending(q, k)
<1> DEFINE q == FinishCurrent(Callback(p, r))
           c == [id |-> p.issued + 1, class |-> r.queues, by |-> p.current.by]
<1>1. /\ q.current = Nothing /\ q.finished = p.finished \union {p.current.id}
      /\ q.called = IF r.calls THEN p.called \union {p.current.id} ELSE p.called
      /\ IF r.queues = SetCmd THEN q.queue = p.queue /\ q.issued = p.issued
         ELSE q.queue = Append(p.queue, c) /\ q.issued = p.issued + 1
  BY FinishedFields
<1>2. p.issued \in Nat /\ p.current \in Command /\ p.current.id \in Nat /\ Len(p.queue) \in Nat
  BY ProcTypes
<1>3. c \in Command /\ c.class = r.queues
  BY <1>2 DEF Command, ReplyType
<1> HIDE DEF q, c
<1>4. \A i \in 1..Len(p.queue) : i \in 1..Len(q.queue) /\ q.queue[i] = p.queue[i]
  BY <1>1, <1>3, LongerQueue
<1>5. ASSUME NEW k, k.class \in Replied, Pending(p, k) PROVE Pending(q, k)
  <2>1. CASE k.id \in IF k.class \in AwaitsFinish THEN p.finished ELSE p.called
    BY <1>1, <2>1 DEF Pending
  <2>2. CASE \E i \in 1..Len(p.queue) : p.queue[i].id = k.id /\ p.queue[i].class = k.class
    BY <1>4, <2>2 DEF Pending
  <2>3. CASE p.current.id = k.id /\ p.current.class = k.class
    <3>1. k.class \notin AwaitsFinish => r.calls
      BY <1>5, <2>3
    <3> QED
      BY <1>1, <2>3, <3>1 DEF Pending
  <2> QED
    BY <1>5, <2>1, <2>2, <2>3 DEF Pending
<1>6. \A n \in q.called : n <= q.issued
  <2> SUFFICES ASSUME NEW n \in q.called PROVE n <= q.issued
    OBVIOUS
  <2>1. n \in p.called \/ n = p.current.id
    BY <1>1
  <2>2. n <= p.issued /\ n \in Nat
    BY <1>2, <2>1 DEF Order, CurrentOrder, NameLast, Proc
  <2>3. q.issued = p.issued \/ q.issued = p.issued + 1
    BY <1>1
  <2> QED
    BY <1>2, <2>2, <2>3
<1>7. \A i \in 1..Len(q.queue) : q.queue[i].class = SetBreakpointNameCmd =>
        Named(q, q.queue[i].id) /\ i = Len(q.queue)
  <2> SUFFICES ASSUME NEW i \in 1..Len(q.queue), q.queue[i].class = SetBreakpointNameCmd
               PROVE  Named(q, q.queue[i].id) /\ i = Len(q.queue)
    OBVIOUS
  <2>1. i \in 1..Len(p.queue) /\ q.queue[i] = p.queue[i] /\ q.queue = p.queue
    <3>1. CASE r.queues = SetCmd
      BY <1>1, <3>1
    <3>2. CASE r.queues = RunCmd
      <4>0. q.queue = Append(p.queue, c) /\ p.queue \in Seq(Command)
        BY <1>1, <3>2, ProcTypes
      <4>1. /\ Len(q.queue) = Len(p.queue) + 1 /\ q.queue[Len(p.queue) + 1] = c
            /\ \A j \in 1..Len(p.queue) : q.queue[j] = p.queue[j]
        BY <1>3, <4>0, AppendAt
      <4>2. i = Len(p.queue) + 1 \/ i \in 1..Len(p.queue)
        BY <1>2, <4>1
      <4> QED
        BY <1>3, <3>2, <4>1, <4>2
    <3> QED
      BY <3>1, <3>2
  <2>2. Named(p, p.queue[i].id) /\ i = Len(p.queue)
    BY <2>1 DEF NameLast
  <2>3. p.current.id < p.queue[i].id /\ p.queue[i].id \in Nat
    BY <2>1, ProcTypes DEF Order, CurrentOrder
  <2>4. p.queue[i].id \notin q.called
    BY <1>1, <1>2, <2>2, <2>3 DEF Named
  <2> QED
    BY <2>1, <2>2, <2>4 DEF Named
<1> QED
  BY <1>1, <1>5, <1>6, <1>7 DEF NameLast, q

(* A line that is delivered keeps what waits, and what was promised. *)
LEMMA DeliverWaits ==
  ASSUME TypeOK, NEW p, Good(p), Order(p), ~p.dead, ~p.ready, p.input = <<>>,
         NEW line \in Line, NEW rest, Attributed(p, rest \union {line}),
         CommandsAsked(p), LinesAsked(p, rest \union {line}),
         line.kind \in Running => \A l \in rest : l.kind \notin Running,
         p.current # Nothing /\ p.current.class \in RunLike => p.lines = <<>> /\ Decides(p.current, line),
         Promised(p, rest \union {line}), NameLast(p),
         p.current # Nothing /\ p.current.class = InfoAddressCmd => p.lines = <<>> /\ line.kind = "answer"
  PROVE  LET q == Deliver(p, line) IN
         /\ ~q.dead /\ ~q.ready /\ q.input = <<>>
         /\ Promised(q, rest) /\ NameLast(q)
         /\ q.current # Nothing => q.current.class # InfoAddressCmd
         /\ Coming(p, rest \union {line}) => Coming(q, rest)
         /\ \A k : k.class \in Replied /\ Pending(p, k) => Pending(q, k)
<1> DEFINE a == [p EXCEPT !.lines = Append(p.lines, line)]
           q == Deliver(p, line)
<1>1. Append(p.lines, line) \in Seq(Line) /\ p \in Proc
  BY DEF Good, Proc
<1>2. /\ a \in Proc /\ LeavesQueue(p, a) /\ a.lines = Append(p.lines, line) /\ ~a.dead
      /\ SameStop(p, a)
  BY <1>1 DEF Proc, LeavesQueue, SameCalls, SameStop
<1>3. q = ReceivedNewLine(a)
  BY DEF Deliver
<1>0. ~q.dead => (q.current # Nothing => q.current.class \notin RunLike)
  BY DeliverAsked
<1> HIDE DEF a, q
<1>4. /\ a.current = p.current /\ a.queue = p.queue /\ a.issued = p.issued /\ a.input = <<>>
      /\ ~a.ready /\ a.finished = p.finished /\ a.called = p.called /\ a.stopSet = p.stopSet
      /\ a.callbacks = p.callbacks
  BY <1>2 DEF LeavesQueue, SameCalls, SameStop
<1>5. Good(a)
  BY <1>2, <1>4 DEF Good, CurrentHasHandler
<1>6. /\ Len(a.lines) = Len(p.lines) + 1 /\ Len(p.lines) \in Nat /\ a.lines[Len(p.lines) + 1] = line
      /\ \A i \in 1..Len(p.lines) : a.lines[i] = p.lines[i]
  BY <1>1, <1>2, ProcTypes, AppendAt
<1>7. Order(a) /\ NameLast(a) /\ \A k : Pending(p, k) => Pending(a, k)
  <2>1. Order(a)
    BY <1>4 DEF Order, QueueOrder, CallOrder, CurrentOrder
  <2> QED
    BY <1>4, <2>1, SameWaits
<1>8. \A i \in 1..Len(a.lines) : (i \in 1..Len(p.lines) /\ a.lines[i] = p.lines[i]) \/ a.lines[i] = line
  BY <1>6
<1>9. /\ \A i \in 1..Len(p.lines) : i \in 1..Len(a.lines) /\ a.lines[i] = p.lines[i]
      /\ \E i \in 1..Len(a.lines) : a.lines[i] = line
  BY <1>6
<1>10. /\ \A i \in 1..Len(a.lines) : a.lines[i].kind \notin Strange
       /\ \A l \in rest : l.kind \notin Strange
  BY <1>8 DEF Promised
<1>11. p.current # Nothing =>
         /\ \A i \in 1..Len(p.lines) : p.lines[i].kind \in Running => p.current.class \in RunLike
         /\ line.kind \in Running => p.current.class \in RunLike
         /\ line.of = p.current
  BY DEF Attributed, OwnLines, LinesAsked, LineAsked
<1>12. CASE p.current = Nothing
  <2>1. LeavesQueue(a, q) /\ (Waits(a, q) \/ Dies(a, q) \/ Stops(a, q) \/ Discards(a, q))
    BY <1>2, <1>3, <1>4, <1>12, PermanentFields DEF ReceivedNewLine
  <2>2. /\ q.current = Nothing /\ q.queue = a.queue /\ q.input = <<>> /\ ~q.ready
        /\ q.finished = a.finished /\ q.called = a.called /\ q.issued = a.issued /\ Len(q.input) = 0
    BY <1>4, <1>12, <2>1 DEF LeavesQueue, SameCalls
  <2>3. ~Dies(a, q) /\ (Discards(a, q) => \A i \in 1..Len(a.lines) : a.lines[i].kind \notin StopKind)
    BY <1>10 DEF Dies, Discards, Strange
  <2>4. /\ ~q.dead /\ (q.lines = a.lines \/ q.lines = <<>>)
        /\ q.stopSet \/ q.stopSet = a.stopSet
        /\ \/ q.stopSet
           \/ \A i \in 1..Len(a.lines) : a.lines[i].kind \in StopKind => q.lines = a.lines
    BY <1>2, <2>1, <2>3 DEF Waits, Stops, Discards, SameStop
  <2>5. NameLast(q) /\ \A k : Pending(a, k) => Pending(q, k)
    BY <1>4, <1>7, <1>12, <2>2, SameWaits
  <2>6. \A l \in rest \union {line} : l.kind # "notrun"
    BY <1>12 DEF Promised
  <2>7. Promised(q, rest)
    <3>1. \A i \in 1..Len(q.lines) : q.lines[i].kind \notin Strange
      <4>1. CASE q.lines = a.lines
        BY <1>10, <4>1
      <4>2. CASE q.lines = <<>>
        <5>1. Len(q.lines) = 0
          BY <4>2
        <5> QED
          BY <5>1
      <4> QED
        BY <2>4, <4>1, <4>2
    <3> QED
      BY <1>10, <2>2, <2>6, <3>1 DEF Promised
  <2>8. ASSUME Coming(p, rest \union {line}) PROVE Coming(q, rest)
    <3>1. CASE p.stopSet
      BY <1>4, <2>4, <3>1 DEF Coming
    <3>2. CASE \E i \in 1..Len(p.queue) : p.queue[i].class \in RunLike
      BY <1>4, <2>2, <3>2 DEF Coming
    <3>3. CASE \E i \in 1..Len(a.lines) : a.lines[i].kind \in StopKind
      BY <2>4, <3>3 DEF Coming
    <3>4. CASE \E l \in rest : l.kind \in Running
      BY <3>4 DEF Coming
    <3>5. Len(p.input) = 0
      OBVIOUS
    <3>6. line.kind \in Running => line.kind \in StopKind
      BY <2>6 DEF Running
    <3> QED
      BY <1>9, <2>8, <3>1, <3>2, <3>3, <3>4, <3>5, <3>6, SMTT(30) DEF Coming
  <2> QED
    BY <1>7, <2>2, <2>4, <2>5, <2>7, <2>8 DEF q
<1>13. CASE p.current # Nothing
  <2> DEFINE r == HandleResponse(a.current, a.lines, ~a.ready)
  <2>1. /\ r \in ReplyType
        /\ IF r.result = "Handled" THEN q = FinishCurrent(Callback(a, r)) ELSE KeepsCurrent(a, q)
    BY <1>2, <1>3, <1>4, <1>5, <1>13, CurrentHandlerFields DEF ReceivedNewLine, Good
  <2>2. /\ a.current \in Command /\ a.current.class \notin NoHandler /\ a.lines \in Seq(Line)
        /\ (~a.ready) = TRUE
    BY <1>2, <1>4, <1>5, <1>13, ProcTypes DEF Good, CurrentHasHandler
  <2>3. /\ a.current.class = InfoAddressCmd => r.result = "Handled"
        /\ a.current.class \in {MaintArchitectureCmd, SetBreakpointNameCmd} => r.result # "Handled"
    BY <2>2, AddressHandled, NotBeforePrompt
  <2>4. /\ a.current.class \in RunLike =>
             IF line.kind = "answer" THEN r.queues = SetCmd ELSE r.queues = RunCmd /\ line.kind = "notrun"
        /\ r.queues \in {SetCmd, RunCmd}
        /\ r.queues = RunCmd => a.current.class = ContinueCmd
    <3>1. ASSUME a.current.class \in RunLike
          PROVE  IF line.kind = "answer" THEN r.queues = SetCmd
                 ELSE r.queues = RunCmd /\ line.kind = "notrun"
      <4>1. Len(p.lines) = 0 /\ Decides(a.current, line)
        BY <1>4, <1>13, <3>1
      <4>2. Len(a.lines) = 1 /\ a.lines[1] = line
        BY <1>6, <4>1
      <4>3. a.lines[1].of = a.current /\ Decides(a.current, a.lines[1]) /\ (~a.ready) \in BOOLEAN
        BY <1>4, <1>11, <1>13, <4>1, <4>2
      <4>4. IF a.lines[1].kind = "answer" THEN r.queues = SetCmd
            ELSE r.queues = RunCmd /\ a.lines[1].kind = "notrun"
        BY <2>2, <3>1, <4>2, <4>3, HandledAtOnce
      <4> QED
        BY <4>2, <4>4
    <3>2. \A i \in 1..Len(a.lines) : a.lines[i].kind # "already"
      BY <1>8 DEF LinesAsked, LineAsked
    <3>3. \/ r.queues \in {SetCmd, DeleteBreakpointCmd}
          \/ a.current.class = ContinueCmd /\ r.queues = RunCmd
      BY <2>2, <3>2, QueuedByHandler
    <3>4. r.queues # DeleteBreakpointCmd
      BY <2>2, DeleteQueuedBy
    <3> HIDE DEF r
    <3> QED
      BY <3>1, <3>3, <3>4
  <2>5. r.result = "Handled" /\ a.current.class \in Replied \ AwaitsFinish => r.calls
    <3> SUFFICES ASSUME r.result = "Handled", a.current.class \in Replied \ AwaitsFinish PROVE r.calls
      OBVIOUS
    <3>1. a.current.class = InfoAddressCmd => Answered(a.current, a.lines)
      BY <1>4, <1>9, <1>11, <1>13 DEF Answered
    <3> QED
      BY <2>2, <2>3, <3>1, HandledCalls
  <2> HIDE DEF r
  <2>6. CASE r.result = "Handled"
    <3> DEFINE c == [id |-> a.issued + 1, class |-> r.queues, by |-> a.current.by]
    <3>1. q = FinishCurrent(Callback(a, r))
      BY <2>1, <2>6
    <3>2. /\ q.current = Nothing /\ q.stopSet = a.stopSet /\ q.lines = <<>> /\ q.input = <<>>
          /\ ~q.dead /\ ~q.ready
          /\ q.queue = IF r.queues = SetCmd THEN a.queue ELSE Append(a.queue, c)
      BY <1>2, <1>4, <1>13, <2>1, <3>1, FinishedFields DEF SameStop
    <3>3. r.queues = RunCmd => \A i \in 1..Len(a.queue) : a.queue[i].class # SetBreakpointNameCmd
      <4> SUFFICES ASSUME r.queues = RunCmd, NEW i \in 1..Len(a.queue), a.queue[i].class = SetBreakpointNameCmd
                   PROVE  FALSE
        OBVIOUS
      <4>1. Asked(p, p.current.id)
        BY <1>4, <1>13, <2>4 DEF CommandsAsked, RunLike
      <4>2. PICK d \in Callers : caller[d].class = ContinueCmd
        BY <4>1 DEF Asked
      <4>3. PICK e \in Callers : Callers = {e} /\ caller[e].class = SetBreakpointNameCmd
        BY <1>7 DEF NameLast, Named
      <4> QED
        BY <4>2, <4>3
    <3>4. NameLast(q) /\ \A k : k.class \in Replied /\ Pending(a, k) => Pending(q, k)
      BY <1>2, <1>4, <1>7, <1>13, <2>1, <2>4, <2>5, <2>6, <3>1, <3>3, FinishedWaits
    <3>5. Len(q.lines) = 0 /\ Len(q.input) = 0
      BY <3>2
    <3>6. Promised(q, rest)
      <4>1. \A l \in rest : l.kind # "notrun"
        <5> SUFFICES ASSUME NEW l \in rest, l.kind = "notrun" PROVE FALSE
          OBVIOUS
        <5>1. line.kind = "notrun"
          BY DEF Promised
        <5> QED
          BY <5>1 DEF Running
      <4> QED
        BY <1>10, <3>2, <3>5, <4>1 DEF Promised
    <3>7. ASSUME Coming(p, rest \union {line}) PROVE Coming(q, rest)
      <4>1. c \in Command /\ c.class = r.queues
        BY <1>2, <2>1, <2>2, ProcTypes DEF Command, ReplyType
      <4> HIDE DEF c
      <4>2. \A i \in 1..Len(a.queue) : i \in 1..Len(q.queue) /\ q.queue[i] = a.queue[i]
        BY <1>2, <3>2, <4>1, LongerQueue
      <4>3. CASE p.stopSet
        BY <1>4, <3>2, <4>3 DEF Coming
      <4>4. CASE \E i \in 1..Len(p.queue) : p.queue[i].class \in RunLike
        BY <1>4, <4>2, <4>4 DEF Coming
      <4>5. CASE \E l \in rest : l.kind \in Running
        BY <4>5 DEF Coming
      <4>6. CASE line.kind \in Running
        <5>1. a.current.class \in RunLike /\ line.kind # "answer"
          BY <1>4, <1>11, <1>13, <4>6 DEF Running, StopKind
        <5>2. r.queues = RunCmd
          BY <2>4, <5>1
        <5>3. q.queue = Append(a.queue, c) /\ a.queue \in Seq(Command)
          BY <1>2, <3>2, <5>2, ProcTypes
        <5>4. Len(a.queue) + 1 \in 1..Len(q.queue) /\ q.queue[Len(a.queue) + 1] = c
          BY <4>1, <5>3, AppendAt
        <5> QED
          BY <4>1, <5>2, <5>4 DEF Coming, RunLike
      <4>7. Len(p.input) = 0
        OBVIOUS
      <4>8. \A i \in 1..Len(p.lines) : p.lines[i].kind \notin StopKind
        <5> SUFFICES ASSUME NEW i \in 1..Len(p.lines), p.lines[i].kind \in StopKind PROVE FALSE
          OBVIOUS
        <5>1. p.lines = <<>>
          BY <1>11, <1>13 DEF Running
        <5>2. Len(p.lines) = 0
          BY <5>1
        <5> QED
          BY <5>2
      <4> QED
        BY <3>7, <4>3, <4>4, <4>5, <4>6, <4>7, <4>8 DEF Coming
    <3> QED
      BY <1>7, <3>2, <3>4, <3>6, <3>7 DEF q
  <2>7. CASE r.result # "Handled"
    <3>1. /\ q.current = a.current /\ q.lines = a.lines /\ q.queue = a.queue /\ q.input = a.input
          /\ q.issued = a.issued /\ q.called = a.called /\ q.finished = a.finished
          /\ q.stopSet = a.stopSet /\ q.ready = a.ready /\ q.dead = a.dead
      BY <2>1, <2>7 DEF KeepsCurrent, SameQueue, SameStop
    <3>2. NameLast(q) /\ \A k : Pending(a, k) => Pending(q, k)
      BY <1>7, <3>1, SameWaits
    <3>3. ~q.dead /\ q.current.class # InfoAddressCmd /\ q.current.class \notin RunLike /\ Len(q.input) = 0
      BY <1>0, <1>2, <1>4, <1>13, <2>3, <2>7, <3>1
    <3>4. Promised(q, rest)
      <4>1. \A l \in rest : l.kind # "notrun"
        BY <1>4, <3>1, <3>3 DEF Promised, RunLike
      <4>2. q.current.class = MaintArchitectureCmd =>
              \/ \E i \in 1..Len(q.lines) : q.lines[i].kind = "answer"
              \/ \E l \in rest : l.kind = "answer"
        BY <1>4, <1>9, <1>13, <3>1 DEF Promised
      <4> QED
        BY <1>10, <3>1, <3>3, <4>1, <4>2 DEF Promised
    <3>5. ASSUME Coming(p, rest \union {line}) PROVE Coming(q, rest)
      <4>1. line.kind \notin Running
        BY <1>4, <1>11, <1>13, <3>1, <3>3
      <4> QED
        BY <1>4, <1>9, <3>1, <3>5, <4>1 DEF Coming
    <3> QED
      BY <1>4, <1>7, <3>1, <3>2, <3>3, <3>4, <3>5 DEF q
  <2> QED
    BY <2>6, <2>7
<1> QED
  BY <1>12, <1>13

(* A command that is done at the prompt keeps what waits; it is alone in   *)
(* the queue when its handler queues the delete.                           *)
LEMMA PromptWaits ==
  ASSUME NEW p \in Proc, p.current # Nothing, p.ready, p.input = <<>>, Order(p), NameLast(p),
         NEW r \in ReplyType, r.queues \in {SetCmd, DeleteBreakpointCmd},
         r.queues = DeleteBreakpointCmd => p.current.class = SetBreakpointNameCmd,
         p.current.class \in Replied \ AwaitsFinish => r.calls
  PROVE  LET q == FinishCurrent(Callback(p, r)) IN
         /\ q.dead = p.dead /\ q.queue = p.queue /\ NameLast(q)
         /\ \A k : k.class \in Replied /\ Pending(p, k) => Pending(q, k)
         /\ \A i \in 1..Len(q.input) : q.input[i].class # ContinueCmd
         /\ q.ready => q.input = <<>>
<1> DEFINE q == FinishCurrent(Callback(p, r))
<1>1. r.queues = SetCmd \/ (p.queue = <<>> /\ r.queues \notin NoHandler)
  BY DEF NameLast, NoHandler
<1>2. /\ q.dead = p.dead /\ q.queue = p.queue /\ p.issued <= q.issued
      /\ p.finished \subseteq q.finished
      /\ r.queues = SetCmd => p.current.id \in q.finished /\ q.input = p.input
      /\ r.queues # SetCmd => /\ ~q.ready
                              /\ \E c \in Command : c.class = r.queues /\ q.input = Append(p.input, c)
      /\ q.called = IF r.calls THEN p.called \union {p.current.id} ELSE p.called
  BY <1>1, PromptFinished
<1>3. q.current = Nothing
  BY FinishedFields
<1>i. q.issued \in Nat
  <2>1. Callback(p, r) \in Proc
    BY FinishedFields
  <2>2. q.issued = Callback(p, r).issued
    BY <2>1, FinishFields
  <2> QED
    BY <2>1, <2>2, ProcTypes
<1> HIDE DEF q
<1>4. p.issued \in Nat /\ p.current \in Command /\ p.current.id \in Nat /\ Len(p.queue) \in Nat
  BY ProcTypes
<1>5. ASSUME NEW k, k.class \in Replied, Pending(p, k) PROVE Pending(q, k)
  <2>1. CASE k.id \in IF k.class \in AwaitsFinish THEN p.finished ELSE p.called
    BY <1>2, <2>1 DEF Pending
  <2>2. CASE \E i \in 1..Len(p.queue) : p.queue[i].id = k.id /\ p.queue[i].class = k.class
    BY <1>2, <2>2 DEF Pending
  <2>3. CASE p.current.id = k.id /\ p.current.class = k.class
    <3>1. CASE k.class \in AwaitsFinish
      <4>1. r.queues = SetCmd
        BY <2>3, <3>1 DEF AwaitsFinish
      <4> QED
        BY <1>2, <2>3, <3>1, <4>1 DEF Pending
    <3>2. CASE k.class \notin AwaitsFinish
      <4>1. r.calls
        BY <1>5, <2>3, <3>2
      <4> QED
        BY <1>2, <2>3, <3>2, <4>1 DEF Pending
    <3> QED
      BY <3>1, <3>2
  <2> QED
    BY <1>5, <2>1, <2>2, <2>3 DEF Pending
<1>6. \A n \in q.called : n <= q.issued
  <2> SUFFICES ASSUME NEW n \in q.called PROVE n <= q.issued
    OBVIOUS
  <2>1. n \in p.called \/ n = p.current.id
    BY <1>2
  <2>2. n <= p.issued /\ n \in Nat
    BY <1>4, <2>1 DEF Order, CurrentOrder, NameLast, Proc
  <2> QED
    BY <1>2, <1>4, <1>i, <2>2
<1>7. \A i \in 1..Len(q.queue) : q.queue[i].class = SetBreakpointNameCmd =>
        Named(q, q.queue[i].id) /\ i = Len(q.queue)
  <2> SUFFICES ASSUME NEW i \in 1..Len(q.queue), q.queue[i].class = SetBreakpointNameCmd
               PROVE  Named(q, q.queue[i].id) /\ i = Len(q.queue)
    OBVIOUS
  <2>2. Named(p, p.queue[i].id) /\ i = Len(p.queue) /\ i \in 1..Len(p.queue)
    BY <1>2 DEF NameLast
  <2>3. p.current.id < p.queue[i].id /\ p.queue[i].id \in Nat
    BY <2>2, ProcTypes DEF Order, CurrentOrder
  <2>4. p.queue[i].id \notin q.called
    BY <1>2, <1>4, <2>2, <2>3 DEF Named
  <2> QED
    BY <1>2, <2>2, <2>4 DEF Named
<1>8. (\A i \in 1..Len(q.input) : q.input[i].class # ContinueCmd) /\ (q.ready => q.input = <<>>)
  <2>1. CASE r.queues = SetCmd
    <3>1. q.input = <<>> /\ Len(q.input) = 0
      BY <1>2, <2>1
    <3> QED
      BY <3>1
  <2>2. CASE r.queues = DeleteBreakpointCmd
    <3>1. PICK c \in Command : c.class = DeleteBreakpointCmd /\ q.input = Append(<<>>, c)
      BY <1>2, <2>2
    <3>2. q.input = <<c>> /\ Len(q.input) = 1 /\ q.input[1] = c
      BY <3>1
    <3> QED
      BY <1>2, <2>2, <3>1, <3>2
  <2> QED
    BY <2>1, <2>2
<1> QED
  BY <1>2, <1>3, <1>5, <1>6, <1>7, <1>8 DEF NameLast, q

(* The prompt keeps what waits, and sends the next command. *)
LEMMA AtPromptWaits ==
  ASSUME NEW p, Good(p), Order(p), Fresh(p), ~p.dead, p.input = <<>>, ~p.misplaced,
         Attributed(p, {}), CommandsAsked(p), LinesAsked(p, {}),
         p.current # Nothing => p.current.class \notin RunLike \union {InfoAddressCmd},
         Promised(p, {}), NameLast(p)
  PROVE  LET q == AtPrompt(p) IN
         /\ ~q.dead /\ ~(q.ready /\ q.queue # <<>>)
         /\ Promised(q, {}) /\ NameLast(q)
         /\ Coming(p, {}) => Coming(q, {})
         /\ \A k : k.class \in Replied /\ Pending(p, k) => Pending(q, k)
<1> DEFINE a == [p EXCEPT !.ready = TRUE]
           b == ReceivedNewLine(a)
<1>1. /\ a \in Proc /\ a.current = p.current /\ a.ready /\ a.input = <<>> /\ ~a.dead
      /\ a.lines = p.lines /\ a.queue = p.queue /\ a.stopSet = p.stopSet
      /\ a.issued = p.issued /\ a.called = p.called /\ a.finished = p.finished
      /\ a.callbacks = p.callbacks
  BY DEF Good, Proc
<1> HIDE DEF a
<1>2. Good(a) /\ Order(a)
  <2>1. Good(a)
    BY <1>1 DEF Good, CurrentHasHandler
  <2>2. Order(a)
    BY <1>1 DEF Order, QueueOrder, CallOrder, CurrentOrder
  <2> QED
    BY <2>1, <2>2
<1>3. Good(b)
  BY <1>2, ReceivedNewLineFrame
<1>4. AtPrompt(p) = IF b.dead THEN b ELSE ProcessQueue(b)
  BY DEF AtPrompt, a
<1>5. NameLast(a) /\ \A k : Pending(p, k) => Pending(a, k)
  BY <1>1, SameWaits
<1>6. /\ ~b.dead /\ b.current = Nothing /\ b.lines = <<>> /\ NameLast(b)
      /\ b.ready => b.input = <<>>
      /\ \A i \in 1..Len(b.input) : b.input[i].class # ContinueCmd
      /\ Coming(p, {}) => Coming(b, {})
      /\ \A k : k.class \in Replied /\ Pending(a, k) => Pending(b, k)
  <2>1. CASE a.current = Nothing
    <3>1. b = PermanentHandlers(a)
      BY <2>1 DEF ReceivedNewLine
    <3>2. LeavesQueue(a, b) /\ (Waits(a, b) \/ Dies(a, b) \/ Stops(a, b) \/ Discards(a, b))
      BY <1>1, <3>1, PermanentFields
    <3> HIDE DEF b
    <3>3. /\ b.current = Nothing /\ b.queue = a.queue /\ b.input = <<>> /\ Len(b.input) = 0
          /\ b.called = a.called /\ b.finished = a.finished /\ b.issued = a.issued
      BY <1>1, <2>1, <3>2 DEF LeavesQueue, SameCalls
    <3>4. \A i \in 1..Len(a.lines) : a.lines[i].kind \notin Strange
      BY <1>1 DEF Promised
    <3>5. /\ ~Waits(a, b) /\ ~Dies(a, b)
          /\ Discards(a, b) => \A i \in 1..Len(a.lines) : a.lines[i].kind \notin StopKind
      BY <1>1, <3>4 DEF Waits, Dies, Discards, Strange
    <3>6. /\ ~b.dead /\ b.lines = <<>>
          /\ \/ b.stopSet
             \/ b.stopSet = a.stopSet /\ \A i \in 1..Len(a.lines) : a.lines[i].kind \notin StopKind
      BY <1>1, <3>2, <3>5 DEF Stops, Discards, SameStop
    <3>7. NameLast(b) /\ \A k : Pending(a, k) => Pending(b, k)
      BY <1>5, <2>1, <3>3, SameWaits
    <3>8. Len(p.input) = 0
      OBVIOUS
    <3>9. Coming(p, {}) => Coming(b, {})
      BY <1>1, <3>3, <3>6, <3>8 DEF Coming
    <3> QED
      BY <3>3, <3>6, <3>7, <3>9
  <2>2. CASE a.current # Nothing
    <3> DEFINE r == HandleResponse(a.current, a.lines, ~a.ready)
    <3>1. a.current \in Command /\ a.current.class \notin NoHandler /\ a.lines \in Seq(Line)
      BY <1>1, <1>2, <2>2, ProcTypes DEF Good, CurrentHasHandler
    <3>2. /\ \A i \in 1..Len(a.lines) : a.lines[i].of = a.current
          /\ a.current.class \in Needs => \E i \in 1..Len(a.lines) : Decides(a.current, a.lines[i])
      BY <1>1, <2>2 DEF Attributed, OwnLines
    <3>3. (~a.ready) \in BOOLEAN /\ ~~a.ready
      BY <1>1
    <3>4. r.result = "Handled"
      BY <3>1, <3>2, <3>3, HandledAtPrompt
    <3>5. r \in ReplyType /\ b = FinishCurrent(Callback(a, r))
      BY <1>1, <1>2, <2>2, <3>4, CurrentHandlerFields DEF ReceivedNewLine, Good
    <3>6. r.queues \in {SetCmd, DeleteBreakpointCmd}
      <4>1. \A i \in 1..Len(a.lines) : a.lines[i].kind # "already"
        BY <1>1 DEF LinesAsked, LineAsked
      <4>2. a.current.class # ContinueCmd
        BY <1>1, <2>2 DEF RunLike
      <4> QED
        BY <3>1, <3>3, <4>1, <4>2, QueuedByHandler
    <3>7. r.queues = DeleteBreakpointCmd => a.current.class = SetBreakpointNameCmd
      BY <3>1, <3>3, DeleteQueuedBy
    <3>8. a.current.class \in Replied \ AwaitsFinish => r.calls
      <4> SUFFICES ASSUME a.current.class \in Replied \ AwaitsFinish PROVE r.calls
        OBVIOUS
      <4>1. a.current.class = MaintArchitectureCmd => Answered(a.current, a.lines)
        BY <1>1, <2>2, <3>2 DEF Promised, Answered
      <4>2. a.current.class # InfoAddressCmd
        BY <1>1, <2>2
      <4> QED
        BY <3>1, <3>3, <3>4, <4>1, <4>2, HandledCalls
    <3> HIDE DEF r, b
    <3>9. /\ b.dead = a.dead /\ b.queue = a.queue /\ NameLast(b)
          /\ \A k : k.class \in Replied /\ Pending(a, k) => Pending(b, k)
          /\ \A i \in 1..Len(b.input) : b.input[i].class # ContinueCmd
          /\ b.ready => b.input = <<>>
      BY <1>1, <1>2, <1>5, <2>2, <3>5, <3>6, <3>7, <3>8, PromptWaits
    <3>10. b.current = Nothing /\ b.stopSet = a.stopSet /\ (b.dead \/ b.lines = <<>>)
      BY <1>1, <2>2, <3>5, FinishedFields DEF SameStop
    <3>11. Len(p.input) = 0
      OBVIOUS
    <3>12. \A i \in 1..Len(p.lines) : p.lines[i].kind \notin StopKind
      BY <1>1, <2>2, <3>2 DEF LinesAsked, LineAsked, Running
    <3>13. Coming(p, {}) => Coming(b, {})
      BY <1>1, <3>9, <3>10, <3>11, <3>12 DEF Coming
    <3> QED
      BY <1>1, <3>9, <3>10, <3>13
  <2> QED
    BY <2>1, <2>2
<1> HIDE DEF b
<1> DEFINE q == ProcessQueue(b)
<1>7. b \in Proc /\ (b.ready => b.current = Nothing /\ b.input = <<>>)
  BY <1>3, <1>6 DEF Good
<1>8. /\ q.dead = b.dead /\ ~(q.ready /\ q.queue # <<>>)
      /\ \A k : k.class \in Replied /\ Pending(b, k) => Pending(q, k)
      /\ Coming(b, {}) => Coming(q, {})
      /\ NameLast(b) => NameLast(q)
      /\ \A i \in 1..Len(q.input) : q.input[i].class = ContinueCmd =>
           (i \in 1..Len(b.input) /\ q = b) \/ q.current = q.input[i]
  BY <1>7, ProcessQueueWaits
<1>9. q.lines = b.lines /\ (q.current = Nothing \/ q.input # <<>>)
  <2>1. CASE q = b
    BY <1>6, <2>1
  <2>2. CASE Sent(b, q)
    <3> HIDE DEF q
    <3>1. b.queue \in Seq(Command) /\ b.input \in Seq(Command) /\ b.queue # <<>>
      BY <1>7, <2>2, ProcTypes DEF Sent
    <3>2. Head(b.queue) \in Command
      BY <3>1, TailAt
    <3>3. Len(q.input) = Len(b.input) + 1 /\ Len(b.input) \in Nat
      BY <2>2, <3>1, <3>2, AppendAt DEF Sent
    <3>4. q.input # <<>>
      BY <3>3
    <3> QED
      BY <2>2, <3>4 DEF Sent
  <2> QED
    BY <1>7, <2>1, <2>2, ProcessQueueFields
<1>10. AtPrompt(p) = q
  BY <1>4, <1>6
<1> HIDE DEF q
<1>11. Promised(q, {})
  <2>1. Len(q.lines) = 0
    BY <1>6, <1>9
  <2>2. \A i \in 1..Len(q.input) : q.input[i].class = ContinueCmd => q.current = q.input[i]
    BY <1>6, <1>8
  <2> QED
    BY <1>9, <2>1, <2>2 DEF Promised
<1> QED
  BY <1>5, <1>6, <1>8, <1>10, <1>11

-----------------------------------------------------------------------------
(* What gdb prints when it does what the handlers expect. *)

Plain(s)   == \A i \in 1..Len(s) : s[i] \notin Strange /\ s[i] # "notrun"
HasStop(s) == \E i \in 1..Len(s) : s[i] \in StopKind

(* Lines around a stop keep it. *)
LEMMA PlainConcat ==
  ASSUME NEW s \in Seq(LineKind), NEW t \in Seq(LineKind), Plain(s), HasStop(s), Stopless(t)
  PROVE  Plain(s \o t) /\ HasStop(s \o t) /\ Plain(t \o s) /\ HasStop(t \o s)
<1>1. \A i \in 1..Len(t) : t[i] \notin Strange /\ t[i] # "notrun"
  BY DEF Stopless, Strange, Running, StopKind
<1>2. /\ Len(s) \in Nat /\ Len(t) \in Nat /\ Len(s \o t) = Len(s) + Len(t)
      /\ Len(t \o s) = Len(t) + Len(s)
      /\ \A k \in 1..Len(s) : (s \o t)[k] = s[k]
      /\ \A k \in 1..Len(s) : (t \o s)[Len(t) + k] = s[k]
  BY ConcatAt
<1>3. Plain(s \o t) /\ Plain(t \o s)
  <2>1. ASSUME NEW i \in 1..Len(s \o t) PROVE (s \o t)[i] \notin Strange /\ (s \o t)[i] # "notrun"
    BY <1>1, ConcatPlaces DEF Plain
  <2>2. ASSUME NEW i \in 1..Len(t \o s) PROVE (t \o s)[i] \notin Strange /\ (t \o s)[i] # "notrun"
    BY <1>1, ConcatPlaces DEF Plain
  <2> QED
    BY <2>1, <2>2 DEF Plain
<1>4. PICK k \in 1..Len(s) : s[k] \in StopKind
  BY DEF HasStop
<1>5. HasStop(s \o t)
  <2>1. k \in 1..Len(s \o t) /\ (s \o t)[k] \in StopKind
    BY <1>2, <1>4
  <2> QED
    BY <2>1 DEF HasStop
<1>6. HasStop(t \o s)
  <2>1. Len(t) + k \in 1..Len(t \o s) /\ (t \o s)[Len(t) + k] \in StopKind
    BY <1>2, <1>4
  <2> QED
    BY <2>1 DEF HasStop
<1> QED
  BY <1>3, <1>5, <1>6

(* Without a surprise every report of a stop is one the handlers know. *)
LEMMA StopReportPlain ==
  ASSUME Surprises = {}, NEW r \in StopReport
  PROVE  Plain(r) /\ HasStop(r)
<1>1. /\ \A a \in {"break", "symbol", "exit", "signal", "history"} : Plain(<<a>>) /\ HasStop(<<a>>)
      /\ \A a \in {"signal", "history"} : Plain(<<a, "addr">>) /\ HasStop(<<a, "addr">>)
  BY DEF Plain, HasStop, Strange, StopKind
<1>2. Plain(<<"signal", "noise", "addr">>) /\ HasStop(<<"signal", "noise", "addr">>)
  <2> DEFINE s == <<"signal", "noise", "addr">>
  <2>1. Len(s) = 3 /\ s[1] = "signal" /\ s[2] = "noise" /\ s[3] = "addr"
    OBVIOUS
  <2> HIDE DEF s
  <2>2. 1 \in 1..Len(s) /\ s[1] \in StopKind
    BY <2>1 DEF StopKind
  <2>3. Plain(s)
    BY <2>1 DEF Plain, Strange
  <2>4. HasStop(s)
    BY <2>2 DEF HasStop
  <2> QED
    BY <2>3, <2>4 DEF s
<1>3. r \in {<<"break">>, <<"symbol">>, <<"exit">>, <<"signal">>, <<"signal", "addr">>,
             <<"signal", "noise", "addr">>, <<"history">>, <<"history", "addr">>}
  BY Zenon DEF StopReport
<1>4. /\ Plain(<<"break">>) /\ HasStop(<<"break">>) /\ Plain(<<"symbol">>) /\ HasStop(<<"symbol">>)
      /\ Plain(<<"exit">>) /\ HasStop(<<"exit">>) /\ Plain(<<"signal">>) /\ HasStop(<<"signal">>)
      /\ Plain(<<"history">>) /\ HasStop(<<"history">>)
      /\ Plain(<<"signal", "addr">>) /\ HasStop(<<"signal", "addr">>)
      /\ Plain(<<"history", "addr">>) /\ HasStop(<<"history", "addr">>)
  BY <1>1
<1> QED
  BY <1>2, <1>3, <1>4, Zenon

(* What an expected response holds for the handler of its command. *)
LEMMA ExpectedPromises ==
  ASSUME Surprises = {}, NEW class \in Class, NEW r \in Expected(class)
  PROVE  /\ \A i \in 1..Len(r) : r[i] \notin Strange
         /\ \A i \in 1..Len(r) : r[i] = "notrun" =>
              class = ContinueCmd /\ \A j \in 1..Len(r) : r[j] = "notrun"
         /\ class \in RunLike => \E i \in 1..Len(r) : r[i] \in Running
         /\ class = MaintArchitectureCmd => \E i \in 1..Len(r) : r[i] = "answer"
         /\ class = InfoAddressCmd => 1 \in 1..Len(r) /\ r[1] = "answer"
<1> DEFINE Needy == (Search \ {ContinueCmd, RunCmd, SimpleCmd}) \union SearchOrMore \union CollectKnown
                      \union CollectSearch
<1>a. /\ Needy \intersect RunLike = {} /\ MaintArchitectureCmd \in Needy /\ InfoAddressCmd \notin Needy
      /\ InfoAddressCmd \in FirstLine \union SearchOnce
      /\ MaintArchitectureCmd \notin RunLike /\ InfoAddressCmd \notin RunLike
  BY DEF RunLike, Search, FirstLine, SearchOnce, SearchOrMore, CollectKnown, CollectSearch
<1>1. CASE class \in RunLike /\ class = ContinueCmd /\ ~alive
  <2>0. class \notin Needy
    BY <1>1, <1>a
  <2>1. r = <<"notrun">>
    BY <1>1, <2>0 DEF Expected
  <2>2. Len(r) = 1 /\ r[1] = "notrun"
    BY <2>1
  <2> QED
    BY <1>1, <1>a, <2>2 DEF Strange, Running
<1>2. CASE class \in RunLike /\ ~(class = ContinueCmd /\ ~alive)
  <2>0. class \notin Needy /\ class \in {ContinueCmd, RunCmd, SimpleCmd}
    BY <1>2, <1>a DEF RunLike
  <2>1. PICK t \in Around(StopReport) : r = <<"answer">> \o t
    BY <1>2, <2>0 DEF Expected
  <2>2. PICK pre \in Noise, m \in StopReport, post \in Noise : t = (pre \o m) \o post
    BY SMTT(30) DEF Around
  <2>3. m \in Seq(LineKind) /\ Plain(m) /\ HasStop(m)
    BY StopReportType, StopReportPlain
  <2>4. pre \o m \in Seq(LineKind) /\ Plain(pre \o m) /\ HasStop(pre \o m)
    BY <2>3, StoplessParts, PlainConcat, ConcatAt
  <2>5. t \in Seq(LineKind) /\ Plain(t) /\ HasStop(t)
    BY <2>2, <2>4, StoplessParts, PlainConcat, ConcatAt
  <2>6. Plain(r) /\ HasStop(r)
    BY <2>1, <2>5, StoplessParts, PlainConcat
  <2> QED
    BY <1>2, <1>a, <2>6 DEF Plain, HasStop, Running
<1>3. CASE class \notin RunLike
  <2>1. Stopless(r)
    BY <1>3, ExpectedRuns
  <2>2. \A i \in 1..Len(r) : r[i] \notin Strange /\ r[i] # "notrun"
    BY <2>1 DEF Stopless, Running, Strange, StopKind
  <2>3. class = MaintArchitectureCmd => \E i \in 1..Len(r) : r[i] = "answer"
    BY <1>a, AnswerAround DEF Expected
  <2>4. class = InfoAddressCmd => 1 \in 1..Len(r) /\ r[1] = "answer"
    <3> SUFFICES ASSUME class = InfoAddressCmd PROVE 1 \in 1..Len(r) /\ r[1] = "answer"
      OBVIOUS
    <3>1. class \notin {ContinueCmd, RunCmd, SimpleCmd} /\ class \notin Needy
          /\ class \in FirstLine \union SearchOnce
      BY <1>a
    <3>2. PICK t \in Noise : r = <<"answer">> \o t
      BY <3>1 DEF Expected
    <3> QED
      BY <3>2, NoiseType, AnswerFirst
  <2> QED
    BY <1>3, <2>2, <2>3, <2>4
<1> QED
  BY <1>1, <1>2, <1>3

-----------------------------------------------------------------------------
(* What ResolveSymbolToBreakpointAddress relies on: it is not used while   *)
(* another thread uses the connector.                                      *)
NamesAlone == \A c \in Callers : SetBreakpointNameCmd \in Uses[c] => Callers = {c}

Served(c) ==
  /\ caller[c].pc # "idle" => caller[c].class \notin {RunCmd, SimpleCmd}
  /\ caller[c].pc = "waiting" => caller[c].class \notin AwaitsNothing
  /\ caller[c].pc # "idle" /\ caller[c].class \in Replied => Pending(proc, caller[c])
  /\ caller[c].class = ContinueCmd => Coming(proc, Rest)

WaitInv ==
  /\ ~proc.dead
  /\ proc.ready /\ proc.queue # <<>> => \E d \in Callers : caller[d].pc = "queued"
  /\ \A c \in Callers : Served(c)
  /\ NameLast(proc) /\ Promised(proc, Rest) /\ FirstAnswers(proc, lastLine, output)

(* Nobody waits at first. *)
LEMMA WaitInit == Init => WaitInv
<1> SUFFICES ASSUME Init PROVE WaitInv
  OBVIOUS
<1>1. /\ proc.queue = <<>> /\ ~proc.ready /\ proc.current = Nothing /\ proc.lines = <<>>
      /\ proc.input = <<>> /\ proc.called = {} /\ ~proc.dead
      /\ caller = [c \in Callers |-> Idle] /\ lastLine = Nothing /\ output = <<Prompt>>
  BY DEF Init
<1>2. /\ Len(proc.queue) = 0 /\ Len(proc.lines) = 0 /\ Len(proc.input) = 0
      /\ Len(output) = 1 /\ output[1] = Prompt
  BY <1>1
<1>3. Rest = {}
  BY <1>1, <1>2, NothingIsNoLine DEF Rest, OutputLines
<1>4. Idle.pc = "idle" /\ Idle.class # ContinueCmd
  BY DEF Idle
<1>5. \A c \in Callers : Served(c)
  BY <1>1, <1>4 DEF Served
<1>6. NameLast(proc) /\ Promised(proc, Rest) /\ FirstAnswers(proc, lastLine, output)
  BY <1>1, <1>2, <1>3 DEF NameLast, Promised, FirstAnswers
<1> QED
  BY <1>1, <1>5, <1>6 DEF WaitInv

(* A step of the reader or of gdb serves those who wait as before. *)
LEMMA StillServed ==
  ASSUME UNCHANGED caller, \A c \in Callers : Served(c), Coming(proc, Rest) => Coming(proc', Rest'),
         \A k : k.class \in Replied /\ Pending(proc, k) => Pending(proc', k), NameLast(proc')
  PROVE  (\A c \in Callers : Served(c)') /\ NameLast(proc)'
<1>1. Coming(proc', Rest') <=> Coming(proc, Rest)'
  BY DEF Coming
<1>2. \A c \in Callers : Pending(proc', caller[c]) <=> Pending(proc, caller[c])'
  BY DEF Pending
<1>3. ASSUME NEW c \in Callers PROVE Served(c)'
  BY <1>1, <1>2 DEF Served
<1>4. NameLast(proc)'
  BY DEF NameLast, Named
<1> QED
  BY <1>3, <1>4

(* A line that is read serves those who wait. *)
LEMMA ReadLineWaits ==
  ASSUME QueueInv, AnswerInv, StopInv, WaitInv, ReadLine
  PROVE  WaitInv'
<1>1. Rest' = OutputLines
  BY ReadLineRest
<1>2. /\ Good(proc) /\ ~proc.dead /\ ~proc.ready /\ proc.input = <<>> /\ Order(proc) /\ TypeOK
      /\ Attributed(proc, Rest) /\ CommandsAsked(proc) /\ LinesAsked(proc, Rest)
      /\ AtMostOne(lastLine, output) /\ FirstDecides(proc, lastLine, output)
  BY DEF QueueInv, TypeOK, Good, OneOutstanding, AnswerInv, StopInv, ReadLine
<1>3. /\ \A c \in Callers : Served(c)
      /\ NameLast(proc) /\ Promised(proc, Rest) /\ FirstAnswers(proc, lastLine, output)
  BY DEF WaitInv
<1>4. output # <<>> /\ output \in Seq(Line \union {Prompt}) /\ Head(output) # Prompt
  BY DEF QueueInv, TypeOK, ReadLine
<1>5. lastLine' = output[1] /\ lastLine' \in Line /\ UNCHANGED caller
  <2>1. Len(output) \in Nat /\ Len(output) >= 1 /\ Head(output) = output[1]
    BY <1>4, TailAt
  <2>2. 1 \in 1..Len(output) /\ output[1] # Prompt
    BY <1>4, <2>1
  <2> QED
    BY <1>4, <2>1, <2>2, SeqAt DEF ReadLine
<1>6. CASE lastLine = Nothing
  <2>1. Rest' = Rest /\ proc' = proc
    BY <1>1, <1>6, NothingIsNoLine DEF Rest, ReadLine
  <2>2. FirstAnswers(proc', lastLine', output')
    BY <1>3, <1>5, <1>6, <2>1, NothingIsNoLine DEF FirstAnswers
  <2>3. Promised(proc', Rest')
    BY <1>3, <2>1
  <2>4. (\A c \in Callers : Served(c)') /\ NameLast(proc)'
    BY <1>3, <1>5, <2>1, StillServed
  <2> QED
    BY <1>2, <2>1, <2>2, <2>3, <2>4 DEF WaitInv
<1>7. CASE lastLine # Nothing
  <2>1. lastLine \in Line /\ proc' = Deliver(proc, lastLine)
    BY <1>7 DEF QueueInv, TypeOK, ReadLine
  <2>2. Rest = OutputLines \union {lastLine}
    BY <2>1 DEF Rest
  <2>3. lastLine.kind \in Running => \A l \in OutputLines : l.kind \notin Running
    BY <1>2 DEF AtMostOne, OutputLines
  <2>4. /\ proc.current # Nothing /\ proc.current.class \in RunLike =>
             proc.lines = <<>> /\ Decides(proc.current, lastLine)
        /\ proc.current # Nothing /\ proc.current.class = InfoAddressCmd =>
             proc.lines = <<>> /\ lastLine.kind = "answer"
    BY <1>2, <1>3, <1>7 DEF FirstDecides, FirstAnswers
  <2>5. /\ ~proc'.dead /\ ~proc'.ready /\ Promised(proc', OutputLines) /\ NameLast(proc')
        /\ proc'.current # Nothing => proc'.current.class # InfoAddressCmd
        /\ Coming(proc, Rest) => Coming(proc', OutputLines)
        /\ \A k : k.class \in Replied /\ Pending(proc, k) => Pending(proc', k)
    BY <1>2, <1>3, <2>1, <2>2, <2>3, <2>4, DeliverWaits
  <2>6. (\A c \in Callers : Served(c)') /\ NameLast(proc)'
    BY <1>1, <1>3, <1>5, <2>5, StillServed
  <2>7. FirstAnswers(proc', lastLine', output')
    BY <2>5 DEF FirstAnswers
  <2> QED
    BY <1>1, <2>5, <2>6, <2>7 DEF WaitInv
<1> QED
  BY <1>6, <1>7

(* So does the line before the prompt. *)
LEMMA ReadPromptStartWaits ==
  ASSUME QueueInv, AnswerInv, StopInv, WaitInv, ReadPromptStart
  PROVE  WaitInv'
<1>1. /\ Good(proc) /\ ~proc.dead /\ ~proc.ready /\ proc.input = <<>> /\ Order(proc) /\ TypeOK
      /\ Attributed(proc, Rest) /\ CommandsAsked(proc) /\ LinesAsked(proc, Rest)
      /\ AtMostOne(lastLine, output) /\ FirstDecides(proc, lastLine, output)
  BY DEF QueueInv, TypeOK, Good, OneOutstanding, AnswerInv, StopInv, ReadPromptStart
<1>2. /\ lastLine \in Line /\ proc' = Deliver(proc, lastLine) /\ lastLine' = Nothing
      /\ output' = output /\ lastLine # Nothing /\ UNCHANGED caller
  BY DEF QueueInv, TypeOK, ReadPromptStart
<1>3. /\ \A c \in Callers : Served(c)
      /\ NameLast(proc) /\ Promised(proc, Rest) /\ FirstAnswers(proc, lastLine, output)
  BY DEF WaitInv
<1>4. Rest = OutputLines \union {lastLine}
  BY <1>2 DEF Rest
<1>5. Rest' = OutputLines
  BY <1>2, NothingIsNoLine DEF Rest, OutputLines
<1>6. lastLine.kind \in Running => \A l \in OutputLines : l.kind \notin Running
  BY <1>1 DEF AtMostOne, OutputLines
<1>7. /\ proc.current # Nothing /\ proc.current.class \in RunLike =>
           proc.lines = <<>> /\ Decides(proc.current, lastLine)
      /\ proc.current # Nothing /\ proc.current.class = InfoAddressCmd =>
           proc.lines = <<>> /\ lastLine.kind = "answer"
  BY <1>1, <1>2, <1>3 DEF FirstDecides, FirstAnswers
<1>8. /\ ~proc'.dead /\ ~proc'.ready /\ Promised(proc', OutputLines) /\ NameLast(proc')
      /\ proc'.current # Nothing => proc'.current.class # InfoAddressCmd
      /\ Coming(proc, Rest) => Coming(proc', OutputLines)
      /\ \A k : k.class \in Replied /\ Pending(proc, k) => Pending(proc', k)
  BY <1>1, <1>2, <1>3, <1>4, <1>6, <1>7, DeliverWaits
<1>9. (\A c \in Callers : Served(c)') /\ NameLast(proc)'
  BY <1>2, <1>3, <1>5, <1>8, StillServed
<1>10. FirstAnswers(proc', lastLine', output')
  BY <1>8 DEF FirstAnswers
<1> QED
  BY <1>5, <1>8, <1>9, <1>10 DEF WaitInv

(* The prompt ends the current command and leaves nobody behind. *)
LEMMA ReadPromptWaits ==
  ASSUME QueueInv, QueueInv', AnswerInv, AnswerInv', StopInv, WaitInv, ReadPrompt
  PROVE  WaitInv'
<1>1. /\ Good(proc) /\ ~proc.dead /\ ~proc.ready /\ proc.input = <<>> /\ ~proc.misplaced
      /\ Order(proc) /\ Fresh(proc) /\ Attributed(proc, Rest)
      /\ output # <<>> /\ output \in Seq(Line \union {Prompt})
      /\ \A i \in 1..Len(output) : output[i] = Prompt <=> i = Len(output)
  BY DEF QueueInv, TypeOK, Good, OneOutstanding, AnswerInv, ReadPrompt
<1>2. /\ CommandsAsked(proc) /\ LinesAsked(proc, Rest) /\ FirstDecides(proc, lastLine, output)
      /\ \A c \in Callers : Served(c)
      /\ NameLast(proc) /\ Promised(proc, Rest) /\ FirstAnswers(proc, lastLine, output)
  BY <1>1 DEF StopInv, WaitInv
<1>3. proc' = AtPrompt(proc) /\ lastLine = Nothing /\ lastLine' = Nothing /\ output' = Tail(output)
      /\ UNCHANGED caller
  BY DEF ReadPrompt
<1>4. Len(output) = 1 /\ output[1] = Prompt
  <2>1. Len(output) \in Nat /\ Len(output) >= 1 /\ Head(output) = output[1]
    BY <1>1, TailAt
  <2>2. output[1] = Prompt /\ 1 \in 1..Len(output)
    BY <2>1 DEF ReadPrompt
  <2> QED
    BY <1>1, <2>2
<1>5. Rest = {}
  BY <1>3, <1>4, NothingIsNoLine DEF Rest, OutputLines
<1>6. Len(output') = 0
  BY <1>1, <1>3, <1>4, TailAt
<1>7. Rest' = {}
  BY <1>3, <1>6, NothingIsNoLine DEF Rest, OutputLines
<1>8. proc.current # Nothing => proc.current.class \notin RunLike \union {InfoAddressCmd}
  BY <1>1, <1>2, <1>3, <1>4 DEF FirstDecides, FirstAnswers
<1>9. /\ ~proc'.dead /\ ~(proc'.ready /\ proc'.queue # <<>>)
      /\ Promised(proc', {}) /\ NameLast(proc')
      /\ Coming(proc, {}) => Coming(proc', {})
      /\ \A k : k.class \in Replied /\ Pending(proc, k) => Pending(proc', k)
  BY <1>1, <1>2, <1>3, <1>5, <1>8, AtPromptWaits
<1>10. (\A c \in Callers : Served(c)') /\ NameLast(proc)'
  BY <1>2, <1>3, <1>5, <1>7, <1>9, StillServed
<1>11. FirstAnswers(proc', lastLine', output')
  <2> SUFFICES ASSUME proc'.input = <<>> PROVE proc'.current = Nothing
    BY DEF FirstAnswers
  <2>1. proc'.ready
    BY <1>1, <1>3, <1>6, <1>9 DEF QueueInv, OneOutstanding
  <2> QED
    BY <1>9, <2>1 DEF AnswerInv, Attributed
<1> QED
  BY <1>7, <1>9, <1>10, <1>11 DEF WaitInv

(* gdb prints what the handler of the command looks for. *)
LEMMA GdbAnswersWaits ==
  ASSUME Surprises = {}, QueueInv, AnswerInv, WaitInv, GdbAnswers
  PROVE  WaitInv'
<1>1. proc \in Proc /\ proc' = [proc EXCEPT !.input = Tail(proc.input)] /\ caller' = caller
  BY DEF QueueInv, TypeOK, GdbAnswers
<1>2. /\ proc'.current = proc.current /\ proc'.lines = proc.lines /\ proc'.queue = proc.queue
      /\ proc'.dead = proc.dead /\ proc'.stopSet = proc.stopSet /\ proc'.ready = proc.ready
      /\ proc'.called = proc.called /\ proc'.finished = proc.finished /\ proc'.issued = proc.issued
  BY <1>1 DEF Proc
<1>3. /\ ~proc.dead /\ NameLast(proc) /\ Promised(proc, Rest) /\ \A c \in Callers : Served(c)
  BY DEF WaitInv
<1>4. PICK c \in Command : \E r \in Expected(c.class) : Prints(c, r)
  BY <1>3, GdbPrints
<1>5. PICK r \in Expected(c.class) : Prints(c, r)
  BY <1>4
<1>6. /\ Len(proc.input) = 1 /\ c = proc.input[1] /\ proc'.input = <<>>
      /\ ~proc.ready /\ proc.lines = <<>> /\ (proc.current = Nothing \/ proc.current = c)
      /\ lastLine' = Nothing /\ Len(r) \in Nat /\ Len(output') = Len(r) + 1
      /\ output'[Len(r) + 1] = Prompt
      /\ \A i \in 1..Len(r) : output'[i] \in Line /\ output'[i].of = c /\ output'[i].kind = r[i]
  BY <1>5 DEF Prints
<1>7. c.class \in Class /\ c # Nothing
  BY DEF Command, Nothing
<1>8. /\ \A i \in 1..Len(r) : r[i] \notin Strange
      /\ \A i \in 1..Len(r) : r[i] = "notrun" =>
           c.class = ContinueCmd /\ \A j \in 1..Len(r) : r[j] = "notrun"
      /\ c.class \in RunLike => \E i \in 1..Len(r) : r[i] \in Running
      /\ c.class = MaintArchitectureCmd => \E i \in 1..Len(r) : r[i] = "answer"
      /\ c.class = InfoAddressCmd => 1 \in 1..Len(r) /\ r[1] = "answer"
  BY <1>5, <1>7, ExpectedPromises
<1>9. \A l \in Rest' : \E i \in 1..Len(r) : l.kind = r[i]
  <2> SUFFICES ASSUME NEW l \in Rest' PROVE \E i \in 1..Len(r) : l.kind = r[i]
    OBVIOUS
  <2>1. PICK i \in 1..Len(output') : output'[i] = l /\ l \in Line
    BY <1>6, NothingIsNoLine DEF Rest, OutputLines
  <2>2. i \in 1..Len(r)
    BY <1>6, <2>1, NothingIsNoLine
  <2> QED
    BY <1>6, <2>1, <2>2
<1>10. \A i \in 1..Len(r) : \E l \in Rest' : l.kind = r[i]
  <2> TAKE i \in 1..Len(r)
  <2>1. i \in 1..Len(output') /\ output'[i] \in Line /\ output'[i].kind = r[i]
    BY <1>6
  <2>2. output'[i] \in Rest'
    BY <2>1 DEF Rest, OutputLines
  <2> QED
    BY <2>1, <2>2
<1>11. Rest = {}
  <2>1. output = <<>> /\ lastLine = Nothing
    BY <1>3, <1>6 DEF QueueInv, OneOutstanding
  <2>2. Len(output) = 0
    BY <2>1
  <2> QED
    BY <2>1, <2>2, NothingIsNoLine DEF Rest, OutputLines
<1>12. Len(proc'.input) = 0 /\ Len(proc'.lines) = 0
  BY <1>2, <1>6
<1>13. Coming(proc, Rest) => Coming(proc', Rest')
  <2>1. ASSUME NEW i \in 1..Len(proc.input), proc.input[i].class \in RunLike
        PROVE  Coming(proc', Rest')
    <3>1. c.class \in RunLike
      BY <1>6, <2>1
    <3> QED
      BY <1>8, <1>10, <3>1 DEF Coming
  <2> QED
    BY <1>2, <1>11, <2>1 DEF Coming
<1>14. NameLast(proc') /\ \A k : Pending(proc, k) => Pending(proc', k)
  BY <1>2, <1>3, SameWaits
<1>15. (\A d \in Callers : Served(d)') /\ NameLast(proc)'
  BY <1>1, <1>3, <1>13, <1>14, StillServed
<1>16. Promised(proc', Rest')
  <2>1. \A l \in Rest' : l.kind = "notrun" =>
          /\ proc'.current # Nothing /\ proc'.current.class = ContinueCmd
          /\ \A m \in Rest' : m.kind = "notrun"
    <3> SUFFICES ASSUME NEW l \in Rest', l.kind = "notrun"
                 PROVE  /\ proc'.current # Nothing /\ proc'.current.class = ContinueCmd
                        /\ \A m \in Rest' : m.kind = "notrun"
      OBVIOUS
    <3>1. c.class = ContinueCmd /\ \A j \in 1..Len(r) : r[j] = "notrun"
      BY <1>8, <1>9
    <3>2. proc.current = c
      <4>1. 1 \in 1..Len(proc.input)
        BY <1>6
      <4> QED
        BY <1>3, <1>6, <3>1, <4>1 DEF Promised
    <3> QED
      BY <1>2, <1>7, <1>9, <3>1, <3>2
  <2>2. proc'.current # Nothing /\ proc'.current.class = MaintArchitectureCmd =>
          \E l \in Rest' : l.kind = "answer"
    BY <1>2, <1>6, <1>8, <1>10
  <2>3. \A l \in Rest' : l.kind \notin Strange
    BY <1>8, <1>9
  <2> QED
    BY <1>12, <2>1, <2>2, <2>3 DEF Promised
<1>17. FirstAnswers(proc', lastLine', output')
  <2> SUFFICES ASSUME proc'.current # Nothing, proc'.current.class = InfoAddressCmd
               PROVE  /\ proc'.lines = <<>> /\ output' # <<>> /\ output'[1] # Prompt
                      /\ output'[1].kind = "answer"
    BY <1>6 DEF FirstAnswers
  <2>1. c.class = InfoAddressCmd
    BY <1>2, <1>6
  <2>2. output'[1] \in Line /\ output'[1].kind = "answer"
    BY <1>6, <1>8, <2>1
  <2>3. output' # <<>>
    BY <1>6
  <2> QED
    BY <1>2, <1>6, <2>2, <2>3, NothingIsNoLine
<1> QED
  BY <1>2, <1>3, <1>6, <1>15, <1>16, <1>17 DEF WaitInv

(* No breakpoint is being resolved unless every caller does. *)
LEMMA NothingNamed ==
  ASSUME NEW p, NEW c \in Callers,
         \/ caller[c].pc = "idle" \/ caller[c].class # SetBreakpointNameCmd
         \/ caller[c].id \in p.called
  PROVE  \A n : ~Named(p, n)
BY DEF Named

(* A call that queues a command. *)
LEMMA QueuesWaits ==
  ASSUME NEW c \in Callers, NEW class \in Class \ {RunCmd, SimpleCmd}, NEW p \in Proc,
         QueueInv, WaitInv, proc' = Enqueue(p, class, c), LeavesQueue(proc, p),
         p.lines = proc.lines, p.dead = proc.dead,
         p.stopSet = proc.stopSet \/ class = ContinueCmd, UNCHANGED <<lastLine, output>>,
         caller' = [caller EXCEPT ![c] = [pc |-> "queued", class |-> class, id |-> proc.issued + 1]],
         caller[c].pc = "idle" \/ caller[c].class # SetBreakpointNameCmd,
         class = SetBreakpointNameCmd => Callers = {c}
  PROVE  WaitInv'
<1>1. /\ p.queue = proc.queue /\ p.current = proc.current /\ p.input = proc.input
      /\ p.issued = proc.issued /\ p.ready = proc.ready
      /\ p.called = proc.called /\ p.finished = proc.finished
      /\ Len(proc.queue) \in Nat /\ proc.issued \in Nat /\ proc.queue \in Seq(Command)
  BY ProcTypes DEF LeavesQueue, SameCalls
<1>2. /\ proc'.current = proc.current /\ proc'.lines = proc.lines /\ proc'.input = proc.input
      /\ proc'.dead = proc.dead /\ proc'.stopSet = p.stopSet /\ proc'.ready = proc.ready
      /\ proc'.called = proc.called /\ proc'.finished = proc.finished
      /\ proc'.issued = proc.issued + 1
  <2> DEFINE q == Enqueue(p, class, c)
  <2>1. /\ q.current = p.current /\ q.lines = p.lines /\ q.input = p.input /\ q.dead = p.dead
        /\ q.ready = p.ready /\ q.finished = p.finished /\ q.issued = p.issued + 1
        /\ SameCalls(p, q) /\ SameStop(p, q)
    BY EnqueueFields
  <2>2. q = proc'
    OBVIOUS
  <2> HIDE DEF q
  <2> QED
    BY <1>1, <2>1, <2>2 DEF SameStop, SameCalls
<1> DEFINE k == [id |-> proc.issued + 1, class |-> class, by |-> c]
<1>3. proc'.queue = Append(proc.queue, k) /\ k \in Command
  BY <1>1, EnqueueFields
<1>4. k.id = proc.issued + 1 /\ k.class = class
  OBVIOUS
<1> HIDE DEF k
<1>5. /\ Len(proc'.queue) = Len(proc.queue) + 1 /\ proc'.queue[Len(proc.queue) + 1] = k
      /\ \A i \in 1..Len(proc.queue) : proc'.queue[i] = proc.queue[i]
  BY <1>1, <1>3, AppendAt
<1>6. /\ \A i \in 1..Len(proc.queue) : i \in 1..Len(proc'.queue) /\ proc'.queue[i] = proc.queue[i]
      /\ Len(proc.queue) + 1 \in 1..Len(proc'.queue)
      /\ \A i \in 1..Len(proc'.queue) : i \in 1..Len(proc.queue) \/ i = Len(proc.queue) + 1
  BY <1>1, <1>5
<1>7. caller \in [Callers -> [pc: {"idle", "queued", "waiting"}, class: Class, id: Nat]]
  BY DEF QueueInv, TypeOK
<1>8. /\ caller'[c].pc = "queued" /\ caller'[c].class = class /\ caller'[c].id = proc.issued + 1
      /\ \A d \in Callers : d # c => caller'[d] = caller[d]
  BY <1>7
<1>9. Rest' = Rest
  BY DEF Rest, OutputLines
<1>10. Coming(proc, Rest) \/ class = ContinueCmd => Coming(proc, Rest)'
  <2>1. CASE class = ContinueCmd
    <3>1. proc'.queue[Len(proc.queue) + 1].class \in RunLike
      BY <1>4, <1>5, <2>1 DEF RunLike
    <3> QED
      BY <1>6, <3>1 DEF Coming
  <2>2. CASE class # ContinueCmd
    BY <1>2, <1>6, <1>9, <2>2 DEF Coming
  <2> QED
    BY <2>1, <2>2
<1>11. \A d \in Callers : Pending(proc, caller[d]) => Pending(proc', caller[d])
  BY <1>2, <1>6 DEF Pending
<1>12. ASSUME NEW d \in Callers PROVE Served(d)'
  <2>0. Served(d)
    BY DEF WaitInv
  <2>1. CASE d = c
    <3>1. Pending(proc', caller'[c])
      BY <1>4, <1>5, <1>6, <1>8 DEF Pending
    <3>2. Pending(proc, caller[c])'
      BY <3>1 DEF Pending
    <3> QED
      BY <1>8, <1>10, <2>1, <3>2 DEF Served
  <2>2. CASE d # c
    <3>1. Pending(proc, caller[d]) => Pending(proc, caller[d])'
      BY <1>8, <1>11, <2>2 DEF Pending
    <3> QED
      BY <1>8, <1>10, <2>0, <2>2, <3>1 DEF Served
  <2> QED
    BY <2>1, <2>2
<1>13. \A n : ~Named(proc, n)
  BY NothingNamed
<1>14. NameLast(proc)'
  <2>0. /\ \A n \in proc.called : n <= proc.issued
        /\ \A i \in 1..Len(proc.queue) : proc.queue[i].class # SetBreakpointNameCmd
        /\ proc.current # Nothing => proc.current.class # SetBreakpointNameCmd
        /\ proc.called \subseteq Nat
    BY <1>13 DEF WaitInv, NameLast, QueueInv, TypeOK, Proc
  <2>1. \A n \in proc'.called : n <= proc'.issued
    BY <1>1, <1>2, <2>0
  <2>2. ASSUME NEW i \in 1..Len(proc'.queue), proc'.queue[i].class = SetBreakpointNameCmd
        PROVE  Named(proc, proc.queue[i].id)' /\ i = Len(proc'.queue)
    <3>1. i = Len(proc'.queue) /\ class = SetBreakpointNameCmd /\ proc'.queue[i].id = proc.issued + 1
      BY <1>4, <1>5, <1>6, <2>0, <2>2
    <3>2. proc.issued + 1 \notin proc'.called
      BY <1>1, <1>2, <2>0
    <3> QED
      BY <1>8, <3>1, <3>2 DEF Named
  <2> QED
    BY <1>2, <2>0, <2>1, <2>2 DEF NameLast
<1>15. Promised(proc', Rest') /\ FirstAnswers(proc', lastLine', output')
  BY <1>2, <1>9 DEF WaitInv, Promised, FirstAnswers
<1> QED
  BY <1>2, <1>8, <1>12, <1>14, <1>15 DEF WaitInv

(* The second half of QueueCommand. *)
LEMMA ProcessWaits ==
  ASSUME NEW c \in Callers, QueueInv, AnswerInv, WaitInv, Process(c)
  PROVE  WaitInv'
<1>1. /\ proc \in Proc /\ ~proc.dead /\ NameLast(proc) /\ Promised(proc, Rest)
      /\ FirstAnswers(proc, lastLine, output) /\ \A d \in Callers : Served(d)
      /\ caller \in [Callers -> [pc: {"idle", "queued", "waiting"}, class: Class, id: Nat]]
  BY DEF QueueInv, TypeOK, WaitInv
<1>2. /\ proc' = ProcessQueue(proc) /\ UNCHANGED <<lastLine, output>> /\ caller[c].pc = "queued"
      /\ caller' = IF caller[c].class \in AwaitsNothing THEN [caller EXCEPT ![c] = Idle]
                   ELSE [caller EXCEPT ![c].pc = "waiting"]
  BY DEF Process
<1>3. proc.ready => /\ proc.current = Nothing /\ proc.input = <<>>
                    /\ output = <<>> /\ lastLine = Nothing
  BY <1>1 DEF AnswerInv, Attributed, QueueInv, OneOutstanding
<1>4. /\ proc'.dead = proc.dead /\ ~(proc'.ready /\ proc'.queue # <<>>)
      /\ \A k : k.class \in Replied /\ Pending(proc, k) => Pending(proc', k)
      /\ Coming(proc, Rest) => Coming(proc', Rest)
      /\ NameLast(proc')
      /\ \A i \in 1..Len(proc'.input) : proc'.input[i].class = ContinueCmd =>
           (i \in 1..Len(proc.input) /\ proc' = proc) \/ proc'.current = proc'.input[i]
  BY <1>1, <1>2, <1>3, ProcessQueueWaits
<1>5. Rest' = Rest
  BY <1>2 DEF Rest, OutputLines
<1>6. Idle.pc = "idle" /\ Idle.class # ContinueCmd
  BY DEF Idle
<1>7. /\ \A d \in Callers : d # c => caller'[d] = caller[d]
      /\ IF caller[c].class \in AwaitsNothing THEN caller'[c] = Idle
         ELSE /\ caller'[c].pc = "waiting" /\ caller'[c].class = caller[c].class
              /\ caller'[c].id = caller[c].id
  BY <1>1, <1>2
<1>8. \A d \in Callers :
        \/ caller'[d] = Idle
        \/ /\ caller'[d].class = caller[d].class /\ caller'[d].id = caller[d].id
           /\ caller[d].pc # "idle" <=> caller'[d].pc # "idle"
           /\ caller'[d].pc = "waiting" =>
                caller[d].pc = "waiting" \/ caller[d].class \notin AwaitsNothing
  BY <1>2, <1>7
<1>9. Coming(proc, Rest) => Coming(proc, Rest)'
  BY <1>4, <1>5 DEF Coming
<1>10. ASSUME NEW d \in Callers PROVE Served(d)'
  <2>1. Served(d)
    BY <1>1
  <2>2. CASE caller'[d] = Idle
    BY <1>6, <2>2 DEF Served
  <2>3. CASE /\ caller'[d].class = caller[d].class /\ caller'[d].id = caller[d].id
             /\ caller[d].pc # "idle" <=> caller'[d].pc # "idle"
             /\ caller'[d].pc = "waiting" =>
                  caller[d].pc = "waiting" \/ caller[d].class \notin AwaitsNothing
    <3>1. caller[d].class \in Replied /\ Pending(proc, caller[d]) => Pending(proc', caller[d])
      BY <1>4
    <3>2. Pending(proc', caller[d]) => Pending(proc, caller[d])'
      BY <2>3 DEF Pending
    <3> QED
      BY <1>9, <2>1, <2>3, <3>1, <3>2 DEF Served
  <2> QED
    BY <1>8, <2>2, <2>3
<1>11. NameLast(proc)'
  <2>1. \A n : Named(proc', n) => Named(proc, n)'
    <3> SUFFICES ASSUME NEW n, Named(proc', n) PROVE Named(proc, n)'
      OBVIOUS
    <3>1. Callers = {c} /\ caller[c].class = SetBreakpointNameCmd /\ caller[c].id = n
      BY DEF Named
    <3>2. caller'[c].pc # "idle" /\ caller'[c].class = SetBreakpointNameCmd /\ caller'[c].id = n
      BY <1>7, <3>1 DEF AwaitsNothing
    <3> QED
      BY <3>1, <3>2 DEF Named
  <2> QED
    BY <1>4, <2>1 DEF NameLast
<1>12. Promised(proc', Rest') /\ FirstAnswers(proc', lastLine', output')
  <2>1. CASE proc' = proc
    BY <1>1, <1>2, <1>5, <2>1
  <2>2. CASE Sent(proc, proc')
    <3>1. proc.ready /\ proc'.lines = proc.lines
      BY <2>2 DEF Sent
    <3>2. Len(proc.input) = 0 /\ Len(output) = 0 /\ lastLine = Nothing
      BY <1>3, <3>1
    <3>3. Rest = {}
      BY <3>2, NothingIsNoLine DEF Rest, OutputLines
    <3>4. Head(proc.queue) \in Command
      BY <1>1, <2>2, ProcTypes, TailAt DEF Sent
    <3>5. proc'.input # <<>>
      <4> DEFINE h == Head(proc.queue)
      <4> HIDE DEF h
      <4>1. proc.input \in Seq(Command) /\ h \in Command
        BY <1>1, <3>4, ProcTypes DEF h
      <4>2. Append(proc.input, h) # <<>>
        BY <4>1, AppendProperties
      <4> QED
        BY <2>2, <4>2 DEF Sent, h
    <3>6. \A i \in 1..Len(proc'.input) : proc'.input[i].class = ContinueCmd => proc'.current = proc'.input[i]
      BY <1>4, <3>2
    <3>7. Promised(proc', Rest')
      BY <1>1, <1>5, <3>1, <3>3, <3>5, <3>6 DEF Promised
    <3> QED
      BY <3>5, <3>7 DEF FirstAnswers
  <2> QED
    BY <1>1, <1>2, <2>1, <2>2, ProcessQueueFields
<1> QED
  BY <1>1, <1>4, <1>10, <1>11, <1>12 DEF WaitInv

(* A caller's step. *)
LEMMA CallerWaits ==
  ASSUME NamesAlone, NEW c \in Callers, QueueInv, AnswerInv, WaitInv, Caller(c)
  PROVE  WaitInv'
<1>1. /\ proc \in Proc
      /\ caller \in [Callers -> [pc: {"idle", "queued", "waiting"}, class: Class, id: Nat]]
  BY DEF QueueInv, TypeOK
<1>2. ASSUME NEW class \in Class, Issue(c, class) PROVE WaitInv'
  <2> DEFINE p == [proc EXCEPT !.stopSet = proc.stopSet /\ class \notin AwaitsStop]
  <2>1. proc' = Enqueue(p, class, c)
    BY <1>2 DEF Issue
  <2>2. /\ p \in Proc /\ LeavesQueue(proc, p) /\ p.lines = proc.lines /\ p.dead = proc.dead
        /\ p.stopSet = proc.stopSet \/ class = ContinueCmd
    BY <1>1 DEF Proc, LeavesQueue, SameCalls, AwaitsStop
  <2> HIDE DEF p
  <2>3. class \in Uses[c] /\ class \in Class \ {RunCmd, SimpleCmd}
    BY <1>2, CallersAssumption DEF Issue
  <2>4. /\ caller[c].pc = "idle" /\ UNCHANGED <<lastLine, output>>
        /\ caller' = [caller EXCEPT ![c] = [pc |-> "queued", class |-> class, id |-> proc.issued + 1]]
    BY <1>2 DEF Issue
  <2>5. class = SetBreakpointNameCmd => Callers = {c}
    BY <2>3 DEF NamesAlone
  <2> QED
    BY <2>1, <2>2, <2>3, <2>4, <2>5, QueuesWaits
<1>3. CASE AskForPc(c)
  <2>1. /\ proc' = Enqueue(proc, PrintCmd, c) /\ PrintCmd \in Class \ {RunCmd, SimpleCmd}
        /\ UNCHANGED <<lastLine, output>> /\ caller[c].class # SetBreakpointNameCmd
        /\ caller' = [caller EXCEPT ![c] = [pc |-> "queued", class |-> PrintCmd, id |-> proc.issued + 1]]
    BY <1>3 DEF AskForPc, Class, CollectSearch, AwaitsStop
  <2>2. LeavesQueue(proc, proc) /\ PrintCmd # SetBreakpointNameCmd
    BY DEF LeavesQueue, SameCalls
  <2> QED
    BY <1>1, <2>1, <2>2, QueuesWaits
<1>4. CASE Process(c)
  BY <1>4, ProcessWaits
<1>5. CASE Return(c)
  <2>1. /\ UNCHANGED <<proc, lastLine, output>> /\ caller' = [caller EXCEPT ![c] = Idle]
        /\ caller[c].pc = "waiting" /\ Woken(c)
    BY <1>5 DEF Return
  <2>2. caller'[c] = Idle /\ \A d \in Callers : d # c => caller'[d] = caller[d]
    BY <1>1, <2>1
  <2>3. Idle.pc = "idle" /\ Idle.class # ContinueCmd
    BY DEF Idle
  <2>4. caller[c].class = SetBreakpointNameCmd => caller[c].id \in proc.called
    BY <2>1 DEF Woken, AwaitsStop, AwaitsFinish
  <2>5. \A n : ~Named(proc, n)
    BY <2>4, NothingNamed
  <2>6. NameLast(proc)'
    <3>1. NameLast(proc)
      BY DEF WaitInv
    <3> QED
      BY <2>1, <2>5, <3>1 DEF NameLast
  <2>7. Rest' = Rest
    BY <2>1 DEF Rest, OutputLines
  <2>8. Coming(proc, Rest) => Coming(proc, Rest)'
    BY <2>1, <2>7 DEF Coming
  <2>9. ASSUME NEW d \in Callers PROVE Served(d)'
    <3>1. CASE d = c
      BY <2>2, <2>3, <3>1 DEF Served
    <3>2. CASE d # c
      <4>1. Served(d) /\ caller'[d] = caller[d]
        BY <2>2, <3>2 DEF WaitInv
      <4>2. Pending(proc, caller[d]) => Pending(proc, caller[d])'
        BY <2>1, <4>1 DEF Pending
      <4> QED
        BY <2>8, <4>1, <4>2 DEF Served
    <3> QED
      BY <3>1, <3>2
  <2>10. proc'.ready /\ proc'.queue # <<>> => \E d \in Callers : caller'[d].pc = "queued"
    BY <2>1, <2>2 DEF WaitInv
  <2>11. ~proc'.dead /\ Promised(proc', Rest') /\ FirstAnswers(proc', lastLine', output')
    BY <2>1, <2>7 DEF WaitInv
  <2> QED
    BY <2>6, <2>9, <2>10, <2>11 DEF WaitInv
<1> QED
  BY <1>2, <1>3, <1>4, <1>5 DEF Caller

(* The invariant of those who wait, when gdb does what the handlers expect,  *)
(* one thread continues the target, and a breakpoint is resolved by name    *)
(* only while no other thread uses the connector.                          *)
THEOREM WaitInvariant ==
  ASSUME Surprises = {}, SingleRunner, NamesAlone
  PROVE  Spec => []WaitInv
<1>0. "refusal" \notin Surprises
  OBVIOUS
<1>1. Init => WaitInv
  BY WaitInit
<1>2. QueueInv /\ QueueInv' /\ AnswerInv /\ AnswerInv' /\ StopInv /\ WaitInv /\ [Next]_vars => WaitInv'
  <2> SUFFICES ASSUME QueueInv, QueueInv', AnswerInv, AnswerInv', StopInv, WaitInv, [Next]_vars
               PROVE  WaitInv'
    OBVIOUS
  <2>1. CASE Reader
    BY <2>1, ReadLineWaits, ReadPromptStartWaits, ReadPromptWaits DEF Reader
  <2>2. CASE GdbAnswers
    BY <2>2, GdbAnswersWaits
  <2>3. ASSUME NEW c \in Callers, Caller(c) PROVE WaitInv'
    BY <2>3, CallerWaits
  <2>4. CASE UNCHANGED vars
    BY <2>4 DEF vars, WaitInv, Served, Pending, Coming, NameLast, Named, Promised, FirstAnswers,
      Rest, OutputLines
  <2> QED
    BY <2>1, <2>2, <2>3, <2>4 DEF Next
<1>3. Spec => []QueueInv /\ []AnswerInv /\ []StopInv
  BY <1>0, QueueInvariant, AnswerInvariant, StopInvariant
<1> QED
  BY <1>1, <1>2, <1>3, PTL DEF Spec

(* Nobody waits in vain: a caller of the connector whose event is not set  *)
(* has its command queued, with somebody about to send it, or gdb still    *)
(* owes a prompt.  No order of the two halves of QueueCommand, of the      *)
(* callers and of ReadThread loses a command or its answer.                *)
THEOREM NobodyWaitsInVain ==
  ASSUME Surprises = {}, SingleRunner, NamesAlone
  PROVE  Spec => []WaitersServed
<1>0. "refusal" \notin Surprises
  OBVIOUS
<1>1. QueueInv /\ AnswerInv /\ WaitInv => WaitersServed
  <2> SUFFICES ASSUME QueueInv, AnswerInv, WaitInv, NEW c \in Callers, caller[c].pc = "waiting",
                      ~Woken(c), proc.ready
               PROVE  proc.queue # <<>> /\ \E d \in Callers : caller[d].pc = "queued"
    BY DEF WaitersServed, WaitInv, QueueInv, TypeOK, Proc
  <2>1. /\ ~proc.dead /\ Served(c)
        /\ proc.queue # <<>> => \E d \in Callers : caller[d].pc = "queued"
    BY DEF WaitInv
  <2>2. /\ proc.input = <<>> /\ output = <<>> /\ lastLine = Nothing
        /\ proc.current = Nothing /\ proc.lines = <<>>
    BY <2>1 DEF QueueInv, OneOutstanding, AnswerInv, Attributed
  <2>3. Len(proc.input) = 0 /\ Len(output) = 0 /\ Len(proc.lines) = 0
    BY <2>2
  <2>4. Rest = {}
    BY <2>2, <2>3, NothingIsNoLine DEF Rest, OutputLines
  <2>5. \E i \in 1..Len(proc.queue) : TRUE
    <3>1. CASE caller[c].class \in AwaitsStop
      <4>1. ~proc.stopSet /\ Coming(proc, {})
        BY <2>1, <2>4, <3>1 DEF Woken, Served, AwaitsStop
      <4> QED
        BY <2>3, <4>1 DEF Coming
    <3>2. CASE caller[c].class \notin AwaitsStop
      <4>1. caller[c].class \in Replied
        BY <2>1, <3>2 DEF Served, Replied, QueueInv, TypeOK
      <4>2. Pending(proc, caller[c])
        BY <2>1, <4>1 DEF Served
      <4> QED
        BY <2>2, <3>2, <4>2 DEF Pending, Woken
    <3> QED
      BY <3>1, <3>2
  <2>6. proc.queue # <<>>
    <3>1. Len(<<>>) = 0
      OBVIOUS
    <3> QED
      BY <2>5, <3>1
  <2> QED
    BY <2>1, <2>6
<1> QED
  BY <1>0, <1>1, QueueInvariant, AnswerInvariant, WaitInvariant, PTL
===============================================================================
