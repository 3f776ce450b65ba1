------------------------- MODULE FuzzControllerProofs -------------------------
(* Proofs about the fuzzing loop, for every configuration of locations,    *)
(* triggers, addresses and bounds.                                         *)
EXTENDS FuzzController, SequenceTheorems, TLAPS

(* Counting a trigger on keeps its counter a natural number. *)
LEMMA NextCountType == ASSUME NEW c \in Nat, NEW n \in Nat PROVE NextCount(c, n) \in Nat
  BY DEF NextCount

(* The breakpoints gdb holds are at addresses of the target. *)
LEMMA BreakpointsType == TypeOK => Breakpoints \subseteq Addr
  BY ConfigAssumption DEF TypeOK, Breakpoints

(* Every stop "continue" and "run" can end in has the type of a stop. *)
LEMMA ForwardStopType ==
  ASSUME TypeOK, ForwardStop
  PROVE  /\ lastStop' \in {NoStop, Stop("Exit", NoAddr)}
                            \union [reason: {"Breakpoint", "Terminated"}, addr: Addr]
         /\ alive' \in BOOLEAN /\ base' \in Addr \union {NoAddr} /\ trail' \in Seq(Addr)
         /\ mishaps' \subseteq {"exit", "socket"}
<1>1. CASE \E a \in Breakpoints : StopAtBreakpoint(a) /\ UNCHANGED <<base, mishaps>>
                 /\ trail' = IF base = NoAddr THEN trail ELSE Append(trail, a)
  BY <1>1, BreakpointsType DEF StopAtBreakpoint, TypeOK, Stop
<1>2. CASE StopBySignal
  BY <1>2 DEF StopBySignal, TypeOK, Stop
<1>3. CASE StopByExit
  <2>1. lastStop' \in {NoStop, Stop("Exit", NoAddr)}
    BY <1>3, Zenon DEF StopByExit
  <2>2. trail' \in Seq(Addr) /\ base' \in Addr \union {NoAddr} /\ alive' \in BOOLEAN
    BY <1>3, EmptySeq, Zenon DEF StopByExit
  <2>3. mishaps' \subseteq {"exit", "socket"}
    BY <1>3 DEF StopByExit, TypeOK
  <2> QED BY <2>1, <2>2, <2>3
<1> QED BY <1>1, <1>2, <1>3 DEF ForwardStop

(* A step back in a record that exists has the type of a stop. *)
LEMMA ReverseStopType ==
  ASSUME TypeOK, ReverseStop, base # NoAddr
  PROVE  /\ lastStop' \in [reason: {"Breakpoint", "Terminated"}, addr: Addr]
         /\ alive' \in BOOLEAN /\ base' \in Addr \union {NoAddr} /\ trail' \in Seq(Addr)
         /\ mishaps' \subseteq {"exit", "socket"}
<1> DEFINE back == IF lastStop.reason = "Breakpoint" /\ trail # <<>>
                   THEN SubSeq(trail, 1, Len(trail) - 1) ELSE trail
<1>1. back \in Seq(Addr)
  <2>1. CASE trail # <<>>
    <3>1. Len(trail) \in Nat /\ Len(trail) >= 1
      BY <2>1, EmptySeq, LenProperties DEF TypeOK
    <3>2. \A i \in 1..(Len(trail) - 1) : trail[i] \in Addr
      BY <3>1, ElementOfSeq DEF TypeOK
    <3>3. SubSeq(trail, 1, Len(trail) - 1) \in Seq(Addr)
      BY <3>1, <3>2 DEF TypeOK
    <3> QED BY <3>3 DEF TypeOK
  <2>2. CASE trail = <<>>
    BY <2>2 DEF TypeOK
  <2> QED BY <2>1, <2>2
<1>2. (IF back = <<>> THEN base ELSE back[Len(back)]) \in Addr
  <2>1. CASE back # <<>>
    <3>1. Len(back) \in 1..Len(back)
      BY <1>1, <2>1, EmptySeq, LenProperties
    <3> QED BY <1>1, <2>1, <3>1, ElementOfSeq
  <2>2. CASE back = <<>>
    BY <2>2 DEF TypeOK
  <2> QED BY <2>1, <2>2
<1> QED BY <1>1, <1>2 DEF ReverseStop, StopAtBreakpoint, Stop, TypeOK

(* Answering for a location keeps the trigger variables well typed. *)
LEMMA UseTriggerType ==
  ASSUME TypeOK, NEW l \in Location, NEW type, UseTrigger(l, type)
  PROVE  count' \in [Trigger -> Nat] /\ first' \in [Trigger -> BOOLEAN]
<1> DEFINE t == CHOOSE t \in Firing(l, type) : \A u \in Firing(l, type) : t <= u
           c == IF first[t] THEN [count EXCEPT ![t] = 0] ELSE count
<1>1. c \in [Trigger -> Nat]
  BY DEF TypeOK
<1>2. first' = [first EXCEPT ![t] = FALSE]
      /\ count' = [u \in Trigger |->
                     IF Owner[u] = l THEN NextCount(c[u], TriggerCount[u]) ELSE c[u]]
  BY DEF UseTrigger
<1> HIDE DEF c, t
<1>3. \A u \in Trigger : NextCount(c[u], TriggerCount[u]) \in Nat /\ c[u] \in Nat
  BY <1>1, NextCountType, ConfigAssumption
<1>4. count' \in [Trigger -> Nat]
  BY <1>2, <1>3
<1>5. first' \in [Trigger -> BOOLEAN]
  BY <1>2 DEF TypeOK
<1> QED BY <1>4, <1>5

(* The initial state is well typed. *)
LEMMA TypeOKInit == Init => TypeOK
<1> SUFFICES ASSUME Init PROVE TypeOK
  OBVIOUS
<1>1. alive \in BOOLEAN /\ lastStop \in {NoStop, Stop("Exit", NoAddr)}
  BY Zenon DEF Init
<1> QED BY <1>1, ConfigAssumption, EmptySeq DEF Init, TypeOK, Control

(* Every variable keeps its type in every step of the loop. *)
LEMMA TypeOKStep == TypeOK /\ [Next]_vars => TypeOK'
<1> SUFFICES ASSUME TypeOK, [Next]_vars PROVE TypeOK'
  OBVIOUS
<1> USE DEF invokeVars, triggerVars, targetVars, logVars, histVars
<1>1. CASE Finish
  BY <1>1 DEF Finish, TypeOK, Control
<1>2. CASE TakeSnapshot
  BY <1>2, ConfigAssumption, EmptySeq
     DEF TakeSnapshot, AtRegionStart, CreateSnapshot, LoggerStart, Stop, TypeOK, Control
<1>3. CASE NoSnapshotYet
  BY <1>3 DEF NoSnapshotYet, TypeOK, Control
<1>4. CASE RegionEndReached
  BY <1>4 DEF RegionEndReached, BeginInvoke, TypeOK, Control
<1>5. CASE ErrorReached
  BY <1>5 DEF ErrorReached, BeginInvoke, TypeOK, Control
<1>6. CASE OtherStop
  BY <1>6 DEF OtherStop, TypeOK, Control
<1>7. ASSUME NEW l \in Location, SkipFinished(l) PROVE TypeOK'
  BY <1>7 DEF SkipFinished, Visit, TypeOK, Control
<1>8. ASSUME NEW l \in Location, NotTriggered(l) PROVE TypeOK'
  BY <1>8 DEF NotTriggered, Visit, TypeOK, Control
<1>9. ASSUME NEW l \in Location, Run(l)
      PROVE  /\ count' \in [Trigger -> Nat] /\ first' \in [Trigger -> BOOLEAN]
             /\ rounds' \in [Location -> Nat] /\ lastRun' \in [Location -> Nat]
             /\ fuzzed' \subseteq Nat /\ pending' \subseteq Location
             /\ UNCHANGED <<locations, toRemove, lastStop, alive, logVars, crashed>>
  BY <1>9, UseTriggerType, SMTT(30) DEF Run, Visit, TypeOK
<1>10. ASSUME NEW l \in Location, RunSocket(l) PROVE TypeOK'
  <2>1. Run(l) /\ UNCHANGED <<snapshot, base, trail>> /\ pc' \in {pc, "failed"}
        /\ mishaps' \subseteq mishaps \union {"socket"}
    BY <1>10 DEF RunSocket
  <2> QED BY <2>1, <1>9 DEF TypeOK, Control
<1>11. ASSUME NEW l \in Location, RunMemory(l) PROVE TypeOK'
  <2>1. Run(l) /\ UNCHANGED mishaps
    BY <1>11 DEF RunMemory
  <2>2. /\ pc' \in {pc, "failed"} /\ snapshot' \in Addr \union {NoAddr}
        /\ base' \in Addr \union {NoAddr} /\ trail' \in Seq(Addr)
    <3>1. CASE lastStop.addr = NoAddr
      BY <1>11, <3>1 DEF RunMemory, TypeOK
    <3>2. CASE lastStop.addr # NoAddr
      <4>1. lastStop.addr \in Addr
        BY <3>2 DEF TypeOK, NoStop, Stop
      <4> QED BY <1>11, <3>2, <4>1, EmptySeq DEF RunMemory, CreateSnapshot
    <3> QED BY <3>1, <3>2
  <2> QED BY <2>1, <2>2, <1>9 DEF TypeOK, Control
<1>12. CASE InvokeDone
  BY <1>12 DEF InvokeDone, TypeOK, Control
<1>13. CASE FinishRun
  BY <1>13 DEF FinishRun, LoggerFinish, TypeOK, Control
<1>14. CASE Restore
  <2>1. pc' \in Control
        /\ UNCHANGED <<invokeVars, rounds, triggerVars, snapshot, logVars, crashed, fuzzed, lastRun>>
    BY <1>14 DEF Restore, Control
  <2>2. /\ lastStop' \in {NoStop, Stop("Exit", NoAddr)}
                           \union [reason: {"Breakpoint", "Terminated"}, addr: Addr]
        /\ alive' \in BOOLEAN /\ base' \in Addr \union {NoAddr} /\ trail' \in Seq(Addr)
        /\ mishaps' \subseteq {"exit", "socket"}
    <3>1. CASE ReverseStop /\ base # NoAddr
      BY <3>1, ReverseStopType
    <3>2. CASE UNCHANGED <<targetVars, mishaps>>
      BY <3>2 DEF TypeOK
    <3>3. CASE ForwardStop
      BY <3>3, ForwardStopType
    <3> QED BY <1>14, <3>1, <3>2, <3>3 DEF Restore
  <2> QED BY <2>1, <2>2 DEF TypeOK
<1>15. CASE NextRun
  <2>1. count' \in [Trigger -> Nat]
    <3>1. \A t \in Trigger : count[t] \in Nat /\ NextCount(count[t], TriggerCount[t]) \in Nat
      BY NextCountType, ConfigAssumption DEF TypeOK
    <3> QED BY <1>15, <3>1 DEF NextRun
  <2> QED BY <1>15, <2>1 DEF NextRun, BeginInvoke, LoggerStart, TypeOK, Control
<1>16. CASE DebugContinue
  BY <1>16, ForwardStopType DEF DebugContinue, TypeOK, Control
<1>17. CASE UNCHANGED vars
  BY <1>17 DEF vars, TypeOK
<1> QED
  BY <1>1, <1>2, <1>3, <1>4, <1>5, <1>6, <1>7, <1>8, <1>10, <1>11, <1>12, <1>13,
     <1>14, <1>15, <1>16, <1>17 DEF Next, Terminated

(* The loop keeps every variable in its type; in particular a stop with no *)
(* address is only ever the exit of the target.                            *)
THEOREM TypeCorrect == Spec => []TypeOK
  BY TypeOKInit, TypeOKStep, PTL DEF Spec

-----------------------------------------------------------------------------
(* The inductive invariant of the loop.                                    *)

Invoking == {"end", "start"}
InRestore == {"restore", "next"}

(* Before the snapshot nothing is logged, and only the waiting part of the *)
(* loop is reached.                                                        *)
BeforeSnapshot ==
  snapshot = NoAddr => /\ prefix = 1 /\ fuzzed = {} /\ crashed = {} /\ errors = {}
                       /\ pc \in {"top", "branch", "continue", "done"}

(* The log files of the runs, as LogBracketing states it. *)
LogInv == LogBracketing /\ BeforeSnapshot /\ prefix >= 1

(* The runs that crashed are those in the error log, but for the one whose *)
(* stop the loop is about to look at.                                      *)
CrashInv ==
  /\ crashed \subseteq 1..prefix /\ errors \subseteq crashed
  /\ pc \in {"top", "branch"} /\ AtError => prefix \in crashed
  /\ \/ crashed \subseteq errors
     \/ /\ pc \in {"top", "branch", "done"} /\ AtError
        /\ crashed \ errors \subseteq {prefix}

(* A run that was fuzzed has a location that stays in the list. *)
FuzzedInv ==
  /\ fuzzed \subseteq 1..prefix
  /\ \A l \in Location : lastRun[l] <= prefix
  /\ pc \in Invoking => /\ pending \intersect toRemove = {}
                        /\ pending \subseteq locations
  /\ pc = "start" => \A l \in pending : lastRun[l] < prefix
  /\ pc \notin Invoking => toRemove = {} \/ pc = "failed"
  /\ pc \in {"start", "continue", "top", "branch"} /\ prefix \in fuzzed =>
        \E l \in locations \ toRemove : lastRun[l] = prefix
  /\ pc = "done" => prefix \notin fuzzed

(* A target without process has exited, and one with a snapshot is being   *)
(* recorded unless it has exited since.                                    *)
RecordInv ==
  /\ lastStop # NoStop /\ ~alive => "exit" \in mishaps
  /\ lastStop = Stop("Exit", NoAddr) => "exit" \in mishaps
  /\ snapshot # NoAddr => lastStop # NoStop /\ (base # NoAddr \/ "exit" \in mishaps)

LoopInv ==
  TypeOK /\ LogInv /\ CrashInv /\ FuzzedInv /\ RecordInv /\ FailureHasCause

(* Every step keeps the log files of the runs apart. *)
LEMMA LogStep == LoopInv /\ [Next]_vars => LogInv'
<1> SUFFICES ASSUME LoopInv, [Next]_vars PROVE LogInv'
  OBVIOUS
<1> USE ConfigAssumption DEF LoopInv, invokeVars, triggerVars, targetVars, logVars, histVars
<1>1. CASE Finish
  BY <1>1 DEF Finish, LogInv, LogBracketing, BeforeSnapshot, TypeOK
<1>2. CASE TakeSnapshot
  <2>1. snapshot = NoAddr /\ snapshot' = SnapshotBreakpoint /\ SnapshotBreakpoint # NoAddr
    BY <1>2 DEF TakeSnapshot, AtRegionStart, CreateSnapshot, Stop
  <2>2. started' = {1} /\ finished' = {} /\ prefix' = 1 /\ pc' = "branch"
    BY <1>2, <2>1 DEF TakeSnapshot, LoggerStart, LogInv, LogBracketing, BeforeSnapshot
  <2> QED BY <2>1, <2>2 DEF LogInv, LogBracketing, BeforeSnapshot
<1>3. CASE NoSnapshotYet
  BY <1>3 DEF NoSnapshotYet, LogInv, LogBracketing, BeforeSnapshot, TypeOK
<1>4. CASE RegionEndReached
  BY <1>4 DEF RegionEndReached, AtRegionEnd, BeginInvoke, Stop, LogInv, LogBracketing, BeforeSnapshot, TypeOK
<1>5. CASE ErrorReached
  BY <1>5 DEF ErrorReached, AtError, BeginInvoke, LogInv, LogBracketing, BeforeSnapshot, TypeOK
<1>6. CASE OtherStop
  BY <1>6 DEF OtherStop, LogInv, LogBracketing, BeforeSnapshot, TypeOK
<1>7. ASSUME NEW l \in Location, SkipFinished(l) PROVE LogInv'
  BY <1>7 DEF SkipFinished, Visit, LogInv, LogBracketing, BeforeSnapshot, TypeOK
<1>8. ASSUME NEW l \in Location, NotTriggered(l) PROVE LogInv'
  BY <1>8 DEF NotTriggered, Visit, LogInv, LogBracketing, BeforeSnapshot, TypeOK
<1>9. ASSUME NEW l \in Location, RunSocket(l) PROVE LogInv'
  BY <1>9 DEF RunSocket, Run, Visit, LogInv, LogBracketing, BeforeSnapshot, TypeOK
<1>10. ASSUME NEW l \in Location, RunMemory(l) PROVE LogInv'
  BY <1>10 DEF RunMemory, Run, Visit, CreateSnapshot, LogInv, LogBracketing, BeforeSnapshot, TypeOK
<1>11. CASE InvokeDone
  BY <1>11 DEF InvokeDone, LogInv, LogBracketing, BeforeSnapshot, TypeOK
<1>12. CASE FinishRun
  BY <1>12 DEF FinishRun, LoggerFinish, LogInv, LogBracketing, BeforeSnapshot, TypeOK
<1>13. CASE Restore
  BY <1>13 DEF Restore, LogInv, LogBracketing, BeforeSnapshot, TypeOK
<1>14. CASE NextRun
  BY <1>14 DEF NextRun, LoggerStart, BeginInvoke, LogInv, LogBracketing, BeforeSnapshot, TypeOK
<1>15. CASE DebugContinue
  BY <1>15 DEF DebugContinue, LogInv, LogBracketing, BeforeSnapshot, TypeOK
<1>16. CASE UNCHANGED vars
  BY <1>16 DEF vars, LogInv, LogBracketing, BeforeSnapshot, TypeOK
<1> QED
  BY <1>1, <1>2, <1>3, <1>4, <1>5, <1>6, <1>7, <1>8,
     <1>9, <1>10, <1>11, <1>12, <1>13, <1>14, <1>15, <1>16 DEF Next, Terminated

(* Every step keeps the error log complete and free of other runs. *)
LEMMA CrashStep == LoopInv /\ [Next]_vars => CrashInv'
<1> SUFFICES ASSUME LoopInv, [Next]_vars PROVE CrashInv'
  OBVIOUS
<1> USE ConfigAssumption DEF LoopInv, invokeVars, triggerVars, targetVars, logVars, histVars
<1>1. CASE Finish
  BY <1>1 DEF Finish, CrashInv, LogInv, BeforeSnapshot, TypeOK, AtError
<1>2. CASE TakeSnapshot
  BY <1>2 DEF TakeSnapshot, AtRegionStart, CreateSnapshot, LoggerStart, Stop, CrashInv, LogInv, BeforeSnapshot, TypeOK, AtError, LogBracketing
<1>3. CASE NoSnapshotYet
  BY <1>3 DEF NoSnapshotYet, CrashInv, LogInv, BeforeSnapshot, TypeOK, AtError
<1>4. CASE RegionEndReached
  BY <1>4 DEF RegionEndReached, AtRegionEnd, BeginInvoke, Stop, CrashInv, LogInv, BeforeSnapshot, TypeOK, AtError, LogBracketing
<1>5. CASE ErrorReached
  BY <1>5 DEF ErrorReached, AtError, BeginInvoke, CrashInv, LogInv, BeforeSnapshot, TypeOK, AtError
<1>6. CASE OtherStop
  BY <1>6 DEF OtherStop, CrashInv, LogInv, BeforeSnapshot, TypeOK, AtError
<1>7. ASSUME NEW l \in Location, SkipFinished(l) PROVE CrashInv'
  BY <1>7 DEF SkipFinished, Visit, CrashInv, LogInv, BeforeSnapshot, TypeOK, AtError
<1>8. ASSUME NEW l \in Location, NotTriggered(l) PROVE CrashInv'
  BY <1>8 DEF NotTriggered, Visit, CrashInv, LogInv, BeforeSnapshot, TypeOK, AtError
<1>9. ASSUME NEW l \in Location, RunSocket(l) PROVE CrashInv'
  BY <1>9 DEF RunSocket, Run, Visit, CrashInv, LogInv, BeforeSnapshot, TypeOK, AtError
<1>10. ASSUME NEW l \in Location, RunMemory(l) PROVE CrashInv'
  BY <1>10 DEF RunMemory, Run, Visit, CreateSnapshot, CrashInv, LogInv, BeforeSnapshot, TypeOK, AtError
<1>11. CASE InvokeDone
  BY <1>11 DEF InvokeDone, CrashInv, LogInv, BeforeSnapshot, TypeOK, AtError
<1>12. CASE FinishRun
  BY <1>12 DEF FinishRun, LoggerFinish, CrashInv, LogInv, BeforeSnapshot, TypeOK, AtError
<1>13. CASE Restore
  BY <1>13 DEF Restore, CrashInv, LogInv, BeforeSnapshot, TypeOK, AtError
<1>14. CASE NextRun
  BY <1>14 DEF NextRun, LoggerStart, BeginInvoke, CrashInv, LogInv, BeforeSnapshot, TypeOK, AtError
<1>15. CASE DebugContinue
  BY <1>15 DEF DebugContinue, CrashInv, LogInv, BeforeSnapshot, TypeOK, AtError
<1>16. CASE UNCHANGED vars
  BY <1>16 DEF vars, CrashInv, LogInv, BeforeSnapshot, TypeOK, AtError
<1> QED
  BY <1>1, <1>2, <1>3, <1>4, <1>5, <1>6, <1>7, <1>8,
     <1>9, <1>10, <1>11, <1>12, <1>13, <1>14, <1>15, <1>16 DEF Next, Terminated

(* Every step keeps a location in the list for the run it fuzzed. *)
LEMMA FuzzedStep == LoopInv /\ [Next]_vars => FuzzedInv'
<1> SUFFICES ASSUME LoopInv, [Next]_vars PROVE FuzzedInv'
  OBVIOUS
<1> USE ConfigAssumption DEF LoopInv, invokeVars, triggerVars, targetVars, logVars, histVars
<1>1. CASE Finish
  BY <1>1 DEF Finish, FuzzedInv, Invoking, LogInv, BeforeSnapshot, TypeOK
<1>2. CASE TakeSnapshot
  BY <1>2 DEF TakeSnapshot, AtRegionStart, CreateSnapshot, LoggerStart, Stop, FuzzedInv, Invoking, LogInv, BeforeSnapshot, TypeOK
<1>3. CASE NoSnapshotYet
  BY <1>3 DEF NoSnapshotYet, FuzzedInv, Invoking, LogInv, BeforeSnapshot, TypeOK
<1>4. CASE RegionEndReached
  BY <1>4 DEF RegionEndReached, AtRegionEnd, BeginInvoke, Stop, FuzzedInv, Invoking, LogInv, BeforeSnapshot, TypeOK
<1>5. CASE ErrorReached
  BY <1>5 DEF ErrorReached, AtError, BeginInvoke, FuzzedInv, Invoking, LogInv, BeforeSnapshot, TypeOK
<1>6. CASE OtherStop
  BY <1>6 DEF OtherStop, FuzzedInv, Invoking, LogInv, BeforeSnapshot, TypeOK
<1>7. ASSUME NEW l \in Location, SkipFinished(l) PROVE FuzzedInv'
  BY <1>7 DEF SkipFinished, Visit, FuzzedInv, Invoking, LogInv, BeforeSnapshot, TypeOK
<1>8. ASSUME NEW l \in Location, NotTriggered(l) PROVE FuzzedInv'
  BY <1>8 DEF NotTriggered, Visit, FuzzedInv, Invoking, LogInv, BeforeSnapshot, TypeOK
<1>9. ASSUME NEW l \in Location, RunSocket(l) PROVE FuzzedInv'
  BY <1>9 DEF RunSocket, Run, Visit, FuzzedInv, Invoking, LogInv, BeforeSnapshot, TypeOK
<1>10. ASSUME NEW l \in Location, RunMemory(l) PROVE FuzzedInv'
  BY <1>10 DEF RunMemory, Run, Visit, CreateSnapshot, FuzzedInv, Invoking, LogInv, BeforeSnapshot, TypeOK
<1>11. CASE InvokeDone
  BY <1>11 DEF InvokeDone, FuzzedInv, Invoking, LogInv, BeforeSnapshot, TypeOK
<1>12. CASE FinishRun
  BY <1>12 DEF FinishRun, LoggerFinish, FuzzedInv, Invoking, LogInv, BeforeSnapshot, TypeOK
<1>13. CASE Restore
  BY <1>13 DEF Restore, FuzzedInv, Invoking, LogInv, BeforeSnapshot, TypeOK
<1>14. CASE NextRun
  BY <1>14 DEF NextRun, LoggerStart, BeginInvoke, FuzzedInv, Invoking, LogInv, BeforeSnapshot, TypeOK
<1>15. CASE DebugContinue
  BY <1>15 DEF DebugContinue, FuzzedInv, Invoking, LogInv, BeforeSnapshot, TypeOK
<1>16. CASE UNCHANGED vars
  BY <1>16 DEF vars, FuzzedInv, Invoking, LogInv, BeforeSnapshot, TypeOK
<1> QED
  BY <1>1, <1>2, <1>3, <1>4, <1>5, <1>6, <1>7, <1>8,
     <1>9, <1>10, <1>11, <1>12, <1>13, <1>14, <1>15, <1>16 DEF Next, Terminated

(* Every step keeps the record of a target that has a snapshot. *)
LEMMA RecordStep == LoopInv /\ [Next]_vars => RecordInv'
<1> SUFFICES ASSUME LoopInv, [Next]_vars PROVE RecordInv'
  OBVIOUS
<1> USE ConfigAssumption DEF LoopInv, invokeVars, triggerVars, targetVars, logVars, histVars
<1>1. CASE Finish
  BY <1>1 DEF Finish, RecordInv, LogInv, BeforeSnapshot, TypeOK, NoStop, Stop
<1>2. CASE TakeSnapshot
  BY <1>2 DEF TakeSnapshot, AtRegionStart, CreateSnapshot, LoggerStart, Stop, RecordInv, LogInv, BeforeSnapshot, TypeOK, NoStop, Stop
<1>3. CASE NoSnapshotYet
  BY <1>3 DEF NoSnapshotYet, RecordInv, LogInv, BeforeSnapshot, TypeOK, NoStop, Stop
<1>4. CASE RegionEndReached
  BY <1>4 DEF RegionEndReached, AtRegionEnd, BeginInvoke, Stop, RecordInv, LogInv, BeforeSnapshot, TypeOK, NoStop, Stop
<1>5. CASE ErrorReached
  BY <1>5 DEF ErrorReached, AtError, BeginInvoke, RecordInv, LogInv, BeforeSnapshot, TypeOK, NoStop, Stop
<1>6. CASE OtherStop
  BY <1>6 DEF OtherStop, RecordInv, LogInv, BeforeSnapshot, TypeOK, NoStop, Stop
<1>7. ASSUME NEW l \in Location, SkipFinished(l) PROVE RecordInv'
  BY <1>7 DEF SkipFinished, Visit, RecordInv, LogInv, BeforeSnapshot, TypeOK, NoStop, Stop
<1>8. ASSUME NEW l \in Location, NotTriggered(l) PROVE RecordInv'
  BY <1>8 DEF NotTriggered, Visit, RecordInv, LogInv, BeforeSnapshot, TypeOK, NoStop, Stop
<1>9. ASSUME NEW l \in Location, RunSocket(l) PROVE RecordInv'
  BY <1>9 DEF RunSocket, Run, Visit, RecordInv, LogInv, BeforeSnapshot, TypeOK, NoStop, Stop
<1>10. ASSUME NEW l \in Location, RunMemory(l) PROVE RecordInv'
  BY <1>10 DEF RunMemory, Run, Visit, CreateSnapshot, RecordInv, LogInv, BeforeSnapshot, TypeOK, NoStop, Stop
<1>11. CASE InvokeDone
  BY <1>11 DEF InvokeDone, RecordInv, LogInv, BeforeSnapshot, TypeOK, NoStop, Stop
<1>12. CASE FinishRun
  BY <1>12 DEF FinishRun, LoggerFinish, RecordInv, LogInv, BeforeSnapshot, TypeOK, NoStop, Stop
<1>13. CASE Restore
  <2>1. snapshot # NoAddr /\ snapshot' = snapshot
    BY <1>13 DEF Restore, LogInv, BeforeSnapshot
  <2>2. CASE ReverseStop /\ alive /\ base # NoAddr
    BY <2>1, <2>2 DEF ReverseStop, StopAtBreakpoint, RecordInv, NoStop, Stop
  <2>3. CASE UNCHANGED <<targetVars, mishaps>>
    BY <2>1, <2>3 DEF RecordInv, NoStop, Stop
  <2>4. CASE ForwardStop /\ ~alive
    <3>1. "exit" \in mishaps
      BY <2>1, <2>4 DEF RecordInv
    <3>2. "exit" \in mishaps' /\ lastStop' # NoStop
      BY <2>4, <3>1 DEF ForwardStop, StopAtBreakpoint, StopBySignal, StopByExit, NoStop, Stop
    <3> QED BY <3>2 DEF RecordInv
  <2> QED BY <1>13, <2>2, <2>3, <2>4 DEF Restore
<1>14. CASE NextRun
  BY <1>14 DEF NextRun, LoggerStart, BeginInvoke, RecordInv, LogInv, BeforeSnapshot, TypeOK, NoStop, Stop
<1>15. CASE DebugContinue
  BY <1>15 DEF DebugContinue, RecordInv, LogInv, BeforeSnapshot, TypeOK, NoStop, Stop, ForwardStop, StopAtBreakpoint, StopBySignal, StopByExit
<1>16. CASE UNCHANGED vars
  BY <1>16 DEF vars, RecordInv, LogInv, BeforeSnapshot, TypeOK, NoStop, Stop
<1> QED
  BY <1>1, <1>2, <1>3, <1>4, <1>5, <1>6, <1>7, <1>8,
     <1>9, <1>10, <1>11, <1>12, <1>13, <1>14, <1>15, <1>16 DEF Next, Terminated

(* Every step that ends the loop badly has a cause outside of it. *)
LEMMA CauseStep == LoopInv /\ [Next]_vars => FailureHasCause'
<1> SUFFICES ASSUME LoopInv, [Next]_vars PROVE FailureHasCause'
  OBVIOUS
<1> USE ConfigAssumption DEF LoopInv, invokeVars, triggerVars, targetVars, logVars, histVars
<1>1. CASE Finish
  BY <1>1 DEF Finish, FailureHasCause, RecordInv, LogInv, BeforeSnapshot, TypeOK, NoStop, Stop
<1>2. CASE TakeSnapshot
  BY <1>2 DEF TakeSnapshot, AtRegionStart, CreateSnapshot, LoggerStart, Stop, FailureHasCause, RecordInv, LogInv, BeforeSnapshot, TypeOK, NoStop, Stop
<1>3. CASE NoSnapshotYet
  BY <1>3 DEF NoSnapshotYet, FailureHasCause, RecordInv, LogInv, BeforeSnapshot, TypeOK, NoStop, Stop
<1>4. CASE RegionEndReached
  BY <1>4 DEF RegionEndReached, AtRegionEnd, BeginInvoke, Stop, FailureHasCause, RecordInv, LogInv, BeforeSnapshot, TypeOK, NoStop, Stop
<1>5. CASE ErrorReached
  BY <1>5 DEF ErrorReached, AtError, BeginInvoke, FailureHasCause, RecordInv, LogInv, BeforeSnapshot, TypeOK, NoStop, Stop
<1>6. CASE OtherStop
  BY <1>6 DEF OtherStop, FailureHasCause, RecordInv, LogInv, BeforeSnapshot, TypeOK, NoStop, Stop
<1>7. ASSUME NEW l \in Location, SkipFinished(l) PROVE FailureHasCause'
  BY <1>7 DEF SkipFinished, Visit, FailureHasCause, RecordInv, LogInv, BeforeSnapshot, TypeOK, NoStop, Stop
<1>8. ASSUME NEW l \in Location, NotTriggered(l) PROVE FailureHasCause'
  BY <1>8 DEF NotTriggered, Visit, FailureHasCause, RecordInv, LogInv, BeforeSnapshot, TypeOK, NoStop, Stop
<1>9. ASSUME NEW l \in Location, RunSocket(l) PROVE FailureHasCause'
  BY <1>9 DEF RunSocket, Run, Visit, FailureHasCause, RecordInv, LogInv, BeforeSnapshot, TypeOK, NoStop, Stop
<1>10. ASSUME NEW l \in Location, RunMemory(l) PROVE FailureHasCause'
  BY <1>10 DEF RunMemory, Run, Visit, CreateSnapshot, FailureHasCause, RecordInv, LogInv, BeforeSnapshot, TypeOK, NoStop, Stop
<1>11. CASE InvokeDone
  BY <1>11 DEF InvokeDone, FailureHasCause, RecordInv, LogInv, BeforeSnapshot, TypeOK, NoStop, Stop
<1>12. CASE FinishRun
  BY <1>12 DEF FinishRun, LoggerFinish, FailureHasCause, RecordInv, LogInv, BeforeSnapshot, TypeOK, NoStop, Stop
<1>13. CASE Restore
  BY <1>13 DEF Restore, FailureHasCause, RecordInv, LogInv, BeforeSnapshot, TypeOK, NoStop, Stop, ForwardStop, StopAtBreakpoint, StopBySignal, StopByExit, ReverseStop
<1>14. CASE NextRun
  BY <1>14 DEF NextRun, LoggerStart, BeginInvoke, FailureHasCause, RecordInv, LogInv, BeforeSnapshot, TypeOK, NoStop, Stop
<1>15. CASE DebugContinue
  BY <1>15 DEF DebugContinue, FailureHasCause, RecordInv, LogInv, BeforeSnapshot, TypeOK, NoStop, Stop, ForwardStop, StopAtBreakpoint, StopBySignal, StopByExit
<1>16. CASE UNCHANGED vars
  BY <1>16 DEF vars, FailureHasCause, RecordInv, LogInv, BeforeSnapshot, TypeOK, NoStop, Stop
<1> QED
  BY <1>1, <1>2, <1>3, <1>4, <1>5, <1>6, <1>7, <1>8,
     <1>9, <1>10, <1>11, <1>12, <1>13, <1>14, <1>15, <1>16 DEF Next, Terminated

(* The invariant holds in the initial state. *)
LEMMA LoopInvInit == Init => LoopInv
<1> SUFFICES ASSUME Init PROVE LoopInv
  OBVIOUS
<1>1. TypeOK
  BY TypeOKInit
<1>2. LogInv /\ CrashInv /\ FuzzedInv /\ RecordInv /\ FailureHasCause
  BY ConfigAssumption DEF Init, LogInv, LogBracketing, BeforeSnapshot, CrashInv, FuzzedInv,
       RecordInv, FailureHasCause, AtError, Invoking, NoStop, Stop
<1> QED BY <1>1, <1>2 DEF LoopInv

(* The invariant holds throughout. *)
THEOREM LoopInvariant == Spec => []LoopInv
<1>1. LoopInv /\ [Next]_vars => LoopInv'
  BY TypeOKStep, LogStep, CrashStep, FuzzedStep, RecordStep, CauseStep DEF LoopInv
<1> QED BY LoopInvInit, <1>1, PTL DEF Spec

(* FuzzController.Fuzz opens and closes the log files of every run exactly *)
(* once, in the order of the prefixes, one at a time.                      *)
THEOREM LogsAreBracketed == Spec => []LogBracketing
<1>1. LoopInv => LogBracketing
  BY DEF LoopInv, LogInv
<1> QED BY LoopInvariant, <1>1, PTL

(* Every run that ends in a signal or an exit is in the error log before   *)
(* its files are closed, and only those are.                               *)
THEOREM CrashesAreReported == Spec => []CrashReported
<1>1. LoopInv => CrashReported
  BY DEF LoopInv, LogInv, LogBracketing, BeforeSnapshot, CrashInv, CrashReported, AtError, TypeOK
<1> QED BY LoopInvariant, <1>1, PTL

(* The run that Fuzz() leaves open when it returns was not fuzzed.         *)
THEOREM NoFuzzedRunIsLost == Spec => []FuzzedRunsFinished
<1>1. LoopInv => FuzzedRunsFinished
  BY DEF LoopInv, LogInv, LogBracketing, BeforeSnapshot, FuzzedInv, FuzzedRunsFinished, TypeOK
<1> QED BY LoopInvariant, <1>1, PTL

(* Fuzz() throws or hangs only after the target's exit or a socket error.  *)
THEOREM FailuresHaveCauses == Spec => []FailureHasCause
<1>1. LoopInv => FailureHasCause
  BY DEF LoopInv
<1> QED BY LoopInvariant, <1>1, PTL

-----------------------------------------------------------------------------
(* Restoring.  Restore knows the snapshot only by its address, so it comes *)
(* back to it only if the target does not pass that address in a run, and  *)
(* if no location makes the snapshot again anywhere else.                  *)

(* Locations that write memory do so before a run, not at its end. *)
MemoryAtStart == \A t \in Trigger : TriggerType[t] = "end" => Kind[Owner[t]] # "memory"

(* The record begins at the snapshot, and the only stop at the snapshot's  *)
(* address it may hold is the last one, at the end of a region that is one *)
(* address; the target is at the snapshot when a run begins.               *)
RestoreInv ==
  /\ SnapshotAtRegionStart
  /\ base \in {NoAddr, snapshot} /\ (base = NoAddr => trail = <<>>)
  /\ ~alive => base = NoAddr
  /\ pc \in {"next", "start"} => lastStop = Stop("Breakpoint", snapshot) /\ trail = <<>>
  /\ \A i \in 1..Len(trail) : trail[i] = snapshot =>
        /\ i = Len(trail) /\ pc # "continue"
        /\ snapshot = RestoreBreakpoint /\ lastStop = Stop("Breakpoint", snapshot)

(* No memory location runs at the end of a run, so the snapshot is made    *)
(* again only where it is.                                                 *)
LEMMA MemoryRunsAtStart ==
  ASSUME MemoryAtStart, NEW l \in Location, RunMemory(l)
  PROVE  pc = "start"
<1>1. /\ pc \in {"end", "start"} /\ Kind[l] = "memory"
      /\ \E t \in Trigger : Owner[t] = l /\ TriggerType[t] = pc
  BY DEF RunMemory, Run, Visit, Firing, Fires
<1> QED BY <1>1 DEF MemoryAtStart

(* Going forward, the target stops at the snapshot's address only at the   *)
(* end of a region that is one address.                                    *)
LEMMA ForwardTrail ==
  ASSUME TypeOK, RestoreInv, ~Reentrant, ForwardStop,
         \A i \in 1..Len(trail) : trail[i] # snapshot
  PROVE  /\ base' \in {NoAddr, snapshot} /\ (base' = NoAddr => trail' = <<>>)
         /\ ~alive' => base' = NoAddr
         /\ \A i \in 1..Len(trail') : trail'[i] = snapshot =>
               i = Len(trail') /\ snapshot = RestoreBreakpoint /\ lastStop' = Stop("Breakpoint", snapshot)
<1>1. ASSUME NEW a \in Breakpoints, Reachable(a), StopAtBreakpoint(a), UNCHANGED base,
             trail' = IF base = NoAddr THEN trail ELSE Append(trail, a)
      PROVE  /\ base' \in {NoAddr, snapshot} /\ (base' = NoAddr => trail' = <<>>)
             /\ ~alive' => base' = NoAddr
             /\ \A i \in 1..Len(trail') : trail'[i] = snapshot =>
                   i = Len(trail') /\ snapshot = RestoreBreakpoint /\ lastStop' = Stop("Breakpoint", snapshot)
  <2>1. base' \in {NoAddr, snapshot} /\ (base' = NoAddr => trail' = <<>>) /\ alive'
    BY <1>1 DEF RestoreInv, StopAtBreakpoint
  <2>2. CASE base = NoAddr
    BY <1>1, <2>1, <2>2
  <2>3. CASE base # NoAddr
    <3>1. a # snapshot \/ a = RestoreBreakpoint
      BY <1>1, <2>3 DEF Reachable
    <3>2. /\ Len(trail) \in Nat /\ Len(trail') = Len(trail) + 1 /\ trail'[Len(trail) + 1] = a
          /\ \A i \in 1..Len(trail) : trail'[i] = trail[i]
      BY <1>1, <2>3, BreakpointsType, AppendProperties, LenProperties DEF TypeOK
    <3>3. \A i \in 1..Len(trail') : i = Len(trail') \/ (i \in 1..Len(trail) /\ trail'[i] = trail[i])
      BY <3>2
    <3> QED BY <1>1, <2>1, <3>1, <3>2, <3>3 DEF StopAtBreakpoint
  <2> QED BY <2>1, <2>2, <2>3
<1>2. CASE StopBySignal
  BY <1>2 DEF StopBySignal, RestoreInv
<1>3. CASE StopByExit
  BY <1>3 DEF StopByExit
<1> QED BY <1>1, <1>2, <1>3 DEF ForwardStop

(* A step back never leaves a stop at the snapshot's address in the        *)
(* record, and ends at that address only when the record is used up.       *)
LEMMA ReverseTrail ==
  ASSUME TypeOK, RestoreInv, ReverseStop, base # NoAddr
  PROVE  /\ base' = snapshot /\ base = snapshot /\ alive'
         /\ \A i \in 1..Len(trail') : trail'[i] # snapshot
         /\ lastStop'.reason = "Breakpoint"
         /\ lastStop'.addr = snapshot => trail' = <<>> /\ lastStop' = Stop("Breakpoint", snapshot)
<1> DEFINE back == IF lastStop.reason = "Breakpoint" /\ trail # <<>>
                   THEN SubSeq(trail, 1, Len(trail) - 1) ELSE trail
<1>1. /\ trail' = back /\ base' = base /\ alive'
      /\ lastStop' = Stop("Breakpoint", IF back = <<>> THEN base ELSE back[Len(back)])
  BY DEF ReverseStop, StopAtBreakpoint
<1>2. base = snapshot
  BY DEF RestoreInv
<1>3. back \in Seq(Addr) /\ \A i \in 1..Len(back) : back[i] # snapshot
  <2>1. CASE lastStop.reason = "Breakpoint" /\ trail # <<>>
    <3>1. Len(trail) \in Nat /\ Len(trail) >= 1
      BY <2>1, EmptySeq, LenProperties DEF TypeOK
    <3>2. /\ SubSeq(trail, 1, Len(trail) - 1) \in Seq(Addr)
          /\ Len(SubSeq(trail, 1, Len(trail) - 1)) = Len(trail) - 1
          /\ \A i \in 1..Len(trail) - 1 : SubSeq(trail, 1, Len(trail) - 1)[i] = trail[i]
      <4>1. \A i \in 1..(Len(trail) - 1) : trail[i] \in Addr
        BY <3>1, ElementOfSeq DEF TypeOK
      <4> DEFINE n == Len(trail) - 1
      <4>2. n \in Int /\ 1 \in Int /\ n >= 0
        BY <3>1
      <4>3. \A i \in 1..n : trail[i] \in Addr
        BY <4>1
      <4> HIDE DEF n
      <4>4. /\ SubSeq(trail, 1, n) \in Seq(Addr)
            /\ Len(SubSeq(trail, 1, n)) = IF 1 <= n THEN n - 1 + 1 ELSE 0
            /\ \A i \in 1..(n - 1 + 1) : SubSeq(trail, 1, n)[i] = trail[1 + i - 1]
        BY <4>2, <4>3, SubSeqProperties
      <4>5. n - 1 + 1 = n /\ \A i \in 1..n : 1 + i - 1 = i
        BY <4>2
      <4>6. Len(SubSeq(trail, 1, n)) = n
        BY <4>2, <4>4, <4>5
      <4>7. \A i \in 1..n : SubSeq(trail, 1, n)[i] = trail[i]
        BY <4>4, <4>5
      <4> QED BY <4>4, <4>6, <4>7 DEF n
    <3>3. \A i \in 1..Len(trail) - 1 : i \in 1..Len(trail) /\ i # Len(trail)
      BY <3>1
    <3> QED BY <2>1, <3>2, <3>3 DEF RestoreInv
  <2>2. CASE lastStop.reason # "Breakpoint"
    BY <2>2 DEF RestoreInv, TypeOK, Stop
  <2>3. CASE trail = <<>>
    BY <2>3 DEF TypeOK
  <2> QED BY <2>1, <2>2, <2>3
<1> HIDE DEF back
<1>4. back # <<>> => back[Len(back)] # snapshot
  <2>1. back # <<>> => Len(back) \in 1..Len(back)
    BY <1>3, EmptySeq, LenProperties
  <2> QED BY <1>3, <2>1
<1> QED BY <1>1, <1>2, <1>3, <1>4 DEF Stop

(* Every step keeps the way back to the snapshot. *)
LEMMA RestoreStep ==
  ASSUME ~Reentrant, MemoryAtStart, LoopInv, RestoreInv, [Next]_vars
  PROVE  RestoreInv'
<1> USE ConfigAssumption DEF LoopInv, invokeVars, triggerVars, targetVars, logVars, histVars
<1>1. CASE Finish
  BY <1>1 DEF Finish, RestoreInv, SnapshotAtRegionStart
<1>2. CASE TakeSnapshot
  <2>1. /\ snapshot' = SnapshotBreakpoint /\ base' \in {NoAddr, SnapshotBreakpoint}
        /\ trail' = <<>> /\ pc' = "branch" /\ (~alive' => base' = NoAddr)
    BY <1>2 DEF TakeSnapshot, AtRegionStart, CreateSnapshot, Stop
  <2> QED BY <2>1 DEF RestoreInv, SnapshotAtRegionStart
<1>3. CASE NoSnapshotYet
  BY <1>3 DEF NoSnapshotYet, RestoreInv, SnapshotAtRegionStart
<1>4. CASE RegionEndReached
  BY <1>4 DEF RegionEndReached, BeginInvoke, RestoreInv, SnapshotAtRegionStart
<1>5. CASE ErrorReached
  BY <1>5 DEF ErrorReached, BeginInvoke, RestoreInv, SnapshotAtRegionStart
<1>6. CASE OtherStop
  <2>1. \A i \in 1..Len(trail) : trail[i] # snapshot
    BY <1>6 DEF OtherStop, AtRegionEnd, RestoreInv
  <2> QED BY <1>6, <2>1 DEF OtherStop, RestoreInv, SnapshotAtRegionStart
<1>7. ASSUME NEW l \in Location, SkipFinished(l) PROVE RestoreInv'
  BY <1>7 DEF SkipFinished, RestoreInv, SnapshotAtRegionStart
<1>8. ASSUME NEW l \in Location, NotTriggered(l) PROVE RestoreInv'
  BY <1>8 DEF NotTriggered, RestoreInv, SnapshotAtRegionStart
<1>9. ASSUME NEW l \in Location, RunSocket(l) PROVE RestoreInv'
  BY <1>9 DEF RunSocket, Run, RestoreInv, SnapshotAtRegionStart
<1>10. ASSUME NEW l \in Location, RunMemory(l) PROVE RestoreInv'
  <2>1. pc = "start" /\ snapshot # NoAddr /\ lastStop = Stop("Breakpoint", snapshot)
    BY <1>10, MemoryRunsAtStart DEF LogInv, BeforeSnapshot, RestoreInv
  <2>2. /\ snapshot' = snapshot /\ base' \in {NoAddr, snapshot} /\ trail' = <<>>
        /\ pc' = pc /\ lastStop' = lastStop /\ (~alive' => base' = NoAddr)
    BY <1>10, <2>1 DEF RunMemory, Run, CreateSnapshot, Stop
  <2> QED BY <2>1, <2>2 DEF RestoreInv, SnapshotAtRegionStart
<1>11. CASE InvokeDone
  <2>1. pc' = "continue" => trail' = <<>>
    BY <1>11 DEF InvokeDone, RestoreInv
  <2>2. UNCHANGED <<snapshot, base, trail, lastStop, alive>> /\ pc' \in {"finish", "continue"}
    BY <1>11 DEF InvokeDone
  <2> QED BY <2>1, <2>2 DEF RestoreInv, SnapshotAtRegionStart
<1>12. CASE FinishRun
  BY <1>12 DEF FinishRun, RestoreInv, SnapshotAtRegionStart
<1>13. CASE Restore
  <2>1. pc = "restore" /\ snapshot' = snapshot /\ snapshot # NoAddr
    BY <1>13 DEF Restore, LogInv, BeforeSnapshot
  <2>2. CASE alive /\ base # NoAddr
    <3>1. ReverseStop /\ pc' = IF lastStop'.addr = snapshot THEN "next" ELSE "restore"
      BY <1>13, <2>2 DEF Restore
    <3> QED BY <2>1, <2>2, <3>1, ReverseTrail DEF RestoreInv, SnapshotAtRegionStart
  <2>3. CASE UNCHANGED <<targetVars, mishaps>> /\ pc' = "blocked"
    BY <2>1, <2>3 DEF RestoreInv, SnapshotAtRegionStart
  <2>4. CASE ForwardStop /\ ~alive
    <3>1. base = NoAddr /\ trail = <<>>
      BY <2>4 DEF RestoreInv
    <3>2. /\ base' = NoAddr /\ trail' = <<>>
          /\ lastStop'.reason = "Breakpoint" => lastStop' = Stop("Breakpoint", lastStop'.addr)
      BY <2>4, <3>1 DEF ForwardStop, StopAtBreakpoint, StopBySignal, StopByExit, Stop
    <3>3. /\ pc' \in {"failed", "next", "restore"}
          /\ pc' = "next" => lastStop'.reason = "Breakpoint" /\ lastStop'.addr = snapshot
      BY <1>13, <2>4 DEF Restore
    <3> QED BY <2>1, <3>2, <3>3 DEF RestoreInv, SnapshotAtRegionStart
  <2> QED BY <1>13, <2>2, <2>3, <2>4 DEF Restore
<1>14. CASE NextRun
  BY <1>14 DEF NextRun, BeginInvoke, RestoreInv, SnapshotAtRegionStart
<1>15. CASE DebugContinue
  <2>1. /\ pc = "continue" /\ pc' = "top" /\ snapshot' = snapshot /\ ForwardStop
        /\ \A i \in 1..Len(trail) : trail[i] # snapshot
    BY <1>15 DEF DebugContinue, RestoreInv
  <2> QED BY <2>1, ForwardTrail DEF RestoreInv, SnapshotAtRegionStart
<1>16. CASE UNCHANGED vars
  BY <1>16 DEF vars, RestoreInv, SnapshotAtRegionStart
<1> QED
  BY <1>1, <1>2, <1>3, <1>4, <1>5, <1>6, <1>7, <1>8,
     <1>9, <1>10, <1>11, <1>12, <1>13, <1>14, <1>15, <1>16 DEF Next, Terminated

(* The way back to the snapshot is kept throughout. *)
THEOREM RestoreInvariant ==
  ASSUME ~Reentrant, MemoryAtStart
  PROVE  Spec => [](LoopInv /\ RestoreInv)
<1>1. Init => RestoreInv
  BY DEF Init, RestoreInv, SnapshotAtRegionStart
<1>2. LoopInv /\ RestoreInv /\ [Next]_vars => RestoreInv'
  BY RestoreStep
<1> QED BY LoopInvariant, <1>1, <1>2, PTL DEF Spec

(* GDBSnapshot.Restore brings the target back to where the snapshot was    *)
(* taken and undoes the whole run, however many breakpoints, signals and   *)
(* restarts were on the way, when the target passes RegionStart once per   *)
(* run and memory is written before runs only.                             *)
THEOREM RestoresToSnapshot ==
  ASSUME ~Reentrant, MemoryAtStart
  PROVE  Spec => []RestoredToSnapshot
<1>1. LoopInv /\ RestoreInv => RestoredToSnapshot
  BY DEF LoopInv, LogInv, BeforeSnapshot, RecordInv, RestoreInv, RestoredToSnapshot
<1> QED BY RestoreInvariant, <1>1, PTL

(* Under the same conditions the snapshot that writing memory destroys and *)
(* makes again stays at RegionStart, run after run.                        *)
THEOREM SnapshotStays ==
  ASSUME ~Reentrant, MemoryAtStart
  PROVE  Spec => []SnapshotAtRegionStart
<1>1. RestoreInv => SnapshotAtRegionStart
  BY DEF RestoreInv
<1> QED BY RestoreInvariant, <1>1, PTL
===============================================================================
