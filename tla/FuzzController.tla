---------------------------- MODULE FuzzController ----------------------------
(***************************************************************************)
(* The fuzzing loop: FuzzController.Fuzz with the fuzz locations it        *)
(* invokes, their triggers and stop conditions, the snapshot it restores   *)
(* and the log files it brackets, against a target under a debugger that   *)
(* may stop wherever gdb can report a stop.                                *)
(*                                                                         *)
(* Locations are numbered in the order of FuzzDescription.FuzzLocation and *)
(* triggers in the order in which their location examines them, so "the    *)
(* next of the list" is the smallest number left.  A run is one execution  *)
(* of the fuzzed region; it is identified by its logger prefix.            *)
(***************************************************************************)
EXTENDS Integers, Sequences, FiniteSets

CONSTANTS
  NumLocations,   \* the number of configured fuzz locations
  Kind,           \* Kind[l]: "memory" (writes target memory) or "socket"
  MaxRuns,        \* MaxRuns[l]: the argument of count|n, or NoLimit for "none"
  NumTriggers,    \* the number of triggers of all locations together
  Owner,          \* Owner[t]: the location trigger t belongs to
  TriggerType,    \* TriggerType[t]: "start", "end" or "location"
  TriggerCount,   \* TriggerCount[t]: its counter argument, 0 when there is none
  TriggerFirst,   \* TriggerFirst[t]: the argument was written with "!"
  TriggerAddr,    \* TriggerAddr[t]: the address of location|..., else NoAddr
  Addr,           \* the addresses the target may stop at (0 is "not known")
  SnapshotBreakpoint, RestoreBreakpoint,  \* RegionStart and RegionEnd
  Reentrant,      \* the target may pass RegionStart again before RegionEnd
  MaxPrefix,      \* bound: no run is started with a larger prefix
  MaxTrail        \* bound: breakpoint stops between two restores

NoLimit == -1
Location == 1..NumLocations
Trigger  == 1..NumTriggers
NoAddr == 0

ASSUME ConfigAssumption ==
  /\ NumLocations \in Nat /\ NumTriggers \in Nat
  /\ Kind \in [Location -> {"memory", "socket"}]
  /\ MaxRuns \in [Location -> Int]
  /\ Owner \in [Trigger -> Location]
  /\ TriggerType \in [Trigger -> {"start", "end", "location"}]
  /\ TriggerCount \in [Trigger -> Nat]
  /\ TriggerFirst \in [Trigger -> BOOLEAN]
  /\ TriggerAddr \in [Trigger -> Addr \union {NoAddr}]
  /\ Addr \subseteq Nat \ {NoAddr}
  /\ SnapshotBreakpoint \in Addr /\ RestoreBreakpoint \in Addr
  /\ Reentrant \in BOOLEAN
  /\ MaxPrefix \in Nat /\ MaxTrail \in Nat

VARIABLES
  pc,         \* where Fuzz() is
  locations,  \* FuzzDescription.FuzzLocation
  pending,    \* InvokeFuzzLocations: locations not visited yet
  toRemove,   \* InvokeFuzzLocations: fuzzLocationsToRemove
  rounds,     \* CountFuzzStopCondition._current of every location
  count,      \* Trigger._currentCount of every trigger
  first,      \* Trigger._triggerFirst of every trigger
  snapshot,   \* address of the snapshot's breakpoint, NoAddr: _snapshot = null
  lastStop,   \* _connector.LastDebuggerStop
  alive,      \* the debuggee exists
  base,       \* where its execution record begins, NoAddr: not recording
  trail,      \* the breakpoint stops recorded since base
  prefix,     \* loggerPrefix
  started,    \* prefixes the loggers got StartingFuzzRun for
  finished,   \* prefixes the loggers got FinishedFuzzRun for
  errors,     \* prefixes of the entries of the error log
  crashed,    \* history: prefixes of runs that stopped without a breakpoint
  fuzzed,     \* history: prefixes of runs a location was run before
  lastRun,    \* history: prefix each location was last run before, 0: never
  mishaps     \* history: the outside events that can break the loop

invokeVars  == <<locations, pending, toRemove>>
triggerVars == <<count, first>>
targetVars  == <<lastStop, alive, base, trail>>
logVars     == <<prefix, started, finished, errors>>
histVars    == <<crashed, fuzzed, lastRun, mishaps>>
vars == <<pc, invokeVars, rounds, triggerVars, snapshot, targetVars, logVars, histVars>>

NoStop  == [reason |-> "None", addr |-> NoAddr]
Stop(r, a) == [reason |-> r, addr |-> a]
Control == {"top", "branch", "end", "finish", "restore", "next", "start",
            "continue", "done", "failed", "blocked"}

TypeOK ==
  /\ pc \in Control
  /\ locations \subseteq Location /\ pending \subseteq Location
  /\ toRemove \subseteq Location
  /\ rounds \in [Location -> Nat]
  /\ count \in [Trigger -> Nat] /\ first \in [Trigger -> BOOLEAN]
  /\ snapshot \in Addr \union {NoAddr}
  /\ lastStop \in {NoStop, Stop("Exit", NoAddr)}
                   \union [reason: {"Breakpoint", "Terminated"}, addr: Addr]
  /\ alive \in BOOLEAN /\ base \in Addr \union {NoAddr} /\ trail \in Seq(Addr)
  /\ prefix \in Nat /\ started \subseteq Nat /\ finished \subseteq Nat
  /\ errors \subseteq Nat /\ crashed \subseteq Nat /\ fuzzed \subseteq Nat
  /\ lastRun \in [Location -> Nat] /\ mishaps \subseteq {"exit", "socket"}

(* The program is loaded and not started, the prefix is already 1. *)
Init ==
  /\ pc = "top"
  /\ locations = Location /\ pending = {} /\ toRemove = {}
  /\ rounds = [l \in Location |-> 0]
  /\ count = [t \in Trigger |-> 0] /\ first = TriggerFirst
  /\ snapshot = NoAddr
  /\ lastStop = NoStop /\ alive = FALSE /\ base = NoAddr /\ trail = <<>>
  /\ prefix = 1 /\ started = {} /\ finished = {} /\ errors = {}
  /\ crashed = {} /\ fuzzed = {} /\ lastRun = [l \in Location |-> 0]
  /\ mishaps = {}

-----------------------------------------------------------------------------
(* The debugger and the target.                                            *)

(* The addresses gdb holds a breakpoint for: the region's two, those of    *)
(* location triggers, and the one a snapshot sets where it was taken.      *)
Breakpoints ==
  ({SnapshotBreakpoint, RestoreBreakpoint, snapshot} \union {TriggerAddr[t] : t \in Trigger})
    \ {NoAddr}

(* Whether the target, going forward, may come to the breakpoint at a.     *)
Reachable(a) == a # snapshot \/ a = RestoreBreakpoint \/ base = NoAddr \/ Reentrant

StopAtBreakpoint(a) ==
  /\ lastStop' = Stop("Breakpoint", a)
  /\ alive' = TRUE

StopBySignal ==
  /\ \E a \in Addr : lastStop' = Stop("Terminated", a)
  /\ alive' = TRUE
  /\ UNCHANGED <<base, trail, mishaps>>

(* The process is gone: gdb knows no pc and its record ends. *)
StopByExit ==
  /\ lastStop' = Stop("Exit", NoAddr)
  /\ alive' = FALSE /\ base' = NoAddr /\ trail' = <<>>
  /\ mishaps' = mishaps \union {"exit"}

(* The stop "continue" may end in; "run" when there is no process.  A stop *)
(* without a breakpoint belongs to the run in progress.                    *)
ForwardStop ==
  \/ /\ Len(trail) < MaxTrail
     /\ \E a \in Breakpoints :
          /\ Reachable(a)
          /\ StopAtBreakpoint(a)
          /\ trail' = IF base = NoAddr THEN trail ELSE Append(trail, a)
     /\ UNCHANGED <<base, mishaps>>
  \/ StopBySignal
  \/ StopByExit

(* "reverse-continue" runs back to the breakpoint stop before this one, or *)
(* to the beginning of the record.                                         *)
ReverseStop ==
  LET back == IF lastStop.reason = "Breakpoint" /\ trail # <<>>
              THEN SubSeq(trail, 1, Len(trail) - 1) ELSE trail
  IN  /\ StopAtBreakpoint(IF back = <<>> THEN base ELSE back[Len(back)])
      /\ trail' = back
      /\ UNCHANGED <<base, mishaps>>

(* Mutant of CreateSnapshot: the record is not begun again. *)
BugNoRecord == snapshot' = lastStop.addr /\ base' = NoAddr /\ trail' = <<>>

(* GDBSnapshot's constructor: it needs an address, sets its breakpoint     *)
(* there and begins a new record.                                          *)
CreateSnapshot ==
  /\ snapshot' = lastStop.addr
  /\ base' = IF alive THEN lastStop.addr ELSE NoAddr
  /\ trail' = <<>>

-----------------------------------------------------------------------------
(* Triggers and stop conditions.                                           *)

IsFinished(l) == MaxRuns[l] # NoLimit /\ rounds[l] > MaxRuns[l]

(* _currentCount after NextFuzzRun of a trigger whose counter is n. *)
NextCount(c, n) == IF c + 1 > n THEN 1 ELSE c + 1

(* Trigger.IsTriggered without its side effect. *)
Fires(t, type) ==
  /\ TriggerType[t] = type
  /\ type \in {"start", "end"}
  /\ \/ first[t]
     \/ count[t] = TriggerCount[t]
     \/ TriggerCount[t] = 0

Firing(l, type) == {t \in Trigger : Owner[t] = l /\ Fires(t, type)}

(* The trigger that answers for its location: the first of its list.  If   *)
(* it fires because of "!", that is used up and the count starts again.    *)
UseTrigger(l, type) ==
  LET t == CHOOSE t \in Firing(l, type) : \A u \in Firing(l, type) : t <= u
      c == IF first[t] THEN [count EXCEPT ![t] = 0] ELSE count
  IN  /\ first' = [first EXCEPT ![t] = FALSE]
      /\ count' = [u \in Trigger |->
                     IF Owner[u] = l THEN NextCount(c[u], TriggerCount[u]) ELSE c[u]]

-----------------------------------------------------------------------------
(* FuzzController.Fuzz                                                     *)

LoggerStart(p)  == started' = started \union {p}
LoggerFinish(p) == finished' = finished \union {p}

(* The while condition: no location is left. *)
Finish ==
  /\ pc = "top" /\ locations = {}
  /\ pc' = "done"
  /\ UNCHANGED <<invokeVars, rounds, triggerVars, snapshot, targetVars, logVars, histVars>>

(* Mutant of AtRegionStart: any breakpoint is taken for the region's start. *)
BugAnyBreakpoint == snapshot = NoAddr /\ lastStop.reason = "Breakpoint"

AtRegionStart ==
  /\ snapshot = NoAddr
  /\ lastStop = Stop("Breakpoint", SnapshotBreakpoint)

(* Mutant of TakeSnapshot: the first run is not announced to the loggers. *)
BugFirstRunNotLogged ==
  /\ pc = "top" /\ locations # {}
  /\ AtRegionStart
  /\ CreateSnapshot
  /\ pc' = "branch"
  /\ UNCHANGED <<invokeVars, rounds, triggerVars, lastStop, alive, logVars, histVars>>

TakeSnapshot ==
  /\ pc = "top" /\ locations # {}
  /\ AtRegionStart
  /\ LoggerStart(prefix)
  /\ CreateSnapshot
  /\ pc' = "branch"
  /\ UNCHANGED <<invokeVars, rounds, triggerVars, lastStop, alive,
                 prefix, finished, errors, histVars>>

NoSnapshotYet ==
  /\ pc = "top" /\ locations # {}
  /\ ~AtRegionStart
  /\ pc' = "branch"
  /\ UNCHANGED <<invokeVars, rounds, triggerVars, snapshot, targetVars, logVars, histVars>>

AtRegionEnd == snapshot # NoAddr /\ lastStop = Stop("Breakpoint", RestoreBreakpoint)

(* Mutant of AtError: a target that exits is not an error. *)
BugExitIsNoError == snapshot # NoAddr /\ lastStop.reason = "Terminated"

AtError     == snapshot # NoAddr /\ lastStop.reason # "Breakpoint"

BeginInvoke(phase) ==
  /\ pc' = phase
  /\ pending' = locations
  /\ toRemove' = {}
  /\ UNCHANGED locations

RegionEndReached ==
  /\ pc = "branch" /\ AtRegionEnd
  /\ BeginInvoke("end")
  /\ UNCHANGED <<rounds, triggerVars, snapshot, targetVars, logVars, histVars>>

ErrorReached ==
  /\ pc = "branch" /\ AtError
  /\ errors' = errors \union {prefix}
  /\ BeginInvoke("end")
  /\ UNCHANGED <<rounds, triggerVars, snapshot, targetVars, prefix, started, finished, histVars>>

OtherStop ==
  /\ pc = "branch" /\ ~AtRegionEnd /\ ~AtError
  /\ pc' = "continue"
  /\ UNCHANGED <<invokeVars, rounds, triggerVars, snapshot, targetVars, logVars, histVars>>

(* InvokeFuzzLocations visits location l.                                  *)
Visit(l) ==
  /\ pc \in {"end", "start"}
  /\ l \in pending /\ \A m \in pending : l <= m
  /\ pending' = pending \ {l}
  /\ UNCHANGED locations

SkipFinished(l) ==
  /\ Visit(l) /\ IsFinished(l)
  /\ toRemove' = toRemove \union {l}
  /\ UNCHANGED <<pc, rounds, triggerVars, snapshot, targetVars, logVars, histVars>>

NotTriggered(l) ==
  /\ Visit(l) /\ ~IsFinished(l) /\ Firing(l, pc) = {}
  /\ UNCHANGED <<pc, toRemove, rounds, triggerVars, snapshot, targetVars, logVars, histVars>>

(* BaseFuzzLocation.Run: the stop condition counts and every trigger of    *)
(* the location advances.                                                  *)
Run(l) ==
  /\ Visit(l) /\ ~IsFinished(l) /\ Firing(l, pc) # {}
  /\ UseTrigger(l, pc)
  /\ rounds' = [rounds EXCEPT ![l] = @ + 1]
  /\ fuzzed' = IF pc = "start" THEN fuzzed \union {prefix} ELSE fuzzed
  /\ lastRun' = IF pc = "start" THEN [lastRun EXCEPT ![l] = prefix] ELSE lastRun
  /\ UNCHANGED <<toRemove, lastStop, alive, logVars, crashed>>

(* The data goes out over the socket; connecting or writing may throw.     *)
RunSocket(l) ==
  /\ Kind[l] = "socket"
  /\ Run(l)
  /\ \/ UNCHANGED <<pc, mishaps>>
     \/ pc' = "failed" /\ mishaps' = mishaps \union {"socket"}
  /\ UNCHANGED <<snapshot, base, trail>>

(* Memory cannot be written under a record: the snapshot is destroyed and  *)
(* made again at the last stop, which throws when that has no address.     *)
RunMemory(l) ==
  /\ Kind[l] = "memory"
  /\ Run(l)
  /\ IF lastStop.addr = NoAddr
     THEN pc' = "failed" /\ base' = NoAddr /\ UNCHANGED <<snapshot, trail>>
     ELSE CreateSnapshot /\ UNCHANGED pc
  /\ UNCHANGED mishaps

(* Mutant of InvokeDone: a location is dropped in the pass that ran it.    *)
BugDropAtOnce ==
  /\ pc \in {"end", "start"} /\ pending = {}
  /\ locations' = {l \in locations : ~IsFinished(l)}
  /\ toRemove' = {}
  /\ pc' = IF pc = "end" THEN "finish" ELSE "continue"
  /\ UNCHANGED <<pending, rounds, triggerVars, snapshot, targetVars, logVars, histVars>>

(* Mutant of InvokeDone: finished locations stay in the list. *)
BugNeverRemoved ==
  /\ pc \in {"end", "start"} /\ pending = {}
  /\ toRemove' = {}
  /\ pc' = IF pc = "end" THEN "finish" ELSE "continue"
  /\ UNCHANGED <<locations, pending, rounds, triggerVars, snapshot, targetVars, logVars, histVars>>

InvokeDone ==
  /\ pc \in {"end", "start"} /\ pending = {}
  /\ locations' = locations \ toRemove
  /\ toRemove' = {}
  /\ pc' = IF pc = "end" THEN "finish" ELSE "continue"
  /\ UNCHANGED <<pending, rounds, triggerVars, snapshot, targetVars, logVars, histVars>>

FinishRun ==
  /\ pc = "finish"
  /\ LoggerFinish(prefix)
  /\ pc' = "restore"
  /\ UNCHANGED <<invokeVars, rounds, triggerVars, snapshot, targetVars,
                 prefix, started, errors, histVars>>

(* Mutant of Restore: one step back is taken for the restored state. *)
BugOneStepBack ==
  /\ pc = "restore" /\ alive /\ base # NoAddr
  /\ ReverseStop
  /\ pc' = "next"
  /\ UNCHANGED <<invokeVars, rounds, triggerVars, snapshot, logVars, crashed, fuzzed, lastRun>>

(* Mutant of Restore: a stop at the snapshot's address needs no step back. *)
BugWhileRestore ==
  /\ pc = "restore" /\ alive /\ base # NoAddr
  /\ IF lastStop.addr = snapshot
     THEN pc' = "next" /\ UNCHANGED <<targetVars, mishaps>>
     ELSE ReverseStop /\ UNCHANGED pc
  /\ UNCHANGED <<invokeVars, rounds, triggerVars, snapshot, logVars, crashed, fuzzed, lastRun>>

(* Mutant of Restore: it steps back whether or not there is a record. *)
BugUnrecorded ==
  /\ pc = "restore"
  /\ ReverseStop
  /\ pc' = IF lastStop'.addr = snapshot THEN "next" ELSE "restore"
  /\ UNCHANGED <<invokeVars, rounds, triggerVars, snapshot, logVars, crashed, fuzzed, lastRun>>

(* One turn of GDBSnapshot.Restore: reverse-continue until the stop has    *)
(* the snapshot's address.  Without a process gdb starts it again; a stop  *)
(* without a breakpoint is dereferenced (null) and throws; a process that  *)
(* is not recorded cannot go back, and no handler knows gdb's answer.      *)
Restore ==
  /\ pc = "restore"
  /\ \/ /\ alive /\ base # NoAddr
        /\ ReverseStop
        /\ pc' = IF lastStop'.addr = snapshot THEN "next" ELSE "restore"
     \/ /\ alive /\ base = NoAddr
        /\ pc' = "blocked"
        /\ UNCHANGED <<targetVars, mishaps>>
     \/ /\ ~alive
        /\ ForwardStop
        /\ pc' = IF lastStop'.reason # "Breakpoint" THEN "failed"
                 ELSE IF lastStop'.addr = snapshot THEN "next" ELSE "restore"
  /\ UNCHANGED <<invokeVars, rounds, triggerVars, snapshot, logVars, crashed, fuzzed, lastRun>>

(* Mutant of NextRun: the loggers start before the prefix is increased. *)
BugStartBeforePrefix ==
  /\ pc = "next"
  /\ prefix' = prefix + 1
  /\ LoggerStart(prefix)
  /\ count' = [t \in Trigger |-> IF Owner[t] \in locations
                                 THEN NextCount(count[t], TriggerCount[t]) ELSE count[t]]
  /\ BeginInvoke("start")
  /\ UNCHANGED <<rounds, first, snapshot, targetVars, finished, errors, histVars>>

(* IncrementLoggerPrefix, LoggerStartFuzzRun, FuzzDescription.NextFuzzRun. *)
NextRun ==
  /\ pc = "next"
  /\ prefix' = prefix + 1
  /\ LoggerStart(prefix + 1)
  /\ count' = [t \in Trigger |-> IF Owner[t] \in locations
                                 THEN NextCount(count[t], TriggerCount[t]) ELSE count[t]]
  /\ BeginInvoke("start")
  /\ UNCHANGED <<rounds, first, snapshot, targetVars, finished, errors, histVars>>

(* DebugContinue: Fuzz waits until the target stops. *)
DebugContinue ==
  /\ pc = "continue"
  /\ prefix <= MaxPrefix
  /\ ForwardStop
  /\ crashed' = IF snapshot # NoAddr /\ lastStop'.reason # "Breakpoint"
                THEN crashed \union {prefix} ELSE crashed
  /\ pc' = "top"
  /\ UNCHANGED <<invokeVars, rounds, triggerVars, snapshot, logVars, fuzzed, lastRun>>

(* Fuzz() has returned, thrown or hangs; or the bound on runs is reached.   *)
Terminated ==
  /\ \/ pc \in {"done", "failed", "blocked"}
     \/ pc = "continue" /\ prefix > MaxPrefix
  /\ UNCHANGED vars

Next ==
  \/ Finish \/ TakeSnapshot \/ NoSnapshotYet
  \/ RegionEndReached \/ ErrorReached \/ OtherStop
  \/ \E l \in Location : SkipFinished(l) \/ NotTriggered(l) \/ RunSocket(l) \/ RunMemory(l)
  \/ InvokeDone \/ FinishRun \/ Restore \/ NextRun \/ DebugContinue
  \/ Terminated

Spec == Init /\ [][Next]_vars

(* Fairness.  Fuzz() is one thread and never waits but for the target.     *)
(* Every DebugContinue is assumed to end: a target let run comes to the    *)
(* region again and again, and each run of the region ends.                *)
RunEnds == lastStop'.reason # "Breakpoint" \/ lastStop'.addr = RestoreBreakpoint
RegionEntered == lastStop' = Stop("Breakpoint", SnapshotBreakpoint)
FairSpec ==
  /\ Spec
  /\ WF_vars(Next)
  /\ SF_vars(DebugContinue /\ snapshot = NoAddr /\ RegionEntered)
  /\ SF_vars(DebugContinue /\ snapshot # NoAddr /\ RunEnds)

-----------------------------------------------------------------------------
(* Properties                                                              *)

(* The log files of the runs do not overlap and none is missing: while a   *)
(* run of the region is in progress its own prefix, and no other, is open, *)
(* all runs before it were opened and closed, and no prefix is used twice. *)
LogBracketing ==
  IF snapshot = NoAddr
  THEN started = {} /\ finished = {}
  ELSE /\ started = 1..prefix
       /\ finished = IF pc \in {"restore", "next"} THEN 1..prefix
                     ELSE IF pc \in {"failed", "blocked"} THEN finished \intersect started
                     ELSE 1..(prefix - 1)

(* Every run that stopped without a breakpoint is in the error log, under  *)
(* its own prefix, before its log files are closed; no other run is.       *)
CrashReported == errors \subseteq crashed /\ finished \intersect crashed \subseteq errors

(* When Fuzz() returns, the run it leaves open is one no location was run  *)
(* for: nothing generated is missing from the closed log files.            *)
FuzzedRunsFinished == pc = "done" => fuzzed \subseteq finished

(* Fuzz() breaks off or hangs only if the process was gone or the socket   *)
(* failed: the loop itself never asks the debugger for a step back that    *)
(* its record does not hold.                                               *)
FailureHasCause ==
  /\ pc = "blocked" => "exit" \in mishaps
  /\ pc = "failed" => mishaps # {}

(* "restores the state as it was at RegionStart": when Restore returns, the *)
(* target is where the snapshot was taken, with nothing left to undo.      *)
RestoredToSnapshot ==
  pc = "next" => /\ lastStop = Stop("Breakpoint", snapshot)
                 /\ trail = <<>>
                 /\ base = snapshot \/ "exit" \in mishaps

(* "It is assumed that currently the program is stopped at the snapshot":  *)
(* a location that remakes the snapshot leaves it at the region's start.   *)
SnapshotAtRegionStart == snapshot \in {NoAddr, SnapshotBreakpoint}

(* With a count for every location and a trigger that fires, Fuzz() ends.  *)
FuzzEnds == <>(pc \in {"done", "failed", "blocked"})
===============================================================================
