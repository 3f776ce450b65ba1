----------------------------- MODULE HeapAnalysis -----------------------------
(***************************************************************************)
(* What becomes of the allocation log: AnalyzeController goes through the  *)
(* runs, and SimpleHeapOverflowAnalyzer reads a run's lines into a list of *)
(* ranges and reports the memory writes that are near a range and not in   *)
(* one.  The last run is not analyzed: it is not finished when fuzzing     *)
(* stops.                                                                  *)
(***************************************************************************)
EXTENDS AllocationLog

CONSTANT Limit   \* distance from which a write is not the heap's (4096)

ASSUME LimitAssumption == Limit \in Nat

VARIABLES
  phase,    \* fuzzing, or where the analysis is
  prefix,   \* the run that is analyzed
  rest,     \* what the reader has not read of its .pipes file
  ranges,   \* _rangeInfos
  at,       \* the memory change to look at next
  reports   \* the reported changes <<prefix, number>>

analysis == <<phase, prefix, rest, ranges, at, reports>>
vars == <<target, analysis>>

Init ==
  /\ LogInit
  /\ phase = "fuzz" /\ prefix = 0
  /\ rest = <<>> /\ ranges = <<>> /\ at = 1 /\ reports = {}

-----------------------------------------------------------------------------
(* Reading a line.  A piece that begins with ] closes the arguments.       *)

Closes(p) == p.k \in {"sep", "end"}

(* The first index in s, from i on, of a piece in P; 0 when there is none. *)
FirstFrom(s, i, P(_)) ==
  LET found == {j \in i..Len(s) : P(s[j])}
  IN IF found = {} THEN 0 ELSE CHOOSE j \in found : \A k \in found : j <= k

IsSep(p)  == p.k = "sep"
IsHead(p) == p.k = "head"

(* lineId: the text before the first colon is a known name when the line   *)
(* begins with it.                                                         *)
Known(line) == IsHead(line[1]) /\ line[1].f \in {"malloc", "realloc", "calloc"}

(* ExtractBacktrace and ExtractArguments take a substring up to a ] that   *)
(* need not be there.                                                      *)
Throws(line) ==
  LET bt == FirstFrom(line, 1, IsSep) IN
  \/ bt # 0 /\ FirstFrom(line, bt + 1, Closes) = 0
  \/ FirstFrom(line, 1, Closes) = 0

(* The arguments are split at spaces.  A name is recognised behind [ and   *)
(* behind a frame, and everywhere for calloc's size; the returned address  *)
(* only in front of ].  The last value of a name counts.                   *)
Arguments(line) == SubSeq(line, 2, FirstFrom(line, 1, Closes) - 1)

Recognised(args, names, inner) ==
  {i \in DOMAIN args : /\ args[i].k = "args" /\ args[i].f \in names
                       /\ args[i].f \in inner \/ i = 1 \/ args[i - 1].k = "frame"}
Last(S) == CHOOSE i \in S : \A j \in S : j <= i

(* Mutant of HasReturn: (nil) is taken for an address. *)
BugNilIsAddress(args) ==
  args # <<>> /\ LET p == args[Len(args)] IN p.k = "args" /\ p.f \in {"malloc", "calloc"}

(* ParseNumber of return; NULL is written as (nil), which is no number. *)
HasReturn(args) ==
  /\ args # <<>>
  /\ LET p == args[Len(args)] IN p.k = "args" /\ p.f \in {"malloc", "calloc"} /\ p.ret # NULL

(* LH_malloc and LH_calloc: the ranges a line adds. *)
RangeOf(line) ==
  LET args  == Arguments(line)
      sizes == Recognised(args, {"malloc", "calloc"}, {"calloc"})
      nums  == Recognised(args, {"calloc"}, {})
      range(n) == << [addr |-> args[Len(args)].ret, size |-> args[Last(sizes)].size * n] >> IN
  IF ~HasReturn(args) \/ sizes = {} THEN <<>>
  ELSE IF line[1].f # "calloc" THEN range(1)
  ELSE IF nums = {} THEN <<>> ELSE range(args[Last(nums)].num)

-----------------------------------------------------------------------------
(* The distance of a write to the ranges.                                  *)

Abs(n) == IF n < 0 THEN -n ELSE n

(* Mutant of Distance: EndAddress is one too high. *)
BugEndAddress(r, a) ==
  IF a < r.addr THEN a - r.addr ELSE IF a > r.addr + r.size THEN a - r.addr - r.size ELSE 0

Distance(r, a) ==
  LET end == r.addr + r.size - 1
  IN IF a < r.addr THEN a - r.addr ELSE IF a > end THEN a - end ELSE 0

(* The loop over the ranges, for one of the two addresses: a larger        *)
(* distance replaces a smaller one, 0 replaces everything and stays; so    *)
(* leaving the loop when both are 0 changes nothing.                       *)
Chosen(a, latch) ==
  LET pick[i \in 1..Len(ranges)] ==
        LET d == Distance(ranges[i], a) IN
        IF i = 1 THEN d
        ELSE LET p == pick[i - 1] IN
             IF d = 0 \/ ((p # 0 \/ ~latch) /\ Abs(d) > Abs(p)) THEN d ELSE p
  IN pick[Len(ranges)]

Near(d) == d # 0 /\ Abs(d) < Limit

Judged(w, latch) == Near(Chosen(w.addr, latch)) \/ Near(Chosen(w.addr + w.len - 1, latch))

(* Mutant of Reported: a distance of 0 may be replaced. *)
BugNoLatch(w) == Judged(w, FALSE)

Reported(w) == Judged(w, TRUE)

-----------------------------------------------------------------------------
(* The steps of the analysis.                                              *)

Fuzz == phase = "fuzz" /\ Len(runs) < MaxRuns /\ LogNext /\ UNCHANGED analysis

(* The analysis is started later.  What the last run did is not read, so   *)
(* it has done nothing here.                                               *)
StopFuzzing ==
  /\ phase = "fuzz" /\ pipe = <<>> /\ writes = <<>> /\ blocks = {}
  /\ \A t \in Threads : todo[t] = <<>>
  /\ phase' = "next" /\ prefix' = 1
  /\ UNCHANGED <<target, rest, ranges, at, reports>>

Files == runs[prefix].files

NextPrefix(first) ==
  /\ phase = "next" /\ prefix <= Len(runs) /\ Files = {"execlog", "pipes"}
  /\ ranges' = first
  /\ rest' = runs[prefix].pipes
  /\ at' = 1
  /\ phase' = "lines"
  /\ UNCHANGED <<target, prefix, reports>>

(* Mutant of AnalyzeRun: the ranges are not cleared. *)
BugNotCleared == NextPrefix(ranges)

(* Analyze with both files: _rangeInfos.Clear, and the file is opened. *)
AnalyzeRun == NextPrefix(<<>>)

SkipRun ==
  /\ phase = "next" /\ prefix <= Len(runs) /\ Files # {"execlog", "pipes"}
  /\ prefix' = prefix + 1
  /\ UNCHANGED <<target, phase, rest, ranges, at, reports>>

AllAnalyzed ==
  /\ phase = "next" /\ prefix > Len(runs)
  /\ phase' = "done"
  /\ UNCHANGED <<target, prefix, rest, ranges, at, reports>>

IsEnd(p) == p.k = "end"

(* Mutant of LineEnd: a line ends before its last bracket. *)
BugBeforeBracket(s) == LET e == FirstFrom(s, 1, IsEnd) IN IF e < 2 THEN Len(s) ELSE e - 1

(* pipeReader.ReadLine: a last line without newline is a line, too. *)
LineEnd(s) == LET e == FirstFrom(s, 1, IsEnd) IN IF e = 0 THEN Len(s) ELSE e

(* An exception is caught nowhere: it ends the analysis of every run. *)
ReadLine ==
  /\ phase = "lines" /\ rest # <<>>
  /\ LET line == SubSeq(rest, 1, LineEnd(rest)) IN
     IF Known(line) /\ Throws(line)
     THEN phase' = "exception" /\ UNCHANGED <<rest, ranges>>
     ELSE /\ rest' = SubSeq(rest, LineEnd(rest) + 1, Len(rest))
          /\ ranges' = ranges \o IF Known(line) THEN RangeOf(line) ELSE <<>>
          /\ UNCHANGED phase
  /\ UNCHANGED <<target, prefix, at, reports>>

EndOfStream ==
  /\ phase = "lines" /\ rest = <<>>
  /\ IF ranges = <<>> THEN phase' = "next" /\ prefix' = prefix + 1
     ELSE phase' = "changes" /\ UNCHANGED prefix
  /\ UNCHANGED <<target, rest, ranges, at, reports>>

Changes == runs[prefix].changes

AnalyzeChange ==
  /\ phase = "changes" /\ at <= Len(Changes)
  /\ reports' = IF Reported(Changes[at]) THEN reports \union {<<prefix, at>>} ELSE reports
  /\ at' = at + 1
  /\ UNCHANGED <<target, phase, prefix, rest, ranges>>

RunAnalyzed ==
  /\ phase = "changes" /\ at > Len(Changes)
  /\ phase' = "next" /\ prefix' = prefix + 1
  /\ UNCHANGED <<target, rest, ranges, at, reports>>

Next ==
  \/ Fuzz \/ StopFuzzing \/ AnalyzeRun \/ SkipRun \/ AllAnalyzed
  \/ ReadLine \/ EndOfStream \/ AnalyzeChange \/ RunAnalyzed

Spec == Init /\ [][Next]_vars

-----------------------------------------------------------------------------
Piece  == [k: {"head", "args", "sep", "frame", "end", "junk"}, f: Names \union {"none"},
           num: Nat, size: Nat, ret: Nat]
Change == [addr: Nat, len: Nat \ {0}, inside: BOOLEAN]

(* The state of the library and of the analysis. *)
TypeOK ==
  /\ locked \in BOOLEAN
  /\ holder \in Threads \union {Nobody}
  /\ \A t \in Threads : \A i \in DOMAIN todo[t] : todo[t][i] \in Piece
  /\ \A i \in DOMAIN pipe : pipe[i] \in Piece
  /\ \A i \in DOMAIN writes : writes[i] \in Change
  /\ Len(runs) <= MaxRuns
  /\ phase \in {"fuzz", "next", "lines", "changes", "done", "exception"}
  /\ prefix \in 0..Len(runs) + 1
  /\ phase \in {"lines", "changes"} => at \in 1..Len(Changes) + 1
  /\ \A i \in DOMAIN ranges : ranges[i] \in [addr: Nat \ {0}, size: Nat]
  /\ \A r \in reports : r[1] \in DOMAIN runs /\ r[2] \in DOMAIN runs[r[1]].changes

(* The allocations a file tells of: its argument pieces of malloc and      *)
(* calloc that are followed by a ], with what they returned.               *)
Told(s) ==
  {i \in 1..Len(s) - 1 : /\ s[i].k = "args" /\ s[i].f \in {"malloc", "calloc"} /\ s[i].ret # NULL
                         /\ Closes(s[i + 1])}

(* What _rangeInfos stands for: once a file is read there is a range for   *)
(* every allocation it tells of and none else, with the size num * size    *)
(* that was asked for.  Without the lock lines are mixed: still every      *)
(* range begins at an address that a call of this run returned.            *)
RangesAreBlocks ==
  phase = "changes" =>
    LET s == runs[prefix].pipes
        blk(i) == [addr |-> s[i].ret, size |-> s[i].num * s[i].size] IN
    /\ locked => {ranges[i] : i \in DOMAIN ranges} = {blk(i) : i \in Told(s)}
    /\ \A i \in DOMAIN ranges : \E j \in Told(s) : ranges[i].addr = s[j].ret

(* With the lock, a write inside one block of malloc or calloc, whose call *)
(* had returned, is never reported.  (realloc's blocks are unknown, and    *)
(* blocks from before the snapshot are in no file.)                        *)
NoFalseReport ==
  locked => \A r \in reports : ~runs[r[1]].changes[r[2]].inside

(* Reference for Distance: how far a is from a range that does not have it. *)
Outside(r, a) == a < r.addr \/ a >= r.addr + r.size
Gap(r, a)     == IF a < r.addr THEN r.addr - a ELSE a - (r.addr + r.size) + 1

(* A write that begins outside all ranges is reported when all of them are *)
(* nearer than Limit.                                                      *)
NearOverflowReported ==
  phase = "changes" =>
    \A i \in 1..at - 1 :
      LET a == Changes[i].addr IN
      (\A j \in DOMAIN ranges : Outside(ranges[j], a) /\ Gap(ranges[j], a) < Limit)
      => <<prefix, i>> \in reports

(* Only a line that the end of the run cut off makes the analysis throw,   *)
(* mixed lines do not.                                                     *)
ThrowsOnlyOnCutLine ==
  phase = "exception" => ~IsEnd(rest[Len(rest)])

(* SimpleHeapOverflowAnalyzer.cs:185, "Calculate the smallest distance to  *)
(* an allocated block": a write that begins outside all ranges is reported *)
(* when the nearest range is nearer than Limit.                            *)
SmallestDistanceDecides ==
  phase = "changes" =>
    \A i \in 1..at - 1 :
      LET a == Changes[i].addr IN
      /\ \A j \in DOMAIN ranges : Outside(ranges[j], a)
      /\ \E j \in DOMAIN ranges : Gap(ranges[j], a) < Limit
      => <<prefix, i>> \in reports
===============================================================================
