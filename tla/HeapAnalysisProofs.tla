-------------------------- MODULE HeapAnalysisProofs --------------------------
(***************************************************************************)
(* Proofs about HeapAnalysis, for any number of threads, runs, calls and   *)
(* writes and any Limit.                                                   *)
(***************************************************************************)
EXTENDS HeapAnalysis, NaturalsFacts, SequenceTheorems

-----------------------------------------------------------------------------
(* The invariant.                                                          *)

Block  == [addr: Nat, size: Nat, by: {"malloc", "calloc", "realloc"}]
Extent == [addr: Nat \ {0}, size: Nat]
Run    == [files: SUBSET {"execlog", "pipes"}, pipes: Seq(Piece), changes: Seq(Change)]

LogType ==
  /\ locked \in BOOLEAN
  /\ holder \in Threads \union {Nobody}
  /\ todo \in [Threads -> Seq(Piece)]
  /\ made \in [Threads -> SUBSET Block] /\ blocks \subseteq Block
  /\ pipe \in Seq(Piece) /\ writes \in Seq(Change)
  /\ runs \in Seq(Run) /\ Len(runs) <= MaxRuns
  /\ calls \in Nat /\ written \in Nat

AnalysisType ==
  /\ phase \in {"fuzz", "next", "lines", "changes", "done", "exception"}
  /\ prefix \in 0..Len(runs) + 1
  /\ IF phase = "fuzz" THEN prefix = 0 /\ reports = {} ELSE prefix >= 1
  /\ phase \in {"lines", "changes"} => prefix \in DOMAIN runs
  /\ rest \in Seq(Piece) /\ ranges \in Seq(Extent)
  /\ at \in Nat \ {0}
  /\ phase = "lines" => at = 1
  /\ phase = "changes" => at <= Len(Changes) + 1 /\ rest = <<>> /\ ranges # <<>>
  /\ reports \subseteq Nat \X Nat
  /\ \A r \in reports : r[1] \in DOMAIN runs /\ r[2] \in DOMAIN runs[r[1]].changes

(* q may stand behind p in a line, or begin the next one. *)
Follows(p, q) ==
  \/ /\ p.k = "head" /\ q.k = "args" /\ q.f = p.f
     /\ q.f \in {"malloc", "calloc", "free"} /\ (q.f = "malloc" => q.num = 1)
  \/ p.k = "head" /\ q.k = "junk" /\ p.f \notin {"malloc", "calloc", "realloc"}
  \/ p.k \in {"args", "junk"} /\ q.k = "sep"
  \/ p.k = "sep" /\ q.k = "frame"
  \/ p.k = "frame" /\ q.k = "end"
  \/ p.k = "end" /\ q.k = "head"

Chained(s) == \A i \in 1..Len(s) - 1 : Follows(s[i], s[i + 1])
Lines(s)   == Chained(s) /\ (s # <<>> => s[1].k = "head")

(* What is left of a line. *)
Tailing(s) == Chained(s) /\ \A i \in 1..Len(s) : s[i].k = "end" <=> i = Len(s)

(* With the lock, the pipe has whole lines and a beginning of the one that *)
(* the holder writes.                                                      *)
LockInv ==
  /\ \A t \in Threads : /\ Tailing(todo[t])
                        /\ todo[t] # <<>> /\ t # holder => todo[t][1].k = "head"
  /\ holder = Nobody => pipe = <<>> \/ pipe[Len(pipe)].k = "end"
  /\ holder # Nobody => /\ todo[holder] # <<>> /\ pipe # <<>>
                        /\ Follows(pipe[Len(pipe)], todo[holder][1])
                        /\ todo[holder][1].k # "head"
  /\ Lines(pipe)
  /\ \A r \in 1..Len(runs) : Lines(runs[r].pipes)

ArgsFor(p, b) ==
  /\ p.k = "args" /\ p.f \in {"malloc", "calloc"} /\ p.ret # NULL
  /\ p.ret = b.addr /\ p.num * p.size = b.size

ToldBlock(s, b) == \E i \in Told(s) : ArgsFor(s[i], b)
Covered(s, w) ==
  \E i \in Told(s) : s[i].ret <= w.addr /\ w.addr + w.len <= s[i].ret + s[i].num * s[i].size

(* A block of malloc or calloc is in the log when its call has returned.   *)
BlockInv ==
  /\ \A t \in Threads : todo[t] = <<>> => made[t] = {}
  /\ \A t \in Threads : \A b \in made[t] : LET n == Len(todo[t]) IN
       \/ n >= 4 /\ ArgsFor(todo[t][n - 3], b)
       \/ n = 3 /\ holder = t /\ ArgsFor(pipe[Len(pipe)], b)
       \/ n < 3 /\ ToldBlock(pipe, b)
  /\ \A b \in blocks : b.by \in {"malloc", "calloc"} =>
       ToldBlock(pipe, b) \/ \E t \in Threads : b \in made[t]
  /\ \A i \in 1..Len(writes) : writes[i].inside => Covered(pipe, writes[i])
  /\ \A r \in 1..Len(runs) : \A i \in 1..Len(runs[r].changes) :
       runs[r].changes[i].inside => Covered(runs[r].pipes, runs[r].changes[i])

File == runs[prefix].pipes
Read == Len(File) - Len(rest)
Blk(s, i) == [addr |-> s[i].ret, size |-> s[i].num * s[i].size]

(* The reader is behind a line; its ranges are what it has read. *)
ReadInv ==
  phase \in {"lines", "changes"} =>
    /\ Read >= 0
    /\ \A i \in 1..Len(rest) : rest[i] = File[Read + i]
    /\ \A i \in 1..Len(ranges) : \E j \in Told(File) : ranges[i].addr = File[j].ret
    /\ locked => /\ rest # <<>> => rest[1].k = "head"
                 /\ \A i \in 1..Len(ranges) : \E j \in Told(File) : j <= Read /\ ranges[i] = Blk(File, j)
                 /\ \A j \in Told(File) : j <= Read => \E i \in 1..Len(ranges) : ranges[i] = Blk(File, j)

TypeInv == LogType /\ AnalysisType
Inv     == TypeInv /\ (locked => LockInv /\ BlockInv) /\ ReadInv /\ NoFalseReport

-----------------------------------------------------------------------------
(* Lines and what is read from one.                                        *)

(* The least of a set of indices, as FirstFrom chooses it. *)
LEMMA LeastChosen ==
  ASSUME NEW T, T \subseteq Nat, T # {}
  PROVE  LET c == CHOOSE j \in T : \A k \in T : j <= k
         IN  c \in T /\ \A k \in T : c <= k
BY LeastNat

(* The greatest of a bounded one, as Last chooses it. *)
LEMMA LastChosen ==
  ASSUME NEW n \in Nat, NEW T, T \subseteq 0..n, T # {}
  PROVE  Last(T) \in T /\ \A k \in T : k <= Last(T)
BY GreatestNat DEF Last

FirstClosing(s, i) == FirstFrom(s, i, Closes)
FirstSep(s, i)     == FirstFrom(s, i, IsSep)

(* FirstFrom with Closes. *)
LEMMA FirstClosingIs ==
  ASSUME NEW s \in Seq(Piece), NEW i \in Nat \ {0}, NEW c, c = FirstClosing(s, i)
  PROVE  /\ c = 0 => \A k \in i..Len(s) : ~Closes(s[k])
         /\ c # 0 => /\ c \in i..Len(s) /\ Closes(s[c])
                     /\ \A k \in i..Len(s) : Closes(s[k]) => c <= k
         /\ c \in Nat
<1> DEFINE T == {j \in i..Len(s) : Closes(s[j])}
<1>1. T \subseteq Nat /\ 0 \notin T
  OBVIOUS
<1>2. c = IF T = {} THEN 0 ELSE CHOOSE j \in T : \A k \in T : j <= k
  BY DEF FirstFrom, FirstClosing
<1>3. T # {} => c \in T /\ \A k \in T : c <= k
  <2> HIDE DEF T
  <2> QED BY <1>1, <1>2, LeastChosen
<1>4. CASE T = {}
  BY <1>1, <1>2, <1>4
<1>5. CASE T # {}
  <2>1. c \in T /\ c # 0 /\ \A k \in T : c <= k
    BY <1>1, <1>3, <1>5
  <2>2. c \in i..Len(s) /\ Closes(s[c])
    BY <2>1
  <2> QED BY <2>1, <2>2
<1> QED BY <1>4, <1>5

(* FirstFrom with IsSep. *)
LEMMA FirstSepIs ==
  ASSUME NEW s \in Seq(Piece), NEW i \in Nat \ {0}, NEW c, c = FirstSep(s, i)
  PROVE  /\ c = 0 => \A k \in i..Len(s) : ~IsSep(s[k])
         /\ c # 0 => /\ c \in i..Len(s) /\ IsSep(s[c])
                     /\ \A k \in i..Len(s) : IsSep(s[k]) => c <= k
         /\ c \in Nat
<1> DEFINE T == {j \in i..Len(s) : IsSep(s[j])}
<1>1. T \subseteq Nat /\ 0 \notin T
  OBVIOUS
<1>2. c = IF T = {} THEN 0 ELSE CHOOSE j \in T : \A k \in T : j <= k
  BY DEF FirstFrom, FirstSep
<1>3. T # {} => c \in T /\ \A k \in T : c <= k
  <2> HIDE DEF T
  <2> QED BY <1>1, <1>2, LeastChosen
<1>4. CASE T = {}
  BY <1>1, <1>2, <1>4
<1>5. CASE T # {}
  <2>1. c \in T /\ c # 0 /\ \A k \in T : c <= k
    BY <1>1, <1>3, <1>5
  <2>2. c \in i..Len(s) /\ IsSep(s[c])
    BY <2>1
  <2> QED BY <2>1, <2>2
<1> QED BY <1>4, <1>5

(* LineEnd: the first end, or the end of the file. *)
LEMMA LineEndIs ==
  ASSUME NEW s \in Seq(Piece), s # <<>>, NEW e, e = LineEnd(s)
  PROVE  /\ e \in 1..Len(s)
         /\ \A k \in 1..e - 1 : ~IsEnd(s[k])
         /\ IsEnd(s[e]) \/ e = Len(s)
<1> DEFINE T == {j \in 1..Len(s) : IsEnd(s[j])}
           f == IF T = {} THEN 0 ELSE CHOOSE j \in T : \A k \in T : j <= k
<1>1. T \subseteq Nat /\ 0 \notin T
  OBVIOUS
<1>2. e = IF f = 0 THEN Len(s) ELSE f
  BY DEF LineEnd, FirstFrom
<1>3. T # {} => f \in T /\ \A k \in T : f <= k
  <2> HIDE DEF T
  <2> QED BY <1>1, LeastChosen
<1>4. Len(s) \in Nat /\ Len(s) >= 1
  OBVIOUS
<1>5. CASE T = {}
  <2>1. e = Len(s)
    BY <1>2, <1>5
  <2> QED BY <2>1, <1>4, <1>5
<1>6. CASE T # {}
  <2>1. e = f /\ f \in T
    BY <1>1, <1>2, <1>3, <1>6
  <2> HIDE DEF f
  <2> QED BY <2>1, <1>3, <1>4, <1>6
<1> QED BY <1>5, <1>6

(* The line and what is behind it. *)
LEMMA LineIs ==
  ASSUME NEW s \in Seq(Piece), NEW e \in 1..Len(s), NEW line, line = SubSeq(s, 1, e),
         NEW next, next = SubSeq(s, e + 1, Len(s))
  PROVE  /\ line \in Seq(Piece) /\ Len(line) = e /\ \A i \in 1..e : line[i] = s[i]
         /\ next \in Seq(Piece) /\ Len(next) = Len(s) - e
         /\ \A i \in 1..Len(next) : next[i] = s[e + i]
<1>1. Len(s) \in Nat
  OBVIOUS
<1>2. \A i \in 1..Len(s) : s[i] \in Piece
  OBVIOUS
<1>3. /\ Len(line) = e /\ line \in Seq(Piece) /\ \A i \in 1..e : line[i] = s[1 + i - 1]
  BY <1>1, <1>2, SubSeqProperties
<1>4. /\ Len(next) = Len(s) - e /\ next \in Seq(Piece)
      /\ \A i \in 1..Len(next) : next[i] = s[e + 1 + i - 1]
  <2>1. CASE e = Len(s)
    <3>1. next = <<>>
      BY <2>1, <1>1
    <3> QED BY <3>1, <2>1
  <2>2. CASE e < Len(s)
    BY <1>1, <1>2, <2>2, SubSeqProperties
  <2> QED BY <2>1, <2>2, <1>1
<1>5. \A i \in 1..e : 1 + i - 1 = i
  BY <1>1
<1>6. \A i \in 1..Len(next) : e + 1 + i - 1 = e + i
  BY <1>1, <1>4
<1> QED BY <1>3, <1>4, <1>5, <1>6

(* Throws, in terms of the two. *)
LEMMA ThrowsIs ==
  ASSUME NEW line
  PROVE  Throws(line) <=>
           \/ FirstSep(line, 1) # 0 /\ FirstClosing(line, FirstSep(line, 1) + 1) = 0
           \/ FirstClosing(line, 1) = 0
BY DEF Throws, FirstSep, FirstClosing, FirstFrom

(* A line that ends with end does not throw. *)
LEMMA WholeLine ==
  ASSUME NEW line \in Seq(Piece), line # <<>>, IsEnd(line[Len(line)])
  PROVE  ~Throws(line)
<1> DEFINE bt == FirstSep(line, 1)
           c == FirstClosing(line, 1)
           d == FirstClosing(line, bt + 1)
<1>1. Len(line) \in Nat /\ Len(line) >= 1 /\ Closes(line[Len(line)])
  BY DEF IsEnd, Closes
<1>2. ~IsSep(line[Len(line)])
  BY DEF IsEnd, IsSep
<1>3. c # 0
  BY <1>1, FirstClosingIs
<1>4. bt \in Nat /\ (bt # 0 => bt \in 1..Len(line) /\ IsSep(line[bt]))
  BY FirstSepIs
<1>5. bt # 0 => bt + 1 <= Len(line)
  BY <1>1, <1>2, <1>4
<1>6. bt + 1 \in Nat \ {0}
  BY <1>4
<1>7. bt # 0 => d # 0
  <2> HIDE DEF bt
  <2> QED BY <1>1, <1>5, <1>6, FirstClosingIs
<1> HIDE DEF bt, c, d
<1> QED BY <1>3, <1>7, ThrowsIs DEF bt, c, d

(* The product of two naturals, which SMT is not asked for elsewhere. *)
LEMMA TimesNat ==
  ASSUME NEW m \in Nat, NEW n \in Nat
  PROVE  m * n \in Nat /\ m * n = n * m
OBVIOUS

(* The arguments of a line: what is between its first piece and the first  *)
(* closing one.                                                            *)
LEMMA ArgumentsAre ==
  ASSUME NEW line \in Seq(Piece), NEW c, c = FirstClosing(line, 1), c >= 2,
         NEW args, args = Arguments(line)
  PROVE  /\ c <= Len(line) /\ Closes(line[c])
         /\ args \in Seq(Piece) /\ Len(args) = c - 2
         /\ \A i \in 1..Len(args) : args[i] = line[i + 1]
<1>1. c \in 1..Len(line) /\ Closes(line[c]) /\ Len(line) \in Nat
  BY FirstClosingIs
<1>2. args = SubSeq(line, 2, c - 1)
  BY DEF Arguments, FirstClosing
<1>3. \A i \in 1..Len(line) : line[i] \in Piece
  OBVIOUS
<1>4. CASE c = 2
  <2>1. args = <<>>
    BY <1>1, <1>2, <1>4
  <2> QED BY <1>1, <1>4, <2>1
<1>5. CASE c > 2
  <2>1. /\ Len(args) = c - 1 - 2 + 1 /\ args \in Seq(Piece)
        /\ \A i \in 1..c - 1 - 2 + 1 : args[i] = line[2 + i - 1]
    BY <1>1, <1>2, <1>3, <1>5, SubSeqProperties
  <2>2. c - 1 - 2 + 1 = c - 2 /\ \A i \in 1..c - 2 : 2 + i - 1 = i + 1
    BY <1>1
  <2> QED BY <1>1, <2>1, <2>2
<1> QED BY <1>1, <1>4, <1>5

(* A known line begins with head, so its first closing piece is not its    *)
(* first.                                                                  *)
LEMMA KnownLine ==
  ASSUME NEW line \in Seq(Piece), line # <<>>, Known(line), ~Throws(line)
  PROVE  FirstClosing(line, 1) \in 2..Len(line)
<1>1. ~Closes(line[1])
  BY DEF Known, IsHead, Closes
<1>2. FirstClosing(line, 1) # 0
  BY ThrowsIs
<1> QED BY <1>1, <1>2, FirstClosingIs

(* A line adds at most one range; it begins where an argument piece that   *)
(* is closed says.                                                         *)
LEMMA RangeOfLine ==
  ASSUME NEW line \in Seq(Piece), line # <<>>, Known(line), ~Throws(line)
  PROVE  /\ RangeOf(line) \in Seq(Extent)
         /\ \A i \in 1..Len(RangeOf(line)) :
              \E j \in Told(line) : RangeOf(line)[i].addr = line[j].ret
<1> DEFINE args == Arguments(line)
           sizes == Recognised(args, {"malloc", "calloc"}, {"calloc"})
           nums == Recognised(args, {"calloc"}, {})
           range(n) == << [addr |-> args[Len(args)].ret, size |-> args[Last(sizes)].size * n] >>
           c == FirstClosing(line, 1)
<1>1. c \in 2..Len(line) /\ Len(line) \in Nat
  BY KnownLine
<1>2. /\ Closes(line[c]) /\ args \in Seq(Piece) /\ Len(args) = c - 2
      /\ \A i \in 1..Len(args) : args[i] = line[i + 1]
  <2> HIDE DEF c, args
  <2> QED BY <1>1, ArgumentsAre DEF c, args
<1>3. /\ sizes \subseteq 0..Len(args) /\ sizes \subseteq 1..Len(args)
      /\ nums \subseteq 0..Len(args) /\ nums \subseteq 1..Len(args)
  <2> HIDE DEF args, c
  <2> QED BY <1>2 DEF Recognised
<1>4. RangeOf(line) = IF ~HasReturn(args) \/ sizes = {} THEN <<>>
                      ELSE IF line[1].f # "calloc" THEN range(1)
                      ELSE IF nums = {} THEN <<>> ELSE range(args[Last(nums)].num)
  BY DEF RangeOf
<1>5. ASSUME HasReturn(args), sizes # {}, NEW n \in Nat
      PROVE  /\ range(n) \in Seq(Extent) /\ Len(range(n)) = 1
             /\ \A i \in 1..1 : \E j \in Told(line) : range(n)[i].addr = line[j].ret
  <2> DEFINE r == args[Len(args)].ret
             z == args[Last(sizes)].size
  <2>1. Last(sizes) \in 1..Len(args)
    <3> HIDE DEF sizes, args
    <3>1. Len(args) \in Nat
      BY <1>2
    <3> QED BY <1>3, <1>5, <3>1, LastChosen
  <2>2. /\ args # <<>> /\ args[Len(args)].k = "args" /\ args[Len(args)].f \in {"malloc", "calloc"}
        /\ args[Len(args)].ret # 0
    <3> HIDE DEF args
    <3> QED BY <1>5 DEF HasReturn, NULL
  <2>3. c > 2 /\ args[Len(args)] = line[c - 1]
    <3> HIDE DEF args, c
    <3> QED BY <1>1, <1>2, <2>2
  <2>4. c - 1 \in Told(line)
    <3> HIDE DEF args, c
    <3>1. c - 1 \in 1..Len(line) - 1 /\ (c - 1) + 1 = c
      BY <1>1, <2>3
    <3> QED BY <1>2, <2>2, <2>3, <3>1 DEF Told, NULL
  <2>5. r \in Nat \ {0} /\ z \in Nat /\ r = line[c - 1].ret
    <3> HIDE DEF args, c, sizes
    <3>1. args[Len(args)] \in Piece /\ args[Last(sizes)] \in Piece
      BY <1>2, <2>1, <2>2
    <3> QED BY <2>2, <2>3, <3>1 DEF Piece
  <2>6. z * n \in Nat
    <3> HIDE DEF z
    <3> QED BY <1>5, <2>5, TimesNat
  <2>7. [addr |-> r, size |-> z * n] \in Extent
    <3> HIDE DEF r, z
    <3> QED BY <2>5, <2>6 DEF Extent
  <2>8. range(n) = <<[addr |-> r, size |-> z * n]>>
    OBVIOUS
  <2> HIDE DEF r, z, range, c
  <2> QED BY <2>4, <2>5, <2>7, <2>8
<1>6. HasReturn(args) /\ nums # {} => args[Last(nums)].num \in Nat
  <2> HIDE DEF args, nums
  <2>1. nums # {} => Last(nums) \in 1..Len(args)
    <3>1. Len(args) \in Nat
      BY <1>2
    <3> QED BY <1>3, <3>1, LastChosen
  <2>2. nums # {} => args[Last(nums)] \in Piece
    BY <1>2, <2>1, ElementOfSeq
  <2> QED BY <2>2 DEF Piece
<1>7. RangeOf(line) = <<>> \/ (HasReturn(args) /\ sizes # {} /\ \E n \in Nat : RangeOf(line) = range(n))
  <2> HIDE DEF args, sizes, nums, range
  <2> QED BY <1>4, <1>6
<1>8. CASE RangeOf(line) = <<>>
  BY <1>8
<1>9. CASE HasReturn(args) /\ sizes # {} /\ \E n \in Nat : RangeOf(line) = range(n)
  <2> HIDE DEF args, sizes, nums, range, c
  <2>1. PICK n \in Nat : RangeOf(line) = range(n)
    BY <1>9
  <2>2. /\ range(n) \in Seq(Extent) /\ Len(range(n)) = 1
        /\ \A i \in 1..1 : \E j \in Told(line) : range(n)[i].addr = line[j].ret
    BY <1>5, <1>9
  <2> QED BY <2>1, <2>2
<1> QED BY <1>7, <1>8, <1>9

(* A whole line that the lock kept together adds what was asked for. *)
LEMMA RangeOfWholeLine ==
  ASSUME NEW line \in Seq(Piece), Len(line) = 5, Lines(line), Known(line)
  PROVE  /\ 2 \in Told(line) <=> line[2].ret # NULL
         /\ RangeOf(line) = IF 2 \in Told(line) THEN <<Blk(line, 2)>> ELSE <<>>
<1>1. \A i \in 1..5 : line[i] \in Piece
  <2>1. \A i \in 1..Len(line) : line[i] \in Piece
    BY ElementOfSeq
  <2> QED BY <2>1
<1>2. \A i \in 1..4 : Follows(line[i], line[i + 1])
  BY DEF Lines, Chained
<1>3. line[1].k = "head" /\ line[1].f \in {"malloc", "realloc", "calloc"}
  BY DEF Known, IsHead
<1>4. Follows(line[1], line[2]) /\ Follows(line[2], line[3])
  <2>1. 1 + 1 = 2 /\ 2 + 1 = 3
    OBVIOUS
  <2> QED BY <1>2, <2>1
<1>5. /\ line[2].k = "args" /\ line[2].f = line[1].f /\ line[2].f \in {"malloc", "calloc"}
      /\ line[2].f = "malloc" => line[2].num = 1
  BY <1>3, <1>4 DEF Follows
<1>6. line[3].k = "sep"
  BY <1>4, <1>5 DEF Follows
<1>7. Closes(line[3]) /\ ~Closes(line[1]) /\ ~Closes(line[2])
  BY <1>3, <1>5, <1>6 DEF Closes
<1>8. FirstClosing(line, 1) = 3
  <2> DEFINE c == FirstClosing(line, 1)
  <2>1. /\ c = 0 => \A k \in 1..5 : ~Closes(line[k])
        /\ c # 0 => c \in 1..5 /\ Closes(line[c]) /\ \A k \in 1..5 : Closes(line[k]) => c <= k
        /\ c \in Nat
    <3>1. 1 \in Nat \ {0}
      OBVIOUS
    <3> QED BY <3>1, FirstClosingIs
  <2> HIDE DEF c
  <2>2. c # 0 /\ c <= 3
    BY <1>7, <2>1
  <2>3. c # 1 /\ c # 2
    BY <1>7, <2>1, <2>2
  <2>4. c = 3
    BY <2>1, <2>2, <2>3
  <2> QED BY <2>4 DEF c
<1> DEFINE args == Arguments(line)
           sizes == Recognised(args, {"malloc", "calloc"}, {"calloc"})
           nums == Recognised(args, {"calloc"}, {})
           range(n) == << [addr |-> args[Len(args)].ret, size |-> args[Last(sizes)].size * n] >>
<1>9. Len(args) = 1 /\ args[1] = line[2] /\ args # <<>> /\ DOMAIN args = {1}
  <2> HIDE DEF args
  <2>1. args \in Seq(Piece) /\ Len(args) = 3 - 2 /\ \A i \in 1..Len(args) : args[i] = line[i + 1]
    <3> DEFINE c == FirstClosing(line, 1)
    <3>1. c = 3 /\ c >= 2
      BY <1>8
    <3> HIDE DEF c
    <3>2. args \in Seq(Piece) /\ Len(args) = c - 2 /\ \A i \in 1..Len(args) : args[i] = line[i + 1]
      BY <3>1, ArgumentsAre DEF args, c
    <3> QED BY <3>1, <3>2
  <2>2. Len(args) = 1 /\ 1 + 1 = 2
    BY <2>1
  <2>3. args[1] = line[2]
    BY <2>1, <2>2
  <2>4. DOMAIN args = 1..1
    BY <2>1, <2>2, LenProperties
  <2>5. args # <<>> /\ 1..1 = {1}
    BY <2>2
  <2> QED BY <2>2, <2>3, <2>4, <2>5
<1>10. sizes = {1} /\ nums = IF line[2].f = "calloc" THEN {1} ELSE {}
  <2> HIDE DEF args
  <2>1. sizes = {1}
    BY <1>5, <1>9 DEF Recognised
  <2>2. nums = IF line[2].f = "calloc" THEN {1} ELSE {}
    BY <1>5, <1>9 DEF Recognised
  <2> QED BY <2>1, <2>2
<1>11. Last({1}) = 1
  BY DEF Last
<1>12. 2 \in Told(line) <=> line[2].ret # NULL
  <2>1. 2 \in 1..Len(line) - 1 /\ 2 + 1 = 3
    OBVIOUS
  <2> QED BY <1>5, <1>7, <2>1 DEF Told
<1>13. HasReturn(args) <=> 2 \in Told(line)
  <2> HIDE DEF args
  <2> QED BY <1>5, <1>9, <1>12 DEF HasReturn
<1>14. RangeOf(line) = IF ~HasReturn(args) \/ sizes = {} THEN <<>>
                      ELSE IF line[1].f # "calloc" THEN range(1)
                      ELSE IF nums = {} THEN <<>> ELSE range(args[Last(nums)].num)
  BY DEF RangeOf
<1>15. range(line[2].num) = <<Blk(line, 2)>>
  <2>1. range(line[2].num) = << [addr |-> line[2].ret, size |-> line[2].size * line[2].num] >>
    <3> HIDE DEF args, sizes
    <3> QED BY <1>9, <1>10, <1>11
  <2>2. line[2].num \in Nat /\ line[2].size \in Nat
    <3>1. line[2] \in Piece
      BY <1>1
    <3> QED BY <3>1 DEF Piece
  <2>3. line[2].size * line[2].num = line[2].num * line[2].size
    BY <2>2, TimesNat
  <2> HIDE DEF range
  <2> QED BY <2>1, <2>3 DEF Blk
<1>16. CASE line[2].f = "calloc"
  <2> HIDE DEF args, sizes, nums, range
  <2>1. nums # {} /\ args[Last(nums)].num = line[2].num
    BY <1>16, <1>9, <1>10, <1>11
  <2> QED BY <1>5, <1>10, <1>12, <1>13, <1>14, <1>15, <1>16, <2>1
<1>17. CASE line[2].f = "malloc"
  <2> HIDE DEF args, sizes, nums, range
  <2> QED BY <1>5, <1>10, <1>12, <1>13, <1>14, <1>15, <1>17
<1> QED BY <1>5, <1>16, <1>17

-----------------------------------------------------------------------------
(* The loop over the ranges.                                               *)

(* One turn of the loop: the distance kept when p was, and d is met. *)
Turn(p, d, latch) == IF d = 0 \/ ((p # 0 \/ ~latch) /\ Abs(d) > Abs(p)) THEN d ELSE p

(* A distance is an integer. *)
LEMMA DistanceInt ==
  ASSUME NEW r \in Extent, NEW a \in Int
  PROVE  Distance(r, a) \in Int
BY DEF Distance, Extent

(* The recursive function of Chosen exists: its equation has a solution. *)
LEMMA LoopExists ==
  ASSUME ranges \in Seq(Extent), NEW a \in Int, NEW latch \in BOOLEAN
  PROVE  \E g \in [1..Len(ranges) -> Int] : \A i \in 1..Len(ranges) :
           g[i] = IF i = 1 THEN Distance(ranges[i], a)
                  ELSE Turn(g[i - 1], Distance(ranges[i], a), latch)
<1> DEFINE N == Len(ranges)
           D(i) == Distance(ranges[i], a)
           Good(n, g) == \A i \in 1..n : g[i] = IF i = 1 THEN D(i) ELSE Turn(g[i - 1], D(i), latch)
           S == {n \in Nat : n <= N => \E g \in [1..n -> Int] : Good(n, g)}
<1>1. N \in Nat
  OBVIOUS
<1>2. \A i \in 1..N : D(i) \in Int
  BY DistanceInt
<1>3. ASSUME NEW p \in Int, NEW d \in Int PROVE Turn(p, d, latch) \in Int
  BY DEF Turn
<1> HIDE DEF N, D
<1>4. 0 \in S
  <2>1. Good(0, [i \in 1..0 |-> 0])
    OBVIOUS
  <2>2. [i \in 1..0 |-> 0] \in [1..0 -> Int]
    OBVIOUS
  <2> QED BY <1>1, <2>1, <2>2
<1>5. ASSUME NEW n \in Nat, n \in S PROVE n + 1 \in S
  <2> SUFFICES ASSUME n + 1 <= N PROVE \E g \in [1..n + 1 -> Int] : Good(n + 1, g)
    BY <1>5
  <2>1. PICK g \in [1..n -> Int] : Good(n, g)
    BY <1>1, <1>5
  <2> DEFINE v == IF n = 0 THEN D(1) ELSE Turn(g[n], D(n + 1), latch)
             h == [i \in 1..n + 1 |-> IF i = n + 1 THEN v ELSE g[i]]
  <2>2. v \in Int
    <3>1. CASE n = 0
      BY <1>1, <1>2, <3>1
    <3>2. CASE n # 0
      <4>1. g[n] \in Int /\ D(n + 1) \in Int
        BY <1>1, <1>2, <3>2
      <4>2. Turn(g[n], D(n + 1), latch) \in Int
        BY <4>1, <1>3
      <4> QED BY <3>2, <4>2
    <3> QED BY <3>1, <3>2
  <2>3. h \in [1..n + 1 -> Int]
    <3> HIDE DEF v
    <3> QED BY <2>2
  <2>4. Good(n + 1, h)
    <3> SUFFICES ASSUME NEW i \in 1..n + 1
                 PROVE  h[i] = IF i = 1 THEN D(i) ELSE Turn(h[i - 1], D(i), latch)
      OBVIOUS
    <3>1. CASE i = n + 1
      <4>1. h[i] = v
        <5> HIDE DEF v
        <5> QED BY <3>1
      <4>2. i # 1 => h[i - 1] = g[n]
        <5> HIDE DEF v
        <5> QED BY <3>1
      <4> HIDE DEF h
      <4> QED BY <3>1, <4>1, <4>2
    <3>2. CASE i # n + 1
      <4>1. h[i] = g[i] /\ (i # 1 => h[i - 1] = g[i - 1])
        <5> HIDE DEF v
        <5> QED BY <3>2
      <4>2. g[i] = IF i = 1 THEN D(i) ELSE Turn(g[i - 1], D(i), latch)
        BY <2>1, <3>2
      <4> HIDE DEF h
      <4> QED BY <4>1, <4>2
    <3> QED BY <3>1, <3>2
  <2> HIDE DEF h, Good
  <2> QED BY <2>3, <2>4
<1>6. Nat \subseteq S
  <2> HIDE DEF S
  <2> QED BY <1>4, <1>5, NatSetInduction
<1>7. N \in S
  BY <1>1, <1>6
<1> QED BY <1>1, <1>7 DEF N, D

(* So Chosen is the last value of such a function. *)
LEMMA ChosenIs ==
  ASSUME ranges \in Seq(Extent), ranges # <<>>, NEW a \in Int, NEW latch \in BOOLEAN
  PROVE  \E g : /\ DOMAIN g = 1..Len(ranges)
                /\ \A i \in 1..Len(ranges) :
                     g[i] = IF i = 1 THEN Distance(ranges[i], a)
                            ELSE Turn(g[i - 1], Distance(ranges[i], a), latch)
                /\ Chosen(a, latch) = g[Len(ranges)]
<1> DEFINE N == Len(ranges)
           E(g) == [i \in 1..N |-> LET d == Distance(ranges[i], a) IN
                      IF i = 1 THEN d
                      ELSE LET p == g[i - 1] IN
                           IF d = 0 \/ ((p # 0 \/ ~latch) /\ Abs(d) > Abs(p)) THEN d ELSE p]
           pick == CHOOSE g : g = E(g)
<1>1. Chosen(a, latch) = pick[N]
  BY DEF Chosen
<1>2. PICK g \in [1..N -> Int] : \A i \in 1..N :
           g[i] = IF i = 1 THEN Distance(ranges[i], a)
                  ELSE Turn(g[i - 1], Distance(ranges[i], a), latch)
  BY LoopExists
<1>3. g = E(g)
  BY <1>2 DEF Turn
<1>4. pick = E(pick)
  BY <1>3
<1>5. DOMAIN pick = 1..N /\ \A i \in 1..N :
           pick[i] = IF i = 1 THEN Distance(ranges[i], a)
                  ELSE Turn(pick[i - 1], Distance(ranges[i], a), latch)
  <2> HIDE DEF pick
  <2> QED BY <1>4 DEF Turn
<1> HIDE DEF pick
<1> QED BY <1>1, <1>5

(* The loop keeps the distance of one of the ranges. *)
LEMMA ChosenIsDistance ==
  ASSUME ranges \in Seq(Extent), ranges # <<>>, NEW a \in Int, NEW latch \in BOOLEAN
  PROVE  \E j \in 1..Len(ranges) : Chosen(a, latch) = Distance(ranges[j], a)
<1> DEFINE N == Len(ranges)
           D(i) == Distance(ranges[i], a)
<1>1. N \in Nat /\ N >= 1
  OBVIOUS
<1>2. PICK g : /\ \A i \in 1..N : g[i] = IF i = 1 THEN D(i) ELSE Turn(g[i - 1], D(i), latch)
               /\ Chosen(a, latch) = g[N]
  BY ChosenIs
<1> DEFINE S == {n \in Nat : n + 1 <= N => \E j \in 1..N : g[n + 1] = D(j)}
<1> HIDE DEF N, D
<1>3. 0 \in S
  BY <1>1, <1>2
<1>4. ASSUME NEW n \in Nat, n \in S PROVE n + 1 \in S
  <2> SUFFICES ASSUME n + 2 <= N PROVE \E j \in 1..N : g[n + 2] = D(j)
    <3>1. (n + 1) + 1 = n + 2
      OBVIOUS
    <3> QED BY <3>1
  <2>1. PICK j \in 1..N : g[n + 1] = D(j)
    BY <1>1, <1>4
  <2>2. n + 2 \in 1..N /\ n + 2 # 1 /\ (n + 2) - 1 = n + 1
    BY <1>1
  <2>3. g[n + 2] = Turn(g[n + 1], D(n + 2), latch)
    BY <1>2, <2>2
  <2>4. g[n + 2] = D(n + 2) \/ g[n + 2] = g[n + 1]
    BY <2>3 DEF Turn
  <2> QED BY <2>1, <2>2, <2>4
<1>5. Nat \subseteq S
  <2> HIDE DEF S
  <2> QED BY <1>3, <1>4, NatSetInduction
<1>6. N - 1 \in S /\ (N - 1) + 1 = N
  BY <1>1, <1>5
<1> QED BY <1>1, <1>2, <1>6 DEF N, D

(* With the latch, a distance of 0 is not replaced: one range that has the *)
(* address decides.                                                        *)
LEMMA ZeroStays ==
  ASSUME ranges \in Seq(Extent), NEW a \in Int, NEW latch \in BOOLEAN, latch,
         NEW z \in 1..Len(ranges), Distance(ranges[z], a) = 0
  PROVE  Chosen(a, latch) = 0
<1> DEFINE N == Len(ranges)
           D(i) == Distance(ranges[i], a)
<1>1. N \in Nat /\ z \in 1..N /\ ranges # <<>>
  OBVIOUS
<1>2. PICK g : /\ \A i \in 1..N : g[i] = IF i = 1 THEN D(i) ELSE Turn(g[i - 1], D(i), latch)
               /\ Chosen(a, latch) = g[N]
  BY <1>1, ChosenIs, ZenonT(60)
<1> DEFINE S == {n \in Nat : z + n <= N => g[z + n] = 0}
<1>3. D(z) = 0
  OBVIOUS
<1> HIDE DEF N, D
<1>5. 0 \in S
  <2>1. g[z] = 0
    BY <1>1, <1>2, <1>3 DEF Turn
  <2> QED BY <1>1, <2>1
<1>6. ASSUME NEW n \in Nat, n \in S PROVE n + 1 \in S
  <2> SUFFICES ASSUME z + (n + 1) <= N PROVE g[z + (n + 1)] = 0
    OBVIOUS
  <2>1. g[z + n] = 0
    BY <1>1, <1>6
  <2>2. z + (n + 1) \in 1..N /\ z + (n + 1) # 1 /\ (z + (n + 1)) - 1 = z + n
    BY <1>1
  <2>3. g[z + (n + 1)] = Turn(g[z + n], D(z + (n + 1)), latch)
    BY <1>2, <2>2
  <2> QED BY <2>1, <2>3 DEF Turn
<1>7. Nat \subseteq S
  <2> HIDE DEF S
  <2> QED BY <1>5, <1>6, NatSetInduction
<1>8. N - z \in S /\ z + (N - z) = N
  BY <1>1, <1>7
<1>9. g[N] = 0
  BY <1>1, <1>8
<1> QED BY <1>2, <1>9

(* A write that one range covers is not reported. *)
LEMMA CoveredNotReported ==
  ASSUME ranges \in Seq(Extent), NEW w \in Change, NEW z \in 1..Len(ranges),
         ranges[z].addr <= w.addr, w.addr + w.len <= ranges[z].addr + ranges[z].size
  PROVE  ~Reported(w)
<1> DEFINE L == TRUE
<1>1. /\ w.addr \in Nat /\ w.len \in Nat /\ w.len >= 1
  BY DEF Change
<1>2. /\ ranges[z] \in Extent /\ ranges[z].addr \in Nat /\ ranges[z].size \in Nat
  <2>1. ranges[z] \in Extent
    BY ElementOfSeq
  <2> QED BY <2>1 DEF Extent
<1>3. /\ Distance(ranges[z], w.addr) = 0 /\ Distance(ranges[z], w.addr + w.len - 1) = 0
  <2> DEFINE x == ranges[z].addr
             y == ranges[z].size
             u == w.addr
             v == w.len
  <2>1. x \in Nat /\ y \in Nat /\ u \in Nat /\ v \in Nat /\ v >= 1 /\ x <= u /\ u + v <= x + y
    BY <1>1, <1>2
  <2> HIDE DEF x, y, u, v
  <2>2. ~(u < x) /\ ~(u > x + y - 1) /\ ~(u + v - 1 < x) /\ ~(u + v - 1 > x + y - 1)
    BY <2>1
  <2> QED BY <2>2 DEF Distance, x, y, u, v
<1>4. L \in BOOLEAN /\ L
  OBVIOUS
<1>5. Reported(w) = (Near(Chosen(w.addr, L)) \/ Near(Chosen(w.addr + w.len - 1, L)))
  BY DEF Reported, Judged
<1>6. w.addr \in Int /\ w.addr + w.len - 1 \in Int
  BY <1>1
<1> HIDE DEF L
<1>7. Chosen(w.addr, L) = 0
  BY <1>3, <1>4, <1>6, ZeroStays
<1>8. Chosen(w.addr + w.len - 1, L) = 0
  <2> DEFINE b == w.addr + w.len - 1
  <2> HIDE DEF b
  <2> SUFFICES Chosen(b, L) = 0
    BY DEF b
  <2> QED BY <1>3, <1>4, <1>6, ZeroStays DEF b
<1> QED BY <1>5, <1>7, <1>8 DEF Near

(* A write that begins outside all ranges, all nearer than Limit, is.      *)
LEMMA NearReported ==
  ASSUME ranges \in Seq(Extent), ranges # <<>>, NEW w \in Change,
         \A j \in DOMAIN ranges : Outside(ranges[j], w.addr) /\ Gap(ranges[j], w.addr) < Limit
  PROVE  Reported(w)
<1> DEFINE L == TRUE
<1>1. w.addr \in Int
  BY DEF Change
<1>2. L \in BOOLEAN
  OBVIOUS
<1>3. Near(Chosen(w.addr, L)) => Reported(w)
  BY DEF Reported, Judged
<1> HIDE DEF L
<1>4. PICK j \in 1..Len(ranges) : Chosen(w.addr, L) = Distance(ranges[j], w.addr)
  BY <1>1, <1>2, ChosenIsDistance
<1>5. /\ ranges[j] \in Extent /\ ranges[j].addr \in Nat /\ ranges[j].size \in Nat
  <2>1. ranges[j] \in Extent
    BY ElementOfSeq
  <2> QED BY <2>1 DEF Extent
<1>6. Outside(ranges[j], w.addr) /\ Gap(ranges[j], w.addr) < Limit
  BY LenProperties
<1>7. Near(Distance(ranges[j], w.addr))
  BY <1>1, <1>5, <1>6, LimitAssumption, SMTT(30) DEF Near, Distance, Outside, Gap, Abs
<1> QED BY <1>3, <1>4, <1>7

-----------------------------------------------------------------------------
(* Types.                                                                  *)

(* The pieces of a line. *)
LEMMA LineTyped ==
  ASSUME NEW f \in Names, NEW args \in Piece
  PROVE  LET s == LineOf(f, args) IN
         /\ s \in Seq(Piece) /\ Len(s) = 5 /\ s # <<>>
         /\ s[1].k = "head" /\ s[1].f = f /\ s[2] = args
         /\ s[3].k = "sep" /\ s[4].k = "frame" /\ s[5].k = "end"
<1> DEFINE h == HeadOf(f)
<1>1. h = [k |-> "head", f |-> f, num |-> 0, size |-> 0, ret |-> 0]
  BY DEF HeadOf
<1>2. h \in Piece /\ h.k = "head" /\ h.f = f
  BY <1>1 DEF Piece
<1>3. ASSUME NEW k \in {"sep", "frame", "end", "junk"}
      PROVE  Silent(k) \in Piece /\ Silent(k).k = k
  BY DEF Silent, Piece
<1>4. LineOf(f, args) = <<h, args, Silent("sep"), Silent("frame"), Silent("end")>>
  BY DEF LineOf
<1> DEFINE s3 == Silent("sep")
           s4 == Silent("frame")
           s5 == Silent("end")
           s == <<h, args, s3, s4, s5>>
<1>5. /\ s3 \in Piece /\ s3.k = "sep" /\ s4 \in Piece /\ s4.k = "frame"
      /\ s5 \in Piece /\ s5.k = "end"
  BY <1>3
<1> HIDE DEF h, s3, s4, s5
<1>6. s \in Seq(Piece) /\ Len(s) = 5 /\ s # <<>>
  BY <1>2, <1>5
<1>7. s[1] = h /\ s[2] = args /\ s[3] = s3 /\ s[4] = s4 /\ s[5] = s5
  OBVIOUS
<1>8. LineOf(f, args) = s
  BY <1>4 DEF s3, s4, s5
<1> HIDE DEF s
<1> QED BY <1>2, <1>5, <1>6, <1>7, <1>8

(* The argument pieces. *)
LEMMA ArgsTyped ==
  /\ \A f \in Names, num, size, ret \in Nat :
       LET p == ArgsOf(f, num, size, ret) IN
       /\ p \in Piece /\ p.k = "args" /\ p.f = f
       /\ p.num = num /\ p.size = size /\ p.ret = ret
  /\ Silent("junk") \in Piece /\ Silent("junk").k = "junk"
BY DEF ArgsOf, Silent, Piece

(* A call of malloc or calloc, with the block it gives. *)
AllocateAs(t, f, num, size, p, new) ==
  /\ Call(t)
  /\ p \in Nat /\ new \in SUBSET Block
  /\ \A b \in new : p # 0 /\ b.addr = p /\ b.size = num * size
  /\ blocks' = blocks \union new
  /\ made' = [made EXCEPT ![t] = new]
  /\ todo' = [todo EXCEPT ![t] = LineOf(f, ArgsOf(f, num, size, p))]
  /\ UNCHANGED <<locked, holder, pipe, writes, runs, written>>

(* The steps of the target, one by one. *)
LEMMA LogSteps ==
  ASSUME LogNext
  PROVE  \/ \E t \in Threads, f \in {"malloc", "calloc"}, num, size \in Nat : \E p, new :
              (f = "malloc" => num = 1) /\ AllocateAs(t, f, num, size, p, new)
         \/ \E t \in Threads, b \in Returned : Free(t, b)
         \/ \E t \in Threads, b \in Returned, size \in Nat : Realloc(t, b, size)
         \/ \E t \in Threads : WritePiece(t)
         \/ \E t \in Threads, a \in Nat, n \in Nat \ {0} : Write(t, a, n)
         \/ \E files \in SUBSET {"execlog", "pipes"} : EndRun(files)
<1>1. ASSUME NEW t \in Threads, NEW f \in {"malloc", "calloc"}, NEW num \in Nat, NEW size \in Nat,
             Allocate(t, f, num, size), f = "malloc" => num = 1
      PROVE  \E p, new : AllocateAs(t, f, num, size, p, new)
  <2>1. PICK p \in {NULL} \union {a \in Places : Fits(a, num * size)} :
          LET new == IF p = NULL THEN {} ELSE {[addr |-> p, size |-> num * size, by |-> f]} IN
          /\ blocks' = blocks \union new
          /\ made' = [made EXCEPT ![t] = new]
          /\ todo' = [todo EXCEPT ![t] = LineOf(f, ArgsOf(f, num, size, p))]
    BY <1>1 DEF Allocate
  <2>2. p \in Nat /\ num * size \in Nat
    BY LogAssumption, TimesNat DEF NULL
  <2> DEFINE z == num * size
             b == [addr |-> p, size |-> z, by |-> f]
             new == IF p = NULL THEN {} ELSE {b}
             l == LineOf(f, ArgsOf(f, num, size, p))
  <2>3. /\ blocks' = blocks \union new /\ made' = [made EXCEPT ![t] = new]
        /\ todo' = [todo EXCEPT ![t] = l]
    BY <2>1
  <2>4. Call(t) /\ UNCHANGED <<locked, holder, pipe, writes, runs, written>>
    BY <1>1 DEF Allocate
  <2>5. new \in SUBSET Block /\ \A c \in new : p # 0 /\ c.addr = p /\ c.size = num * size
    <3> HIDE DEF z
    <3>1. b \in Block /\ b.addr = p /\ b.size = z
      BY <2>2 DEF Block, z
    <3> HIDE DEF b
    <3> QED BY <2>2, <3>1 DEF NULL, z
  <2> HIDE DEF z, b, new, l
  <2>6. AllocateAs(t, f, num, size, p, new)
    BY <2>2, <2>3, <2>4, <2>5 DEF AllocateAs, l
  <2> QED BY <2>6
<1>2. ASSUME NEW t \in Threads, NEW r \in Requests,
             IF r[1] = 1 THEN Malloc(t, r[2]) ELSE Calloc(t, r[1], r[2])
      PROVE  \E f \in {"malloc", "calloc"}, num, size \in Nat : \E p, new :
               (f = "malloc" => num = 1) /\ AllocateAs(t, f, num, size, p, new)
  <2>1. r[1] \in Nat /\ r[2] \in Nat /\ 1 \in Nat
    BY LogAssumption
  <2>2. CASE r[1] = 1
    <3> DEFINE f == "malloc"
               m == 1
    <3>1. Allocate(t, f, m, r[2])
      BY <1>2, <2>2 DEF Malloc
    <3>2. f \in {"malloc", "calloc"} /\ m \in Nat /\ (f = "malloc" => m = 1)
      OBVIOUS
    <3> HIDE DEF f, m
    <3> QED BY <1>1, <2>1, <3>1, <3>2
  <2>3. CASE r[1] # 1
    <3> DEFINE f == "calloc"
    <3>1. Allocate(t, f, r[1], r[2])
      BY <1>2, <2>3 DEF Calloc
    <3>2. f \in {"malloc", "calloc"} /\ (f # "malloc")
      OBVIOUS
    <3> HIDE DEF f
    <3> QED BY <1>1, <2>1, <3>1, <3>2
  <2> QED BY <2>2, <2>3
<1>3. \A r \in Requests : r[2] \in Nat
  BY LogAssumption
<1>4. \A w \in Accesses : w[1] \in Nat /\ w[2] \in Nat \ {0}
  BY LogAssumption
<1>5. {{"execlog", "pipes"}, {"execlog"}} \subseteq SUBSET {"execlog", "pipes"}
  OBVIOUS
<1> QED BY <1>2, <1>3, <1>4, <1>5 DEF LogNext

(* The target keeps the types of its state. *)
LEMMA LogTypeStep ==
  ASSUME LogType, LogNext, Len(runs) < MaxRuns
  PROVE  LogType'
<1> USE DEF LogType
<1>1. ASSUME NEW t \in Threads, NEW f \in {"malloc", "calloc"}, NEW num \in Nat, NEW size \in Nat,
             NEW p, NEW new, AllocateAs(t, f, num, size, p, new)
      PROVE  LogType'
  <2>1. p \in Nat /\ new \in SUBSET Block
    BY <1>1 DEF AllocateAs
  <2>2. f \in Names
    BY DEF Names
  <2>3. ArgsOf(f, num, size, p) \in Piece
    BY <2>1, <2>2, ArgsTyped
  <2>4. LineOf(f, ArgsOf(f, num, size, p)) \in Seq(Piece)
    BY <2>2, <2>3, LineTyped
  <2> DEFINE l == LineOf(f, ArgsOf(f, num, size, p))
  <2>5. todo' = [todo EXCEPT ![t] = l] /\ made' = [made EXCEPT ![t] = new] /\ blocks' = blocks \union new
    BY <1>1 DEF AllocateAs
  <2> HIDE DEF l
  <2>6. todo' \in [Threads -> Seq(Piece)]
    BY <2>4, <2>5 DEF l
  <2>7. made' \in [Threads -> SUBSET Block] /\ blocks' \subseteq Block
    BY <2>1, <2>5
  <2>8. calls' \in Nat /\ UNCHANGED <<locked, holder, pipe, writes, runs, written>>
    BY <1>1 DEF AllocateAs, Call
  <2> QED BY <2>6, <2>7, <2>8
<1>2. ASSUME NEW t \in Threads, NEW b \in Returned, Free(t, b) PROVE LogType'
  <2>1. b \in Block
    BY DEF Returned
  <2>2. ArgsOf("free", 0, 0, b.addr) \in Piece /\ "free" \in Names
    BY <2>1, ArgsTyped DEF Names, Block
  <2> DEFINE l == LineOf("free", ArgsOf("free", 0, 0, b.addr))
  <2>3. l \in Seq(Piece)
    BY <2>2, LineTyped
  <2>4. todo' = [todo EXCEPT ![t] = l] /\ blocks' = blocks \ {b}
    BY <1>2 DEF Free
  <2> HIDE DEF l
  <2>5. todo' \in [Threads -> Seq(Piece)] /\ blocks' \subseteq Block
    BY <2>3, <2>4
  <2>6. calls' \in Nat /\ UNCHANGED <<locked, holder, made, pipe, writes, runs, written>>
    BY <1>2 DEF Free, Call
  <2> QED BY <2>5, <2>6
<1>3. ASSUME NEW t \in Threads, NEW b \in Returned, NEW size \in Nat, Realloc(t, b, size) PROVE LogType'
  <2>1. b \in Block
    BY DEF Returned
  <2>2. Silent("junk") \in Piece /\ Joined \in Names
    BY ArgsTyped DEF Names
  <2> DEFINE l == LineOf(Joined, Silent("junk"))
  <2>3. l \in Seq(Piece)
    BY <2>2, LineTyped
  <2>4. todo' = [todo EXCEPT ![t] = l]
    BY <1>3 DEF Realloc
  <2> HIDE DEF l
  <2>5. todo' \in [Threads -> Seq(Piece)]
    BY <2>3, <2>4
  <2>6. calls' \in Nat /\ UNCHANGED <<locked, holder, made, pipe, writes, runs, written>>
    BY <1>3 DEF Realloc, Call
  <2>7. blocks' \subseteq Block
    <3>1. b.addr \in Nat
      BY <2>1 DEF Block
    <3>2. ASSUME NEW p \in {a \in Places : Fits(a, size)} \union {b.addr}
          PROVE  [addr |-> p, size |-> size, by |-> "realloc"] \in Block
      <4>1. p \in Nat
        BY <3>1, LogAssumption
      <4> QED BY <4>1 DEF Block
    <3>3. \/ blocks' = blocks
          \/ \E p \in {a \in Places : Fits(a, size)} \union {b.addr} :
               blocks' = (blocks \ {b}) \union {[addr |-> p, size |-> size, by |-> "realloc"]}
      BY <1>3 DEF Realloc
    <3> QED BY <3>2, <3>3
  <2> QED BY <2>5, <2>6, <2>7
<1>4. ASSUME NEW t \in Threads, WritePiece(t) PROVE LogType'
  <2>1. todo[t] \in Seq(Piece) /\ todo[t] # <<>>
    BY <1>4 DEF WritePiece
  <2>2. Head(todo[t]) \in Piece /\ Tail(todo[t]) \in Seq(Piece)
    BY <2>1, HeadTailProperties
  <2>3. pipe' \in Seq(Piece)
    BY <1>4, <2>2 DEF WritePiece
  <2>4. todo' = [todo EXCEPT ![t] = Tail(todo[t])]
    BY <1>4 DEF WritePiece
  <2>5. todo' \in [Threads -> Seq(Piece)]
    BY <2>2, <2>4
  <2>6. made' \in [Threads -> SUBSET Block]
    BY <1>4 DEF WritePiece
  <2>7. holder' \in Threads \union {Nobody}
    BY <1>4 DEF WritePiece
  <2>8. UNCHANGED <<locked, blocks, writes, runs, calls, written>>
    BY <1>4 DEF WritePiece
  <2> QED BY <2>3, <2>5, <2>6, <2>7, <2>8
<1>5. ASSUME NEW t \in Threads, NEW a \in Nat, NEW n \in Nat \ {0}, Write(t, a, n) PROVE LogType'
  <2>1. [addr |-> a, len |-> n, inside |-> Inside(a, n)] \in Change
    <3>1. Inside(a, n) \in BOOLEAN
      BY DEF Inside
    <3> QED BY <3>1 DEF Change
  <2>2. writes' = Append(writes, [addr |-> a, len |-> n, inside |-> Inside(a, n)])
    BY <1>5 DEF Write
  <2>3. writes' \in Seq(Change)
    BY <2>1, <2>2, AppendProperties
  <2>4. written' \in Nat /\ UNCHANGED <<locked, todo, holder, blocks, made, pipe, runs, calls>>
    BY <1>5 DEF Write
  <2> QED BY <2>3, <2>4
<1>6. ASSUME NEW files \in SUBSET {"execlog", "pipes"}, EndRun(files) PROVE LogType'
  <2> DEFINE r == [files |-> files, pipes |-> pipe, changes |-> writes]
  <2>1. r \in Run
    BY DEF Run
  <2>2. runs' = Append(runs, r)
    BY <1>6 DEF EndRun
  <2> HIDE DEF r
  <2>3. runs' \in Seq(Run) /\ Len(runs') = Len(runs) + 1
    BY <2>1, <2>2, AppendProperties
  <2>4. MaxRuns \in Nat /\ Len(runs) \in Nat
    BY LogAssumption
  <2>5. /\ pipe' = <<>> /\ writes' = <<>> /\ blocks' = {} /\ holder' = Nobody
        /\ todo' = [t \in Threads |-> <<>>] /\ made' = [t \in Threads |-> {}]
        /\ UNCHANGED <<locked, calls, written>>
    BY <1>6 DEF EndRun
  <2>6. pipe' \in Seq(Piece) /\ writes' \in Seq(Change) /\ todo' \in [Threads -> Seq(Piece)]
    BY <2>5
  <2>7. made' \in [Threads -> SUBSET Block] /\ Len(runs') <= MaxRuns
    BY <2>3, <2>4, <2>5
  <2> QED BY <2>3, <2>5, <2>6, <2>7
<1> QED BY <1>1, <1>2, <1>3, <1>4, <1>5, <1>6, LogSteps

(* ReadLine: the line, and what becomes of the rest and the ranges. *)
LEMMA ReadLineIs ==
  ASSUME TypeInv, ReadLine
  PROVE  LET e == LineEnd(rest)
             line == SubSeq(rest, 1, e)
         IN
         /\ phase = "lines" /\ rest # <<>> /\ e \in 1..Len(rest)
         /\ line \in Seq(Piece) /\ line # <<>> /\ Len(line) = e
         /\ \A i \in 1..e : line[i] = rest[i]
         /\ \A i \in 1..e - 1 : ~IsEnd(rest[i])
         /\ IsEnd(rest[e]) \/ e = Len(rest)
         /\ UNCHANGED <<target, prefix, at, reports>>
         /\ \/ Known(line) /\ Throws(line) /\ phase' = "exception" /\ UNCHANGED <<rest, ranges>>
            \/ /\ ~(Known(line) /\ Throws(line)) /\ UNCHANGED phase
               /\ rest' \in Seq(Piece) /\ Len(rest') = Len(rest) - e
               /\ \A i \in 1..Len(rest') : rest'[i] = rest[e + i]
               /\ ranges' = ranges \o IF Known(line) THEN RangeOf(line) ELSE <<>>
<1> DEFINE e == LineEnd(rest)
           line == SubSeq(rest, 1, e)
           next == SubSeq(rest, e + 1, Len(rest))
<1>1. rest \in Seq(Piece) /\ rest # <<>> /\ phase = "lines" /\ Len(rest) \in Nat
  BY DEF TypeInv, AnalysisType, ReadLine
<1>2. /\ e \in 1..Len(rest) /\ \A i \in 1..e - 1 : ~IsEnd(rest[i])
      /\ IsEnd(rest[e]) \/ e = Len(rest)
  BY <1>1, LineEndIs
<1>3. /\ UNCHANGED <<target, prefix, at, reports>>
      /\ IF Known(line) /\ Throws(line)
         THEN phase' = "exception" /\ UNCHANGED <<rest, ranges>>
         ELSE /\ rest' = next
              /\ ranges' = ranges \o IF Known(line) THEN RangeOf(line) ELSE <<>>
              /\ UNCHANGED phase
  BY DEF ReadLine
<1> HIDE DEF e
<1>4. /\ line \in Seq(Piece) /\ Len(line) = e /\ \A i \in 1..e : line[i] = rest[i]
      /\ next \in Seq(Piece) /\ Len(next) = Len(rest) - e
      /\ \A i \in 1..Len(next) : next[i] = rest[e + i]
  BY <1>1, <1>2, LineIs
<1>5. line # <<>>
  <2> HIDE DEF line
  <2> QED BY <1>1, <1>2, <1>4
<1>6. \/ Known(line) /\ Throws(line) /\ phase' = "exception" /\ UNCHANGED <<rest, ranges>>
      \/ /\ ~(Known(line) /\ Throws(line)) /\ UNCHANGED phase
         /\ rest' \in Seq(Piece) /\ Len(rest') = Len(rest) - e
         /\ \A i \in 1..Len(rest') : rest'[i] = rest[e + i]
         /\ ranges' = ranges \o IF Known(line) THEN RangeOf(line) ELSE <<>>
  <2> HIDE DEF line, next
  <2> QED BY <1>3, <1>4
<1> HIDE DEF line, next
<1> QED BY <1>1, <1>2, <1>3, <1>4, <1>5, <1>6 DEF e, line

(* The ranges keep their type when a line is read. *)
LEMMA RangesTyped ==
  ASSUME TypeInv, ReadLine
  PROVE  ranges' \in Seq(Extent) /\ rest' \in Seq(Piece)
<1> DEFINE e == LineEnd(rest)
           line == SubSeq(rest, 1, e)
           added == IF Known(line) THEN RangeOf(line) ELSE <<>>
<1>1. ranges \in Seq(Extent) /\ rest \in Seq(Piece)
  BY DEF TypeInv, AnalysisType
<1>2. line \in Seq(Piece) /\ line # <<>>
  BY ReadLineIs
<1>3. \/ rest' = rest /\ ranges' = ranges
      \/ ~(Known(line) /\ Throws(line)) /\ ranges' = ranges \o added /\ rest' \in Seq(Piece)
  BY ReadLineIs
<1>4. ~(Known(line) /\ Throws(line)) => added \in Seq(Extent)
  <2> HIDE DEF line
  <2> QED BY <1>2, RangeOfLine
<1> HIDE DEF line, added
<1>5. CASE rest' = rest /\ ranges' = ranges
  BY <1>1, <1>5
<1>6. CASE ~(Known(line) /\ Throws(line)) /\ ranges' = ranges \o added /\ rest' \in Seq(Piece)
  <2>1. added \in Seq(Extent)
    BY <1>4, <1>6
  <2>2. ranges \o added \in Seq(Extent)
    BY <1>1, <2>1, ConcatProperties
  <2> QED BY <2>2, <1>6
<1> QED BY <1>3, <1>5, <1>6

(* No step leaves the types. *)
LEMMA TypeStep ==
  ASSUME TypeInv, [Next]_vars
  PROVE  TypeInv'
<1> USE DEF TypeInv
<1>1. CASE Fuzz
  <2>1. LogType'
    BY <1>1, LogTypeStep DEF Fuzz
  <2>2. phase = "fuzz" /\ UNCHANGED analysis
    BY <1>1 DEF Fuzz
  <2>3. Len(runs') \in Nat
    BY <2>1 DEF LogType
  <2> QED BY <2>1, <2>2, <2>3 DEF AnalysisType, analysis
<1>2. ASSUME UNCHANGED target, AnalysisType' PROVE TypeInv'
  BY <1>2 DEF LogType, target
<1>3. Len(runs) \in Nat
  BY DEF LogType
<1>4. CASE StopFuzzing
  <2>1. AnalysisType'
    BY <1>3, <1>4 DEF AnalysisType, StopFuzzing, target
  <2> QED BY <1>2, <1>4, <2>1 DEF StopFuzzing
<1>5. CASE AnalyzeRun
  <2>1. prefix \in 1..Len(runs) /\ prefix \in DOMAIN runs
    BY <1>3, <1>5 DEF AnalysisType, LogType, AnalyzeRun, NextPrefix
  <2>2. runs[prefix] \in Run
    BY <2>1, ElementOfSeq DEF LogType
  <2>3. runs[prefix].pipes \in Seq(Piece)
    BY <2>2 DEF Run
  <2>4. AnalysisType'
    BY <1>3, <1>5, <2>1, <2>3 DEF AnalysisType, AnalyzeRun, NextPrefix, target
  <2> QED BY <1>2, <1>5, <2>4 DEF AnalyzeRun, NextPrefix
<1>6. CASE SkipRun
  <2>1. AnalysisType'
    BY <1>3, <1>6 DEF AnalysisType, SkipRun, target
  <2> QED BY <1>2, <1>6, <2>1 DEF SkipRun
<1>7. CASE AllAnalyzed
  <2>1. AnalysisType'
    BY <1>3, <1>7 DEF AnalysisType, AllAnalyzed, target
  <2> QED BY <1>2, <1>7, <2>1 DEF AllAnalyzed
<1>8. CASE ReadLine
  <2>1. ranges' \in Seq(Extent) /\ rest' \in Seq(Piece)
    BY <1>8, RangesTyped
  <2>2. /\ phase = "lines" /\ phase' \in {"lines", "exception"}
        /\ UNCHANGED <<target, prefix, at, reports>>
    BY <1>8 DEF ReadLine
  <2>3. AnalysisType'
    BY <1>3, <2>1, <2>2 DEF AnalysisType, target
  <2> QED BY <1>2, <2>2, <2>3
<1>9. CASE EndOfStream
  <2>1. phase = "lines" /\ prefix \in 1..Len(runs)
    BY <1>3, <1>9 DEF AnalysisType, LogType, EndOfStream
  <2>2. runs[prefix] \in Run
    BY <2>1, ElementOfSeq DEF LogType
  <2>3. Len(runs[prefix].changes) \in Nat
    BY <2>2 DEF Run
  <2>4. AnalysisType'
    BY <1>3, <1>9, <2>1, <2>3 DEF AnalysisType, EndOfStream, Changes, target
  <2> QED BY <1>2, <1>9, <2>4 DEF EndOfStream
<1>10. CASE AnalyzeChange
  <2>1. phase = "changes" /\ prefix \in DOMAIN runs /\ prefix \in 1..Len(runs)
    BY <1>3, <1>10 DEF AnalysisType, LogType, AnalyzeChange
  <2>2. runs[prefix] \in Run
    BY <2>1, ElementOfSeq DEF LogType
  <2>3. Changes \in Seq(Change) /\ Len(Changes) \in Nat /\ DOMAIN Changes = 1..Len(Changes)
    BY <2>2 DEF Run, Changes
  <2>4. at \in DOMAIN Changes /\ at \in Nat /\ prefix \in Nat
    BY <1>10, <2>1, <2>3 DEF AnalysisType, AnalyzeChange
  <2>5. /\ reports' \subseteq reports \union {<<prefix, at>>}
        /\ at' = at + 1 /\ at <= Len(Changes)
        /\ UNCHANGED <<target, phase, prefix, rest, ranges>>
    BY <1>10 DEF AnalyzeChange
  <2>6. /\ reports' \subseteq Nat \X Nat
        /\ \A r \in reports' : r[1] \in DOMAIN runs /\ r[2] \in DOMAIN runs[r[1]].changes
    BY <2>1, <2>4, <2>5 DEF AnalysisType, Changes
  <2>7. Changes' = Changes /\ runs' = runs
    BY <2>5 DEF Changes, target
  <2>8. AnalysisType'
    BY <1>3, <2>1, <2>3, <2>4, <2>5, <2>6, <2>7 DEF AnalysisType
  <2> QED BY <1>2, <2>5, <2>8
<1>11. CASE RunAnalyzed
  <2>1. AnalysisType'
    BY <1>3, <1>11 DEF AnalysisType, LogType, RunAnalyzed, target
  <2> QED BY <1>2, <1>11, <2>1 DEF RunAnalyzed
<1>12. CASE UNCHANGED vars
  BY <1>12 DEF LogType, AnalysisType, Changes, vars, target, analysis
<1> QED BY <1>1, <1>4, <1>5, <1>6, <1>7, <1>8, <1>9, <1>10, <1>11, <1>12 DEF Next

(* The types hold at the beginning. *)
LEMMA TypeInit ==
  ASSUME Init
  PROVE  TypeInv
<1>1. LogType
  BY LogAssumption DEF Init, LogInit, LogType
<1> QED BY <1>1 DEF Init, LogInit, TypeInv, AnalysisType

(* What the type invariant of HeapAnalysis says follows. *)
LEMMA TypeImplies ==
  ASSUME TypeInv
  PROVE  TypeOK
<1>1. \A t \in Threads : \A i \in DOMAIN todo[t] : todo[t][i] \in Piece
  BY DEF TypeInv, LogType
<1>2. /\ \A i \in DOMAIN pipe : pipe[i] \in Piece
      /\ \A i \in DOMAIN writes : writes[i] \in Change
  BY DEF TypeInv, LogType
<1>3. \A i \in DOMAIN ranges : ranges[i] \in [addr: Nat \ {0}, size: Nat]
  <2>1. \A i \in DOMAIN ranges : ranges[i] \in Extent
    BY DEF TypeInv, AnalysisType
  <2> QED BY <2>1 DEF Extent
<1>4. phase \in {"lines", "changes"} => at \in 1..Len(Changes) + 1
  <2> SUFFICES ASSUME phase \in {"lines", "changes"} PROVE at \in 1..Len(Changes) + 1
    OBVIOUS
  <2>1. prefix \in 1..Len(runs)
    BY DEF TypeInv, AnalysisType, LogType
  <2>2. runs[prefix] \in Run
    BY <2>1, ElementOfSeq DEF TypeInv, LogType
  <2>3. Len(Changes) \in Nat
    BY <2>2 DEF Run, Changes
  <2> QED BY <2>3 DEF TypeInv, AnalysisType
<1> QED BY <1>1, <1>2, <1>3, <1>4 DEF TypeInv, LogType, AnalysisType, TypeOK

(* The state of the library and of the analysis has its type: an argument  *)
(* is never read where there is none, and only changes of the run are      *)
(* reported.                                                               *)
THEOREM TypeCorrect == Spec => []TypeOK
<1>1. Init => TypeInv
  BY TypeInit
<1>2. TypeInv /\ [Next]_vars => TypeInv'
  BY TypeStep
<1>3. TypeInv => TypeOK
  BY TypeImplies
<1> QED BY <1>1, <1>2, <1>3, PTL DEF Spec

-----------------------------------------------------------------------------
(* Exceptions and reports.                                                 *)

(* The line that throws is the last of the file and has no end. *)
LEMMA ThrowStep ==
  ASSUME TypeInv, ThrowsOnlyOnCutLine, [Next]_vars
  PROVE  ThrowsOnlyOnCutLine'
<1>1. CASE ReadLine
  <2> SUFFICES ASSUME phase' = "exception" PROVE ~IsEnd(rest'[Len(rest')])
    BY DEF ThrowsOnlyOnCutLine, IsEnd
  <2> DEFINE e == LineEnd(rest)
             line == SubSeq(rest, 1, e)
  <2>1. /\ rest # <<>> /\ e \in 1..Len(rest)
        /\ line \in Seq(Piece) /\ line # <<>> /\ Len(line) = e
        /\ \A i \in 1..e : line[i] = rest[i]
        /\ IsEnd(rest[e]) \/ e = Len(rest)
        /\ phase = "lines" /\ (phase' = phase \/ (Throws(line) /\ rest' = rest))
    BY <1>1, ReadLineIs
  <2> HIDE DEF line, e
  <2>2. Throws(line) /\ rest' = rest
    BY <2>1
  <2>3. line[e] = rest[e]
    BY <2>1
  <2>4. ~IsEnd(rest[e])
    <3> SUFFICES ASSUME IsEnd(rest[e]) PROVE FALSE
      OBVIOUS
    <3>1. IsEnd(line[Len(line)])
      BY <2>1, <2>3
    <3> QED BY <2>1, <2>2, <3>1, WholeLine
  <2> QED BY <2>1, <2>2, <2>4
<1>2. CASE phase' # "exception" \/ UNCHANGED <<phase, rest>>
  BY <1>2 DEF ThrowsOnlyOnCutLine, IsEnd
<1> QED BY <1>1, <1>2 DEF Next, vars, analysis, Fuzz, StopFuzzing, AnalyzeRun, NextPrefix, SkipRun,
           AllAnalyzed, EndOfStream, AnalyzeChange, RunAnalyzed

(* Only a line that the end of the run cut off makes the analysis throw,   *)
(* whatever lines the threads mixed.                                       *)
THEOREM OnlyCutLinesThrow == Spec => []ThrowsOnlyOnCutLine
<1>1. Init => TypeInv /\ ThrowsOnlyOnCutLine
  BY TypeInit DEF Init, ThrowsOnlyOnCutLine
<1>2. TypeInv /\ ThrowsOnlyOnCutLine /\ [Next]_vars => TypeInv' /\ ThrowsOnlyOnCutLine'
  BY TypeStep, ThrowStep
<1> QED BY <1>1, <1>2, PTL DEF Spec

(* A write outside all ranges that are all near is in the reports once it  *)
(* is looked at, and stays there.                                          *)
LEMMA NearStep ==
  ASSUME TypeInv, NearOverflowReported, [Next]_vars
  PROVE  NearOverflowReported'
<1>1. CASE AnalyzeChange
  <2>1. /\ phase = "changes" /\ at <= Len(Changes) /\ at' = at + 1
        /\ reports' = IF Reported(Changes[at]) THEN reports \union {<<prefix, at>>} ELSE reports
        /\ UNCHANGED <<target, phase, prefix, rest, ranges>>
    BY <1>1 DEF AnalyzeChange
  <2>2. prefix \in 1..Len(runs) /\ at \in Nat \ {0} /\ ranges \in Seq(Extent) /\ ranges # <<>>
    BY <2>1 DEF TypeInv, AnalysisType, LogType
  <2>3. runs[prefix] \in Run
    BY <2>2, ElementOfSeq DEF TypeInv, LogType
  <2>4. Changes \in Seq(Change) /\ Len(Changes) \in Nat
    BY <2>3 DEF Run, Changes
  <2>5. Changes[at] \in Change
    BY <2>1, <2>2, <2>4, ElementOfSeq
  <2>6. Changes' = Changes /\ ranges' = ranges /\ prefix' = prefix
    BY <2>1 DEF Changes, target
  <2> SUFFICES ASSUME NEW i \in 1..at' - 1,
                      \A j \in DOMAIN ranges : /\ Outside(ranges[j], Changes[i].addr)
                                               /\ Gap(ranges[j], Changes[i].addr) < Limit
               PROVE  <<prefix, i>> \in reports'
    BY <2>6 DEF NearOverflowReported
  <2>7. CASE i = at
    BY <2>1, <2>2, <2>5, <2>7, NearReported
  <2>8. CASE i # at
    <3>1. i \in 1..at - 1
      BY <2>1, <2>2, <2>8
    <3> QED BY <2>1, <3>1 DEF NearOverflowReported
  <2> QED BY <2>7, <2>8
<1>2. CASE EndOfStream
  <2>1. at = 1 /\ at' = 1
    BY <1>2 DEF TypeInv, AnalysisType, EndOfStream
  <2> QED BY <2>1 DEF NearOverflowReported
<1>3. CASE phase' # "changes"
  BY <1>3 DEF NearOverflowReported
<1>4. CASE UNCHANGED vars
  BY <1>4 DEF NearOverflowReported, Changes, vars, target, analysis
<1>5. Fuzz => phase' # "changes"
  BY DEF Fuzz, analysis
<1>6. ReadLine => phase' # "changes"
  BY DEF ReadLine
<1> QED BY <1>1, <1>2, <1>3, <1>4, <1>5, <1>6 DEF Next, StopFuzzing, AnalyzeRun, NextPrefix,
           SkipRun, AllAnalyzed, RunAnalyzed

(* The analyzer reports a write that begins outside all ranges when all of *)
(* them are nearer than Limit.                                             *)
THEOREM NearOverflowsAreReported == Spec => []NearOverflowReported
<1>1. Init => TypeInv /\ NearOverflowReported
  BY TypeInit DEF Init, NearOverflowReported
<1>2. TypeInv /\ NearOverflowReported /\ [Next]_vars => TypeInv' /\ NearOverflowReported'
  BY TypeStep, NearStep
<1> QED BY <1>1, <1>2, PTL DEF Spec

-----------------------------------------------------------------------------
(* The log, with the lock.                                                 *)

(* A line that is about to be written. *)
LEMMA NewLine ==
  ASSUME NEW f \in Names, NEW args \in Piece,
         \/ args.k = "args" /\ args.f = f /\ f # Joined /\ (f = "malloc" => args.num = 1)
         \/ args.k = "junk" /\ f = Joined
  PROVE  LET s == LineOf(f, args) IN
         /\ s \in Seq(Piece) /\ Len(s) = 5 /\ s # <<>> /\ s[1].k = "head" /\ s[2] = args
         /\ Tailing(s)
<1> DEFINE s == LineOf(f, args)
<1>1. /\ s \in Seq(Piece) /\ Len(s) = 5
      /\ s[1].k = "head" /\ s[1].f = f /\ s[2] = args
      /\ s[3].k = "sep" /\ s[4].k = "frame" /\ s[5].k = "end"
  BY LineTyped
<1> HIDE DEF s
<1>2. IF f = Joined THEN f \notin {"malloc", "calloc", "realloc"} ELSE f \in {"malloc", "calloc", "free"}
  BY DEF Names, Joined
<1>3. Follows(s[1], s[2]) /\ Follows(s[2], s[3]) /\ Follows(s[3], s[4]) /\ Follows(s[4], s[5])
  <2>1. Follows(s[1], s[2])
    BY <1>1, <1>2 DEF Follows
  <2>2. Follows(s[2], s[3])
    BY <1>1 DEF Follows
  <2>3. Follows(s[3], s[4]) /\ Follows(s[4], s[5])
    BY <1>1 DEF Follows
  <2> QED BY <2>1, <2>2, <2>3
<1>4. Chained(s)
  <2> SUFFICES ASSUME NEW i \in 1..4 PROVE Follows(s[i], s[i + 1])
    BY <1>1 DEF Chained
  <2>1. i \in {1, 2, 3, 4} /\ 1 + 1 = 2 /\ 2 + 1 = 3 /\ 3 + 1 = 4 /\ 4 + 1 = 5
    OBVIOUS
  <2> QED BY <1>3, <2>1
<1>5. \A i \in 1..5 : s[i].k = "end" <=> i = 5
  <2> SUFFICES ASSUME NEW i \in 1..5 PROVE s[i].k = "end" <=> i = 5
    OBVIOUS
  <2>1. i \in {1, 2, 3, 4, 5}
    OBVIOUS
  <2> QED BY <1>1, <2>1
<1>6. s # <<>>
  BY <1>1, SMTT(30)
<1> QED BY <1>1, <1>4, <1>5, <1>6 DEF Tailing, s

(* What is left of it when a piece has been written. *)
LEMMA TailingTail ==
  ASSUME NEW s \in Seq(Piece), s # <<>>, Tailing(s)
  PROVE  /\ Tail(s) \in Seq(Piece) /\ Len(Tail(s)) = Len(s) - 1 /\ Head(s) \in Piece /\ Head(s) = s[1]
         /\ \A i \in 1..Len(Tail(s)) : Tail(s)[i] = s[i + 1]
         /\ Tailing(Tail(s))
         /\ Len(s) = 1 => Head(s).k = "end" /\ Tail(s) = <<>>
         /\ Len(s) > 1 => /\ Tail(s) # <<>> /\ Follows(Head(s), Tail(s)[1])
                          /\ Tail(s)[1].k # "head"
<1> DEFINE u == Tail(s)
<1>1. /\ Len(s) \in Nat /\ Len(s) >= 1 /\ u \in Seq(Piece) /\ Len(u) = Len(s) - 1
      /\ Head(s) = s[1] /\ Head(s) \in Piece
      /\ \A i \in 1..Len(u) : u[i] = s[i + 1]
  BY HeadTailProperties
<1> HIDE DEF u
<1>2. Len(s) = 1 => s[1].k = "end" /\ u = <<>>
  BY <1>1 DEF Tailing
<1>3. Len(s) > 1 => u # <<>> /\ Follows(s[1], u[1]) /\ u[1].k # "head"
  <2> SUFFICES ASSUME Len(s) > 1 PROVE u # <<>> /\ Follows(s[1], u[1]) /\ u[1].k # "head"
    OBVIOUS
  <2>1. u # <<>> /\ u[1] = s[1 + 1]
    BY <1>1
  <2>2. 1 \in 1..Len(s) - 1 /\ 1 \in 1..Len(s)
    BY <1>1
  <2>3. Follows(s[1], s[1 + 1]) /\ s[1].k # "end"
    BY <1>1, <2>2 DEF Tailing, Chained
  <2> QED BY <2>1, <2>3 DEF Follows
<1>4. Chained(u)
  <2> SUFFICES ASSUME NEW i \in 1..Len(u) - 1 PROVE Follows(u[i], u[i + 1])
    BY DEF Chained
  <2>1. i \in 1..Len(u) /\ i + 1 \in 1..Len(u) /\ i + 1 \in 1..Len(s) - 1
    BY <1>1
  <2>2. Follows(s[i + 1], s[(i + 1) + 1])
    BY <2>1 DEF Tailing, Chained
  <2> QED BY <1>1, <2>1, <2>2
<1>5. \A i \in 1..Len(u) : u[i].k = "end" <=> i = Len(u)
  <2> SUFFICES ASSUME NEW i \in 1..Len(u) PROVE u[i].k = "end" <=> i = Len(u)
    OBVIOUS
  <2>1. i + 1 \in 1..Len(s) /\ (i + 1 = Len(s) <=> i = Len(u))
    BY <1>1
  <2>2. s[i + 1].k = "end" <=> i + 1 = Len(s)
    BY <2>1 DEF Tailing
  <2> QED BY <1>1, <2>1, <2>2
<1> QED BY <1>1, <1>2, <1>3, <1>4, <1>5 DEF Tailing, u

(* The pipe when a piece is written to it. *)
LEMMA AppendLines ==
  ASSUME NEW s \in Seq(Piece), NEW p \in Piece, Lines(s),
         s = <<>> => p.k = "head", s # <<>> => Follows(s[Len(s)], p)
  PROVE  Lines(Append(s, p))
<1> DEFINE u == Append(s, p)
<1>1. /\ Len(s) \in Nat /\ Len(u) = Len(s) + 1 /\ u[Len(s) + 1] = p
      /\ \A i \in 1..Len(s) : u[i] = s[i]
  BY AppendProperties
<1> HIDE DEF u
<1>2. Chained(u)
  <2> SUFFICES ASSUME NEW i \in 1..Len(s) PROVE Follows(u[i], u[i + 1])
    BY <1>1 DEF Chained
  <2>1. CASE i = Len(s)
    <3>1. s # <<>>
      BY <2>1
    <3> QED BY <1>1, <2>1, <3>1
  <2>2. CASE i # Len(s)
    <3>1. i \in 1..Len(s) - 1 /\ i + 1 \in 1..Len(s)
      BY <1>1, <2>2
    <3>2. Follows(s[i], s[i + 1])
      BY <3>1 DEF Lines, Chained
    <3> QED BY <1>1, <3>1, <3>2
  <2> QED BY <2>1, <2>2
<1>3. u[1].k = "head"
  <2>1. CASE s = <<>>
    BY <1>1, <2>1
  <2>2. CASE s # <<>>
    <3>1. 1 \in 1..Len(s)
      BY <1>1, <2>2
    <3> QED BY <1>1, <2>2, <3>1 DEF Lines
  <2> QED BY <2>1, <2>2
<1> QED BY <1>2, <1>3 DEF Lines, u

(* What the pipe told of it tells when a piece is written to it; a closing *)
(* piece makes it tell of the arguments before it.                         *)
LEMMA AppendTold ==
  ASSUME NEW s \in Seq(Piece), NEW p \in Piece
  PROVE  /\ \A i \in Told(s) : i \in Told(Append(s, p)) /\ Append(s, p)[i] = s[i]
         /\ /\ s # <<>> /\ s[Len(s)].k = "args" /\ s[Len(s)].f \in {"malloc", "calloc"}
            /\ s[Len(s)].ret # NULL /\ Closes(p)
            => Len(s) \in Told(Append(s, p)) /\ Append(s, p)[Len(s)] = s[Len(s)]
<1> DEFINE u == Append(s, p)
<1>1. /\ Len(s) \in Nat /\ Len(u) = Len(s) + 1 /\ u[Len(s) + 1] = p
      /\ \A i \in 1..Len(s) : u[i] = s[i]
  BY AppendProperties
<1> HIDE DEF u
<1>2. ASSUME NEW i \in Told(s) PROVE i \in Told(u) /\ u[i] = s[i]
  <2>1. /\ i \in 1..Len(s) - 1 /\ i \in 1..Len(s) /\ i + 1 \in 1..Len(s) /\ i \in 1..Len(u) - 1
    BY <1>1 DEF Told
  <2>2. u[i] = s[i] /\ u[i + 1] = s[i + 1]
    BY <1>1, <2>1
  <2> QED BY <2>1, <2>2 DEF Told
<1>3. ASSUME s # <<>>, s[Len(s)].k = "args", s[Len(s)].f \in {"malloc", "calloc"},
             s[Len(s)].ret # NULL, Closes(p)
      PROVE  Len(s) \in Told(u) /\ u[Len(s)] = s[Len(s)]
  <2>1. Len(s) \in 1..Len(s) /\ Len(s) \in 1..Len(u) - 1
    BY <1>1, <1>3
  <2>2. u[Len(s)] = s[Len(s)]
    BY <1>1, <2>1
  <2> QED BY <1>1, <1>3, <2>1, <2>2 DEF Told
<1> QED BY <1>2, <1>3 DEF u

(* A call that logs leaves the log in order: its thread has nothing left   *)
(* to write, so it does not hold the lock.                                 *)
LEMMA CallLocks ==
  ASSUME LogType, LockInv, NEW t \in Threads, todo[t] = <<>>, NEW l \in Seq(Piece),
         Tailing(l), l[1].k = "head", l # <<>>, todo' = [todo EXCEPT ![t] = l],
         UNCHANGED <<holder, pipe, runs>>
  PROVE  LockInv'
<1> USE DEF LogType
<1>1. holder # t
  BY LogAssumption DEF LockInv
<1>2. /\ todo'[t] = l /\ \A u \in Threads : u # t => todo'[u] = todo[u]
  OBVIOUS
<1>3. \A u \in Threads : /\ Tailing(todo'[u])
                         /\ todo'[u] # <<>> /\ u # holder => todo'[u][1].k = "head"
  <2> SUFFICES ASSUME NEW u \in Threads
               PROVE  /\ Tailing(todo'[u])
                      /\ todo'[u] # <<>> /\ u # holder => todo'[u][1].k = "head"
    OBVIOUS
  <2>1. CASE u = t
    BY <1>2, <2>1
  <2>2. CASE u # t
    <3>1. Tailing(todo[u]) /\ (todo[u] # <<>> /\ u # holder => todo[u][1].k = "head")
      BY DEF LockInv
    <3>2. todo'[u] = todo[u]
      BY <1>2, <2>2
    <3> QED BY <3>1, <3>2
  <2> QED BY <2>1, <2>2
<1>4. holder # Nobody => holder \in Threads /\ todo'[holder] = todo[holder]
  BY <1>1, <1>2
<1> QED BY <1>3, <1>4 DEF LockInv

(* With the lock, lines are not mixed. *)
LEMMA LockStep ==
  ASSUME TypeInv, locked, LockInv, LogNext
  PROVE  LockInv'
<1> USE DEF TypeInv, LogType
<1>1. ASSUME NEW t \in Threads, NEW f \in {"malloc", "calloc"}, NEW num \in Nat, NEW size \in Nat,
             NEW p, NEW new, f = "malloc" => num = 1, AllocateAs(t, f, num, size, p, new)
      PROVE  LockInv'
  <2> DEFINE args == ArgsOf(f, num, size, p)
             l == LineOf(f, args)
  <2>1. p \in Nat /\ todo[t] = <<>> /\ todo' = [todo EXCEPT ![t] = l] /\ UNCHANGED <<holder, pipe, runs>>
    BY <1>1 DEF AllocateAs, Call
  <2>2. f \in Names /\ f # Joined
    BY DEF Names, Joined
  <2>3. args \in Piece /\ args.k = "args" /\ args.f = f /\ args.num = num
    BY <2>1, <2>2, ArgsTyped
  <2> HIDE DEF args
  <2>4. l \in Seq(Piece) /\ l # <<>> /\ l[1].k = "head" /\ Tailing(l)
    BY <1>1, <2>2, <2>3, NewLine
  <2> HIDE DEF l
  <2> QED BY <2>1, <2>4, CallLocks
<1>2. ASSUME NEW t \in Threads, NEW b \in Returned, Free(t, b) PROVE LockInv'
  <2> DEFINE f == "free"
             args == ArgsOf(f, 0, 0, b.addr)
             l == LineOf(f, args)
  <2>1. todo[t] = <<>> /\ todo' = [todo EXCEPT ![t] = l] /\ UNCHANGED <<holder, pipe, runs>>
    BY <1>2 DEF Free, Call
  <2>2. f \in Names /\ f # Joined /\ f # "malloc"
    BY DEF Names, Joined
  <2> HIDE DEF f
  <2>3. args \in Piece /\ args.k = "args" /\ args.f = f
    <3>1. b \in Block
      BY DEF Returned
    <3>2. b.addr \in Nat
      BY <3>1 DEF Block
    <3> QED BY <2>2, <3>2 DEF ArgsOf, Piece
  <2> HIDE DEF args
  <2>4. l \in Seq(Piece) /\ l # <<>> /\ l[1].k = "head" /\ Tailing(l)
    BY <2>2, <2>3, NewLine
  <2> HIDE DEF l
  <2> QED BY <2>1, <2>4, CallLocks
<1>3. ASSUME NEW t \in Threads, NEW b \in Returned, NEW size \in Nat, Realloc(t, b, size) PROVE LockInv'
  <2> DEFINE args == Silent("junk")
             l == LineOf(Joined, args)
  <2>1. todo[t] = <<>> /\ todo' = [todo EXCEPT ![t] = l] /\ UNCHANGED <<holder, pipe, runs>>
    BY <1>3 DEF Realloc, Call
  <2>2. args \in Piece /\ args.k = "junk"
    BY ArgsTyped
  <2>3. Joined \in Names
    BY DEF Names
  <2> HIDE DEF args
  <2>4. l \in Seq(Piece) /\ l # <<>> /\ l[1].k = "head" /\ Tailing(l)
    BY <2>2, <2>3, NewLine
  <2> HIDE DEF l
  <2> QED BY <2>1, <2>4, CallLocks
<1>4. ASSUME NEW t \in Threads, WritePiece(t) PROVE LockInv'
  <2> DEFINE s == todo[t]
             h == Head(s)
             u == Tail(s)
  <2>1. s \in Seq(Piece) /\ s # <<>> /\ Tailing(s) /\ holder \in {Nobody, t}
    <3>1. s \in Seq(Piece)
      OBVIOUS
    <3>2. Tailing(s)
      BY DEF LockInv
    <3>3. s # <<>> /\ holder \in {Nobody, t}
      BY <1>4 DEF WritePiece
    <3> QED BY <3>1, <3>2, <3>3
  <2>2. /\ u \in Seq(Piece) /\ Len(u) = Len(s) - 1 /\ h \in Piece /\ h = s[1] /\ Tailing(u)
        /\ Len(s) = 1 => h.k = "end" /\ u = <<>>
        /\ Len(s) > 1 => u # <<>> /\ Follows(h, u[1]) /\ u[1].k # "head"
    <3> HIDE DEF s
    <3> QED BY <2>1, TailingTail DEF s
  <2>3. /\ pipe' = Append(pipe, h) /\ todo' = [todo EXCEPT ![t] = u]
        /\ holder' = IF Len(s) > 1 THEN t ELSE Nobody
        /\ runs' = runs
    BY <1>4 DEF WritePiece
  <2>4. Len(s) \in Nat /\ Len(s) >= 1
    BY <2>1
  <2>5. t # Nobody /\ todo[t] = s
    BY LogAssumption
  <2> HIDE DEF s, h, u
  <2>6. (pipe = <<>> => h.k = "head") /\ (pipe # <<>> => Follows(pipe[Len(pipe)], h))
    <3>1. CASE holder = Nobody
      <4>1. h.k = "head"
        BY <2>1, <2>2, <2>5, <3>1 DEF LockInv
      <4> QED BY <3>1, <4>1 DEF LockInv, Follows
    <3>2. CASE holder = t
      BY <2>2, <2>5, <3>2 DEF LockInv
    <3> QED BY <2>1, <3>1, <3>2
  <2>7. Lines(pipe')
    BY <2>2, <2>3, <2>6, AppendLines DEF LockInv
  <2>8. Len(pipe) \in Nat /\ Len(pipe') = Len(pipe) + 1 /\ pipe'[Len(pipe')] = h /\ pipe' # <<>>
    <3>1. pipe \in Seq(Piece) /\ h \in Piece
      BY <2>2
    <3>2. /\ Len(pipe) \in Nat /\ Append(pipe, h) # <<>> /\ Len(Append(pipe, h)) = Len(pipe) + 1
          /\ Append(pipe, h)[Len(pipe) + 1] = h
      BY <3>1, AppendProperties, SMTT(30)
    <3> QED BY <2>3, <3>2
  <2>9. todo'[t] = u /\ \A v \in Threads : v # t => todo'[v] = todo[v]
    BY <2>3
  <2>10. \A v \in Threads : /\ Tailing(todo'[v])
                            /\ todo'[v] # <<>> /\ v # holder' => todo'[v][1].k = "head"
    <3> SUFFICES ASSUME NEW v \in Threads
                 PROVE  /\ Tailing(todo'[v])
                        /\ todo'[v] # <<>> /\ v # holder' => todo'[v][1].k = "head"
      OBVIOUS
    <3>1. CASE v = t
      BY <2>2, <2>3, <2>4, <2>9, <3>1
    <3>2. CASE v # t
      <4>1. v # holder
        BY <2>1, <3>2, LogAssumption
      <4>2. Tailing(todo[v]) /\ (todo[v] # <<>> => todo[v][1].k = "head")
        BY <4>1 DEF LockInv
      <4>3. todo'[v] = todo[v]
        BY <2>9, <3>2
      <4> QED BY <4>2, <4>3
    <3> QED BY <3>1, <3>2
  <2>11. holder' = Nobody => pipe'[Len(pipe')].k = "end"
    BY <2>2, <2>3, <2>4, <2>5, <2>8
  <2>12. holder' # Nobody => /\ todo'[holder'] # <<>>
                             /\ Follows(pipe'[Len(pipe')], todo'[holder'][1])
                             /\ todo'[holder'][1].k # "head"
    BY <2>2, <2>3, <2>8, <2>9
  <2>13. \A r \in 1..Len(runs') : Lines(runs'[r].pipes)
    BY <2>3 DEF LockInv
  <2> QED BY <2>7, <2>8, <2>10, <2>11, <2>12, <2>13 DEF LockInv
<1>5. ASSUME NEW t \in Threads, NEW a \in Nat, NEW n \in Nat \ {0}, Write(t, a, n) PROVE LockInv'
  <2>1. UNCHANGED <<todo, holder, pipe, runs>>
    BY <1>5 DEF Write
  <2> QED BY <2>1 DEF LockInv
<1>6. ASSUME NEW files \in SUBSET {"execlog", "pipes"}, EndRun(files) PROVE LockInv'
  <2> DEFINE r == [files |-> files, pipes |-> pipe, changes |-> writes]
  <2>1. /\ runs' = Append(runs, r) /\ pipe' = <<>> /\ holder' = Nobody
        /\ todo' = [t \in Threads |-> <<>>]
    BY <1>6 DEF EndRun
  <2>2. r.pipes = pipe /\ r \in Run
    BY DEF Run
  <2> HIDE DEF r
  <2>3. /\ Len(runs) \in Nat /\ Len(runs') = Len(runs) + 1 /\ runs'[Len(runs) + 1] = r
        /\ \A i \in 1..Len(runs) : runs'[i] = runs[i]
    BY <2>1, <2>2, AppendProperties
  <2>4. \A i \in 1..Len(runs') : Lines(runs'[i].pipes)
    <3> SUFFICES ASSUME NEW i \in 1..Len(runs') PROVE Lines(runs'[i].pipes)
      OBVIOUS
    <3>1. CASE i = Len(runs) + 1
      BY <2>2, <2>3, <3>1 DEF LockInv
    <3>2. CASE i # Len(runs) + 1
      <4>1. i \in 1..Len(runs)
        BY <2>3, <3>2
      <4> QED BY <2>3, <4>1 DEF LockInv
    <3> QED BY <3>1, <3>2
  <2>5. \A t \in Threads : todo'[t] = <<>>
    BY <2>1
  <2>6. Lines(<<>>) /\ Tailing(<<>>)
    BY DEF Lines, Tailing, Chained
  <2> QED BY <2>1, <2>4, <2>5, <2>6 DEF LockInv
<1> QED BY <1>1, <1>2, <1>3, <1>4, <1>5, <1>6, LogSteps

(* What is told stays told when a piece is written. *)
LEMMA ToldStays ==
  ASSUME NEW s \in Seq(Piece), NEW p \in Piece
  PROVE  /\ \A b : ToldBlock(s, b) => ToldBlock(Append(s, p), b)
         /\ \A w : Covered(s, w) => Covered(Append(s, p), w)
<1> DEFINE u == Append(s, p)
<1>1. \A i \in Told(s) : i \in Told(u) /\ u[i] = s[i]
  BY AppendTold
<1> HIDE DEF u
<1>2. \A b : ToldBlock(s, b) => ToldBlock(u, b)
  BY <1>1 DEF ToldBlock
<1>3. \A w : Covered(s, w) => Covered(u, w)
  BY <1>1 DEF Covered
<1> QED BY <1>2, <1>3 DEF u

(* A call that makes no block of malloc or calloc known keeps BlockInv. *)
LEMMA OtherCall ==
  ASSUME TypeInv, BlockInv, NEW t \in Threads, todo[t] = <<>>, NEW l \in Seq(Piece), l # <<>>,
         todo' = [todo EXCEPT ![t] = l], UNCHANGED <<holder, made, pipe, writes, runs>>,
         \A b \in blocks' : b \in blocks \/ b.by = "realloc"
  PROVE  BlockInv'
<1> USE DEF TypeInv, LogType
<1>1. todo'[t] = l /\ made[t] = {} /\ \A u \in Threads : u # t => todo'[u] = todo[u]
  BY DEF BlockInv
<1>2. \A u \in Threads : todo'[u] = <<>> => made[u] = {}
  BY <1>1 DEF BlockInv
<1>3. ASSUME NEW u \in Threads, NEW b \in made[u]
      PROVE  LET n == Len(todo'[u]) IN
             \/ n >= 4 /\ ArgsFor(todo'[u][n - 3], b)
             \/ n = 3 /\ holder = u /\ ArgsFor(pipe[Len(pipe)], b)
             \/ n < 3 /\ ToldBlock(pipe, b)
  <2>1. u # t
    BY <1>1
  <2>2. todo'[u] = todo[u]
    BY <1>1, <2>1
  <2> QED BY <2>2 DEF BlockInv
<1>4. \A b \in blocks' : b.by \in {"malloc", "calloc"} =>
        ToldBlock(pipe, b) \/ \E u \in Threads : b \in made[u]
  BY DEF BlockInv
<1> QED BY <1>2, <1>3, <1>4 DEF BlockInv

(* With the lock, a block of malloc or calloc is in the log when its call  *)
(* has returned, and covers what is written inside it.                     *)
LEMMA BlockStep ==
  ASSUME TypeInv, locked, LockInv, BlockInv, LogNext
  PROVE  BlockInv'
<1> USE DEF TypeInv, LogType
<1>1. ASSUME NEW t \in Threads, NEW f \in {"malloc", "calloc"}, NEW num \in Nat, NEW size \in Nat,
             NEW p, NEW new, f = "malloc" => num = 1, AllocateAs(t, f, num, size, p, new)
      PROVE  BlockInv'
  <2> DEFINE args == ArgsOf(f, num, size, p)
             l == LineOf(f, args)
  <2>1. /\ p \in Nat /\ todo[t] = <<>> /\ todo' = [todo EXCEPT ![t] = l]
        /\ made' = [made EXCEPT ![t] = new] /\ blocks' = blocks \union new
        /\ \A b \in new : p # 0 /\ b.addr = p /\ b.size = num * size
        /\ UNCHANGED <<holder, pipe, writes, runs>>
    BY <1>1 DEF AllocateAs, Call
  <2>2. f \in Names /\ f # Joined
    BY DEF Names, Joined
  <2>3. /\ args \in Piece /\ args.k = "args" /\ args.f = f
        /\ args.num = num /\ args.size = size /\ args.ret = p
    BY <2>1, <2>2, ArgsTyped
  <2> HIDE DEF args
  <2>4. l \in Seq(Piece) /\ Len(l) = 5 /\ l # <<>> /\ l[2] = args
    BY <2>2, <2>3, LineTyped
  <2> HIDE DEF l
  <2>5. \A b \in new : ArgsFor(l[2], b)
    BY <2>1, <2>3, <2>4 DEF ArgsFor, NULL
  <2>6. /\ todo'[t] = l /\ made'[t] = new /\ made[t] = {}
        /\ \A u \in Threads : u # t => todo'[u] = todo[u] /\ made'[u] = made[u]
    BY <2>1 DEF BlockInv
  <2>7. \A u \in Threads : todo'[u] = <<>> => made'[u] = {}
    BY <2>4, <2>6 DEF BlockInv
  <2>8. ASSUME NEW u \in Threads, NEW b \in made'[u]
        PROVE  LET n == Len(todo'[u]) IN
               \/ n >= 4 /\ ArgsFor(todo'[u][n - 3], b)
               \/ n = 3 /\ holder = u /\ ArgsFor(pipe[Len(pipe)], b)
               \/ n < 3 /\ ToldBlock(pipe, b)
    <3>1. CASE u = t
      <4>1. Len(todo'[u]) = 5 /\ 5 - 3 = 2 /\ b \in new
        BY <2>4, <2>6, <2>8, <3>1
      <4>2. ArgsFor(todo'[u][2], b)
        BY <2>5, <2>6, <3>1, <4>1
      <4> QED BY <4>1, <4>2
    <3>2. CASE u # t
      <4>1. todo'[u] = todo[u] /\ b \in made[u]
        BY <2>6, <2>8, <3>2
      <4> QED BY <4>1 DEF BlockInv
    <3> QED BY <3>1, <3>2
  <2>9. \A b \in blocks' : b.by \in {"malloc", "calloc"} =>
          ToldBlock(pipe, b) \/ \E u \in Threads : b \in made'[u]
    <3> SUFFICES ASSUME NEW b \in blocks', b.by \in {"malloc", "calloc"}
                 PROVE  ToldBlock(pipe, b) \/ \E u \in Threads : b \in made'[u]
      OBVIOUS
    <3>1. CASE b \in new
      BY <2>6, <3>1
    <3>2. CASE b \notin new
      <4>1. ToldBlock(pipe, b) \/ \E u \in Threads : b \in made[u]
        BY <2>1, <3>2 DEF BlockInv
      <4> QED BY <2>6, <4>1
    <3> QED BY <3>1, <3>2
  <2> QED BY <2>1, <2>7, <2>8, <2>9 DEF BlockInv
<1>2. ASSUME NEW t \in Threads, NEW b \in Returned, Free(t, b) PROVE BlockInv'
  <2> DEFINE l == LineOf("free", ArgsOf("free", 0, 0, b.addr))
  <2>1. b \in Block
    BY DEF Returned
  <2>2. ArgsOf("free", 0, 0, b.addr) \in Piece /\ "free" \in Names
    BY <2>1, ArgsTyped DEF Names, Block
  <2>3. l \in Seq(Piece) /\ l # <<>>
    BY <2>2, LineTyped
  <2>4. /\ todo[t] = <<>> /\ todo' = [todo EXCEPT ![t] = l] /\ blocks' = blocks \ {b}
        /\ UNCHANGED <<holder, made, pipe, writes, runs>>
    BY <1>2 DEF Free, Call
  <2> HIDE DEF l
  <2> QED BY <2>3, <2>4, OtherCall
<1>3. ASSUME NEW t \in Threads, NEW b \in Returned, NEW size \in Nat, Realloc(t, b, size) PROVE BlockInv'
  <2> DEFINE l == LineOf(Joined, Silent("junk"))
  <2>1. Silent("junk") \in Piece /\ Joined \in Names
    BY ArgsTyped DEF Names
  <2>2. l \in Seq(Piece) /\ l # <<>>
    BY <2>1, LineTyped
  <2>3. /\ todo[t] = <<>> /\ todo' = [todo EXCEPT ![t] = l]
        /\ UNCHANGED <<holder, made, pipe, writes, runs>>
    BY <1>3 DEF Realloc, Call
  <2>4. \A c \in blocks' : c \in blocks \/ c.by = "realloc"
    BY <1>3 DEF Realloc
  <2> HIDE DEF l
  <2> QED BY <2>2, <2>3, <2>4, OtherCall
<1>4. ASSUME NEW t \in Threads, WritePiece(t) PROVE BlockInv'
  <2> DEFINE s == todo[t]
             h == Head(s)
             v == Tail(s)
  <2>1. s \in Seq(Piece) /\ s # <<>> /\ Tailing(s)
    BY <1>4 DEF WritePiece, LockInv
  <2>2. holder \in {Nobody, t}
    BY <1>4 DEF WritePiece
  <2>3. /\ v \in Seq(Piece) /\ Len(v) = Len(s) - 1 /\ h \in Piece /\ h = s[1]
        /\ \A i \in 1..Len(v) : v[i] = s[i + 1]
        /\ Len(s) > 1 => v # <<>>
    <3> HIDE DEF s
    <3> QED BY <2>1, TailingTail DEF s
  <2>4. /\ pipe' = Append(pipe, h) /\ todo' = [todo EXCEPT ![t] = v]
        /\ holder' = IF Len(s) > 1 THEN t ELSE Nobody
        /\ made' = IF Len(s) > 1 THEN made ELSE [made EXCEPT ![t] = {}]
        /\ UNCHANGED <<blocks, writes, runs>>
    BY <1>4 DEF WritePiece
  <2>5. Len(s) \in Nat /\ Len(s) >= 1 /\ t # Nobody /\ todo[t] = s
    BY <2>1, LogAssumption
  <2>13. (Len(s) = 1 \/ Len(s) > 1) /\ (Len(s) >= 4 => Len(s) = 4 \/ Len(s) > 4)
    <3>1. \A n \in Nat : n >= 1 => (n = 1 \/ n > 1) /\ (n >= 4 => n = 4 \/ n > 4)
      OBVIOUS
    <3> HIDE DEF s
    <3> QED BY ONLY <2>5, <3>1
  <2> HIDE DEF s, h, v
  <2>6. todo'[t] = v /\ \A u \in Threads : u # t => todo'[u] = todo[u] /\ made'[u] = made[u]
    BY <2>4
  <2>7. /\ \A b : ToldBlock(pipe, b) => ToldBlock(pipe', b)
        /\ \A w : Covered(pipe, w) => Covered(pipe', w)
    BY <2>3, <2>4, ToldStays
  <2>8. Len(pipe) \in Nat /\ pipe'[Len(pipe')] = h
    <3>1. pipe \in Seq(Piece) /\ h \in Piece
      BY <2>3
    <3>2. /\ Len(pipe) \in Nat /\ Len(Append(pipe, h)) = Len(pipe) + 1
          /\ Append(pipe, h)[Len(pipe) + 1] = h
      BY <3>1, AppendProperties
    <3> QED BY <2>4, <3>2
  <2>9. \A u \in Threads : todo'[u] = <<>> => made'[u] = {}
    <3> SUFFICES ASSUME NEW u \in Threads, todo'[u] = <<>> PROVE made'[u] = {}
      OBVIOUS
    <3>1. CASE u = t
      <4>1. ~(Len(s) > 1)
        BY <2>3, <2>6, <3>1
      <4> QED BY <2>4, <3>1, <4>1
    <3>2. CASE u # t
      BY <2>6, <3>2 DEF BlockInv
    <3> QED BY <3>1, <3>2
  <2>10. ASSUME NEW u \in Threads, NEW b \in made'[u]
         PROVE  LET n == Len(todo'[u]) IN
                \/ n >= 4 /\ ArgsFor(todo'[u][n - 3], b)
                \/ n = 3 /\ holder' = u /\ ArgsFor(pipe'[Len(pipe')], b)
                \/ n < 3 /\ ToldBlock(pipe', b)
    <3>1. CASE u # t
      <4>1. todo'[u] = todo[u] /\ b \in made[u] /\ holder # u
        BY <2>2, <2>6, <2>10, <3>1, LogAssumption
      <4>2. LET n == Len(todo[u]) IN
            \/ n >= 4 /\ ArgsFor(todo[u][n - 3], b)
            \/ n < 3 /\ ToldBlock(pipe, b)
        BY <4>1 DEF BlockInv
      <4> QED BY <2>7, <4>1, <4>2
    <3>2. CASE u = t
      <4>1. Len(s) > 1 /\ b \in made[t] /\ holder' = t
        BY <2>4, <2>5, <2>10, <3>2
      <4>2. \/ Len(s) >= 4 /\ ArgsFor(s[Len(s) - 3], b)
            \/ Len(s) = 3 /\ holder = t /\ ArgsFor(pipe[Len(pipe)], b)
            \/ Len(s) < 3 /\ ToldBlock(pipe, b)
        BY <2>5, <4>1 DEF BlockInv
      <4>3. CASE Len(s) > 4 /\ ArgsFor(s[Len(s) - 3], b)
        <5>1. Len(v) - 3 \in 1..Len(v) /\ (Len(v) - 3) + 1 = Len(s) - 3 /\ Len(v) >= 4
          BY <2>3, <2>5, <4>3
        <5>2. v[Len(v) - 3] = s[Len(s) - 3]
          BY <2>3, <5>1
        <5> QED BY <2>6, <3>2, <4>3, <5>1, <5>2
      <4>4. CASE Len(s) = 4 /\ ArgsFor(s[Len(s) - 3], b)
        <5>1. Len(v) = 3 /\ Len(s) - 3 = 1
          BY <2>3, <4>4
        <5>2. ArgsFor(pipe'[Len(pipe')], b)
          BY <2>3, <2>8, <4>4, <5>1
        <5> QED BY <2>6, <3>2, <4>1, <5>1, <5>2
      <4>5. CASE Len(s) = 3 /\ holder = t /\ ArgsFor(pipe[Len(pipe)], b)
        <5>1. Len(v) = 2
          BY <2>3, <4>5
        <5>2. pipe # <<>> /\ Follows(pipe[Len(pipe)], h)
          BY <2>3, <2>5, <4>5 DEF LockInv
        <5>3. Closes(h)
          BY <4>5, <5>2 DEF ArgsFor, Follows, Closes
        <5>4. Len(pipe) \in Told(pipe') /\ pipe'[Len(pipe)] = pipe[Len(pipe)]
          BY <2>3, <2>4, <4>5, <5>2, <5>3, AppendTold DEF ArgsFor
        <5>5. ToldBlock(pipe', b)
          BY <4>5, <5>4 DEF ToldBlock
        <5>6. Len(todo'[u]) = 2
          BY <2>6, <3>2, <5>1
        <5> QED BY <5>5, <5>6
      <4>6. CASE Len(s) < 3 /\ ToldBlock(pipe, b)
        <5>1. Len(v) < 3
          BY <2>3, <2>5, <4>6
        <5>2. Len(todo'[u]) < 3 /\ ToldBlock(pipe', b)
          BY <2>6, <2>7, <3>2, <4>6, <5>1
        <5> QED BY <5>2
      <4> QED BY <2>13, <4>2, <4>3, <4>4, <4>5, <4>6
    <3> QED BY <3>1, <3>2
  <2>11. \A b \in blocks' : b.by \in {"malloc", "calloc"} =>
          ToldBlock(pipe', b) \/ \E u \in Threads : b \in made'[u]
    <3> SUFFICES ASSUME NEW b \in blocks, b.by \in {"malloc", "calloc"}
                 PROVE  ToldBlock(pipe', b) \/ \E u \in Threads : b \in made'[u]
      BY <2>4
    <3>1. CASE ToldBlock(pipe, b)
      BY <2>7, <3>1
    <3>2. ASSUME NEW u \in Threads, b \in made[u]
          PROVE  ToldBlock(pipe', b) \/ b \in made'[u]
      <4>1. CASE u # t \/ Len(s) > 1
        BY <2>4, <2>6, <3>2, <4>1
      <4>2. CASE u = t /\ Len(s) = 1
        <5>1. LET n == Len(todo[t]) IN
              \/ n >= 4 /\ ArgsFor(todo[t][n - 3], b)
              \/ n = 3 /\ holder = t /\ ArgsFor(pipe[Len(pipe)], b)
              \/ n < 3 /\ ToldBlock(pipe, b)
          BY <3>2, <4>2 DEF BlockInv
        <5>2. Len(todo[t]) = 1
          BY <2>5, <4>2
        <5>3. ToldBlock(pipe, b)
          BY <5>1, <5>2
        <5>4. ToldBlock(pipe', b)
          BY <2>7, <5>3, Zenon
        <5> QED BY <5>4
      <4> QED BY <2>13, <4>1, <4>2
    <3> QED BY <3>1, <3>2 DEF BlockInv
  <2>12. \A i \in 1..Len(writes') : writes'[i].inside => Covered(pipe', writes'[i])
    BY <2>4, <2>7 DEF BlockInv
  <2> QED BY <2>4, <2>9, <2>10, <2>11, <2>12 DEF BlockInv
<1>5. ASSUME NEW t \in Threads, NEW a \in Nat, NEW n \in Nat \ {0}, Write(t, a, n) PROVE BlockInv'
  <2> DEFINE w == [addr |-> a, len |-> n, inside |-> Inside(a, n)]
  <2>1. writes' = Append(writes, w) /\ UNCHANGED <<todo, holder, blocks, made, pipe, runs>>
    BY <1>5 DEF Write
  <2>2. w.addr = a /\ w.len = n /\ w.inside = Inside(a, n) /\ w \in Change
    <3>1. Inside(a, n) \in BOOLEAN
      BY DEF Inside
    <3> QED BY <3>1 DEF Change
  <2> HIDE DEF w
  <2>3. w.inside => Covered(pipe, w)
    <3> SUFFICES ASSUME Inside(a, n) PROVE Covered(pipe, w)
      BY <2>2
    <3>1. PICK b \in Returned : /\ b.by \in {"malloc", "calloc"}
                                /\ b.addr <= a /\ a + n <= b.addr + b.size
      BY DEF Inside
    <3>2. b \in blocks /\ \A u \in Threads : b \notin made[u]
      BY DEF Returned
    <3>3. ToldBlock(pipe, b)
      BY <3>1, <3>2 DEF BlockInv
    <3>4. PICK i \in Told(pipe) : ArgsFor(pipe[i], b)
      BY <3>3 DEF ToldBlock
    <3>5. pipe[i].ret = b.addr /\ pipe[i].num * pipe[i].size = b.size
      BY <3>4 DEF ArgsFor
    <3> QED BY <2>2, <3>1, <3>5 DEF Covered
  <2>4. /\ Len(writes) \in Nat /\ Len(writes') = Len(writes) + 1 /\ writes'[Len(writes) + 1] = w
        /\ \A i \in 1..Len(writes) : writes'[i] = writes[i]
    BY <2>1, <2>2, AppendProperties
  <2>5. \A i \in 1..Len(writes') : writes'[i].inside => Covered(pipe, writes'[i])
    <3> SUFFICES ASSUME NEW i \in 1..Len(writes'), writes'[i].inside PROVE Covered(pipe, writes'[i])
      OBVIOUS
    <3>1. CASE i = Len(writes) + 1
      BY <2>3, <2>4, <3>1
    <3>2. CASE i # Len(writes) + 1
      <4>1. i \in 1..Len(writes)
        BY <2>4, <3>2
      <4> QED BY <2>4, <4>1 DEF BlockInv
    <3> QED BY <3>1, <3>2
  <2> QED BY <2>1, <2>5 DEF BlockInv
<1>6. ASSUME NEW files \in SUBSET {"execlog", "pipes"}, EndRun(files) PROVE BlockInv'
  <2> DEFINE r == [files |-> files, pipes |-> pipe, changes |-> writes]
  <2>1. /\ runs' = Append(runs, r) /\ pipe' = <<>> /\ writes' = <<>> /\ blocks' = {}
        /\ todo' = [t \in Threads |-> <<>>] /\ made' = [t \in Threads |-> {}]
    BY <1>6 DEF EndRun
  <2>2. r.pipes = pipe /\ r.changes = writes /\ r \in Run
    BY DEF Run
  <2> HIDE DEF r
  <2>3. /\ Len(runs) \in Nat /\ Len(runs') = Len(runs) + 1 /\ runs'[Len(runs) + 1] = r
        /\ \A i \in 1..Len(runs) : runs'[i] = runs[i]
    BY <2>1, <2>2, AppendProperties
  <2>4. ASSUME NEW k \in 1..Len(runs')
        PROVE  \A i \in 1..Len(runs'[k].changes) :
                 runs'[k].changes[i].inside => Covered(runs'[k].pipes, runs'[k].changes[i])
    <3>1. CASE k = Len(runs) + 1
      BY <2>2, <2>3, <3>1 DEF BlockInv
    <3>2. CASE k # Len(runs) + 1
      <4>1. k \in 1..Len(runs)
        BY <2>3, <3>2
      <4> QED BY <2>3, <4>1 DEF BlockInv
    <3> QED BY <3>1, <3>2
  <2>5. \A t \in Threads : made'[t] = {}
    BY <2>1
  <2> QED BY <2>1, <2>4, <2>5 DEF BlockInv
<1> QED BY <1>1, <1>2, <1>3, <1>4, <1>5, <1>6, LogSteps

-----------------------------------------------------------------------------
(* The reader.                                                             *)

(* The pieces of a line that the lock kept together. *)
LEMMA LockedLine ==
  ASSUME NEW line \in Seq(Piece), line # <<>>, Lines(line),
         \A i \in 1..Len(line) - 1 : ~IsEnd(line[i])
  PROVE  /\ Len(line) \in 1..5 /\ line[1].k = "head"
         /\ Len(line) >= 2 => line[2].k \in {"args", "junk"} /\ Follows(line[1], line[2])
         /\ Len(line) >= 3 => line[3].k = "sep"
         /\ Len(line) >= 4 => line[4].k = "frame"
         /\ Len(line) >= 5 => line[5].k = "end"
<1> DEFINE e == Len(line)
<1>1. e \in Nat /\ e >= 1 /\ line[1].k = "head"
  BY DEF Lines
<1>2. \A i \in 1..e - 1 : Follows(line[i], line[i + 1]) /\ line[i].k # "end"
  BY DEF Lines, Chained, IsEnd
<1> HIDE DEF e
<1>3. /\ e >= 2 => Follows(line[1], line[2]) /\ line[1].k # "end"
      /\ e >= 3 => Follows(line[2], line[3]) /\ line[2].k # "end"
      /\ e >= 4 => Follows(line[3], line[4]) /\ line[3].k # "end"
      /\ e >= 5 => Follows(line[4], line[5]) /\ line[4].k # "end"
      /\ e >= 6 => line[5].k # "end"
  <2>1. /\ e >= 2 => 1 \in 1..e - 1 /\ 1 + 1 = 2
        /\ e >= 3 => 2 \in 1..e - 1 /\ 2 + 1 = 3
        /\ e >= 4 => 3 \in 1..e - 1 /\ 3 + 1 = 4
        /\ e >= 5 => 4 \in 1..e - 1 /\ 4 + 1 = 5
        /\ e >= 6 => 5 \in 1..e - 1
    BY <1>1
  <2> QED BY <1>2, <2>1
<1>4. e >= 2 => line[2].k \in {"args", "junk"}
  BY <1>1, <1>3 DEF Follows
<1>5. e >= 3 => line[3].k = "sep"
  BY <1>1, <1>3, <1>4 DEF Follows
<1>6. e >= 4 => line[4].k = "frame"
  BY <1>1, <1>3, <1>5 DEF Follows
<1>7. e >= 5 => line[5].k = "end"
  BY <1>1, <1>3, <1>6 DEF Follows
<1>8. e <= 5
  BY <1>1, <1>3, <1>7
<1>9. e \in 1..5
  BY <1>1, <1>8
<1>10. /\ e \in 1..5 /\ line[1].k = "head"
       /\ e >= 2 => line[2].k \in {"args", "junk"} /\ Follows(line[1], line[2])
       /\ e >= 3 => line[3].k = "sep"
       /\ e >= 4 => line[4].k = "frame"
       /\ e >= 5 => line[5].k = "end"
  BY <1>1, <1>3, <1>4, <1>5, <1>6, <1>7, <1>9
<1> QED BY <1>10 DEF e

(* A known one that does not throw is whole. *)
LEMMA KnownIsWhole ==
  ASSUME NEW line \in Seq(Piece), line # <<>>, Lines(line),
         \A i \in 1..Len(line) - 1 : ~IsEnd(line[i]), ~Throws(line)
  PROVE  Len(line) = 5
<1> DEFINE e == Len(line)
           c == FirstClosing(line, 1)
           bt == FirstSep(line, 1)
           d == FirstClosing(line, bt + 1)
<1>1. /\ e \in 1..5 /\ line[1].k = "head"
      /\ e >= 2 => line[2].k \in {"args", "junk"}
      /\ e >= 3 => line[3].k = "sep"
      /\ e >= 4 => line[4].k = "frame"
      /\ e >= 5 => line[5].k = "end"
  BY LockedLine
<1>2. 1 \in Nat \ {0}
  OBVIOUS
<1>3. c # 0 /\ (bt # 0 => d # 0)
  BY ThrowsIs
<1>4. c \in 1..e /\ Closes(line[c])
  BY <1>2, <1>3, FirstClosingIs
<1>5. /\ bt = 0 => \A k \in 1..e : ~IsSep(line[k])
      /\ bt # 0 => bt \in 1..e /\ IsSep(line[bt])
      /\ bt \in Nat
  BY <1>2, FirstSepIs
<1>6. bt # 0 => d \in bt + 1..e /\ Closes(line[d])
  <2>1. bt + 1 \in Nat \ {0}
    BY <1>5
  <2> QED BY <1>3, <2>1, FirstClosingIs
<1> HIDE DEF e, c, bt, d
<1>7. e >= 3
  BY <1>1, <1>4 DEF Closes
<1>8. bt = 3
  <2>1. bt # 0
    BY <1>1, <1>5, <1>7 DEF IsSep
  <2> QED BY <1>1, <1>5, <2>1 DEF IsSep
<1>9. d \in 4..e /\ Closes(line[d])
  BY <1>6, <1>8
<1>10. d # 4
  BY <1>1, <1>9 DEF Closes
<1>11. e = 5
  BY <1>1, <1>9, <1>10
<1> QED BY <1>11 DEF e

(* What such a line adds: the block it tells of, if it does. *)
LEMMA LineAdds ==
  ASSUME NEW line \in Seq(Piece), line # <<>>, Lines(line),
         \A i \in 1..Len(line) - 1 : ~IsEnd(line[i]), ~(Known(line) /\ Throws(line))
  PROVE  /\ \A j \in Told(line) : j = 2
         /\ (IF Known(line) THEN RangeOf(line) ELSE <<>>) =
              IF 2 \in Told(line) THEN <<Blk(line, 2)>> ELSE <<>>
<1> DEFINE e == Len(line)
<1>1. /\ e \in 1..5 /\ line[1].k = "head"
      /\ e >= 2 => line[2].k \in {"args", "junk"} /\ Follows(line[1], line[2])
      /\ e >= 3 => line[3].k = "sep"
      /\ e >= 4 => line[4].k = "frame"
  BY LockedLine
<1>2. ASSUME NEW j \in Told(line) PROVE j = 2
  <2>1. j \in 1..e - 1 /\ line[j].k = "args"
    BY DEF Told
  <2> HIDE DEF e
  <2>2. j \in {1, 2, 3, 4}
    BY <1>1, <2>1
  <2>3. j # 1 /\ j # 3 /\ j # 4
    BY <1>1, <2>1
  <2> QED BY <2>2, <2>3
<1>3. CASE Known(line)
  <2>1. e = 5
    BY <1>3, KnownIsWhole
  <2>2. RangeOf(line) = IF 2 \in Told(line) THEN <<Blk(line, 2)>> ELSE <<>>
    BY <1>3, <2>1, RangeOfWholeLine
  <2> QED BY <1>2, <1>3, <2>2
<1>4. CASE ~Known(line)
  <2>1. 2 \notin Told(line)
    <3> SUFFICES ASSUME 2 \in Told(line) PROVE FALSE
      OBVIOUS
    <3>1. 2 \in 1..e - 1 /\ line[2].k = "args" /\ line[2].f \in {"malloc", "calloc"}
      BY DEF Told
    <3>2. line[1].f = line[2].f
      BY <1>1, <3>1 DEF Follows
    <3> QED BY <1>1, <1>4, <3>1, <3>2 DEF Known, IsHead
  <2> QED BY <1>2, <1>4, <2>1
<1> QED BY <1>3, <1>4

(* A line of the file, at n + 1, and what the file tells there. *)
LEMMA LineInFile ==
  ASSUME NEW s \in Seq(Piece), NEW line \in Seq(Piece), NEW n \in Nat, line # <<>>,
         n + Len(line) <= Len(s), \A i \in 1..Len(line) : line[i] = s[n + i]
  PROVE  /\ \A j \in Told(line) : n + j \in Told(s) /\ s[n + j] = line[j]
         /\ IsEnd(line[Len(line)]) \/ n + Len(line) = Len(s) =>
              \A j \in Told(s) : n < j /\ j <= n + Len(line) => j - n \in Told(line)
         /\ Lines(s) /\ line[1].k = "head" => Lines(line)
<1> DEFINE e == Len(line)
<1>1. e \in Nat /\ e >= 1 /\ Len(s) \in Nat /\ n + e <= Len(s)
  OBVIOUS
<1> HIDE DEF e
<1>2. \A i \in 1..e : line[i] = s[n + i]
  BY DEF e
<1>3. ASSUME NEW j \in Told(line) PROVE n + j \in Told(s) /\ s[n + j] = line[j]
  <2>1. /\ j \in 1..e - 1 /\ line[j].k = "args" /\ line[j].f \in {"malloc", "calloc"}
        /\ line[j].ret # NULL /\ Closes(line[j + 1])
    BY DEF Told, e
  <2>2. /\ j \in 1..e /\ j + 1 \in 1..e /\ n + j \in 1..Len(s) - 1 /\ n + (j + 1) = (n + j) + 1
    BY <1>1, <2>1
  <2>3. line[j] = s[n + j] /\ line[j + 1] = s[n + (j + 1)]
    BY <1>2, <2>2
  <2> QED BY <2>1, <2>2, <2>3 DEF Told
<1>4. ASSUME IsEnd(line[e]) \/ n + e = Len(s), NEW j \in Told(s), n < j, j <= n + e
      PROVE  j - n \in Told(line)
  <2>1. /\ j \in 1..Len(s) - 1 /\ s[j].k = "args" /\ s[j].f \in {"malloc", "calloc"}
        /\ s[j].ret # NULL /\ Closes(s[j + 1])
    BY DEF Told
  <2>2. j - n \in 1..e /\ n + (j - n) = j /\ n + ((j - n) + 1) = j + 1
    BY <1>1, <1>4, <2>1
  <2>3. line[j - n] = s[j]
    BY <1>2, <2>2
  <2>4. j - n # e
    <3>1. CASE IsEnd(line[e])
      BY <2>1, <2>3, <3>1 DEF IsEnd
    <3>2. CASE n + e = Len(s)
      BY <1>1, <2>1, <3>2
    <3> QED BY <1>4, <3>1, <3>2
  <2>5. j - n \in 1..e - 1 /\ (j - n) + 1 \in 1..e
    BY <1>1, <2>2, <2>4
  <2>6. line[(j - n) + 1] = s[j + 1]
    BY <1>2, <2>2, <2>5
  <2> QED BY <2>1, <2>3, <2>5, <2>6 DEF Told, e
<1>5. ASSUME Lines(s) PROVE Chained(line)
  <2> SUFFICES ASSUME NEW i \in 1..e - 1 PROVE Follows(line[i], line[i + 1])
    BY DEF Chained, e
  <2>1. i \in 1..e /\ i + 1 \in 1..e /\ n + i \in 1..Len(s) - 1 /\ n + (i + 1) = (n + i) + 1
    BY <1>1
  <2>2. Follows(s[n + i], s[(n + i) + 1])
    BY <1>5, <2>1 DEF Lines, Chained
  <2> QED BY <1>2, <2>1, <2>2
<1> QED BY <1>3, <1>4, <1>5 DEF Lines, e

(* The run that is analyzed. *)
LEMMA FileTyped ==
  ASSUME TypeInv, phase \in {"lines", "changes"}
  PROVE  /\ prefix \in 1..Len(runs) /\ runs[prefix] \in Run
         /\ File \in Seq(Piece) /\ Changes \in Seq(Change)
         /\ Len(File) \in Nat /\ Len(rest) \in Nat /\ Read \in Int
<1>1. prefix \in 1..Len(runs)
  BY DEF TypeInv, AnalysisType, LogType
<1>2. runs[prefix] \in Run
  BY <1>1, ElementOfSeq DEF TypeInv, LogType
<1>3. File \in Seq(Piece) /\ Changes \in Seq(Change)
  BY <1>2 DEF Run, File, Changes
<1>4. rest \in Seq(Piece)
  BY DEF TypeInv, AnalysisType
<1>5. Len(File) \in Nat /\ Len(rest) \in Nat
  BY <1>3, <1>4
<1>6. Read \in Int
  BY <1>5 DEF Read
<1> QED BY <1>1, <1>2, <1>3, <1>5, <1>6

(* Where the reader is when it has read a line. *)
LEMMA ReaderMoves ==
  ASSUME TypeInv, ReadInv, ReadLine, phase' = phase
  PROVE  LET e == LineEnd(rest)
             line == SubSeq(rest, 1, e)
             n == Read
         IN
         /\ n \in Nat /\ e \in Nat \ {0} /\ n + e <= Len(File)
         /\ line \in Seq(Piece) /\ line # <<>> /\ Len(line) = e
         /\ \A i \in 1..e : line[i] = File[n + i]
         /\ line[1] = rest[1] /\ rest # <<>>
         /\ \A i \in 1..e - 1 : ~IsEnd(line[i])
         /\ IsEnd(line[e]) \/ n + e = Len(File)
         /\ Len(rest') = Len(File) - (n + e) /\ Len(rest') \in Nat
         /\ \A i \in 1..Len(rest') : rest'[i] = File[(n + e) + i]
<1> DEFINE e == LineEnd(rest)
           line == SubSeq(rest, 1, e)
           n == Read
           s == File
           r == Len(rest)
<1>1. /\ phase = "lines" /\ rest # <<>> /\ e \in 1..r
      /\ line \in Seq(Piece) /\ line # <<>> /\ Len(line) = e
      /\ \A i \in 1..e : line[i] = rest[i]
      /\ \A i \in 1..e - 1 : ~IsEnd(rest[i])
      /\ IsEnd(rest[e]) \/ e = r
  BY ReadLineIs
<1>2. /\ rest' \in Seq(Piece) /\ Len(rest') = r - e
      /\ \A i \in 1..Len(rest') : rest'[i] = rest[e + i]
  BY <1>1, ReadLineIs
<1>3. r \in Nat /\ Len(s) \in Nat /\ n = Len(s) - r
  BY <1>1, FileTyped DEF Read
<1>4. n >= 0 /\ \A i \in 1..r : rest[i] = s[n + i]
  BY <1>1 DEF ReadInv
<1> HIDE DEF e, line, n, s, r
<1>5. n \in Nat /\ e \in Nat \ {0} /\ n + e <= Len(s) /\ (e = r <=> n + e = Len(s))
  <2>1. e \in 1..r
    BY <1>1
  <2> QED BY <1>3, <1>4, <2>1
<1>6. \A i \in 1..e : line[i] = s[n + i]
  BY <1>1, <1>3, <1>4
<1>7. \A i \in 1..e - 1 : ~IsEnd(line[i])
  BY <1>1, <1>5
<1>8. IsEnd(line[e]) \/ n + e = Len(s)
  BY <1>1, <1>5
<1>9. Len(rest') = Len(s) - (n + e) /\ Len(rest') \in Nat
  BY <1>1, <1>2, <1>3, <1>5
<1>10. \A i \in 1..Len(rest') : rest'[i] = s[(n + e) + i]
  <2> SUFFICES ASSUME NEW i \in 1..Len(rest') PROVE rest'[i] = s[(n + e) + i]
    OBVIOUS
  <2>1. e + i \in 1..r /\ n + (e + i) = (n + e) + i
    BY <1>1, <1>2, <1>3, <1>4
  <2> QED BY <1>2, <1>4, <2>1
<1>11. line[1] = rest[1]
  BY <1>1, <1>5
<1> QED BY <1>1, <1>5, <1>6, <1>7, <1>8, <1>9, <1>10, <1>11 DEF e, line, n, s

(* Reading a line keeps ReadInv. *)
LEMMA ReadLineKeeps ==
  ASSUME TypeInv, ReadInv, locked => LockInv, ReadLine, phase' = phase
  PROVE  ReadInv'
<1> DEFINE e == LineEnd(rest)
           line == SubSeq(rest, 1, e)
           n == Read
           s == File
           added == IF Known(line) THEN RangeOf(line) ELSE <<>>
<1>1. /\ n \in Nat /\ e \in Nat \ {0} /\ n + e <= Len(s)
      /\ line \in Seq(Piece) /\ line # <<>> /\ Len(line) = e
      /\ \A i \in 1..e : line[i] = s[n + i]
      /\ line[1] = rest[1] /\ rest # <<>>
      /\ \A i \in 1..e - 1 : ~IsEnd(line[i])
      /\ IsEnd(line[e]) \/ n + e = Len(s)
      /\ Len(rest') = Len(s) - (n + e) /\ Len(rest') \in Nat
      /\ \A i \in 1..Len(rest') : rest'[i] = s[(n + e) + i]
  BY ReaderMoves
<1>2. phase = "lines" /\ ~(Known(line) /\ Throws(line)) /\ ranges' = ranges \o added
  BY ReadLineIs
<1>3. File' = s /\ locked' = locked
  BY ReadLineIs DEF File, target
<1>4. s \in Seq(Piece) /\ Len(s) \in Nat /\ prefix \in 1..Len(runs)
  BY <1>2, FileTyped
<1>5. Read' = n + e
  <2>1. Read' = Len(s) - Len(rest')
    BY <1>3 DEF Read
  <2> HIDE DEF n, e, s
  <2> QED BY <1>1, <1>4, <2>1
<1>6. ranges \in Seq(Extent)
  BY DEF TypeInv, AnalysisType
<1>7. added \in Seq(Extent) /\ \A i \in 1..Len(added) : \E j \in Told(line) : added[i].addr = line[j].ret
  <2>1. line \in Seq(Piece) /\ line # <<>> /\ ~(Known(line) /\ Throws(line))
    BY <1>1, <1>2
  <2> HIDE DEF line
  <2>2. CASE Known(line)
    <3>1. /\ RangeOf(line) \in Seq(Extent)
          /\ \A i \in 1..Len(RangeOf(line)) :
               \E j \in Told(line) : RangeOf(line)[i].addr = line[j].ret
      BY <2>1, <2>2, RangeOfLine
    <3>2. added = RangeOf(line)
      BY <2>2
    <3> HIDE DEF added
    <3> QED BY <3>1, <3>2
  <2>3. CASE ~Known(line)
    <3>1. added = <<>>
      BY <2>3
    <3> HIDE DEF added
    <3> QED BY <3>1
  <2> QED BY <2>2, <2>3
<1>8. /\ \A i \in 1..Len(ranges) : \E j \in Told(s) : ranges[i].addr = s[j].ret
      /\ locked => /\ rest # <<>> => rest[1].k = "head"
                   /\ \A i \in 1..Len(ranges) : \E j \in Told(s) : j <= n /\ ranges[i] = Blk(s, j)
                   /\ \A j \in Told(s) : j <= n => \E i \in 1..Len(ranges) : ranges[i] = Blk(s, j)
  BY <1>2 DEF ReadInv
<1>9. locked => Lines(s)
  BY <1>4 DEF LockInv, File
<1>10. locked => /\ Lines(line)
                 /\ \A j \in Told(line) : j = 2
                 /\ added = IF 2 \in Told(line) THEN <<Blk(line, 2)>> ELSE <<>>
  <2> SUFFICES ASSUME locked
               PROVE  /\ Lines(line) /\ \A j \in Told(line) : j = 2
                      /\ added = IF 2 \in Told(line) THEN <<Blk(line, 2)>> ELSE <<>>
    OBVIOUS
  <2> HIDE DEF line, n, e, s
  <2>1. Lines(line)
    BY <1>1, <1>4, <1>8, <1>9, LineInFile
  <2> QED BY <1>1, <1>2, <2>1, LineAdds
<1>11. /\ \A j \in Told(line) : n + j \in Told(s) /\ s[n + j] = line[j]
       /\ \A j \in Told(s) : n < j /\ j <= n + e => j - n \in Told(line)
  <2> HIDE DEF line, n, e, s, added
  <2> QED BY <1>1, <1>4, LineInFile, ZenonT(60)
<1> HIDE DEF line, n, e, s, added
<1>12. /\ Len(ranges) \in Nat /\ Len(added) \in Nat /\ Len(ranges') = Len(ranges) + Len(added)
       /\ \A i \in 1..Len(ranges) : ranges'[i] = ranges[i]
       /\ \A i \in 1..Len(added) : ranges'[Len(ranges) + i] = added[i]
  <2>1. /\ Len(ranges \o added) = Len(ranges) + Len(added)
        /\ \A i \in 1..Len(ranges) + Len(added) :
             (ranges \o added)[i] = IF i <= Len(ranges) THEN ranges[i] ELSE added[i - Len(ranges)]
    BY <1>6, <1>7, ConcatProperties
  <2>2. Len(ranges) \in Nat /\ Len(added) \in Nat
    BY <1>6, <1>7
  <2>3. \A i \in 1..Len(ranges) : ranges'[i] = ranges[i]
    BY <1>2, <2>1, <2>2
  <2>4. ASSUME NEW i \in 1..Len(added) PROVE ranges'[Len(ranges) + i] = added[i]
    <3>1. /\ Len(ranges) + i \in 1..Len(ranges) + Len(added) /\ ~(Len(ranges) + i <= Len(ranges))
          /\ (Len(ranges) + i) - Len(ranges) = i
      BY <2>2
    <3> QED BY <1>2, <2>1, <3>1
  <2> QED BY <1>2, <2>1, <2>2, <2>3, <2>4
<1>13. \A i \in 1..Len(ranges') : i \in 1..Len(ranges) \/ \E k \in 1..Len(added) : i = Len(ranges) + k
  <2> SUFFICES ASSUME NEW i \in 1..Len(ranges'), i \notin 1..Len(ranges)
               PROVE  \E k \in 1..Len(added) : i = Len(ranges) + k
    OBVIOUS
  <2>1. i - Len(ranges) \in 1..Len(added) /\ i = Len(ranges) + (i - Len(ranges))
    BY <1>12
  <2> QED BY <2>1
<1>14. ASSUME NEW i \in 1..Len(ranges') PROVE \E j \in Told(s) : ranges'[i].addr = s[j].ret
  <2>1. CASE i \in 1..Len(ranges)
    BY <1>8, <1>12, <2>1
  <2>2. ASSUME NEW k \in 1..Len(added), i = Len(ranges) + k
        PROVE  \E j \in Told(s) : ranges'[i].addr = s[j].ret
    <3>1. PICK j \in Told(line) : added[k].addr = line[j].ret
      BY <1>7
    <3>2. n + j \in Told(s) /\ s[n + j] = line[j] /\ ranges'[i] = added[k]
      BY <1>11, <1>12, <2>2
    <3> QED BY <3>1, <3>2
  <2> QED BY <1>13, <2>1, <2>2
<1>15. ASSUME locked PROVE rest' # <<>> => rest'[1].k = "head"
  <2> SUFFICES ASSUME rest' # <<>> PROVE rest'[1].k = "head"
    OBVIOUS
  <2>1. rest' \in Seq(Piece)
    BY RangesTyped
  <2>2. Len(rest') >= 1
    BY <2>1
  <2>3. n + e \in 1..Len(s) - 1 /\ n + e # Len(s) /\ e \in 1..e
    BY <1>1, <1>4, <2>2
  <2>4. IsEnd(s[n + e]) /\ rest'[1] = s[(n + e) + 1]
    BY <1>1, <2>2, <2>3
  <2>5. Follows(s[n + e], s[(n + e) + 1])
    BY <1>9, <1>15, <2>3 DEF Lines, Chained
  <2> QED BY <2>4, <2>5 DEF Follows, IsEnd
<1>16. ASSUME locked, NEW i \in 1..Len(ranges')
       PROVE  \E j \in Told(s) : j <= n + e /\ ranges'[i] = Blk(s, j)
  <2>1. CASE i \in 1..Len(ranges)
    <3>1. PICK j \in Told(s) : j <= n /\ ranges[i] = Blk(s, j)
      BY <1>8, <1>16, <2>1
    <3>2. j <= n + e
      <4>1. j \in Nat
        BY <1>4 DEF Told
      <4> QED BY <1>1, <3>1, <4>1
    <3> QED BY <1>12, <2>1, <3>1, <3>2
  <2>2. ASSUME NEW k \in 1..Len(added), i = Len(ranges) + k
        PROVE  \E j \in Told(s) : j <= n + e /\ ranges'[i] = Blk(s, j)
    <3>1. 2 \in Told(line) /\ added = <<Blk(line, 2)>>
      BY <1>10, <1>16
    <3>2. k = 1 /\ added[k] = Blk(line, 2)
      BY <3>1
    <3>3. n + 2 \in Told(s) /\ s[n + 2] = line[2] /\ 2 <= e
      <4>1. 2 \in 1..e - 1
        BY <1>1, <3>1 DEF Told
      <4> QED BY <1>1, <1>11, <3>1, <4>1
    <3>4. Blk(line, 2) = Blk(s, n + 2) /\ n + 2 <= n + e
      BY <1>1, <3>3 DEF Blk
    <3> QED BY <1>12, <2>2, <3>2, <3>3, <3>4
  <2> QED BY <1>13, <2>1, <2>2
<1>17. ASSUME locked, NEW j \in Told(s), j <= n + e
       PROVE  \E i \in 1..Len(ranges') : ranges'[i] = Blk(s, j)
  <2>1. j \in Nat
    BY <1>4 DEF Told
  <2>2. CASE j <= n
    <3>1. PICK i \in 1..Len(ranges) : ranges[i] = Blk(s, j)
      BY <1>8, <1>17, <2>2
    <3>2. i \in 1..Len(ranges')
      BY <1>12
    <3> QED BY <1>12, <3>1, <3>2
  <2>3. CASE n < j
    <3>1. j - n \in Told(line)
      BY <1>11, <1>17, <2>3
    <3>2. j - n = 2 /\ 2 \in Told(line) /\ added = <<Blk(line, 2)>>
      BY <1>10, <1>17, <3>1
    <3>3. j = n + 2 /\ s[n + 2] = line[2]
      BY <1>1, <1>11, <2>1, <3>2
    <3>4. Len(added) = 1 /\ added[1] = Blk(s, j)
      BY <3>2, <3>3 DEF Blk
    <3>5. Len(ranges) + 1 \in 1..Len(ranges') /\ ranges'[Len(ranges) + 1] = Blk(s, j)
      BY <1>12, <3>4
    <3> QED BY <3>5
  <2> QED BY <1>1, <2>1, <2>2, <2>3
<1>18. n + e >= 0
  BY <1>1
<1> QED BY <1>1, <1>3, <1>5, <1>14, <1>15, <1>16, <1>17, <1>18 DEF ReadInv

(* No step breaks ReadInv. *)
LEMMA ReadStep ==
  ASSUME TypeInv, ReadInv, locked => LockInv, [Next]_vars
  PROVE  ReadInv'
<1>1. CASE ReadLine
  <2>1. phase' = phase \/ phase' = "exception"
    BY <1>1, ReadLineIs
  <2>2. CASE phase' = phase
    BY <1>1, <2>2, ReadLineKeeps
  <2>3. CASE phase' = "exception"
    BY <2>3 DEF ReadInv
  <2> QED BY <2>1, <2>2, <2>3
<1>2. CASE AnalyzeRun
  <2>1. /\ phase = "next" /\ prefix <= Len(runs) /\ ranges' = <<>> /\ rest' = File /\ phase' = "lines"
        /\ UNCHANGED <<locked, runs, prefix>>
    BY <1>2 DEF AnalyzeRun, NextPrefix, File, target
  <2>2. prefix \in 1..Len(runs)
    BY <2>1 DEF TypeInv, AnalysisType, LogType
  <2>3. runs[prefix] \in Run
    BY <2>2, ElementOfSeq DEF TypeInv, LogType
  <2>4. File \in Seq(Piece) /\ Len(File) \in Nat
    BY <2>3 DEF Run, File
  <2>5. File' = File
    BY <2>1 DEF File
  <2>6. Read' = 0
    <3>1. Read' = Len(File) - Len(File)
      BY <2>1, <2>5 DEF Read
    <3> QED BY <2>4, <3>1
  <2>7. \A i \in 1..Len(rest') : rest'[i] = File[0 + i]
    <3>1. \A i \in 1..Len(File) : 0 + i = i
      BY <2>4
    <3> QED BY <2>1, <3>1
  <2>8. locked' => (rest' # <<>> => rest'[1].k = "head")
    BY <2>1, <2>2 DEF LockInv, Lines, File
  <2>9. \A j \in Told(File) : ~(j <= 0)
    BY <2>4 DEF Told
  <2>10. \A i \in 1..Len(ranges') : FALSE
    BY <2>1
  <2> HIDE DEF File
  <2> QED BY <2>5, <2>6, <2>7, <2>8, <2>9, <2>10 DEF ReadInv
<1>3. CASE EndOfStream \/ AnalyzeChange \/ UNCHANGED vars
  <2>1. UNCHANGED <<locked, runs, rest, ranges>>
    BY <1>3 DEF EndOfStream, AnalyzeChange, vars, target, analysis
  <2>2. CASE phase' \in {"lines", "changes"}
    <3>1. phase \in {"lines", "changes"} /\ prefix' = prefix
      BY <1>3, <2>2 DEF EndOfStream, AnalyzeChange, vars, analysis
    <3>2. File' = File
      BY <2>1, <3>1 DEF File
    <3>3. Read' = Read
      BY <2>1, <3>2 DEF Read
    <3> QED BY <2>1, <3>1, <3>2, <3>3 DEF ReadInv
  <2>3. CASE phase' \notin {"lines", "changes"}
    BY <2>3 DEF ReadInv
  <2> QED BY <2>2, <2>3
<1>4. CASE phase' \notin {"lines", "changes"}
  BY <1>4 DEF ReadInv
<1>5. Fuzz => phase' = "fuzz"
  BY DEF Fuzz, analysis
<1>6. SkipRun => phase' = "next"
  BY DEF SkipRun
<1> QED BY <1>1, <1>2, <1>3, <1>4, <1>5, <1>6 DEF Next, StopFuzzing, AllAnalyzed, RunAnalyzed

(* A file that is read: the ranges are the blocks it tells of. *)
LEMMA ReadImplies ==
  ASSUME TypeInv, ReadInv
  PROVE  RangesAreBlocks
<1> SUFFICES ASSUME phase = "changes" PROVE RangesAreBlocks
  BY DEF RangesAreBlocks
<1>1. rest = <<>> /\ ranges \in Seq(Extent)
  BY DEF TypeInv, AnalysisType
<1>2. Read = Len(File) /\ Len(File) \in Nat
  <2>1. Len(File) \in Nat
    BY FileTyped
  <2>2. Read = Len(File) - 0
    BY <1>1 DEF Read
  <2> QED BY <2>1, <2>2
<1>3. DOMAIN ranges = 1..Len(ranges)
  BY <1>1
<1>4. \A j \in Told(File) : j <= Read
  BY <1>2 DEF Told
<1>5. \A i \in DOMAIN ranges : \E j \in Told(File) : ranges[i].addr = File[j].ret
  BY <1>3 DEF ReadInv
<1>6. ASSUME locked PROVE {ranges[i] : i \in DOMAIN ranges} = {Blk(File, i) : i \in Told(File)}
  <2>1. \A i \in DOMAIN ranges : \E j \in Told(File) : ranges[i] = Blk(File, j)
    BY <1>3, <1>6 DEF ReadInv
  <2>2. \A j \in Told(File) : \E i \in DOMAIN ranges : ranges[i] = Blk(File, j)
    BY <1>3, <1>4, <1>6 DEF ReadInv
  <2> QED BY <2>1, <2>2
<1> QED BY <1>5, <1>6 DEF RangesAreBlocks, Blk, File

(* A write inside a block is not reported. *)
LEMMA NoFalseStep ==
  ASSUME TypeInv, ReadInv, locked => BlockInv, NoFalseReport, locked' = locked, [Next]_vars
  PROVE  NoFalseReport'
<1> SUFFICES ASSUME locked PROVE \A r \in reports' : ~runs'[r[1]].changes[r[2]].inside
  BY DEF NoFalseReport
<1>1. CASE AnalyzeChange
  <2>1. /\ phase = "changes" /\ at <= Len(Changes) /\ runs' = runs
        /\ reports' = IF Reported(Changes[at]) THEN reports \union {<<prefix, at>>} ELSE reports
    BY <1>1 DEF AnalyzeChange, target
  <2>2. /\ prefix \in 1..Len(runs) /\ File \in Seq(Piece) /\ Changes \in Seq(Change)
        /\ Len(File) \in Nat
    BY <2>1, FileTyped
  <2>3. at \in 1..Len(Changes) /\ ranges \in Seq(Extent) /\ rest = <<>>
    BY <2>1, <2>2 DEF TypeInv, AnalysisType
  <2>4. Changes[at] \in Change
    BY <2>2, <2>3, ElementOfSeq
  <2>5. Changes[at].inside => ~Reported(Changes[at])
    <3> SUFFICES ASSUME Changes[at].inside PROVE ~Reported(Changes[at])
      OBVIOUS
    <3> DEFINE w == Changes[at]
    <3>1. Covered(File, w)
      BY <2>2, <2>3 DEF BlockInv, File, Changes
    <3> HIDE DEF w
    <3>2. PICK i \in Told(File) : /\ File[i].ret <= w.addr
                                  /\ w.addr + w.len <= File[i].ret + File[i].num * File[i].size
      BY <3>1 DEF Covered
    <3>3. i <= Read
      <4>1. Read = Len(File) - 0
        BY <2>3 DEF Read
      <4>2. i \in 1..Len(File) - 1
        BY DEF Told
      <4> QED BY <2>2, <4>1, <4>2
    <3>4. PICK z \in 1..Len(ranges) : ranges[z] = Blk(File, i)
      BY <2>1, <3>3 DEF ReadInv
    <3>5. ranges[z].addr = File[i].ret /\ ranges[z].size = File[i].num * File[i].size
      BY <3>4 DEF Blk
    <3>6. ranges[z].addr <= w.addr /\ w.addr + w.len <= ranges[z].addr + ranges[z].size
      BY <3>2, <3>5
    <3> QED BY <2>3, <2>4, <3>6, CoveredNotReported DEF w
  <2>6. runs[prefix].changes[at] = Changes[at]
    BY DEF Changes
  <2>7. \A r \in reports : ~runs[r[1]].changes[r[2]].inside
    BY DEF NoFalseReport
  <2>8. CASE Reported(Changes[at])
    <3>1. ~runs[prefix].changes[at].inside
      BY <2>5, <2>6, <2>8
    <3> SUFFICES ASSUME NEW r \in reports' PROVE ~runs[r[1]].changes[r[2]].inside
      BY <2>1
    <3>2. r \in reports \/ r = <<prefix, at>>
      BY <2>1, <2>8
    <3>3. CASE r = <<prefix, at>>
      BY <3>1, <3>3
    <3> QED BY <2>7, <3>2, <3>3
  <2>9. CASE ~Reported(Changes[at])
    BY <2>1, <2>7, <2>9
  <2> QED BY <2>8, <2>9
<1>2. CASE Fuzz
  <2>1. reports = {} /\ reports' = reports
    BY <1>2 DEF Fuzz, analysis, TypeInv, AnalysisType
  <2> QED BY <2>1
<1>3. CASE UNCHANGED <<runs, reports>>
  BY <1>3 DEF NoFalseReport
<1> QED BY <1>1, <1>2, <1>3 DEF Next, vars, target, analysis, StopFuzzing, AnalyzeRun, NextPrefix,
           SkipRun, AllAnalyzed, ReadLine, EndOfStream, RunAnalyzed

(* The build does not change. *)
LEMMA LockedStays ==
  ASSUME [Next]_vars
  PROVE  locked' = locked
<1>1. LogNext => locked' = locked
  <2> SUFFICES ASSUME LogNext PROVE locked' = locked
    OBVIOUS
  <2> QED BY LogSteps, ZenonT(60) DEF AllocateAs, Free, Realloc, WritePiece, Write, EndRun
<1> QED BY <1>1 DEF Next, vars, target, Fuzz, StopFuzzing, AnalyzeRun, NextPrefix, SkipRun,
           AllAnalyzed, ReadLine, EndOfStream, AnalyzeChange, RunAnalyzed

(* With the lock, no step breaks the order of the log. *)
LEMMA LockedStep ==
  ASSUME TypeInv, locked => LockInv /\ BlockInv, [Next]_vars
  PROVE  locked' => LockInv' /\ BlockInv'
<1> SUFFICES ASSUME locked PROVE LockInv' /\ BlockInv'
  BY LockedStays
<1>1. CASE Fuzz
  <2>1. LogNext
    BY <1>1 DEF Fuzz
  <2> QED BY <2>1, LockStep, BlockStep
<1>2. CASE UNCHANGED target
  BY <1>2 DEF LockInv, BlockInv, target
<1> QED BY <1>1, <1>2 DEF Next, vars, StopFuzzing, AnalyzeRun, NextPrefix, SkipRun,
           AllAnalyzed, ReadLine, EndOfStream, AnalyzeChange, RunAnalyzed

(* Inv holds at the beginning, and no step breaks it. *)
LEMMA InvInit ==
  ASSUME Init
  PROVE  Inv
<1>1. TypeInv
  BY TypeInit
<1>2. LockInv
  BY DEF Init, LogInit, LockInv, Lines, Tailing, Chained
<1>3. BlockInv
  BY DEF Init, LogInit, BlockInv
<1>4. ReadInv /\ NoFalseReport
  BY DEF Init, ReadInv, NoFalseReport
<1> QED BY <1>1, <1>2, <1>3, <1>4 DEF Inv

(* The invariant is inductive. *)
LEMMA InvStep ==
  ASSUME Inv, [Next]_vars
  PROVE  Inv'
<1>1. TypeInv /\ ReadInv /\ NoFalseReport
  BY DEF Inv
<1>2. locked => LockInv /\ BlockInv
  BY DEF Inv
<1>3. TypeInv'
  BY <1>1, TypeStep
<1>4. locked' => LockInv' /\ BlockInv'
  BY <1>1, <1>2, LockedStep
<1>5. ReadInv'
  BY <1>1, <1>2, ReadStep
<1>6. NoFalseReport'
  BY <1>1, <1>2, LockedStays, NoFalseStep
<1> QED BY <1>3, <1>4, <1>5, <1>6 DEF Inv

(* With the lock, the ranges of a run are exactly the blocks its file      *)
(* tells of; without it, each begins at an address a call returned.        *)
THEOREM RangesAreTheBlocks == Spec => []RangesAreBlocks
<1>1. Init => Inv
  BY InvInit
<1>2. Inv /\ [Next]_vars => Inv'
  BY InvStep
<1>3. Inv => RangesAreBlocks
  BY ReadImplies DEF Inv
<1> QED BY <1>1, <1>2, <1>3, PTL DEF Spec

(* With the lock, a write inside one block of malloc or calloc, whose call *)
(* had returned, is never reported.                                        *)
THEOREM NoFalseReports == Spec => []NoFalseReport
<1>1. Init => Inv
  BY InvInit
<1>2. Inv /\ [Next]_vars => Inv'
  BY InvStep
<1>3. Inv => NoFalseReport
  BY DEF Inv
<1> QED BY <1>1, <1>2, <1>3, PTL DEF Spec
===============================================================================
