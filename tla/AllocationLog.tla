---------------------------- MODULE AllocationLog ----------------------------
(***************************************************************************)
(* The preloaded library that logs a target's heap calls                   *)
(* (log_memory_allocations.c).  A call does the real work first and then   *)
(* writes its line to the pipe in five pieces, under a lock when built     *)
(* WITH_PTHREADS:                                                          *)
(*                                                                         *)
(*     malloc: args=[ | size=n return=p | ] bt=[ | 0xframe  | ]newline     *)
(*                                                                         *)
(* The target runs again and again from a snapshot; the lines of a run go  *)
(* to a file of their own.  The heap itself, and the memory writes that    *)
(* gdb records, are external.  Calls before init_me has run return NULL    *)
(* and are not modelled.                                                   *)
(***************************************************************************)
EXTENDS Integers, Sequences, FiniteSets

CONSTANTS
  Threads,    \* threads of the target
  Builds,     \* whether the library has the lock: a set of BOOLEANs
  Places,     \* addresses the heap may return
  Requests,   \* pairs <<num, size>> the target asks for
  Accesses,   \* pairs <<address, length>> of memory writes the target does
  MaxRuns,    \* bound: runs of the target
  MaxCalls,   \* bound: heap calls in all runs
  MaxWrites   \* bound: memory writes in all runs

Nobody == "nobody"
NULL   == 0

ASSUME LogAssumption ==
  /\ Nobody \notin Threads
  /\ Builds \subseteq BOOLEAN /\ Places \subseteq Nat \ {0}
  /\ Requests \subseteq Nat \X Nat /\ Accesses \subseteq Nat \X (Nat \ {0})
  /\ {MaxRuns, MaxCalls, MaxWrites} \subseteq Nat

VARIABLES
  locked,   \* the build of the library
  todo,     \* the pieces each thread has still to write
  holder,   \* the thread that holds loglock
  blocks,   \* the heap: [addr, size, by], where by is the call that made it
  made,     \* blocks of malloc and calloc whose call is not finished, by thread
  pipe,     \* the pieces written in this run
  writes,   \* the memory writes recorded in this run
  runs,     \* the files of the runs that ended
  calls, written   \* counted for the bounds

target == <<locked, todo, holder, blocks, made, pipe, writes, runs, calls, written>>

(* The names output_mem_allocation is given; without the comma behind      *)
(* "realloc" the C compiler joins it with the text that follows.           *)
Joined == "reallocptr=%p size=%lu return=%p"
Names  == {"malloc", "calloc", "free", Joined}

Silent(k) == [k |-> k, f |-> "none", num |-> 0, size |-> 0, ret |-> 0]
HeadOf(f) == [k |-> "head", f |-> f, num |-> 0, size |-> 0, ret |-> 0]
ArgsOf(f, num, size, ret) == [k |-> "args", f |-> f, num |-> num, size |-> size, ret |-> ret]

(* The text of output_mem_allocation, piece by piece, frames as one. *)
LineOf(f, args) == <<HeadOf(f), args, Silent("sep"), Silent("frame"), Silent("end")>>

LogInit ==
  /\ locked \in Builds
  /\ todo = [t \in Threads |-> <<>>] /\ holder = Nobody
  /\ blocks = {} /\ made = [t \in Threads |-> {}]
  /\ pipe = <<>> /\ writes = <<>> /\ runs = <<>>
  /\ calls = 0 /\ written = 0

-----------------------------------------------------------------------------
(* The calls of the target.                                                *)

Overlap(a, n, b) == a < b.addr + b.size /\ b.addr < a + n
Fits(a, n) == \A b \in blocks : ~Overlap(a, n, b) /\ a # b.addr

Call(t) == calls < MaxCalls /\ todo[t] = <<>> /\ calls' = calls + 1

(* real_malloc or real_calloc gives a block or NULL, then the call logs. *)
Allocate(t, f, num, size) ==
  /\ Call(t)
  /\ \E p \in {NULL} \union {a \in Places : Fits(a, num * size)} :
       LET new == IF p = NULL THEN {} ELSE {[addr |-> p, size |-> num * size, by |-> f]} IN
       /\ blocks' = blocks \union new
       /\ made' = [made EXCEPT ![t] = new]
       /\ todo' = [todo EXCEPT ![t] = LineOf(f, ArgsOf(f, num, size, p))]
  /\ UNCHANGED <<locked, holder, pipe, writes, runs, written>>

Malloc(t, size) == Allocate(t, "malloc", 1, size)
Calloc(t, num, size) == Allocate(t, "calloc", num, size)

Free(t, b) ==
  /\ Call(t)
  /\ blocks' = blocks \ {b}
  /\ todo' = [todo EXCEPT ![t] = LineOf("free", ArgsOf("free", 0, 0, b.addr))]
  /\ UNCHANGED <<locked, holder, made, pipe, writes, runs, written>>

(* The format is part of the name, and the old block's bytes are the       *)
(* format.  A block that cannot be resized stays.                          *)
Realloc(t, b, size) ==
  /\ Call(t)
  /\ \/ UNCHANGED blocks
     \/ \E p \in {a \in Places : Fits(a, size)} \union {b.addr} :
          /\ \A c \in blocks \ {b} : ~Overlap(p, size, c)
          /\ blocks' = (blocks \ {b}) \union {[addr |-> p, size |-> size, by |-> "realloc"]}
  /\ todo' = [todo EXCEPT ![t] = LineOf(Joined, Silent("junk"))]
  /\ UNCHANGED <<locked, holder, made, pipe, writes, runs, written>>

(* output_mem_allocation: LOCK before the first piece, UNLOCK behind the   *)
(* last; without WITH_PTHREADS neither does anything.                      *)
WritePiece(t) ==
  /\ todo[t] # <<>>
  /\ locked => holder \in {Nobody, t}
  /\ pipe' = Append(pipe, Head(todo[t]))
  /\ todo' = [todo EXCEPT ![t] = Tail(@)]
  /\ holder' = IF locked /\ Len(todo[t]) > 1 THEN t ELSE Nobody
  /\ made' = IF Len(todo[t]) > 1 THEN made ELSE [made EXCEPT ![t] = {}]
  /\ UNCHANGED <<locked, blocks, writes, runs, calls, written>>

Returned == blocks \ UNION {made[t] : t \in Threads}

(* A write of the target between two calls.  It is inside when one block   *)
(* holds all of it that malloc or calloc made and returned.                *)
Inside(a, n) ==
  \E b \in Returned : /\ b.by \in {"malloc", "calloc"}
                      /\ b.addr <= a /\ a + n <= b.addr + b.size

Write(t, a, n) ==
  /\ todo[t] = <<>> /\ written < MaxWrites
  /\ writes' = Append(writes, [addr |-> a, len |-> n, inside |-> Inside(a, n)])
  /\ written' = written + 1
  /\ UNCHANGED <<locked, todo, holder, blocks, made, pipe, runs, calls>>

(* The run ends at a breakpoint or with a signal, also while a thread      *)
(* logs; the snapshot gives the memory back, not what was written to the   *)
(* pipe.  The .pipes file may be missing: a logger that is not configured. *)
EndRun(files) ==
  /\ runs' = Append(runs, [files |-> files, pipes |-> pipe, changes |-> writes])
  /\ pipe' = <<>> /\ writes' = <<>> /\ blocks' = {} /\ holder' = Nobody
  /\ todo' = [t \in Threads |-> <<>>] /\ made' = [t \in Threads |-> {}]
  /\ UNCHANGED <<locked, calls, written>>

LogNext ==
  \/ \E t \in Threads :
       \/ \E r \in Requests : IF r[1] = 1 THEN Malloc(t, r[2]) ELSE Calloc(t, r[1], r[2])
       \/ \E b \in Returned : Free(t, b) \/ \E r \in Requests : Realloc(t, b, r[2])
       \/ WritePiece(t)
       \/ \E w \in Accesses : Write(t, w[1], w[2])
  \/ \E files \in {{"execlog", "pipes"}, {"execlog"}} : EndRun(files)
===============================================================================
