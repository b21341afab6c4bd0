------------------------------- MODULE ORCompact -------------------------------
(***************************************************************************)
(* ObliCompact::ORCompact: order-preserving oblivious compaction by a tree *)
(* of tasks.  A call splits its range, has both parts compacted (the part  *)
(* whose length is a power of two to a rotated offset), waits for them at  *)
(* a taskwait and then swaps rows of the two parts.  Calls on long ranges  *)
(* are tasks that run in any order; short ones are made one after another. *)
(* The marks stay in place: every swap is decided by counts alone.         *)
(*                                                                         *)
(* Rows count from 0 as in the source; T is a function on 0 .. n-1.        *)
(***************************************************************************)
EXTENDS Integers, Sequences, FiniteSetsExt, SequencesExt

CONSTANTS
  Marks,      \* the inputs: sequences of marks, 0 or 1
  TaskRows,   \* ranges of this many rows are tasks (8192 in the source)
  Threads     \* omp_get_max_threads, the blocks of the prefix sum

VARIABLES
  M,       \* the marks
  T,       \* T[i]: the row in place i (D in the source)
  calls    \* the calls in progress: call |-> [stage, todo]

vars == <<M, T, calls>>

(* off: offcompact with offset z; otherwise ORCompact *)
Call(off, left, right, z) == [off |-> off, left |-> left, right |-> right, z |-> z]

Rows(f) == f.right - f.left

Half(f) == Rows(f) \div 2

(* The largest power of two that is at most n. *)
PowerBelow(n) == Max({p \in {2^e : e \in 0 .. n} : p <= n})

(* mutant: the chunks do not cover the rows that do not divide evenly *)
ChunkDown(n, blocks) == n \div blocks

Chunk(n, blocks) == (n + blocks - 1) \div blocks

(* prefixSumRangePar: the sums of the blocks before i's and of its own up  *)
(* to i; places no block covers keep their zero.  The count of the marks   *)
(* in places l .. r-1 is a difference of two.                              *)
PrefixSum(i) ==
  LET blocks == Max({1, Min({Threads, Len(M)})})
      chunk == Chunk(Len(M), blocks)
  IN  IF i > chunk * blocks THEN 0 ELSE Cardinality({k \in 1 .. i : M[k] = 1})

Marked(l, r) == PrefixSum(r) - PrefixSum(l)

-----------------------------------------------------------------------------
(* The two calls a call makes, in order. *)
FirstCall(f) ==
  IF f.off THEN Call(TRUE, f.left, f.left + Half(f), f.z % Half(f))
           ELSE Call(FALSE, f.left, f.right - PowerBelow(Rows(f)), 0)

SecondCall(f) ==
  IF f.off
  THEN LET mid == f.left + Half(f)
       IN  Call(TRUE, mid, f.right, (f.z + Marked(f.left, mid)) % Half(f))
  ELSE LET n1 == PowerBelow(Rows(f))
           n2 == Rows(f) - n1
       IN  Call(TRUE, f.left + n2, f.right, (n1 - n2 + Marked(f.left, f.left + n2)) % n1)

(* A call on too short a range to split. *)
Short(f) == IF f.off THEN Rows(f) <= 2 ELSE Rows(f) = 0

XOr(a, b) == a # b

(* s in the source: do the rotated halves change sides? *)
Wrapped(f) ==
  XOr((f.z % Half(f)) + Marked(f.left, f.left + Half(f)) >= Half(f), f.z >= Half(f))

(* The pairs of places whose rows the call swaps itself. *)
Swaps(f) ==
  IF ~f.off
  THEN LET n1 == PowerBelow(Rows(f))
           n2 == Rows(f) - n1
       IN  {<<f.left + i, f.left + n1 + i>> : i \in Marked(f.left, f.left + n2) .. n2-1}
  ELSE IF Rows(f) = 2
  THEN IF XOr(Marked(f.left, f.left + 1) = 0 /\ Marked(f.left + 1, f.right) = 1, f.z # 0)
       THEN {<<f.left, f.left + 1>>} ELSE {}
  ELSE LET turn == (f.z + Marked(f.left, f.left + Half(f))) % Half(f)
       IN  {<<f.left + i, f.left + Half(f) + i>> : i \in {i \in 0 .. Half(f)-1 : XOr(Wrapped(f), i >= turn)}}

-----------------------------------------------------------------------------
Root == Call(FALSE, 0, Len(M), 0)

Called == [stage |-> "called", todo |-> {}]

Init ==
  /\ M \in Marks
  /\ T = [i \in 0 .. Len(M)-1 |-> i]
  /\ calls = [f \in {Root} |-> Called]

Started(f) == f \in DOMAIN calls

With(f, stage, todo) == [calls EXCEPT ![f] = [stage |-> stage, todo |-> todo]]

(* The call goes on to a stage, having made the calls of a set. *)
Making(f, stage, made) ==
  [g \in DOMAIN calls \cup made |->
     IF g = f THEN [stage |-> stage, todo |-> {}]
     ELSE IF Started(g) THEN calls[g] ELSE Called]

(* A long range: both calls are made as tasks.  A short one: the first    *)
(* call is made and, once it has returned, the second.                     *)
Fork(f) ==
  /\ calls[f].stage = "called" /\ ~Short(f)
  /\ calls' = IF Rows(f) >= TaskRows
              THEN Making(f, "waiting", {FirstCall(f), SecondCall(f)})
              ELSE Making(f, "first", {FirstCall(f)})
  /\ UNCHANGED <<M, T>>

Returned(f) == Started(f) /\ calls[f].stage = "done"

CallSecond(f) ==
  /\ calls[f].stage = "first" /\ Returned(FirstCall(f))
  /\ calls' = Making(f, "waiting", {SecondCall(f)})
  /\ UNCHANGED <<M, T>>

(* mutant: no taskwait *)
NoWait(f) == TRUE

(* mutant: waits for every call in progress, its own included *)
AllReturned(f) == \A g \in DOMAIN calls : Returned(g)

(* taskwait: both calls have returned. *)
Joined(f) == Returned(FirstCall(f)) /\ Returned(SecondCall(f))

(* The call starts to swap; its own calls are over. *)
StartSwaps(f) ==
  /\ \/ calls[f].stage = "waiting" /\ Joined(f)
     \/ calls[f].stage = "called" /\ Short(f)
  /\ calls' = With(f, "swapping", IF Rows(f) < 2 THEN {} ELSE Swaps(f))
  /\ UNCHANGED <<M, T>>

(* The rows that decide between a loop and a taskloop. *)
LoopRows(f) == IF f.off THEN Rows(f) ELSE Rows(f) - PowerBelow(Rows(f))

(* One swap; a taskloop takes them in any order, a loop from the left. *)
SwapRows(f) ==
  /\ calls[f].stage = "swapping"
  /\ \E p \in calls[f].todo :
       /\ LoopRows(f) < TaskRows => \A q \in calls[f].todo : p[1] <= q[1]
       /\ T' = [T EXCEPT ![p[1]] = T[p[2]], ![p[2]] = T[p[1]]]
       /\ calls' = With(f, "swapping", calls[f].todo \ {p})
  /\ UNCHANGED M

Return(f) ==
  /\ calls[f].stage = "swapping" /\ calls[f].todo = {}
  /\ calls' = With(f, "done", {})
  /\ UNCHANGED <<M, T>>

Step(f) == Fork(f) \/ CallSecond(f) \/ StartSwaps(f) \/ SwapRows(f) \/ Return(f)

Next == \E f \in DOMAIN calls : Step(f)

Finished == Returned(Root)

-----------------------------------------------------------------------------
(* Two calls that are swapping rows at once: swaps are plain moves of      *)
(* vectors, safe only between a fork and its taskwait.                     *)
Apart ==
  \A f, g \in DOMAIN calls :
    f # g /\ calls[f].stage = "swapping" /\ calls[g].stage = "swapping" =>
      f.right <= g.left \/ g.right <= f.left

(* The marked rows, in their order. *)
MarkedRows == SelectSeq([i \in 1 .. Len(M) |-> i - 1], LAMBDA r : M[r + 1] = 1)
=============================================================================
