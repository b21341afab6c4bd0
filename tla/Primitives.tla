------------------------------ MODULE Primitives ------------------------------
(***************************************************************************)
(* The primitives that the joins are made of, each on its own input: the   *)
(* sort, the compaction, the expansion and the aggregation trees.          *)
(***************************************************************************)
EXTENDS Integers, Sequences, FiniteSetsExt, SequencesExt

CONSTANTS
  Threads,                    \* of the sort and of the compaction
  Arrays,                     \* of the two sorts
  INT_MAX, INT_MIN,           \* of the recursive sort
  Marks, TaskRows,            \* of ORCompact
  Multiplicities,             \* of ObliExpand
  Lengths, Entries(_, _)      \* the inputs of the trees, by kind and length

ASSUME CompactAssumption ==
  /\ \A m \in Marks : m \in Seq({0, 1})
  /\ TaskRows \in Nat \ {0} /\ Threads \in Nat \ {0}

(* Beyond 2^29 rows the loop variable k of the network overflows its int.  *)
ASSUME SortAssumption ==
  \A a \in Arrays :
    /\ a \in Seq(Seq(Int)) /\ Len(a) \in 1 .. 2^29
    /\ \A i \in DOMAIN a : a[i][1] \in INT_MIN + 1 .. INT_MAX - 1

ASSUME ExpandAssumption ==
  \A m \in Multiplicities : m \in Seq(Nat \ {0}) /\ Len(m) > 0

VARIABLES
  algorithm,  \* "sort", "recursive" (the other sort), "compact", "expand" or "tree"
  M, T, Q, calls, tree,
  array, dire, keys, rows, round, next, held, sorted  \* of the sort

sortVars == <<array, dire, keys, rows, round, next, held, sorted>>
taskVars == <<M, T, Q, calls>>

C == INSTANCE ORCompact
E == INSTANCE ObliExpand
A == INSTANCE Aggtree
S == INSTANCE ParallelBitonicSort
R == INSTANCE BitonicSort WITH stack <- next

vars == <<algorithm, taskVars, tree, sortVars>>

NoTree == tree = [pass |-> "done"]
NoTasks == M = <<>> /\ T = <<>> /\ Q = <<>> /\ calls = <<>>
NoTeam == keys = <<>> /\ round = <<>> /\ held = <<>>
NoSort == NoTeam /\ array = <<>> /\ dire = TRUE /\ rows = <<>> /\ next = <<>> /\ sorted = <<>>

TreeInit ==
  \E k \in A!Kinds \cup {"full"}, n \in Lengths :
  \E b \in [0 .. n-1 -> {0, 1}] :
    /\ b[0] = 0
    /\ tree = A!Loaded(IF k = "full" THEN "prefix" ELSE k, k = "full", Entries(k, n), b, <<>>)

Init ==
  \/ algorithm = "sort" /\ S!Init /\ NoTasks /\ NoTree
  \/ algorithm = "recursive" /\ R!RecInit /\ NoTeam /\ NoTasks /\ NoTree
  \/ algorithm = "compact" /\ C!Init /\ Q = <<>> /\ NoTree /\ NoSort
  \/ algorithm = "expand" /\ E!Init /\ NoSort
  \/ algorithm = "tree" /\ TreeInit /\ NoTasks /\ NoSort

Next ==
  /\ \/ algorithm = "sort" /\ S!Next /\ UNCHANGED <<taskVars, tree>>
     \/ algorithm = "recursive" /\ R!RecNext /\ UNCHANGED <<taskVars, tree, keys, round, held>>
     \/ algorithm = "compact" /\ C!Next /\ UNCHANGED <<Q, tree, sortVars>>
     \/ algorithm = "expand" /\ E!Next /\ UNCHANGED sortVars
     \/ algorithm = "tree" /\ A!Next /\ UNCHANGED <<taskVars, sortVars>>
  /\ UNCHANGED algorithm

(* Some thread of the team goes on with its share of a loop or with a      *)
(* task.  No step can be repeated for ever, so nothing more is needed.     *)
Spec == Init /\ [][Next]_vars /\ WF_vars(Next)

-----------------------------------------------------------------------------
(* No two threads, and no two calls of a recursion, work on the same       *)
(* places at once: rows and keys are moved by plain assignments, which     *)
(* only the barriers of the sort (Sorter), the taskwaits and the implicit  *)
(* wait of a taskloop keep apart (orocParRows, OExpandSub).                *)
RangesDisjoint ==
  CASE algorithm = "sort" -> S!NoOverlap
    [] algorithm = "compact" -> C!Apart
    [] algorithm = "expand" -> E!Apart
    [] algorithm \in {"recursive", "tree"} -> TRUE

(* Both sorts return every row once, in the order of its key columns:      *)
(* whatever shares of a round the threads have, rows stay with the keys    *)
(* they are exchanged by, and it is the filler that is cut off.            *)
Sorted == algorithm \in {"sort", "recursive"} => S!ReturnsSorted

(* "stably moves rows whose marker is 1 to the front" (ObliYan.cpp): the   *)
(* marked rows in their order, then the others, in whatever order the      *)
(* tasks ran.                                                              *)
StablyCompacted ==
  algorithm = "compact" /\ C!Finished =>
    /\ \A i \in DOMAIN C!MarkedRows : T[i - 1] = C!MarkedRows[i]
    /\ {T[i] : i \in DOMAIN T} = DOMAIN T

(* Every row comes as often as wanted, in the order of the input           *)
(* (ObliViatorExpand).                                                     *)
Expanded ==
  algorithm = "expand" /\ E!Finished =>
    tree.result = [i \in 0 .. Len(E!Copies)-1 |-> E!Copies[i + 1]]

(* The segmented sums and products, for every length, also those whose     *)
(* last nodes have one child (Aggtree).                                    *)
SumsCorrect ==
  algorithm = "tree" /\ tree.pass = "done" /\ tree.kind # "spread" =>
    \A i \in DOMAIN tree.D : tree.result[i] = A!Wanted(i)

(* Every place to fill gets the last row before it that is not to fill,    *)
(* though a node no longer stores what its left child had (DupAggtree).    *)
SpreadCorrect ==
  algorithm = "tree" /\ tree.pass = "done" /\ tree.kind = "spread" =>
    \A i \in DOMAIN tree.D : tree.result[i] = A!Wanted(i)

(* Nobody waits at a barrier for ever, and a task waits only for those it  *)
(* made: the primitives end.                                               *)
Termination ==
  <>(CASE algorithm \in {"sort", "recursive"} -> sorted # <<>>
       [] algorithm = "compact" -> C!Finished
       [] algorithm = "expand" -> E!Finished
       [] algorithm = "tree" -> tree.pass = "done")
=============================================================================
