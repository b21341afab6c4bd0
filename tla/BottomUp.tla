------------------------------- MODULE BottomUp -------------------------------
(***************************************************************************)
(* bottomUpSemiJoin: the first half of JFYan.                              *)
(*                                                                         *)
(* The levels of the tree are processed from the deepest up.  An internal  *)
(* node evaluates one semi-join per child edge (how many partial answers   *)
(* of the child's subtree join each of its rows) and then appends those    *)
(* u-values and their product delta to its own rows.  Internal nodes of    *)
(* one level run in different threads; the edges of a node run one after   *)
(* the other, except that the build outside the enclave runs them in       *)
(* parallel when the level has a single internal node.  A semi-join is two *)
(* steps here, BeginEdge and EndEdge, so that what other threads do while  *)
(* it reads its two tables is visible.                                     *)
(*                                                                         *)
(* The root level is followed by the root expansion: an output position    *)
(* for every root row (AssignPositions), one copy of the row per answer    *)
(* (ExpandRoot), the final numbering and the padding up to the protected   *)
(* size (NumberAndPad).                                                    *)
(***************************************************************************)
EXTENDS JoinTree

CONSTANTS
  Inputs,            \* the databases: functions [Node -> Seq(row)]
  ProtectedChoices,  \* values of protectedOutputRows
  SgxBuild,          \* TRUE in the enclave build (SGX_ENCLAVE_BUILD)
  DummyValue         \* DO_DUMMY_VALUE

(* Databases have rows in every relation (the loaders exit otherwise);     *)
(* rows are not empty and do not use the dummy value.                      *)
ASSUME InputAssumption ==
  /\ SgxBuild \in BOOLEAN
  /\ ProtectedChoices \subseteq Nat
  /\ \A db \in Inputs : DOMAIN db = Node /\ \A u \in Node :
       /\ db[u] \in Seq([keys : Seq(Int)]) \ {<<>>}
       /\ \A i \in 1 .. Len(db[u]) : db[u][i].keys # <<>> /\ DummyValue \notin ToSet(db[u][i].keys)

VARIABLES
  input,   \* the database as passed in (history)
  target,  \* protectedOutputRows
  tables,  \* tables[u], with the columns appended so far
  stage,   \* "levels", "positions", "expand", "number", "done"
  level,   \* depth of the level being processed
  edge,    \* edge[c]: the semi-join of c with its parent
  vals,    \* vals[c]: its values, one per parent row (semiJoinValues)
  node,    \* node[p]: has p appended its u-values and delta?
  Pos,     \* starting output position of every root row
  C        \* the expanded root

vars == <<input, target, tables, stage, level, edge, vals, node, Pos, C>>

-----------------------------------------------------------------------------
(* mutant: one value per child row *)
ValuesPerChildRow(c, tp, tc) ==
  [j \in 1 .. Len(tc) |-> Cardinality({i \in 1 .. Len(tp) : Joins(c, tp[i], tc[j])})]

(* What ParallelSemiJoin::executeValueOnly returns for every row of the    *)
(* parent: the sum of the contributions of the child rows with its key.    *)
SemiJoinValues(c, tp, tc) ==
  [i \in 1 .. Len(tp) |->
     MapThenSumSet(LAMBDA j : Contribution(c, tc[j]),
                   {j \in 1 .. Len(tc) : Joins(c, tp[i], tc[j])})]

Internal(d) == {p \in Level(d) : ~IsLeaf(p)}

(* Edges of one node run in parallel only when their node is alone on its  *)
(* level, outside the enclave.                                             *)
ParallelChildren(p) == ~SgxBuild /\ Internal(Depth[p]) = {p}

Dummy(i) ==
  [keys   |-> [k \in DOMAIN input[Root][1].keys |-> DummyValue],
   us     |-> [j \in DOMAIN children(Root) |-> 0],
   delta  |-> 0,
   b      |-> i,
   P      |-> i,
   lambda |-> 1]

-----------------------------------------------------------------------------
Init ==
  /\ input \in Inputs
  /\ target \in ProtectedChoices
  /\ tables = input
  /\ stage = "levels"
  /\ level = MaxDepth
  /\ edge = [c \in NonRoot |-> "idle"]
  /\ vals = [c \in NonRoot |-> <<>>]
  /\ node = [p \in Node |-> "waiting"]
  /\ Pos = <<>>
  /\ C = <<>>

(* A thread of the current level starts the semi-join of edge c. *)
BeginEdge(c) ==
  /\ stage = "levels"
  /\ Depth[Parent[c]] = level
  /\ edge[c] = "idle"
  /\ ParallelChildren(Parent[c]) \/
       \A s \in ChildSet(Parent[c]) : s < c => edge[s] = "done"
  /\ edge' = [edge EXCEPT ![c] = "running"]
  /\ UNCHANGED <<input, target, tables, stage, level, vals, node, Pos, C>>

EndEdge(c) ==
  /\ edge[c] = "running"
  /\ vals' = [vals EXCEPT ![c] = SemiJoinValues(c, tables[Parent[c]], tables[c])]
  /\ edge' = [edge EXCEPT ![c] = "done"]
  /\ UNCHANGED <<input, target, tables, stage, level, node, Pos, C>>

(* The rows of p after its edges: u-values appended, and their product. *)
WithContributions(p) ==
  [i \in 1 .. Len(tables[p]) |->
     LET us == [j \in DOMAIN children(p) |-> vals[children(p)[j]][i]]
     IN  [keys |-> tables[p][i].keys, us |-> us, delta |-> FoldSeq(LAMBDA x, y : x * y, 1, us)]]

EdgesDone(p) == \A c \in ChildSet(p) : edge[c] = "done"

UpdateNode(p) ==
  /\ ~IsLeaf(p)
  /\ node[p] = "waiting"
  /\ EdgesDone(p)
  /\ tables' = [tables EXCEPT ![p] = WithContributions(p)]
  /\ node' = [node EXCEPT ![p] = "updated"]
  /\ UNCHANGED <<input, target, stage, level, edge, vals, Pos, C>>

(* mutant: the threads of a level leave without waiting for the updates *)
LevelEdgesDone == \A p \in Internal(level) : EdgesDone(p)

(* mutant: the barrier also counts the leaves *)
LevelUpdated == \A p \in Level(level) : node[p] = "updated"

LevelFinished == \A p \in Internal(level) : node[p] = "updated"

(* The barrier at the end of a level's parallel loop. *)
NextLevel ==
  /\ stage = "levels"
  /\ LevelFinished
  /\ IF level = 0
     THEN stage' = "positions" /\ UNCHANGED level
     ELSE level' = level - 1 /\ UNCHANGED stage
  /\ UNCHANGED <<input, target, tables, edge, vals, node, Pos, C>>

(* mutant: inclusive instead of exclusive prefix sums *)
InclusiveSums ==
  [i \in 1 .. Len(tables[Root]) |-> MapThenSumSet(LAMBDA k : Back(tables[Root][k]), 1 .. i)]

PrefixSums ==
  [i \in 1 .. Len(tables[Root]) |-> MapThenSumSet(LAMBDA k : Back(tables[Root][k]), 1 .. i-1)]

(* Step 2: exclusive prefix sums of delta over the root rows. *)
AssignPositions ==
  /\ stage = "positions"
  /\ Pos' = PrefixSums
  /\ stage' = "expand"
  /\ UNCHANGED <<input, target, tables, level, edge, vals, node, C>>

(* A row of the root with its children's columns, and b, P and lambda.     *)
Placed(r, start) ==
  [keys |-> r.keys, us |-> r.us, delta |-> r.delta, b |-> start, P |-> 0, lambda |-> 1]

(* Step 3: rows without answers are dropped, the others carry              *)
(* (b, P, lambda) = (Pos, 0, 1) and appear once per answer, in order.      *)
ExpandRoot ==
  /\ stage = "expand"
  /\ C' = FlattenSeq([i \in 1 .. Len(tables[Root]) |->
             [k \in 1 .. Back(tables[Root][i]) |-> Placed(tables[Root][i], Pos[i])]])
  /\ tables' = [tables EXCEPT ![Root] = <<>>]
  /\ stage' = "number"
  /\ UNCHANGED <<input, target, level, edge, vals, node, Pos>>

(* The copies are numbered; dummy rows fill up to protectedOutputRows. *)
NumberAndPad ==
  /\ stage = "number"
  /\ C' = [i \in 1 .. Max({Len(C), target}) |->
             IF i <= Len(C) THEN [C[i] EXCEPT !.P = i] ELSE Dummy(i)]
  /\ tables' = [tables EXCEPT ![Root] = C']
  /\ stage' = "done"
  /\ UNCHANGED <<input, target, level, edge, vals, node, Pos>>

Next ==
  \/ \E c \in NonRoot : BeginEdge(c) \/ EndEdge(c)
  \/ \E p \in Node : UpdateNode(p)
  \/ NextLevel
  \/ AssignPositions
  \/ ExpandRoot
  \/ NumberAndPad

(* Some thread keeps running.                                              *)
Spec == Init /\ [][Next]_vars /\ WF_vars(Next)

-----------------------------------------------------------------------------
(* The control state has its type.                                         *)
ControlOK ==
  /\ stage \in {"levels", "positions", "expand", "number", "done"}
  /\ level \in 0 .. N-1
  /\ edge \in [NonRoot -> {"idle", "running", "done"}]
  /\ node \in [Node -> {"waiting", "updated"}]

(* Every table keeps its rows until the root is expanded, and a finished   *)
(* semi-join has one value per row of its parent: the update indexes       *)
(* semiJoinValues[j][i] by the row numbers of the table it finds.          *)
ShapeOK ==
  /\ DOMAIN vals = NonRoot
  /\ DOMAIN tables = Node
  /\ \A u \in Node :
       stage \in {"levels", "positions", "expand"} \/ u # Root
         => Len(tables[u]) = Len(input[u])
  /\ \A c \in NonRoot : edge[c] = "done" => Len(vals[c]) = Len(input[Parent[c]])

TypeOK == ControlOK /\ ShapeOK

(* A semi-join only ever reads a child table that already carries its      *)
(* delta column: valueCol is the last column of an internal child, which   *)
(* holds a key of the child until the child's own update has run.          *)
ReadsFinished ==
  \A c \in NonRoot :
    edge[c] = "running" => IsLeaf(c) \/ node[c] = "updated"

(* No thread changes a table while the semi-join of another thread reads   *)
(* it: siblings, cousins and the parent's own update keep off.             *)
StableUnderRead ==
  [][\A c \in NonRoot :
       edge[c] = "running" =>
         /\ tables'[c] = tables[c]
         /\ tables'[Parent[c]] = tables[Parent[c]]]_vars

(* The u-values and delta of an updated node count answers: delta is the   *)
(* number of partial answers of its subtree that use the row, and u_j the  *)
(* number of those of child j's subtree that the row joins.                *)
ContributionExact ==
  \A p \in Node : node[p] = "updated" /\ stage = "levels" =>
    \A i \in 1 .. Len(tables[p]) :
      /\ tables[p][i].delta = SubtreeCount(input, p, i)
      /\ \A j \in DOMAIN children(p) :
           LET c == children(p)[j]
           IN  tables[p][i].us[j] =
                 MapThenSumSet(LAMBDA k : SubtreeCount(input, c, k),
                               {k \in 1 .. Len(input[c]) : Joins(c, input[p][i], input[c][k])})

(* The expanded root: its first JoinSize rows are numbered 1, 2, ...; the  *)
(* copies of one root row fill its interval b+1 .. b+delta exactly, the    *)
(* intervals follow each other without a gap, and everything behind them   *)
(* up to the protected size is a dummy of a single position.               *)
PositionsTile ==
  stage = "done" =>
    LET real == JoinSize(input)
        rows == tables[Root]
    IN  /\ Len(rows) = Max({real, target})
        /\ \A i \in 1 .. Len(rows) : rows[i].P = i
        /\ \A i \in 1 .. real :
             /\ rows[i].b < i
             /\ i <= rows[i].b + rows[i].delta
             /\ i > 1 => \/ rows[i].b = rows[i-1].b
                         \/ rows[i].b = rows[i-1].b + rows[i-1].delta
             /\ rows[i].keys[1] # DummyValue
        /\ \A i \in real + 1 .. Len(rows) : rows[i].delta = 0 /\ rows[i].keys[1] = DummyValue

(* All threads reach their barriers and the pass ends. *)
Termination == <>(stage = "done")
=============================================================================
