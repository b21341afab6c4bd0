--------------------------------- MODULE ParYan ---------------------------------
(***************************************************************************)
(* ParYanFilter and ParYanJoin: a semi-join pass up the tree, one down,    *)
(* and two-way joins up again.  Every pass goes level by level; the        *)
(* internal nodes of a level are the iterations of a parallel loop and     *)
(* work through their children one after the other, so that the steps of   *)
(* different nodes interleave.                                             *)
(*                                                                         *)
(* The semi-join and the two-way join are ParallelSemiJoin and             *)
(* ObliViatorJoin by their promises (TwoWayJoins).  The join does not keep *)
(* the order of rows: from there on a table is a bag of rows, a row the    *)
(* sequence of its columns.                                                *)
(***************************************************************************)
EXTENDS FlatTables

VARIABLES
  input,    \* the database
  target,   \* materializedOutSize
  stage,    \* "up", "materialize", "down", "join", "reorder" or "done"
  tables,   \* tables, later semiJoinTables and downTables
  level,    \* the level that is worked on
  pc,       \* pc[p]: how many steps node p has done in this pass
  vals,     \* vals[c]: the result of the semi-join of the edge above c
  outSize,
  partial,  \* partial[u]: the join of what has been joined below u, a bag
  cols,     \* partialCols
  offset,   \* colOffset[u][v]: where the columns of v start in partial[u], or -1
  result

ownVars == <<tables, level, pc, vals, outSize, partial, cols, offset>>
vars == <<input, target, stage, ownVars, result>>

Internal(d) == {p \in Level(d) : ~IsLeaf(p)}

Degree(p) == Len(children(p))

(* The number of the next child of p, while there is one. *)
NextChild(p) == children(p)[pc[p] + 1]

Step(p) == pc' = [pc EXCEPT ![p] = @ + 1]

(* All nodes of the level have done their n(p) steps: the loop's barrier. *)
Barrier(n(_)) == \A p \in Internal(level) : pc[p] = n(p)

Restart == pc' = [u \in Node |-> 0]

Init ==
  /\ stage = "up"
  /\ tables = input
  /\ level = MaxDepth
  /\ pc = [u \in Node |-> 0]
  /\ vals = [c \in NonRoot |-> <<>>]
  /\ outSize = 0
  /\ partial = [u \in Node |-> EmptyBag]
  /\ cols = [u \in Node |-> tableKeys[u]]
  /\ offset = [u \in Node |-> [v \in Node |-> IF u = v THEN 0 ELSE -1]]
  /\ result = EmptyBag

-----------------------------------------------------------------------------
(* The sum of Value over the rows of c that join row i of p. *)
UpValue(p, c, i) ==
  MapThenSumSet(LAMBDA j : Contribution(c, tables[c][j]),
                {j \in DOMAIN tables[c] : Joins(c, tables[p][i], tables[c][j])})

UpSemiJoin(p) ==
  /\ stage = "up" /\ p \in Internal(level) /\ pc[p] < Degree(p)
  /\ vals' = [vals EXCEPT ![NextChild(p)] =
                [i \in DOMAIN tables[p] |-> UpValue(p, NextChild(p), i)]]
  /\ Step(p)
  /\ UNCHANGED <<input, target, stage, tables, level, outSize, partial, cols, offset, result>>

UpMultiply(p) ==
  /\ stage = "up" /\ p \in Internal(level) /\ pc[p] = Degree(p)
  /\ tables' = [tables EXCEPT ![p] =
       [i \in DOMAIN tables[p] |->
          [keys |-> tables[p][i].keys,
           delta |-> FoldSet(LAMBDA c, acc : vals[c][i] * acc, 1, ChildSet(p))]]]
  /\ Step(p)
  /\ UNCHANGED <<input, target, stage, level, vals, outSize, partial, cols, offset, result>>

EndUpLevel ==
  /\ stage = "up" /\ Barrier(LAMBDA p : Degree(p) + 1)
  /\ IF level > 0 THEN level' = level - 1 /\ stage' = "up"
                  ELSE level' = 0 /\ stage' = "materialize"
  /\ UNCHANGED <<input, target, tables, pc, vals, outSize, partial, cols, offset, result>>

Projected(r) == [keys |-> r.keys]

(* mutant: rows without partners below stay *)
KeptAlways(u, r) == Projected(r)

(* A row without an answer below becomes zeros. *)
Materialized(u, r) ==
  IF IsLeaf(u) THEN r
  ELSE IF r.delta = 0 THEN [keys |-> Zeros(tableKeys[u])] ELSE Projected(r)

(* The size of the join, by the counts of the root (0 for one relation). *)
TotalDelta ==
  IF IsLeaf(Root) THEN 0
  ELSE MapThenSumSet(LAMBDA i : tables[Root][i].delta, DOMAIN tables[Root])

(* The serial loop over the nodes, and the size that runJoin takes for the *)
(* joins.                                                                  *)
Materialize ==
  /\ stage = "materialize"
  /\ outSize' = Max({target, TotalDelta, 1})
  /\ tables' = [u \in Node |-> [i \in DOMAIN tables[u] |-> Materialized(u, tables[u][i])]]
  /\ stage' = "down"
  /\ Restart
  /\ UNCHANGED <<input, target, level, vals, partial, cols, offset, result>>

-----------------------------------------------------------------------------
(* mutant: the rows are held against the parent before it was filtered *)
StaleDownValue(c, j) ==
  Cardinality({i \in DOMAIN input[Parent[c]] : Joins(c, input[Parent[c]][i], tables[c][j])})

(* The rows of the filtered parent that row j of c joins. *)
DownValue(c, j) ==
  Cardinality({i \in DOMAIN tables[Parent[c]] : Joins(c, tables[Parent[c]][i], tables[c][j])})

DownSemiJoin(p) ==
  /\ stage = "down" /\ p \in Internal(level) /\ pc[p] < Degree(p)
  /\ vals' = [vals EXCEPT ![NextChild(p)] =
                [j \in DOMAIN tables[NextChild(p)] |-> DownValue(NextChild(p), j)]]
  /\ Step(p)
  /\ UNCHANGED <<input, target, stage, tables, level, outSize, partial, cols, offset, result>>

DownFilter(p) ==
  /\ stage = "down" /\ p \in Internal(level) /\ pc[p] = Degree(p)
  /\ tables' = [u \in Node |->
       IF u \in ChildSet(p)
       THEN [j \in DOMAIN tables[u] |->
               IF vals[u][j] = 0 THEN [keys |-> Zeros(tableKeys[u])] ELSE tables[u][j]]
       ELSE tables[u]]
  /\ Step(p)
  /\ UNCHANGED <<input, target, stage, level, vals, outSize, partial, cols, offset, result>>

EndDownLevel ==
  /\ stage = "down" /\ Barrier(LAMBDA p : Degree(p) + 1)
  /\ IF level < MaxDepth
     THEN level' = level + 1 /\ stage' = "down" /\ UNCHANGED <<pc, partial>>
     ELSE /\ level' = MaxDepth /\ stage' = "join" /\ Restart
          /\ partial' = [u \in Node |-> BagOfRows(tables[u])]
  /\ UNCHANGED <<input, target, tables, vals, outSize, cols, offset, result>>

-----------------------------------------------------------------------------
(* ObliViatorJoin of two bags on column a of the first and b of the        *)
(* second: key 0 does not join, and rows of zeros fill up to n rows.       *)
TwoWay(R, a, S, b, n, width) ==
  LET joined == PairsOn(Restricted(R, LAMBDA r : r[a] # 0), a, S, b)
      missing == n - BagCardinality(joined)
  IN  IF missing > 0 THEN joined (+) Copies(Zeros(width), missing) ELSE joined

(* mutant: the columns of the second join are placed before the first      *)
StartOfChild(p, c) == tableKeys[p]

(* Where the columns of c's subtree begin in the joined row. *)
ChildBase(p, c) == cols[p]

JoinChild(p) ==
  /\ stage = "join" /\ p \in Internal(level) /\ pc[p] < Degree(p)
  /\ LET c == NextChild(p)
     IN  /\ partial' = [partial EXCEPT
              ![p] = TwoWay(partial[p], offset[p][p] + ColInParent[c],
                            partial[c], offset[c][c] + ColInChild[c], outSize, cols[p] + cols[c]),
              ![c] = EmptyBag]
         /\ offset' = [offset EXCEPT ![p] =
              [v \in Node |-> IF offset[c][v] >= 0 THEN ChildBase(p, c) + offset[c][v] ELSE @[v]]]
         /\ cols' = [cols EXCEPT ![p] = @ + cols[c], ![c] = 0]
  /\ Step(p)
  /\ UNCHANGED <<input, target, stage, tables, level, vals, outSize, result>>

EndJoinLevel ==
  /\ stage = "join" /\ Barrier(Degree)
  /\ IF level > 0 THEN level' = level - 1 /\ stage' = "join"
                  ELSE level' = 0 /\ stage' = "reorder"
  /\ UNCHANGED <<input, target, tables, pc, vals, outSize, partial, cols, offset, result>>

(* The columns of the relations in breadth-first order. *)
Reorder ==
  /\ stage = "reorder"
  /\ result' = ImageBag(partial[Root], LAMBDA row : Ordered(row, offset[Root], BfsOrder))
  /\ stage' = "done"
  /\ UNCHANGED <<input, target, tables, level, pc, vals, outSize, partial, cols, offset>>

Next ==
  \/ \E p \in Node : UpSemiJoin(p) \/ UpMultiply(p) \/ DownSemiJoin(p) \/ DownFilter(p) \/ JoinChild(p)
  \/ EndUpLevel \/ Materialize \/ EndDownLevel \/ EndJoinLevel \/ Reorder
=============================================================================
