---------------------------- MODULE JFYanDownProofs ----------------------------
(***************************************************************************)
(* Proofs about the two passes of JFYan, for every join tree, every set of *)
(* databases and both builds.                                              *)
(*                                                                         *)
(* The first part is about the bottom-up pass (BottomUp): the barriers     *)
(* between levels and between the edges and the update of a node are       *)
(* enough to make every semi-join read finished tables that nobody changes *)
(* under it, so that every row counts its partial answers and the copies   *)
(* of the root rows tile the output.  The second part is about what the    *)
(* steps of the top-down pass (JFYanDown) compute, for every table that    *)
(* they may find.                                                          *)
(***************************************************************************)
EXTENDS JFYanDown, JoinTreeProofs, FiniteSetTheorems

(* What the barriers establish.  An edge is only touched once its level is *)
(* reached; an updated node has finished its edges; everything below the   *)
(* current level is updated; and so is everything once the loop has ended. *)
Schedule ==
  /\ \A c \in NonRoot : edge[c] # "idle" => Depth[Parent[c]] >= level
  /\ \A p \in Node : node[p] = "updated" => EdgesDone(p)
  /\ \A p \in Node : ~IsLeaf(p) /\ Depth[p] > level => node[p] = "updated"
  /\ stage # "levels" => \A p \in Node : ~IsLeaf(p) => node[p] = "updated"

IInv == ControlOK /\ Schedule

-----------------------------------------------------------------------------
(* The schedule. *)

LEMMA ScheduleInit == Init => IInv
<1> SUFFICES ASSUME Init PROVE IInv
  OBVIOUS
<1>1. ControlOK
  BY MaxDepthBound DEF Init, ControlOK
<1>2. \A c \in NonRoot : edge[c] = "idle"
  BY DEF Init
<1>3. \A p \in Node : node[p] = "waiting" /\ ~(Depth[p] > level)
  BY MaxDepthBound, DepthType DEF Init
<1> QED BY <1>1, <1>2, <1>3 DEF Init, IInv, Schedule

LEMMA ScheduleStep == IInv /\ [Next]_vars => IInv'
<1> SUFFICES ASSUME IInv, [Next]_vars PROVE IInv'
  OBVIOUS
<1> USE DEF IInv
<1>1. ASSUME NEW c \in NonRoot, BeginEdge(c) PROVE IInv'
  <2>1. edge[c] = "idle" /\ edge' = [edge EXCEPT ![c] = "running"] /\ Depth[Parent[c]] = level
    BY <1>1 DEF BeginEdge
  <2>2. UNCHANGED <<stage, level, node>>
    BY <1>1 DEF BeginEdge
  <2>3. ControlOK'
    BY <2>1, <2>2 DEF ControlOK
  <2>4. \A p \in Node : node[p] = "updated" => EdgesDone(p)'
    <3> TAKE p \in Node
    <3> HAVE node[p] = "updated"
    <3>1. \A s \in ChildSet(p) : s \in NonRoot /\ edge[s] = "done"
      BY ChildFacts DEF Schedule, EdgesDone
    <3> QED BY <3>1, <2>1 DEF EdgesDone, ControlOK
  <2>5. \A s \in NonRoot : edge'[s] # "idle" => Depth[Parent[s]] >= level
    BY <2>1, ParentFacts, DepthType DEF Schedule, ControlOK
  <2> QED BY <2>2, <2>3, <2>4, <2>5 DEF Schedule
<1>2. ASSUME NEW c \in NonRoot, EndEdge(c) PROVE IInv'
  <2>1. edge[c] = "running" /\ edge' = [edge EXCEPT ![c] = "done"]
    BY <1>2 DEF EndEdge
  <2>2. UNCHANGED <<stage, level, node>>
    BY <1>2 DEF EndEdge
  <2>3. ControlOK'
    BY <2>1, <2>2 DEF ControlOK
  <2>4. \A p \in Node : node[p] = "updated" => EdgesDone(p)'
    BY <2>1, ChildFacts DEF Schedule, EdgesDone, ControlOK
  <2>5. \A s \in NonRoot : edge'[s] # "idle" => Depth[Parent[s]] >= level
    BY <2>1 DEF Schedule, ControlOK
  <2> QED BY <2>2, <2>3, <2>4, <2>5 DEF Schedule
<1>3. ASSUME NEW p \in Node, UpdateNode(p) PROVE IInv'
  <2>1. EdgesDone(p) /\ node' = [node EXCEPT ![p] = "updated"]
    BY <1>3 DEF UpdateNode
  <2>2. UNCHANGED <<stage, level, edge>>
    BY <1>3 DEF UpdateNode
  <2>3. ControlOK'
    BY <2>1, <2>2 DEF ControlOK
  <2>4. \A q \in Node : node'[q] = "updated" => EdgesDone(q)'
    BY <2>1, <2>2 DEF Schedule, EdgesDone, ControlOK
  <2>5. \A q \in Node : node[q] = "updated" => node'[q] = "updated"
    BY <2>1 DEF ControlOK
  <2> QED BY <2>1, <2>2, <2>3, <2>4, <2>5 DEF Schedule
<1>4. CASE NextLevel
  <2>1. \A p \in Node : ~IsLeaf(p) /\ Depth[p] = level => node[p] = "updated"
    BY <1>4 DEF NextLevel, LevelFinished, Internal, Level
  <2>2. UNCHANGED <<edge, node>> /\ stage = "levels"
    BY <1>4 DEF NextLevel
  <2>3. \A p \in Node : EdgesDone(p)' <=> EdgesDone(p)
    BY <2>2 DEF EdgesDone
  <2>4. CASE level = 0
    <3>1. stage' = "positions" /\ level' = level
      BY <1>4, <2>4 DEF NextLevel
    <3>2. \A p \in Node : ~IsLeaf(p) => node[p] = "updated"
      BY <2>1, <2>4, DepthType DEF Schedule
    <3> QED BY <2>2, <2>3, <3>1, <3>2 DEF Schedule, ControlOK
  <2>5. CASE level # 0
    <3>1. level' = level - 1 /\ stage' = stage
      BY <1>4, <2>5 DEF NextLevel
    <3>2. level \in Nat /\ level' \in 0 .. N-1
      BY <2>5, <3>1, TreeAssumption DEF ControlOK
    <3>3. \A p \in Node : ~IsLeaf(p) /\ Depth[p] > level' => node[p] = "updated"
      BY <2>1, <3>1, <3>2, DepthType DEF Schedule
    <3>4. \A c \in NonRoot : edge[c] # "idle" => Depth[Parent[c]] >= level'
      BY <3>1, <3>2, ParentFacts, DepthType DEF Schedule
    <3> QED BY <2>2, <2>3, <3>1, <3>2, <3>3, <3>4 DEF Schedule, ControlOK
  <2> QED BY <2>4, <2>5
<1>5. CASE AssignPositions \/ ExpandRoot \/ NumberAndPad
  <2>1. UNCHANGED <<level, edge, node>> /\ stage # "levels" /\ stage' \in {"expand", "number", "done"}
    BY <1>5 DEF AssignPositions, ExpandRoot, NumberAndPad
  <2>2. \A p \in Node : EdgesDone(p)' <=> EdgesDone(p)
    BY <2>1 DEF EdgesDone
  <2> QED BY <2>1, <2>2 DEF Schedule, ControlOK
<1>6. CASE UNCHANGED vars
  BY <1>6 DEF vars, Schedule, ControlOK, EdgesDone
<1> QED BY <1>1, <1>2, <1>3, <1>4, <1>5, <1>6 DEF Next

(* The barriers do their work in every run. *)
THEOREM ScheduleInvariant == Spec => []IInv
BY ScheduleInit, ScheduleStep, PTL DEF Spec

(* An edge that is running belongs to a node that is not updated yet, and  *)
(* its child is finished.                                                  *)
LEMMA RunningEdge ==
  ASSUME IInv, NEW c \in NonRoot, edge[c] = "running"
  PROVE  /\ node[Parent[c]] # "updated"
         /\ stage = "levels"
         /\ IsLeaf(c) \/ node[c] = "updated"
<1>1. node[Parent[c]] # "updated"
  BY ParentFacts DEF IInv, Schedule, EdgesDone
<1>2. stage = "levels"
  BY <1>1, ParentFacts DEF IInv, Schedule
<1>3. Depth[Parent[c]] >= level
  BY DEF IInv, Schedule
<1>4. Depth[c] > level
  BY <1>3, ParentFacts, DepthType DEF IInv, ControlOK
<1> QED BY <1>1, <1>2, <1>4, ParentFacts DEF IInv, Schedule

(* No semi-join ever takes a key of an unfinished child for its delta.     *)
THEOREM ReadsFinishedTheorem == Spec => []ReadsFinished
<1>1. IInv => ReadsFinished
  BY RunningEdge DEF ReadsFinished
<1> QED BY <1>1, ScheduleInvariant, PTL

-----------------------------------------------------------------------------
(* Shapes. *)

(* Tables are indexed from 1 on. *)
Listed ==
  \A u \in Node :
    stage \in {"levels", "positions", "expand"} \/ u # Root
      => DOMAIN tables[u] = 1 .. Len(input[u])

Rows == input \in Inputs /\ ShapeOK /\ Listed

LEMMA InputLen ==
  \A db \in Inputs : DOMAIN db = Node /\ \A u \in Node :
    /\ Len(db[u]) \in Nat \ {0} /\ DOMAIN db[u] = 1 .. Len(db[u])
    /\ \A i \in 1 .. Len(db[u]) :
         /\ db[u][i].keys \in Seq(Int) /\ 1 \in DOMAIN db[u][i].keys
         /\ DummyValue \notin ToSet(db[u][i].keys)
<1> SUFFICES ASSUME NEW db \in Inputs
             PROVE  DOMAIN db = Node /\ \A u \in Node :
                      /\ Len(db[u]) \in Nat \ {0} /\ DOMAIN db[u] = 1 .. Len(db[u])
                      /\ \A i \in 1 .. Len(db[u]) :
                           /\ db[u][i].keys \in Seq(Int) /\ 1 \in DOMAIN db[u][i].keys
                           /\ DummyValue \notin ToSet(db[u][i].keys)
  OBVIOUS
<1>1. DOMAIN db = Node
  BY InputAssumption
<1>2. ASSUME NEW u \in Node
      PROVE  /\ Len(db[u]) \in Nat \ {0} /\ DOMAIN db[u] = 1 .. Len(db[u])
             /\ \A i \in 1 .. Len(db[u]) :
                  /\ db[u][i].keys \in Seq(Int) /\ 1 \in DOMAIN db[u][i].keys
                  /\ DummyValue \notin ToSet(db[u][i].keys)
  <2>1. PICK s : s = db[u]
    OBVIOUS
  <2>2. /\ s \in Seq([keys : Seq(Int)]) /\ s # <<>>
        /\ \A i \in 1 .. Len(s) : s[i].keys # <<>> /\ DummyValue \notin ToSet(s[i].keys)
    BY <2>1, InputAssumption
  <2>3. Len(s) \in Nat \ {0} /\ DOMAIN s = 1 .. Len(s)
    BY <2>2
  <2>4. ASSUME NEW i \in 1 .. Len(s) PROVE s[i].keys \in Seq(Int) /\ 1 \in DOMAIN s[i].keys
    <3>1. s[i] \in [keys : Seq(Int)]
      <4>1. PICK R : R = [keys : Seq(Int)]
        OBVIOUS
      <4>2. \A t \in Seq(R) : \A k \in 1 .. Len(t) : t[k] \in R
        OBVIOUS
      <4> QED BY <2>2, <2>4, <4>1, <4>2
    <3>2. s[i].keys \in Seq(Int) /\ s[i].keys # <<>>
      BY <2>2, <3>1
    <3> QED BY <3>2
  <2> QED BY <2>1, <2>2, <2>3, <2>4
<1> QED BY <1>1, <1>2

LEMMA RowsInit == Init => Rows
BY InputLen DEF Init, Rows, ShapeOK, Listed

LEMMA RowsStep == IInv /\ Rows /\ [Next]_vars => Rows'
<1> SUFFICES ASSUME IInv, Rows, [Next]_vars PROVE Rows'
  OBVIOUS
<1> USE DEF Rows, Listed
<1>1. ASSUME NEW c \in NonRoot, BeginEdge(c) PROVE Rows'
  BY <1>1 DEF BeginEdge, ShapeOK, IInv, ControlOK
<1>2. ASSUME NEW c \in NonRoot, EndEdge(c) PROVE Rows'
  <2> DEFINE new == SemiJoinValues(c, tables[Parent[c]], tables[c])
             n == Len(input[Parent[c]])
  <2>1. edge[c] = "running" /\ stage = "levels"
    BY <1>2, RunningEdge DEF EndEdge
  <2>2. n \in Nat /\ Len(tables[Parent[c]]) = n
    BY <2>1, ParentFacts, InputLen DEF ShapeOK
  <2>3. new = [i \in 1 .. n |-> new[i]]
    BY <2>2 DEF SemiJoinValues
  <2>4. Len(new) = n
    BY <2>2, <2>3, LenOf
  <2> HIDE DEF new
  <2>5. /\ vals' = [vals EXCEPT ![c] = new]
        /\ edge' = [edge EXCEPT ![c] = "done"]
        /\ UNCHANGED <<input, tables, stage>>
    BY <1>2 DEF EndEdge, new
  <2> QED BY <2>4, <2>5 DEF ShapeOK, IInv, ControlOK
<1>3. ASSUME NEW p \in Node, UpdateNode(p) PROVE Rows'
  <2> DEFINE new == WithContributions(p)
             n == Len(input[p])
  <2>0. ~IsLeaf(p) /\ node[p] # "updated"
    BY <1>3 DEF UpdateNode
  <2>1. stage = "levels" /\ tables' = [tables EXCEPT ![p] = new] /\ UNCHANGED <<input, stage, edge, vals>>
    BY <1>3, <2>0 DEF UpdateNode, IInv, Schedule
  <2>2. n \in Nat /\ Len(tables[p]) = n
    BY <2>1, InputLen DEF ShapeOK
  <2>3. new = [i \in 1 .. n |-> new[i]]
    BY <2>2 DEF WithContributions
  <2>4. Len(new) = n
    BY <2>2, <2>3, LenOf
  <2> HIDE DEF new
  <2> QED BY <2>1, <2>4 DEF ShapeOK
<1>4. CASE NextLevel \/ AssignPositions
  <2>1. /\ UNCHANGED <<input, tables, edge, vals>>
        /\ stage \in {"levels", "positions"}
        /\ stage' \in {"levels", "positions", "expand"}
    BY <1>4 DEF NextLevel, AssignPositions
  <2> QED BY <2>1 DEF ShapeOK
<1>5. CASE ExpandRoot \/ NumberAndPad
  <2>1. /\ UNCHANGED <<input, edge, vals>>
        /\ stage' \in {"number", "done"}
        /\ \E t : tables' = [tables EXCEPT ![Root] = t]
    BY <1>5 DEF ExpandRoot, NumberAndPad
  <2> QED BY <2>1 DEF ShapeOK
<1>6. CASE UNCHANGED vars
  BY <1>6 DEF vars, ShapeOK
<1> QED BY <1>1, <1>2, <1>3, <1>4, <1>5, <1>6 DEF Next

LEMMA RowsInvariant == Spec => []Rows
BY RowsInit, RowsStep, ScheduleInvariant, PTL DEF Spec

(* The tables keep their rows, and every semi-join has a value for each.   *)
THEOREM TypeCorrect == Spec => []TypeOK
<1>1. IInv /\ Rows => TypeOK
  BY DEF IInv, Rows, TypeOK
<1> QED BY <1>1, ScheduleInvariant, RowsInvariant, PTL

(* No step changes a table while a semi-join reads it. *)
THEOREM StableUnderReadTheorem == Spec => StableUnderRead
<1> DEFINE Stable == \A c \in NonRoot :
             edge[c] = "running" =>
               /\ tables'[c] = tables[c]
               /\ tables'[Parent[c]] = tables[Parent[c]]
<1>1. ASSUME IInv, Rows, [Next]_vars PROVE Stable
  <2> SUFFICES ASSUME NEW c \in NonRoot, edge[c] = "running"
               PROVE  tables'[c] = tables[c] /\ tables'[Parent[c]] = tables[Parent[c]]
    OBVIOUS
  <2>1. /\ node[Parent[c]] # "updated"
        /\ stage = "levels"
        /\ IsLeaf(c) \/ node[c] = "updated"
    BY <1>1, RunningEdge
  <2>2. ASSUME NEW p \in Node, UpdateNode(p) PROVE p # c /\ p # Parent[c]
    <3>1. node[p] = "waiting" /\ ~IsLeaf(p) /\ EdgesDone(p)
      BY <2>2 DEF UpdateNode
    <3>2. p # c
      BY <3>1, <2>1
    <3>3. p # Parent[c]
      BY <3>1, ParentFacts DEF EdgesDone
    <3> QED BY <3>2, <3>3
  <2>3. ASSUME NEW p \in Node, UpdateNode(p)
        PROVE  tables'[c] = tables[c] /\ tables'[Parent[c]] = tables[Parent[c]]
    BY <1>1, <2>2, <2>3, ParentFacts DEF UpdateNode, Rows, ShapeOK
  <2>4. CASE (\E d \in NonRoot : BeginEdge(d) \/ EndEdge(d)) \/ NextLevel \/ AssignPositions \/ UNCHANGED vars
    BY <2>4 DEF BeginEdge, EndEdge, NextLevel, AssignPositions, vars
  <2>5. CASE ExpandRoot \/ NumberAndPad
    BY <2>1, <2>5 DEF ExpandRoot, NumberAndPad
  <2> QED BY <1>1, <2>3, <2>4, <2>5 DEF Next
<1>2. ASSUME IInv, Rows, [Next]_vars PROVE [Stable]_vars
  BY <1>1, <1>2
<1> QED BY <1>2, ScheduleInvariant, RowsInvariant, PTL DEF Spec, StableUnderRead

-----------------------------------------------------------------------------
(* What is counted.                                                        *)

(* The u-values of row i of relation u. *)
UsOf(db, u, i) == [j \in DOMAIN children(u) |-> Cardinality(Below(db, children(u)[j], i))]

(* Row i of table u counts the answers below it. *)
Counts(u, i) ==
  /\ "delta" \in DOMAIN tables[u][i]
  /\ tables[u][i].delta = SubtreeCount(input, u, i)
  /\ tables[u][i].us = UsOf(input, u, i)

(* Until the root is expanded, rows keep their keys, a node that is        *)
(* updated counts, and so does every semi-join that has ended.             *)
Counted ==
  stage \in {"levels", "positions", "expand"} =>
    /\ \A u \in Node : \A i \in 1 .. Len(input[u]) : tables[u][i].keys = input[u][i].keys
    /\ \A u \in Node : node[u] = "updated" => \A i \in 1 .. Len(input[u]) : Counts(u, i)
    /\ \A c \in NonRoot : edge[c] = "done" =>
         \A i \in 1 .. Len(input[Parent[c]]) : vals[c][i] = Cardinality(Below(input, c, i))

LEMMA InputDatabase == Rows => Database(input)
BY InputLen DEF Rows, Database

LEMMA CountedInit == Init => Counted
BY DEF Init, Counted

(* A semi-join that reads finished tables counts. *)
LEMMA SemiJoinCounts ==
  ASSUME IInv, Rows, Counted, NEW c \in NonRoot, edge[c] = "running",
         NEW i \in 1 .. Len(input[Parent[c]])
  PROVE  SemiJoinValues(c, tables[Parent[c]], tables[c])[i] = Cardinality(Below(input, c, i))
<1> DEFINE p == Parent[c]
           K == {j \in 1 .. Len(tables[c]) : Joins(c, tables[p][i], tables[c][j])}
<1>1. c \in Node /\ p \in Node /\ stage = "levels" /\ (IsLeaf(c) \/ node[c] = "updated")
  BY ParentFacts, RunningEdge
<1>2. Len(tables[c]) = Len(input[c]) /\ Len(tables[p]) = Len(input[p])
  BY <1>1 DEF Rows, ShapeOK
<1>3. tables[p][i].keys = input[p][i].keys
  BY <1>1 DEF Counted
<1>4. \A j \in 1 .. Len(input[c]) : tables[c][j].keys = input[c][j].keys
  BY <1>1 DEF Counted
<1>5. K = Partners(input, c, i)
  BY <1>2, <1>3, <1>4 DEF Partners, Joins
<1>6. SemiJoinValues(c, tables[p], tables[c])[i] = SumAt(c, tables[c], K)
  BY <1>2, Zenon DEF SemiJoinValues, SumAt
<1>7. ASSUME NEW k \in K PROVE Contribution(c, tables[c][k]) = SubtreeCount(input, c, k)
  <2>1. k \in 1 .. Len(input[c])
    BY <1>2
  <2>2. CASE IsLeaf(c)
    BY <1>1, <2>1, <2>2, InputDatabase, LeafCount DEF Contribution
  <2>3. CASE ~IsLeaf(c)
    BY <1>1, <2>1, <2>3 DEF Contribution, Back, Counted, Counts
  <2> QED BY <2>2, <2>3
<1> HIDE DEF K, p
<1>8. SumAt(c, tables[c], K) = Cardinality(Below(input, c, i))
  <2>1. Database(input)
    BY InputDatabase
  <2> QED BY <1>5, <1>7, <2>1, SumOfContributions
<1> QED BY <1>6, <1>8 DEF p

(* The product of finished values counts. *)
LEMMA UpdateCounts ==
  ASSUME IInv, Rows, Counted, stage = "levels", NEW p \in Node, EdgesDone(p),
         NEW i \in 1 .. Len(input[p])
  PROVE  LET row == WithContributions(p)[i]
         IN  /\ row.keys = input[p][i].keys
             /\ "delta" \in DOMAIN row
             /\ row.delta = SubtreeCount(input, p, i)
             /\ row.us = UsOf(input, p, i)
<1> DEFINE D == DOMAIN children(p)
           us == [j \in D |-> vals[children(p)[j]][i]]
           row == WithContributions(p)[i]
           F == [j \in D |-> Below(input, children(p)[j], i)]
<1>1. Len(tables[p]) = Len(input[p]) /\ tables[p][i].keys = input[p][i].keys
  BY DEF Rows, ShapeOK, Counted
<1>2. row = [keys |-> tables[p][i].keys, us |-> us, delta |-> FoldSeq(LAMBDA x, y : x * y, 1, us)]
  BY <1>1, Zenon DEF WithContributions
<1>3. ASSUME NEW j \in D PROVE us[j] = Cardinality(F[j]) /\ IsFiniteSet(F[j])
  <2> DEFINE c == children(p)[j]
  <2>1. c \in Node /\ c \in NonRoot /\ Parent[c] = p /\ c \in ChildSet(p)
    BY ChildSubtrees, ChildrenEnumerate
  <2>2. edge[c] = "done"
    BY <2>1 DEF EdgesDone
  <2>3. vals[c][i] = Cardinality(Below(input, c, i))
    BY <2>1, <2>2 DEF Counted
  <2>4. IsFiniteSet(Below(input, c, i))
    BY <2>1, InputDatabase, UsingFinite
  <2> QED BY <2>3, <2>4
<1>4. IsFiniteSet(D)
  <2>1. Cardinality(ChildSet(p)) \in Nat
    BY NodesFinite DEF ChildSet
  <2> QED BY <2>1, ChildrenEnumerate, FS_Interval
<1>5. DOMAIN us = D /\ us = [j \in D |-> us[j]] /\ \A j \in D : F[j] = Below(input, children(p)[j], i)
  OBVIOUS
<1> HIDE DEF F, us
<1>6. FoldSeq(LAMBDA x, y : x * y, 1, us) = Cardinality(Picks(F, D))
  BY <1>3, <1>4, <1>5, ProductOfValues
<1>7. Cardinality(Using(input, p, i)) = Cardinality(Picks(F, D))
  BY <1>5, InputDatabase, AnswersAreChoices
<1>8. FoldSeq(LAMBDA x, y : x * y, 1, us) = SubtreeCount(input, p, i)
  BY <1>6, <1>7 DEF SubtreeCount, Using
<1>9. us = UsOf(input, p, i)
  <2>1. \A j \in D : us[j] = Cardinality(Below(input, children(p)[j], i))
    BY <1>3, <1>5
  <2> QED BY <1>5, <2>1 DEF UsOf
<1> HIDE DEF row
<1>10. /\ row.keys = tables[p][i].keys /\ "delta" \in DOMAIN row
       /\ row.delta = FoldSeq(LAMBDA x, y : x * y, 1, us) /\ row.us = us
  <2> DEFINE d == FoldSeq(LAMBDA x, y : x * y, 1, us)
             k == tables[p][i].keys
  <2>1. row = [keys |-> k, us |-> us, delta |-> d]
    BY <1>2
  <2> HIDE DEF d, k
  <2>2. row.keys = k /\ "delta" \in DOMAIN row /\ row.delta = d /\ row.us = us
    BY <2>1
  <2> QED BY <2>2 DEF d, k
<1>11. /\ row.keys = input[p][i].keys
       /\ "delta" \in DOMAIN row
       /\ row.delta = SubtreeCount(input, p, i)
       /\ row.us = UsOf(input, p, i)
  BY <1>1, <1>8, <1>9, <1>10
<1> QED BY <1>11 DEF row

LEMMA CountedStep == IInv /\ Rows /\ Counted /\ [Next]_vars => Counted'
<1> SUFFICES ASSUME IInv, Rows, Counted, [Next]_vars, stage' \in {"levels", "positions", "expand"}
             PROVE  Counted'
  BY DEF Counted
<1>1. ASSUME NEW c \in NonRoot, BeginEdge(c) PROVE Counted'
  <2>1. /\ UNCHANGED <<input, tables, stage, vals, node>>
        /\ edge' = [edge EXCEPT ![c] = "running"]
    BY <1>1 DEF BeginEdge
  <2>2. \A u, i : Counts(u, i)' <=> Counts(u, i)
    BY <2>1 DEF Counts
  <2>3. \A d \in NonRoot : edge'[d] = "done" => edge[d] = "done"
    BY <2>1 DEF IInv, ControlOK
  <2> QED BY <2>1, <2>2, <2>3 DEF Counted
<1>2. ASSUME NEW c \in NonRoot, EndEdge(c) PROVE Counted'
  <2> DEFINE new == SemiJoinValues(c, tables[Parent[c]], tables[c])
  <2>1. /\ UNCHANGED <<input, tables, stage, node>> /\ edge[c] = "running"
        /\ edge' = [edge EXCEPT ![c] = "done"] /\ vals' = [vals EXCEPT ![c] = new]
    BY <1>2 DEF EndEdge
  <2>2. \A u, i : Counts(u, i)' <=> Counts(u, i)
    BY <2>1 DEF Counts
  <2>3. \A i \in 1 .. Len(input[Parent[c]]) : new[i] = Cardinality(Below(input, c, i))
    BY <2>1, SemiJoinCounts
  <2> HIDE DEF new
  <2>4. \A d \in NonRoot : edge'[d] = "done" =>
          \A i \in 1 .. Len(input[Parent[d]]) : vals'[d][i] = Cardinality(Below(input, d, i))
    <3> TAKE d \in NonRoot
    <3>1. CASE d = c
      BY <3>1, <2>1, <2>3 DEF Rows, ShapeOK
    <3>2. CASE d # c
      BY <3>2, <2>1 DEF Counted
    <3> QED BY <3>1, <3>2
  <2> QED BY <2>1, <2>2, <2>4 DEF Counted
<1>3. ASSUME NEW p \in Node, UpdateNode(p) PROVE Counted'
  <2> DEFINE new == WithContributions(p)
  <2>1. /\ UNCHANGED <<input, stage, edge, vals>> /\ EdgesDone(p)
        /\ tables' = [tables EXCEPT ![p] = new] /\ node' = [node EXCEPT ![p] = "updated"]
    BY <1>3 DEF UpdateNode
  <2>2. \A i \in 1 .. Len(input[p]) :
          /\ new[i].keys = input[p][i].keys
          /\ "delta" \in DOMAIN new[i]
          /\ new[i].delta = SubtreeCount(input, p, i)
          /\ new[i].us = UsOf(input, p, i)
    <3>1. stage = "levels"
      BY <1>3 DEF UpdateNode, IInv, Schedule
    <3> QED BY <2>1, <3>1, UpdateCounts
  <2> HIDE DEF new
  <2>3. tables'[p] = new /\ \A u \in Node : u # p => tables'[u] = tables[u] /\ node'[u] = node[u]
    BY <2>1 DEF Rows, ShapeOK, IInv, ControlOK
  <2>4. \A u \in Node : \A i \in 1 .. Len(input[u]) : tables'[u][i].keys = input[u][i].keys
    BY <2>1, <2>2, <2>3 DEF Counted
  <2>5. ASSUME NEW u \in Node, node'[u] = "updated", NEW i \in 1 .. Len(input[u]) PROVE Counts(u, i)'
    <3>1. CASE u = p
      BY <3>1, <2>1, <2>2, <2>3 DEF Counts
    <3>2. CASE u # p
      <4>1. Counts(u, i)
        BY <3>2, <2>1, <2>3, <2>5 DEF Counted
      <4> QED BY <4>1, <3>2, <2>1, <2>3 DEF Counts
    <3> QED BY <3>1, <3>2
  <2> QED BY <2>1, <2>4, <2>5 DEF Counted
<1>4. CASE NextLevel \/ AssignPositions
  <2>1. stage \in {"levels", "positions"} /\ UNCHANGED <<input, tables, edge, vals, node>>
    BY <1>4 DEF NextLevel, AssignPositions
  <2>2. \A u, i : Counts(u, i)' <=> Counts(u, i)
    BY <2>1 DEF Counts
  <2> QED BY <2>1, <2>2 DEF Counted
<1>5. CASE ExpandRoot \/ NumberAndPad
  BY <1>5 DEF ExpandRoot, NumberAndPad
<1>6. CASE UNCHANGED vars
  <2>1. UNCHANGED <<stage, input, tables, edge, vals, node>>
    BY <1>6 DEF vars
  <2>2. \A u, i : Counts(u, i)' <=> Counts(u, i)
    BY <2>1 DEF Counts
  <2> QED BY <2>1, <2>2 DEF Counted
<1> QED BY <1>1, <1>2, <1>3, <1>4, <1>5, <1>6 DEF Next

LEMMA CountedInvariant == Spec => []Counted
BY CountedInit, CountedStep, ScheduleInvariant, RowsInvariant, PTL DEF Spec

(* The u-values and delta of every updated node count answers, whatever    *)
(* order the threads worked in.                                            *)
THEOREM ContributionExactTheorem == Spec => []ContributionExact
<1>1. IInv /\ Rows /\ Counted => ContributionExact
  <2> SUFFICES ASSUME IInv, Rows, Counted, NEW p \in Node, node[p] = "updated", stage = "levels",
                      NEW i \in 1 .. Len(tables[p])
               PROVE  /\ tables[p][i].delta = SubtreeCount(input, p, i)
                      /\ \A j \in DOMAIN children(p) :
                           LET c == children(p)[j]
                           IN  tables[p][i].us[j] =
                                 MapThenSumSet(LAMBDA k : SubtreeCount(input, c, k),
                                               {k \in 1 .. Len(input[c]) : Joins(c, input[p][i], input[c][k])})
    BY Zenon DEF ContributionExact
  <2>1. i \in 1 .. Len(input[p])
    BY DEF Rows, ShapeOK
  <2>2. Counts(p, i)
    BY <2>1 DEF Counted
  <2>3. ASSUME NEW j \in DOMAIN children(p)
        PROVE  LET c == children(p)[j]
               IN  tables[p][i].us[j] =
                     MapThenSumSet(LAMBDA k : SubtreeCount(input, c, k),
                                   {k \in 1 .. Len(input[c]) : Joins(c, input[p][i], input[c][k])})
    <3> DEFINE c == children(p)[j]
               K == {k \in 1 .. Len(input[c]) : Joins(c, input[p][i], input[c][k])}
    <3>1. c \in NonRoot /\ Parent[c] = p
      BY ChildSubtrees
    <3>2. K = Partners(input, c, i)
      BY <3>1 DEF Partners
    <3> HIDE DEF K
    <3>3. MapThenSumSet(LAMBDA k : SubtreeCount(input, c, k), K) = Cardinality(Below(input, c, i))
      BY <3>1, <3>2, InputDatabase, SumOfCounts
    <3>4. tables[p][i].us[j] = Cardinality(Below(input, c, i))
      BY <2>2 DEF Counts, UsOf
    <3> QED BY <3>3, <3>4 DEF K
  <2>4. tables[p][i].delta = SubtreeCount(input, p, i)
    BY <2>2 DEF Counts
  <2> QED BY <2>3, <2>4, Zenon
<1> QED BY <1>1, ScheduleInvariant, RowsInvariant, CountedInvariant, PTL

-----------------------------------------------------------------------------
(* Sums over the root rows. *)

(* The answers that use one of the first k rows of the root.               *)
UpTo(db, k) == {f \in Matches(db, Subtree[Root]) : f[Root] \in 1 .. k}

Start(db, k) == Cardinality(UpTo(db, k))

LEMMA StartSteps ==
  ASSUME NEW db, Database(db)
  PROVE  /\ \A k \in 0 .. Len(db[Root]) : IsFiniteSet(UpTo(db, k)) /\ Start(db, k) \in Nat
         /\ Start(db, 0) = 0
         /\ \A k \in 1 .. Len(db[Root]) :
              /\ SubtreeCount(db, Root, k) \in Nat
              /\ Start(db, k) = Start(db, k - 1) + SubtreeCount(db, Root, k)
         /\ Start(db, Len(db[Root])) = JoinSize(db)
<1> DEFINE n == Len(db[Root])
<1>1. n \in Nat /\ Root \in Node
  BY TreeAssumption DEF Database
<1>2. Subtree[Root] = Node /\ IsFiniteSet(Matches(db, Node))
  BY RootSubtree, MatchesFinite
<1>3. \A k : IsFiniteSet(UpTo(db, k)) /\ IsFiniteSet(Using(db, Root, k))
  <2> TAKE k
  <2>1. UpTo(db, k) \in SUBSET Matches(db, Node)
    BY <1>2 DEF UpTo
  <2> QED BY <2>1, <1>1, <1>2, FS_Subset, UsingFinite
<1>4. \A k : Start(db, k) \in Nat
  BY <1>3, FS_CardinalityType DEF Start
<1>5. Start(db, 0) = 0
  <2>1. 1 .. 0 = {}
    OBVIOUS
  <2>2. UpTo(db, 0) = {}
    BY <2>1 DEF UpTo
  <2> QED BY <2>2, FS_EmptySet DEF Start
<1>6. ASSUME NEW k \in 1 .. n
      PROVE  /\ SubtreeCount(db, Root, k) \in Nat
             /\ Start(db, k) = Start(db, k - 1) + SubtreeCount(db, Root, k)
  <2>0. k \in Nat /\ 1 .. k = (1 .. k - 1) \cup {k} /\ k \notin 1 .. k - 1
    BY <1>1
  <2>1. UpTo(db, k) = UpTo(db, k - 1) \cup Using(db, Root, k)
    BY <2>0 DEF UpTo, Using
  <2>2. UpTo(db, k - 1) \cap Using(db, Root, k) = {}
    BY <2>0 DEF UpTo, Using
  <2>3. Cardinality(UpTo(db, k - 1) \cup Using(db, Root, k))
          = Cardinality(UpTo(db, k - 1)) + Cardinality(Using(db, Root, k)) - Cardinality(UpTo(db, k - 1) \cap Using(db, Root, k))
    BY <1>3, FS_Union
  <2>4. Cardinality(Using(db, Root, k)) = SubtreeCount(db, Root, k) /\ Cardinality(Using(db, Root, k)) \in Nat
    BY <1>3, FS_CardinalityType DEF Using, SubtreeCount
  <2>5. Cardinality({}) = 0
    BY FS_EmptySet
  <2>6. Cardinality(UpTo(db, k - 1)) \in Nat
    BY <1>4 DEF Start
  <2>7. Cardinality(UpTo(db, k)) = Cardinality(UpTo(db, k - 1)) + SubtreeCount(db, Root, k)
    <3>1. Cardinality(UpTo(db, k)) = Cardinality(UpTo(db, k - 1)) + Cardinality(Using(db, Root, k)) - Cardinality({})
      BY <2>1, <2>2, <2>3, Zenon
    <3> QED BY <3>1, <2>4, <2>5, <2>6
  <2> QED BY <2>4, <2>7 DEF Start
<1>7. UpTo(db, n) = Matches(db, Node)
  <2>1. \A f \in Matches(db, Node) : f[Root] \in 1 .. n
    BY <1>1, MatchesAre
  <2> QED BY <1>2, <2>1 DEF UpTo
<1> QED BY <1>3, <1>4, <1>5, <1>6, <1>7 DEF Start, JoinSize

(* The sum over the first k rows that the position step computes.          *)
BackSum(rows, k) == MapThenSumSet(LAMBDA h : Back(rows[h]), 1 .. k)

LEMMA SumOfBacks ==
  ASSUME NEW db, Database(db), NEW k \in 0 .. Len(db[Root]),
         NEW rows, \A h \in 1 .. k : Back(rows[h]) = SubtreeCount(db, Root, h)
  PROVE  BackSum(rows, k) = Start(db, k)
<1> DEFINE K == 1 .. k
           F == [h \in K |-> Using(db, Root, h)]
           w == [h \in K |-> Cardinality(F[h])]
           G(g) == [s \in SUBSET K |-> IF s = {} THEN 0
                     ELSE Back(rows[CHOOSE x \in s : TRUE]) + g[s \ {CHOOSE x \in s : TRUE}]]
           sum == CHOOSE g : g = G(g)
<1>1. \A h \in K : F[h] = Using(db, Root, h) /\ w[h] = Cardinality(F[h])
  OBVIOUS
<1>2. \A h \in K : w[h] = Back(rows[h])
  BY DEF SubtreeCount, Using
<1>3. BackSum(rows, k) = sum[K]
  BY Zenon DEF BackSum, MapThenSumSet, MapThenFoldSet
<1>0. IsFiniteSet(K)
  <2>1. k \in Int
    BY DEF Database
  <2> QED BY <2>1, FS_Interval
<1> HIDE DEF F, w
<1>4. /\ \E it : SumOf(it, w, K)
      /\ \A it : SumOf(it, w, K) => it[K] = Start(db, k)
  <2>1. /\ \A h \in K : IsFiniteSet(F[h])
        /\ \A h, l \in K : h # l => F[h] \cap F[l] = {}
    <3>1. \A h : IsFiniteSet(Using(db, Root, h))
      BY UsingFinite, TreeAssumption
    <3>2. \A h, l \in K : h # l => Using(db, Root, h) \cap Using(db, Root, l) = {}
      BY DEF Using
    <3> QED BY <1>1, <3>1, <3>2
  <2>2. Together(F, K) = UpTo(db, k)
    BY <1>1 DEF Together, UpTo, Using
  <2>3. \A h \in K : w[h] = Cardinality(F[h])
    BY <1>1
  <2> HIDE DEF K
  <2>4. \E it : SumOf(it, w, K)
    BY <1>0, <2>1, <2>3, SumIsUnion
  <2>5. \A it : SumOf(it, w, K) => it[K] = Cardinality(Together(F, K))
    BY <1>0, <2>1, <2>3, SumIsUnion
  <2> QED BY <2>2, <2>4, <2>5 DEF Start
<1>5. \A g : SumOf(g, w, K) <=> g = G(g)
  <2>1. \A s \in SUBSET K : s # {} => Back(rows[CHOOSE x \in s : TRUE]) = w[CHOOSE x \in s : TRUE]
    BY <1>2
  <2>2. \A g : G(g) = [s \in SUBSET K |-> IF s = {} THEN 0
                         ELSE w[CHOOSE x \in s : TRUE] + g[s \ {CHOOSE x \in s : TRUE}]]
    BY <2>1
  <2> HIDE DEF G
  <2> QED BY <2>2 DEF SumOf
<1> HIDE DEF G
<1>6. sum = G(sum)
  BY <1>4, <1>5
<1> QED BY <1>3, <1>4, <1>5, <1>6


-----------------------------------------------------------------------------
(* Where the copies of the root rows lie. *)

(* A copy of root row i.                                                   *)
CopyOfRow(r, i) ==
  r = [keys |-> input[Root][i].keys, us |-> UsOf(input, Root, i), delta |-> SubtreeCount(input, Root, i),
       b |-> Start(input, i - 1), P |-> 0, lambda |-> 1]

(* Row q of the output when it is a copy of row i.                         *)
NumberedCopy(r, q, i) ==
  r = [keys |-> input[Root][i].keys, us |-> UsOf(input, Root, i), delta |-> SubtreeCount(input, Root, i),
       b |-> Start(input, i - 1), P |-> q, lambda |-> 1]

(* The copies of row i follow those of the rows before it.                 *)
Expansion ==
  /\ Len(C) = JoinSize(input)
  /\ \A i \in 1 .. Len(input[Root]) : \A k \in 1 .. SubtreeCount(input, Root, i) :
       CopyOfRow(C[Start(input, i - 1) + k], i)

(* The numbered rows, the answers first. *)
Numbered ==
  /\ Len(tables[Root]) = Max({JoinSize(input), target})
  /\ DOMAIN tables[Root] = 1 .. Max({JoinSize(input), target})
  /\ JoinSize(input) \in Nat
  /\ \A q \in 1 .. JoinSize(input) : \E i \in 1 .. Len(input[Root]) :
       /\ Start(input, i - 1) < q /\ q <= Start(input, i)
       /\ NumberedCopy(tables[Root][q], q, i)
  /\ \A q \in JoinSize(input) + 1 .. Max({JoinSize(input), target}) : tables[Root][q] = Dummy(q)

(* The starting positions are the answers of the rows before, the copies   *)
(* lie there, and the numbered rows tile the output.                       *)
Placing ==
  /\ stage = "expand" => \A i \in 1 .. Len(input[Root]) : Pos[i] = Start(input, i - 1)
  /\ stage = "number" => Expansion
  /\ stage = "done" => Numbered
  /\ PositionsTile

(* The root of more than one relation has children. *)
LEMMA RootIsInternal == N > 1 => ~IsLeaf(Root)
<1> SUFFICES ASSUME N > 1 PROVE ~IsLeaf(Root)
  OBVIOUS
<1> DEFINE X == {k \in Nat : \E v \in NonRoot : k = Depth[v]}
<1>1. X \subseteq Nat /\ X # {}
  <2>1. \E v \in Node : v # Root
    <3>1. 0 \in Node /\ 1 \in Node
      BY TreeAssumption DEF Node
    <3> QED BY <3>1
  <2> QED BY <2>1, DepthType DEF NonRoot
<1>2. PICK k \in X : \A l \in X : k <= l
  <2> HIDE DEF X
  <2> QED BY <1>1, LeastOfNats
<1>3. PICK v \in NonRoot : k = Depth[v]
  OBVIOUS
<1>4. v \in Node /\ Parent[v] \in Node /\ Depth[v] = 1 + Depth[Parent[v]] /\ Depth[Parent[v]] \in Nat
  BY ParentFacts, DepthType
<1>5. Parent[v] = Root
  <2> SUFFICES ASSUME Parent[v] # Root PROVE FALSE
    OBVIOUS
  <2>1. Depth[Parent[v]] \in X
    BY <1>4 DEF NonRoot
  <2>2. ~(Depth[v] <= Depth[Parent[v]])
    BY <1>4
  <2> HIDE DEF X
  <2> QED BY <2>1, <2>2, <1>2, <1>3
<1> QED BY <1>4, <1>5 DEF IsLeaf, ChildSet

(* What the root's rows hold once the levels are done. *)
LEMMA RootRows ==
  ASSUME IInv, Rows, Counted, N > 1, stage \in {"positions", "expand"}
  PROVE  /\ Len(tables[Root]) = Len(input[Root])
         /\ \A i \in 1 .. Len(input[Root]) :
              /\ tables[Root][i].keys = input[Root][i].keys
              /\ tables[Root][i].us = UsOf(input, Root, i)
              /\ tables[Root][i].delta = SubtreeCount(input, Root, i)
              /\ Back(tables[Root][i]) = SubtreeCount(input, Root, i)
<1>1. Root \in Node /\ ~IsLeaf(Root)
  BY TreeAssumption, RootIsInternal
<1>2. node[Root] = "updated"
  BY <1>1 DEF IInv, Schedule
<1>3. Len(tables[Root]) = Len(input[Root])
  BY <1>1 DEF Rows, ShapeOK
<1>4. ASSUME NEW i \in 1 .. Len(input[Root])
      PROVE  /\ tables[Root][i].keys = input[Root][i].keys
             /\ Counts(Root, i)
  BY <1>1, <1>2 DEF Counted
<1> QED BY <1>3, <1>4 DEF Counts, Back

LEMMA PositionsAreStarts ==
  ASSUME IInv, Rows, Counted, N > 1, stage = "positions", NEW i \in 1 .. Len(input[Root])
  PROVE  PrefixSums[i] = Start(input, i - 1)
<1>1. Len(input[Root]) \in Nat /\ Database(input)
  BY InputLen, InputDatabase, TreeAssumption DEF Rows
<1>2. /\ Len(tables[Root]) = Len(input[Root])
      /\ \A h \in 1 .. i - 1 : Back(tables[Root][h]) = SubtreeCount(input, Root, h)
  BY RootRows, <1>1
<1>3. PrefixSums[i] = BackSum(tables[Root], i - 1)
  BY <1>2, Zenon DEF PrefixSums, BackSum
<1>4. i - 1 \in 0 .. Len(input[Root])
  BY <1>1
<1>5. BackSum(tables[Root], i - 1) = Start(input, i - 1)
  BY <1>1, <1>2, <1>4, SumOfBacks
<1> QED BY <1>3, <1>5

LEMMA Constantly ==
  ASSUME NEW T, NEW r, r \in T, NEW m \in Nat, NEW t, t = [k \in 1 .. m |-> r]
  PROVE  t \in Seq(T) /\ Len(t) = m /\ \A k \in 1 .. m : t[k] = r
OBVIOUS

LEMMA ExpansionPlaces ==
  ASSUME IInv, Rows, Counted, N > 1, ExpandRoot,
         \A i \in 1 .. Len(input[Root]) : Pos[i] = Start(input, i - 1)
  PROVE  Expansion'
<1> DEFINE n == Len(input[Root])
           W == [i \in 0 .. n |-> Start(input, i)]
           cnt(i) == SubtreeCount(input, Root, i)
           seqs == [i \in 1 .. n |-> [k \in 1 .. cnt(i) |-> Placed(tables[Root][i], Pos[i])]]
           T == {Placed(tables[Root][i], Pos[i]) : i \in 1 .. n}
<1>1. n \in Nat /\ n > 0 /\ Database(input) /\ stage = "expand" /\ Root \in Node
  BY InputAssumption, InputDatabase, TreeAssumption DEF Rows, ExpandRoot
<1>2. /\ Len(tables[Root]) = n
      /\ \A i \in 1 .. n :
           /\ tables[Root][i].keys = input[Root][i].keys
           /\ tables[Root][i].us = UsOf(input, Root, i)
           /\ tables[Root][i].delta = cnt(i)
           /\ Back(tables[Root][i]) = cnt(i)
  BY <1>1, RootRows
<1>3. /\ \A i \in 0 .. n : Start(input, i) \in Nat
      /\ Start(input, 0) = 0
      /\ \A i \in 1 .. n : cnt(i) \in Nat /\ Start(input, i) = Start(input, i - 1) + cnt(i)
      /\ Start(input, n) = JoinSize(input)
  BY <1>1, StartSteps
<1>4. C' = FlattenSeq(seqs) /\ input' = input
  <2>1. seqs = [i \in 1 .. Len(tables[Root]) |->
             [k \in 1 .. Back(tables[Root][i]) |-> Placed(tables[Root][i], Pos[i])]]
    BY <1>2
  <2> QED BY <2>1 DEF ExpandRoot
<1>5. ASSUME NEW i \in 1 .. n
      PROVE  seqs[i] \in Seq(T) /\ Len(seqs[i]) = cnt(i) /\ \A k \in 1 .. cnt(i) : seqs[i][k] = Placed(tables[Root][i], Pos[i])
  <2> DEFINE r == Placed(tables[Root][i], Pos[i])
  <2>1. r \in T
    OBVIOUS
  <2>2. seqs[i] = [k \in 1 .. cnt(i) |-> r] /\ cnt(i) \in Nat
    BY <1>3
  <2>3. PICK m \in Nat : m = cnt(i)
    BY <2>2
  <2> HIDE DEF r, T, seqs, cnt
  <2>4. PICK t : t = seqs[i]
    OBVIOUS
  <2>5. t = [k \in 1 .. m |-> r]
    BY <2>2, <2>3, <2>4
  <2>6. t \in Seq(T) /\ Len(t) = m /\ \A k \in 1 .. m : t[k] = r
    BY <2>1, <2>5, Constantly
  <2> QED BY <2>3, <2>4, <2>6 DEF r
<1>6. Len(seqs) = n
  BY <1>1, LenOf
<1>7. /\ W[0] = 0 /\ \A i \in 0 .. n : W[i] \in Nat
      /\ \A i \in 1 .. n : W[i] = W[i - 1] + Len(seqs[i])
      /\ W[n] = JoinSize(input)
  <2>1. \A i \in 0 .. n : W[i] = Start(input, i)
    OBVIOUS
  <2>2. \A i \in 1 .. n : i \in 0 .. n /\ i - 1 \in 0 .. n
    BY <1>1
  <2>3. 0 \in 0 .. n /\ n \in 0 .. n
    BY <1>1
  <2> HIDE DEF W, seqs, cnt
  <2> QED BY <1>3, <1>5, <2>1, <2>2, <2>3
<1>8. \A i \in 1 .. n : W[i - 1] = Start(input, i - 1)
  BY <1>1
<1>9. \A i \in 1 .. n : seqs[i] \in Seq(T)
  BY <1>5
<1> HIDE DEF W, seqs, T
<1>10. /\ Len(FlattenSeq(seqs)) = W[n]
       /\ \A i \in 1 .. n : \A k \in 1 .. Len(seqs[i]) : FlattenSeq(seqs)[W[i - 1] + k] = seqs[i][k]
  <2>1. Lengths(seqs, n, T, W)
    BY <1>1, <1>6, <1>7, <1>9 DEF Lengths
  <2> QED BY <2>1, Flattened
<1>11. ASSUME NEW i \in 1 .. n, NEW k \in 1 .. cnt(i)
       PROVE  CopyOfRow(C'[Start(input, i - 1) + k], i)
  <2>1. C'[Start(input, i - 1) + k] = Placed(tables[Root][i], Pos[i])
    <3>1. Len(seqs[i]) = cnt(i) /\ seqs[i][k] = Placed(tables[Root][i], Pos[i])
      BY <1>5
    <3>2. FlattenSeq(seqs)[W[i - 1] + k] = seqs[i][k]
      BY <1>10, <3>1
    <3> HIDE DEF cnt
    <3> QED BY <1>4, <1>8, <3>1, <3>2
  <2> QED BY <2>1, <1>2 DEF Placed, CopyOfRow
<1>12. Len(C') = JoinSize(input)
  BY <1>4, <1>7, <1>10
<1>13. \A r, i : CopyOfRow(r, i)' <=> CopyOfRow(r, i)
  BY <1>4 DEF CopyOfRow
<1> QED BY <1>4, <1>11, <1>12, <1>13 DEF Expansion

(* What NumberAndPad writes in row q.                                      *)
LEMMA NumberedRow ==
  ASSUME NEW r, NEW keys, NEW us, NEW d, NEW s, NEW q,
         r = [keys |-> keys, us |-> us, delta |-> d, b |-> s, P |-> 0, lambda |-> 1]
  PROVE  [r EXCEPT !.P = q] = [keys |-> keys, us |-> us, delta |-> d, b |-> s, P |-> q, lambda |-> 1]
OBVIOUS

LEMMA MaxOfTwo ==
  ASSUME NEW a \in Nat, NEW b \in Nat
  PROVE  Max({a, b}) \in Nat /\ Max({a, b}) = IF a >= b THEN a ELSE b
<1>1. PICK m \in {a, b} : m \in Nat /\ (\A y \in {a, b} : m >= y) /\ m = IF a >= b THEN a ELSE b
  OBVIOUS
<1>2. \A x \in {a, b} : (\A y \in {a, b} : x >= y) => x = m
  BY <1>1
<1>3. Max({a, b}) \in {a, b} /\ \A y \in {a, b} : Max({a, b}) >= y
  BY <1>1 DEF Max
<1> QED BY <1>1, <1>2, <1>3


(* The numbered and padded rows tile the output. *)
LEMMA NumberingTiles ==
  ASSUME Rows, Expansion, NumberAndPad, target \in Nat
  PROVE  PositionsTile' /\ Numbered'
<1> DEFINE n == Len(input[Root])
           real == JoinSize(input)
           W == [i \in 0 .. n |-> Start(input, i)]
           new == tables'[Root]
           At(q, i) == /\ W[i - 1] < q /\ q <= W[i]
                       /\ new[q].keys = input[Root][i].keys /\ new[q].delta = W[i] - W[i - 1]
                       /\ new[q].b = W[i - 1] /\ new[q].P = q
                       /\ NumberedCopy(new[q], q, i)
<1>1. n \in Nat /\ n > 0 /\ Database(input) /\ Root \in Node
  BY InputAssumption, InputDatabase, TreeAssumption DEF Rows
<1>2. \A i \in 1 .. n : 1 \in DOMAIN input[Root][i].keys /\ DummyValue \notin ToSet(input[Root][i].keys)
  BY <1>1, InputLen DEF Rows
<1>3. /\ W[0] = 0 /\ W[n] = real
      /\ \A i \in 0 .. n : W[i] \in Nat
      /\ \A i \in 1 .. n : /\ W[i - 1] = Start(input, i - 1) /\ W[i - 1] \in Nat /\ W[i] \in Nat
                           /\ W[i] = W[i - 1] + SubtreeCount(input, Root, i)
                           /\ SubtreeCount(input, Root, i) \in Nat
  <2>1. /\ \A i \in 0 .. n : Start(input, i) \in Nat
        /\ Start(input, 0) = 0
        /\ \A i \in 1 .. n : SubtreeCount(input, Root, i) \in Nat
                             /\ Start(input, i) = Start(input, i - 1) + SubtreeCount(input, Root, i)
        /\ Start(input, n) = JoinSize(input)
    BY <1>1, StartSteps
  <2>2. \A i \in 0 .. n : W[i] = Start(input, i)
    OBVIOUS
  <2>3. \A i \in 1 .. n : i \in 0 .. n /\ i - 1 \in 0 .. n
    BY <1>1
  <2>4. 0 \in 0 .. n /\ n \in 0 .. n
    BY <1>1
  <2> HIDE DEF W
  <2> QED BY <2>1, <2>2, <2>3, <2>4
<1> HIDE DEF W
<1>4. real \in Nat /\ Len(C) = real
  BY <1>1, <1>3 DEF Expansion
<1>5. /\ input' = input /\ target' = target
      /\ new = [i \in 1 .. Max({real, target}) |-> IF i <= real THEN [C[i] EXCEPT !.P = i] ELSE Dummy(i)]
  BY <1>1, <1>4 DEF NumberAndPad, Rows, ShapeOK
<1>6. /\ Max({real, target}) \in Nat /\ real <= Max({real, target})
      /\ Len(new) = Max({real, target})
      /\ DOMAIN new = 1 .. Max({real, target})
  <2>1. Max({real, target}) \in Nat /\ real <= Max({real, target})
    BY <1>4, MaxOfTwo
  <2> QED BY <2>1, <1>5, LenOf
<1>7. ASSUME NEW q \in 1 .. real PROVE \E i \in 1 .. n : At(q, i)
  <2>1. PICK i \in 1 .. n : W[i - 1] < q /\ q <= W[i]
    BY <1>1, <1>3, Interval
  <2>2. q - W[i - 1] \in 1 .. SubtreeCount(input, Root, i) /\ W[i - 1] + (q - W[i - 1]) = q
    BY <1>3, <2>1
  <2>3. CopyOfRow(C[q], i)
    BY <1>3, <2>2 DEF Expansion
  <2>4. new[q] = [C[q] EXCEPT !.P = q]
    BY <1>4, <1>5, <1>6
  <2>5. NumberedCopy(new[q], q, i)
    BY <2>3, <2>4, NumberedRow DEF CopyOfRow, NumberedCopy
  <2>6. /\ new[q].keys = input[Root][i].keys /\ new[q].delta = SubtreeCount(input, Root, i)
        /\ new[q].b = Start(input, i - 1) /\ new[q].P = q
    BY <2>5 DEF NumberedCopy
  <2> QED BY <1>3, <2>1, <2>5, <2>6
<1>8. ASSUME NEW q \in 1 .. real
      PROVE  /\ new[q].b < q /\ q <= new[q].b + new[q].delta /\ new[q].P = q
             /\ new[q].keys[1] # DummyValue
  <2>1. PICK i \in 1 .. n : At(q, i)
    BY <1>7
  <2>2. new[q].keys[1] # DummyValue
    BY <1>2, <2>1 DEF ToSet
  <2> QED BY <1>3, <2>1, <2>2
<1>9. ASSUME NEW q \in 1 .. real, q > 1
      PROVE  new[q].b = new[q - 1].b \/ new[q].b = new[q - 1].b + new[q - 1].delta
  <2>1. q - 1 \in 1 .. real
    BY <1>4, <1>9
  <2>2. PICK i \in 1 .. n : At(q, i)
    BY <1>7
  <2>3. PICK h \in 1 .. n : At(q - 1, h)
    BY <1>7, <2>1
  <2>4. W[i - 1] = W[h - 1] \/ W[i - 1] = W[h]
    <3>1. \A k \in 1 .. n : W[k - 1] <= W[k]
      BY <1>3
    <3>2. W[i - 1] < q /\ q <= W[i] /\ W[h - 1] < q - 1 /\ q - 1 <= W[h] /\ q \in Nat
      BY <2>2, <2>3
    <3>3. \A k \in 0 .. n : W[k] \in Nat
      BY <1>3
    <3>4. \A k, l \in 0 .. n : k <= l => W[k] <= W[l]
      BY ONLY <1>1, <3>1, <3>3, Monotone
    <3>5. /\ i \in 0 .. n /\ i - 1 \in 0 .. n /\ h \in 0 .. n /\ h - 1 \in 0 .. n
          /\ W[i] \in Nat /\ W[i - 1] \in Nat /\ W[h] \in Nat /\ W[h - 1] \in Nat
      BY <1>1, <1>3
    <3>6. (i < h => W[i] <= W[h - 1]) /\ (h < i => W[h] <= W[i - 1])
      BY <3>4, <3>5
    <3>7. i < h \/ h < i \/ i = h
      OBVIOUS
    <3> QED BY <3>2, <3>5, <3>6, <3>7
  <2>5. new[q].b = W[i - 1]
    BY <1>3, <2>2
  <2>6. new[q - 1].b = W[h - 1] /\ new[q - 1].b + new[q - 1].delta = W[h]
    BY <1>3, <2>3
  <2> QED BY <2>4, <2>5, <2>6
<1>10. ASSUME NEW q \in real + 1 .. Len(new)
       PROVE  new[q].delta = 0 /\ new[q].keys[1] = DummyValue /\ new[q].P = q
  <2>1. q \in 1 .. Max({real, target}) /\ ~(q <= real)
    BY <1>4, <1>6
  <2>2. new[q] = Dummy(q)
    BY <1>5, <2>1
  <2>3. 1 \in DOMAIN input[Root][1].keys
    BY <1>1, <1>2
  <2> QED BY <2>2, <2>3 DEF Dummy
<1>11. \A q \in 1 .. Len(new) : new[q].P = q
  <2> TAKE q \in 1 .. Len(new)
  <2>1. q \in 1 .. real \/ q \in real + 1 .. Len(new)
    BY <1>4, <1>6
  <2> QED BY <2>1, <1>8, <1>10
<1>12. \A q \in 1 .. real : \E i \in 1 .. n : Start(input, i - 1) < q /\ q <= Start(input, i) /\ NumberedCopy(new[q], q, i)
  <2> TAKE q \in 1 .. real
  <2>1. PICK i \in 1 .. n : At(q, i)
    BY <1>7
  <2>2. W[i - 1] = Start(input, i - 1) /\ W[i] = Start(input, i)
    <3>1. i \in 0 .. n /\ i - 1 \in 0 .. n
      BY <1>1
    <3> QED BY <3>1 DEF W
  <2> QED BY <2>1, <2>2
<1>13. \A q \in real + 1 .. Max({real, target}) : new[q] = Dummy(q)
  <2> TAKE q \in real + 1 .. Max({real, target})
  <2>1. q \in 1 .. Max({real, target}) /\ ~(q <= real)
    BY <1>4, <1>6
  <2> QED BY <1>5, <2>1
<1> HIDE DEF new, At
<1>14. PositionsTile'
  BY <1>5, <1>6, <1>8, <1>9, <1>10, <1>11 DEF PositionsTile, new
<1>15. \A r, q, i : NumberedCopy(r, q, i)' <=> NumberedCopy(r, q, i)
  BY <1>5 DEF NumberedCopy
<1>16. \A q : Dummy(q)' = Dummy(q)
  BY <1>5 DEF Dummy
<1>17. Numbered'
  BY <1>4, <1>5, <1>6, <1>12, <1>13, <1>15, <1>16 DEF Numbered, new
<1> QED BY <1>14, <1>17

LEMMA PlacingInit == Init => Placing
BY DEF Init, Placing, PositionsTile

LEMMA TargetInvariant == Spec => [](target \in Nat)
<1>1. Init => target \in Nat
  BY InputAssumption DEF Init
<1>2. target \in Nat /\ [Next]_vars => (target \in Nat)'
  BY DEF Next, vars, BeginEdge, EndEdge, UpdateNode, NextLevel, AssignPositions, ExpandRoot, NumberAndPad
<1> QED BY <1>1, <1>2, PTL DEF Spec

LEMMA PlacingStep ==
  ASSUME N > 1, IInv, Rows, Counted, target \in Nat, Placing, [Next]_vars
  PROVE  Placing'
<1>1. ASSUME NEW c \in NonRoot, BeginEdge(c) \/ EndEdge(c) PROVE stage' = "levels"
  BY <1>1, RunningEdge DEF BeginEdge, EndEdge
<1>2. ASSUME NEW p \in Node, UpdateNode(p) PROVE stage' = "levels"
  BY <1>2 DEF UpdateNode, IInv, Schedule
<1>3. NextLevel => stage' \in {"levels", "positions"}
  BY DEF NextLevel
<1>4. CASE stage' \in {"levels", "positions"}
  BY <1>4 DEF Placing, PositionsTile
<1>5. CASE AssignPositions
  <2>1. Pos' = PrefixSums /\ stage = "positions" /\ stage' = "expand" /\ input' = input
    BY <1>5 DEF AssignPositions
  <2>2. \A i \in 1 .. Len(input[Root]) : Pos'[i] = Start(input, i - 1)
    BY <2>1, PositionsAreStarts
  <2> QED BY <2>1, <2>2 DEF Placing, PositionsTile
<1>6. CASE ExpandRoot
  <2>1. stage = "expand" /\ stage' = "number"
    BY <1>6 DEF ExpandRoot
  <2>2. Expansion'
    BY <1>6, <2>1, ExpansionPlaces DEF Placing
  <2> QED BY <2>1, <2>2 DEF Placing, PositionsTile
<1>7. CASE NumberAndPad
  <2>1. stage = "number" /\ stage' = "done"
    BY <1>7 DEF NumberAndPad
  <2>2. PositionsTile' /\ Numbered'
    BY <1>7, <2>1, NumberingTiles DEF Placing
  <2> QED BY <2>1, <2>2 DEF Placing
<1>8. CASE UNCHANGED vars
  BY <1>8 DEF vars, Placing, Expansion, CopyOfRow, Numbered, NumberedCopy, Dummy, PositionsTile, Start
<1> QED BY <1>1, <1>2, <1>3, <1>4, <1>5, <1>6, <1>7, <1>8 DEF Next

(* The rows of the expanded root are numbered without a gap: each copy of  *)
(* a root row lies in the interval of that row's answers, the intervals    *)
(* follow each other, and dummies fill up to the protected size.  A tree   *)
(* of one relation has no counts to expand by.                             *)
THEOREM PositionsTileTheorem == N > 1 => (Spec => []PositionsTile)
<1> SUFFICES ASSUME N > 1 PROVE Spec => []PositionsTile
  OBVIOUS
<1>1. IInv /\ Rows /\ Counted /\ target \in Nat /\ Placing /\ [Next]_vars => Placing'
  BY PlacingStep
<1>2. Placing => PositionsTile
  BY DEF Placing
<1> QED BY <1>1, <1>2, PlacingInit, TargetInvariant, ScheduleInvariant, RowsInvariant, CountedInvariant, PTL DEF Spec

-----------------------------------------------------------------------------
(* The tables that the pass hands on.                                      *)

(* Below the root the rows stay as the levels have left them.              *)
Kept ==
  stage \in {"number", "done"} =>
    \A u \in NonRoot : \A i \in 1 .. Len(input[u]) :
      tables[u][i].keys = input[u][i].keys /\ (~IsLeaf(u) => Counts(u, i))

LEMMA KeptStep ==
  ASSUME IInv, Rows, Counted, Kept, [Next]_vars
  PROVE  Kept'
<1>1. ASSUME NEW c \in NonRoot, BeginEdge(c) \/ EndEdge(c) PROVE stage' = "levels"
  BY <1>1, RunningEdge DEF BeginEdge, EndEdge
<1>2. ASSUME NEW p \in Node, UpdateNode(p) PROVE stage' = "levels"
  BY <1>2 DEF UpdateNode, IInv, Schedule
<1>3. CASE NextLevel \/ AssignPositions
  BY <1>3 DEF NextLevel, AssignPositions, Kept, IInv, ControlOK
<1>4. CASE ExpandRoot
  <2>1. stage = "expand" /\ input' = input /\ \A u \in NonRoot : tables'[u] = tables[u]
    BY <1>4 DEF ExpandRoot, Rows, ShapeOK, NonRoot
  <2>2. ASSUME NEW u \in NonRoot, NEW i \in 1 .. Len(input[u])
        PROVE  tables[u][i].keys = input[u][i].keys /\ (~IsLeaf(u) => Counts(u, i))
    BY <2>1 DEF Counted, IInv, Schedule, NonRoot
  <2>3. \A u \in NonRoot : \A i : Counts(u, i)' <=> Counts(u, i)
    BY <2>1 DEF Counts
  <2> QED BY <2>1, <2>2, <2>3 DEF Kept
<1>5. CASE NumberAndPad
  <2>1. stage = "number" /\ input' = input /\ \A u \in NonRoot : tables'[u] = tables[u]
    BY <1>5 DEF NumberAndPad, Rows, ShapeOK, NonRoot
  <2>2. \A u \in NonRoot : \A i : Counts(u, i)' <=> Counts(u, i)
    BY <2>1 DEF Counts
  <2> QED BY <2>1, <2>2 DEF Kept
<1>6. CASE UNCHANGED vars
  BY <1>6 DEF vars, Kept, Counts
<1> QED BY <1>1, <1>2, <1>3, <1>4, <1>5, <1>6 DEF Next, Kept

-----------------------------------------------------------------------------
(* The order of the visits. *)

(* The internal nodes come in breadth-first order.                         *)
LEMMA InnerNodesAre ==
  ASSUME NEW s \in Seq(Node), s # <<>>
  PROVE  /\ InnerNodes(s) \in Seq(Node)
         /\ \A k \in 1 .. Len(InnerNodes(s)) : ~IsLeaf(InnerNodes(s)[k])
         /\ \A u \in Node : ~IsLeaf(u) /\ Named(s, u) => Named(InnerNodes(s), u)
         /\ Ascending(s) => Ascending(InnerNodes(s))
<1> DEFINE seqs == [k \in DOMAIN s |-> IF IsLeaf(s[k]) THEN <<>> ELSE <<s[k]>>]
           n == Len(s)
<1>1. n \in Nat /\ n > 0 /\ DOMAIN s = 1 .. n /\ \A k \in 1 .. n : s[k] \in Node
  OBVIOUS
<1>2. /\ Len(seqs) = n
      /\ \A k \in 1 .. n : IF IsLeaf(s[k]) THEN seqs[k] = <<>> ELSE seqs[k] = <<s[k]>>
      /\ \A k \in 1 .. n : seqs[k] \in Seq(Node)
  <2>1. \A k \in 1 .. n : seqs[k] = IF IsLeaf(s[k]) THEN <<>> ELSE <<s[k]>>
    BY <1>1
  <2>2. seqs = [k \in 1 .. n |-> seqs[k]]
    BY <1>1
  <2> HIDE DEF seqs
  <2>3. Len(seqs) = n
    BY <1>1, <2>2, LenOf
  <2>4. ASSUME NEW k \in 1 .. n
        PROVE  (IF IsLeaf(s[k]) THEN seqs[k] = <<>> ELSE seqs[k] = <<s[k]>>) /\ seqs[k] \in Seq(Node)
    <3>1. seqs[k] = (IF IsLeaf(s[k]) THEN <<>> ELSE <<s[k]>>) /\ s[k] \in Node
      BY <1>1, <2>1
    <3>2. CASE IsLeaf(s[k])
      BY <3>1, <3>2
    <3>3. CASE ~IsLeaf(s[k])
      BY <3>1, <3>3
    <3> QED BY <3>2, <3>3
  <2> QED BY <2>3, <2>4
<1>3. PICK flat : flat = InnerNodes(s)
  OBVIOUS
<1>4. flat = FlattenSeq(seqs)
  BY <1>3 DEF InnerNodes
<1> HIDE DEF seqs
<1>5. InOrder(flat, seqs, n, Node)
  <2>1. Sequences(seqs, n, Node)
    BY <1>1, <1>2 DEF Sequences
  <2> QED BY <1>4, <2>1, FlattenedElements
<1>6. /\ flat \in Seq(Node)
      /\ \A i \in 1 .. n : \A k \in 1 .. Len(seqs[i]) : \E m \in 1 .. Len(flat) : flat[m] = seqs[i][k]
      /\ \A m, l \in 1 .. Len(flat) : m <= l =>
           \E i, j \in 1 .. n : /\ i <= j
                                /\ \E k \in 1 .. Len(seqs[i]) : flat[m] = seqs[i][k]
                                /\ \E k \in 1 .. Len(seqs[j]) : flat[l] = seqs[j][k]
  BY <1>5 DEF InOrder
<1>7. \A i \in 1 .. n : \A k \in 1 .. Len(seqs[i]) : ~IsLeaf(s[i]) /\ seqs[i][k] = s[i]
  <2> TAKE i \in 1 .. n
  <2> TAKE k \in 1 .. Len(seqs[i])
  <2>1. CASE IsLeaf(s[i])
    BY <1>2, <2>1
  <2>2. CASE ~IsLeaf(s[i])
    BY <1>2, <2>2
  <2> QED BY <2>1, <2>2
<1>8. \A m, l \in 1 .. Len(flat) : m <= l =>
        \E i, j \in 1 .. n : i <= j /\ flat[m] = s[i] /\ flat[l] = s[j] /\ ~IsLeaf(s[i])
  <2> TAKE m, l \in 1 .. Len(flat)
  <2> HAVE m <= l
  <2>1. PICK i \in 1 .. n, j \in 1 .. n :
                                /\ i <= j
                                /\ \E k \in 1 .. Len(seqs[i]) : flat[m] = seqs[i][k]
                                /\ \E a \in 1 .. Len(seqs[j]) : flat[l] = seqs[j][a]
    BY <1>6
  <2> QED BY <1>7, <2>1
<1>9. \A k \in 1 .. Len(flat) : ~IsLeaf(flat[k])
  BY <1>6, <1>8
<1>10. ASSUME NEW u \in Node, ~IsLeaf(u), Named(s, u) PROVE Named(flat, u)
  <2>1. PICK i \in 1 .. n : s[i] = u
    BY <1>10 DEF Named
  <2>2. seqs[i] = <<u>>
    BY <1>2, <1>10, <2>1
  <2>3. 1 \in 1 .. Len(seqs[i]) /\ seqs[i][1] = u
    BY <2>2
  <2> QED BY <1>6, <2>3 DEF Named
<1>11. ASSUME Ascending(s), NEW m \in 1 .. Len(flat), NEW l \in 1 .. Len(flat), m <= l
       PROVE  Depth[flat[m]] <= Depth[flat[l]]
  <2>1. PICK i \in 1 .. n, j \in 1 .. n : i <= j /\ flat[m] = s[i] /\ flat[l] = s[j]
    BY <1>8, <1>11
  <2>2. Depth[s[i]] <= Depth[s[j]]
    BY <1>11, <2>1 DEF Ascending
  <2> QED BY <2>1, <2>2
<1>12. Ascending(s) => Ascending(flat)
  BY <1>11 DEF Ascending
<1> QED BY <1>3, <1>6, <1>9, <1>10, <1>12

(* Every internal node is visited, and after its parent. *)
LEMMA OrderIs ==
  /\ order \in Seq(Node)
  /\ \A k \in 1 .. Len(order) : ~IsLeaf(order[k])
  /\ \A u \in Node : ~IsLeaf(u) => Named(order, u)
  /\ \A k \in 1 .. Len(order) : order[k] # Root => \E l \in 1 .. k - 1 : order[l] = Parent[order[k]]
<1>1. PICK s : s = BfsOrder
  OBVIOUS
<1>2. PICK w : w = order
  OBVIOUS
<1>3. s \in Seq(Node) /\ Ascending(s) /\ \A u \in Node : Named(s, u)
  BY <1>1, BfsOrderIs
<1>4. s # <<>>
  BY <1>3, TreeAssumption DEF Named
<1>5. /\ w \in Seq(Node)
      /\ \A k \in 1 .. Len(w) : ~IsLeaf(w[k])
      /\ \A u \in Node : ~IsLeaf(u) => Named(w, u)
      /\ Ascending(w)
  BY <1>1, <1>2, <1>3, <1>4, InnerNodesAre DEF order
<1>6. ASSUME NEW k \in 1 .. Len(w), w[k] # Root PROVE \E l \in 1 .. k - 1 : w[l] = Parent[w[k]]
  <2>1. w[k] \in NonRoot
    BY <1>5, <1>6 DEF NonRoot
  <2>2. Parent[w[k]] \in Node /\ ~IsLeaf(Parent[w[k]]) /\ Depth[w[k]] = 1 + Depth[Parent[w[k]]]
    BY <2>1, ParentFacts
  <2>3. PICK l \in 1 .. Len(w) : w[l] = Parent[w[k]]
    BY <1>5, <2>2 DEF Named
  <2>4. Depth[Parent[w[k]]] \in Nat
    BY <2>2, DepthType
  <2>5. ~(k <= l)
    BY <1>5, <2>2, <2>3, <2>4 DEF Ascending
  <2> QED BY <1>5, <2>3, <2>5
<1> QED BY <1>2, <1>5, <1>6

-----------------------------------------------------------------------------
(* Sorting. *)

(* o permutes 1 .. n. *)
Permutes(o, n) == o \in [1 .. n -> 1 .. n] /\ \A i, j \in 1 .. n : o[i] = o[j] => i = j

(* No row of an arranged table should stand before one that it follows.    *)
Arranged(o, n, key) == \A i, j \in 1 .. n : i < j => ~LexLess(key[o[j]], key[o[i]])

LeastOf(key, rest) == {i \in rest : \A j \in rest : ~LexLess(key[j], key[i])}

(* The first k places of an arrangement of n rows. *)
Beginnings(n, key, k) ==
  {o \in [1 .. k -> 1 .. n] :
     \A i \in 1 .. k : o[i] \in LeastOf(key, 1 .. n \ {o[j] : j \in 1 .. i - 1})}

Longer(n, key, O) == UNION {{Append(o, i) : i \in LeastOf(key, 1 .. n \ ToSet(o))} : o \in O}

LEMMA BeginningsGrow ==
  ASSUME NEW n \in Nat, NEW key, NEW k \in 1 .. n
  PROVE  Beginnings(n, key, k) = Longer(n, key, Beginnings(n, key, k - 1))
<1> DEFINE Fits(o, i) == o[i] \in LeastOf(key, 1 .. n \ {o[j] : j \in 1 .. i - 1})
<1>0. k \in Nat /\ k - 1 \in Nat /\ 1 .. k = 1 .. k - 1 \cup {k} /\ LeastOf(key, 1 .. n) \subseteq 1 .. n
  BY DEF LeastOf
<1>1. ASSUME NEW o \in Beginnings(n, key, k - 1), NEW i \in LeastOf(key, 1 .. n \ ToSet(o))
      PROVE  Append(o, i) \in Beginnings(n, key, k)
  <2>1. o \in [1 .. k - 1 -> 1 .. n] /\ \A h \in 1 .. k - 1 : Fits(o, h)
    BY DEF Beginnings
  <2>2. i \in 1 .. n
    BY DEF LeastOf
  <2>3. PICK p : p = Append(o, i)
    OBVIOUS
  <2>4. p \in [1 .. k -> 1 .. n] /\ p[k] = i /\ \A h \in 1 .. k - 1 : p[h] = o[h]
    <3>1. o \in Seq(1 .. n) /\ Len(o) = k - 1
      BY <1>0, <2>1
    <3>2. p \in Seq(1 .. n) /\ Len(p) = k
      BY <1>0, <2>2, <2>3, <3>1
    <3>3. p[k] = i /\ \A h \in 1 .. k - 1 : p[h] = o[h]
      BY <1>0, <2>2, <2>3, <3>1
    <3> QED BY <3>2, <3>3
  <2>5. ASSUME NEW h \in 1 .. k PROVE {p[j] : j \in 1 .. h - 1} = {o[j] : j \in 1 .. h - 1}
    <3>1. \A j \in 1 .. h - 1 : j \in 1 .. k - 1
      BY <1>0
    <3>2. \A j \in 1 .. h - 1 : p[j] = o[j]
      BY <2>4, <3>1
    <3> QED BY ONLY <3>2
  <2>6. ToSet(o) = {o[j] : j \in 1 .. k - 1}
    BY <2>1 DEF ToSet
  <2>7. \A h \in 1 .. k : Fits(p, h)
    <3> TAKE h \in 1 .. k
    <3>1. CASE h = k
      BY <3>1, <2>4, <2>5, <2>6
    <3>2. CASE h # k
      BY <3>2, <1>0, <2>1, <2>4, <2>5
    <3> QED BY <3>1, <3>2
  <2>8. p \in Beginnings(n, key, k)
    BY <2>4, <2>7 DEF Beginnings
  <2> QED BY <2>3, <2>8
<1>2. ASSUME NEW p \in Beginnings(n, key, k)
      PROVE  \E o \in Beginnings(n, key, k - 1) : \E i \in LeastOf(key, 1 .. n \ ToSet(o)) : p = Append(o, i)
  <2>1. p \in [1 .. k -> 1 .. n] /\ \A h \in 1 .. k : Fits(p, h)
    BY DEF Beginnings
  <2>2. PICK o : o = [h \in 1 .. k - 1 |-> p[h]]
    OBVIOUS
  <2>3. o \in [1 .. k - 1 -> 1 .. n] /\ \A h \in 1 .. k - 1 : o[h] = p[h]
    BY <1>0, <2>1, <2>2
  <2>4. \A h \in 1 .. k : {p[j] : j \in 1 .. h - 1} = {o[j] : j \in 1 .. h - 1}
    BY <1>0, <2>3
  <2>5. ToSet(o) = {o[j] : j \in 1 .. k - 1}
    BY <2>3 DEF ToSet
  <2>6. o \in Beginnings(n, key, k - 1)
    <3>1. ASSUME NEW h \in 1 .. k - 1 PROVE Fits(o, h)
      <4>1. h \in 1 .. k /\ o[h] = p[h] /\ Fits(p, h)
        BY <1>0, <2>1, <2>3
      <4>2. {p[j] : j \in 1 .. h - 1} = {o[j] : j \in 1 .. h - 1}
        BY ONLY <2>4, <4>1
      <4>3. PICK S : S = {p[j] : j \in 1 .. h - 1}
        OBVIOUS
      <4>4. o[h] \in LeastOf(key, 1 .. n \ S)
        BY <4>1, <4>3
      <4> QED BY <4>2, <4>3, <4>4
    <3> QED BY <2>3, <3>1 DEF Beginnings
  <2>7. p[k] \in LeastOf(key, 1 .. n \ ToSet(o))
    BY <1>0, <2>1, <2>4, <2>5
  <2>8. p = Append(o, p[k])
    <3>1. o \in Seq(1 .. n) /\ Len(o) = k - 1 /\ p \in Seq(1 .. n) /\ Len(p) = k
      BY <1>0, <2>1, <2>3
    <3> QED BY <1>0, <2>1, <2>3, <3>1
  <2> QED BY <2>6, <2>7, <2>8
<1> HIDE DEF Fits
<1>3. Longer(n, key, Beginnings(n, key, k - 1)) \subseteq Beginnings(n, key, k)
  <2> DEFINE B == Beginnings(n, key, k - 1)
             Ext(o) == {Append(o, i) : i \in LeastOf(key, 1 .. n \ ToSet(o))}
  <2>1. \A o \in B : \A p \in Ext(o) : p \in Beginnings(n, key, k)
    BY <1>1
  <2>2. Longer(n, key, B) = UNION {Ext(o) : o \in B}
    BY DEF Longer
  <2> HIDE DEF B, Ext
  <2>3. Longer(n, key, B) \subseteq Beginnings(n, key, k)
    BY <2>1, <2>2
  <2> QED BY <2>3 DEF B
<1>4. ASSUME NEW p \in Beginnings(n, key, k) PROVE p \in Longer(n, key, Beginnings(n, key, k - 1))
  <2>1. PICK o \in Beginnings(n, key, k - 1) : \E i \in LeastOf(key, 1 .. n \ ToSet(o)) : p = Append(o, i)
    BY <1>2
  <2>2. p \in {Append(o, i) : i \in LeastOf(key, 1 .. n \ ToSet(o))}
    BY ONLY <2>1
  <2> QED BY ONLY <2>1, <2>2 DEF Longer
<1>5. \A S, T : S \subseteq T /\ (\A p \in T : p \in S) => S = T
  OBVIOUS
<1> QED BY ONLY <1>3, <1>4, <1>5

(* What a sort returns: the rows, each once, none before a smaller one.    *)
LEMMA Sorting ==
  ASSUME NEW n \in Nat, NEW s, DOMAIN s = 1 .. n, Len(s) = n, NEW key, NEW r, r \in Arrangements(s, key)
  PROVE  \E o : Permutes(o, n) /\ Arranged(o, n, key) /\ r = [k \in 1 .. n |-> s[o[k]]]
<1> DEFINE Step(O) == UNION {{Append(o, i) : i \in LeastOf(key, DOMAIN s \ ToSet(o))} : o \in O}
           G(g) == [k \in 0 .. Len(s) |-> IF k = 0 THEN {<<>>} ELSE Step(g[k - 1])]
           grow == CHOOSE g : g = G(g)
           all == [k \in 0 .. n |-> Beginnings(n, key, k)]
<1>0. /\ r \in {[k \in DOMAIN s |-> s[o[k]]] : o \in grow[Len(s)]}
      /\ \A O : Step(O) = Longer(n, key, O)
  <2>1. r \in {[k \in DOMAIN s |-> s[o[k]]] : o \in grow[Len(s)]}
    BY Zenon DEF Arrangements, LeastOf
  <2>2. \A O : Step(O) = Longer(n, key, O)
    BY DEF Longer
  <2> QED BY <2>1, <2>2
<1> HIDE DEF Step
<1>1. /\ r \in {[k \in 1 .. n |-> s[o[k]]] : o \in grow[n]}
      /\ \A g : G(g) = [k \in 0 .. n |-> IF k = 0 THEN {<<>>} ELSE Longer(n, key, g[k - 1])]
  <2>1. \A g : G(g) = [k \in 0 .. n |-> IF k = 0 THEN {<<>>} ELSE Longer(n, key, g[k - 1])]
    BY <1>0
  <2> HIDE DEF grow
  <2> QED BY <1>0, <2>1
<1>2. Beginnings(n, key, 0) = {<<>>}
  <2>1. 1 .. 0 = {}
    OBVIOUS
  <2>2. <<>> \in [{} -> 1 .. n] /\ \A o \in [{} -> 1 .. n] : o = <<>>
    OBVIOUS
  <2> QED BY <2>1, <2>2 DEF Beginnings
<1>3. all = G(all)
  <2>1. \A k \in 0 .. n : all[k] = IF k = 0 THEN {<<>>} ELSE Longer(n, key, all[k - 1])
    <3> TAKE k \in 0 .. n
    <3>1. CASE k = 0
      BY <3>1, <1>2
    <3>2. CASE k # 0
      <4>1. k \in 1 .. n /\ k - 1 \in 0 .. n
        BY <3>2
      <4>2. all[k] = Beginnings(n, key, k) /\ all[k - 1] = Beginnings(n, key, k - 1)
        BY <4>1
      <4> QED BY <3>2, <4>1, <4>2, BeginningsGrow
    <3> QED BY <3>1, <3>2
  <2>2. all = [k \in 0 .. n |-> all[k]]
    OBVIOUS
  <2> HIDE DEF all, G
  <2> QED BY <1>1, <2>1, <2>2
<1>4. grow = G(grow)
  <2> HIDE DEF G, all
  <2> QED BY <1>3
<1>5. \A k \in 0 .. n : grow[k] = all[k]
  <2>0. PICK g : g = grow
    OBVIOUS
  <2>1. \A k \in 0 .. n : g[k] = IF k = 0 THEN {<<>>} ELSE Longer(n, key, g[k - 1])
    <3> HIDE DEF G, grow
    <3> QED BY <1>1, <1>4, <2>0
  <2>2. \A k \in 0 .. n : all[k] = IF k = 0 THEN {<<>>} ELSE Longer(n, key, all[k - 1])
    <3> HIDE DEF G, all
    <3> QED BY <1>1, <1>3
  <2> HIDE DEF all, grow, G
  <2> DEFINE X == {k \in 0 .. n : g[k] # all[k]}
  <2>3. SUFFICES ASSUME X # {} PROVE FALSE
    BY <2>0
  <2>4. PICK k \in X : \A l \in X : k <= l
    <3>1. X \subseteq Nat
      OBVIOUS
    <3> HIDE DEF X
    <3> QED BY <2>3, <3>1, LeastOfNats
  <2>5. k \in 0 .. n /\ g[k] # all[k]
    OBVIOUS
  <2>6. k # 0
    BY <2>1, <2>2, <2>5
  <2>7. k - 1 \in 0 .. n /\ g[k - 1] = all[k - 1]
    <3>1. k - 1 \in 0 .. n /\ ~(k <= k - 1)
      BY <2>5, <2>6
    <3>2. k - 1 \notin X
      BY <2>4, <3>1
    <3> QED BY <3>1, <3>2
  <2> QED BY <2>1, <2>2, <2>5, <2>6, <2>7
<1>6. PICK o \in Beginnings(n, key, n) : r = [k \in 1 .. n |-> s[o[k]]]
  <2>1. grow[n] = Beginnings(n, key, n)
    BY <1>5
  <2> HIDE DEF grow
  <2> QED BY <1>1, <2>1
<1>7. /\ o \in [1 .. n -> 1 .. n]
      /\ \A i \in 1 .. n : o[i] \in LeastOf(key, 1 .. n \ {o[j] : j \in 1 .. i - 1})
  BY DEF Beginnings
<1>8. ASSUME NEW i \in 1 .. n, NEW j \in 1 .. n, i < j
      PROVE  o[i] # o[j] /\ ~LexLess(key[o[j]], key[o[i]])
  <2>1. o[j] \in 1 .. n \ {o[h] : h \in 1 .. j - 1}
    BY <1>7 DEF LeastOf
  <2>2. i \in 1 .. j - 1 /\ \A h \in 1 .. i - 1 : h \in 1 .. j - 1
    BY <1>8
  <2>3. o[i] # o[j]
    BY <2>1, <2>2
  <2>4. o[j] \in 1 .. n \ {o[h] : h \in 1 .. i - 1}
    BY <2>1, <2>2
  <2>5. ~LexLess(key[o[j]], key[o[i]])
    BY <1>7, <2>4 DEF LeastOf
  <2> QED BY <2>3, <2>5
<1>9. Permutes(o, n)
  BY <1>7, <1>8 DEF Permutes
<1>10. Arranged(o, n, key)
  BY <1>8 DEF Arranged
<1> QED BY <1>6, <1>9, <1>10

(* Positions 1 .. n that are sorted stand in their places. *)
LEMMA SortedPositions ==
  ASSUME NEW n \in Nat, NEW g \in [1 .. n -> 1 .. n],
         \A i, j \in 1 .. n : i < j => g[i] # g[j] /\ ~(g[j] < g[i])
  PROVE  \A k \in 1 .. n : g[k] = k
<1>1. \A k \in 1 .. n : g[k] \in 1 .. n
  OBVIOUS
<1>2. \A k \in 1 .. n : g[k] >= k
  <2> DEFINE X == {k \in 1 .. n : g[k] < k}
  <2>1. SUFFICES ASSUME X # {} PROVE FALSE
    BY <1>1
  <2>2. PICK k \in X : \A l \in X : k <= l
    <3>1. X \subseteq Nat
      OBVIOUS
    <3> HIDE DEF X
    <3> QED BY <2>1, <3>1, LeastOfNats
  <2>3. k \in 1 .. n /\ g[k] < k
    OBVIOUS
  <2>4. k - 1 \in 1 .. n /\ k - 1 < k
    BY <1>1, <2>3
  <2>5. k - 1 \notin X
    BY <2>2, <2>4
  <2>6. g[k - 1] >= k - 1
    BY <1>1, <2>4, <2>5
  <2> QED BY <1>1, <2>3, <2>4, <2>6
<1>3. \A k \in 1 .. n : g[k] <= k
  <2> DEFINE X == {k \in 1 .. n : g[k] > k}
  <2>1. SUFFICES ASSUME X # {} PROVE FALSE
    BY <1>1
  <2>2. PICK k \in X : \A l \in X : k >= l
    <3>1. X \subseteq Nat /\ \A x \in X : x <= n
      OBVIOUS
    <3> HIDE DEF X
    <3> QED BY <2>1, <3>1, GreatestOfNats
  <2>3. k \in 1 .. n /\ g[k] > k
    OBVIOUS
  <2>4. k + 1 \in 1 .. n /\ k < k + 1
    BY <1>1, <2>3
  <2>5. k + 1 \notin X
    BY <2>2, <2>4
  <2>6. g[k + 1] <= k + 1
    BY <1>1, <2>4, <2>5
  <2> QED BY <1>1, <2>3, <2>4, <2>6
<1> QED BY <1>1, <1>2, <1>3

-----------------------------------------------------------------------------
(* Local indices. *)

(* The running sums of the steps give the distance from the state's start, *)
(* wherever the rows of the state stand.                                   *)
LEMMA RawIndexIs ==
  ASSUME NEW n \in Nat, NEW rows, DOMAIN rows = 1 .. n,
         \A i \in 1 .. n : rows[i].P \in Int /\ rows[i].b \in Int
  PROVE  \A i \in 1 .. n : RawIndex(rows)[i] = rows[i].P - rows[i].b
<1> DEFINE Same(i) == i > 1 /\ rows[i].b = rows[i - 1].b /\ rows[i].lambda = rows[i - 1].lambda
           G(g) == [i \in DOMAIN rows |-> IF Same(i) THEN g[i - 1] + rows[i].P - rows[i - 1].P
                                          ELSE rows[i].P - rows[i].b]
           raw == CHOOSE g : g = G(g)
           far == [i \in 1 .. n |-> rows[i].P - rows[i].b]
<1>1. RawIndex(rows) = raw
  BY Zenon DEF RawIndex
<1>2. \A i \in 1 .. n : Same(i) => i - 1 \in 1 .. n
  OBVIOUS
<1>3. \A g : \A i \in 1 .. n : G(g)[i] = IF Same(i) THEN g[i - 1] + rows[i].P - rows[i - 1].P
                                         ELSE rows[i].P - rows[i].b
  OBVIOUS
<1>4. far = G(far)
  <2>1. \A i \in 1 .. n : far[i] = G(far)[i]
    <3> TAKE i \in 1 .. n
    <3>1. CASE Same(i)
      <4>1. far[i - 1] = rows[i - 1].P - rows[i - 1].b /\ rows[i].b = rows[i - 1].b
        BY <1>2, <3>1
      <4>2. far[i] = rows[i].P - rows[i].b
        OBVIOUS
      <4>3. far[i] = far[i - 1] + rows[i].P - rows[i - 1].P
        BY <1>2, <3>1, <4>1, <4>2
      <4> HIDE DEF far, G, Same
      <4> QED BY <1>3, <3>1, <4>3
    <3>2. CASE ~Same(i)
      BY <1>3, <3>2
    <3> QED BY <3>1, <3>2
  <2>2. far = [i \in 1 .. n |-> far[i]] /\ G(far) = [i \in 1 .. n |-> G(far)[i]]
    OBVIOUS
  <2> HIDE DEF far, G
  <2> QED BY <2>1, <2>2
<1>5. raw = G(raw)
  <2> HIDE DEF far, G
  <2> QED BY <1>4
<1>6. \A i \in 1 .. n : raw[i] = far[i]
  <2>0. PICK g : g = raw
    OBVIOUS
  <2>1. \A i \in 1 .. n : g[i] = IF Same(i) THEN g[i - 1] + rows[i].P - rows[i - 1].P
                                 ELSE rows[i].P - rows[i].b
    <3> HIDE DEF G, raw, Same
    <3> QED BY <1>3, <1>5, <2>0
  <2>2. \A i \in 1 .. n : far[i] = IF Same(i) THEN far[i - 1] + rows[i].P - rows[i - 1].P
                                   ELSE rows[i].P - rows[i].b
    <3> HIDE DEF G, far, Same
    <3> QED BY <1>3, <1>4
  <2> HIDE DEF far, raw, G
  <2> DEFINE X == {k \in 1 .. n : g[k] # far[k]}
  <2>3. SUFFICES ASSUME X # {} PROVE FALSE
    BY <2>0
  <2>4. PICK k \in X : \A l \in X : k <= l
    <3>1. X \subseteq Nat
      OBVIOUS
    <3> HIDE DEF X
    <3> QED BY <2>3, <3>1, LeastOfNats
  <2>5. k \in 1 .. n /\ g[k] # far[k]
    OBVIOUS
  <2>6. Same(k) /\ k - 1 \in 1 .. n
    BY <1>2, <2>1, <2>2, <2>5
  <2>7. g[k - 1] = far[k - 1]
    BY <2>4, <2>6
  <2> HIDE DEF Same
  <2> QED BY <2>1, <2>2, <2>5, <2>6, <2>7
<1>7. \A i \in 1 .. n : far[i] = rows[i].P - rows[i].b
  OBVIOUS
<1> HIDE DEF raw, far
<1> QED BY <1>1, <1>6, <1>7

(* Which of the answers of its state a row is: position and start differ   *)
(* by a multiple of lambda and a remainder that the node's own state knows *)
(* nothing of.                                                             *)
LEMMA LocalIndexIs ==
  ASSUME NEW n \in Nat, NEW rows, DOMAIN rows = 1 .. n,
         \A i \in 1 .. n : rows[i].P \in Int /\ rows[i].b \in Int /\ rows[i].lambda \in Nat \ {0}
  PROVE  LocalIndex(rows) = [i \in 1 .. n |-> (rows[i].P - rows[i].b) \div rows[i].lambda]
<1>1. \A i \in 1 .. n : RawIndex(rows)[i] = rows[i].P - rows[i].b
  BY RawIndexIs
<1>2. PICK raw : raw = RawIndex(rows)
  OBVIOUS
<1>3. LocalIndex(rows) = [i \in 1 .. n |-> IF rows[i].lambda > 0 THEN raw[i] \div rows[i].lambda ELSE 0]
  BY <1>2 DEF LocalIndex
<1>4. \A i \in 1 .. n : rows[i].lambda > 0 /\ raw[i] = rows[i].P - rows[i].b
  BY <1>1, <1>2
<1> QED BY <1>3, <1>4

-----------------------------------------------------------------------------
(* Mixed radix. *)

Product(w) == FoldSeq(LAMBDA x, y : x * y, 1, w)

Numbers(w, m) == m \in Nat /\ w \in [1 .. m -> Nat] /\ Len(w) = m

(* Sets of the given sizes. *)
LEMMA Sized ==
  ASSUME NEW w, NEW m, Numbers(w, m), NEW F, F = [j \in 1 .. m |-> 1 .. w[j]]
  PROVE  /\ \A j \in 1 .. m : IsFiniteSet(F[j]) /\ w[j] = Cardinality(F[j])
         /\ IsFiniteSet(1 .. m) /\ DOMAIN w = 1 .. m
         /\ IsFiniteSet(Picks(F, 1 .. m))
         /\ Product(w) = Cardinality(Picks(F, 1 .. m))
<1>1. \A j \in 1 .. m : IsFiniteSet(F[j]) /\ w[j] = Cardinality(F[j])
  BY FS_Interval DEF Numbers
<1>2. IsFiniteSet(1 .. m) /\ DOMAIN w = 1 .. m
  BY FS_Interval DEF Numbers
<1>3. FoldSeq(LAMBDA x, y : x * y, 1, w) = Cardinality(Picks(F, DOMAIN w))
  BY <1>1, <1>2, ProductOfValues
<1>4. IsFiniteSet(Picks(F, 1 .. m))
  BY <1>1, <1>2, ProductIsChoices
<1> QED BY <1>1, <1>2, <1>3, <1>4 DEF Product

LEMMA ProductEmpty ==
  ASSUME NEW w, Numbers(w, 0)
  PROVE  Product(w) = 1
<1>1. PICK F : F = [j \in 1 .. 0 |-> 1 .. w[j]]
  OBVIOUS
<1>2. Product(w) = Cardinality(Picks(F, 1 .. 0))
  BY <1>1, Sized
<1>3. 1 .. 0 = {}
  OBVIOUS
<1>4. Picks(F, {}) = {<<>>}
  <2>1. <<>> \in [{} -> Together(F, {})] /\ \A g \in [{} -> Together(F, {})] : g = <<>>
    OBVIOUS
  <2> QED BY <2>1 DEF Picks
<1> QED BY <1>2, <1>3, <1>4, FS_Singleton

(* The first factor taken out. *)
LEMMA ProductSplit ==
  ASSUME NEW w, NEW m \in Nat \ {0}, Numbers(w, m), NEW v, Numbers(v, m - 1),
         \A j \in 1 .. m - 1 : v[j] = w[j + 1]
  PROVE  Product(w) = w[1] * Product(v) /\ Product(v) \in Nat
<1>1. PICK F : F = [j \in 1 .. m |-> 1 .. w[j]]
  OBVIOUS
<1>2. PICK H : H = [j \in 1 .. m - 1 |-> 1 .. v[j]]
  OBVIOUS
<1>3. /\ \A j \in 1 .. m : IsFiniteSet(F[j]) /\ w[j] = Cardinality(F[j])
      /\ IsFiniteSet(1 .. m)
      /\ Product(w) = Cardinality(Picks(F, 1 .. m))
  BY <1>1, Sized
<1>4. Product(v) = Cardinality(Picks(H, 1 .. m - 1)) /\ IsFiniteSet(Picks(H, 1 .. m - 1))
  BY <1>2, Sized
<1>5. PICK S : S = 1 .. m \ {1}
  OBVIOUS
<1>6. IsFiniteSet(Picks(F, S))
  <2>1. IsFiniteSet(S) /\ \A x \in S : IsFiniteSet(F[x])
    BY <1>3, <1>5, FS_Subset
  <2>2. PICK c : c = [x \in S |-> Cardinality(F[x])]
    OBVIOUS
  <2>3. \A x \in S : c[x] = Cardinality(F[x])
    BY <2>2
  <2> QED BY <2>1, <2>3, ProductIsChoices
<1>7. Cardinality(Picks(F, 1 .. m)) = Cardinality(F[1]) * Cardinality(Picks(F, S))
  <2>1. PICK K : K = 1 .. m
    OBVIOUS
  <2>2. 1 \in K /\ IsFiniteSet(F[1]) /\ S = K \ {1}
    BY <1>3, <1>5, <2>1
  <2>3. IsFiniteSet(Picks(F, K \ {1}))
    BY <1>6, <2>2
  <2>4. Cardinality(Picks(F, K)) = Cardinality(F[1]) * Cardinality(Picks(F, K \ {1}))
    BY <2>2, <2>3, ChoicesStep
  <2> QED BY <2>1, <2>2, <2>4
<1>8. Cardinality(Picks(F, S)) = Cardinality(Picks(H, 1 .. m - 1))
  <2>1. PICK e : e = [j \in 1 .. m - 1 |-> j + 1]
    OBVIOUS
  <2>2. e \in [1 .. m - 1 -> S] /\ \A j \in 1 .. m - 1 : e[j] = j + 1
    BY <1>5, <2>1
  <2>3. \A x \in S : \E j \in 1 .. m - 1 : e[j] = x
    <3> TAKE x \in S
    <3>1. x - 1 \in 1 .. m - 1 /\ (x - 1) + 1 = x
      BY <1>5
    <3> QED BY <2>2, <3>1
  <2>4. \A j \in 1 .. m - 1 : H[j] = F[e[j]]
    <3> TAKE j \in 1 .. m - 1
    <3>1. j + 1 \in 1 .. m /\ v[j] = w[j + 1]
      OBVIOUS
    <3>2. H[j] = 1 .. v[j] /\ F[j + 1] = 1 .. w[j + 1] /\ e[j] = j + 1
      BY <1>1, <1>2, <2>2, <3>1
    <3> QED BY <3>1, <3>2
  <2>5. \A j, k \in 1 .. m - 1 : e[j] = e[k] => j = k
    BY <2>2
  <2>6. PICK D : D = 1 .. m - 1
    OBVIOUS
  <2>7. /\ e \in [D -> S] /\ \A j, k \in D : e[j] = e[k] => j = k
        /\ \A x \in S : \E j \in D : e[j] = x
        /\ \A j \in D : H[j] = F[e[j]]
    BY <2>2, <2>3, <2>4, <2>5, <2>6
  <2>8. Cardinality(Picks(F, S)) = Cardinality(Picks(H, D))
    BY <1>6, <2>7, PicksReindexed
  <2> QED BY <2>6, <2>8
<1>9. Product(v) \in Nat
  BY <1>4, FS_CardinalityType
<1> QED BY <1>3, <1>4, <1>7, <1>8, <1>9

LEMMA ProductType ==
  ASSUME NEW w, NEW m, Numbers(w, m)
  PROVE  Product(w) \in Nat
<1>1. PICK F : F = [j \in 1 .. m |-> 1 .. w[j]]
  OBVIOUS
<1> QED BY <1>1, Sized, FS_CardinalityType

(* The tail of us that SuffixCount multiplies. *)
TailOf(us, j) == SubSeq(us, j + 1, Len(us))

LEMMA Tails ==
  ASSUME NEW us, NEW m, Numbers(us, m), NEW j \in 0 .. m
  PROVE  Numbers(TailOf(us, j), m - j) /\ \A i \in 1 .. m - j : TailOf(us, j)[i] = us[j + i]
<1>0. PICK v : v = SubSeq(us, j + 1, Len(us))
  OBVIOUS
<1>1. m \in Nat /\ Len(us) = m /\ j \in Nat /\ j <= m
  BY DEF Numbers
<1>2. us \in Seq(Nat)
  BY DEF Numbers
<1>3. v \in Seq(Nat) /\ Len(v) = m - j /\ \A i \in 1 .. m - j : v[i] = us[j + i]
  BY <1>0, <1>1, <1>2
<1>4. PICK n \in Nat : n = m - j
  BY <1>1
<1>5. v \in [1 .. n -> Nat] /\ Len(v) = n
  <2>1. v \in Seq(Nat) /\ Len(v) = n
    BY <1>3, <1>4
  <2>2. \A t \in Seq(Nat) : t \in [1 .. Len(t) -> Nat]
    OBVIOUS
  <2> QED BY ONLY <2>1, <2>2
<1> QED BY <1>0, <1>3, <1>4, <1>5 DEF Numbers, TailOf

(* The suffix products of us: each is the next one times its factor, and   *)
(* the first factor completes the product.                                 *)
LEMMA SuffixCountIs ==
  ASSUME NEW us, NEW m \in Nat \ {0}, Numbers(us, m), NEW s, s = SuffixCount(us)
  PROVE  /\ Numbers(s, m)
         /\ s[m] = 1
         /\ \A j \in 2 .. m : s[j - 1] = us[j] * s[j]
         /\ Product(us) = us[1] * s[1]
<1> DEFINE tail(j) == TailOf(us, j)
<1>1. \A j \in 0 .. m : Numbers(tail(j), m - j) /\ \A i \in 1 .. m - j : tail(j)[i] = us[j + i]
  BY Tails
<1>2. s = [j \in 1 .. m |-> Product(tail(j))]
  BY Zenon DEF SuffixCount, Product, Numbers, TailOf
<1> HIDE DEF tail
<1>3. \A j \in 1 .. m : s[j] = Product(tail(j)) /\ s[j] \in Nat
  <2> TAKE j \in 1 .. m
  <2>1. Numbers(tail(j), m - j)
    BY <1>1
  <2>2. Product(tail(j)) \in Nat
    BY <2>1, ProductType
  <2> QED BY <1>2, <2>2
<1>4. s[m] = 1
  <2>1. Numbers(tail(m), 0)
    BY <1>1
  <2> QED BY <1>3, <2>1, ProductEmpty
<1>5. ASSUME NEW j \in 1 .. m PROVE Product(tail(j - 1)) = us[j] * Product(tail(j))
  <2>1. /\ Numbers(tail(j - 1), m - (j - 1)) /\ \A i \in 1 .. m - (j - 1) : tail(j - 1)[i] = us[(j - 1) + i]
        /\ Numbers(tail(j), m - j) /\ \A i \in 1 .. m - j : tail(j)[i] = us[j + i]
    BY <1>1
  <2>2. m - (j - 1) \in Nat \ {0} /\ m - j = m - (j - 1) - 1
    OBVIOUS
  <2>3. \A i \in 1 .. m - j : tail(j)[i] = tail(j - 1)[i + 1]
    <3> TAKE i \in 1 .. m - j
    <3>1. i + 1 \in 1 .. m - (j - 1) /\ (j - 1) + (i + 1) = j + i
      OBVIOUS
    <3> QED BY <2>1, <3>1
  <2>4. tail(j - 1)[1] = us[j]
    <3>1. 1 \in 1 .. m - (j - 1) /\ (j - 1) + 1 = j
      OBVIOUS
    <3> QED BY <2>1, <3>1
  <2> QED BY <2>1, <2>2, <2>3, <2>4, ProductSplit
<1>6. \A j \in 2 .. m : s[j - 1] = us[j] * s[j]
  <2> TAKE j \in 2 .. m
  <2>1. j \in 1 .. m /\ j - 1 \in 1 .. m
    OBVIOUS
  <2> QED BY <1>3, <1>5, <2>1
<1>7. Product(us) = us[1] * s[1]
  <2>1. Numbers(tail(0), m - 0) /\ \A i \in 1 .. m - 0 : tail(0)[i] = us[0 + i]
    BY <1>1
  <2>2. tail(0) = us
    <3>1. PICK t : t = tail(0)
      OBVIOUS
    <3>2. t \in [1 .. m -> Nat] /\ us \in [1 .. m -> Nat] /\ \A i \in 1 .. m : t[i] = us[i]
      BY <2>1, <3>1 DEF Numbers
    <3> QED BY <3>1, <3>2
  <2>3. 1 \in 1 .. m /\ 1 - 1 = 0
    OBVIOUS
  <2> QED BY <1>3, <1>5, <2>2, <2>3
<1>8. Numbers(s, m)
  <2>1. s \in [1 .. m -> Nat]
    <3>1. PICK t : t = [j \in 1 .. m |-> Product(tail(j))]
      OBVIOUS
    <3> QED BY <1>2, <1>3, <3>1
  <2>2. Len(s) = m
    BY <2>1
  <2> QED BY <1>3, <2>1, <2>2 DEF Numbers
<1> QED BY <1>4, <1>6, <1>7, <1>8

LEMMA Divided ==
  ASSUME NEW n \in Nat \ {0}, NEW k \in Nat
  PROVE  /\ k \div n \in Nat /\ k % n \in 0 .. n - 1
         /\ k = n * (k \div n) + (k % n)
OBVIOUS

LEMMA DividedOnce ==
  ASSUME NEW n \in Nat \ {0}, NEW a \in Nat, NEW r \in 0 .. n - 1, NEW k, k = n * a + r
  PROVE  k \div n = a /\ k % n = r
<1>1. n * a \in Nat /\ k \in Nat
  OBVIOUS
<1>2. PICK q \in Nat, e \in 0 .. n - 1 : q = k \div n /\ e = k % n /\ k = n * q + e
  BY <1>1, Divided
<1>3. q = a
  <2>1. ASSUME NEW x \in Nat, NEW y \in Nat, x < y PROVE n * x + n <= n * y
    <3>1. PICK d \in Nat : y = x + 1 + d
      <4>1. y - x - 1 \in Nat /\ y = x + 1 + (y - x - 1)
        BY <2>1
      <4> QED BY <4>1
    <3>2. n * y = n * x + n + n * d /\ n * d \in Nat /\ n * x \in Nat
      BY <3>1
    <3> QED BY <3>2
  <2>2. n * q \in Nat /\ n * a \in Nat
    OBVIOUS
  <2>3. CASE q < a
    BY <1>2, <2>1, <2>2, <2>3
  <2>4. CASE a < q
    BY <1>2, <2>1, <2>2, <2>4
  <2> QED BY <2>3, <2>4
<1> QED BY <1>1, <1>2, <1>3

(* One digit and the rest. *)
LEMMA DigitAndRest ==
  ASSUME NEW u \in Nat \ {0}, NEW s \in Nat \ {0}, NEW k \in Nat
  PROVE  u * s \in Nat \ {0} /\ k % (u * s) = ((k \div s) % u) * s + (k % s)
<1>1. PICK q \in Nat, r \in 0 .. s - 1 : q = k \div s /\ r = k % s /\ k = s * q + r
  BY Divided
<1>2. PICK h \in Nat, d \in 0 .. u - 1 : h = q \div u /\ d = q % u /\ q = u * h + d
  BY Divided
<1>3. u * s \in Nat \ {0}
  OBVIOUS
<1>4. d * s + r \in 0 .. (u * s) - 1
  <2>1. PICK e \in Nat : u = d + 1 + e
    <3>1. u - d - 1 \in Nat /\ u = d + 1 + (u - d - 1)
      OBVIOUS
    <3> QED BY <3>1
  <2>2. u * s = d * s + s + e * s /\ e * s \in Nat /\ d * s \in Nat
    BY <2>1
  <2> QED BY <2>2
<1>5. k = (u * s) * h + (d * s + r)
  <2>1. s * q = s * (u * h) + s * d
    BY <1>2
  <2>2. s * (u * h) = (u * s) * h /\ s * d = d * s
    OBVIOUS
  <2>3. (u * s) * h \in Nat /\ d * s \in Nat
    BY <1>3
  <2> QED BY <1>1, <2>1, <2>2, <2>3
<1>6. k % (u * s) = d * s + r
  <2>1. PICK n \in Nat \ {0} : n = u * s
    BY <1>3
  <2>2. PICK e \in 0 .. n - 1 : e = d * s + r
    BY <1>4, <2>1
  <2>3. k = n * h + e
    BY <1>5, <2>1, <2>2
  <2>4. k % n = e
    BY <2>3, DividedOnce
  <2> QED BY <2>1, <2>2, <2>4
<1>7. ((k \div s) % u) = d /\ k % s = r
  BY <1>1, <1>2
<1> QED BY <1>3, <1>6, <1>7

Positive(us, m) == Numbers(us, m) /\ \A j \in 1 .. m : us[j] # 0

(* All suffix products are positive. *)
LEMMA SuffixPositive ==
  ASSUME NEW us, NEW m \in Nat \ {0}, Positive(us, m), NEW s, s = SuffixCount(us)
  PROVE  Positive(s, m)
<1>1. Numbers(s, m) /\ s[m] = 1 /\ \A j \in 2 .. m : s[j - 1] = us[j] * s[j]
  BY SuffixCountIs DEF Positive
<1>2. ASSUME NEW X, X = {j \in 1 .. m : s[j] = 0}, X # {} PROVE FALSE
  <2>1. PICK j \in X : \A l \in X : j >= l
    <3>1. X \subseteq Nat /\ \A x \in X : x <= m
      BY <1>2
    <3> QED BY <1>2, <3>1, GreatestOfNats
  <2>2. j \in 1 .. m /\ s[j] = 0 /\ j # m
    BY <1>1, <1>2
  <2>3. j + 1 \in 2 .. m /\ (j + 1) - 1 = j /\ ~(j >= j + 1)
    BY <2>2
  <2>4. s[j + 1] # 0 /\ s[j + 1] \in Nat /\ us[j + 1] \in Nat /\ us[j + 1] # 0
    BY <1>1, <1>2, <2>1, <2>3 DEF Positive, Numbers
  <2>5. s[j] = us[j + 1] * s[j + 1]
    BY <1>1, <2>3
  <2>6. us[j + 1] * s[j + 1] # 0
    BY <2>4
  <2> QED BY <2>2, <2>5, <2>6
<1> QED BY <1>1, <1>2 DEF Positive

(* The digits of an index. *)
LEMMA PartialIndexIs ==
  ASSUME NEW us, NEW m \in Nat \ {0}, Positive(us, m), NEW k \in Nat
  PROVE  /\ PartialIndex(k, us, SuffixCount(us)) = [j \in 1 .. m |-> (k \div SuffixCount(us)[j]) % us[j]]
         /\ \A j \in 1 .. m : PartialIndex(k, us, SuffixCount(us))[j] \in 0 .. us[j] - 1
<1>1. PICK s : s = SuffixCount(us)
  OBVIOUS
<1>2. Positive(s, m)
  BY <1>1, SuffixPositive
<1>3. DOMAIN us = 1 .. m /\ \A j \in 1 .. m : us[j] > 0 /\ s[j] > 0 /\ us[j] \in Nat /\ s[j] \in Nat
  BY <1>2 DEF Positive, Numbers
<1>4. PartialIndex(k, us, s) = [j \in 1 .. m |-> (k \div s[j]) % us[j]]
  BY <1>3 DEF PartialIndex
<1>5. \A j \in 1 .. m : (k \div s[j]) % us[j] \in 0 .. us[j] - 1
  <2> TAKE j \in 1 .. m
  <2>1. PICK n \in Nat \ {0}, u \in Nat \ {0} : n = s[j] /\ u = us[j]
    BY <1>3
  <2>2. k \div n \in Nat
    BY Divided
  <2>3. (k \div n) % u \in 0 .. u - 1
    BY <2>2, Divided
  <2> QED BY <2>1, <2>3
<1> QED BY <1>1, <1>4, <1>5

(* An index is determined, modulo the product of the radices, by its       *)
(* digits.                                                                 *)
LEMMA SameDigits ==
  ASSUME NEW us, NEW m \in Nat \ {0}, Positive(us, m), NEW k \in Nat, NEW l \in Nat,
         \A j \in 1 .. m : PartialIndex(k, us, SuffixCount(us))[j] = PartialIndex(l, us, SuffixCount(us))[j]
  PROVE  Product(us) \in Nat \ {0} /\ k % Product(us) = l % Product(us)
<1>1. PICK s : s = SuffixCount(us)
  OBVIOUS
<1>2. Positive(s, m) /\ s[m] = 1 /\ (\A j \in 2 .. m : s[j - 1] = us[j] * s[j]) /\ Product(us) = us[1] * s[1]
  BY <1>1, SuffixPositive, SuffixCountIs DEF Positive
<1>3. \A j \in 1 .. m : us[j] \in Nat \ {0} /\ s[j] \in Nat \ {0}
  BY <1>2 DEF Positive, Numbers
<1>4. \A j \in 1 .. m : (k \div s[j]) % us[j] = (l \div s[j]) % us[j]
  BY <1>1, PartialIndexIs
<1>5. \A j \in 1 .. m : k % s[j] = l % s[j] => k % (us[j] * s[j]) = l % (us[j] * s[j])
  <2> TAKE j \in 1 .. m
  <2>1. k % (us[j] * s[j]) = ((k \div s[j]) % us[j]) * s[j] + (k % s[j])
    BY <1>3, DigitAndRest
  <2>2. l % (us[j] * s[j]) = ((l \div s[j]) % us[j]) * s[j] + (l % s[j])
    BY <1>3, DigitAndRest
  <2> QED BY <1>4, <2>1, <2>2
<1>6. \A j \in 1 .. m : k % s[j] = l % s[j]
  <2> DEFINE X == {j \in 1 .. m : k % s[j] # l % s[j]}
  <2>1. SUFFICES ASSUME X # {} PROVE FALSE
    OBVIOUS
  <2>2. PICK j \in X : \A i \in X : j >= i
    <3>1. X \subseteq Nat /\ \A x \in X : x <= m
      OBVIOUS
    <3> HIDE DEF X
    <3> QED BY <2>1, <3>1, GreatestOfNats
  <2>3. j \in 1 .. m /\ k % s[j] # l % s[j]
    OBVIOUS
  <2>4. j # m
    <3>1. k % 1 = 0 /\ l % 1 = 0
      OBVIOUS
    <3> QED BY <1>2, <2>3, <3>1
  <2>5. j + 1 \in 2 .. m /\ j + 1 \in 1 .. m /\ (j + 1) - 1 = j /\ ~(j >= j + 1)
    BY <2>3, <2>4
  <2>6. k % s[j + 1] = l % s[j + 1]
    BY <2>2, <2>5
  <2>7. s[j] = us[j + 1] * s[j + 1]
    BY <1>2, <2>5
  <2> HIDE DEF X
  <2> QED BY <1>5, <2>3, <2>5, <2>6, <2>7
<1>7. 1 \in 1 .. m
  OBVIOUS
<1>8. us[1] * s[1] \in Nat \ {0}
  BY <1>3, <1>7
<1> QED BY <1>2, <1>5, <1>6, <1>7, <1>8

-----------------------------------------------------------------------------
(* Who owns a partial answer. *)

Before(H, h) == {j \in H : j < h}

(* The headers H own consecutive places: h as many as F[h] has elements,   *)
(* from R[h] on.                                                           *)
LaidOut(n, H, F, R) ==
  /\ n \in Nat /\ H \subseteq 1 .. n
  /\ \A h \in H : IsFiniteSet(F[h])
  /\ \A h, j \in H : h # j => F[h] \cap F[j] = {}
  /\ \A h \in H : R[h] = Cardinality(Together(F, Before(H, h)))

LastBefore(H, R, d) == Max({h \in H : R[h] <= d})

(* The last header that does not start behind place d covers it.           *)
LEMMA OwnerFound ==
  ASSUME NEW n, NEW H, NEW F, NEW R, LaidOut(n, H, F, R), NEW d \in Nat, d < Cardinality(Together(F, H)),
         NEW own, own = LastBefore(H, R, d)
  PROVE  own \in H /\ R[own] \in Nat /\ R[own] <= d /\ d - R[own] < Cardinality(F[own])
<1> USE DEF LaidOut, LastBefore
<1>1. ASSUME NEW S, S \subseteq H PROVE IsFiniteSet(Together(F, S)) /\ Cardinality(Together(F, S)) \in Nat
  <2>1. IsFiniteSet(S)
    <3>1. S \subseteq 1 .. n
      BY <1>1
    <3>2. IsFiniteSet(1 .. n)
      BY FS_Interval
    <3> QED BY <3>1, <3>2, FS_Subset
  <2>2. PICK w : w = [h \in S |-> Cardinality(F[h])]
    OBVIOUS
  <2>3. (\A h \in S : w[h] = Cardinality(F[h]) /\ IsFiniteSet(F[h])) /\ \A h, j \in S : h # j => F[h] \cap F[j] = {}
    BY <1>1, <2>2
  <2>4. IsFiniteSet(Together(F, S))
    BY <2>1, <2>3, SumIsUnion
  <2> QED BY <2>4, FS_CardinalityType
<1>2. \A h \in H : R[h] \in Nat /\ Before(H, h) \subseteq H /\ h \in Nat /\ h <= n
  <2> TAKE h \in H
  <2>1. h \in 1 .. n
    OBVIOUS
  <2>2. Before(H, h) \subseteq H
    BY DEF Before
  <2>3. Cardinality(Together(F, Before(H, h))) \in Nat
    BY <1>1, <2>2
  <2> QED BY <2>1, <2>2, <2>3
<1>3. ASSUME NEW h \in H, NEW S, S = {j \in H : j <= h}
      PROVE  Cardinality(Together(F, S)) = Cardinality(F[h]) + R[h]
  <2>0. h \in Nat /\ \A j \in H : j \in Nat
    BY <1>2
  <2>1. h \in S /\ S \subseteq H
    BY <1>3, <2>0
  <2>4. S \ {h} = Before(H, h)
    <3>1. \A a, b \in Nat : (a <= b /\ a # b) <=> a < b
      OBVIOUS
    <3>2. \A j \in H : (j <= h /\ j # h) <=> j < h
      BY <2>0, <3>1
    <3> QED BY <1>3, <3>2 DEF Before
  <2>2. /\ IsFiniteSet(F[h]) /\ \A y \in S : h # y => F[h] \cap F[y] = {}
        /\ IsFiniteSet(Together(F, S \ {h}))
    BY <1>1, <1>2, <2>1, <2>4
  <2>3. Cardinality(Together(F, S)) = Cardinality(F[h]) + Cardinality(Together(F, S \ {h}))
    <3>0. PICK s : s = S
      OBVIOUS
    <3>1. PICK x \in s : x = h
      BY <2>1, <3>0
    <3>2. IsFiniteSet(F[x]) /\ (\A y \in s : x # y => F[x] \cap F[y] = {}) /\ IsFiniteSet(Together(F, s \ {x}))
      BY <2>2, <3>0, <3>1
    <3>3. Cardinality(Together(F, s)) = Cardinality(F[x]) + Cardinality(Together(F, s \ {x}))
      BY <3>2, TogetherStep
    <3> QED BY <3>0, <3>1, <3>3
  <2> QED BY <2>3, <2>4
<1> DEFINE X == {h \in H : R[h] <= d}
<1>4. X \subseteq Nat /\ X \subseteq H /\ \A h \in X : h <= n
  BY <1>2
<1>5. X # {}
  <2>1. H # {}
    <3>1. H = {} => Together(F, H) = {}
      BY DEF Together
    <3> QED BY <3>1, FS_EmptySet
  <2>2. PICK h \in H : \A j \in H : h <= j
    <3>1. H \subseteq Nat
      BY <1>2
    <3> QED BY <2>1, <3>1, LeastOfNats
  <2>3. Before(H, h) = {}
    <3>1. h \in Nat /\ \A j \in H : j \in Nat /\ h <= j
      BY <1>2, <2>2
    <3>2. \A j \in H : ~(j < h)
      BY <3>1
    <3> QED BY <3>2 DEF Before
  <2>4. R[h] = 0
    <3>1. Together(F, {}) = {}
      BY DEF Together
    <3> QED BY <2>3, <3>1, FS_EmptySet
  <2> QED BY <2>4
<1>6. own \in X /\ \A h \in X : own >= h
  <2>1. \E h \in X : \A j \in X : h >= j
    <3> HIDE DEF X
    <3> QED BY <1>4, <1>5, GreatestOfNats
  <2>2. own = Max(X)
    OBVIOUS
  <2> HIDE DEF X
  <2> QED BY <2>1, <2>2 DEF Max
<1>7. own \in H /\ R[own] \in Nat /\ R[own] <= d /\ own \in Nat
  BY <1>2, <1>4, <1>6
<1>8. PICK S : S = {j \in H : j <= own}
  OBVIOUS
<1>9. Cardinality(Together(F, S)) = Cardinality(F[own]) + R[own]
  BY <1>3, <1>7, <1>8
<1>10. d < Cardinality(Together(F, S))
  <2>1. CASE S = H
    BY <2>1
  <2>2. CASE S # H
    <3> DEFINE Y == H \ S
    <3>1. Y \subseteq Nat /\ Y # {} /\ \A j \in Y : j \in H /\ j > own
      <4>1. \A j \in Y : j \in H /\ j \in Nat /\ ~(j <= own)
        BY <1>2, <1>8
      <4>2. S \subseteq H
        BY <1>8
      <4>3. Y # {}
        BY <2>2, <4>2
      <4>4. \A j \in Y : j > own
        <5> HIDE DEF Y
        <5> QED BY <1>7, <4>1
      <4> HIDE DEF Y
      <4> QED BY <4>1, <4>3, <4>4
    <3>2. PICK h \in Y : \A j \in Y : h <= j
      <4> HIDE DEF Y
      <4> QED BY <3>1, LeastOfNats
    <3>3. Before(H, h) = S
      <4>1. \A j \in H : j < h <=> j <= own
        <5> TAKE j \in H
        <5>1. j \in Nat /\ h \in Nat /\ h > own
          BY <1>2, <3>1
        <5>2. j > own => j \in Y
          BY <1>7, <1>8, <5>1
        <5> QED BY <1>7, <3>2, <5>1, <5>2
      <4> QED BY <1>8, <4>1 DEF Before
    <3>4. h \in H /\ h \notin X
      BY <1>6, <1>7, <3>1
    <3>5. ~(R[h] <= d) /\ R[h] \in Nat
      BY <1>2, <3>4
    <3> QED BY <3>3, <3>4, <3>5
  <2> QED BY <2>1, <2>2
<1>11. Cardinality(F[own]) \in Nat
  BY <1>7, FS_CardinalityType
<1> QED BY <1>7, <1>9, <1>10, <1>11

-----------------------------------------------------------------------------
(* A permutation reaches everything. *)
LEMMA Onto ==
  ASSUME NEW n \in Nat, NEW o, Permutes(o, n)
  PROVE  \A k \in 1 .. n : \E i \in 1 .. n : o[i] = k
<1>1. o \in Injection(1 .. n, 1 .. n)
  BY DEF Permutes, Injection, IsInjective
<1>2. IsFiniteSet(1 .. n)
  BY FS_Interval
<1>3. o \in Surjection(1 .. n, 1 .. n)
  BY <1>1, <1>2, FS_Injection
<1> QED BY <1>3 DEF Surjection

LEMMA Composed ==
  ASSUME NEW n \in Nat, NEW o, Permutes(o, n), NEW s, Permutes(s, n), NEW t, t = [k \in 1 .. n |-> s[o[k]]]
  PROVE  Permutes(t, n)
BY DEF Permutes

-----------------------------------------------------------------------------
(* The rows of a relation and what they stand for. *)

(* Row r stands for row i of relation u: it has its keys and, when u has   *)
(* children, counts the answers below it.                                  *)
Stands(u, r, i) ==
  /\ r.keys = input[u][i].keys
  /\ ~IsLeaf(u) => /\ "delta" \in DOMAIN r
                   /\ r.us = UsOf(input, u, i)
                   /\ r.delta = SubtreeCount(input, u, i)

(* The table of u is the relation in the order s. *)
Standing(u, s) ==
  /\ Permutes(s, Len(input[u])) /\ DOMAIN tables[u] = 1 .. Len(input[u])
  /\ \A h \in 1 .. Len(input[u]) : Stands(u, tables[u][h], s[h])

LEMMA ContributionStands ==
  ASSUME input \in Inputs, NEW u \in Node, NEW r, NEW i \in 1 .. Len(input[u]), Stands(u, r, i)
  PROVE  Contribution(u, r) = Cardinality(Using(input, u, i)) /\ IsFiniteSet(Using(input, u, i))
<1>1. Database(input)
  BY InputLen DEF Database
<1>2. SubtreeCount(input, u, i) = Cardinality(Using(input, u, i))
  BY DEF SubtreeCount, Using
<1>3. CASE IsLeaf(u)
  BY <1>1, <1>2, <1>3, LeafCount, UsingFinite DEF Contribution
<1>4. CASE ~IsLeaf(u)
  BY <1>1, <1>2, <1>4, UsingFinite DEF Contribution, Stands, Back
<1> QED BY <1>3, <1>4

(* The headers of row i of the parent of c, and what each of them answers  *)
(* for when the table of c is the relation in the order s.                 *)
HeaderSet(c, i) ==
  {h \in DOMAIN tables[c] : input[Parent[c]][i].keys[ColInParent[c]] = tables[c][h].keys[ColInChild[c]]}

HeaderAnswers(c, s) == [h \in 1 .. Len(input[c]) |-> Using(input, c, s[h])]

(* They are those of its partners; their answers are the answers below the *)
(* row, each header's behind those of the headers before it.               *)
LEMMA HeadersCover ==
  ASSUME input \in Inputs, NEW c \in NonRoot, NEW s, Standing(c, s),
         NEW i \in 1 .. Len(input[Parent[c]]),
         NEW H, H = HeaderSet(c, i), NEW F, F = HeaderAnswers(c, s)
  PROVE  /\ \A h \in H : s[h] \in 1 .. Len(input[c]) /\ Joins(c, input[Parent[c]][i], input[c][s[h]])
         /\ Together(F, H) = Below(input, c, i)
         /\ LaidOut(Len(input[c]), H, F, RankValues(c, tables[c]))
<1> USE DEF HeaderSet, HeaderAnswers
<1> DEFINE n == Len(input[c])
<1>1. c \in Node /\ n \in Nat /\ Database(input)
  BY InputLen, ParentFacts DEF Database
<1>2. DOMAIN tables[c] = 1 .. n /\ s \in [1 .. n -> 1 .. n] /\ \A h, j \in 1 .. n : s[h] = s[j] => h = j
  BY DEF Standing, Permutes
<1>3. \A h \in 1 .. n : tables[c][h].keys = input[c][s[h]].keys
  BY DEF Standing, Stands
<1>4. H \subseteq 1 .. n
  BY <1>2
<1>5. \A h \in H : s[h] \in 1 .. n /\ Joins(c, input[Parent[c]][i], input[c][s[h]])
  BY <1>2, <1>3, <1>4 DEF Joins
<1>6. \A h \in 1 .. n : IsFiniteSet(F[h])
  BY <1>1, UsingFinite
<1>7. \A h, j \in 1 .. n : h # j => F[h] \cap F[j] = {}
  BY <1>2 DEF Using
<1>8. Together(F, H) = Below(input, c, i)
  <2>1. ASSUME NEW f \in Together(F, H) PROVE f \in Below(input, c, i)
    <3>1. PICK h \in H : f \in Using(input, c, s[h])
      BY <1>4 DEF Together
    <3> QED BY <3>1, <1>5 DEF Using, Below
  <2>2. ASSUME NEW f \in Below(input, c, i) PROVE f \in Together(F, H)
    <3>1. f \in Matches(input, Subtree[c]) /\ Joins(c, input[Parent[c]][i], input[c][f[c]])
      BY DEF Below
    <3>2. f[c] \in 1 .. n
      BY <1>1, <3>1, SubtreeFacts, MatchesAre
    <3>3. PICK h \in 1 .. n : s[h] = f[c]
      <4>1. PICK m \in Nat : m = n
        BY <1>1
      <4>2. Permutes(s, m)
        BY <4>1 DEF Standing
      <4>3. \A k \in 1 .. m : \E h \in 1 .. m : s[h] = k
        BY <4>2, Onto
      <4> QED BY <3>2, <4>1, <4>3
    <3>4. h \in H
      BY <1>2, <1>3, <3>1, <3>3 DEF Joins
    <3>5. f \in F[h]
      BY <3>1, <3>3 DEF Using
    <3> QED BY <3>4, <3>5 DEF Together
  <2> QED BY <2>1, <2>2
<1>9. ASSUME NEW h \in H PROVE RankValues(c, tables[c])[h] = Cardinality(Together(F, Before(H, h)))
  <2> DEFINE K == {j \in 1 .. h-1 : tables[c][j].keys[ColInChild[c]] = tables[c][h].keys[ColInChild[c]]}
  <2>1. h \in 1 .. n /\ h \in Nat
    BY <1>4
  <2>2. RankValues(c, tables[c])[h] = SumAt(c, tables[c], K)
    BY <1>2, <2>1, Zenon DEF RankValues, SumAt
  <2>3. K = Before(H, h)
    <3>1. \A j \in 1 .. n : j \in 1 .. h - 1 <=> j < h
      BY <2>1
    <3>2. 1 .. h - 1 \subseteq 1 .. n
      BY <1>1, <2>1
    <3> QED BY <1>2, <3>1, <3>2 DEF Before
  <2> HIDE DEF K
  <2>4. K \subseteq 1 .. n
    BY <1>4, <2>3 DEF Before
  <2>5. IsFiniteSet(K)
    <3>1. IsFiniteSet(1 .. n)
      BY <1>1, FS_Interval
    <3> QED BY <2>4, <3>1, FS_Subset
  <2>6. \A k \in K : Contribution(c, tables[c][k]) = Cardinality(F[k])
    <3> TAKE k \in K
    <3>1. k \in 1 .. n /\ s[k] \in 1 .. n /\ Stands(c, tables[c][k], s[k])
      BY <1>2, <2>4 DEF Standing
    <3> QED BY <1>1, <3>1, ContributionStands
  <2>7. (\A k \in K : IsFiniteSet(F[k])) /\ \A k, l \in K : k # l => F[k] \cap F[l] = {}
    <3>1. \A k \in K : k \in 1 .. n
      BY <2>4
    <3> QED BY <1>6, <1>7, <3>1
  <2>8. SumAt(c, tables[c], K) = Cardinality(Together(F, K))
    <3>1. PICK tc : tc = tables[c]
      OBVIOUS
    <3>2. \A k \in K : Contribution(c, tc[k]) = Cardinality(F[k])
      BY <2>6, <3>1
    <3>3. SumAt(c, tc, K) = Cardinality(Together(F, K))
      <4>1. PICK G : G = F
        OBVIOUS
      <4>2. /\ \A k \in K : IsFiniteSet(G[k]) /\ Contribution(c, tc[k]) = Cardinality(G[k])
            /\ \A k, l \in K : k # l => G[k] \cap G[l] = {}
        BY <2>7, <3>2, <4>1
      <4>3. SumAt(c, tc, K) = Cardinality(Together(G, K))
        BY ONLY <2>5, <4>2, SumOfSizes
      <4> QED BY <4>1, <4>3
    <3> QED BY <3>1, <3>3
  <2> QED BY <2>2, <2>3, <2>8
<1> QED BY <1>1, <1>4, <1>5, <1>6, <1>7, <1>8, <1>9 DEF LaidOut

LEMMA ChildIdxIs ==
  ASSUME NEW c \in NonRoot
  PROVE  /\ Cardinality(ChildSet(Parent[c])) \in Nat \ {0}
         /\ ChildIdx(c) \in 1 .. Cardinality(ChildSet(Parent[c]))
         /\ children(Parent[c])[ChildIdx(c)] = c
<1> DEFINE p == Parent[c]
<1>1. c \in ChildSet(p) /\ p \in Node
  BY ParentFacts
<1>2. PICK j \in DOMAIN children(p) : children(p)[j] = c
  BY <1>1, ChildrenEnumerate
<1>3. ChildIdx(c) \in DOMAIN children(p) /\ children(p)[ChildIdx(c)] = c
  BY <1>2 DEF ChildIdx
<1>4. DOMAIN children(p) = 1 .. Cardinality(ChildSet(p))
  BY ChildrenEnumerate
<1>5. Cardinality(ChildSet(p)) \in Nat
  <2>1. ChildSet(p) \subseteq Node
    BY DEF ChildSet
  <2> QED BY <2>1, NodesFinite
<1>6. Cardinality(ChildSet(p)) # 0
  BY <1>3, <1>4, <1>5
<1> QED BY <1>3, <1>4, <1>5, <1>6

(* The product of the u-values is the number of answers, and they are      *)
(* positive when there is an answer.                                       *)
LEMMA ValuesOf ==
  ASSUME NEW db, Database(db), NEW p \in Node, NEW i \in 1 .. Len(db[p]),
         NEW m, m = Cardinality(ChildSet(p)), NEW us, us = UsOf(db, p, i)
  PROVE  /\ Numbers(us, m)
         /\ Product(us) = SubtreeCount(db, p, i)
         /\ SubtreeCount(db, p, i) \in Nat
         /\ SubtreeCount(db, p, i) # 0 => Positive(us, m)
<1> DEFINE F == [j \in 1 .. m |-> Below(db, children(p)[j], i)]
<1>1. m \in Nat /\ DOMAIN children(p) = 1 .. m
  <2>1. ChildSet(p) \subseteq Node
    BY DEF ChildSet
  <2> QED BY <2>1, NodesFinite, ChildrenEnumerate
<1>2. \A j \in 1 .. m : IsFiniteSet(F[j])
  <2> TAKE j \in 1 .. m
  <2>1. children(p)[j] \in Node
    BY <1>1, ChildSubtrees
  <2> QED BY <2>1, UsingFinite
<1>3. us = [j \in 1 .. m |-> Cardinality(F[j])]
  BY <1>1 DEF UsOf
<1>4. \A j \in 1 .. m : us[j] \in Nat
  BY <1>2, <1>3, FS_CardinalityType
<1>5. Numbers(us, m)
  <2>1. us = [j \in 1 .. m |-> us[j]]
    BY <1>3
  <2>2. us \in [1 .. m -> Nat]
    BY <1>4, <2>1
  <2> QED BY <1>1, <2>1, <2>2, LenOf DEF Numbers
<1>6. SubtreeCount(db, p, i) = Cardinality(Using(db, p, i))
  BY DEF SubtreeCount, Using
<1>7. IsFiniteSet(Using(db, p, i))
  BY UsingFinite
<1>8. Cardinality(Using(db, p, i)) = Cardinality(Picks(F, 1 .. m))
  <2>1. \A j \in DOMAIN children(p) : F[j] = Below(db, children(p)[j], i)
    BY <1>1
  <2>2. PICK G : G = F
    OBVIOUS
  <2>3. \A j \in DOMAIN children(p) : G[j] = Below(db, children(p)[j], i)
    BY <2>1, <2>2
  <2>4. Cardinality(Using(db, p, i)) = Cardinality(Picks(G, DOMAIN children(p)))
    BY <2>3, AnswersAreChoices
  <2> QED BY <1>1, <2>2, <2>4
<1>9. Product(us) = Cardinality(Picks(F, 1 .. m)) /\ IsFiniteSet(Picks(F, 1 .. m))
  <2>1. IsFiniteSet(1 .. m) /\ DOMAIN us = 1 .. m
    BY <1>1, <1>3, FS_Interval
  <2>2. PICK G : G = F
    OBVIOUS
  <2>3. \A j \in 1 .. m : IsFiniteSet(G[j]) /\ us[j] = Cardinality(G[j])
    BY <1>2, <1>3, <2>2
  <2>4. FoldSeq(LAMBDA x, y : x * y, 1, us) = Cardinality(Picks(G, DOMAIN us))
    BY <2>1, <2>3, ProductOfValues
  <2>5. IsFiniteSet(Picks(G, 1 .. m))
    BY <2>1, <2>3, ProductIsChoices
  <2> QED BY <2>1, <2>2, <2>4, <2>5, Zenon DEF Product
<1>10. ASSUME NEW j \in 1 .. m, us[j] = 0 PROVE Cardinality(Picks(F, 1 .. m)) = 0
  <2>1. F[j] = {}
    BY <1>2, <1>3, <1>10, FS_EmptySet
  <2>2. Picks(F, 1 .. m) = {}
    BY <2>1 DEF Picks
  <2> QED BY <2>2, FS_EmptySet
<1> QED BY <1>5, <1>6, <1>7, <1>8, <1>9, <1>10, FS_CardinalityType DEF Positive

(* In a state (b, lambda) the row at position P has local index t.         *)
InPlace(b, lambda, P, t) ==
  b \in Int /\ lambda \in Nat \ {0} /\ P - b \in Nat /\ (P - b) \div lambda = t

(* b and lambda of a copy.                                                 *)
Rescaled(start, scale, lambda, s, P, t, d) ==
  start = P - lambda * ((t % s) + d * s) /\ scale = lambda * s

(* The new state of a copy: its local index is what is left of the number  *)
(* of the partial answer.                                                  *)
LEMMA NewState ==
  ASSUME NEW lambda \in Nat \ {0}, NEW s \in Nat \ {0}, NEW P \in Int, NEW t \in Nat, NEW d \in Nat,
         NEW start, NEW scale, Rescaled(start, scale, lambda, s, P, t, d)
  PROVE  InPlace(start, scale, P, d)
<1> USE DEF Rescaled
<1>1. PICK alpha : alpha = t % s
  OBVIOUS
<1>2. alpha \in 0 .. s - 1
  BY <1>1, Divided
<1>3. scale \in Nat \ {0}
  OBVIOUS
<1>4. PICK r : r = lambda * alpha
  OBVIOUS
<1>5. r \in 0 .. scale - 1
  <2>1. r \in Nat
    BY <1>2, <1>4
  <2>2. PICK e \in Nat : s = alpha + 1 + e
    <3>1. s - alpha - 1 \in Nat /\ s = alpha + 1 + (s - alpha - 1)
      BY <1>2
    <3> QED BY <3>1
  <2>3. lambda * s = lambda * alpha + lambda + lambda * e
    BY <1>2, <2>2
  <2>4. lambda * e \in Nat
    BY <2>2
  <2> QED BY <1>2, <1>4, <2>1, <2>3, <2>4
<1>6. P - start = scale * d + r
  <2>1. lambda * (alpha + d * s) = lambda * alpha + lambda * (d * s)
    BY <1>2
  <2>2. lambda * (d * s) = (lambda * s) * d
    OBVIOUS
  <2>3. lambda * alpha \in Int /\ (lambda * s) * d \in Int
    BY <1>2
  <2>4. start = P - (lambda * alpha + (lambda * s) * d)
    BY <1>1, <2>1, <2>2
  <2> QED BY <1>4, <2>3, <2>4
<1>7. scale * d + r \in Nat /\ start \in Int
  <2>1. scale * d \in Nat /\ r \in Nat
    BY <1>3, <1>5
  <2>2. d * s \in Nat /\ lambda * (alpha + d * s) \in Int
    BY <1>2
  <2> QED BY <1>1, <2>1, <2>2
<1>8. (scale * d + r) \div scale = d
  <2>1. PICK k : k = scale * d + r
    OBVIOUS
  <2>2. k \div scale = d
    BY <1>3, <1>5, <2>1, DividedOnce
  <2> QED BY <2>1, <2>2
<1> QED BY <1>3, <1>6, <1>7, <1>8 DEF InPlace

(* Row r stands for row i in a state where it has local index t.           *)
Carries(u, r, i, t) ==
  /\ Stands(u, r, i)
  /\ r.P \in Int /\ InPlace(r.b, r.lambda, r.P, t)

(* The number of the partial answer of child c that goes with answer t of  *)
(* row i of its parent.                                                    *)
Share(c, i, t) ==
  PartialIndex(t, UsOf(input, Parent[c], i), SuffixCount(UsOf(input, Parent[c], i)))[ChildIdx(c)]

(* The copy of a row that stands for row i in place t.                     *)
LEMMA WithStateStands ==
  ASSUME NEW c \in Node, NEW h, NEW i, Stands(c, h, i), NEW b, NEW P, NEW lambda
  PROVE  /\ Stands(c, WithState(h, b, P, lambda), i)
         /\ WithState(h, b, P, lambda).b = b /\ WithState(h, b, P, lambda).P = P
         /\ WithState(h, b, P, lambda).lambda = lambda
BY DEF WithState, Stands

(* Row k of the parent, which stands for row i, takes answer d of header   *)
(* h, and its copy stands for the row of h.                                *)
Covered(c, s, k, i, h, d) ==
  /\ Headers(c, k) # {} /\ h \in 1 .. Len(input[c]) /\ s[h] \in 1 .. Len(input[c])
  /\ Joins(c, input[Parent[c]][i], input[c][s[h]])
  /\ rank[c][h] \in Nat
  /\ d \in Nat /\ d \in 0 .. SubtreeCount(input, c, s[h]) - 1
  /\ SubtreeCount(input, c, s[h]) \in Nat
  /\ Carries(c, CopyOf(c, k), s[h], d)
  /\ CopyOf(c, k).P = tables[Parent[c]][k].P

(* The indices of row k of the parent, in its t-th answer. *)
IndicesOf(c, k, t) ==
  /\ idx[k] = t /\ sc[k] = SuffixCount(tables[Parent[c]][k].us)
  /\ pc[k] = PartialIndex(t, tables[Parent[c]][k].us, sc[k])

(* Every row of the parent with an answer finds the header that owns its   *)
(* partial answer.                                                         *)
LEMMA CopyCovers ==
  ASSUME input \in Inputs, NEW c \in NonRoot, NEW s, Standing(c, s),
         rank[c] = RankValues(c, tables[c]),
         NEW k, NEW i \in 1 .. Len(input[Parent[c]]), NEW t \in Nat,
         SubtreeCount(input, Parent[c], i) # 0,
         Carries(Parent[c], tables[Parent[c]][k], i, t), IndicesOf(c, k, t),
         NEW h, h = Owner(c, k), NEW d, d = Share(c, i, t) - rank[c][h]
  PROVE  Covered(c, s, k, i, h, d)
<1> USE DEF Covered, IndicesOf
<1> DEFINE p == Parent[c]
           m == Cardinality(ChildSet(p))
           j == ChildIdx(c)
           H == HeaderSet(c, i)
           F == HeaderAnswers(c, s)
<1>1. c \in Node /\ p \in Node /\ ~IsLeaf(p) /\ Database(input)
  BY ParentFacts, InputLen DEF Database
<1>2. m \in Nat \ {0} /\ j \in 1 .. m /\ children(p)[j] = c
  BY ChildIdxIs
<1>3. PICK us : us = UsOf(input, p, i)
  OBVIOUS
<1>4. Positive(us, m)
  BY <1>1, <1>3, ValuesOf
<1>5. PICK r : r = tables[p][k]
  OBVIOUS
<1>6. /\ r.us = us /\ r.keys = input[p][i].keys
      /\ r.b \in Int /\ r.P \in Int /\ r.lambda \in Nat \ {0}
  BY <1>1, <1>3, <1>5 DEF Carries, Stands, InPlace
<1>7. PICK sk : sk = SuffixCount(us)
  OBVIOUS
<1>8. sk[j] \in Nat \ {0} /\ sc[k] = sk
  <2>1. Positive(sk, m)
    BY <1>2, <1>4, <1>7, SuffixPositive
  <2> QED BY <1>2, <1>5, <1>6, <1>7, <2>1 DEF Positive, Numbers
<1>9. PICK e : e = pc[k][j]
  OBVIOUS
<1>10. e = Share(c, i, t) /\ e \in 0 .. us[j] - 1 /\ us[j] \in Nat
  <2>1. pc[k] = PartialIndex(t, us, sk)
    BY <1>5, <1>6, <1>8
  <2>2. PartialIndex(t, us, SuffixCount(us))[j] \in 0 .. us[j] - 1
    BY <1>2, <1>4, PartialIndexIs
  <2> QED BY <1>2, <1>3, <1>4, <1>7, <1>9, <2>1, <2>2 DEF Share, Positive, Numbers
<1>11. us[j] = Cardinality(Below(input, c, i))
  <2>1. j \in DOMAIN children(p)
    BY <1>2, ChildrenEnumerate
  <2> QED BY <1>2, <1>3, <2>1 DEF UsOf
<1>12. Headers(c, k) = H
  BY <1>5, <1>6 DEF Headers, Joins, HeaderSet
<1>13. /\ \A x \in H : s[x] \in 1 .. Len(input[c]) /\ Joins(c, input[p][i], input[c][s[x]])
       /\ LaidOut(Len(input[c]), H, F, rank[c])
       /\ Together(F, H) = Below(input, c, i)
  BY HeadersCover
<1> HIDE DEF H, F, j, m
<1>14. h = LastBefore(H, rank[c], e)
  BY <1>9, <1>12 DEF Owner, j, LastBefore
<1>15. h \in H /\ rank[c][h] \in Nat /\ rank[c][h] <= e /\ e - rank[c][h] < Cardinality(F[h])
  <2>1. PICK R : R = rank[c]
    OBVIOUS
  <2>2. PICK G : G = F
    OBVIOUS
  <2>3. PICK K : K = H
    OBVIOUS
  <2>4. LaidOut(Len(input[c]), K, G, R) /\ e \in Nat
    BY <1>10, <1>13, <2>1, <2>2, <2>3
  <2>5. e < Cardinality(Together(G, K))
    BY <1>10, <1>11, <1>13, <2>2, <2>3
  <2>6. h = LastBefore(K, R, e)
    BY <1>14, <2>1, <2>3
  <2>7. h \in K /\ R[h] \in Nat /\ R[h] <= e /\ e - R[h] < Cardinality(G[h])
    BY ONLY <2>4, <2>5, <2>6, OwnerFound
  <2> QED BY <2>1, <2>2, <2>3, <2>7
<1>16. h \in 1 .. Len(input[c]) /\ s[h] \in 1 .. Len(input[c]) /\ Joins(c, input[p][i], input[c][s[h]])
  BY <1>13, <1>15 DEF LaidOut
<1>17. Cardinality(F[h]) = SubtreeCount(input, c, s[h]) /\ SubtreeCount(input, c, s[h]) \in Nat
  <2>1. F[h] = Using(input, c, s[h])
    BY <1>16 DEF F, HeaderAnswers
  <2>2. Cardinality(F[h]) \in Nat
    BY <1>1, <2>1, UsingFinite, FS_CardinalityType
  <2> QED BY <2>1, <2>2 DEF SubtreeCount, Using
<1>18. d = e - rank[c][h] /\ d \in 0 .. SubtreeCount(input, c, s[h]) - 1 /\ d \in Nat
  BY <1>10, <1>15, <1>17
<1>19. PICK start, scale : start = r.P - r.lambda * ((t % sk[j]) + d * sk[j]) /\ scale = r.lambda * sk[j]
  OBVIOUS
<1>20. CopyOf(c, k) = WithState(tables[c][h], start, r.P, scale)
  <2>1. Headers(c, k) # {}
    BY <1>12, <1>15
  <2>2. CopyOf(c, k) = Copy(c, k, tables[c][h], rank[c][h])
    BY <2>1 DEF CopyOf
  <2>3. sc[k][ChildIdx(c)] = sk[j] /\ pc[k][ChildIdx(c)] - rank[c][h] = d /\ idx[k] = t /\ tables[Parent[c]][k] = r
    BY <1>5, <1>8, <1>9, <1>18 DEF j
  <2>4. sk[j] > 0
    BY <1>8
  <2> QED BY <1>19, <2>2, <2>3, <2>4 DEF Copy
<1>21. Stands(c, tables[c][h], s[h])
  BY <1>16 DEF Standing
<1>22. InPlace(start, scale, r.P, d)
  <2>1. PICK ld, P, sj : /\ ld = r.lambda /\ P = r.P /\ sj = sk[j]
                         /\ ld \in Nat \ {0} /\ P \in Int /\ sj \in Nat \ {0} /\ t \in Nat /\ d \in Nat
    BY <1>6, <1>8, <1>18
  <2>2. Rescaled(start, scale, ld, sj, P, t, d)
    BY <1>19, <2>1 DEF Rescaled
  <2>3. InPlace(start, scale, P, d)
    BY ONLY <2>1, <2>2, NewState
  <2> QED BY <2>1, <2>3
<1>23. PICK w : w = CopyOf(c, k)
  OBVIOUS
<1>24. Stands(c, w, s[h]) /\ w.b = start /\ w.P = r.P /\ w.lambda = scale
  BY <1>1, <1>20, <1>21, <1>23, WithStateStands
<1>25. Carries(c, w, s[h], d)
  BY <1>6, <1>22, <1>24 DEF Carries
<1> QED BY <1>5, <1>12, <1>15, <1>16, <1>17, <1>18, <1>23, <1>24, <1>25
=============================================================================
