------------------------------ MODULE JFYanProofs ------------------------------
(***************************************************************************)
(* Proofs about the top-down pass, for every join tree, set of databases,  *)
(* build and number of workers:                                            *)
(*   - between the two halves of an edge nobody changes what its worker    *)
(*     reads, and the cap on the edges in work at a time is kept;          *)
(*   - the state has its type, every table keeps the columns the pass      *)
(*     reads, and what a worker reads is ready (Progress, Shapes, Ready);  *)
(*   - with the exact size as target, handing positions down follows one   *)
(*     answer of the join per position (Following), so that no position is *)
(*     lost or doubled, the copies of neighbours join, and the rows that   *)
(*     are read off are the join, each combination once;                   *)
(*   - then also the copies of a row share out its turns evenly;           *)
(*   - a join without answers leaves one row of dummies (DummyRow), so     *)
(*     that every step of the join is a step of AcyclicJoin or a stutter.  *)
(***************************************************************************)
EXTENDS JFYan, JFYanDownProofs

Working == {c \in NonRoot : work[c] = "ranked"}

(* The arrays that the workers share keep their index sets. *)
Arrays ==
  /\ DOMAIN tables = Node
  /\ DOMAIN rank = NonRoot /\ DOMAIN temp = NonRoot
  /\ work \in [NonRoot -> {"idle", "ranked", "copied", "sorted"}]

(* The top-down pass begins when the bottom-up pass has ended.             *)
PassesApart == phase # "off" => stage = "done"

(* An edge in work leads to a child of the current node.                   *)
Current == \A c \in Working : phase = "edges" /\ Parent[c] = order[oi + 1]

Capped == Cardinality(Working) <= EdgeWorkers

(* The tables keep their rows until the top-down pass replaces them. *)
RowsUp == phase = "off" => Rows

DInv == IInv /\ Arrays /\ PassesApart /\ Current /\ Capped

-----------------------------------------------------------------------------
LEMMA NoSelfLoop ==
  ASSUME NEW c \in NonRoot, NEW d \in NonRoot, Parent[c] = Parent[d]
  PROVE  Parent[c] # d
<1>1. Depth[d] = 1 + Depth[Parent[c]]
  BY ParentFacts
<1>2. Depth[Parent[c]] \in 0 .. N-1
  BY ParentFacts, DepthType
<1> QED BY <1>1, <1>2

LEMMA FewEdges == IsFiniteSet(NonRoot)
<1>1. IsFiniteSet(Node)
  BY FS_Interval, TreeAssumption DEF Node
<1> QED BY <1>1, FS_Subset DEF NonRoot

(* The bottom-up pass is over when it is done: none of its steps is left.  *)
LEMMA UpIsOver == IInv /\ stage = "done" => ~Next
<1> SUFFICES ASSUME IInv, stage = "done" PROVE ~Next
  OBVIOUS
<1>1. ASSUME NEW c \in NonRoot PROVE ~BeginEdge(c) /\ ~EndEdge(c)
  BY RunningEdge DEF BeginEdge, EndEdge
<1>2. ASSUME NEW p \in Node PROVE ~UpdateNode(p)
  BY DEF UpdateNode, IInv, Schedule
<1>3. ~NextLevel /\ ~AssignPositions /\ ~ExpandRoot /\ ~NumberAndPad
  BY DEF NextLevel, AssignPositions, ExpandRoot, NumberAndPad
<1> QED BY <1>1, <1>2, <1>3 DEF Next

(* Steps of the top-down pass keep the invariant of the bottom-up pass.    *)
LEMMA UpKept == IInv /\ UNCHANGED upVars => IInv'
BY DEF IInv, ControlOK, Schedule, EdgesDone, upVars

-----------------------------------------------------------------------------
LEMMA DInvInit == JInit => DInv
<1> SUFFICES ASSUME JInit PROVE DInv
  OBVIOUS
<1>1. Init /\ DownInit
  BY DEF JInit
<1>2. IInv
  BY <1>1, ScheduleInit
<1>3. Arrays
  BY <1>1, InputAssumption DEF Init, DownInit, Arrays
<1>4. Working = {} /\ PassesApart
  BY <1>1 DEF DownInit, Working, PassesApart
<1>5. Capped
  BY <1>4, FS_EmptySet, JFYanAssumption DEF Capped
<1> QED BY <1>2, <1>3, <1>4, <1>5 DEF DInv, Current

(* The steps that touch no edge in work. *)
LEMMA SameWork ==
  ASSUME DInv, Arrays', Working' = {} \/ (Working' = Working /\ phase' = phase /\ oi' = oi)
  PROVE  Current' /\ Capped'
<1>1. CASE Working' = {}
  BY <1>1, FS_EmptySet, JFYanAssumption DEF Current, Capped
<1>2. CASE Working' = Working /\ phase' = phase /\ oi' = oi
  <2>1. Capped'
    BY <1>2 DEF DInv, Capped
  <2>2. order' = order
    OBVIOUS
  <2>3. Current'
    BY <1>2, <2>2 DEF DInv, Current
  <2> QED BY <2>1, <2>3
<1> QED BY <1>1, <1>2

LEMMA RankKeeps ==
  ASSUME DInv, UNCHANGED upVars, NEW c \in NonRoot, RankChild(c)
  PROVE  DInv'
<1>1. /\ phase = "edges" /\ Parent[c] = order[oi + 1] /\ work[c] = "idle"
      /\ work' = [work EXCEPT ![c] = "ranked"]
      /\ phase' = phase /\ oi' = oi
      /\ \E t : tables' = [tables EXCEPT ![c] = t]
      /\ \E r : rank' = [rank EXCEPT ![c] = r]
      /\ temp' = temp
  BY DEF RankChild
<1>2. Arrays'
  BY <1>1 DEF DInv, Arrays
<1>3. Working' = Working \cup {c} /\ c \notin Working
  BY <1>1 DEF DInv, Arrays, Working
<1>4. Current'
  BY <1>1, <1>3 DEF DInv, Current
<1>5. Working = {s \in ChildSet(Parent[c]) : work[s] = "ranked"}
  <2>1. \A s \in Working : s \in ChildSet(Parent[c])
    BY <1>1, ParentFacts DEF DInv, Current, Working
  <2>2. \A s \in ChildSet(Parent[c]) : s \in NonRoot
    BY ChildFacts, ParentFacts
  <2> QED BY <2>1, <2>2 DEF Working
<1>6. Cardinality(Working) < EdgeWorkers
  <2>1. FreeWorker(Parent[c])
    BY DEF RankChild
  <2> QED BY <2>1, <1>5 DEF FreeWorker
<1>7. IsFiniteSet(Working)
  BY FewEdges, FS_Subset DEF Working
<1>8. Cardinality(Working') = Cardinality(Working) + 1 /\ Cardinality(Working) \in Nat
  BY <1>3, <1>7, FS_AddElement, FS_CardinalityType
<1>9. Capped'
  BY <1>6, <1>8, JFYanAssumption DEF Capped
<1>10. PassesApart'
  BY <1>1 DEF DInv, PassesApart, upVars
<1> QED BY <1>2, <1>4, <1>9, <1>10, UpKept DEF DInv

LEMMA CopyKeeps ==
  ASSUME DInv, UNCHANGED upVars, NEW c \in NonRoot, CopyToChild(c)
  PROVE  DInv'
<1>1. /\ work[c] = "ranked" /\ work' = [work EXCEPT ![c] = "copied"]
      /\ phase' = phase /\ oi' = oi /\ rank' = rank
      /\ tables' = tables \/ \E t : tables' = [tables EXCEPT ![c] = t]
      /\ \E t : temp' = [temp EXCEPT ![c] = t]
  BY DEF CopyToChild
<1>2. Arrays'
  BY <1>1 DEF DInv, Arrays
<1>3. Working' = Working \ {c} /\ c \in Working
  BY <1>1 DEF DInv, Arrays, Working
<1>4. Current'
  BY <1>1, <1>3 DEF DInv, Current
<1>5. IsFiniteSet(Working)
  BY FewEdges, FS_Subset DEF Working
<1>6. Cardinality(Working') = Cardinality(Working) - 1 /\ Cardinality(Working) \in Nat
  BY <1>3, <1>5, FS_RemoveElement, FS_CardinalityType
<1>7. Capped'
  BY <1>6, JFYanAssumption DEF DInv, Capped
<1>8. PassesApart'
  BY <1>1 DEF DInv, PassesApart, upVars
<1> QED BY <1>2, <1>4, <1>7, <1>8, UpKept DEF DInv

LEMMA RestKeeps ==
  ASSUME DInv, UNCHANGED upVars,
         \/ PrepareNode \/ LeaveNode \/ StartFinalSort \/ Materialize
         \/ \E c \in NonRoot : FinalSort(c)
  PROVE  DInv'
<1>1. Arrays' /\ PassesApart'
  BY DEF DInv, Arrays, PassesApart, upVars, PrepareNode, LeaveNode, StartFinalSort,
         Materialize, FinalSort
<1>2. Working' = {}
  <2>1. CASE PrepareNode \/ StartFinalSort \/ Materialize
    BY <2>1 DEF DInv, Current, Working, PrepareNode, StartFinalSort, Materialize
  <2>2. ASSUME NEW c \in NonRoot, FinalSort(c) PROVE Working' = {}
    <3>1. Working = {} /\ work' = [work EXCEPT ![c] = "sorted"]
      BY <2>2 DEF DInv, Current, FinalSort
    <3> QED BY <3>1 DEF DInv, Arrays, Working
  <2>3. CASE LeaveNode
    <3>1. work' = work /\ \A c \in ChildSet(order[oi + 1]) : work[c] = "copied"
      BY <2>3 DEF LeaveNode, ChildrenCopied
    <3>2. \A c \in Working : c \in ChildSet(order[oi + 1])
      BY ParentFacts DEF DInv, Current, Working
    <3> QED BY <3>1, <3>2 DEF Working
  <2> QED BY <2>1, <2>2, <2>3
<1> QED BY <1>1, <1>2, SameWork, UpKept DEF DInv

(* No step of the top-down pass returns to the state before it. *)
LEMMA NeverOffAgain ==
  ASSUME DInv, DownNext
  PROVE  phase # "off" /\ phase' # "off"
<1>1. ASSUME NEW c \in NonRoot, CopyToChild(c)
      PROVE  phase = "edges" /\ phase' = phase
  BY <1>1 DEF DInv, Current, Working, CopyToChild
<1> QED BY <1>1 DEF DownNext, PrepareNode, RankChild, FinalSort, LeaveNode,
                              StartFinalSort, Materialize

LEMMA DInvStep == DInv /\ RowsUp /\ [JNext]_allVars => DInv' /\ RowsUp'
<1> SUFFICES ASSUME DInv, RowsUp, [JNext]_allVars PROVE DInv' /\ RowsUp'
  OBVIOUS
<1>1. CASE Next /\ UNCHANGED downOnly
  <2>2. stage # "done" /\ phase = "off" /\ phase' = "off"
    BY <1>1, UpIsOver DEF DInv, PassesApart, downOnly
  <2>1. IInv' /\ Rows' /\ RowsUp'
    BY <1>1, <2>2, ScheduleStep, RowsStep DEF DInv, RowsUp
  <2>3. Arrays' /\ PassesApart'
    BY <1>1, <2>1, <2>2 DEF DInv, Arrays, PassesApart, Rows, ShapeOK, downOnly
  <2>4. Working' = Working /\ phase' = phase /\ oi' = oi
    BY <1>1 DEF Working, downOnly
  <2> QED BY <2>1, <2>3, <2>4, SameWork DEF DInv
<1>2. CASE StartDown
  <2>1. UNCHANGED upVars /\ Arrays' /\ PassesApart'
    BY <1>2 DEF StartDown, DInv, Arrays, PassesApart, upVars
  <2>2. Working' = {}
    BY <1>2 DEF StartDown, DInv, Current, Working
  <2>3. phase' # "off"
    BY <1>2 DEF StartDown
  <2> QED BY <2>1, <2>2, <2>3, SameWork, UpKept DEF DInv, RowsUp
<1>3. CASE DownNext /\ UNCHANGED upVars
  <2>1. DInv'
    BY <1>3, RankKeeps, CopyKeeps, RestKeeps DEF DownNext
  <2> QED BY <1>3, <2>1, NeverOffAgain DEF RowsUp
<1>4. CASE UNCHANGED allVars
  <2>1. UNCHANGED upVars /\ UNCHANGED <<tables, downOnly>>
    BY <1>4 DEF allVars, vars, upVars
  <2>2. Arrays' /\ PassesApart' /\ Working' = Working /\ phase' = phase /\ oi' = oi
    BY <2>1 DEF DInv, Arrays, PassesApart, Working, downOnly, upVars
  <2>3. RowsUp'
    BY <2>1 DEF RowsUp, Rows, ShapeOK, Listed, upVars, downOnly
  <2> QED BY <2>1, <2>2, <2>3, SameWork, UpKept DEF DInv
<1> QED BY <1>1, <1>2, <1>3, <1>4 DEF JNext
(* The two passes keep apart, the edges in work belong to the current node *)
(* and there are never more of them than workers.                          *)
THEOREM DownInvariant == JSpec => [](DInv /\ RowsUp)
<1>1. JInit => DInv /\ RowsUp
  BY DInvInit, RowsInit DEF JInit, RowsUp
<1> QED BY <1>1, DInvStep, PTL DEF JSpec

(* At most edgeWorkers edges of a node are in work at a time.              *)
THEOREM WorkersCapped == JSpec => [](Cardinality({c \in NonRoot : work[c] = "ranked"}) <= EdgeWorkers)
<1>1. DInv => Cardinality({c \in NonRoot : work[c] = "ranked"}) <= EdgeWorkers
  BY DEF DInv, Capped, Working
<1> QED BY <1>1, DownInvariant, PTL

-----------------------------------------------------------------------------
(* One edge, one step: what a worker between its halves finds again. *)
Isolated(c) ==
  /\ tables'[Parent[c]] = tables[Parent[c]]
  /\ <<idx, sc, pc, rank[c]>>' = <<idx, sc, pc, rank[c]>>
  /\ work'[c] = "ranked" => tables'[c] = tables[c]

(* Another worker takes an edge: it is a sibling's. *)
LEMMA RankIsolated ==
  ASSUME DInv, NEW c \in Working, NEW d \in NonRoot, RankChild(d)
  PROVE  Isolated(c)
<1>1. /\ Parent[d] = order[oi + 1] /\ work[d] = "idle"
      /\ UNCHANGED <<idx, sc, pc>>
      /\ \E t : tables' = [tables EXCEPT ![d] = t]
      /\ \E r : rank' = [rank EXCEPT ![d] = r]
  BY DEF RankChild
<1>2. c \in NonRoot /\ c # d /\ Parent[c] = Parent[d]
  BY <1>1 DEF Working, DInv, Current
<1>3. Parent[c] # d /\ c \in Node /\ Parent[c] \in Node
  BY <1>2, NoSelfLoop, ParentFacts
<1> QED BY <1>1, <1>2, <1>3 DEF Isolated, DInv, Arrays

(* A worker writes the child of its own edge and nothing else; a sibling's *)
(* worker reads neither.                                                   *)
LEMMA CopyIsolated ==
  ASSUME DInv, NEW c \in Working, NEW d \in NonRoot, CopyToChild(d)
  PROVE  Isolated(c)
<1>1. /\ work[d] = "ranked" /\ work' = [work EXCEPT ![d] = "copied"]
      /\ UNCHANGED <<idx, sc, pc, rank>>
      /\ tables' = tables \/ \E t : tables' = [tables EXCEPT ![d] = t]
  BY DEF CopyToChild
<1>2. c \in NonRoot /\ Parent[c] = Parent[d]
  BY <1>1 DEF Working, DInv, Current
<1>3. Parent[c] # d /\ c \in Node /\ Parent[c] \in Node
  BY <1>2, NoSelfLoop, ParentFacts
<1>4. c = d => work'[c] = "copied"
  BY <1>1, <1>2 DEF DInv, Arrays
<1> QED BY <1>1, <1>2, <1>3, <1>4 DEF Isolated, DInv, Arrays

LEMMA StepIsolated ==
  ASSUME DInv, [JNext]_allVars, NEW c \in Working
  PROVE  Isolated(c)
<1>1. phase = "edges" /\ stage = "done" /\ c \in NonRoot /\ work[c] = "ranked"
      /\ c \in ChildSet(order[oi + 1])
  BY ParentFacts DEF DInv, Current, PassesApart, Working
<1>2. ~Next
  BY <1>1, UpIsOver DEF DInv
<1>3. ~StartDown /\ ~PrepareNode /\ ~StartFinalSort /\ ~Materialize
      /\ \A d \in NonRoot : ~FinalSort(d)
  BY <1>1 DEF StartDown, PrepareNode, StartFinalSort, Materialize, FinalSort
<1>4. ~LeaveNode
  BY <1>1 DEF LeaveNode, ChildrenCopied
<1>5. CASE UNCHANGED allVars
  BY <1>5 DEF allVars, vars, downOnly, Isolated
<1> QED BY <1>2, <1>3, <1>4, <1>5, RankIsolated, CopyIsolated DEF JNext, DownNext

(* While a worker is between the two halves of an edge nobody changes what *)
(* it reads.                                                               *)
THEOREM EdgesIsolatedTheorem == JSpec => EdgesIsolated
<1> DEFINE AllIsolated == \A c \in NonRoot : work[c] = "ranked" =>
             /\ tables'[Parent[c]] = tables[Parent[c]]
             /\ <<idx, sc, pc, rank[c]>>' = <<idx, sc, pc, rank[c]>>
             /\ work'[c] = "ranked" => tables'[c] = tables[c]
<1>1. DInv /\ [JNext]_allVars => [AllIsolated]_allVars
  BY StepIsolated DEF Working, Isolated
<1> QED BY <1>1, DownInvariant, PTL DEF JSpec, EdgesIsolated

-----------------------------------------------------------------------------
(* What the caller asks for is at least one row. *)
Wanted ==
  /\ input \in Inputs
  /\ target \in Nat \ {0}
  /\ \E tau \in Taus : target = materializedOutSize(input, tau)

(* Everything known of the bottom-up pass, up to the moment it hands over. *)
Handing == phase = "off" => Rows /\ Counted /\ Placing /\ Kept

LEMMA JoinSizeType ==
  ASSUME NEW db \in Inputs
  PROVE  JoinSize(db) \in Nat /\ Database(db)
<1>1. Database(db)
  BY InputLen DEF Database
<1>2. IsFiniteSet(Matches(db, Node))
  BY <1>1, MatchesFinite
<1> QED BY <1>1, <1>2, FS_CardinalityType DEF JoinSize

LEMMA WantedInit == JInit => Wanted
<1> SUFFICES ASSUME JInit PROVE Wanted
  OBVIOUS
<1>1. input \in Inputs
  BY DEF JInit, Init
<1>2. PICK tau \in Taus : target = materializedOutSize(input, tau)
  BY DEF JInit
<1>3. tau \in Nat
  BY JFYanAssumption
<1>4. CASE tau > 0
  BY <1>1, <1>2, <1>3, <1>4 DEF Wanted, materializedOutSize
<1>5. CASE ~(tau > 0)
  <2>1. PICK s : s = JoinSize(input)
    OBVIOUS
  <2>2. s \in Nat
    BY <1>1, <2>1, JoinSizeType
  <2>3. target = Max({1, s})
    BY <1>2, <1>5, <2>1 DEF materializedOutSize
  <2>4. Max({1, s}) \in Nat \ {0}
    BY <2>2, MaxOfTwo
  <2> QED BY <1>1, <1>2, <2>3, <2>4 DEF Wanted
<1> QED BY <1>4, <1>5

LEMMA WantedStep == Wanted /\ [JNext]_allVars => Wanted'
<1>1. [JNext]_allVars => UNCHANGED <<input, target>>
  BY DEF JNext, allVars, vars, upVars, StartDown, Next, BeginEdge, EndEdge, UpdateNode, NextLevel, AssignPositions, ExpandRoot, NumberAndPad
<1> QED BY <1>1 DEF Wanted

LEMMA HandingStep ==
  ASSUME N > 1, DInv, Wanted, Handing, [JNext]_allVars
  PROVE  Handing'
<1>1. CASE Next /\ UNCHANGED downOnly
  <2>1. phase = "off" /\ phase' = "off"
    BY <1>1, UpIsOver DEF DInv, PassesApart, downOnly
  <2>2. Rows /\ Counted /\ Placing /\ Kept /\ IInv /\ target \in Nat /\ [Next]_vars
    BY <1>1, <2>1 DEF Handing, DInv, Wanted
  <2> QED BY <2>2, RowsStep, CountedStep, PlacingStep, KeptStep DEF Handing
<1>2. CASE StartDown
  BY <1>2 DEF StartDown, Handing
<1>3. CASE DownNext /\ UNCHANGED upVars
  BY <1>3, NeverOffAgain DEF Handing
<1>4. CASE UNCHANGED allVars
  <2>1. [Next]_vars /\ phase' = phase
    BY <1>4 DEF allVars, downOnly
  <2>2. phase = "off" => Rows /\ Counted /\ Placing /\ Kept /\ IInv /\ target \in Nat
    BY DEF Handing, DInv, Wanted
  <2> QED BY <2>1, <2>2, RowsStep, CountedStep, PlacingStep, KeptStep DEF Handing
<1> QED BY <1>1, <1>2, <1>3, <1>4 DEF JNext

LEMMA HandingInit == JInit => Handing
BY RowsInit, CountedInit, PlacingInit DEF JInit, Handing, Kept, Init

-----------------------------------------------------------------------------
(* Shapes. *)

(* The rows of the output. *)
Out == Max({JoinSize(input), target})

(* Relations that have one row per output position. *)
Positioned(u) == u = Root \/ (~IsLeaf(u) /\ Copied(u))

Table(t, n) == DOMAIN t = 1 .. n /\ Len(t) = n

(* Where the pass stands in the tree: the nodes that it has left have all  *)
(* their children copied, and it works only below relations that have been *)
(* placed.                                                                 *)
Progress ==
  /\ phase \in {"off", "node", "edges", "sort", "done"}
  /\ oi \in 0 .. Len(order)
  /\ phase = "off" => oi = 0 /\ \A c \in NonRoot : work[c] = "idle"
  /\ phase = "edges" => oi < Len(order)
  /\ phase \in {"sort", "done"} => oi = Len(order)
  /\ phase = "done" => \A c \in NonRoot : work[c] = "sorted"
  /\ \A k \in 1 .. oi : \A c \in ChildSet(order[k]) : Copied(c)
  /\ \A c \in NonRoot : work[c] # "idle" => Positioned(Parent[c])
  /\ \A c \in NonRoot : work[c] = "sorted" => phase \in {"sort", "done"}

Shapes ==
  phase # "off" =>
    /\ \A u \in Node : Table(tables[u], IF Positioned(u) THEN Out ELSE Len(input[u]))
    /\ \A c \in NonRoot : Copied(c) => Table(temp[c], Out)
    /\ phase = "edges" => DOMAIN idx = 1 .. Out /\ DOMAIN sc = 1 .. Out /\ DOMAIN pc = 1 .. Out

LEMMA OutType == Wanted => Out \in Nat \ {0} /\ target <= Out
<1> SUFFICES ASSUME Wanted PROVE Out \in Nat \ {0} /\ target <= Out
  OBVIOUS
<1>1. PICK s : s = JoinSize(input)
  OBVIOUS
<1>2. s \in Nat /\ target \in Nat \ {0}
  BY <1>1, JoinSizeType DEF Wanted
<1>3. Max({s, target}) \in Nat \ {0} /\ target <= Max({s, target})
  BY <1>2, MaxOfTwo
<1> QED BY <1>1, <1>3 DEF Out

LEMMA InputLength ==
  ASSUME Wanted, NEW u \in Node
  PROVE  Len(input[u]) \in Nat \ {0}
BY InputLen DEF Wanted

(* The node whose turn it is has been placed. *)
LEMMA CurrentPlaced ==
  ASSUME Progress, oi < Len(order)
  PROVE  /\ order[oi + 1] \in Node /\ ~IsLeaf(order[oi + 1]) /\ Positioned(order[oi + 1])
         /\ oi + 1 \in 1 .. Len(order)
<1>1. oi + 1 \in 1 .. Len(order) /\ oi \in Nat /\ Len(order) \in Nat
  BY OrderIs DEF Progress
<1>2. order[oi + 1] \in Node /\ ~IsLeaf(order[oi + 1])
  BY <1>1, OrderIs
<1>3. CASE order[oi + 1] # Root
  <2>1. PICK l \in 1 .. oi + 1 - 1 : order[l] = Parent[order[oi + 1]]
    BY <1>1, <1>3, OrderIs
  <2>2. l \in 1 .. oi
    BY <1>1
  <2>3. order[oi + 1] \in ChildSet(order[l])
    BY <1>2, <1>3, <2>1, ParentFacts DEF NonRoot
  <2> QED BY <1>1, <1>2, <2>2, <2>3 DEF Progress, Positioned
<1> QED BY <1>1, <1>2, <1>3 DEF Positioned

(* Sorting keeps the shape. *)
LEMMA SortedTable ==
  ASSUME NEW n \in Nat, NEW s, Table(s, n), NEW key, NEW r, r \in Arrangements(s, key)
  PROVE  Table(r, n) /\ \E o : Permutes(o, n) /\ Arranged(o, n, key) /\ \A k \in 1 .. n : r[k] = s[o[k]]
<1>1. PICK o : Permutes(o, n) /\ Arranged(o, n, key) /\ r = [k \in 1 .. n |-> s[o[k]]]
  BY Sorting DEF Table
<1>2. r = [k \in 1 .. n |-> r[k]]
  BY <1>1
<1>3. Len(r) = n
  BY <1>2, LenOf
<1> QED BY <1>1, <1>3 DEF Table

LEMMA StateOrdered ==
  ASSUME NEW n \in Nat, NEW p, Table(tables[p], n), NEW rows, rows \in InStateOrder(p)
  PROVE  /\ Table(rows, n)
         /\ p = Root => rows = tables[p]
         /\ \E o : Permutes(o, n) /\ \A k \in 1 .. n : rows[k] = tables[p][o[k]]
<1>1. CASE p = Root
  <2>1. PICK o : o = [k \in 1 .. n |-> k]
    OBVIOUS
  <2>2. Permutes(o, n) /\ rows = tables[p] /\ \A k \in 1 .. n : rows[k] = tables[p][o[k]]
    BY <1>1, <2>1 DEF Permutes, InStateOrder
  <2> QED BY <2>2
<1>2. CASE p # Root
  <2>1. rows \in Arrangements(tables[p], [i \in DOMAIN tables[p] |-> StateTid(tables[p][i])])
    BY <1>2 DEF InStateOrder
  <2>2. PICK key : rows \in Arrangements(tables[p], key)
    BY <2>1
  <2> QED BY <1>2, <2>2, SortedTable
<1> QED BY <1>1, <1>2

LEMMA ProgressInit == JInit => Progress /\ Shapes
BY OrderIs DEF JInit, DownInit, Progress, Shapes

LEMMA ProgressRank ==
  ASSUME DInv, Progress, NEW c \in NonRoot, RankChild(c)
  PROVE  Progress'
<1>1. /\ phase = "edges" /\ Parent[c] = order[oi + 1] /\ work[c] = "idle"
      /\ work' = [work EXCEPT ![c] = "ranked"] /\ UNCHANGED <<phase, oi>>
  BY DEF RankChild
<1>2. \A d \in NonRoot : work'[d] = IF d = c THEN "ranked" ELSE work[d]
  BY <1>1 DEF DInv, Arrays
<1>3. \A u \in Node : Positioned(u) => Positioned(u)'
  BY <1>1, <1>2 DEF Positioned, Copied, NonRoot
<1>4. \A d \in NonRoot : work'[d] # "idle" => Positioned(Parent[d])
  BY <1>1, <1>2, CurrentPlaced DEF Progress
<1>5. \A d \in NonRoot : work'[d] # "idle" => Positioned(Parent[d])'
  BY <1>3, <1>4, ParentFacts
<1>6. \A k \in 1 .. oi : \A d \in ChildSet(order[k]) : Copied(d)'
  <2> TAKE k \in 1 .. oi
  <2> TAKE d \in ChildSet(order[k])
  <2>1. order[k] \in Node
    BY OrderIs DEF Progress
  <2> QED BY <1>1, <1>2, <2>1, ChildFacts DEF Progress, Copied
<1> QED BY <1>1, <1>2, <1>5, <1>6 DEF Progress

LEMMA ProgressCopy ==
  ASSUME DInv, Progress, NEW c \in NonRoot, CopyToChild(c)
  PROVE  Progress'
<1>1. /\ work[c] = "ranked" /\ work' = [work EXCEPT ![c] = "copied"] /\ UNCHANGED <<phase, oi>>
      /\ phase = "edges"
  BY DEF CopyToChild, DInv, Current, Working
<1>2. \A d \in NonRoot : work'[d] = IF d = c THEN "copied" ELSE work[d]
  BY <1>1 DEF DInv, Arrays
<1>3. \A u \in Node : Positioned(u) => Positioned(u)'
  BY <1>1, <1>2 DEF Positioned, Copied, NonRoot
<1>5. \A d \in NonRoot : work'[d] # "idle" => Positioned(Parent[d])'
  BY <1>1, <1>2, <1>3, ParentFacts DEF Progress
<1>6. \A k \in 1 .. oi : \A d \in ChildSet(order[k]) : Copied(d)'
  <2> TAKE k \in 1 .. oi
  <2> TAKE d \in ChildSet(order[k])
  <2>1. order[k] \in Node
    BY OrderIs DEF Progress
  <2> QED BY <1>1, <1>2, <2>1, ChildFacts DEF Progress, Copied
<1> QED BY <1>1, <1>2, <1>5, <1>6 DEF Progress

LEMMA ProgressSort ==
  ASSUME DInv, Progress, NEW c \in NonRoot, FinalSort(c)
  PROVE  Progress'
<1>1. /\ phase = "sort" /\ work[c] = "copied" /\ work' = [work EXCEPT ![c] = "sorted"]
      /\ UNCHANGED <<phase, oi>>
  BY DEF FinalSort
<1>2. \A d \in NonRoot : work'[d] = IF d = c THEN "sorted" ELSE work[d]
  BY <1>1 DEF DInv, Arrays
<1>3. \A u \in Node : Positioned(u) => Positioned(u)'
  BY <1>1, <1>2 DEF Positioned, Copied, NonRoot
<1>5. \A d \in NonRoot : work'[d] # "idle" => Positioned(Parent[d])'
  BY <1>1, <1>2, <1>3, ParentFacts DEF Progress
<1>6. \A k \in 1 .. oi : \A d \in ChildSet(order[k]) : Copied(d)'
  <2> TAKE k \in 1 .. oi
  <2> TAKE d \in ChildSet(order[k])
  <2>1. order[k] \in Node
    BY OrderIs DEF Progress
  <2> QED BY <1>1, <1>2, <2>1, ChildFacts DEF Progress, Copied
<1> QED BY <1>1, <1>2, <1>5, <1>6 DEF Progress

LEMMA ProgressLeave ==
  ASSUME DInv, Progress, LeaveNode
  PROVE  Progress'
<1>1. phase = "edges" /\ oi' = oi + 1 /\ phase' = "node" /\ work' = work /\ oi < Len(order)
      /\ \A c \in ChildSet(order[oi + 1]) : work[c] = "copied"
  BY DEF LeaveNode, ChildrenCopied, Progress
<1>2. oi \in Nat /\ Len(order) \in Nat
  BY OrderIs DEF Progress
<1>3. oi' \in 0 .. Len(order) /\ 1 .. oi' = 1 .. oi \cup {oi + 1}
  BY <1>1, <1>2
<1>4. \A k \in 1 .. oi' : \A c \in ChildSet(order[k]) : Copied(c)
  BY <1>1, <1>3 DEF Progress, Copied
<1>5. \A u : (Positioned(u)' <=> Positioned(u)) /\ (Copied(u)' <=> Copied(u))
  BY <1>1 DEF Positioned, Copied
<1> QED BY <1>1, <1>3, <1>4, <1>5 DEF Progress

LEMMA ProgressStep ==
  ASSUME N > 1, DInv, Progress, Wanted, Handing, [JNext]_allVars
  PROVE  Progress'
<1>1. CASE Next /\ UNCHANGED downOnly
  BY <1>1 DEF downOnly, Progress, Positioned, Copied
<1>2. CASE StartDown
  <2>1. phase = "off" /\ stage = "done" /\ oi' = oi /\ work' = work
    BY <1>2 DEF StartDown
  <2>2. DOMAIN tables[Root] = 1 .. Out
    BY <2>1 DEF Handing, Placing, Numbered, Out
  <2>3. tables[Root] # <<>>
    <3>1. 1 \in DOMAIN tables[Root]
      BY <2>2, OutType
    <3> QED BY <3>1
  <2>4. phase' = "node"
    BY <1>2, <2>3 DEF StartDown
  <2> QED BY <2>1, <2>4 DEF Progress, Positioned, Copied
<1>3. CASE PrepareNode \/ StartFinalSort
  <2>1. work' = work /\ oi' = oi /\ phase = "node"
    BY <1>3 DEF PrepareNode, StartFinalSort
  <2>2. \A u : (Positioned(u)' <=> Positioned(u)) /\ (Copied(u)' <=> Copied(u))
    BY <2>1 DEF Positioned, Copied
  <2>3. \/ phase' = "edges" /\ oi < Len(order)
        \/ phase' = "sort" /\ oi = Len(order)
    BY <1>3 DEF PrepareNode, StartFinalSort
  <2> QED BY <2>1, <2>2, <2>3 DEF Progress
<1>4. CASE Materialize
  BY <1>4 DEF Materialize, Progress, Positioned, Copied
<1>5. CASE UNCHANGED allVars
  BY <1>5 DEF allVars, downOnly, Progress, Positioned, Copied
<1> QED BY <1>1, <1>2, <1>3, <1>4, <1>5, ProgressRank, ProgressCopy, ProgressSort, ProgressLeave DEF JNext, DownNext

LEMMA ShapesStart ==
  ASSUME N > 1, Progress, Wanted, Handing, StartDown
  PROVE  Shapes'
<1>1. phase = "off" /\ stage = "done" /\ UNCHANGED <<tables, input, target, work, oi>> /\ phase' # "edges"
  BY DEF StartDown, upVars
<1>2. \A u \in Node : Positioned(u) <=> u = Root
  BY <1>1 DEF Progress, Positioned, Copied, NonRoot
<1>3. Rows /\ Numbered
  BY <1>1 DEF Handing, Placing
<1>4. Table(tables[Root], Out)
  BY <1>3 DEF Numbered, Out, Table
<1>5. \A u \in NonRoot : Table(tables[u], Len(input[u]))
  BY <1>1, <1>3 DEF Rows, ShapeOK, Listed, Table, NonRoot
<1>6. \A u \in Node : (Positioned(u)' <=> Positioned(u)) /\ (Copied(u)' <=> Copied(u))
  BY <1>1 DEF Positioned, Copied
<1>7. \A c \in NonRoot : ~Copied(c)
  BY <1>1 DEF Progress, Copied
<1>8. Out' = Out
  BY <1>1 DEF Out
<1>9. \A u \in Node : Table(tables[u], IF Positioned(u) THEN Out ELSE Len(input[u]))
  BY <1>2, <1>4, <1>5 DEF NonRoot
<1>10. \A u \in Node : Table(tables[u], IF Positioned(u) THEN Out ELSE Len(input[u]))'
  BY <1>1, <1>6, <1>8, <1>9 DEF Table
<1> QED BY <1>1, <1>6, <1>7, <1>10 DEF Shapes, NonRoot

LEMMA ShapesPrepare ==
  ASSUME DInv, Progress, Wanted, Shapes, UNCHANGED upVars, PrepareNode
  PROVE  Shapes'
<1> DEFINE p == order[oi + 1]
<1>1. phase = "node" /\ oi < Len(order) /\ UNCHANGED <<work, temp, input, target>>
  BY DEF PrepareNode, upVars
<1>2. PICK rows \in InStateOrder(p) :
        /\ tables' = [tables EXCEPT ![p] = rows]
        /\ idx' = LocalIndex(rows) /\ DOMAIN sc' = DOMAIN rows /\ DOMAIN pc' = DOMAIN rows
  BY DEF PrepareNode
<1>3. p \in Node /\ Positioned(p)
  BY <1>1, CurrentPlaced
<1>4. Table(tables[p], Out) /\ Out \in Nat
  BY <1>1, <1>3, OutType DEF Shapes
<1>5. Table(rows, Out)
  BY <1>2, <1>4, StateOrdered
<1>6. DOMAIN idx' = 1 .. Out /\ DOMAIN sc' = 1 .. Out /\ DOMAIN pc' = 1 .. Out
  BY <1>2, <1>5 DEF Table, LocalIndex
<1>7. \A u \in Node : (Positioned(u)' <=> Positioned(u)) /\ (Copied(u)' <=> Copied(u))
  BY <1>1 DEF Positioned, Copied
<1>8. \A u \in Node : Table(tables'[u], IF Positioned(u) THEN Out ELSE Len(input[u]))
  <2> TAKE u \in Node
  <2> HIDE DEF p
  <2>1. tables'[u] = IF u = p THEN rows ELSE tables[u]
    BY <1>2, <1>3 DEF DInv, Arrays
  <2> QED BY <1>1, <1>3, <1>5, <2>1 DEF Shapes
<1>9. Out' = Out
  BY <1>1 DEF Out
<1>10. \A u \in Node : Table(tables[u], IF Positioned(u) THEN Out ELSE Len(input[u]))'
  BY <1>1, <1>7, <1>8, <1>9 DEF Table
<1>11. \A c \in NonRoot : Copied(c)' => Table(temp[c], Out)'
  BY <1>1, <1>7, <1>9 DEF Shapes, Table, NonRoot
<1> QED BY <1>6, <1>9, <1>10, <1>11 DEF Shapes

LEMMA ShapesRank ==
  ASSUME DInv, Progress, Wanted, Shapes, UNCHANGED upVars, NEW c \in NonRoot, RankChild(c)
  PROVE  Shapes'
<1>1. /\ phase = "edges" /\ work[c] = "idle" /\ UNCHANGED <<temp, input, target, idx, sc, pc, phase>>
      /\ work' = [work EXCEPT ![c] = "ranked"]
  BY DEF RankChild, upVars
<1>2. PICK tc, key : tc \in Arrangements(tables[c], key) /\ tables' = [tables EXCEPT ![c] = tc]
  BY DEF RankChild
<1>3. \A d \in NonRoot : work'[d] = IF d = c THEN "ranked" ELSE work[d]
  BY <1>1 DEF DInv, Arrays
<1>4. \A d \in NonRoot : Copied(d)' <=> Copied(d)
  BY <1>1, <1>3 DEF Copied
<1>5. \A u \in Node : Positioned(u)' <=> Positioned(u)
  BY <1>4 DEF Positioned, NonRoot
<1>6. c \in Node /\ ~Positioned(c)
  BY <1>1, ParentFacts DEF Positioned, Copied, NonRoot
<1>7. Table(tables[c], Len(input[c])) /\ Len(input[c]) \in Nat
  BY <1>1, <1>6, InputLength DEF Shapes
<1>8. Table(tc, Len(input[c]))
  BY <1>2, <1>7, SortedTable
<1>9. \A u \in Node : Table(tables'[u], IF Positioned(u) THEN Out ELSE Len(input[u]))
  <2> TAKE u \in Node
  <2>1. tables'[u] = IF u = c THEN tc ELSE tables[u]
    BY <1>2, <1>6 DEF DInv, Arrays
  <2> QED BY <1>1, <1>6, <1>8, <2>1 DEF Shapes
<1>10. Out' = Out
  BY <1>1 DEF Out
<1>11. \A u \in Node : Table(tables[u], IF Positioned(u) THEN Out ELSE Len(input[u]))'
  BY <1>1, <1>5, <1>9, <1>10 DEF Table
<1>12. \A d \in NonRoot : Copied(d)' => Table(temp[d], Out)'
  BY <1>1, <1>4, <1>10 DEF Shapes, Table
<1> QED BY <1>1, <1>10, <1>11, <1>12 DEF Shapes

(* Where the copies go. *)
HandsOn(c, rows) ==
  /\ temp' = [temp EXCEPT ![c] = [i \in DOMAIN rows |-> [keys |-> rows[i].keys, P |-> rows[i].P]]]
  /\ tables' = IF IsLeaf(c) THEN tables ELSE [tables EXCEPT ![c] = rows]

(* A marked row of the parent is copied; in the place of an unmarked one   *)
(* stands the copy of an unmarked one, or a header.                        *)
LEMMA CopyToChildIs ==
  ASSUME NEW c \in NonRoot, CopyToChild(c)
  PROVE  \E L \in Unmarked(c) : \E rows :
           /\ DOMAIN rows = DOMAIN tables[Parent[c]] /\ rows = [k \in DOMAIN rows |-> rows[k]]
           /\ \A i \in DOMAIN rows : i \notin L => rows[i] = CopyOf(c, i)
           /\ \A i \in DOMAIN rows : i \in L =>
                \/ \E k \in L : rows[i] = CopyOf(c, k)
                \/ \E h \in DOMAIN tables[c] : rows[i] = KeptHeader(c, h)
           /\ HandsOn(c, rows)
<1>1. PICK L \in Unmarked(c) :
        \E kept \in Injection(L, {<<"copy", i>> : i \in L} \cup {<<"header", h>> : h \in DOMAIN tables[c]}) :
          HandsOn(c, [i \in DOMAIN tables[Parent[c]] |->
                        IF i \notin L THEN CopyOf(c, i)
                        ELSE IF kept[i][1] = "copy" THEN CopyOf(c, kept[i][2])
                        ELSE KeptHeader(c, kept[i][2])])
  BY Zenon DEF CopyToChild, HandsOn
<1>2. PICK kept \in Injection(L, {<<"copy", i>> : i \in L} \cup {<<"header", h>> : h \in DOMAIN tables[c]}) :
          HandsOn(c, [i \in DOMAIN tables[Parent[c]] |->
                        IF i \notin L THEN CopyOf(c, i)
                        ELSE IF kept[i][1] = "copy" THEN CopyOf(c, kept[i][2])
                        ELSE KeptHeader(c, kept[i][2])])
  BY <1>1
<1>3. PICK rows : rows = [i \in DOMAIN tables[Parent[c]] |->
                        IF i \notin L THEN CopyOf(c, i)
                        ELSE IF kept[i][1] = "copy" THEN CopyOf(c, kept[i][2])
                        ELSE KeptHeader(c, kept[i][2])]
  OBVIOUS
<1>4. HandsOn(c, rows)
  BY <1>2, <1>3
<1>5. \A i \in L : \/ kept[i][1] = "copy" /\ kept[i][2] \in L
                   \/ kept[i][1] # "copy" /\ kept[i][2] \in DOMAIN tables[c]
  <2>1. \A i \in L : kept[i] \in {<<"copy", j>> : j \in L} \cup {<<"header", h>> : h \in DOMAIN tables[c]}
    BY DEF Injection, IsInjective
  <2> QED BY <2>1
<1> QED BY <1>3, <1>4, <1>5

LEMMA ShapesCopy ==
  ASSUME DInv, Progress, Wanted, Shapes, UNCHANGED upVars, NEW c \in NonRoot, CopyToChild(c)
  PROVE  Shapes'
<1>1. /\ phase = "edges" /\ work[c] = "ranked" /\ UNCHANGED <<input, target, idx, sc, pc, phase>>
      /\ work' = [work EXCEPT ![c] = "copied"]
  BY DEF CopyToChild, upVars, DInv, Current, Working
<1>2. PICK rows, copies :
        /\ DOMAIN rows = DOMAIN tables[Parent[c]] /\ rows = [k \in DOMAIN rows |-> rows[k]]
        /\ copies = [k \in DOMAIN rows |-> [keys |-> rows[k].keys, P |-> rows[k].P]]
        /\ temp' = [temp EXCEPT ![c] = copies]
        /\ tables' = IF IsLeaf(c) THEN tables ELSE [tables EXCEPT ![c] = rows]
  BY CopyToChildIs DEF HandsOn
<1>3. \A d \in NonRoot : work'[d] = IF d = c THEN "copied" ELSE work[d]
  BY <1>1 DEF DInv, Arrays
<1>4. \A d \in NonRoot : Copied(d)' <=> (Copied(d) \/ d = c)
  BY <1>1, <1>3 DEF Copied
<1>5. \A u \in Node : Positioned(u)' <=> (Positioned(u) \/ (u = c /\ ~IsLeaf(c)))
  BY <1>4 DEF Positioned, NonRoot
<1>6. c \in Node /\ ~Positioned(c) /\ ~Copied(c) /\ Parent[c] \in Node /\ Positioned(Parent[c])
  BY <1>1, ParentFacts DEF Positioned, Copied, NonRoot, Progress
<1>7. Table(tables[Parent[c]], Out) /\ Out \in Nat
  BY <1>1, <1>6, OutType DEF Shapes
<1>8. Table(rows, Out) /\ Table(copies, Out)
  <2>1. rows = [k \in 1 .. Out |-> rows[k]] /\ copies = [k \in 1 .. Out |-> copies[k]]
    BY <1>2, <1>7 DEF Table
  <2> QED BY <1>7, <2>1, LenOf DEF Table
<1>9. \A u \in Node : Table(tables'[u], IF Positioned(u)' THEN Out ELSE Len(input[u]))
  <2> TAKE u \in Node
  <2>1. tables'[u] = IF u = c /\ ~IsLeaf(c) THEN rows ELSE tables[u]
    BY <1>2, <1>6 DEF DInv, Arrays
  <2>2. Positioned(u)' <=> (Positioned(u) \/ (u = c /\ ~IsLeaf(c)))
    BY <1>5
  <2>3. Table(tables[u], IF Positioned(u) THEN Out ELSE Len(input[u]))
    BY <1>1 DEF Shapes
  <2> QED BY <1>6, <1>8, <2>1, <2>2, <2>3
<1>10. Out' = Out
  BY <1>1 DEF Out
<1>11. \A u \in Node : Table(tables[u], IF Positioned(u) THEN Out ELSE Len(input[u]))'
  BY <1>1, <1>9, <1>10 DEF Table
<1>12. \A d \in NonRoot : Copied(d)' => Table(temp[d], Out)'
  <2> TAKE d \in NonRoot
  <2> HAVE Copied(d)'
  <2>1. DOMAIN temp = NonRoot => temp'[d] = IF d = c THEN copies ELSE temp[d]
    BY <1>2
  <2> QED BY <1>1, <1>4, <1>8, <1>10, <2>1 DEF Shapes, Table, DInv, Arrays
<1> QED BY <1>1, <1>10, <1>11, <1>12 DEF Shapes

LEMMA ShapesSort ==
  ASSUME DInv, Progress, Wanted, Shapes, UNCHANGED upVars, NEW c \in NonRoot, FinalSort(c)
  PROVE  Shapes'
<1>1. /\ phase = "sort" /\ work[c] = "copied" /\ UNCHANGED <<input, target, tables, phase>>
      /\ work' = [work EXCEPT ![c] = "sorted"]
  BY DEF FinalSort, upVars
<1>2. PICK t, key : t \in Arrangements(temp[c], key) /\ temp' = [temp EXCEPT ![c] = t]
  BY DEF FinalSort
<1>3. \A d \in NonRoot : work'[d] = IF d = c THEN "sorted" ELSE work[d]
  BY <1>1 DEF DInv, Arrays
<1>4. \A d \in NonRoot : Copied(d)' <=> Copied(d)
  BY <1>1, <1>3 DEF Copied
<1>5. \A u \in Node : Positioned(u)' <=> Positioned(u)
  BY <1>4 DEF Positioned, NonRoot
<1>6. Copied(c) /\ Out \in Nat
  BY <1>1, OutType DEF Copied
<1>7. Table(t, Out)
  BY <1>1, <1>2, <1>6, SortedTable DEF Shapes
<1>8. Out' = Out
  BY <1>1 DEF Out
<1>9. \A u \in Node : Table(tables[u], IF Positioned(u) THEN Out ELSE Len(input[u]))'
  BY <1>1, <1>5, <1>8 DEF Shapes, Table
<1>10. \A d \in NonRoot : Copied(d)' => Table(temp[d], Out)'
  <2> TAKE d \in NonRoot
  <2> HAVE Copied(d)'
  <2>1. temp'[d] = IF d = c THEN t ELSE temp[d]
    BY <1>2 DEF DInv, Arrays
  <2> QED BY <1>1, <1>4, <1>7, <1>8, <2>1 DEF Shapes, Table
<1> QED BY <1>1, <1>9, <1>10 DEF Shapes

LEMMA ShapesStep ==
  ASSUME N > 1, DInv, Progress, Wanted, Handing, Shapes, [JNext]_allVars
  PROVE  Shapes'
<1>1. CASE Next /\ UNCHANGED downOnly
  <2>1. phase' = "off"
    BY <1>1, UpIsOver DEF DInv, PassesApart, downOnly
  <2> QED BY <2>1 DEF Shapes
<1>2. CASE UNCHANGED upVars /\ (LeaveNode \/ StartFinalSort \/ Materialize)
  <2>1. UNCHANGED <<input, target, tables, work, temp>> /\ phase # "off" /\ phase' # "edges"
    BY <1>2 DEF LeaveNode, StartFinalSort, Materialize, upVars
  <2> QED BY <2>1 DEF Shapes, Table, Positioned, Copied, Out
<1>3. CASE UNCHANGED allVars
  BY <1>3 DEF allVars, vars, downOnly, Shapes, Table, Positioned, Copied, Out
<1> QED BY <1>1, <1>2, <1>3, ShapesStart, ShapesPrepare, ShapesRank, ShapesCopy, ShapesSort DEF JNext, DownNext

(* The shapes of the join: everything above. *)
ShapeInv == Wanted /\ Handing /\ Progress /\ Shapes

LEMMA ShapeInvariant == N > 1 => (JSpec => []ShapeInv)
<1> SUFFICES ASSUME N > 1 PROVE JSpec => []ShapeInv
  OBVIOUS
<1>1. JInit => ShapeInv
  BY WantedInit, HandingInit, ProgressInit DEF ShapeInv
<1>2. ShapeInv /\ DInv /\ [JNext]_allVars => ShapeInv'
  BY WantedStep, HandingStep, ProgressStep, ShapesStep DEF ShapeInv
<1> QED BY <1>1, <1>2, DownInvariant, PTL DEF JSpec

(* A single relation has no edges to work. *)
LEMMA AloneOrder == N = 1 => order = <<>> /\ NonRoot = {}
<1> SUFFICES ASSUME N = 1 PROVE order = <<>> /\ NonRoot = {}
  OBVIOUS
<1>1. Node = {Root} /\ NonRoot = {}
  BY TreeAssumption DEF Node, NonRoot
<1>2. IsLeaf(Root)
  BY <1>1, ChildFacts, TreeAssumption DEF IsLeaf
<1>3. \A k \in 1 .. Len(order) : order[k] = Root /\ ~IsLeaf(order[k])
  BY <1>1, OrderIs
<1>4. 1 .. Len(order) = {}
  BY <1>2, <1>3
<1>5. order = <<>>
  BY <1>4, OrderIs
<1> QED BY <1>1, <1>5

(* The control state has its type, the copies of every relation have one   *)
(* row per row of the root, and the indices are those of a placed node.    *)
THEOREM DownTypeCorrect == JSpec => []DownTypeOK
<1>1. CASE N > 1
  <2>1. ShapeInv /\ DInv => DownTypeOK
    <3> SUFFICES ASSUME ShapeInv, DInv PROVE DownTypeOK
      OBVIOUS
    <3>1. phase # "off" => DOMAIN tables[Root] = 1 .. Out
      BY TreeAssumption DEF ShapeInv, Shapes, Table, Positioned
    <3>2. phase = "edges" => DOMAIN idx = DOMAIN tables[Root] /\ DOMAIN pc = DOMAIN idx
      BY <3>1 DEF ShapeInv, Shapes
    <3>3. \A c \in NonRoot : work[c] \in {"copied", "sorted"} => DOMAIN temp[c] = DOMAIN tables[Root]
      BY <3>1 DEF ShapeInv, Shapes, Table, Progress, Copied
    <3> QED BY <3>2, <3>3 DEF DownTypeOK, ShapeInv, Progress, DInv, Arrays, Capped, Working
  <2> QED BY <1>1, <2>1, ShapeInvariant, DownInvariant, PTL
<1>2. CASE N = 1
  <2> DEFINE Still == phase \in {"off", "node", "sort", "done"} /\ oi = 0
  <2>1. JInit => Still
    BY DEF JInit, DownInit
  <2>2. Still /\ [JNext]_allVars => Still'
    <3> SUFFICES ASSUME Still, [JNext]_allVars PROVE Still'
      OBVIOUS
    <3>1. NonRoot = {} /\ Len(order) = 0
      BY <1>2, AloneOrder
    <3>2. ~PrepareNode
      BY <3>1 DEF PrepareNode
    <3> QED BY <3>1, <3>2 DEF JNext, DownNext, StartDown, LeaveNode, StartFinalSort, Materialize,
                              allVars, downOnly
  <2>3. Still /\ DInv => DownTypeOK
    <3> SUFFICES ASSUME Still, DInv PROVE DownTypeOK
      OBVIOUS
    <3>1. NonRoot = {} /\ Len(order) = 0
      BY <1>2, AloneOrder
    <3> QED BY <3>1 DEF DownTypeOK, DInv, Arrays, Capped, Working
  <2> QED BY <2>1, <2>2, <2>3, DownInvariant, PTL DEF JSpec
<1>3. N > 1 \/ N = 1
  BY TreeAssumption
<1> QED BY <1>1, <1>2, <1>3

-----------------------------------------------------------------------------
(* What a worker finds. *)

(* A relation without positions yet has its rows, in some order.           *)
Waiting == phase # "off" => \A u \in Node : ~Positioned(u) => \E s : Standing(u, s)

(* The indices are those of the current node's rows.                       *)
IndexedBy(rows) ==
  \A k \in 1 .. Out :
    /\ idx[k] = LocalIndex(rows)[k]
    /\ sc[k] = SuffixCount(rows[k].us)
    /\ pc[k] = PartialIndex(idx[k], rows[k].us, sc[k])

Indexed == phase = "edges" => IndexedBy(tables[order[oi + 1]])

(* The ranks of an edge in work are those of the sorted child.             *)
Ranked == \A c \in Working : rank[c] = RankValues(c, tables[c])

Ready == Waiting /\ Indexed /\ Ranked

LEMMA SameStanding ==
  ASSUME input' = input, NEW u, tables'[u] = tables[u], NEW s, Standing(u, s)
  PROVE  Standing(u, s)'
BY DEF Standing, Stands

(* Tables that wait and are not touched keep waiting. *)
LEMMA WaitingKept ==
  ASSUME Waiting, phase # "off", input' = input,
         \A u \in Node : ~Positioned(u)' => ~Positioned(u) /\ tables'[u] = tables[u]
  PROVE  Waiting'
<1> SUFFICES ASSUME NEW u \in Node, ~Positioned(u)' PROVE \E s : Standing(u, s)'
  BY DEF Waiting
<1>1. PICK s : Standing(u, s)
  BY DEF Waiting
<1> QED BY <1>1, SameStanding

LEMMA ReadyInit == JInit => Ready
BY DEF JInit, DownInit, Ready, Waiting, Indexed, Ranked, Working

LEMMA ReadyStart ==
  ASSUME N > 1, DInv, Progress, Wanted, Handing, StartDown
  PROVE  Ready'
<1>1. phase = "off" /\ stage = "done" /\ UNCHANGED <<tables, input, work, rank>> /\ phase' # "edges"
  BY DEF StartDown, upVars
<1>2. Rows /\ Kept /\ Placing
  BY <1>1 DEF Handing
<1>3. Waiting'
  <2> SUFFICES ASSUME NEW u \in Node, ~Positioned(u)' PROVE \E s : Standing(u, s)'
    BY DEF Waiting
  <2>1. u \in NonRoot
    BY DEF Positioned, NonRoot
  <2>2. DOMAIN tables[u] = 1 .. Len(input[u]) /\ Len(input[u]) \in Nat
    BY <1>2, <2>1, InputLength DEF Rows, Listed, NonRoot
  <2>3. \A h \in 1 .. Len(input[u]) : tables[u][h].keys = input[u][h].keys /\ (~IsLeaf(u) => Counts(u, h))
    BY <1>1, <1>2, <2>1 DEF Kept
  <2>4. \A h \in 1 .. Len(input[u]) : Stands(u, tables[u][h], h)
    BY <2>3 DEF Stands, Counts
  <2>5. PICK s : s = [h \in 1 .. Len(input[u]) |-> h]
    OBVIOUS
  <2>6. Permutes(s, Len(input[u])) /\ \A h \in 1 .. Len(input[u]) : s[h] = h
    BY <2>2, <2>5 DEF Permutes
  <2>7. Standing(u, s)
    BY <2>2, <2>4, <2>6 DEF Standing
  <2> QED BY <1>1, <2>7, SameStanding
<1>4. Working' = {}
  BY <1>1 DEF DInv, Current, Working
<1> QED BY <1>1, <1>3, <1>4 DEF Ready, Indexed, Ranked

LEMMA ReadyPrepare ==
  ASSUME DInv, Progress, Wanted, Shapes, Ready, UNCHANGED upVars, PrepareNode
  PROVE  Ready'
<1>1. phase = "node" /\ oi < Len(order) /\ UNCHANGED <<work, input, target, oi>> /\ phase' = "edges"
  BY DEF PrepareNode, upVars
<1>2. PICK p : p = order[oi + 1]
  OBVIOUS
<1>3. PICK rows \in InStateOrder(p) :
        /\ tables' = [tables EXCEPT ![p] = rows]
        /\ idx' = LocalIndex(rows)
        /\ sc' = [i \in DOMAIN rows |-> SuffixCount(rows[i].us)]
        /\ pc' = [i \in DOMAIN rows |->
                   PartialIndex(LocalIndex(rows)[i], rows[i].us, SuffixCount(rows[i].us))]
  BY <1>2 DEF PrepareNode
<1>4. p \in Node /\ Positioned(p)
  BY <1>1, <1>2, CurrentPlaced
<1>5. \A u \in Node : Positioned(u)' <=> Positioned(u)
  BY <1>1 DEF Positioned, Copied
<1>6. Waiting'
  <2>1. \A u \in Node : ~Positioned(u)' => ~Positioned(u) /\ tables'[u] = tables[u]
    BY <1>3, <1>4, <1>5 DEF DInv, Arrays
  <2> QED BY <1>1, <2>1, WaitingKept DEF Ready
<1>7. DOMAIN rows = 1 .. Out
  <2>1. Table(tables[p], Out) /\ Out \in Nat
    BY <1>1, <1>4, OutType DEF Shapes
  <2> QED BY <1>3, <2>1, StateOrdered DEF Table
<1>8. order' = order /\ Out' = Out /\ tables'[p] = rows
  BY <1>1, <1>3, <1>4 DEF Out, DInv, Arrays
<1>9. Indexed'
  <2>1. \A k \in 1 .. Out :
          /\ idx'[k] = LocalIndex(rows)[k]
          /\ sc'[k] = SuffixCount(rows[k].us)
          /\ pc'[k] = PartialIndex(idx'[k], rows[k].us, sc'[k])
    BY <1>3, <1>7
  <2>2. tables'[order'[oi' + 1]] = rows
    BY <1>1, <1>2, <1>8
  <2> QED BY <1>8, <2>1, <2>2 DEF Indexed, IndexedBy
<1>10. Working' = {}
  BY <1>1 DEF DInv, Current, Working
<1> QED BY <1>6, <1>9, <1>10 DEF Ready, Ranked

LEMMA ReadyRank ==
  ASSUME DInv, Progress, Wanted, Shapes, Ready, UNCHANGED upVars, NEW c \in NonRoot, RankChild(c)
  PROVE  Ready'
<1>1. /\ phase = "edges" /\ work[c] = "idle" /\ Parent[c] = order[oi + 1]
      /\ UNCHANGED <<input, target, idx, sc, pc, phase, oi>>
      /\ work' = [work EXCEPT ![c] = "ranked"]
  BY DEF RankChild, upVars
<1>2. PICK tc, key : tc \in Arrangements(tables[c], key) /\ tables' = [tables EXCEPT ![c] = tc]
                     /\ rank' = [rank EXCEPT ![c] = RankValues(c, tc)]
  BY DEF RankChild
<1>3. \A d \in NonRoot : work'[d] = IF d = c THEN "ranked" ELSE work[d]
  BY <1>1 DEF DInv, Arrays
<1>4. \A u \in Node : Positioned(u)' <=> Positioned(u)
  BY <1>1, <1>3 DEF Positioned, Copied, NonRoot
<1>5. c \in Node /\ ~Positioned(c) /\ Parent[c] \in Node /\ Parent[c] # c
  BY <1>1, ParentFacts, NoSelfLoop DEF Positioned, Copied, NonRoot
<1>6. \A u \in Node : tables'[u] = IF u = c THEN tc ELSE tables[u]
  BY <1>2, <1>5 DEF DInv, Arrays
<1>7. \E s : Standing(c, s)'
  <2>1. PICK s : Standing(c, s)
    BY <1>1, <1>5 DEF Ready, Waiting
  <2>2. PICK n \in Nat : n = Len(input[c])
    BY <1>5, InputLength
  <2>3. Table(tables[c], n)
    BY <1>1, <1>5, <2>2 DEF Shapes
  <2>4. PICK o : DOMAIN tc = 1 .. n /\ Permutes(o, n) /\ \A k \in 1 .. n : tc[k] = tables[c][o[k]]
    BY <1>2, <2>3, SortedTable DEF Table
  <2>5. PICK t : t = [k \in 1 .. n |-> s[o[k]]]
    OBVIOUS
  <2>6. Permutes(t, n)
    BY <2>1, <2>2, <2>4, <2>5, Composed DEF Standing
  <2>7. \A h \in 1 .. n : Stands(c, tc[h], t[h])
    BY <2>1, <2>2, <2>4, <2>5 DEF Standing, Permutes
  <2>8. \A r, i : Stands(c, r, i)' <=> Stands(c, r, i)
    BY <1>1 DEF Stands
  <2> QED BY <1>1, <1>5, <1>6, <2>2, <2>4, <2>6, <2>7, <2>8 DEF Standing
<1>8. Waiting'
  <2> SUFFICES ASSUME NEW u \in Node, ~Positioned(u)' PROVE \E s : Standing(u, s)'
    BY DEF Waiting
  <2>1. CASE u = c
    BY <2>1, <1>7
  <2>2. CASE u # c
    <3>1. PICK s : Standing(u, s)
      BY <1>1, <1>4 DEF Ready, Waiting
    <3>2. tables'[u] = tables[u]
      BY <1>6, <2>2
    <3> QED BY <1>1, <3>1, <3>2, SameStanding
  <2> QED BY <2>1, <2>2
<1>9. Indexed'
  <2>1. tables'[order'[oi' + 1]] = tables[order[oi + 1]] /\ Out' = Out
    BY <1>1, <1>5, <1>6 DEF Out
  <2> QED BY <1>1, <2>1 DEF Ready, Indexed, IndexedBy
<1>10. Ranked'
  <2> SUFFICES ASSUME NEW d \in Working' PROVE rank'[d] = RankValues(d, tables'[d])
    BY DEF Ranked
  <2>1. d \in NonRoot /\ d \in Node
    BY ParentFacts DEF Working
  <2>2. CASE d = c
    BY <2>2, <1>2, <1>5, <1>6 DEF DInv, Arrays
  <2>3. CASE d # c
    <3>1. d \in Working /\ rank'[d] = rank[d] /\ tables'[d] = tables[d]
      BY <2>1, <2>3, <1>2, <1>3, <1>6 DEF Working
    <3> QED BY <3>1 DEF Ready, Ranked
  <2> QED BY <2>2, <2>3
<1> QED BY <1>8, <1>9, <1>10 DEF Ready

LEMMA ReadyCopy ==
  ASSUME DInv, Progress, Wanted, Shapes, Ready, UNCHANGED upVars, NEW c \in NonRoot, CopyToChild(c)
  PROVE  Ready'
<1>1. /\ phase = "edges" /\ work[c] = "ranked" /\ Parent[c] = order[oi + 1]
      /\ UNCHANGED <<input, target, idx, sc, pc, phase, oi, rank>>
      /\ work' = [work EXCEPT ![c] = "copied"]
  BY DEF CopyToChild, upVars, DInv, Current, Working
<1>2. (tables' = tables /\ IsLeaf(c)) \/ (~IsLeaf(c) /\ \E rows : tables' = [tables EXCEPT ![c] = rows])
  <2>1. PICK rows : HandsOn(c, rows)
    BY CopyToChildIs
  <2>2. tables' = IF IsLeaf(c) THEN tables ELSE [tables EXCEPT ![c] = rows]
    BY <2>1 DEF HandsOn
  <2> QED BY <2>2
<1>3. \A d \in NonRoot : work'[d] = IF d = c THEN "copied" ELSE work[d]
  BY <1>1 DEF DInv, Arrays
<1>4. \A u \in Node : Positioned(u)' <=> (Positioned(u) \/ (u = c /\ ~IsLeaf(c)))
  BY <1>1, <1>3 DEF Positioned, Copied, NonRoot
<1>5. c \in Node /\ Parent[c] \in Node /\ Parent[c] # c
  BY ParentFacts, NoSelfLoop
<1>6. \A u \in Node : tables'[u] = tables[u] \/ (u = c /\ ~IsLeaf(c))
  BY <1>2 DEF DInv, Arrays
<1>7. Waiting'
  BY <1>1, <1>4, <1>6, WaitingKept DEF Ready
<1>8. Indexed'
  <2>1. tables'[order'[oi' + 1]] = tables[order[oi + 1]] /\ Out' = Out
    BY <1>1, <1>5, <1>6 DEF Out
  <2> QED BY <1>1, <2>1 DEF Ready, Indexed, IndexedBy
<1>9. Ranked'
  <2> SUFFICES ASSUME NEW d \in Working' PROVE rank'[d] = RankValues(d, tables'[d])
    BY DEF Ranked
  <2>1. d \in NonRoot /\ d \in Node /\ d # c /\ d \in Working
    BY <1>3, ParentFacts DEF Working
  <2>2. rank'[d] = rank[d] /\ tables'[d] = tables[d]
    BY <1>1, <1>6, <2>1
  <2> QED BY <2>1, <2>2 DEF Ready, Ranked
<1> QED BY <1>7, <1>8, <1>9 DEF Ready

LEMMA ReadyStep ==
  ASSUME N > 1, DInv, ShapeInv, Ready, [JNext]_allVars
  PROVE  Ready'
<1>1. CASE Next /\ UNCHANGED downOnly
  <2>1. phase' = "off" /\ Working' = {}
    BY <1>1, UpIsOver DEF DInv, PassesApart, downOnly, Current, Working
  <2> QED BY <2>1 DEF Ready, Waiting, Indexed, Ranked
<1>2. CASE UNCHANGED upVars /\ (LeaveNode \/ StartFinalSort \/ Materialize \/ \E c \in NonRoot : FinalSort(c))
  <2>1. UNCHANGED <<input, tables, rank>> /\ phase # "off" /\ phase' # "edges"
    BY <1>2 DEF LeaveNode, StartFinalSort, Materialize, FinalSort, upVars
  <2>2. \A d \in NonRoot : (Copied(d)' <=> Copied(d)) /\ (work'[d] = "ranked" => work[d] = "ranked")
    <3>1. CASE LeaveNode \/ StartFinalSort \/ Materialize
      BY <3>1 DEF LeaveNode, StartFinalSort, Materialize, Copied
    <3>2. ASSUME NEW c \in NonRoot, FinalSort(c)
          PROVE  \A d \in NonRoot : (Copied(d)' <=> Copied(d)) /\ (work'[d] = "ranked" => work[d] = "ranked")
      BY <3>2 DEF FinalSort, Copied, DInv, Arrays
    <3> QED BY <1>2, <3>1, <3>2
  <2>3. \A u \in Node : ~Positioned(u)' => ~Positioned(u) /\ tables'[u] = tables[u]
    BY <2>1, <2>2 DEF Positioned, NonRoot
  <2>4. Waiting'
    BY <2>1, <2>3, WaitingKept DEF Ready
  <2>5. Ranked'
    BY <2>1, <2>2 DEF Ready, Ranked, Working
  <2> QED BY <2>1, <2>4, <2>5 DEF Ready, Indexed
<1>3. CASE UNCHANGED allVars
  <2>1. UNCHANGED <<input, target, tables, phase, oi, idx, sc, pc, work, rank>>
    BY <1>3 DEF allVars, vars, downOnly
  <2>2. Waiting'
    <3>1. \A u \in Node : Positioned(u)' <=> Positioned(u)
      BY <2>1 DEF Positioned, Copied
    <3>2. phase # "off" => Waiting'
      BY <2>1, <3>1, WaitingKept DEF Ready
    <3> QED BY <2>1, <3>2 DEF Waiting
  <2>3. Indexed' /\ Ranked'
    BY <2>1 DEF Ready, Indexed, IndexedBy, Out, Ranked, Working
  <2> QED BY <2>2, <2>3 DEF Ready
<1> QED BY <1>1, <1>2, <1>3, ReadyStart, ReadyPrepare, ReadyRank, ReadyCopy DEF JNext, DownNext, ShapeInv

LEMMA ReadyInvariant == N > 1 => (JSpec => []Ready)
<1> SUFFICES ASSUME N > 1 PROVE JSpec => []Ready
  OBVIOUS
<1>1. DInv /\ ShapeInv /\ Ready /\ [JNext]_allVars => Ready'
  BY ReadyStep
<1> QED BY <1>1, ReadyInit, ShapeInvariant, DownInvariant, PTL DEF JSpec

-----------------------------------------------------------------------------
(* Following a position through the relations.                             *)
(*                                                                         *)
(* For every relation u that has positions, R[u][q] is the row of the      *)
(* database that position q gets from u, and T[u][q] which of the answers  *)
(* below this row it takes.  The answers of a root row are counted from 1, *)
(* those of other rows from 0.                                             *)

InRange(u, i, t) ==
  /\ i \in 1 .. Len(input[u]) /\ t \in Nat
  /\ IF u = Root THEN t \in 1 .. SubtreeCount(input, u, i) ELSE t \in 0 .. SubtreeCount(input, u, i) - 1

(* Every position occurs once. *)
Numbering(table) == Permutes([k \in 1 .. Out |-> table[k].P], Out)

Carried(table, u, a, t) ==
  Numbering(table) /\ \A k \in 1 .. Out : Carries(u, table[k], a[table[k].P], t[table[k].P])

(* The rows of an edge join, and a row of c in its t-th answer has got it  *)
(* from the same share of the parent's answers at every position.          *)
Edge(c, ap, tp, ac, tc) ==
  /\ \A q \in 1 .. Out : Joins(c, input[Parent[c]][ap[q]], input[c][ac[q]])
  /\ \A q, r \in 1 .. Out :
       ac[q] = ac[r] /\ tc[q] = tc[r] => Share(c, ap[q], tp[q]) = Share(c, ap[r], tp[r])

(* The copies of c are those of the rows a, and in order once sorted. *)
Fits(c, table, a) ==
  Numbering(table) /\ \A k \in 1 .. Out : table[k].keys = input[c][a[table[k].P]].keys

AtPlace(table) == \A k \in 1 .. Out : table[k].P = k

HandedDown(c, ap, tp, ac, tc) ==
  /\ Fits(c, temp[c], ac)
  /\ work[c] = "sorted" => AtPlace(temp[c])
  /\ Edge(c, ap, tp, ac, tc)

Traces == [Node -> [1 .. Out -> Nat]]

Traced(R, T) ==
  /\ \A q \in 1 .. Out : tables[Root][q].P = q /\ T[Root][q] = q - Start(input, R[Root][q] - 1)
  /\ \A u \in Node : u = Root \/ Copied(u) => \A q \in 1 .. Out : InRange(u, R[u][q], T[u][q])
  /\ \A u \in Node : Positioned(u) => Carried(tables[u], u, R[u], T[u])
  /\ \A c \in NonRoot : Copied(c) => HandedDown(c, R[Parent[c]], T[Parent[c]], R[c], T[c])

(* With the exact size every position can be followed. *)
Following == Exact /\ phase # "off" => \E R, T \in Traces : Traced(R, T)

LEMMA SubtreeCountType ==
  ASSUME Wanted, NEW u \in Node, NEW i
  PROVE  SubtreeCount(input, u, i) \in Nat
<1>1. Database(input)
  BY InputLen DEF Wanted, Database
<1>2. IsFiniteSet(Using(input, u, i))
  BY <1>1, UsingFinite
<1> QED BY <1>2, FS_CardinalityType DEF Using, SubtreeCount

LEMMA ShareType ==
  ASSUME Wanted, NEW c \in NonRoot, NEW i \in 1 .. Len(input[Parent[c]]), NEW t \in Nat,
         SubtreeCount(input, Parent[c], i) # 0
  PROVE  Share(c, i, t) \in Nat
<1>1. Parent[c] \in Node /\ Database(input)
  BY ParentFacts, InputLen DEF Wanted, Database
<1>2. PICK m, us : m = Cardinality(ChildSet(Parent[c])) /\ us = UsOf(input, Parent[c], i)
  OBVIOUS
<1>3. m \in Nat \ {0} /\ ChildIdx(c) \in 1 .. m
  BY <1>2, ChildIdxIs
<1>4. Positive(us, m)
  BY <1>1, <1>2, ValuesOf
<1>5. PartialIndex(t, us, SuffixCount(us))[ChildIdx(c)] \in 0 .. us[ChildIdx(c)] - 1
  BY <1>3, <1>4, PartialIndexIs
<1>6. us[ChildIdx(c)] \in Nat
  BY <1>3, <1>4 DEF Positive, Numbers
<1> QED BY <1>2, <1>5, <1>6 DEF Share

(* The local indices are the numbers of the answers. *)
LEMMA IndexIsTurn ==
  ASSUME ShapeInv, Ready, NEW R \in Traces, NEW T \in Traces, Traced(R, T), phase = "edges",
         NEW p, p = order[oi + 1], Positioned(p), p \in Node
  PROVE  \A k \in 1 .. Out : idx[k] = T[p][tables[p][k].P]
<1>1. PICK n, rows : n \in Nat /\ n = Out /\ rows = tables[p] /\ DOMAIN rows = 1 .. n
  BY OutType DEF ShapeInv, Shapes, Table
<1>2. Carried(tables[p], p, R[p], T[p])
  BY DEF Traced
<1>3. n \in Nat /\ DOMAIN rows = 1 .. n /\ \A k \in 1 .. n : rows[k].P \in Int /\ rows[k].b \in Int /\ rows[k].lambda \in Nat \ {0}
  BY <1>1, <1>2 DEF Carried, Carries, InPlace
<1>4. LocalIndex(rows) = [k \in 1 .. n |-> (rows[k].P - rows[k].b) \div rows[k].lambda]
  BY <1>3, LocalIndexIs
<1>5. \A k \in 1 .. n : (rows[k].P - rows[k].b) \div rows[k].lambda = T[p][tables[p][k].P]
  BY <1>1, <1>2 DEF Carried, Carries, InPlace
<1>6. \A k \in 1 .. Out : idx[k] = LocalIndex(tables[p])[k]
  BY DEF Ready, Indexed, IndexedBy
<1>7. \A k \in 1 .. n : LocalIndex(rows)[k] = (rows[k].P - rows[k].b) \div rows[k].lambda
  BY ONLY <1>4
<1> QED BY <1>1, <1>5, <1>6, <1>7

(* An edge in work hands every position on. *)
LEMMA CopiesFollow ==
  ASSUME DInv, ShapeInv, Ready, NEW c \in Working, NEW R \in Traces, NEW T \in Traces, Traced(R, T)
  PROVE  /\ \A L \in Unmarked(c) : L = {}
         /\ \E ac, tc \in [1 .. Out -> Nat] :
              /\ \A q \in 1 .. Out : InRange(c, ac[q], tc[q])
              /\ Edge(c, R[Parent[c]], T[Parent[c]], ac, tc)
              /\ \A k \in 1 .. Out :
                   /\ CopyOf(c, k).P = tables[Parent[c]][k].P
                   /\ Carries(c, CopyOf(c, k), ac[CopyOf(c, k).P], tc[CopyOf(c, k).P])
<1> DEFINE p == Parent[c]
           P(k) == tables[p][k].P
           d(k) == Share(c, R[p][P(k)], T[p][P(k)]) - rank[c][Owner(c, k)]
<1>1. /\ c \in NonRoot /\ c # Root /\ c \in Node /\ p \in Node /\ Positioned(p) /\ ~Positioned(c)
      /\ phase = "edges" /\ p = order[oi + 1] /\ ~IsLeaf(p)
  BY ParentFacts DEF DInv, Current, Working, ShapeInv, Progress, Positioned, Copied, NonRoot
<1>2. Out \in Nat /\ Wanted /\ input \in Inputs /\ DOMAIN tables[p] = 1 .. Out
  BY <1>1, OutType DEF ShapeInv, Wanted, Shapes, Table
<1>3. PICK s : Standing(c, s)
  BY <1>1 DEF Ready, Waiting
<1>4. rank[c] = RankValues(c, tables[c])
  BY DEF Ready, Ranked
<1>5. /\ \A k \in 1 .. Out : Carries(p, tables[p][k], R[p][P(k)], T[p][P(k)])
      /\ Numbering(tables[p])
  BY <1>1 DEF Traced, Carried
<1>6. \A k \in 1 .. Out : P(k) \in 1 .. Out
  BY <1>5 DEF Numbering, Permutes
<1>7. \A k, l \in 1 .. Out : P(k) = P(l) => k = l
  BY <1>5 DEF Numbering, Permutes
<1>8. \A q \in 1 .. Out : \E k \in 1 .. Out : P(k) = q
  <2>1. PICK n, o : n = Out /\ o = [k \in 1 .. Out |-> tables[p][k].P]
    OBVIOUS
  <2>2. n \in Nat /\ Permutes(o, n)
    BY <1>2, <1>5, <2>1 DEF Numbering
  <2>3. \A q \in 1 .. n : \E k \in 1 .. n : o[k] = q
    BY <2>2, Onto
  <2> QED BY <2>1, <2>3
<1>9. \A q \in 1 .. Out : InRange(p, R[p][q], T[p][q])
  BY <1>1 DEF Traced, Positioned
<1>10. \A k \in 1 .. Out : idx[k] = T[p][P(k)]
  <2>1. PICK u : u = p
    OBVIOUS
  <2>2. \A k \in 1 .. Out : idx[k] = T[u][tables[u][k].P]
    BY <1>1, <2>1, IndexIsTurn
  <2> QED BY <2>1, <2>2
<1>11. \A k \in 1 .. Out : /\ sc[k] = SuffixCount(tables[p][k].us)
                           /\ pc[k] = PartialIndex(idx[k], tables[p][k].us, sc[k])
  BY <1>1 DEF Ready, Indexed, IndexedBy
<1>12. ASSUME NEW k \in 1 .. Out
       PROVE  Covered(c, s, k, R[p][P(k)], Owner(c, k), d(k))
  <2>1. PICK i, t : i = R[p][P(k)] /\ t = T[p][P(k)]
    OBVIOUS
  <2>2. InRange(p, i, t) /\ Carries(p, tables[p][k], i, t)
    BY <1>5, <1>6, <1>9, <2>1
  <2>3. i \in 1 .. Len(input[Parent[c]]) /\ t \in Nat /\ SubtreeCount(input, Parent[c], i) # 0
    <3>1. SubtreeCount(input, Parent[c], i) \in Nat
      BY <1>1, <1>2, SubtreeCountType
    <3> QED BY <2>2, <3>1 DEF InRange
  <2>4. IndicesOf(c, k, t)
    BY <1>10, <1>11, <2>1 DEF IndicesOf
  <2>5. PICK h : h = Owner(c, k)
    OBVIOUS
  <2>6. PICK e : e = Share(c, i, t) - rank[c][h]
    OBVIOUS
  <2>7. Carries(Parent[c], tables[Parent[c]][k], i, t)
    BY <2>2
  <2>8. Covered(c, s, k, i, h, e)
    BY <1>1, <1>2, <1>3, <1>4, <2>3, <2>4, <2>5, <2>6, <2>7, CopyCovers
  <2> QED BY <2>1, <2>5, <2>6, <2>8
<1>13. \A L \in Unmarked(c) : L = {}
  <2>1. \A i \in DOMAIN tables[p] : Headers(c, i) # {}
    BY <1>2, <1>12 DEF Covered
  <2> QED BY <2>1 DEF Unmarked
<1>14. PICK inv : \A q \in 1 .. Out : inv[q] \in 1 .. Out /\ P(inv[q]) = q
  <2>1. PICK inv : inv = [q \in 1 .. Out |-> CHOOSE k \in 1 .. Out : P(k) = q]
    OBVIOUS
  <2>2. \A q \in 1 .. Out : inv[q] \in 1 .. Out /\ P(inv[q]) = q
    BY <1>8, <2>1
  <2> QED BY <2>2
<1>15. \A k \in 1 .. Out : inv[P(k)] = k
  BY <1>6, <1>7, <1>14
<1>16. PICK ac, tc : /\ ac = [q \in 1 .. Out |-> s[Owner(c, inv[q])]]
                     /\ tc = [q \in 1 .. Out |-> d(inv[q])]
  OBVIOUS
<1> HIDE DEF d
<1>17. ac \in [1 .. Out -> Nat] /\ tc \in [1 .. Out -> Nat]
  <2>1. \A q \in 1 .. Out : s[Owner(c, inv[q])] \in Nat /\ d(inv[q]) \in Nat
    <3> TAKE q \in 1 .. Out
    <3>1. PICK k \in 1 .. Out : k = inv[q]
      BY <1>14
    <3>2. s[Owner(c, k)] \in 1 .. Len(input[c]) /\ d(k) \in Nat /\ Len(input[c]) \in Nat
      BY <1>1, <1>2, <1>12, InputLength DEF Covered
    <3> QED BY <3>1, <3>2
  <2> QED BY <1>16, <2>1
<1>18. \A q \in 1 .. Out : InRange(c, ac[q], tc[q])
  <2> TAKE q \in 1 .. Out
  <2>1. PICK k \in 1 .. Out : k = inv[q]
    BY <1>14
  <2>2. ac[q] = s[Owner(c, k)] /\ tc[q] = d(k)
    BY <1>16, <2>1
  <2> QED BY <1>1, <1>12, <2>2 DEF InRange, Covered
<1>19. Edge(c, R[p], T[p], ac, tc)
  <2>1. \A q \in 1 .. Out : Joins(c, input[p][R[p][q]], input[c][ac[q]])
    BY <1>12, <1>14, <1>16 DEF Covered
  <2>2. ASSUME NEW q \in 1 .. Out, NEW r \in 1 .. Out, ac[q] = ac[r], tc[q] = tc[r]
        PROVE  Share(c, R[p][q], T[p][q]) = Share(c, R[p][r], T[p][r])
    <3>1. PICK k \in 1 .. Out, l \in 1 .. Out : k = inv[q] /\ l = inv[r]
      BY <1>14
    <3>2. P(k) = q /\ P(l) = r /\ s[Owner(c, k)] = s[Owner(c, l)] /\ d(k) = d(l)
      BY <1>14, <1>16, <2>2, <3>1
    <3>3. Owner(c, k) = Owner(c, l)
      BY <1>3, <1>12, <3>2 DEF Standing, Permutes, Covered
    <3>4. PICK x, y, z : x = Share(c, R[p][q], T[p][q]) /\ y = Share(c, R[p][r], T[p][r]) /\ z = rank[c][Owner(c, k)]
      OBVIOUS
    <3>5. x - z = y - z /\ z \in Nat
      BY <1>12, <3>2, <3>3, <3>4 DEF d, Covered
    <3>6. x \in Nat /\ y \in Nat
      <4>1. \A j \in 1 .. Out : Share(c, R[p][j], T[p][j]) \in Nat
        <5> TAKE j \in 1 .. Out
        <5>1. InRange(p, R[p][j], T[p][j])
          BY <1>9
        <5>2. SubtreeCount(input, p, R[p][j]) # 0
          BY <1>1, <1>2, <5>1, SubtreeCountType DEF InRange
        <5>3. PICK i, t : i = R[p][j] /\ t = T[p][j]
          OBVIOUS
        <5> QED BY <1>1, <1>2, <5>1, <5>2, <5>3, ShareType DEF InRange
      <4> QED BY <3>4, <4>1
    <3> QED BY <3>4, <3>5, <3>6
  <2> QED BY <2>1, <2>2 DEF Edge
<1>20. ASSUME NEW k \in 1 .. Out
       PROVE  /\ CopyOf(c, k).P = P(k)
              /\ Carries(c, CopyOf(c, k), ac[CopyOf(c, k).P], tc[CopyOf(c, k).P])
  <2>1. inv[P(k)] = k /\ P(k) \in 1 .. Out
    BY <1>6, <1>15
  <2>2. ac[P(k)] = s[Owner(c, k)] /\ tc[P(k)] = d(k)
    BY <1>16, <2>1
  <2> QED BY <1>12, <2>2 DEF Covered
<1> QED BY <1>13, <1>17, <1>18, <1>19, <1>20

LEMMA ExactSize ==
  ASSUME Wanted, Exact
  PROVE  target = JoinSize(input) /\ Out = JoinSize(input) /\ Out \in Nat \ {0}
<1>1. target = JoinSize(input)
  BY DEF Exact, ExactTargets
<1>2. PICK s : s = JoinSize(input)
  OBVIOUS
<1>3. s \in Nat /\ target = s
  BY <1>1, <1>2, JoinSizeType DEF Wanted
<1>4. Max({s, s}) = s
  BY <1>3, MaxOfTwo
<1> QED BY <1>1, <1>2, <1>3, <1>4, OutType DEF Out

LEMMA FollowingStart ==
  ASSUME N > 1, DInv, Progress, Wanted, Handing, StartDown, Exact
  PROVE  \E R, T \in Traces : Traced(R, T)'
<1>1. phase = "off" /\ stage = "done" /\ UNCHANGED <<tables, input, target, work, temp>>
  BY DEF StartDown, upVars
<1>2. PICK n \in Nat \ {0} : n = Out /\ n = JoinSize(input)
  BY ExactSize
<1>3. Numbered /\ Rows
  BY <1>1 DEF Handing, Placing
<1>4. Root \in Node /\ Database(input) /\ ~IsLeaf(Root)
  BY TreeAssumption, JoinSizeType, RootIsInternal DEF Wanted
<1>5. PICK a : \A q \in 1 .. n :
        /\ a[q] \in 1 .. Len(input[Root])
        /\ Start(input, a[q] - 1) < q /\ q <= Start(input, a[q])
        /\ NumberedCopy(tables[Root][q], q, a[q])
  <2> DEFINE Good(q, i) == /\ Start(input, i - 1) < q /\ q <= Start(input, i)
                           /\ NumberedCopy(tables[Root][q], q, i)
  <2>1. \A q \in 1 .. n : \E i \in 1 .. Len(input[Root]) : Good(q, i)
    BY <1>2, <1>3 DEF Numbered
  <2> HIDE DEF Good
  <2>2. PICK a : a = [q \in 1 .. n |-> CHOOSE i \in 1 .. Len(input[Root]) : Good(q, i)]
    OBVIOUS
  <2>3. \A q \in 1 .. n : a[q] \in 1 .. Len(input[Root]) /\ Good(q, a[q])
    BY <2>1, <2>2
  <2> QED BY <2>3 DEF Good
<1>6. PICK b : b = [q \in 1 .. n |-> Start(input, a[q] - 1)]
  OBVIOUS
<1>7. ASSUME NEW q \in 1 .. n
      PROVE  /\ a[q] \in Nat /\ b[q] = Start(input, a[q] - 1) /\ b[q] \in Nat /\ q - b[q] \in Nat
             /\ InRange(Root, a[q], q - b[q])
             /\ Carries(Root, tables[Root][q], a[q], q - b[q]) /\ tables[Root][q].P = q
  <2>1. PICK i \in 1 .. Len(input[Root]) : i = a[q] /\ Len(input[Root]) \in Nat
    BY <1>4, <1>5 DEF Database
  <2>2. /\ Start(input, i - 1) \in Nat /\ SubtreeCount(input, Root, i) \in Nat
        /\ Start(input, i) = Start(input, i - 1) + SubtreeCount(input, Root, i)
    BY <1>4, <2>1, StartSteps
  <2>3. b[q] = Start(input, i - 1) /\ b[q] \in Nat /\ b[q] < q /\ q <= b[q] + SubtreeCount(input, Root, i)
    BY <1>5, <1>6, <2>1, <2>2
  <2>4. q - b[q] \in Nat /\ q - b[q] \in 1 .. SubtreeCount(input, Root, i) /\ (q - b[q]) \div 1 = q - b[q]
    BY <2>2, <2>3
  <2>5. PICK r : r = tables[Root][q]
    OBVIOUS
  <2>6. r = [keys |-> input[Root][i].keys, us |-> UsOf(input, Root, i), delta |-> SubtreeCount(input, Root, i),
             b |-> b[q], P |-> q, lambda |-> 1]
    BY <1>5, <2>1, <2>3, <2>5 DEF NumberedCopy
  <2>7. Stands(Root, r, i)
    BY <2>6 DEF Stands
  <2>8. InPlace(r.b, r.lambda, r.P, q - b[q]) /\ r.P = q
    BY <2>3, <2>4, <2>6 DEF InPlace
  <2> QED BY <2>1, <2>3, <2>4, <2>5, <2>7, <2>8 DEF InRange, Carries
<1>8. PICK R, T : /\ R = [u \in Node |-> [q \in 1 .. n |-> IF u = Root THEN a[q] ELSE 0]]
                  /\ T = [u \in Node |-> [q \in 1 .. n |-> IF u = Root THEN q - b[q] ELSE 0]]
  OBVIOUS
<1>9. R \in Traces /\ T \in Traces
  BY <1>2, <1>7, <1>8 DEF Traces
<1>10. \A q \in 1 .. n : R[Root][q] = a[q] /\ T[Root][q] = q - b[q]
  BY <1>4, <1>8
<1>11. (\A u \in Node : Positioned(u) <=> u = Root) /\ \A c \in NonRoot : ~Copied(c)
  BY <1>1 DEF Progress, Positioned, Copied, NonRoot
<1>12. Numbering(tables[Root])
  <2>1. \A k \in 1 .. n : tables[Root][k].P = k
    BY <1>7
  <2>2. PICK o : o = [k \in 1 .. n |-> tables[Root][k].P]
    OBVIOUS
  <2>3. Permutes(o, n)
    BY <2>1, <2>2 DEF Permutes
  <2> QED BY <1>2, <2>2, <2>3 DEF Numbering
<1>13. Traced(R, T)
  <2>1. \A q \in 1 .. Out : tables[Root][q].P = q /\ T[Root][q] = q - Start(input, R[Root][q] - 1)
    BY <1>2, <1>7, <1>10
  <2>2. \A q \in 1 .. Out : InRange(Root, R[Root][q], T[Root][q])
    BY <1>2, <1>7, <1>10
  <2>3. \A k \in 1 .. Out : Carries(Root, tables[Root][k], R[Root][tables[Root][k].P], T[Root][tables[Root][k].P])
    BY <1>2, <1>7, <1>10
  <2>4. Carried(tables[Root], Root, R[Root], T[Root])
    BY <1>12, <2>3 DEF Carried
  <2> QED BY <1>11, <2>1, <2>2, <2>4 DEF Traced, NonRoot
<1>14. Traced(R, T)' <=> Traced(R, T)
  BY <1>1 DEF Traced, Out, Copied, Positioned, Carried, HandedDown, Numbering, InRange, Carries, Stands, Edge, Share, Fits, AtPlace
<1> QED BY <1>9, <1>13, <1>14

-----------------------------------------------------------------------------
(* What a step has to leave behind for positions to be followed. *)
LEMMA TracedNext ==
  ASSUME NEW R \in Traces, NEW T \in Traces, UNCHANGED <<input, target>>,
         \A q \in 1 .. Out : tables'[Root][q].P = q /\ T[Root][q] = q - Start(input, R[Root][q] - 1),
         \A u \in Node : u = Root \/ Copied(u)' => \A q \in 1 .. Out : InRange(u, R[u][q], T[u][q]),
         \A u \in Node : Positioned(u)' => Carried(tables'[u], u, R[u], T[u]),
         \A c \in NonRoot : Copied(c)' =>
           /\ Fits(c, temp'[c], R[c])
           /\ work'[c] = "sorted" => AtPlace(temp'[c])
           /\ Edge(c, R[Parent[c]], T[Parent[c]], R[c], T[c])
  PROVE  Traced(R, T)'
<1>1. Out' = Out
  BY DEF Out
<1>2. \A u, i, t : InRange(u, i, t)' <=> InRange(u, i, t)
  BY DEF InRange
<1>3. \A u, r, i, t : Carries(u, r, i, t)' <=> Carries(u, r, i, t)
  BY DEF Carries, Stands
<1>4. \A q \in 1 .. Out : tables'[Root][q].P = q /\ T[Root][q] = q - Start(input', R[Root][q] - 1)
  OBVIOUS
<1>5. ASSUME NEW u \in Node, Positioned(u)' PROVE Carried(tables[u], u, R[u], T[u])'
  <2>1. PICK t : t = tables'[u]
    OBVIOUS
  <2>2. Carried(t, u, R[u], T[u])
    BY <1>5, <2>1
  <2> QED BY <1>1, <1>3, <2>1, <2>2 DEF Carried, Numbering
<1>6. ASSUME NEW c \in NonRoot, Copied(c)' PROVE HandedDown(c, R[Parent[c]], T[Parent[c]], R[c], T[c])'
  <2>1. PICK t : t = temp'[c]
    OBVIOUS
  <2>2. /\ Fits(c, t, R[c]) /\ (work'[c] = "sorted" => AtPlace(t))
        /\ Edge(c, R[Parent[c]], T[Parent[c]], R[c], T[c])
    BY <1>6, <2>1
  <2>3. \A i, k : Share(c, i, k)' = Share(c, i, k)
    BY DEF Share
  <2>4. Edge(c, R[Parent[c]], T[Parent[c]], R[c], T[c])'
    BY <1>1, <2>2, <2>3 DEF Edge
  <2>5. Fits(c, temp[c], R[c])'
    BY <1>1, <2>1, <2>2 DEF Fits, Numbering
  <2>6. (work[c] = "sorted" => AtPlace(temp[c]))'
    BY <1>1, <2>1, <2>2 DEF AtPlace
  <2> QED BY <2>4, <2>5, <2>6 DEF HandedDown
<1> QED BY <1>1, <1>2, <1>4, <1>5, <1>6 DEF Traced

(* Steps that leave the positions where they are. *)
LEMMA TracedKept ==
  ASSUME NEW R \in Traces, NEW T \in Traces, Traced(R, T), UNCHANGED <<input, target>>,
         \A c \in NonRoot : Copied(c)' <=> Copied(c),
         tables'[Root] = tables[Root],
         \A u \in Node : Positioned(u) => Carried(tables'[u], u, R[u], T[u]),
         \A c \in NonRoot : Copied(c) =>
           Fits(c, temp'[c], R[c]) /\ (work'[c] = "sorted" => AtPlace(temp'[c]))
  PROVE  Traced(R, T)'
<1>1. \A u \in Node : Positioned(u)' <=> Positioned(u)
  BY DEF Positioned, NonRoot
<1>2. \A u \in Node : u = Root \/ Copied(u)' => \A q \in 1 .. Out : InRange(u, R[u][q], T[u][q])
  BY DEF Traced, NonRoot
<1>3. \A q \in 1 .. Out : tables'[Root][q].P = q /\ T[Root][q] = q - Start(input, R[Root][q] - 1)
  BY DEF Traced
<1>4. \A c \in NonRoot : Copied(c)' => Edge(c, R[Parent[c]], T[Parent[c]], R[c], T[c])
  BY DEF Traced, HandedDown
<1> QED BY <1>1, <1>2, <1>3, <1>4, TracedNext

(* Sorting keeps the rows. *)
LEMMA NumberingSorted ==
  ASSUME Out \in Nat, NEW table, Numbering(table), NEW o, Permutes(o, Out),
         NEW rows, \A k \in 1 .. Out : rows[k] = table[o[k]]
  PROVE  Numbering(rows)
<1>1. PICK n, s, t : /\ n \in Nat /\ n = Out /\ s = [k \in 1 .. n |-> table[k].P]
                             /\ t = [k \in 1 .. n |-> s[o[k]]]
  OBVIOUS
<1>2. Permutes(s, n) /\ Permutes(o, n)
  BY <1>1 DEF Numbering
<1>3. Permutes(t, n)
  <2>1. t = [k \in 1 .. n |-> s[o[k]]]
    BY <1>1
  <2>2. \A k \in 1 .. n : o[k] \in 1 .. n /\ s[o[k]] \in 1 .. n /\ t[k] = s[o[k]]
    BY <1>2, <2>1 DEF Permutes
  <2> QED BY <1>2, <2>1, <2>2 DEF Permutes
<1>4. t = [k \in 1 .. n |-> rows[k].P]
  BY <1>1, <1>2 DEF Permutes
<1> QED BY <1>1, <1>3, <1>4 DEF Numbering

LEMMA FollowingPrepare ==
  ASSUME DInv, ShapeInv, UNCHANGED upVars, PrepareNode, NEW R \in Traces, NEW T \in Traces, Traced(R, T)
  PROVE  Traced(R, T)'
<1>1. phase = "node" /\ oi < Len(order) /\ UNCHANGED <<work, temp, input, target, oi>>
  BY DEF PrepareNode, upVars
<1>2. PICK p : p = order[oi + 1]
  OBVIOUS
<1>3. PICK rows \in InStateOrder(p) : tables' = [tables EXCEPT ![p] = rows]
  BY <1>2 DEF PrepareNode
<1>4. p \in Node /\ Positioned(p)
  BY <1>1, <1>2, CurrentPlaced DEF ShapeInv
<1>5. Table(tables[p], Out) /\ Out \in Nat
  BY <1>1, <1>4, OutType DEF Shapes, ShapeInv
<1>6. PICK o : /\ Permutes(o, Out) /\ \A k \in 1 .. Out : rows[k] = tables[p][o[k]]
               /\ p = Root => rows = tables[p]
  BY <1>3, <1>5, StateOrdered
<1>7. \A u \in Node : tables'[u] = IF u = p THEN rows ELSE tables[u]
  BY <1>3 DEF DInv, Arrays
<1>8. Carried(rows, p, R[p], T[p])
  <2>1. Carried(tables[p], p, R[p], T[p])
    BY <1>4 DEF Traced
  <2>2. Numbering(rows)
    BY <1>5, <1>6, <2>1, NumberingSorted DEF Carried
  <2>3. \A k \in 1 .. Out : o[k] \in 1 .. Out
    BY <1>6 DEF Permutes
  <2> QED BY <1>6, <2>1, <2>2, <2>3 DEF Carried
<1>9. \A u \in Node : Positioned(u) => Carried(tables'[u], u, R[u], T[u])
  <2> TAKE u \in Node
  <2> HAVE Positioned(u)
  <2>1. CASE u = p
    BY <1>7, <1>8, <2>1
  <2>2. CASE u # p
    BY <1>7, <2>2 DEF Traced
  <2> QED BY <2>1, <2>2
<1>10. tables'[Root] = tables[Root]
  BY <1>6, <1>7, TreeAssumption
<1>11. \A c \in NonRoot : Copied(c) =>
         Fits(c, temp'[c], R[c]) /\ (work'[c] = "sorted" => AtPlace(temp'[c]))
  BY <1>1 DEF Traced, HandedDown
<1>12. \A c \in NonRoot : Copied(c)' <=> Copied(c)
  BY <1>1 DEF Copied
<1> QED BY <1>1, <1>9, <1>10, <1>11, <1>12, TracedKept

LEMMA FollowingSort ==
  ASSUME DInv, ShapeInv, UNCHANGED upVars, NEW c \in NonRoot, FinalSort(c),
         NEW R \in Traces, NEW T \in Traces, Traced(R, T)
  PROVE  Traced(R, T)'
<1>1. /\ phase = "sort" /\ work[c] = "copied" /\ UNCHANGED <<input, target, tables, phase>>
      /\ work' = [work EXCEPT ![c] = "sorted"]
  BY DEF FinalSort, upVars
<1>2. PICK key : key = [k \in DOMAIN temp[c] |-> <<temp[c][k].P>>]
  OBVIOUS
<1>3. PICK t : t \in Arrangements(temp[c], key) /\ temp' = [temp EXCEPT ![c] = t]
  BY <1>2 DEF FinalSort
<1>4. \A d \in NonRoot : work'[d] = IF d = c THEN "sorted" ELSE work[d]
  BY <1>1 DEF DInv, Arrays
<1>5. \A d \in NonRoot : Copied(d)' <=> Copied(d)
  BY <1>1, <1>4 DEF Copied
<1>6. \A d \in NonRoot : temp'[d] = IF d = c THEN t ELSE temp[d]
  BY <1>3 DEF DInv, Arrays
<1>7. PICK n \in Nat : n = Out /\ Table(temp[c], n)
  <2>1. Out \in Nat /\ Copied(c)
    BY <1>1, OutType DEF ShapeInv, Copied
  <2>2. Table(temp[c], Out)
    BY <1>1, <2>1 DEF ShapeInv, Shapes
  <2> QED BY <2>1, <2>2
<1>8. PICK o : Permutes(o, n) /\ Arranged(o, n, key) /\ \A k \in 1 .. n : t[k] = temp[c][o[k]]
  BY <1>3, <1>7, SortedTable
<1>9. Fits(c, temp[c], R[c])
  BY <1>1 DEF Traced, HandedDown, Copied
<1>10. Numbering(t)
  BY <1>7, <1>8, <1>9, NumberingSorted DEF Fits
<1>11. \A k \in 1 .. n : o[k] \in 1 .. n
  BY <1>8 DEF Permutes
<1>12. Fits(c, t, R[c])
  BY <1>7, <1>8, <1>9, <1>10, <1>11 DEF Fits
<1>13. AtPlace(t)
  <2>1. PICK g : g = [k \in 1 .. n |-> t[k].P]
    OBVIOUS
  <2>2. Permutes(g, n)
    BY <1>7, <1>10, <2>1 DEF Numbering
  <2>3. g \in [1 .. n -> 1 .. n]
    BY <2>2 DEF Permutes
  <2>4. \A i, j \in 1 .. n : i < j => g[i] # g[j] /\ ~(g[j] < g[i])
    <3> SUFFICES ASSUME NEW i \in 1 .. n, NEW j \in 1 .. n, i < j PROVE g[i] # g[j] /\ ~(g[j] < g[i])
      OBVIOUS
    <3>1. g[i] # g[j]
      BY <1>7, <2>2 DEF Permutes
    <3>2. ~LexLess(key[o[j]], key[o[i]])
      BY <1>8 DEF Arranged
    <3>3. key[o[i]] = <<g[i]>> /\ key[o[j]] = <<g[j]>>
      BY <1>2, <1>7, <1>8, <1>11, <2>1 DEF Table
    <3>4. PICK a, b : a = g[j] /\ b = g[i]
      OBVIOUS
    <3>5. ~LexLess(<<a>>, <<b>>)
      BY <3>2, <3>3, <3>4
    <3>6. ~(a < b)
      <4>1. DOMAIN <<a>> = {1} /\ <<a>>[1] = a /\ <<b>>[1] = b
        OBVIOUS
      <4>2. 1 .. 1 - 1 = {}
        OBVIOUS
      <4> QED BY <3>5, <4>1, <4>2 DEF LexLess
    <3> QED BY <3>1, <3>4, <3>6
  <2>5. \A k \in 1 .. n : g[k] = k
    BY <2>3, <2>4, SortedPositions
  <2> QED BY <1>7, <2>1, <2>5 DEF AtPlace
<1>14. \A d \in NonRoot : Copied(d) =>
         Fits(d, temp'[d], R[d]) /\ (work'[d] = "sorted" => AtPlace(temp'[d]))
  <2> TAKE d \in NonRoot
  <2> HAVE Copied(d)
  <2>1. CASE d = c
    BY <1>6, <1>12, <1>13, <2>1
  <2>2. CASE d # c
    BY <1>4, <1>6, <2>2 DEF Traced, HandedDown
  <2> QED BY <2>1, <2>2
<1>15. tables'[Root] = tables[Root] /\ \A u \in Node : Positioned(u) => Carried(tables'[u], u, R[u], T[u])
  BY <1>1 DEF Traced
<1> QED BY <1>1, <1>5, <1>14, <1>15, TracedKept

LEMMA FollowingCopy ==
  ASSUME DInv, ShapeInv, Ready, UNCHANGED upVars, NEW c \in NonRoot, CopyToChild(c),
         NEW R \in Traces, NEW T \in Traces, Traced(R, T)
  PROVE  \E R2, T2 \in Traces : Traced(R2, T2)'
<1>1. /\ phase = "edges" /\ work[c] = "ranked" /\ c \in Working /\ UNCHANGED <<input, target>>
      /\ work' = [work EXCEPT ![c] = "copied"]
  BY DEF CopyToChild, upVars, DInv, Current, Working
<1>2. PICK p : p = Parent[c]
  OBVIOUS
<1>3. c # Root /\ c \in Node /\ p \in Node /\ p # c /\ Positioned(p) /\ ~Positioned(c)
  BY <1>1, <1>2, ParentFacts, NoSelfLoop DEF ShapeInv, Progress, Positioned, Copied, NonRoot
<1>4. DOMAIN tables[p] = 1 .. Out
  BY <1>1, <1>3 DEF ShapeInv, Shapes, Table
<1>5. PICK ac \in [1 .. Out -> Nat], tc \in [1 .. Out -> Nat] :
        /\ \A q \in 1 .. Out : InRange(c, ac[q], tc[q])
        /\ Edge(c, R[p], T[p], ac, tc)
        /\ \A k \in 1 .. Out :
             /\ CopyOf(c, k).P = tables[p][k].P
             /\ Carries(c, CopyOf(c, k), ac[CopyOf(c, k).P], tc[CopyOf(c, k).P])
  <2>1. \E ac, tc \in [1 .. Out -> Nat] :
          /\ \A q \in 1 .. Out : InRange(c, ac[q], tc[q])
          /\ Edge(c, R[Parent[c]], T[Parent[c]], ac, tc)
          /\ \A k \in 1 .. Out :
               /\ CopyOf(c, k).P = tables[Parent[c]][k].P
               /\ Carries(c, CopyOf(c, k), ac[CopyOf(c, k).P], tc[CopyOf(c, k).P])
    BY <1>1, CopiesFollow
  <2> QED BY ONLY <1>2, <2>1
<1>6. PICK rows, copies :
        /\ DOMAIN rows = 1 .. Out /\ \A k \in 1 .. Out : rows[k] = CopyOf(c, k)
        /\ copies = [k \in DOMAIN rows |-> [keys |-> rows[k].keys, P |-> rows[k].P]]
        /\ temp' = [temp EXCEPT ![c] = copies]
        /\ tables' = IF IsLeaf(c) THEN tables ELSE [tables EXCEPT ![c] = rows]
  <2>1. PICK L, rows :
           /\ L \in Unmarked(c) /\ DOMAIN rows = DOMAIN tables[Parent[c]]
           /\ \A i \in DOMAIN rows : i \notin L => rows[i] = CopyOf(c, i)
           /\ HandsOn(c, rows)
    BY CopyToChildIs
  <2>2. L = {}
    BY <1>1, <2>1, CopiesFollow
  <2> QED BY <1>2, <1>4, <2>1, <2>2 DEF HandsOn
<1>7. \A d \in NonRoot : work'[d] = IF d = c THEN "copied" ELSE work[d]
  BY <1>1 DEF DInv, Arrays
<1>8. \A d \in NonRoot : Copied(d)' <=> (Copied(d) \/ d = c)
  BY <1>1, <1>7 DEF Copied
<1>9. \A u \in Node : Positioned(u)' <=> (Positioned(u) \/ (u = c /\ ~IsLeaf(c)))
  BY <1>8 DEF Positioned, NonRoot
<1>10. \A d \in NonRoot : temp'[d] = IF d = c THEN copies ELSE temp[d]
  BY <1>6 DEF DInv, Arrays
<1>11. \A u \in Node : tables'[u] = IF u = c /\ ~IsLeaf(c) THEN rows ELSE tables[u]
  BY <1>3, <1>6 DEF DInv, Arrays
<1>12. PICK R2, T2 : R2 = [R EXCEPT ![c] = ac] /\ T2 = [T EXCEPT ![c] = tc]
  OBVIOUS
<1>13. /\ R2 \in Traces /\ T2 \in Traces
       /\ \A u \in Node : u # c => R2[u] = R[u] /\ T2[u] = T[u]
       /\ R2[c] = ac /\ T2[c] = tc
  BY <1>3, <1>5, <1>12 DEF Traces
<1>14. Numbering(rows) /\ Numbering(copies)
  <2>1. Numbering(tables[p])
    BY <1>3 DEF Traced, Carried
  <2>2. PICK f, g, h : /\ f = [k \in 1 .. Out |-> tables[p][k].P]
                       /\ g = [k \in 1 .. Out |-> rows[k].P]
                       /\ h = [k \in 1 .. Out |-> copies[k].P]
    OBVIOUS
  <2>3. g = f /\ h = f
    BY <1>5, <1>6, <2>2
  <2> QED BY <2>1, <2>2, <2>3 DEF Numbering
<1>15. Carried(rows, c, ac, tc)
  BY <1>5, <1>6, <1>14 DEF Carried
<1>16. Fits(c, copies, ac)
  <2>1. \A k \in 1 .. Out : copies[k].keys = rows[k].keys /\ copies[k].P = rows[k].P
    BY <1>6
  <2>2. \A k \in 1 .. Out : rows[k].keys = input[c][ac[rows[k].P]].keys
    BY <1>15 DEF Carried, Carries, Stands
  <2> QED BY <1>14, <2>1, <2>2 DEF Fits
<1>17. \A q \in 1 .. Out : tables'[Root][q].P = q /\ T2[Root][q] = q - Start(input, R2[Root][q] - 1)
  BY <1>3, <1>11, <1>13, TreeAssumption DEF Traced
<1>18. \A u \in Node : u = Root \/ Copied(u)' => \A q \in 1 .. Out : InRange(u, R2[u][q], T2[u][q])
  <2> SUFFICES ASSUME NEW u \in Node, u = Root \/ Copied(u)'
               PROVE  \A q \in 1 .. Out : InRange(u, R2[u][q], T2[u][q])
    OBVIOUS
  <2>1. CASE u = c
    BY <1>5, <1>13, <2>1
  <2>2. CASE u # c
    <3>1. u = Root \/ Copied(u)
      BY <1>8, <2>2 DEF NonRoot
    <3> QED BY <1>13, <2>2, <3>1 DEF Traced
  <2> QED BY <2>1, <2>2
<1>19. \A u \in Node : Positioned(u)' => Carried(tables'[u], u, R2[u], T2[u])
  <2> SUFFICES ASSUME NEW u \in Node, Positioned(u)' PROVE Carried(tables'[u], u, R2[u], T2[u])
    OBVIOUS
  <2>1. CASE u = c
    <3>1. tables'[u] = rows
      BY <1>3, <1>9, <1>11, <2>1
    <3> QED BY <1>13, <1>15, <2>1, <3>1
  <2>2. CASE u # c
    <3>1. Positioned(u) /\ tables'[u] = tables[u]
      BY <1>9, <1>11, <2>2
    <3> QED BY <1>13, <2>2, <3>1 DEF Traced
  <2> QED BY <2>1, <2>2
<1>20. \A d \in NonRoot : Copied(d)' =>
         /\ Fits(d, temp'[d], R2[d])
         /\ work'[d] = "sorted" => AtPlace(temp'[d])
         /\ Edge(d, R2[Parent[d]], T2[Parent[d]], R2[d], T2[d])
  <2> SUFFICES ASSUME NEW d \in NonRoot, Copied(d)'
               PROVE  /\ Fits(d, temp'[d], R2[d])
                      /\ work'[d] = "sorted" => AtPlace(temp'[d])
                      /\ Edge(d, R2[Parent[d]], T2[Parent[d]], R2[d], T2[d])
    OBVIOUS
  <2>1. CASE d = c
    BY <1>2, <1>3, <1>5, <1>7, <1>10, <1>13, <1>16, <2>1
  <2>2. CASE d # c
    <3>1. Copied(d) /\ temp'[d] = temp[d] /\ work'[d] = work[d]
      BY <1>7, <1>8, <1>10, <2>2
    <3>2. d \in Node /\ Parent[d] \in Node /\ Parent[d] # c
      <4>1. Positioned(Parent[d])
        BY <3>1 DEF ShapeInv, Progress, Copied
      <4> QED BY <1>3, <4>1, ParentFacts
    <3> QED BY <1>13, <2>2, <3>1, <3>2 DEF Traced, HandedDown
  <2> QED BY <2>1, <2>2
<1>21. Traced(R2, T2)'
  BY <1>1, <1>13, <1>17, <1>18, <1>19, <1>20, TracedNext
<1> QED BY <1>13, <1>21

LEMMA FollowingStep ==
  ASSUME N > 1, DInv, ShapeInv, Ready, Following, [JNext]_allVars
  PROVE  Following'
<1> SUFFICES ASSUME Exact', phase' # "off" PROVE \E R, T \in Traces' : Traced(R, T)'
  BY DEF Following
<1>1. UNCHANGED <<input, target>>
  BY DEF JNext, allVars, vars, upVars, StartDown, Next, BeginEdge, EndEdge, UpdateNode, NextLevel, AssignPositions, ExpandRoot, NumberAndPad
<1>2. Exact /\ Traces' = Traces
  BY <1>1 DEF Exact, Traces, Out
<1>3. CASE StartDown
  BY <1>2, <1>3, FollowingStart DEF ShapeInv
<1>4. CASE Next /\ UNCHANGED downOnly
  <2>1. phase' = "off"
    BY <1>4, UpIsOver DEF DInv, PassesApart, downOnly
  <2> QED BY <2>1
<1>5. ASSUME phase # "off", \A R, T \in Traces : Traced(R, T) => \E R2, T2 \in Traces : Traced(R2, T2)'
      PROVE  \E R, T \in Traces' : Traced(R, T)'
  BY <1>2, <1>5 DEF Following
<1>6. CASE PrepareNode /\ UNCHANGED upVars
  BY <1>5, <1>6, FollowingPrepare DEF PrepareNode
<1>7. CASE UNCHANGED upVars /\ \E c \in NonRoot : CopyToChild(c)
  <2>1. phase # "off"
    BY <1>7 DEF CopyToChild, DInv, Current, Working
  <2> QED BY <1>5, <1>7, <2>1, FollowingCopy
<1>8. CASE UNCHANGED upVars /\ \E c \in NonRoot : FinalSort(c)
  <2>1. phase # "off"
    BY <1>8 DEF FinalSort
  <2> QED BY <1>5, <1>8, <2>1, FollowingSort
<1>9. CASE UNCHANGED upVars /\ \E c \in NonRoot : RankChild(c)
  <2>1. PICK c \in NonRoot : RankChild(c)
    BY <1>9
  <2>2. PICK tc : tables' = [tables EXCEPT ![c] = tc]
    BY <2>1 DEF RankChild
  <2>3. /\ work[c] = "idle" /\ UNCHANGED <<temp, input, target, phase>>
        /\ work' = [work EXCEPT ![c] = "ranked"] /\ phase # "off"
    BY <1>1, <2>1 DEF RankChild
  <2>4. \A d \in NonRoot : work'[d] = IF d = c THEN "ranked" ELSE work[d]
    BY <2>3 DEF DInv, Arrays
  <2>5. \A d \in NonRoot : (Copied(d)' <=> Copied(d)) /\ (work'[d] = "sorted" => work[d] = "sorted")
    BY <2>3, <2>4 DEF Copied
  <2>6. c # Root /\ ~Positioned(c)
    BY <2>3 DEF Positioned, Copied, NonRoot
  <2>7. \A u \in Node : u # c => tables'[u] = tables[u]
    BY <2>2 DEF DInv, Arrays
  <2>8. tables'[Root] = tables[Root] /\ \A u \in Node : Positioned(u) => tables'[u] = tables[u]
    BY <2>6, <2>7, TreeAssumption
  <2>9. ASSUME NEW R \in Traces, NEW T \in Traces, Traced(R, T) PROVE Traced(R, T)'
    <3>1. \A u \in Node : Positioned(u) => Carried(tables'[u], u, R[u], T[u])
      BY <2>8, <2>9 DEF Traced
    <3>2. \A d \in NonRoot : Copied(d) =>
            Fits(d, temp'[d], R[d]) /\ (work'[d] = "sorted" => AtPlace(temp'[d]))
      BY <2>3, <2>5, <2>9 DEF Traced, HandedDown
    <3> QED BY <1>1, <2>5, <2>8, <2>9, <3>1, <3>2, TracedKept
  <2> QED BY <1>5, <2>3, <2>9
<1>10. CASE (UNCHANGED upVars /\ (LeaveNode \/ StartFinalSort \/ Materialize)) \/ UNCHANGED allVars
  <2>1. UNCHANGED <<tables, temp, work>> /\ phase # "off"
    <3>1. CASE UNCHANGED upVars /\ (LeaveNode \/ StartFinalSort \/ Materialize)
      BY <3>1 DEF LeaveNode, StartFinalSort, Materialize
    <3>2. CASE UNCHANGED allVars
      BY <3>2 DEF allVars, vars, downOnly
    <3> QED BY <1>10, <3>1, <3>2
  <2>2. ASSUME NEW R \in Traces, NEW T \in Traces, Traced(R, T) PROVE Traced(R, T)'
    <3>1. \A u \in Node : Positioned(u) => Carried(tables'[u], u, R[u], T[u])
      BY <2>1, <2>2 DEF Traced
    <3>2. \A d \in NonRoot : Copied(d) =>
            Fits(d, temp'[d], R[d]) /\ (work'[d] = "sorted" => AtPlace(temp'[d]))
      BY <2>1, <2>2 DEF Traced, HandedDown
    <3>3. \A d \in NonRoot : Copied(d)' <=> Copied(d)
      BY <2>1 DEF Copied
    <3> QED BY <1>1, <2>1, <2>2, <3>1, <3>2, <3>3, TracedKept
  <2> QED BY <1>5, <2>1, <2>2
<1> QED BY <1>3, <1>4, <1>6, <1>7, <1>8, <1>9, <1>10 DEF JNext, DownNext

LEMMA FollowingInvariant == N > 1 => (JSpec => []Following)
<1> SUFFICES ASSUME N > 1 PROVE JSpec => []Following
  OBVIOUS
<1>1. JInit => Following
  BY DEF JInit, DownInit, Following
<1>2. DInv /\ ShapeInv /\ Ready /\ Following /\ [JNext]_allVars => Following'
  BY FollowingStep
<1> QED BY <1>1, <1>2, ReadyInvariant, ShapeInvariant, DownInvariant, PTL DEF JSpec

(* Two facts about a position and the copies that carry it.                *)
LEMMA CopyAt ==
  ASSUME Out \in Nat, NEW table, Table(table, Out), Numbering(table), NEW q \in 1 .. Out
  PROVE  /\ Cardinality({k \in DOMAIN table : table[k].P = q}) = 1
         /\ \A r \in ToSet(table) : \E k \in 1 .. Out : r = table[k]
<1>1. PICK n, o : n \in Nat /\ n = Out /\ o = [k \in 1 .. n |-> table[k].P]
  OBVIOUS
<1>2. n \in Nat /\ Permutes(o, n)
  BY <1>1 DEF Numbering
<1>3. PICK k \in 1 .. n : o[k] = q
  <2>1. \A j \in 1 .. n : \E k \in 1 .. n : o[k] = j
    BY <1>2, Onto
  <2> QED BY <1>1, <2>1
<1>4. {l \in DOMAIN table : table[l].P = q} = {k}
  BY <1>1, <1>2, <1>3 DEF Permutes, Table
<1>5. Cardinality({k}) = 1
  BY FS_Singleton
<1> QED BY <1>4, <1>5 DEF ToSet, Table

(* The copies of every relation carry every position of the root once.     *)
THEOREM PositionsCompleteTheorem == JSpec => []PositionsComplete
<1>1. CASE N > 1
  <2>1. ShapeInv /\ Following => PositionsComplete
    <3> SUFFICES ASSUME ShapeInv, Following, Exact, NEW c \in NonRoot, Copied(c), NEW q \in DOMAIN tables[Root]
                 PROVE  Cardinality({k \in DOMAIN temp[c] : temp[c][k].P = q}) = 1
      BY DEF PositionsComplete
    <3>1. phase # "off" /\ Out \in Nat
      BY OutType DEF ShapeInv, Progress, Copied
    <3>2. Table(temp[c], Out) /\ DOMAIN tables[Root] = 1 .. Out
      BY <3>1, TreeAssumption DEF ShapeInv, Shapes, Table, Positioned
    <3>3. Numbering(temp[c])
      BY <3>1 DEF Following, Traced, HandedDown, Fits
    <3> QED BY <3>1, <3>2, <3>3, CopyAt
  <2> QED BY <1>1, <2>1, ShapeInvariant, FollowingInvariant, PTL
<1>2. CASE N = 1
  <2>1. PositionsComplete
    BY <1>2, AloneOrder DEF PositionsComplete
  <2> QED BY <2>1, PTL
<1>3. N > 1 \/ N = 1
  BY TreeAssumption
<1> QED BY <1>1, <1>2, <1>3

(* The copies that the two relations of an edge have for one position join.*)
THEOREM EdgesAgreeTheorem == JSpec => []EdgesAgree
<1>1. CASE N > 1
  <2>1. ShapeInv /\ Following => EdgesAgree
    <3> SUFFICES ASSUME ShapeInv, Following, Exact, NEW c \in NonRoot, Copied(c), NEW q \in DOMAIN tables[Root],
                        NEW r \in At(Parent[c], q), NEW s \in At(c, q)
                 PROVE  Joins(c, r, s)
      BY DEF EdgesAgree
    <3>1. phase # "off" /\ Out \in Nat
      BY OutType DEF ShapeInv, Progress, Copied
    <3>2. PICK R \in Traces, T \in Traces : Traced(R, T)
      BY <3>1 DEF Following
    <3>3. q \in 1 .. Out
      BY <3>1, TreeAssumption DEF ShapeInv, Shapes, Table, Positioned
    <3>4. HandedDown(c, R[Parent[c]], T[Parent[c]], R[c], T[c]) /\ Table(temp[c], Out)
      BY <3>1, <3>2 DEF Traced, ShapeInv, Shapes
    <3>5. Parent[c] \in Node /\ Positioned(Parent[c]) /\ c # Root
      BY ParentFacts DEF ShapeInv, Progress, Copied, NonRoot
    <3>6. s.keys = input[c][R[c][q]].keys
      <4>1. s \in ToSet(temp[c]) /\ s.P = q
        BY <3>5 DEF At
      <4>2. PICK k \in 1 .. Out : s = temp[c][k]
        BY <3>1, <3>3, <3>4, <4>1, CopyAt DEF HandedDown, Fits
      <4> QED BY <3>4, <4>1, <4>2 DEF HandedDown, Fits
    <3>7. r.keys = input[Parent[c]][R[Parent[c]][q]].keys
      <4>1. CASE Parent[c] = Root
        <5>1. r \in ToSet(tables[Root]) /\ r.P = q
          BY <4>1 DEF At
        <5>2. Carried(tables[Root], Root, R[Root], T[Root]) /\ Table(tables[Root], Out)
          BY <3>1, <3>2, <3>5, <4>1 DEF Traced, ShapeInv, Shapes
        <5>3. PICK k \in 1 .. Out : r = tables[Root][k]
          BY <3>1, <3>3, <5>1, <5>2, CopyAt DEF Carried
        <5> QED BY <4>1, <5>1, <5>2, <5>3 DEF Carried, Carries, Stands
      <4>2. CASE Parent[c] # Root
        <5>1. PICK p \in NonRoot : p = Parent[c] /\ Copied(p)
          BY <3>5, <4>2 DEF Positioned, NonRoot
        <5>2. r \in ToSet(temp[p]) /\ r.P = q
          BY <4>2, <5>1 DEF At
        <5>3. HandedDown(p, R[Parent[p]], T[Parent[p]], R[p], T[p]) /\ Table(temp[p], Out)
          BY <3>1, <3>2, <5>1 DEF Traced, ShapeInv, Shapes
        <5>4. PICK k \in 1 .. Out : r = temp[p][k]
          BY <3>1, <3>3, <5>2, <5>3, CopyAt DEF HandedDown, Fits
        <5> QED BY <5>1, <5>2, <5>3, <5>4 DEF HandedDown, Fits
      <4> QED BY <4>1, <4>2
    <3>8. Joins(c, input[Parent[c]][R[Parent[c]][q]], input[c][R[c][q]])
      BY <3>3, <3>4 DEF HandedDown, Edge
    <3> QED BY <3>6, <3>7, <3>8 DEF Joins
  <2> QED BY <1>1, <2>1, ShapeInvariant, FollowingInvariant, PTL
<1>2. CASE N = 1
  <2>1. EdgesAgree
    BY <1>2, AloneOrder DEF EdgesAgree
  <2> QED BY <2>1, PTL
<1>3. N > 1 \/ N = 1
  BY TreeAssumption
<1> QED BY <1>1, <1>2, <1>3

(* Every relation has been followed. *)
Wholly(R, T) ==
  /\ \A u \in Node : \A q \in 1 .. Out : InRange(u, R[u][q], T[u][q])
  /\ \A c \in NonRoot : Edge(c, R[Parent[c]], T[Parent[c]], R[c], T[c])
  /\ \A q \in 1 .. Out : T[Root][q] = q - Start(input, R[Root][q] - 1)

LEMMA SameRemainder ==
  ASSUME NEW n \in Nat \ {0}, NEW k, NEW l, k % n = l % n,
         (k \in 0 .. n - 1 /\ l \in 0 .. n - 1) \/ (k \in 1 .. n /\ l \in 1 .. n)
  PROVE  k = l
<1>1. \A x \in 0 .. n - 1 : x % n = x
  OBVIOUS
<1>2. n % n = 0
  <2>1. n = n * 1 + 0 /\ 0 \in 0 .. n - 1
    OBVIOUS
  <2> QED BY <2>1, DividedOnce
<1>3. \A x \in 1 .. n : x \in 1 .. n - 1 \/ x = n
  OBVIOUS
<1>4. \A x \in 1 .. n - 1 : x \in 0 .. n - 1 /\ x # 0
  OBVIOUS
<1> QED BY <1>1, <1>2, <1>3, <1>4

(* Positions with the same rows are the same answers below every row:      *)
(* from the leaves up, the shares of the children are the digits of the    *)
(* number of the answer.  S is closed downwards except at B, where the     *)
(* answers are known to be the same.                                       *)
Agreeing(R, T, q, r, S, B) ==
  /\ S \subseteq Node
  /\ \A u \in S : R[u][q] = R[u][r] /\ (u \in B \/ ChildSet(u) \subseteq S)
  /\ \A u \in S \cap B : T[u][q] = T[u][r]

LEMMA SameTurn ==
  ASSUME N > 1, Wanted, NEW R \in Traces, NEW T \in Traces, Wholly(R, T),
         NEW q \in 1 .. Out, NEW r \in 1 .. Out, NEW S, NEW B, Agreeing(R, T, q, r, S, B)
  PROVE  \A u \in S : T[u][q] = T[u][r]
<1> DEFINE X == {Depth[u] : u \in {v \in S : T[v][q] # T[v][r]}}
<1>0. /\ S \subseteq Node
      /\ \A u \in S : R[u][q] = R[u][r] /\ (u \in B \/ ChildSet(u) \subseteq S)
      /\ \A u \in S \cap B : T[u][q] = T[u][r]
  BY DEF Agreeing
<1>1. SUFFICES ASSUME X # {} PROVE FALSE
  OBVIOUS
<1>2. X \subseteq Nat /\ N - 1 \in Nat /\ \A x \in X : x <= N - 1
  BY <1>0, DepthType, TreeAssumption
<1>3. PICK d \in X : \A y \in X : d >= y
  <2> HIDE DEF X
  <2> QED BY <1>1, <1>2, GreatestOfNats
<1>4. PICK u \in Node : u \in S /\ u \notin B /\ Depth[u] = d /\ T[u][q] # T[u][r]
  BY <1>0, <1>3
<1>5. \A c \in ChildSet(u) : T[c][q] = T[c][r]
  <2> TAKE c \in ChildSet(u)
  <2>1. c \in NonRoot /\ c \in Node /\ c \in S /\ Depth[c] = 1 + d
    BY <1>0, <1>4, ChildFacts, ParentFacts
  <2>2. d \in Nat /\ ~(d >= 1 + d)
    BY <1>2
  <2> HIDE DEF X
  <2>3. Depth[c] \notin X
    BY <1>3, <2>1, <2>2
  <2> QED BY <2>1, <2>3 DEF X
<1> HIDE DEF X
<1>6. PICK i, k, l : i = R[u][q] /\ k = T[u][q] /\ l = T[u][r]
  OBVIOUS
<1>7. InRange(u, i, k) /\ InRange(u, i, l) /\ k # l
  BY <1>0, <1>4, <1>6 DEF Wholly
<1>8. Database(input)
  BY InputLen DEF Wanted, Database
<1>9. i \in 1 .. Len(input[u]) /\ k \in Nat /\ l \in Nat
  BY <1>7 DEF InRange
<1>10. PICK n : n = SubtreeCount(input, u, i)
  OBVIOUS
<1>11. n \in Nat \ {0} /\ ((k \in 0 .. n - 1 /\ l \in 0 .. n - 1 /\ u # Root) \/ (k \in 1 .. n /\ l \in 1 .. n /\ u = Root))
  <2>1. n \in Nat
    BY <1>10, SubtreeCountType
  <2>2. (k \in 0 .. n - 1 /\ l \in 0 .. n - 1 /\ u # Root) \/ (k \in 1 .. n /\ l \in 1 .. n /\ u = Root)
    BY <1>7, <1>10 DEF InRange
  <2> QED BY <2>1, <2>2
<1>12. CASE IsLeaf(u)
  <2>1. n = 1 /\ u # Root
    BY <1>8, <1>9, <1>10, <1>12, LeafCount, RootIsInternal
  <2>2. k = 0 /\ l = 0
    BY <1>11, <2>1
  <2> QED BY <1>7, <2>2
<1>13. CASE ~IsLeaf(u)
  <2>1. PICK m, us : m = Cardinality(ChildSet(u)) /\ us = UsOf(input, u, i)
    OBVIOUS
  <2>2. Positive(us, m) /\ Product(us) = n
    BY <1>8, <1>9, <1>10, <1>11, <2>1, ValuesOf
  <2>3. m \in Nat \ {0} /\ DOMAIN children(u) = 1 .. m
    <3>1. PICK c \in ChildSet(u) : TRUE
      BY <1>13 DEF IsLeaf
    <3> QED BY <2>1, <3>1, ChildFacts, ChildIdxIs, ChildrenEnumerate
  <2>4. ASSUME NEW j \in 1 .. m
        PROVE  PartialIndex(k, us, SuffixCount(us))[j] = PartialIndex(l, us, SuffixCount(us))[j]
    <3>1. PICK c \in NonRoot : c = children(u)[j] /\ Parent[c] = u /\ c \in ChildSet(u) /\ c \in Node
      <4>1. children(u)[j] \in ChildSet(u)
        BY <2>3, <2>4, ChildrenEnumerate
      <4> QED BY <4>1, ChildFacts, ParentFacts
    <3>2. ChildIdx(c) = j
      BY <2>1, <2>3, <3>1, ChildIdxIs, ChildrenEnumerate
    <3>3. Share(c, R[u][q], T[u][q]) = Share(c, R[u][r], T[u][r])
      <4>1. R[c][q] = R[c][r] /\ T[c][q] = T[c][r]
        BY <1>0, <1>4, <1>5, <3>1
      <4> QED BY <3>1, <4>1 DEF Wholly, Edge
    <3>4. Share(c, i, k) = Share(c, i, l)
      BY <1>0, <1>4, <1>6, <3>3
    <3> QED BY <2>1, <3>1, <3>2, <3>4 DEF Share
  <2>5. k % n = l % n
    BY <1>9, <2>2, <2>3, <2>4, SameDigits
  <2>6. k = l
    BY <1>11, <2>5, SameRemainder
  <2> QED BY <1>7, <2>6
<1> QED BY <1>12, <1>13

LEMMA OneToOne ==
  ASSUME NEW S, NEW W, NEW f \in [S -> W], \A x, y \in S : f[x] = f[y] => x = y
  PROVE  f \in Injection(S, W)
BY DEF Injection, IsInjective

(* Positions with the same root row and the same answer below it are one.  *)
LEMMA RootPlace ==
  ASSUME Wanted, Exact, NEW R \in Traces, NEW T \in Traces, Wholly(R, T),
         NEW q \in 1 .. Out, NEW r \in 1 .. Out,
         R[Root][q] = R[Root][r], T[Root][q] = T[Root][r]
  PROVE  q = r
<1>1. Database(input) /\ Root \in Node
  BY InputLen, TreeAssumption DEF Wanted, Database
<1>2. PICK i \in 1 .. Len(input[Root]) : i = R[Root][q] /\ Len(input[Root]) \in Nat
  BY <1>1 DEF Wholly, InRange, Database
<1>3. PICK s : s = Start(input, R[Root][q] - 1)
  OBVIOUS
<1>4. s \in Nat
  <2>1. i - 1 \in 0 .. Len(input[Root])
    BY <1>2
  <2> QED BY <1>1, <1>2, <1>3, <2>1, StartSteps
<1>5. T[Root][q] = q - s /\ T[Root][r] = r - s
  BY <1>3 DEF Wholly
<1>6. q \in Nat /\ r \in Nat
  <2>1. Out \in Nat
    BY ExactSize
  <2> QED BY <2>1
<1>7. q - s = r - s
  BY <1>5
<1> QED BY <1>4, <1>6, <1>7

(* The positions list the answers of the join, each once.                  *)
LEMMA AnswersListed ==
  ASSUME N > 1, Wanted, Exact, NEW R \in Traces, NEW T \in Traces, Wholly(R, T),
         NEW F, F = [q \in 1 .. Out |-> [u \in Node |-> R[u][q]]]
  PROVE  F \in Bijection(1 .. Out, Matches(input, Node))
<1>1. Database(input) /\ Root \in Node
  BY InputLen, TreeAssumption DEF Wanted, Database
<1>2. PICK n \in Nat : n = Out /\ n = JoinSize(input)
  BY ExactSize
<1>3. PICK M : M = Matches(input, Node)
  OBVIOUS
<1>4. \A q \in 1 .. n : F[q] \in M
  <2> SUFFICES ASSUME NEW q \in 1 .. n PROVE F[q] \in M
    OBVIOUS
  <2>1. PICK f : f = [u \in Node |-> R[u][q]]
    OBVIOUS
  <2>2. f = [u \in Node |-> f[u]] /\ \A u \in Node : f[u] \in 1 .. Len(input[u])
    BY <1>2, <2>1 DEF Wholly, InRange
  <2>3. \A u \in Node : Parent[u] \in Node => Joins(u, input[Parent[u]][f[Parent[u]]], input[u][f[u]])
    <3> SUFFICES ASSUME NEW u \in Node, Parent[u] \in Node
                 PROVE  Joins(u, input[Parent[u]][f[Parent[u]]], input[u][f[u]])
      OBVIOUS
    <3>1. u \in NonRoot
      BY TreeAssumption DEF NonRoot, Node, NoParent
    <3>2. Joins(u, input[Parent[u]][R[Parent[u]][q]], input[u][R[u][q]])
      BY <1>2, <3>1 DEF Wholly, Edge
    <3> QED BY <2>1, <3>2
  <2>4. f \in Matches(input, Node)
    BY <1>1, <2>2, <2>3, MatchesAre
  <2> QED BY <1>2, <1>3, <2>1, <2>4
<1>5. \A q, r \in 1 .. n : F[q] = F[r] => q = r
  <2> SUFFICES ASSUME NEW q \in 1 .. n, NEW r \in 1 .. n, F[q] = F[r] PROVE q = r
    OBVIOUS
  <2>1. \A u \in Node : R[u][q] = R[u][r]
    <3> TAKE u \in Node
    <3>1. F[q][u] = R[u][q] /\ F[r][u] = R[u][r]
      BY <1>2
    <3> QED BY <3>1
  <2>2. T[Root][q] = T[Root][r] /\ R[Root][q] = R[Root][r]
    <3>1. PICK B : B = {}
      OBVIOUS
    <3>2. Agreeing(R, T, q, r, Node, B)
      BY <2>1, <3>1 DEF Agreeing, ChildSet
    <3>3. \A u \in Node : T[u][q] = T[u][r]
      BY <1>2, <3>2, SameTurn
    <3> QED BY <1>1, <2>1, <3>3
  <2> QED BY <1>2, <2>2, RootPlace
<1>6. F \in Injection(1 .. n, M)
  <2>1. F \in [1 .. n -> M]
    BY <1>2, <1>4
  <2> QED BY <1>5, <2>1, OneToOne
<1>7. IsFiniteSet(M) /\ Cardinality(M) = n
  BY <1>1, <1>2, <1>3, MatchesFinite DEF JoinSize
<1>8. Cardinality(1 .. n) = n
  BY FS_Interval
<1>9. F \in Surjection(1 .. n, M)
  BY <1>6, <1>7, <1>8, FS_Injection
<1> QED BY <1>2, <1>3, <1>6, <1>9 DEF Bijection

(* The rows without dummies, as a bag. *)
BagOf(res) ==
  [v \in {row \in ToSet(res) : DummyValue \notin ToSet(row)} |-> Cardinality({k \in DOMAIN res : res[k] = v})]

(* A list of the answers is the join as a bag. *)
LEMMA ListIsBag ==
  ASSUME NEW db, NEW n \in Nat, NEW F, F \in Bijection(1 .. n, Matches(db, Node)),
         NEW res, res = [k \in 1 .. n |-> JoinRow(db, F[k])],
         \A k \in 1 .. n : DummyValue \notin ToSet(res[k])
  PROVE  BagOf(res) = JoinBag(db)
<1>1. PICK M : M = Matches(db, Node)
  OBVIOUS
<1>2. PICK J : J = [f \in M |-> JoinRow(db, f)]
  OBVIOUS
<1>3. /\ F \in [1 .. n -> M] /\ \A i, j \in 1 .. n : F[i] = F[j] => i = j
      /\ \A f \in M : \E k \in 1 .. n : F[k] = f
  BY <1>1 DEF Bijection, Injection, Surjection, IsInjective
<1>4. DOMAIN res = 1 .. n /\ \A k \in 1 .. n : res[k] = J[F[k]]
  BY <1>2, <1>3
<1>5. {row \in ToSet(res) : DummyValue \notin ToSet(row)} = {J[f] : f \in M}
  <2>1. ToSet(res) = {res[k] : k \in 1 .. n}
    BY <1>4 DEF ToSet
  <2>2. \A v : v \in {res[k] : k \in 1 .. n} <=> v \in {J[f] : f \in M}
    BY <1>3, <1>4
  <2>3. {row \in ToSet(res) : DummyValue \notin ToSet(row)} = ToSet(res)
    BY <2>1
  <2> QED BY <2>1, <2>2, <2>3
<1>6. \A v : Cardinality({k \in 1 .. n : res[k] = v}) = Cardinality({f \in M : J[f] = v})
  <2> TAKE v
  <2>1. PICK S, W, g : /\ S = {k \in 1 .. n : res[k] = v} /\ W = {f \in M : J[f] = v}
                       /\ g = [k \in S |-> F[k]]
    OBVIOUS
  <2>2. IsFiniteSet(S)
    <3>1. IsFiniteSet(1 .. n) /\ S \subseteq 1 .. n
      BY <2>1, FS_Interval
    <3> QED BY <3>1, FS_Subset
  <2>3. g \in [S -> W]
    BY <1>3, <1>4, <2>1
  <2>4. \A x, y \in S : g[x] = g[y] => x = y
    BY <1>3, <2>1
  <2>5. \A z \in W : \E x \in S : g[x] = z
    BY <1>3, <1>4, <2>1
  <2>6. Cardinality(W) = Cardinality(S)
    BY <2>2, <2>3, <2>4, <2>5, Correspondence
  <2> QED BY <2>1, <2>6
<1>7. JoinBag(db) = [v \in {J[f] : f \in M} |-> Cardinality({f \in M : J[f] = v})]
  <2>1. {JoinRow(db, f) : f \in Matches(db, Node)} = {J[f] : f \in M}
    BY <1>1, <1>2
  <2>2. \A v : {f \in Matches(db, Node) : JoinRow(db, f) = v} = {f \in M : J[f] = v}
    BY <1>1, <1>2
  <2>3. \A v : Cardinality({f \in Matches(db, Node) : JoinRow(db, f) = v}) = Cardinality({f \in M : J[f] = v})
    BY <2>2
  <2> QED BY <2>1, <2>3, Zenon DEF JoinBag
<1>8. \A v : Cardinality({k \in DOMAIN res : res[k] = v}) = Cardinality({f \in M : J[f] = v})
  BY <1>4, <1>6
<1> QED BY <1>5, <1>7, <1>8, Zenon DEF BagOf

(* Rows of the database have no dummy values. *)
LEMMA JoinRowIsReal ==
  ASSUME Wanted, NEW f, \A u \in Node : f[u] \in 1 .. Len(input[u])
  PROVE  DummyValue \notin ToSet(JoinRow(input, f))
<1>1. PICK seqs : seqs = [i \in 1 .. N |-> input[i-1][f[i-1]].keys]
  OBVIOUS
<1>2. PICK flat : flat = FlattenSeq(seqs)
  OBVIOUS
<1>3. \A i \in 1 .. N : i - 1 \in Node
  BY TreeAssumption DEF Node
<1>4. \A i \in 1 .. N : seqs[i] \in Seq(Int) /\ DummyValue \notin ToSet(seqs[i])
  BY <1>1, <1>3, InputLen DEF Wanted
<1>5. Sequences(seqs, N, Int)
  BY <1>1, <1>4, TreeAssumption, LenOf DEF Sequences
<1>6. InOrder(flat, seqs, N, Int)
  BY <1>2, <1>5, FlattenedElements
<1>7. DummyValue \notin ToSet(flat)
  <2> SUFFICES ASSUME NEW m \in DOMAIN flat, flat[m] = DummyValue PROVE FALSE
    BY DEF ToSet
  <2>1. m \in 1 .. Len(flat) /\ m <= m
    BY <1>6 DEF InOrder
  <2>2. PICK i \in 1 .. N : \E k \in 1 .. Len(seqs[i]) : flat[m] = seqs[i][k]
    BY <1>6, <2>1 DEF InOrder
  <2>3. PICK k \in 1 .. Len(seqs[i]) : seqs[i][k] = DummyValue
    BY <2>2
  <2>4. k \in DOMAIN seqs[i]
    BY <1>4
  <2> QED BY <1>4, <2>3, <2>4 DEF ToSet
<1> QED BY <1>1, <1>2, <1>7 DEF JoinRow

(* Reading the answer off. *)
LEMMA MaterializeAnswers ==
  ASSUME N > 1, ShapeInv, Following, Exact, UNCHANGED upVars, Materialize
  PROVE  (RealBag = JoinBag(input))'
<1>1. phase = "sort" /\ input' = input /\ \A c \in NonRoot : work[c] = "sorted" /\ Copied(c)
  BY DEF Materialize, upVars, Copied
<1>2. PICK R \in Traces, T \in Traces : Traced(R, T)
  BY <1>1 DEF Following
<1>3. Wanted /\ Root \in Node /\ Positioned(Root)
  BY TreeAssumption DEF ShapeInv, Positioned
<1>4. PICK n \in Nat : n = Out /\ DOMAIN tables[Root] = 1 .. n
  BY <1>1, <1>3, OutType DEF ShapeInv, Shapes, Table
<1>5. Wholly(R, T)
  BY <1>1, <1>2 DEF Traced, HandedDown, Wholly, NonRoot
<1>6. PICK F : F = [q \in 1 .. n |-> [u \in Node |-> R[u][q]]]
  OBVIOUS
<1>7. F \in Bijection(1 .. n, Matches(input, Node))
  BY <1>3, <1>4, <1>5, <1>6, AnswersListed
<1>8. \A j \in 1 .. n : tables[Root][j].keys = input[Root][R[Root][j]].keys
  BY <1>2, <1>3, <1>4 DEF Traced, Carried, Carries, Stands
<1>9. \A c \in NonRoot : \A j \in 1 .. n : temp[c][j].keys = input[c][R[c][j]].keys
  BY <1>1, <1>2, <1>4 DEF Traced, HandedDown, Fits, AtPlace
<1>10. ASSUME NEW j \in 1 .. n
       PROVE  FlattenSeq([i \in 1 .. N |-> IF i - 1 = Root THEN tables[Root][j].keys ELSE temp[i-1][j].keys])
                = JoinRow(input, F[j])
  <2>1. PICK f : f = F[j] /\ \A u \in Node : f[u] = R[u][j]
    BY <1>6
  <2>2. \A i \in 1 .. N : i - 1 \in Node
    BY TreeAssumption DEF Node
  <2>3. \A i \in 1 .. N : (IF i - 1 = Root THEN tables[Root][j].keys ELSE temp[i-1][j].keys) = input[i-1][f[i-1]].keys
    BY <1>8, <1>9, <2>1, <2>2 DEF NonRoot
  <2>4. PICK a, b : /\ a = [i \in 1 .. N |-> IF i - 1 = Root THEN tables[Root][j].keys ELSE temp[i-1][j].keys]
                    /\ b = [i \in 1 .. N |-> input[i-1][f[i-1]].keys]
    OBVIOUS
  <2>5. a = b
    BY <2>3, <2>4
  <2> QED BY <2>1, <2>4, <2>5 DEF JoinRow
<1>11. PICK res : res = [j \in 1 .. n |-> JoinRow(input, F[j])]
  OBVIOUS
<1>12. result' = res
  BY <1>4, <1>10, <1>11 DEF Materialize
<1>13. \A k \in 1 .. n : DummyValue \notin ToSet(res[k])
  <2> TAKE k \in 1 .. n
  <2>1. PICK f : f = F[k] /\ \A u \in Node : f[u] = R[u][k]
    BY <1>6
  <2>2. \A u \in Node : f[u] \in 1 .. Len(input[u])
    BY <1>4, <1>5, <2>1 DEF Wholly, InRange
  <2>3. DummyValue \notin ToSet(JoinRow(input, f))
    BY <1>3, <2>2, JoinRowIsReal
  <2> QED BY <1>11, <2>1, <2>3
<1>14. BagOf(res) = JoinBag(input)
  BY <1>7, <1>11, <1>13, ListIsBag
<1> QED BY <1>1, <1>12, <1>14, Zenon DEF RealBag, BagOf

(* The answer that was given stays. *)
Answered == Exact /\ phase = "done" => RealBag = JoinBag(input)

LEMMA AnsweredStep ==
  ASSUME N > 1, DInv, ShapeInv, Following, Answered, [JNext]_allVars
  PROVE  Answered'
<1> SUFFICES ASSUME Exact', phase' = "done" PROVE (RealBag = JoinBag(input))'
  BY DEF Answered
<1>1. UNCHANGED <<input, target>>
  BY DEF JNext, allVars, vars, upVars, StartDown, Next, BeginEdge, EndEdge, UpdateNode, NextLevel, AssignPositions, ExpandRoot, NumberAndPad
<1>2. Exact
  BY <1>1 DEF Exact
<1>3. CASE StartDown
  <2>1. phase' # "off" /\ tables' = tables /\ Root \in Node /\ (phase' # "node" => tables[Root] = <<>>)
    BY <1>3, TreeAssumption DEF StartDown
  <2>2. Positioned(Root)' /\ Out' \in Nat \ {0}
    <3>1. Out' = Out
      BY <1>1 DEF Out
    <3> QED BY <3>1, OutType DEF ShapeInv, Positioned
  <2>3. Table(tables[Root], Out)'
    BY <1>3, <2>1, <2>2, ShapesStart DEF ShapeInv, Shapes
  <2>4. 1 \in DOMAIN tables[Root]
    BY <2>1, <2>2, <2>3 DEF Table
  <2> QED BY <1>3, <2>1, <2>4
<1>4. CASE Next /\ UNCHANGED downOnly
  BY <1>4, UpIsOver DEF DInv, PassesApart, downOnly
<1>5. CASE Materialize /\ UNCHANGED upVars
  BY <1>2, <1>5, MaterializeAnswers
<1>6. CASE UNCHANGED <<phase, result>>
  <2>1. RealBag = JoinBag(input)
    BY <1>2, <1>6 DEF Answered
  <2> QED BY <1>1, <1>6, <2>1 DEF RealBag
<1> QED BY <1>3, <1>4, <1>5, <1>6 DEF JNext, DownNext, PrepareNode, RankChild, CopyToChild, FinalSort, LeaveNode,
                                      StartFinalSort, allVars, downOnly

(* JFYan answers with the bag of the join when it materialises the exact   *)
(* size: every combination of joining rows once, nothing else.             *)
THEOREM AnswerCorrect == N > 1 => (JSpec => [](Exact /\ phase = "done" => RealBag = JoinBag(input)))
<1> SUFFICES ASSUME N > 1 PROVE JSpec => []Answered
  BY DEF Answered
<1>1. JInit => Answered
  BY DEF JInit, DownInit, Answered
<1>2. DInv /\ ShapeInv /\ Following /\ Answered /\ [JNext]_allVars => Answered'
  BY AnsweredStep
<1> QED BY <1>1, <1>2, FollowingInvariant, ShapeInvariant, DownInvariant, PTL DEF JSpec

-----------------------------------------------------------------------------
(* A join without answers.                                                 *)
(*                                                                         *)
(* It gets one output row, which is a dummy at the root.  Below, the row   *)
(* finds headers or not; whatever it finds is a row, so that the answer    *)
(* has the dummy value among its columns.                                  *)

Values == Int \cup {DummyValue}

Arity(u) == Cardinality(ChildSet(u))

(* A row with the columns that the pass computes with. *)
Regular(r, m) ==
  r.keys \in Seq(Values) /\ r.P \in Int /\ r.b \in Int /\ r.lambda \in Nat /\ Numbers(r.us, m)

LEMMA RealKeys ==
  ASSUME input \in Inputs, NEW u \in Node, NEW i \in 1 .. Len(input[u])
  PROVE  input[u][i].keys \in Seq(Values) /\ DOMAIN input[u][i].keys = 1 .. Len(input[u][i].keys)
         /\ Len(input[u][i].keys) \in Nat /\ 1 \in DOMAIN input[u][i].keys
<1>1. PICK s : s = input[u][i].keys
  OBVIOUS
<1>2. s \in Seq(Int) /\ 1 \in DOMAIN s
  BY <1>1, InputLen
<1>3. s \in Seq(Values)
  BY <1>2 DEF Values
<1> QED BY <1>1, <1>2, <1>3

LEMMA ListOf ==
  ASSUME NEW n \in Nat, NEW S, NEW v \in S, NEW f, f = [k \in 1 .. n |-> v]
  PROVE  f \in Seq(S) /\ Len(f) = n
<1>1. f \in [1 .. n -> S]
  OBVIOUS
<1> QED BY <1>1

LEMMA ChildPlaces ==
  ASSUME NEW u \in Node
  PROVE  Arity(u) \in Nat /\ DOMAIN children(u) = 1 .. Arity(u)
<1>1. IsFiniteSet(ChildSet(u))
  <2>1. IsFiniteSet(Node) /\ ChildSet(u) \subseteq Node
    BY FS_Interval, TreeAssumption DEF Node, ChildSet
  <2> QED BY <2>1, FS_Subset
<1> QED BY <1>1, ChildrenEnumerate, FS_CardinalityType DEF Arity

LEMMA Zeros ==
  ASSUME NEW u \in Node
  PROVE  Numbers([j \in DOMAIN children(u) |-> 0], Arity(u))
<1>1. PICK m \in Nat : m = Arity(u) /\ DOMAIN children(u) = 1 .. m
  BY ChildPlaces
<1>2. PICK f : f = [j \in 1 .. m |-> 0]
  OBVIOUS
<1>3. f \in [1 .. m -> Nat] /\ Len(f) = m
  BY <1>2, ListOf
<1> QED BY <1>1, <1>2, <1>3 DEF Numbers

(* The rank of a header counts; the first header of a key has rank 0.      *)
LEMMA RanksCount ==
  ASSUME input \in Inputs, NEW c \in NonRoot, NEW s, Standing(c, s), NEW h \in 1 .. Len(input[c])
  PROVE  /\ RankValues(c, tables[c])[h] \in Nat
         /\ (\A j \in 1 .. h - 1 : tables[c][j].keys[ColInChild[c]] # tables[c][h].keys[ColInChild[c]])
              => RankValues(c, tables[c])[h] = 0
<1> DEFINE n == Len(input[c])
<1>1. c \in Node /\ n \in Nat /\ Database(input)
  BY InputLen, ParentFacts DEF Database
<1>2. DOMAIN tables[c] = 1 .. n /\ s \in [1 .. n -> 1 .. n] /\ \A k, j \in 1 .. n : s[k] = s[j] => k = j
  BY DEF Standing, Permutes
<1>3. PICK F : F = [k \in 1 .. n |-> Using(input, c, s[k])]
  OBVIOUS
<1>4. PICK tc : tc = tables[c]
  OBVIOUS
<1>5. PICK K : K = {j \in 1 .. h - 1 : tc[j].keys[ColInChild[c]] = tc[h].keys[ColInChild[c]]}
  OBVIOUS
<1>6. RankValues(c, tables[c])[h] = SumAt(c, tc, K)
  <2>1. RankValues(c, tables[c])[h] =
          SumAt(c, tables[c], {j \in 1 .. h - 1 : tables[c][j].keys[ColInChild[c]] = tables[c][h].keys[ColInChild[c]]})
    BY <1>2, Zenon DEF RankValues, SumAt
  <2> QED BY <1>4, <1>5, <2>1
<1>7. K \subseteq 1 .. n
  BY <1>1, <1>5
<1>8. IsFiniteSet(K)
  <2>1. IsFiniteSet(1 .. n)
    BY <1>1, FS_Interval
  <2> QED BY <1>7, <2>1, FS_Subset
<1>9. \A k \in K : IsFiniteSet(F[k]) /\ Contribution(c, tc[k]) = Cardinality(F[k])
  <2> TAKE k \in K
  <2>1. k \in 1 .. n /\ s[k] \in 1 .. n /\ Stands(c, tc[k], s[k])
    BY <1>2, <1>4, <1>7 DEF Standing
  <2> QED BY <1>1, <1>3, <2>1, ContributionStands
<1>10. \A k, l \in K : k # l => F[k] \cap F[l] = {}
  <2> SUFFICES ASSUME NEW k \in K, NEW l \in K, k # l PROVE F[k] \cap F[l] = {}
    OBVIOUS
  <2>1. k \in 1 .. n /\ l \in 1 .. n
    BY <1>7
  <2>2. s[k] # s[l]
    BY <1>2, <2>1
  <2> QED BY <1>3, <2>1, <2>2 DEF Using
<1>11. SumAt(c, tc, K) = Cardinality(Together(F, K)) /\ IsFiniteSet(Together(F, K))
  BY ONLY <1>8, <1>9, <1>10, SumOfSizes
<1>12. RankValues(c, tables[c])[h] \in Nat
  BY <1>6, <1>11, FS_CardinalityType
<1>13. ASSUME \A j \in 1 .. h - 1 : tables[c][j].keys[ColInChild[c]] # tables[c][h].keys[ColInChild[c]]
       PROVE  RankValues(c, tables[c])[h] = 0
  <2>1. K = {}
    BY <1>4, <1>5, <1>13
  <2>2. Together(F, K) = {}
    BY <2>1 DEF Together
  <2> QED BY <1>6, <1>11, <2>2, FS_EmptySet
<1> QED BY <1>12, <1>13

(* A row that has header rows finds one of them, whatever its number.      *)
LEMMA OwnerIsHeader ==
  ASSUME input \in Inputs, NEW c \in NonRoot, NEW s, Standing(c, s), rank[c] = RankValues(c, tables[c]),
         NEW k, Headers(c, k) # {}, pc[k][ChildIdx(c)] \in Nat, NEW own, own = Owner(c, k)
  PROVE  own \in 1 .. Len(input[c]) /\ rank[c][own] \in Nat
<1>1. PICK n \in Nat : n = Len(input[c])
  BY InputLen, ParentFacts
<1>2. PICK H : H = Headers(c, k)
  OBVIOUS
<1>3. H \subseteq 1 .. n /\ DOMAIN tables[c] = 1 .. n
  BY <1>1, <1>2 DEF Standing, Headers
<1>4. PICK e \in Nat : e = pc[k][ChildIdx(c)]
  OBVIOUS
<1>5. PICK X : X = {h \in H : rank[c][h] <= e}
  OBVIOUS
<1>6. PICK first \in H : \A j \in H : first <= j
  <2>1. H \subseteq Nat /\ H # {}
    BY <1>2, <1>3
  <2> QED BY <2>1, LeastOfNats
<1>7. first \in X
  <2>1. first \in 1 .. n /\ first \in Nat
    BY <1>3, <1>6
  <2>2. ASSUME NEW j \in 1 .. first - 1, tables[c][j].keys[ColInChild[c]] = tables[c][first].keys[ColInChild[c]]
        PROVE  FALSE
    <3>1. j \in DOMAIN tables[c] /\ ~(first <= j)
      BY <1>3, <2>1, <2>2
    <3>2. j \in H
      BY <1>2, <1>6, <2>2, <3>1 DEF Headers, Joins
    <3> QED BY <1>6, <3>1, <3>2
  <2>3. rank[c][first] = 0
    BY <1>1, <2>1, <2>2, RanksCount
  <2> QED BY <1>5, <2>3
<1>8. X \subseteq Nat /\ X # {} /\ \A x \in X : x <= n
  BY <1>3, <1>5, <1>7
<1>9. PICK last \in X : \A x \in X : last >= x
  BY <1>8, GreatestOfNats
<1>10. Max(X) \in X
  BY <1>9 DEF Max
<1>11. own = Max(X)
  BY <1>2, <1>4, <1>5, Zenon DEF Owner
<1>12. own \in 1 .. n
  BY <1>3, <1>5, <1>10, <1>11
<1> QED BY <1>1, <1>12, RanksCount

(* The numbers of partial answers and the suffix products are naturals.    *)
LEMMA IndicesCount ==
  ASSUME NEW rows, DOMAIN rows = 1 .. 1, NEW m \in Nat \ {0}, Regular(rows[1], m),
         NEW k, k = LocalIndex(rows)[1], NEW s, s = SuffixCount(rows[1].us)
  PROVE  k \in Int /\ \A j \in 1 .. m : s[j] \in Nat /\ PartialIndex(k, rows[1].us, s)[j] \in Nat
<1>1. PICK r : r = rows[1] /\ r.P \in Int /\ r.b \in Int /\ r.lambda \in Nat /\ Numbers(r.us, m)
  BY DEF Regular
<1>2. RawIndex(rows)[1] = r.P - r.b
  <2>1. 1 \in Nat /\ \A i \in 1 .. 1 : i = 1
    OBVIOUS
  <2>2. \A i \in 1 .. 1 : rows[i].P \in Int /\ rows[i].b \in Int
    BY <1>1, <2>1
  <2>3. \A i \in 1 .. 1 : RawIndex(rows)[i] = rows[i].P - rows[i].b
    <3>1. PICK n \in Nat : n = 1
      OBVIOUS
    <3>2. DOMAIN rows = 1 .. n /\ \A i \in 1 .. n : rows[i].P \in Int /\ rows[i].b \in Int
      BY <2>2, <3>1
    <3>3. \A i \in 1 .. n : RawIndex(rows)[i] = rows[i].P - rows[i].b
      BY <3>2, RawIndexIs
    <3> QED BY <3>1, <3>3
  <2> QED BY <1>1, <2>3
<1>3. k \in Int
  <2>1. k = IF r.lambda > 0 THEN (r.P - r.b) \div r.lambda ELSE 0
    BY <1>1, <1>2 DEF LocalIndex
  <2>2. PICK d \in Int : d = r.P - r.b
    BY <1>1
  <2>3. \A l \in Nat : l > 0 => d \div l \in Int
    OBVIOUS
  <2> QED BY <1>1, <2>1, <2>2, <2>3
<1>4. Numbers(s, m)
  BY <1>1, SuffixCountIs
<1>5. ASSUME NEW j \in 1 .. m PROVE s[j] \in Nat /\ PartialIndex(k, rows[1].us, s)[j] \in Nat
  <2>1. PICK sj \in Nat : sj = s[j]
    BY <1>4 DEF Numbers
  <2>2. PICK uj \in Nat : uj = r.us[j] /\ j \in DOMAIN r.us
    BY <1>1 DEF Numbers
  <2>3. PartialIndex(k, rows[1].us, s)[j] = IF sj > 0 /\ uj > 0 THEN (k \div sj) % uj ELSE 0
    BY <1>1, <2>1, <2>2 DEF PartialIndex
  <2>4. \A a, b \in Nat : a > 0 /\ b > 0 => k \div a \in Int /\ (k \div a) % b \in Nat
    BY <1>3
  <2> QED BY <2>1, <2>2, <2>3, <2>4
<1> QED BY <1>3, <1>5

(* A copied header keeps its columns. *)
LEMMA HeaderRegular ==
  ASSUME input \in Inputs, NEW c \in NonRoot, NEW s, Standing(c, s), NEW h \in 1 .. Len(input[c]),
         NEW b \in Int, NEW P \in Int, NEW lambda \in Nat,
         NEW r, r = WithState(tables[c][h], b, P, lambda)
  PROVE  r.keys \in Seq(Values) /\ (~IsLeaf(c) => Regular(r, Arity(c)))
<1>1. c \in Node /\ Database(input) /\ s[h] \in 1 .. Len(input[c]) /\ Stands(c, tables[c][h], s[h])
  BY InputLen, ParentFacts DEF Database, Standing, Permutes
<1>2. r.keys = input[c][s[h]].keys
  BY <1>1 DEF Stands, WithState
<1>3. r.keys \in Seq(Values)
  BY <1>1, <1>2, RealKeys
<1>4. ASSUME ~IsLeaf(c) PROVE Regular(r, Arity(c))
  <2>1. r.us = UsOf(input, c, s[h]) /\ r.b = b /\ r.P = P /\ r.lambda = lambda
    BY <1>1, <1>4 DEF Stands, WithState
  <2>2. Numbers(UsOf(input, c, s[h]), Arity(c))
    BY <1>1, ValuesOf DEF Arity
  <2> QED BY <1>3, <2>1, <2>2 DEF Regular
<1> QED BY <1>3, <1>4

LEMMA BlankRegular ==
  ASSUME input \in Inputs, NEW c \in NonRoot, NEW s, Standing(c, s),
         NEW b \in Int, NEW P \in Int, NEW lambda \in Nat,
         NEW r, r = WithState(BlankHeader(c), b, P, lambda)
  PROVE  r.keys \in Seq(Values) /\ (~IsLeaf(c) => Regular(r, Arity(c)))
<1>1. c \in Node /\ 1 \in 1 .. Len(input[c])
  BY InputLen, ParentFacts
<1>2. s[1] \in 1 .. Len(input[c]) /\ tables[c][1].keys = input[c][s[1]].keys
  BY <1>1 DEF Standing, Permutes, Stands
<1>3. PICK n \in Nat : DOMAIN tables[c][1].keys = 1 .. n
  BY <1>1, <1>2, RealKeys
<1>4. PICK zeros : zeros = [k \in 1 .. n |-> 0]
  OBVIOUS
<1>5. zeros \in Seq(Values)
  <2>1. 0 \in Values
    BY DEF Values
  <2> QED BY <1>4, <2>1, ListOf
<1>6. r.keys = zeros
  BY <1>3, <1>4 DEF BlankHeader, WithState
<1>7. ASSUME ~IsLeaf(c) PROVE Regular(r, Arity(c))
  <2>1. r.us = [k \in DOMAIN children(c) |-> 0] /\ r.b = b /\ r.P = P /\ r.lambda = lambda
    BY <1>7 DEF BlankHeader, WithState
  <2>2. Numbers(r.us, Arity(c))
    BY <1>1, <2>1, Zeros
  <2> QED BY <1>5, <1>6, <2>1, <2>2 DEF Regular
<1> QED BY <1>5, <1>6, <1>7

(* The copy of a regular row is regular. *)
LEMMA CopyRegular ==
  ASSUME input \in Inputs, NEW c \in NonRoot, NEW s, Standing(c, s), rank[c] = RankValues(c, tables[c]),
         NEW rows, rows = tables[Parent[c]], DOMAIN rows = 1 .. 1, Regular(rows[1], Arity(Parent[c])),
         idx[1] = LocalIndex(rows)[1], sc[1] = SuffixCount(rows[1].us),
         pc[1] = PartialIndex(idx[1], rows[1].us, sc[1]),
         NEW r, r = CopyOf(c, 1)
  PROVE  r.keys \in Seq(Values) /\ (~IsLeaf(c) => Regular(r, Arity(c)))
<1>1. PICK m \in Nat \ {0} : m = Arity(Parent[c]) /\ ChildIdx(c) \in 1 .. m
  BY ChildIdxIs DEF Arity
<1>2. PICK j \in 1 .. m : j = ChildIdx(c)
  BY <1>1
<1>3. idx[1] \in Int /\ sc[1][j] \in Nat /\ pc[1][j] \in Nat
  BY <1>1, <1>2, IndicesCount
<1>4. PICK p, sj, ld, P : /\ p = pc[1][j] /\ sj = sc[1][j] /\ ld = rows[1].lambda /\ P = rows[1].P
                          /\ p \in Nat /\ sj \in Nat /\ ld \in Nat /\ P \in Int
  BY <1>3 DEF Regular
<1>5. PICK alpha : alpha = IF sj > 0 THEN idx[1] % sj ELSE 0
  OBVIOUS
<1>6. alpha \in Nat
  BY <1>3, <1>4, <1>5
<1>7. ASSUME NEW k \in Nat
      PROVE  P - ld * (alpha + (p - k) * sj) \in Int /\ ld * sj \in Nat
  BY <1>4, <1>6
<1>8. \A h, k : Copy(c, 1, h, k) = WithState(h, P - ld * (alpha + (p - k) * sj), P, ld * sj)
  BY <1>2, <1>4, <1>5 DEF Copy
<1>9. CASE Headers(c, 1) # {}
  <2>1. PICK own : own = Owner(c, 1)
    OBVIOUS
  <2>2. own \in 1 .. Len(input[c]) /\ rank[c][own] \in Nat
    BY <1>2, <1>3, <1>9, <2>1, OwnerIsHeader
  <2>3. r = Copy(c, 1, tables[c][own], rank[c][own])
    BY <1>9, <2>1 DEF CopyOf
  <2>4. PICK k \in Nat : k = rank[c][own]
    BY <2>2
  <2>5. PICK b \in Int, l \in Nat : b = P - ld * (alpha + (p - k) * sj) /\ l = ld * sj
    BY <1>7, <2>4
  <2>6. r = WithState(tables[c][own], b, P, l) /\ P \in Int
    <3>1. PICK h : h = tables[c][own]
      OBVIOUS
    <3>2. Copy(c, 1, h, k) = WithState(h, P - ld * (alpha + (p - k) * sj), P, ld * sj)
      BY <1>8
    <3>3. Copy(c, 1, h, k) = WithState(h, b, P, l)
      BY <2>5, <3>2
    <3> QED BY <1>4, <2>3, <2>4, <3>1, <3>3
  <2> QED BY <2>2, <2>6, HeaderRegular
<1>10. CASE Headers(c, 1) = {}
  <2>1. r = Copy(c, 1, BlankHeader(c), 0) /\ 0 \in Nat
    BY <1>10 DEF CopyOf
  <2>4. PICK k \in Nat : k = 0
    OBVIOUS
  <2>5. PICK b \in Int, l \in Nat : b = P - ld * (alpha + (p - k) * sj) /\ l = ld * sj
    BY <1>7, <2>4
  <2>6. r = WithState(BlankHeader(c), b, P, l) /\ P \in Int
    BY <1>4, <1>8, <2>1, <2>4, <2>5
  <2> QED BY <2>6, BlankRegular
<1> QED BY <1>9, <1>10

Answerless == JoinSize(input) = 0 /\ target = 1

(* The only row of the root starts with the dummy value, and the rows of   *)
(* the other relations are rows.                                           *)
DummyRow ==
  Answerless /\ phase # "off" =>
    /\ 1 \in DOMAIN tables[Root][1].keys /\ tables[Root][1].keys[1] = DummyValue
    /\ \A u \in Node : Positioned(u) => Regular(tables[u][1], Arity(u))
    /\ \A c \in NonRoot : Copied(c) => temp[c][1].keys \in Seq(Values)

LEMMA OneRow ==
  ASSUME Answerless
  PROVE  Out = 1
<1>1. Max({0, 1}) = 1
  BY MaxOfTwo
<1> QED BY <1>1 DEF Answerless, Out

LEMMA DummyStart ==
  ASSUME Progress, Wanted, Handing, StartDown, Answerless
  PROVE  DummyRow'
<1>1. /\ phase = "off" /\ stage = "done" /\ UNCHANGED <<tables, input, work>>
      /\ \A c \in NonRoot : work[c] = "idle"
  BY DEF StartDown, upVars, Progress
<1>2. tables[Root][1] = Dummy(1)
  <2>1. Max({JoinSize(input), target}) = 1 /\ JoinSize(input) + 1 = 1
    BY OneRow DEF Answerless, Out
  <2>2. \A q \in 1 .. 1 : tables[Root][q] = Dummy(q)
    BY <1>1, <2>1 DEF Handing, Placing, Numbered
  <2> QED BY <2>2
<1>3. Root \in Node /\ input \in Inputs /\ 1 \in 1 .. Len(input[Root])
  BY InputLen, TreeAssumption DEF Wanted
<1>4. PICK n \in Nat : DOMAIN input[Root][1].keys = 1 .. n /\ 1 \in 1 .. n
  BY <1>3, RealKeys
<1>5. PICK d : d = [k \in 1 .. n |-> DummyValue]
  OBVIOUS
<1>6. d \in Seq(Values)
  <2>1. DummyValue \in Values
    BY DEF Values
  <2> QED BY <1>5, <2>1, ListOf
<1>7. tables[Root][1].keys = d
  BY <1>2, <1>4, <1>5 DEF Dummy
<1>8. Regular(tables[Root][1], Arity(Root))
  <2>1. /\ tables[Root][1].us = [j \in DOMAIN children(Root) |-> 0]
        /\ tables[Root][1].P = 1 /\ tables[Root][1].b = 1 /\ tables[Root][1].lambda = 1
    BY <1>2 DEF Dummy
  <2>2. Numbers(tables[Root][1].us, Arity(Root))
    BY <1>3, <2>1, Zeros
  <2> QED BY <1>6, <1>7, <2>1, <2>2 DEF Regular
<1>9. \A u \in Node : Positioned(u)' => u = Root
  BY <1>1 DEF Positioned, Copied, NonRoot
<1>10. \A c \in NonRoot : ~Copied(c)'
  BY <1>1 DEF Copied
<1> QED BY <1>1, <1>4, <1>5, <1>7, <1>8, <1>9, <1>10 DEF DummyRow

LEMMA DummyPrepare ==
  ASSUME DInv, ShapeInv, DummyRow, Answerless, UNCHANGED upVars, PrepareNode
  PROVE  DummyRow'
<1>1. phase = "node" /\ oi < Len(order) /\ UNCHANGED <<work, temp, input, target, oi>>
  BY DEF PrepareNode, upVars
<1>2. PICK p : p = order[oi + 1]
  OBVIOUS
<1>3. PICK rows \in InStateOrder(p) : tables' = [tables EXCEPT ![p] = rows]
  BY <1>2 DEF PrepareNode
<1>4. p \in Node /\ Positioned(p)
  BY <1>1, <1>2, CurrentPlaced DEF ShapeInv
<1>5. PICK n \in Nat : n = 1 /\ Table(tables[p], n)
  BY <1>1, <1>4, OneRow DEF Shapes, ShapeInv
<1>6. PICK o : Permutes(o, n) /\ \A k \in 1 .. n : rows[k] = tables[p][o[k]]
  BY <1>3, <1>5, StateOrdered
<1>7. rows[1] = tables[p][1]
  BY <1>5, <1>6 DEF Permutes
<1>8. \A u \in Node : tables'[u][1] = tables[u][1]
  BY <1>3, <1>7 DEF DInv, Arrays
<1>9. (\A u \in Node : Positioned(u)' <=> Positioned(u)) /\ \A c \in NonRoot : Copied(c)' <=> Copied(c)
  BY <1>1 DEF Positioned, Copied
<1>10. tables'[Root][1] = tables[Root][1]
  BY <1>8, TreeAssumption
<1> QED BY <1>1, <1>8, <1>9, <1>10 DEF DummyRow

LEMMA DummyCopy ==
  ASSUME DInv, ShapeInv, Ready, DummyRow, Answerless, UNCHANGED upVars, NEW c \in NonRoot, CopyToChild(c)
  PROVE  DummyRow'
<1>1. /\ phase = "edges" /\ work[c] = "ranked" /\ Parent[c] = order[oi + 1]
      /\ UNCHANGED <<input, target, phase>> /\ input \in Inputs
      /\ work' = [work EXCEPT ![c] = "copied"]
  BY DEF CopyToChild, upVars, DInv, Current, Working, ShapeInv, Wanted
<1>2. PICK L, rows :
        /\ L \in Unmarked(c)
        /\ DOMAIN rows = DOMAIN tables[Parent[c]]
        /\ \A i \in DOMAIN rows : i \notin L => rows[i] = CopyOf(c, i)
        /\ \A i \in DOMAIN rows : i \in L =>
             \/ \E k \in L : rows[i] = CopyOf(c, k)
             \/ \E h \in DOMAIN tables[c] : rows[i] = KeptHeader(c, h)
        /\ HandsOn(c, rows)
  BY CopyToChildIs
<1>3. c \in Node /\ c # Root /\ ~Positioned(c) /\ Parent[c] \in Node /\ Positioned(Parent[c])
  BY <1>1, ParentFacts DEF Positioned, Copied, NonRoot, Progress, ShapeInv
<1>4. DOMAIN tables[Parent[c]] = 1 .. 1
  BY <1>1, <1>3, OneRow DEF Shapes, ShapeInv, Table
<1>5. PICK s : Standing(c, s)
  BY <1>1, <1>3 DEF Ready, Waiting
<1>6. rank[c] = RankValues(c, tables[c])
  BY <1>1 DEF Ready, Ranked, Working
<1>7. PICK pr : pr = tables[Parent[c]]
  OBVIOUS
<1>8. /\ idx[1] = LocalIndex(pr)[1] /\ sc[1] = SuffixCount(pr[1].us)
      /\ pc[1] = PartialIndex(idx[1], pr[1].us, sc[1])
  <2>1. IndexedBy(pr)
    BY <1>1, <1>7 DEF Ready, Indexed
  <2>2. 1 \in 1 .. Out
    BY OneRow
  <2> QED BY <2>1, <2>2 DEF IndexedBy
<1>9. Regular(pr[1], Arity(Parent[c]))
  BY <1>1, <1>3, <1>7 DEF DummyRow
<1>10. CopyOf(c, 1).keys \in Seq(Values) /\ (~IsLeaf(c) => Regular(CopyOf(c, 1), Arity(c)))
  BY <1>1, <1>4, <1>5, <1>6, <1>7, <1>8, <1>9, CopyRegular
<1>11. \A h \in DOMAIN tables[c] :
         KeptHeader(c, h).keys \in Seq(Values) /\ (~IsLeaf(c) => Regular(KeptHeader(c, h), Arity(c)))
  <2> TAKE h \in DOMAIN tables[c]
  <2>1. h \in 1 .. Len(input[c]) /\ 0 \in Int /\ 0 \in Nat
    BY <1>5 DEF Standing
  <2>2. PICK r : r = WithState(tables[c][h], 0, 0, 0)
    OBVIOUS
  <2>3. r.keys \in Seq(Values) /\ (~IsLeaf(c) => Regular(r, Arity(c)))
    BY <1>1, <1>5, <2>1, <2>2, HeaderRegular
  <2> QED BY <2>2, <2>3 DEF KeptHeader
<1>12. rows[1].keys \in Seq(Values) /\ (~IsLeaf(c) => Regular(rows[1], Arity(c)))
  <2>1. 1 \in DOMAIN rows /\ \A i \in DOMAIN rows : i = 1
    BY <1>2, <1>4
  <2>2. L \subseteq 1 .. 1
    BY <1>2, <1>4 DEF Unmarked
  <2>3. rows[1] = CopyOf(c, 1) \/ \E h \in DOMAIN tables[c] : rows[1] = KeptHeader(c, h)
    BY <1>2, <2>1, <2>2
  <2> QED BY <1>10, <1>11, <2>3
<1>13. PICK copies : copies = [i \in DOMAIN rows |-> [keys |-> rows[i].keys, P |-> rows[i].P]]
  OBVIOUS
<1>14. copies[1].keys = rows[1].keys
  BY <1>2, <1>4, <1>13
<1>15. /\ \A d \in NonRoot : temp'[d] = IF d = c THEN copies ELSE temp[d]
       /\ \A u \in Node : tables'[u] = IF u = c /\ ~IsLeaf(c) THEN rows ELSE tables[u]
  BY <1>2, <1>3, <1>13 DEF HandsOn, DInv, Arrays
<1>16. \A d \in NonRoot : Copied(d)' <=> (Copied(d) \/ d = c)
  BY <1>1 DEF Copied, DInv, Arrays
<1>17. \A u \in Node : Positioned(u)' <=> (Positioned(u) \/ (u = c /\ ~IsLeaf(c)))
  BY <1>3, <1>16 DEF Positioned, NonRoot
<1>18. tables'[Root] = tables[Root]
  BY <1>3, <1>15, TreeAssumption
<1>19. \A u \in Node : Positioned(u)' => Regular(tables'[u][1], Arity(u))
  BY <1>1, <1>3, <1>12, <1>15, <1>17 DEF DummyRow
<1>20. \A d \in NonRoot : Copied(d)' => temp'[d][1].keys \in Seq(Values)
  BY <1>1, <1>12, <1>14, <1>15, <1>16 DEF DummyRow
<1> QED BY <1>1, <1>18, <1>19, <1>20 DEF DummyRow

LEMMA DummySort ==
  ASSUME DInv, ShapeInv, DummyRow, Answerless, UNCHANGED upVars, NEW c \in NonRoot, FinalSort(c)
  PROVE  DummyRow'
<1>1. /\ phase = "sort" /\ work[c] = "copied" /\ UNCHANGED <<input, target, tables, phase>>
      /\ work' = [work EXCEPT ![c] = "sorted"]
  BY DEF FinalSort, upVars
<1>2. PICK t, key : t \in Arrangements(temp[c], key) /\ temp' = [temp EXCEPT ![c] = t]
  BY DEF FinalSort
<1>3. \A d \in NonRoot : Copied(d)' <=> Copied(d)
  BY <1>1 DEF Copied, DInv, Arrays
<1>4. \A u \in Node : Positioned(u)' <=> Positioned(u)
  BY <1>3 DEF Positioned, NonRoot
<1>5. PICK n \in Nat : n = 1 /\ Table(temp[c], n)
  BY <1>1, OneRow DEF Shapes, ShapeInv, Copied
<1>6. PICK o : Permutes(o, n) /\ \A k \in 1 .. n : t[k] = temp[c][o[k]]
  BY <1>2, <1>5, SortedTable
<1>7. t[1] = temp[c][1]
  BY <1>5, <1>6 DEF Permutes
<1>8. \A d \in NonRoot : temp'[d][1] = temp[d][1]
  BY <1>2, <1>7 DEF DInv, Arrays
<1> QED BY <1>1, <1>3, <1>4, <1>8 DEF DummyRow

LEMMA DummyStep ==
  ASSUME N > 1, DInv, ShapeInv, Ready, DummyRow, [JNext]_allVars
  PROVE  DummyRow'
<1> SUFFICES ASSUME Answerless', phase' # "off" PROVE DummyRow'
  BY DEF DummyRow
<1>1. UNCHANGED <<input, target>>
  BY DEF JNext, allVars, vars, upVars, StartDown, Next, BeginEdge, EndEdge, UpdateNode, NextLevel, AssignPositions, ExpandRoot, NumberAndPad
<1>2. Answerless
  BY <1>1 DEF Answerless
<1>3. CASE StartDown
  BY <1>2, <1>3, DummyStart DEF ShapeInv
<1>4. CASE Next /\ UNCHANGED downOnly
  BY <1>4, UpIsOver DEF DInv, PassesApart, downOnly
<1>5. CASE PrepareNode /\ UNCHANGED upVars
  BY <1>2, <1>5, DummyPrepare
<1>6. CASE UNCHANGED upVars /\ \E c \in NonRoot : CopyToChild(c)
  BY <1>2, <1>6, DummyCopy
<1>7. CASE UNCHANGED upVars /\ \E c \in NonRoot : FinalSort(c)
  BY <1>2, <1>7, DummySort
<1>8. CASE UNCHANGED upVars /\ \E c \in NonRoot : RankChild(c)
  <2>1. PICK c \in NonRoot : RankChild(c)
    BY <1>8
  <2>2. PICK tc : tables' = [tables EXCEPT ![c] = tc]
    BY <2>1 DEF RankChild
  <2>3. /\ work[c] = "idle" /\ UNCHANGED <<temp, phase>>
        /\ work' = [work EXCEPT ![c] = "ranked"] /\ phase # "off"
    BY <2>1 DEF RankChild
  <2>4. \A d \in NonRoot : work'[d] = IF d = c THEN "ranked" ELSE work[d]
    BY <2>3 DEF DInv, Arrays
  <2>5. \A d \in NonRoot : Copied(d)' <=> Copied(d)
    BY <2>3, <2>4 DEF Copied
  <2>6. \A u \in Node : Positioned(u)' <=> Positioned(u)
    BY <2>5 DEF Positioned, NonRoot
  <2>7. c # Root /\ ~Positioned(c)
    BY <2>3 DEF Positioned, Copied, NonRoot
  <2>8. \A u \in Node : u # c => tables'[u] = tables[u]
    BY <2>2 DEF DInv, Arrays
  <2>9. tables'[Root] = tables[Root] /\ \A u \in Node : Positioned(u) => tables'[u] = tables[u]
    BY <2>7, <2>8, TreeAssumption
  <2> QED BY <1>2, <2>3, <2>5, <2>6, <2>9 DEF DummyRow
<1>9. CASE (UNCHANGED upVars /\ (LeaveNode \/ StartFinalSort \/ Materialize)) \/ UNCHANGED allVars
  <2>1. UNCHANGED <<tables, temp, work>> /\ phase # "off"
    <3>1. CASE UNCHANGED upVars /\ (LeaveNode \/ StartFinalSort \/ Materialize)
      BY <3>1 DEF LeaveNode, StartFinalSort, Materialize
    <3>2. CASE UNCHANGED allVars
      BY <3>2 DEF allVars, vars, downOnly
    <3> QED BY <1>9, <3>1, <3>2
  <2>2. \A d \in NonRoot : Copied(d)' <=> Copied(d)
    BY <2>1 DEF Copied
  <2>3. \A u \in Node : Positioned(u)' <=> Positioned(u)
    BY <2>1 DEF Positioned, Copied
  <2> QED BY <1>2, <2>1, <2>2, <2>3 DEF DummyRow
<1> QED BY <1>3, <1>4, <1>5, <1>6, <1>7, <1>8, <1>9 DEF JNext, DownNext

LEMMA DummyInvariant == N > 1 => (JSpec => []DummyRow)
<1> SUFFICES ASSUME N > 1 PROVE JSpec => []DummyRow
  OBVIOUS
<1>1. JInit => DummyRow
  BY DEF JInit, DownInit, DummyRow
<1>2. DInv /\ ShapeInv /\ Ready /\ DummyRow /\ [JNext]_allVars => DummyRow'
  BY DummyStep
<1> QED BY <1>1, <1>2, ReadyInvariant, ShapeInvariant, DownInvariant, PTL DEF JSpec

(* A database whose relations do not join has the empty bag as its join.   *)
LEMMA EmptyJoin ==
  ASSUME input \in Inputs, JoinSize(input) = 0
  PROVE  JoinBag(input) = [v \in {} |-> 1]
<1>1. Database(input) /\ IsFiniteSet(Matches(input, Node))
  <2>1. Database(input)
    BY JoinSizeType
  <2> QED BY <2>1, MatchesFinite
<1>2. Matches(input, Node) = {}
  BY <1>1, FS_EmptySet DEF JoinSize
<1>3. {JoinRow(input, f) : f \in Matches(input, Node)} = {}
  BY <1>2
<1> QED BY <1>3 DEF JoinBag

LEMMA MaterializeEmpty ==
  ASSUME N > 1, ShapeInv, DummyRow, Answerless, UNCHANGED upVars, Materialize
  PROVE  (RealBag = JoinBag(input))'
<1>1. phase = "sort" /\ input' = input /\ input \in Inputs /\ \A c \in NonRoot : Copied(c)
  BY DEF Materialize, upVars, Copied, ShapeInv, Wanted
<1>2. Root \in Node /\ Root + 1 \in 1 .. N /\ Positioned(Root) /\ \A i \in 1 .. N : i - 1 \in Node
  BY TreeAssumption DEF Positioned, Node
<1>3. DOMAIN tables[Root] = 1 .. 1
  BY <1>1, <1>2, OneRow DEF ShapeInv, Shapes, Table
<1>4. PICK seqs : seqs = [i \in 1 .. N |-> IF i - 1 = Root THEN tables[Root][1].keys ELSE temp[i-1][1].keys]
  OBVIOUS
<1>5. PICK flat : flat = FlattenSeq(seqs)
  OBVIOUS
<1>6. \A i \in 1 .. N : seqs[i] \in Seq(Values)
  BY <1>1, <1>2, <1>4 DEF DummyRow, Regular, NonRoot
<1>7. Sequences(seqs, N, Values)
  BY <1>4, <1>6, TreeAssumption, LenOf DEF Sequences
<1>8. InOrder(flat, seqs, N, Values)
  BY <1>5, <1>7, FlattenedElements
<1>9. DummyValue \in ToSet(flat)
  <2>1. PICK i \in 1 .. N : i = Root + 1
    BY <1>2
  <2>2. PICK s : s = seqs[i]
    OBVIOUS
  <2>3. s \in Seq(Values) /\ 1 \in DOMAIN s /\ s[1] = DummyValue
    <3>1. i - 1 = Root
      BY <1>2, <2>1 DEF Node
    <3>2. s = tables[Root][1].keys
      BY <1>4, <2>2, <3>1
    <3> QED BY <1>1, <1>6, <2>2, <3>2 DEF DummyRow
  <2>4. 1 \in 1 .. Len(seqs[i])
    BY <2>2, <2>3
  <2>5. PICK m \in 1 .. Len(flat) : flat[m] = seqs[i][1]
    BY <1>8, <2>4 DEF InOrder
  <2>6. m \in DOMAIN flat
    BY <1>8, <2>5 DEF InOrder
  <2> QED BY <2>2, <2>3, <2>5, <2>6 DEF ToSet
<1>10. result' = [j \in 1 .. 1 |-> flat]
  <2>1. PICK G : G = [j \in 1 .. 1 |-> FlattenSeq([i \in 1 .. N |->
                        IF i - 1 = Root THEN tables[Root][j].keys ELSE temp[i-1][j].keys])]
    OBVIOUS
  <2>2. G[1] = flat
    BY <1>4, <1>5, <2>1
  <2>3. result' = G
    BY <1>3, <2>1 DEF Materialize
  <2>4. 1 .. 1 = {1}
    OBVIOUS
  <2>5. G = [j \in 1 .. 1 |-> G[j]]
    BY <2>1
  <2>6. G = [j \in 1 .. 1 |-> flat]
    BY <2>2, <2>4, <2>5
  <2> QED BY <2>3, <2>6
<1>11. {row \in ToSet(result') : DummyValue \notin ToSet(row)} = {}
  BY <1>9, <1>10 DEF ToSet
<1>12. RealBag' = [v \in {} |-> 1]
  <2>1. RealBag' = [v \in {row \in ToSet(result') : DummyValue \notin ToSet(row)} |->
                      Cardinality({k \in DOMAIN result' : result'[k] = v})]
    BY Zenon DEF RealBag
  <2>2. PICK H : H = [v \in {} |-> Cardinality({k \in DOMAIN result' : result'[k] = v})]
    OBVIOUS
  <2>3. RealBag' = H
    BY <1>11, <2>1, <2>2
  <2> QED BY <2>2, <2>3
<1>13. JoinBag(input) = [v \in {} |-> 1]
  BY <1>1, EmptyJoin DEF Answerless
<1> QED BY <1>1, <1>12, <1>13

-----------------------------------------------------------------------------
(* The exact size as target: what the output gets is the join, or one      *)
(* dummy row when there is nothing to join.                                *)
LEMMA ExactOrEmpty ==
  ASSUME Wanted, Taus = {0}
  PROVE  Exact \/ Answerless
<1>1. target = materializedOutSize(input, 0) /\ input \in Inputs
  BY DEF Wanted
<1>2. PICK s \in Nat : s = JoinSize(input)
  BY <1>1, JoinSizeType
<1>3. target = IF 1 >= s THEN 1 ELSE s
  <2>1. target = Max({1, s})
    BY <1>1, <1>2 DEF materializedOutSize
  <2>2. Max({1, s}) = IF 1 >= s THEN 1 ELSE s
    BY <1>2, MaxOfTwo
  <2> QED BY <2>1, <2>2
<1>4. CASE s = 0
  BY <1>2, <1>3, <1>4 DEF Answerless
<1>5. CASE s # 0
  BY <1>1, <1>2, <1>3, <1>5 DEF Exact, ExactTargets
<1> QED BY <1>4, <1>5

LEMMA AnswersInit == JInit => A!JoinInit
<1> SUFFICES ASSUME JInit PROVE A!JoinInit
  OBVIOUS
<1>1. input \in Inputs /\ phase = "off" /\ result = <<>>
  BY DEF JInit, Init, DownInit
<1>2. input \in DOMAIN Answers
  BY <1>1 DEF Answers
<1>3. RealBag = [v \in {} |-> 1]
  <2>1. {row \in ToSet(result) : DummyValue \notin ToSet(row)} = {}
    BY <1>1 DEF ToSet
  <2>2. RealBag = [v \in {row \in ToSet(result) : DummyValue \notin ToSet(row)} |->
                     Cardinality({k \in DOMAIN result : result[k] = v})]
    BY Zenon DEF RealBag
  <2>3. PICK H : H = [v \in {} |-> Cardinality({k \in DOMAIN result : result[k] = v})]
    OBVIOUS
  <2>4. RealBag = H
    BY <2>1, <2>2, <2>3
  <2> QED BY <2>3, <2>4
<1>4. A!EmptyBag = [v \in {} |-> 1]
  BY DEF A!EmptyBag, A!SetToBag
<1> QED BY <1>1, <1>2, <1>3, <1>4 DEF A!JoinInit

(* The answer is given by the last step of the top-down pass; every other  *)
(* step leaves input and answer alone.                                     *)
LEMMA AnswersStep ==
  ASSUME N > 1, Taus = {0}, DInv, ShapeInv, Following, DummyRow, [JNext]_allVars
  PROVE  [A!Answer]_(A!joinVars)
<1>1. UNCHANGED <<input, target>> /\ input \in Inputs
  BY DEF JNext, allVars, vars, upVars, StartDown, Next, BeginEdge, EndEdge, UpdateNode, NextLevel, AssignPositions, ExpandRoot,
         NumberAndPad, ShapeInv, Wanted
<1>2. Exact \/ Answerless
  BY ExactOrEmpty DEF ShapeInv
<1>3. CASE Materialize /\ UNCHANGED upVars
  <2>1. RealBag' = JoinBag(input)
    BY <1>1, <1>2, <1>3, MaterializeAnswers, MaterializeEmpty
  <2>2. phase = "sort" /\ phase' = "done"
    BY <1>3 DEF Materialize
  <2>3. Answers[input] = {JoinBag(input)}
    BY <1>1 DEF Answers
  <2> QED BY <1>1, <2>1, <2>2, <2>3 DEF A!Answer
<1>4. CASE UNCHANGED result /\ (phase' = "done" <=> phase = "done")
  <2>1. RealBag' = RealBag
    BY <1>4 DEF RealBag
  <2> QED BY <1>1, <1>4, <2>1 DEF A!joinVars
<1>5. CASE StartDown
  <2>1. phase = "off" /\ UNCHANGED <<tables, result>> /\ Root \in Node /\ phase' # "off"
        /\ (phase' # "node" => tables[Root] = <<>>)
    BY <1>5, TreeAssumption DEF StartDown
  <2>2. Positioned(Root)' /\ Out' \in Nat \ {0}
    <3>1. Out' = Out
      BY <1>1 DEF Out
    <3> QED BY <3>1, OutType DEF ShapeInv, Positioned
  <2>3. Table(tables[Root], Out)'
    BY <1>5, <2>1, <2>2, ShapesStart DEF ShapeInv, Shapes
  <2>4. 1 \in DOMAIN tables[Root]
    BY <2>1, <2>2, <2>3 DEF Table
  <2>5. phase' = "node"
    BY <2>1, <2>4
  <2> QED BY <1>4, <2>1, <2>5
<1>6. CASE Next /\ UNCHANGED downOnly
  BY <1>4, <1>6 DEF downOnly
<1>7. CASE UNCHANGED upVars /\ (PrepareNode \/ LeaveNode \/ StartFinalSort)
  BY <1>4, <1>7 DEF PrepareNode, LeaveNode, StartFinalSort
<1>8. CASE UNCHANGED upVars /\ \E c \in NonRoot : RankChild(c) \/ CopyToChild(c) \/ FinalSort(c)
  BY <1>4, <1>8 DEF RankChild, CopyToChild, FinalSort
<1>9. CASE UNCHANGED allVars
  BY <1>4, <1>9 DEF allVars, downOnly
<1> QED BY <1>3, <1>5, <1>6, <1>7, <1>8, <1>9 DEF JNext, DownNext

(* With the exact size as target the join of one call implements the       *)
(* abstract join: a step of it is a step of the abstract join or a         *)
(* stutter, and the only answer it gives is the bag of the join -- also    *)
(* when that is empty and the output is one row of dummy values.  That the *)
(* answer comes at all is model-checked.                                   *)
THEOREM AnswersOnce == N > 1 /\ Taus = {0} => (JSpec => A!JoinInit /\ [][A!Answer]_(A!joinVars))
<1> SUFFICES ASSUME N > 1, Taus = {0} PROVE JSpec => A!JoinInit /\ [][A!Answer]_(A!joinVars)
  OBVIOUS
<1>1. DInv /\ ShapeInv /\ Following /\ DummyRow /\ [JNext]_allVars => [A!Answer]_(A!joinVars)
  BY AnswersStep
<1> QED BY <1>1, AnswersInit, DummyInvariant, FollowingInvariant, ShapeInvariant, DownInvariant, PTL DEF JSpec

-----------------------------------------------------------------------------
(* The turns of a row.                                                     *)
(*                                                                         *)
(* The positions are the answers of the join, each once (AnswersListed),   *)
(* and below a row the number of an answer and the answer determine each   *)
(* other (SameTurn, SameBelow).  Exchanging, in every answer, what it has  *)
(* below the row for the answer number l maps the positions that take the  *)
(* row in turn k one to one into those that take it in turn l.             *)

(* The answer of position q with the part below u exchanged for g.         *)
Exchanged(R, q, u, g) == [v \in Node |-> IF v \in Subtree[u] THEN g[v] ELSE R[v][q]]

(* The position x has that answer.                                         *)
HasIt(R, x, q, u, g) == \A v \in Node : R[v][x] = IF v \in Subtree[u] THEN g[v] ELSE R[v][q]

LEMMA RowInRange ==
  ASSUME Wanted, NEW R \in Traces, NEW T \in Traces, Wholly(R, T), NEW q \in 1 .. Out, NEW u \in Node,
         NEW n, n = SubtreeCount(input, u, R[u][q])
  PROVE  /\ R[u][q] \in 1 .. Len(input[u]) /\ T[u][q] \in Nat /\ n \in Nat \ {0}
         /\ (T[u][q] \in 0 .. n - 1) \/ (T[u][q] \in 1 .. n /\ u = Root)
         /\ u = Root => T[u][q] \in 1 .. n
<1>1. PICK i, t : i = R[u][q] /\ t = T[u][q]
  OBVIOUS
<1>2. InRange(u, i, t) /\ n = SubtreeCount(input, u, i)
  BY <1>1 DEF Wholly
<1>3. n \in Nat
  BY <1>2, SubtreeCountType
<1> QED BY <1>1, <1>2, <1>3 DEF InRange

(* Exchanging the part below u gives an answer, and some position has it.  *)
LEMMA ExchangeFound ==
  ASSUME N > 1, Wanted, Exact, NEW R \in Traces, NEW T \in Traces, Wholly(R, T),
         NEW q \in 1 .. Out, NEW u \in Node, NEW g \in Using(input, u, R[u][q])
  PROVE  \E x \in 1 .. Out : HasIt(R, x, q, u, g)
<1>1. Database(input) /\ Subtree[u] \in SUBSET Node /\ u \in Subtree[u]
  BY InputLen, SubtreeFacts DEF Wanted, Database
<1>2. PICK F : F = [p \in 1 .. Out |-> [v \in Node |-> R[v][p]]]
  OBVIOUS
<1>3. F \in Bijection(1 .. Out, Matches(input, Node))
  BY <1>2, AnswersListed
<1>4. PICK f : f = Exchanged(R, q, u, g)
  OBVIOUS
<1>5. f = [v \in Node |-> f[v]] /\ \A v \in Node : f[v] = IF v \in Subtree[u] THEN g[v] ELSE R[v][q]
  BY <1>4 DEF Exchanged
<1>6. g[u] = R[u][q] /\ g \in Matches(input, Subtree[u])
  BY DEF Using
<1>7. /\ \A v \in Subtree[u] : g[v] \in 1 .. Len(input[v])
      /\ \A v \in Subtree[u] : Parent[v] \in Subtree[u] =>
           Joins(v, input[Parent[v]][g[Parent[v]]], input[v][g[v]])
  BY <1>1, <1>6, MatchesAre
<1>8. \A v \in Node : f[v] \in 1 .. Len(input[v])
  <2>1. \A v \in Node : R[v][q] \in 1 .. Len(input[v])
    BY DEF Wholly, InRange
  <2> QED BY <1>5, <1>7, <2>1
<1>9. ASSUME NEW v \in Node, Parent[v] \in Node
      PROVE  Joins(v, input[Parent[v]][f[Parent[v]]], input[v][f[v]])
  <2>1. v \in NonRoot
    BY <1>9, TreeAssumption DEF NonRoot, Node, NoParent
  <2>2. Joins(v, input[Parent[v]][R[Parent[v]][q]], input[v][R[v][q]])
    BY <2>1 DEF Wholly, Edge
  <2>3. CASE v \in Subtree[u] /\ v # u
    <3>1. Parent[v] \in Subtree[u]
      BY <2>3, SubtreeFacts
    <3> QED BY <1>5, <1>7, <1>9, <2>3, <3>1
  <2>4. CASE v = u \/ v \notin Subtree[u]
    <3>1. Parent[v] \notin Subtree[u]
      <4>1. CASE v = u
        <5> SUFFICES ASSUME Parent[u] \in Subtree[u] PROVE FALSE
          BY <4>1
        <5>1. Depth[u] = 1 + Depth[Parent[u]] /\ Depth[Parent[u]] \in Nat /\ Depth[u] \in Nat
          BY <1>9, <2>1, <4>1, ParentFacts, DepthType
        <5>2. Parent[u] # u => Depth[Parent[u]] > Depth[u]
          BY SubtreeFacts
        <5> QED BY <5>1, <5>2
      <4>2. CASE v \notin Subtree[u]
        <5>1. v \in ChildSet(Parent[v])
          BY <2>1, ParentFacts
        <5> QED BY <4>2, <5>1, SubtreeFacts
      <4> QED BY <2>4, <4>1, <4>2
    <3>2. f[Parent[v]] = R[Parent[v]][q] /\ f[v] = R[v][q]
      BY <1>5, <1>6, <1>9, <2>4, <3>1
    <3> QED BY <2>2, <3>2
  <2> QED BY <2>3, <2>4
<1>10. f \in Matches(input, Node)
  BY <1>1, <1>5, <1>8, <1>9, MatchesAre
<1>11. PICK x \in 1 .. Out : F[x] = f
  BY <1>3, <1>10 DEF Bijection, Surjection
<1>12. \A v \in Node : R[v][x] = f[v]
  <2>1. \A v \in Node : F[x][v] = R[v][x]
    BY <1>2
  <2> QED BY <1>11, <2>1
<1> QED BY <1>5, <1>12 DEF HasIt

(* The number of an answer below a row determines it: exchanging it for    *)
(* one with the same number changes nothing above, and the positions of    *)
(* the root are numbered apart.                                            *)
LEMMA SameBelow ==
  ASSUME N > 1, Wanted, Exact, NEW R \in Traces, NEW T \in Traces, Wholly(R, T),
         NEW q \in 1 .. Out, NEW r \in 1 .. Out, NEW u \in Node,
         R[u][q] = R[u][r], T[u][q] = T[u][r]
  PROVE  \A v \in Subtree[u] : R[v][q] = R[v][r]
<1>1. /\ Database(input) /\ Root \in Node /\ Subtree[u] \in SUBSET Node /\ u \in Subtree[u]
      /\ \A v \in Subtree[u] : ChildSet(v) \subseteq Subtree[u]
      /\ \A v \in Subtree[u] : v # u => v \in NonRoot /\ Parent[v] \in Subtree[u]
  BY InputLen, TreeAssumption, SubtreeFacts DEF Wanted, Database
<1>2. PICK g : g = [v \in Subtree[u] |-> R[v][r]]
  OBVIOUS
<1>3. g \in Using(input, u, R[u][q])
  <2>1. \A v \in Node : R[v][r] \in 1 .. Len(input[v])
    BY DEF Wholly, InRange
  <2>2. \A v \in NonRoot : Joins(v, input[Parent[v]][R[Parent[v]][r]], input[v][R[v][r]])
    BY DEF Wholly, Edge
  <2>3. g = [v \in Subtree[u] |-> g[v]] /\ \A v \in Subtree[u] : g[v] = R[v][r]
    BY <1>2
  <2>4. ASSUME NEW v \in Subtree[u], Parent[v] \in Subtree[u]
        PROVE  Joins(v, input[Parent[v]][g[Parent[v]]], input[v][g[v]])
    <3>1. v \in NonRoot
      BY <1>1, <2>4, TreeAssumption DEF NonRoot, Node, NoParent
    <3> QED BY <2>2, <2>3, <2>4, <3>1
  <2>5. \A v \in Subtree[u] : g[v] \in 1 .. Len(input[v])
    BY <1>1, <2>1, <2>3
  <2>6. g \in Matches(input, Subtree[u])
    BY <1>1, <2>3, <2>4, <2>5, MatchesAre
  <2> QED BY <1>1, <2>3, <2>6 DEF Using
<1>4. PICK x \in 1 .. Out : HasIt(R, x, q, u, g)
  BY <1>3, ExchangeFound
<1>5. \A v \in Subtree[u] : R[v][x] = R[v][r]
  BY <1>1, <1>2, <1>4 DEF HasIt
<1>6. T[u][x] = T[u][r]
  <2>1. PICK B : B = {}
    OBVIOUS
  <2>2. Agreeing(R, T, x, r, Subtree[u], B)
    BY <1>1, <1>5, <2>1 DEF Agreeing
  <2>3. \A v \in Subtree[u] : T[v][x] = T[v][r]
    BY <2>2, SameTurn
  <2> QED BY <1>1, <2>3
<1>7. PICK S, B : S = (Node \ Subtree[u]) \cup {u} /\ B = {u}
  OBVIOUS
<1>8. \A v \in S : R[v][x] = R[v][q]
  BY <1>1, <1>4, <1>5, <1>7 DEF HasIt
<1>9. \A v \in S : v \in B \/ ChildSet(v) \subseteq S
  <2> SUFFICES ASSUME NEW v \in S, v # u, NEW c \in ChildSet(v), c \notin S PROVE FALSE
    BY <1>7
  <2>1. v \in Node /\ v \notin Subtree[u] /\ c \in Node /\ Parent[c] = v
    BY <1>7 DEF ChildSet
  <2>2. c \in Subtree[u] /\ c # u
    BY <1>7, <2>1
  <2> QED BY <1>1, <2>1, <2>2
<1>10. \A v \in S : T[v][x] = T[v][q]
  <2>1. \A v \in S \cap B : T[v][x] = T[v][q]
    BY <1>6, <1>7
  <2>2. Agreeing(R, T, x, q, S, B)
    BY <1>1, <1>7, <1>8, <1>9, <2>1 DEF Agreeing
  <2> QED BY <2>2, SameTurn
<1>11. Root \in S
  <2>1. Root \in Subtree[u] => Root = u
    BY <1>1 DEF NonRoot
  <2> QED BY <1>1, <1>7, <2>1
<1>12. x = q
  BY <1>8, <1>10, <1>11, RootPlace
<1> QED BY <1>5, <1>12

(* Every turn of a row is taken: the answer below it with that number.     *)
Turn(R, T, u, n, g, k) ==
  \A x \in 1 .. Out : (\A v \in Subtree[u] : R[v][x] = g[v]) => T[u][x] % n = k

LEMMA EveryTurn ==
  ASSUME N > 1, Wanted, Exact, NEW R \in Traces, NEW T \in Traces, Wholly(R, T),
         NEW q \in 1 .. Out, NEW u \in Node,
         NEW n, n = SubtreeCount(input, u, R[u][q]), NEW k \in 0 .. n - 1
  PROVE  \E g \in Using(input, u, R[u][q]) : Turn(R, T, u, n, g, k)
<1> DEFINE G == Using(input, u, R[u][q])
           at == [g \in G |-> CHOOSE x \in 1 .. Out : HasIt(R, x, q, u, g)]
           turn == [g \in G |-> T[u][at[g]] % n]
<1>1. Database(input) /\ Subtree[u] \in SUBSET Node /\ u \in Subtree[u]
      /\ \A v \in Subtree[u] : ChildSet(v) \subseteq Subtree[u]
  BY InputLen, SubtreeFacts DEF Wanted, Database
<1>2. n \in Nat \ {0}
  BY RowInRange
<1>3. \A g \in G : at[g] \in 1 .. Out /\ HasIt(R, at[g], q, u, g) /\ turn[g] = T[u][at[g]] % n
  BY ExchangeFound
<1>4. \A g \in G : /\ g[u] = R[u][q] /\ g = [v \in Subtree[u] |-> g[v]]
                   /\ \A v \in Subtree[u] : R[v][at[g]] = g[v]
  <2> SUFFICES ASSUME NEW g \in G
               PROVE  /\ g[u] = R[u][q] /\ g = [v \in Subtree[u] |-> g[v]]
                      /\ \A v \in Subtree[u] : R[v][at[g]] = g[v]
    OBVIOUS
  <2>1. g[u] = R[u][q] /\ g \in Matches(input, Subtree[u])
    BY DEF Using
  <2>2. g = [v \in Subtree[u] |-> g[v]]
    BY <1>1, <2>1, MatchesAre
  <2>3. HasIt(R, at[g], q, u, g)
    BY <1>3
  <2> HIDE DEF at
  <2> QED BY <1>1, <2>1, <2>2, <2>3 DEF HasIt
<1>5. turn \in [G -> 0 .. n - 1]
  <2>1. \A g \in G : T[u][at[g]] % n \in 0 .. n - 1
    <3> TAKE g \in G
    <3>1. T[u][at[g]] \in Nat
      BY <1>3 DEF Traces
    <3> HIDE DEF at
    <3> QED BY <1>2, <3>1
  <2> HIDE DEF at, G
  <2> QED BY <2>1
<1> HIDE DEF at, turn
<1>6. ASSUME NEW g \in G, NEW h \in G, turn[g] = turn[h] PROVE g = h
  <2>1. PICK x \in 1 .. Out, y \in 1 .. Out : x = at[g] /\ y = at[h]
    BY <1>3
  <2>2. R[u][x] = R[u][q] /\ R[u][y] = R[u][q]
    BY <1>1, <1>4, <2>1
  <2>3. PICK a, b : a = T[u][x] /\ b = T[u][y]
    OBVIOUS
  <2>4. a % n = b % n
    BY <1>3, <1>6, <2>1, <2>3
  <2>5. ((a \in 0 .. n - 1) \/ (a \in 1 .. n /\ u = Root)) /\ (u = Root => a \in 1 .. n)
    <3>1. n = SubtreeCount(input, u, R[u][x])
      BY <2>2
    <3> QED BY <2>3, <3>1, RowInRange
  <2>6. ((b \in 0 .. n - 1) \/ (b \in 1 .. n /\ u = Root)) /\ (u = Root => b \in 1 .. n)
    <3>1. n = SubtreeCount(input, u, R[u][y])
      BY <2>2
    <3> QED BY <2>3, <3>1, RowInRange
  <2>7. (a \in 0 .. n - 1 /\ b \in 0 .. n - 1) \/ (a \in 1 .. n /\ b \in 1 .. n)
    BY <2>5, <2>6
  <2>8. a = b
    BY <1>2, <2>4, <2>7, SameRemainder
  <2>9. R[u][x] = R[u][y] /\ T[u][x] = T[u][y]
    BY <2>2, <2>3, <2>8
  <2>10. \A v \in Subtree[u] : R[v][x] = R[v][y]
    BY <2>9, SameBelow
  <2>11. \A v \in Subtree[u] : g[v] = h[v]
    BY <1>4, <2>1, <2>10
  <2>12. g = [v \in Subtree[u] |-> g[v]] /\ h = [v \in Subtree[u] |-> h[v]]
    BY <1>4
  <2> QED BY <2>11, <2>12
<1>7. IsFiniteSet(0 .. n - 1) /\ Cardinality(0 .. n - 1) = n
  <2>1. 0 \in Int /\ n - 1 \in Int /\ ~(0 > n - 1) /\ n - 1 - 0 + 1 = n
    BY <1>2
  <2> QED BY <2>1, FS_Interval
<1>8. Cardinality(G) = n
  BY DEF Using, SubtreeCount
<1> HIDE DEF G
<1>9. turn \in Injection(G, 0 .. n - 1)
  BY <1>5, <1>6, OneToOne
<1>10. turn \in Surjection(G, 0 .. n - 1)
  BY <1>7, <1>8, <1>9, FS_Injection
<1>11. PICK g \in G : turn[g] = k
  BY <1>10 DEF Surjection
<1>12. ASSUME NEW x \in 1 .. Out, \A v \in Subtree[u] : R[v][x] = g[v]
       PROVE  T[u][x] % n = k
  <2>1. PICK y \in 1 .. Out : y = at[g]
    BY <1>3
  <2>2. \A v \in Subtree[u] : R[v][x] = R[v][y]
    BY <1>4, <1>12, <2>1
  <2>3. PICK B : B = {}
    OBVIOUS
  <2>4. Agreeing(R, T, x, y, Subtree[u], B)
    BY <1>1, <2>2, <2>3 DEF Agreeing
  <2>5. \A v \in Subtree[u] : T[v][x] = T[v][y]
    BY <2>4, SameTurn
  <2> QED BY <1>1, <1>3, <1>11, <2>1, <2>5
<1>13. Turn(R, T, u, n, g, k)
  BY <1>12 DEF Turn
<1> QED BY <1>13 DEF G

(* The positions that take a row of K in turn k.                           *)
Taking(R, T, u, K, n, k) == {q \in 1 .. Out : R[u][q] \in K /\ T[u][q] % n = k}

(* Exchanging every answer of turn k for the one of turn l.                *)
LEMMA NotMore ==
  ASSUME N > 1, Wanted, Exact, NEW R \in Traces, NEW T \in Traces, Wholly(R, T),
         NEW u \in Node, NEW K, NEW n, \A i \in K : SubtreeCount(input, u, i) = n,
         NEW k, NEW l \in 0 .. n - 1
  PROVE  /\ IsFiniteSet(Taking(R, T, u, K, n, k)) /\ IsFiniteSet(Taking(R, T, u, K, n, l))
         /\ Cardinality(Taking(R, T, u, K, n, k)) <= Cardinality(Taking(R, T, u, K, n, l))
<1> DEFINE Q == Taking(R, T, u, K, n, k)
           P == Taking(R, T, u, K, n, l)
           Moved(q, x) == /\ R[u][x] = R[u][q] /\ T[u][x] % n = l
                          /\ \A v \in Node \ Subtree[u] : R[v][x] = R[v][q]
           move == [q \in Q |-> CHOOSE x \in 1 .. Out : Moved(q, x)]
<1>1. Subtree[u] \in SUBSET Node /\ u \in Subtree[u] /\ Out \in Nat
  BY SubtreeFacts, ExactSize
<1>2. IsFiniteSet(Q) /\ IsFiniteSet(P)
  <2>1. IsFiniteSet(1 .. Out) /\ Q \in SUBSET (1 .. Out) /\ P \in SUBSET (1 .. Out)
    BY <1>1, FS_Interval DEF Taking
  <2> QED BY <2>1, FS_Subset
<1>3. ASSUME NEW q \in Q PROVE \E x \in 1 .. Out : Moved(q, x)
  <2>1. q \in 1 .. Out /\ n = SubtreeCount(input, u, R[u][q])
    BY DEF Taking
  <2>2. PICK g \in Using(input, u, R[u][q]) : Turn(R, T, u, n, g, l)
    BY <2>1, EveryTurn
  <2>3. PICK x \in 1 .. Out : HasIt(R, x, q, u, g)
    BY <2>1, ExchangeFound
  <2>4. \A v \in Subtree[u] : R[v][x] = g[v]
    BY <1>1, <2>3 DEF HasIt
  <2>5. \A v \in Node \ Subtree[u] : R[v][x] = R[v][q]
    BY <2>3 DEF HasIt
  <2>6. T[u][x] % n = l
    BY <2>2, <2>4 DEF Turn
  <2>7. R[u][x] = R[u][q]
    BY <1>1, <2>4 DEF Using
  <2> QED BY <2>5, <2>6, <2>7
<1> HIDE DEF Moved
<1>4. \A q \in Q : move[q] \in 1 .. Out /\ Moved(q, move[q])
  BY <1>3
<1>5. move \in [Q -> P]
  <2>1. \A q \in Q : move[q] \in P
    <3> SUFFICES ASSUME NEW q \in Q PROVE move[q] \in P
      OBVIOUS
    <3>1. R[u][q] \in K
      BY DEF Taking
    <3>2. move[q] \in 1 .. Out /\ R[u][move[q]] = R[u][q] /\ T[u][move[q]] % n = l
      BY <1>4 DEF Moved
    <3> HIDE DEF move
    <3> QED BY <3>1, <3>2 DEF Taking
  <2> HIDE DEF P, Q
  <2> QED BY <2>1
<1> HIDE DEF move
<1>6. ASSUME NEW q \in Q, NEW r \in Q, move[q] = move[r] PROVE q = r
  <2>1. /\ q \in 1 .. Out /\ n = SubtreeCount(input, u, R[u][q]) /\ T[u][q] % n = k
        /\ r \in 1 .. Out /\ n = SubtreeCount(input, u, R[u][r]) /\ T[u][r] % n = k
    BY DEF Taking
  <2>2. R[u][q] = R[u][r] /\ \A v \in Node \ Subtree[u] : R[v][q] = R[v][r]
    BY <1>4, <1>6 DEF Moved
  <2>3. PICK a, b : a = T[u][q] /\ b = T[u][r]
    OBVIOUS
  <2>4. n \in Nat \ {0} /\ ((a \in 0 .. n - 1) \/ (a \in 1 .. n /\ u = Root)) /\ (u = Root => a \in 1 .. n)
    BY <2>1, <2>3, RowInRange
  <2>5. ((b \in 0 .. n - 1) \/ (b \in 1 .. n /\ u = Root)) /\ (u = Root => b \in 1 .. n)
    BY <2>1, <2>3, RowInRange
  <2>6. a % n = b % n /\ ((a \in 0 .. n - 1 /\ b \in 0 .. n - 1) \/ (a \in 1 .. n /\ b \in 1 .. n))
    BY <2>1, <2>3, <2>4, <2>5
  <2>7. a = b
    BY <2>4, <2>6, SameRemainder
  <2>8. T[u][q] = T[u][r]
    BY <2>3, <2>7
  <2>9. \A v \in Subtree[u] : R[v][q] = R[v][r]
    BY <2>1, <2>2, <2>8, SameBelow
  <2>10. \A v \in Node : R[v][q] = R[v][r]
    BY <2>2, <2>9
  <2>11. PICK B : B = {}
    OBVIOUS
  <2>12. Agreeing(R, T, q, r, Node, B)
    BY <2>10, <2>11 DEF Agreeing, ChildSet
  <2>13. \A v \in Node : T[v][q] = T[v][r]
    BY <2>1, <2>12, SameTurn
  <2>14. R[Root][q] = R[Root][r] /\ T[Root][q] = T[Root][r]
    BY <2>10, <2>13, TreeAssumption
  <2> QED BY <2>1, <2>14, RootPlace
<1> HIDE DEF Q, P
<1>7. move \in Injection(Q, P)
  BY <1>5, <1>6, OneToOne
<1>8. Cardinality(Q) <= Cardinality(P)
  BY <1>2, <1>7, FS_Injection
<1> QED BY <1>2, <1>8 DEF Q, P

(* Until the pass is over only some relations have been followed.  Those   *)
(* of D have, the root among them and with every relation its parent.      *)
Partly(D, R, T) ==
  /\ D \subseteq Node /\ Root \in D
  /\ \A u \in D : \A q \in 1 .. Out : InRange(u, R[u][q], T[u][q])
  /\ \A c \in D : c # Root => Parent[c] \in D /\ Edge(c, R[Parent[c]], T[Parent[c]], R[c], T[c])
  /\ \A q \in 1 .. Out : T[Root][q] = q - Start(input, R[Root][q] - 1)

Numberings(B) == Bijection(0 .. Cardinality(B) - 1, B)

LEMMA NumberingExists ==
  ASSUME NEW B, IsFiniteSet(B)
  PROVE  (CHOOSE b : b \in Numberings(B)) \in Numberings(B)
<1>1. PICK n \in Nat : n = Cardinality(B)
  BY FS_CardinalityType
<1>2. IsFiniteSet(0 .. n - 1) /\ Cardinality(0 .. n - 1) = n
  <2>1. 0 \in Int /\ n - 1 \in Int /\ (0 > n - 1 => n = 0) /\ n - 1 - 0 + 1 = n
    OBVIOUS
  <2> QED BY <2>1, FS_Interval
<1>3. ExistsBijection(0 .. n - 1, B)
  BY <1>1, <1>2, FS_SameCardinalityBij
<1> QED BY <1>1, <1>3 DEF ExistsBijection, Numberings

(* A child can be followed when its parent can.                            *)
LEMMA EdgeExists ==
  ASSUME Wanted, NEW c \in NonRoot, NEW ap \in [1 .. Out -> Nat], NEW tp \in [1 .. Out -> Nat],
         \A q \in 1 .. Out : InRange(Parent[c], ap[q], tp[q])
  PROVE  \E ac, tc \in [1 .. Out -> Nat] :
           /\ \A q \in 1 .. Out : InRange(c, ac[q], tc[q])
           /\ Edge(c, ap, tp, ac, tc)
<1> DEFINE p == Parent[c]
           num(B) == CHOOSE b : b \in Numberings(B)
           place(B, f) == CHOOSE k \in 0 .. Cardinality(B) - 1 : num(B)[k] = f
           below(q) == Below(input, c, ap[q])
           answer == [q \in 1 .. Out |-> num(below(q))[Share(c, ap[q], tp[q])]]
           ac == [q \in 1 .. Out |-> answer[q][c]]
           tc == [q \in 1 .. Out |-> place(Using(input, c, answer[q][c]), answer[q])]
<1>1. /\ Database(input) /\ c \in Node /\ p \in Node /\ c # Root /\ c \in Subtree[c]
      /\ Subtree[c] \in SUBSET Node
  BY InputLen, ParentFacts, SubtreeFacts DEF Wanted, Database, NonRoot
<1>2. ASSUME NEW B, IsFiniteSet(B)
      PROVE  /\ num(B) \in [0 .. Cardinality(B) - 1 -> B]
             /\ \A k, l \in 0 .. Cardinality(B) - 1 : num(B)[k] = num(B)[l] => k = l
             /\ \A f \in B : \E k \in 0 .. Cardinality(B) - 1 : num(B)[k] = f
  <2>1. PICK b : b = num(B)
    OBVIOUS
  <2>2. num(B) \in Numberings(B)
    BY <1>2, NumberingExists
  <2> HIDE DEF num
  <2>3. b \in Bijection(0 .. Cardinality(B) - 1, B)
    BY <2>1, <2>2 DEF Numberings
  <2>4. /\ b \in [0 .. Cardinality(B) - 1 -> B]
        /\ \A k, l \in 0 .. Cardinality(B) - 1 : b[k] = b[l] => k = l
        /\ \A f \in B : \E k \in 0 .. Cardinality(B) - 1 : b[k] = f
    BY <2>3 DEF Bijection, Injection, Surjection, IsInjective
  <2> QED BY <2>1, <2>4
<1> HIDE DEF num
<1>3. ASSUME NEW B, IsFiniteSet(B), NEW f \in B
      PROVE  place(B, f) \in 0 .. Cardinality(B) - 1 /\ num(B)[place(B, f)] = f
  BY <1>2, <1>3
<1> HIDE DEF place
<1>4. ASSUME NEW q \in 1 .. Out
      PROVE  IsFiniteSet(below(q)) /\ Share(c, ap[q], tp[q]) \in 0 .. Cardinality(below(q)) - 1
  <2>1. PICK i, t : i = ap[q] /\ t = tp[q]
    OBVIOUS
  <2>2. InRange(p, i, t)
    BY <2>1
  <2>3. PICK n : n = SubtreeCount(input, p, i)
    OBVIOUS
  <2>4. i \in 1 .. Len(input[p]) /\ t \in Nat /\ n \in Nat /\ n # 0
    <3>1. n \in Nat
      BY <1>1, <2>3, SubtreeCountType
    <3> QED BY <2>2, <2>3, <3>1 DEF InRange
  <2>5. PICK m, us : m = Cardinality(ChildSet(p)) /\ us = UsOf(input, p, i)
    OBVIOUS
  <2>6. m \in Nat \ {0} /\ ChildIdx(c) \in 1 .. m /\ children(p)[ChildIdx(c)] = c
    BY <2>5, ChildIdxIs
  <2>7. Positive(us, m)
    BY <1>1, <2>3, <2>4, <2>5, ValuesOf
  <2>8. PartialIndex(t, us, SuffixCount(us))[ChildIdx(c)] \in 0 .. us[ChildIdx(c)] - 1
    BY <2>4, <2>6, <2>7, PartialIndexIs
  <2>9. us[ChildIdx(c)] = Cardinality(Below(input, c, i))
    <3>1. DOMAIN children(p) = 1 .. m
      BY <1>1, <2>5, ChildrenEnumerate
    <3> QED BY <2>5, <2>6, <3>1 DEF UsOf
  <2>10. IsFiniteSet(Below(input, c, i))
    BY <1>1, UsingFinite
  <2> QED BY <2>1, <2>5, <2>8, <2>9, <2>10 DEF Share
<1>5. ASSUME NEW q \in 1 .. Out
      PROVE  /\ answer[q] = num(below(q))[Share(c, ap[q], tp[q])]
             /\ answer[q] \in below(q) /\ ac[q] = answer[q][c] /\ ac[q] \in 1 .. Len(input[c])
             /\ Joins(c, input[p][ap[q]], input[c][ac[q]])
             /\ answer[q] \in Using(input, c, ac[q])
  <2>1. answer[q] = num(below(q))[Share(c, ap[q], tp[q])] /\ ac[q] = answer[q][c]
    OBVIOUS
  <2>2. answer[q] \in below(q)
    <3>1. PICK B, k : B = below(q) /\ k = Share(c, ap[q], tp[q])
      OBVIOUS
    <3>2. IsFiniteSet(B) /\ k \in 0 .. Cardinality(B) - 1
      BY <1>4, <3>1
    <3>3. num(B) \in [0 .. Cardinality(B) - 1 -> B]
      BY <1>2, <3>2
    <3> QED BY <2>1, <3>1, <3>2, <3>3
  <2> HIDE DEF answer, ac
  <2>3. answer[q] \in Matches(input, Subtree[c]) /\ Joins(c, input[p][ap[q]], input[c][answer[q][c]])
    BY <2>2 DEF Below
  <2>4. answer[q][c] \in 1 .. Len(input[c])
    BY <1>1, <2>3, MatchesAre
  <2> QED BY <2>1, <2>2, <2>3, <2>4 DEF Using
<1>6. ASSUME NEW q \in 1 .. Out
      PROVE  /\ tc[q] = place(Using(input, c, ac[q]), answer[q])
             /\ IsFiniteSet(Using(input, c, ac[q]))
             /\ tc[q] \in 0 .. SubtreeCount(input, c, ac[q]) - 1
             /\ num(Using(input, c, ac[q]))[tc[q]] = answer[q]
  <2>1. tc[q] = place(Using(input, c, ac[q]), answer[q])
    OBVIOUS
  <2> HIDE DEF tc, ac, answer
  <2>2. IsFiniteSet(Using(input, c, ac[q]))
    BY <1>1, UsingFinite
  <2>3. answer[q] \in Using(input, c, ac[q])
    BY <1>5
  <2>4. SubtreeCount(input, c, ac[q]) = Cardinality(Using(input, c, ac[q]))
    BY DEF SubtreeCount, Using
  <2> QED BY <1>3, <2>1, <2>2, <2>3, <2>4
<1>7. DOMAIN ac = 1 .. Out /\ DOMAIN tc = 1 .. Out /\ ac = [q \in 1 .. Out |-> ac[q]] /\ tc = [q \in 1 .. Out |-> tc[q]]
  OBVIOUS
<1> HIDE DEF answer, ac, tc
<1>8. ac \in [1 .. Out -> Nat] /\ tc \in [1 .. Out -> Nat] /\ \A q \in 1 .. Out : InRange(c, ac[q], tc[q])
  <2>1. Len(input[c]) \in Nat
    BY <1>1 DEF Database
  <2>2. ASSUME NEW q \in 1 .. Out PROVE ac[q] \in Nat /\ tc[q] \in Nat /\ InRange(c, ac[q], tc[q])
    <3>1. PICK n \in Nat : n = SubtreeCount(input, c, ac[q])
      BY <1>1, SubtreeCountType
    <3>2. ac[q] \in 1 .. Len(input[c]) /\ tc[q] \in 0 .. n - 1
      BY <1>5, <1>6, <3>1
    <3> QED BY <1>1, <2>1, <3>1, <3>2 DEF InRange
  <2> QED BY <1>7, <2>2
<1>9. ASSUME NEW q \in 1 .. Out, NEW r \in 1 .. Out, ac[q] = ac[r], tc[q] = tc[r]
      PROVE  Share(c, ap[q], tp[q]) = Share(c, ap[r], tp[r])
  <2>1. answer[q] = answer[r]
    BY <1>6, <1>9
  <2>2. below(q) = below(r)
    <3>1. Joins(c, input[p][ap[q]], input[c][ac[q]]) /\ Joins(c, input[p][ap[r]], input[c][ac[q]])
      BY <1>5, <1>9
    <3>2. input[p][ap[q]].keys[ColInParent[c]] = input[p][ap[r]].keys[ColInParent[c]]
      BY <3>1 DEF Joins
    <3> QED BY <3>2 DEF Below, Joins
  <2>3. PICK B, k, l : B = below(q) /\ k = Share(c, ap[q], tp[q]) /\ l = Share(c, ap[r], tp[r])
    OBVIOUS
  <2>4. IsFiniteSet(B) /\ k \in 0 .. Cardinality(B) - 1 /\ l \in 0 .. Cardinality(B) - 1
    BY <1>4, <2>2, <2>3
  <2>5. num(B)[k] = num(B)[l]
    BY <1>5, <2>1, <2>2, <2>3
  <2>6. k = l
    BY <1>2, <2>4, <2>5
  <2> QED BY <2>3, <2>6
<1>10. Edge(c, ap, tp, ac, tc)
  BY <1>5, <1>9 DEF Edge
<1> QED BY <1>8, <1>10

(* The relations D keep what has been followed of them.                    *)
Continues(D, R, T, R2, T2) == \A u \in D : R2[u] = R[u] /\ T2[u] = T[u]

(* One more relation. *)
LEMMA OneMore ==
  ASSUME Wanted, NEW R \in Traces, NEW T \in Traces, NEW D, Partly(D, R, T),
         NEW c \in NonRoot, c \notin D, Parent[c] \in D
  PROVE  \E R2, T2 \in Traces : Partly(D \cup {c}, R2, T2) /\ Continues(D, R, T, R2, T2)
<1>1. c \in Node /\ Parent[c] \in Node /\ c # Root /\ D \subseteq Node /\ Root \in D
  BY ParentFacts DEF Partly, NonRoot
<1>2. R[Parent[c]] \in [1 .. Out -> Nat] /\ T[Parent[c]] \in [1 .. Out -> Nat]
  BY <1>1 DEF Traces
<1>3. \A q \in 1 .. Out : InRange(Parent[c], R[Parent[c]][q], T[Parent[c]][q])
  BY DEF Partly
<1>4. PICK ac \in [1 .. Out -> Nat], tc \in [1 .. Out -> Nat] :
        /\ \A q \in 1 .. Out : InRange(c, ac[q], tc[q])
        /\ Edge(c, R[Parent[c]], T[Parent[c]], ac, tc)
  <2>1. PICK ap, tp : ap = R[Parent[c]] /\ tp = T[Parent[c]]
    OBVIOUS
  <2>2. /\ ap \in [1 .. Out -> Nat] /\ tp \in [1 .. Out -> Nat]
        /\ \A q \in 1 .. Out : InRange(Parent[c], ap[q], tp[q])
    BY <1>2, <1>3, <2>1
  <2>3. \E ac, tc \in [1 .. Out -> Nat] :
          (\A q \in 1 .. Out : InRange(c, ac[q], tc[q])) /\ Edge(c, ap, tp, ac, tc)
    BY <2>2, EdgeExists
  <2> QED BY <2>1, <2>3
<1>5. PICK R2, T2 : R2 = [R EXCEPT ![c] = ac] /\ T2 = [T EXCEPT ![c] = tc]
  OBVIOUS
<1>6. /\ R2 \in Traces /\ T2 \in Traces /\ R2[c] = ac /\ T2[c] = tc
      /\ \A u \in Node : u # c => R2[u] = R[u] /\ T2[u] = T[u]
  BY <1>1, <1>4, <1>5 DEF Traces
<1>7. Continues(D, R, T, R2, T2)
  BY <1>1, <1>6 DEF Continues
<1>8. Partly(D \cup {c}, R2, T2)
  <2>1. \A u \in D \cup {c} : \A q \in 1 .. Out : InRange(u, R2[u][q], T2[u][q])
    BY <1>4, <1>6, <1>7 DEF Partly, Continues
  <2>2. ASSUME NEW d \in D \cup {c}, d # Root
        PROVE  Parent[d] \in D /\ Edge(d, R2[Parent[d]], T2[Parent[d]], R2[d], T2[d])
    <3>1. CASE d = c
      BY <1>4, <1>6, <1>7, <3>1 DEF Continues
    <3>2. CASE d \in D
      BY <1>7, <2>2, <3>2 DEF Partly, Continues
    <3> QED BY <3>1, <3>2
  <2>3. \A q \in 1 .. Out : T2[Root][q] = q - Start(input, R2[Root][q] - 1)
    BY <1>1, <1>7 DEF Partly, Continues
  <2> QED BY <1>1, <2>1, <2>2, <2>3 DEF Partly
<1> QED BY <1>6, <1>7, <1>8

(* What has been followed so far can be followed to the end.               *)
LEMMA FollowedToTheEnd ==
  ASSUME Wanted, NEW R \in Traces, NEW T \in Traces, NEW D, Partly(D, R, T)
  PROVE  \E R2, T2 \in Traces : Wholly(R2, T2) /\ Continues(D, R, T, R2, T2)
<1> DEFINE Good(E) == /\ E \in SUBSET Node
                      /\ \E R2, T2 \in Traces : Partly(E, R2, T2) /\ Continues(D, R, T, R2, T2) /\ D \subseteq E
           X == {k \in Nat : \E E : Good(E) /\ k = Cardinality(E)}
<1>1. IsFiniteSet(Node) /\ Cardinality(Node) \in Nat
  BY NodesFinite
<1>2. \A E \in SUBSET Node : IsFiniteSet(E) /\ Cardinality(E) \in Nat /\ Cardinality(E) <= Cardinality(Node)
  BY <1>1, FS_Subset, FS_CardinalityType
<1>3. Good(D)
  <2>1. Continues(D, R, T, R, T) /\ D \in SUBSET Node
    BY DEF Continues, Partly
  <2> QED BY <2>1
<1>4. PICK k \in X : \A l \in X : k >= l
  <2>1. X \subseteq Nat /\ X # {} /\ \A x \in X : x <= Cardinality(Node)
    <3> HIDE DEF Good
    <3>1. Cardinality(D) \in X
      BY <1>2, <1>3 DEF Good
    <3>2. \A E : Good(E) => E \in SUBSET Node
      BY DEF Good
    <3> QED BY <1>2, <3>1, <3>2
  <2> HIDE DEF X
  <2> QED BY <1>1, <2>1, GreatestOfNats
<1>5. PICK E : Good(E) /\ k = Cardinality(E)
  BY <1>4
<1>6. PICK R2 \in Traces, T2 \in Traces : Partly(E, R2, T2) /\ Continues(D, R, T, R2, T2) /\ D \subseteq E
  BY <1>5
<1>7. ASSUME E # Node PROVE FALSE
  <2> DEFINE Y == {Depth[v] : v \in Node \ E}
  <2>1. E \subseteq Node /\ Root \in E
    BY <1>6 DEF Partly
  <2>2. Y \subseteq Nat /\ Y # {}
    BY <1>7, <2>1, DepthType
  <2>3. PICK d \in Y : \A e \in Y : d <= e
    <3> HIDE DEF Y
    <3> QED BY <2>2, LeastOfNats
  <2>4. PICK c \in Node \ E : Depth[c] = d
    BY <2>3
  <2>5. c \in NonRoot /\ Parent[c] \in Node /\ Depth[c] = 1 + Depth[Parent[c]] /\ Depth[Parent[c]] \in Nat
    <3>1. c \in NonRoot
      BY <2>1, <2>4 DEF NonRoot
    <3> QED BY <3>1, ParentFacts, DepthType
  <2>6. Parent[c] \in E
    <3>1. ~(d <= Depth[Parent[c]])
      BY <2>4, <2>5
    <3>2. Depth[Parent[c]] \notin Y
      <4> HIDE DEF Y
      <4> QED BY <2>3, <3>1
    <3> QED BY <2>5, <3>2
  <2>7. PICK R3 \in Traces, T3 \in Traces : Partly(E \cup {c}, R3, T3) /\ Continues(E, R2, T2, R3, T3)
    BY <1>6, <2>4, <2>5, <2>6, OneMore
  <2>8. Good(E \cup {c})
    <3>1. E \cup {c} \in SUBSET Node /\ D \subseteq E \cup {c}
      BY <1>6, <2>1, <2>4
    <3>2. Continues(D, R, T, R3, T3)
      BY <1>6, <2>7 DEF Continues
    <3> QED BY <2>7, <3>1, <3>2
  <2>9. Cardinality(E \cup {c}) = k + 1
    BY <1>2, <1>5, <2>1, <2>4, FS_AddElement
  <2>10. k \in Nat
    OBVIOUS
  <2>11. k + 1 \in X
    <3> HIDE DEF Good
    <3> QED BY <2>8, <2>9, <2>10
  <2>12. ~(k >= k + 1)
    BY <2>10
  <2> HIDE DEF X
  <2> QED BY <1>4, <2>11, <2>12
<1>8. Wholly(R2, T2)
  BY <1>6, <1>7 DEF Partly, Wholly, NonRoot
<1> QED BY <1>6, <1>8

(* Rows of an internal relation that look the same have as many answers    *)
(* below them.                                                             *)
LEMMA SameCount ==
  ASSUME Wanted, NEW p \in Node, NEW i \in 1 .. Len(input[p]), NEW j \in 1 .. Len(input[p]),
         input[p][i].keys = input[p][j].keys
  PROVE  SubtreeCount(input, p, i) = SubtreeCount(input, p, j)
<1>1. Database(input)
  BY InputLen DEF Wanted, Database
<1>2. \A k \in DOMAIN children(p) : Below(input, children(p)[k], i) = Below(input, children(p)[k], j)
  <2> TAKE k \in DOMAIN children(p)
  <2>1. Parent[children(p)[k]] = p
    BY ChildSubtrees
  <2> QED BY <2>1 DEF Below, Joins
<1>3. UsOf(input, p, i) = UsOf(input, p, j)
  BY <1>2 DEF UsOf
<1>4. PICK m, us : m = Cardinality(ChildSet(p)) /\ us = UsOf(input, p, i)
  OBVIOUS
<1>5. Product(us) = SubtreeCount(input, p, i)
  BY <1>1, <1>4, ValuesOf
<1>6. Product(us) = SubtreeCount(input, p, j)
  BY <1>1, <1>3, <1>4, ValuesOf
<1> QED BY <1>5, <1>6

(* As many rows as positions take a turn. *)
Dealt(n, rows, ix, keys, a, t, K) ==
  /\ Permutes([h \in 1 .. n |-> rows[h].P], n)
  /\ \A h \in 1 .. n : ix[h] = t[rows[h].P] /\ (rows[h].keys = keys <=> a[rows[h].P] \in K)

ByKeys(n, rows, ix, keys, m, k) == {h \in 1 .. n : rows[h].keys = keys /\ ix[h] % m = k}

ByRows(n, a, t, K, m, k) == {q \in 1 .. n : a[q] \in K /\ t[q] % m = k}

LEMMA TakersArePositions ==
  ASSUME NEW n \in Nat, NEW rows, NEW t, NEW a, NEW K, NEW m, NEW k, NEW ix, NEW keys,
         Dealt(n, rows, ix, keys, a, t, K)
  PROVE  Cardinality(ByKeys(n, rows, ix, keys, m, k)) = Cardinality(ByRows(n, a, t, K, m, k))
<1>1. PICK o, H, Q, f : /\ o = [h \in 1 .. n |-> rows[h].P]
                        /\ H = {h \in 1 .. n : rows[h].keys = keys /\ ix[h] % m = k}
                        /\ Q = {q \in 1 .. n : a[q] \in K /\ t[q] % m = k}
                        /\ f = [h \in H |-> rows[h].P]
  OBVIOUS
<1>2. Permutes(o, n)
  BY <1>1 DEF Dealt
<1>3. \A q \in 1 .. n : \E h \in 1 .. n : o[h] = q
  BY <1>2, Onto
<1>4. \A h \in 1 .. n : o[h] = rows[h].P /\ o[h] \in 1 .. n /\ \A j \in 1 .. n : o[h] = o[j] => h = j
  BY <1>1, <1>2 DEF Permutes
<1>5. IsFiniteSet(H)
  <2>1. IsFiniteSet(1 .. n) /\ H \in SUBSET (1 .. n)
    BY <1>1, FS_Interval
  <2> QED BY <2>1, FS_Subset
<1>6. \A h \in 1 .. n : h \in H <=> o[h] \in Q
  BY <1>1, <1>4 DEF Dealt
<1>7. f \in [H -> Q] /\ \A h \in H : f[h] = o[h] /\ h \in 1 .. n
  <2>1. \A h \in H : f[h] = o[h] /\ h \in 1 .. n
    BY <1>1
  <2>2. \A h \in H : f[h] \in Q
    BY <1>6, <2>1
  <2>3. f = [h \in H |-> f[h]]
    BY <1>1
  <2> QED BY <2>1, <2>2, <2>3
<1>8. \A x, y \in H : f[x] = f[y] => x = y
  BY <1>4, <1>7
<1>9. \A q \in Q : \E h \in H : f[h] = q
  <2> TAKE q \in Q
  <2>1. PICK h \in 1 .. n : o[h] = q
    BY <1>1, <1>3
  <2> QED BY <1>6, <1>7, <2>1
<1>10. Cardinality(Q) = Cardinality(H)
  BY <1>5, <1>7, <1>8, <1>9, Correspondence
<1> QED BY <1>1, <1>10 DEF ByKeys, ByRows

(* The rows of the current node that take turn k of the rows with these    *)
(* keys.                                                                   *)
Takers(keys, delta, k) ==
  {h \in DOMAIN tables[order[oi + 1]] : tables[order[oi + 1]][h].keys = keys /\ idx[h] % delta = k}

LEMMA TurnsBalanced ==
  ASSUME N > 1, DInv, ShapeInv, Ready, Following, Exact, phase = "edges",
         NEW i \in DOMAIN tables[order[oi + 1]], NEW keys, NEW delta,
         keys = tables[order[oi + 1]][i].keys, delta = tables[order[oi + 1]][i].delta,
         NEW k \in 0 .. delta - 1
  PROVE  Cardinality(Takers(keys, delta, k)) = Cardinality(Takers(keys, delta, 0))
<1> DEFINE p == order[oi + 1]
           rows == tables[p]
<1>1. p \in Node /\ ~IsLeaf(p) /\ Positioned(p) /\ Wanted /\ Progress
  BY CurrentPlaced DEF ShapeInv, Progress
<1>2. PICK n \in Nat : n = Out /\ DOMAIN rows = 1 .. n
  BY <1>1, OutType DEF ShapeInv, Shapes, Table
<1>3. PICK R \in Traces, T \in Traces : Traced(R, T)
  BY DEF Following
<1>4. PICK D : D = {u \in Node : u = Root \/ Copied(u)}
  OBVIOUS
<1>5. Partly(D, R, T)
  <2>1. Root \in D /\ D \subseteq Node
    BY <1>4, TreeAssumption
  <2>2. ASSUME NEW c \in D, c # Root
        PROVE  Parent[c] \in D /\ Edge(c, R[Parent[c]], T[Parent[c]], R[c], T[c])
    <3>1. c \in NonRoot /\ Copied(c)
      BY <1>4, <2>2 DEF NonRoot
    <3>2. Positioned(Parent[c]) /\ Parent[c] \in Node
      BY <1>1, <3>1, ParentFacts DEF Progress, Copied
    <3> QED BY <1>3, <1>4, <3>1, <3>2 DEF Positioned, Traced, HandedDown
  <2>3. \A u \in D : \A q \in 1 .. Out : InRange(u, R[u][q], T[u][q])
    BY <1>3, <1>4 DEF Traced
  <2>4. \A q \in 1 .. Out : T[Root][q] = q - Start(input, R[Root][q] - 1)
    BY <1>3 DEF Traced
  <2> QED BY <2>1, <2>2, <2>3, <2>4 DEF Partly
<1>6. PICK R2 \in Traces, T2 \in Traces : Wholly(R2, T2) /\ Continues(D, R, T, R2, T2)
  BY <1>1, <1>3, <1>5, FollowedToTheEnd
<1>7. p \in D /\ R2[p] = R[p] /\ T2[p] = T[p]
  BY <1>1, <1>4, <1>6 DEF Positioned, Continues
<1>8. Carried(rows, p, R[p], T[p])
  BY <1>1, <1>3 DEF Traced
<1>9. \A h \in 1 .. n : idx[h] = T[p][rows[h].P]
  <2>1. PICK u : u = p
    OBVIOUS
  <2>2. \A h \in 1 .. Out : idx[h] = T[u][tables[u][h].P]
    BY <1>1, <1>3, <2>1, IndexIsTurn
  <2> QED BY <1>2, <2>1, <2>2
<1>10. Permutes([h \in 1 .. n |-> rows[h].P], n)
  BY <1>2, <1>8 DEF Carried, Numbering
<1>11. \A h \in 1 .. n : rows[h].P \in 1 .. n
  BY <1>10 DEF Permutes
<1>12. \A h \in 1 .. n : /\ R[p][rows[h].P] \in 1 .. Len(input[p])
                          /\ rows[h].keys = input[p][R[p][rows[h].P]].keys
                          /\ rows[h].delta = SubtreeCount(input, p, R[p][rows[h].P])
  <2> SUFFICES ASSUME NEW h \in 1 .. n
               PROVE  /\ R[p][rows[h].P] \in 1 .. Len(input[p])
                      /\ rows[h].keys = input[p][R[p][rows[h].P]].keys
                      /\ rows[h].delta = SubtreeCount(input, p, R[p][rows[h].P])
    OBVIOUS
  <2>1. PICK x, y, r : x = R[p][rows[h].P] /\ y = T[p][rows[h].P] /\ r = rows[h]
    OBVIOUS
  <2>2. Carries(p, r, x, y)
    BY <1>2, <1>8, <2>1 DEF Carried
  <2>3. r.keys = input[p][x].keys /\ r.delta = SubtreeCount(input, p, x)
    BY <1>1, <2>2 DEF Carries, Stands
  <2>4. InRange(p, x, y)
    BY <1>2, <1>3, <1>4, <1>7, <1>11, <2>1 DEF Traced
  <2> QED BY <2>1, <2>3, <2>4 DEF InRange
<1>13. PICK K : K = {j \in 1 .. Len(input[p]) : input[p][j].keys = keys}
  OBVIOUS
<1>14. \A j \in K : SubtreeCount(input, p, j) = delta
  <2> TAKE j \in K
  <2>1. PICK a \in 1 .. Len(input[p]) : a = R[p][rows[i].P] /\ keys = input[p][a].keys /\ delta = SubtreeCount(input, p, a)
    BY <1>2, <1>12
  <2> QED BY <1>1, <1>13, <2>1, SameCount
<1>15. \A h \in 1 .. n : rows[h].keys = keys <=> R[p][rows[h].P] \in K
  BY <1>12, <1>13
<1>16. \A l : Cardinality(Takers(keys, delta, l)) = Cardinality(Taking(R2, T2, p, K, delta, l))
  <2> TAKE l
  <2>1. PICK ro, a, t, ix, key, m : ro = rows /\ a = R[p] /\ t = T[p] /\ ix = idx /\ key = keys /\ m = delta
    OBVIOUS
  <2>2. Dealt(n, ro, ix, key, a, t, K)
    BY <1>9, <1>10, <1>15, <2>1 DEF Dealt
  <2>3. Cardinality(ByKeys(n, ro, ix, key, m, l)) = Cardinality(ByRows(n, a, t, K, m, l))
    BY <2>2, TakersArePositions
  <2>4. Takers(keys, delta, l) = ByKeys(n, ro, ix, key, m, l)
    BY <1>2, <2>1 DEF Takers, ByKeys
  <2>5. Taking(R2, T2, p, K, delta, l) = ByRows(n, a, t, K, m, l)
    BY <1>2, <1>7, <2>1 DEF Taking, ByRows
  <2> QED BY <2>3, <2>4, <2>5
<1>17. delta \in Nat /\ 0 \in 0 .. delta - 1
  <2>1. PICK a : delta = SubtreeCount(input, p, a)
    BY <1>2, <1>12
  <2>2. delta \in Nat
    BY <1>1, <2>1, SubtreeCountType
  <2> QED BY <2>2
<1> HIDE DEF p, rows
<1>18. PICK x, y : x = Taking(R2, T2, p, K, delta, k) /\ y = Taking(R2, T2, p, K, delta, 0)
  OBVIOUS
<1>19. IsFiniteSet(x) /\ IsFiniteSet(y) /\ Cardinality(x) <= Cardinality(y)
  BY <1>1, <1>6, <1>14, <1>17, <1>18, NotMore
<1>20. Cardinality(y) <= Cardinality(x)
  BY <1>1, <1>6, <1>14, <1>17, <1>18, NotMore
<1>21. Cardinality(x) = Cardinality(y)
  BY <1>19, <1>20, FS_CardinalityType
<1> QED BY <1>16, <1>18, <1>21

(* The copies of one row share out its partial answers evenly: while the   *)
(* edges of a node are in work, the local indices that its copies got from *)
(* their state (P, b, lambda) take every turn equally often.               *)
THEOREM IndicesBalancedTheorem == JSpec => []IndicesBalanced
<1>1. CASE N > 1
  <2>1. DInv /\ ShapeInv /\ Ready /\ Following => IndicesBalanced
    <3> SUFFICES ASSUME DInv, ShapeInv, Ready, Following, Exact, phase = "edges",
                        NEW i \in DOMAIN tables[order[oi + 1]], NEW k \in 0 .. tables[order[oi + 1]][i].delta - 1
                 PROVE  Cardinality(Takers(tables[order[oi + 1]][i].keys, tables[order[oi + 1]][i].delta, k))
                          = Cardinality(Takers(tables[order[oi + 1]][i].keys, tables[order[oi + 1]][i].delta, 0))
      BY DEF IndicesBalanced, Takers
    <3>1. PICK keys, delta : keys = tables[order[oi + 1]][i].keys /\ delta = tables[order[oi + 1]][i].delta
      OBVIOUS
    <3>2. Cardinality(Takers(keys, delta, k)) = Cardinality(Takers(keys, delta, 0))
      BY <1>1, <3>1, TurnsBalanced
    <3> QED BY <3>1, <3>2
  <2> QED BY <1>1, <2>1, ShapeInvariant, ReadyInvariant, FollowingInvariant, DownInvariant, PTL
<1>2. CASE N = 1
  <2> DEFINE Still == phase \in {"off", "node", "sort", "done"} /\ oi = 0
  <2>1. JInit => Still
    BY DEF JInit, DownInit
  <2>2. Still /\ [JNext]_allVars => Still'
    <3> SUFFICES ASSUME Still, [JNext]_allVars PROVE Still'
      OBVIOUS
    <3>1. NonRoot = {} /\ Len(order) = 0
      BY <1>2, AloneOrder
    <3>2. ~PrepareNode
      BY <3>1 DEF PrepareNode
    <3> QED BY <3>1, <3>2 DEF JNext, DownNext, StartDown, LeaveNode, StartFinalSort, Materialize,
                              allVars, downOnly
  <2>3. Still => IndicesBalanced
    BY DEF IndicesBalanced
  <2> QED BY <2>1, <2>2, <2>3, PTL DEF JSpec
<1>3. N > 1 \/ N = 1
  BY TreeAssumption
<1> QED BY <1>1, <1>2, <1>3
=============================================================================
