-------------------------------- MODULE ObliYan --------------------------------
(***************************************************************************)
(* ObliYan, the serial baseline: a pass of semi-joins up the tree, one     *)
(* down, and two-way joins up again, which all produce tau rows.           *)
(*                                                                         *)
(* Every step sorts or compacts, so that a table is a bag of its rows that *)
(* are no dummies.  The two-way join is ObliYanTwoWay by what it promises  *)
(* (TwoWayJoins).                                                          *)
(***************************************************************************)
EXTENDS FlatTables

CONSTANT DummyValue  \* DO_DUMMY_VALUE

VARIABLES
  input,       \* the database
  target,      \* tau
  stage,       \* "up", "down", "join", "finish" or "done"
  tables,
  todo,        \* the nodes that the current pass has not reached yet
  tableOrder,  \* the relations whose columns a table has, in order
  result

vars == <<input, target, stage, tables, todo, tableOrder, result>>

NonBottom(R) == Restricted(R, LAMBDA v : ~isBottom(v))

bottomUpOrder == Reverse(BfsOrder)

downOrder == BfsOrder

Init ==
  /\ stage = "up"
  /\ tables = [u \in Node |-> NonBottom(BagOfRows(input[u]))]
  /\ todo = bottomUpOrder
  /\ tableOrder = [u \in Node |-> <<u>>]
  /\ result = EmptyBag

-----------------------------------------------------------------------------
(* The rows of R whose key occurs in S.  A row of S with key 0 looks like  *)
(* a dummy here, so that no row with key 0 is kept.                        *)
SemiJoin(R, a, S, b) ==
  Restricted(R, LAMBDA r : r[a] # 0 /\ \E s \in DOMAIN S : s[b] = r[a])

(* One iteration of the loops over the nodes; the last one of a pass sets  *)
(* up the next pass.                                                       *)
Advance(pass, order) ==
  IF Len(todo) = 1 THEN stage' = pass /\ todo' = order ELSE stage' = stage /\ todo' = Tail(todo)

UpFilter ==
  /\ stage = "up"
  /\ LET u == Head(todo)
     IN  tables' = IF u = Root THEN tables
                   ELSE [tables EXCEPT ![Parent[u]] =
                           SemiJoin(@, ColInParent[u], tables[u], ColInChild[u])]
  /\ Advance("down", downOrder)
  /\ UNCHANGED <<input, target, tableOrder, result>>

DownFilter ==
  /\ stage = "down"
  /\ LET u == Head(todo)
     IN  tables' = [v \in Node |->
           IF v \in ChildSet(u) THEN SemiJoin(tables[v], ColInChild[v], tables[u], ColInParent[v])
                                ELSE tables[v]]
  /\ Advance("join", bottomUpOrder)
  /\ UNCHANGED <<input, target, tableOrder, result>>

-----------------------------------------------------------------------------
(* The bags of n elements of S. *)
BagsOfSize(S, n) == {B \in UNION {[T -> 1 .. n] : T \in SUBSET S} : BagCardinality(B) = n}

(* What the join may return: all pairs when there is room for them, and    *)
(* otherwise tau rows that are pairs.                                      *)
TwoWay(R, a, S, b) ==
  LET joined == PairsOn(R, a, S, b)
  IN  IF BagCardinality(joined) <= target THEN {joined} ELSE BagsOfSize(DOMAIN joined, target)

(* The parent's own columns stay in front, the child's come first in its   *)
(* table: both join columns stay where they were.                          *)
JoinEdge ==
  /\ stage = "join"
  /\ LET u == Head(todo)
         p == Parent[u]
     IN  IF u = Root THEN UNCHANGED <<tables, tableOrder>>
         ELSE /\ \E joined \in TwoWay(tables[p], ColInParent[u], tables[u], ColInChild[u]) :
                   tables' = [tables EXCEPT ![p] = joined, ![u] = EmptyBag]
              /\ tableOrder' = [tableOrder EXCEPT ![p] = @ \o tableOrder[u]]
  /\ Advance("finish", <<>>)
  /\ UNCHANGED <<input, target, result>>

(* The columns before those of u. *)
Start(u) ==
  LET order == tableOrder[Root]
      before == {k \in DOMAIN order : \E l \in DOMAIN order : k < l /\ order[l] = u}
  IN  MapThenSumSet(LAMBDA k : tableKeys[order[k]], before)

TotalWidth == MapThenSumSet(LAMBDA u : tableKeys[u], Node)

(* reorderColumnsByTableOrder, then dummies up to tau rows. *)
Finish ==
  /\ stage = "finish"
  /\ LET rows == NonBottom(ImageBag(tables[Root],
                   LAMBDA row : Ordered(row, [u \in Node |-> Start(u)], downOrder)))
         missing == target - BagCardinality(rows)
     IN  result' = IF missing > 0
                   THEN rows (+) Copies([k \in 1 .. TotalWidth |-> DummyValue], missing)
                   ELSE rows
  /\ stage' = "done"
  /\ UNCHANGED <<input, target, tables, todo, tableOrder>>

Next == UpFilter \/ DownFilter \/ JoinEdge \/ Finish
=============================================================================
