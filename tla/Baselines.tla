------------------------------- MODULE Baselines -------------------------------
(***************************************************************************)
(* runJoin without mode "Ours": it decides how many rows are wanted and    *)
(* runs one of the baselines.  Each implements the abstract join in its    *)
(* own way.                                                                *)
(***************************************************************************)
EXTENDS FlatTables

CONSTANTS Inputs, Taus, DummyValue, MaxRows, MaxCount

ASSUME CountAssumption == MaxRows \in Nat /\ MaxCount \in Nat /\ MaxRows <= MaxCount

(* The join columns are columns of their tables, rows have all columns     *)
(* and do not use the dummy value.                                         *)
ASSUME InputAssumption ==
  /\ Taus \subseteq Nat
  /\ tableKeys \in [Node -> Nat]
  /\ \A c \in NonRoot : /\ ColInChild[c] \in 1 .. tableKeys[c]
                       /\ ColInParent[c] \in 1 .. tableKeys[Parent[c]]
  /\ \A db \in Inputs : DOMAIN db = Node /\ \A u \in Node :
       /\ db[u] \in Seq([keys : Seq(Int)])
       /\ \A i \in 1 .. Len(db[u]) : /\ Len(db[u][i].keys) = tableKeys[u]
                                   /\ DummyValue \notin ToSet(db[u][i].keys)

VARIABLES
  mode,     \* "paryan", "obliyan" or "nonoblivious"
  input,    \* the database
  target,   \* materializedOutSize
  stage, tables, result,
  level, pc, vals, outSize, partial, cols, offset,  \* of ParYan
  todo, tableOrder,                                 \* of ObliYan
  contribution, choice                              \* of NonObliviousJFYan, with todo

parVars == <<level, pc, vals, outSize, partial, cols, offset>>
vars == <<mode, input, target, stage, tables, result, parVars, todo, tableOrder,
          contribution, choice>>

P == INSTANCE ParYan
O == INSTANCE ObliYan
F == INSTANCE NonObliviousJFYan

NoParYan ==
  /\ level = 0 /\ outSize = 0
  /\ pc = <<>> /\ vals = <<>> /\ partial = <<>> /\ cols = <<>> /\ offset = <<>>
NoObliYan == tableOrder = <<>>
NoCounts == contribution = <<>> /\ choice = <<>>

Init ==
  /\ input \in Inputs
  /\ \E tau \in Taus : target = materializedOutSize(input, tau)
  /\ \/ mode = "paryan" /\ P!Init /\ todo = <<>> /\ NoObliYan /\ NoCounts
     \/ mode = "obliyan" /\ O!Init /\ NoParYan /\ NoCounts
     \/ mode = "nonoblivious" /\ F!Init /\ tables = <<>> /\ NoParYan /\ NoObliYan

Next ==
  /\ \/ mode = "paryan" /\ P!Next /\ UNCHANGED <<todo, tableOrder, contribution, choice>>
     \/ mode = "obliyan" /\ O!Next /\ UNCHANGED <<parVars, contribution, choice>>
     \/ mode = "nonoblivious" /\ F!Next /\ UNCHANGED <<target, tables, parVars, tableOrder>>
  /\ UNCHANGED mode

(* The threads of ParYan's loops run to the end of the level and the other *)
(* modes are sequential: the program goes on while it can.                 *)
Spec == Init /\ [][Next]_vars /\ WF_vars(Next)

-----------------------------------------------------------------------------
(* A row has 0 in a join column. *)
HasZeroKey(db) ==
  \E c \in NonRoot :
    \/ \E r \in ToSet(db[c]) : r.keys[ColInChild[c]] = 0
    \/ \E r \in ToSet(db[Parent[c]]) : r.keys[ColInParent[c]] = 0

(* The answers of db that have no key 0, as a bag of rows with the columns *)
(* in breadth-first order.                                                 *)
BfsRow(db, f) == FlattenSeq([k \in DOMAIN BfsOrder |-> db[BfsOrder[k]][f[BfsOrder[k]]].keys])

BfsJoin(db) ==
  LET found == {f \in Matches(db, Node) :
                  \A c \in NonRoot : db[c][f[c]].keys[ColInChild[c]] # 0}
  IN  ImageBag([f \in found |-> 1], LAMBDA f : BfsRow(db, f))

(* Rows that occur in an answer. *)
UsedRows(db, u) == {db[u][f[u]].keys : f \in Matches(db, Node)}

Filtered ==
  \/ mode = "paryan" /\ stage = "join" /\ level = MaxDepth /\ \A p \in Node : pc[p] = 0
  \/ mode = "obliyan" /\ stage = "join" /\ todo = O!bottomUpOrder

(* When the two passes of semi-joins are over, a row is left exactly if it *)
(* occurs in an answer (ParYanFilter, the filters of ObliYan): no row is   *)
(* lost, and none survives that would only be found useless in the joins.  *)
(* Rows with key 0 are left out: ObliYan drops them, and in ParYan they    *)
(* match the zeros of the rows that were filtered out above.               *)
FullyReduced ==
  Filtered /\ ~HasZeroKey(input) =>
    \A u \in Node :
      {v \in IF mode = "paryan" THEN {r.keys : r \in ToSet(tables[u])} ELSE DOMAIN tables[u] :
         ~isBottom(v)} = UsedRows(input, u)

(* Every table that ParYan's two-way joins produce, also the intermediate  *)
(* ones, has exactly the size of the output: the number of rows tells      *)
(* nothing but what the size itself does.  It is because of the filters    *)
(* that a subtree never has more joined rows than the whole query; rows    *)
(* with key 0 that survive them can make it more, and are left out.        *)
PartialsFit ==
  mode = "paryan" /\ stage \in {"join", "reorder"} /\ ~HasZeroKey(input) =>
    \A p \in Node : cols[p] > tableKeys[p] => BagCardinality(partial[p]) = outSize

-----------------------------------------------------------------------------
Refused == SetToBag({<<>>})

(* Some count on the way is too large for a long long: the number of       *)
(* answers below a row of u, by the children up to c, or of all rows of a  *)
(* table with the same key.                                                *)
SomeCountTooLarge(db) ==
  LET Count(u, i, c) ==
        Cardinality({f \in Matches(db, {u} \cup UNION {Subtree[d] : d \in {e \in ChildSet(u) : e <= c}}) :
                       f[u] = i})
  IN  \/ \E c \in NonRoot : \E i \in DOMAIN db[Parent[c]] : Count(Parent[c], i, c) > MaxCount
      \/ \E c \in NonRoot : \E j \in DOMAIN db[c] :
           MapThenSumSet(LAMBDA i : SubtreeCount(db, c, i),
             {i \in DOMAIN db[c] : db[c][i].keys[ColInChild[c]] = db[c][j].keys[ColInChild[c]]}) > MaxCount

(* Bags of at most n elements of S. *)
SmallBags(S, n) == UNION {O!BagsOfSize(S, k) : k \in 0 .. n}

Correct(m, db, size) ==
  CASE m = "paryan" -> {BfsJoin(db)}
    [] m = "obliyan" -> IF BagCardinality(BfsJoin(db)) <= size THEN {BfsJoin(db)}
                        ELSE SmallBags(DOMAIN BfsJoin(db), size)
    [] m = "nonoblivious" -> IF JoinSize(db) > MaxRows THEN {Refused}
                             ELSE {JoinBag(db)} \cup (IF SomeCountTooLarge(db) THEN {Refused} ELSE {})

Sizes == Taus \cup {JoinSize(db) : db \in Inputs} \cup {1}

Answers ==
  [a \in {"paryan", "obliyan", "nonoblivious"} \X Inputs \X Sizes |-> Correct(a[1], a[2], a[3])]

(* The answer without padding rows. *)
RealRows == Restricted(result, LAMBDA row : ~isBottom(row) /\ DummyValue \notin ToSet(row))

J == INSTANCE AcyclicJoin WITH
       Answers <- Answers,
       in <- <<mode, input, target>>,
       out <- IF stage \in {"CountOverflow", "OutputTooLarge"} THEN Refused ELSE RealRows,
       st <- IF stage \in {"done", "CountOverflow", "OutputTooLarge"} THEN "answered" ELSE "running"

(* Every baseline answers a query once and for good, with the bag of its   *)
(* join.  ParYan and ObliYan give the columns in breadth-first order and   *)
(* leave out rows that join on 0.  ObliYan returns only answers when tau   *)
(* is too small, but maybe fewer than tau.  The non-oblivious baseline     *)
(* gives the columns in relation order, and refuses exactly the answers    *)
(* with more rows than an int counts, or queries that need a count beyond  *)
(* long long on the way.                                                   *)
ImplementsBaseline == J!JoinSpec
=============================================================================
