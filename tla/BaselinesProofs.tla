----------------------------- MODULE BaselinesProofs -----------------------------
(***************************************************************************)
(* Proofs about ParYan and ObliYan as runJoin runs them (Baselines), for   *)
(* every join tree of at least two relations, every set of databases and   *)
(* every output size.                                                      *)
(*                                                                         *)
(* The modules of the baselines are instantiated there under the names P   *)
(* and O; the first two parts say what their steps do to the variables of  *)
(* this module, so that everything after them is about plain names.        *)
(*                                                                         *)
(* The passes of semi-joins come first (Passes, FullyReduced), then the    *)
(* joins of ParYan (JoinsInv, PartialsFit) and what it answers.            *)
(***************************************************************************)
EXTENDS Baselines, JoinTreeProofs

-----------------------------------------------------------------------------
(* The tree of ParYan is that of the module it is instantiated in. *)

LEMMA ParYanTree ==
  /\ P!Node = Node /\ P!NonRoot = NonRoot /\ P!Depth = Depth /\ P!MaxDepth = MaxDepth
  /\ \A u : P!ChildSet(u) = ChildSet(u) /\ P!IsLeaf(u) = IsLeaf(u) /\ P!children(u) = children(u)
  /\ \A d : P!Level(d) = Level(d)
  /\ \A c, r, s : P!Joins(c, r, s) = Joins(c, r, s)
  /\ \A c, r : P!Contribution(c, r) = Contribution(c, r)
<1>1. P!Node = Node
  BY DEF P!Node, Node
<1>2. P!NonRoot = NonRoot
  BY <1>1 DEF P!NonRoot, NonRoot
<1>3. P!Depth = Depth
  BY DEF P!Depth, Depth, P!Node, Node
<1>4. P!MaxDepth = MaxDepth
  BY <1>1, <1>3 DEF P!MaxDepth, MaxDepth, P!Max, Max
<1>5. \A u : P!ChildSet(u) = ChildSet(u)
  BY <1>1 DEF P!ChildSet, ChildSet
<1>6. \A u : P!IsLeaf(u) = IsLeaf(u)
  BY <1>5 DEF P!IsLeaf, IsLeaf
<1>7. ASSUME NEW s PROVE P!Cardinality(s) = Cardinality(s)
  BY Zenon DEF P!Cardinality, Cardinality
<1>8. \A u : P!children(u) = children(u)
  <2> TAKE u
  <2>1. P!ChildSet(u) = ChildSet(u)
    BY <1>5
  <2>2. P!Cardinality(ChildSet(u)) = Cardinality(ChildSet(u))
    BY <1>7
  <2> QED BY <2>1, <2>2, Zenon DEF P!children, children
<1>9. \A d : P!Level(d) = Level(d)
  BY <1>1, <1>3 DEF P!Level, Level
<1>10. \A c, r, s : P!Joins(c, r, s) = Joins(c, r, s)
  BY DEF P!Joins, Joins
<1>11. \A c, r : P!Contribution(c, r) = Contribution(c, r)
  BY <1>6, Zenon DEF P!Contribution, Contribution, P!Back, Back, P!Last, Last
<1> QED BY <1>1, <1>2, <1>3, <1>4, <1>5, <1>6, <1>8, <1>9, <1>10, <1>11

LEMMA ParYanOperators ==
  /\ \A n : P!Zeros(n) = Zeros(n)
  /\ \A v : P!isBottom(v) = isBottom(v)
  /\ \A s : P!Cardinality(s) = Cardinality(s)
  /\ \A rows : P!BagOfRows(rows) = BagOfRows(rows)
  /\ \A s : P!Max(s) = Max(s)
  /\ \A S : P!BagCardinality(S) = BagCardinality(S)
  /\ P!EmptyBag = EmptyBag
  /\ P!BfsOrder = BfsOrder
  /\ \A r, st, w : P!Ordered(r, st, w) = Ordered(r, st, w)
<1>1. \A n : P!Zeros(n) = Zeros(n)
  BY DEF P!Zeros, Zeros
<1>2. \A v : P!isBottom(v) = isBottom(v)
  BY DEF P!isBottom, isBottom
<1>3. \A s : P!Cardinality(s) = Cardinality(s)
  BY Zenon DEF P!Cardinality, Cardinality
<1>4. \A rows : P!BagOfRows(rows) = BagOfRows(rows)
  BY <1>3, Zenon DEF P!BagOfRows, BagOfRows
<1>5. \A s : P!Max(s) = Max(s)
  BY DEF P!Max, Max
<1>6. ASSUME NEW S PROVE P!BagCardinality(S) = BagCardinality(S)
  BY DEF P!BagCardinality, BagCardinality
<1>7. P!EmptyBag = EmptyBag
  BY DEF P!EmptyBag, EmptyBag, P!SetToBag, SetToBag
<1>8. ASSUME NEW s PROVE P!FlattenSeq(s) = FlattenSeq(s)
  BY Zenon DEF P!FlattenSeq, FlattenSeq
<1>9. P!buildLevels = buildLevels
  BY ParYanTree, <1>8, Zenon DEF P!buildLevels, buildLevels
<1>10. P!BfsOrder = BfsOrder
  BY ParYanTree, <1>8, <1>9, Zenon DEF P!BfsOrder, BfsOrder
<1>11. \A r, st, w : P!Ordered(r, st, w) = Ordered(r, st, w)
  BY <1>8, Zenon DEF P!Ordered, Ordered
<1> QED BY <1>1, <1>2, <1>3, <1>4, <1>5, <1>6, <1>7, <1>10, <1>11

(* The bags of two-way joins are made by the same operators. *)
LEMMA ParYanTwoWay ==
  ASSUME NEW R, NEW a, NEW T, NEW b, NEW n, NEW w
  PROVE  P!TwoWay(R, a, T, b, n, w) =
           LET joined == PairsOn(Restricted(R, LAMBDA r : r[a] # 0), a, T, b)
               missing == n - BagCardinality(joined)
           IN  IF missing > 0 THEN joined (+) Copies(Zeros(w), missing) ELSE joined
<1>1. P!Restricted(R, LAMBDA r : r[a] # 0) = Restricted(R, LAMBDA r : r[a] # 0)
  BY DEF P!Restricted, Restricted
<1>2. \A X : P!PairsOn(X, a, T, b) = PairsOn(X, a, T, b)
  BY Zenon DEF P!PairsOn, PairsOn, P!ImageBag, ImageBag, P!MapThenSumSet, MapThenSumSet, P!MapThenFoldSet, MapThenFoldSet
<1>3. \A X, Y : P!(+)(X, Y) = X (+) Y
  BY Zenon DEF P!(+), (+)
<1>4. \A r, k : P!Copies(r, k) = Copies(r, k)
  BY DEF P!Copies, Copies
<1> QED BY <1>1, <1>2, <1>3, <1>4, ParYanOperators DEF P!TwoWay

-----------------------------------------------------------------------------
(* The steps of ParYan, in terms of this module. *)

ChildCount(p) == Cardinality(ChildSet(p))

NextOf(p) == children(p)[pc[p] + 1]

ValuesProduct(values, p, i) == FoldSet(LAMBDA c, acc : values[c][i] * acc, 1, ChildSet(p))

InnerAt(p, d) == p \in Node /\ ~IsLeaf(p) /\ Depth[p] = d

LEMMA ChildCounts ==
  \A p : /\ ChildCount(p) \in Nat /\ Len(children(p)) = ChildCount(p)
         /\ ChildCount(p) = 0 <=> IsLeaf(p)
<1> TAKE p
<1>1. IsFiniteSet(ChildSet(p)) /\ ChildCount(p) \in Nat
  <2>1. ChildSet(p) \subseteq Node
    BY DEF ChildSet
  <2> QED BY <2>1, NodesFinite DEF ChildCount
<1>2. DOMAIN children(p) = 1 .. ChildCount(p) /\ children(p) \in [DOMAIN children(p) -> ChildSet(p)]
  BY ChildrenEnumerate DEF ChildCount
<1>3. Len(children(p)) = ChildCount(p)
  <2>1. PICK n \in Nat : n = ChildCount(p)
    BY <1>1
  <2>2. PICK s : s = children(p)
    OBVIOUS
  <2>3. s = [i \in 1 .. n |-> s[i]]
    BY <1>2, <2>1, <2>2
  <2> QED BY <2>1, <2>2, <2>3, LenOf
<1>4. ChildCount(p) = 0 <=> IsLeaf(p)
  BY <1>1, FS_EmptySet DEF ChildCount, IsLeaf
<1> QED BY <1>1, <1>3, <1>4

LEMMA ParYanInner ==
  /\ \A p : P!Degree(p) = ChildCount(p) /\ P!NextChild(p) = NextOf(p)
  /\ \A d, p : p \in P!Internal(d) <=> InnerAt(p, d)
<1>1. \A p : P!Degree(p) = ChildCount(p)
  <2>1. ASSUME NEW s PROVE P!Len(s) = Len(s)
    OBVIOUS
  <2> QED BY ParYanTree, ChildCounts DEF P!Degree
<1>2. \A p : P!NextChild(p) = NextOf(p)
  BY ParYanTree DEF P!NextChild, NextOf
<1>3. \A d, p : p \in P!Internal(d) <=> InnerAt(p, d)
  BY ParYanTree DEF P!Internal, InnerAt, Level
<1> QED BY <1>1, <1>2, <1>3

UpPartners(p, c, i) == {j \in DOMAIN tables[c] : Joins(c, tables[p][i], tables[c][j])}

LEMMA UpSemiJoinIs ==
  ASSUME NEW p, P!UpSemiJoin(p)
  PROVE  /\ stage = "up" /\ InnerAt(p, level) /\ pc[p] < ChildCount(p)
         /\ vals' = [vals EXCEPT ![NextOf(p)] =
                       [i \in DOMAIN tables[p] |->
                          SumAt(NextOf(p), tables[NextOf(p)], UpPartners(p, NextOf(p), i))]]
         /\ pc' = [pc EXCEPT ![p] = @ + 1]
         /\ UNCHANGED <<input, target, stage, tables, level, outSize, partial, cols, offset, result>>
<1>1. ASSUME NEW c, NEW i PROVE P!UpValue(p, c, i) = SumAt(c, tables[c], UpPartners(p, c, i))
  BY ParYanTree, Zenon DEF P!UpValue, SumAt, UpPartners, P!MapThenSumSet, MapThenSumSet,
                           P!MapThenFoldSet, MapThenFoldSet
<1>2. /\ stage = "up" /\ InnerAt(p, level) /\ pc[p] < ChildCount(p)
      /\ pc' = [pc EXCEPT ![p] = @ + 1]
      /\ UNCHANGED <<input, target, stage, tables, level, outSize, partial, cols, offset, result>>
  BY ParYanInner DEF P!UpSemiJoin, P!Step
<1>3. vals' = [vals EXCEPT ![NextOf(p)] = [i \in DOMAIN tables[p] |-> P!UpValue(p, NextOf(p), i)]]
  BY ParYanInner DEF P!UpSemiJoin
<1> QED BY <1>1, <1>2, <1>3, Zenon

LEMMA UpMultiplyIs ==
  ASSUME NEW p, P!UpMultiply(p)
  PROVE  /\ stage = "up" /\ InnerAt(p, level) /\ pc[p] = ChildCount(p)
         /\ tables' = [tables EXCEPT ![p] =
                         [i \in DOMAIN tables[p] |->
                            [keys |-> tables[p][i].keys, delta |-> ValuesProduct(vals, p, i)]]]
         /\ pc' = [pc EXCEPT ![p] = @ + 1]
         /\ UNCHANGED <<input, target, stage, level, vals, outSize, partial, cols, offset, result>>
<1>1. ASSUME NEW i
      PROVE  P!FoldSet(LAMBDA c, acc : vals[c][i] * acc, 1, P!ChildSet(p)) = ValuesProduct(vals, p, i)
  BY ParYanTree, Zenon DEF ValuesProduct, P!FoldSet, FoldSet, P!MapThenFoldSet, MapThenFoldSet
<1>2. /\ stage = "up" /\ InnerAt(p, level) /\ pc[p] = ChildCount(p)
      /\ pc' = [pc EXCEPT ![p] = @ + 1]
      /\ UNCHANGED <<input, target, stage, level, vals, outSize, partial, cols, offset, result>>
  BY ParYanInner DEF P!UpMultiply, P!Step
<1>3. tables' = [tables EXCEPT ![p] =
        [i \in DOMAIN tables[p] |->
           [keys |-> tables[p][i].keys,
           delta |-> P!FoldSet(LAMBDA c, acc : vals[c][i] * acc, 1, P!ChildSet(p))]]]
  BY DEF P!UpMultiply
<1> QED BY <1>1, <1>2, <1>3, Zenon

AllInner(d, n(_)) == \A p : InnerAt(p, d) => pc[p] = n(p)

LEMMA EndUpLevelIs ==
  ASSUME P!EndUpLevel
  PROVE  /\ stage = "up" /\ AllInner(level, LAMBDA p : ChildCount(p) + 1)
         /\ IF level > 0 THEN level' = level - 1 /\ stage' = "up"
                         ELSE level' = 0 /\ stage' = "materialize"
         /\ UNCHANGED <<input, target, tables, pc, vals, outSize, partial, cols, offset, result>>
BY ParYanInner DEF P!EndUpLevel, P!Barrier, AllInner

MaterializedRow(u, r) ==
  IF IsLeaf(u) THEN r
  ELSE IF r.delta = 0 THEN [keys |-> Zeros(tableKeys[u])] ELSE [keys |-> r.keys]

RootTotal ==
  IF IsLeaf(Root) THEN 0 ELSE MapThenSumSet(LAMBDA i : tables[Root][i].delta, DOMAIN tables[Root])

LEMMA MaterializeIs ==
  ASSUME P!Materialize
  PROVE  /\ stage = "materialize"
         /\ outSize' = Max({target, RootTotal, 1})
         /\ tables' = [u \in Node |-> [i \in DOMAIN tables[u] |-> MaterializedRow(u, tables[u][i])]]
         /\ stage' = "down"
         /\ pc' = [u \in Node |-> 0]
         /\ UNCHANGED <<input, target, level, vals, partial, cols, offset, result>>
<1>1. P!TotalDelta = RootTotal
  <2>1. P!MapThenSumSet(LAMBDA i : tables[Root][i].delta, DOMAIN tables[Root]) =
          MapThenSumSet(LAMBDA i : tables[Root][i].delta, DOMAIN tables[Root])
    BY Zenon DEF P!MapThenSumSet, MapThenSumSet, P!MapThenFoldSet, MapThenFoldSet
  <2> QED BY <2>1, ParYanTree DEF P!TotalDelta, RootTotal
<1>2. ASSUME NEW u, NEW r PROVE P!Materialized(u, r) = MaterializedRow(u, r)
  BY ParYanTree, ParYanOperators, Zenon DEF P!Materialized, MaterializedRow, P!Projected
<1>3. outSize' = Max({target, RootTotal, 1})
  BY <1>1, ParYanOperators DEF P!Materialize
<1>4. tables' = [u \in P!Node |-> [i \in DOMAIN tables[u] |-> P!Materialized(u, tables[u][i])]]
  BY Zenon DEF P!Materialize
<1>5. tables' = [u \in Node |-> [i \in DOMAIN tables[u] |-> MaterializedRow(u, tables[u][i])]]
  BY <1>2, <1>4, ParYanTree, Zenon
<1>6. /\ stage = "materialize" /\ stage' = "down"
      /\ pc' = [u \in Node |-> 0]
      /\ UNCHANGED <<input, target, level, vals, partial, cols, offset, result>>
  BY ParYanTree DEF P!Materialize, P!Restart
<1> QED BY <1>3, <1>5, <1>6

DownPartners(c, j) == {i \in DOMAIN tables[Parent[c]] : Joins(c, tables[Parent[c]][i], tables[c][j])}

LEMMA DownSemiJoinIs ==
  ASSUME NEW p, P!DownSemiJoin(p)
  PROVE  /\ stage = "down" /\ InnerAt(p, level) /\ pc[p] < ChildCount(p)
         /\ vals' = [vals EXCEPT ![NextOf(p)] =
                       [j \in DOMAIN tables[NextOf(p)] |-> Cardinality(DownPartners(NextOf(p), j))]]
         /\ pc' = [pc EXCEPT ![p] = @ + 1]
         /\ UNCHANGED <<input, target, stage, tables, level, outSize, partial, cols, offset, result>>
<1>1. ASSUME NEW c, NEW j PROVE P!DownValue(c, j) = Cardinality(DownPartners(c, j))
  BY ParYanTree, ParYanOperators, Zenon DEF P!DownValue, DownPartners
<1>2. /\ stage = "down" /\ InnerAt(p, level) /\ pc[p] < ChildCount(p)
      /\ pc' = [pc EXCEPT ![p] = @ + 1]
      /\ UNCHANGED <<input, target, stage, tables, level, outSize, partial, cols, offset, result>>
  BY ParYanInner DEF P!DownSemiJoin, P!Step
<1>3. vals' = [vals EXCEPT ![NextOf(p)] = [j \in DOMAIN tables[NextOf(p)] |-> P!DownValue(NextOf(p), j)]]
  BY ParYanInner DEF P!DownSemiJoin
<1> QED BY <1>1, <1>2, <1>3, Zenon

LEMMA DownFilterIs ==
  ASSUME NEW p, P!DownFilter(p)
  PROVE  /\ stage = "down" /\ InnerAt(p, level) /\ pc[p] = ChildCount(p)
         /\ tables' = [u \in Node |->
              IF u \in ChildSet(p)
              THEN [j \in DOMAIN tables[u] |->
                      IF vals[u][j] = 0 THEN [keys |-> Zeros(tableKeys[u])] ELSE tables[u][j]]
              ELSE tables[u]]
         /\ pc' = [pc EXCEPT ![p] = @ + 1]
         /\ UNCHANGED <<input, target, stage, level, vals, outSize, partial, cols, offset, result>>
<1>1. /\ stage = "down" /\ InnerAt(p, level) /\ pc[p] = ChildCount(p)
      /\ pc' = [pc EXCEPT ![p] = @ + 1]
      /\ UNCHANGED <<input, target, stage, level, vals, outSize, partial, cols, offset, result>>
  BY ParYanInner DEF P!DownFilter, P!Step
<1>2. tables' = [u \in Node |->
              IF u \in ChildSet(p)
              THEN [j \in DOMAIN tables[u] |->
                      IF vals[u][j] = 0 THEN [keys |-> Zeros(tableKeys[u])] ELSE tables[u][j]]
              ELSE tables[u]]
  BY ParYanTree, ParYanOperators, Zenon DEF P!DownFilter
<1> QED BY <1>1, <1>2

LEMMA EndDownLevelIs ==
  ASSUME P!EndDownLevel
  PROVE  /\ stage = "down" /\ AllInner(level, LAMBDA p : ChildCount(p) + 1)
         /\ IF level < MaxDepth
            THEN level' = level + 1 /\ stage' = "down" /\ UNCHANGED <<pc, partial>>
            ELSE /\ level' = MaxDepth /\ stage' = "join" /\ pc' = [u \in Node |-> 0]
                 /\ partial' = [u \in Node |-> BagOfRows(tables[u])]
         /\ UNCHANGED <<input, target, tables, vals, outSize, cols, offset, result>>
BY ParYanInner, ParYanTree, ParYanOperators DEF P!EndDownLevel, P!Barrier, P!Restart, AllInner

Matched(R, a, T, b) == PairsOn(Restricted(R, LAMBDA r : r[a] # 0), a, T, b)

Padded(joined, n, w) ==
  IF n - BagCardinality(joined) > 0 THEN joined (+) Copies(Zeros(w), n - BagCardinality(joined)) ELSE joined

EdgePairs(p, c) ==
  Matched(partial[p], offset[p][p] + ColInParent[c], partial[c], offset[c][c] + ColInChild[c])

LEMMA JoinChildIs ==
  ASSUME NEW p, P!JoinChild(p), NEW c, c = NextOf(p)
  PROVE  /\ stage = "join" /\ InnerAt(p, level) /\ pc[p] < ChildCount(p)
         /\ partial' = [partial EXCEPT ![p] = Padded(EdgePairs(p, c), outSize, cols[p] + cols[c]),
                                       ![c] = EmptyBag]
         /\ offset' = [offset EXCEPT ![p] =
              [v \in Node |-> IF offset[c][v] >= 0 THEN cols[p] + offset[c][v] ELSE offset[p][v]]]
         /\ cols' = [cols EXCEPT ![p] = cols[p] + cols[c], ![c] = 0]
         /\ pc' = [pc EXCEPT ![p] = @ + 1]
         /\ UNCHANGED <<input, target, stage, tables, level, vals, outSize, result>>
<1>1. /\ stage = "join" /\ InnerAt(p, level) /\ pc[p] < ChildCount(p)
      /\ pc' = [pc EXCEPT ![p] = @ + 1]
      /\ UNCHANGED <<input, target, stage, tables, level, vals, outSize, result>>
  BY ParYanInner DEF P!JoinChild, P!Step
<1>2. P!TwoWay(partial[p], offset[p][p] + ColInParent[c], partial[c], offset[c][c] + ColInChild[c],
               outSize, cols[p] + cols[c]) = Padded(EdgePairs(p, c), outSize, cols[p] + cols[c])
  BY ParYanTwoWay, Zenon DEF Padded, EdgePairs, Matched
<1>3. partial' = [partial EXCEPT ![p] = Padded(EdgePairs(p, c), outSize, cols[p] + cols[c]), ![c] = EmptyBag]
  BY <1>2, ParYanInner, ParYanOperators, Zenon DEF P!JoinChild
<1>4. offset' = [offset EXCEPT ![p] =
              [v \in Node |-> IF offset[c][v] >= 0 THEN cols[p] + offset[c][v] ELSE @[v]]]
  BY ParYanTree, ParYanInner, Zenon DEF P!JoinChild, P!ChildBase
<1>5. cols' = [cols EXCEPT ![p] = @ + cols[c], ![c] = 0]
  BY ParYanInner, Zenon DEF P!JoinChild
<1> QED BY <1>1, <1>3, <1>4, <1>5, Zenon

LEMMA EndJoinLevelIs ==
  ASSUME P!EndJoinLevel
  PROVE  /\ stage = "join" /\ AllInner(level, LAMBDA p : ChildCount(p))
         /\ IF level > 0 THEN level' = level - 1 /\ stage' = "join"
                         ELSE level' = 0 /\ stage' = "reorder"
         /\ UNCHANGED <<input, target, tables, pc, vals, outSize, partial, cols, offset, result>>
BY ParYanInner DEF P!EndJoinLevel, P!Barrier, AllInner

LEMMA ReorderIs ==
  ASSUME P!Reorder
  PROVE  /\ stage = "reorder" /\ stage' = "done"
         /\ result' = ImageBag(partial[Root], LAMBDA row : Ordered(row, offset[Root], BfsOrder))
         /\ UNCHANGED <<input, target, tables, level, pc, vals, outSize, partial, cols, offset>>
<1>1. P!ImageBag(partial[Root], LAMBDA row : Ordered(row, offset[Root], BfsOrder)) =
        ImageBag(partial[Root], LAMBDA row : Ordered(row, offset[Root], BfsOrder))
  BY Zenon DEF P!ImageBag, ImageBag, P!MapThenSumSet, MapThenSumSet, P!MapThenFoldSet, MapThenFoldSet
<1>2. P!ImageBag(partial[Root], LAMBDA row : P!Ordered(row, offset[Root], P!BfsOrder)) =
        P!ImageBag(partial[Root], LAMBDA row : Ordered(row, offset[Root], BfsOrder))
  BY ParYanOperators, Zenon DEF P!ImageBag
<1>3. /\ stage = "reorder" /\ stage' = "done"
      /\ result' = P!ImageBag(partial[Root], LAMBDA row : P!Ordered(row, offset[Root], P!BfsOrder))
      /\ UNCHANGED <<input, target, tables, level, pc, vals, outSize, partial, cols, offset>>
  BY Zenon DEF P!Reorder
<1> QED BY <1>1, <1>2, <1>3, Zenon

LEMMA ParYanSteps ==
  ASSUME P!Next
  PROVE  \/ \E p \in Node : \/ P!UpSemiJoin(p) \/ P!UpMultiply(p) \/ P!DownSemiJoin(p)
                            \/ P!DownFilter(p) \/ P!JoinChild(p)
         \/ P!EndUpLevel \/ P!Materialize \/ P!EndDownLevel \/ P!EndJoinLevel \/ P!Reorder
BY ParYanTree DEF P!Next

-----------------------------------------------------------------------------
(* Rows that occur in an answer, and answers put together from others. *)

RowUsed(db, u, i) == \E f \in Matches(db, Node) : f[u] = i

LEMMA RestrictMatch ==
  ASSUME NEW db, Database(db), NEW T, T \subseteq Node, NEW S, S \subseteq T, NEW f \in Matches(db, T)
  PROVE  [v \in S |-> f[v]] \in Matches(db, S)
<1> DEFINE g == [v \in S |-> f[v]]
<1>1. /\ \A u \in T : f[u] \in 1 .. Len(db[u])
      /\ \A u \in T : Parent[u] \in T => Joins(u, db[Parent[u]][f[Parent[u]]], db[u][f[u]])
  BY MatchesAre
<1>2. /\ g = [u \in S |-> g[u]]
      /\ \A u \in S : g[u] \in 1 .. Len(db[u])
      /\ \A u \in S : Parent[u] \in S => Joins(u, db[Parent[u]][g[Parent[u]]], db[u][g[u]])
  BY <1>1
<1>3. S \subseteq Node
  OBVIOUS
<1> QED BY <1>2, <1>3, MatchesAre

(* The part of an answer on S can be exchanged for another one that fits   *)
(* the rows around it.                                                     *)
LEMMA Exchange ==
  ASSUME NEW db, Database(db), NEW f \in Matches(db, Node), NEW S, S \subseteq Node,
         NEW g \in Matches(db, S),
         \A v \in S : v # Root /\ Parent[v] \notin S =>
           Joins(v, db[Parent[v]][f[Parent[v]]], db[v][g[v]]),
         \A v \in NonRoot : v \notin S /\ Parent[v] \in S =>
           Joins(v, db[Parent[v]][g[Parent[v]]], db[v][f[v]])
  PROVE  [v \in Node |-> IF v \in S THEN g[v] ELSE f[v]] \in Matches(db, Node)
<1> DEFINE h == [v \in Node |-> IF v \in S THEN g[v] ELSE f[v]]
<1>1. /\ \A u \in Node : f[u] \in 1 .. Len(db[u])
      /\ \A u \in Node : Parent[u] \in Node => Joins(u, db[Parent[u]][f[Parent[u]]], db[u][f[u]])
  BY MatchesAre
<1>2. /\ \A u \in S : g[u] \in 1 .. Len(db[u])
      /\ \A u \in S : Parent[u] \in S => Joins(u, db[Parent[u]][g[Parent[u]]], db[u][g[u]])
  BY MatchesAre
<1>3. \A u \in Node : h[u] \in 1 .. Len(db[u])
  BY <1>1, <1>2
<1>4. ASSUME NEW u \in Node, Parent[u] \in Node
      PROVE  Joins(u, db[Parent[u]][h[Parent[u]]], db[u][h[u]])
  <2>1. u # Root /\ u \in NonRoot
    BY <1>4, TreeAssumption DEF NonRoot, NoParent, Node
  <2>2. CASE u \in S /\ Parent[u] \in S
    BY <2>2, <1>2, <1>4
  <2>3. CASE u \in S /\ Parent[u] \notin S
    BY <2>1, <2>3, <1>4
  <2>4. CASE u \notin S /\ Parent[u] \in S
    BY <2>1, <2>4, <1>4
  <2>5. CASE u \notin S /\ Parent[u] \notin S
    BY <2>5, <1>1, <1>4
  <2> QED BY <2>2, <2>3, <2>4, <2>5
<1>5. h = [u \in Node |-> h[u]] /\ Node \subseteq Node
  OBVIOUS
<1>6. h \in Matches(db, Node)
  <2> HIDE DEF h
  <2> QED BY <1>3, <1>4, <1>5, MatchesAre
<1> QED BY <1>6

LEMMA CountedMeans ==
  ASSUME NEW db, Database(db), NEW u \in Node, NEW i
  PROVE  /\ SubtreeCount(db, u, i) \in Nat
         /\ SubtreeCount(db, u, i) # 0 <=> \E f \in Matches(db, Subtree[u]) : f[u] = i
<1> DEFINE A == {f \in Matches(db, Subtree[u]) : f[u] = i}
<1>1. IsFiniteSet(A)
  BY UsingFinite DEF Using
<1>2. Cardinality(A) \in Nat /\ (Cardinality(A) = 0 <=> A = {})
  BY <1>1, FS_CardinalityType, FS_EmptySet
<1>3. SubtreeCount(db, u, i) = Cardinality(A)
  BY DEF SubtreeCount
<1> QED BY <1>2, <1>3

(* A row of the root is used if there is an answer below it; any other row *)
(* also needs a used row of its parent.                                    *)
LEMMA RootUsed ==
  ASSUME NEW db, Database(db), NEW i
  PROVE  RowUsed(db, Root, i) <=> SubtreeCount(db, Root, i) # 0
BY CountedMeans, RootSubtree, TreeAssumption DEF RowUsed

LEMMA UsedBelow ==
  ASSUME NEW db, Database(db), NEW u \in Node, NEW i, RowUsed(db, u, i)
  PROVE  SubtreeCount(db, u, i) # 0 /\ i \in 1 .. Len(db[u])
<1>1. PICK f \in Matches(db, Node) : f[u] = i
  BY DEF RowUsed
<1>2. Subtree[u] \subseteq Node /\ u \in Subtree[u] /\ Node \subseteq Node
  BY SubtreeFacts
<1>3. [v \in Subtree[u] |-> f[v]] \in Matches(db, Subtree[u])
  BY <1>2, RestrictMatch
<1>4. [v \in Subtree[u] |-> f[v]][u] = i
  BY <1>1, <1>2
<1>5. i \in 1 .. Len(db[u])
  BY <1>1, <1>2, MatchesAre
<1> QED BY <1>3, <1>4, <1>5, CountedMeans

LEMMA ChildUsed ==
  ASSUME NEW db, Database(db), NEW c \in NonRoot, NEW j
  PROVE  RowUsed(db, c, j) <=>
           /\ SubtreeCount(db, c, j) # 0
           /\ \E i : RowUsed(db, Parent[c], i) /\ Joins(c, db[Parent[c]][i], db[c][j])
<1>1. c \in Node /\ Parent[c] \in Node /\ Node \subseteq Node
  BY ParentFacts
<1>2. ASSUME RowUsed(db, c, j)
      PROVE  /\ SubtreeCount(db, c, j) # 0
             /\ \E i : RowUsed(db, Parent[c], i) /\ Joins(c, db[Parent[c]][i], db[c][j])
  <2>1. PICK f \in Matches(db, Node) : f[c] = j
    BY <1>2 DEF RowUsed
  <2>2. Joins(c, db[Parent[c]][f[Parent[c]]], db[c][j])
    BY <1>1, <2>1, MatchesAre
  <2>3. RowUsed(db, Parent[c], f[Parent[c]])
    BY DEF RowUsed
  <2> QED BY <1>1, <1>2, <2>2, <2>3, UsedBelow
<1>3. ASSUME SubtreeCount(db, c, j) # 0, NEW i, RowUsed(db, Parent[c], i),
             Joins(c, db[Parent[c]][i], db[c][j])
      PROVE  RowUsed(db, c, j)
  <2>1. PICK g \in Matches(db, Subtree[c]) : g[c] = j
    BY <1>1, <1>3, CountedMeans
  <2>2. PICK f \in Matches(db, Node) : f[Parent[c]] = i
    BY <1>3 DEF RowUsed
  <2> DEFINE S == Subtree[c]
             h == [v \in Node |-> IF v \in S THEN g[v] ELSE f[v]]
  <2>3. S \subseteq Node /\ c \in S /\ \A v \in S : v # c => Parent[v] \in S
    BY <1>1, SubtreeFacts
  <2>4. \A v \in S : ChildSet(v) \subseteq S
    BY <1>1, SubtreeFacts
  <2>5. \A v \in S : v # Root /\ Parent[v] \notin S =>
          Joins(v, db[Parent[v]][f[Parent[v]]], db[v][g[v]])
    BY <2>1, <2>2, <2>3, <1>3
  <2>6. \A v \in NonRoot : v \notin S => Parent[v] \notin S
    BY <2>4, ParentFacts
  <2>7. h \in Matches(db, Node)
    <3> HIDE DEF S
    <3> QED BY <2>3, <2>5, <2>6, Exchange, <2>1 DEF S
  <2>8. h[c] = j
    BY <1>1, <2>1, <2>3
  <2> HIDE DEF h
  <2> QED BY <2>7, <2>8 DEF RowUsed
<1> QED BY <1>2, <1>3

-----------------------------------------------------------------------------
(* The tables that the baselines are called with. *)
IsInput(db) ==
  /\ DOMAIN db = Node
  /\ \A u \in Node :
       /\ db[u] \in Seq([keys : Seq(Int)])
       /\ \A i \in 1 .. Len(db[u]) : /\ Len(db[u][i].keys) = tableKeys[u]
                                   /\ DummyValue \notin ToSet(db[u][i].keys)

LEMMA InputsAre == \A db \in Inputs : IsInput(db)
BY InputAssumption DEF IsInput

LEMMA InputTable ==
  ASSUME NEW db, IsInput(db), NEW u \in Node
  PROVE  /\ Len(db[u]) \in Nat /\ DOMAIN db[u] = 1 .. Len(db[u])
         /\ db[u] = [i \in 1 .. Len(db[u]) |-> db[u][i]]
         /\ \A i \in 1 .. Len(db[u]) : db[u][i] \in [keys : Seq(Int)]
<1>0. PICK T : T = [keys : Seq(Int)]
  OBVIOUS
<1>1. db[u] \in Seq(T)
  BY <1>0 DEF IsInput
<1>2. PICK s \in Seq(T) : s = db[u]
  BY <1>1
<1>3. /\ Len(s) \in Nat /\ DOMAIN s = 1 .. Len(s)
      /\ \A i \in 1 .. Len(s) : s[i] \in T
  OBVIOUS
<1>4. s = [i \in 1 .. Len(s) |-> s[i]]
  OBVIOUS
<1> QED BY <1>0, <1>2, <1>3, <1>4

LEMMA InputRow ==
  ASSUME NEW db, IsInput(db), NEW u \in Node, NEW i \in 1 .. Len(db[u])
  PROVE  /\ db[u][i].keys \in Seq(Int) /\ DOMAIN db[u][i] = {"keys"}
         /\ db[u][i] = [keys |-> db[u][i].keys]
<1>1. db[u][i] \in [keys : Seq(Int)]
  BY InputTable
<1>2. db[u][i].keys \in Seq(Int) /\ DOMAIN db[u][i] = {"keys"} /\ db[u][i] = [keys |-> db[u][i].keys]
  BY <1>1
<1> QED BY <1>2

LEMMA InputWidth ==
  ASSUME NEW db, IsInput(db), NEW u \in Node, NEW i \in 1 .. Len(db[u])
  PROVE  DOMAIN db[u][i].keys = 1 .. tableKeys[u]
<1>1. db[u][i] \in [keys : Seq(Int)]
  BY InputTable
<1>2. db[u][i].keys \in Seq(Int)
  BY <1>1
<1>3. Len(db[u][i].keys) = tableKeys[u]
  BY DEF IsInput
<1> QED BY <1>2, <1>3

LEMMA InputIsDatabase ==
  ASSUME NEW db, IsInput(db)
  PROVE  /\ Database(db)
         /\ \A u \in Node : /\ DOMAIN db[u] = 1 .. Len(db[u])
                            /\ db[u] = [i \in 1 .. Len(db[u]) |-> db[u][i]]
BY InputTable DEF Database

-----------------------------------------------------------------------------
(* What is called, and which row of ParYan's loops has come how far. *)

Called == input \in Inputs /\ target \in Nat

UpStages == {"up", "materialize"}

ParControl ==
  /\ stage \in {"up", "materialize", "down", "join", "reorder", "done"}
  /\ level \in 0 .. MaxDepth
  /\ pc \in [Node -> Nat]
  /\ stage = "materialize" => level = 0
  /\ \A u \in Node : IsLeaf(u) => pc[u] = 0
  /\ \A u \in Node : ~IsLeaf(u) =>
       /\ stage \in UpStages => /\ pc[u] <= ChildCount(u) + 1
                                /\ Depth[u] > level => pc[u] = ChildCount(u) + 1
                                /\ Depth[u] < level => pc[u] = 0
       /\ stage = "materialize" => pc[u] = ChildCount(u) + 1
       /\ stage = "down" => /\ pc[u] <= ChildCount(u) + 1
                            /\ Depth[u] < level => pc[u] = ChildCount(u) + 1
                            /\ Depth[u] > level => pc[u] = 0
       /\ stage = "join" => /\ pc[u] <= ChildCount(u)
                            /\ Depth[u] > level => pc[u] = ChildCount(u)
                            /\ Depth[u] < level => pc[u] = 0
       /\ stage \in {"reorder", "done"} => pc[u] = ChildCount(u)

LEMMA MaxOf ==
  ASSUME NEW a \in Nat, NEW b \in Nat, NEW c \in Nat
  PROVE  LET m == Max({a, b, c}) IN m \in Nat /\ a <= m /\ b <= m /\ c <= m
<1>1. \E x \in {a, b, c} : \A y \in {a, b, c} : x >= y
  OBVIOUS
<1>2. /\ Max({a, b, c}) \in {a, b, c}
      /\ \A y \in {a, b, c} : Max({a, b, c}) >= y
  BY <1>1 DEF Max
<1> QED BY <1>2

LEMMA CalledInit == ASSUME Init PROVE Called
<1>1. input \in Inputs
  BY DEF Init
<1>2. PICK tau \in Taus : target = materializedOutSize(input, tau)
  BY DEF Init
<1>3. tau \in Nat
  BY InputAssumption
<1>4. JoinSize(input) \in Nat
  <2>1. Database(input)
    BY <1>1, InputsAre, InputIsDatabase
  <2>2. IsFiniteSet(Matches(input, Node))
    BY <2>1, MatchesFinite
  <2> QED BY <2>2, FS_CardinalityType DEF JoinSize
<1>5. Max({1, JoinSize(input)}) \in Nat
  <2>1. PICK n \in Nat : n = JoinSize(input)
    BY <1>4
  <2>2. {1, 1, n} = {1, n}
    OBVIOUS
  <2>3. Max({1, 1, n}) \in Nat
    BY MaxOf
  <2> QED BY <2>1, <2>2, <2>3
<1>6. target = tau \/ target = Max({1, JoinSize(input)})
  BY <1>2 DEF materializedOutSize
<1> QED BY <1>1, <1>3, <1>5, <1>6 DEF Called

LEMMA ParControlInit ==
  ASSUME P!Init
  PROVE  ParControl
<1>1. /\ stage = "up" /\ level = MaxDepth /\ pc = [u \in Node |-> 0]
  BY ParYanTree DEF P!Init
<1>2. MaxDepth \in Nat /\ MaxDepth \in 0 .. MaxDepth
  BY MaxDepthBound, TreeAssumption
<1>3. \A u \in Node : Depth[u] \in Nat /\ ~(Depth[u] > MaxDepth)
  BY MaxDepthBound, DepthType, <1>2
<1>4. pc \in [Node -> Nat]
  BY <1>1
<1>5. \A u \in Node : ChildCount(u) \in Nat /\ pc[u] = 0
  BY <1>1, ChildCounts
<1> QED BY <1>1, <1>2, <1>3, <1>4, <1>5 DEF ParControl, UpStages

(* A step of one node. *)
LEMMA NodeStep ==
  ASSUME ParControl, NEW p, InnerAt(p, level), pc' = [pc EXCEPT ![p] = @ + 1],
         stage' = stage, level' = level, stage \in {"up", "down", "join"},
         pc[p] < ChildCount(p) + (IF stage = "join" THEN 0 ELSE 1)
  PROVE  ParControl'
<1>1. p \in Node /\ ~IsLeaf(p) /\ Depth[p] = level
  BY DEF InnerAt
<1>2. pc' \in [Node -> Nat] /\ pc'[p] = pc[p] + 1 /\ \A u \in Node : u # p => pc'[u] = pc[u]
  BY <1>1 DEF ParControl
<1>3. MaxDepth \in Nat
  BY MaxDepthBound, TreeAssumption
<1>4. \A u \in Node : Depth[u] \in Nat /\ ChildCount(u) \in Nat /\ pc[u] \in Nat
  BY DepthType, ChildCounts DEF ParControl
<1>5. ASSUME NEW u \in Node, u # p
      PROVE  /\ IsLeaf(u) => pc'[u] = 0
             /\ ~IsLeaf(u) =>
                 /\ stage' \in UpStages =>
                      /\ pc'[u] <= ChildCount(u) + 1
                      /\ Depth[u] > level' => pc'[u] = ChildCount(u) + 1
                      /\ Depth[u] < level' => pc'[u] = 0
                 /\ stage' = "materialize" => pc'[u] = ChildCount(u) + 1
                 /\ stage' = "down" =>
                      /\ pc'[u] <= ChildCount(u) + 1
                      /\ Depth[u] < level' => pc'[u] = ChildCount(u) + 1
                      /\ Depth[u] > level' => pc'[u] = 0
                 /\ stage' = "join" =>
                      /\ pc'[u] <= ChildCount(u)
                      /\ Depth[u] > level' => pc'[u] = ChildCount(u)
                      /\ Depth[u] < level' => pc'[u] = 0
                 /\ stage' \in {"reorder", "done"} => pc'[u] = ChildCount(u)
  BY <1>2, <1>5, Zenon DEF ParControl
<1>6. /\ level \in Nat /\ stage # "materialize" /\ stage \notin {"reorder", "done"}
      /\ ~(Depth[p] > level) /\ ~(Depth[p] < level)
      /\ stage # "join" => pc'[p] <= ChildCount(p) + 1
      /\ stage = "join" => pc'[p] <= ChildCount(p)
  BY <1>1, <1>2, <1>3, <1>4 DEF ParControl
<1>7. /\ stage' \in {"up", "materialize", "down", "join", "reorder", "done"}
      /\ level' \in 0 .. MaxDepth
      /\ stage' = "materialize" => level' = 0
  BY DEF ParControl
<1> QED BY <1>1, <1>2, <1>5, <1>6, <1>7 DEF ParControl, UpStages

(* A barrier, and the whole control. *)
LEMMA ParControlStep ==
  ASSUME ParControl, P!Next
  PROVE  ParControl'
<1>0. /\ MaxDepth \in Nat /\ \A u \in Node : /\ Depth[u] \in Nat /\ ChildCount(u) \in Nat
                                            /\ pc[u] \in Nat /\ Depth[u] <= MaxDepth
      /\ level \in Nat /\ level <= MaxDepth
  BY DepthType, ChildCounts, MaxDepthBound, TreeAssumption DEF ParControl
<1>1. ASSUME NEW p \in Node, P!UpSemiJoin(p) PROVE ParControl'
  BY <1>1, UpSemiJoinIs, NodeStep, <1>0, SMTT(30)
<1>2. ASSUME NEW p \in Node, P!UpMultiply(p) PROVE ParControl'
  BY <1>2, UpMultiplyIs, NodeStep, <1>0, SMTT(30)
<1>3. ASSUME NEW p \in Node, P!DownSemiJoin(p) PROVE ParControl'
  BY <1>3, DownSemiJoinIs, NodeStep, <1>0, SMTT(30)
<1>4. ASSUME NEW p \in Node, P!DownFilter(p) PROVE ParControl'
  BY <1>4, DownFilterIs, NodeStep, <1>0, SMTT(30)
<1>5. ASSUME NEW p \in Node, P!JoinChild(p) PROVE ParControl'
  <2>1. /\ stage = "join" /\ InnerAt(p, level) /\ pc[p] < ChildCount(p)
        /\ pc' = [pc EXCEPT ![p] = @ + 1] /\ stage' = stage /\ level' = level
    BY <1>5, JoinChildIs
  <2>2. /\ pc[p] < ChildCount(p) + (IF stage = "join" THEN 0 ELSE 1)
        /\ stage \in {"up", "down", "join"}
    BY <2>1, <1>0
  <2> QED BY <2>1, <2>2, NodeStep
<1>6. CASE P!EndUpLevel
  <2>1. /\ stage = "up" /\ pc' = pc
        /\ \A u \in Node : ~IsLeaf(u) /\ Depth[u] = level => pc[u] = ChildCount(u) + 1
        /\ IF level > 0 THEN level' = level - 1 /\ stage' = "up"
                        ELSE level' = 0 /\ stage' = "materialize"
    BY <1>6, EndUpLevelIs DEF AllInner, InnerAt
  <2>2. CASE level > 0
    BY <2>1, <2>2, <1>0 DEF ParControl, UpStages
  <2>3. CASE ~(level > 0)
    BY <2>1, <2>3, <1>0 DEF ParControl, UpStages
  <2> QED BY <2>2, <2>3
<1>7. CASE P!Materialize
  <2>1. stage = "materialize" /\ stage' = "down" /\ level' = level /\ pc' = [u \in Node |-> 0]
    BY <1>7, MaterializeIs
  <2> QED BY <2>1, <1>0 DEF ParControl, UpStages
<1>8. CASE P!EndDownLevel
  <2>1. /\ stage = "down"
        /\ \A u \in Node : ~IsLeaf(u) /\ Depth[u] = level => pc[u] = ChildCount(u) + 1
        /\ IF level < MaxDepth
           THEN level' = level + 1 /\ stage' = "down" /\ pc' = pc
           ELSE level' = MaxDepth /\ stage' = "join" /\ pc' = [u \in Node |-> 0]
    BY <1>8, EndDownLevelIs DEF AllInner, InnerAt
  <2>2. CASE level < MaxDepth
    BY <2>1, <2>2, <1>0 DEF ParControl, UpStages
  <2>3. CASE ~(level < MaxDepth)
    BY <2>1, <2>3, <1>0 DEF ParControl, UpStages
  <2> QED BY <2>2, <2>3
<1>9. CASE P!EndJoinLevel
  <2>1. /\ stage = "join" /\ pc' = pc
        /\ \A u \in Node : ~IsLeaf(u) /\ Depth[u] = level => pc[u] = ChildCount(u)
        /\ IF level > 0 THEN level' = level - 1 /\ stage' = "join"
                        ELSE level' = 0 /\ stage' = "reorder"
    BY <1>9, EndJoinLevelIs DEF AllInner, InnerAt
  <2>2. CASE level > 0
    BY <2>1, <2>2, <1>0 DEF ParControl, UpStages
  <2>3. CASE ~(level > 0)
    BY <2>1, <2>3, <1>0 DEF ParControl, UpStages
  <2> QED BY <2>2, <2>3
<1>10. CASE P!Reorder
  <2>1. stage = "reorder" /\ stage' = "done" /\ pc' = pc /\ level' = level
    BY <1>10, ReorderIs
  <2> QED BY <2>1, <1>0 DEF ParControl, UpStages
<1> QED BY <1>1, <1>2, <1>3, <1>4, <1>5, <1>6, <1>7, <1>8, <1>9, <1>10, ParYanSteps

-----------------------------------------------------------------------------
(* Folds. *)

TotalOf(w, K) == MapThenSumSet(LAMBDA x : w[x], K)

LEMMA FunctionSum ==
  ASSUME NEW K, IsFiniteSet(K), NEW H, \A k \in K : IsFiniteSet(H[k]),
         \A k, l \in K : k # l => H[k] \cap H[l] = {},
         NEW w, \A k \in K : w[k] = Cardinality(H[k])
  PROVE  TotalOf(w, K) = Cardinality(Together(H, K)) /\ IsFiniteSet(Together(H, K))
<1> DEFINE sum == CHOOSE g : g = [s \in SUBSET K |-> IF s = {} THEN 0
                     ELSE w[CHOOSE x \in s : TRUE] + g[s \ {CHOOSE x \in s : TRUE}]]
<1>1. TotalOf(w, K) = sum[K]
  BY Zenon DEF TotalOf, MapThenSumSet, MapThenFoldSet
<1>2. /\ IsFiniteSet(Together(H, K))
      /\ \E it : SumOf(it, w, K)
      /\ \A it : SumOf(it, w, K) => it[K] = Cardinality(Together(H, K))
  BY SumIsUnion
<1>3. SumOf(sum, w, K)
  BY <1>2 DEF SumOf
<1> QED BY <1>1, <1>2, <1>3

LEMMA ProductOfEdges ==
  ASSUME NEW S, IsFiniteSet(S), NEW i, NEW values,
         NEW H, \A c \in S : IsFiniteSet(H[c]) /\ values[c][i] = Cardinality(H[c])
  PROVE  FoldSet(LAMBDA c, acc : values[c][i] * acc, 1, S) = Cardinality(Picks(H, S))
<1> DEFINE w == [c \in S |-> Cardinality(H[c])]
           G(g) == [s \in SUBSET S |-> IF s = {} THEN 1
                     ELSE values[CHOOSE x \in s : TRUE][i] * g[s \ {CHOOSE x \in s : TRUE}]]
           prod == CHOOSE g : g = G(g)
<1>1. FoldSet(LAMBDA c, acc : values[c][i] * acc, 1, S) = prod[S]
  BY Zenon DEF FoldSet, MapThenFoldSet
<1>2. \A c \in S : w[c] = Cardinality(H[c]) /\ w[c] = values[c][i] /\ w[c] \in Nat
  BY FS_CardinalityType
<1> HIDE DEF w
<1>3. /\ \E it : ProductOf(it, w, S)
      /\ \A it : ProductOf(it, w, S) => it[S] = Cardinality(Picks(H, S))
  BY <1>2, ProductIsChoices
<1>4. \A g : ProductOf(g, w, S) <=> g = G(g)
  <2>1. \A s \in SUBSET S : s # {} => values[CHOOSE x \in s : TRUE][i] = w[CHOOSE x \in s : TRUE]
    BY <1>2
  <2>2. \A g : G(g) = [s \in SUBSET S |-> IF s = {} THEN 1
                         ELSE w[CHOOSE x \in s : TRUE] * g[s \ {CHOOSE x \in s : TRUE}]]
    BY <2>1
  <2> HIDE DEF G
  <2> QED BY <2>2 DEF ProductOf
<1> HIDE DEF G
<1>5. prod = G(prod)
  BY <1>3, <1>4
<1> QED BY <1>1, <1>3, <1>4, <1>5

-----------------------------------------------------------------------------
(* ParYan's pass up the tree counts. *)

(* The tables keep their rows. *)
ParRows ==
  /\ DOMAIN tables = Node
  /\ \A u \in Node : tables[u] = [i \in 1 .. Len(input[u]) |-> tables[u][i]]

Updated(u) == ~IsLeaf(u) /\ pc[u] = ChildCount(u) + 1

IsCounted(u, i) ==
  /\ tables[u][i].keys = input[u][i].keys
  /\ "delta" \in DOMAIN tables[u][i]
  /\ tables[u][i].delta = SubtreeCount(input, u, i)

ParCounts ==
  stage \in UpStages =>
    \A u \in Node : IF Updated(u) THEN \A i \in 1 .. Len(input[u]) : IsCounted(u, i)
                                  ELSE tables[u] = input[u]

ParSums ==
  /\ DOMAIN vals = NonRoot
  /\ stage = "up" =>
       \A u \in Node : \A k \in 1 .. ChildCount(u) : k <= pc[u] =>
         \A i \in 1 .. Len(input[u]) :
           vals[children(u)[k]][i] = Cardinality(Below(input, children(u)[k], i))

LEMMA ChildrenAre ==
  ASSUME NEW p \in Node, NEW k \in 1 .. ChildCount(p)
  PROVE  /\ children(p)[k] \in Node /\ children(p)[k] \in NonRoot /\ children(p)[k] \in ChildSet(p)
         /\ Parent[children(p)[k]] = p
         /\ Depth[children(p)[k]] = Depth[p] + 1
         /\ \A l \in 1 .. ChildCount(p) : children(p)[l] = children(p)[k] => l = k
         /\ \A q \in Node : \A l \in 1 .. ChildCount(q) : children(q)[l] = children(p)[k] => q = p /\ l = k
<1>1. /\ DOMAIN children(p) = 1 .. ChildCount(p) /\ children(p)[k] \in ChildSet(p)
      /\ \A l \in 1 .. ChildCount(p) : children(p)[l] = children(p)[k] => l = k
  <2>1. /\ DOMAIN children(p) = 1 .. ChildCount(p)
        /\ children(p) \in [DOMAIN children(p) -> ChildSet(p)]
        /\ \A i, j \in DOMAIN children(p) : children(p)[i] = children(p)[j] => i = j
    BY ChildrenEnumerate DEF ChildCount
  <2> QED BY <2>1
<1>2. children(p)[k] \in NonRoot /\ Parent[children(p)[k]] = p
  BY <1>1, ChildFacts
<1>3. children(p)[k] \in Node /\ Depth[children(p)[k]] = Depth[p] + 1
  BY <1>2, ParentFacts, DepthType
<1>4. ASSUME NEW q \in Node, NEW l \in 1 .. ChildCount(q), children(q)[l] = children(p)[k]
      PROVE  q = p /\ l = k
  <2>1. children(q)[l] \in ChildSet(q)
    BY ChildrenEnumerate DEF ChildCount
  <2>2. Parent[children(q)[l]] = q
    BY <2>1, ChildFacts
  <2>3. q = p
    BY <2>2, <1>2, <1>4
  <2> QED BY <2>3, <1>1, <1>4
<1> QED BY <1>1, <1>2, <1>3, <1>4

LEMMA EveryChild ==
  ASSUME NEW c \in NonRoot
  PROVE  \E k \in 1 .. ChildCount(Parent[c]) : children(Parent[c])[k] = c
BY ParentFacts, ChildrenEnumerate DEF ChildCount

LEMMA ParUpInit ==
  ASSUME P!Init, Called
  PROVE  ParRows /\ ParCounts /\ ParSums
<1>1. IsInput(input)
  BY InputsAre DEF Called
<1>2. /\ tables = input /\ pc = [u \in Node |-> 0] /\ vals = [c \in NonRoot |-> <<>>]
  BY ParYanTree DEF P!Init
<1>3. ParRows
  BY <1>1, <1>2, InputIsDatabase DEF ParRows, IsInput
<1>4. \A u \in Node : ChildCount(u) \in Nat /\ ~Updated(u)
  BY <1>2, ChildCounts DEF Updated
<1>5. ParCounts
  BY <1>2, <1>4 DEF ParCounts
<1>6. ParSums
  BY <1>2, ChildCounts DEF ParSums
<1> QED BY <1>3, <1>5, <1>6

(* What a semi-join finds: unread tables of parents, counted tables below. *)
LEMMA SumOfEdge ==
  ASSUME Called, ParControl, ParRows, ParCounts, stage = "up", NEW p, InnerAt(p, level),
         pc[p] < ChildCount(p), NEW c, c = NextOf(p), NEW i \in 1 .. Len(input[p])
  PROVE  SumAt(c, tables[c], UpPartners(p, c, i)) = Cardinality(Below(input, c, i))
<1>1. p \in Node /\ ~IsLeaf(p) /\ Depth[p] = level /\ pc[p] \in Nat /\ ChildCount(p) \in Nat
  BY ChildCounts DEF InnerAt, ParControl
<1>2. PICK k \in 1 .. ChildCount(p) : k = pc[p] + 1
  BY <1>1
<1>3. c \in Node /\ c \in NonRoot /\ Parent[c] = p /\ Depth[c] = level + 1
  BY <1>1, <1>2, ChildrenAre DEF NextOf
<1>4. tables[p] = input[p]
  BY <1>1 DEF ParCounts, UpStages, Updated
<1>5. IsInput(input) /\ Database(input)
  BY InputsAre, InputIsDatabase DEF Called
<1>6. level \in Nat /\ Depth[c] > level
  BY <1>3, MaxDepthBound DEF ParControl
<1>7. DOMAIN tables[c] = 1 .. Len(input[c])
  BY <1>3 DEF ParRows
<1>8. ASSUME NEW j \in 1 .. Len(input[c])
      PROVE  /\ Joins(c, tables[p][i], tables[c][j]) <=> Joins(c, input[p][i], input[c][j])
             /\ Contribution(c, tables[c][j]) = SubtreeCount(input, c, j)
  <2>1. CASE IsLeaf(c)
    <3>1. tables[c] = input[c]
      BY <1>3, <2>1 DEF ParCounts, UpStages, Updated
    <3>2. SubtreeCount(input, c, j) = 1
      BY <1>3, <1>5, <2>1, LeafCount
    <3> QED BY <2>1, <3>1, <3>2, <1>4 DEF Contribution
  <2>2. CASE ~IsLeaf(c)
    <3>1. Updated(c)
      BY <1>3, <1>6, <2>2 DEF ParControl, UpStages, Updated
    <3>2. IsCounted(c, j)
      BY <1>3, <3>1 DEF ParCounts, UpStages
    <3> QED BY <2>2, <3>2, <1>4 DEF Contribution, Back, IsCounted, Joins
  <2> QED BY <2>1, <2>2
<1>9. UpPartners(p, c, i) = Partners(input, c, i)
  BY <1>3, <1>7, <1>8 DEF UpPartners, Partners
<1>10. \A j \in Partners(input, c, i) : Contribution(c, tables[c][j]) = SubtreeCount(input, c, j)
  BY <1>8 DEF Partners
<1> QED BY <1>3, <1>5, <1>9, <1>10, SumOfContributions

LEMMA UpSemiJoinCounts ==
  ASSUME Called, ParControl, ParRows, ParCounts, ParSums, NEW p \in Node, P!UpSemiJoin(p)
  PROVE  ParRows' /\ ParCounts' /\ ParSums'
<1> DEFINE c == NextOf(p)
<1>1. /\ stage = "up" /\ InnerAt(p, level) /\ pc[p] < ChildCount(p)
      /\ vals' = [vals EXCEPT ![c] =
                       [i \in DOMAIN tables[p] |-> SumAt(c, tables[c], UpPartners(p, c, i))]]
      /\ pc' = [pc EXCEPT ![p] = @ + 1]
      /\ tables' = tables /\ input' = input /\ stage' = stage
  BY UpSemiJoinIs
<1>2. pc[p] \in Nat /\ ChildCount(p) \in Nat /\ pc'[p] = pc[p] + 1 /\ \A u \in Node : u # p => pc'[u] = pc[u]
  BY <1>1, ChildCounts DEF ParControl
<1>3. PICK k \in 1 .. ChildCount(p) : k = pc[p] + 1
  BY <1>1, <1>2
<1>4. c = children(p)[k] /\ c \in NonRoot
  BY <1>3, ChildrenAre DEF NextOf
<1>5. ParRows'
  BY <1>1 DEF ParRows
<1>6. \A u \in Node : Updated(u)' <=> Updated(u)
  BY <1>1, <1>2 DEF Updated
<1>7. \A u, i : IsCounted(u, i)' <=> IsCounted(u, i)
  BY <1>1 DEF IsCounted
<1>8. ParCounts'
  BY <1>1, <1>6, <1>7 DEF ParCounts
<1>9. \A i \in 1 .. Len(input[p]) : SumAt(c, tables[c], UpPartners(p, c, i)) = Cardinality(Below(input, c, i))
  BY <1>1, SumOfEdge
<1>10. DOMAIN tables[p] = 1 .. Len(input[p])
  BY DEF ParRows
<1>11. /\ DOMAIN vals' = NonRoot
       /\ \A i \in 1 .. Len(input[p]) : vals'[c][i] = Cardinality(Below(input, c, i))
       /\ \A d \in NonRoot : d # c => vals'[d] = vals[d]
  <2>1. PICK v : v = [i \in DOMAIN tables[p] |-> SumAt(c, tables[c], UpPartners(p, c, i))]
    OBVIOUS
  <2>2. \A i \in 1 .. Len(input[p]) : v[i] = Cardinality(Below(input, c, i))
    BY <2>1, <1>9, <1>10, Zenon
  <2>3. vals' = [vals EXCEPT ![c] = v]
    BY <2>1, <1>1
  <2> HIDE DEF c
  <2> QED BY <2>2, <2>3, <1>4 DEF ParSums
<1>12. ASSUME NEW u \in Node, NEW l \in 1 .. ChildCount(u), l <= pc'[u], NEW i \in 1 .. Len(input[u])
       PROVE  vals'[children(u)[l]][i] = Cardinality(Below(input, children(u)[l], i))
  <2>1. children(u)[l] \in NonRoot /\ (children(u)[l] = c => u = p)
    BY <1>3, <1>4, ChildrenAre
  <2>2. CASE children(u)[l] = c
    BY <2>1, <2>2, <1>11
  <2>3. CASE children(u)[l] # c
    <3>1. u = p => l # k
      BY <1>4, <2>3
    <3>2. l <= pc[u]
      BY <3>1, <1>2, <1>3, <1>12
    <3> QED BY <2>1, <2>3, <3>2, <1>1, <1>11 DEF ParSums
  <2> QED BY <2>2, <2>3
<1>13. ParSums'
  BY <1>1, <1>11, <1>12 DEF ParSums
<1> QED BY <1>5, <1>8, <1>13

LEMMA UpMultiplyCounts ==
  ASSUME Called, ParControl, ParRows, ParCounts, ParSums, NEW p \in Node, P!UpMultiply(p)
  PROVE  ParRows' /\ ParCounts' /\ ParSums'
<1>1. /\ stage = "up" /\ InnerAt(p, level) /\ pc[p] = ChildCount(p)
      /\ tables' = [tables EXCEPT ![p] =
                         [i \in DOMAIN tables[p] |->
                            [keys |-> tables[p][i].keys, delta |-> ValuesProduct(vals, p, i)]]]
      /\ pc' = [pc EXCEPT ![p] = @ + 1]
      /\ vals' = vals /\ input' = input /\ stage' = stage
  BY UpMultiplyIs
<1>2. /\ pc[p] \in Nat /\ ChildCount(p) \in Nat /\ pc'[p] = ChildCount(p) + 1
      /\ \A u \in Node : u # p => pc'[u] = pc[u]
  BY <1>1, ChildCounts DEF ParControl
<1>3. IsInput(input) /\ Database(input)
  BY InputsAre, InputIsDatabase DEF Called
<1>4. tables[p] = input[p] /\ DOMAIN tables[p] = 1 .. Len(input[p])
  BY <1>1, <1>2 DEF ParCounts, UpStages, Updated, ParRows
<1>5. ASSUME NEW i \in 1 .. Len(input[p])
      PROVE  ValuesProduct(vals, p, i) = SubtreeCount(input, p, i)
  <2>1. PICK H : H = [c \in ChildSet(p) |-> Below(input, c, i)]
    OBVIOUS
  <2>2. \A c \in ChildSet(p) : H[c] = Below(input, c, i) /\ c \in NonRoot /\ c \in Node /\ Parent[c] = p
    BY <2>1, ChildFacts, ParentFacts
  <2>3. \A c \in ChildSet(p) : IsFiniteSet(H[c])
    BY <2>2, <1>3, UsingFinite
  <2>4. ASSUME NEW c \in ChildSet(p) PROVE vals[c][i] = Cardinality(H[c])
    <3>1. PICK k \in 1 .. ChildCount(p) : children(p)[k] = c
      BY <2>2, EveryChild
    <3>2. k <= pc[p]
      BY <1>1, <1>2
    <3> QED BY <3>1, <3>2, <2>2, <1>1 DEF ParSums
  <2>5. IsFiniteSet(ChildSet(p))
    BY NodesFinite DEF ChildSet
  <2>6. ValuesProduct(vals, p, i) = Cardinality(Picks(H, ChildSet(p)))
    BY <2>3, <2>4, <2>5, ProductOfEdges DEF ValuesProduct
  <2>7. Cardinality(Using(input, p, i)) = Cardinality(Picks(H, ChildSet(p)))
    BY <2>2, <1>3, SubtreeAnswers
  <2> QED BY <2>6, <2>7 DEF Using, SubtreeCount
<1>6. PICK t : t = [i \in DOMAIN tables[p] |->
                            [keys |-> tables[p][i].keys, delta |-> ValuesProduct(vals, p, i)]]
  OBVIOUS
<1>7. /\ t = [i \in 1 .. Len(input[p]) |-> t[i]]
      /\ \A i \in 1 .. Len(input[p]) : /\ t[i].keys = input[p][i].keys
                                       /\ "delta" \in DOMAIN t[i]
                                       /\ t[i].delta = SubtreeCount(input, p, i)
  BY <1>4, <1>5, <1>6
<1>8. tables' = [tables EXCEPT ![p] = t]
  BY <1>1, <1>6
<1>9. DOMAIN tables' = Node /\ tables'[p] = t /\ \A u \in Node : u # p => tables'[u] = tables[u]
  BY <1>8 DEF ParRows
<1>a. input' = input /\ stage' = stage /\ ~IsLeaf(p)
  BY <1>1 DEF InnerAt
<1>10. ParRows'
  BY <1>a, <1>7, <1>9 DEF ParRows
<1>11. \A u \in Node : u # p => (Updated(u)' <=> Updated(u)) /\ \A i : IsCounted(u, i)' <=> IsCounted(u, i)
  BY <1>a, <1>2, <1>9 DEF Updated, IsCounted
<1>12. Updated(p)' /\ \A i \in 1 .. Len(input[p]) : IsCounted(p, i)'
  <2>1. Updated(p)'
    BY <1>a, <1>2 DEF Updated
  <2>2. ASSUME NEW i \in 1 .. Len(input[p]) PROVE IsCounted(p, i)'
    BY <1>a, <1>7, <1>9 DEF IsCounted
  <2> QED BY <2>1, <2>2
<1>13. ParCounts'
  BY <1>a, <1>9, <1>11, <1>12 DEF ParCounts
<1>14. ASSUME NEW u \in Node, NEW l \in 1 .. ChildCount(u), l <= pc'[u] PROVE l <= pc[u]
  BY <1>1, <1>2, <1>14
<1>15. ParSums'
  BY <1>1, <1>14 DEF ParSums
<1> QED BY <1>10, <1>13, <1>15

(* The barriers of the pass change no table. *)
LEMMA EndUpCounts ==
  ASSUME ParRows, ParCounts, ParSums, P!EndUpLevel
  PROVE  ParRows' /\ ParCounts' /\ ParSums'
<1>1. /\ stage = "up" /\ stage' \in UpStages
      /\ input' = input /\ tables' = tables /\ pc' = pc /\ vals' = vals
  BY EndUpLevelIs DEF UpStages
<1>2. /\ \A u : Updated(u)' <=> Updated(u)
      /\ \A u, i : IsCounted(u, i)' <=> IsCounted(u, i)
  BY <1>1 DEF Updated, IsCounted
<1> QED BY <1>1, <1>2 DEF ParRows, ParCounts, ParSums, UpStages

-----------------------------------------------------------------------------
(* ParYan's pass down the tree filters. *)

RowKept(u, i) == tables[u][i].keys = input[u][i].keys

(* The parent of u has filtered its children. *)
Reached(u) == stage = "down" /\ u # Root => pc[Parent[u]] = ChildCount(Parent[u]) + 1

(* A row is itself or zeros; rows of answers stay, and without key 0 no    *)
(* other row does.                                                         *)
ParFilter ==
  stage \notin UpStages =>
    \A u \in Node : \A i \in 1 .. Len(input[u]) :
      /\ RowKept(u, i) \/ tables[u][i].keys = Zeros(tableKeys[u])
      /\ RowUsed(input, u, i) => RowKept(u, i)
      /\ ~HasZeroKey(input) /\ RowKept(u, i) =>
           SubtreeCount(input, u, i) # 0 /\ (Reached(u) => RowUsed(input, u, i))

ParProbe ==
  stage = "down" =>
    \A u \in Node : \A k \in 1 .. ChildCount(u) : k <= pc[u] /\ pc[u] <= ChildCount(u) =>
      \A j \in 1 .. Len(input[children(u)[k]]) :
        vals[children(u)[k]][j] = Cardinality(DownPartners(children(u)[k], j))

ParSize ==
  stage \notin UpStages => outSize \in Nat /\ outSize >= 1 /\ JoinSize(input) <= outSize

LEMMA ZeroRow ==
  ASSUME NEW u \in Node
  PROVE  /\ isBottom(Zeros(tableKeys[u]))
         /\ DOMAIN Zeros(tableKeys[u]) = 1 .. tableKeys[u]
         /\ \A k \in 1 .. tableKeys[u] : Zeros(tableKeys[u])[k] = 0
BY DEF Zeros, isBottom

LEMMA JoinColumns ==
  ASSUME NEW db, IsInput(db), NEW c \in NonRoot
  PROVE  /\ ColInChild[c] \in 1 .. tableKeys[c] /\ ColInParent[c] \in 1 .. tableKeys[Parent[c]]
         /\ ~HasZeroKey(db) =>
              /\ \A j \in 1 .. Len(db[c]) : db[c][j].keys[ColInChild[c]] # 0
              /\ \A i \in 1 .. Len(db[Parent[c]]) : db[Parent[c]][i].keys[ColInParent[c]] # 0
<1>1. ColInChild[c] \in 1 .. tableKeys[c] /\ ColInParent[c] \in 1 .. tableKeys[Parent[c]]
  BY InputAssumption
<1>2. c \in Node /\ Parent[c] \in Node
  BY ParentFacts
<1>3. DOMAIN db[c] = 1 .. Len(db[c]) /\ DOMAIN db[Parent[c]] = 1 .. Len(db[Parent[c]])
  BY <1>2, InputIsDatabase
<1>4. /\ \A j \in 1 .. Len(db[c]) : db[c][j] \in ToSet(db[c])
      /\ \A i \in 1 .. Len(db[Parent[c]]) : db[Parent[c]][i] \in ToSet(db[Parent[c]])
  BY <1>3 DEF ToSet
<1> QED BY <1>1, <1>4 DEF HasZeroKey

LEMMA NoZeroRows ==
  ASSUME NEW db, IsInput(db), ~HasZeroKey(db), ~IsLeaf(Root), NEW u \in Node, NEW i \in 1 .. Len(db[u])
  PROVE  ~isBottom(db[u][i].keys) /\ db[u][i].keys # Zeros(tableKeys[u])
<1>1. DOMAIN db[u][i].keys = 1 .. tableKeys[u]
  BY InputWidth
<1>2. \E k \in 1 .. tableKeys[u] : db[u][i].keys[k] # 0
  <2>1. CASE u \in NonRoot
    BY <2>1, JoinColumns
  <2>2. CASE u \notin NonRoot
    <3>1. u = Root
      BY <2>2 DEF NonRoot
    <3>2. PICK c \in ChildSet(Root) : TRUE
      BY DEF IsLeaf
    <3>3. c \in NonRoot /\ Parent[c] = u
      BY <3>1, <3>2, ChildFacts, TreeAssumption
    <3> QED BY <3>3, JoinColumns
  <2> QED BY <2>1, <2>2
<1>3. ~isBottom(db[u][i].keys)
  BY <1>1, <1>2 DEF isBottom
<1> QED BY <1>3, ZeroRow

(* The counts of the root add up to the size of the join. *)
LEMMA RootCounts ==
  ASSUME NEW db, Database(db), NEW t, DOMAIN t = 1 .. Len(db[Root]),
         \A i \in DOMAIN t : t[i].delta = SubtreeCount(db, Root, i)
  PROVE  MapThenSumSet(LAMBDA i : t[i].delta, DOMAIN t) = JoinSize(db)
<1> DEFINE K == 1 .. Len(db[Root])
           w == [k \in K |-> SubtreeCount(db, Root, k)]
           H == [k \in K |-> Using(db, Root, k)]
           G(g) == [s \in SUBSET K |-> IF s = {} THEN 0
                     ELSE t[CHOOSE x \in s : TRUE].delta + g[s \ {CHOOSE x \in s : TRUE}]]
           sum == CHOOSE g : g = G(g)
<1>1. Root \in Node /\ Len(db[Root]) \in Nat
  BY TreeAssumption DEF Database
<1>2. IsFiniteSet(K)
  BY <1>1, FS_Interval
<1>3. MapThenSumSet(LAMBDA i : t[i].delta, K) = sum[K]
  BY Zenon DEF MapThenSumSet, MapThenFoldSet
<1>4. \A k \in K : IsFiniteSet(H[k]) /\ w[k] = Cardinality(H[k]) /\ w[k] = t[k].delta
  <2>1. \A k : IsFiniteSet(Using(db, Root, k))
    BY <1>1, UsingFinite
  <2>2. \A k \in K : w[k] = SubtreeCount(db, Root, k) /\ H[k] = Using(db, Root, k)
    OBVIOUS
  <2>3. \A k : SubtreeCount(db, Root, k) = Cardinality(Using(db, Root, k))
    BY DEF SubtreeCount, Using
  <2>4. \A k \in K : t[k].delta = SubtreeCount(db, Root, k)
    OBVIOUS
  <2> HIDE DEF w, H, K
  <2> QED BY <2>1, <2>2, <2>3, <2>4
<1>5. \A k, l \in K : k # l => H[k] \cap H[l] = {}
  BY DEF Using
<1>6. Together(H, K) = Matches(db, Node)
  <2>1. \A f \in Matches(db, Node) : f[Root] \in K
    BY <1>1, MatchesAre
  <2>2. \A k \in K : H[k] = {f \in Matches(db, Node) : f[Root] = k}
    BY RootSubtree DEF Using
  <2> HIDE DEF H, K
  <2> QED BY <2>1, <2>2 DEF Together
<1> HIDE DEF w, H, K
<1>7. /\ \E it : SumOf(it, w, K)
      /\ \A it : SumOf(it, w, K) => it[K] = Cardinality(Together(H, K))
  BY <1>2, <1>4, <1>5, SumIsUnion
<1>8. \A g : SumOf(g, w, K) <=> g = G(g)
  <2>1. \A s \in SUBSET K : s # {} => t[CHOOSE x \in s : TRUE].delta = w[CHOOSE x \in s : TRUE]
    BY <1>4
  <2>2. \A g : G(g) = [s \in SUBSET K |-> IF s = {} THEN 0
                         ELSE w[CHOOSE x \in s : TRUE] + g[s \ {CHOOSE x \in s : TRUE}]]
    BY <2>1
  <2> HIDE DEF G
  <2> QED BY <2>2 DEF SumOf
<1> HIDE DEF G
<1>9. sum = G(sum)
  BY <1>7, <1>8
<1>10. DOMAIN t = K
  BY DEF K
<1> QED BY <1>3, <1>6, <1>7, <1>8, <1>9, <1>10 DEF JoinSize

LEMMA MaterializeFilters ==
  ASSUME Called, ParControl, ParRows, ParCounts, ParSums, ~IsLeaf(Root), P!Materialize
  PROVE  ParRows' /\ ParFilter' /\ ParProbe' /\ ParSize' /\ (DOMAIN vals = NonRoot)'
<1>1. /\ stage = "materialize" /\ stage' = "down" /\ pc' = [u \in Node |-> 0]
      /\ outSize' = Max({target, RootTotal, 1})
      /\ tables' = [u \in Node |-> [i \in DOMAIN tables[u] |-> MaterializedRow(u, tables[u][i])]]
      /\ vals' = vals /\ input' = input
  BY MaterializeIs
<1>2. IsInput(input) /\ Database(input)
  BY InputsAre, InputIsDatabase DEF Called
<1>3. \A u \in Node : DOMAIN tables[u] = 1 .. Len(input[u])
  BY DEF ParRows
<1>4. \A u \in Node : tables'[u] = [i \in 1 .. Len(input[u]) |-> MaterializedRow(u, tables[u][i])]
  BY <1>1, <1>3
<1>5. ParRows'
  BY <1>1, <1>4 DEF ParRows
<1>6. \A u \in Node : ~IsLeaf(u) => Updated(u)
  BY <1>1 DEF ParControl, Updated
<1>7. ASSUME NEW u \in Node, NEW i \in 1 .. Len(input[u])
      PROVE  /\ SubtreeCount(input, u, i) # 0 => tables'[u][i].keys = input[u][i].keys
             /\ SubtreeCount(input, u, i) = 0 => tables'[u][i].keys = Zeros(tableKeys[u])
  <2>1. tables'[u][i] = MaterializedRow(u, tables[u][i])
    BY <1>4
  <2>2. CASE IsLeaf(u)
    <3>1. tables[u] = input[u]
      BY <1>1, <2>2 DEF ParCounts, UpStages, Updated
    <3>2. SubtreeCount(input, u, i) = 1
      BY <1>2, <2>2, LeafCount
    <3> QED BY <2>1, <2>2, <3>1, <3>2 DEF MaterializedRow
  <2>3. CASE ~IsLeaf(u)
    <3>1. IsCounted(u, i)
      BY <1>1, <1>6, <2>3 DEF ParCounts, UpStages
    <3> QED BY <2>1, <2>3, <3>1 DEF MaterializedRow, IsCounted
  <2> QED BY <2>2, <2>3
<1>8. ASSUME NEW u \in Node, NEW i \in 1 .. Len(input[u])
      PROVE  /\ RowKept(u, i)' \/ (tables[u][i].keys)' = Zeros(tableKeys[u])
             /\ RowUsed(input, u, i)' => RowKept(u, i)'
             /\ ~HasZeroKey(input)' /\ RowKept(u, i)' =>
                  SubtreeCount(input, u, i)' # 0 /\ (Reached(u)' => RowUsed(input, u, i)')
  <2>1. RowUsed(input, u, i) => SubtreeCount(input, u, i) # 0
    BY <1>2, UsedBelow
  <2>2. RowKept(u, i)' <=> tables'[u][i].keys = input[u][i].keys
    BY <1>1 DEF RowKept
  <2>3. HasZeroKey(input)' <=> HasZeroKey(input)
    BY <1>1 DEF HasZeroKey
  <2>4. ~HasZeroKey(input) => input[u][i].keys # Zeros(tableKeys[u])
    BY <1>2, NoZeroRows
  <2>5. Reached(u)' => u = Root
    <3>1. ASSUME u # Root PROVE ~Reached(u)'
      <4>1. u \in NonRoot /\ Parent[u] \in Node
        BY <3>1, ParentFacts DEF NonRoot
      <4>2. ChildCount(Parent[u]) \in Nat
        BY ChildCounts
      <4> QED BY <1>1, <3>1, <4>1, <4>2 DEF Reached
    <3> QED BY <3>1
  <2>6. u = Root /\ SubtreeCount(input, u, i) # 0 => RowUsed(input, u, i)
    BY <1>2, RootUsed
  <2>7. RowUsed(input, u, i)' <=> RowUsed(input, u, i)
    BY <1>1 DEF RowUsed
  <2>8. SubtreeCount(input, u, i)' = SubtreeCount(input, u, i)
    BY <1>1
  <2> QED BY <1>7, <2>1, <2>2, <2>3, <2>4, <2>5, <2>6, <2>7, <2>8
<1>9. ParFilter'
  BY <1>1, <1>8 DEF ParFilter
<1>10. ParProbe'
  BY <1>1, ChildCounts DEF ParProbe
<1>11. RootTotal = JoinSize(input)
  <2>1. Root \in Node
    BY TreeAssumption
  <2>2. \A i \in DOMAIN tables[Root] : tables[Root][i].delta = SubtreeCount(input, Root, i)
    BY <1>1, <1>3, <1>6, <2>1 DEF ParCounts, UpStages, IsCounted
  <2> QED BY <1>2, <1>3, <2>1, <2>2, RootCounts DEF RootTotal
<1>12. JoinSize(input) \in Nat
  BY <1>2, MatchesFinite, FS_CardinalityType DEF JoinSize
<1>13. ParSize'
  <2>1. PICK n \in Nat : n = JoinSize(input)
    BY <1>12
  <2>2. target \in Nat
    BY DEF Called
  <2>3. outSize' = Max({target, n, 1})
    BY <1>1, <1>11, <2>1
  <2>4. outSize' \in Nat /\ n <= outSize' /\ 1 <= outSize'
    BY <2>2, <2>3, MaxOf
  <2>5. JoinSize(input)' = n
    BY <1>1, <2>1
  <2> QED BY <2>4, <2>5 DEF ParSize
<1>14. DOMAIN vals' = NonRoot
  BY <1>1 DEF ParSums
<1> QED BY <1>5, <1>9, <1>10, <1>13, <1>14

-----------------------------------------------------------------------------
(* ParFilter for one row. *)
RowFiltered(u, i) ==
  /\ RowKept(u, i) \/ tables[u][i].keys = Zeros(tableKeys[u])
  /\ RowUsed(input, u, i) => RowKept(u, i)
  /\ ~HasZeroKey(input) /\ RowKept(u, i) =>
       SubtreeCount(input, u, i) # 0 /\ (Reached(u) => RowUsed(input, u, i))

LEMMA ParFilterRows ==
  ParFilter <=> (stage \notin UpStages => \A u \in Node : \A i \in 1 .. Len(input[u]) : RowFiltered(u, i))
BY Zenon DEF ParFilter, RowFiltered

LEMMA ParFilterNext ==
  ASSUME \A u \in Node : \A i \in 1 .. Len(input'[u]) : RowFiltered(u, i)'
  PROVE  ParFilter'
BY Zenon DEF ParFilter, RowFiltered

(* A row of a table that a step leaves alone. *)
LEMMA RowUntouched ==
  ASSUME NEW u \in Node, NEW i \in 1 .. Len(input[u]), RowFiltered(u, i),
         input' = input, tables'[u] = tables[u], Reached(u)' => Reached(u)
  PROVE  RowFiltered(u, i)'
<1>1. RowKept(u, i)' <=> RowKept(u, i)
  BY DEF RowKept
<1>2. RowUsed(input, u, i)' <=> RowUsed(input, u, i)
  BY DEF RowUsed
<1>3. HasZeroKey(input)' <=> HasZeroKey(input)
  BY DEF HasZeroKey
<1>4. SubtreeCount(input, u, i)' = SubtreeCount(input, u, i)
  OBVIOUS
<1>5. (tables[u][i].keys)' = tables[u][i].keys
  OBVIOUS
<1> QED BY <1>1, <1>2, <1>3, <1>4, <1>5 DEF RowFiltered

LEMMA PartnersFinite ==
  ASSUME Called, ParRows, NEW c \in NonRoot, NEW j
  PROVE  /\ IsFiniteSet(DownPartners(c, j)) /\ Cardinality(DownPartners(c, j)) \in Nat
         /\ Cardinality(DownPartners(c, j)) = 0 <=> DownPartners(c, j) = {}
<1>1. Parent[c] \in Node
  BY ParentFacts
<1>2. IsInput(input)
  BY InputsAre DEF Called
<1>3. DOMAIN tables[Parent[c]] = 1 .. Len(input[Parent[c]]) /\ Len(input[Parent[c]]) \in Nat
  BY <1>1, <1>2, InputTable DEF ParRows
<1>4. DownPartners(c, j) \subseteq 1 .. Len(input[Parent[c]])
  BY <1>3 DEF DownPartners
<1>5. IsFiniteSet(DownPartners(c, j))
  <2>1. IsFiniteSet(1 .. Len(input[Parent[c]]))
    BY <1>3, FS_Interval
  <2> QED BY <2>1, <1>4, FS_Subset
<1> QED BY <1>5, FS_CardinalityType, FS_EmptySet

(* What happens to a row of a child when its parent filters. *)
LEMMA ChildFiltered ==
  ASSUME Called, ParControl, ParRows, ParFilter, ParProbe, ~IsLeaf(Root),
         NEW p \in Node, P!DownFilter(p), NEW c \in ChildSet(p), NEW j \in 1 .. Len(input[c])
  PROVE  RowFiltered(c, j)'
<1>1. /\ stage = "down" /\ stage \notin UpStages /\ InnerAt(p, level) /\ pc[p] = ChildCount(p)
      /\ tables' = [u \in Node |->
           IF u \in ChildSet(p)
           THEN [k \in DOMAIN tables[u] |->
                   IF vals[u][k] = 0 THEN [keys |-> Zeros(tableKeys[u])] ELSE tables[u][k]]
           ELSE tables[u]]
      /\ input' = input
  BY DownFilterIs DEF UpStages
<1>2. c \in NonRoot /\ c \in Node /\ Parent[c] = p
  BY ChildFacts, ParentFacts
<1>3. IsInput(input) /\ Database(input)
  BY InputsAre, InputIsDatabase DEF Called
<1>4. DOMAIN tables[c] = 1 .. Len(input[c]) /\ DOMAIN tables[p] = 1 .. Len(input[p])
  BY <1>2 DEF ParRows
<1>5. tables'[c][j].keys = IF vals[c][j] = 0 THEN Zeros(tableKeys[c]) ELSE tables[c][j].keys
  BY <1>1, <1>2, <1>4
<1>6. vals[c][j] = Cardinality(DownPartners(c, j))
  <2>1. PICK k \in 1 .. ChildCount(p) : children(p)[k] = c
    BY <1>2, EveryChild
  <2>2. ChildCount(p) \in Nat /\ k <= pc[p] /\ pc[p] <= ChildCount(p)
    BY <1>1, <2>1, ChildCounts
  <2> QED BY <1>1, <2>1, <2>2 DEF ParProbe
<1>7. vals[c][j] = 0 <=> DownPartners(c, j) = {}
  BY <1>2, <1>6, PartnersFinite
<1>8. RowFiltered(c, j) /\ \A i \in 1 .. Len(input[p]) : RowFiltered(p, i)
  BY <1>1, <1>2, ParFilterRows
<1>9. Reached(p)
  <2>1. CASE p = Root
    BY <2>1 DEF Reached
  <2>2. CASE p # Root
    <3>1. p \in NonRoot /\ Parent[p] \in Node /\ ~IsLeaf(Parent[p]) /\ Depth[p] = 1 + Depth[Parent[p]]
      BY <2>2, ParentFacts DEF NonRoot
    <3>2. Depth[p] = level /\ Depth[Parent[p]] \in Nat
      BY <1>1, <3>1, DepthType DEF InnerAt
    <3>3. Depth[Parent[p]] < level
      BY <3>1, <3>2
    <3> QED BY <1>1, <3>1, <3>3 DEF Reached, ParControl
  <2> QED BY <2>1, <2>2
<1>10. \A i \in 1 .. Len(input[p]) : RowUsed(input, p, i) =>
         tables[p][i].keys = input[p][i].keys
  BY <1>8 DEF RowFiltered, RowKept
<1>11. ASSUME RowUsed(input, c, j) PROVE tables'[c][j].keys = input[c][j].keys
  <2>1. PICK i : RowUsed(input, p, i) /\ Joins(c, input[p][i], input[c][j])
    BY <1>2, <1>3, <1>11, ChildUsed
  <2>2. i \in 1 .. Len(input[p])
    BY <1>3, <2>1, UsedBelow
  <2>3. tables[p][i].keys = input[p][i].keys
    BY <1>10, <2>1, <2>2
  <2>4. tables[c][j].keys = input[c][j].keys
    BY <1>8, <1>11 DEF RowFiltered, RowKept
  <2>5. i \in DownPartners(c, j)
    BY <1>2, <1>4, <2>1, <2>2, <2>3, <2>4 DEF DownPartners, Joins
  <2> QED BY <1>5, <1>7, <2>4, <2>5
<1>12. ASSUME ~HasZeroKey(input), tables'[c][j].keys = input[c][j].keys
       PROVE  SubtreeCount(input, c, j) # 0 /\ RowUsed(input, c, j)
  <2>1. input[c][j].keys # Zeros(tableKeys[c])
    BY <1>2, <1>3, <1>12, NoZeroRows
  <2>2. vals[c][j] # 0 /\ tables[c][j].keys = input[c][j].keys
    BY <1>5, <1>12, <2>1
  <2>3. SubtreeCount(input, c, j) # 0
    BY <1>8, <1>12, <2>2 DEF RowFiltered, RowKept
  <2>4. PICK i \in DownPartners(c, j) : TRUE
    BY <1>7, <2>2
  <2>5. i \in 1 .. Len(input[p]) /\ tables[p][i].keys[ColInParent[c]] = input[c][j].keys[ColInChild[c]]
    BY <1>2, <1>4, <2>2, <2>4 DEF DownPartners, Joins
  <2>6. input[c][j].keys[ColInChild[c]] # 0 /\ ColInParent[c] \in 1 .. tableKeys[p]
    BY <1>2, <1>3, <1>12, JoinColumns
  <2>7. tables[p][i].keys # Zeros(tableKeys[p])
    BY <2>5, <2>6, ZeroRow
  <2>8. RowKept(p, i) /\ RowUsed(input, p, i)
    BY <1>8, <1>9, <1>12, <2>5, <2>7 DEF RowFiltered
  <2>9. Joins(c, input[p][i], input[c][j])
    BY <2>5, <2>8 DEF RowKept, Joins
  <2> QED BY <1>2, <1>3, <2>3, <2>8, <2>9, ChildUsed
<1>13. tables'[c][j].keys = input[c][j].keys \/ tables'[c][j].keys = Zeros(tableKeys[c])
  BY <1>5, <1>8 DEF RowFiltered, RowKept
<1>14. /\ RowKept(c, j)' <=> tables'[c][j].keys = input[c][j].keys
       /\ (tables[c][j].keys)' = tables'[c][j].keys
  BY <1>1 DEF RowKept
<1>15. RowUsed(input, c, j)' <=> RowUsed(input, c, j)
  BY <1>1 DEF RowUsed
<1>16. HasZeroKey(input)' <=> HasZeroKey(input)
  BY <1>1 DEF HasZeroKey
<1>17. SubtreeCount(input, c, j)' = SubtreeCount(input, c, j)
  BY <1>1
<1> QED BY <1>11, <1>12, <1>13, <1>14, <1>15, <1>16, <1>17 DEF RowFiltered

LEMMA DownFilterFilters ==
  ASSUME Called, ParControl, ParRows, ParFilter, ParProbe, ParSize, ~IsLeaf(Root),
         NEW p \in Node, P!DownFilter(p)
  PROVE  ParRows' /\ ParFilter' /\ ParProbe' /\ ParSize'
<1>1. /\ stage = "down" /\ stage \notin UpStages /\ InnerAt(p, level) /\ pc[p] = ChildCount(p)
      /\ tables' = [u \in Node |->
           IF u \in ChildSet(p)
           THEN [k \in DOMAIN tables[u] |->
                   IF vals[u][k] = 0 THEN [keys |-> Zeros(tableKeys[u])] ELSE tables[u][k]]
           ELSE tables[u]]
      /\ pc' = [pc EXCEPT ![p] = @ + 1]
      /\ input' = input /\ stage' = stage /\ vals' = vals /\ outSize' = outSize /\ level' = level
  BY DownFilterIs DEF UpStages
<1>2. /\ pc[p] \in Nat /\ ChildCount(p) \in Nat /\ pc'[p] = ChildCount(p) + 1
      /\ \A u \in Node : u # p => pc'[u] = pc[u]
  BY <1>1, ChildCounts DEF ParControl
<1>3. \A u \in Node : u \notin ChildSet(p) => tables'[u] = tables[u]
  BY <1>1
<1>4. ASSUME NEW u \in Node, u \in ChildSet(p)
      PROVE  tables'[u] = [k \in 1 .. Len(input[u]) |-> tables'[u][k]]
  BY <1>1, <1>4 DEF ParRows
<1>5. ParRows'
  <2>1. DOMAIN tables' = Node
    BY <1>1
  <2> QED BY <2>1, <1>1, <1>3, <1>4 DEF ParRows
<1>6. ASSUME NEW u \in Node, NEW i \in 1 .. Len(input[u])
      PROVE  RowFiltered(u, i)'
  <2>1. CASE u \in ChildSet(p)
    BY <2>1, ChildFiltered
  <2>2. CASE u \notin ChildSet(p)
    <3>1. RowFiltered(u, i)
      BY <1>1, ParFilterRows
    <3>2. Reached(u)' => Reached(u)
      <4>1. CASE u = Root
        BY <4>1 DEF Reached
      <4>2. CASE u # Root
        <5>1. Parent[u] \in Node /\ Parent[u] # p
          BY <2>2, <4>2, ParentFacts DEF NonRoot, ChildSet
        <5> QED BY <5>1, <1>1, <1>2 DEF Reached
      <4> QED BY <4>1, <4>2
    <3> QED BY <1>1, <1>3, <2>2, <3>1, <3>2, RowUntouched
  <2> QED BY <2>1, <2>2
<1>7. ParFilter'
  <2>1. \A u \in Node : \A i \in 1 .. Len(input'[u]) : RowFiltered(u, i)'
    BY <1>1, <1>6
  <2> QED BY <2>1, ParFilterNext
<1>8. ASSUME NEW u \in Node, NEW k \in 1 .. ChildCount(u), k <= pc'[u], pc'[u] <= ChildCount(u),
             NEW j \in 1 .. Len(input[children(u)[k]])
      PROVE  vals'[children(u)[k]][j] = Cardinality(DownPartners(children(u)[k], j)')
  <2> DEFINE c == children(u)[k]
  <2>1. u # p
    BY <1>2, <1>8
  <2>2. pc'[u] = pc[u] /\ pc[u] \in Nat /\ ChildCount(u) \in Nat
    BY <1>2, <2>1, ChildCounts DEF ParControl
  <2>3. c \in Node /\ Parent[c] = u /\ c \notin ChildSet(p)
    BY <2>1, ChildrenAre, ChildFacts
  <2>4. ~IsLeaf(u)
    BY <2>2, ChildCounts
  <2>5. Depth[u] = level
    <3>1. ~(Depth[u] < level) /\ ~(Depth[u] > level)
      BY <1>1, <1>8, <2>2, <2>4 DEF ParControl
    <3>2. Depth[u] \in Nat /\ level \in Nat
      BY DepthType, MaxDepthBound DEF ParControl
    <3> QED BY <3>1, <3>2
  <2>6. u \notin ChildSet(p)
    <3>1. ASSUME u \in ChildSet(p) PROVE FALSE
      <4>1. u \in NonRoot /\ Parent[u] = p
        BY <3>1, ChildFacts
      <4>2. Depth[u] = 1 + Depth[p] /\ Depth[p] \in Nat
        BY <4>1, ParentFacts, DepthType
      <4> QED BY <4>2, <2>5, <1>1 DEF InnerAt
    <3> QED BY <3>1
  <2>7. tables'[u] = tables[u] /\ tables'[c] = tables[c]
    BY <1>3, <2>3, <2>6
  <2>8. DownPartners(c, j)' = DownPartners(c, j)
    BY <2>3, <2>7 DEF DownPartners
  <2> QED BY <1>1, <1>8, <2>2, <2>8 DEF ParProbe
<1>9. ParProbe'
  BY <1>1, <1>8 DEF ParProbe
<1>10. ParSize'
  BY <1>1 DEF ParSize
<1> QED BY <1>5, <1>7, <1>9, <1>10

LEMMA DownSemiJoinFilters ==
  ASSUME Called, ParControl, ParRows, ParFilter, ParProbe, ParSize, DOMAIN vals = NonRoot,
         NEW p \in Node, P!DownSemiJoin(p)
  PROVE  ParRows' /\ ParFilter' /\ ParProbe' /\ ParSize' /\ (DOMAIN vals = NonRoot)'
<1> DEFINE c == NextOf(p)
<1>1. /\ stage = "down" /\ stage \notin UpStages /\ InnerAt(p, level) /\ pc[p] < ChildCount(p)
      /\ vals' = [vals EXCEPT ![c] = [j \in DOMAIN tables[c] |-> Cardinality(DownPartners(c, j))]]
      /\ pc' = [pc EXCEPT ![p] = @ + 1]
      /\ tables' = tables /\ input' = input /\ stage' = stage /\ outSize' = outSize
  BY DownSemiJoinIs DEF UpStages
<1>2. /\ pc[p] \in Nat /\ ChildCount(p) \in Nat /\ pc'[p] = pc[p] + 1
      /\ \A u \in Node : u # p => pc'[u] = pc[u]
  BY <1>1, ChildCounts DEF ParControl
<1>3. PICK k \in 1 .. ChildCount(p) : k = pc[p] + 1
  BY <1>1, <1>2
<1>4. c = children(p)[k] /\ c \in NonRoot /\ c \in Node
  BY <1>3, ChildrenAre DEF NextOf
<1>5. ParRows' /\ ParSize'
  BY <1>1 DEF ParRows, ParSize
<1>6. ASSUME NEW u \in Node, NEW i \in 1 .. Len(input[u])
      PROVE  RowFiltered(u, i)'
  <2>1. RowFiltered(u, i)
    BY <1>1, ParFilterRows
  <2>2. Reached(u)' => Reached(u)
    <3>1. CASE u = Root
      BY <3>1 DEF Reached
    <3>2. CASE u # Root
      <4>1. Parent[u] \in Node
        BY <3>2, ParentFacts DEF NonRoot
      <4>2. Parent[u] = p => pc'[p] # ChildCount(p) + 1
        BY <1>1, <1>2
      <4> QED BY <4>1, <4>2, <1>1, <1>2, <3>2 DEF Reached
    <3> QED BY <3>1, <3>2
  <2> QED BY <1>1, <2>1, <2>2, RowUntouched
<1>7. ParFilter'
  <2>1. \A u \in Node : \A i \in 1 .. Len(input'[u]) : RowFiltered(u, i)'
    BY <1>1, <1>6
  <2> QED BY <2>1, ParFilterNext
<1>8. /\ DOMAIN vals' = NonRoot
      /\ \A j \in 1 .. Len(input[c]) : vals'[c][j] = Cardinality(DownPartners(c, j))
      /\ \A d \in NonRoot : d # c => vals'[d] = vals[d]
  <2>1. PICK v : v = [j \in DOMAIN tables[c] |-> Cardinality(DownPartners(c, j))]
    OBVIOUS
  <2>2. \A j \in 1 .. Len(input[c]) : v[j] = Cardinality(DownPartners(c, j))
    <3>1. DOMAIN tables[c] = 1 .. Len(input[c])
      BY <1>4 DEF ParRows
    <3> QED BY <2>1, <3>1, Zenon
  <2>3. vals' = [vals EXCEPT ![c] = v]
    BY <2>1, <1>1
  <2> HIDE DEF c
  <2> QED BY <2>2, <2>3, <1>4
<1>9. \A d, j : DownPartners(d, j)' = DownPartners(d, j)
  BY <1>1 DEF DownPartners
<1>10. ASSUME NEW u \in Node, NEW l \in 1 .. ChildCount(u), l <= pc'[u], pc'[u] <= ChildCount(u),
              NEW j \in 1 .. Len(input[children(u)[l]])
       PROVE  vals'[children(u)[l]][j] = Cardinality(DownPartners(children(u)[l], j))
  <2>1. children(u)[l] \in NonRoot /\ (children(u)[l] = c => u = p)
    BY <1>3, <1>4, ChildrenAre
  <2>2. CASE children(u)[l] = c
    BY <2>1, <2>2, <1>8, <1>10
  <2>3. CASE children(u)[l] # c
    <3>1. u = p => l # k
      BY <1>4, <2>3
    <3>2. l <= pc[u] /\ pc[u] <= ChildCount(u)
      BY <3>1, <1>1, <1>2, <1>3, <1>10
    <3> QED BY <2>1, <2>3, <3>2, <1>1, <1>8, <1>10 DEF ParProbe
  <2> QED BY <2>2, <2>3
<1>11. ParProbe'
  <2>1. input' = input
    BY <1>1
  <2> SUFFICES ASSUME NEW u \in Node, NEW l \in 1 .. ChildCount(u), l <= pc'[u], pc'[u] <= ChildCount(u),
                      NEW j \in 1 .. Len(input[children(u)[l]])
               PROVE  vals'[children(u)[l]][j] = Cardinality(DownPartners(children(u)[l], j)')
    BY <2>1 DEF ParProbe
  <2>2. vals'[children(u)[l]][j] = Cardinality(DownPartners(children(u)[l], j))
    BY <1>10
  <2>3. DownPartners(children(u)[l], j)' = DownPartners(children(u)[l], j)
    BY <1>9
  <2> QED BY <2>2, <2>3, Zenon
<1> QED BY <1>5, <1>7, <1>8, <1>11

(* Whoever is left when the last level is done, was reached. *)
LEMMA EndDownFilters ==
  ASSUME ParControl, ParRows, ParFilter, ParProbe, ParSize, P!EndDownLevel
  PROVE  ParRows' /\ ParFilter' /\ ParProbe' /\ ParSize'
<1>1. /\ stage = "down" /\ stage \notin UpStages /\ AllInner(level, LAMBDA p : ChildCount(p) + 1)
      /\ IF level < MaxDepth
         THEN level' = level + 1 /\ stage' = "down" /\ UNCHANGED <<pc, partial>>
         ELSE /\ level' = MaxDepth /\ stage' = "join" /\ pc' = [u \in Node |-> 0]
              /\ partial' = [u \in Node |-> BagOfRows(tables[u])]
      /\ tables' = tables /\ input' = input /\ vals' = vals /\ outSize' = outSize
  BY EndDownLevelIs DEF UpStages
<1>2. ParRows' /\ ParSize'
  BY <1>1 DEF ParRows, ParSize, UpStages
<1>3. \A u \in Node : Reached(u)' => Reached(u)
  <2>1. CASE level < MaxDepth
    BY <2>1, <1>1 DEF Reached
  <2>2. CASE ~(level < MaxDepth)
    <3>1. ASSUME NEW u \in Node, u # Root PROVE pc[Parent[u]] = ChildCount(Parent[u]) + 1
      <4>1. Parent[u] \in Node /\ ~IsLeaf(Parent[u])
        BY <3>1, ParentFacts DEF NonRoot
      <4>2. Depth[Parent[u]] < level \/ Depth[Parent[u]] = level
        BY <2>2, <4>1, MaxDepthBound, DepthType DEF ParControl
      <4> QED BY <1>1, <4>1, <4>2 DEF ParControl, AllInner, InnerAt
    <3> QED BY <3>1 DEF Reached
  <2> QED BY <2>1, <2>2
<1>4. \A u \in Node : \A i \in 1 .. Len(input[u]) : RowFiltered(u, i)
  BY <1>1, ParFilterRows
<1>5. \A u \in Node : \A i \in 1 .. Len(input[u]) : RowFiltered(u, i)'
  BY <1>1, <1>3, <1>4, RowUntouched
<1>6. ParFilter'
  <2>1. \A u \in Node : \A i \in 1 .. Len(input'[u]) : RowFiltered(u, i)'
    BY <1>1, <1>5
  <2> QED BY <2>1, ParFilterNext
<1>7. ParProbe'
  <2>1. \A d, j : DownPartners(d, j)' = DownPartners(d, j)
    BY <1>1 DEF DownPartners
  <2> QED BY <1>1, <2>1 DEF ParProbe
<1> QED BY <1>2, <1>6, <1>7

(* The joins read the tables and do not write them. *)
LEMMA JoinsFiltered ==
  ASSUME ParRows, ParFilter, ParSize, stage \notin UpStages, stage # "down",
         stage' \notin UpStages, stage' # "down",
         tables' = tables, input' = input, outSize' = outSize
  PROVE  ParRows' /\ ParFilter' /\ ParProbe' /\ ParSize'
<1>1. \A u \in Node : Reached(u)
  BY DEF Reached
<1>2. \A u \in Node : \A i \in 1 .. Len(input[u]) : RowFiltered(u, i)'
  BY <1>1, ParFilterRows, RowUntouched
<1>3. ParFilter'
  <2>1. \A u \in Node : \A i \in 1 .. Len(input'[u]) : RowFiltered(u, i)'
    BY <1>2
  <2> QED BY <2>1, ParFilterNext
<1> QED BY <1>3 DEF ParRows, ParProbe, ParSize

-----------------------------------------------------------------------------
(* The inductive invariant of ParYan's passes of semi-joins. *)
ParPasses ==
  /\ ParControl /\ ParRows /\ ParCounts /\ ParSums
  /\ ParFilter /\ ParProbe /\ ParSize

LEMMA ParPassesInit ==
  ASSUME P!Init, Called
  PROVE  ParPasses
<1>1. stage = "up"
  BY DEF P!Init
<1>2. ParFilter /\ ParProbe /\ ParSize
  BY <1>1 DEF ParFilter, ParProbe, ParSize, UpStages
<1> QED BY <1>2, ParControlInit, ParUpInit DEF ParPasses

LEMMA ParPassesStep ==
  ASSUME Called, ParPasses, ~IsLeaf(Root), P!Next
  PROVE  ParPasses'
<1> USE DEF ParPasses
<1>1. ParControl'
  BY ParControlStep
<1>2. ASSUME stage' \in UpStages PROVE ParFilter' /\ ParProbe' /\ ParSize'
  BY <1>2 DEF ParFilter, ParProbe, ParSize, UpStages
<1>3. ASSUME stage' \notin UpStages, DOMAIN vals' = NonRoot PROVE ParCounts' /\ ParSums'
  BY <1>3 DEF ParCounts, ParSums, UpStages
<1>4. DOMAIN vals = NonRoot
  BY DEF ParSums
<1>5. ASSUME NEW p \in Node, P!UpSemiJoin(p) PROVE ParPasses'
  <2>1. stage' \in UpStages
    BY <1>5, UpSemiJoinIs DEF UpStages
  <2> QED BY <2>1, <1>1, <1>2, <1>5, UpSemiJoinCounts
<1>6. ASSUME NEW p \in Node, P!UpMultiply(p) PROVE ParPasses'
  <2>1. stage' \in UpStages
    BY <1>6, UpMultiplyIs DEF UpStages
  <2> QED BY <2>1, <1>1, <1>2, <1>6, UpMultiplyCounts
<1>7. ASSUME NEW p \in Node, P!DownSemiJoin(p) PROVE ParPasses'
  <2>1. stage' \notin UpStages
    BY <1>7, DownSemiJoinIs DEF UpStages
  <2> QED BY <2>1, <1>1, <1>3, <1>4, <1>7, DownSemiJoinFilters
<1>8. ASSUME NEW p \in Node, P!DownFilter(p) PROVE ParPasses'
  <2>1. stage' \notin UpStages /\ vals' = vals
    BY <1>8, DownFilterIs DEF UpStages
  <2> QED BY <2>1, <1>1, <1>3, <1>4, <1>8, DownFilterFilters
<1>9. ASSUME NEW p \in Node, P!JoinChild(p) PROVE ParPasses'
  <2>1. /\ stage \notin UpStages /\ stage # "down" /\ stage' \notin UpStages /\ stage' # "down"
        /\ tables' = tables /\ input' = input /\ outSize' = outSize /\ vals' = vals
    BY <1>9, JoinChildIs DEF UpStages
  <2> QED BY <2>1, <1>1, <1>3, <1>4, JoinsFiltered
<1>10. CASE P!EndUpLevel
  <2>1. stage' \in UpStages
    BY <1>10, EndUpLevelIs DEF UpStages
  <2> QED BY <2>1, <1>1, <1>2, <1>10, EndUpCounts
<1>11. CASE P!Materialize
  <2>1. stage' \notin UpStages
    BY <1>11, MaterializeIs DEF UpStages
  <2> QED BY <2>1, <1>1, <1>3, <1>11, MaterializeFilters
<1>12. CASE P!EndDownLevel
  <2>1. stage' \notin UpStages /\ vals' = vals
    BY <1>12, EndDownLevelIs DEF UpStages
  <2> QED BY <2>1, <1>1, <1>3, <1>4, <1>12, EndDownFilters
<1>13. CASE P!EndJoinLevel
  <2>1. /\ stage \notin UpStages /\ stage # "down" /\ stage' \notin UpStages /\ stage' # "down"
        /\ tables' = tables /\ input' = input /\ outSize' = outSize /\ vals' = vals
    BY <1>13, EndJoinLevelIs DEF UpStages
  <2> QED BY <2>1, <1>1, <1>3, <1>4, JoinsFiltered
<1>14. CASE P!Reorder
  <2>1. /\ stage \notin UpStages /\ stage # "down" /\ stage' \notin UpStages /\ stage' # "down"
        /\ tables' = tables /\ input' = input /\ outSize' = outSize /\ vals' = vals
    BY <1>14, ReorderIs DEF UpStages
  <2> QED BY <2>1, <1>1, <1>3, <1>4, JoinsFiltered
<1> QED BY <1>5, <1>6, <1>7, <1>8, <1>9, <1>10, <1>11, <1>12, <1>13, <1>14, ParYanSteps

LEMMA ParReduced ==
  ASSUME Called, ParPasses, ~IsLeaf(Root), stage = "join", ~HasZeroKey(input), NEW u \in Node
  PROVE  {v \in {r.keys : r \in ToSet(tables[u])} : ~isBottom(v)} = UsedRows(input, u)
<1>1. stage \notin UpStages /\ Reached(u)
  BY DEF UpStages, Reached
<1>2. \A i \in 1 .. Len(input[u]) : RowFiltered(u, i)
  BY <1>1, ParFilterRows DEF ParPasses
<1>3. IsInput(input) /\ Database(input)
  BY InputsAre, InputIsDatabase DEF Called
<1>4. DOMAIN tables[u] = 1 .. Len(input[u])
  BY DEF ParPasses, ParRows
<1>5. {r.keys : r \in ToSet(tables[u])} = {tables[u][i].keys : i \in 1 .. Len(input[u])}
  BY <1>4 DEF ToSet
<1>6. ASSUME NEW i \in 1 .. Len(input[u]), ~isBottom(tables[u][i].keys)
      PROVE  tables[u][i].keys \in UsedRows(input, u)
  <2>1. RowKept(u, i)
    BY <1>2, <1>6, ZeroRow DEF RowFiltered
  <2>2. RowUsed(input, u, i)
    BY <1>1, <1>2, <2>1 DEF RowFiltered
  <2> QED BY <2>1, <2>2 DEF RowKept, RowUsed, UsedRows
<1>7. ASSUME NEW f \in Matches(input, Node)
      PROVE  /\ f[u] \in 1 .. Len(input[u])
             /\ input[u][f[u]].keys = tables[u][f[u]].keys
             /\ ~isBottom(input[u][f[u]].keys)
  <2>1. f[u] \in 1 .. Len(input[u]) /\ RowUsed(input, u, f[u])
    BY <1>3, MatchesAre DEF RowUsed
  <2>2. RowKept(u, f[u])
    BY <1>2, <2>1 DEF RowFiltered
  <2> QED BY <2>1, <2>2, <1>3, NoZeroRows DEF RowKept
<1> QED BY <1>5, <1>6, <1>7 DEF UsedRows

LEMMA RootIsInner == ~IsLeaf(Root) <=> N > 1
<1>1. N \in Nat \ {0} /\ Root \in Node /\ Node = 0 .. N - 1
  BY TreeAssumption DEF Node
<1>2. ASSUME ~IsLeaf(Root) PROVE N > 1
  <2>1. PICK c \in ChildSet(Root) : TRUE
    BY <1>2 DEF IsLeaf
  <2>2. c \in Node /\ c # Root
    BY <2>1, <1>1, ChildFacts, ParentFacts DEF NonRoot
  <2> QED BY <2>2, <1>1
<1>3. ASSUME N > 1 PROVE ~IsLeaf(Root)
  <2>1. PICK u \in Node : u # Root
    <3>1. 0 \in Node /\ 1 \in Node
      BY <1>1, <1>3
    <3> QED BY <3>1
  <2>2. u \in Subtree[Root]
    BY RootSubtree
  <2>3. Subtree[Root] = {Root} \cup UNION {Subtree[c] : c \in ChildSet(Root)}
    BY <1>1, SubtreeOf
  <2> QED BY <2>1, <2>2, <2>3 DEF IsLeaf
<1> QED BY <1>2, <1>3

-----------------------------------------------------------------------------
(* The tree and the bags of ObliYan are those of the module it is          *)
(* instantiated in.                                                        *)
LEMMA ObliYanTree ==
  /\ O!Node = Node /\ O!MaxDepth = MaxDepth
  /\ \A u : O!ChildSet(u) = ChildSet(u)
  /\ \A s : O!Reverse(s) = Reverse(s)
  /\ \A s : O!FlattenSeq(s) = FlattenSeq(s)
  /\ O!BfsOrder = BfsOrder
<1>1. O!Node = Node
  BY DEF O!Node, Node
<1>3. O!Depth = Depth
  BY DEF O!Depth, Depth, O!Node, Node
<1>4. O!MaxDepth = MaxDepth
  BY <1>1, <1>3 DEF O!MaxDepth, MaxDepth, O!Max, Max
<1>5. \A u : O!ChildSet(u) = ChildSet(u)
  BY <1>1 DEF O!ChildSet, ChildSet
<1>7. ASSUME NEW s PROVE O!Cardinality(s) = Cardinality(s)
  BY Zenon DEF O!Cardinality, Cardinality
<1>8. \A u : O!children(u) = children(u)
  <2> TAKE u
  <2>1. O!ChildSet(u) = ChildSet(u)
    BY <1>5
  <2>2. O!Cardinality(ChildSet(u)) = Cardinality(ChildSet(u))
    BY <1>7
  <2> QED BY <2>1, <2>2, Zenon DEF O!children, children
<1>9. ASSUME NEW s PROVE O!FlattenSeq(s) = FlattenSeq(s)
  BY Zenon DEF O!FlattenSeq, FlattenSeq
<1>10. O!buildLevels = buildLevels
  BY <1>8, <1>9, Zenon DEF O!buildLevels, buildLevels
<1>11. O!BfsOrder = BfsOrder
  BY <1>4, <1>9, <1>10, Zenon DEF O!BfsOrder, BfsOrder
<1>12. ASSUME NEW s PROVE O!Reverse(s) = Reverse(s)
  BY DEF O!Reverse, Reverse
<1> QED BY <1>1, <1>4, <1>5, <1>9, <1>11, <1>12

(* The rows of R that find their key a in column b of a row of T.          *)
SemiJoined(R, a, T, b) == {r \in R : r[a] # 0 /\ \E s \in T : s[b] = r[a]}

Advances(pass, order) ==
  IF Len(todo) = 1 THEN stage' = pass /\ todo' = order ELSE stage' = stage /\ todo' = Tail(todo)

LEMMA ObliSemiJoin ==
  \A R, a, T, b : DOMAIN O!SemiJoin(R, a, T, b) = SemiJoined(DOMAIN R, a, DOMAIN T, b)
BY DEF O!SemiJoin, O!Restricted, SemiJoined

LEMMA ObliInitIs ==
  ASSUME O!Init
  PROVE  /\ stage = "up" /\ todo = Reverse(BfsOrder) /\ DOMAIN tables = Node
         /\ \A u \in Node : DOMAIN tables[u] = {v \in {input[u][i].keys : i \in DOMAIN input[u]} : ~isBottom(v)}
<1>1. stage = "up" /\ todo = Reverse(BfsOrder)
  BY ObliYanTree DEF O!Init, O!bottomUpOrder
<1>2. tables = [u \in Node |-> O!NonBottom(O!BagOfRows(input[u]))]
  BY ObliYanTree DEF O!Init
<1>3. ASSUME NEW rows
      PROVE  DOMAIN O!NonBottom(O!BagOfRows(rows)) = {v \in {rows[i].keys : i \in DOMAIN rows} : ~isBottom(v)}
  <2>1. \A v : O!isBottom(v) = isBottom(v)
    BY DEF O!isBottom, isBottom
  <2>2. DOMAIN O!BagOfRows(rows) = {rows[i].keys : i \in DOMAIN rows}
    BY DEF O!BagOfRows
  <2> QED BY <2>1, <2>2, Zenon DEF O!NonBottom, O!Restricted
<1> QED BY <1>1, <1>2, <1>3, Zenon

LEMMA ObliUpIs ==
  ASSUME O!UpFilter, DOMAIN tables = Node, Head(todo) \in Node
  PROVE  LET u == Head(todo) IN
         /\ stage = "up" /\ input' = input /\ DOMAIN tables' = Node
         /\ u = Root => tables' = tables
         /\ u # Root =>
              /\ \A v \in Node : v # Parent[u] => tables'[v] = tables[v]
              /\ DOMAIN tables'[Parent[u]] =
                   SemiJoined(DOMAIN tables[Parent[u]], ColInParent[u], DOMAIN tables[u], ColInChild[u])
         /\ Advances("down", BfsOrder)
<1> DEFINE u == Head(todo)
<1>1. /\ stage = "up" /\ input' = input
      /\ tables' = IF u = Root THEN tables
                   ELSE [tables EXCEPT ![Parent[u]] =
                           O!SemiJoin(tables[Parent[u]], ColInParent[u], tables[u], ColInChild[u])]
  BY DEF O!UpFilter
<1>2. Advances("down", BfsOrder)
  BY ObliYanTree DEF O!UpFilter, O!Advance, O!downOrder, Advances
<1>3. u # Root => Parent[u] \in Node
  BY ParentFacts DEF NonRoot
<1> HIDE DEF u
<1>4. u # Root => /\ tables' = [tables EXCEPT ![Parent[u]] =
                        O!SemiJoin(tables[Parent[u]], ColInParent[u], tables[u], ColInChild[u])]
                  /\ DOMAIN tables' = Node
                  /\ tables'[Parent[u]] = O!SemiJoin(tables[Parent[u]], ColInParent[u], tables[u], ColInChild[u])
                  /\ \A v \in Node : v # Parent[u] => tables'[v] = tables[v]
  BY <1>1, <1>3
<1> QED BY <1>1, <1>2, <1>4, ObliSemiJoin DEF u

LEMMA ObliDownIs ==
  ASSUME O!DownFilter
  PROVE  LET u == Head(todo) IN
         /\ stage = "down" /\ input' = input /\ DOMAIN tables' = Node
         /\ \A v \in Node : v \notin ChildSet(u) => tables'[v] = tables[v]
         /\ \A v \in Node : v \in ChildSet(u) =>
              DOMAIN tables'[v] =
                SemiJoined(DOMAIN tables[v], ColInChild[v], DOMAIN tables[u], ColInParent[v])
         /\ Advances("join", Reverse(BfsOrder))
<1> DEFINE u == Head(todo)
<1>1. /\ stage = "down" /\ input' = input
      /\ tables' = [v \in Node |->
           IF v \in ChildSet(u) THEN O!SemiJoin(tables[v], ColInChild[v], tables[u], ColInParent[v])
                                ELSE tables[v]]
  BY ObliYanTree DEF O!DownFilter
<1>2. Advances("join", Reverse(BfsOrder))
  BY ObliYanTree DEF O!DownFilter, O!Advance, O!bottomUpOrder, Advances
<1> HIDE DEF u
<1> QED BY <1>1, <1>2, ObliSemiJoin DEF u

LEMMA ObliJoinIs ==
  ASSUME O!JoinEdge, DOMAIN tables = Node
  PROVE  /\ stage = "join" /\ input' = input /\ DOMAIN tables' = Node
         /\ Advances("finish", <<>>)
BY DEF O!JoinEdge, O!Advance, Advances

LEMMA ObliFinishIs ==
  ASSUME O!Finish
  PROVE  /\ stage = "finish" /\ stage' = "done" /\ input' = input /\ tables' = tables /\ todo' = todo
BY DEF O!Finish

-----------------------------------------------------------------------------
(* The orders in which the passes visit the nodes. *)

LEMMA FirstAndRest ==
  ASSUME NEW s \in Seq(Node), s # <<>>
  PROVE  /\ Head(s) \in Node /\ Tail(s) \in Seq(Node) /\ Len(s) \in Nat
         /\ Len(Tail(s)) = Len(s) - 1 /\ (Len(s) = 1 \/ Tail(s) # <<>>)
         /\ \A u : Named(s, u) <=> u = Head(s) \/ Named(Tail(s), u)
         /\ Descending(s) => Descending(Tail(s)) /\ \A u : Named(s, u) => Depth[u] <= Depth[Head(s)]
         /\ Ascending(s) => Ascending(Tail(s)) /\ \A u : Named(s, u) => Depth[u] >= Depth[Head(s)]
<1>1. /\ Head(s) \in Node /\ Tail(s) \in Seq(Node) /\ Len(s) \in Nat /\ Len(s) > 0
      /\ Len(Tail(s)) = Len(s) - 1 /\ Head(s) = s[1]
      /\ \A k \in 1 .. Len(s) - 1 : Tail(s)[k] = s[k + 1]
  OBVIOUS
<1>2. Len(s) = 1 \/ Tail(s) # <<>>
  <2>1. PICK t : t = Tail(s)
    OBVIOUS
  <2>2. t \in Seq(Node) /\ Len(t) = Len(s) - 1
    BY <1>1, <2>1
  <2>3. t = <<>> => Len(t) = 0
    OBVIOUS
  <2> QED BY <1>1, <2>1, <2>2, <2>3
<1>3. \A k \in 1 .. Len(s) : k = 1 \/ (k - 1 \in 1 .. Len(s) - 1 /\ Tail(s)[k - 1] = s[k])
  BY <1>1
<1>4. \A u : Named(s, u) <=> u = Head(s) \/ Named(Tail(s), u)
  <2>1. ASSUME NEW u, Named(s, u) PROVE u = Head(s) \/ Named(Tail(s), u)
    BY <1>1, <1>3, <2>1 DEF Named
  <2>2. ASSUME NEW u, Named(Tail(s), u) PROVE Named(s, u)
    <3>1. PICK k \in 1 .. Len(s) - 1 : Tail(s)[k] = u
      BY <1>1, <2>2 DEF Named
    <3>2. s[k + 1] = u /\ k + 1 \in 1 .. Len(s)
      BY <1>1, <3>1
    <3> QED BY <3>2 DEF Named
  <2>3. Named(s, Head(s))
    BY <1>1 DEF Named
  <2> QED BY <2>1, <2>2, <2>3
<1>5. ASSUME Descending(s)
      PROVE  Descending(Tail(s)) /\ \A u : Named(s, u) => Depth[u] <= Depth[Head(s)]
  <2>1. \A k, l \in 1 .. Len(s) : k <= l => Depth[s[k]] >= Depth[s[l]]
    BY <1>5 DEF Descending
  <2>2. ASSUME NEW k \in 1 .. Len(s) - 1, NEW l \in 1 .. Len(s) - 1, k <= l
        PROVE  Depth[Tail(s)[k]] >= Depth[Tail(s)[l]]
    <3>1. k + 1 \in 1 .. Len(s) /\ l + 1 \in 1 .. Len(s) /\ k + 1 <= l + 1
      BY <1>1, <2>2
    <3> QED BY <1>1, <2>1, <3>1
  <2>3. ASSUME NEW k \in 1 .. Len(s) PROVE Depth[s[k]] <= Depth[Head(s)]
    <3>1. 1 \in 1 .. Len(s) /\ 1 <= k
      BY <1>1
    <3>2. Depth[s[1]] \in Nat /\ Depth[s[k]] \in Nat
      <4>1. s[1] \in Node /\ s[k] \in Node
        BY <1>1
      <4> QED BY <4>1, DepthType
    <3>3. Depth[s[1]] >= Depth[s[k]]
      BY <2>1, <3>1
    <3> QED BY <1>1, <3>2, <3>3
  <2> QED BY <1>1, <2>2, <2>3 DEF Descending, Named
<1>6. ASSUME Ascending(s)
      PROVE  Ascending(Tail(s)) /\ \A u : Named(s, u) => Depth[u] >= Depth[Head(s)]
  <2>1. \A k, l \in 1 .. Len(s) : k <= l => Depth[s[k]] <= Depth[s[l]]
    BY <1>6 DEF Ascending
  <2>2. ASSUME NEW k \in 1 .. Len(s) - 1, NEW l \in 1 .. Len(s) - 1, k <= l
        PROVE  Depth[Tail(s)[k]] <= Depth[Tail(s)[l]]
    <3>1. k + 1 \in 1 .. Len(s) /\ l + 1 \in 1 .. Len(s) /\ k + 1 <= l + 1
      BY <1>1, <2>2
    <3> QED BY <1>1, <2>1, <3>1
  <2>3. ASSUME NEW k \in 1 .. Len(s) PROVE Depth[s[k]] >= Depth[Head(s)]
    <3>1. 1 \in 1 .. Len(s) /\ 1 <= k
      BY <1>1
    <3>2. Depth[s[1]] \in Nat /\ Depth[s[k]] \in Nat
      <4>1. s[1] \in Node /\ s[k] \in Node
        BY <1>1
      <4> QED BY <4>1, DepthType
    <3>3. Depth[s[1]] <= Depth[s[k]]
      BY <2>1, <3>1
    <3> QED BY <1>1, <3>2, <3>3
  <2> QED BY <1>1, <2>2, <2>3 DEF Ascending, Named
<1> QED BY <1>1, <1>2, <1>4, <1>5, <1>6

LEMMA Reversed ==
  ASSUME NEW s \in Seq(Node)
  PROVE  /\ Reverse(s) \in Seq(Node) /\ Len(Reverse(s)) = Len(s)
         /\ \A u : Named(s, u) => Named(Reverse(s), u)
         /\ Ascending(s) => Descending(Reverse(s))
<1>1. Reverse(s) = [i \in 1 .. Len(s) |-> s[(Len(s) - i) + 1]]
  BY DEF Reverse
<1>2. Len(s) \in Nat /\ \A i \in 1 .. Len(s) : (Len(s) - i) + 1 \in 1 .. Len(s) /\ s[i] \in Node
  OBVIOUS
<1>3. Reverse(s) \in Seq(Node) /\ Len(Reverse(s)) = Len(s)
  BY <1>1, <1>2
<1>4. ASSUME NEW u, Named(s, u) PROVE Named(Reverse(s), u)
  <2>1. PICK k \in 1 .. Len(s) : s[k] = u
    BY <1>4 DEF Named
  <2>2. PICK i \in 1 .. Len(s) : i = (Len(s) - k) + 1
    BY <1>2
  <2>3. (Len(s) - i) + 1 = k
    BY <1>2, <2>2
  <2>4. Reverse(s)[i] = u
    BY <1>1, <2>1, <2>3
  <2> QED BY <1>3, <2>4 DEF Named
<1>5. ASSUME Ascending(s) PROVE Descending(Reverse(s))
  <2>1. \A k, l \in 1 .. Len(s) : k <= l => Depth[s[k]] <= Depth[s[l]]
    BY <1>5 DEF Ascending
  <2>2. ASSUME NEW k \in 1 .. Len(s), NEW l \in 1 .. Len(s), k <= l
        PROVE  Depth[Reverse(s)[k]] >= Depth[Reverse(s)[l]]
    <3>1. PICK a \in 1 .. Len(s) : a = (Len(s) - k) + 1
      BY <1>2
    <3>2. PICK b \in 1 .. Len(s) : b = (Len(s) - l) + 1
      BY <1>2
    <3>3. b <= a
      BY <1>2, <2>2, <3>1, <3>2
    <3>4. Reverse(s)[k] = s[a] /\ Reverse(s)[l] = s[b]
      BY <1>1, <3>1, <3>2
    <3>5. Depth[s[a]] \in Nat /\ Depth[s[b]] \in Nat
      BY <1>2, DepthType
    <3> QED BY <2>1, <3>3, <3>4, <3>5
  <2> QED BY <1>3, <2>2 DEF Descending
<1> QED BY <1>3, <1>4, <1>5

-----------------------------------------------------------------------------
(* A row has answers below it if every child has one for it, and a child   *)
(* has if one of its rows that joins has answers below it.                 *)
LEMMA CountedByChildren ==
  ASSUME NEW db, Database(db), NEW u \in Node, NEW i \in 1 .. Len(db[u])
  PROVE  SubtreeCount(db, u, i) # 0 <=> \A c \in ChildSet(u) : Below(db, c, i) # {}
<1> DEFINE S == ChildSet(u)
<1>1. PICK H : H = [c \in S |-> Below(db, c, i)]
  OBVIOUS
<1>2. \A c \in S : H[c] = Below(db, c, i) /\ c \in Node
  BY <1>1, ChildFacts, ParentFacts
<1>3. Cardinality(Using(db, u, i)) = Cardinality(Picks(H, S))
  BY <1>2, SubtreeAnswers
<1>4. \A c \in S : IsFiniteSet(H[c])
  BY <1>2, UsingFinite
<1>5. IsFiniteSet(S)
  BY NodesFinite DEF ChildSet
<1>6. IsFiniteSet(Picks(H, S))
  <2>1. PICK w : w = [c \in S |-> Cardinality(H[c])]
    OBVIOUS
  <2>2. \A c \in S : w[c] = Cardinality(H[c])
    BY <2>1
  <2> HIDE DEF S
  <2> QED BY <1>4, <1>5, <2>2, ProductIsChoices
<1>7. Cardinality(Picks(H, S)) = 0 <=> Picks(H, S) = {}
  BY <1>6, FS_EmptySet
<1>8. ASSUME \A c \in S : H[c] # {} PROVE Picks(H, S) # {}
  <2>1. [c \in S |-> CHOOSE g : g \in H[c]] \in Picks(H, S)
    BY <1>8 DEF Picks, Together
  <2> QED BY <2>1
<1>9. ASSUME Picks(H, S) # {}, NEW c \in S PROVE H[c] # {}
  BY <1>9 DEF Picks
<1> QED BY <1>2, <1>3, <1>7, <1>8, <1>9 DEF Using, SubtreeCount

LEMMA BelowByRow ==
  ASSUME NEW db, Database(db), NEW c \in NonRoot, NEW i
  PROVE  Below(db, c, i) # {} <=>
           \E j \in 1 .. Len(db[c]) : SubtreeCount(db, c, j) # 0 /\ Joins(c, db[Parent[c]][i], db[c][j])
<1>1. c \in Node /\ Subtree[c] \subseteq Node /\ c \in Subtree[c]
  BY ParentFacts, SubtreeFacts
<1>2. \A f \in Matches(db, Subtree[c]) : f[c] \in 1 .. Len(db[c])
  BY <1>1, MatchesAre
<1>3. ASSUME NEW f \in Below(db, c, i)
      PROVE  /\ f[c] \in 1 .. Len(db[c]) /\ SubtreeCount(db, c, f[c]) # 0
             /\ Joins(c, db[Parent[c]][i], db[c][f[c]])
  <2>1. f \in Matches(db, Subtree[c]) /\ Joins(c, db[Parent[c]][i], db[c][f[c]])
    BY DEF Below
  <2> QED BY <2>1, <1>1, <1>2, CountedMeans
<1>4. ASSUME NEW j \in 1 .. Len(db[c]), SubtreeCount(db, c, j) # 0, Joins(c, db[Parent[c]][i], db[c][j])
      PROVE  Below(db, c, i) # {}
  <2>1. PICK f \in Matches(db, Subtree[c]) : f[c] = j
    BY <1>1, <1>4, CountedMeans
  <2>2. f \in Below(db, c, i)
    BY <2>1, <1>4 DEF Below
  <2> QED BY <2>2
<1> QED BY <1>3, <1>4

-----------------------------------------------------------------------------
(* ObliYan's pass up the tree: a table has lost no row with answers below  *)
(* it, and has no row without partners in a child that is done.            *)
ObliControl ==
  /\ stage \in {"up", "down", "join", "finish", "done"}
  /\ DOMAIN tables = Node
  /\ stage \in {"up", "down", "join"} =>
       todo \in Seq(Node) /\ todo # <<>> /\ Len(todo) <= Len(BfsOrder)
  /\ stage = "up" => Descending(todo)
  /\ stage = "down" => Ascending(todo)

KeysAt(u, i) == input[u][i].keys

UpDone(ts, rest) ==
  \A u \in Node :
    /\ \A r \in DOMAIN ts[u] : \E i \in 1 .. Len(input[u]) :
         r = KeysAt(u, i) /\ \A c \in ChildSet(u) : ~Named(rest, c) => Below(input, c, i) # {}
    /\ \A i \in 1 .. Len(input[u]) : SubtreeCount(input, u, i) # 0 => KeysAt(u, i) \in DOMAIN ts[u]

(* Its pass down: a table has lost no row of an answer, and only rows of   *)
(* answers once the parent is done.                                        *)
DownDone(ts, rest) ==
  \A u \in Node :
    /\ \A r \in DOMAIN ts[u] : \E i \in 1 .. Len(input[u]) :
         /\ r = KeysAt(u, i) /\ SubtreeCount(input, u, i) # 0
         /\ u # Root /\ ~Named(rest, Parent[u]) => RowUsed(input, u, i)
    /\ \A i \in 1 .. Len(input[u]) : RowUsed(input, u, i) => KeysAt(u, i) \in DOMAIN ts[u]

Reduced(ts) == \A u \in Node : DOMAIN ts[u] = UsedRows(input, u)

ObliPasses ==
  /\ ObliControl
  /\ ~HasZeroKey(input) =>
       /\ stage = "up" => UpDone(tables, todo)
       /\ stage = "down" => DownDone(tables, todo)
       /\ stage = "join" /\ Len(todo) = Len(BfsOrder) => Reduced(tables)

LEMMA OrderFacts ==
  /\ BfsOrder \in Seq(Node) /\ BfsOrder # <<>> /\ Ascending(BfsOrder) /\ Len(BfsOrder) \in Nat
  /\ \A u \in Node : Named(BfsOrder, u)
  /\ Reverse(BfsOrder) \in Seq(Node) /\ Reverse(BfsOrder) # <<>> /\ Descending(Reverse(BfsOrder))
  /\ Len(Reverse(BfsOrder)) = Len(BfsOrder)
  /\ \A u \in Node : Named(Reverse(BfsOrder), u)
<1>1. PICK s : s = BfsOrder
  OBVIOUS
<1>2. s \in Seq(Node) /\ Ascending(s) /\ \A u \in Node : Named(s, u)
  BY <1>1, BfsOrderIs
<1>3. PICK t : t = Reverse(s)
  OBVIOUS
<1>4. /\ t \in Seq(Node) /\ Len(t) = Len(s) /\ Descending(t)
      /\ \A u \in Node : Named(t, u)
  BY <1>2, <1>3, Reversed
<1>5. Len(s) \in Nat /\ Len(s) # 0
  <2>1. Root \in Node
    BY TreeAssumption
  <2> QED BY <1>2, <2>1 DEF Named
<1>6. s # <<>> /\ t # <<>>
  BY <1>2, <1>4, <1>5
<1> QED BY <1>1, <1>2, <1>3, <1>4, <1>5, <1>6

LEMMA NobodyLeft ==
  ASSUME NEW s \in Seq(Node), Len(s) = 1
  PROVE  \A u : ~Named(Tail(s), u)
<1>1. s # <<>>
  <2>1. s = <<>> => Len(s) = 0
    OBVIOUS
  <2> QED BY <2>1
<1>2. PICK t : t = Tail(s)
  OBVIOUS
<1>3. Len(t) = 0
  BY <1>1, <1>2, FirstAndRest
<1>4. 1 .. Len(t) = {}
  BY <1>3
<1> QED BY <1>2, <1>4 DEF Named

LEMMA ObliInit ==
  ASSUME O!Init, Called, ~IsLeaf(Root)
  PROVE  ObliPasses
<1>1. /\ stage = "up" /\ todo = Reverse(BfsOrder) /\ DOMAIN tables = Node
      /\ \A u \in Node : DOMAIN tables[u] = {v \in {input[u][i].keys : i \in DOMAIN input[u]} : ~isBottom(v)}
  BY ObliInitIs
<1>2. IsInput(input)
  BY InputsAre DEF Called
<1>3. \A u \in Node : DOMAIN input[u] = 1 .. Len(input[u])
  BY <1>2, InputIsDatabase
<1>4. ObliControl
  BY <1>1, OrderFacts DEF ObliControl
<1>5. ASSUME ~HasZeroKey(input) PROVE UpDone(tables, todo)
  <2>1. \A u \in Node : \A c \in ChildSet(u) : Named(todo, c)
    BY <1>1, OrderFacts, ChildFacts, ParentFacts
  <2>2. \A u \in Node : \A i \in 1 .. Len(input[u]) : ~isBottom(input[u][i].keys)
    BY <1>2, <1>5, NoZeroRows
  <2> QED BY <1>1, <1>3, <2>1, <2>2 DEF UpDone, KeysAt
<1> QED BY <1>1, <1>4, <1>5 DEF ObliPasses

(* One iteration of the pass up. *)
LEMMA UpIteration ==
  ASSUME Called, ObliControl, stage = "up", ~HasZeroKey(input), UpDone(tables, todo), O!UpFilter
  PROVE  UpDone(tables', Tail(todo))
<1> DEFINE c == Head(todo)
           rest == Tail(todo)
           p == Parent[c]
<1>1. /\ todo \in Seq(Node) /\ todo # <<>> /\ Descending(todo) /\ DOMAIN tables = Node
  BY DEF ObliControl
<1>2. /\ c \in Node /\ \A u : Named(todo, u) <=> u = c \/ Named(rest, u)
      /\ \A u : Named(todo, u) => Depth[u] <= Depth[c]
  BY <1>1, FirstAndRest
<1>3. /\ c = Root => tables' = tables
      /\ c # Root =>
              /\ \A v \in Node : v # p => tables'[v] = tables[v]
              /\ DOMAIN tables'[p] =
                   SemiJoined(DOMAIN tables[p], ColInParent[c], DOMAIN tables[c], ColInChild[c])
  BY <1>1, <1>2, ObliUpIs
<1>4. IsInput(input) /\ Database(input)
  BY InputsAre, InputIsDatabase DEF Called
<1> HIDE DEF c, rest, p
<1>5. ASSUME NEW u \in Node
      PROVE  /\ \A r \in DOMAIN tables[u] : \E i \in 1 .. Len(input[u]) :
                  r = KeysAt(u, i) /\ \A d \in ChildSet(u) : ~Named(todo, d) => Below(input, d, i) # {}
             /\ \A i \in 1 .. Len(input[u]) : SubtreeCount(input, u, i) # 0 => KeysAt(u, i) \in DOMAIN tables[u]
  BY DEF UpDone
<1>6. ASSUME NEW u \in Node
      PROVE  /\ \A r \in DOMAIN tables'[u] : \E i \in 1 .. Len(input[u]) :
                  r = KeysAt(u, i) /\ \A d \in ChildSet(u) : ~Named(rest, d) => Below(input, d, i) # {}
             /\ \A i \in 1 .. Len(input[u]) : SubtreeCount(input, u, i) # 0 => KeysAt(u, i) \in DOMAIN tables'[u]
  <2>1. CASE c = Root \/ u # p
    <3>1. tables'[u] = tables[u]
      BY <1>3, <2>1
    <3>2. \A d \in ChildSet(u) : ~Named(rest, d) => ~Named(todo, d)
      <4>1. \A d \in ChildSet(u) : d # c
        BY <2>1, ChildFacts DEF p, NonRoot
      <4> QED BY <4>1, <1>2
    <3> QED BY <1>5, <3>1, <3>2
  <2>2. CASE c # Root /\ u = p
    <3>1. c \in NonRoot /\ Parent[c] = u
      BY <1>2, <2>2 DEF NonRoot, p
    <3>2. DOMAIN tables'[u] = SemiJoined(DOMAIN tables[u], ColInParent[c], DOMAIN tables[c], ColInChild[c])
      BY <1>3, <2>2
    <3>3. ASSUME NEW r \in DOMAIN tables'[u]
          PROVE  \E i \in 1 .. Len(input[u]) :
                   r = KeysAt(u, i) /\ \A d \in ChildSet(u) : ~Named(rest, d) => Below(input, d, i) # {}
      <4>1. /\ r \in DOMAIN tables[u]
            /\ \E s \in DOMAIN tables[c] : s[ColInChild[c]] = r[ColInParent[c]]
        BY <3>2 DEF SemiJoined
      <4>2. PICK i \in 1 .. Len(input[u]) :
              r = KeysAt(u, i) /\ \A d \in ChildSet(u) : ~Named(todo, d) => Below(input, d, i) # {}
        BY <1>5, <4>1
      <4>3. PICK s \in DOMAIN tables[c] : s[ColInChild[c]] = r[ColInParent[c]]
        BY <4>1
      <4>4. PICK j \in 1 .. Len(input[c]) :
              s = KeysAt(c, j) /\ \A d \in ChildSet(c) : ~Named(todo, d) => Below(input, d, j) # {}
        BY <1>2, <1>5, <4>3
      <4>5. ASSUME NEW d \in ChildSet(c) PROVE ~Named(todo, d)
        <5>1. d \in NonRoot /\ Parent[d] = c
          BY <1>2, ChildFacts
        <5>2. Depth[d] = 1 + Depth[c] /\ Depth[c] \in Nat
          BY <1>2, <5>1, ParentFacts, DepthType
        <5> QED BY <1>2, <5>2
      <4>6. SubtreeCount(input, c, j) # 0
        BY <1>2, <1>4, <4>4, <4>5, CountedByChildren
      <4>7. Below(input, c, i) # {}
        BY <1>4, <3>1, <4>2, <4>3, <4>4, <4>6, BelowByRow DEF Joins, KeysAt
      <4> QED BY <1>2, <4>2, <4>7
    <3>4. ASSUME NEW i \in 1 .. Len(input[u]), SubtreeCount(input, u, i) # 0
          PROVE  KeysAt(u, i) \in DOMAIN tables'[u]
      <4>1. c \in ChildSet(u)
        BY <1>2, <3>1 DEF ChildSet
      <4>2. Below(input, c, i) # {}
        BY <1>4, <3>4, <4>1, CountedByChildren
      <4>3. PICK j \in 1 .. Len(input[c]) : SubtreeCount(input, c, j) # 0 /\ Joins(c, input[u][i], input[c][j])
        BY <1>4, <3>1, <4>2, BelowByRow
      <4>4. KeysAt(c, j) \in DOMAIN tables[c] /\ KeysAt(u, i) \in DOMAIN tables[u]
        BY <1>2, <1>5, <3>4, <4>3
      <4>5. KeysAt(u, i)[ColInParent[c]] # 0
        BY <1>4, <3>1, JoinColumns DEF KeysAt
      <4> QED BY <3>2, <4>3, <4>4, <4>5 DEF SemiJoined, Joins, KeysAt
    <3> QED BY <3>3, <3>4
  <2> QED BY <2>1, <2>2
<1> QED BY <1>6 DEF UpDone, rest

(* One iteration of the pass down. *)
LEMMA DownIteration ==
  ASSUME Called, ObliControl, stage = "down", ~HasZeroKey(input), DownDone(tables, todo), O!DownFilter
  PROVE  DownDone(tables', Tail(todo))
<1> DEFINE p == Head(todo)
           rest == Tail(todo)
<1>1. /\ todo \in Seq(Node) /\ todo # <<>> /\ Ascending(todo)
  BY DEF ObliControl
<1>2. /\ p \in Node /\ \A u : Named(todo, u) <=> u = p \/ Named(rest, u)
      /\ \A u : Named(todo, u) => Depth[u] >= Depth[p]
  BY <1>1, FirstAndRest
<1>3. /\ \A v \in Node : v \notin ChildSet(p) => tables'[v] = tables[v]
      /\ \A v \in Node : v \in ChildSet(p) =>
              DOMAIN tables'[v] =
                SemiJoined(DOMAIN tables[v], ColInChild[v], DOMAIN tables[p], ColInParent[v])
  BY ObliDownIs
<1>4. IsInput(input) /\ Database(input)
  BY InputsAre, InputIsDatabase DEF Called
<1> HIDE DEF rest, p
<1>5. ASSUME NEW u \in Node
      PROVE  /\ \A r \in DOMAIN tables[u] : \E i \in 1 .. Len(input[u]) :
                  /\ r = KeysAt(u, i) /\ SubtreeCount(input, u, i) # 0
                  /\ u # Root /\ ~Named(todo, Parent[u]) => RowUsed(input, u, i)
             /\ \A i \in 1 .. Len(input[u]) : RowUsed(input, u, i) => KeysAt(u, i) \in DOMAIN tables[u]
  BY DEF DownDone
<1>6. ASSUME NEW u \in Node
      PROVE  /\ \A r \in DOMAIN tables'[u] : \E i \in 1 .. Len(input[u]) :
                  /\ r = KeysAt(u, i) /\ SubtreeCount(input, u, i) # 0
                  /\ u # Root /\ ~Named(rest, Parent[u]) => RowUsed(input, u, i)
             /\ \A i \in 1 .. Len(input[u]) : RowUsed(input, u, i) => KeysAt(u, i) \in DOMAIN tables'[u]
  <2>1. CASE u \notin ChildSet(p)
    <3>1. tables'[u] = tables[u]
      BY <1>3, <2>1
    <3>2. Parent[u] # p
      BY <2>1 DEF ChildSet
    <3> QED BY <1>2, <1>5, <3>1, <3>2
  <2>2. CASE u \in ChildSet(p)
    <3>1. u \in NonRoot /\ Parent[u] = p
      BY <1>2, <2>2, ChildFacts
    <3>2. DOMAIN tables'[u] = SemiJoined(DOMAIN tables[u], ColInChild[u], DOMAIN tables[p], ColInParent[u])
      BY <1>3, <2>2
    <3>3. ASSUME NEW r \in DOMAIN tables'[u]
          PROVE  \E i \in 1 .. Len(input[u]) :
                   r = KeysAt(u, i) /\ SubtreeCount(input, u, i) # 0 /\ RowUsed(input, u, i)
      <4>1. /\ r \in DOMAIN tables[u]
            /\ \E s \in DOMAIN tables[p] : s[ColInParent[u]] = r[ColInChild[u]]
        BY <3>2 DEF SemiJoined
      <4>2. PICK i \in 1 .. Len(input[u]) : r = KeysAt(u, i) /\ SubtreeCount(input, u, i) # 0
        BY <1>5, <4>1
      <4>3. PICK s \in DOMAIN tables[p] : s[ColInParent[u]] = r[ColInChild[u]]
        BY <4>1
      <4>4. PICK j \in 1 .. Len(input[p]) :
              /\ s = KeysAt(p, j) /\ SubtreeCount(input, p, j) # 0
              /\ p # Root /\ ~Named(todo, Parent[p]) => RowUsed(input, p, j)
        BY <1>2, <1>5, <4>3
      <4>5. RowUsed(input, p, j)
        <5>1. CASE p = Root
          BY <1>4, <4>4, <5>1, RootUsed
        <5>2. CASE p # Root
          <6>1. Depth[p] = 1 + Depth[Parent[p]] /\ Depth[Parent[p]] \in Nat
            BY <1>2, <5>2, ParentFacts, DepthType DEF NonRoot
          <6> QED BY <1>2, <4>4, <5>2, <6>1
        <5> QED BY <5>1, <5>2
      <4>6. Joins(u, input[p][j], input[u][i])
        BY <4>2, <4>3, <4>4 DEF Joins, KeysAt
      <4> QED BY <1>4, <3>1, <4>2, <4>5, <4>6, ChildUsed
    <3>4. ASSUME NEW i \in 1 .. Len(input[u]), RowUsed(input, u, i)
          PROVE  KeysAt(u, i) \in DOMAIN tables'[u]
      <4>1. PICK j : RowUsed(input, p, j) /\ Joins(u, input[p][j], input[u][i])
        BY <1>4, <3>1, <3>4, ChildUsed
      <4>2. j \in 1 .. Len(input[p])
        BY <1>2, <1>4, <4>1, UsedBelow
      <4>3. KeysAt(u, i) \in DOMAIN tables[u] /\ KeysAt(p, j) \in DOMAIN tables[p]
        BY <1>2, <1>5, <3>4, <4>1, <4>2
      <4>4. KeysAt(u, i)[ColInChild[u]] # 0
        BY <1>4, <3>1, JoinColumns DEF KeysAt
      <4> QED BY <3>2, <4>1, <4>3, <4>4 DEF SemiJoined, Joins, KeysAt
    <3> QED BY <3>3, <3>4
  <2> QED BY <2>1, <2>2
<1> QED BY <1>6 DEF DownDone, rest

-----------------------------------------------------------------------------
(* An iteration takes the first node of todo, and the last one sets up the *)
(* next pass.                                                              *)
LEMMA SameOrNext ==
  ASSUME ObliControl, stage \in {"up", "down", "join"}, NEW pass, NEW order, Advances(pass, order)
  PROVE  /\ Len(todo) \in Nat /\ Len(todo) <= Len(BfsOrder) /\ Head(todo) \in Node
         /\ Len(todo) = 1 => stage' = pass /\ todo' = order /\ \A u : ~Named(Tail(todo), u)
         /\ Len(todo) # 1 =>
              /\ stage' = stage /\ todo' = Tail(todo) /\ todo' \in Seq(Node) /\ todo' # <<>>
              /\ Len(todo') = Len(todo) - 1
              /\ Descending(todo) => Descending(todo')
              /\ Ascending(todo) => Ascending(todo')
<1>1. todo \in Seq(Node) /\ todo # <<>> /\ Len(todo) <= Len(BfsOrder)
  BY DEF ObliControl
<1>2. /\ Head(todo) \in Node /\ Tail(todo) \in Seq(Node) /\ Len(todo) \in Nat
      /\ Len(Tail(todo)) = Len(todo) - 1 /\ (Len(todo) = 1 \/ Tail(todo) # <<>>)
      /\ Descending(todo) => Descending(Tail(todo))
      /\ Ascending(todo) => Ascending(Tail(todo))
  BY <1>1, FirstAndRest
<1>3. CASE Len(todo) = 1
  <2>1. stage' = pass /\ todo' = order
    BY <1>3 DEF Advances
  <2>2. \A u : ~Named(Tail(todo), u)
    BY <1>1, <1>3, NobodyLeft
  <2> QED BY <1>1, <1>2, <1>3, <2>1, <2>2
<1>4. CASE Len(todo) # 1
  <2>1. stage' = stage /\ todo' = Tail(todo)
    BY <1>4 DEF Advances
  <2>2. Tail(todo) # <<>>
    BY <1>2, <1>4
  <2> QED BY <1>1, <1>2, <1>4, <2>1, <2>2
<1> QED BY <1>3, <1>4

LEMMA UpPassStep ==
  ASSUME Called, ObliPasses, O!UpFilter
  PROVE  ObliPasses'
<1>1. ObliControl /\ DOMAIN tables = Node /\ IsInput(input) /\ Database(input)
  BY InputsAre, InputIsDatabase DEF ObliPasses, ObliControl, Called
<1>2. stage = "up" /\ Descending(todo)
  BY <1>1 DEF O!UpFilter, ObliControl
<1>3. Advances("down", BfsOrder)
  BY ObliYanTree DEF O!UpFilter, O!Advance, O!downOrder, Advances
<1>4. /\ Len(todo) \in Nat /\ Len(todo) <= Len(BfsOrder) /\ Head(todo) \in Node
      /\ Len(todo) = 1 => stage' = "down" /\ todo' = BfsOrder /\ \A u : ~Named(Tail(todo), u)
      /\ Len(todo) # 1 =>
              /\ stage' = stage /\ todo' = Tail(todo) /\ todo' \in Seq(Node) /\ todo' # <<>>
              /\ Len(todo') = Len(todo) - 1 /\ Descending(todo')
  BY <1>1, <1>2, <1>3, SameOrNext
<1>5. input' = input /\ DOMAIN tables' = Node
  BY <1>1, <1>4, ObliUpIs
<1>6. ObliControl'
  BY <1>2, <1>4, <1>5, OrderFacts DEF ObliControl
<1>7. ASSUME ~HasZeroKey(input) PROVE UpDone(tables', Tail(todo))
  BY <1>1, <1>2, <1>7, UpIteration DEF ObliPasses
<1>8. HasZeroKey(input)' <=> HasZeroKey(input)
  BY <1>5 DEF HasZeroKey
<1>9. CASE Len(todo) = 1
  <2>1. stage' = "down" /\ todo' = BfsOrder
    BY <1>4, <1>9
  <2>2. ASSUME ~HasZeroKey(input) PROVE DownDone(tables, todo)'
    <3>1. ASSUME NEW u \in Node
          PROVE  /\ \A r \in DOMAIN tables'[u] : \E i \in 1 .. Len(input[u]) :
                       r = KeysAt(u, i) /\ \A c \in ChildSet(u) : Below(input, c, i) # {}
                 /\ \A i \in 1 .. Len(input[u]) : SubtreeCount(input, u, i) # 0 => KeysAt(u, i) \in DOMAIN tables'[u]
      BY <1>4, <1>7, <1>9, <2>2 DEF UpDone
    <3>2. \A u \in NonRoot : Named(BfsOrder, Parent[u])
      BY OrderFacts, ParentFacts
    <3>3. ASSUME NEW u \in Node
          PROVE  /\ \A r \in DOMAIN tables'[u] : \E i \in 1 .. Len(input[u]) :
                       /\ r = KeysAt(u, i) /\ SubtreeCount(input, u, i) # 0
                       /\ u # Root /\ ~Named(BfsOrder, Parent[u]) => RowUsed(input, u, i)
                 /\ \A i \in 1 .. Len(input[u]) : RowUsed(input, u, i) => KeysAt(u, i) \in DOMAIN tables'[u]
      <4>1. \A i \in 1 .. Len(input[u]) :
              SubtreeCount(input, u, i) # 0 <=> \A c \in ChildSet(u) : Below(input, c, i) # {}
        BY <1>1, CountedByChildren
      <4>2. \A i \in 1 .. Len(input[u]) : RowUsed(input, u, i) => SubtreeCount(input, u, i) # 0
        BY <1>1, UsedBelow
      <4>3. u # Root => Named(BfsOrder, Parent[u])
        BY <3>2 DEF NonRoot
      <4> QED BY <3>1, <4>1, <4>2, <4>3
    <3>4. \A u, i : KeysAt(u, i)' = KeysAt(u, i)
      BY <1>5 DEF KeysAt
    <3>5. \A u, i : RowUsed(input, u, i)' <=> RowUsed(input, u, i)
      BY <1>5 DEF RowUsed
    <3> QED BY <1>5, <2>1, <3>3, <3>4, <3>5 DEF DownDone
  <2> QED BY <1>6, <1>8, <2>1, <2>2 DEF ObliPasses
<1>10. CASE Len(todo) # 1
  <2>1. stage' = "up" /\ todo' = Tail(todo)
    BY <1>2, <1>4, <1>10
  <2>2. ASSUME ~HasZeroKey(input) PROVE UpDone(tables, todo)'
    <3>1. \A u, i : KeysAt(u, i)' = KeysAt(u, i)
      BY <1>5 DEF KeysAt
    <3> QED BY <1>5, <1>7, <2>1, <2>2, <3>1 DEF UpDone
  <2> QED BY <1>6, <1>8, <2>1, <2>2 DEF ObliPasses
<1> QED BY <1>9, <1>10

LEMMA DownPassStep ==
  ASSUME Called, ObliPasses, O!DownFilter
  PROVE  ObliPasses'
<1>1. ObliControl /\ IsInput(input) /\ Database(input)
  BY InputsAre, InputIsDatabase DEF ObliPasses, ObliControl, Called
<1>2. stage = "down" /\ Ascending(todo)
  BY <1>1 DEF O!DownFilter, ObliControl
<1>3. Advances("join", Reverse(BfsOrder)) /\ input' = input /\ DOMAIN tables' = Node
  BY ObliDownIs
<1>4. /\ Len(todo) \in Nat /\ Len(todo) <= Len(BfsOrder) /\ Head(todo) \in Node
      /\ Len(todo) = 1 => stage' = "join" /\ todo' = Reverse(BfsOrder) /\ \A u : ~Named(Tail(todo), u)
      /\ Len(todo) # 1 =>
              /\ stage' = stage /\ todo' = Tail(todo) /\ todo' \in Seq(Node) /\ todo' # <<>>
              /\ Len(todo') = Len(todo) - 1 /\ Ascending(todo')
  BY <1>1, <1>2, <1>3, SameOrNext
<1>5. ObliControl'
  BY <1>2, <1>3, <1>4, OrderFacts DEF ObliControl
<1>6. ASSUME ~HasZeroKey(input) PROVE DownDone(tables', Tail(todo))
  BY <1>1, <1>2, <1>6, DownIteration DEF ObliPasses
<1>7. HasZeroKey(input)' <=> HasZeroKey(input)
  BY <1>3 DEF HasZeroKey
<1>8. CASE Len(todo) = 1
  <2>1. stage' = "join"
    BY <1>4, <1>8
  <2>2. ASSUME ~HasZeroKey(input) PROVE Reduced(tables)'
    <3>1. ASSUME NEW u \in Node PROVE DOMAIN tables'[u] = UsedRows(input, u)
      <4>1. /\ \A r \in DOMAIN tables'[u] : \E i \in 1 .. Len(input[u]) :
                  /\ r = KeysAt(u, i) /\ SubtreeCount(input, u, i) # 0
                  /\ u # Root => RowUsed(input, u, i)
            /\ \A i \in 1 .. Len(input[u]) : RowUsed(input, u, i) => KeysAt(u, i) \in DOMAIN tables'[u]
        BY <1>4, <1>6, <1>8, <2>2 DEF DownDone
      <4>2. \A i : u = Root /\ SubtreeCount(input, u, i) # 0 => RowUsed(input, u, i)
        BY <1>1, RootUsed
      <4>3. ASSUME NEW r \in DOMAIN tables'[u] PROVE r \in UsedRows(input, u)
        <5>1. PICK i \in 1 .. Len(input[u]) : r = KeysAt(u, i) /\ RowUsed(input, u, i)
          BY <4>1, <4>2
        <5> QED BY <5>1 DEF RowUsed, UsedRows, KeysAt
      <4>4. ASSUME NEW f \in Matches(input, Node) PROVE input[u][f[u]].keys \in DOMAIN tables'[u]
        <5>1. f[u] \in 1 .. Len(input[u]) /\ RowUsed(input, u, f[u])
          BY <1>1, MatchesAre DEF RowUsed
        <5> QED BY <4>1, <5>1 DEF KeysAt
      <4> QED BY <4>3, <4>4 DEF UsedRows
    <3>2. \A u : UsedRows(input, u)' = UsedRows(input, u)
      BY <1>3 DEF UsedRows
    <3> QED BY <3>1, <3>2 DEF Reduced
  <2> QED BY <1>5, <1>7, <2>1, <2>2 DEF ObliPasses
<1>9. CASE Len(todo) # 1
  <2>1. stage' = "down" /\ todo' = Tail(todo)
    BY <1>2, <1>4, <1>9
  <2>2. ASSUME ~HasZeroKey(input) PROVE DownDone(tables, todo)'
    <3>1. \A u, i : KeysAt(u, i)' = KeysAt(u, i)
      BY <1>3 DEF KeysAt
    <3>2. \A u, i : RowUsed(input, u, i)' <=> RowUsed(input, u, i)
      BY <1>3 DEF RowUsed
    <3> QED BY <1>3, <1>6, <2>1, <2>2, <3>1, <3>2 DEF DownDone
  <2> QED BY <1>5, <1>7, <2>1, <2>2 DEF ObliPasses
<1> QED BY <1>8, <1>9

LEMMA ObliPassesStep ==
  ASSUME Called, ObliPasses, O!Next
  PROVE  ObliPasses'
<1>1. ObliControl /\ DOMAIN tables = Node
  BY DEF ObliPasses, ObliControl
<1>2. ASSUME O!JoinEdge PROVE ObliPasses'
  <2>1. stage = "join" /\ Advances("finish", <<>>) /\ DOMAIN tables' = Node
    BY <1>1, <1>2, ObliJoinIs
  <2>2. /\ Len(todo) \in Nat /\ Len(todo) <= Len(BfsOrder)
        /\ Len(todo) = 1 => stage' = "finish"
        /\ Len(todo) # 1 =>
              /\ stage' = "join" /\ todo' \in Seq(Node) /\ todo' # <<>> /\ Len(todo') = Len(todo) - 1
    BY <1>1, <2>1, SameOrNext
  <2>3. Len(BfsOrder) \in Nat
    BY OrderFacts
  <2> QED BY <2>1, <2>2, <2>3 DEF ObliPasses, ObliControl
<1>3. ASSUME O!Finish PROVE ObliPasses'
  <2>1. stage' = "done" /\ tables' = tables
    BY <1>3, ObliFinishIs
  <2> QED BY <1>1, <2>1 DEF ObliPasses, ObliControl
<1> QED BY <1>2, <1>3, UpPassStep, DownPassStep DEF O!Next

-----------------------------------------------------------------------------
(* The baselines of one run, whichever it is. *)
Passes ==
  /\ Called
  /\ mode \in {"paryan", "obliyan", "nonoblivious"}
  /\ mode = "paryan" => ParPasses
  /\ mode = "obliyan" => ObliPasses

LEMMA PassesInit ==
  ASSUME Init, ~IsLeaf(Root)
  PROVE  Passes
<1>1. Called
  BY CalledInit
<1>2. \/ mode = "paryan" /\ P!Init
      \/ mode = "obliyan" /\ O!Init
      \/ mode = "nonoblivious"
  BY DEF Init
<1> QED BY <1>1, <1>2, ParPassesInit, ObliInit DEF Passes

(* Nobody writes the input or the size that is wanted. *)
LEMMA CalledStep ==
  ASSUME Called, Next
  PROVE  Called' /\ mode' = mode
<1>1. mode' = mode
  BY DEF Next
<1>2. ASSUME P!Next PROVE input' = input /\ target' = target
  <2>1. ASSUME NEW p \in Node, P!UpSemiJoin(p) PROVE input' = input /\ target' = target
    BY <2>1, UpSemiJoinIs
  <2>2. ASSUME NEW p \in Node, P!UpMultiply(p) PROVE input' = input /\ target' = target
    BY <2>2, UpMultiplyIs
  <2>3. ASSUME NEW p \in Node, P!DownSemiJoin(p) PROVE input' = input /\ target' = target
    BY <2>3, DownSemiJoinIs
  <2>4. ASSUME NEW p \in Node, P!DownFilter(p) PROVE input' = input /\ target' = target
    BY <2>4, DownFilterIs
  <2>5. ASSUME NEW p \in Node, P!JoinChild(p) PROVE input' = input /\ target' = target
    BY <2>5, JoinChildIs
  <2>6. ASSUME P!EndUpLevel PROVE input' = input /\ target' = target
    BY <2>6, EndUpLevelIs
  <2>7. ASSUME P!Materialize PROVE input' = input /\ target' = target
    BY <2>7, MaterializeIs
  <2>8. ASSUME P!EndDownLevel PROVE input' = input /\ target' = target
    BY <2>8, EndDownLevelIs
  <2>9. ASSUME P!EndJoinLevel PROVE input' = input /\ target' = target
    BY <2>9, EndJoinLevelIs
  <2>10. ASSUME P!Reorder PROVE input' = input /\ target' = target
    BY <2>10, ReorderIs
  <2> QED BY <2>1, <2>2, <2>3, <2>4, <2>5, <2>6, <2>7, <2>8, <2>9, <2>10, <1>2, ParYanSteps
<1>3. ASSUME O!Next PROVE input' = input /\ target' = target
  <2>1. ASSUME O!UpFilter PROVE input' = input /\ target' = target
    BY <2>1, Zenon DEF O!UpFilter
  <2>2. ASSUME O!DownFilter PROVE input' = input /\ target' = target
    BY <2>2, Zenon DEF O!DownFilter
  <2>3. ASSUME O!JoinEdge PROVE input' = input /\ target' = target
    BY <2>3, Zenon DEF O!JoinEdge
  <2>4. ASSUME O!Finish PROVE input' = input /\ target' = target
    BY <2>4, Zenon DEF O!Finish
  <2> QED BY <2>1, <2>2, <2>3, <2>4, <1>3 DEF O!Next
<1>4. ASSUME F!Next PROVE input' = input
  <2>1. ASSUME F!Count PROVE input' = input
    BY <2>1, Zenon DEF F!Count
  <2>2. ASSUME F!Size PROVE input' = input
    BY <2>2, Zenon DEF F!Size
  <2>3. ASSUME F!MapChild PROVE input' = input
    BY <2>3, Zenon DEF F!MapChild
  <2>4. ASSUME F!Finish PROVE input' = input
    BY <2>4, Zenon DEF F!Finish
  <2> QED BY <2>1, <2>2, <2>3, <2>4, <1>4 DEF F!Next
<1>5. input' = input /\ target' = target
  BY <1>2, <1>3, <1>4 DEF Next
<1> QED BY <1>1, <1>5 DEF Called
LEMMA PassesStep ==
  ASSUME Passes, ~IsLeaf(Root), [Next]_vars
  PROVE  Passes'
<1>1. CASE Next
  <2>1. Called' /\ mode' = mode
    BY <1>1, CalledStep DEF Passes
  <2>2. /\ mode = "paryan" => P!Next
        /\ mode = "obliyan" => O!Next
    BY <1>1 DEF Next
  <2> QED BY <2>1, <2>2, ParPassesStep, ObliPassesStep DEF Passes
<1>2. CASE UNCHANGED vars
  <2>1. UNCHANGED <<mode, input, target, stage, tables, result, level, pc, vals, outSize, partial,
                    cols, offset, todo, tableOrder>>
    BY <1>2 DEF vars, parVars
  <2>2. Called' /\ mode' = mode
    BY <2>1 DEF Passes, Called
  <2>3. HasZeroKey(input)' <=> HasZeroKey(input)
    BY <2>1 DEF HasZeroKey
  <2>4. ParControl => ParControl'
    BY <2>1 DEF ParControl
  <2>5. ParRows /\ ParSize => ParRows' /\ ParSize'
    BY <2>1 DEF ParRows, ParSize
  <2>6. /\ \A u : Updated(u)' <=> Updated(u)
        /\ \A u, i : IsCounted(u, i)' <=> IsCounted(u, i)
    BY <2>1 DEF Updated, IsCounted
  <2>7. ParCounts => ParCounts'
    BY <2>1, <2>6 DEF ParCounts
  <2>8. ParSums => ParSums'
    BY <2>1 DEF ParSums
  <2>9. \A d, j : DownPartners(d, j)' = DownPartners(d, j)
    BY <2>1 DEF DownPartners
  <2>10. ParProbe => ParProbe'
    BY <2>1, <2>9 DEF ParProbe
  <2>11. ASSUME ParFilter PROVE ParFilter'
    <3>1. \A u : Reached(u)' <=> Reached(u)
      BY <2>1 DEF Reached
    <3>2. stage \notin UpStages => \A u \in Node : \A i \in 1 .. Len(input[u]) : RowFiltered(u, i)'
      BY <2>1, <2>11, <3>1, ParFilterRows, RowUntouched
    <3>3. stage \in UpStages => ParFilter'
      BY <2>1 DEF ParFilter
    <3> QED BY <2>1, <3>2, <3>3, ParFilterNext
  <2>12. ParPasses => ParPasses'
    BY <2>4, <2>5, <2>7, <2>8, <2>10, <2>11 DEF ParPasses
  <2>13. ObliControl => ObliControl'
    BY <2>1 DEF ObliControl
  <2>14. \A u, i : KeysAt(u, i)' = KeysAt(u, i)
    BY <2>1 DEF KeysAt
  <2>15. \A u, i : RowUsed(input, u, i)' <=> RowUsed(input, u, i)
    BY <2>1 DEF RowUsed
  <2>16. \A u : UsedRows(input, u)' = UsedRows(input, u)
    BY <2>1 DEF UsedRows
  <2>17. UpDone(tables, todo) => UpDone(tables, todo)'
    BY <2>1, <2>14 DEF UpDone
  <2>18. DownDone(tables, todo) => DownDone(tables, todo)'
    BY <2>1, <2>14, <2>15 DEF DownDone
  <2>19. Reduced(tables) => Reduced(tables)'
    BY <2>1, <2>16 DEF Reduced
  <2>20. ObliPasses => ObliPasses'
    BY <2>1, <2>3, <2>13, <2>17, <2>18, <2>19 DEF ObliPasses
  <2> QED BY <2>2, <2>12, <2>20 DEF Passes
<1> QED BY <1>1, <1>2

LEMMA PassesReduce ==
  ASSUME Passes, ~IsLeaf(Root)
  PROVE  FullyReduced
<1>1. SUFFICES ASSUME Filtered, ~HasZeroKey(input), NEW u \in Node
      PROVE  {v \in IF mode = "paryan" THEN {r.keys : r \in ToSet(tables[u])} ELSE DOMAIN tables[u] :
                ~isBottom(v)} = UsedRows(input, u)
  BY Zenon DEF FullyReduced
<1>2. CASE mode = "paryan"
  <2>1. stage = "join"
    BY <1>1, <1>2 DEF Filtered
  <2> QED BY <1>1, <1>2, <2>1, ParReduced DEF Passes
<1>3. CASE mode = "obliyan"
  <2>1. stage = "join" /\ todo = Reverse(BfsOrder)
    BY <1>1, <1>3, ObliYanTree DEF Filtered, O!bottomUpOrder
  <2>2. Len(todo) = Len(BfsOrder)
    BY <2>1, OrderFacts
  <2>3. DOMAIN tables[u] = UsedRows(input, u)
    BY <1>1, <1>3, <2>1, <2>2 DEF Passes, ObliPasses, Reduced
  <2>4. IsInput(input) /\ Database(input)
    BY InputsAre, InputIsDatabase DEF Passes, Called
  <2>5. ASSUME NEW f \in Matches(input, Node) PROVE ~isBottom(input[u][f[u]].keys)
    <3>1. f[u] \in 1 .. Len(input[u])
      BY <2>4, MatchesAre
    <3> QED BY <1>1, <2>4, <3>1, NoZeroRows
  <2> QED BY <1>3, <2>3, <2>5 DEF UsedRows
<1>4. mode \in {"paryan", "obliyan"}
  BY <1>1 DEF Filtered
<1> QED BY <1>2, <1>3, <1>4

(* The invariant: what each pass has reached carries its counts or is      *)
(* reduced in the direction of the pass.                                   *)
THEOREM PassesInvariant == N > 1 => (Spec => []Passes)
<1>1. ASSUME N > 1 PROVE (Init => Passes) /\ (Passes /\ [Next]_vars => Passes')
  BY <1>1, RootIsInner, PassesInit, PassesStep
<1>2. CASE N > 1
  <2>1. Init => Passes
    BY <1>1, <1>2
  <2>2. Passes /\ [Next]_vars => Passes'
    BY <1>1, <1>2
  <2>3. Spec => []Passes
    BY <2>1, <2>2, PTL DEF Spec
  <2> QED BY <2>3
<1> QED BY <1>2

(* With at least one edge, a table is fully reduced when both passes of    *)
(* semi-joins are over, in ParYan and in ObliYan: no row is lost that has  *)
(* an answer, and none is kept that has none (the filters of ParYanFilter  *)
(* and ObliYan).                                                           *)
THEOREM FullyReducedTheorem == N > 1 => (Spec => []FullyReduced)
<1>1. CASE N > 1
  <2>1. Spec => []Passes
    BY <1>1, PassesInvariant
  <2>2. Passes => FullyReduced
    BY <1>1, RootIsInner, PassesReduce
  <2>3. Spec => []FullyReduced
    BY <2>1, <2>2, PTL
  <2> QED BY <2>3
<1> QED BY <1>1

-----------------------------------------------------------------------------
(* Bags as the tables of ParYan's joins: what they hold is counted with    *)
(* multiplicity.                                                           *)

(* A bag whose rows stand for disjoint sets has as many elements as those  *)
(* have together.                                                          *)
LEMMA BagTokens ==
  ASSUME NEW B, IsFiniteSet(DOMAIN B), NEW H, \A x \in DOMAIN B : IsFiniteSet(H[x]),
         \A x, y \in DOMAIN B : x # y => H[x] \cap H[y] = {},
         \A x \in DOMAIN B : B[x] = Cardinality(H[x])
  PROVE  /\ IsFiniteSet(Together(H, DOMAIN B))
         /\ BagCardinality(B) = Cardinality(Together(H, DOMAIN B))
<1> DEFINE sum == CHOOSE g : g = [s \in SUBSET (DOMAIN B) |-> IF s = {} THEN 0
                     ELSE B[CHOOSE x \in s : TRUE] + g[s \ {CHOOSE x \in s : TRUE}]]
<1>1. BagCardinality(B) = sum[DOMAIN B]
  BY Zenon DEF BagCardinality
<1>2. /\ IsFiniteSet(Together(H, DOMAIN B))
      /\ \E it : SumOf(it, B, DOMAIN B)
      /\ \A it : SumOf(it, B, DOMAIN B) => it[DOMAIN B] = Cardinality(Together(H, DOMAIN B))
  BY SumIsUnion
<1>3. SumOf(sum, B, DOMAIN B)
  BY <1>2 DEF SumOf
<1> QED BY <1>1, <1>2, <1>3

(* The sum over one element. *)
LEMMA SingleSum ==
  ASSUME NEW w, NEW K, NEW y, K = {y}, w[y] \in Nat
  PROVE  TotalOf(w, K) = w[y]
<1> DEFINE H == [k \in K |-> 1 .. w[y]]
<1>1. IsFiniteSet(1 .. w[y]) /\ Cardinality(1 .. w[y]) = w[y]
  BY FS_Interval
<1>2. IsFiniteSet(K)
  BY FS_Singleton
<1>3. /\ \A k \in K : IsFiniteSet(H[k])
      /\ \A k, l \in K : k # l => H[k] \cap H[l] = {}
      /\ \A k \in K : w[k] = Cardinality(H[k])
  BY <1>1
<1>4. Together(H, K) = 1 .. w[y]
  BY DEF Together
<1> HIDE DEF H
<1>5. TotalOf(w, K) = Cardinality(Together(H, K))
  BY <1>2, <1>3, FunctionSum
<1> QED BY <1>1, <1>4, <1>5

(* A table of rows of the given width. *)
TableBag(B, width) ==
  /\ IsFiniteSet(DOMAIN B)
  /\ \A r \in DOMAIN B : r \in Seq(Int) /\ Len(r) = width /\ B[r] \in Nat \ {0}

LEMMA SameParts ==
  ASSUME NEW r \in Seq(Int), NEW s \in Seq(Int), NEW x \in Seq(Int), NEW y \in Seq(Int),
         Len(r) = Len(x), r \o s = x \o y
  PROVE  r = x /\ s = y
<1>1. Len(s) = Len(y)
  OBVIOUS
<1>2. \A k \in 1 .. Len(r) : r[k] = x[k]
  <2>1. \A k \in 1 .. Len(r) : (r \o s)[k] = r[k] /\ (x \o y)[k] = x[k]
    OBVIOUS
  <2> QED BY <2>1
<1>3. \A k \in 1 .. Len(s) : s[k] = y[k]
  <2>0. r \in Seq(Int) /\ s \in Seq(Int) /\ x \in Seq(Int) /\ y \in Seq(Int)
    OBVIOUS
  <2>1. ASSUME NEW k \in 1 .. Len(s) PROVE (r \o s)[Len(r) + k] = s[k]
    BY ONLY <2>0, <2>1
  <2>2. ASSUME NEW k \in 1 .. Len(y) PROVE (x \o y)[Len(x) + k] = y[k]
    BY ONLY <2>0, <2>2
  <2> QED BY <1>1, <2>1, <2>2
<1>4. /\ r = [k \in 1 .. Len(r) |-> r[k]] /\ x = [k \in 1 .. Len(x) |-> x[k]]
      /\ s = [k \in 1 .. Len(s) |-> s[k]] /\ y = [k \in 1 .. Len(y) |-> y[k]]
  OBVIOUS
<1>5. r = x
  BY <1>2, <1>4
<1>6. s = y
  BY <1>1, <1>3, <1>4
<1> QED BY <1>5, <1>6

(* What a joined table is: the product of the tables on the rows that      *)
(* agree on columns a and b, which are not 0.                              *)
IsMatched(M, R, a, T, b) ==
  /\ \A v \in DOMAIN M : \E r \in DOMAIN R : \E s \in DOMAIN T :
       r[a] # 0 /\ r[a] = s[b] /\ v = r \o s
  /\ \A r \in DOMAIN R : \A s \in DOMAIN T : r[a] # 0 /\ r[a] = s[b] =>
       r \o s \in DOMAIN M /\ M[r \o s] = R[r] * T[s]

(* The joined rows: two rows make one joined row, and the width of the     *)
(* first tells where to take it apart again.                               *)
LEMMA MatchedIs ==
  ASSUME NEW R, NEW T, NEW m, NEW n, TableBag(R, m), TableBag(T, n), NEW a, NEW b,
         NEW M, M = Matched(R, a, T, b)
  PROVE  IsMatched(M, R, a, T, b)
<1> DEFINE Q == [v \in {x \in DOMAIN R : x[a] # 0} |-> R[v]]
           w == [p \in {q \in (DOMAIN Q) \X (DOMAIN T) : q[1][a] = q[2][b]} |-> Q[p[1]] * T[p[2]]]
           Fibre(v) == {x \in DOMAIN w : x[1] \o x[2] = v}
<1>1. M = [v \in {x[1] \o x[2] : x \in DOMAIN w} |-> TotalOf(w, Fibre(v))]
  BY Zenon DEF Matched, PairsOn, ImageBag, Restricted, TotalOf
<1>2. \A x \in DOMAIN w : \E r \in DOMAIN R : \E s \in DOMAIN T :
        x = <<r, s>> /\ r[a] # 0 /\ r[a] = s[b]
  <2>1. /\ DOMAIN Q = {x \in DOMAIN R : x[a] # 0}
        /\ DOMAIN w = {q \in (DOMAIN Q) \X (DOMAIN T) : q[1][a] = q[2][b]}
    BY Zenon
  <2> HIDE DEF Q, w
  <2>2. TAKE x \in DOMAIN w
  <2>3. PICK r \in DOMAIN Q, s \in DOMAIN T : x = <<r, s>>
    BY <2>1
  <2>4. x[1][a] = x[2][b]
    BY <2>1
  <2> QED BY <2>1, <2>3, <2>4
<1>3. \A r \in DOMAIN R : \A s \in DOMAIN T : r[a] # 0 /\ r[a] = s[b] =>
        <<r, s>> \in DOMAIN w /\ w[<<r, s>>] = R[r] * T[s]
  OBVIOUS
<1> HIDE DEF Q, w
<1>4. ASSUME NEW v \in DOMAIN M
      PROVE  \E r \in DOMAIN R : \E s \in DOMAIN T : r[a] # 0 /\ r[a] = s[b] /\ v = r \o s
  <2>1. DOMAIN M = {x[1] \o x[2] : x \in DOMAIN w}
    BY <1>1, Zenon
  <2>2. PICK x \in DOMAIN w : v = x[1] \o x[2]
    BY <2>1, Zenon
  <2>3. PICK r \in DOMAIN R, s \in DOMAIN T : x = <<r, s>> /\ r[a] # 0 /\ r[a] = s[b]
    BY <1>2
  <2>4. x[1] = r /\ x[2] = s
    BY <2>3
  <2>5. v = r \o s
    BY <2>2, <2>4, Zenon
  <2> QED BY <2>3, <2>5
<1>5. ASSUME NEW r \in DOMAIN R, NEW s \in DOMAIN T, r[a] # 0, r[a] = s[b]
      PROVE  r \o s \in DOMAIN M /\ M[r \o s] = R[r] * T[s]
  <2>1. <<r, s>> \in DOMAIN w /\ w[<<r, s>>] = R[r] * T[s]
    BY <1>3, <1>5
  <2>2. r \o s \in DOMAIN M /\ M[r \o s] = TotalOf(w, Fibre(r \o s))
    <3>1. <<r, s>>[1] \o <<r, s>>[2] = r \o s
      OBVIOUS
    <3>2. r \o s \in {x[1] \o x[2] : x \in DOMAIN w}
      BY <2>1, <3>1, Zenon
    <3> QED BY <1>1, <3>2, Zenon
  <2>3. ASSUME NEW x \in Fibre(r \o s) PROVE x = <<r, s>>
    <3>1. PICK u \in DOMAIN R, t \in DOMAIN T : x = <<u, t>>
      BY <1>2, <2>3
    <3>2. u \o t = r \o s
      BY <2>3, <3>1
    <3>3. /\ u \in Seq(Int) /\ t \in Seq(Int) /\ r \in Seq(Int) /\ s \in Seq(Int)
          /\ Len(u) = Len(r)
      BY DEF TableBag
    <3>4. u = r /\ t = s
      BY <3>2, <3>3, SameParts
    <3> QED BY <3>1, <3>4
  <2>4. Fibre(r \o s) = {<<r, s>>}
    <3>1. <<r, s>>[1] \o <<r, s>>[2] = r \o s
      OBVIOUS
    <3>2. <<r, s>> \in Fibre(r \o s)
      BY <2>1, <3>1, Zenon
    <3> HIDE DEF Fibre
    <3> QED BY <2>3, <3>2
  <2>5. R[r] \in Nat /\ T[s] \in Nat
    BY DEF TableBag
  <2>6. w[<<r, s>>] \in Nat
    BY <2>1, <2>5
  <2> HIDE DEF Fibre
  <2>7. TotalOf(w, Fibre(r \o s)) = w[<<r, s>>]
    BY <2>4, <2>6, SingleSum
  <2> QED BY <2>1, <2>2, <2>7
<1> QED BY <1>4, <1>5 DEF IsMatched

-----------------------------------------------------------------------------
(* What the two-way joins put together: rows of a set of relations that    *)
(* join along the edges inside the set, on keys other than 0.              *)
Combined(ts, S) ==
  {f \in Matches(ts, S) : \A c \in S : Parent[c] \in S => ts[c][f[c]].keys[ColInChild[c]] # 0}

Wide(ts) ==
  /\ Database(ts)
  /\ \A u \in Node : \A i \in 1 .. Len(ts[u]) :
       ts[u][i].keys \in Seq(Int) /\ Len(ts[u][i].keys) = tableKeys[u]

LEMMA CombinedFinite ==
  ASSUME NEW ts, Wide(ts), NEW S, S \subseteq Node
  PROVE  IsFiniteSet(Combined(ts, S))
<1>1. IsFiniteSet(Matches(ts, S))
  BY MatchesFinite DEF Wide
<1>2. Combined(ts, S) \subseteq Matches(ts, S)
  BY DEF Combined
<1> QED BY <1>1, <1>2, FS_Subset

(* A and B are connected by the edge above c and by no other. *)
Bridge(A, B, c) ==
  /\ A \subseteq Node /\ B \subseteq Node /\ A \cap B = {}
  /\ c \in NonRoot /\ c \in B /\ Parent[c] \in A
  /\ \A v \in B : v # c => Parent[v] \notin A
  /\ \A v \in A : Parent[v] \notin B

Part(f, S) == [v \in S |-> f[v]]

Takes(h, f, g, A, B) == Part(h, A) = f /\ Part(h, B) = g

Both(f, g, A, B) == [v \in A \cup B |-> IF v \in A THEN f[v] ELSE g[v]]

JoinsNonzero(ts, c, i, j) ==
  Joins(c, ts[Parent[c]][i], ts[c][j]) /\ ts[c][j].keys[ColInChild[c]] # 0

LEMMA CombinedAre ==
  ASSUME NEW ts, Wide(ts), NEW S, S \subseteq Node, NEW f
  PROVE  f \in Combined(ts, S) <=>
           /\ f = [u \in S |-> f[u]]
           /\ \A u \in S : f[u] \in 1 .. Len(ts[u])
           /\ \A u \in S : Parent[u] \in S => JoinsNonzero(ts, u, f[Parent[u]], f[u])
<1>1. f \in Matches(ts, S) <=>
        /\ f = [u \in S |-> f[u]]
        /\ \A u \in S : f[u] \in 1 .. Len(ts[u])
        /\ \A u \in S : Parent[u] \in S => Joins(u, ts[Parent[u]][f[Parent[u]]], ts[u][f[u]])
  BY MatchesAre DEF Wide
<1> QED BY <1>1 DEF Combined, JoinsNonzero

LEMMA CombinedParts ==
  ASSUME NEW ts, Wide(ts), NEW A, NEW B, NEW c, Bridge(A, B, c), NEW h \in Combined(ts, A \cup B)
  PROVE  /\ Part(h, A) \in Combined(ts, A) /\ Part(h, B) \in Combined(ts, B)
         /\ JoinsNonzero(ts, c, Part(h, A)[Parent[c]], Part(h, B)[c])
         /\ h = Both(Part(h, A), Part(h, B), A, B)
<1>1. A \cup B \subseteq Node /\ A \subseteq Node /\ B \subseteq Node
  BY DEF Bridge
<1>2. /\ h = [u \in A \cup B |-> h[u]]
      /\ \A u \in A \cup B : h[u] \in 1 .. Len(ts[u])
      /\ \A u \in A \cup B : Parent[u] \in A \cup B => JoinsNonzero(ts, u, h[Parent[u]], h[u])
  BY <1>1, CombinedAre
<1>3. /\ Part(h, A) = [u \in A |-> Part(h, A)[u]] /\ Part(h, B) = [u \in B |-> Part(h, B)[u]]
      /\ \A u \in A : Part(h, A)[u] = h[u]
      /\ \A u \in B : Part(h, B)[u] = h[u]
  BY DEF Part
<1>4. Part(h, A) \in Combined(ts, A)
  BY <1>1, <1>2, <1>3, CombinedAre
<1>5. Part(h, B) \in Combined(ts, B)
  BY <1>1, <1>2, <1>3, CombinedAre
<1>6. JoinsNonzero(ts, c, Part(h, A)[Parent[c]], Part(h, B)[c])
  BY <1>2, <1>3 DEF Bridge
<1>7. h = Both(Part(h, A), Part(h, B), A, B)
  BY <1>2, <1>3 DEF Both
<1> QED BY <1>4, <1>5, <1>6, <1>7

(* Every combination over both sides of an edge is put together of two.    *)
Splits(ts, A, B) ==
  \A h \in Combined(ts, A \cup B) :
    /\ Part(h, A) \in Combined(ts, A) /\ Part(h, B) \in Combined(ts, B)
    /\ h = Both(Part(h, A), Part(h, B), A, B)

LEMMA CombinedSplits ==
  ASSUME NEW ts, Wide(ts), NEW A, NEW B, NEW c, Bridge(A, B, c)
  PROVE  Splits(ts, A, B)
<1>1. Wide(ts) /\ Bridge(A, B, c)
  OBVIOUS
<1>2. ASSUME NEW h \in Combined(ts, A \cup B)
      PROVE  /\ Part(h, A) \in Combined(ts, A) /\ Part(h, B) \in Combined(ts, B)
             /\ h = Both(Part(h, A), Part(h, B), A, B)
  BY ONLY <1>1, <1>2, CombinedParts
<1> QED BY <1>2 DEF Splits

LEMMA CombinedBoth ==
  ASSUME NEW ts, Wide(ts), NEW A, NEW B, NEW c, Bridge(A, B, c)
  PROVE  \A f \in Combined(ts, A) : \A g \in Combined(ts, B) : JoinsNonzero(ts, c, f[Parent[c]], g[c]) =>
           /\ Both(f, g, A, B) \in Combined(ts, A \cup B)
           /\ Takes(Both(f, g, A, B), f, g, A, B)
<1> SUFFICES ASSUME NEW f \in Combined(ts, A), NEW g \in Combined(ts, B),
                    JoinsNonzero(ts, c, f[Parent[c]], g[c])
             PROVE  /\ Both(f, g, A, B) \in Combined(ts, A \cup B)
                    /\ Takes(Both(f, g, A, B), f, g, A, B)
  OBVIOUS
<1> DEFINE h == Both(f, g, A, B)
<1>1. A \cup B \subseteq Node /\ A \subseteq Node /\ B \subseteq Node /\ A \cap B = {}
  BY DEF Bridge
<1>2. /\ f = [u \in A |-> f[u]]
      /\ \A u \in A : f[u] \in 1 .. Len(ts[u])
      /\ \A u \in A : Parent[u] \in A => JoinsNonzero(ts, u, f[Parent[u]], f[u])
  BY <1>1, CombinedAre
<1>3. /\ g = [u \in B |-> g[u]]
      /\ \A u \in B : g[u] \in 1 .. Len(ts[u])
      /\ \A u \in B : Parent[u] \in B => JoinsNonzero(ts, u, g[Parent[u]], g[u])
  BY <1>1, CombinedAre
<1>4. /\ h = [u \in A \cup B |-> h[u]]
      /\ \A u \in A : h[u] = f[u]
      /\ \A u \in B : h[u] = g[u]
  BY <1>1 DEF Both
<1>5. \A u \in A \cup B : h[u] \in 1 .. Len(ts[u])
  BY <1>2, <1>3, <1>4
<1>6. ASSUME NEW u \in A \cup B, Parent[u] \in A \cup B PROVE JoinsNonzero(ts, u, h[Parent[u]], h[u])
  <2>1. CASE u \in A /\ Parent[u] \in A
    BY <2>1, <1>2, <1>4
  <2>2. CASE u \in B /\ Parent[u] \in B
    BY <2>2, <1>3, <1>4
  <2>3. CASE u \in B /\ Parent[u] \in A
    <3>1. u = c
      BY <2>3 DEF Bridge
    <3> QED BY <3>1, <2>3, <1>4
  <2> QED BY <1>6, <2>1, <2>2, <2>3 DEF Bridge
<1>7. Part(h, A) = f /\ Part(h, B) = g
  BY <1>2, <1>3, <1>4 DEF Part
<1> HIDE DEF h
<1>8. h \in Combined(ts, A \cup B)
  BY <1>1, <1>4, <1>5, <1>6, CombinedAre
<1> QED BY <1>7, <1>8 DEF h, Takes

-----------------------------------------------------------------------------
(* Row x of a joined table has the columns of combination f, those of v    *)
(* behind off[v] others.                                                   *)
HasColumns(ts, S, off, width, f, x) ==
  /\ x \in Seq(Int) /\ Len(x) = width
  /\ \A v \in S : \A k \in 1 .. tableKeys[v] : x[off[v] + k] = ts[v][f[v]].keys[k]

OffsetsFit(S, off, width) ==
  width \in Nat /\ \A v \in S : off[v] \in Nat /\ off[v] + tableKeys[v] <= width

Fibre(ts, S, W, x) == {f \in Combined(ts, S) : W[f] = x}

(* The bag B lists the combinations over S, each as the row W[f].  About   *)
(* rows of zeros it says nothing.                                          *)
Lists(B, ts, S, off, width, W) ==
  /\ TableBag(B, width) /\ OffsetsFit(S, off, width)
  /\ \A f \in Combined(ts, S) : HasColumns(ts, S, off, width, f, W[f])
  /\ \A x \in DOMAIN B : ~isBottom(x) => B[x] = Cardinality(Fibre(ts, S, W, x))
  /\ \A f \in Combined(ts, S) : ~isBottom(W[f]) => W[f] \in DOMAIN B

LEMMA FibreFinite ==
  ASSUME NEW ts, Wide(ts), NEW S, S \subseteq Node, NEW W, NEW x
  PROVE  IsFiniteSet(Fibre(ts, S, W, x)) /\ Cardinality(Fibre(ts, S, W, x)) \in Nat
<1>1. IsFiniteSet(Combined(ts, S))
  BY CombinedFinite
<1>2. Fibre(ts, S, W, x) \subseteq Combined(ts, S)
  BY DEF Fibre
<1>3. IsFiniteSet(Fibre(ts, S, W, x))
  BY <1>1, <1>2, FS_Subset
<1> QED BY <1>3, FS_CardinalityType

(* A row that has been joined is a combination. *)
LEMMA RowsCombine ==
  ASSUME NEW B, NEW ts, Wide(ts), NEW S, S \subseteq Node, NEW off, NEW width, NEW W,
         Lists(B, ts, S, off, width, W), NEW x \in DOMAIN B, ~isBottom(x)
  PROVE  \E f \in Combined(ts, S) : W[f] = x
<1>1. B[x] # 0 /\ B[x] = Cardinality(Fibre(ts, S, W, x))
  BY DEF Lists, TableBag
<1>2. Fibre(ts, S, W, x) # {}
  BY <1>1, FS_EmptySet
<1> QED BY <1>2 DEF Fibre

(* The rows of the parts of a joined row. *)
JoinedRows(ts, A, B, WA, WB) ==
  [h \in Combined(ts, A \cup B) |-> WA[Part(h, A)] \o WB[Part(h, B)]]

LEMMA ConcatenatedColumns ==
  ASSUME NEW ts, Wide(ts), NEW A, NEW B, NEW c, Bridge(A, B, c),
         NEW offA, NEW m, NEW offB, NEW n, OffsetsFit(A, offA, m), OffsetsFit(B, offB, n),
         NEW off, \A v \in A : off[v] = offA[v], \A v \in B : off[v] = m + offB[v],
         NEW h, NEW x, HasColumns(ts, A, offA, m, Part(h, A), x),
         NEW y, HasColumns(ts, B, offB, n, Part(h, B), y)
  PROVE  HasColumns(ts, A \cup B, off, m + n, h, x \o y)
<1>1. x \in Seq(Int) /\ Len(x) = m /\ y \in Seq(Int) /\ Len(y) = n
  BY DEF HasColumns
<1>2. PICK z : z = x \o y
  OBVIOUS
<1>3. /\ z \in Seq(Int) /\ Len(z) = m + n
      /\ \A i \in 1 .. m : z[i] = x[i]
      /\ \A i \in 1 .. n : z[m + i] = y[i]
  <2>1. /\ z \in Seq(Int) /\ Len(z) = Len(x) + Len(y)
        /\ \A i \in 1 .. Len(x) : z[i] = x[i]
        /\ \A i \in 1 .. Len(y) : z[Len(x) + i] = y[i]
    <3>1. x \in Seq(Int) /\ y \in Seq(Int)
      BY <1>1
    <3> QED BY ONLY <3>1, <1>2, Concatenation
  <2>2. Len(x) = m /\ Len(y) = n
    BY <1>1
  <2> QED BY <2>1, <2>2
<1>4. \A v \in A : v \in Node /\ Part(h, A)[v] = h[v]
  BY DEF Part, Bridge
<1>5. \A v \in B : v \in Node /\ Part(h, B)[v] = h[v]
  BY DEF Part, Bridge
<1>6. \A v \in Node : tableKeys[v] \in Nat
  BY InputAssumption
<1>7. ASSUME NEW v \in A, NEW k \in 1 .. tableKeys[v] PROVE z[off[v] + k] = ts[v][h[v]].keys[k]
  <2>1. x[offA[v] + k] = ts[v][h[v]].keys[k]
    BY <1>4 DEF HasColumns
  <2>2. off[v] + k = offA[v] + k /\ offA[v] + k \in 1 .. m
    BY <1>4, <1>6 DEF OffsetsFit
  <2> QED BY <2>1, <2>2, <1>3
<1>8. ASSUME NEW v \in B, NEW k \in 1 .. tableKeys[v] PROVE z[off[v] + k] = ts[v][h[v]].keys[k]
  <2>1. y[offB[v] + k] = ts[v][h[v]].keys[k]
    BY <1>5 DEF HasColumns
  <2>2. off[v] + k = m + (offB[v] + k) /\ offB[v] + k \in 1 .. n
    BY <1>5, <1>6 DEF OffsetsFit
  <2> QED BY <2>1, <2>2, <1>3
<1> QED BY <1>2, <1>3, <1>7, <1>8 DEF HasColumns

(* The combinations behind a joined row are pairs of combinations. *)
LEMMA JoinedFibre ==
  ASSUME NEW ts, Wide(ts), NEW A, NEW B, NEW c, Bridge(A, B, c),
         NEW R, NEW offA, NEW m, NEW WA, Lists(R, ts, A, offA, m, WA),
         NEW T, NEW offB, NEW n, NEW WB, Lists(T, ts, B, offB, n, WB),
         NEW a, a = offA[Parent[c]] + ColInParent[c], NEW b, b = offB[c] + ColInChild[c],
         NEW r \in DOMAIN R, NEW s \in DOMAIN T, r[a] # 0, r[a] = s[b],
         NEW W, W = JoinedRows(ts, A, B, WA, WB)
  PROVE  Cardinality(Fibre(ts, A \cup B, W, r \o s)) =
           Cardinality(Fibre(ts, A, WA, r)) * Cardinality(Fibre(ts, B, WB, s))
<1>0. Wide(ts) /\ Bridge(A, B, c)
  OBVIOUS
<1>a. \A f \in Combined(ts, A) : \A g \in Combined(ts, B) : JoinsNonzero(ts, c, f[Parent[c]], g[c]) =>
        /\ Both(f, g, A, B) \in Combined(ts, A \cup B)
        /\ Takes(Both(f, g, A, B), f, g, A, B)
  BY ONLY <1>0, CombinedBoth
<1>b. \A h \in Combined(ts, A \cup B) :
        /\ Part(h, A) \in Combined(ts, A) /\ Part(h, B) \in Combined(ts, B)
        /\ h = Both(Part(h, A), Part(h, B), A, B)
  <2>1. Splits(ts, A, B)
    BY ONLY <1>0, CombinedSplits
  <2> QED BY <2>1 DEF Splits
<1> DEFINE X == Fibre(ts, A, WA, r) \X Fibre(ts, B, WB, s)
           Y == Fibre(ts, A \cup B, W, r \o s)
           e == [x \in X |-> Both(x[1], x[2], A, B)]
<1>1. Parent[c] \in A /\ c \in B /\ c \in NonRoot /\ A \subseteq Node /\ B \subseteq Node
  BY DEF Bridge
<1>2. /\ r \in Seq(Int) /\ Len(r) = m /\ s \in Seq(Int) /\ Len(s) = n
  BY DEF Lists, TableBag
<1>3. ColInChild[c] \in 1 .. tableKeys[c] /\ ColInParent[c] \in 1 .. tableKeys[Parent[c]]
  BY <1>1, InputAssumption
<1>4. ASSUME NEW f \in Fibre(ts, A, WA, r), NEW g \in Fibre(ts, B, WB, s)
      PROVE  JoinsNonzero(ts, c, f[Parent[c]], g[c])
  <2>1. HasColumns(ts, A, offA, m, f, r) /\ HasColumns(ts, B, offB, n, g, s)
    BY DEF Fibre, Lists
  <2>2. r[a] = ts[Parent[c]][f[Parent[c]]].keys[ColInParent[c]]
    BY <2>1, <1>1, <1>3 DEF HasColumns
  <2>3. s[b] = ts[c][g[c]].keys[ColInChild[c]]
    BY <2>1, <1>1, <1>3 DEF HasColumns
  <2> QED BY <2>2, <2>3 DEF JoinsNonzero, Joins
<1>5. ASSUME NEW f \in Fibre(ts, A, WA, r), NEW g \in Fibre(ts, B, WB, s)
      PROVE  /\ Both(f, g, A, B) \in Y
             /\ Part(Both(f, g, A, B), A) = f /\ Part(Both(f, g, A, B), B) = g
  <2>1. f \in Combined(ts, A) /\ WA[f] = r /\ g \in Combined(ts, B) /\ WB[g] = s
    BY DEF Fibre
  <2>2. /\ Both(f, g, A, B) \in Combined(ts, A \cup B)
        /\ Part(Both(f, g, A, B), A) = f /\ Part(Both(f, g, A, B), B) = g
    BY <1>a, <1>4, <2>1 DEF Takes
  <2>3. W[Both(f, g, A, B)] = r \o s
    BY <2>1, <2>2 DEF JoinedRows
  <2> QED BY <2>2, <2>3 DEF Fibre
<1>6. ASSUME NEW h \in Y
      PROVE  /\ Part(h, A) \in Fibre(ts, A, WA, r) /\ Part(h, B) \in Fibre(ts, B, WB, s)
             /\ h = Both(Part(h, A), Part(h, B), A, B)
  <2>1. h \in Combined(ts, A \cup B) /\ W[h] = r \o s
    BY DEF Fibre
  <2>2. /\ Part(h, A) \in Combined(ts, A) /\ Part(h, B) \in Combined(ts, B)
        /\ h = Both(Part(h, A), Part(h, B), A, B)
    BY <1>b, <2>1
  <2>3. WA[Part(h, A)] \o WB[Part(h, B)] = r \o s
    BY <2>1 DEF JoinedRows
  <2>4. /\ WA[Part(h, A)] \in Seq(Int) /\ Len(WA[Part(h, A)]) = m
        /\ WB[Part(h, B)] \in Seq(Int)
    BY <2>2 DEF Lists, HasColumns
  <2>5. WA[Part(h, A)] = r /\ WB[Part(h, B)] = s
    BY <1>2, <2>3, <2>4, SameParts
  <2> QED BY <2>2, <2>5 DEF Fibre
<1>7. /\ IsFiniteSet(Fibre(ts, A, WA, r)) /\ IsFiniteSet(Fibre(ts, B, WB, s))
  BY <1>1, FibreFinite
<1>8. IsFiniteSet(X) /\ Cardinality(X) = Cardinality(Fibre(ts, A, WA, r)) * Cardinality(Fibre(ts, B, WB, s))
  BY <1>7, FS_Product
<1>9. e \in [X -> Y]
  BY <1>5
<1>10. \A x, y \in X : e[x] = e[y] => x = y
  BY <1>5
<1>11. \A h \in Y : \E x \in X : e[x] = h
  <2> SUFFICES ASSUME NEW h \in Y PROVE \E x \in X : e[x] = h
    OBVIOUS
  <2>1. <<Part(h, A), Part(h, B)>> \in X
    BY <1>6
  <2>2. e[<<Part(h, A), Part(h, B)>>] = h
    BY <1>6, <2>1
  <2> QED BY <2>1, <2>2
<1> HIDE DEF X, Y, e
<1>12. Cardinality(Y) = Cardinality(X)
  BY <1>8, <1>9, <1>10, <1>11, Correspondence
<1> QED BY <1>8, <1>12 DEF Y

(* The rows of two tables that stand for combinations that join agree on   *)
(* the columns a and b, and only those do.                                 *)
LEMMA ColumnsAgree ==
  ASSUME NEW ts, Wide(ts), NEW A, NEW B, NEW c, Bridge(A, B, c),
         NEW offA, NEW m, OffsetsFit(A, offA, m), NEW offB, NEW n, OffsetsFit(B, offB, n),
         NEW a, a = offA[Parent[c]] + ColInParent[c], NEW b, b = offB[c] + ColInChild[c],
         NEW f, NEW r, HasColumns(ts, A, offA, m, f, r),
         NEW g, NEW s, HasColumns(ts, B, offB, n, g, s)
  PROVE  /\ r[a] = ts[Parent[c]][f[Parent[c]]].keys[ColInParent[c]]
         /\ s[b] = ts[c][g[c]].keys[ColInChild[c]]
         /\ r[a] # 0 => ~isBottom(r)
         /\ s[b] # 0 => ~isBottom(s)
<1>1. /\ Parent[c] \in A /\ c \in B /\ c \in NonRoot /\ c \in Node /\ Parent[c] \in Node
  BY DEF Bridge
<1>2. /\ ColInChild[c] \in 1 .. tableKeys[c] /\ ColInParent[c] \in 1 .. tableKeys[Parent[c]]
      /\ tableKeys[c] \in Nat /\ tableKeys[Parent[c]] \in Nat
  BY <1>1, InputAssumption
<1>3. /\ r \in Seq(Int) /\ Len(r) = m /\ s \in Seq(Int) /\ Len(s) = n /\ m \in Nat /\ n \in Nat
  BY DEF HasColumns, OffsetsFit
<1>4. /\ offA[Parent[c]] \in Nat /\ offA[Parent[c]] + tableKeys[Parent[c]] <= m
      /\ offB[c] \in Nat /\ offB[c] + tableKeys[c] <= n
  BY <1>1 DEF OffsetsFit
<1>5. a \in 1 .. m /\ b \in 1 .. n
  <2>1. a = offA[Parent[c]] + ColInParent[c] /\ b = offB[c] + ColInChild[c]
    OBVIOUS
  <2>2. m \in Nat /\ n \in Nat
    BY <1>3
  <2> QED BY <1>2, <1>4, <2>1, <2>2
<1>6. a \in DOMAIN r /\ b \in DOMAIN s
  BY <1>3, <1>5
<1>7. r[a] = ts[Parent[c]][f[Parent[c]]].keys[ColInParent[c]]
  BY <1>1, <1>2 DEF HasColumns
<1>8. s[b] = ts[c][g[c]].keys[ColInChild[c]]
  BY <1>1, <1>2 DEF HasColumns
<1> QED BY <1>6, <1>7, <1>8 DEF isBottom

LEMMA MatchedFinite ==
  ASSUME NEW R, NEW T, NEW m \in Nat, NEW n \in Nat, TableBag(R, m), TableBag(T, n), NEW a, NEW b,
         NEW M, IsMatched(M, R, a, T, b)
  PROVE  TableBag(M, m + n)
<1> DEFINE Q == (DOMAIN R) \X (DOMAIN T)
           join == [p \in Q |-> p[1] \o p[2]]
<1>1. IsFiniteSet(DOMAIN R) /\ IsFiniteSet(DOMAIN T)
  BY DEF TableBag
<1>2. IsFiniteSet(Q)
  BY <1>1, FS_Product
<1>3. IsFiniteSet({join[p] : p \in Q})
  <2> DEFINE I == {join[p] : p \in Q}
  <2>1. DOMAIN join = Q /\ join = [p \in Q |-> join[p]]
    OBVIOUS
  <2> HIDE DEF Q, join
  <2>2. join \in [Q -> I] /\ \A t \in I : \E p \in Q : join[p] = t
    BY <2>1
  <2>3. join \in Surjection(Q, I)
    BY <2>2 DEF Surjection
  <2> HIDE DEF I
  <2>5. IsFiniteSet(I)
    BY <1>2, <2>3, FS_Surjection
  <2> QED BY <2>5 DEF I
<1>4. \A v \in DOMAIN M : v \in {join[p] : p \in Q}
  <2> TAKE v \in DOMAIN M
  <2>1. PICK r \in DOMAIN R, s \in DOMAIN T : v = r \o s
    BY DEF IsMatched
  <2>2. <<r, s>> \in Q /\ join[<<r, s>>] = r \o s
    OBVIOUS
  <2> HIDE DEF Q, join
  <2> QED BY <2>1, <2>2, Zenon
<1>5. IsFiniteSet(DOMAIN M)
  <2> HIDE DEF Q, join
  <2>1. DOMAIN M \subseteq {join[p] : p \in Q}
    BY <1>4, Zenon
  <2> QED BY <2>1, <1>3, FS_Subset, Zenon
<1>6. ASSUME NEW v \in DOMAIN M PROVE v \in Seq(Int) /\ Len(v) = m + n /\ M[v] \in Nat \ {0}
  <2>1. PICK r \in DOMAIN R, s \in DOMAIN T : r[a] # 0 /\ r[a] = s[b] /\ v = r \o s
    BY DEF IsMatched
  <2>2. r \in Seq(Int) /\ Len(r) = m /\ R[r] \in Nat \ {0}
    BY DEF TableBag
  <2>3. s \in Seq(Int) /\ Len(s) = n /\ T[s] \in Nat \ {0}
    BY DEF TableBag
  <2>4. M[v] = R[r] * T[s]
    BY <2>1 DEF IsMatched
  <2>5. R[r] * T[s] \in Nat \ {0}
    BY <2>2, <2>3
  <2>6. v \in Seq(Int) /\ Len(v) = m + n
    <3>1. r \in Seq(Int) /\ s \in Seq(Int)
      BY <2>2, <2>3
    <3>2. r \o s \in Seq(Int) /\ Len(r \o s) = Len(r) + Len(s)
      BY ONLY <3>1
    <3>3. Len(r) = m /\ Len(s) = n /\ v = r \o s
      BY <2>1, <2>2, <2>3
    <3> QED BY ONLY <3>2, <3>3
  <2> QED BY <2>4, <2>5, <2>6
<1> QED BY <1>5, <1>6 DEF TableBag

(* M lists all combinations over S and has no row of zeros. *)
ListsAll(M, ts, S, off, width, W) ==
  /\ Lists(M, ts, S, off, width, W)
  /\ \A x \in DOMAIN M : ~isBottom(x)
  /\ \A f \in Combined(ts, S) : W[f] \in DOMAIN M

LEMMA JoinLists ==
  ASSUME NEW ts, Wide(ts), NEW A, NEW B, NEW c, Bridge(A, B, c),
         NEW R, NEW offA, NEW m, NEW WA, Lists(R, ts, A, offA, m, WA),
         NEW T, NEW offB, NEW n, NEW WB, Lists(T, ts, B, offB, n, WB),
         NEW a, a = offA[Parent[c]] + ColInParent[c], NEW b, b = offB[c] + ColInChild[c],
         NEW M, IsMatched(M, R, a, T, b),
         NEW off, \A v \in A : off[v] = offA[v], \A v \in B : off[v] = m + offB[v],
         NEW W, W = JoinedRows(ts, A, B, WA, WB)
  PROVE  ListsAll(M, ts, A \cup B, off, m + n, W)
<1>0. /\ Wide(ts) /\ Bridge(A, B, c) /\ OffsetsFit(A, offA, m) /\ OffsetsFit(B, offB, n)
      /\ m \in Nat /\ n \in Nat
  BY DEF Lists, OffsetsFit
<1>1. TableBag(M, m + n)
  <2>1. TableBag(R, m) /\ TableBag(T, n)
    BY DEF Lists
  <2> QED BY <1>0, <2>1, MatchedFinite
<1>2. OffsetsFit(A \cup B, off, m + n)
  <2>1. \A v \in A \cup B : v \in Node
    BY DEF Bridge
  <2>2. \A v \in Node : tableKeys[v] \in Nat
    BY InputAssumption
  <2>3. m + n \in Nat
    BY <1>0
  <2>4. \A v \in A : off[v] \in Nat /\ off[v] + tableKeys[v] <= m + n
    BY <2>1, <2>2, <1>0 DEF OffsetsFit
  <2>5. \A v \in B : off[v] \in Nat /\ off[v] + tableKeys[v] <= m + n
    BY <2>1, <2>2, <1>0 DEF OffsetsFit
  <2> QED BY <2>3, <2>4, <2>5 DEF OffsetsFit
<1>b. \A h \in Combined(ts, A \cup B) :
        /\ Part(h, A) \in Combined(ts, A) /\ Part(h, B) \in Combined(ts, B)
        /\ JoinsNonzero(ts, c, Part(h, A)[Parent[c]], Part(h, B)[c])
  BY ONLY <1>0, CombinedParts
<1>3. ASSUME NEW h \in Combined(ts, A \cup B)
      PROVE  HasColumns(ts, A \cup B, off, m + n, h, W[h])
  <2>1. Part(h, A) \in Combined(ts, A) /\ Part(h, B) \in Combined(ts, B)
    BY <1>b
  <2>2. HasColumns(ts, A, offA, m, Part(h, A), WA[Part(h, A)])
    BY <2>1 DEF Lists
  <2>3. HasColumns(ts, B, offB, n, Part(h, B), WB[Part(h, B)])
    BY <2>1 DEF Lists
  <2>4. PICK x, y : x = WA[Part(h, A)] /\ y = WB[Part(h, B)]
    OBVIOUS
  <2>5. HasColumns(ts, A, offA, m, Part(h, A), x) /\ HasColumns(ts, B, offB, n, Part(h, B), y)
    BY <2>2, <2>3, <2>4
  <2>6. (\A v \in A : off[v] = offA[v]) /\ (\A v \in B : off[v] = m + offB[v])
    OBVIOUS
  <2>7. HasColumns(ts, A \cup B, off, m + n, h, x \o y)
    BY ONLY <1>0, <2>5, <2>6, ConcatenatedColumns
  <2>8. W[h] = x \o y
    BY <2>4, Zenon DEF JoinedRows
  <2> QED BY <2>7, <2>8
<1>4. ASSUME NEW h \in Combined(ts, A \cup B) PROVE W[h] \in DOMAIN M
  <2>1. Part(h, A) \in Combined(ts, A) /\ Part(h, B) \in Combined(ts, B)
    BY <1>b
  <2>2. JoinsNonzero(ts, c, Part(h, A)[Parent[c]], Part(h, B)[c])
    BY <1>b
  <2>3. PICK f, g, x, y : f = Part(h, A) /\ g = Part(h, B) /\ x = WA[f] /\ y = WB[g]
    OBVIOUS
  <2>4. HasColumns(ts, A, offA, m, f, x) /\ HasColumns(ts, B, offB, n, g, y)
    BY <2>1, <2>3 DEF Lists
  <2>5. /\ x[a] = ts[Parent[c]][f[Parent[c]]].keys[ColInParent[c]]
        /\ y[b] = ts[c][g[c]].keys[ColInChild[c]]
        /\ x[a] # 0 => ~isBottom(x)
        /\ y[b] # 0 => ~isBottom(y)
    <3>1. a = offA[Parent[c]] + ColInParent[c] /\ b = offB[c] + ColInChild[c]
      OBVIOUS
    <3> QED BY ONLY <1>0, <2>4, <3>1, ColumnsAgree
  <2>6. x[a] # 0 /\ x[a] = y[b]
    BY <2>2, <2>3, <2>5 DEF JoinsNonzero, Joins
  <2>7. x \in DOMAIN R /\ y \in DOMAIN T
    BY <2>1, <2>3, <2>5, <2>6 DEF Lists
  <2>8. x \o y \in DOMAIN M
    BY <2>6, <2>7 DEF IsMatched
  <2>9. W[h] = x \o y
    BY <2>3, Zenon DEF JoinedRows
  <2> QED BY <2>8, <2>9
<1>5. ASSUME NEW v \in DOMAIN M
      PROVE  ~isBottom(v) /\ M[v] = Cardinality(Fibre(ts, A \cup B, W, v))
  <2>1. PICK r \in DOMAIN R, s \in DOMAIN T : r[a] # 0 /\ r[a] = s[b] /\ v = r \o s
    BY DEF IsMatched
  <2>2. /\ r \in Seq(Int) /\ Len(r) = m /\ s \in Seq(Int) /\ Len(s) = n
    BY DEF Lists, TableBag
  <2>3. a \in 1 .. m /\ b \in 1 .. n
    <3>1. /\ Parent[c] \in A /\ c \in B /\ c \in NonRoot /\ c \in Node /\ Parent[c] \in Node
      BY DEF Bridge
    <3>2. /\ ColInChild[c] \in 1 .. tableKeys[c] /\ ColInParent[c] \in 1 .. tableKeys[Parent[c]]
          /\ tableKeys[c] \in Nat /\ tableKeys[Parent[c]] \in Nat
      BY <3>1, InputAssumption
    <3>3. /\ offA[Parent[c]] \in Nat /\ offA[Parent[c]] + tableKeys[Parent[c]] <= m
          /\ offB[c] \in Nat /\ offB[c] + tableKeys[c] <= n
      BY <1>0, <3>1 DEF OffsetsFit
    <3> QED BY <1>0, <3>2, <3>3
  <2>4. ~isBottom(r) /\ ~isBottom(s)
    <3>1. a \in DOMAIN r /\ b \in DOMAIN s
      BY <2>2, <2>3
    <3> QED BY <2>1, <3>1 DEF isBottom
  <2>5. R[r] = Cardinality(Fibre(ts, A, WA, r)) /\ T[s] = Cardinality(Fibre(ts, B, WB, s))
    BY <2>4 DEF Lists
  <2>6. Cardinality(Fibre(ts, A \cup B, W, r \o s)) =
           Cardinality(Fibre(ts, A, WA, r)) * Cardinality(Fibre(ts, B, WB, s))
    BY <2>1, JoinedFibre
  <2>7. M[v] = R[r] * T[s]
    BY <2>1 DEF IsMatched
  <2>8. ~isBottom(v)
    <3>1. a \in DOMAIN (r \o s) /\ (r \o s)[a] = r[a]
      BY <2>2, <2>3, <1>0
    <3>2. PICK z : z = r \o s
      OBVIOUS
    <3>3. a \in DOMAIN z /\ z[a] # 0
      BY <3>1, <3>2, <2>1
    <3>4. ~isBottom(z)
      BY <3>3 DEF isBottom
    <3> QED BY <2>1, <3>2, <3>4
  <2> QED BY <2>1, <2>5, <2>6, <2>7, <2>8
<1> QED BY <1>1, <1>2, <1>3, <1>4, <1>5 DEF Lists, ListsAll

-----------------------------------------------------------------------------
(* A table without rows of zeros has a row for every combination. *)
LEMMA ListedCount ==
  ASSUME NEW ts, Wide(ts), NEW S, S \subseteq Node, NEW M, NEW off, NEW width, NEW W,
         ListsAll(M, ts, S, off, width, W)
  PROVE  BagCardinality(M) = Cardinality(Combined(ts, S)) /\ BagCardinality(M) \in Nat
<1> USE DEF ListsAll
<1> DEFINE H == [x \in DOMAIN M |-> Fibre(ts, S, W, x)]
<1>1. IsFiniteSet(DOMAIN M)
  BY DEF Lists, TableBag
<1>2. \A x \in DOMAIN M : H[x] = Fibre(ts, S, W, x)
  OBVIOUS
<1> HIDE DEF H
<1>3. \A x \in DOMAIN M : IsFiniteSet(H[x])
  BY <1>2, FibreFinite
<1>4. \A x, y \in DOMAIN M : x # y => H[x] \cap H[y] = {}
  BY <1>2 DEF Fibre
<1>5. \A x \in DOMAIN M : M[x] = Cardinality(H[x])
  BY <1>2 DEF Lists
<1>6. BagCardinality(M) = Cardinality(Together(H, DOMAIN M))
  BY ONLY <1>1, <1>3, <1>4, <1>5, BagTokens
<1>7. Together(H, DOMAIN M) = Combined(ts, S)
  BY <1>2 DEF Together, Fibre
<1>8. Cardinality(Combined(ts, S)) \in Nat
  BY CombinedFinite, FS_CardinalityType
<1> QED BY <1>6, <1>7, <1>8

LEMMA OneMoreRow ==
  ASSUME NEW M, IsFiniteSet(DOMAIN M), \A x \in DOMAIN M : M[x] \in Nat,
         NEW z, z \notin DOMAIN M, NEW k \in Nat,
         NEW B, DOMAIN B = DOMAIN M \cup {z}, \A x \in DOMAIN M : B[x] = M[x], B[z] = k
  PROVE  BagCardinality(B) = BagCardinality(M) + k
<1> DEFINE H == [x \in DOMAIN B |-> {x} \X (1 .. B[x])]
<1>1. \A x \in DOMAIN B : H[x] = {x} \X (1 .. B[x]) /\ B[x] \in Nat
  OBVIOUS
<1> HIDE DEF H
<1>2. \A x \in DOMAIN B : IsFiniteSet(H[x]) /\ B[x] = Cardinality(H[x])
  <2> TAKE x \in DOMAIN B
  <2>0. PICK q, one, I : q \in Nat /\ q = B[x] /\ one = {x} /\ I = 1 .. q
    BY <1>1
  <2>1. IsFiniteSet(I) /\ Cardinality(I) = q
    BY <2>0, FS_Interval
  <2>2. IsFiniteSet(one) /\ Cardinality(one) = 1
    BY <2>0, FS_Singleton
  <2>3. IsFiniteSet(one \X I) /\ Cardinality(one \X I) = Cardinality(one) * Cardinality(I)
    BY ONLY <2>1, <2>2, FS_Product
  <2>4. Cardinality(one \X I) = q
    <3>1. Cardinality(one) * Cardinality(I) = 1 * q
      BY <2>1, <2>2
    <3>2. 1 * q = q
      BY <2>0
    <3> QED BY ONLY <2>3, <3>1, <3>2
  <2>5. H[x] = one \X I
    BY <1>1, <2>0
  <2> QED BY <2>0, <2>3, <2>4, <2>5
<1>3. \A x, y \in DOMAIN B : x # y => H[x] \cap H[y] = {}
  BY <1>1
<1>4. IsFiniteSet(DOMAIN B)
  BY FS_AddElement
<1>5. /\ IsFiniteSet(Together(H, DOMAIN B))
      /\ BagCardinality(B) = Cardinality(Together(H, DOMAIN B))
  <2>1. \A x \in DOMAIN B : IsFiniteSet(H[x])
    BY <1>2
  <2>2. \A x \in DOMAIN B : B[x] = Cardinality(H[x])
    BY <1>2
  <2> QED BY ONLY <1>3, <1>4, <2>1, <2>2, BagTokens
<1>6. /\ IsFiniteSet(Together(H, DOMAIN M))
      /\ BagCardinality(M) = Cardinality(Together(H, DOMAIN M))
  <2>1. \A x \in DOMAIN M : IsFiniteSet(H[x])
    BY <1>2
  <2>2. \A x \in DOMAIN M : M[x] = Cardinality(H[x])
    BY <1>2
  <2>3. \A x, y \in DOMAIN M : x # y => H[x] \cap H[y] = {}
    BY <1>3
  <2>4. IsFiniteSet(DOMAIN M)
    OBVIOUS
  <2> QED BY ONLY <2>1, <2>2, <2>3, <2>4, BagTokens
<1>7. (DOMAIN B) \ {z} = DOMAIN M /\ z \in DOMAIN B
  OBVIOUS
<1>8. Cardinality(Together(H, DOMAIN B)) = Cardinality(H[z]) + Cardinality(Together(H, (DOMAIN B) \ {z}))
  <2>1. IsFiniteSet(H[z])
    BY <1>2, <1>7
  <2>2. \A y \in DOMAIN B : z # y => H[z] \cap H[y] = {}
    BY <1>3, <1>7
  <2>3. IsFiniteSet(Together(H, (DOMAIN B) \ {z}))
    BY <1>6, <1>7
  <2> QED BY ONLY <1>7, <2>1, <2>2, <2>3, TogetherStep
<1>9. Cardinality(H[z]) = k
  BY <1>2, <1>7
<1>10. Cardinality(Together(H, DOMAIN M)) \in Nat
  BY <1>6, FS_CardinalityType
<1> QED BY <1>5, <1>6, <1>7, <1>8, <1>9, <1>10

(* If the combinations over S are not too many, B has n rows. *)
Fits(B, ts, S, n) == Cardinality(Combined(ts, S)) <= n => BagCardinality(B) = n

(* Padding adds rows of zeros only, and as many as are missing. *)
LEMMA PaddedLists ==
  ASSUME NEW ts, Wide(ts), NEW S, S \subseteq Node, NEW M, NEW off, NEW width, NEW W,
         ListsAll(M, ts, S, off, width, W), NEW n \in Nat, NEW B, B = Padded(M, n, width)
  PROVE  /\ Lists(B, ts, S, off, width, W)
         /\ Fits(B, ts, S, n)
<1> USE DEF Fits
<1> DEFINE z == Zeros(width)
           k == n - BagCardinality(M)
<1>1. BagCardinality(M) = Cardinality(Combined(ts, S)) /\ BagCardinality(M) \in Nat
  BY ListedCount
<1> USE DEF ListsAll
<1>2. width \in Nat /\ TableBag(M, width)
  BY DEF Lists, OffsetsFit
<1>3. isBottom(z) /\ z \in Seq(Int) /\ Len(z) = width
  BY <1>2 DEF isBottom, Zeros
<1>4. z \notin DOMAIN M
  BY <1>3
<1>5. CASE k > 0
  <2>1. B = M (+) Copies(z, k)
    BY <1>5 DEF Padded
  <2>2. DOMAIN Copies(z, k) = {z} /\ Copies(z, k)[z] = k
    BY DEF Copies
  <2> HIDE DEF z
  <2>3. /\ DOMAIN B = DOMAIN M \cup {z}
        /\ \A x \in DOMAIN B : B[x] = (IF x \in DOMAIN M THEN M[x] ELSE 0)
                                      + (IF x \in DOMAIN Copies(z, k) THEN Copies(z, k)[x] ELSE 0)
    BY <2>1, <2>2, Zenon DEF (+)
  <2>4. k \in Nat \ {0}
    BY <1>1, <1>5
  <2>5. B[z] = k
    BY <1>4, <2>2, <2>3, <2>4
  <2>6. ASSUME NEW x \in DOMAIN M PROVE B[x] = M[x]
    <3>1. x \in DOMAIN B /\ x \notin DOMAIN Copies(z, k) /\ M[x] \in Nat
      BY <1>2, <1>4, <2>2, <2>3 DEF TableBag
    <3> QED BY <2>3, <3>1
  <2>7. TableBag(B, width)
    <3>1. IsFiniteSet(DOMAIN B)
      BY <1>2, <2>3, FS_AddElement DEF TableBag
    <3>2. \A r \in DOMAIN B : r \in Seq(Int) /\ Len(r) = width /\ B[r] \in Nat \ {0}
      BY <1>2, <1>3, <2>3, <2>4, <2>5, <2>6 DEF TableBag
    <3> QED BY <3>1, <3>2 DEF TableBag
  <2>8. Lists(B, ts, S, off, width, W)
    <3>1. \A x \in DOMAIN B : ~isBottom(x) => B[x] = Cardinality(Fibre(ts, S, W, x))
      BY <1>3, <2>3, <2>6 DEF Lists
    <3>2. \A f \in Combined(ts, S) : ~isBottom(W[f]) => W[f] \in DOMAIN B
      BY <2>3
    <3> QED BY <2>7, <3>1, <3>2 DEF Lists
  <2>9. BagCardinality(B) = BagCardinality(M) + k
    <3>1. IsFiniteSet(DOMAIN M) /\ \A x \in DOMAIN M : M[x] \in Nat
      BY <1>2 DEF TableBag
    <3>2. PICK q : q = k
      OBVIOUS
    <3>3. q \in Nat /\ B[z] = q
      BY <2>4, <2>5, <3>2
    <3>4. DOMAIN B = DOMAIN M \cup {z}
      BY <2>3
    <3>5. BagCardinality(B) = BagCardinality(M) + q
      BY ONLY <1>4, <2>6, <3>1, <3>3, <3>4, OneMoreRow
    <3> QED BY <3>2, <3>5
  <2> QED BY <1>1, <2>8, <2>9
<1>6. CASE ~(k > 0)
  <2>1. B = M
    BY <1>6 DEF Padded
  <2> QED BY <1>1, <1>6, <2>1
<1> QED BY <1>5, <1>6

-----------------------------------------------------------------------------
(* Before the joins a table lists the combinations of one row. *)
AloneRows(ts, u) == [f \in Combined(ts, {u}) |-> ts[u][f[u]].keys]

LEMMA NotOwnParent == \A u \in Node : Parent[u] # u
<1> SUFFICES ASSUME NEW u \in Node PROVE Parent[u] # u
  OBVIOUS
<1>1. CASE u = Root
  <2>1. Parent[u] = NoParent
    BY <1>1, TreeAssumption
  <2> QED BY <2>1, TreeAssumption DEF Node, NoParent
<1>2. CASE u # Root
  <2>1. u \in NonRoot
    BY <1>2 DEF NonRoot
  <2>2. Depth[u] = 1 + Depth[Parent[u]] /\ Depth[u] \in Nat
    BY <2>1, ParentFacts, DepthType
  <2> QED BY <2>2
<1> QED BY <1>1, <1>2

LEMMA AloneCombined ==
  ASSUME NEW ts, Wide(ts), NEW u \in Node
  PROVE  \A f : f \in Combined(ts, {u}) <=> f = [v \in {u} |-> f[u]] /\ f[u] \in 1 .. Len(ts[u])
<1> SUFFICES ASSUME NEW f
             PROVE  f \in Combined(ts, {u}) <=> f = [v \in {u} |-> f[u]] /\ f[u] \in 1 .. Len(ts[u])
  OBVIOUS
<1>1. Parent[u] # u
  BY NotOwnParent
<1>2. f \in Combined(ts, {u}) <=>
        /\ f = [v \in {u} |-> f[v]]
        /\ \A v \in {u} : f[v] \in 1 .. Len(ts[v])
        /\ \A v \in {u} : Parent[v] \in {u} => JoinsNonzero(ts, v, f[Parent[v]], f[v])
  BY CombinedAre
<1>3. [v \in {u} |-> f[v]] = [v \in {u} |-> f[u]]
  OBVIOUS
<1> QED BY <1>1, <1>2, <1>3

LEMMA StartLists ==
  ASSUME NEW ts, Wide(ts), NEW u \in Node, DOMAIN ts[u] = 1 .. Len(ts[u]),
         NEW off, off[u] = 0, NEW B, B = BagOfRows(ts[u])
  PROVE  Lists(B, ts, {u}, off, tableKeys[u], AloneRows(ts, u))
<1> DEFINE D == 1 .. Len(ts[u])
           key == [i \in D |-> ts[u][i].keys]
           W == AloneRows(ts, u)
           K(x) == {i \in D : key[i] = x}
           alone == [i \in D |-> [v \in {u} |-> i]]
<1>1. Len(ts[u]) \in Nat /\ tableKeys[u] \in Nat
  BY InputAssumption DEF Wide, Database
<1>2. IsFiniteSet(D)
  BY <1>1, FS_Interval
<1>3. \A i \in D : key[i] = ts[u][i].keys /\ key[i] \in Seq(Int) /\ Len(key[i]) = tableKeys[u]
  BY DEF Wide
<1>4. \A f : f \in Combined(ts, {u}) <=> f = [v \in {u} |-> f[u]] /\ f[u] \in D
  BY AloneCombined
<1>5. \A f \in Combined(ts, {u}) : f[u] \in D /\ W[f] = key[f[u]]
  BY <1>3, <1>4 DEF AloneRows
<1>6. \A i \in D : alone[i] \in Combined(ts, {u}) /\ alone[i][u] = i
  <2> TAKE i \in D
  <2>1. alone[i] = [v \in {u} |-> i] /\ alone[i][u] = i
    OBVIOUS
  <2> HIDE DEF alone
  <2> QED BY <1>4, <2>1
<1>7. /\ DOMAIN B = {key[i] : i \in D}
      /\ \A x \in DOMAIN B : B[x] = Cardinality(K(x))
  BY <1>3 DEF BagOfRows
<1> HIDE DEF D, key, W, alone
<1>8. ASSUME NEW x PROVE IsFiniteSet(K(x)) /\ Cardinality(K(x)) = Cardinality(Fibre(ts, {u}, W, x))
  <2> DEFINE X == K(x)
             Y == Fibre(ts, {u}, W, x)
             e == [i \in X |-> alone[i]]
  <2>1. IsFiniteSet(X)
    BY <1>2, FS_Subset
  <2>2. \A i \in X : alone[i] \in Y
    BY <1>5, <1>6 DEF Fibre
  <2>3. \A i, k \in X : alone[i] = alone[k] => i = k
    BY <1>6
  <2>4. \A f \in Y : f[u] \in X /\ alone[f[u]] = f
    <3> TAKE f \in Y
    <3>1. f \in Combined(ts, {u}) /\ W[f] = x
      BY DEF Fibre
    <3>2. f[u] \in X
      BY <1>5, <3>1
    <3>3. alone[f[u]] = [v \in {u} |-> f[u]]
      BY <3>2 DEF alone
    <3> QED BY <1>4, <3>1, <3>2, <3>3
  <2>5. e \in [X -> Y] /\ \A i \in X : e[i] = alone[i]
    BY <2>2
  <2> HIDE DEF X, Y, e
  <2>6. /\ \A i, k \in X : e[i] = e[k] => i = k
        /\ \A f \in Y : \E i \in X : e[i] = f
    BY <2>3, <2>4, <2>5
  <2>7. Cardinality(Y) = Cardinality(X)
    BY <2>1, <2>5, <2>6, Correspondence
  <2> QED BY <2>1, <2>7 DEF X, Y
<1>9. TableBag(B, tableKeys[u])
  <2>1. IsFiniteSet(DOMAIN B)
    <3> DEFINE I == {key[i] : i \in D}
    <3>1. key \in Surjection(D, I)
      <4>1. key = [i \in D |-> key[i]]
        BY DEF key
      <4> QED BY <4>1 DEF Surjection
    <3> HIDE DEF I
    <3>2. IsFiniteSet(I)
      BY <1>2, <3>1, FS_Surjection
    <3> QED BY <1>7, <3>2 DEF I
  <2>2. \A x \in DOMAIN B : x \in Seq(Int) /\ Len(x) = tableKeys[u]
    BY <1>3, <1>7
  <2>3. ASSUME NEW x \in DOMAIN B PROVE B[x] \in Nat \ {0}
    <3>1. PICK i \in D : key[i] = x
      BY <1>7
    <3>2. i \in K(x)
      BY <3>1
    <3>3. IsFiniteSet(K(x)) /\ B[x] = Cardinality(K(x))
      BY <1>7, <1>8
    <3> HIDE DEF K
    <3>4. Cardinality(K(x)) # 0
      BY <3>2, <3>3, FS_EmptySet
    <3>5. Cardinality(K(x)) \in Nat
      BY <3>3, FS_CardinalityType
    <3> QED BY <3>3, <3>4, <3>5
  <2> QED BY <2>1, <2>2, <2>3 DEF TableBag
<1>10. OffsetsFit({u}, off, tableKeys[u])
  BY <1>1 DEF OffsetsFit
<1>11. ASSUME NEW f \in Combined(ts, {u}) PROVE HasColumns(ts, {u}, off, tableKeys[u], f, W[f])
  <2>1. W[f] = ts[u][f[u]].keys /\ W[f] \in Seq(Int) /\ Len(W[f]) = tableKeys[u]
    BY <1>3, <1>5
  <2>2. \A k \in 1 .. tableKeys[u] : off[u] + k = k
    BY <1>1
  <2> QED BY <2>1, <2>2 DEF HasColumns
<1>12. \A x \in DOMAIN B : B[x] = Cardinality(Fibre(ts, {u}, W, x))
  BY <1>7, <1>8
<1>13. \A f \in Combined(ts, {u}) : W[f] \in DOMAIN B
  BY <1>5, <1>7
<1> QED BY <1>9, <1>10, <1>11, <1>12, <1>13 DEF Lists, W

-----------------------------------------------------------------------------
(* The joins of ParYan.  at[u] is how many children u has joined so far:   *)
(* their subtrees are gathered at u, and they are merged into u.           *)
Gathered(at, u) == {u} \cup UNION {Subtree[children(u)[k]] : k \in 1 .. at[u]}

Merged(at, u) == u # Root /\ \E k \in 1 .. at[Parent[u]] : children(Parent[u])[k] = u

(* The table of a node that is not merged lists what is gathered there.    *)
NodeJoined(ts, at, parts, widths, offs, u) ==
  /\ \A v \in Node : offs[u][v] \in Int /\ (offs[u][v] >= 0 <=> v \in Gathered(at, u))
  /\ \E W : Lists(parts[u], ts, Gathered(at, u), offs[u], widths[u], W)
  /\ at[u] = 0 => widths[u] = tableKeys[u]

JoinedUp(ts, at, parts, widths, offs) ==
  /\ DOMAIN parts = Node /\ DOMAIN widths = Node /\ DOMAIN offs = Node
  /\ \A u \in Node : ~Merged(at, u) => NodeJoined(ts, at, parts, widths, offs, u)
  /\ \A u \in Node : Merged(at, u) => widths[u] = 0

Counters(at) == at \in [Node -> Nat] /\ \A u \in Node : at[u] <= ChildCount(u)

LEMMA GatheredNodes ==
  ASSUME NEW at, Counters(at), NEW u \in Node
  PROVE  /\ u \in Gathered(at, u) /\ Gathered(at, u) \subseteq Node
         /\ \A v \in Gathered(at, u) : v # u => Parent[v] \in Gathered(at, u)
         /\ \A v \in Gathered(at, u) : v # u => ChildSet(v) \subseteq Gathered(at, u)
         /\ at[u] > 0 => \E v \in NonRoot : Parent[v] = u /\ v \in Gathered(at, u)
<1>1. at[u] \in Nat /\ at[u] <= ChildCount(u) /\ ChildCount(u) \in Nat
  BY ChildCounts DEF Counters
<1>2. \A k \in 1 .. at[u] : k \in 1 .. ChildCount(u)
  BY <1>1
<1>3. \A k \in 1 .. at[u] : children(u)[k] \in Node /\ children(u)[k] \in NonRoot /\ Parent[children(u)[k]] = u
  BY <1>2, ChildrenAre
<1>4. u \in Gathered(at, u)
  BY DEF Gathered
<1>5. ASSUME NEW v \in Gathered(at, u), v # u
      PROVE  v \in Node /\ Parent[v] \in Gathered(at, u) /\ ChildSet(v) \subseteq Gathered(at, u)
  <2>1. PICK k \in 1 .. at[u] : v \in Subtree[children(u)[k]]
    BY <1>5 DEF Gathered
  <2>2. PICK c \in Node : c = children(u)[k] /\ Parent[c] = u
    BY <1>3
  <2>3. Subtree[c] \subseteq Gathered(at, u)
    BY <2>2 DEF Gathered
  <2>4. v \in Node /\ ChildSet(v) \subseteq Subtree[c] /\ (v # c => Parent[v] \in Subtree[c])
    BY <2>1, <2>2, SubtreeFacts
  <2> QED BY <1>4, <2>2, <2>3, <2>4
<1>6. ASSUME at[u] > 0 PROVE \E v \in NonRoot : Parent[v] = u /\ v \in Gathered(at, u)
  <2>1. 1 \in 1 .. at[u]
    BY <1>1, <1>6
  <2>2. PICK c : c = children(u)[1] /\ c \in Node /\ c \in NonRoot /\ Parent[c] = u
    BY <1>3, <2>1
  <2>3. c \in Subtree[c]
    BY <2>2, SubtreeFacts
  <2>4. c \in Gathered(at, u)
    BY <2>1, <2>2, <2>3 DEF Gathered
  <2> QED BY <2>2, <2>4
<1>7. Gathered(at, u) \subseteq Node
  BY <1>5
<1> QED BY <1>4, <1>5, <1>6, <1>7

(* All children have been joined: the whole subtree is there. *)
LEMMA GatheredAll ==
  ASSUME NEW at, NEW u \in Node, at[u] = ChildCount(u)
  PROVE  Gathered(at, u) = Subtree[u]
<1>1. /\ DOMAIN children(u) = 1 .. ChildCount(u)
      /\ children(u) \in [DOMAIN children(u) -> ChildSet(u)]
      /\ \A c \in ChildSet(u) : \E i \in DOMAIN children(u) : children(u)[i] = c
  BY ChildrenEnumerate DEF ChildCount
<1>2. {Subtree[children(u)[k]] : k \in 1 .. at[u]} = {Subtree[c] : c \in ChildSet(u)}
  <2>1. \A k \in 1 .. ChildCount(u) : children(u)[k] \in ChildSet(u)
    BY <1>1
  <2>2. \A c \in ChildSet(u) : \E k \in 1 .. ChildCount(u) : children(u)[k] = c
    BY <1>1
  <2> QED BY <2>1, <2>2
<1>3. Subtree[u] = {u} \cup UNION {Subtree[c] : c \in ChildSet(u)}
  BY SubtreeOf
<1> QED BY <1>2, <1>3 DEF Gathered

(* The next child hangs below what is gathered so far by its own edge.     *)
LEMMA NextBridge ==
  ASSUME NEW at, Counters(at), NEW p \in Node, at[p] < ChildCount(p),
         NEW c, c = children(p)[at[p] + 1]
  PROVE  /\ Bridge(Gathered(at, p), Subtree[c], c)
         /\ c \in Node /\ c \in NonRoot /\ Parent[c] = p /\ c # p
         /\ ~Merged(at, c)
<1>1. at[p] \in Nat /\ ChildCount(p) \in Nat
  BY ChildCounts DEF Counters
<1>2. at[p] + 1 \in 1 .. ChildCount(p)
  BY <1>1
<1>3. /\ c \in Node /\ c \in NonRoot /\ c \in ChildSet(p) /\ Parent[c] = p /\ Depth[c] = Depth[p] + 1
      /\ \A l \in 1 .. ChildCount(p) : children(p)[l] = c => l = at[p] + 1
  BY <1>2, ChildrenAre
<1>4. ~Merged(at, c)
  <2> SUFFICES ASSUME NEW k \in 1 .. at[p], children(p)[k] = c PROVE FALSE
    BY <1>3 DEF Merged
  <2>1. k \in 1 .. ChildCount(p) /\ k # at[p] + 1
    BY <1>1
  <2> QED BY <1>3, <2>1
<1>5. Subtree[c] \cap Gathered(at, p) = {}
  <2>1. p \notin Subtree[c]
    <3>1. \A v \in Subtree[c] : v # c => Depth[v] > Depth[c]
      BY <1>3, SubtreeFacts
    <3>2. Depth[p] \in Int
      BY DepthType
    <3> QED BY <1>3, <3>1, <3>2
  <2>2. ASSUME NEW k \in 1 .. at[p] PROVE Subtree[c] \cap Subtree[children(p)[k]] = {}
    <3>1. k \in 1 .. ChildCount(p) /\ k # at[p] + 1
      BY <1>1
    <3>2. PICK d : d = children(p)[k]
      OBVIOUS
    <3>3. d \in Node /\ Depth[d] = Depth[p] + 1 /\ d # c
      BY <1>3, <3>1, <3>2, ChildrenAre
    <3>4. Subtree[c] \cap Subtree[d] = {}
      BY <1>3, <3>3, SubtreesDisjoint
    <3> QED BY <3>2, <3>4
  <2> QED BY <2>1, <2>2 DEF Gathered
<1>6. p \in Gathered(at, p) /\ Gathered(at, p) \subseteq Node
  BY GatheredNodes
<1>7. PICK K : K = {c}
  OBVIOUS
<1>8. Hanging(Gathered(at, p), p, K)
  BY <1>3, <1>5, <1>6, <1>7 DEF Hanging
<1>9. /\ c \in Subtree[c] /\ Subtree[c] \subseteq Node
      /\ \A v \in Subtree[c] : v # c => Parent[v] \in Subtree[c]
      /\ \A v \in Gathered(at, p) : Parent[v] \notin Subtree[c]
  BY <1>7, <1>8, HangingFacts
<1>10. Bridge(Gathered(at, p), Subtree[c], c)
  BY <1>3, <1>5, <1>6, <1>9 DEF Bridge
<1>11. c # p
  BY <1>3, NotOwnParent
<1> QED BY <1>3, <1>4, <1>10, <1>11

Gathers(at, at2, p, c) ==
  /\ Counters(at2)
  /\ Gathered(at2, p) = Gathered(at, p) \cup Subtree[c]
  /\ \A u \in Node : u # p => Gathered(at2, u) = Gathered(at, u)
  /\ \A u \in Node : Merged(at2, u) <=> Merged(at, u) \/ u = c

LEMMA GatheredNext ==
  ASSUME NEW at, Counters(at), NEW p \in Node, at[p] < ChildCount(p),
         NEW c, c = children(p)[at[p] + 1], NEW at2, at2 = [at EXCEPT ![p] = @ + 1]
  PROVE  Gathers(at, at2, p, c)
<1>1. at[p] \in Nat /\ ChildCount(p) \in Nat /\ at \in [Node -> Nat]
  BY ChildCounts DEF Counters
<1>2. /\ at2 \in [Node -> Nat] /\ at2[p] = at[p] + 1
      /\ \A u \in Node : u # p => at2[u] = at[u]
  BY <1>1
<1>3. Counters(at2)
  BY <1>1, <1>2 DEF Counters
<1>4. 1 .. at2[p] = (1 .. at[p]) \cup {at[p] + 1}
  BY <1>1, <1>2
<1>5. Gathered(at2, p) = Gathered(at, p) \cup Subtree[c]
  BY <1>4 DEF Gathered
<1>6. \A u \in Node : u # p => Gathered(at2, u) = Gathered(at, u)
  BY <1>2 DEF Gathered
<1>7. c \in NonRoot /\ Parent[c] = p /\ c # Root
  BY NextBridge DEF NonRoot
<1>8. ASSUME NEW u \in Node PROVE Merged(at2, u) <=> Merged(at, u) \/ u = c
  <2>1. CASE u = Root
    BY <1>7, <2>1 DEF Merged
  <2>2. CASE u # Root /\ Parent[u] = p
    <3>1. Merged(at2, u) <=> \E k \in 1 .. at2[p] : children(p)[k] = u
      BY <2>2 DEF Merged
    <3>2. Merged(at, u) <=> \E k \in 1 .. at[p] : children(p)[k] = u
      BY <2>2 DEF Merged
    <3> QED BY <1>4, <3>1, <3>2
  <2>3. CASE u # Root /\ Parent[u] # p
    <3>1. Parent[u] \in Node
      BY <2>3, ParentFacts DEF NonRoot
    <3>2. at2[Parent[u]] = at[Parent[u]]
      BY <1>2, <2>3, <3>1
    <3> QED BY <1>7, <2>3, <3>2 DEF Merged
  <2> QED BY <2>1, <2>2, <2>3
<1> QED BY <1>3, <1>5, <1>6, <1>8 DEF Gathers

(* What JoinChild does to the state of the joins. *)
EdgeJoin(parts, offs, p, c) ==
  Matched(parts[p], offs[p][p] + ColInParent[c], parts[c], offs[c][c] + ColInChild[c])

ChildJoins(at, parts, widths, offs, at2, parts2, widths2, offs2, p, c, n) ==
  /\ at[p] < ChildCount(p) /\ c = children(p)[at[p] + 1]
  /\ at2 = [at EXCEPT ![p] = @ + 1]
  /\ parts2 = [parts EXCEPT ![p] = Padded(EdgeJoin(parts, offs, p, c), n, widths[p] + widths[c]),
                            ![c] = EmptyBag]
  /\ offs2 = [offs EXCEPT ![p] =
                [v \in Node |-> IF offs[c][v] >= 0 THEN widths[p] + offs[c][v] ELSE offs[p][v]]]
  /\ widths2 = [widths EXCEPT ![p] = widths[p] + widths[c], ![c] = 0]

LEMMA JoinChildLists ==
  ASSUME NEW ts, Wide(ts), NEW at, Counters(at), NEW parts, NEW widths, NEW offs,
         JoinedUp(ts, at, parts, widths, offs), NEW p, p \in Node, NEW n, n \in Nat,
         NEW at2, NEW parts2, NEW widths2, NEW offs2, NEW c,
         ChildJoins(at, parts, widths, offs, at2, parts2, widths2, offs2, p, c, n),
         ~Merged(at, p), at[c] = ChildCount(c)
  PROVE  /\ JoinedUp(ts, at2, parts2, widths2, offs2)
         /\ Fits(parts2[p], ts, Gathered(at2, p), n)
<1> USE DEF ChildJoins
<1>m. PICK M : M = EdgeJoin(parts, offs, p, c)
  OBVIOUS
<1>0. /\ Counters(at) /\ p \in Node /\ at[p] < ChildCount(p)
      /\ c = children(p)[at[p] + 1] /\ at2 = [at EXCEPT ![p] = @ + 1]
  OBVIOUS
<1>g. Gathers(at, at2, p, c)
  BY ONLY <1>0, GatheredNext
<1> DEFINE A == Gathered(at, p)
           B == Subtree[c]
           a == offs[p][p] + ColInParent[c]
           b == offs[c][c] + ColInChild[c]
<1>1. /\ Bridge(A, B, c)
      /\ c \in Node /\ c \in NonRoot /\ Parent[c] = p /\ c # p
      /\ ~Merged(at, c)
  BY NextBridge
<1>2. /\ Counters(at2)
      /\ Gathered(at2, p) = A \cup B
      /\ \A u \in Node : u # p => Gathered(at2, u) = Gathered(at, u)
      /\ \A u \in Node : Merged(at2, u) <=> Merged(at, u) \/ u = c
  BY <1>g DEF Gathers
<1>3. Gathered(at, c) = B
  BY <1>1, GatheredAll
<1>4. NodeJoined(ts, at, parts, widths, offs, p) /\ NodeJoined(ts, at, parts, widths, offs, c)
  BY <1>1 DEF JoinedUp
<1>5. PICK WA : Lists(parts[p], ts, A, offs[p], widths[p], WA)
  BY <1>4 DEF NodeJoined
<1>6. PICK WB : Lists(parts[c], ts, B, offs[c], widths[c], WB)
  BY <1>3, <1>4 DEF NodeJoined
<1>7. IsMatched(M, parts[p], a, parts[c], b)
  <2>1. TableBag(parts[p], widths[p]) /\ TableBag(parts[c], widths[c])
    BY <1>5, <1>6 DEF Lists
  <2>2. M = Matched(parts[p], a, parts[c], b)
    BY <1>m DEF EdgeJoin
  <2> HIDE DEF a, b
  <2>3. PICK R, T, m, w : R = parts[p] /\ T = parts[c] /\ m = widths[p] /\ w = widths[c]
    OBVIOUS
  <2>4. TableBag(R, m) /\ TableBag(T, w) /\ M = Matched(R, a, T, b)
    BY <2>1, <2>2, <2>3
  <2>6. IsMatched(M, R, a, T, b)
    BY ONLY <2>4, MatchedIs
  <2> QED BY <2>3, <2>6
<1>8. /\ offs2[p] = [v \in Node |-> IF offs[c][v] >= 0 THEN widths[p] + offs[c][v] ELSE offs[p][v]]
      /\ \A u \in Node : u # p => offs2[u] = offs[u]
      /\ DOMAIN offs2 = Node
  BY DEF JoinedUp
<1>9. /\ widths2[p] = widths[p] + widths[c] /\ widths2[c] = 0
      /\ \A u \in Node : u # p /\ u # c => widths2[u] = widths[u]
      /\ DOMAIN widths2 = Node
  BY <1>1 DEF JoinedUp
<1>10. /\ parts2[p] = Padded(M, n, widths[p] + widths[c])
       /\ \A u \in Node : u # p /\ u # c => parts2[u] = parts[u]
       /\ DOMAIN parts2 = Node
  BY <1>1, <1>m DEF JoinedUp
<1>11. widths[p] \in Nat /\ widths[c] \in Nat
  BY <1>5, <1>6 DEF Lists, OffsetsFit
<1>12. /\ \A v \in Node : offs[p][v] \in Int /\ (offs[p][v] >= 0 <=> v \in A)
       /\ \A v \in Node : offs[c][v] \in Int /\ (offs[c][v] >= 0 <=> v \in B)
  BY <1>3, <1>4 DEF NodeJoined
<1>13. A \subseteq Node /\ B \subseteq Node /\ A \cap B = {}
  BY <1>1 DEF Bridge
<1>14. /\ \A v \in A : offs2[p][v] = offs[p][v]
       /\ \A v \in B : offs2[p][v] = widths[p] + offs[c][v]
  BY <1>8, <1>12, <1>13
<1>15. \A v \in Node : offs2[p][v] \in Int /\ (offs2[p][v] >= 0 <=> v \in A \cup B)
  <2> TAKE v \in Node
  <2>1. CASE v \in B
    <3>1. offs2[p][v] = widths[p] + offs[c][v]
      BY <2>1, <1>14
    <3>2. offs[c][v] \in Int /\ offs[c][v] >= 0 /\ widths[p] \in Nat
      BY <2>1, <1>11, <1>12
    <3> HIDE DEF A, B
    <3> QED BY <2>1, <3>1, <3>2
  <2>2. CASE v \notin B
    <3>1. offs2[p][v] = offs[p][v]
      BY <2>2, <1>8, <1>12
    <3> QED BY <2>2, <3>1, <1>12
  <2> QED BY <2>1, <2>2
<1> HIDE DEF A, B
<1>16. PICK W : W = JoinedRows(ts, A, B, WA, WB)
  OBVIOUS
<1>17. ListsAll(M, ts, A \cup B, offs2[p], widths[p] + widths[c], W)
  <2>1. a = offs[p][Parent[c]] + ColInParent[c] /\ b = offs[c][c] + ColInChild[c]
    BY <1>1
  <2>2. Wide(ts) /\ Bridge(A, B, c)
    BY <1>1
  <2> HIDE DEF a, b
  <2>a. PICK R, T, m, w : R = parts[p] /\ T = parts[c] /\ m = widths[p] /\ w = widths[c]
    OBVIOUS
  <2>b. PICK offA, offB, off : offA = offs[p] /\ offB = offs[c] /\ off = offs2[p]
    OBVIOUS
  <2>3. /\ R = parts[p] /\ T = parts[c] /\ m = widths[p] /\ w = widths[c]
        /\ offA = offs[p] /\ offB = offs[c] /\ off = offs2[p]
    BY <2>a, <2>b
  <2>4. /\ Lists(R, ts, A, offA, m, WA) /\ Lists(T, ts, B, offB, w, WB)
        /\ a = offA[Parent[c]] + ColInParent[c] /\ b = offB[c] + ColInChild[c]
        /\ IsMatched(M, R, a, T, b)
    BY <1>5, <1>6, <1>7, <2>1, <2>3, Zenon
  <2>5. (\A v \in A : off[v] = offA[v]) /\ (\A v \in B : off[v] = m + offB[v])
    BY <1>14, <2>3
  <2>6. ListsAll(M, ts, A \cup B, off, m + w, W)
    BY ONLY <2>2, <2>4, <2>5, <1>16, JoinLists
  <2> QED BY <2>3, <2>6
<1>18. /\ Lists(parts2[p], ts, A \cup B, offs2[p], widths2[p], W)
       /\ Fits(parts2[p], ts, A \cup B, n)
  <2>1. PICK S, off, width, P2 : S = A \cup B /\ off = offs2[p] /\ width = widths2[p] /\ P2 = parts2[p]
    OBVIOUS
  <2>2. ListsAll(M, ts, S, off, width, W)
    BY <1>9, <1>17, <2>1
  <2>3. P2 = Padded(M, n, width) /\ S \subseteq Node
    BY <1>9, <1>10, <1>13, <2>1
  <2>5. Wide(ts) /\ n \in Nat
    OBVIOUS
  <2>6. /\ Lists(P2, ts, S, off, width, W)
        /\ Fits(P2, ts, S, n)
    BY ONLY <2>2, <2>3, <2>5, PaddedLists
  <2> QED BY <2>1, <2>6
<1>19. NodeJoined(ts, at2, parts2, widths2, offs2, p)
  <2>1. at2[p] # 0
    BY DEF Counters
  <2> QED BY <1>2, <1>15, <1>18, <2>1 DEF NodeJoined
<1>20. ASSUME NEW u \in Node, ~Merged(at2, u), u # p PROVE NodeJoined(ts, at2, parts2, widths2, offs2, u)
  <2>1. ~Merged(at, u) /\ u # c
    BY <1>2, <1>20
  <2>2. NodeJoined(ts, at, parts, widths, offs, u)
    BY <2>1 DEF JoinedUp
  <2>3. /\ parts2[u] = parts[u] /\ widths2[u] = widths[u] /\ offs2[u] = offs[u] /\ at2[u] = at[u]
        /\ Gathered(at2, u) = Gathered(at, u)
    BY <1>2, <1>8, <1>9, <1>10, <1>20, <2>1 DEF Counters
  <2> QED BY <2>2, <2>3 DEF NodeJoined
<1>21. ASSUME NEW u \in Node, Merged(at2, u) PROVE widths2[u] = 0
  <2>1. CASE u = c
    BY <2>1, <1>9
  <2>2. CASE u # c
    <3>1. \A v \in Node : Merged(at2, v) <=> Merged(at, v) \/ v = c
      BY <1>2
    <3>2. Merged(at, u)
      BY ONLY <3>1, <1>21, <2>2
    <3>3. u # p
      BY <3>2, Zenon
    <3> QED BY <1>9, <2>2, <3>2, <3>3 DEF JoinedUp
  <2> QED BY <2>1, <2>2
<1>22. JoinedUp(ts, at2, parts2, widths2, offs2)
  BY <1>8, <1>9, <1>10, <1>19, <1>20, <1>21 DEF JoinedUp
<1>23. Gathered(at2, p) = A \cup B
  BY <1>2 DEF A, B
<1> QED BY <1>18, <1>22, <1>23

LEMMA JoinsStart ==
  ASSUME NEW ts, Wide(ts), \A u \in Node : DOMAIN ts[u] = 1 .. Len(ts[u]),
         NEW at, at = [u \in Node |-> 0],
         NEW parts, parts = [u \in Node |-> BagOfRows(ts[u])],
         NEW widths, widths = [u \in Node |-> tableKeys[u]],
         NEW offs, offs = [u \in Node |-> [v \in Node |-> IF u = v THEN 0 ELSE -1]]
  PROVE  JoinedUp(ts, at, parts, widths, offs)
<1>1. \A u \in Node : Gathered(at, u) = {u}
  BY DEF Gathered
<1>2. \A u \in Node : ~Merged(at, u)
  <2> SUFFICES ASSUME NEW u \in NonRoot PROVE ~Merged(at, u)
    BY DEF Merged, NonRoot
  <2>1. Parent[u] \in Node
    BY ParentFacts
  <2> QED BY <2>1 DEF Merged
<1>3. ASSUME NEW u \in Node PROVE NodeJoined(ts, at, parts, widths, offs, u)
  <2>1. \A v \in Node : offs[u][v] \in Int /\ (offs[u][v] >= 0 <=> v \in {u})
    OBVIOUS
  <2>2. PICK B, off : B = parts[u] /\ off = offs[u]
    OBVIOUS
  <2>3. DOMAIN ts[u] = 1 .. Len(ts[u]) /\ off[u] = 0 /\ B = BagOfRows(ts[u]) /\ Wide(ts)
    BY <2>2
  <2>4. Lists(B, ts, {u}, off, tableKeys[u], AloneRows(ts, u))
    BY ONLY <2>3, <1>3, StartLists
  <2>5. Lists(parts[u], ts, Gathered(at, u), offs[u], widths[u], AloneRows(ts, u))
    BY <1>1, <2>2, <2>4
  <2> QED BY <1>1, <2>1, <2>5 DEF NodeJoined
<1> QED BY <1>2, <1>3 DEF JoinedUp

-----------------------------------------------------------------------------
(* A row that is joined to another is not a row of zeros. *)
LEMMA CombinedKept ==
  ASSUME NEW ts, Wide(ts), NEW S, S \subseteq Node, NEW f \in Combined(ts, S), NEW u \in S,
         Parent[u] \in S \/ \E v \in NonRoot : v \in S /\ Parent[v] = u
  PROVE  ts[u][f[u]].keys # Zeros(tableKeys[u])
<1>1. \A v \in S : Parent[v] \in S => JoinsNonzero(ts, v, f[Parent[v]], f[v])
  BY CombinedAre
<1>2. u \in Node /\ \A k \in 1 .. tableKeys[u] : Zeros(tableKeys[u])[k] = 0
  BY ZeroRow
<1>3. CASE Parent[u] \in S
  <2>1. u \in NonRoot
    <3>1. Parent[u] \in Node
      BY <1>3
    <3> QED BY <1>2, <3>1, TreeAssumption DEF NonRoot, NoParent, Node
  <2>2. ColInChild[u] \in 1 .. tableKeys[u]
    BY <2>1, InputAssumption
  <2>3. ts[u][f[u]].keys[ColInChild[u]] # 0
    BY <1>1, <1>3 DEF JoinsNonzero
  <2> QED BY <1>2, <2>2, <2>3
<1>4. ASSUME NEW v \in NonRoot, v \in S, Parent[v] = u PROVE ts[u][f[u]].keys # Zeros(tableKeys[u])
  <2>1. ColInParent[v] \in 1 .. tableKeys[u]
    BY <1>4, InputAssumption
  <2>2. ts[u][f[u]].keys[ColInParent[v]] # 0
    BY <1>1, <1>4 DEF JoinsNonzero, Joins
  <2> QED BY <1>2, <2>1, <2>2
<1> QED BY <1>3, <1>4

(* What the two passes of semi-joins leave of db. *)
Survives(ts, db) ==
  \A u \in Node : \A i \in 1 .. Len(ts[u]) :
    /\ i \in 1 .. Len(db[u])
    /\ ts[u][i].keys = Zeros(tableKeys[u]) \/ (ts[u][i].keys = db[u][i].keys /\ RowUsed(db, u, i))

(* What is gathered at a node is part of an answer each. *)
LEMMA GatheredExtends ==
  ASSUME NEW db, Database(db), NEW ts, Wide(ts), Survives(ts, db),
         NEW at, Counters(at), NEW p \in Node, at[p] > 0, NEW f \in Combined(ts, Gathered(at, p))
  PROVE  \E h \in Matches(db, Node) : f = Part(h, Gathered(at, p))
<1> DEFINE S == Gathered(at, p)
<1>1. /\ p \in S /\ S \subseteq Node
      /\ \A v \in S : v # p => Parent[v] \in S
      /\ \A v \in S : v # p => ChildSet(v) \subseteq S
      /\ \E v \in NonRoot : Parent[v] = p /\ v \in S
  BY GatheredNodes
<1> HIDE DEF S
<1>2. f \in Combined(ts, S)
  BY DEF S
<1>3. /\ f = [v \in S |-> f[v]] /\ \A v \in S : f[v] \in 1 .. Len(ts[v])
      /\ \A v \in S : Parent[v] \in S => JoinsNonzero(ts, v, f[Parent[v]], f[v])
  BY <1>1, <1>2, CombinedAre
<1>4. \A v \in S : ts[v][f[v]].keys # Zeros(tableKeys[v])
  <2> TAKE v \in S
  <2>1. Parent[v] \in S \/ \E w \in NonRoot : w \in S /\ Parent[w] = v
    BY <1>1
  <2> QED BY <1>1, <1>2, <2>1, CombinedKept
<1>5. \A v \in S : /\ f[v] \in 1 .. Len(db[v]) /\ ts[v][f[v]].keys = db[v][f[v]].keys
                   /\ RowUsed(db, v, f[v])
  BY <1>1, <1>3, <1>4 DEF Survives
<1>6. f \in Matches(db, S)
  <2>1. \A v \in S : Parent[v] \in S => Joins(v, db[Parent[v]][f[Parent[v]]], db[v][f[v]])
    BY <1>3, <1>5 DEF JoinsNonzero, Joins
  <2>2. \A v \in S : f[v] \in 1 .. Len(db[v])
    BY <1>5
  <2> QED BY <1>1, <1>3, <2>1, <2>2, MatchesAre
<1>7. PICK g \in Matches(db, Node) : g[p] = f[p]
  BY <1>1, <1>5 DEF RowUsed
<1>8. \A v \in Node : Parent[v] \in Node => Joins(v, db[Parent[v]][g[Parent[v]]], db[v][g[v]])
  BY <1>7, MatchesAre
<1>9. ASSUME NEW v \in S, v # Root, Parent[v] \notin S
      PROVE  Joins(v, db[Parent[v]][g[Parent[v]]], db[v][f[v]])
  <2>1. v = p /\ Parent[v] \in Node
    BY <1>1, <1>9, ParentFacts DEF NonRoot
  <2> QED BY <1>1, <1>7, <1>8, <2>1
<1>10. ASSUME NEW v \in NonRoot, v \notin S, Parent[v] \in S
       PROVE  Joins(v, db[Parent[v]][f[Parent[v]]], db[v][g[v]])
  <2>1. Parent[v] = p
    <3>1. v \in ChildSet(Parent[v])
      BY ParentFacts
    <3> QED BY <1>1, <1>10, <3>1
  <2>2. v \in Node /\ Parent[v] \in Node
    BY ParentFacts
  <2> QED BY <1>7, <1>8, <2>1, <2>2
<1> DEFINE h == [v \in Node |-> IF v \in S THEN f[v] ELSE g[v]]
<1>11. h \in Matches(db, Node)
  <2>1. \A v \in S : v # Root /\ Parent[v] \notin S =>
          Joins(v, db[Parent[v]][g[Parent[v]]], db[v][f[v]])
    BY <1>9
  <2>2. \A v \in NonRoot : v \notin S /\ Parent[v] \in S =>
          Joins(v, db[Parent[v]][f[Parent[v]]], db[v][g[v]])
    BY <1>10
  <2>3. Database(db) /\ S \subseteq Node
    BY <1>1
  <2> QED BY ONLY <1>6, <1>7, <2>1, <2>2, <2>3, Exchange
<1>12. f = Part(h, S)
  <2>1. \A v \in S : h[v] = f[v]
    BY <1>1
  <2> HIDE DEF h
  <2> QED BY <1>3, <2>1 DEF Part
<1> HIDE DEF h
<1> QED BY <1>11, <1>12 DEF S

LEMMA JoinsBounded ==
  ASSUME NEW db, Database(db), NEW ts, Wide(ts), Survives(ts, db),
         NEW at, Counters(at), NEW p \in Node, at[p] > 0
  PROVE  Cardinality(Combined(ts, Gathered(at, p))) <= JoinSize(db)
<1> DEFINE S == Gathered(at, p)
           X == Matches(db, Node)
           part == [h \in X |-> Part(h, S)]
           I == {part[h] : h \in X}
<1>1. IsFiniteSet(X) /\ Cardinality(X) = JoinSize(db)
  BY MatchesFinite DEF JoinSize
<1>2. part \in Surjection(X, I)
  <2>1. part = [h \in X |-> part[h]]
    OBVIOUS
  <2> HIDE DEF part, X
  <2> QED BY <2>1 DEF Surjection
<1>3. Combined(ts, S) \subseteq I
  <2> SUFFICES ASSUME NEW f \in Combined(ts, S) PROVE f \in I
    OBVIOUS
  <2>1. PICK h \in X : f = Part(h, S)
    BY GatheredExtends
  <2>2. part[h] = f
    BY <2>1
  <2> HIDE DEF X, part
  <2> QED BY <2>1, <2>2
<1> HIDE DEF X, part, I
<1>4. IsFiniteSet(I) /\ Cardinality(I) <= Cardinality(X)
  BY <1>1, <1>2, FS_Surjection
<1>5. /\ Cardinality(Combined(ts, S)) <= Cardinality(I)
      /\ IsFiniteSet(Combined(ts, S))
  BY <1>3, <1>4, FS_Subset
<1>6. Cardinality(Combined(ts, S)) \in Nat /\ Cardinality(I) \in Nat /\ Cardinality(X) \in Nat
  BY <1>1, <1>4, <1>5, FS_CardinalityType
<1> QED BY <1>1, <1>4, <1>5, <1>6

JoinStages == {"join", "reorder", "done"}

(* Nothing is joined before the passes are over. *)
ParUnjoined ==
  stage \notin JoinStages =>
    /\ cols = [u \in Node |-> tableKeys[u]]
    /\ offset = [u \in Node |-> [v \in Node |-> IF u = v THEN 0 ELSE -1]]

(* Then every table lists the combinations of the relations below it that  *)
(* have been joined,                                                       *)
ParJoined == stage \in JoinStages => JoinedUp(tables, pc, partial, cols, offset)

(* and the joined tables have the size of the output.                      *)
ParSized ==
  stage \in JoinStages /\ ~HasZeroKey(input) =>
    \A u \in Node : ~Merged(pc, u) /\ pc[u] > 0 => BagCardinality(partial[u]) = outSize

ParJoins == ParUnjoined /\ ParJoined /\ ParSized

LEMMA TablesWide ==
  ASSUME Called, ParRows, ParFilter, stage \notin UpStages
  PROVE  /\ Wide(tables)
         /\ \A u \in Node : DOMAIN tables[u] = 1 .. Len(tables[u]) /\ Len(tables[u]) = Len(input[u])
<1>1. IsInput(input)
  BY InputsAre DEF Called
<1>2. ASSUME NEW u \in Node
      PROVE  /\ Len(tables[u]) = Len(input[u]) /\ Len(tables[u]) \in Nat
             /\ DOMAIN tables[u] = 1 .. Len(tables[u])
  <2>1. Len(input[u]) \in Nat
    BY <1>1, InputTable
  <2>2. tables[u] = [i \in 1 .. Len(input[u]) |-> tables[u][i]]
    BY DEF ParRows
  <2>3. PICK t, n : t = tables[u] /\ n = Len(input[u])
    OBVIOUS
  <2>4. n \in Nat /\ t = [i \in 1 .. n |-> t[i]]
    BY <2>1, <2>2, <2>3
  <2>5. Len(t) = n
    BY <2>4, LenOf
  <2>6. DOMAIN t = 1 .. n
    BY <2>4
  <2> QED BY <2>3, <2>4, <2>5, <2>6
<1>3. ASSUME NEW u \in Node, NEW i \in 1 .. Len(tables[u])
      PROVE  tables[u][i].keys \in Seq(Int) /\ Len(tables[u][i].keys) = tableKeys[u]
  <2>1. i \in 1 .. Len(input[u])
    BY <1>2
  <2>2. RowKept(u, i) \/ tables[u][i].keys = Zeros(tableKeys[u])
    BY <2>1 DEF ParFilter
  <2>3. input[u][i].keys \in Seq(Int)
    BY <1>1, <2>1, InputRow
  <2>4. Len(input[u][i].keys) = tableKeys[u] /\ tableKeys[u] \in Nat
    BY <1>1, <2>1, InputAssumption DEF IsInput
  <2>5. Zeros(tableKeys[u]) \in Seq(Int) /\ Len(Zeros(tableKeys[u])) = tableKeys[u]
    BY <2>4 DEF Zeros
  <2> QED BY <2>2, <2>3, <2>4, <2>5 DEF RowKept
<1>4. Database(tables)
  BY <1>2 DEF Database
<1> QED BY <1>2, <1>3, <1>4 DEF Wide

LEMMA TablesSurvive ==
  ASSUME Called, ParRows, ParFilter, stage \in JoinStages, ~HasZeroKey(input)
  PROVE  Survives(tables, input)
<1>0. stage \notin UpStages /\ stage # "down"
  BY DEF UpStages, JoinStages
<1>1. \A u \in Node : Len(tables[u]) = Len(input[u])
  BY <1>0, TablesWide
<1>2. ASSUME NEW u \in Node, NEW i \in 1 .. Len(input[u])
      PROVE  \/ tables[u][i].keys = Zeros(tableKeys[u])
             \/ tables[u][i].keys = input[u][i].keys /\ RowUsed(input, u, i)
  <2>1. Reached(u)
    BY <1>0 DEF Reached
  <2> QED BY <1>0, <2>1 DEF ParFilter, RowKept
<1> QED BY <1>1, <1>2 DEF Survives

LEMMA JoinCounters ==
  ASSUME ParControl, stage = "join"
  PROVE  Counters(pc)
<1> SUFFICES ASSUME NEW u \in Node PROVE pc[u] <= ChildCount(u)
  BY DEF ParControl, Counters
<1>1. CASE IsLeaf(u)
  BY <1>1, ChildCounts DEF ParControl
<1>2. CASE ~IsLeaf(u)
  BY <1>2 DEF ParControl
<1> QED BY <1>1, <1>2

(* The node that joins has not been merged, and its child is complete. *)
LEMMA JoinReady ==
  ASSUME ParControl, stage = "join", NEW p, InnerAt(p, level), pc[p] < ChildCount(p),
         NEW c, c = NextOf(p)
  PROVE  ~Merged(pc, p) /\ pc[c] = ChildCount(c) /\ c \in Node
<1>1. p \in Node /\ ~IsLeaf(p) /\ Depth[p] = level /\ pc[p] \in Nat /\ ChildCount(p) \in Nat
  BY ChildCounts DEF InnerAt, ParControl
<1>2. c \in Node /\ Parent[c] = p /\ Depth[c] = Depth[p] + 1
  <2>1. pc[p] + 1 \in 1 .. ChildCount(p)
    BY <1>1
  <2> QED BY <1>1, <2>1, ChildrenAre DEF NextOf
<1>3. ~Merged(pc, p)
  <2>1. CASE p = Root
    BY <2>1 DEF Merged
  <2>2. CASE p # Root
    <3>1. p \in NonRoot
      BY <1>1, <2>2 DEF NonRoot
    <3>2. /\ Parent[p] \in Node /\ ~IsLeaf(Parent[p]) /\ Depth[p] = 1 + Depth[Parent[p]]
          /\ Depth[Parent[p]] \in Nat
      BY <3>1, ParentFacts, DepthType
    <3>3. pc[Parent[p]] = 0
      BY <1>1, <3>2 DEF ParControl
    <3> QED BY <3>3 DEF Merged
  <2> QED BY <2>1, <2>2
<1>4. pc[c] = ChildCount(c)
  <2>1. CASE IsLeaf(c)
    BY <1>2, <2>1, ChildCounts DEF ParControl
  <2>2. CASE ~IsLeaf(c)
    <3>1. Depth[p] \in Nat
      BY <1>1, DepthType
    <3>2. Depth[c] > level
      BY <1>1, <1>2, <3>1
    <3> QED BY <1>2, <2>2, <3>2 DEF ParControl
  <2> QED BY <2>1, <2>2
<1> QED BY <1>2, <1>3, <1>4

LEMMA JoinChildJoins ==
  ASSUME Called, ParPasses, ParJoins, NEW p \in Node, P!JoinChild(p)
  PROVE  ParJoins'
<1>0. PICK c : c = NextOf(p)
  OBVIOUS
<1>1. /\ stage = "join" /\ InnerAt(p, level) /\ pc[p] < ChildCount(p)
      /\ partial' = [partial EXCEPT ![p] = Padded(EdgePairs(p, c), outSize, cols[p] + cols[c]),
                                    ![c] = EmptyBag]
      /\ offset' = [offset EXCEPT ![p] =
           [v \in Node |-> IF offset[c][v] >= 0 THEN cols[p] + offset[c][v] ELSE offset[p][v]]]
      /\ cols' = [cols EXCEPT ![p] = cols[p] + cols[c], ![c] = 0]
      /\ pc' = [pc EXCEPT ![p] = @ + 1]
      /\ UNCHANGED <<input, target, stage, tables, level, vals, outSize, result>>
  BY <1>0, JoinChildIs
<1>2. stage \notin UpStages /\ stage \in JoinStages
  BY <1>1 DEF UpStages, JoinStages
<1>3. Wide(tables)
  BY <1>2, TablesWide DEF ParPasses
<1>4. Counters(pc)
  BY <1>1, JoinCounters DEF ParPasses
<1>5. ~Merged(pc, p) /\ pc[c] = ChildCount(c) /\ c \in Node
  <2>1. ParControl
    BY DEF ParPasses
  <2> QED BY <1>0, <1>1, <2>1, JoinReady
<1>6. JoinedUp(tables, pc, partial, cols, offset) /\ outSize \in Nat
  BY <1>2 DEF ParJoins, ParJoined, ParPasses, ParSize
<1>7. PICK M : M = EdgePairs(p, c)
  OBVIOUS
<1>8. PICK ts, at, parts, widths, offs, n : /\ ts = tables /\ at = pc /\ parts = partial /\ widths = cols
                                      /\ offs = offset /\ n = outSize
  OBVIOUS
<1>9. PICK at2, parts2, widths2, offs2 : /\ at2 = pc' /\ parts2 = partial' /\ widths2 = cols'
                                         /\ offs2 = offset'
  OBVIOUS
<1>10. /\ Wide(ts) /\ Counters(at) /\ JoinedUp(ts, at, parts, widths, offs)
       /\ p \in Node /\ at[p] < ChildCount(p) /\ ~Merged(at, p) /\ at[c] = ChildCount(c) /\ n \in Nat
  BY <1>1, <1>3, <1>4, <1>5, <1>6, <1>8
<1>12. M = EdgeJoin(parts, offs, p, c)
  BY <1>7, <1>8 DEF EdgePairs, EdgeJoin
<1>13. ChildJoins(at, parts, widths, offs, at2, parts2, widths2, offs2, p, c, n)
  BY <1>0, <1>1, <1>7, <1>8, <1>9, <1>12 DEF ChildJoins, NextOf
<1>14. /\ JoinedUp(ts, at2, parts2, widths2, offs2)
       /\ Fits(parts2[p], ts, Gathered(at2, p), n)
  BY ONLY <1>10, <1>13, JoinChildLists
<1>15. Gathers(at, at2, p, c)
  <2>1. c = children(p)[at[p] + 1] /\ at2 = [at EXCEPT ![p] = @ + 1]
    BY <1>13 DEF ChildJoins
  <2> QED BY ONLY <1>10, <2>1, GatheredNext
<1>16. ParUnjoined' /\ ParJoined'
  BY <1>1, <1>2, <1>8, <1>9, <1>14 DEF ParUnjoined, ParJoined
<1>17. ParSized'
  <2> SUFFICES ASSUME ~HasZeroKey(input), NEW u \in Node, ~Merged(at2, u), at2[u] > 0
               PROVE  BagCardinality(parts2[u]) = n
    BY <1>1, <1>2, <1>8, <1>9 DEF ParSized, HasZeroKey
  <2>1. CASE u = p
    <3>1. IsInput(input) /\ Database(input)
      BY InputsAre, InputIsDatabase DEF Called
    <3>2. Survives(ts, input)
      BY <1>2, <1>8, TablesSurvive DEF ParPasses
    <3>3. Counters(at2)
      BY <1>15 DEF Gathers
    <3>4. PICK db : db = input
      OBVIOUS
    <3>5. Database(db) /\ Survives(ts, db)
      BY <3>1, <3>2, <3>4
    <3>6. at2[p] > 0
      BY <2>1
    <3>7. Cardinality(Combined(ts, Gathered(at2, p))) <= JoinSize(db)
      BY ONLY <3>3, <3>5, <3>6, <1>10, JoinsBounded
    <3>8. JoinSize(db) <= n
      BY <1>2, <1>8, <3>4 DEF ParPasses, ParSize
    <3>9. Cardinality(Combined(ts, Gathered(at2, p))) \in Nat /\ JoinSize(db) \in Nat
      <4>1. IsFiniteSet(Combined(ts, Gathered(at2, p)))
        BY <1>10, <3>3, GatheredNodes, CombinedFinite
      <4>2. IsFiniteSet(Matches(db, Node))
        BY <3>5, MatchesFinite
      <4> QED BY <4>1, <4>2, FS_CardinalityType DEF JoinSize
    <3>10. Cardinality(Combined(ts, Gathered(at2, p))) <= n
      BY <1>10, <3>7, <3>8, <3>9
    <3> QED BY <1>14, <2>1, <3>10 DEF Fits
  <2>2. CASE u # p
    <3>1. ~Merged(at, u) /\ u # c
      BY <1>15 DEF Gathers
    <3>2. parts2[u] = parts[u] /\ at2[u] = at[u]
      BY <1>10, <1>13, <2>2, <3>1 DEF ChildJoins, JoinedUp, Counters
    <3> QED BY <1>2, <1>8, <3>1, <3>2 DEF ParJoins, ParSized
  <2> QED BY <2>1, <2>2
<1> QED BY <1>16, <1>17 DEF ParJoins

LEMMA ParJoinsInit ==
  ASSUME P!Init
  PROVE  ParJoins
<1>1. stage = "up" /\ stage \notin JoinStages
  BY DEF P!Init, JoinStages
<1>2. /\ cols = [u \in Node |-> tableKeys[u]]
      /\ offset = [u \in Node |-> [v \in Node |-> IF u = v THEN 0 ELSE -1]]
  BY ParYanTree DEF P!Init
<1> QED BY <1>1, <1>2 DEF ParJoins, ParUnjoined, ParJoined, ParSized

(* Before the joins there is nothing to show. *)
LEMMA NotYetJoined ==
  ASSUME ParJoins, stage \notin JoinStages, stage' \notin JoinStages, UNCHANGED <<cols, offset>>
  PROVE  ParJoins'
<1>1. JoinStages' = JoinStages
  BY DEF JoinStages
<1> QED BY <1>1 DEF ParJoins, ParUnjoined, ParJoined, ParSized

LEMMA StillJoined ==
  ASSUME ParJoins, stage \in JoinStages, stage' \in JoinStages,
         UNCHANGED <<input, tables, pc, outSize, partial, cols, offset>>
  PROVE  ParJoins'
<1>1. JoinStages' = JoinStages
  BY DEF JoinStages
<1>2. HasZeroKey(input)' <=> HasZeroKey(input)
  BY DEF HasZeroKey
<1>3. \A u : Merged(pc, u)' <=> Merged(pc, u)
  BY DEF Merged
<1>4. JoinedUp(tables, pc, partial, cols, offset)'
  BY DEF ParJoins, ParJoined
<1>5. ParSized'
  BY <1>2, <1>3 DEF ParJoins, ParSized
<1> QED BY <1>1, <1>4, <1>5 DEF ParJoins, ParUnjoined, ParJoined

LEMMA EndDownJoins ==
  ASSUME Called, ParPasses, ParJoins, P!EndDownLevel
  PROVE  ParJoins'
<1>1. /\ stage = "down"
      /\ IF level < MaxDepth
         THEN level' = level + 1 /\ stage' = "down" /\ UNCHANGED <<pc, partial>>
         ELSE /\ level' = MaxDepth /\ stage' = "join" /\ pc' = [u \in Node |-> 0]
              /\ partial' = [u \in Node |-> BagOfRows(tables[u])]
      /\ UNCHANGED <<input, target, tables, vals, outSize, cols, offset, result>>
  BY EndDownLevelIs
<1>2. stage \notin JoinStages /\ stage \notin UpStages
  BY <1>1 DEF JoinStages, UpStages
<1>3. CASE level < MaxDepth
  <2>1. stage' \notin JoinStages
    BY <1>1, <1>3 DEF JoinStages
  <2> QED BY <1>1, <1>2, <2>1, NotYetJoined
<1>4. CASE ~(level < MaxDepth)
  <2>1. /\ stage' = "join" /\ pc' = [u \in Node |-> 0]
        /\ partial' = [u \in Node |-> BagOfRows(tables[u])]
        /\ tables' = tables /\ cols' = cols /\ offset' = offset
    BY <1>1, <1>4
  <2>2. Wide(tables) /\ \A u \in Node : DOMAIN tables[u] = 1 .. Len(tables[u])
    BY <1>2, TablesWide DEF ParPasses
  <2>3. /\ cols = [u \in Node |-> tableKeys[u]]
        /\ offset = [u \in Node |-> [v \in Node |-> IF u = v THEN 0 ELSE -1]]
    BY <1>2 DEF ParJoins, ParUnjoined
  <2>4. PICK ts, at, parts, widths, offs : /\ ts = tables /\ at = pc' /\ parts = partial'
                                           /\ widths = cols /\ offs = offset
    OBVIOUS
  <2>5. /\ Wide(ts) /\ (\A u \in Node : DOMAIN ts[u] = 1 .. Len(ts[u]))
        /\ at = [u \in Node |-> 0] /\ parts = [u \in Node |-> BagOfRows(ts[u])]
        /\ widths = [u \in Node |-> tableKeys[u]]
        /\ offs = [u \in Node |-> [v \in Node |-> IF u = v THEN 0 ELSE -1]]
    BY <2>1, <2>2, <2>3, <2>4
  <2>6. JoinedUp(ts, at, parts, widths, offs)
    BY ONLY <2>5, JoinsStart
  <2>7. JoinedUp(tables', pc', partial', cols', offset')
    BY <2>1, <2>4, <2>6
  <2>8. stage' \in JoinStages' /\ JoinStages' = JoinStages
    BY <2>1 DEF JoinStages
  <2>9. ParSized'
    BY <2>1 DEF ParSized
  <2> QED BY <2>7, <2>8, <2>9 DEF ParJoins, ParUnjoined, ParJoined
<1> QED BY <1>3, <1>4

LEMMA ParJoinsStep ==
  ASSUME Called, ParPasses, ParJoins, P!Next
  PROVE  ParJoins'
<1> USE DEF JoinStages
<1>1. ASSUME NEW p \in Node, P!UpSemiJoin(p) PROVE ParJoins'
  BY <1>1, UpSemiJoinIs, NotYetJoined
<1>2. ASSUME NEW p \in Node, P!UpMultiply(p) PROVE ParJoins'
  BY <1>2, UpMultiplyIs, NotYetJoined
<1>3. ASSUME NEW p \in Node, P!DownSemiJoin(p) PROVE ParJoins'
  BY <1>3, DownSemiJoinIs, NotYetJoined
<1>4. ASSUME NEW p \in Node, P!DownFilter(p) PROVE ParJoins'
  BY <1>4, DownFilterIs, NotYetJoined
<1>5. ASSUME NEW p \in Node, P!JoinChild(p) PROVE ParJoins'
  BY <1>5, JoinChildJoins
<1>6. CASE P!EndUpLevel
  BY <1>6, EndUpLevelIs, NotYetJoined
<1>7. CASE P!Materialize
  BY <1>7, MaterializeIs, NotYetJoined
<1>8. CASE P!EndDownLevel
  BY <1>8, EndDownJoins
<1>9. CASE P!EndJoinLevel
  BY <1>9, EndJoinLevelIs, StillJoined
<1>10. CASE P!Reorder
  BY <1>10, ReorderIs, StillJoined
<1> QED BY <1>1, <1>2, <1>3, <1>4, <1>5, <1>6, <1>7, <1>8, <1>9, <1>10, ParYanSteps

LEMMA JoinsFit ==
  ASSUME Passes, mode = "paryan" => ParJoins
  PROVE  PartialsFit
<1>1. SUFFICES ASSUME mode = "paryan", stage \in {"join", "reorder"}, ~HasZeroKey(input),
                      NEW p \in Node, cols[p] > tableKeys[p]
               PROVE  BagCardinality(partial[p]) = outSize
  BY DEF PartialsFit
<1>2. stage \in JoinStages /\ ParPasses /\ ParJoins
  BY <1>1 DEF JoinStages, Passes
<1>3. JoinedUp(tables, pc, partial, cols, offset)
  BY <1>2 DEF ParJoins, ParJoined
<1>4. tableKeys[p] \in Nat /\ pc[p] \in Nat
  BY <1>2, InputAssumption DEF ParPasses, ParControl
<1>5. ~Merged(pc, p)
  <2>1. Merged(pc, p) => cols[p] = 0
    BY <1>3 DEF JoinedUp
  <2> QED BY <1>1, <1>4, <2>1
<1>6. pc[p] # 0
  <2>1. pc[p] = 0 => cols[p] = tableKeys[p]
    BY <1>3, <1>5 DEF JoinedUp, NodeJoined
  <2> QED BY <1>1, <1>4, <2>1
<1> QED BY <1>1, <1>2, <1>4, <1>5, <1>6 DEF ParJoins, ParSized

-----------------------------------------------------------------------------
(* The answer: rows in breadth-first order.                                *)
RowParts(db, f) == [k \in DOMAIN BfsOrder |-> db[BfsOrder[k]][f[BfsOrder[k]]].keys]

LEMMA PartsInOrder ==
  /\ DOMAIN BfsOrder = 1 .. Len(BfsOrder) /\ Len(BfsOrder) \in Nat /\ Len(BfsOrder) > 0
  /\ \A k \in 1 .. Len(BfsOrder) : BfsOrder[k] \in Node
  /\ \A u \in Node : \E k \in 1 .. Len(BfsOrder) : BfsOrder[k] = u
<1>1. PICK s : s = BfsOrder
  OBVIOUS
<1>2. s \in Seq(Node) /\ s # <<>> /\ \A u \in Node : \E k \in 1 .. Len(s) : s[k] = u
  BY <1>1, OrderFacts DEF Named
<1>3. DOMAIN s = 1 .. Len(s) /\ Len(s) \in Nat /\ \A k \in 1 .. Len(s) : s[k] \in Node
  BY <1>2
<1>4. Len(s) > 0
  <2>1. Root \in Node
    BY TreeAssumption
  <2> QED BY <1>2, <1>3, <2>1
<1> QED BY <1>1, <1>2, <1>3, <1>4

(* What a flat row of parts holds. *)
Holds(flat, seqs, n) ==
  /\ flat \in Seq(Int)
  /\ \A i \in 1 .. n : \A k \in 1 .. Len(seqs[i]) : \E m \in 1 .. Len(flat) : flat[m] = seqs[i][k]
  /\ \A m \in 1 .. Len(flat) : \E i \in 1 .. n : \E k \in 1 .. Len(seqs[i]) : flat[m] = seqs[i][k]

LEMMA FlatElements ==
  ASSUME NEW n, NEW seqs, Sequences(seqs, n, Int), NEW flat, flat = FlattenSeq(seqs)
  PROVE  Holds(flat, seqs, n)
<1>1. InOrder(flat, seqs, n, Int)
  BY FlattenedElements
<1>2. /\ flat \in Seq(Int)
      /\ \A i \in 1 .. n : \A k \in 1 .. Len(seqs[i]) : \E m \in 1 .. Len(flat) : flat[m] = seqs[i][k]
      /\ \A m, l \in 1 .. Len(flat) : m <= l =>
           \E i, j \in 1 .. n : /\ i <= j
                                /\ \E k \in 1 .. Len(seqs[i]) : flat[m] = seqs[i][k]
                                /\ \E k \in 1 .. Len(seqs[j]) : flat[l] = seqs[j][k]
  BY <1>1 DEF InOrder
<1>3. ASSUME NEW m \in 1 .. Len(flat)
      PROVE  \E i \in 1 .. n : \E k \in 1 .. Len(seqs[i]) : flat[m] = seqs[i][k]
  <2>1. m <= m
    OBVIOUS
  <2>2. PICK i \in 1 .. n, j \in 1 .. n : \E k \in 1 .. Len(seqs[i]) : flat[m] = seqs[i][k]
    BY <1>2, <2>1
  <2> QED BY <2>2
<1> QED BY <1>2, <1>3 DEF Holds

(* A flat row of an answer f. *)
OneRowEach(db, f) == \A u \in Node : f[u] \in 1 .. Len(db[u])

AnswerFlat(flat, db, f) ==
  /\ flat \in Seq(Int)
  /\ \A u \in Node : \A k \in 1 .. tableKeys[u] : \E m \in 1 .. Len(flat) : flat[m] = db[u][f[u]].keys[k]
  /\ \A m \in 1 .. Len(flat) : \E u \in Node : \E k \in 1 .. tableKeys[u] :
       flat[m] = db[u][f[u]].keys[k]

LEMMA BfsRowElements ==
  ASSUME NEW db, IsInput(db), NEW f, OneRowEach(db, f), NEW flat, flat = BfsRow(db, f)
  PROVE  AnswerFlat(flat, db, f)
<1> DEFINE seqs == RowParts(db, f)
           n == Len(BfsOrder)
<1>1. /\ DOMAIN BfsOrder = 1 .. n /\ n \in Nat /\ n > 0
      /\ \A k \in 1 .. n : BfsOrder[k] \in Node
      /\ \A u \in Node : \E k \in 1 .. n : BfsOrder[k] = u
  BY PartsInOrder
<1>2. \A u \in Node : db[u][f[u]].keys \in Seq(Int) /\ Len(db[u][f[u]].keys) = tableKeys[u]
  BY InputRow DEF IsInput, OneRowEach
<1>3. seqs = [k \in 1 .. n |-> seqs[k]] /\ \A k \in 1 .. n : seqs[k] = db[BfsOrder[k]][f[BfsOrder[k]]].keys
  BY <1>1 DEF RowParts
<1>4. flat = FlattenSeq(seqs)
  BY DEF BfsRow, RowParts
<1> HIDE DEF seqs, n
<1>5. Len(seqs) = n
  BY <1>1, <1>3, LenOf
<1>6. \A k \in 1 .. n : seqs[k] \in Seq(Int) /\ Len(seqs[k]) = tableKeys[BfsOrder[k]]
  BY <1>1, <1>2, <1>3
<1>7. Sequences(seqs, n, Int)
  BY <1>1, <1>5, <1>6 DEF Sequences
<1>a. Holds(flat, seqs, n)
  BY <1>4, <1>7, FlatElements
<1>8. /\ flat \in Seq(Int)
      /\ \A i \in 1 .. n : \A k \in 1 .. Len(seqs[i]) : \E m \in 1 .. Len(flat) : flat[m] = seqs[i][k]
      /\ \A m \in 1 .. Len(flat) : \E i \in 1 .. n : \E k \in 1 .. Len(seqs[i]) : flat[m] = seqs[i][k]
  BY <1>a DEF Holds
<1>9. \A u \in Node : \A k \in 1 .. tableKeys[u] : \E m \in 1 .. Len(flat) : flat[m] = db[u][f[u]].keys[k]
  <2> TAKE u \in Node
  <2>1. PICK i \in 1 .. n : BfsOrder[i] = u
    BY <1>1
  <2>2. seqs[i] = db[u][f[u]].keys /\ Len(seqs[i]) = tableKeys[u]
    BY <2>1, <1>3, <1>6
  <2>3. \A k \in 1 .. Len(seqs[i]) : \E m \in 1 .. Len(flat) : flat[m] = seqs[i][k]
    BY <1>8
  <2> QED BY ONLY <2>2, <2>3
<1>10. \A m \in 1 .. Len(flat) : \E u \in Node : \E k \in 1 .. tableKeys[u] : flat[m] = db[u][f[u]].keys[k]
  <2> TAKE m \in 1 .. Len(flat)
  <2>1. PICK i \in 1 .. n : \E k \in 1 .. Len(seqs[i]) : flat[m] = seqs[i][k]
    BY <1>8
  <2>2. PICK u \in Node : u = BfsOrder[i]
    BY <1>1
  <2>3. seqs[i] = db[u][f[u]].keys /\ Len(seqs[i]) = tableKeys[u]
    BY <2>2, <1>3, <1>6
  <2>4. \E k \in 1 .. tableKeys[u] : flat[m] = db[u][f[u]].keys[k]
    BY ONLY <2>1, <2>3
  <2> QED BY <2>4
<1> QED BY <1>8, <1>9, <1>10 DEF AnswerFlat

-----------------------------------------------------------------------------
(* The columns of one relation in a joined row. *)
Cut(x, off, u) == SubSeq(x, off[u] + 1, off[u] + tableKeys[u])

LEMMA CutIs ==
  ASSUME NEW x, x \in Seq(Int), NEW width, Len(x) = width, NEW off, OffsetsFit(Node, off, width), NEW u \in Node
  PROVE  /\ Cut(x, off, u) = [k \in 1 .. tableKeys[u] |-> x[off[u] + k]]
         /\ Cut(x, off, u) \in Seq(Int) /\ Len(Cut(x, off, u)) = tableKeys[u]
         /\ \A k \in 1 .. tableKeys[u] : off[u] + k \in DOMAIN x
<1>1. /\ tableKeys[u] \in Nat /\ off[u] \in Nat /\ width \in Nat /\ off[u] + tableKeys[u] <= width
  BY InputAssumption DEF OffsetsFit
<1>2. PICK o, t : o = off[u] /\ t = tableKeys[u]
  OBVIOUS
<1>3. o \in Nat /\ t \in Nat /\ o + t <= Len(x) /\ Len(x) \in Nat
  BY <1>1, <1>2
<1>4. SubSeq(x, o + 1, o + t) = [k \in 1 .. t |-> x[o + k]]
  <2>1. PICK z : z = SubSeq(x, o + 1, o + t)
    OBVIOUS
  <2>2. z \in Seq(Int) /\ Len(z) = t /\ \A k \in 1 .. t : z[k] = x[o + k]
    <3>1. x \in Seq(Int)
      OBVIOUS
    <3>2. z \in Seq(Int)
      BY ONLY <1>3, <2>1, <3>1
    <3>3. Len(z) = t
      BY ONLY <1>3, <2>1, <3>1
    <3>4. ASSUME NEW k \in 1 .. t PROVE z[k] = x[o + k]
      BY ONLY <1>3, <2>1, <3>1, <3>4
    <3> QED BY <3>2, <3>3, <3>4
  <2>3. z = [k \in 1 .. Len(z) |-> z[k]]
    BY <2>2
  <2> QED BY <2>1, <2>2, <2>3
<1>5. \A k \in 1 .. t : o + k \in DOMAIN x /\ x[o + k] \in Int
  BY <1>3
<1>6. PICK y : y = [k \in 1 .. t |-> x[o + k]]
  OBVIOUS
<1>7. y \in Seq(Int) /\ Len(y) = t
  BY <1>3, <1>5, <1>6
<1> QED BY <1>2, <1>4, <1>5, <1>6, <1>7 DEF Cut

LEMMA OrderedIs ==
  \A x, off : Ordered(x, off, BfsOrder) = FlattenSeq([k \in DOMAIN BfsOrder |-> Cut(x, off, BfsOrder[k])])
BY Zenon DEF Ordered, Cut

LEMMA OrderedRow ==
  ASSUME NEW db, IsInput(db), NEW ts, NEW off, NEW width, OffsetsFit(Node, off, width),
         NEW f, \A u \in Node : f[u] \in 1 .. Len(db[u]),
         \A u \in Node : ts[u][f[u]].keys = db[u][f[u]].keys,
         NEW x, HasColumns(ts, Node, off, width, f, x)
  PROVE  Ordered(x, off, BfsOrder) = BfsRow(db, f)
<1>1. ASSUME NEW u \in Node PROVE Cut(x, off, u) = db[u][f[u]].keys
  <2>1. x \in Seq(Int) /\ Len(x) = width
    BY DEF HasColumns
  <2>2. Cut(x, off, u) = [k \in 1 .. tableKeys[u] |-> x[off[u] + k]]
    BY <2>1, CutIs
  <2>3. \A k \in 1 .. tableKeys[u] : x[off[u] + k] = db[u][f[u]].keys[k]
    BY DEF HasColumns
  <2>4. PICK y : y = db[u][f[u]].keys
    OBVIOUS
  <2>5. y \in Seq(Int) /\ Len(y) = tableKeys[u]
    BY <2>4, InputRow DEF IsInput
  <2>6. y = [k \in 1 .. tableKeys[u] |-> y[k]]
    BY <2>5
  <2> QED BY <2>2, <2>3, <2>4, <2>6
<1>2. \A k \in DOMAIN BfsOrder : BfsOrder[k] \in Node
  BY PartsInOrder
<1>3. [k \in DOMAIN BfsOrder |-> Cut(x, off, BfsOrder[k])] = RowParts(db, f)
  BY <1>1, <1>2 DEF RowParts
<1>4. BfsRow(db, f) = FlattenSeq(RowParts(db, f))
  BY DEF BfsRow, RowParts
<1> QED BY <1>3, <1>4, OrderedIs

LEMMA OrderedBottom ==
  ASSUME NEW x, x \in Seq(Int), NEW width, Len(x) = width, NEW off, OffsetsFit(Node, off, width), isBottom(x)
  PROVE  isBottom(Ordered(x, off, BfsOrder))
<1> DEFINE seqs == [k \in DOMAIN BfsOrder |-> Cut(x, off, BfsOrder[k])]
           n == Len(BfsOrder)
<1>1. /\ DOMAIN BfsOrder = 1 .. n /\ n \in Nat /\ n > 0
      /\ \A k \in 1 .. n : BfsOrder[k] \in Node
  BY PartsInOrder
<1>2. seqs = [k \in 1 .. n |-> seqs[k]] /\ \A k \in 1 .. n : seqs[k] = Cut(x, off, BfsOrder[k])
  BY <1>1
<1>3. PICK flat : flat = FlattenSeq(seqs)
  OBVIOUS
<1>4. Ordered(x, off, BfsOrder) = flat
  BY <1>3, OrderedIs
<1> HIDE DEF seqs, n
<1>5. Len(seqs) = n
  BY <1>1, <1>2, LenOf
<1>6. \A u \in Node : /\ Cut(x, off, u) \in Seq(Int) /\ Len(Cut(x, off, u)) = tableKeys[u]
                      /\ \A k \in 1 .. tableKeys[u] : Cut(x, off, u)[k] = 0
  <2> TAKE u \in Node
  <2>1. /\ Cut(x, off, u) = [k \in 1 .. tableKeys[u] |-> x[off[u] + k]]
        /\ Cut(x, off, u) \in Seq(Int) /\ Len(Cut(x, off, u)) = tableKeys[u]
        /\ \A k \in 1 .. tableKeys[u] : off[u] + k \in DOMAIN x
    BY CutIs
  <2> QED BY <2>1 DEF isBottom
<1>7. Sequences(seqs, n, Int)
  BY <1>1, <1>2, <1>5, <1>6 DEF Sequences
<1>a. Holds(flat, seqs, n)
  BY <1>3, <1>7, FlatElements
<1>8. /\ flat \in Seq(Int)
      /\ \A m \in 1 .. Len(flat) : \E i \in 1 .. n : \E k \in 1 .. Len(seqs[i]) : flat[m] = seqs[i][k]
  BY <1>a DEF Holds
<1>9. ASSUME NEW m \in 1 .. Len(flat) PROVE flat[m] = 0
  <2>1. PICK i \in 1 .. n : \E k \in 1 .. Len(seqs[i]) : flat[m] = seqs[i][k]
    BY <1>8
  <2>2. PICK u \in Node : seqs[i] = Cut(x, off, u)
    BY <1>1, <1>2
  <2>3. PICK k \in 1 .. Len(Cut(x, off, u)) : flat[m] = Cut(x, off, u)[k]
    BY <2>1, <2>2
  <2>4. k \in 1 .. tableKeys[u]
    BY <1>6
  <2> QED BY <1>6, <2>3, <2>4
<1>10. DOMAIN flat = 1 .. Len(flat)
  BY <1>8
<1> QED BY <1>4, <1>9, <1>10 DEF isBottom

-----------------------------------------------------------------------------
(* The answers of db that have no key 0. *)
Found(db) ==
  {f \in Matches(db, Node) : \A c \in NonRoot : db[c][f[c]].keys[ColInChild[c]] # 0}

(* What the passes leave of db, with or without keys 0. *)
Kept(ts, db) ==
  \A u \in Node :
    /\ Len(ts[u]) = Len(db[u])
    /\ \A i \in 1 .. Len(ts[u]) :
         /\ ts[u][i].keys = db[u][i].keys \/ ts[u][i].keys = Zeros(tableKeys[u])
         /\ RowUsed(db, u, i) => ts[u][i].keys = db[u][i].keys

LEMMA EdgesOfNode ==
  \A c \in Node : Parent[c] \in Node <=> c \in NonRoot
<1> SUFFICES ASSUME NEW c \in Node PROVE Parent[c] \in Node <=> c \in NonRoot
  OBVIOUS
<1>1. c = Root => Parent[c] = NoParent
  BY TreeAssumption
<1>2. NoParent \notin Node
  BY TreeAssumption DEF Node, NoParent
<1>3. c # Root => c \in NonRoot /\ Parent[c] \in Node
  BY ParentFacts DEF NonRoot
<1> QED BY <1>1, <1>2, <1>3 DEF NonRoot

LEMMA CombinedRowsKept ==
  ASSUME NEW db, NEW ts, Wide(ts), Kept(ts, db), ~IsLeaf(Root),
         NEW f \in Combined(ts, Node), NEW u \in Node
  PROVE  f[u] \in 1 .. Len(db[u]) /\ ts[u][f[u]].keys = db[u][f[u]].keys
<1>1. f[u] \in 1 .. Len(ts[u])
  BY CombinedAre
<1>2. Parent[u] \in Node \/ \E v \in NonRoot : v \in Node /\ Parent[v] = u
  <2>1. CASE u = Root
    <3>1. PICK v : v \in ChildSet(u)
      BY <2>1 DEF IsLeaf
    <3>2. v \in NonRoot /\ Parent[v] = u
      BY <3>1, ChildFacts
    <3> QED BY <3>2 DEF NonRoot
  <2>2. CASE u # Root
    BY <2>2, ParentFacts DEF NonRoot
  <2> QED BY <2>1, <2>2
<1>3. ts[u][f[u]].keys # Zeros(tableKeys[u])
  BY <1>2, CombinedKept
<1> QED BY <1>1, <1>3 DEF Kept

LEMMA CombinedFound ==
  ASSUME NEW db, Database(db), NEW ts, Wide(ts), Kept(ts, db), ~IsLeaf(Root)
  PROVE  Combined(ts, Node) = Found(db)
<1>1. ASSUME NEW f \in Combined(ts, Node) PROVE f \in Found(db)
  <2>1. \A u \in Node : f[u] \in 1 .. Len(db[u]) /\ ts[u][f[u]].keys = db[u][f[u]].keys
    BY CombinedRowsKept
  <2>2. /\ f = [u \in Node |-> f[u]]
        /\ \A u \in Node : Parent[u] \in Node => JoinsNonzero(ts, u, f[Parent[u]], f[u])
    BY CombinedAre
  <2>3. \A u \in Node : Parent[u] \in Node =>
          Joins(u, db[Parent[u]][f[Parent[u]]], db[u][f[u]]) /\ db[u][f[u]].keys[ColInChild[u]] # 0
    BY <2>1, <2>2 DEF JoinsNonzero, Joins
  <2>4. f \in Matches(db, Node)
    BY <2>1, <2>2, <2>3, MatchesAre
  <2>5. \A c \in NonRoot : c \in Node /\ Parent[c] \in Node
    BY ParentFacts
  <2> QED BY <2>3, <2>4, <2>5 DEF Found
<1>2. ASSUME NEW f \in Found(db) PROVE f \in Combined(ts, Node)
  <2>1. f \in Matches(db, Node) /\ \A c \in NonRoot : db[c][f[c]].keys[ColInChild[c]] # 0
    BY DEF Found
  <2>2. /\ f = [u \in Node |-> f[u]] /\ \A u \in Node : f[u] \in 1 .. Len(db[u])
        /\ \A u \in Node : Parent[u] \in Node => Joins(u, db[Parent[u]][f[Parent[u]]], db[u][f[u]])
    BY <2>1, MatchesAre
  <2>3. \A u \in Node : f[u] \in 1 .. Len(ts[u]) /\ ts[u][f[u]].keys = db[u][f[u]].keys
    BY <2>1, <2>2 DEF Kept, RowUsed
  <2>4. \A u \in Node : Parent[u] \in Node => JoinsNonzero(ts, u, f[Parent[u]], f[u])
    BY <2>1, <2>2, <2>3, EdgesOfNode DEF JoinsNonzero, Joins
  <2> QED BY <2>2, <2>3, <2>4, CombinedAre
<1> QED BY <1>1, <1>2

(* Every answer has the row that the reordering makes of it: it is not a   *)
(* row of zeros, and no dummy row.                                         *)
LEMMA AnswerRow ==
  ASSUME NEW db, IsInput(db), NEW ts, Wide(ts), Kept(ts, db), ~IsLeaf(Root),
         NEW B, NEW off, NEW width, NEW W, Lists(B, ts, Node, off, width, W),
         NEW f \in Combined(ts, Node)
  PROVE  /\ Ordered(W[f], off, BfsOrder) = BfsRow(db, f)
         /\ ~isBottom(BfsRow(db, f)) /\ DummyValue \notin ToSet(BfsRow(db, f))
         /\ W[f] \in DOMAIN B
<1>1. \A u \in Node : f[u] \in 1 .. Len(db[u]) /\ ts[u][f[u]].keys = db[u][f[u]].keys
  BY CombinedRowsKept
<1>2. OffsetsFit(Node, off, width) /\ HasColumns(ts, Node, off, width, f, W[f])
  BY DEF Lists
<1>3. PICK x, flat : x = W[f] /\ flat = BfsRow(db, f)
  OBVIOUS
<1>4. HasColumns(ts, Node, off, width, f, x)
  BY <1>2, <1>3
<1>5. Ordered(x, off, BfsOrder) = flat
  BY <1>1, <1>2, <1>3, <1>4, OrderedRow
<1>a. AnswerFlat(flat, db, f)
  <2>1. OneRowEach(db, f)
    BY <1>1 DEF OneRowEach
  <2>2. IsInput(db)
    OBVIOUS
  <2> QED BY ONLY <1>3, <2>1, <2>2, BfsRowElements
<1>6. /\ flat \in Seq(Int)
      /\ \A u \in Node : \A k \in 1 .. tableKeys[u] : \E m \in 1 .. Len(flat) : flat[m] = db[u][f[u]].keys[k]
      /\ \A m \in 1 .. Len(flat) : \E u \in Node : \E k \in 1 .. tableKeys[u] :
           flat[m] = db[u][f[u]].keys[k]
  BY <1>a DEF AnswerFlat
<1>7. DOMAIN flat = 1 .. Len(flat)
  BY <1>6
<1>8. ~isBottom(flat)
  <2>1. PICK c : c \in ChildSet(Root)
    BY DEF IsLeaf
  <2>2. c \in NonRoot /\ c \in Node /\ Parent[c] \in Node /\ ColInChild[c] \in 1 .. tableKeys[c]
    <3>1. Root \in Node
      BY TreeAssumption
    <3>2. c \in NonRoot
      BY <2>1, <3>1, ChildFacts
    <3> QED BY <3>2, ParentFacts, InputAssumption
  <2>3. JoinsNonzero(ts, c, f[Parent[c]], f[c])
    BY <2>2, CombinedAre
  <2>4. db[c][f[c]].keys[ColInChild[c]] # 0
    BY <1>1, <2>2, <2>3 DEF JoinsNonzero
  <2>5. PICK m \in 1 .. Len(flat) : flat[m] = db[c][f[c]].keys[ColInChild[c]]
    BY <1>6, <2>2
  <2> QED BY <1>7, <2>4, <2>5 DEF isBottom
<1>9. DummyValue \notin ToSet(flat)
  <2> SUFFICES ASSUME NEW m \in 1 .. Len(flat), flat[m] = DummyValue PROVE FALSE
    BY <1>7 DEF ToSet
  <2>1. PICK u \in Node : \E k \in 1 .. tableKeys[u] : flat[m] = db[u][f[u]].keys[k]
    BY <1>6
  <2>2. PICK k \in 1 .. tableKeys[u] : DummyValue = db[u][f[u]].keys[k]
    BY <2>1
  <2>3. DOMAIN db[u][f[u]].keys = 1 .. tableKeys[u]
    BY <1>1, InputWidth
  <2>4. DummyValue \in ToSet(db[u][f[u]].keys)
    BY <2>2, <2>3 DEF ToSet
  <2> QED BY <1>1, <2>4 DEF IsInput
<1>10. ~isBottom(x)
  <2>1. x \in Seq(Int) /\ Len(x) = width
    BY <1>4 DEF HasColumns
  <2> QED BY <1>2, <1>5, <1>8, <2>1, OrderedBottom
<1>11. W[f] \in DOMAIN B
  BY <1>3, <1>10 DEF Lists
<1> QED BY <1>3, <1>5, <1>8, <1>9, <1>11

-----------------------------------------------------------------------------
(* The bags of Reorder and of the join, as functions. *)
InBfsOrder(B, off) == ImageBag(B, LAMBDA row : Ordered(row, off, BfsOrder))

Real(R) == Restricted(R, LAMBDA row : ~isBottom(row) /\ DummyValue \notin ToSet(row))

Becoming(B, off, v) == {x \in DOMAIN B : Ordered(x, off, BfsOrder) = v}

Once(C) == [f \in C |-> 1]

Answering(db, v) == {f \in Found(db) : BfsRow(db, f) = v}

LEMMA InBfsOrderIs ==
  ASSUME NEW B, NEW off
  PROVE  InBfsOrder(B, off) =
           [v \in {Ordered(x, off, BfsOrder) : x \in DOMAIN B} |-> TotalOf(B, Becoming(B, off, v))]
BY Zenon DEF InBfsOrder, ImageBag, TotalOf, Becoming

LEMMA RealIs ==
  ASSUME NEW R
  PROVE  Real(R) = [v \in {x \in DOMAIN R : ~isBottom(x) /\ DummyValue \notin ToSet(x)} |-> R[v]]
BY Zenon DEF Real, Restricted

LEMMA BfsJoinIs ==
  ASSUME NEW db
  PROVE  BfsJoin(db) = [v \in {BfsRow(db, f) : f \in Found(db)} |-> TotalOf(Once(Found(db)), Answering(db, v))]
<1>1. DOMAIN Once(Found(db)) = Found(db)
  BY DEF Once
<1>2. BfsJoin(db) = ImageBag(Once(Found(db)), LAMBDA f : BfsRow(db, f))
  BY Zenon DEF BfsJoin, Found, Once
<1>3. ImageBag(Once(Found(db)), LAMBDA f : BfsRow(db, f)) =
        [v \in {BfsRow(db, f) : f \in DOMAIN Once(Found(db))} |->
          TotalOf(Once(Found(db)), {f \in DOMAIN Once(Found(db)) : BfsRow(db, f) = v})]
  BY Zenon DEF ImageBag, TotalOf
<1> QED BY <1>1, <1>2, <1>3, Zenon DEF Answering

(* How often a row of the join occurs. *)
LEMMA TimesFound ==
  ASSUME NEW db, IsFiniteSet(Found(db)), NEW v
  PROVE  TotalOf(Once(Found(db)), Answering(db, v)) = Cardinality(Answering(db, v))
<1> DEFINE K == Answering(db, v)
           H == [f \in K |-> {f}]
           w == Once(Found(db))
<1>1. K \subseteq Found(db)
  BY DEF Answering
<1>2. IsFiniteSet(K)
  BY <1>1, FS_Subset
<1>3. /\ \A f \in K : IsFiniteSet(H[f])
      /\ \A f \in K : w[f] = Cardinality(H[f])
  <2>1. \A f \in K : IsFiniteSet({f}) /\ Cardinality({f}) = 1
    BY FS_Singleton
  <2>2. \A f \in K : w[f] = 1
    BY <1>1 DEF Once
  <2>3. \A f \in K : H[f] = {f}
    OBVIOUS
  <2> HIDE DEF H, w, K
  <2> QED BY <2>1, <2>2, <2>3
<1>4. \A f, g \in K : f # g => H[f] \cap H[g] = {}
  OBVIOUS
<1>5. Together(H, K) = K
  BY DEF Together
<1> HIDE DEF H, w, K
<1>6. TotalOf(w, K) = Cardinality(Together(H, K))
  BY <1>2, <1>3, <1>4, FunctionSum
<1> QED BY <1>5, <1>6 DEF w, K

(* Every row occurs as often among the reordered rows as in the join.      *)
LEMMA TimesListed ==
  ASSUME NEW db, IsInput(db), NEW ts, Wide(ts), Kept(ts, db), ~IsLeaf(Root),
         NEW B, NEW off, NEW width, NEW W, Lists(B, ts, Node, off, width, W),
         NEW v, ~isBottom(v)
  PROVE  TotalOf(B, Becoming(B, off, v)) = Cardinality(Answering(db, v))
<1> DEFINE K == Becoming(B, off, v)
           H == [x \in K |-> Fibre(ts, Node, W, x)]
<1>1. TableBag(B, width) /\ OffsetsFit(Node, off, width)
  BY DEF Lists
<1>2. K \subseteq DOMAIN B /\ IsFiniteSet(K)
  <2>1. K \subseteq DOMAIN B
    BY DEF Becoming
  <2> QED BY <1>1, <2>1, FS_Subset DEF TableBag
<1>3. \A x \in K : IsFiniteSet(Fibre(ts, Node, W, x)) /\ H[x] = Fibre(ts, Node, W, x)
  BY FibreFinite
<1>4. ASSUME NEW x \in K PROVE B[x] = Cardinality(H[x])
  <2>1. x \in DOMAIN B /\ Ordered(x, off, BfsOrder) = v
    BY DEF Becoming
  <2>2. x \in Seq(Int) /\ Len(x) = width
    BY <1>1, <2>1 DEF TableBag
  <2>3. ~isBottom(x)
    BY <1>1, <2>1, <2>2, OrderedBottom
  <2> QED BY <1>3, <2>1, <2>3 DEF Lists
<1>5. \A x, y \in K : x # y => H[x] \cap H[y] = {}
  BY <1>3 DEF Fibre
<1>6. Combined(ts, Node) = Found(db)
  <2>1. Database(db)
    BY InputIsDatabase
  <2> QED BY <2>1, CombinedFound
<1>7. ASSUME NEW f \in Found(db)
      PROVE  Ordered(W[f], off, BfsOrder) = BfsRow(db, f) /\ W[f] \in DOMAIN B
  BY <1>6, AnswerRow
<1>8. ASSUME NEW x \in K, NEW f \in H[x] PROVE f \in Answering(db, v)
  <2>1. f \in Found(db) /\ W[f] = x
    BY <1>3, <1>6 DEF Fibre
  <2>2. Ordered(x, off, BfsOrder) = v
    BY DEF Becoming
  <2> QED BY <1>7, <2>1, <2>2 DEF Answering
<1>9. ASSUME NEW f \in Answering(db, v) PROVE W[f] \in K /\ f \in H[W[f]]
  <2>1. f \in Found(db) /\ BfsRow(db, f) = v
    BY DEF Answering
  <2>2. W[f] \in K
    BY <1>7, <2>1 DEF Becoming
  <2> QED BY <1>3, <1>6, <2>1, <2>2 DEF Fibre
<1> HIDE DEF H, K
<1>10. TotalOf(B, K) = Cardinality(Together(H, K))
  BY <1>2, <1>3, <1>4, <1>5, FunctionSum
<1>11. Together(H, K) = Answering(db, v)
  <2>1. \A f \in Together(H, K) : f \in Answering(db, v)
    BY <1>8 DEF Together
  <2>2. \A f \in Answering(db, v) : f \in Together(H, K)
    BY <1>9 DEF Together
  <2> QED BY <2>1, <2>2
<1> QED BY <1>10, <1>11 DEF K

(* The bag of the root relation, once the columns are in order and the     *)
(* rows of zeros are left out, is the join.                                *)
LEMMA AnswerListed ==
  ASSUME NEW db, IsInput(db), NEW ts, Wide(ts), Kept(ts, db), ~IsLeaf(Root),
         NEW B, NEW off, NEW width, NEW W, Lists(B, ts, Node, off, width, W)
  PROVE  Real(InBfsOrder(B, off)) = BfsJoin(db)
<1> DEFINE V == {BfsRow(db, f) : f \in Found(db)}
<1>1. PICK R : R = InBfsOrder(B, off)
  OBVIOUS
<1>2. /\ DOMAIN R = {Ordered(x, off, BfsOrder) : x \in DOMAIN B}
      /\ \A v \in DOMAIN R : R[v] = TotalOf(B, Becoming(B, off, v))
  BY <1>1, InBfsOrderIs, Zenon
<1>3. Combined(ts, Node) = Found(db) /\ IsFiniteSet(Found(db))
  <2>1. Database(db)
    BY InputIsDatabase
  <2>2. Combined(ts, Node) = Found(db)
    BY <2>1, CombinedFound
  <2> QED BY <2>2, CombinedFinite
<1>4. ASSUME NEW f \in Found(db)
      PROVE  /\ Ordered(W[f], off, BfsOrder) = BfsRow(db, f)
             /\ ~isBottom(BfsRow(db, f)) /\ DummyValue \notin ToSet(BfsRow(db, f))
             /\ W[f] \in DOMAIN B
  BY <1>3, AnswerRow
<1>5. TableBag(B, width) /\ OffsetsFit(Node, off, width)
  BY DEF Lists
<1>6. {v \in DOMAIN R : ~isBottom(v) /\ DummyValue \notin ToSet(v)} = V
  <2>1. ASSUME NEW v \in DOMAIN R, ~isBottom(v) PROVE v \in V
    <3>1. PICK x \in DOMAIN B : v = Ordered(x, off, BfsOrder)
      BY <1>2, Zenon
    <3>2. x \in Seq(Int) /\ Len(x) = width
      BY <1>5 DEF TableBag
    <3>3. ~isBottom(x)
      BY <1>5, <2>1, <3>1, <3>2, OrderedBottom
    <3>4. PICK f \in Combined(ts, Node) : W[f] = x
      BY <3>3, RowsCombine
    <3>5. v = BfsRow(db, f)
      BY <1>3, <1>4, <3>1, <3>4
    <3> QED BY <1>3, <3>5
  <2>2. ASSUME NEW f \in Found(db)
        PROVE  BfsRow(db, f) \in {v \in DOMAIN R : ~isBottom(v) /\ DummyValue \notin ToSet(v)}
    <3>1. BfsRow(db, f) \in DOMAIN R
      BY <1>2, <1>4, Zenon
    <3> QED BY <1>4, <3>1
  <2> QED BY <2>1, <2>2
<1>7. ASSUME NEW v \in V PROVE R[v] = TotalOf(Once(Found(db)), Answering(db, v))
  <2>1. v \in DOMAIN R /\ ~isBottom(v)
    BY <1>6
  <2>2. R[v] = Cardinality(Answering(db, v))
    BY <1>2, <2>1, TimesListed
  <2>3. TotalOf(Once(Found(db)), Answering(db, v)) = Cardinality(Answering(db, v))
    BY <1>3, TimesFound
  <2> QED BY <2>2, <2>3
<1>8. Real(R) = [v \in V |-> R[v]]
  <2>1. Real(R) = [v \in {x \in DOMAIN R : ~isBottom(x) /\ DummyValue \notin ToSet(x)} |-> R[v]]
    BY RealIs
  <2> HIDE DEF V
  <2> QED BY <1>6, <2>1, Zenon
<1>9. BfsJoin(db) = [v \in V |-> TotalOf(Once(Found(db)), Answering(db, v))]
  BY BfsJoinIs, Zenon
<1> HIDE DEF V
<1>10. [v \in V |-> R[v]] = [v \in V |-> TotalOf(Once(Found(db)), Answering(db, v))]
  BY <1>7, Zenon
<1> QED BY <1>1, <1>8, <1>9, <1>10

-----------------------------------------------------------------------------
ParAnswered == stage = "done" => Real(result) = BfsJoin(input)

LEMMA TablesKept ==
  ASSUME Called, ParRows, ParFilter, stage \notin UpStages
  PROVE  Kept(tables, input)
<1>1. \A u \in Node : Len(tables[u]) = Len(input[u])
  BY TablesWide
<1>2. \A u \in Node : \A i \in 1 .. Len(input[u]) :
        /\ tables[u][i].keys = input[u][i].keys \/ tables[u][i].keys = Zeros(tableKeys[u])
        /\ RowUsed(input, u, i) => tables[u][i].keys = input[u][i].keys
  BY DEF ParFilter, RowKept
<1> QED BY <1>1, <1>2 DEF Kept

(* When the levels have been joined, the root has gathered every relation. *)
LEMMA ReorderAnswers ==
  ASSUME Called, ParPasses, ParJoins, ~IsLeaf(Root), P!Reorder
  PROVE  ParAnswered'
<1>1. /\ stage = "reorder" /\ stage' = "done"
      /\ result' = InBfsOrder(partial[Root], offset[Root])
      /\ input' = input
  BY ReorderIs, Zenon DEF InBfsOrder
<1>2. stage \notin UpStages /\ stage \in JoinStages
  BY <1>1 DEF UpStages, JoinStages
<1>3. Wide(tables) /\ Kept(tables, input) /\ IsInput(input)
  BY <1>2, TablesWide, TablesKept, InputsAre DEF ParPasses, Called
<1>4. JoinedUp(tables, pc, partial, cols, offset)
  BY <1>2 DEF ParJoins, ParJoined
<1>5. Root \in Node /\ pc[Root] = ChildCount(Root)
  <2>1. Root \in Node
    BY TreeAssumption
  <2> QED BY <1>1, <2>1 DEF ParPasses, ParControl
<1>6. Gathered(pc, Root) = Node
  BY <1>5, GatheredAll, RootSubtree
<1>7. NodeJoined(tables, pc, partial, cols, offset, Root)
  <2>1. ~Merged(pc, Root)
    BY DEF Merged
  <2> QED BY <1>4, <1>5, <2>1 DEF JoinedUp
<1>8. PICK W : Lists(partial[Root], tables, Node, offset[Root], cols[Root], W)
  BY <1>6, <1>7 DEF NodeJoined
<1>9. PICK db, ts, B, off, width : /\ db = input /\ ts = tables /\ B = partial[Root]
                                   /\ off = offset[Root] /\ width = cols[Root]
  OBVIOUS
<1>10. IsInput(db) /\ Wide(ts) /\ Kept(ts, db) /\ ~IsLeaf(Root) /\ Lists(B, ts, Node, off, width, W)
  BY <1>3, <1>8, <1>9
<1>11. Real(InBfsOrder(B, off)) = BfsJoin(db)
  BY ONLY <1>10, AnswerListed
<1>12. PICK R : R = InBfsOrder(B, off)
  OBVIOUS
<1>13. result' = R /\ Real(R) = BfsJoin(db)
  BY <1>1, <1>9, <1>11, <1>12
<1>14. Real(result') = BfsJoin(input')
  BY <1>1, <1>9, <1>13
<1>15. Real(result)' = Real(result') /\ BfsJoin(input)' = BfsJoin(input')
  OBVIOUS
<1> QED BY <1>14, <1>15 DEF ParAnswered

LEMMA ParAnsweredStep ==
  ASSUME Called, ParPasses, ParJoins, ~IsLeaf(Root), P!Next
  PROVE  ParAnswered'
<1>0. ASSUME stage' # "done" PROVE ParAnswered'
  BY <1>0 DEF ParAnswered
<1>1. ASSUME NEW p \in Node, P!UpSemiJoin(p) PROVE ParAnswered'
  BY <1>0, <1>1, UpSemiJoinIs
<1>2. ASSUME NEW p \in Node, P!UpMultiply(p) PROVE ParAnswered'
  BY <1>0, <1>2, UpMultiplyIs
<1>3. ASSUME NEW p \in Node, P!DownSemiJoin(p) PROVE ParAnswered'
  BY <1>0, <1>3, DownSemiJoinIs
<1>4. ASSUME NEW p \in Node, P!DownFilter(p) PROVE ParAnswered'
  BY <1>0, <1>4, DownFilterIs
<1>5. ASSUME NEW p \in Node, P!JoinChild(p) PROVE ParAnswered'
  BY <1>0, <1>5, JoinChildIs
<1>6. CASE P!EndUpLevel
  BY <1>0, <1>6, EndUpLevelIs
<1>7. CASE P!Materialize
  BY <1>0, <1>7, MaterializeIs
<1>8. CASE P!EndDownLevel
  BY <1>0, <1>8, EndDownLevelIs
<1>9. CASE P!EndJoinLevel
  BY <1>0, <1>9, EndJoinLevelIs
<1>10. CASE P!Reorder
  BY <1>10, ReorderAnswers
<1> QED BY <1>1, <1>2, <1>3, <1>4, <1>5, <1>6, <1>7, <1>8, <1>9, <1>10, ParYanSteps

LEMMA ParAnsweredInit ==
  ASSUME P!Init
  PROVE  ParAnswered
BY DEF P!Init, ParAnswered

-----------------------------------------------------------------------------
JoinsInv == mode = "paryan" => ParJoins /\ ParAnswered

LEMMA JoinsInvInit ==
  ASSUME Init
  PROVE  JoinsInv
<1>1. mode = "paryan" => P!Init
  BY DEF Init
<1> QED BY <1>1, ParJoinsInit, ParAnsweredInit DEF JoinsInv

LEMMA JoinsInvStep ==
  ASSUME Passes, JoinsInv, ~IsLeaf(Root), [Next]_vars
  PROVE  JoinsInv'
<1>1. CASE Next
  <2>1. Called /\ mode' = mode /\ (mode = "paryan" => ParPasses)
    BY <1>1, CalledStep DEF Passes
  <2>2. mode = "paryan" => P!Next
    BY <1>1 DEF Next
  <2>3. CASE mode = "paryan"
    <3>1. Called /\ ParPasses /\ ParJoins /\ P!Next
      BY <2>1, <2>2, <2>3 DEF JoinsInv
    <3>2. ParJoins'
      BY <3>1, ParJoinsStep
    <3>3. ParAnswered'
      BY <3>1, ParAnsweredStep
    <3> QED BY <3>2, <3>3 DEF JoinsInv
  <2>4. CASE mode # "paryan"
    BY <2>1, <2>4 DEF JoinsInv
  <2> QED BY <2>3, <2>4
<1>2. CASE UNCHANGED vars
  <2>1. UNCHANGED <<mode, input, stage, tables, result, pc, outSize, partial, cols, offset>>
    BY <1>2 DEF vars, parVars
  <2>2. ASSUME mode = "paryan" PROVE ParJoins'
    <3>1. ParJoins
      BY <2>2 DEF JoinsInv
    <3>2. CASE stage \in JoinStages
      <4>1. stage' \in JoinStages
        BY <2>1, <3>2
      <4> QED BY <2>1, <3>1, <3>2, <4>1, StillJoined
    <3>3. CASE stage \notin JoinStages
      <4>1. stage' \notin JoinStages
        BY <2>1, <3>3
      <4> QED BY <2>1, <3>1, <3>3, <4>1, NotYetJoined
    <3> QED BY <3>2, <3>3
  <2>3. ASSUME ParAnswered PROVE ParAnswered'
    BY <2>1, <2>3 DEF ParAnswered
  <2> QED BY <2>1, <2>2, <2>3 DEF JoinsInv
<1> QED BY <1>1, <1>2

(* The joins of ParYan keep this, beside what the passes left: the table   *)
(* of a node lists the combinations of rows of the relations gathered      *)
(* there (ParYanJoin), and the last one, put in order, is the answer.      *)
THEOREM JoinsInvariant == N > 1 => (Spec => []JoinsInv)
<1>1. CASE N > 1
  <2>1. Spec => []Passes
    BY <1>1, PassesInvariant
  <2>2. Init => JoinsInv
    BY JoinsInvInit
  <2>3. Passes /\ JoinsInv /\ [Next]_vars => JoinsInv'
    BY <1>1, RootIsInner, JoinsInvStep
  <2>4. Spec => []JoinsInv
    BY <2>1, <2>2, <2>3, PTL DEF Spec
  <2> QED BY <2>4
<1> QED BY <1>1

(* Every table that a two-way join of ParYan leaves has exactly as many    *)
(* rows as the output, when no key is 0 (the padding in ParYanJoin).       *)
THEOREM PartialsFitTheorem == N > 1 => (Spec => []PartialsFit)
<1>1. CASE N > 1
  <2>1. Spec => []Passes
    BY <1>1, PassesInvariant
  <2>2. Spec => []JoinsInv
    BY <1>1, JoinsInvariant
  <2>3. Passes /\ JoinsInv => PartialsFit
    BY JoinsFit DEF JoinsInv
  <2>4. Spec => []PartialsFit
    BY <2>1, <2>2, <2>3, PTL
  <2> QED BY <2>4
<1> QED BY <1>1

(* What ParYan returns is, without the padding, the join with its columns  *)
(* in breadth-first order: every answer without key 0 as often as it has   *)
(* combinations of rows, and nothing else.                                 *)
THEOREM ParYanAnswers ==
  N > 1 => (Spec => [](mode = "paryan" /\ stage = "done" => RealRows = BfsJoin(input)))
<1>1. CASE N > 1
  <2>1. Spec => []JoinsInv
    BY <1>1, JoinsInvariant
  <2>2. RealRows = Real(result)
    BY Zenon DEF RealRows, Real
  <2>3. JoinsInv => (mode = "paryan" /\ stage = "done" => RealRows = BfsJoin(input))
    BY <2>2 DEF JoinsInv, ParAnswered
  <2>4. Spec => [](mode = "paryan" /\ stage = "done" => RealRows = BfsJoin(input))
    BY <2>1, <2>3, PTL
  <2> QED BY <2>4
<1> QED BY <1>1
=============================================================================
