------------------------------- MODULE JFYanDown -------------------------------
(***************************************************************************)
(* JFYanDown: the second half of JFYan.                                    *)
(*                                                                         *)
(* On entry tables[Root] is the expanded root, one row per answer, and     *)
(* every other table carries its u-values and delta.  The internal nodes   *)
(* are visited in breadth-first order.  PrepareNode computes, for every    *)
(* row of the node, which of the answers of the row's state (b, lambda) it *)
(* is (idx), and from it the number pc[i][j] of the partial answer it      *)
(* takes from child j.  The edges to the children are then worked by       *)
(* threads: RankChild sorts the child and numbers its partial answers,     *)
(* CopyToChild looks up, for every row of the node, the child row that     *)
(* owns number pc and hands the row's position P on to that copy.  When    *)
(* all nodes are done the copies of each relation are sorted by position   *)
(* and the answer is read off row by row.                                  *)
(*                                                                         *)
(* The rows of a copied table are listed in any order here: the compaction *)
(* leaves an order that nothing downstream relies on, every reader sorts.  *)
(***************************************************************************)
EXTENDS BottomUp

CONSTANT EdgeWorkers   \* how many edges of one node are worked at a time

VARIABLES
  phase,   \* "off", "node", "edges", "sort", "done"
  oi,      \* number of internal nodes finished, in breadth-first order
  idx,     \* of the current node: which answer of its state a row is
  sc,      \* of the current node: suffix products of its u-values
  pc,      \* of the current node: number of the partial answer per child
  work,    \* work[c]: the edge into c: "idle", "ranked", "copied", "sorted"
  rank,    \* rank[c]: first partial answer that each row of c owns
  temp,    \* tempResult[c]: [keys, P], one row per answer
  result   \* the answer

(* The tables are those that the bottom-up pass leaves. *)
upVars == <<input, target, stage, level, edge, vals, node, Pos, C>>
downOnly == <<phase, oi, idx, sc, pc, work, rank, temp, result>>

-----------------------------------------------------------------------------
(* The nodes with children, in the order the pass visits them. *)
InnerNodes(s) == FlattenSeq([k \in DOMAIN s |-> IF IsLeaf(s[k]) THEN <<>> ELSE <<s[k]>>])

order == InnerNodes(BfsOrder)

LexLess(a, b) == \E i \in DOMAIN a : a[i] < b[i] /\ \A j \in 1 .. i-1 : a[j] = b[j]

(* Every arrangement of s that sorting by the tuples key[1], key[2], ...   *)
(* may return: the sorting networks are not stable.                        *)
Arrangements(s, key) ==
  LET Least(rest) == {i \in rest : \A j \in rest : ~LexLess(key[j], key[i])}
      grow[k \in 0 .. Len(s)] ==
        IF k = 0
        THEN {<<>>}
        ELSE UNION {{Append(o, i) : i \in Least(DOMAIN s \ ToSet(o))} : o \in grow[k-1]}
  IN  {[k \in DOMAIN s |-> s[o[k]]] : o \in grow[Len(s)]}

(* (state, tid): columns b, lambda and P. *)
StateTid(r) == <<r.b, r.lambda, r.P>>

(* The rows of p sorted by (state, tid); the root already is. *)
InStateOrder(p) ==
  IF p = Root THEN {tables[p]}
  ELSE Arrangements(tables[p], [i \in DOMAIN tables[p] |-> StateTid(tables[p][i])])

(* (join column, last column), descending. *)
HeaderKey(c, r) == <<-r.keys[ColInChild[c]], -Back(r)>>

(* Running sums of the steps in P, restarted at every new state (rawStep,  *)
(* sameState, PrefixTreeRun).                                              *)
RawIndex(rows) ==
  LET raw[i \in DOMAIN rows] ==
        IF i > 1 /\ rows[i].b = rows[i-1].b /\ rows[i].lambda = rows[i-1].lambda
        THEN raw[i-1] + rows[i].P - rows[i-1].P
        ELSE rows[i].P - rows[i].b
  IN  raw

(* mutant: position steps are not scaled back by lambda *)
UnscaledIndex(rows) == [i \in DOMAIN rows |-> RawIndex(rows)[i]]

LocalIndex(rows) ==
  [i \in DOMAIN rows |-> IF rows[i].lambda > 0 THEN RawIndex(rows)[i] \div rows[i].lambda ELSE 0]

(* Product of the u-values behind child j; 0 when one of them is 0. *)
SuffixCount(us) ==
  [j \in DOMAIN us |-> FoldSeq(LAMBDA x, y : x * y, 1, SubSeq(us, j + 1, Len(us)))]

(* mutant: every child takes the index modulo its own u-value *)
UndividedIndex(k, us, s) == [j \in DOMAIN us |-> IF us[j] > 0 THEN k % us[j] ELSE 0]

(* Digit j of idx in the mixed radix of the u-values. *)
PartialIndex(k, us, s) ==
  [j \in DOMAIN us |-> IF s[j] > 0 /\ us[j] > 0 THEN (k \div s[j]) % us[j] ELSE 0]

(* Exclusive running sums of the contributions of rows with equal key. *)
RankValues(c, tc) ==
  [i \in DOMAIN tc |->
     MapThenSumSet(LAMBDA j : Contribution(c, tc[j]),
                   {j \in 1 .. i-1 : tc[j].keys[ColInChild[c]] = tc[i].keys[ColInChild[c]]})]

-----------------------------------------------------------------------------
DownInit ==
  /\ phase = "off"
  /\ oi = 0
  /\ idx = <<>> /\ sc = <<>> /\ pc = <<>>
  /\ work = [c \in NonRoot |-> "idle"]
  /\ rank = [c \in NonRoot |-> <<>>]
  /\ temp = [c \in NonRoot |-> <<>>]
  /\ result = <<>>

PrepareNode ==
  /\ phase = "node"
  /\ oi < Len(order)
  /\ \E rows \in InStateOrder(order[oi + 1]) :
       /\ tables' = [tables EXCEPT ![order[oi + 1]] = rows]
       /\ idx' = LocalIndex(rows)
       /\ sc' = [i \in DOMAIN rows |-> SuffixCount(rows[i].us)]
       /\ pc' = [i \in DOMAIN rows |->
                   PartialIndex(LocalIndex(rows)[i], rows[i].us, SuffixCount(rows[i].us))]
  /\ phase' = "edges"
  /\ UNCHANGED <<oi, work, rank, temp, result>>

(* mutant: one worker too many *)
WorkerOrSpare(p) == Cardinality({s \in ChildSet(p) : work[s] = "ranked"}) <= EdgeWorkers

FreeWorker(p) == Cardinality({s \in ChildSet(p) : work[s] = "ranked"}) < EdgeWorkers

(* A worker takes an edge of the current node: getRankValues sorts the     *)
(* child in place and returns the ranks.                                   *)
RankChild(c) ==
  /\ phase = "edges"
  /\ Parent[c] = order[oi + 1]
  /\ work[c] = "idle"
  /\ FreeWorker(Parent[c])
  /\ \E tc \in Arrangements(tables[c], [i \in DOMAIN tables[c] |-> HeaderKey(c, tables[c][i])]) :
       /\ tables' = [tables EXCEPT ![c] = tc]
       /\ rank' = [rank EXCEPT ![c] = RankValues(c, tc)]
  /\ work' = [work EXCEPT ![c] = "ranked"]
  /\ UNCHANGED <<phase, oi, idx, sc, pc, temp, result>>

(* mutant: joins on the first column whatever the query says *)
FirstColumnHeaders(c, i) ==
  {h \in DOMAIN tables[c] : tables[Parent[c]][i].keys[1] = tables[c][h].keys[ColInChild[c]]}

(* The header rows of c that have the key of row i of its parent. *)
Headers(c, i) == {h \in DOMAIN tables[c] : Joins(c, tables[Parent[c]][i], tables[c][h])}

(* The header that owns partial answer pc: the last one in (key, rank)     *)
(* order that does not start behind it.                                    *)
Owner(c, i) ==
  Max({h \in Headers(c, i) : rank[c][h] <= pc[i][ChildIdx(c)]})

(* Header h, with its children's columns if it has any, after b, P, lambda. *)
WithState(h, b, P, lambda) ==
  IF "delta" \in DOMAIN h
  THEN [keys |-> h.keys, us |-> h.us, delta |-> h.delta, b |-> b, P |-> P, lambda |-> lambda]
  ELSE [keys |-> h.keys, b |-> b, P |-> P, lambda |-> lambda]

(* Columns of a row of c that no header was copied into. *)
BlankHeader(c) ==
  LET keys == [k \in DOMAIN tables[c][1].keys |-> 0]
  IN  IF IsLeaf(c) THEN [keys |-> keys]
      ELSE [keys |-> keys, us |-> [k \in DOMAIN children(c) |-> 0], delta |-> 0]

(* mutant: columns b and P written in the wrong order *)
SwappedCopy(c, i, h, k) ==
  LET r == tables[Parent[c]][i]
      s == sc[i][ChildIdx(c)]
  IN  WithState(h, r.P, r.P - r.lambda * (pc[i][ChildIdx(c)] - k) * s, r.lambda * s)

(* Row i of the parent with the columns of header h (ranked k) of c. *)
Copy(c, i, h, k) ==
  LET r == tables[Parent[c]][i]
      s == sc[i][ChildIdx(c)]
      alpha == IF s > 0 THEN idx[i] % s ELSE 0
      beta == (pc[i][ChildIdx(c)] - k) * s
  IN  WithState(h, r.P - r.lambda * (alpha + beta), r.P, r.lambda * s)

CopyOf(c, i) ==
  IF Headers(c, i) # {}
  THEN Copy(c, i, tables[c][Owner(c, i)], rank[c][Owner(c, i)])
  ELSE Copy(c, i, BlankHeader(c), 0)

(* A header row that the compaction keeps has none of the parent columns. *)
KeptHeader(c, h) == WithState(tables[c][h], 0, 0, 0)

(* The rows of the parent that head a key without header rows: in the      *)
(* sorted table M their predecessor has another key, so they are not       *)
(* marked.  One such row per key, and one with the smallest pc.            *)
Unmarked(c) ==
  LET p == Parent[c]
      key(i) == tables[p][i].keys[ColInParent[c]]
      lost == {i \in DOMAIN tables[p] : Headers(c, i) = {}}
      Least(i) == \A k \in lost : key(k) = key(i) => pc[i][ChildIdx(c)] <= pc[k][ChildIdx(c)]
  IN  {L \in SUBSET {i \in lost : Least(i)} :
         \A i \in lost : Cardinality({k \in L : key(k) = key(i)}) = 1}

(* subProcess: a marked row of M is the copy of a parent row and is kept.  *)
(* The compaction keeps as many rows as the parent has, so in the place of *)
(* every unmarked parent row (L) it keeps one of the unmarked rows: the    *)
(* copy of such a row or a header, whichever its network moves to the      *)
(* front.  A leaf stays as it is, an internal child is overwritten.        *)
CopyToChild(c) ==
  /\ work[c] = "ranked"
  /\ \E L \in Unmarked(c) :
       \E kept \in Injection(L, {<<"copy", i>> : i \in L} \cup {<<"header", h>> : h \in DOMAIN tables[c]}) :
         LET rows == [i \in DOMAIN tables[Parent[c]] |->
                        IF i \notin L THEN CopyOf(c, i)
                        ELSE IF kept[i][1] = "copy" THEN CopyOf(c, kept[i][2])
                        ELSE KeptHeader(c, kept[i][2])]
         IN  /\ temp' = [temp EXCEPT ![c] =
                           [i \in DOMAIN rows |-> [keys |-> rows[i].keys, P |-> rows[i].P]]]
             /\ tables' = IF IsLeaf(c) THEN tables ELSE [tables EXCEPT ![c] = rows]
  /\ work' = [work EXCEPT ![c] = "copied"]
  /\ UNCHANGED <<phase, oi, idx, sc, pc, rank, result>>

(* mutant: the loop over the children ends with its first worker *)
FirstChildCopied == work[Head(children(order[oi + 1]))] = "copied"

ChildrenCopied == \A c \in ChildSet(order[oi + 1]) : work[c] = "copied"

(* The barrier at the end of the loop over the children. *)
LeaveNode ==
  /\ phase = "edges"
  /\ ChildrenCopied
  /\ oi' = oi + 1
  /\ phase' = "node"
  /\ UNCHANGED <<tables, idx, sc, pc, work, rank, temp, result>>

StartFinalSort ==
  /\ phase = "node"
  /\ oi = Len(order)
  /\ phase' = "sort"
  /\ UNCHANGED <<tables, oi, idx, sc, pc, work, rank, temp, result>>

(* A worker sorts one relation's copies by position. *)
FinalSort(c) ==
  /\ phase = "sort"
  /\ work[c] = "copied"
  /\ \E t \in Arrangements(temp[c], [k \in DOMAIN temp[c] |-> <<temp[c][k].P>>]) :
       temp' = [temp EXCEPT ![c] = t]
  /\ work' = [work EXCEPT ![c] = "sorted"]
  /\ UNCHANGED <<tables, phase, oi, idx, sc, pc, rank, result>>

(* Row j of the answer is row j of every relation's copies. *)
Materialize ==
  /\ phase = "sort"
  /\ \A c \in NonRoot : work[c] = "sorted"
  /\ result' = [j \in DOMAIN tables[Root] |->
       FlattenSeq([i \in 1 .. N |->
         IF i - 1 = Root THEN tables[Root][j].keys ELSE temp[i-1][j].keys])]
  /\ phase' = "done"
  /\ UNCHANGED <<tables, oi, idx, sc, pc, work, rank, temp>>

DownNext ==
  \/ PrepareNode
  \/ \E c \in NonRoot : RankChild(c) \/ CopyToChild(c) \/ FinalSort(c)
  \/ LeaveNode
  \/ StartFinalSort
  \/ Materialize

=============================================================================
