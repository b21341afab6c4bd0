--------------------------- MODULE NonObliviousJFYan ---------------------------
(***************************************************************************)
(* NonObliviousJFYan, the baseline without obliviousness: counts per row   *)
(* bottom-up, then a row of every relation for every output position,      *)
(* looked up in an index per edge.  Counts are long long and every         *)
(* operation on them is checked; an output of more rows than an int counts *)
(* is refused.                                                             *)
(*                                                                         *)
(* The loops over rows and positions are parallel but write apart: each is *)
(* one step.                                                               *)
(***************************************************************************)
EXTENDS FlatTables

CONSTANTS
  MaxRows,  \* INT_MAX, the default of maxOutputRows
  MaxCount  \* LLONG_MAX

VARIABLES
  input,         \* the database
  stage,         \* "count", "size", "map", "finish", "done" or the status of a refusal
  todo,          \* nodes or edges that the pass has not reached yet
  contribution,  \* contribution[u][i]: partial answers below u with row i
  choice,        \* choice[u][q]: row and local position of u for output position q
  result

vars == <<input, stage, todo, contribution, choice, result>>

Init ==
  /\ stage = "count"
  /\ todo = Reverse(BfsOrder)
  /\ contribution = [u \in Node |-> <<>>]
  /\ choice = [u \in Node |-> <<>>]
  /\ result = EmptyBag

-----------------------------------------------------------------------------
(* The rows that count, and the ends of their intervals in a numbering. *)
Bucket(counts, rowIds) ==
  LET ids == SelectSeq(rowIds, LAMBDA i : counts[i] # 0)
      ends == [k \in DOMAIN ids |-> FoldSeq(LAMBDA i, acc : acc + counts[i], 0, SubSeq(ids, 1, k))]
  IN  [tupleIds |-> ids, ends |-> ends, total |-> IF ids = <<>> THEN 0 ELSE Last(ends)]

RowIds(u) == [i \in DOMAIN input[u] |-> i]

(* buildEdgeIndex: the rows of c with key k. *)
EdgeIndex(c, k) ==
  Bucket(contribution[c], SelectSeq(RowIds(c), LAMBDA i : input[c][i].keys[ColInChild[c]] = k))

IndexOverflows(c) ==
  \E i \in DOMAIN input[c] : EdgeIndex(c, input[c][i].keys[ColInChild[c]]).total > MaxCount

Matching(p, i, c) == EdgeIndex(c, input[p][i].keys[ColInParent[c]])

(* The product over the children, -1 when it does not fit.  The first      *)
(* child without a match, or without room, ends the loop.                  *)
RowCount(u, i) ==
  FoldLeft(LAMBDA acc, c :
             LET next == acc * Matching(u, i, c).total
             IN  IF acc <= 0 THEN acc ELSE IF next > MaxCount THEN -1 ELSE next,
           1, children(u))

Count ==
  /\ stage = "count"
  /\ LET u == Head(todo)
         counts == [i \in DOMAIN input[u] |-> RowCount(u, i)]
     IN  IF \E c \in ChildSet(u) : IndexOverflows(c)
         THEN stage' = "CountOverflow" /\ UNCHANGED contribution
         ELSE /\ contribution' = [contribution EXCEPT ![u] = counts]
              /\ stage' = IF -1 \in ToSet(counts) THEN "CountOverflow"
                          ELSE IF Len(todo) = 1 THEN "size" ELSE "count"
  /\ todo' = Tail(todo)
  /\ UNCHANGED <<input, choice, result>>

(* upper_bound: the interval that a position lies in. *)
Selected(bucket, pos) == Cardinality({k \in DOMAIN bucket.ends : bucket.ends[k] <= pos}) + 1

(* Row and local position for a position of the bucket. *)
Located(bucket, pos) ==
  LET k == Selected(bucket, pos)
  IN  [tupleId |-> bucket.tupleIds[k], local |-> pos - (IF k = 1 THEN 0 ELSE bucket.ends[k-1])]

EdgesBelow[u \in Node] ==
  FlattenSeq([k \in DOMAIN children(u) |-> <<children(u)[k]>> \o EdgesBelow[children(u)[k]]])

RootBucket == Bucket(contribution[Root], RowIds(Root))

(* The size, and the position of every output row in the root. *)
Size ==
  /\ stage = "size"
  /\ LET exactRows == RootBucket.total
     IN  IF exactRows > MaxRows
         THEN /\ stage' = IF exactRows > MaxCount THEN "CountOverflow" ELSE "OutputTooLarge"
              /\ UNCHANGED <<todo, choice>>
         ELSE /\ choice' = [choice EXCEPT ![Root] =
                   [q \in 1 .. exactRows |-> Located(RootBucket, q - 1)]]
              /\ todo' = EdgesBelow[Root]
              /\ stage' = IF exactRows = 0 \/ EdgesBelow[Root] = <<>> THEN "finish" ELSE "map"
  /\ UNCHANGED <<input, contribution, result>>

-----------------------------------------------------------------------------
(* The later children of p vary faster than c. *)
suffixStride(p, i, c) ==
  FoldSet(LAMBDA d, acc : acc * Matching(p, i, d).total, 1, {d \in ChildSet(p) : d > c})

(* One child in writeSubtree, which walks the tree in depth-first order.   *)
(* That products fit and that matches exist was found out by Count.        *)
MapChild ==
  /\ stage = "map"
  /\ LET c == Head(todo)
         p == Parent[c]
         Mapped(state) ==
           LET bucket == Matching(p, state.tupleId, c)
           IN  Located(bucket, (state.local \div suffixStride(p, state.tupleId, c)) % bucket.total)
     IN  choice' = [choice EXCEPT ![c] = [q \in DOMAIN choice[p] |-> Mapped(choice[p][q])]]
  /\ todo' = Tail(todo)
  /\ stage' = IF Len(todo) = 1 THEN "finish" ELSE "map"
  /\ UNCHANGED <<input, contribution, result>>

(* The columns of the rows chosen, in relation order. *)
Finish ==
  /\ stage = "finish"
  /\ LET row(q) == JoinRow(input, [u \in Node |-> choice[u][q].tupleId])
     IN  result' = ImageBag([q \in DOMAIN choice[Root] |-> 1], row)
  /\ stage' = "done"
  /\ UNCHANGED <<input, todo, contribution, choice>>

Next == Count \/ Size \/ MapChild \/ Finish
=============================================================================
