-------------------------------- MODULE Aggtree --------------------------------
(***************************************************************************)
(* The aggregation trees: segmented prefix and suffix sums (Aggtree), the  *)
(* segmented suffix product, and the spreading of a row over the places    *)
(* after it (DupAggtree).  All work on a tree over the places 0 .. n-1 of  *)
(* the input: one parallel loop per level upwards, one per level           *)
(* downwards.  Iterations of a loop touch different nodes, so a level is   *)
(* one step.                                                               *)
(*                                                                         *)
(* B[i] = 1 says that place i continues the segment of place i - 1; the    *)
(* callers give B[0] = 0.  In a spread, B[i] = 1 marks a place to fill.    *)
(* The exclusive sums are modelled: the inclusive ones add the row itself. *)
(***************************************************************************)
EXTENDS Integers, Sequences, FiniteSetsExt, SequencesExt

Kinds == {"prefix", "suffix", "product", "spread"}

VARIABLE
  tree   \* kind: which tree runs; full: a prefix tree with the suffix tree
         \* after it; D, B: the input on 0 .. n-1; A: the levels, A[h][i]
         \* with h from 0; pass: "up", "down", "collect" or "done"; h: the
         \* level the next loop computes; before: the prefix sums of a full
         \* run; result

kind == tree.kind
n == Cardinality(DOMAIN tree.D)
D(i) == tree.D[i]
B(i) == tree.B[i]

Log2Up(m) == CHOOSE e \in 0 .. m : 2^e >= m /\ (e = 0 \/ 2^(e-1) < m)

(* The top level; DupAggtree always has two levels. *)
Top(k, m) == Log2Up(IF k = "spread" THEN Max({m, 2}) ELSE m)

(* The nodes above those of a level: half as many, rounded up. *)
Above(below) == {i \in DOMAIN below : 2*i \in DOMAIN below}

-----------------------------------------------------------------------------
(* Leaves.  l: the flag of the first leaf; c: is the whole range one       *)
(* segment with what is before it?                                         *)
Leaves(k, d, b) ==
  [i \in DOMAIN d |->
     CASE k = "prefix" -> [px |-> d[i], lpx |-> 0, l |-> b[i], c |-> b[i]]
       [] k = "suffix" -> [sx |-> d[i] * b[i], rsx |-> 0, l |-> b[i], c |-> b[i]]
       [] k = "product" -> [total |-> d[i], prefix |-> d[i], connected |-> 1, suffix |-> 1,
                            boundary |-> IF i + 1 \in DOMAIN d THEN b[i + 1] ELSE 0]
       [] k = "spread" -> [px |-> d[i], c |-> b[i]]]

(* A tree about to run on d and b. *)
Loaded(k, full, d, b, before) ==
  [kind |-> k, full |-> full, D |-> d, B |-> b, before |-> before, result |-> <<>>,
   A |-> [l \in {0} |-> Leaves(k, d, b)], h |-> 1,
   pass |-> IF Top(k, Cardinality(DOMAIN d)) = 0 THEN "collect" ELSE "up"]

NoNode == [px |-> 0, lpx |-> 0, sx |-> 0, rsx |-> 0, l |-> 0, c |-> 0]

(* px: the sum of the range's last segment, which may reach out to the left *)
PrefixUp(left, right) ==
  [px |-> right.px + right.c * left.px, lpx |-> left.px, l |-> left.l, c |-> left.c * right.c]

(* sx: the sum of what is connected to the place before the range *)
SuffixUp(left, right) ==
  [sx |-> left.sx + left.c * right.sx, rsx |-> right.sx, l |-> left.l, c |-> left.c * right.c]

(* mutant: a prefix goes on over a boundary between the parts *)
ProductAcross(left, right) ==
  [total |-> left.total * right.total,
   prefix |-> IF left.connected = 1 THEN left.total * right.prefix ELSE left.prefix,
   connected |-> left.connected * left.boundary * right.connected,
   boundary |-> right.boundary, suffix |-> 1]

ProductUp(left, right) ==
  [total |-> left.total * right.total,
   prefix |-> IF left.connected = 1 /\ left.boundary = 1 THEN left.total * right.prefix ELSE left.prefix,
   connected |-> left.connected * left.boundary * right.connected,
   boundary |-> right.boundary, suffix |-> 1]

SpreadUp(left, right) ==
  [px |-> IF right.c = 1 THEN left.px ELSE right.px, c |-> left.c * right.c]

(* A node without a right child. *)
OnlyChild(left) ==
  CASE kind = "prefix" -> PrefixUp(left, NoNode)
    [] kind = "suffix" -> [SuffixUp(left, NoNode) EXCEPT !.c = left.c]
    [] kind = "product" -> [left EXCEPT !.suffix = 1]
    [] kind = "spread" -> [px |-> 0, c |-> 0]

UpNode(below, i) ==
  LET left == below[2*i]
      right == below[2*i + 1]
  IN  IF 2*i + 1 \notin DOMAIN below THEN OnlyChild(left)
      ELSE CASE kind = "prefix" -> PrefixUp(left, right)
             [] kind = "suffix" -> SuffixUp(left, right)
             [] kind = "product" -> ProductUp(left, right)
             [] kind = "spread" -> SpreadUp(left, right)

-----------------------------------------------------------------------------
(* Downwards a node gets what lies outside its range. *)
LeftDown(parent, left, right, two) ==
  CASE kind = "prefix" -> [left EXCEPT !.px = parent.px * left.l]
    [] kind = "suffix" -> [left EXCEPT !.sx = IF two THEN parent.rsx + right.c * parent.sx ELSE 0]
    [] kind = "product" ->
         [left EXCEPT !.suffix =
            IF ~two THEN parent.suffix
            ELSE IF left.boundary = 0 THEN 1
            ELSE right.prefix * (IF right.connected = 1 THEN parent.suffix ELSE 1)]
    [] kind = "spread" -> [left EXCEPT !.px = parent.px]

(* mutant: the left child is overwritten before the right child reads it *)
SpreadParent(parent, left, flag) == [px |-> flag * parent.px, c |-> left.c]

(* The parent's lpx of old is the left child's px of the way up. *)
SpreadRight(parent, left, flag) ==
  [px |-> flag * (IF left.c = 1 THEN parent.px ELSE left.px), c |-> left.c]

RightDown(parent, left, right, flag) ==
  CASE kind = "prefix" -> [right EXCEPT !.px = right.l * (parent.lpx + left.c * parent.px)]
    [] kind = "suffix" -> [right EXCEPT !.sx = parent.sx]
    [] kind = "product" -> [right EXCEPT !.suffix = parent.suffix]
    [] kind = "spread" -> [right EXCEPT !.px = SpreadRight(parent, left, flag).px]

(* Child i of level l - 1; flag is B of its first leaf. *)
DownNode(l, i) ==
  LET parent == tree.A[l][i \div 2]
      left == tree.A[l-1][2 * (i \div 2)]
      two == 2 * (i \div 2) + 1 \in DOMAIN tree.A[l-1]
      right == IF two THEN tree.A[l-1][2 * (i \div 2) + 1] ELSE left
  IN  IF i % 2 = 0 THEN LeftDown(parent, left, right, two)
                   ELSE RightDown(parent, left, right, B(i * 2^(l-1)))

-----------------------------------------------------------------------------
Upstream ==
  /\ tree.pass = "up"
  /\ LET h == tree.h
         top == Top(kind, n)
         below == tree.A[h-1]
         level == [i \in Above(below) |-> UpNode(below, i)]
     IN  tree' = [tree EXCEPT !.A = [l \in 0 .. h |-> IF l < h THEN tree.A[l] ELSE level],
                              !.h = IF h = top THEN h ELSE h + 1,
                              !.pass = IF h = top THEN "down" ELSE "up"]

Downstream ==
  /\ tree.pass = "down"
  /\ LET h == tree.h
     IN  tree' = [tree EXCEPT !.A[h-1] = [i \in DOMAIN tree.A[h-1] |-> DownNode(h, i)],
                              !.h = h - 1,
                              !.pass = IF h = 1 THEN "collect" ELSE "down"]

(* The exclusive result of a single row is not read from the tree. *)
Read(i) ==
  CASE kind = "prefix" -> IF n = 1 THEN 0 ELSE tree.A[0][i].px
    [] kind = "suffix" -> tree.A[0][i].sx
    [] kind = "product" -> tree.A[0][i].suffix
    [] kind = "spread" -> IF B(i) = 1 THEN tree.A[0][i].px ELSE D(i)

(* FullRun adds the exclusive prefix sum to the suffix sum; with exclusive *)
(* = 1 the latter counts the row itself.                                   *)
BothSides(i) == tree.before[i] + D(i) + Read(i)

Collect ==
  /\ tree.pass = "collect"
  /\ tree' =
       IF tree.full /\ kind = "prefix"
       THEN Loaded("suffix", TRUE, tree.D, tree.B, [i \in DOMAIN tree.D |-> Read(i)])
       ELSE [tree EXCEPT !.pass = "done",
                         !.result = [i \in DOMAIN tree.D |-> IF tree.full THEN BothSides(i) ELSE Read(i)]]

Next == Upstream \/ Downstream \/ Collect

-----------------------------------------------------------------------------
(* What the trees are for, on the input alone. *)
SameSegment(i, j) == \A k \in i+1 .. j : B(k) = 1

SegmentBefore(i) == {j \in 0 .. i-1 : SameSegment(j, i)}

SegmentAfter(i) == {j \in i+1 .. n-1 : SameSegment(i, j)}

SumOver(S) == FoldSet(LAMBDA j, acc : acc + D(j), 0, S)

ProductOver(S) == FoldSet(LAMBDA j, acc : acc * D(j), 1, S)

Wanted(i) ==
  CASE tree.full -> SumOver(SegmentBefore(i) \cup {i} \cup SegmentAfter(i))
    [] ~tree.full /\ kind = "prefix" -> SumOver(SegmentBefore(i))
    [] ~tree.full /\ kind = "suffix" -> SumOver(SegmentAfter(i))
    [] kind = "product" -> ProductOver(SegmentAfter(i))
    [] kind = "spread" -> D(Max({j \in 0 .. i : B(j) = 0}))
=============================================================================
