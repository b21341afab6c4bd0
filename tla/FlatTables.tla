------------------------------- MODULE FlatTables -------------------------------
(***************************************************************************)
(* Tables as the two-way joins of the baselines leave them: bags of rows,  *)
(* because the order is not kept, and a row the sequence of all columns    *)
(* that have been joined so far.  A row of zeros is a dummy.               *)
(***************************************************************************)
EXTENDS JoinTree, Bags

CONSTANT tableKeys  \* [Node -> number of columns]

Zeros(n) == [k \in 1 .. n |-> 0]

isBottom(v) == \A k \in DOMAIN v : v[k] = 0

BagOfRows(rows) ==
  [v \in {rows[i].keys : i \in DOMAIN rows} |-> Cardinality({i \in DOMAIN rows : rows[i].keys = v})]

(* The bag of F(x) for x in a bag. *)
ImageBag(B, F(_)) ==
  [v \in {F(x) : x \in DOMAIN B} |-> MapThenSumSet(LAMBDA x : B[x], {x \in DOMAIN B : F(x) = v})]

(* The rows of R that satisfy P. *)
Restricted(R, P(_)) == [v \in {x \in DOMAIN R : P(x)} |-> R[v]]

(* n copies of a row. *)
Copies(row, n) == [v \in {row} |-> n]

(* The pairs of a row of R and a row of S with equal columns a and b, as   *)
(* joined rows.                                                            *)
PairsOn(R, a, S, b) ==
  LET pairs == [p \in {q \in (DOMAIN R) \X (DOMAIN S) : q[1][a] = q[2][b]} |-> R[p[1]] * S[p[2]]]
  IN  ImageBag(pairs, LAMBDA p : p[1] \o p[2])

(* The columns of the relations in the order wanted, where start[u] is how *)
(* many columns of the row stand before those of u.                        *)
Ordered(row, start, wanted) ==
  FlattenSeq([k \in DOMAIN wanted |->
    SubSeq(row, start[wanted[k]] + 1, start[wanted[k]] + tableKeys[wanted[k]])])
=============================================================================
