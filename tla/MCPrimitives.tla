----------------------------- MODULE MCPrimitives -----------------------------
(* Instances of the primitives.                                            *)
EXTENDS Primitives

(* All arrays of three and four one-column keys over a few values, some    *)
(* of five and six rows (padded to eight) with two columns and a sign.     *)
(* Three threads have unequal shares of a round, or none.                  *)
SmallArrays ==
  [1 .. 3 -> {<<1>>, <<2>>, <<8>>}] \cup [1 .. 4 -> {<<1>>, <<3>>}] \cup
  {<<<<2, 1>>, <<1, 5>>, <<2, 0>>, <<1, 5>>, <<-3, 4>>>>,
   <<<<4>>, <<4>>, <<4>>, <<1>>, <<4>>, <<0>>>>}

LeastInt == -99

(* Every marking of up to seven rows.  With TaskRows = 3 longer ranges are *)
(* pairs of tasks, the shortest are compacted one after another inside     *)
(* them, and swap loops of both kinds occur.                               *)
AllMarks == UNION {[1 .. n -> {0, 1}] : n \in 1 .. 7}

(* Every way to expand one to five rows to at most seven. *)
SmallMultiplicities ==
  {m \in UNION {[1 .. k -> 1 .. 5] : k \in 1 .. 5} : FoldLeft(LAMBDA acc, x : acc + x, 0, m) <= 7}

AllLengths == 1 .. 9

Primes == <<2, 3, 5, 7, 11, 13, 17, 19, 23>>

(* The sums are linear in D: distinct powers of two tell every set of      *)
(* places apart, distinct primes every product.                            *)
Distinct(k, n) == [i \in 0 .. n-1 |-> IF k = "product" THEN Primes[i + 1] ELSE 2^i]
=============================================================================
