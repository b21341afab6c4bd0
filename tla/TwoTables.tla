------------------------------- MODULE TwoTables -------------------------------
(***************************************************************************)
(* What the two two-way joins of the baselines have in common: their       *)
(* input, sorting, and what they promise.                                  *)
(*                                                                         *)
(* A row is [key |-> ..., rest |-> ...], the join column and all others.   *)
(* The row of zeros, Bottom, is a dummy.  A call gives the two tables and  *)
(* the number of rows to return (out_size, tau).                           *)
(***************************************************************************)
EXTENDS Integers, Sequences, SequencesExt, FiniteSetsExt

CONSTANT Calls  \* records [t1 |-> Seq(row), t2 |-> Seq(row), size |-> Nat]

Bottom == [key |-> 0, rest |-> 0]

(* The sorting network is not stable: rows that it holds equal come out in *)
(* any order.                                                              *)
SortedBy(rows, Before(_, _)) ==
  LET n == Len(rows)
  IN  {[i \in 1 .. n |-> rows[p[i]]] :
         p \in {q \in Permutations(1 .. n) :
                  \A i \in 1 .. n-1 : ~Before(rows[q[i+1]], rows[q[i]])}}

(* x before y in the lexicographic order. *)
Less(x, y) == \E k \in DOMAIN x : x[k] < y[k] /\ \A l \in 1 .. k-1 : x[l] = y[l]

(* The sort when rows that it holds equal are equal. *)
Sorted(rows, Columns(_)) ==
  SortSeq(rows, LAMBDA r, s : Less(Columns(r), Columns(s)))

Repeat(x, m) == [i \in 1 .. m |-> x]

-----------------------------------------------------------------------------
BagOf(rows) == [v \in ToSet(rows) |-> Cardinality({k \in DOMAIN rows : rows[k] = v})]

(* Pairs of rows with the same key, without those that Dropped says count  *)
(* as dummies.                                                             *)
Pairs(call, Dropped(_)) ==
  {<<i, j>> \in (DOMAIN call.t1) \X (DOMAIN call.t2) :
     /\ call.t1[i].key = call.t2[j].key
     /\ ~Dropped(call.t1[i]) /\ ~Dropped(call.t2[j])}

RowsOf(call, pairs) == [p \in pairs |-> <<call.t1[p[1]], call.t2[p[2]]>>]

(* Every pair once, and Bottom pairs up to the size. *)
PaddedAnswer(call, pairs) ==
  LET rows == RowsOf(call, pairs)
      missing == call.size - Cardinality(pairs)
  IN  [v \in {rows[p] : p \in pairs} |-> Cardinality({p \in pairs : rows[p] = v})]
      @@ (IF missing > 0 THEN <<Bottom, Bottom>> :> missing ELSE <<>>)

(* As many rows as asked for, each of them a pair. *)
CutAnswers(call, pairs) ==
  {BagOf(s) : s \in [1 .. call.size -> {RowsOf(call, pairs)[p] : p \in pairs}]}
=============================================================================
