------------------------------ MODULE MCBottomUp ------------------------------
(* Instances of BottomUp: a tree of six relations with two internal nodes  *)
(* on one level, and small databases over it.                              *)
EXTENDS BottomUp, TLC

(*        0          relation 1 is internal with children 3 and 4,         *)
(*      /   \        relation 2 is internal with child 5                   *)
(*     1     2                                                             *)
(*    / \    |                                                             *)
(*   3   4   5                                                             *)
TreeParent == (0 :> NoParent) @@ (1 :> 0) @@ (2 :> 0) @@ (3 :> 1) @@ (4 :> 1) @@ (5 :> 2)
TreeColInParent == (0 :> 0) @@ (1 :> 1) @@ (2 :> 2) @@ (3 :> 1) @@ (4 :> 2) @@ (5 :> 2)
TreeColInChild == (0 :> 0) @@ (1 :> 1) @@ (2 :> 1) @@ (3 :> 1) @@ (4 :> 1) @@ (5 :> 1)

Row(v) == [keys |-> v]

(* A root whose rows have no, one or several answers; inner relations with *)
(* a dangling row, leaves with duplicate rows.                             *)
TreeInputs ==
  {(0 :> <<Row(<<1, 1>>), Row(<<2, 1>>)>> @@ 1 :> r1 @@ 2 :> r2 @@
    3 :> r3 @@ 4 :> <<Row(<<1>>), Row(<<2>>)>> @@ 5 :> r5) :
     r1 \in {<<Row(<<1, 1>>), Row(<<1, 2>>)>>, <<Row(<<2, 1>>), Row(<<1, 2>>)>>, <<Row(<<2, 2>>)>>},
     r2 \in {<<Row(<<1, 1>>), Row(<<1, 2>>)>>, <<Row(<<2, 1>>)>>},
     r3 \in {<<Row(<<1>>), Row(<<1>>)>>, <<Row(<<2>>), Row(<<1>>)>>},
     r5 \in {<<Row(<<1>>), Row(<<2>>), Row(<<2>>)>>, <<Row(<<3>>)>>}}
=============================================================================
