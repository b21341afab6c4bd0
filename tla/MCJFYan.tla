-------------------------------- MODULE MCJFYan --------------------------------
(* Instances of JFYan on a tree of depth 3.                                *)
EXTENDS JFYan

(*          0           three children at the root, one more than there   *)
(*       /  |  \        are edge workers, and two at relation 1, so that   *)
(*     1    2   6       the local index is split among siblings at two     *)
(*    / \               levels; relation 3 passes positions on once more.  *)
(*   3   4                                                                 *)
(*   |                                                                     *)
(*   5                                                                     *)
DeepParent == (0 :> NoParent) @@ (1 :> 0) @@ (2 :> 0) @@ (3 :> 1) @@
              (4 :> 1) @@ (5 :> 3) @@ (6 :> 0)
DeepColInParent == (0 :> 0) @@ (1 :> 1) @@ (2 :> 2) @@ (3 :> 1) @@
                   (4 :> 2) @@ (5 :> 2) @@ (6 :> 2)
DeepColInChild == [u \in 0 .. 6 |-> 1]

DeepTargets == 1 .. 20

Row(v) == [keys |-> v]

Leaf2 == <<Row(<<1, 7>>), Row(<<1, 8>>), Row(<<2, 7>>)>>
Leaf4 == <<Row(<<1, 5>>), Row(<<2, 5>>), Row(<<1, 6>>)>>
Leaf5 == <<Row(<<1, 3>>), Row(<<2, 3>>), Row(<<1, 4>>)>>
Leaf6 == <<Row(<<2, 9>>), Row(<<1, 9>>), Row(<<2, 8>>)>>
Inner == <<Row(<<2, 1>>), Row(<<1, 2>>), Row(<<2, 1>>)>>

(* Rows with no, one and several partners on every edge, dangling and      *)
(* duplicate rows; up to 18 answers.                                        *)
Databases ==
  {(0 :> r0 @@ 1 :> r1 @@ 2 :> Leaf2 @@ 3 :> r3 @@ 4 :> Leaf4 @@ 5 :> Leaf5 @@ 6 :> Leaf6) :
     r0 \in {<<Row(<<1, 1>>)>>, <<Row(<<2, 2>>), Row(<<1, 2>>), Row(<<3, 1>>)>>},
     r1 \in {<<Row(<<1, 1>>), Row(<<1, 2>>)>>, Inner},
     r3 \in {<<Row(<<1, 2>>), Row(<<1, 1>>)>>, <<Row(<<2, 1>>), Row(<<1, 2>>), Row(<<1, 3>>)>>}}

(* No answer: the root row has no partner in relation 1. *)
EmptyJoin ==
  (0 :> <<Row(<<1, 1>>)>> @@ 1 :> <<Row(<<2, 2>>)>> @@ 2 :> <<Row(<<1, 7>>), Row(<<2, 8>>)>> @@
   3 :> <<Row(<<2, 1>>)>> @@ 4 :> <<Row(<<2, 5>>)>> @@ 5 :> <<Row(<<1, 3>>)>> @@ 6 :> <<Row(<<1, 9>>)>>)

DeepInputs == Databases \cup {EmptyJoin}

(* Two answers and, in relation 1, a row that joins nothing. *)
Dangling ==
  {(0 :> <<Row(<<1, 1>>)>> @@ 1 :> <<Row(<<2, 2>>), Row(<<1, 2>>)>> @@
    2 :> <<Row(<<1, 7>>), Row(<<1, 8>>)>> @@
    3 :> <<Row(<<1, 1>>)>> @@ 4 :> <<Row(<<2, 5>>)>> @@ 5 :> <<Row(<<1, 3>>)>> @@ 6 :> <<Row(<<1, 9>>)>>)}
=============================================================================
