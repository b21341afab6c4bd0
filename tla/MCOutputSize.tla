----------------------------- MODULE MCOutputSize -----------------------------
(* A root with two children, one of them with a child of its own, with     *)
(* ints up to 3 and long longs up to 11: the counts of an edge pass the    *)
(* first bound, the products at the root and of degrees the second.        *)
EXTENDS OutputSize, TLC

TreeParent == (0 :> NoParent) @@ (1 :> 0) @@ (2 :> 0) @@ (3 :> 1)
TreeColInParent == (0 :> 0) @@ (1 :> 1) @@ (2 :> 2) @@ (3 :> 2)
TreeColInChild == (0 :> 0) @@ (1 :> 1) @@ (2 :> 1) @@ (3 :> 1)

Rows(s) == [i \in DOMAIN s |-> [keys |-> s[i]]]

Leaves == {Rows(<<<<1>>>>), Rows(<<<<1>>, <<2>>, <<1>>>>), Rows(<<<<3>>>>),
           Rows(<<<<2>>, <<1>>, <<1>>, <<1>>>>)}

TreeInputs ==
  {(0 :> r0 @@ 1 :> r1 @@ 2 :> r2 @@ 3 :> r3) :
     r0 \in {Rows(<<<<1, 1>>>>), Rows(<<<<1, 1>>, <<2, 1>>, <<1, 2>>>>), Rows(<<<<2, 2>>, <<2, 1>>>>)},
     r1 \in {Rows(<<<<1, 1>>>>), Rows(<<<<1, 1>>, <<2, 1>>>>), Rows(<<<<1, 2>>, <<1, 1>>, <<2, 2>>>>)},
     r2 \in Leaves, r3 \in Leaves}
=============================================================================
