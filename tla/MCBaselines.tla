------------------------------ MODULE MCBaselines ------------------------------
(* Five relations below root 2: 1 and 3 on one level, each with a leaf.    *)
(* The breadth-first order (2, 1, 3, 0, 4) is not the order of the         *)
(* relations, and every join column but one is not the first.              *)
EXTENDS Baselines

FiveParents == [u \in 0 .. 4 |-> CASE u = 2 -> -1 [] u \in {1, 3} -> 2 [] u = 0 -> 1 [] u = 4 -> 3]
FiveInParent == [u \in 0 .. 4 |-> CASE u = 2 -> 0 [] u = 1 -> 1 [] u = 3 -> 2 [] u = 0 -> 1 [] u = 4 -> 2]
FiveInChild == [u \in 0 .. 4 |-> CASE u = 2 -> 0 [] u = 1 -> 2 [] u = 3 -> 1 [] u = 0 -> 2 [] u = 4 -> 1]
FiveKeys == [u \in 0 .. 4 |-> IF u = 4 THEN 1 ELSE 2]

Rows(t) == [i \in DOMAIN t |-> [keys |-> t[i]]]

Databases(zeroth, ones, roots, threes, fours) ==
  {[u \in 0 .. 4 |-> [i \in DOMAIN t[u + 1] |-> [keys |-> t[u + 1][i]]]] :
     t \in zeroth \X ones \X roots \X threes \X fours}

(* Rows with all, some or no partners below and above, equal rows, up to   *)
(* twelve answers.                                                         *)
WithoutZeros ==
  Databases({<< <<4, 5>>, <<3, 5>> >>, << <<4, 6>>, <<2, 5>> >>},
            {<< <<5, 1>>, <<6, 1>> >>, << <<5, 2>>, <<5, 3>>, <<6, 1>> >>},
            {<< <<1, 1>>, <<1, 2>> >>, << <<1, 1>>, <<1, 1>> >>, << <<3, 1>>, <<2, 2>> >>},
            {<< <<1, 7>>, <<2, 8>> >>, << <<2, 7>>, <<2, 7>>, <<1, 9>> >>},
            {<< <<7>>, <<7>>, <<7>> >>, << <<8>>, <<9>> >>})

(* Key 0 on every edge, also beside rows that are filtered out. *)
WithZeros ==
  Databases({<< <<4, 5>>, <<3, 5>> >>, << <<4, 0>>, <<0, 5>> >>},
            {<< <<5, 2>>, <<5, 1>>, <<0, 1>>, <<5, 0>> >>},
            {<< <<1, 1>>, <<2, 2>> >>, << <<0, 1>>, <<2, 0>> >>},
            {<< <<1, 8>>, <<2, 0>> >>},
            {<< <<8>>, <<8>> >>, << <<8>>, <<0>> >>})

SomeInputs == WithoutZeros \cup WithZeros
=============================================================================
