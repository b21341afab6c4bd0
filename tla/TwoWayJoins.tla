------------------------------ MODULE TwoWayJoins ------------------------------
(***************************************************************************)
(* The steps on two tables that the modes are made of, each against what   *)
(* it promises.  The two joins return every pair of rows with the same key *)
(* once, and dummies up to the number of rows asked for.  They differ in   *)
(* what they take for a dummy (a row with key 0, a row of zeros) and when  *)
(* there is no room (the first returns more rows, the second cuts).  The   *)
(* semi-join returns the rows of the first table with the sum of the       *)
(* values that they join.                                                  *)
(***************************************************************************)
EXTENDS TwoTables, TLC

VARIABLES
  algorithm,  \* "obliviator", "obliyan" or "semijoin"
  call, stage, work, left, right, result

V == INSTANCE ObliViatorJoin
Y == INSTANCE ObliYanTwoWay
S == INSTANCE ParallelSemiJoin

vars == <<algorithm, call, stage, work, left, right, result>>

Init ==
  \/ algorithm = "obliviator" /\ V!Init
  \/ algorithm = "obliyan" /\ Y!Init
  \/ algorithm = "semijoin" /\ S!Init

Next ==
  \/ algorithm = "obliviator" /\ V!Next /\ UNCHANGED algorithm
  \/ algorithm = "obliyan" /\ Y!Next /\ UNCHANGED algorithm
  \/ algorithm = "semijoin" /\ S!Next /\ UNCHANGED algorithm

Spec == Init /\ [][Next]_vars /\ WF_vars(Next)

-----------------------------------------------------------------------------
(* Before the tables are put side by side they are equally long and have   *)
(* the same key at every place, although both were expanded and permuted   *)
(* on their own (alignTable, MultiNumberInternal).                         *)
KeysAligned ==
  stage \in {"result", "place"} =>
    /\ DOMAIN left = DOMAIN right
    /\ \A i \in DOMAIN left : left[i].key = right[i].key

Counted(alg, c) ==
  Pairs(c, LAMBDA r : IF alg = "obliviator" THEN r.key = 0 ELSE r = Bottom)

SumFor(c, k) ==
  MapThenSumSet(LAMBDA j : c.t2[j].rest, {j \in DOMAIN c.t2 : c.t2[j].key = k})

Correct(alg, c) ==
  CASE alg = "semijoin" ->
         {BagOf([i \in DOMAIN c.t1 |-> <<c.t1[i], SumFor(c, c.t1[i].key)>>])}
    [] alg = "obliyan" /\ (c.t1 = <<>> \/ c.t2 = <<>>) -> {<<>>}
    [] alg = "obliyan" /\ Cardinality(Counted(alg, c)) > c.size ->
         CutAnswers(c, Counted(alg, c))
    [] OTHER -> {PaddedAnswer(c, Counted(alg, c))}

Answers ==
  [a \in {"obliviator", "obliyan", "semijoin"} \X Calls |-> Correct(a[1], a[2])]

J == INSTANCE AcyclicJoin WITH
       Answers <- Answers,
       in <- <<algorithm, call>>,
       out <- BagOf(result),
       st <- IF stage = "done" THEN "answered" ELSE "running"

(* Both joins answer every call with the joining pairs, each once, and     *)
(* dummies up to the size (ObliViatorJoin::join, ObliYanTwoWayTimed), also *)
(* when equal rows occur several times on both sides.  A tau below the     *)
(* number of pairs makes ObliYan return that many rows, each a pair, but   *)
(* not always different ones.  The semi-join gives every row of R its own  *)
(* sum (executeValueOnly).                                                 *)
ImplementsTwoWay == J!JoinSpec
=============================================================================
