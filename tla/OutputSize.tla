------------------------------ MODULE OutputSize ------------------------------
(***************************************************************************)
(* computeOutputSizeStats and computeDOPaddingStats: how many rows the     *)
(* join will have, how many of them a single input row can account for,    *)
(* and how many rows are returned instead.                                 *)
(*                                                                         *)
(* The upward pass counts partial answers with the semi-join of the join   *)
(* itself, whose sums are ints, and multiplies them in long longs that     *)
(* saturate.  The downward pass gives every row the number of ways to      *)
(* complete it outside its own subtree.  Both passes are serial: todo is   *)
(* the rest of the order in which they visit the nodes.                    *)
(*                                                                         *)
(* With padding, the RRS engine (RRSSensitivity) is asked before.          *)
(***************************************************************************)
EXTENDS RRSSensitivity

CONSTANTS
  Inputs,           \* the databases: functions [Node -> Seq(row)]
  MaxInt,           \* INT_MAX
  ExplicitChoices,  \* values of explicitOutputRows; 0 when not given
  Factor            \* stats.factor, a number above 1 for every epsilon, delta

ASSUME WidthAssumption ==
  /\ MaxInt \in Nat \ {0}
  /\ MaxLong \in Nat /\ MaxLong > MaxInt
  /\ ExplicitChoices \subseteq 0 .. MaxInt
  /\ MaxRSTRows \in Nat
  /\ Factor \in Nat \ {0}

(* The databases are tables of rows. *)
ASSUME InputAssumption ==
  \A db \in Inputs : DOMAIN db = Node /\ \A u \in Node :
    Len(db[u]) \in Nat /\ DOMAIN db[u] = 1 .. Len(db[u])

VARIABLES
  input,           \* the database (history: the passes only append columns)
  sized,           \* TRUE in the call that stops at the exact size
  explicitRows,    \* explicitOutputRows
  te,              \* the bounds of the RRS engine, once they are enumerated
  rrs,             \* the sensitivity of the RRS engine, -1 when too expensive
  stage,           \* "bounds", "combine", "up", "down", "pad" or "done"
  todo,            \* nodes the current pass has not visited yet
  childCounts,     \* childCounts[c]: the semi-join of c with its parent
  delta,           \* delta[u][i]: partial answers of u's subtree with row i
  outside,         \* outside[u][i]: ways to complete row i outside it
  exactRows,
  sensitivity,
  protectedRows    \* the size handed to the join, an int

vars == <<input, sized, explicitRows, te, rrs, stage, todo, childCounts, delta,
          outside, exactRows, sensitivity, protectedRows>>

-----------------------------------------------------------------------------
(* What the adders of the prefix tree leave of a sum: its low bits. *)
Wrap(x) == ((x + MaxInt + 1) % (2 * (MaxInt + 1))) - (MaxInt + 1)

(* The delta column that later semi-joins read is an int. *)
Column(c, j) == IF delta[c][j] > MaxInt THEN MaxInt ELSE delta[c][j]

(* ParallelSemiJoin::executeValueOnly, with the width of its sums: a       *)
(* negative sum counts as no match.                                        *)
SemiJoin(c) ==
  [i \in DOMAIN input[Parent[c]] |->
     Max({0, Wrap(MapThenSumSet(
       LAMBDA j : IF IsLeaf(c) THEN 1 ELSE Column(c, j),
       {j \in DOMAIN input[c] : Joins(c, input[Parent[c]][i], input[c][j])}))})]

UpOrder == FlattenSeq([d \in 1 .. MaxDepth + 1 |-> buildLevels[MaxDepth + 1 - d]])

-----------------------------------------------------------------------------
Init ==
  /\ input \in Inputs
  /\ sized \in BOOLEAN
  /\ explicitRows \in ExplicitChoices
  /\ te = <<>>
  /\ rrs = -1
  /\ stage = IF sized THEN "up" ELSE "bounds"
  /\ todo = UpOrder
  /\ childCounts = [c \in NonRoot |-> <<>>]
  /\ delta = [u \in Node |-> [i \in DOMAIN input[u] |-> 1]]
  /\ outside = [u \in Node |-> [i \in DOMAIN input[u] |-> IF u = Root THEN 1 ELSE 0]]
  /\ exactRows = 0
  /\ sensitivity = 1
  /\ protectedRows = 0

(* The engine refuses when epsilon is so small that the last step would    *)
(* take too long, and enumerates the bounds otherwise.                     *)
EnumerateBounds ==
  /\ stage = "bounds"
  /\ \/ stage' = "up" /\ UNCHANGED te
     \/ stage' = "combine" /\ te' = Enumerate(input)
  /\ UNCHANGED <<input, sized, explicitRows, rrs, todo, childCounts, delta, outside,
                 exactRows, sensitivity, protectedRows>>

CombineBounds ==
  /\ stage = "combine"
  /\ rrs' \in Sensitivities(input, te)
  /\ stage' = "up"
  /\ UNCHANGED <<input, sized, explicitRows, te, todo, childCounts, delta, outside,
                 exactRows, sensitivity, protectedRows>>

(* The upward loop body for a node: leaves keep their ones. *)
CountNode ==
  /\ stage = "up" /\ todo # <<>>
  /\ LET p == Head(todo)
         counts == [c \in ChildSet(p) |-> SemiJoin(c)]
     IN  /\ childCounts' = [c \in NonRoot |->
                              IF c \in ChildSet(p) THEN counts[c] ELSE childCounts[c]]
         /\ delta' = [delta EXCEPT ![p] =
              [i \in DOMAIN input[p] |-> SatProduct(ChildSet(p), LAMBDA c : counts[c][i])]]
  /\ todo' = Tail(todo)
  /\ UNCHANGED <<input, sized, explicitRows, te, rrs, stage, outside, exactRows,
                 sensitivity, protectedRows>>

(* mutant: the root's rows are added up like a column *)
AddRootAsInts ==
  /\ stage = "up" /\ todo = <<>>
  /\ exactRows' = MapThenSumSet(LAMBDA i : Column(Root, i), DOMAIN delta[Root])
  /\ stage' = IF sized THEN "done" ELSE "down"
  /\ todo' = IF sized THEN <<>> ELSE BfsOrder
  /\ UNCHANGED <<input, sized, explicitRows, te, rrs, childCounts, delta, outside,
                 sensitivity, protectedRows>>

(* The end of the upward pass.  computeAcyclicJoinOutputSize stops here. *)
AddRoot ==
  /\ stage = "up" /\ todo = <<>>
  /\ exactRows' = SatSum(DOMAIN delta[Root], LAMBDA i : delta[Root][i])
  /\ stage' = IF sized THEN "done" ELSE "down"
  /\ todo' = IF sized THEN <<>> ELSE BfsOrder
  /\ UNCHANGED <<input, sized, explicitRows, te, rrs, childCounts, delta, outside,
                 sensitivity, protectedRows>>

(* mutant: the child's own count is not left out *)
FactorOfAll(c, i) ==
  satMul(outside[Parent[c]][i],
         SatProduct(ChildSet(Parent[c]), LAMBDA s : childCounts[s][i]))

(* How often a row of c's parent is completed by everything but c. *)
FactorWithout(c, i) ==
  satMul(outside[Parent[c]][i],
         SatProduct(ChildSet(Parent[c]) \ {c}, LAMBDA s : childCounts[s][i]))

(* byKey: the completions of the parent rows that join row r of c. *)
OutsideOf(c, r) ==
  SatSum({i \in DOMAIN input[Parent[c]] : Joins(c, input[Parent[c]][i], input[c][r])},
         LAMBDA i : FactorWithout(c, i))

(* Answers that use a row: its completions on both sides. *)
SensitivityWith(u) ==
  Max({sensitivity} \cup {satMul(outside[u][i], delta[u][i]) : i \in DOMAIN input[u]})

(* The downward loop body for a node. *)
CompleteNode ==
  /\ stage = "down" /\ todo # <<>>
  /\ LET p == Head(todo)
     IN  /\ sensitivity' = SensitivityWith(p)
         /\ outside' = [u \in Node |->
              IF u \in ChildSet(p) THEN [r \in DOMAIN input[u] |-> OutsideOf(u, r)]
              ELSE outside[u]]
  /\ todo' = Tail(todo)
  /\ UNCHANGED <<input, sized, explicitRows, te, rrs, stage, childCounts, delta,
                 exactRows, protectedRows>>

EndDown ==
  /\ stage = "down" /\ todo = <<>>
  /\ stage' = "pad"
  /\ UNCHANGED <<input, sized, explicitRows, te, rrs, todo, childCounts, delta, outside,
                 exactRows, sensitivity, protectedRows>>

(* mutant: a given size replaces the exact one *)
ExplicitTarget(s) == IF explicitRows > 0 THEN explicitRows ELSE satAdd(exactRows, Factor * s)

(* The rows to return: at least the answer, and the given size or, without *)
(* one, the noise for sensitivity s on top of it.                          *)
Target(s) ==
  LET noise == satMul(Factor, Max({1, s}))
  IN  Max({1, exactRows,
           IF explicitRows > 0 THEN explicitRows ELSE satAdd(exactRows, noise)})

(* The rest of computeDOPaddingStats: the RRS engine's answer replaces the *)
(* sensitivity when it is positive.                                        *)
Pad ==
  /\ stage = "pad"
  /\ sensitivity' = IF rrs > 0 THEN rrs ELSE sensitivity
  /\ protectedRows' = Min({MaxInt, Target(sensitivity')})
  /\ stage' = "done"
  /\ UNCHANGED <<input, sized, explicitRows, te, rrs, todo, childCounts, delta, outside,
                 exactRows>>

Next == EnumerateBounds \/ CombineBounds \/ CountNode \/ AddRoot \/ CompleteNode \/ EndDown \/ Pad

Spec == Init /\ [][Next]_vars

-----------------------------------------------------------------------------
(* Answers of the subtree of c that a row of its parent joins. *)
TrueCount(c, i) ==
  MapThenSumSet(LAMBDA j : SubtreeCount(input, c, j),
                {j \in DOMAIN input[c] : Joins(c, input[Parent[c]][i], input[c][j])})

(* Every semi-join's sum fits an int. *)
Narrow == \A c \in NonRoot : \A i \in DOMAIN input[Parent[c]] : TrueCount(c, i) <= MaxInt

(* Answers that use row i of u. *)
Uses(u, i) == Cardinality({f \in Matches(input, Node) : f[u] = i})

Counted == stage \in {"down", "pad", "done"}

(* The size computed before the join is the size of the join, saturated    *)
(* at a long long, whenever the counts of the single edges fit the ints of *)
(* the semi-join (computeOutputSizeStats, satMul, satAdd).                 *)
ExactWhileNarrow ==
  Counted /\ Narrow => exactRows = Min({MaxLong, JoinSize(input)})

(* The fallback sensitivity is the largest number of answers that a single *)
(* row of any relation takes part in, and at least 1.                      *)
SensitivityExact ==
  stage = "pad" /\ Narrow =>
    sensitivity = Max({1} \cup UNION {{Min({MaxLong, Uses(u, i)}) : i \in DOMAIN input[u]} : u \in Node})

(* The largest number of joined rows of E that agree on its boundary. *)
MaxBoundary(E) ==
  LET Value(f, a) == LET u == IF a \in E THEN a ELSE Parent[a] IN input[u][f[u]].keys[attrColumn(u, a)]
      Agree(f) == {g \in Matches(input, E) : \A a \in BoundaryAttrs(E) : Value(f, a) = Value(g, a)}
  IN  Max({0} \cup {Cardinality(Agree(f)) : f \in Matches(input, E)})

Bounded(E) ==
  \A T \in {estTE(te), rrsTE(te), hybridTE(te)} : T[E] >= Min({MaxLong, MaxBoundary(E)})

(* No degree product for E reaches the end of a long long. *)
Unsaturated(E) == \A y \in Relaxations(E) : te[E][y].est < MaxLong

(* "Validity: every T_hat_E we build is a smooth upper bound on the        *)
(* maximum boundary" (RRSSensitivity.h), as far as it is an upper bound:   *)
(* in all three combinations and for every set of relations, however       *)
(* exact bounds, degree products and relaxations are mixed.                *)
BoundsValid == stage = "combine" => \A E \in Subsets : Unsaturated(E) => Bounded(E)

(* The same for every database. *)
EveryBoundValid == stage = "combine" => \A E \in Subsets : Bounded(E)

(* The sensitivity that scales the noise is not below the number of        *)
(* answers that any row of the database takes part in, whether it comes    *)
(* from the engine or from the passes over the tree; the engine's not      *)
(* below that of a row which could be added, either.                       *)
SensitivityCovers ==
  stage = "done" /\ ~sized /\ Narrow =>
    LET certain == rrs <= 0 \/ \A i \in Node : Unsaturated(Node \ {i})
    IN  certain =>
          /\ \A u \in Node : \A i \in DOMAIN input[u] : sensitivity >= Min({MaxLong, Uses(u, i)})
          /\ rrs > 0 => \A i \in Node : sensitivity >= Min({MaxLong, MaxBoundary(Node \ {i})})

(* The size handed to the join holds every answer that an int can count:   *)
(* a size given on the command line never cuts the join short.             *)
CoversAnswer ==
  stage = "done" /\ ~sized /\ Narrow => protectedRows >= Min({MaxInt, JoinSize(input)})
=============================================================================
