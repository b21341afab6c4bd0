----------------------------- MODULE JoinTreeProofs -----------------------------
(***************************************************************************)
(* Proofs about the join tree and about counting the answers below a row,  *)
(* for every tree and every database: the number of answers of a subtree   *)
(* that use a row is the product, over the children, of the sums over the  *)
(* child rows that the row joins.  This is why a single pass of semi-joins *)
(* can count.                                                              *)
(*                                                                         *)
(* The folds of the library are recursive functions.  What they compute is *)
(* shown here by naming the function: a sum of cardinalities is the        *)
(* cardinality of a union, a product that of a set of choices.             *)
(***************************************************************************)
EXTENDS JoinTree, FiniteSetTheorems, WellFoundedInduction, TLAPS

LEMMA LeastOfNats ==
  ASSUME NEW X, X \subseteq Nat, X # {}
  PROVE  \E x \in X : \A y \in X : x <= y
<1>1. PICK x \in X : \A y \in X : ~(<<y, x>> \in OpToRel(<, Nat))
  BY NatLessThanWellFounded, WFMin
<1>2. \A y \in X : ~(y < x)
  BY <1>1 DEF OpToRel
<1> QED BY <1>2

LEMMA GreatestOfNats ==
  ASSUME NEW X, X \subseteq Nat, X # {}, NEW b \in Nat, \A x \in X : x <= b
  PROVE  \E x \in X : \A y \in X : x >= y
<1> DEFINE Y == {k \in Nat : \E x \in X : k = b - x}
<1>1. PICK x \in X : TRUE
  OBVIOUS
<1>0. x \in Nat /\ x <= b /\ b - x \in Nat
  OBVIOUS
<1>2. Y \subseteq Nat /\ Y # {}
  BY <1>0
<1>3. PICK k \in Y : \A m \in Y : k <= m
  <2> HIDE DEF Y
  <2> QED BY <1>2, LeastOfNats
<1>4. PICK z \in X : k = b - z
  BY <1>3
<1>5. ASSUME NEW y \in X PROVE z >= y
  <2>1. b - y \in Nat /\ y \in Nat /\ z \in Nat
    OBVIOUS
  <2>2. b - y \in Y
    BY <2>1
  <2>3. b - z <= b - y
    BY <2>2, <1>3, <1>4
  <2> HIDE DEF Y
  <2> QED BY <2>1, <2>3
<1> QED BY <1>5

(* A family of subsets of a finite set that contains {} and with a set     *)
(* less one of its elements the set itself contains all of them.           *)
LEMMA SubsetInduction ==
  ASSUME NEW S, IsFiniteSet(S), NEW G, {} \in G,
         \A s \in SUBSET S : s # {} /\ (\A x \in s : s \ {x} \in G) => s \in G
  PROVE  SUBSET S \subseteq G
<1> DEFINE X == {k \in Nat : \E s \in SUBSET S : s \notin G /\ Cardinality(s) = k}
<1>1. SUFFICES ASSUME NEW t \in SUBSET S, t \notin G PROVE FALSE
  OBVIOUS
<1>2. IsFiniteSet(t) /\ Cardinality(t) \in Nat
  BY FS_Subset, FS_CardinalityType
<1>3. X \subseteq Nat /\ X # {}
  BY <1>1, <1>2
<1>4. PICK k \in X : \A m \in X : k <= m
  <2> HIDE DEF X
  <2> QED BY <1>3, LeastOfNats
<1>5. PICK s \in SUBSET S : s \notin G /\ Cardinality(s) = k
  BY <1>4
<1>6. PICK x \in s : s \ {x} \notin G
  BY <1>5
<1>7. IsFiniteSet(s) /\ IsFiniteSet(s \ {x})
  BY FS_Subset
<1>8. Cardinality(s \ {x}) = k - 1 /\ k - 1 \in Nat
  <2>1. Cardinality(s \ {x}) = Cardinality(s) - 1
    BY <1>7, FS_RemoveElement
  <2>2. Cardinality(s \ {x}) \in Nat
    BY <1>7, FS_CardinalityType
  <2> QED BY <2>1, <2>2, <1>5
<1>9. s \ {x} \in SUBSET S
  OBVIOUS
<1>11. k - 1 \in X
  BY <1>6, <1>8, <1>9
<1>12. k <= k - 1 /\ k \in Nat
  BY <1>3, <1>4, <1>11
<1> QED BY <1>12

(* Sets that correspond one to one have the same size. *)
LEMMA Correspondence ==
  ASSUME NEW S, NEW T, IsFiniteSet(S), NEW f \in [S -> T],
         \A x, y \in S : f[x] = f[y] => x = y,
         \A z \in T : \E x \in S : f[x] = z
  PROVE  IsFiniteSet(T) /\ Cardinality(T) = Cardinality(S)
<1>1. f \in Bijection(S, T)
  BY DEF Bijection, Injection, Surjection, IsInjective
<1> QED BY <1>1, FS_Bijection DEF ExistsBijection

-----------------------------------------------------------------------------
(* Sums: it is the function that a fold of the weights w over S computes.  *)
SumOf(it, w, S) ==
  it = [s \in SUBSET S |->
          IF s = {} THEN 0 ELSE w[CHOOSE x \in s : TRUE] + it[s \ {CHOOSE x \in s : TRUE}]]

Together(F, s) == UNION {F[x] : x \in s}

LEMMA TogetherStep ==
  ASSUME NEW F, NEW s, NEW x \in s, IsFiniteSet(F[x]),
         \A y \in s : x # y => F[x] \cap F[y] = {}, IsFiniteSet(Together(F, s \ {x}))
  PROVE  /\ IsFiniteSet(Together(F, s))
         /\ Cardinality(Together(F, s)) = Cardinality(F[x]) + Cardinality(Together(F, s \ {x}))
<1>1. Together(F, s) = F[x] \cup Together(F, s \ {x})
  BY DEF Together
<1>2. F[x] \cap Together(F, s \ {x}) = {}
  BY DEF Together
<1>3. /\ IsFiniteSet(F[x])
      /\ Cardinality(F[x]) \in Nat
      /\ Cardinality(Together(F, s \ {x})) \in Nat
  BY FS_CardinalityType
<1>4. /\ IsFiniteSet(F[x] \cup Together(F, s \ {x}))
      /\ Cardinality(F[x] \cup Together(F, s \ {x})) =
           Cardinality(F[x]) + Cardinality(Together(F, s \ {x})) - Cardinality(F[x] \cap Together(F, s \ {x}))
  <2> HIDE DEF Together
  <2> QED BY <1>3, FS_Union
<1>5. Cardinality(F[x] \cap Together(F, s \ {x})) = 0
  BY <1>2, FS_EmptySet
<1>6. Cardinality(F[x] \cup Together(F, s \ {x})) = Cardinality(F[x]) + Cardinality(Together(F, s \ {x}))
  BY <1>3, <1>4, <1>5
<1> QED BY <1>1, <1>4, <1>6

LEMMA SumIsUnion ==
  ASSUME NEW S, IsFiniteSet(S), NEW F, \A x \in S : IsFiniteSet(F[x]),
         \A x, y \in S : x # y => F[x] \cap F[y] = {},
         NEW w, \A x \in S : w[x] = Cardinality(F[x])
  PROVE  /\ IsFiniteSet(Together(F, S))
         /\ \E it : SumOf(it, w, S)
         /\ \A it : SumOf(it, w, S) => it[S] = Cardinality(Together(F, S))
<1> DEFINE G == {s \in SUBSET S : IsFiniteSet(Together(F, s))}
<1>1. Together(F, {}) = {} /\ IsFiniteSet({}) /\ Cardinality({}) = 0
  BY FS_EmptySet DEF Together
<1>2. SUBSET S \subseteq G
  <2>1. {} \in G
    BY <1>1
  <2>2. ASSUME NEW s \in SUBSET S, s # {}, \A x \in s : s \ {x} \in G PROVE s \in G
    <3>1. PICK x \in s : TRUE
      BY <2>2
    <3>2. IsFiniteSet(F[x]) /\ IsFiniteSet(Together(F, s \ {x}))
      BY <2>2
    <3>3. \A y \in s : x # y => F[x] \cap F[y] = {}
      OBVIOUS
    <3>4. IsFiniteSet(Together(F, s))
      BY <3>1, <3>2, <3>3, TogetherStep
    <3> QED BY <3>4
  <2> HIDE DEF G
  <2> QED BY <2>1, <2>2, SubsetInduction
<1>3. ASSUME NEW s \in SUBSET S, NEW y \in s
      PROVE  Cardinality(Together(F, s)) = w[y] + Cardinality(Together(F, s \ {y}))
  <2>1. IsFiniteSet(Together(F, s \ {y})) /\ w[y] = Cardinality(F[y])
    BY <1>2
  <2>2. IsFiniteSet(F[y])
    OBVIOUS
  <2>3. \A z \in s : y # z => F[y] \cap F[z] = {}
    OBVIOUS
  <2> HIDE DEF G
  <2>4. Cardinality(Together(F, s)) = Cardinality(F[y]) + Cardinality(Together(F, s \ {y}))
    BY <2>1, <2>2, <2>3, TogetherStep
  <2> QED BY <2>1, <2>4
<1>4. \E it : SumOf(it, w, S)
  <2> DEFINE it == [s \in SUBSET S |-> Cardinality(Together(F, s))]
  <2>1. \A s \in SUBSET S : s # {} =>
          Cardinality(Together(F, s)) = w[CHOOSE x \in s : TRUE] + it[s \ {CHOOSE x \in s : TRUE}]
    BY <1>3
  <2>2. SumOf(it, w, S)
    BY <1>1, <2>1 DEF SumOf
  <2> QED BY <2>2
<1>5. ASSUME NEW it, SumOf(it, w, S) PROVE it[S] = Cardinality(Together(F, S))
  <2> DEFINE H == {s \in SUBSET S : it[s] = Cardinality(Together(F, s))}
  <2>0. \A s \in SUBSET S : it[s] = IF s = {} THEN 0
          ELSE w[CHOOSE x \in s : TRUE] + it[s \ {CHOOSE x \in s : TRUE}]
    BY <1>5 DEF SumOf
  <2>1. {} \in H
    BY <2>0, <1>1
  <2>2. ASSUME NEW s \in SUBSET S, s # {}, \A x \in s : s \ {x} \in H PROVE s \in H
    <3> DEFINE x == CHOOSE x \in s : TRUE
    <3>1. x \in s
      BY <2>2
    <3>2. it[s] = w[x] + it[s \ {x}]
      BY <2>0, <2>2
    <3> HIDE DEF x
    <3>3. it[s \ {x}] = Cardinality(Together(F, s \ {x}))
      BY <3>1, <2>2
    <3>4. Cardinality(Together(F, s)) = w[x] + Cardinality(Together(F, s \ {x}))
      BY <1>3, <3>1
    <3> QED BY <3>2, <3>3, <3>4
  <2> HIDE DEF H
  <2>3. SUBSET S \subseteq H
    BY <2>1, <2>2, SubsetInduction
  <2> QED BY <2>3 DEF H
<1> QED BY <1>2, <1>4, <1>5

-----------------------------------------------------------------------------
(* Products: the ways of choosing one element of F[x] for every x of s.    *)
ProductOf(it, w, S) ==
  it = [s \in SUBSET S |->
          IF s = {} THEN 1 ELSE w[CHOOSE x \in s : TRUE] * it[s \ {CHOOSE x \in s : TRUE}]]

Picks(F, s) == {g \in [s -> Together(F, s)] : \A x \in s : g[x] \in F[x]}

LEMMA ChoicesStep ==
  ASSUME NEW F, NEW s, NEW x \in s, IsFiniteSet(F[x]), IsFiniteSet(Picks(F, s \ {x}))
  PROVE  /\ IsFiniteSet(Picks(F, s))
         /\ Cardinality(Picks(F, s)) = Cardinality(F[x]) * Cardinality(Picks(F, s \ {x}))
<1> DEFINE rest == s \ {x}
           P == F[x] \X Picks(F, rest)
           h == [p \in P |-> [y \in s |-> IF y = x THEN p[1] ELSE p[2][y]]]
<1>1. IsFiniteSet(P) /\ Cardinality(P) = Cardinality(F[x]) * Cardinality(Picks(F, rest))
  BY FS_Product
<1>2. \A p \in P : h[p] \in Picks(F, s)
  <2> TAKE p \in P
  <2>1. p[1] \in F[x] /\ p[2] \in Picks(F, rest)
    OBVIOUS
  <2>2. \A y \in s : h[p][y] \in F[y] /\ h[p][y] \in Together(F, s)
    BY <2>1 DEF Picks, Together
  <2>3. h[p] = [y \in s |-> h[p][y]]
    OBVIOUS
  <2> HIDE DEF h
  <2> QED BY <2>2, <2>3 DEF Picks
<1>3. \A p, q \in P : h[p] = h[q] => p = q
  <2> SUFFICES ASSUME NEW p \in P, NEW q \in P, h[p] = h[q] PROVE p = q
    OBVIOUS
  <2>1. p[1] = q[1]
    <3>1. h[p][x] = p[1] /\ h[q][x] = q[1]
      OBVIOUS
    <3> QED BY <3>1
  <2>2. \A y \in rest : p[2][y] = q[2][y]
    <3>1. \A y \in rest : h[p][y] = p[2][y] /\ h[q][y] = q[2][y]
      OBVIOUS
    <3> QED BY <3>1
  <2>3. p[2] \in [rest -> Together(F, rest)] /\ q[2] \in [rest -> Together(F, rest)]
    BY DEF Picks
  <2>4. p[2] = q[2]
    BY <2>2, <2>3
  <2> QED BY <2>1, <2>4
<1>4. \A g \in Picks(F, s) : \E p \in P : h[p] = g
  <2> TAKE g \in Picks(F, s)
  <2> DEFINE r == [y \in rest |-> g[y]]
  <2>1. g \in [s -> Together(F, s)] /\ \A y \in s : g[y] \in F[y]
    BY DEF Picks
  <2>2. r \in Picks(F, rest)
    BY <2>1 DEF Picks, Together
  <2>3. <<g[x], r>> \in P
    BY <2>1, <2>2
  <2>4. h[<<g[x], r>>] = g
    BY <2>1, <2>3
  <2> QED BY <2>3, <2>4
<1> HIDE DEF P, h
<1>5. h \in [P -> Picks(F, s)]
  BY <1>2 DEF h
<1> QED BY <1>1, <1>3, <1>4, <1>5, Correspondence

LEMMA ProductIsChoices ==
  ASSUME NEW S, IsFiniteSet(S), NEW F, \A x \in S : IsFiniteSet(F[x]),
         NEW w, \A x \in S : w[x] = Cardinality(F[x])
  PROVE  /\ IsFiniteSet(Picks(F, S))
         /\ \E it : ProductOf(it, w, S)
         /\ \A it : ProductOf(it, w, S) => it[S] = Cardinality(Picks(F, S))
<1> DEFINE G == {s \in SUBSET S : IsFiniteSet(Picks(F, s))}
<1>1. IsFiniteSet(Picks(F, {})) /\ Cardinality(Picks(F, {})) = 1
  <2> DEFINE e == [x \in {} |-> x]
  <2>1. Picks(F, {}) = {e}
    BY DEF Picks
  <2>2. PICK d : d = e
    OBVIOUS
  <2>3. IsFiniteSet({d}) /\ Cardinality({d}) = 1
    BY FS_Singleton
  <2>4. Picks(F, {}) = {d}
    BY <2>1, <2>2
  <2> QED BY <2>3, <2>4
<1>2. SUBSET S \subseteq G
  <2>1. {} \in G
    BY <1>1
  <2>2. ASSUME NEW s \in SUBSET S, s # {}, \A x \in s : s \ {x} \in G PROVE s \in G
    <3>1. PICK x \in s : TRUE
      BY <2>2
    <3>2. IsFiniteSet(F[x]) /\ IsFiniteSet(Picks(F, s \ {x}))
      BY <2>2
    <3>3. IsFiniteSet(Picks(F, s))
      BY <3>1, <3>2, ChoicesStep
    <3> QED BY <3>3
  <2> HIDE DEF G
  <2> QED BY <2>1, <2>2, SubsetInduction
<1>3. ASSUME NEW s \in SUBSET S, NEW y \in s
      PROVE  Cardinality(Picks(F, s)) = w[y] * Cardinality(Picks(F, s \ {y}))
  <2>1. IsFiniteSet(Picks(F, s \ {y})) /\ w[y] = Cardinality(F[y]) /\ IsFiniteSet(F[y])
    BY <1>2
  <2> HIDE DEF G
  <2>2. Cardinality(Picks(F, s)) = Cardinality(F[y]) * Cardinality(Picks(F, s \ {y}))
    BY <2>1, ChoicesStep
  <2> QED BY <2>1, <2>2
<1>4. \E it : ProductOf(it, w, S)
  <2> DEFINE it == [s \in SUBSET S |-> Cardinality(Picks(F, s))]
  <2>1. \A s \in SUBSET S : s # {} =>
          Cardinality(Picks(F, s)) = w[CHOOSE x \in s : TRUE] * it[s \ {CHOOSE x \in s : TRUE}]
    BY <1>3
  <2>2. ProductOf(it, w, S)
    BY <1>1, <2>1 DEF ProductOf
  <2> QED BY <2>2
<1>5. ASSUME NEW it, ProductOf(it, w, S) PROVE it[S] = Cardinality(Picks(F, S))
  <2> DEFINE H == {s \in SUBSET S : it[s] = Cardinality(Picks(F, s))}
  <2>0. \A s \in SUBSET S : it[s] = IF s = {} THEN 1
          ELSE w[CHOOSE x \in s : TRUE] * it[s \ {CHOOSE x \in s : TRUE}]
    BY <1>5 DEF ProductOf
  <2>1. {} \in H
    BY <2>0, <1>1
  <2>2. ASSUME NEW s \in SUBSET S, s # {}, \A x \in s : s \ {x} \in H PROVE s \in H
    <3> DEFINE x == CHOOSE x \in s : TRUE
    <3>1. x \in s
      BY <2>2
    <3>2. it[s] = w[x] * it[s \ {x}]
      BY <2>0, <2>2
    <3> HIDE DEF x
    <3>3. it[s \ {x}] = Cardinality(Picks(F, s \ {x}))
      BY <3>1, <2>2
    <3>4. Cardinality(Picks(F, s)) = w[x] * Cardinality(Picks(F, s \ {x}))
      BY <1>3, <3>1
    <3> QED BY <3>2, <3>3, <3>4
  <2> HIDE DEF H
  <2>3. SUBSET S \subseteq H
    BY <2>1, <2>2, SubsetInduction
  <2> QED BY <2>3 DEF H
<1> QED BY <1>2, <1>4, <1>5
-----------------------------------------------------------------------------
(* Facts about the tree. *)

LEMMA DepthType == \A u \in Node : Depth[u] \in 0 .. N-1
BY TreeAssumption

LEMMA ParentFacts ==
  ASSUME NEW c \in NonRoot
  PROVE  /\ c \in Node
         /\ Parent[c] \in Node
         /\ c \in ChildSet(Parent[c])
         /\ ~IsLeaf(Parent[c])
         /\ Depth[c] = 1 + Depth[Parent[c]]
<1>1. c \in Node /\ Parent[c] \in Node
  BY TreeAssumption DEF NonRoot
<1>2. Depth[c] = 1 + Depth[Parent[c]]
  BY TreeAssumption DEF NonRoot
<1>3. c \in ChildSet(Parent[c])
  BY <1>1 DEF ChildSet
<1> QED BY <1>1, <1>2, <1>3 DEF IsLeaf

LEMMA ChildFacts ==
  ASSUME NEW p \in Node, NEW c \in ChildSet(p)
  PROVE  c \in NonRoot /\ Parent[c] = p
BY TreeAssumption DEF ChildSet, NonRoot, Node, NoParent

(* Some node has the depth MaxDepth, and none is deeper. *)
LEMMA MaxDepthBound ==
  /\ MaxDepth \in 0 .. N-1
  /\ \A u \in Node : Depth[u] <= MaxDepth
  /\ \E u \in Node : Depth[u] = MaxDepth
<1> DEFINE D == {Depth[u] : u \in Node}
<1>1. N \in Nat /\ D \subseteq 0 .. N-1 /\ Depth[Root] \in D
  BY DepthType, TreeAssumption
<1> HIDE DEF D
<1>2. D \subseteq Nat /\ D # {} /\ N - 1 \in Nat /\ \A d \in D : d <= N - 1
  <2>1. N - 1 \in Nat
    BY TreeAssumption
  <2> QED BY <1>1, <2>1
<1>3. PICK d \in D : \A e \in D : d >= e
  BY <1>2, GreatestOfNats
<1>4. MaxDepth \in D /\ \A e \in D : MaxDepth >= e
  BY <1>3 DEF MaxDepth, Max, D
<1>5. MaxDepth \in 0 .. N-1
  BY <1>1, <1>4
<1>6. \A u \in Node : Depth[u] <= MaxDepth
  BY <1>4, <1>5, DepthType DEF D
<1> QED BY <1>4, <1>5, <1>6 DEF D

LEMMA LenOf ==
  ASSUME NEW n \in Nat, NEW f, f = [i \in 1 .. n |-> f[i]]
  PROVE  Len(f) = n
<1> DEFINE S == {f[i] : i \in 1 .. n}
<1>1. f \in [1 .. n -> S]
  OBVIOUS
<1>2. f \in Seq(S) /\ DOMAIN f = 1 .. n
  BY <1>1
<1> QED BY <1>2

LEMMA NodesFinite ==
  ASSUME NEW S, S \subseteq Node
  PROVE  IsFiniteSet(S) /\ Cardinality(S) \in Nat
<1>1. N \in Nat /\ IsFiniteSet(0 .. N-1)
  BY FS_Interval, TreeAssumption
<1>2. S \in SUBSET (0 .. N-1)
  BY DEF Node
<1> QED BY <1>1, <1>2, FS_Subset, FS_CardinalityType

(* The list of children has every child once. *)
LEMMA ChildrenEnumerate ==
  ASSUME NEW p
  PROVE  /\ DOMAIN children(p) = 1 .. Cardinality(ChildSet(p))
         /\ children(p) \in [DOMAIN children(p) -> ChildSet(p)]
         /\ \A i, j \in DOMAIN children(p) : children(p)[i] = children(p)[j] => i = j
         /\ \A c \in ChildSet(p) : \E i \in DOMAIN children(p) : children(p)[i] = c
<1> DEFINE Below(n) == {c \in ChildSet(p) : c < n}
           Increasing(s) == \A i, j \in DOMAIN s : i < j => s[i] < s[j]
           Listed(n) == \E s \in [1 .. Cardinality(Below(n)) -> Below(n)] : Increasing(s)
           X == {n \in 0 .. N : ~Listed(n)}
<1>1. N \in Nat /\ ChildSet(p) \subseteq Node /\ Node = 0 .. N-1
  BY TreeAssumption DEF ChildSet, Node
<1>2. Listed(0)
  <2>1. Below(0) = {}
    BY <1>1
  <2>2. Cardinality(Below(0)) = 0
    BY <2>1, FS_EmptySet
  <2>3. [i \in 1 .. 0 |-> i] \in [1 .. Cardinality(Below(0)) -> Below(0)]
    <3> HIDE DEF Below
    <3>1. 1 .. 0 = {}
      OBVIOUS
    <3> QED BY <2>2, <3>1
  <2>4. Increasing([i \in 1 .. 0 |-> i])
    OBVIOUS
  <2> QED BY <2>3, <2>4
<1>3. ASSUME NEW n \in 1 .. N, Listed(n - 1) PROVE Listed(n)
  <2>1. n - 1 \in Node /\ n - 1 \in Nat
    BY <1>1
  <2>2. CASE n - 1 \notin ChildSet(p)
    <3>1. Below(n) = Below(n - 1)
      BY <1>1, <2>1, <2>2
    <3> QED BY <3>1, <1>3
  <2>3. CASE n - 1 \in ChildSet(p)
    <3> DEFINE k == Cardinality(Below(n - 1))
    <3>1. PICK s \in [1 .. k -> Below(n - 1)] : Increasing(s)
      BY <1>3
    <3>2. Below(n) = Below(n - 1) \cup {n - 1} /\ n - 1 \notin Below(n - 1)
      BY <1>1, <2>1, <2>3
    <3>3. k \in Nat /\ Cardinality(Below(n)) = k + 1
      <4>1. IsFiniteSet(Below(n - 1)) /\ k \in Nat
        <5>1. Below(n - 1) \subseteq Node
          BY <1>1
        <5> HIDE DEF Below
        <5> QED BY <5>1, NodesFinite
      <4> HIDE DEF Below
      <4> QED BY <4>1, <3>2, FS_AddElement
    <3> DEFINE t == [i \in 1 .. k + 1 |-> IF i <= k THEN s[i] ELSE n - 1]
    <3>4. \A i \in 1 .. k : s[i] \in Below(n - 1) /\ s[i] \in Int /\ s[i] < n - 1
      BY <3>1, <1>1, <3>3
    <3> HIDE DEF Below, k
    <3>5. t \in [1 .. k + 1 -> Below(n)]
      BY <3>2, <3>3, <3>4
    <3>6. Increasing(t)
      <4> SUFFICES ASSUME NEW i \in 1 .. k + 1, NEW j \in 1 .. k + 1, i < j PROVE t[i] < t[j]
        OBVIOUS
      <4>1. i \in 1 .. k /\ t[i] = s[i]
        BY <3>3
      <4>2. CASE j <= k
        BY <4>1, <4>2, <3>1, <3>3
      <4>3. CASE j > k
        BY <4>1, <4>3, <3>3, <3>4
      <4> QED BY <4>2, <4>3, <3>3
    <3> QED BY <3>3, <3>5, <3>6
  <2> QED BY <2>2, <2>3
<1>4. Listed(N)
  <2> HIDE DEF Listed
  <2> SUFFICES ASSUME N \in X PROVE FALSE
    BY <1>1
  <2>1. X \subseteq Nat /\ X # {}
    BY <1>1
  <2>2. PICK n \in X : \A m \in X : n <= m
    <3> HIDE DEF X
    <3> QED BY <2>1, LeastOfNats
  <2>3. n \in 1 .. N /\ ~Listed(n)
    BY <1>1, <1>2
  <2>4. n - 1 \in 0 .. N /\ n - 1 \notin X
    <3>1. n - 1 \in 0 .. N /\ ~(n <= n - 1)
      BY <2>3, <1>1
    <3> HIDE DEF X
    <3> QED BY <3>1, <2>2
  <2>5. Listed(n - 1)
    BY <2>4
  <2> QED BY <2>3, <2>5, <1>3
<1> DEFINE K == 1 .. Cardinality(ChildSet(p))
<1>5. children(p) \in [K -> ChildSet(p)] /\ Increasing(children(p))
  <2>1. Below(N) = ChildSet(p)
    BY <1>1
  <2>2. \E s \in [K -> ChildSet(p)] : Increasing(s)
    BY <1>4, <2>1
  <2> QED BY <2>2 DEF children
<1>6. IsFiniteSet(ChildSet(p)) /\ Cardinality(ChildSet(p)) \in Nat
  BY <1>1, NodesFinite
<1>7. \A i, j \in K : children(p)[i] = children(p)[j] => i = j
  <2> TAKE i, j \in K
  <2>1. i \in Int /\ j \in Int /\ children(p)[i] \in Int /\ children(p)[j] \in Int
    BY <1>1, <1>5, <1>6
  <2>2. i < j => children(p)[i] < children(p)[j]
    BY <1>5
  <2>3. j < i => children(p)[j] < children(p)[i]
    BY <1>5
  <2> QED BY <2>1, <2>2, <2>3
<1>8. IsFiniteSet(K) /\ Cardinality(K) = Cardinality(ChildSet(p))
  BY <1>6, FS_Interval
<1> HIDE DEF K, Increasing
<1>9. children(p) \in Injection(K, ChildSet(p))
  BY <1>5, <1>7 DEF Injection, IsInjective
<1>10. children(p) \in Surjection(K, ChildSet(p))
  BY <1>6, <1>8, <1>9, FS_Injection
<1>11. \A c \in ChildSet(p) : \E i \in K : children(p)[i] = c
  BY <1>10 DEF Surjection
<1>12. DOMAIN children(p) = K
  BY <1>5
<1> QED BY <1>5, <1>7, <1>11, <1>12 DEF K

-----------------------------------------------------------------------------
(* Subtrees.  The recursion has a solution: the nodes from which a path    *)
(* leads up to u.                                                          *)
LEMMA SubtreeUnfold ==
  Subtree = [u \in Node |-> {u} \cup UNION {Subtree[c] : c \in ChildSet(u)}]
<1> DEFINE Path(g, k, v, u) ==
             /\ k \in Nat /\ g \in [0 .. k -> Node] /\ g[0] = v /\ g[k] = u
             /\ \A i \in 1 .. k : g[i] = Parent[g[i - 1]]
           sub == [u \in Node |-> {v \in Node : \E k \in Nat : \E g : Path(g, k, v, u)}]
<1>1. ASSUME NEW u \in Node PROVE sub[u] = {u} \cup UNION {sub[c] : c \in ChildSet(u)}
  <2>0. \A c \in ChildSet(u) : c \in Node /\ Parent[c] = u
    BY DEF ChildSet
  <2>1. u \in sub[u]
    <3>1. PICK g : g = [i \in 0 .. 0 |-> u]
      OBVIOUS
    <3>2. g \in [0 .. 0 -> Node] /\ g[0] = u
      BY <3>1
    <3>3. \A i \in 1 .. 0 : g[i] = Parent[g[i - 1]]
      OBVIOUS
    <3>4. Path(g, 0, u, u)
      BY <3>2, <3>3
    <3> HIDE DEF Path
    <3> QED BY <3>4
  <2>2. ASSUME NEW v \in sub[u], v # u PROVE \E c \in ChildSet(u) : v \in sub[c]
    <3>1. PICK k \in Nat : \E g : Path(g, k, v, u)
      OBVIOUS
    <3>2. PICK g : Path(g, k, v, u)
      BY <3>1
    <3>3. k # 0 /\ k - 1 \in Nat /\ k \in 1 .. k
      BY <2>2, <3>2
    <3>4. g[k - 1] \in Node /\ Parent[g[k - 1]] = u
      BY <3>2, <3>3
    <3>5. g[k - 1] \in ChildSet(u)
      BY <3>4 DEF ChildSet
    <3>6. Path([i \in 0 .. k - 1 |-> g[i]], k - 1, v, g[k - 1])
      <4> DEFINE h == [i \in 0 .. k - 1 |-> g[i]]
      <4>1. \A i \in 0 .. k - 1 : i \in 0 .. k /\ h[i] = g[i] /\ g[i] \in Node
        BY <3>2
      <4>2. \A i \in 1 .. k - 1 : i \in 1 .. k /\ i - 1 \in 0 .. k - 1 /\ i \in 0 .. k - 1
        OBVIOUS
      <4>3. \A i \in 1 .. k - 1 : h[i] = Parent[h[i - 1]]
        BY <3>2, <4>1, <4>2
      <4>4. h \in [0 .. k - 1 -> Node]
        BY <4>1
      <4>5. 0 \in 0 .. k - 1 /\ k - 1 \in 0 .. k - 1
        BY <3>3
      <4> HIDE DEF h
      <4> QED BY <3>2, <3>3, <4>1, <4>3, <4>4, <4>5 DEF h
    <3>7. v \in Node
      OBVIOUS
    <3>8. v \in sub[g[k - 1]]
      <4> HIDE DEF Path
      <4> QED BY <3>3, <3>4, <3>6, <3>7
    <3> QED BY <3>5, <3>8
  <2>3. ASSUME NEW c \in ChildSet(u), NEW v \in sub[c] PROVE v \in sub[u]
    <3>1. c \in Node /\ Parent[c] = u
      BY <2>0
    <3>2. v \in Node /\ \E k \in Nat : \E g : Path(g, k, v, c)
      BY <3>1
    <3>3. PICK k \in Nat : \E g : Path(g, k, v, c)
      BY <3>2
    <3>4. PICK g : Path(g, k, v, c)
      BY <3>3
    <3> DEFINE h == [i \in 0 .. k + 1 |-> IF i = k + 1 THEN u ELSE g[i]]
    <3>5. \A i \in 0 .. k : i \in 0 .. k + 1 /\ i # k + 1 /\ h[i] = g[i] /\ g[i] \in Node
      <4> TAKE i \in 0 .. k
      <4>1. i \in 0 .. k + 1 /\ i # k + 1
        OBVIOUS
      <4>2. h[i] = g[i]
        BY <4>1
      <4>3. g[i] \in Node
        BY <3>4
      <4> QED BY <4>1, <4>2, <4>3
    <3>6. h[k + 1] = u /\ k + 1 \in Nat
      OBVIOUS
    <3>7. h \in [0 .. k + 1 -> Node]
      BY <3>4
    <3>8. \A i \in 1 .. k + 1 : h[i] = Parent[h[i - 1]]
      <4> TAKE i \in 1 .. k + 1
      <4>1. i - 1 \in 0 .. k /\ i - 1 \in Int
        OBVIOUS
      <4>2. h[i - 1] = g[i - 1]
        BY <3>5, <4>1
      <4>3. CASE i = k + 1
        BY <4>2, <4>3, <3>6, <3>4, <3>1
      <4>4. CASE i # k + 1
        <5>1. i \in 1 .. k /\ i \in 0 .. k
          BY <4>4
        <5>2. h[i] = g[i] /\ g[i] = Parent[g[i - 1]]
          BY <5>1, <3>5, <3>4
        <5> HIDE DEF h
        <5> QED BY <5>2, <4>2
      <4> QED BY <4>3, <4>4
    <3>9. h[0] = v
      BY <3>4, <3>5
    <3> HIDE DEF h
    <3>10. Path(h, k + 1, v, u)
      BY <3>6, <3>7, <3>8, <3>9
    <3> HIDE DEF Path
    <3>11. PICK m \in Nat : m = k + 1
      BY <3>6
    <3>12. \E f : Path(f, m, v, u)
      BY <3>10, <3>11
    <3> QED BY <3>2, <3>12
  <2> HIDE DEF sub
  <2> QED BY <2>1, <2>2, <2>3
<1>2. sub = [u \in Node |-> sub[u]]
  OBVIOUS
<1> HIDE DEF sub
<1>3. sub = [u \in Node |-> {u} \cup UNION {sub[c] : c \in ChildSet(u)}]
  BY <1>1, <1>2
<1> DEFINE Unfolds(f) == f = [u \in Node |-> {u} \cup UNION {f[c] : c \in ChildSet(u)}]
<1>4. \E f : Unfolds(f)
  BY <1>3
<1>5. Subtree = CHOOSE f : Unfolds(f)
  BY DEF Subtree
<1> HIDE DEF Unfolds
<1>6. Unfolds(Subtree)
  BY ONLY <1>4, <1>5
<1> QED BY <1>6 DEF Unfolds

LEMMA SubtreeOf ==
  ASSUME NEW u \in Node
  PROVE  Subtree[u] = {u} \cup UNION {Subtree[c] : c \in ChildSet(u)}
BY SubtreeUnfold

(* What lies below u has its parent below u or at u, and its children      *)
(* below u.                                                                *)
LEMMA SubtreeFacts ==
  \A u \in Node :
    /\ u \in Subtree[u]
    /\ Subtree[u] \subseteq Node
    /\ \A v \in Subtree[u] : v # u =>
         v \in NonRoot /\ Parent[v] \in Subtree[u] /\ Depth[v] > Depth[u]
    /\ \A v \in Subtree[u] : ChildSet(v) \subseteq Subtree[u]
<1> DEFINE OK(u) == /\ Subtree[u] \subseteq Node
                    /\ \A v \in Subtree[u] : ChildSet(v) \subseteq Subtree[u]
                    /\ \A v \in Subtree[u] : v # u =>
                         v \in NonRoot /\ Parent[v] \in Subtree[u] /\ Depth[v] > Depth[u]
           X == {k \in Nat : \E u \in Node : ~OK(u) /\ k = N - Depth[u]}
<1>1. ASSUME NEW u \in Node, \A c \in ChildSet(u) : OK(c) PROVE OK(u)
  <2>1. ASSUME NEW v \in Subtree[u], v # u
        PROVE  v \in Node /\ v \in NonRoot /\ Parent[v] \in Subtree[u] /\ Depth[v] > Depth[u]
    <3>1. PICK c \in ChildSet(u) : v \in Subtree[c]
      BY <2>1, SubtreeOf
    <3>2. c \in NonRoot /\ Parent[c] = u /\ c \in Node
      BY ChildFacts DEF ChildSet
    <3>3. Depth[c] = 1 + Depth[u] /\ Depth[c] \in Int /\ Depth[u] \in Int
      BY <3>2, ParentFacts, DepthType
    <3>4. Subtree[c] \subseteq Subtree[u] /\ u \in Subtree[u]
      BY SubtreeOf
    <3>5. CASE v = c
      BY <3>2, <3>3, <3>4, <3>5
    <3>6. CASE v # c
      <4>1. v \in Node /\ v \in NonRoot /\ Parent[v] \in Subtree[c] /\ Depth[v] > Depth[c]
        BY <1>1, <3>1, <3>6
      <4>2. Depth[v] \in Int
        BY <4>1, DepthType
      <4> HIDE DEF OK
      <4> QED BY <4>1, <4>2, <3>3, <3>4
    <3> QED BY <3>5, <3>6
  <2>2. u \in Node
    OBVIOUS
  <2>3. ASSUME NEW v \in Subtree[u], NEW d \in ChildSet(v) PROVE d \in Subtree[u]
    <3>1. CASE v = u
      <4>1. d \in Node /\ d \in ChildSet(u)
        BY <3>1 DEF ChildSet
      <4>2. d \in Subtree[d]
        BY <4>1, SubtreeOf
      <4> QED BY <4>1, <4>2, SubtreeOf
    <3>2. CASE v # u
      <4>1. PICK c \in ChildSet(u) : v \in Subtree[c]
        BY <3>2, SubtreeOf
      <4>2. d \in Subtree[c]
        BY <1>1, <4>1
      <4> QED BY <4>1, <4>2, SubtreeOf
    <3> QED BY <3>1, <3>2
  <2> QED BY <2>1, <2>2, <2>3
<1> HIDE DEF OK
<1>2. \A u \in Node : OK(u)
  <2> SUFFICES ASSUME NEW w \in Node, ~OK(w) PROVE FALSE
    OBVIOUS
  <2>1. \A u \in Node : N - Depth[u] \in Nat /\ N \in Nat /\ Depth[u] \in Nat
    BY DepthType, TreeAssumption
  <2>2. X \subseteq Nat /\ X # {}
    BY <2>1
  <2>3. PICK k \in X : \A m \in X : k <= m
    <3> HIDE DEF X
    <3> QED BY <2>2, LeastOfNats
  <2>4. PICK u \in Node : ~OK(u) /\ k = N - Depth[u]
    OBVIOUS
  <2>5. ASSUME NEW c \in ChildSet(u) PROVE OK(c)
    <3>1. c \in Node /\ Depth[c] = 1 + Depth[u]
      BY ChildFacts, ParentFacts
    <3>2. ~(k <= N - Depth[c])
      BY <2>1, <2>4, <3>1
    <3>3. N - Depth[c] \notin X
      <4> HIDE DEF X
      <4> QED BY <3>2, <2>3
    <3> QED BY <3>1, <3>3, <2>1
  <2> QED BY <2>4, <2>5, <1>1
<1> QED BY <1>2, SubtreeOf DEF OK

(* The subtrees of two nodes of one level have no node in common.          *)
LEMMA SubtreesDisjoint ==
  ASSUME NEW a \in Node, NEW b \in Node, a # b, Depth[a] = Depth[b]
  PROVE  Subtree[a] \cap Subtree[b] = {}
<1> DEFINE X == {k \in Nat : \E v \in Subtree[a] \cap Subtree[b] : k = Depth[v]}
<1> SUFFICES ASSUME NEW w \in Subtree[a] \cap Subtree[b] PROVE FALSE
  OBVIOUS
<1>1. \A v \in Subtree[a] : v \in Node /\ Depth[v] \in Nat
  BY SubtreeFacts, DepthType
<1>2. X \subseteq Nat /\ X # {}
  BY <1>1
<1>3. PICK k \in X : \A m \in X : k <= m
  <2> HIDE DEF X
  <2> QED BY <1>2, LeastOfNats
<1>4. PICK v \in Subtree[a] \cap Subtree[b] : k = Depth[v]
  OBVIOUS
<1>5. Depth[a] \in Nat /\ Depth[b] \in Nat
  BY DepthType
<1>6. v # a
  <2> SUFFICES ASSUME v = a PROVE FALSE
    OBVIOUS
  <2>1. Depth[v] > Depth[b]
    BY SubtreeFacts, <1>4
  <2> QED BY <2>1, <1>5
<1>7. v # b
  <2> SUFFICES ASSUME v = b PROVE FALSE
    OBVIOUS
  <2>1. Depth[v] > Depth[a]
    BY SubtreeFacts, <1>4
  <2> QED BY <2>1, <1>5
<1>8. v \in NonRoot /\ Parent[v] \in Subtree[a] \cap Subtree[b]
  BY SubtreeFacts, <1>6, <1>7
<1>9. Depth[v] = 1 + Depth[Parent[v]] /\ Depth[Parent[v]] \in Nat
  BY <1>8, <1>1, ParentFacts
<1>10. Depth[Parent[v]] \in X
  BY <1>8, <1>9
<1>11. k <= Depth[Parent[v]]
  <2> HIDE DEF X
  <2> QED BY <1>10, <1>3
<1> QED BY <1>4, <1>9, <1>11

-----------------------------------------------------------------------------
(* Answers. *)

Database(db) == \A u \in Node : Len(db[u]) \in Nat

(* Some relation is the longest. *)
LEMMA LongestRelation ==
  ASSUME NEW db, Database(db), NEW S, S \subseteq Node
  PROVE  LET m == Max({Len(db[u]) : u \in S} \cup {0})
         IN  m \in Nat /\ \A u \in S : Len(db[u]) <= m
<1> DEFINE L == {Len(db[u]) : u \in S} \cup {0}
           Bounded(T) == \E b \in Nat : \A u \in T : Len(db[u]) <= b
           G == {T \in SUBSET S : Bounded(T)}
<1>1. \A u \in S : Len(db[u]) \in Nat
  BY DEF Database
<1>2. Bounded(S)
  <2>1. {} \in G
    <3>1. 0 \in Nat /\ \A u \in {} : Len(db[u]) <= 0
      OBVIOUS
    <3> QED BY <3>1
  <2>2. ASSUME NEW T \in SUBSET S, T # {}, \A x \in T : T \ {x} \in G PROVE T \in G
    <3>1. PICK x \in T : TRUE
      BY <2>2
    <3>2. PICK b \in Nat : \A u \in T \ {x} : Len(db[u]) <= b
      BY <2>2, <3>1
    <3> DEFINE d == b + Len(db[x])
    <3>3. d \in Nat /\ Len(db[x]) <= d /\ b <= d
      BY <1>1
    <3>4. \A u \in T : Len(db[u]) <= d
      <4> TAKE u \in T
      <4> HIDE DEF d
      <4> QED BY <1>1, <3>2, <3>3
    <3> HIDE DEF d
    <3> QED BY <3>3, <3>4
  <2>3. IsFiniteSet(S)
    BY NodesFinite
  <2> HIDE DEF G
  <2>4. SUBSET S \subseteq G
    BY <2>1, <2>2, <2>3, SubsetInduction
  <2> QED BY <2>4 DEF G
<1>3. PICK b \in Nat : \A u \in S : Len(db[u]) <= b
  BY <1>2
<1>4. L \subseteq Nat /\ L # {} /\ \A x \in L : x <= b
  BY <1>1, <1>3
<1>5. \E x \in L : \A y \in L : x >= y
  <2> HIDE DEF L
  <2> QED BY <1>4, GreatestOfNats
<1>6. Max(L) \in L /\ \A y \in L : Max(L) >= y
  <2> HIDE DEF L
  <2> QED BY <1>5 DEF Max
<1>7. Max(L) \in Nat /\ \A u \in S : Len(db[u]) <= Max(L)
  <2>1. \A u \in S : Len(db[u]) \in L
    OBVIOUS
  <2> HIDE DEF L
  <2> QED BY <2>1, <1>4, <1>6
<1> QED BY <1>7

LEMMA MatchesAre ==
  ASSUME NEW db, Database(db), NEW S, S \subseteq Node, NEW f
  PROVE  f \in Matches(db, S) <=>
           /\ f = [u \in S |-> f[u]]
           /\ \A u \in S : f[u] \in 1 .. Len(db[u])
           /\ \A u \in S : Parent[u] \in S => Joins(u, db[Parent[u]][f[Parent[u]]], db[u][f[u]])
<1> DEFINE m == Max({Len(db[u]) : u \in S} \cup {0})
<1>1. m \in Nat /\ \A u \in S : Len(db[u]) <= m
  BY LongestRelation
<1>2. \A u \in S : Len(db[u]) \in Nat
  BY DEF Database
<1>3. Matches(db, S) = {g \in [S -> 1 .. m] :
        /\ \A u \in S : g[u] <= Len(db[u])
        /\ \A u \in S : Parent[u] \in S => Joins(u, db[Parent[u]][g[Parent[u]]], db[u][g[u]])}
  BY DEF Matches
<1> HIDE DEF m
<1>4. ASSUME f = [u \in S |-> f[u]]
      PROVE  (f \in [S -> 1 .. m] /\ \A u \in S : f[u] <= Len(db[u])) <=> \A u \in S : f[u] \in 1 .. Len(db[u])
  <2>1. ASSUME f \in [S -> 1 .. m], \A u \in S : f[u] <= Len(db[u]), NEW u \in S
        PROVE  f[u] \in 1 .. Len(db[u])
    <3>1. f[u] \in 1 .. m /\ f[u] <= Len(db[u])
      BY <2>1
    <3> QED BY <3>1, <1>1, <1>2
  <2>2. ASSUME \A u \in S : f[u] \in 1 .. Len(db[u])
        PROVE  f \in [S -> 1 .. m] /\ \A u \in S : f[u] <= Len(db[u])
    <3>1. \A u \in S : f[u] \in 1 .. m /\ f[u] <= Len(db[u])
      <4> TAKE u \in S
      <4> QED BY <2>2, <1>1, <1>2
    <3> QED BY <3>1, <1>4
  <2> QED BY <2>1, <2>2
<1>5. f \in Matches(db, S) => f = [u \in S |-> f[u]]
  BY <1>3
<1> HIDE DEF Joins
<1> QED BY <1>3, <1>4, <1>5

LEMMA MatchesFinite ==
  ASSUME NEW db, Database(db), NEW S, S \subseteq Node
  PROVE  IsFiniteSet(Matches(db, S))
<1> DEFINE F == [u \in S |-> 1 .. Len(db[u])]
           w == [u \in S |-> Cardinality(F[u])]
<1>1. \A u \in S : IsFiniteSet(F[u]) /\ w[u] = Cardinality(F[u])
  BY FS_Interval DEF Database
<1>2. IsFiniteSet(Picks(F, S))
  <2> HIDE DEF F, w
  <2> QED BY <1>1, NodesFinite, ProductIsChoices
<1>3. ASSUME NEW f \in Matches(db, S) PROVE f \in Picks(F, S)
  <2>1. f = [u \in S |-> f[u]] /\ \A u \in S : f[u] \in F[u]
    BY MatchesAre
  <2> HIDE DEF F
  <2>2. \A u \in S : f[u] \in Together(F, S)
    BY <2>1 DEF Together
  <2> QED BY <2>1, <2>2 DEF Picks
<1> HIDE DEF F
<1> QED BY <1>2, <1>3, FS_Subset

-----------------------------------------------------------------------------
(* Concatenation.  flat[i] is the concatenation of the first i sequences.  *)
FlatOf(flat, seqs, m) ==
  flat = [i \in 1 .. m |-> IF i = 1 THEN seqs[i] ELSE flat[i - 1] \o seqs[i]]

LEMMA FlatExists ==
  ASSUME NEW seqs, NEW m \in Nat
  PROVE  \E flat : FlatOf(flat, seqs, m)
<1> DEFINE X == {k \in 0 .. m : ~\E flat : FlatOf(flat, seqs, k)}
<1>1. SUFFICES ASSUME m \in X PROVE FALSE
  OBVIOUS
<1>2. X \subseteq Nat /\ X # {}
  BY <1>1
<1>3. PICK k \in X : \A l \in X : k <= l
  <2> HIDE DEF X
  <2> QED BY <1>2, LeastOfNats
<1>4. k # 0
  <2>1. FlatOf([i \in 1 .. 0 |-> i], seqs, 0)
    <3>1. 1 .. 0 = {}
      OBVIOUS
    <3> QED BY <3>1 DEF FlatOf
  <2> QED BY <2>1
<1>5. k - 1 \in 0 .. m /\ k \in Nat
  BY <1>4
<1>6. k - 1 \notin X
  <2>1. ~(k <= k - 1)
    BY <1>5
  <2> HIDE DEF X
  <2> QED BY <1>3, <2>1
<1>7. PICK old : FlatOf(old, seqs, k - 1)
  BY <1>5, <1>6
<1> DEFINE flat == [i \in 1 .. k |-> IF i < k THEN old[i] ELSE IF k = 1 THEN seqs[k] ELSE old[k - 1] \o seqs[k]]
<1>8. \A i \in 1 .. k : flat[i] = IF i = 1 THEN seqs[i] ELSE flat[i - 1] \o seqs[i]
  <2> TAKE i \in 1 .. k
  <2>1. CASE i < k
    <3>1. i \in 1 .. k - 1 /\ flat[i] = old[i]
      BY <2>1, <1>5
    <3>2. old[i] = IF i = 1 THEN seqs[i] ELSE old[i - 1] \o seqs[i]
      BY <3>1, <1>7 DEF FlatOf
    <3>3. i # 1 => flat[i - 1] = old[i - 1]
      BY <2>1, <1>5
    <3> HIDE DEF flat
    <3> QED BY <3>1, <3>2, <3>3
  <2>2. CASE i = k
    <3>1. flat[k] = IF k = 1 THEN seqs[k] ELSE old[k - 1] \o seqs[k]
      BY <2>2
    <3>2. k # 1 => flat[k - 1] = old[k - 1]
      BY <1>4, <1>5
    <3> HIDE DEF flat
    <3> QED BY <2>2, <3>1, <3>2
  <2> QED BY <2>1, <2>2, <1>5
<1>9. flat = [i \in 1 .. k |-> flat[i]]
  OBVIOUS
<1> HIDE DEF flat
<1>10. FlatOf(flat, seqs, k)
  BY <1>8, <1>9 DEF FlatOf
<1> QED BY <1>10

LEMMA Concatenation ==
  ASSUME NEW T, NEW s \in Seq(T), NEW t \in Seq(T), NEW st, st = s \o t
  PROVE  /\ st \in Seq(T) /\ Len(st) = Len(s) + Len(t)
         /\ \A i \in 1 .. Len(s) : st[i] = s[i]
         /\ \A i \in 1 .. Len(t) : st[Len(s) + i] = t[i]
OBVIOUS

LEMMA Monotone ==
  ASSUME NEW n \in Nat, NEW W, \A i \in 0 .. n : W[i] \in Nat, \A i \in 1 .. n : W[i - 1] <= W[i]
  PROVE  \A i, j \in 0 .. n : i <= j => W[i] <= W[j]
<1> SUFFICES ASSUME NEW i \in 0 .. n, NEW h \in 0 .. n, i <= h, ~(W[i] <= W[h]) PROVE FALSE
  OBVIOUS
<1> DEFINE Y == {j \in Nat : j \in i .. n /\ ~(W[i] <= W[j])}
<1>1. Y \subseteq Nat /\ Y # {}
  <2>1. h \in Y
    OBVIOUS
  <2> QED BY <2>1
<1>2. PICK j \in Y : \A l \in Y : j <= l
  <2> HIDE DEF Y
  <2> QED BY <1>1, LeastOfNats
<1>3. j \in Nat /\ j \in i .. n /\ ~(W[i] <= W[j])
  OBVIOUS
<1>4. j # i
  <2>1. W[i] <= W[i]
    OBVIOUS
  <2> QED BY <2>1, <1>3
<1>5. j - 1 \in Nat /\ j - 1 \in i .. n /\ j \in 1 .. n /\ j - 1 \in 0 .. n /\ j \in 0 .. n
  BY <1>3, <1>4
<1>6. j - 1 \notin Y
  <2>1. ~(j <= j - 1)
    BY <1>3
  <2> HIDE DEF Y
  <2> QED BY <2>1, <1>2
<1>7. W[i] <= W[j - 1] /\ W[j - 1] <= W[j] /\ W[i] \in Nat /\ W[j - 1] \in Nat /\ W[j] \in Nat
  BY <1>5, <1>6
<1> QED BY <1>7, <1>3

(* W[i] is the length of the first i of n sequences over T.                *)
Lengths(seqs, n, T, W) ==
  /\ n \in Nat /\ n > 0 /\ Len(seqs) = n
  /\ \A i \in 1 .. n : seqs[i] \in Seq(T)
  /\ W[0] = 0 /\ \A i \in 0 .. n : W[i] \in Nat
  /\ \A i \in 1 .. n : W[i] = W[i - 1] + Len(seqs[i])

(* The i-th sequence starts behind W[i-1] elements.                        *)
LEMMA Flattened ==
  ASSUME NEW seqs, NEW n, NEW T, NEW W, Lengths(seqs, n, T, W)
  PROVE  /\ FlattenSeq(seqs) \in Seq(T)
         /\ Len(FlattenSeq(seqs)) = W[n]
         /\ \A i \in 1 .. n : \A k \in 1 .. Len(seqs[i]) : FlattenSeq(seqs)[W[i - 1] + k] = seqs[i][k]
<1>0. n \in Nat /\ n > 0 /\ Len(seqs) = n
  BY DEF Lengths
<1>a. \A i \in 1 .. n : seqs[i] \in Seq(T)
  BY DEF Lengths
<1>b. W[0] = 0 /\ \A i \in 0 .. n : W[i] \in Nat
  BY DEF Lengths
<1>c. \A i \in 1 .. n : W[i] = W[i - 1] + Len(seqs[i])
  BY DEF Lengths
<1> USE <1>0, <1>a, <1>b, <1>c
<1> DEFINE flat == CHOOSE f : f = [i \in 1 .. Len(seqs) |-> IF i = 1 THEN seqs[i] ELSE f[i - 1] \o seqs[i]]
           OK(m) == /\ flat[m] \in Seq(T) /\ Len(flat[m]) = W[m]
                    /\ \A i \in 1 .. m : \A k \in 1 .. Len(seqs[i]) : flat[m][W[i - 1] + k] = seqs[i][k]
           X == {m \in Nat : m \in 1 .. n /\ ~OK(m)}
<1>1. FlattenSeq(seqs) = flat[n]
  BY DEF FlattenSeq
<1>2. flat = [i \in 1 .. n |-> IF i = 1 THEN seqs[i] ELSE flat[i - 1] \o seqs[i]]
  BY FlatExists DEF FlatOf
<1> HIDE DEF flat
<1>3. \A i \in 1 .. n : Len(seqs[i]) \in Nat
  OBVIOUS
<1>4. OK(1)
  <2>1. 1 \in 1 .. n /\ flat[1] = seqs[1]
    BY <1>2
  <2>2. W[1] = W[0] + Len(seqs[1]) /\ Len(seqs[1]) \in Nat
    BY <2>1, <1>3
  <2>3. \A i \in 1 .. 1 : i = 1
    OBVIOUS
  <2> QED BY <2>1, <2>2, <2>3
<1>5. ASSUME NEW m \in 2 .. n, OK(m - 1) PROVE OK(m)
  <2>1. m \in 1 .. n /\ m - 1 \in 1 .. n /\ m - 1 \in 0 .. n /\ m # 1 /\ m \in 0 .. n
    OBVIOUS
  <2>2. flat[m] = flat[m - 1] \o seqs[m]
    BY <1>2, <2>1
  <2>3. W[m] = W[m - 1] + Len(seqs[m]) /\ W[m - 1] \in Nat /\ Len(seqs[m]) \in Nat
    BY <2>1, <1>3
  <2>4. flat[m - 1] \in Seq(T) /\ seqs[m] \in Seq(T) /\ Len(flat[m - 1]) = W[m - 1]
    BY <1>5, <2>1
  <2>5. /\ flat[m] \in Seq(T) /\ Len(flat[m]) = W[m]
        /\ \A k \in 1 .. W[m - 1] : flat[m][k] = flat[m - 1][k]
        /\ \A k \in 1 .. Len(seqs[m]) : flat[m][W[m - 1] + k] = seqs[m][k]
    <3>1. PICK s : s = flat[m - 1]
      OBVIOUS
    <3>2. PICK t : t = seqs[m]
      OBVIOUS
    <3>3. PICK st : st = flat[m]
      OBVIOUS
    <3>4. s \in Seq(T) /\ t \in Seq(T) /\ st = s \o t
      BY <3>1, <3>2, <3>3, <2>2, <2>4
    <3>5. /\ st \in Seq(T) /\ Len(st) = Len(s) + Len(t)
          /\ \A k \in 1 .. Len(s) : st[k] = s[k]
          /\ \A k \in 1 .. Len(t) : st[Len(s) + k] = t[k]
      BY ONLY <3>4, Concatenation
    <3>6. Len(s) = W[m - 1] /\ W[m] = Len(s) + Len(t)
      BY <3>1, <3>2, <2>3, <2>4
    <3>7. /\ st \in Seq(T) /\ Len(st) = W[m]
          /\ \A k \in 1 .. W[m - 1] : st[k] = s[k]
          /\ \A k \in 1 .. Len(t) : st[W[m - 1] + k] = t[k]
      BY <3>5, <3>6
    <3> QED BY <3>1, <3>2, <3>3, <3>7
  <2>6. ASSUME NEW i \in 1 .. m, NEW k \in 1 .. Len(seqs[i]) PROVE flat[m][W[i - 1] + k] = seqs[i][k]
    <3>1. CASE i = m
      BY <3>1, <2>5
    <3>2. CASE i # m
      <4>1. i \in 1 .. m - 1
        BY <3>2
      <4>2. flat[m - 1][W[i - 1] + k] = seqs[i][k]
        BY <1>5, <4>1
      <4>3. W[i - 1] + k \in 1 .. W[m - 1]
        <5>1. i \in 1 .. n /\ i - 1 \in 0 .. n /\ i \in 0 .. n /\ W[i] = W[i - 1] + Len(seqs[i])
          BY <4>1
        <5>2. W[i - 1] \in Nat /\ W[i] \in Nat /\ Len(seqs[i]) \in Nat
          BY <5>1, <1>3
        <5>3. W[i] <= W[m - 1]
          <6>1. i \in 0 .. n /\ m - 1 \in 0 .. n /\ i <= m - 1
            BY <4>1, <2>1
          <6>2. \A j \in 1 .. n : W[j - 1] <= W[j]
            <7> TAKE j \in 1 .. n
            <7>1. j - 1 \in 0 .. n
              OBVIOUS
            <7>2. W[j] = W[j - 1] + Len(seqs[j]) /\ Len(seqs[j]) \in Nat /\ W[j - 1] \in Nat
              BY <7>1, <1>3
            <7> QED BY <7>2
          <6>3. n \in Nat /\ \A j \in 0 .. n : W[j] \in Nat
            OBVIOUS
          <6>4. \A a, b \in 0 .. n : a <= b => W[a] <= W[b]
            BY ONLY <6>2, <6>3, Monotone
          <6> QED BY <6>1, <6>4
        <5>4. ASSUME NEW a \in Nat, NEW b \in Nat, NEW l \in Nat, NEW h \in 1 .. l, b >= a + l
              PROVE  a + h \in 1 .. b
          BY <5>4
        <5>5. W[m - 1] \in Nat /\ W[m - 1] >= W[i - 1] + Len(seqs[i])
          BY <5>1, <5>2, <5>3, <2>3
        <5> QED BY <5>2, <5>4, <5>5
      <4> QED BY <2>5, <4>2, <4>3
    <3> QED BY <3>1, <3>2
  <2> QED BY <2>5, <2>6
<1>6. OK(n)
  <2> HIDE DEF OK
  <2> SUFFICES ASSUME ~OK(n) PROVE FALSE
    OBVIOUS
  <2>1. X \subseteq Nat /\ X # {}
    <3>1. n \in X
      OBVIOUS
    <3> QED BY <3>1
  <2>2. PICK m \in X : \A l \in X : m <= l
    <3> HIDE DEF X
    <3> QED BY <2>1, LeastOfNats
  <2>3. m \in 2 .. n /\ m - 1 \in 1 .. n
    BY <1>4
  <2>4. m - 1 \notin X
    <3>1. ~(m <= m - 1)
      BY <2>3
    <3> HIDE DEF X
    <3> QED BY <3>1, <2>2
  <2> QED BY <2>3, <2>4, <1>5
<1> QED BY <1>1, <1>6

LEMMA EveryDepth == \A d \in 0 .. MaxDepth : \E u \in Node : Depth[u] = d
<1> DEFINE X == {k \in Nat : k <= MaxDepth /\ ~\E u \in Node : Depth[u] = MaxDepth - k}
<1>0. MaxDepth \in Nat
  BY MaxDepthBound
<1> SUFFICES ASSUME NEW d \in 0 .. MaxDepth, ~\E u \in Node : Depth[u] = d PROVE FALSE
  OBVIOUS
<1>1. MaxDepth - d \in X
  <2>1. MaxDepth - d \in Nat /\ MaxDepth - d <= MaxDepth /\ MaxDepth - (MaxDepth - d) = d
    BY <1>0
  <2> QED BY <2>1
<1>2. X \subseteq Nat /\ X # {}
  BY <1>1
<1>3. PICK k \in X : \A l \in X : k <= l
  <2> HIDE DEF X
  <2> QED BY <1>2, LeastOfNats
<1>4. k \in Nat /\ k <= MaxDepth /\ ~\E u \in Node : Depth[u] = MaxDepth - k
  OBVIOUS
<1>5. k # 0
  BY <1>0, <1>4, MaxDepthBound
<1>6. k - 1 \in Nat /\ k - 1 <= MaxDepth /\ k - 1 \notin X
  <2>1. ~(k <= k - 1) /\ k - 1 \in Nat /\ k - 1 <= MaxDepth
    BY <1>0, <1>4, <1>5
  <2> HIDE DEF X
  <2> QED BY <2>1, <1>3
<1>7. PICK u \in Node : Depth[u] = MaxDepth - (k - 1)
  BY <1>6
<1>8. u \in NonRoot
  <2>1. Depth[u] # 0
    BY <1>0, <1>4, <1>7
  <2>2. Depth[Root] = 0
    BY TreeAssumption
  <2> QED BY <2>1, <2>2 DEF NonRoot
<1>9. Parent[u] \in Node /\ Depth[u] = 1 + Depth[Parent[u]] /\ Depth[Parent[u]] \in Nat
  BY <1>8, ParentFacts, DepthType
<1>10. Depth[Parent[u]] = MaxDepth - k
  BY <1>0, <1>4, <1>7, <1>9
<1> QED BY <1>4, <1>9, <1>10

(* Running totals of lengths. *)
LEMMA Totals ==
  ASSUME NEW n \in Nat, NEW L, \A i \in 1 .. n : L[i] \in Nat
  PROVE  \E W : W[0] = 0 /\ (\A i \in 0 .. n : W[i] \in Nat) /\ \A i \in 1 .. n : W[i] = W[i - 1] + L[i]
<1> DEFINE Total(W, m) == W[0] = 0 /\ (\A i \in 0 .. m : W[i] \in Nat) /\ \A i \in 1 .. m : W[i] = W[i - 1] + L[i]
           X == {k \in 0 .. n : ~\E W : Total(W, k)}
<1>1. SUFFICES ASSUME n \in X PROVE FALSE
  OBVIOUS
<1>2. X \subseteq Nat /\ X # {}
  BY <1>1
<1>3. PICK k \in X : \A l \in X : k <= l
  <2> HIDE DEF X
  <2> QED BY <1>2, LeastOfNats
<1>4. k # 0
  <2> DEFINE Z == [i \in 0 .. 0 |-> 0]
  <2>1. Total(Z, 0)
    OBVIOUS
  <2> HIDE DEF Z, Total
  <2> QED BY <2>1
<1>5. k - 1 \in 0 .. n /\ k \in Nat /\ k \in 1 .. n
  BY <1>4
<1>6. k - 1 \notin X
  <2>1. ~(k <= k - 1)
    BY <1>5
  <2> HIDE DEF X
  <2> QED BY <1>3, <2>1
<1>7. PICK old : Total(old, k - 1)
  <2> HIDE DEF Total
  <2> QED BY <1>5, <1>6
<1> DEFINE new == [i \in 0 .. k |-> IF i < k THEN old[i] ELSE old[k - 1] + L[k]]
<1>8. \A i \in 0 .. k - 1 : new[i] = old[i]
  BY <1>5
<1>9. new[k] = old[k - 1] + L[k] /\ L[k] \in Nat
  BY <1>5
<1>10. \A i \in 0 .. k : i \in 0 .. k - 1 \/ i = k
  BY <1>5
<1>11. k - 1 \in 0 .. k - 1 /\ 0 \in 0 .. k - 1
  BY <1>5
<1>12. \A i \in 1 .. k : i - 1 \in 0 .. k - 1 /\ (i = k \/ (i \in 1 .. k - 1 /\ i \in 0 .. k - 1))
  BY <1>5
<1> HIDE DEF new
<1>13. new[0] = 0 /\ \A i \in 0 .. k : new[i] \in Nat
  BY <1>7, <1>8, <1>9, <1>10, <1>11
<1>14. \A i \in 1 .. k : new[i] = new[i - 1] + L[i]
  BY <1>7, <1>8, <1>9, <1>12
<1>15. Total(new, k)
  BY <1>13, <1>14
<1> HIDE DEF Total
<1> QED BY <1>15

LEMMA Interval ==
  ASSUME NEW n \in Nat, NEW W, W[0] = 0, \A i \in 0 .. n : W[i] \in Nat, NEW q \in 1 .. W[n]
  PROVE  \E i \in 1 .. n : W[i - 1] < q /\ q <= W[i]
<1> DEFINE X == {i \in Nat : i \in 0 .. n /\ q <= W[i]}
<1>1. X \subseteq Nat /\ X # {}
  <2>1. n \in X
    OBVIOUS
  <2> QED BY <2>1
<1>2. PICK i \in X : \A l \in X : i <= l
  <2> HIDE DEF X
  <2> QED BY <1>1, LeastOfNats
<1>3. i \in 1 .. n
  OBVIOUS
<1>4. i - 1 \notin X
  <2>1. ~(i <= i - 1)
    BY <1>3
  <2> HIDE DEF X
  <2> QED BY <2>1, <1>2
<1> QED BY <1>3, <1>4

Sequences(seqs, n, T) ==
  n \in Nat /\ n > 0 /\ Len(seqs) = n /\ \A i \in 1 .. n : seqs[i] \in Seq(T)

(* Every element of flat is one of a sequence, every element of a sequence *)
(* one of flat, and the sequences keep their order.                        *)
InOrder(flat, seqs, n, T) ==
  /\ flat \in Seq(T)
  /\ \A i \in 1 .. n : \A k \in 1 .. Len(seqs[i]) : \E m \in 1 .. Len(flat) : flat[m] = seqs[i][k]
  /\ \A m, l \in 1 .. Len(flat) : m <= l =>
       \E i, j \in 1 .. n : /\ i <= j
                            /\ \E k \in 1 .. Len(seqs[i]) : flat[m] = seqs[i][k]
                            /\ \E k \in 1 .. Len(seqs[j]) : flat[l] = seqs[j][k]

LEMMA FlattenedElements ==
  ASSUME NEW seqs, NEW n, NEW T, Sequences(seqs, n, T), NEW flat, flat = FlattenSeq(seqs)
  PROVE  InOrder(flat, seqs, n, T)
<1>0. n \in Nat /\ n > 0 /\ Len(seqs) = n /\ (\A i \in 1 .. n : seqs[i] \in Seq(T))
      /\ \A i \in 1 .. n : Len(seqs[i]) \in Nat
  BY DEF Sequences
<1>1. PICK W : W[0] = 0 /\ (\A i \in 0 .. n : W[i] \in Nat) /\ \A i \in 1 .. n : W[i] = W[i - 1] + Len(seqs[i])
  <2> DEFINE L == [i \in 1 .. n |-> Len(seqs[i])]
  <2>1. \A i \in 1 .. n : L[i] \in Nat /\ L[i] = Len(seqs[i])
    BY <1>0
  <2> HIDE DEF L
  <2>2. PICK W : W[0] = 0 /\ (\A i \in 0 .. n : W[i] \in Nat) /\ \A i \in 1 .. n : W[i] = W[i - 1] + L[i]
    BY <1>0, <2>1, Totals
  <2> QED BY <2>1, <2>2
<1>2. Lengths(seqs, n, T, W)
  BY <1>0, <1>1 DEF Lengths
<1>3. /\ flat \in Seq(T) /\ Len(flat) = W[n]
      /\ \A i \in 1 .. n : \A k \in 1 .. Len(seqs[i]) : flat[W[i - 1] + k] = seqs[i][k]
  BY <1>2, Flattened
<1>4. \A i, j \in 0 .. n : i <= j => W[i] <= W[j]
  <2>1. \A i \in 1 .. n : W[i - 1] <= W[i]
    <3> TAKE i \in 1 .. n
    <3>1. i - 1 \in 0 .. n
      BY <1>0
    <3> QED BY <1>0, <1>1, <3>1
  <2> QED BY <2>1, <1>0, <1>1, Monotone
<1>5. ASSUME NEW i \in 1 .. n, NEW k \in 1 .. Len(seqs[i])
      PROVE  W[i - 1] + k \in 1 .. Len(flat)
  <2>1. i - 1 \in 0 .. n /\ i \in 0 .. n /\ n \in 0 .. n /\ i <= n
    BY <1>0
  <2>2. W[i - 1] \in Nat /\ W[i] <= W[n] /\ W[i] = W[i - 1] + Len(seqs[i]) /\ W[n] \in Nat
    BY <2>1, <1>1, <1>4
  <2> QED BY <2>2, <1>0, <1>3
<1>6. ASSUME NEW m \in 1 .. Len(flat)
      PROVE  \E i \in 1 .. n : /\ W[i - 1] < m /\ m <= W[i]
                               /\ \E k \in 1 .. Len(seqs[i]) : flat[m] = seqs[i][k]
  <2>1. m \in 1 .. W[n]
    BY <1>3
  <2>2. PICK i \in 1 .. n : W[i - 1] < m /\ m <= W[i]
    BY <2>1, <1>0, <1>1, Interval
  <2>3. PICK k : k = m - W[i - 1]
    OBVIOUS
  <2>4. i - 1 \in 0 .. n /\ W[i] = W[i - 1] + Len(seqs[i]) /\ Len(seqs[i]) \in Nat
    BY <1>0, <1>1
  <2>5. W[i - 1] \in Nat /\ m \in Int
    BY <2>4, <1>1
  <2>6. k \in 1 .. Len(seqs[i]) /\ W[i - 1] + k = m
    BY <2>2, <2>3, <2>4, <2>5
  <2> QED BY <2>2, <2>6, <1>3
<1>7. ASSUME NEW m \in 1 .. Len(flat), NEW l \in 1 .. Len(flat), m <= l
      PROVE  \E i, j \in 1 .. n : /\ i <= j
                                  /\ \E k \in 1 .. Len(seqs[i]) : flat[m] = seqs[i][k]
                                  /\ \E k \in 1 .. Len(seqs[j]) : flat[l] = seqs[j][k]
  <2>1. PICK i \in 1 .. n : /\ W[i - 1] < m /\ m <= W[i]
                            /\ \E k \in 1 .. Len(seqs[i]) : flat[m] = seqs[i][k]
    BY <1>6
  <2>2. PICK j \in 1 .. n : /\ W[j - 1] < l /\ l <= W[j]
                            /\ \E k \in 1 .. Len(seqs[j]) : flat[l] = seqs[j][k]
    BY <1>6
  <2>3. i <= j
    <3> SUFFICES ASSUME ~(i <= j) PROVE FALSE
      OBVIOUS
    <3>1. j \in 0 .. n /\ i - 1 \in 0 .. n /\ j <= i - 1
      BY <1>0
    <3>2. W[j] <= W[i - 1] /\ W[j] \in Nat /\ W[i - 1] \in Nat
      BY <3>1, <1>1, <1>4
    <3>3. m \in Int /\ l \in Int
      BY <1>3, <1>1
    <3> QED BY <1>7, <2>1, <2>2, <3>2, <3>3
  <2> QED BY <2>1, <2>2, <2>3
<1>8. \A i \in 1 .. n : \A k \in 1 .. Len(seqs[i]) : \E m \in 1 .. Len(flat) : flat[m] = seqs[i][k]
  BY <1>3, <1>5
<1> QED BY <1>3, <1>7, <1>8 DEF InOrder

-----------------------------------------------------------------------------
(* The levels of the breadth-first search. *)

NextLevelOf(level) == FlattenSeq([i \in DOMAIN level |-> children(level[i])])

LevelsTo(f, m) ==
  f = [d \in 0 .. m |-> IF d = 0 THEN <<Root>> ELSE NextLevelOf(f[d - 1])]

LEMMA LevelsExist ==
  ASSUME NEW m \in Nat
  PROVE  \E f : LevelsTo(f, m)
<1> DEFINE X == {k \in 0 .. m : ~\E f : LevelsTo(f, k)}
<1>1. SUFFICES ASSUME m \in X PROVE FALSE
  OBVIOUS
<1>2. X \subseteq Nat /\ X # {}
  BY <1>1
<1>3. PICK k \in X : \A l \in X : k <= l
  <2> HIDE DEF X
  <2> QED BY <1>2, LeastOfNats
<1>4. k # 0
  <2>1. LevelsTo([d \in 0 .. 0 |-> <<Root>>], 0)
    BY DEF LevelsTo
  <2> QED BY <2>1
<1>5. k - 1 \in 0 .. m /\ k \in Nat
  BY <1>4
<1>6. k - 1 \notin X
  <2>1. ~(k <= k - 1)
    BY <1>5
  <2> HIDE DEF X
  <2> QED BY <1>3, <2>1
<1>7. PICK old : LevelsTo(old, k - 1)
  BY <1>5, <1>6
<1> DEFINE f == [d \in 0 .. k |-> IF d < k THEN old[d] ELSE NextLevelOf(old[k - 1])]
<1>8. \A d \in 0 .. k : f[d] = IF d = 0 THEN <<Root>> ELSE NextLevelOf(f[d - 1])
  <2> TAKE d \in 0 .. k
  <2>1. CASE d < k
    <3>1. d \in 0 .. k - 1 /\ f[d] = old[d]
      BY <2>1, <1>5
    <3>2. old[d] = IF d = 0 THEN <<Root>> ELSE NextLevelOf(old[d - 1])
      BY <3>1, <1>7 DEF LevelsTo
    <3>3. d # 0 => f[d - 1] = old[d - 1]
      BY <2>1, <1>5
    <3> HIDE DEF f
    <3> QED BY <3>1, <3>2, <3>3
  <2>2. CASE d = k
    <3>1. f[k] = NextLevelOf(old[k - 1]) /\ f[k - 1] = old[k - 1]
      BY <2>2, <1>4, <1>5
    <3> HIDE DEF f
    <3> QED BY <2>2, <3>1, <1>4
  <2> QED BY <2>1, <2>2, <1>5
<1>9. f = [d \in 0 .. k |-> f[d]]
  OBVIOUS
<1> HIDE DEF f
<1>10. LevelsTo(f, k)
  BY <1>8, <1>9 DEF LevelsTo
<1> QED BY <1>10

LEMMA LevelsUnfold ==
  \A d \in 0 .. N-1 : buildLevels[d] = IF d = 0 THEN <<Root>> ELSE NextLevelOf(buildLevels[d - 1])
<1>1. N - 1 \in Nat
  BY TreeAssumption
<1>2. \E f : LevelsTo(f, N - 1)
  BY <1>1, LevelsExist
<1>3. LevelsTo(buildLevels, N - 1)
  BY <1>2 DEF buildLevels, LevelsTo, NextLevelOf
<1> QED BY <1>3 DEF LevelsTo

IsLevel(L, d) ==
  /\ L \in Seq(Node)
  /\ \A k \in 1 .. Len(L) : Depth[L[k]] = d
  /\ \A u \in Node : Depth[u] = d => \E k \in 1 .. Len(L) : L[k] = u

LEMMA FirstLevel == IsLevel(<<Root>>, 0)
<1>1. Root \in Node /\ Depth[Root] = 0
  BY TreeAssumption
<1>2. \A u \in Node : Depth[u] = 0 => u = Root
  <2> SUFFICES ASSUME NEW u \in Node, Depth[u] = 0, u # Root PROVE FALSE
    OBVIOUS
  <2>1. u \in NonRoot
    BY DEF NonRoot
  <2>2. Depth[u] = 1 + Depth[Parent[u]] /\ Depth[Parent[u]] \in Nat
    BY <2>1, ParentFacts, DepthType
  <2> QED BY <2>2
<1>3. Len(<<Root>>) = 1 /\ <<Root>>[1] = Root
  OBVIOUS
<1> QED BY <1>1, <1>2, <1>3 DEF IsLevel

LEMMA LaterLevel ==
  ASSUME NEW d \in 1 .. MaxDepth, NEW L, IsLevel(L, d - 1)
  PROVE  IsLevel(NextLevelOf(L), d)
<1> DEFINE seqs == [i \in DOMAIN L |-> children(L[i])]
           n == Len(L)
<1>1. /\ L \in Seq(Node) /\ n \in Nat /\ DOMAIN L = 1 .. n
      /\ \A i \in 1 .. n : L[i] \in Node /\ Depth[L[i]] = d - 1
      /\ \A u \in Node : Depth[u] = d - 1 => \E k \in 1 .. n : L[k] = u
  BY DEF IsLevel
<1>2. d - 1 \in 0 .. MaxDepth /\ d \in Int
  BY MaxDepthBound
<1>3. n > 0
  BY <1>1, <1>2, EveryDepth
<1>4. \A i \in 1 .. n : seqs[i] = children(L[i])
  BY <1>1
<1>5. Len(seqs) = n
  <2>1. seqs = [i \in 1 .. n |-> seqs[i]]
    BY <1>1
  <2> HIDE DEF seqs
  <2> QED BY <2>1, <1>1, LenOf
<1>6. ASSUME NEW i \in 1 .. n
      PROVE  /\ children(L[i]) \in Seq(Node) /\ DOMAIN children(L[i]) = 1 .. Len(children(L[i]))
             /\ \A k \in 1 .. Len(children(L[i])) : Depth[children(L[i])[k]] = d
  <2>1. L[i] \in Node /\ Cardinality(ChildSet(L[i])) \in Nat /\ ChildSet(L[i]) \subseteq Node
    BY <1>1, NodesFinite DEF ChildSet
  <2>2. /\ DOMAIN children(L[i]) = 1 .. Cardinality(ChildSet(L[i]))
        /\ children(L[i]) \in [DOMAIN children(L[i]) -> ChildSet(L[i])]
    BY ChildrenEnumerate
  <2>3. children(L[i]) \in [1 .. Cardinality(ChildSet(L[i])) -> Node]
    BY <2>1, <2>2
  <2>4. children(L[i]) \in Seq(Node) /\ Len(children(L[i])) = Cardinality(ChildSet(L[i]))
    BY <2>1, <2>3
  <2>5. \A c \in ChildSet(L[i]) : Depth[c] = d
    <3> TAKE c \in ChildSet(L[i])
    <3>1. c \in NonRoot /\ Parent[c] = L[i]
      BY <2>1, ChildFacts
    <3>2. Depth[c] = 1 + (d - 1)
      BY <3>1, <1>1, ParentFacts
    <3> QED BY <3>2, <1>2
  <2> QED BY <2>2, <2>4, <2>5
<1> HIDE DEF seqs, n
<1>7. Sequences(seqs, n, Node)
  BY <1>1, <1>3, <1>4, <1>5, <1>6 DEF Sequences
<1>8. PICK flat : flat = FlattenSeq(seqs)
  OBVIOUS
<1>9. InOrder(flat, seqs, n, Node)
  BY <1>7, <1>8, FlattenedElements
<1>10. /\ flat \in Seq(Node)
       /\ \A i \in 1 .. n : \A k \in 1 .. Len(seqs[i]) : \E m \in 1 .. Len(flat) : flat[m] = seqs[i][k]
       /\ \A m, l \in 1 .. Len(flat) : m <= l =>
           \E i, j \in 1 .. n : /\ i <= j
                                /\ \E k \in 1 .. Len(seqs[i]) : flat[m] = seqs[i][k]
                                /\ \E k \in 1 .. Len(seqs[j]) : flat[l] = seqs[j][k]
  BY <1>9 DEF InOrder
<1>11. NextLevelOf(L) = flat
  BY <1>8 DEF NextLevelOf, seqs
<1>12. ASSUME NEW m \in 1 .. Len(flat) PROVE Depth[flat[m]] = d
  <2>1. m <= m
    BY <1>10
  <2>2. PICK i \in 1 .. n : \E k \in 1 .. Len(seqs[i]) : flat[m] = seqs[i][k]
    BY <2>1, <1>10
  <2> QED BY <2>2, <1>4, <1>6
<1>13. ASSUME NEW u \in Node, Depth[u] = d PROVE \E m \in 1 .. Len(flat) : flat[m] = u
  <2>1. u \in NonRoot
    <3>1. Depth[Root] = 0 /\ Depth[u] # 0
      BY <1>13, TreeAssumption
    <3> QED BY <3>1 DEF NonRoot
  <2>2. Parent[u] \in Node /\ Depth[u] = 1 + Depth[Parent[u]] /\ Depth[Parent[u]] \in Int /\ u \in ChildSet(Parent[u])
    BY <2>1, ParentFacts, DepthType
  <2>3. Depth[Parent[u]] = d - 1
    BY <1>2, <1>13, <2>2
  <2>4. PICK i \in 1 .. n : L[i] = Parent[u]
    BY <1>1, <2>2, <2>3 DEF n
  <2>5. PICK k \in DOMAIN children(L[i]) : children(L[i])[k] = u
    BY <2>2, <2>4, ChildrenEnumerate
  <2>6. k \in 1 .. Len(seqs[i]) /\ seqs[i][k] = u
    BY <2>5, <1>4, <1>6
  <2> QED BY <2>6, <1>10
<1> QED BY <1>10, <1>11, <1>12, <1>13 DEF IsLevel

LEMMA Levels == \A d \in 0 .. MaxDepth : IsLevel(buildLevels[d], d)
<1> DEFINE X == {d \in 0 .. MaxDepth : ~IsLevel(buildLevels[d], d)}
<1>0. MaxDepth \in 0 .. N - 1
  BY MaxDepthBound
<1> SUFFICES ASSUME X # {} PROVE FALSE
  OBVIOUS
<1>1. X \subseteq Nat
  BY <1>0
<1>2. PICK d \in X : \A l \in X : d <= l
  <2> HIDE DEF X
  <2> QED BY <1>1, LeastOfNats
<1>3. d \in 0 .. MaxDepth /\ ~IsLevel(buildLevels[d], d)
  OBVIOUS
<1>4. d \in 0 .. N - 1
  BY <1>0, <1>3, TreeAssumption
<1>5. d # 0
  BY <1>3, <1>4, FirstLevel, LevelsUnfold
<1>6. d \in 1 .. MaxDepth /\ d - 1 \in 0 .. MaxDepth /\ ~(d <= d - 1)
  BY <1>0, <1>3, <1>5
<1>7. IsLevel(buildLevels[d - 1], d - 1)
  <2>1. d - 1 \notin X
    <3> HIDE DEF X
    <3> QED BY <1>2, <1>6
  <2> QED BY <2>1, <1>6
<1>8. IsLevel(NextLevelOf(buildLevels[d - 1]), d)
  BY <1>6, <1>7, LaterLevel
<1> QED BY <1>3, <1>4, <1>5, <1>8, LevelsUnfold

(* The orders in which the passes visit the nodes. *)
Named(s, u) == \E k \in 1 .. Len(s) : s[k] = u

Descending(s) == \A k, l \in 1 .. Len(s) : k <= l => Depth[s[k]] >= Depth[s[l]]

Ascending(s) == \A k, l \in 1 .. Len(s) : k <= l => Depth[s[k]] <= Depth[s[l]]

(* The i-th of n sequences is the level of depth level[i]; all levels occur *)
(* and are concatenated to s.                                              *)
AllLevels(seqs, n, level) ==
  /\ n \in Nat /\ n > 0 /\ Len(seqs) = n
  /\ \A i \in 1 .. n : IsLevel(seqs[i], level[i])
  /\ \A u \in Node : \E i \in 1 .. n : level[i] = Depth[u]

Visits(s, n, level) ==
  /\ s \in Seq(Node)
  /\ \A u \in Node : Named(s, u)
  /\ \A k, l \in 1 .. Len(s) : k <= l =>
       \E i, j \in 1 .. n : i <= j /\ Depth[s[k]] = level[i] /\ Depth[s[l]] = level[j]

(* Concatenated levels visit the nodes level by level. *)
LEMMA LevelsInOrder ==
  ASSUME NEW n, NEW seqs, NEW level, AllLevels(seqs, n, level), NEW flat, flat = FlattenSeq(seqs)
  PROVE  Visits(flat, n, level)
<1>0. /\ \A i \in 1 .. n : \A a \in 1 .. Len(seqs[i]) : Depth[seqs[i][a]] = level[i]
      /\ \A i \in 1 .. n : \A u \in Node : Depth[u] = level[i] => \E k \in 1 .. Len(seqs[i]) : seqs[i][k] = u
      /\ \A u \in Node : \E i \in 1 .. n : level[i] = Depth[u]
  BY DEF AllLevels, IsLevel
<1>1. Sequences(seqs, n, Node)
  BY DEF Sequences, IsLevel, AllLevels
<1>2. InOrder(flat, seqs, n, Node)
  BY <1>1, FlattenedElements
<1>3. /\ flat \in Seq(Node)
      /\ \A i \in 1 .. n : \A k \in 1 .. Len(seqs[i]) : \E m \in 1 .. Len(flat) : flat[m] = seqs[i][k]
      /\ \A m, l \in 1 .. Len(flat) : m <= l =>
           \E i, j \in 1 .. n : /\ i <= j
                                /\ \E k \in 1 .. Len(seqs[i]) : flat[m] = seqs[i][k]
                                /\ \E k \in 1 .. Len(seqs[j]) : flat[l] = seqs[j][k]
  BY <1>2 DEF InOrder
<1>4. ASSUME NEW u \in Node PROVE Named(flat, u)
  <2>1. PICK i \in 1 .. n : level[i] = Depth[u]
    BY <1>0
  <2>2. PICK k \in 1 .. Len(seqs[i]) : seqs[i][k] = u
    BY <1>0, <2>1
  <2> QED BY <1>3, <2>2 DEF Named
<1>5. ASSUME NEW m \in 1 .. Len(flat), NEW l \in 1 .. Len(flat), m <= l
      PROVE  \E i, j \in 1 .. n : i <= j /\ Depth[flat[m]] = level[i] /\ Depth[flat[l]] = level[j]
  <2>1. \E i, j \in 1 .. n : /\ i <= j
                             /\ \E k \in 1 .. Len(seqs[i]) : flat[m] = seqs[i][k]
                             /\ \E k \in 1 .. Len(seqs[j]) : flat[l] = seqs[j][k]
    BY <1>3, <1>5
  <2>2. PICK i \in 1 .. n, j \in 1 .. n : /\ i <= j
                             /\ \E k \in 1 .. Len(seqs[i]) : flat[m] = seqs[i][k]
                             /\ \E a \in 1 .. Len(seqs[j]) : flat[l] = seqs[j][a]
    BY <2>1
  <2>3. Depth[flat[m]] = level[i] /\ Depth[flat[l]] = level[j]
    BY <1>0, <2>2
  <2> QED BY <2>2, <2>3
<1> QED BY <1>3, <1>4, <1>5 DEF Visits

(* The breadth-first order visits the deep nodes last. *)
LEMMA BfsOrderIs == BfsOrder \in Seq(Node) /\ Ascending(BfsOrder) /\ \A u \in Node : Named(BfsOrder, u)
<1> DEFINE seqs == [d \in 1 .. MaxDepth + 1 |-> buildLevels[d - 1]]
           n == MaxDepth + 1
           level == [d \in 1 .. n |-> d - 1]
<1>0. MaxDepth \in Nat
  BY MaxDepthBound
<1>1. \A d \in 1 .. n : level[d] \in 0 .. MaxDepth /\ level[d] = d - 1 /\ seqs[d] = buildLevels[level[d]]
  BY <1>0
<1>2. n \in Nat /\ n > 0 /\ n = MaxDepth + 1 /\ seqs = [d \in 1 .. n |-> seqs[d]]
  BY <1>0
<1> HIDE DEF seqs, n, level
<1>3. Len(seqs) = n
  BY <1>2, LenOf
<1>4. \A d \in 1 .. n : IsLevel(seqs[d], level[d])
  BY <1>1, Levels
<1>5. \A u \in Node : \E i \in 1 .. n : level[i] = Depth[u]
  <2> TAKE u \in Node
  <2>1. PICK i : i = Depth[u] + 1
    OBVIOUS
  <2>2. i \in 1 .. n /\ level[i] = Depth[u]
    <3>1. Depth[u] \in 0 .. MaxDepth
      BY <1>0, MaxDepthBound, DepthType
    <3>2. i \in 1 .. n /\ i - 1 = Depth[u]
      BY <1>0, <1>2, <2>1, <3>1
    <3> QED BY <1>1, <3>2
  <2> QED BY <2>2
<1>6. BfsOrder = FlattenSeq(seqs)
  BY DEF BfsOrder, seqs
<1>7. PICK flat : flat = BfsOrder
  OBVIOUS
<1>8. Visits(flat, n, level)
  <2>1. AllLevels(seqs, n, level)
    BY <1>2, <1>3, <1>4, <1>5 DEF AllLevels
  <2> QED BY <1>6, <1>7, <2>1, LevelsInOrder
<1>9. \A i, j \in 1 .. n : i <= j => level[i] <= level[j]
  BY <1>1, <1>2
<1>10. Ascending(flat)
  BY <1>8, <1>9 DEF Ascending, Visits
<1> QED BY <1>7, <1>8, <1>10 DEF Visits

-----------------------------------------------------------------------------
(* Counting.                                                               *)

(* The answers of u's subtree that use row i, and the answers of c's       *)
(* subtree that row i of c's parent joins.                                 *)
Using(db, u, i) == {f \in Matches(db, Subtree[u]) : f[u] = i}

Below(db, c, i) == {f \in Matches(db, Subtree[c]) : Joins(c, db[Parent[c]][i], db[c][f[c]])}

(* The rows of c that row i of its parent joins. *)
Partners(db, c, i) == {k \in 1 .. Len(db[c]) : Joins(c, db[Parent[c]][i], db[c][k])}

LEMMA UsingFinite ==
  ASSUME NEW db, Database(db), NEW u \in Node
  PROVE  \A i : IsFiniteSet(Using(db, u, i)) /\ IsFiniteSet(Below(db, u, i))
<1>1. IsFiniteSet(Matches(db, Subtree[u]))
  BY SubtreeFacts, MatchesFinite
<1> TAKE i
<1>2. Using(db, u, i) \in SUBSET Matches(db, Subtree[u]) /\ Below(db, u, i) \in SUBSET Matches(db, Subtree[u])
  BY DEF Using, Below
<1> QED BY <1>1, <1>2, FS_Subset

(* Where the subtrees of p's children lie. *)
LEMMA ChildSubtrees ==
  ASSUME NEW p \in Node
  PROVE  /\ \A j \in DOMAIN children(p) :
              LET c == children(p)[j]
              IN  /\ c \in Node /\ c \in NonRoot /\ Parent[c] = p /\ c \in Subtree[c]
                  /\ Subtree[c] \subseteq Subtree[p] /\ p \notin Subtree[c]
         /\ \A v \in Subtree[p] : v # p => \E j \in DOMAIN children(p) : v \in Subtree[children(p)[j]]
         /\ \A j, k \in DOMAIN children(p) : j # k =>
              Subtree[children(p)[j]] \cap Subtree[children(p)[k]] = {}
         /\ Parent[p] \notin Subtree[p]
<1>1. ASSUME NEW c \in ChildSet(p)
      PROVE  /\ c \in Node /\ c \in NonRoot /\ Parent[c] = p /\ c \in Subtree[c]
             /\ Subtree[c] \subseteq Subtree[p] /\ p \notin Subtree[c]
             /\ Depth[c] = 1 + Depth[p]
  <2>1. c \in Node /\ c \in NonRoot /\ Parent[c] = p /\ c \in Subtree[c]
    BY ChildFacts, SubtreeFacts DEF NonRoot
  <2>2. Depth[c] = 1 + Depth[p] /\ Depth[p] \in Int
    BY <2>1, ParentFacts, DepthType
  <2>3. Subtree[c] \subseteq Subtree[p]
    BY SubtreeOf
  <2>4. p \notin Subtree[c]
    <3> SUFFICES ASSUME p \in Subtree[c] PROVE FALSE
      OBVIOUS
    <3>1. p # c
      BY <2>2
    <3>2. Depth[p] > Depth[c]
      BY <3>1, <2>1, SubtreeFacts
    <3> QED BY <3>2, <2>2
  <2> QED BY <2>1, <2>2, <2>3, <2>4
<1>2. \A j \in DOMAIN children(p) : children(p)[j] \in ChildSet(p)
  BY ChildrenEnumerate
<1>3. ASSUME NEW v \in Subtree[p], v # p
      PROVE  \E j \in DOMAIN children(p) : v \in Subtree[children(p)[j]]
  <2>1. PICK c \in ChildSet(p) : v \in Subtree[c]
    BY <1>3, SubtreeOf
  <2>2. PICK j \in DOMAIN children(p) : children(p)[j] = c
    BY ChildrenEnumerate
  <2> QED BY <2>1, <2>2
<1>4. ASSUME NEW j \in DOMAIN children(p), NEW k \in DOMAIN children(p), j # k
      PROVE  Subtree[children(p)[j]] \cap Subtree[children(p)[k]] = {}
  <2>1. children(p)[j] # children(p)[k]
    BY <1>4, ChildrenEnumerate
  <2>2. /\ children(p)[j] \in Node /\ Depth[children(p)[j]] = 1 + Depth[p]
        /\ children(p)[k] \in Node /\ Depth[children(p)[k]] = 1 + Depth[p]
    BY <1>1, <1>2
  <2> QED BY <2>1, <2>2, SubtreesDisjoint
<1>5. Parent[p] \notin Subtree[p]
  <2>1. CASE p = Root
    <3>1. Parent[p] = NoParent /\ NoParent \notin Node
      BY <2>1, TreeAssumption DEF Node, NoParent
    <3> QED BY <3>1, SubtreeFacts
  <2>2. CASE p # Root
    <3>1. p \in NonRoot
      BY <2>2 DEF NonRoot
    <3>2. Depth[p] = 1 + Depth[Parent[p]] /\ Parent[p] \in Node
      BY <3>1, ParentFacts
    <3>3. Depth[Parent[p]] \in Int /\ Parent[p] # p
      BY <3>2, DepthType
    <3> SUFFICES ASSUME Parent[p] \in Subtree[p] PROVE FALSE
      OBVIOUS
    <3>4. Depth[Parent[p]] > Depth[p]
      BY <3>3, SubtreeFacts
    <3> QED BY <3>2, <3>3, <3>4
  <2> QED BY <2>1, <2>2
<1> QED BY <1>1, <1>2, <1>3, <1>4, <1>5

(* The answers over S that use row i of p.                                 *)
Through(db, S, p, i) == {f \in Matches(db, S) : f[p] = i}

(* Subtrees hang below p on one side of A. *)
Hanging(A, p, K) ==
  A \subseteq Node /\ p \in A /\ K \subseteq ChildSet(p) /\ \A c \in K : Subtree[c] \cap A = {}

Extended(A, K) == A \cup UNION {Subtree[c] : c \in K}

LEMMA HangingFacts ==
  ASSUME NEW A, NEW p, NEW K, Hanging(A, p, K)
  PROVE  /\ p \in Node
         /\ \A c \in K : /\ c \in Node /\ c \in NonRoot /\ Parent[c] = p /\ c \in Subtree[c]
                         /\ Subtree[c] \subseteq Node
                         /\ \A v \in Subtree[c] : v # c => Parent[v] \in Subtree[c]
                         /\ \A v \in A : Parent[v] \notin Subtree[c]
         /\ \A c, d \in K : c # d => Subtree[c] \cap Subtree[d] = {}
<1>1. p \in Node /\ \A c \in K : c \in Node /\ c \in NonRoot /\ Parent[c] = p
  BY ChildFacts DEF Hanging, NonRoot
<1>2. ASSUME NEW c \in K
      PROVE  /\ c \in Subtree[c] /\ Subtree[c] \subseteq Node
             /\ \A v \in Subtree[c] : v # c => Parent[v] \in Subtree[c]
  BY <1>1, SubtreeFacts
<1>3. ASSUME NEW c \in K, NEW v \in A, Parent[v] \in Subtree[c] PROVE FALSE
  <2>1. v \in Node /\ Parent[v] \in Node
    BY <1>2, <1>3 DEF Hanging
  <2>2. v \in ChildSet(Parent[v])
    BY <2>1 DEF ChildSet
  <2>3. v \in Subtree[c]
    BY <1>1, <1>3, <2>2, SubtreeFacts
  <2> QED BY <2>3 DEF Hanging
<1>4. ASSUME NEW c \in K, NEW d \in K, c # d PROVE Subtree[c] \cap Subtree[d] = {}
  <2>1. Depth[c] = Depth[d]
    BY <1>1, ParentFacts
  <2> QED BY <1>1, <1>4, <2>1, SubtreesDisjoint
<1> QED BY <1>1, <1>2, <1>3, <1>4

(* An answer that uses row i of p is an answer over A that uses it and a   *)
(* choice, for every subtree, of an answer that row i joins.               *)
LEMMA Decomposition ==
  ASSUME NEW db, Database(db), NEW A, NEW p, NEW K, Hanging(A, p, K),
         NEW S, S = Extended(A, K), NEW i,
         NEW F, \A c \in K : F[c] = Below(db, c, i)
  PROVE  Cardinality(Through(db, S, p, i)) = Cardinality(Through(db, A, p, i)) * Cardinality(Picks(F, K))
<1> DEFINE X == Through(db, S, p, i)
           Y == Through(db, A, p, i)
           Z == Picks(F, K)
           top == [f \in X |-> [v \in A |-> f[v]]]
           low == [f \in X |-> [c \in K |-> [v \in Subtree[c] |-> f[v]]]]
           h == [f \in X |-> <<top[f], low[f]>>]
<1>1. /\ p \in Node /\ p \in A /\ A \subseteq Node
      /\ \A c \in K : /\ c \in Node /\ c \in NonRoot /\ Parent[c] = p /\ c \in Subtree[c]
                      /\ Subtree[c] \subseteq Node
                      /\ \A v \in Subtree[c] : v # c => Parent[v] \in Subtree[c]
                      /\ \A v \in A : Parent[v] \notin Subtree[c]
      /\ \A c, d \in K : c # d => Subtree[c] \cap Subtree[d] = {}
      /\ \A c \in K : Subtree[c] \cap A = {}
  BY HangingFacts DEF Hanging
<1>2. S \subseteq Node /\ p \in S /\ A \subseteq S /\ \A c \in K : Subtree[c] \subseteq S
  BY <1>1 DEF Extended
<1>3. \A v \in S : v \in A \/ \E c \in K : v \in Subtree[c]
  BY DEF Extended
<1>4. ASSUME NEW f \in X
      PROVE  /\ f = [v \in S |-> f[v]] /\ f[p] = i
             /\ \A v \in S : f[v] \in 1 .. Len(db[v])
             /\ \A v \in S : Parent[v] \in S => Joins(v, db[Parent[v]][f[Parent[v]]], db[v][f[v]])
  <2>1. f \in Matches(db, S) /\ f[p] = i
    BY DEF Through
  <2> QED BY <2>1, <1>2, MatchesAre
<1>5. ASSUME NEW f \in X PROVE top[f] \in Y
  <2>1. \A v \in A : top[f][v] = f[v] /\ v \in S
    BY <1>2
  <2>2. top[f] = [v \in A |-> top[f][v]]
    OBVIOUS
  <2> HIDE DEF top
  <2>3. \A v \in A : top[f][v] \in 1 .. Len(db[v])
    BY <1>4, <2>1
  <2>4. \A v \in A : Parent[v] \in A =>
          Joins(v, db[Parent[v]][top[f][Parent[v]]], db[v][top[f][v]])
    BY <1>4, <2>1
  <2>5. top[f] \in Matches(db, A)
    BY <1>1, <2>2, <2>3, <2>4, MatchesAre
  <2>6. top[f][p] = i
    BY <1>1, <1>4, <2>1
  <2> QED BY <2>5, <2>6 DEF Through
<1>6. ASSUME NEW f \in X, NEW c \in K PROVE low[f][c] \in F[c]
  <2> DEFINE r == [v \in Subtree[c] |-> f[v]]
  <2>1. \A v \in Subtree[c] : r[v] = f[v] /\ v \in S
    BY <1>2
  <2>2. r = [v \in Subtree[c] |-> r[v]] /\ low[f][c] = r
    OBVIOUS
  <2> HIDE DEF r
  <2>3. \A v \in Subtree[c] : r[v] \in 1 .. Len(db[v])
    BY <1>4, <2>1
  <2>4. \A v \in Subtree[c] : Parent[v] \in Subtree[c] =>
          Joins(v, db[Parent[v]][r[Parent[v]]], db[v][r[v]])
    BY <1>4, <2>1
  <2>5. r \in Matches(db, Subtree[c])
    <3>1. PICK T : T = Subtree[c]
      OBVIOUS
    <3>2. T \subseteq Node /\ r = [v \in T |-> r[v]] /\ (\A v \in T : r[v] \in 1 .. Len(db[v]))
          /\ \A v \in T : Parent[v] \in T => Joins(v, db[Parent[v]][r[Parent[v]]], db[v][r[v]])
      BY <1>1, <2>2, <2>3, <2>4, <3>1
    <3>3. r \in Matches(db, T)
      BY <3>2, MatchesAre
    <3> QED BY <3>1, <3>3
  <2>6. Joins(c, db[Parent[c]][i], db[c][r[c]])
    <3>1. c \in S /\ Parent[c] \in S /\ Parent[c] = p /\ r[c] = f[c] /\ f[p] = i
      BY <1>1, <1>2, <1>4, <2>1
    <3> QED BY <3>1, <1>4
  <2>7. r \in Below(db, c, i)
    BY <2>5, <2>6 DEF Below
  <2> QED BY <2>2, <2>7
<1>7. ASSUME NEW f \in X PROVE low[f] \in Z
  <2>1. low[f] = [c \in K |-> low[f][c]]
    OBVIOUS
  <2>2. \A c \in K : low[f][c] \in F[c] /\ low[f][c] \in Together(F, K)
    BY <1>6 DEF Together
  <2> HIDE DEF low
  <2> QED BY <2>1, <2>2 DEF Picks
<1>8. ASSUME NEW f \in X, NEW g \in X, h[f] = h[g] PROVE f = g
  <2>1. top[f] = top[g] /\ low[f] = low[g]
    <3>1. h[f] = <<top[f], low[f]>> /\ h[g] = <<top[g], low[g]>>
      OBVIOUS
    <3> HIDE DEF h, top, low
    <3> QED BY <3>1, <1>8
  <2>2. ASSUME NEW v \in S PROVE f[v] = g[v]
    <3>1. CASE v \in A
      <4>1. top[f][v] = f[v] /\ top[g][v] = g[v]
        BY <3>1
      <4> HIDE DEF top
      <4> QED BY <4>1, <2>1
    <3>2. CASE v \notin A
      <4>1. PICK c \in K : v \in Subtree[c]
        BY <1>3, <3>2
      <4>2. low[f][c][v] = f[v] /\ low[g][c][v] = g[v]
        BY <4>1
      <4> HIDE DEF low
      <4> QED BY <4>2, <2>1
    <3> QED BY <3>1, <3>2
  <2>3. f = [v \in S |-> f[v]] /\ g = [v \in S |-> g[v]]
    BY <1>4
  <2> QED BY <2>2, <2>3
<1>9. ASSUME NEW t \in Y, NEW g \in Z PROVE \E f \in X : top[f] = t /\ low[f] = g
  <2> DEFINE At(v) == CHOOSE c \in K : v \in Subtree[c]
             f == [v \in S |-> IF v \in A THEN t[v] ELSE g[At(v)][v]]
  <2>1. \A c \in K : g[c] \in Below(db, c, i) /\ g = [d \in K |-> g[d]]
    BY DEF Picks
  <2>2. ASSUME NEW c \in K, NEW v \in Subtree[c] PROVE At(v) = c
    <3>1. At(v) \in K /\ v \in Subtree[At(v)]
      OBVIOUS
    <3> HIDE DEF At
    <3> QED BY <3>1, <1>1
  <2>3. \A v \in A : f[v] = t[v]
    BY <1>2
  <2>4. \A c \in K : \A v \in Subtree[c] : f[v] = g[c][v]
    BY <1>1, <1>2, <2>2
  <2>5. f = [v \in S |-> f[v]]
    OBVIOUS
  <2> HIDE DEF f, At
  <2>6. /\ t = [v \in A |-> t[v]] /\ t[p] = i
        /\ \A v \in A : t[v] \in 1 .. Len(db[v])
        /\ \A v \in A : Parent[v] \in A => Joins(v, db[Parent[v]][t[Parent[v]]], db[v][t[v]])
    <3>1. t \in Matches(db, A) /\ t[p] = i
      BY DEF Through
    <3> QED BY <3>1, <1>1, MatchesAre
  <2>7. ASSUME NEW c \in K
        PROVE  /\ g[c] = [v \in Subtree[c] |-> g[c][v]]
               /\ \A v \in Subtree[c] : g[c][v] \in 1 .. Len(db[v])
               /\ \A v \in Subtree[c] : Parent[v] \in Subtree[c] =>
                    Joins(v, db[Parent[v]][g[c][Parent[v]]], db[v][g[c][v]])
               /\ Joins(c, db[p][i], db[c][g[c][c]])
    <3>1. g[c] \in Matches(db, Subtree[c]) /\ Joins(c, db[p][i], db[c][g[c][c]])
      BY <2>1, <1>1 DEF Below
    <3> QED BY <3>1, <1>1, MatchesAre
  <2>8. f[p] = i
    BY <1>1, <2>3, <2>6
  <2>9. ASSUME NEW v \in S
        PROVE  /\ f[v] \in 1 .. Len(db[v])
               /\ Parent[v] \in S => Joins(v, db[Parent[v]][f[Parent[v]]], db[v][f[v]])
    <3>1. CASE v \in A
      <4>1. f[v] \in 1 .. Len(db[v])
        BY <3>1, <2>3, <2>6
      <4>2. Parent[v] \in S => Parent[v] \in A
        BY <1>1, <1>3, <3>1
      <4>3. Parent[v] \in A => Joins(v, db[Parent[v]][f[Parent[v]]], db[v][f[v]])
        BY <3>1, <2>3, <2>6
      <4> QED BY <4>1, <4>2, <4>3
    <3>2. CASE v \notin A
      <4>1. PICK c \in K : v \in Subtree[c]
        BY <1>3, <3>2
      <4>2. f[v] \in 1 .. Len(db[v]) /\ f[v] = g[c][v]
        BY <4>1, <2>4, <2>7
      <4>3. CASE v = c
        BY <4>2, <4>3, <2>7, <2>8, <1>1
      <4>4. CASE v # c
        <5>1. Parent[v] \in Subtree[c]
          BY <4>1, <4>4, <1>1
        <5>2. f[Parent[v]] = g[c][Parent[v]]
          BY <5>1, <2>4
        <5> QED BY <4>1, <4>2, <5>1, <5>2, <2>7
      <4> QED BY <4>2, <4>3, <4>4
    <3> QED BY <3>1, <3>2
  <2>10. f \in Matches(db, S)
    BY <1>2, <2>5, <2>9, MatchesAre
  <2>11. f \in X
    BY <2>8, <2>10 DEF Through
  <2>12. top[f] = t
    <3>1. top[f] = [v \in A |-> f[v]]
      BY <2>11
    <3> HIDE DEF top
    <3> QED BY <3>1, <2>3, <2>6
  <2>13. low[f] = g
    <3>1. low[f] = [c \in K |-> [v \in Subtree[c] |-> f[v]]]
      BY <2>11
    <3>2. \A c \in K : [v \in Subtree[c] |-> f[v]] = g[c]
      BY <2>4, <2>7
    <3>3. g = [c \in K |-> g[c]]
      BY DEF Picks
    <3> HIDE DEF low
    <3> QED BY <3>1, <3>2, <3>3
  <2> QED BY <2>11, <2>12, <2>13
<1>10. IsFiniteSet(X) /\ IsFiniteSet(Y)
  <2>1. IsFiniteSet(Matches(db, S)) /\ IsFiniteSet(Matches(db, A))
    BY <1>1, <1>2, MatchesFinite
  <2>2. X \in SUBSET Matches(db, S) /\ Y \in SUBSET Matches(db, A)
    BY DEF Through
  <2> QED BY <2>1, <2>2, FS_Subset
<1>11. IsFiniteSet(Z)
  <2> DEFINE w == [c \in K |-> Cardinality(F[c])]
  <2>1. K \subseteq Node
    BY <1>1
  <2>2. IsFiniteSet(K) /\ \A c \in K : IsFiniteSet(F[c])
    BY <1>1, <2>1, NodesFinite, UsingFinite
  <2>3. \A c \in K : w[c] = Cardinality(F[c])
    OBVIOUS
  <2> HIDE DEF w
  <2> QED BY <2>2, <2>3, ProductIsChoices
<1> HIDE DEF X, Y, Z, top, low
<1>12. h \in [X -> Y \X Z]
  BY <1>5, <1>7
<1>13. \A y \in Y \X Z : \E f \in X : h[f] = y
  <2> TAKE y \in Y \X Z
  <2>1. y[1] \in Y /\ y[2] \in Z /\ y = <<y[1], y[2]>>
    OBVIOUS
  <2>2. PICK f \in X : top[f] = y[1] /\ low[f] = y[2]
    BY <2>1, <1>9
  <2> QED BY <2>1, <2>2
<1>14. \A f, g \in X : h[f] = h[g] => f = g
  BY <1>8
<1> HIDE DEF h
<1>15. Cardinality(Y \X Z) = Cardinality(X)
  BY <1>10, <1>12, <1>13, <1>14, Correspondence
<1>16. Cardinality(Y \X Z) = Cardinality(Y) * Cardinality(Z)
  BY <1>10, <1>11, FS_Product
<1> QED BY <1>15, <1>16 DEF X, Y, Z

(* A single relation has one answer for each of its rows. *)
LEMMA AloneCount ==
  ASSUME NEW db, Database(db), NEW p \in Node, NEW i \in 1 .. Len(db[p])
  PROVE  Cardinality(Through(db, {p}, p, i)) = 1
<1> DEFINE e == [v \in {p} |-> i]
<1>1. Through(db, {p}, p, i) = {e}
  <2>1. Parent[p] # p
    <3>1. CASE p = Root
      BY <3>1, TreeAssumption DEF NoParent, Node
    <3>2. CASE p # Root
      <4>1. Depth[p] = 1 + Depth[Parent[p]] /\ Depth[p] \in Int
        BY <3>2, ParentFacts, DepthType DEF NonRoot
      <4> QED BY <4>1
    <3> QED BY <3>1, <3>2
  <2>2. ASSUME NEW f PROVE f \in Through(db, {p}, p, i) <=> f = e
    <3>1. PICK T : T = {p}
      OBVIOUS
    <3>2. f \in Matches(db, T) <=>
            /\ f = [u \in T |-> f[u]]
            /\ \A u \in T : f[u] \in 1 .. Len(db[u])
            /\ \A u \in T : Parent[u] \in T => Joins(u, db[Parent[u]][f[Parent[u]]], db[u][f[u]])
      BY <3>1, MatchesAre
    <3> QED BY <2>1, <3>1, <3>2 DEF Through
  <2> HIDE DEF e
  <2> QED BY <2>2
<1> HIDE DEF e
<1> QED BY <1>1, FS_Singleton

(* The answers of p's subtree that use row i: independent choices, for     *)
(* every child, of an answer of its subtree that row i joins.              *)
LEMMA SubtreeAnswers ==
  ASSUME NEW db, Database(db), NEW p \in Node, NEW i \in 1 .. Len(db[p]),
         NEW F, \A c \in ChildSet(p) : F[c] = Below(db, c, i)
  PROVE  Cardinality(Using(db, p, i)) = Cardinality(Picks(F, ChildSet(p)))
<1> DEFINE K == ChildSet(p)
<1>1. Hanging({p}, p, K)
  <2>1. ASSUME NEW c \in K PROVE p \notin Subtree[c]
    <3> SUFFICES ASSUME p \in Subtree[c] PROVE FALSE
      OBVIOUS
    <3>1. c \in Node /\ c \in NonRoot /\ Depth[c] = 1 + Depth[p] /\ Depth[p] \in Int
      BY ChildFacts, ParentFacts, DepthType DEF NonRoot
    <3>2. p # c
      BY <3>1
    <3>3. Depth[p] > Depth[c]
      BY <3>1, <3>2, SubtreeFacts
    <3> QED BY <3>1, <3>3
  <2> QED BY <2>1 DEF Hanging
<1>2. Subtree[p] = Extended({p}, K)
  BY SubtreeOf DEF Extended
<1>4. Cardinality(Through(db, {p}, p, i)) = 1
  BY AloneCount
<1>5. IsFiniteSet(Picks(F, K))
  <2> DEFINE w == [c \in K |-> Cardinality(F[c])]
  <2>1. K \subseteq Node
    BY DEF ChildSet
  <2>2. IsFiniteSet(K) /\ \A c \in K : IsFiniteSet(F[c])
    BY <2>1, NodesFinite, UsingFinite
  <2>3. \A c \in K : w[c] = Cardinality(F[c])
    OBVIOUS
  <2> HIDE DEF w
  <2> QED BY <2>2, <2>3, ProductIsChoices
<1>6. \A c \in K : F[c] = Below(db, c, i)
  OBVIOUS
<1> HIDE DEF K
<1>7. PICK S : S = Subtree[p]
  OBVIOUS
<1>8. PICK A : A = {p}
  OBVIOUS
<1>9. Cardinality(Through(db, S, p, i)) = Cardinality(Through(db, A, p, i)) * Cardinality(Picks(F, K))
  BY <1>1, <1>2, <1>6, <1>7, <1>8, Decomposition
<1>10. Cardinality(Picks(F, K)) \in Nat
  BY <1>5, FS_CardinalityType
<1>11. Cardinality(Through(db, S, p, i)) = Cardinality(Picks(F, K))
  BY <1>4, <1>8, <1>9, <1>10
<1> QED BY <1>7, <1>11 DEF Using, Through, K

(* Choices by the elements or by their places in a list. *)
LEMMA PicksReindexed ==
  ASSUME NEW S, NEW D, NEW e \in [D -> S], \A j, k \in D : e[j] = e[k] => j = k,
         \A x \in S : \E j \in D : e[j] = x,
         NEW F, IsFiniteSet(Picks(F, S)), NEW H, \A j \in D : H[j] = F[e[j]]
  PROVE  Cardinality(Picks(F, S)) = Cardinality(Picks(H, D))
<1> DEFINE X == Picks(F, S)
           Y == Picks(H, D)
           h == [g \in X |-> [j \in D |-> g[e[j]]]]
<1>1. ASSUME NEW g \in X PROVE h[g] \in Y
  <2>1. \A j \in D : h[g][j] = g[e[j]] /\ g[e[j]] \in F[e[j]]
    BY DEF Picks
  <2>2. h[g] = [j \in D |-> h[g][j]]
    OBVIOUS
  <2> HIDE DEF h
  <2>3. \A j \in D : h[g][j] \in H[j] /\ h[g][j] \in Together(H, D)
    BY <2>1 DEF Together
  <2> QED BY <2>2, <2>3 DEF Picks
<1>2. ASSUME NEW g \in X, NEW k \in X, h[g] = h[k] PROVE g = k
  <2>1. \A j \in D : h[g][j] = g[e[j]] /\ h[k][j] = k[e[j]]
    OBVIOUS
  <2> HIDE DEF h
  <2>2. \A x \in S : g[x] = k[x]
    BY <1>2, <2>1
  <2>3. g = [x \in S |-> g[x]] /\ k = [x \in S |-> k[x]]
    BY DEF Picks
  <2> QED BY <2>2, <2>3
<1>3. ASSUME NEW y \in Y PROVE \E g \in X : h[g] = y
  <2> DEFINE At(x) == CHOOSE j \in D : e[j] = x
             g == [x \in S |-> y[At(x)]]
  <2>1. \A x \in S : At(x) \in D /\ e[At(x)] = x
    OBVIOUS
  <2>2. \A j \in D : e[j] \in S /\ At(e[j]) = j
    BY <2>1
  <2>3. \A x \in S : g[x] = y[At(x)]
    OBVIOUS
  <2>4. g = [x \in S |-> g[x]]
    OBVIOUS
  <2> HIDE DEF g, At
  <2>5. \A x \in S : g[x] \in F[x] /\ g[x] \in Together(F, S)
    BY <2>1, <2>3 DEF Picks, Together
  <2>6. g \in X
    BY <2>4, <2>5 DEF Picks
  <2>7. h[g] = [j \in D |-> g[e[j]]]
    BY <2>6
  <2>8. y = [j \in D |-> y[j]]
    BY DEF Picks
  <2> HIDE DEF h
  <2>9. h[g] = y
    BY <2>2, <2>3, <2>7, <2>8
  <2> QED BY <2>6, <2>9
<1> HIDE DEF X, Y, h
<1>4. h \in [X -> Y]
  BY <1>1 DEF h
<1>5. IsFiniteSet(X)
  BY DEF X
<1>6. Cardinality(Y) = Cardinality(X)
  BY <1>2, <1>3, <1>4, <1>5, Correspondence
<1> QED BY <1>6 DEF X, Y

LEMMA AnswersAreChoices ==
  ASSUME NEW db, Database(db), NEW p \in Node, NEW i \in 1 .. Len(db[p]),
         NEW F, \A j \in DOMAIN children(p) : F[j] = Below(db, children(p)[j], i)
  PROVE  Cardinality(Using(db, p, i)) = Cardinality(Picks(F, DOMAIN children(p)))
<1> DEFINE H == [c \in ChildSet(p) |-> Below(db, c, i)]
           w == [c \in ChildSet(p) |-> Cardinality(H[c])]
<1>1. \A c \in ChildSet(p) : H[c] = Below(db, c, i) /\ w[c] = Cardinality(H[c])
  OBVIOUS
<1> HIDE DEF H, w
<1>2. Cardinality(Using(db, p, i)) = Cardinality(Picks(H, ChildSet(p)))
  BY <1>1, SubtreeAnswers
<1>3. ChildSet(p) \subseteq Node
  BY DEF ChildSet
<1>4. IsFiniteSet(ChildSet(p)) /\ \A c \in ChildSet(p) : IsFiniteSet(H[c])
  BY <1>1, <1>3, NodesFinite, UsingFinite
<1>5. IsFiniteSet(Picks(H, ChildSet(p)))
  BY <1>1, <1>4, ProductIsChoices
<1>6. /\ children(p) \in [DOMAIN children(p) -> ChildSet(p)]
      /\ \A k, j \in DOMAIN children(p) : children(p)[k] = children(p)[j] => k = j
      /\ \A c \in ChildSet(p) : \E k \in DOMAIN children(p) : children(p)[k] = c
  BY ChildrenEnumerate
<1>7. \A j \in DOMAIN children(p) : F[j] = H[children(p)[j]]
  BY <1>1, <1>6
<1>8. Cardinality(Picks(H, ChildSet(p))) = Cardinality(Picks(F, DOMAIN children(p)))
  <2>1. PICK e : e = children(p)
    OBVIOUS
  <2>2. PICK D : D = DOMAIN e
    OBVIOUS
  <2>3. /\ e \in [D -> ChildSet(p)] /\ (\A j, k \in D : e[j] = e[k] => j = k)
        /\ (\A c \in ChildSet(p) : \E j \in D : e[j] = c) /\ \A j \in D : F[j] = H[e[j]]
    BY <1>6, <1>7, <2>1, <2>2
  <2>4. Cardinality(Picks(H, ChildSet(p))) = Cardinality(Picks(F, D))
    BY <1>5, <2>3, PicksReindexed
  <2> QED BY <2>1, <2>2, <2>4
<1> QED BY <1>2, <1>8

(* A leaf has nothing below it: every row is its own only answer. *)
LEMMA LeafCount ==
  ASSUME NEW db, Database(db), NEW u \in Node, IsLeaf(u), NEW i \in 1 .. Len(db[u])
  PROVE  SubtreeCount(db, u, i) = 1
<1> DEFINE e == [x \in {} |-> x]
<1>1. DOMAIN children(u) = {}
  <2>1. ChildSet(u) = {} /\ Cardinality({}) = 0
    BY FS_EmptySet DEF IsLeaf
  <2>2. DOMAIN children(u) = 1 .. Cardinality(ChildSet(u))
    BY ChildrenEnumerate
  <2>3. 1 .. 0 = {}
    OBVIOUS
  <2> QED BY <2>1, <2>2, <2>3
<1>2. Cardinality(Using(db, u, i)) = Cardinality(Picks(e, {}))
  BY <1>1, AnswersAreChoices
<1>3. Picks(e, {}) = {e}
  BY DEF Picks
<1> HIDE DEF e
<1> QED BY <1>2, <1>3, FS_Singleton DEF SubtreeCount, Using

(* The answers of c's subtree that a row of its parent joins, row by row.  *)
LEMMA BelowIsUnion ==
  ASSUME NEW db, Database(db), NEW c \in NonRoot, NEW i, NEW K,
         K = Partners(db, c, i),
         NEW F, \A k \in K : F[k] = Using(db, c, k)
  PROVE  /\ IsFiniteSet(K)
         /\ \A k \in K : IsFiniteSet(F[k])
         /\ \A k, l \in K : k # l => F[k] \cap F[l] = {}
         /\ Together(F, K) = Below(db, c, i)
<1>1. c \in Node /\ c \in Subtree[c] /\ Subtree[c] \subseteq Node
  BY SubtreeFacts DEF NonRoot
<1>2. IsFiniteSet(K)
  <2>0. Len(db[c]) \in Int
    BY <1>1 DEF Database
  <2>1. IsFiniteSet(1 .. Len(db[c]))
    BY <2>0, FS_Interval
  <2>2. K \in SUBSET (1 .. Len(db[c]))
    BY DEF Partners
  <2> QED BY <2>1, <2>2, FS_Subset
<1>3. \A k \in K : IsFiniteSet(F[k])
  BY <1>1, UsingFinite
<1>4. \A k, l \in K : k # l => F[k] \cap F[l] = {}
  BY DEF Using
<1>5. ASSUME NEW f PROVE f \in Together(F, K) <=> f \in Below(db, c, i)
  <2>1. f \in Together(F, K) <=> f \in Matches(db, Subtree[c]) /\ f[c] \in K
    BY DEF Together, Using
  <2>2. f \in Matches(db, Subtree[c]) => f[c] \in 1 .. Len(db[c])
    BY <1>1, MatchesAre
  <2> QED BY <2>1, <2>2 DEF Below, Partners
<1> QED BY <1>2, <1>3, <1>4, <1>5

(* The sum that the specification writes. *)
LEMMA SumOfCounts ==
  ASSUME NEW db, Database(db), NEW c \in NonRoot, NEW i, NEW K,
         K = Partners(db, c, i)
  PROVE  MapThenSumSet(LAMBDA k : SubtreeCount(db, c, k), K) = Cardinality(Below(db, c, i))
<1> DEFINE F == [k \in K |-> Using(db, c, k)]
           w == [k \in K |-> Cardinality(F[k])]
           G(g) == [s \in SUBSET K |-> IF s = {} THEN 0
                     ELSE SubtreeCount(db, c, CHOOSE x \in s : TRUE) + g[s \ {CHOOSE x \in s : TRUE}]]
           sum == CHOOSE g : g = G(g)
<1>1. \A k \in K : F[k] = Using(db, c, k) /\ w[k] = Cardinality(F[k])
  OBVIOUS
<1>2. \A k \in K : w[k] = SubtreeCount(db, c, k)
  BY DEF SubtreeCount, Using
<1>3. MapThenSumSet(LAMBDA k : SubtreeCount(db, c, k), K) = sum[K]
  BY Zenon DEF MapThenSumSet, MapThenFoldSet
<1> HIDE DEF F, w
<1>4. /\ \E it : SumOf(it, w, K)
      /\ \A it : SumOf(it, w, K) => it[K] = Cardinality(Below(db, c, i))
  <2>1. /\ IsFiniteSet(K)
        /\ \A k \in K : IsFiniteSet(F[k])
        /\ \A k, l \in K : k # l => F[k] \cap F[l] = {}
        /\ Together(F, K) = Below(db, c, i)
    BY <1>1, BelowIsUnion
  <2>2. \A k \in K : w[k] = Cardinality(F[k])
    BY <1>1
  <2>3. \E it : SumOf(it, w, K)
    BY <2>1, <2>2, SumIsUnion
  <2>4. \A it : SumOf(it, w, K) => it[K] = Cardinality(Together(F, K))
    BY <2>1, <2>2, SumIsUnion
  <2> QED BY <2>1, <2>3, <2>4
<1>5. \A g : SumOf(g, w, K) <=> g = G(g)
  <2>1. \A s \in SUBSET K : s # {} => SubtreeCount(db, c, CHOOSE x \in s : TRUE) = w[CHOOSE x \in s : TRUE]
    BY <1>2
  <2>2. \A g : G(g) = [s \in SUBSET K |-> IF s = {} THEN 0
                         ELSE w[CHOOSE x \in s : TRUE] + g[s \ {CHOOSE x \in s : TRUE}]]
    BY <2>1
  <2> HIDE DEF G
  <2> QED BY <2>2 DEF SumOf
<1> HIDE DEF G
<1>6. sum = G(sum)
  BY <1>4, <1>5
<1> QED BY <1>3, <1>4, <1>5, <1>6

(* The sum that a semi-join computes from its child's table tc.            *)
SumAt(c, tc, K) == MapThenSumSet(LAMBDA j : Contribution(c, tc[j]), K)

(* It counts the union of disjoint sets of the sizes that are contributed. *)
LEMMA SumOfSizes ==
  ASSUME NEW c, NEW tc, NEW K, IsFiniteSet(K), NEW F, \A k \in K : IsFiniteSet(F[k]),
         \A k, l \in K : k # l => F[k] \cap F[l] = {},
         \A k \in K : Contribution(c, tc[k]) = Cardinality(F[k])
  PROVE  SumAt(c, tc, K) = Cardinality(Together(F, K)) /\ IsFiniteSet(Together(F, K))
<1> DEFINE w == [k \in K |-> Cardinality(F[k])]
           G(g) == [s \in SUBSET K |-> IF s = {} THEN 0
                     ELSE Contribution(c, tc[CHOOSE x \in s : TRUE]) + g[s \ {CHOOSE x \in s : TRUE}]]
           sum == CHOOSE g : g = G(g)
<1>1. \A k \in K : w[k] = Cardinality(F[k]) /\ w[k] = Contribution(c, tc[k])
  OBVIOUS
<1>3. SumAt(c, tc, K) = sum[K]
  BY Zenon DEF SumAt, MapThenSumSet, MapThenFoldSet
<1> HIDE DEF w
<1>4. /\ \E it : SumOf(it, w, K)
      /\ \A it : SumOf(it, w, K) => it[K] = Cardinality(Together(F, K))
      /\ IsFiniteSet(Together(F, K))
  BY <1>1, SumIsUnion
<1>5. \A g : SumOf(g, w, K) <=> g = G(g)
  <2>1. \A s \in SUBSET K : s # {} => Contribution(c, tc[CHOOSE x \in s : TRUE]) = w[CHOOSE x \in s : TRUE]
    BY <1>1
  <2>2. \A g : G(g) = [s \in SUBSET K |-> IF s = {} THEN 0
                         ELSE w[CHOOSE x \in s : TRUE] + g[s \ {CHOOSE x \in s : TRUE}]]
    BY <2>1
  <2> HIDE DEF G
  <2> QED BY <2>2 DEF SumOf
<1> HIDE DEF G
<1>6. sum = G(sum)
  BY <1>4, <1>5
<1> QED BY <1>3, <1>4, <1>5, <1>6

LEMMA SumOfContributions ==
  ASSUME NEW db, Database(db), NEW c \in NonRoot, NEW i, NEW K,
         K = Partners(db, c, i),
         NEW tc, \A k \in K : Contribution(c, tc[k]) = SubtreeCount(db, c, k)
  PROVE  SumAt(c, tc, K) = Cardinality(Below(db, c, i))
<1>1. PICK F : F = [k \in K |-> Using(db, c, k)]
  OBVIOUS
<1>2. \A k \in K : F[k] = Using(db, c, k) /\ Contribution(c, tc[k]) = Cardinality(F[k])
  BY <1>1 DEF SubtreeCount, Using
<1>3. /\ IsFiniteSet(K)
      /\ \A k \in K : IsFiniteSet(F[k])
      /\ \A k, l \in K : k # l => F[k] \cap F[l] = {}
      /\ Together(F, K) = Below(db, c, i)
  BY <1>2, BelowIsUnion
<1> QED BY <1>2, <1>3, SumOfSizes

(* The product of a row's values. *)
LEMMA ProductOfValues ==
  ASSUME NEW us, IsFiniteSet(DOMAIN us),
         NEW F, \A j \in DOMAIN us : IsFiniteSet(F[j]) /\ us[j] = Cardinality(F[j])
  PROVE  FoldSeq(LAMBDA x, y : x * y, 1, us) = Cardinality(Picks(F, DOMAIN us))
<1> DEFINE S == DOMAIN us
           prod == CHOOSE g : g = [s \in SUBSET S |-> IF s = {} THEN 1
                     ELSE us[CHOOSE x \in s : TRUE] * g[s \ {CHOOSE x \in s : TRUE}]]
<1>1. FoldSeq(LAMBDA x, y : x * y, 1, us) = prod[S]
  BY DEF FoldSeq, FoldFunction, FoldFunctionOnSet, MapThenFoldSet
<1>2. /\ \E it : ProductOf(it, us, S)
      /\ \A it : ProductOf(it, us, S) => it[S] = Cardinality(Picks(F, S))
  BY ProductIsChoices
<1>3. ProductOf(prod, us, S)
  BY <1>2 DEF ProductOf
<1> QED BY <1>1, <1>2, <1>3

(* How a single pass of semi-joins counts: the number of answers of p's    *)
(* subtree that use row i is the product over p's children of the sums,    *)
(* over the child rows that row i joins, of what is counted below those.   *)
THEOREM CountsMultiply ==
  ASSUME NEW db, Database(db), NEW p \in Node, NEW i \in 1 .. Len(db[p]), NEW us,
         us = [j \in DOMAIN children(p) |->
                 LET c == children(p)[j]
                 IN  MapThenSumSet(LAMBDA k : SubtreeCount(db, c, k),
                                   {k \in 1 .. Len(db[c]) : Joins(c, db[p][i], db[c][k])})]
  PROVE  SubtreeCount(db, p, i) = FoldSeq(LAMBDA x, y : x * y, 1, us)
<1> DEFINE D == DOMAIN children(p)
           F == [j \in D |-> Below(db, children(p)[j], i)]
<1>1. \A j \in D : /\ children(p)[j] \in Node /\ children(p)[j] \in NonRoot
                   /\ Parent[children(p)[j]] = p
  BY ChildSubtrees
<1>2. ASSUME NEW j \in D PROVE us[j] = Cardinality(F[j]) /\ IsFiniteSet(F[j])
  <2> DEFINE c == children(p)[j]
             K == {k \in 1 .. Len(db[c]) : Joins(c, db[p][i], db[c][k])}
  <2>1. c \in NonRoot /\ K = Partners(db, c, i)
    BY <1>1 DEF Partners
  <2>2. us[j] = MapThenSumSet(LAMBDA k : SubtreeCount(db, c, k), K)
    BY Zenon
  <2> HIDE DEF K
  <2>3. us[j] = Cardinality(Below(db, c, i))
    BY <2>1, <2>2, SumOfCounts
  <2> QED BY <2>3, <1>1, UsingFinite
<1>3. DOMAIN us = D
  OBVIOUS
<1>4. IsFiniteSet(D)
  <2>1. Cardinality(ChildSet(p)) \in Nat
    BY NodesFinite DEF ChildSet
  <2> QED BY <2>1, ChildrenEnumerate, FS_Interval
<1>5. \A j \in D : F[j] = Below(db, children(p)[j], i)
  OBVIOUS
<1> HIDE DEF F
<1>6. FoldSeq(LAMBDA x, y : x * y, 1, us) = Cardinality(Picks(F, D))
  BY <1>2, <1>3, <1>4, ProductOfValues
<1>7. Cardinality(Using(db, p, i)) = Cardinality(Picks(F, D))
  BY <1>5, AnswersAreChoices
<1> QED BY <1>6, <1>7 DEF SubtreeCount, Using

-----------------------------------------------------------------------------
(* The root's subtree is the tree, and its rows share out all answers.     *)
LEMMA RootSubtree == Subtree[Root] = Node
<1> DEFINE X == {k \in Nat : \E v \in Node : v \notin Subtree[Root] /\ k = Depth[v]}
<1>1. Root \in Node
  BY TreeAssumption
<1>2. ASSUME NEW w \in Node, w \notin Subtree[Root] PROVE FALSE
  <2>1. X \subseteq Nat /\ X # {}
    BY <1>2, DepthType
  <2>2. PICK k \in X : \A l \in X : k <= l
    <3> HIDE DEF X
    <3> QED BY <2>1, LeastOfNats
  <2>3. PICK v \in Node : v \notin Subtree[Root] /\ k = Depth[v]
    OBVIOUS
  <2>4. v \in NonRoot
    BY <2>3, <1>1, SubtreeFacts DEF NonRoot
  <2>5. Parent[v] \in Node /\ Depth[v] = 1 + Depth[Parent[v]] /\ Depth[Parent[v]] \in Nat /\ v \in ChildSet(Parent[v])
    BY <2>4, ParentFacts, DepthType
  <2>6. Parent[v] \in Subtree[Root]
    <3>1. ~(k <= Depth[Parent[v]])
      BY <2>3, <2>5
    <3>2. Depth[Parent[v]] \notin X
      <4> HIDE DEF X
      <4> QED BY <3>1, <2>2
    <3> QED BY <3>2, <2>5
  <2>7. v \in Subtree[Root]
    BY <1>1, <2>5, <2>6, SubtreeFacts
  <2> QED BY <2>3, <2>7
<1> QED BY <1>1, <1>2, SubtreeFacts
=============================================================================
