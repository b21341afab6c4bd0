--------------------------- MODULE OutputSizeProofs ---------------------------
(***************************************************************************)
(* The two passes over the tree compute what they are meant to, for every  *)
(* tree, database and width, as long as the sums of the semi-joins fit an  *)
(* int:                                                                    *)
(*                                                                         *)
(*   ExactWhileNarrowTheorem  the size computed before the join is the     *)
(*                            size of the join, cut at LLONG_MAX;          *)
(*   SensitivityExactTheorem  the sensitivity computed next to it is the   *)
(*                            number of answers that the busiest row of    *)
(*                            any relation takes part in;                  *)
(*   CoversAnswerTheorem      the padded size is not below the answer.     *)
(*                                                                         *)
(* The argument: a saturating sum or product of cut counts is the cut sum  *)
(* or product (SatSumIsUnion, SatProductIsPicks), so that the folds of the *)
(* passes are the cardinalities of unions and sets of choices.  The orders *)
(* of the passes put all children before, or all parents before, a node    *)
(* (UpOrderIs, BfsOrderIs), which makes the counts of the visited nodes    *)
(* exact one visit at a time (CountNodeKeeps, CompleteNodeKeeps).          *)
(***************************************************************************)
EXTENDS OutputSize, JoinTreeProofs

(* A count, cut at the end of a long long. *)
Cap(x) == IF x > MaxLong THEN MaxLong ELSE x

(* Products grow with their factors. *)
LEMMA ProductGrows ==
  ASSUME NEW a \in Nat, NEW b \in Nat, NEW c \in Nat, NEW d \in Nat, a <= c, b <= d
  PROVE  a * b \in Nat /\ a * b <= c * d
<1>1. a * b <= c * b
  OBVIOUS
<1>2. c * b <= c * d
  OBVIOUS
<1>3. a * b \in Nat /\ c * b \in Nat /\ c * d \in Nat
  OBVIOUS
<1> QED BY <1>1, <1>2, <1>3

(* What satMul's division tests. *)
LEMMA Quotient ==
  ASSUME NEW a \in Nat, NEW b \in Nat, b > 0
  PROVE  a > MaxLong \div b <=> a * b > MaxLong
<1>1. MaxLong \in Nat
  BY WidthAssumption
<1>2. PICK q \in Nat : q = MaxLong \div b
  BY <1>1
<1>3. PICK r \in 0 .. b - 1 : MaxLong = b * q + r
  BY <1>1, <1>2
<1>4. CASE a > q
  <2>1. (q + 1) * b <= a * b
    BY <1>4, ProductGrows
  <2>2. (q + 1) * b = b * q + b
    OBVIOUS
  <2>3. a * b \in Nat /\ b * q \in Nat
    OBVIOUS
  <2> QED BY <1>2, <1>3, <1>4, <2>1, <2>2, <2>3
<1>5. CASE a <= q
  <2>1. a * b <= q * b
    BY <1>5, ProductGrows
  <2>2. a * b \in Nat /\ b * q \in Nat /\ q * b = b * q
    OBVIOUS
  <2> QED BY <1>2, <1>3, <1>5, <2>1, <2>2
<1> QED BY <1>4, <1>5

(* Cut factors give the cut product, and cut terms the cut sum. *)
LEMMA SatMulIs ==
  ASSUME NEW x \in Nat, NEW y \in Nat
  PROVE  satMul(Cap(x), Cap(y)) = Cap(x * y)
<1>1. MaxLong \in Nat /\ MaxLong > 0
  BY WidthAssumption
<1>2. PICK a : a = Cap(x)
  OBVIOUS
<1>3. PICK b : b = Cap(y)
  OBVIOUS
<1>4. a \in Nat /\ b \in Nat /\ a <= x /\ b <= y /\ a <= MaxLong /\ b <= MaxLong
      /\ (a = x \/ (a = MaxLong /\ x > MaxLong)) /\ (b = y \/ (b = MaxLong /\ y > MaxLong))
  BY <1>1, <1>2, <1>3 DEF Cap
<1>5. x * y \in Nat /\ a * b \in Nat /\ a * b <= x * y
  BY <1>4, ProductGrows
<1>6. CASE a = 0 \/ b = 0
  <2>1. x = 0 \/ y = 0
    BY <1>1, <1>4, <1>6
  <2>2. x * y = 0
    BY <2>1
  <2> QED BY <1>1, <1>2, <1>3, <1>4, <1>6, <2>2 DEF satMul, Cap
<1>7. CASE a > 0 /\ b > 0
  <2>1. satMul(a, b) = IF a * b > MaxLong THEN MaxLong ELSE a * b
    <3>1. a > MaxLong \div b <=> a * b > MaxLong
      BY <1>4, <1>7, Quotient
    <3>2. ~(a <= 0 \/ b <= 0)
      BY <1>4, <1>7
    <3>3. satMul(a, b) = IF a > MaxLong \div b THEN MaxLong ELSE a * b
      BY <3>2 DEF satMul
    <3>4. CASE a > MaxLong \div b
      BY <3>1, <3>3, <3>4
    <3>5. CASE ~(a > MaxLong \div b)
      BY <3>1, <3>3, <3>5
    <3> QED BY <3>4, <3>5
  <2>2. CASE a = x /\ b = y
    BY <1>2, <1>3, <2>1, <2>2 DEF Cap
  <2>3. CASE (a = MaxLong /\ x > MaxLong) \/ (b = MaxLong /\ y > MaxLong)
    <3>1. a * b >= MaxLong /\ x * y > MaxLong
      <4>1. CASE a = MaxLong /\ x > MaxLong
        <5>1. MaxLong * 1 <= a * b /\ x * 1 <= x * y
          BY <1>1, <1>4, <1>7, <4>1, ProductGrows
        <5>2. MaxLong * 1 = MaxLong /\ x * 1 = x
          BY <1>1
        <5> QED BY <1>1, <1>5, <4>1, <5>1, <5>2
      <4>2. CASE b = MaxLong /\ y > MaxLong
        <5>1. 1 * MaxLong <= a * b /\ 1 * y <= x * y
          BY <1>1, <1>4, <1>7, <4>2, ProductGrows
        <5>2. 1 * MaxLong = MaxLong /\ 1 * y = y
          BY <1>1
        <5> QED BY <1>1, <1>5, <4>2, <5>1, <5>2
      <4> QED BY <2>3, <4>1, <4>2
    <3> QED BY <1>1, <1>2, <1>3, <1>5, <2>1, <3>1 DEF Cap
  <2> QED BY <1>4, <2>2, <2>3
<1> QED BY <1>4, <1>6, <1>7

(* A factor may be cut before or not. *)
LEMMA SatMulUncut ==
  ASSUME NEW x \in Nat, NEW y \in Nat
  PROVE  satMul(Cap(x), y) = Cap(x * y)
<1>1. MaxLong \in Nat /\ MaxLong > 0
  BY WidthAssumption
<1>2. CASE y <= MaxLong
  <2>1. Cap(y) = y
    BY <1>1, <1>2 DEF Cap
  <2> QED BY <2>1, SatMulIs
<1>3. CASE y > MaxLong
  <2>1. PICK a : a = Cap(x)
    OBVIOUS
  <2>2. a \in Nat /\ (a = 0 <=> x = 0)
    BY <1>1, <2>1 DEF Cap
  <2>3. CASE x = 0
    <3>1. x * y = 0
      BY <2>3
    <3> QED BY <1>1, <2>1, <2>2, <2>3, <3>1 DEF satMul, Cap
  <2>4. CASE x > 0
    <3>1. 1 * y <= a * y /\ a * y \in Nat /\ 1 * y <= x * y /\ x * y \in Nat
      BY <2>2, <2>4, ProductGrows
    <3>2. a * y > MaxLong /\ x * y > MaxLong
      <4>1. 1 * y = y
        OBVIOUS
      <4> QED BY <1>1, <1>3, <3>1, <4>1
    <3>3. a > MaxLong \div y
      BY <1>1, <1>3, <2>2, <3>2, Quotient
    <3>4. satMul(a, y) = MaxLong
      BY <1>1, <1>3, <2>2, <2>4, <3>3 DEF satMul
    <3> QED BY <2>1, <3>2, <3>4 DEF Cap
  <2> QED BY <2>3, <2>4
<1> QED BY <1>1, <1>2, <1>3

LEMMA SatAddIs ==
  ASSUME NEW x \in Nat, NEW y \in Nat
  PROVE  satAdd(Cap(x), Cap(y)) = Cap(x + y)
BY WidthAssumption DEF satAdd, Cap

(* The properties write the cut with Min. *)
LEMMA MinIsCap ==
  ASSUME NEW x \in Nat
  PROVE  Min({MaxLong, x}) = Cap(x) /\ Cap(x) \in Nat /\ Cap(x) <= x
<1>1. MaxLong \in Nat
  BY WidthAssumption
<1>2. \A m \in {MaxLong, x} : (\A y \in {MaxLong, x} : m <= y) <=> m = Cap(x)
  BY <1>1 DEF Cap
<1>3. Cap(x) \in {MaxLong, x}
  BY DEF Cap
<1>4. Min({MaxLong, x}) = Cap(x)
  BY <1>2, <1>3 DEF Min
<1> QED BY <1>1, <1>4 DEF Cap

-----------------------------------------------------------------------------
(* Saturating sums and products are the true ones, cut at MaxLong.         *)
SatSumOf(it, w, S) ==
  it = [s \in SUBSET S |->
          IF s = {} THEN 0 ELSE satAdd(it[s \ {CHOOSE x \in s : TRUE}], w[CHOOSE x \in s : TRUE])]

SatProductOf(it, w, S) ==
  it = [s \in SUBSET S |->
          IF s = {} THEN 1 ELSE satMul(it[s \ {CHOOSE x \in s : TRUE}], w[CHOOSE x \in s : TRUE])]

LEMMA SatSumIsUnion ==
  ASSUME NEW S, IsFiniteSet(S), NEW F, \A x \in S : IsFiniteSet(F[x]),
         \A x, y \in S : x # y => F[x] \cap F[y] = {},
         NEW w, \A x \in S : w[x] = Cap(Cardinality(F[x]))
  PROVE  /\ \E it : SatSumOf(it, w, S)
         /\ \A it : SatSumOf(it, w, S) => it[S] = Cap(Cardinality(Together(F, S)))
<1>1. Cardinality(Together(F, {})) = 0 /\ Cap(0) = 0
  BY FS_EmptySet, WidthAssumption DEF Together, Cap
<1>2. ASSUME NEW s \in SUBSET S
      PROVE  IsFiniteSet(Together(F, s)) /\ Cardinality(Together(F, s)) \in Nat
  <2> DEFINE v == [x \in s |-> Cardinality(F[x])]
  <2>1. IsFiniteSet(s) /\ \A x \in s : v[x] = Cardinality(F[x])
    BY FS_Subset
  <2> HIDE DEF v
  <2>2. (\A x \in s : IsFiniteSet(F[x])) /\ \A x, y \in s : x # y => F[x] \cap F[y] = {}
    OBVIOUS
  <2>3. IsFiniteSet(Together(F, s))
    BY <2>1, <2>2, SumIsUnion
  <2> QED BY <2>3, FS_CardinalityType
<1>3. ASSUME NEW s \in SUBSET S, NEW y \in s
      PROVE  Cap(Cardinality(Together(F, s))) = satAdd(Cap(Cardinality(Together(F, s \ {y}))), w[y])
  <2>1. /\ IsFiniteSet(Together(F, s \ {y})) /\ Cardinality(Together(F, s \ {y})) \in Nat
        /\ IsFiniteSet(F[y]) /\ Cardinality(F[y]) \in Nat
    BY <1>2, FS_CardinalityType
  <2>2. \A z \in s : y # z => F[y] \cap F[z] = {}
    OBVIOUS
  <2>3. Cardinality(Together(F, s)) = Cardinality(F[y]) + Cardinality(Together(F, s \ {y}))
    BY <2>1, <2>2, TogetherStep
  <2>4. satAdd(Cap(Cardinality(Together(F, s \ {y}))), Cap(Cardinality(F[y])))
          = Cap(Cardinality(Together(F, s \ {y})) + Cardinality(F[y]))
    BY <2>1, SatAddIs
  <2>5. Cardinality(Together(F, s \ {y})) + Cardinality(F[y]) = Cardinality(Together(F, s))
    BY <2>1, <2>3
  <2> QED BY <2>4, <2>5
<1>4. \E it : SatSumOf(it, w, S)
  <2> DEFINE it == [s \in SUBSET S |-> Cap(Cardinality(Together(F, s)))]
  <2>1. \A s \in SUBSET S : s # {} =>
          it[s] = satAdd(it[s \ {CHOOSE x \in s : TRUE}], w[CHOOSE x \in s : TRUE])
    BY <1>3
  <2>2. it[{}] = 0
    BY <1>1
  <2>3. it = [s \in SUBSET S |-> it[s]]
    OBVIOUS
  <2> HIDE DEF it
  <2>4. SatSumOf(it, w, S)
    BY <2>1, <2>2, <2>3 DEF SatSumOf
  <2> QED BY <2>4
<1>5. ASSUME NEW it, SatSumOf(it, w, S) PROVE it[S] = Cap(Cardinality(Together(F, S)))
  <2> DEFINE H == {s \in SUBSET S : it[s] = Cap(Cardinality(Together(F, s)))}
  <2>0. \A s \in SUBSET S : it[s] = IF s = {} THEN 0
          ELSE satAdd(it[s \ {CHOOSE x \in s : TRUE}], w[CHOOSE x \in s : TRUE])
    BY <1>5 DEF SatSumOf
  <2>1. {} \in H
    BY <2>0, <1>1
  <2>2. ASSUME NEW s \in SUBSET S, s # {}, \A x \in s : s \ {x} \in H PROVE s \in H
    <3> DEFINE x == CHOOSE x \in s : TRUE
    <3>1. x \in s
      BY <2>2
    <3>2. it[s] = satAdd(it[s \ {x}], w[x])
      BY <2>0, <2>2
    <3> HIDE DEF x
    <3>3. it[s \ {x}] = Cap(Cardinality(Together(F, s \ {x})))
      BY <3>1, <2>2
    <3>4. Cap(Cardinality(Together(F, s))) = satAdd(Cap(Cardinality(Together(F, s \ {x}))), w[x])
      BY <1>3, <3>1
    <3> QED BY <3>2, <3>3, <3>4
  <2> HIDE DEF H
  <2>3. SUBSET S \subseteq H
    BY <2>1, <2>2, SubsetInduction
  <2> QED BY <2>3 DEF H
<1> QED BY <1>4, <1>5

LEMMA SatProductIsPicks ==
  ASSUME NEW S, IsFiniteSet(S), NEW F, \A x \in S : IsFiniteSet(F[x]),
         NEW w, \A x \in S : w[x] = Cardinality(F[x]) \/ w[x] = Cap(Cardinality(F[x]))
  PROVE  /\ \E it : SatProductOf(it, w, S)
         /\ \A it : SatProductOf(it, w, S) => it[S] = Cap(Cardinality(Picks(F, S)))
<1>1. Cardinality(Picks(F, {})) = 1 /\ Cap(1) = 1
  <2> DEFINE e == [x \in {} |-> x]
  <2>1. Picks(F, {}) = {e}
    BY DEF Picks
  <2> HIDE DEF e
  <2>2. Cap(1) = 1
    BY WidthAssumption DEF Cap
  <2> QED BY <2>1, <2>2, FS_Singleton
<1>2. ASSUME NEW s \in SUBSET S
      PROVE  IsFiniteSet(Picks(F, s)) /\ Cardinality(Picks(F, s)) \in Nat
  <2> DEFINE v == [x \in s |-> Cardinality(F[x])]
  <2>1. IsFiniteSet(s) /\ \A x \in s : v[x] = Cardinality(F[x])
    BY FS_Subset
  <2> HIDE DEF v
  <2>2. \A x \in s : IsFiniteSet(F[x])
    OBVIOUS
  <2>3. IsFiniteSet(Picks(F, s))
    BY <2>1, <2>2, ProductIsChoices
  <2> QED BY <2>3, FS_CardinalityType
<1>3. ASSUME NEW s \in SUBSET S, NEW y \in s
      PROVE  Cap(Cardinality(Picks(F, s))) = satMul(Cap(Cardinality(Picks(F, s \ {y}))), w[y])
  <2>1. /\ IsFiniteSet(Picks(F, s \ {y})) /\ Cardinality(Picks(F, s \ {y})) \in Nat
        /\ IsFiniteSet(F[y]) /\ Cardinality(F[y]) \in Nat
    BY <1>2, FS_CardinalityType
  <2>3. Cardinality(Picks(F, s)) = Cardinality(F[y]) * Cardinality(Picks(F, s \ {y}))
    BY <2>1, ChoicesStep
  <2>4. /\ satMul(Cap(Cardinality(Picks(F, s \ {y}))), Cap(Cardinality(F[y])))
             = Cap(Cardinality(Picks(F, s \ {y})) * Cardinality(F[y]))
        /\ satMul(Cap(Cardinality(Picks(F, s \ {y}))), Cardinality(F[y]))
             = Cap(Cardinality(Picks(F, s \ {y})) * Cardinality(F[y]))
    BY <2>1, SatMulIs, SatMulUncut
  <2>5. Cardinality(Picks(F, s \ {y})) * Cardinality(F[y]) = Cardinality(Picks(F, s))
    BY <2>1, <2>3
  <2> QED BY <2>4, <2>5
<1>4. \E it : SatProductOf(it, w, S)
  <2> DEFINE it == [s \in SUBSET S |-> Cap(Cardinality(Picks(F, s)))]
  <2>1. \A s \in SUBSET S : s # {} =>
          it[s] = satMul(it[s \ {CHOOSE x \in s : TRUE}], w[CHOOSE x \in s : TRUE])
    BY <1>3
  <2>2. it[{}] = 1
    BY <1>1
  <2>3. it = [s \in SUBSET S |-> it[s]]
    OBVIOUS
  <2> HIDE DEF it
  <2>4. SatProductOf(it, w, S)
    BY <2>1, <2>2, <2>3 DEF SatProductOf
  <2> QED BY <2>4
<1>5. ASSUME NEW it, SatProductOf(it, w, S) PROVE it[S] = Cap(Cardinality(Picks(F, S)))
  <2> DEFINE H == {s \in SUBSET S : it[s] = Cap(Cardinality(Picks(F, s)))}
  <2>0. \A s \in SUBSET S : it[s] = IF s = {} THEN 1
          ELSE satMul(it[s \ {CHOOSE x \in s : TRUE}], w[CHOOSE x \in s : TRUE])
    BY <1>5 DEF SatProductOf
  <2>1. {} \in H
    BY <2>0, <1>1
  <2>2. ASSUME NEW s \in SUBSET S, s # {}, \A x \in s : s \ {x} \in H PROVE s \in H
    <3> DEFINE x == CHOOSE x \in s : TRUE
    <3>1. x \in s
      BY <2>2
    <3>2. it[s] = satMul(it[s \ {x}], w[x])
      BY <2>0, <2>2
    <3> HIDE DEF x
    <3>3. it[s \ {x}] = Cap(Cardinality(Picks(F, s \ {x})))
      BY <3>1, <2>2
    <3>4. Cap(Cardinality(Picks(F, s))) = satMul(Cap(Cardinality(Picks(F, s \ {x}))), w[x])
      BY <1>3, <3>1
    <3> QED BY <3>2, <3>3, <3>4
  <2> HIDE DEF H
  <2>3. SUBSET S \subseteq H
    BY <2>1, <2>2, SubsetInduction
  <2> QED BY <2>3 DEF H
<1> QED BY <1>4, <1>5

(* The folds as the specification writes them. *)
SumOver(f, S) == SatSum(S, LAMBDA i : f[i])

ProductOver(f, i, S) == SatProduct(S, LAMBDA c : f[c][i])

LEMMA SumOverIs ==
  ASSUME NEW S, IsFiniteSet(S), NEW F, \A x \in S : IsFiniteSet(F[x]),
         \A x, y \in S : x # y => F[x] \cap F[y] = {},
         NEW f, \A x \in S : f[x] = Cap(Cardinality(F[x]))
  PROVE  SumOver(f, S) = Cap(Cardinality(Together(F, S)))
<1> DEFINE sum == CHOOSE g : g = [s \in SUBSET S |-> IF s = {} THEN 0
                    ELSE satAdd(g[s \ {CHOOSE x \in s : TRUE}], f[CHOOSE x \in s : TRUE])]
<1>1. SumOver(f, S) = sum[S]
  BY Zenon DEF SumOver, SatSum, FoldSet, MapThenFoldSet
<1>2. /\ \E it : SatSumOf(it, f, S)
      /\ \A it : SatSumOf(it, f, S) => it[S] = Cap(Cardinality(Together(F, S)))
  BY SatSumIsUnion
<1>3. SatSumOf(sum, f, S)
  BY <1>2 DEF SatSumOf
<1> QED BY <1>1, <1>2, <1>3

LEMMA ProductOverIs ==
  ASSUME NEW S, IsFiniteSet(S), NEW F, \A x \in S : IsFiniteSet(F[x]),
         NEW i, NEW f, \A x \in S : f[x][i] = Cap(Cardinality(F[x]))
  PROVE  ProductOver(f, i, S) = Cap(Cardinality(Picks(F, S)))
<1> DEFINE w == [x \in S |-> f[x][i]]
           G(g) == [s \in SUBSET S |-> IF s = {} THEN 1
                    ELSE satMul(g[s \ {CHOOSE x \in s : TRUE}], f[CHOOSE x \in s : TRUE][i])]
           prod == CHOOSE g : g = G(g)
<1>1. ProductOver(f, i, S) = prod[S]
  BY Zenon DEF ProductOver, SatProduct, FoldSet, MapThenFoldSet
<1>2. \A x \in S : w[x] = f[x][i] /\ w[x] = Cap(Cardinality(F[x]))
  OBVIOUS
<1> HIDE DEF w
<1>3. /\ \E it : SatProductOf(it, w, S)
      /\ \A it : SatProductOf(it, w, S) => it[S] = Cap(Cardinality(Picks(F, S)))
  BY <1>2, SatProductIsPicks
<1>4. \A g : SatProductOf(g, w, S) <=> g = G(g)
  <2>1. \A s \in SUBSET S : s # {} => f[CHOOSE x \in s : TRUE][i] = w[CHOOSE x \in s : TRUE]
    BY <1>2
  <2>2. \A g : G(g) = [s \in SUBSET S |-> IF s = {} THEN 1
                         ELSE satMul(g[s \ {CHOOSE x \in s : TRUE}], w[CHOOSE x \in s : TRUE])]
    BY <2>1
  <2> HIDE DEF G
  <2> QED BY <2>2 DEF SatProductOf
<1> HIDE DEF G
<1>5. prod = G(prod)
  BY <1>3, <1>4
<1> QED BY <1>1, <1>3, <1>4, <1>5

-----------------------------------------------------------------------------
(* The upward pass visits the deep nodes first, the downward pass last     *)
(* (BfsOrderIs).                                                           *)
LEMMA UpOrderIs == UpOrder \in Seq(Node) /\ Descending(UpOrder) /\ \A u \in Node : Named(UpOrder, u)
<1> DEFINE seqs == [d \in 1 .. MaxDepth + 1 |-> buildLevels[MaxDepth + 1 - d]]
           n == MaxDepth + 1
           level == [d \in 1 .. n |-> n - d]
<1>0. MaxDepth \in Nat
  BY MaxDepthBound
<1>1. \A d \in 1 .. n : level[d] \in 0 .. MaxDepth /\ level[d] = n - d /\ seqs[d] = buildLevels[level[d]]
  BY <1>0
<1>2. n \in Nat /\ n > 0 /\ n = MaxDepth + 1 /\ seqs = [d \in 1 .. n |-> seqs[d]]
  BY <1>0
<1> HIDE DEF seqs, n, level
<1>3. Len(seqs) = n
  BY <1>2, LenOf
<1>4. \A d \in 1 .. n : IsLevel(seqs[d], level[d])
  BY <1>1, Levels
<1>5. \A u \in Node : \E i \in 1 .. n : level[i] = Depth[u]
  <2> TAKE u \in Node
  <2>1. PICK i : i = n - Depth[u]
    OBVIOUS
  <2>2. i \in 1 .. n /\ level[i] = Depth[u]
    <3>1. Depth[u] \in 0 .. MaxDepth
      BY <1>0, MaxDepthBound, DepthType
    <3>2. i \in 1 .. n /\ n - i = Depth[u]
      BY <1>0, <1>2, <2>1, <3>1
    <3> QED BY <1>1, <3>2
  <2> QED BY <2>2
<1>6. UpOrder = FlattenSeq(seqs)
  BY DEF UpOrder, seqs
<1>7. PICK flat : flat = UpOrder
  OBVIOUS
<1>8. Visits(flat, n, level)
  <2>1. AllLevels(seqs, n, level)
    BY <1>2, <1>3, <1>4, <1>5 DEF AllLevels
  <2> QED BY <1>6, <1>7, <2>1, LevelsInOrder
<1>9. \A i, j \in 1 .. n : i <= j => level[i] >= level[j]
  BY <1>1, <1>2
<1>10. Descending(flat)
  BY <1>8, <1>9 DEF Descending, Visits
<1> QED BY <1>7, <1>8, <1>10 DEF Visits

(* The rest of an order. *)
LEMMA RestOfOrder ==
  ASSUME NEW s \in Seq(Node), s # <<>>
  PROVE  /\ Head(s) \in Node /\ Tail(s) \in Seq(Node)
         /\ \A u : Named(s, u) <=> u = Head(s) \/ Named(Tail(s), u)
         /\ Descending(s) => Descending(Tail(s)) /\ \A u : Named(s, u) => Depth[u] <= Depth[Head(s)]
         /\ Ascending(s) => Ascending(Tail(s)) /\ \A u : Named(s, u) => Depth[u] >= Depth[Head(s)]
<1>1. /\ Len(s) \in Nat /\ Len(s) > 0 /\ Head(s) = s[1] /\ Head(s) \in Node
      /\ Tail(s) \in Seq(Node) /\ Len(Tail(s)) = Len(s) - 1
      /\ \A k \in 1 .. Len(s) - 1 : Tail(s)[k] = s[k + 1]
  OBVIOUS
<1>2. PICK t : t = Tail(s)
  OBVIOUS
<1>3. Len(t) = Len(s) - 1 /\ \A k \in 1 .. Len(t) : k + 1 \in 1 .. Len(s) /\ t[k] = s[k + 1]
  BY <1>1, <1>2
<1>4. 1 \in 1 .. Len(s) /\ \A k \in 1 .. Len(s) : 1 <= k
  BY <1>1
<1>5. ASSUME NEW u PROVE Named(s, u) <=> u = s[1] \/ Named(t, u)
  <2>1. ASSUME NEW k \in 1 .. Len(s), s[k] = u, k # 1 PROVE Named(t, u)
    <3>1. k - 1 \in 1 .. Len(t) /\ (k - 1) + 1 = k
      BY <1>1, <1>3, <2>1
    <3>2. t[k - 1] = u
      BY <1>3, <2>1, <3>1
    <3> QED BY <3>1, <3>2 DEF Named
  <2>2. Named(t, u) => Named(s, u)
    BY <1>3 DEF Named
  <2> QED BY <1>4, <2>1, <2>2 DEF Named
<1>6. ASSUME NEW k \in 1 .. Len(t), NEW l \in 1 .. Len(t), k <= l
      PROVE  k + 1 \in 1 .. Len(s) /\ l + 1 \in 1 .. Len(s) /\ k + 1 <= l + 1 /\ t[k] = s[k + 1] /\ t[l] = s[l + 1]
  BY <1>3, <1>6
<1>7. Descending(s) => Descending(t) /\ \A u : Named(s, u) => Depth[u] <= Depth[s[1]]
  <2> SUFFICES ASSUME Descending(s) PROVE Descending(t) /\ \A u : Named(s, u) => Depth[u] <= Depth[s[1]]
    OBVIOUS
  <2>1. Descending(t)
    BY <1>6 DEF Descending
  <2>2. \A k \in 1 .. Len(s) : Depth[s[1]] >= Depth[s[k]] /\ s[k] \in Node /\ s[1] \in Node
    BY <1>1, <1>4 DEF Descending
  <2> QED BY <2>1, <2>2, DepthType DEF Named
<1>8. Ascending(s) => Ascending(t) /\ \A u : Named(s, u) => Depth[u] >= Depth[s[1]]
  <2> SUFFICES ASSUME Ascending(s) PROVE Ascending(t) /\ \A u : Named(s, u) => Depth[u] >= Depth[s[1]]
    OBVIOUS
  <2>1. Ascending(t)
    BY <1>6 DEF Ascending
  <2>2. \A k \in 1 .. Len(s) : Depth[s[1]] <= Depth[s[k]] /\ s[k] \in Node /\ s[1] \in Node
    BY <1>1, <1>4 DEF Ascending
  <2> QED BY <2>1, <2>2, DepthType DEF Named
<1> QED BY <1>1, <1>2, <1>5, <1>7, <1>8

-----------------------------------------------------------------------------
(* What the semi-joins count when no sum passes an int. *)
LEMMA InputFacts ==
  ASSUME input \in Inputs
  PROVE  /\ Database(input)
         /\ \A u \in Node : DOMAIN input[u] = 1 .. Len(input[u]) /\ Len(input[u]) \in Nat
BY InputAssumption DEF Database

(* An int holds a sum that fits one. *)
LEMMA WrapKeeps == ASSUME NEW x \in 0 .. MaxInt PROVE Wrap(x) = x
<1>1. PICK q : q = x + MaxInt + 1
  OBVIOUS
<1>2. PICK b : b = 2 * (MaxInt + 1)
  OBVIOUS
<1>3. q \in Nat /\ b \in Nat /\ b > 0 /\ q < b
  BY WidthAssumption, <1>1, <1>2
<1>4. q % b = q
  BY <1>3
<1> QED BY WidthAssumption, <1>1, <1>2, <1>4 DEF Wrap

(* Where the sums fit, so do the counts below a row. *)
LEMMA NarrowCounts ==
  ASSUME input \in Inputs, Narrow, NEW c \in NonRoot, NEW i \in 1 .. Len(input[Parent[c]])
  PROVE  /\ IsFiniteSet(Below(input, c, i))
         /\ Cardinality(Below(input, c, i)) \in 0 .. MaxInt
         /\ \A j \in Partners(input, c, i) : SubtreeCount(input, c, j) \in 0 .. MaxInt
<1>1. c \in Node /\ Parent[c] \in Node
  BY ParentFacts
<1>2. Database(input) /\ DOMAIN input[c] = 1 .. Len(input[c]) /\ DOMAIN input[Parent[c]] = 1 .. Len(input[Parent[c]])
  BY <1>1, InputFacts
<1>3. IsFiniteSet(Below(input, c, i)) /\ \A j : IsFiniteSet(Using(input, c, j))
  BY <1>1, <1>2, UsingFinite
<1>4. Cardinality(Below(input, c, i)) \in Nat
  BY <1>3, FS_CardinalityType
<1>5. TrueCount(c, i) = Cardinality(Below(input, c, i))
  <2> DEFINE K == {j \in DOMAIN input[c] : Joins(c, input[Parent[c]][i], input[c][j])}
  <2>1. K = Partners(input, c, i)
    BY <1>2 DEF Partners
  <2>2. TrueCount(c, i) = MapThenSumSet(LAMBDA j : SubtreeCount(input, c, j), K)
    BY Zenon DEF TrueCount
  <2> HIDE DEF K
  <2> QED BY <1>2, <2>1, <2>2, SumOfCounts
<1>6. TrueCount(c, i) <= MaxInt
  BY <1>2 DEF Narrow
<1>7. ASSUME NEW j \in Partners(input, c, i) PROVE SubtreeCount(input, c, j) \in 0 .. MaxInt
  <2>1. Using(input, c, j) \subseteq Below(input, c, i)
    BY DEF Using, Below, Partners
  <2>2. Cardinality(Using(input, c, j)) <= Cardinality(Below(input, c, i)) /\ Cardinality(Using(input, c, j)) \in Nat
    BY <1>3, <2>1, FS_Subset, FS_CardinalityType
  <2>3. SubtreeCount(input, c, j) = Cardinality(Using(input, c, j))
    BY DEF SubtreeCount, Using
  <2> QED BY <1>4, <1>5, <1>6, <2>2, <2>3, WidthAssumption
<1> QED BY <1>3, <1>4, <1>5, <1>6, <1>7, WidthAssumption

(* The rows of u have their counts, and the semi-joins of u's children     *)
(* theirs.                                                                 *)
Exact(u) == \A i \in 1 .. Len(input[u]) : delta[u][i] = Cap(SubtreeCount(input, u, i))

CountsExact(u) ==
  \A c \in ChildSet(u) : \A i \in 1 .. Len(input[u]) : childCounts[c][i] = Cardinality(Below(input, c, i))

(* What a child row adds to a semi-join, and the sum of its parent's row.  *)
Value(c, j) == IF IsLeaf(c) THEN 1 ELSE Column(c, j)

ValueSum(c, K) == MapThenSumSet(LAMBDA j : IF IsLeaf(c) THEN 1 ELSE Column(c, j), K)

LEMMA SumOfColumns ==
  ASSUME Database(input), NEW c \in NonRoot, NEW i, NEW K, K = Partners(input, c, i),
         \A j \in K : Value(c, j) = SubtreeCount(input, c, j)
  PROVE  ValueSum(c, K) = Cardinality(Below(input, c, i))
<1> DEFINE F == [j \in K |-> Using(input, c, j)]
           w == [j \in K |-> Cardinality(F[j])]
           G(g) == [s \in SUBSET K |-> IF s = {} THEN 0
                     ELSE (IF IsLeaf(c) THEN 1 ELSE Column(c, CHOOSE x \in s : TRUE)) + g[s \ {CHOOSE x \in s : TRUE}]]
           sum == CHOOSE g : g = G(g)
<1>1. \A j \in K : F[j] = Using(input, c, j) /\ w[j] = Cardinality(F[j])
  OBVIOUS
<1>2. \A j \in K : w[j] = IF IsLeaf(c) THEN 1 ELSE Column(c, j)
  BY DEF SubtreeCount, Using, Value
<1>3. ValueSum(c, K) = sum[K]
  BY Zenon DEF ValueSum, MapThenSumSet, MapThenFoldSet
<1> HIDE DEF F, w
<1>4. /\ \E it : SumOf(it, w, K)
      /\ \A it : SumOf(it, w, K) => it[K] = Cardinality(Below(input, c, i))
  <2>1. /\ IsFiniteSet(K)
        /\ \A j \in K : IsFiniteSet(F[j])
        /\ \A j, k \in K : j # k => F[j] \cap F[k] = {}
        /\ Together(F, K) = Below(input, c, i)
    BY <1>1, BelowIsUnion
  <2>2. \A j \in K : w[j] = Cardinality(F[j])
    BY <1>1
  <2>3. \E it : SumOf(it, w, K)
    BY <2>1, <2>2, SumIsUnion
  <2>4. \A it : SumOf(it, w, K) => it[K] = Cardinality(Together(F, K))
    BY <2>1, <2>2, SumIsUnion
  <2> QED BY <2>1, <2>3, <2>4
<1>5. \A g : SumOf(g, w, K) <=> g = G(g)
  <2>1. \A s \in SUBSET K : s # {} =>
          (IF IsLeaf(c) THEN 1 ELSE Column(c, CHOOSE x \in s : TRUE)) = w[CHOOSE x \in s : TRUE]
    BY <1>2
  <2>2. \A g : G(g) = [s \in SUBSET K |-> IF s = {} THEN 0
                         ELSE w[CHOOSE x \in s : TRUE] + g[s \ {CHOOSE x \in s : TRUE}]]
    BY <2>1
  <2> HIDE DEF G
  <2> QED BY <2>2 DEF SumOf
<1> HIDE DEF G
<1>6. sum = G(sum)
  BY <1>4, <1>5
<1> QED BY <1>3, <1>4, <1>5, <1>6

(* A semi-join counts the answers below a row of the parent. *)
LEMMA SemiJoinExact ==
  ASSUME input \in Inputs, Narrow, NEW c \in NonRoot, Exact(c), NEW i \in 1 .. Len(input[Parent[c]])
  PROVE  SemiJoin(c)[i] = Cardinality(Below(input, c, i))
<1> DEFINE K == {j \in DOMAIN input[c] : Joins(c, input[Parent[c]][i], input[c][j])}
<1>1. c \in Node /\ Parent[c] \in Node
  BY ParentFacts
<1>2. Database(input) /\ DOMAIN input[c] = 1 .. Len(input[c]) /\ DOMAIN input[Parent[c]] = 1 .. Len(input[Parent[c]])
  BY <1>1, InputFacts
<1>3. K = Partners(input, c, i)
  BY <1>2 DEF Partners
<1>4. SemiJoin(c)[i] = Max({0, Wrap(ValueSum(c, K))})
  <2>1. i \in DOMAIN input[Parent[c]]
    BY <1>2
  <2> QED BY <2>1, Zenon DEF SemiJoin, ValueSum
<1> HIDE DEF K
<1>5. ASSUME NEW j \in K PROVE Value(c, j) = SubtreeCount(input, c, j)
  <2>1. j \in 1 .. Len(input[c]) /\ SubtreeCount(input, c, j) \in 0 .. MaxInt
    BY <1>3, NarrowCounts DEF Partners
  <2>2. CASE IsLeaf(c)
    BY <1>1, <1>2, <2>1, <2>2, LeafCount DEF Value
  <2>3. CASE ~IsLeaf(c)
    <3>1. delta[c][j] = SubtreeCount(input, c, j)
      BY <2>1, WidthAssumption DEF Exact, Cap
    <3> QED BY <2>1, <2>3, <3>1, WidthAssumption DEF Value, Column
  <2> QED BY <2>2, <2>3
<1>6. ValueSum(c, K) = Cardinality(Below(input, c, i))
  BY <1>2, <1>3, <1>5, SumOfColumns
<1>7. PICK x : x = Cardinality(Below(input, c, i))
  OBVIOUS
<1>8. x \in 0 .. MaxInt
  BY <1>7, NarrowCounts
<1>9. Wrap(x) = x /\ Max({0, x}) = x
  BY <1>8, WrapKeeps DEF Max
<1> QED BY <1>4, <1>6, <1>7, <1>9

-----------------------------------------------------------------------------
(* One visit of the upward pass: the children are counted, and so is p.    *)
LEMMA VisitCounts ==
  ASSUME input \in Inputs, Narrow, NEW p \in Node, \A c \in ChildSet(p) : Exact(c),
         NEW counts, \A c \in ChildSet(p) : counts[c] = SemiJoin(c),
         NEW i \in 1 .. Len(input[p])
  PROVE  /\ \A c \in ChildSet(p) : counts[c][i] = Cardinality(Below(input, c, i))
         /\ ProductOver(counts, i, ChildSet(p)) = Cap(SubtreeCount(input, p, i))
<1> DEFINE F == [c \in ChildSet(p) |-> Below(input, c, i)]
<1>1. Database(input)
  BY InputFacts
<1>2. ASSUME NEW c \in ChildSet(p)
      PROVE  /\ counts[c][i] = Cardinality(Below(input, c, i))
             /\ IsFiniteSet(Below(input, c, i))
             /\ counts[c][i] = Cap(Cardinality(Below(input, c, i)))
  <2>1. c \in NonRoot /\ Parent[c] = p
    BY ChildFacts
  <2>2. SemiJoin(c)[i] = Cardinality(Below(input, c, i))
    BY <2>1, SemiJoinExact
  <2>3. IsFiniteSet(Below(input, c, i)) /\ Cardinality(Below(input, c, i)) \in 0 .. MaxInt
    BY <2>1, NarrowCounts
  <2> QED BY <2>2, <2>3, WidthAssumption DEF Cap
<1>3. \A c \in ChildSet(p) : F[c] = Below(input, c, i)
  OBVIOUS
<1> HIDE DEF F
<1>4. ChildSet(p) \subseteq Node
  BY DEF ChildSet
<1>5. ProductOver(counts, i, ChildSet(p)) = Cap(Cardinality(Picks(F, ChildSet(p))))
  <2>1. PICK S : S = ChildSet(p)
    OBVIOUS
  <2>2. IsFiniteSet(S) /\ (\A c \in S : IsFiniteSet(F[c])) /\ \A c \in S : counts[c][i] = Cap(Cardinality(F[c]))
    BY <1>2, <1>3, <1>4, <2>1, NodesFinite
  <2>3. ProductOver(counts, i, S) = Cap(Cardinality(Picks(F, S)))
    BY <2>2, ProductOverIs
  <2> QED BY <2>1, <2>3
<1>6. Cardinality(Using(input, p, i)) = Cardinality(Picks(F, ChildSet(p)))
  BY <1>1, <1>3, SubtreeAnswers
<1> QED BY <1>2, <1>5, <1>6 DEF SubtreeCount, Using

(* The root's rows share out the answers. *)
LEMMA RootCounts ==
  ASSUME input \in Inputs, NEW f, \A i \in 1 .. Len(input[Root]) : f[i] = Cap(SubtreeCount(input, Root, i))
  PROVE  SumOver(f, 1 .. Len(input[Root])) = Cap(JoinSize(input))
<1> DEFINE K == 1 .. Len(input[Root])
           F == [i \in K |-> Using(input, Root, i)]
<1>1. Root \in Node /\ Database(input) /\ Len(input[Root]) \in Nat
  BY TreeAssumption, InputFacts
<1>2. \A i \in K : F[i] = Using(input, Root, i)
  OBVIOUS
<1>3. \A i \in K : f[i] = Cap(Cardinality(F[i]))
  BY <1>2 DEF SubtreeCount, Using
<1>4. IsFiniteSet(K)
  BY <1>1, FS_Interval
<1> HIDE DEF F
<1>5. \A i \in K : IsFiniteSet(F[i])
  BY <1>1, <1>2, UsingFinite
<1>6. \A i, j \in K : i # j => F[i] \cap F[j] = {}
  BY <1>2 DEF Using
<1>7. Together(F, K) = Matches(input, Node)
  <2>1. ASSUME NEW f1 PROVE f1 \in Together(F, K) <=> f1 \in Matches(input, Node) /\ f1[Root] \in K
    BY <1>2, RootSubtree DEF Together, Using
  <2>2. ASSUME NEW f1 \in Matches(input, Node) PROVE f1[Root] \in K
    BY <1>1, MatchesAre
  <2> QED BY <2>1, <2>2
<1> HIDE DEF K
<1>8. SumOver(f, K) = Cap(Cardinality(Together(F, K)))
  BY <1>3, <1>4, <1>5, <1>6, SumOverIs
<1> QED BY <1>7, <1>8 DEF JoinSize, K

-----------------------------------------------------------------------------
(* The upward pass.                                                        *)
(* The invariant: counts are exact for the nodes visited so far, and at    *)
(* the end for all of them, so that the root's rows add up to the answer.  *)
Typed ==
  /\ input \in Inputs
  /\ stage \in {"bounds", "combine", "up", "down", "pad", "done"}
  /\ todo \in Seq(Node)
  /\ delta = [u \in Node |-> delta[u]]
  /\ \A u \in Node : DOMAIN delta[u] = 1 .. Len(input[u])

Before == stage \in {"bounds", "combine", "up"}

CountedSoFar ==
  Before /\ Narrow =>
    /\ Descending(todo)
    /\ \A u \in Node : Named(todo, u) \/ (Exact(u) /\ CountsExact(u))

CountedAll ==
  Counted /\ Narrow =>
    /\ \A u \in Node : Exact(u) /\ CountsExact(u)
    /\ exactRows = Cap(JoinSize(input))

UpInv == Typed /\ CountedSoFar /\ CountedAll

LEMMA TypedInit == Init => Typed
<1> SUFFICES ASSUME Init PROVE Typed
  OBVIOUS
<1>1. input \in Inputs /\ stage \in {"bounds", "up"} /\ todo = UpOrder
      /\ delta = [u \in Node |-> [i \in DOMAIN input[u] |-> 1]]
  BY Zenon DEF Init
<1>2. todo \in Seq(Node)
  BY <1>1, UpOrderIs
<1> QED BY <1>1, <1>2, InputFacts DEF Typed

LEMMA UpInit == Init => UpInv
<1> SUFFICES ASSUME Init PROVE UpInv
  OBVIOUS
<1>1. stage \in {"bounds", "up"} /\ todo = UpOrder
  BY Zenon DEF Init
<1>2. ~Counted
  BY <1>1 DEF Counted
<1>3. Descending(todo) /\ \A u \in Node : Named(todo, u)
  BY <1>1, UpOrderIs
<1> QED BY <1>2, <1>3, TypedInit DEF UpInv, CountedSoFar, CountedAll

(* What a step leaves alone stays exact. *)
LEMMA KeepsNarrow == ASSUME UNCHANGED input PROVE Narrow' <=> Narrow
<1>1. \A c, i : TrueCount(c, i)' = TrueCount(c, i)
  BY SMT DEF TrueCount, MapThenSumSet, MapThenFoldSet
<1> QED BY <1>1 DEF Narrow

LEMMA KeepsExact ==
  ASSUME UNCHANGED <<input, delta, childCounts>>
  PROVE  /\ Narrow' <=> Narrow
         /\ \A u : Exact(u)' <=> Exact(u)
         /\ \A u : CountsExact(u)' <=> CountsExact(u)
         /\ JoinSize(input)' = JoinSize(input)
<1>2. Narrow' <=> Narrow
  BY KeepsNarrow
<1>3. \A u : Exact(u)' <=> Exact(u)
  BY DEF Exact
<1>4. \A u : CountsExact(u)' <=> CountsExact(u)
  BY DEF CountsExact
<1> QED BY <1>2, <1>3, <1>4

(* One visit makes one more node exact: its children are deeper, so that   *)
(* none of them is still to be visited.                                    *)
LEMMA CountNodeKeeps == ASSUME UpInv, CountNode PROVE UpInv'
<1>0. PICK p : p = Head(todo)
  OBVIOUS
<1> DEFINE counts == [c \in ChildSet(p) |-> SemiJoin(c)]
           new == [i \in DOMAIN input[p] |-> ProductOver(counts, i, ChildSet(p))]
<1>1. /\ stage = "up" /\ todo # <<>>
      /\ childCounts' = [c \in NonRoot |-> IF c \in ChildSet(p) THEN counts[c] ELSE childCounts[c]]
      /\ delta' = [delta EXCEPT ![p] = new]
      /\ todo' = Tail(todo)
      /\ input' = input /\ stage' = stage
  <2> DEFINE q == Head(todo)
             cs == [c \in ChildSet(q) |-> SemiJoin(c)]
  <2>1. /\ stage = "up" /\ todo # <<>>
        /\ childCounts' = [c \in NonRoot |-> IF c \in ChildSet(q) THEN cs[c] ELSE childCounts[c]]
        /\ delta' = [delta EXCEPT ![q] = [i \in DOMAIN input[q] |-> ProductOver(cs, i, ChildSet(q))]]
        /\ todo' = Tail(todo)
        /\ input' = input /\ stage' = stage
    BY Zenon DEF CountNode, ProductOver
  <2>2. q = p
    BY <1>0
  <2>3. cs = counts
    BY <2>2
  <2> HIDE DEF q, cs, counts
  <2> QED BY <2>1, <2>2, <2>3
<1>2. Typed /\ CountedSoFar
  BY DEF UpInv
<1>3. /\ p \in Node /\ todo' \in Seq(Node)
      /\ \A u : Named(todo, u) <=> u = p \/ Named(todo', u)
      /\ Descending(todo) => Descending(todo') /\ \A u : Named(todo, u) => Depth[u] <= Depth[p]
  BY <1>0, <1>1, <1>2, RestOfOrder DEF Typed
<1>4. DOMAIN input[p] = 1 .. Len(input[p])
  BY <1>2, <1>3, InputFacts DEF Typed
<1>5. \A c \in ChildSet(p) : counts[c] = SemiJoin(c)
  OBVIOUS
<1>6. new = [i \in 1 .. Len(input[p]) |-> ProductOver(counts, i, ChildSet(p))]
  BY <1>4
<1> HIDE DEF counts, new
<1>7. /\ \A u \in Node : u # p => delta'[u] = delta[u]
      /\ delta'[p] = new
      /\ delta' = [u \in Node |-> delta'[u]]
  BY <1>1, <1>2, <1>3 DEF Typed
<1>8. Typed'
  <2>1. \A u \in Node : DOMAIN delta'[u] = 1 .. Len(input[u])
    BY <1>2, <1>6, <1>7 DEF Typed
  <2> QED BY <1>1, <1>2, <1>3, <1>7, <2>1 DEF Typed
<1>9. Narrow' <=> Narrow
  BY <1>1, KeepsNarrow
<1>10. ~Counted'
  BY <1>1 DEF Counted
<1>11. ASSUME Narrow, NEW u \in Node, ~Named(todo', u) PROVE Exact(u)' /\ CountsExact(u)'
  <2>1. /\ Descending(todo)
        /\ \A v \in Node : Named(todo, v) \/ (Exact(v) /\ CountsExact(v))
    BY <1>1, <1>2, <1>11 DEF CountedSoFar, Before
  <2>2. CASE u = p
    <3>1. ASSUME NEW c \in ChildSet(p) PROVE Exact(c)
      <4>1. c \in Node /\ Depth[c] = 1 + Depth[p] /\ Depth[p] \in Int
        BY <1>3, ChildFacts, ParentFacts, DepthType
      <4>2. ~Named(todo, c)
        BY <1>3, <2>1, <4>1
      <4> QED BY <2>1, <4>1, <4>2
    <3>2. ASSUME NEW i \in 1 .. Len(input[p])
          PROVE  /\ \A c \in ChildSet(p) : counts[c][i] = Cardinality(Below(input, c, i))
                 /\ ProductOver(counts, i, ChildSet(p)) = Cap(SubtreeCount(input, p, i))
      <4>1. input \in Inputs
        BY <1>2 DEF Typed
      <4> QED BY <1>3, <1>5, <1>11, <3>1, <4>1, VisitCounts
    <3>3. \A c \in ChildSet(p) : c \in NonRoot
      BY <1>3, ChildFacts
    <3>4. \A c \in ChildSet(p) : childCounts'[c] = counts[c]
      BY <1>1, <3>3
    <3>5. \A i \in 1 .. Len(input[p]) : delta'[p][i] = ProductOver(counts, i, ChildSet(p))
      BY <1>6, <1>7
    <3>6. Exact(p)'
      BY <1>1, <3>2, <3>5 DEF Exact
    <3>7. CountsExact(p)'
      BY <1>1, <3>2, <3>4 DEF CountsExact
    <3> QED BY <2>2, <3>6, <3>7
  <2>3. CASE u # p
    <3>1. Exact(u) /\ CountsExact(u)
      BY <1>3, <1>11, <2>1, <2>3
    <3>2. delta'[u] = delta[u]
      BY <1>7, <2>3
    <3>3. \A c \in ChildSet(u) : childCounts'[c] = childCounts[c]
      <4> TAKE c \in ChildSet(u)
      <4>1. c \in NonRoot /\ Parent[c] = u
        BY ChildFacts
      <4>2. c \notin ChildSet(p)
        BY <2>3, <4>1 DEF ChildSet
      <4> QED BY <1>1, <4>1, <4>2
    <3>4. Exact(u)'
      BY <1>1, <3>1, <3>2 DEF Exact
    <3>5. CountsExact(u)'
      BY <1>1, <3>1, <3>3 DEF CountsExact
    <3> QED BY <3>4, <3>5
  <2> QED BY <2>2, <2>3
<1>12. ASSUME Narrow PROVE Descending(todo')
  BY <1>1, <1>2, <1>3, <1>12 DEF CountedSoFar, Before
<1>13. Narrow => /\ Descending(todo)'
                 /\ \A u \in Node : Named(todo, u)' \/ (Exact(u)' /\ CountsExact(u)')
  BY <1>11, <1>12 DEF Descending, Named
<1> QED BY <1>8, <1>9, <1>10, <1>13 DEF UpInv, CountedSoFar, CountedAll

LEMMA AddRootKeeps == ASSUME UpInv, AddRoot PROVE UpInv'
<1>1. /\ stage = "up" /\ todo = <<>>
      /\ exactRows' = SumOver(delta[Root], DOMAIN delta[Root])
      /\ stage' \in {"done", "down"}
      /\ todo' \in {<<>>, BfsOrder}
      /\ UNCHANGED <<input, delta, childCounts>>
  BY Zenon DEF AddRoot, SumOver
<1>2. Typed /\ CountedSoFar
  BY DEF UpInv
<1>3. todo' \in Seq(Node)
  <2>1. <<>> \in Seq(Node)
    OBVIOUS
  <2> QED BY <1>1, <2>1, BfsOrderIs
<1>4. Typed'
  BY <1>1, <1>2, <1>3 DEF Typed
<1>5. ~Before'
  BY <1>1 DEF Before
<1>6. ASSUME Narrow
      PROVE  (\A u \in Node : Exact(u) /\ CountsExact(u)) /\ exactRows' = Cap(JoinSize(input))
  <2>1. \A u : ~Named(todo, u)
    BY <1>1 DEF Named
  <2>2. \A u \in Node : Exact(u) /\ CountsExact(u)
    BY <1>1, <1>2, <1>6, <2>1 DEF CountedSoFar, Before
  <2>3. input \in Inputs /\ Root \in Node /\ DOMAIN delta[Root] = 1 .. Len(input[Root])
    BY <1>2, TreeAssumption DEF Typed
  <2>4. \A i \in 1 .. Len(input[Root]) : delta[Root][i] = Cap(SubtreeCount(input, Root, i))
    BY <2>2, <2>3 DEF Exact
  <2>5. SumOver(delta[Root], 1 .. Len(input[Root])) = Cap(JoinSize(input))
    BY <2>3, <2>4, RootCounts
  <2> QED BY <1>1, <2>2, <2>3, <2>5
<1>7. CountedAll'
  BY <1>1, <1>6, KeepsExact DEF CountedAll
<1> QED BY <1>4, <1>5, <1>7 DEF UpInv, CountedSoFar

LEMMA UpStep == ASSUME UpInv, [Next]_vars PROVE UpInv'
<1>1. ASSUME UNCHANGED <<input, delta, childCounts, todo>>, Before, Before' PROVE UpInv'
  <2>1. ~Counted'
    BY <1>1 DEF Before, Counted
  <2>2. Typed'
    BY <1>1 DEF UpInv, Typed, Before
  <2>3. CountedSoFar'
    BY <1>1, KeepsExact DEF UpInv, CountedSoFar, Descending, Named
  <2> QED BY <2>1, <2>2, <2>3 DEF UpInv, CountedAll
<1>2. ASSUME UNCHANGED <<input, delta, childCounts, exactRows>>, Counted, Counted', todo' \in Seq(Node)
      PROVE  UpInv'
  <2>1. ~Before'
    BY <1>2 DEF Before, Counted
  <2>2. Typed'
    BY <1>2 DEF UpInv, Typed, Counted
  <2>3. CountedAll'
    BY <1>2, KeepsExact DEF UpInv, CountedAll
  <2> QED BY <2>1, <2>2, <2>3 DEF UpInv, CountedSoFar
<1>3. CASE EnumerateBounds
  BY <1>1, <1>3 DEF EnumerateBounds, Before
<1>4. CASE CombineBounds
  BY <1>1, <1>4, Zenon DEF CombineBounds, Before
<1>5. CASE CountNode
  BY <1>5, CountNodeKeeps
<1>6. CASE AddRoot
  BY <1>6, AddRootKeeps
<1>7. CASE CompleteNode
  <2>1. /\ stage = "down" /\ todo # <<>> /\ todo' = Tail(todo) /\ stage' = stage
        /\ UNCHANGED <<input, delta, childCounts, exactRows>>
    BY <1>7, Zenon DEF CompleteNode
  <2>2. todo' \in Seq(Node)
    BY <2>1 DEF UpInv, Typed
  <2>3. Counted /\ Counted'
    BY <2>1 DEF Counted
  <2> QED BY <1>2, <2>1, <2>2, <2>3
<1>8. CASE EndDown
  <2>1. todo' \in Seq(Node)
    BY <1>8 DEF UpInv, Typed, EndDown
  <2> QED BY <1>2, <1>8, <2>1 DEF EndDown, Counted
<1>9. CASE Pad
  <2>1. stage = "pad" /\ stage' = "done" /\ UNCHANGED <<input, todo, delta, childCounts, exactRows>>
    BY <1>9, Zenon DEF Pad
  <2>2. todo' \in Seq(Node)
    BY <2>1 DEF UpInv, Typed
  <2> QED BY <1>2, <2>1, <2>2 DEF Counted
<1>10. CASE UNCHANGED vars
  <2>1. UNCHANGED <<input, todo, delta, childCounts, exactRows, stage>>
    BY <1>10 DEF vars
  <2>2. stage \in {"bounds", "combine", "up", "down", "pad", "done"} /\ todo' \in Seq(Node)
    BY <2>1 DEF UpInv, Typed
  <2>3. CASE Before
    BY <1>1, <2>1, <2>3 DEF Before
  <2>4. CASE Counted
    BY <1>2, <2>1, <2>2, <2>4 DEF Counted
  <2> QED BY <2>2, <2>3, <2>4 DEF Before, Counted
<1> QED BY <1>3, <1>4, <1>5, <1>6, <1>7, <1>8, <1>9, <1>10 DEF Next

LEMMA UpInvariant == Spec => []UpInv
<1>1. Init => UpInv
  BY UpInit
<1>2. UpInv /\ [Next]_vars => UpInv'
  BY UpStep
<1> QED BY <1>1, <1>2, PTL DEF Spec

(* computeOutputSizeStats: the size computed before the join is exact, cut *)
(* at LLONG_MAX, whenever the sums of the single semi-joins fit an int.    *)
THEOREM ExactWhileNarrowTheorem == Spec => []ExactWhileNarrow
<1>1. UpInv => ExactWhileNarrow
  <2> SUFFICES ASSUME UpInv, Counted, Narrow PROVE exactRows = Min({MaxLong, JoinSize(input)})
    BY DEF ExactWhileNarrow
  <2>1. exactRows = Cap(JoinSize(input)) /\ input \in Inputs
    BY DEF UpInv, CountedAll, Typed
  <2>2. Database(input) /\ Node \subseteq Node
    BY <2>1, InputFacts
  <2>3. IsFiniteSet(Matches(input, Node))
    BY <2>2, MatchesFinite
  <2>4. JoinSize(input) \in Nat
    BY <2>3, FS_CardinalityType DEF JoinSize
  <2> QED BY <2>1, <2>4, MinIsCap
<1> QED BY <1>1, UpInvariant, PTL

-----------------------------------------------------------------------------
(* What lies outside a subtree, with the top of the subtree; and what lies *)
(* outside the subtree of c.                                               *)
Outer(u) == (Node \ Subtree[u]) \cup {u}

Without(c) == Node \ Subtree[c]

LEMMA OuterFacts ==
  ASSUME NEW p \in Node
  PROVE  /\ Hanging(Outer(p), p, ChildSet(p))
         /\ Extended(Outer(p), ChildSet(p)) = Node
         /\ \A c \in ChildSet(p) :
              /\ Hanging(Outer(p), p, ChildSet(p) \ {c})
              /\ Extended(Outer(p), ChildSet(p) \ {c}) = Without(c)
<1>1. p \in Subtree[p] /\ Subtree[p] \subseteq Node
  BY SubtreeFacts
<1>2. ASSUME NEW c \in ChildSet(p)
      PROVE  /\ Subtree[c] \subseteq Subtree[p] /\ p \notin Subtree[c] /\ c \in Node
  <2>1. c \in Node /\ c \in NonRoot /\ Depth[c] = 1 + Depth[p] /\ Depth[p] \in Int
    BY ChildFacts, ParentFacts, DepthType DEF NonRoot
  <2>2. p # c /\ ~(Depth[p] > Depth[c])
    BY <2>1
  <2>3. p \notin Subtree[c]
    BY <2>1, <2>2, SubtreeFacts
  <2>4. Subtree[c] \subseteq Subtree[p]
    BY SubtreeOf
  <2> QED BY <2>1, <2>3, <2>4
<1>3. Hanging(Outer(p), p, ChildSet(p))
  BY <1>1, <1>2 DEF Hanging, Outer
<1>4. \A v \in Subtree[p] : v = p \/ \E c \in ChildSet(p) : v \in Subtree[c]
  BY SubtreeOf
<1>5. \A c, d \in ChildSet(p) : c # d => Subtree[c] \cap Subtree[d] = {}
  BY <1>3, HangingFacts
<1>6. Extended(Outer(p), ChildSet(p)) = Node
  BY <1>1, <1>2, <1>4 DEF Extended, Outer
<1>7. ASSUME NEW c \in ChildSet(p)
      PROVE  /\ Hanging(Outer(p), p, ChildSet(p) \ {c})
             /\ Extended(Outer(p), ChildSet(p) \ {c}) = Without(c)
  <2>1. Hanging(Outer(p), p, ChildSet(p) \ {c})
    BY <1>3 DEF Hanging
  <2>2. ASSUME NEW v PROVE v \in Extended(Outer(p), ChildSet(p) \ {c}) <=> v \in Without(c)
    <3>1. v \in Extended(Outer(p), ChildSet(p) \ {c}) <=>
            v \in Outer(p) \/ \E d \in ChildSet(p) : d # c /\ v \in Subtree[d]
      BY DEF Extended
    <3> QED BY <3>1, <1>1, <1>2, <1>4, <1>5 DEF Outer, Without
  <2> QED BY <2>1, <2>2
<1> QED BY <1>3, <1>6, <1>7

(* Answers are finitely many. *)
LEMMA ThroughFinite ==
  ASSUME NEW db, Database(db), NEW S, S \subseteq Node
  PROVE  \A p, i : IsFiniteSet(Through(db, S, p, i)) /\ Cardinality(Through(db, S, p, i)) \in Nat
<1>1. \A p, i : Through(db, S, p, i) \in SUBSET Matches(db, S)
  BY DEF Through
<1> QED BY <1>1, MatchesFinite, FS_Subset, FS_CardinalityType

(* An answer outside the subtree of c, with row r of c, is an answer       *)
(* outside the subtree that uses a row of c's parent which r joins.        *)
LEMMA OutsideRow ==
  ASSUME NEW db, Database(db), NEW c \in NonRoot, NEW r \in 1 .. Len(db[c]),
         NEW K, K = {i \in 1 .. Len(db[Parent[c]]) : Joins(c, db[Parent[c]][i], db[c][r])},
         NEW F, \A i \in K : F[i] = Through(db, Without(c), Parent[c], i)
  PROVE  Cardinality(Together(F, K)) = Cardinality(Through(db, Outer(c), c, r))
<1> DEFINE X == Through(db, Outer(c), c, r)
           Y == Together(F, K)
           h == [f \in X |-> [v \in Without(c) |-> f[v]]]
<1>1. /\ c \in Node /\ Parent[c] \in Node /\ c \in Subtree[c] /\ Subtree[c] \subseteq Node
      /\ Parent[c] \in Without(c) /\ c \notin Without(c)
      /\ Without(c) \subseteq Node /\ Outer(c) \subseteq Node /\ Without(c) \subseteq Outer(c) /\ c \in Outer(c)
      /\ \A v \in Outer(c) : v = c \/ v \in Without(c)
      /\ \A v \in Outer(c) : Parent[v] # c
  <2>1. c \in Node /\ Parent[c] \in Node /\ Depth[c] = 1 + Depth[Parent[c]] /\ Depth[Parent[c]] \in Int
    BY ParentFacts, DepthType
  <2>2. c \in Subtree[c] /\ Subtree[c] \subseteq Node
    BY <2>1, SubtreeFacts
  <2>3. Parent[c] # c /\ ~(Depth[Parent[c]] > Depth[c])
    BY <2>1
  <2>4. Parent[c] \notin Subtree[c]
    BY <2>1, <2>3, SubtreeFacts
  <2>5. ASSUME NEW v \in Node, Parent[v] = c PROVE v \in Subtree[c] /\ v # c
    <3>1. v \in ChildSet(c)
      BY <2>5 DEF ChildSet
    <3> QED BY <2>1, <2>2, <2>3, <2>5, <3>1, SubtreeFacts
  <2> QED BY <2>1, <2>2, <2>4, <2>5 DEF Without, Outer
<1>2. ASSUME NEW f \in X
      PROVE  /\ f = [v \in Outer(c) |-> f[v]] /\ f[c] = r
             /\ \A v \in Outer(c) : f[v] \in 1 .. Len(db[v])
             /\ \A v \in Outer(c) : Parent[v] \in Outer(c) => Joins(v, db[Parent[v]][f[Parent[v]]], db[v][f[v]])
  <2>1. f \in Matches(db, Outer(c)) /\ f[c] = r
    BY DEF Through
  <2> QED BY <2>1, <1>1, MatchesAre
<1>3. ASSUME NEW g
      PROVE  g \in Y <=> /\ g = [v \in Without(c) |-> g[v]]
                         /\ \A v \in Without(c) : g[v] \in 1 .. Len(db[v])
                         /\ \A v \in Without(c) : Parent[v] \in Without(c) =>
                              Joins(v, db[Parent[v]][g[Parent[v]]], db[v][g[v]])
                         /\ Joins(c, db[Parent[c]][g[Parent[c]]], db[c][r])
  <2>1. g \in Y <=> g \in Matches(db, Without(c)) /\ g[Parent[c]] \in K
    BY DEF Together, Through
  <2>2. g \in Matches(db, Without(c)) <=>
           /\ g = [v \in Without(c) |-> g[v]]
           /\ \A v \in Without(c) : g[v] \in 1 .. Len(db[v])
           /\ \A v \in Without(c) : Parent[v] \in Without(c) =>
                Joins(v, db[Parent[v]][g[Parent[v]]], db[v][g[v]])
    BY <1>1, MatchesAre
  <2> QED BY <1>1, <2>1, <2>2
<1>4. ASSUME NEW f \in X PROVE h[f] \in Y
  <2>1. \A v \in Without(c) : h[f][v] = f[v] /\ v \in Outer(c)
    BY <1>1
  <2>2. h[f] = [v \in Without(c) |-> h[f][v]]
    OBVIOUS
  <2>3. h[f][Parent[c]] = f[Parent[c]] /\ f[c] = r /\ Parent[c] \in Outer(c)
    BY <1>1, <1>2, <2>1
  <2> HIDE DEF h, X, Y
  <2>4. Joins(c, db[Parent[c]][h[f][Parent[c]]], db[c][r])
    BY <1>1, <1>2, <2>3
  <2>5. \A v \in Without(c) : h[f][v] \in 1 .. Len(db[v])
    BY <1>2, <2>1
  <2>6. ASSUME NEW v \in Without(c), Parent[v] \in Without(c)
        PROVE  Joins(v, db[Parent[v]][h[f][Parent[v]]], db[v][h[f][v]])
    <3>1. Joins(v, db[Parent[v]][f[Parent[v]]], db[v][f[v]])
      BY <1>2, <2>1, <2>6
    <3> QED BY <2>1, <2>6, <3>1
  <2> QED BY <1>3, <2>2, <2>4, <2>5, <2>6
<1>5. ASSUME NEW f \in X, NEW g \in X, h[f] = h[g] PROVE f = g
  <2>1. \A v \in Without(c) : f[v] = h[f][v] /\ g[v] = h[g][v]
    OBVIOUS
  <2>2. \A v \in Outer(c) : f[v] = g[v]
    <3> HIDE DEF h, X
    <3> QED BY <1>1, <1>2, <1>5, <2>1
  <2>3. f = [v \in Outer(c) |-> f[v]] /\ g = [v \in Outer(c) |-> g[v]]
    BY <1>2
  <2> QED BY <2>2, <2>3
<1>6. ASSUME NEW g \in Y PROVE \E f \in X : h[f] = g
  <2> DEFINE f == [v \in Outer(c) |-> IF v = c THEN r ELSE g[v]]
  <2>1. /\ f = [v \in Outer(c) |-> f[v]] /\ f[c] = r
        /\ \A v \in Without(c) : f[v] = g[v] /\ v \in Outer(c)
    BY <1>1
  <2>2. /\ g = [v \in Without(c) |-> g[v]]
        /\ \A v \in Without(c) : g[v] \in 1 .. Len(db[v])
        /\ \A v \in Without(c) : Parent[v] \in Without(c) =>
             Joins(v, db[Parent[v]][g[Parent[v]]], db[v][g[v]])
        /\ Joins(c, db[Parent[c]][g[Parent[c]]], db[c][r])
    BY <1>3
  <2> HIDE DEF f
  <2>3. \A v \in Outer(c) : f[v] \in 1 .. Len(db[v])
    BY <1>1, <2>1, <2>2
  <2>4. ASSUME NEW v \in Outer(c), Parent[v] \in Outer(c)
        PROVE  Joins(v, db[Parent[v]][f[Parent[v]]], db[v][f[v]])
    <3>1. Parent[v] \in Without(c)
      BY <1>1, <2>4
    <3>2. f[Parent[v]] = g[Parent[v]]
      BY <2>1, <3>1
    <3>3. CASE v = c
      BY <2>1, <2>2, <3>2, <3>3
    <3>4. CASE v \in Without(c)
      BY <2>1, <2>2, <3>1, <3>2, <3>4
    <3> QED BY <1>1, <3>3, <3>4
  <2>5. f \in Matches(db, Outer(c))
    BY <1>1, <2>1, <2>3, <2>4, MatchesAre
  <2>6. f \in X
    BY <2>1, <2>5 DEF Through
  <2>7. h[f] = [v \in Without(c) |-> f[v]]
    BY <2>6
  <2>8. h[f] = g
    BY <2>1, <2>2, <2>7
  <2> QED BY <2>6, <2>8
<1>7. h \in [X -> Y]
  <2>1. h = [f \in X |-> h[f]]
    OBVIOUS
  <2> HIDE DEF h, X, Y
  <2> QED BY <1>4, <2>1
<1> HIDE DEF h
<1>8. IsFiniteSet(X)
  BY <1>1, ThroughFinite
<1> HIDE DEF X, Y
<1>9. Cardinality(Y) = Cardinality(X)
  BY <1>5, <1>6, <1>7, <1>8, Correspondence
<1> QED BY <1>9 DEF X, Y

-----------------------------------------------------------------------------
(* The rows of u have their counts outside. *)
OutsideExact(u) ==
  \A i \in 1 .. Len(input[u]) : outside[u][i] = Cap(Cardinality(Through(input, Outer(u), u, i)))

(* A row's count outside times its siblings' counts. *)
LEMMA FactorIs ==
  ASSUME input \in Inputs, Narrow, NEW c \in NonRoot, NEW i \in 1 .. Len(input[Parent[c]]),
         CountsExact(Parent[c]), OutsideExact(Parent[c])
  PROVE  FactorWithout(c, i) = Cap(Cardinality(Through(input, Without(c), Parent[c], i)))
<1>0. PICK p : p = Parent[c]
  OBVIOUS
<1> DEFINE K == ChildSet(p) \ {c}
           F == [s \in K |-> Below(input, s, i)]
<1>1. Database(input) /\ p \in Node /\ c \in ChildSet(p)
  BY <1>0, InputFacts, ParentFacts
<1>2. \A s \in K : F[s] = Below(input, s, i)
  OBVIOUS
<1>3. ASSUME NEW s \in K
      PROVE  IsFiniteSet(F[s]) /\ childCounts[s][i] = Cap(Cardinality(F[s]))
  <2>1. s \in NonRoot /\ Parent[s] = p
    BY <1>1, ChildFacts
  <2>2. IsFiniteSet(Below(input, s, i)) /\ Cardinality(Below(input, s, i)) \in 0 .. MaxInt
    BY <1>0, <2>1, NarrowCounts
  <2>3. childCounts[s][i] = Cardinality(Below(input, s, i))
    BY <1>0 DEF CountsExact
  <2> QED BY <1>2, <2>2, <2>3, WidthAssumption DEF Cap
<1> HIDE DEF F
<1>4. FactorWithout(c, i) = satMul(outside[p][i], ProductOver(childCounts, i, K))
  BY <1>0, Zenon DEF FactorWithout, ProductOver
<1>5. Hanging(Outer(p), p, K) /\ Extended(Outer(p), K) = Without(c)
  BY <1>1, OuterFacts
<1>6. IsFiniteSet(K)
  <2>1. K \subseteq Node
    BY DEF ChildSet
  <2> QED BY <2>1, NodesFinite
<1> HIDE DEF K
<1>7. ProductOver(childCounts, i, K) = Cap(Cardinality(Picks(F, K)))
  BY <1>3, <1>6, ProductOverIs
<1>8. Cardinality(Through(input, Without(c), p, i)) =
        Cardinality(Through(input, Outer(p), p, i)) * Cardinality(Picks(F, K))
  <2>1. PICK A : A = Outer(p)
    OBVIOUS
  <2>2. PICK S : S = Without(c)
    OBVIOUS
  <2>3. Cardinality(Through(input, S, p, i)) = Cardinality(Through(input, A, p, i)) * Cardinality(Picks(F, K))
    BY <1>1, <1>2, <1>5, <2>1, <2>2, Decomposition
  <2> QED BY <2>1, <2>2, <2>3
<1>9. Cardinality(Through(input, Outer(p), p, i)) \in Nat
  <2>1. Outer(p) \subseteq Node
    BY <1>5 DEF Hanging
  <2> QED BY <1>1, <2>1, ThroughFinite
<1>10. Cardinality(Picks(F, K)) \in Nat
  <2> DEFINE w == [s \in K |-> Cardinality(F[s])]
  <2>1. \A s \in K : w[s] = Cardinality(F[s])
    OBVIOUS
  <2> HIDE DEF w
  <2>2. IsFiniteSet(Picks(F, K))
    BY <1>3, <1>6, <2>1, ProductIsChoices
  <2> QED BY <2>2, FS_CardinalityType
<1>11. outside[p][i] = Cap(Cardinality(Through(input, Outer(p), p, i)))
  BY <1>0 DEF OutsideExact
<1> QED BY <1>0, <1>4, <1>7, <1>8, <1>9, <1>10, <1>11, SatMulIs

(* The sum over the partners in the parent, as the specification writes it. *)
FactorSum(c, S) == SatSum(S, LAMBDA i : FactorWithout(c, i))

LEMMA FactorSumIs ==
  ASSUME NEW c, NEW S, IsFiniteSet(S), NEW F, \A x \in S : IsFiniteSet(F[x]),
         \A x, y \in S : x # y => F[x] \cap F[y] = {},
         \A x \in S : FactorWithout(c, x) = Cap(Cardinality(F[x]))
  PROVE  FactorSum(c, S) = Cap(Cardinality(Together(F, S)))
<1> DEFINE w == [x \in S |-> FactorWithout(c, x)]
           G(g) == [s \in SUBSET S |-> IF s = {} THEN 0
                    ELSE satAdd(g[s \ {CHOOSE x \in s : TRUE}], FactorWithout(c, CHOOSE x \in s : TRUE))]
           sum == CHOOSE g : g = G(g)
<1>1. FactorSum(c, S) = sum[S]
  BY Zenon DEF FactorSum, SatSum, FoldSet, MapThenFoldSet
<1>2. \A x \in S : w[x] = FactorWithout(c, x) /\ w[x] = Cap(Cardinality(F[x]))
  OBVIOUS
<1> HIDE DEF w
<1>3. /\ \E it : SatSumOf(it, w, S)
      /\ \A it : SatSumOf(it, w, S) => it[S] = Cap(Cardinality(Together(F, S)))
  BY <1>2, SatSumIsUnion
<1>4. \A g : SatSumOf(g, w, S) <=> g = G(g)
  <2>1. \A s \in SUBSET S : s # {} => FactorWithout(c, CHOOSE x \in s : TRUE) = w[CHOOSE x \in s : TRUE]
    BY <1>2
  <2>2. \A g : G(g) = [s \in SUBSET S |-> IF s = {} THEN 0
                         ELSE satAdd(g[s \ {CHOOSE x \in s : TRUE}], w[CHOOSE x \in s : TRUE])]
    BY <2>1
  <2> HIDE DEF G
  <2> QED BY <2>2 DEF SatSumOf
<1> HIDE DEF G
<1>5. sum = G(sum)
  BY <1>3, <1>4
<1> QED BY <1>1, <1>3, <1>4, <1>5

(* The downward pass gives a child's row its count outside. *)
LEMMA OutsideOfIs ==
  ASSUME input \in Inputs, Narrow, NEW c \in NonRoot, NEW r \in 1 .. Len(input[c]),
         CountsExact(Parent[c]), OutsideExact(Parent[c])
  PROVE  OutsideOf(c, r) = Cap(Cardinality(Through(input, Outer(c), c, r)))
<1> DEFINE D == {i \in DOMAIN input[Parent[c]] : Joins(c, input[Parent[c]][i], input[c][r])}
           F == [i \in D |-> Through(input, Without(c), Parent[c], i)]
<1>1. c \in Node /\ Parent[c] \in Node
  BY ParentFacts
<1>2. Database(input) /\ DOMAIN input[Parent[c]] = 1 .. Len(input[Parent[c]]) /\ Len(input[Parent[c]]) \in Nat
  BY <1>1, InputFacts
<1>3. OutsideOf(c, r) = FactorSum(c, D)
  BY Zenon DEF OutsideOf, FactorSum
<1>4. D = {i \in 1 .. Len(input[Parent[c]]) : Joins(c, input[Parent[c]][i], input[c][r])}
  BY <1>2
<1>5. \A i \in D : F[i] = Through(input, Without(c), Parent[c], i) /\ i \in 1 .. Len(input[Parent[c]])
  BY <1>4
<1>6. IsFiniteSet(D)
  <2>1. PICK n \in Nat : n = Len(input[Parent[c]])
    BY <1>2
  <2>2. IsFiniteSet(1 .. n)
    BY FS_Interval
  <2>3. D \in SUBSET (1 .. n)
    BY <1>4, <2>1
  <2> HIDE DEF D
  <2> QED BY <2>2, <2>3, FS_Subset
<1> HIDE DEF D, F
<1>7. \A i \in D : IsFiniteSet(F[i])
  <2>1. Without(c) \subseteq Node
    BY DEF Without
  <2> QED BY <1>2, <1>5, <2>1, ThroughFinite
<1>8. \A i, j \in D : i # j => F[i] \cap F[j] = {}
  BY <1>5 DEF Through
<1>9. \A i \in D : FactorWithout(c, i) = Cap(Cardinality(F[i]))
  BY <1>5, FactorIs
<1>10. FactorSum(c, D) = Cap(Cardinality(Together(F, D)))
  BY <1>6, <1>7, <1>8, <1>9, FactorSumIs
<1>11. Cardinality(Together(F, D)) = Cardinality(Through(input, Outer(c), c, r))
  BY <1>2, <1>4, <1>5, OutsideRow
<1> QED BY <1>3, <1>10, <1>11

(* A row's two counts multiply to the answers that use it. *)
LEMMA UsesIs ==
  ASSUME input \in Inputs, NEW u \in Node, NEW i \in 1 .. Len(input[u]), Exact(u), OutsideExact(u)
  PROVE  Uses(u, i) \in Nat /\ satMul(outside[u][i], delta[u][i]) = Cap(Uses(u, i))
<1> DEFINE K == ChildSet(u)
           F == [c \in K |-> Below(input, c, i)]
<1>1. Database(input)
  BY InputFacts
<1>2. \A c \in K : F[c] = Below(input, c, i)
  OBVIOUS
<1> HIDE DEF F
<1>3. Cardinality(Using(input, u, i)) = Cardinality(Picks(F, K))
  BY <1>1, <1>2, SubtreeAnswers
<1>4. Hanging(Outer(u), u, K) /\ Extended(Outer(u), K) = Node
  BY OuterFacts
<1> HIDE DEF K
<1>5. Cardinality(Through(input, Node, u, i)) =
        Cardinality(Through(input, Outer(u), u, i)) * Cardinality(Picks(F, K))
  <2>1. PICK A : A = Outer(u)
    OBVIOUS
  <2>2. PICK S : S = Node
    OBVIOUS
  <2>3. Cardinality(Through(input, S, u, i)) = Cardinality(Through(input, A, u, i)) * Cardinality(Picks(F, K))
    BY <1>1, <1>2, <1>4, <2>1, <2>2, Decomposition
  <2> QED BY <2>1, <2>2, <2>3
<1>6. /\ Cardinality(Through(input, Outer(u), u, i)) \in Nat
      /\ Cardinality(Through(input, Node, u, i)) \in Nat
  <2>1. Outer(u) \subseteq Node /\ Node \subseteq Node
    BY <1>4 DEF Hanging
  <2> QED BY <1>1, <2>1, ThroughFinite
<1>7. Cardinality(Using(input, u, i)) \in Nat
  BY <1>1, UsingFinite, FS_CardinalityType
<1>8. /\ outside[u][i] = Cap(Cardinality(Through(input, Outer(u), u, i)))
      /\ delta[u][i] = Cap(Cardinality(Using(input, u, i)))
  BY DEF OutsideExact, Exact, SubtreeCount, Using
<1>9. Uses(u, i) = Cardinality(Through(input, Node, u, i))
  BY DEF Uses, Through
<1> QED BY <1>3, <1>5, <1>6, <1>7, <1>8, <1>9, SatMulIs

-----------------------------------------------------------------------------
(* The largest of finitely many numbers, none above MaxLong. *)
LEMMA MaxIs ==
  ASSUME NEW X, X \subseteq 0 .. MaxLong, X # {}
  PROVE  Max(X) \in X /\ \A x \in X : Max(X) >= x
<1>1. X \subseteq Nat /\ MaxLong \in Nat /\ \A x \in X : x <= MaxLong
  BY WidthAssumption
<1>2. \E x \in X : \A y \in X : x >= y
  BY <1>1, GreatestOfNats
<1> QED BY <1>2 DEF Max

(* The numbers whose largest the sensitivity is to be. *)
AllUsesOf(db) ==
  {1} \cup UNION {{Min({MaxLong, Cardinality({f \in Matches(db, Node) : f[u] = i})}) : i \in DOMAIN db[u]} : u \in Node}

AllUses == AllUsesOf(input)

CoversUses(u) == \A i \in 1 .. Len(input[u]) : sensitivity >= Cap(Uses(u, i))

LEMMA AllUsesAre ==
  ASSUME input \in Inputs
  PROVE  /\ AllUses \subseteq 0 .. MaxLong
         /\ 1 \in AllUses
         /\ \A x : x \in AllUses <=> x = 1 \/ \E u \in Node : \E i \in 1 .. Len(input[u]) : x = Cap(Uses(u, i))
         /\ \A u, i : Uses(u, i) \in Nat
<1>1. Database(input) /\ \A u \in Node : DOMAIN input[u] = 1 .. Len(input[u])
  BY InputFacts
<1>2. \A u, i : Uses(u, i) \in Nat
  <2>1. \A u, i : Uses(u, i) = Cardinality(Through(input, Node, u, i))
    BY DEF Uses, Through
  <2>2. Node \subseteq Node
    OBVIOUS
  <2> QED BY <1>1, <2>1, <2>2, ThroughFinite
<1>3. ASSUME NEW u, NEW i PROVE Min({MaxLong, Uses(u, i)}) = Cap(Uses(u, i)) /\ Cap(Uses(u, i)) \in 0 .. MaxLong
  <2>1. Min({MaxLong, Uses(u, i)}) = Cap(Uses(u, i)) /\ Cap(Uses(u, i)) \in Nat
    BY <1>2, MinIsCap
  <2>2. Cap(Uses(u, i)) <= MaxLong
    BY <1>2, WidthAssumption DEF Cap
  <2> QED BY <2>1, <2>2, WidthAssumption
<1>4. ASSUME NEW x
      PROVE  x \in AllUses <=> x = 1 \/ \E u \in Node : \E i \in 1 .. Len(input[u]) : x = Cap(Uses(u, i))
  <2>1. x \in AllUses <=> x = 1 \/ \E u \in Node : \E i \in DOMAIN input[u] : x = Min({MaxLong, Uses(u, i)})
    <3> DEFINE M(v, k) == Min({MaxLong, Cardinality({f \in Matches(input, Node) : f[v] = k})})
    <3>1. AllUses = {1} \cup UNION {{M(v, k) : k \in DOMAIN input[v]} : v \in Node}
      BY DEF AllUses, AllUsesOf
    <3>2. \A v, k : M(v, k) = Min({MaxLong, Uses(v, k)})
      BY DEF Uses
    <3> HIDE DEF M
    <3>3. x \in AllUses <=> x = 1 \/ \E v \in Node : \E k \in DOMAIN input[v] : x = M(v, k)
      BY <3>1
    <3> QED BY <3>2, <3>3
  <2> QED BY <1>1, <1>3, <2>1
<1>5. 1 \in 0 .. MaxLong
  BY WidthAssumption
<1>6. ASSUME NEW x \in AllUses PROVE x \in 0 .. MaxLong
  <2>1. CASE x = 1
    BY <1>5, <2>1
  <2>2. CASE x # 1
    <3>1. PICK u \in Node : \E i \in 1 .. Len(input[u]) : x = Cap(Uses(u, i))
      BY <1>4, <2>2
    <3> QED BY <1>3, <3>1
  <2> QED BY <2>1, <2>2
<1> QED BY <1>2, <1>4, <1>6

-----------------------------------------------------------------------------
(* The downward pass.                                                      *)
(* The invariant: the rows of the root and of the children of the visited  *)
(* nodes have their counts outside, and the sensitivity is the largest     *)
(* number of uses of a visited row.                                        *)
RootOutside ==
  stage \in {"bounds", "combine", "up"} =>
    sensitivity = 1 /\ OutsideExact(Root)

DownTyped ==
  /\ outside = [u \in Node |-> outside[u]]
  /\ rrs \in Int
  /\ stage = "down" => Ascending(todo)

CompletedSoFar ==
  stage \in {"down", "pad"} /\ Narrow =>
    /\ sensitivity \in AllUses /\ sensitivity >= 1
    /\ stage = "down" => \A u \in Node : u = Root \/ ~Named(todo, Parent[u]) => OutsideExact(u)
    /\ \A u \in Node : (stage = "down" /\ Named(todo, u)) \/ CoversUses(u)

DownInv == UpInv /\ RootOutside /\ DownTyped /\ CompletedSoFar

(* Outside the root's subtree there is only the root. *)
LEMMA RootAlone ==
  ASSUME Database(input), NEW i \in 1 .. Len(input[Root])
  PROVE  Cardinality(Through(input, Outer(Root), Root, i)) = 1
<1>1. Root \in Node
  BY TreeAssumption
<1>2. Outer(Root) = {Root}
  BY <1>1, RootSubtree DEF Outer
<1> QED BY <1>1, <1>2, AloneCount

LEMMA DownInit == Init => RootOutside /\ DownTyped /\ CompletedSoFar
<1> SUFFICES ASSUME Init PROVE RootOutside /\ DownTyped /\ CompletedSoFar
  OBVIOUS
<1>1. /\ input \in Inputs /\ stage \in {"bounds", "up"} /\ rrs = -1 /\ sensitivity = 1
      /\ outside = [u \in Node |-> [i \in DOMAIN input[u] |-> IF u = Root THEN 1 ELSE 0]]
  BY Zenon DEF Init
<1>2. Root \in Node /\ Database(input) /\ DOMAIN input[Root] = 1 .. Len(input[Root])
  BY <1>1, TreeAssumption, InputFacts
<1>3. OutsideExact(Root)
  <2>1. ASSUME NEW i \in 1 .. Len(input[Root])
        PROVE  outside[Root][i] = Cap(Cardinality(Through(input, Outer(Root), Root, i)))
    <3>1. outside[Root][i] = 1
      BY <1>1, <1>2
    <3>2. Cap(1) = 1
      BY WidthAssumption DEF Cap
    <3> QED BY <1>2, <3>1, <3>2, RootAlone
  <2> QED BY <2>1 DEF OutsideExact
<1>4. RootOutside
  BY <1>1, <1>3 DEF RootOutside
<1>5. DownTyped
  BY <1>1 DEF DownTyped
<1> QED BY <1>1, <1>4, <1>5 DEF CompletedSoFar

(* What depends on the database alone stays. *)
LEMMA KeepsUses ==
  ASSUME UNCHANGED input
  PROVE  /\ Narrow' <=> Narrow
         /\ AllUses' = AllUses
         /\ \A u, i : Uses(u, i)' = Uses(u, i)
<1>1. \A u, i : Uses(u, i)' = Uses(u, i)
  BY DEF Uses
<1>2. AllUses' = AllUses
  BY DEF AllUses
<1> QED BY <1>1, <1>2, KeepsNarrow

LEMMA AddRootStarts ==
  ASSUME DownInv, AddRoot
  PROVE  RootOutside' /\ DownTyped' /\ CompletedSoFar'
<1>1. /\ stage = "up" /\ stage' = (IF sized THEN "done" ELSE "down")
      /\ todo' = (IF sized THEN <<>> ELSE BfsOrder)
      /\ UNCHANGED <<input, outside, rrs, sensitivity>>
  BY Zenon DEF AddRoot
<1>2. /\ sensitivity = 1 /\ OutsideExact(Root) /\ outside = [u \in Node |-> outside[u]] /\ rrs \in Int
      /\ input \in Inputs
  BY <1>1 DEF DownInv, RootOutside, DownTyped, UpInv, Typed
<1>3. OutsideExact(Root)'
  BY <1>1, <1>2 DEF OutsideExact
<1>4. 1 \in AllUses'
  BY <1>1, <1>2, AllUsesAre, KeepsUses
<1>5. CASE sized
  BY <1>1, <1>2, <1>5 DEF RootOutside, DownTyped, CompletedSoFar
<1>6. CASE ~sized
  <2>1. todo' = BfsOrder /\ stage' = "down"
    BY <1>1, <1>6
  <2>2. Ascending(todo)' /\ \A u \in Node : Named(todo, u)'
    BY <2>1, BfsOrderIs DEF Ascending, Named
  <2>3. ASSUME NEW u \in Node PROVE Named(todo, u)' /\ (u = Root \/ Named(todo, Parent[u])')
    <3>1. u = Root \/ Parent[u] \in Node
      BY ParentFacts DEF NonRoot
    <3> QED BY <2>2, <3>1
  <2> QED BY <1>1, <1>2, <1>3, <1>4, <2>1, <2>2, <2>3 DEF RootOutside, DownTyped, CompletedSoFar
<1> QED BY <1>5, <1>6

(* One visit completes the rows of the children; the node's own were       *)
(* completed when its parent was visited, which is less deep.              *)
LEMMA CompleteNodeKeeps ==
  ASSUME DownInv, CompleteNode
  PROVE  RootOutside' /\ DownTyped' /\ CompletedSoFar'
<1>0. PICK p : p = Head(todo)
  OBVIOUS
<1>1. /\ stage = "down" /\ todo # <<>>
      /\ sensitivity' = SensitivityWith(p)
      /\ outside' = [u \in Node |-> IF u \in ChildSet(p) THEN [r \in DOMAIN input[u] |-> OutsideOf(u, r)]
                                    ELSE outside[u]]
      /\ todo' = Tail(todo)
      /\ UNCHANGED <<input, stage, rrs, delta>>
  BY <1>0 DEF CompleteNode
<1>2. /\ input \in Inputs /\ todo \in Seq(Node) /\ Ascending(todo) /\ rrs \in Int
      /\ DOMAIN delta[p] = 1 .. Len(input[p]) \/ p \notin Node
  BY <1>1 DEF DownInv, DownTyped, UpInv, Typed
<1>3. /\ p \in Node /\ Ascending(todo')
      /\ \A u : Named(todo, u) <=> u = p \/ Named(todo', u)
      /\ \A u : Named(todo, u) => Depth[u] >= Depth[p]
  BY <1>0, <1>1, <1>2, RestOfOrder
<1>4. DownTyped'
  <2>1. Ascending(todo)'
    BY <1>3 DEF Ascending
  <2>2. outside' = [u \in Node |-> outside'[u]]
    BY <1>1
  <2> QED BY <1>1, <1>2, <2>1, <2>2 DEF DownTyped
<1>5. RootOutside'
  BY <1>1 DEF RootOutside
<1>6. ASSUME Narrow PROVE CompletedSoFar'
  <2>1. /\ \A u \in Node : Exact(u) /\ CountsExact(u)
        /\ sensitivity \in AllUses
        /\ \A u \in Node : u = Root \/ ~Named(todo, Parent[u]) => OutsideExact(u)
        /\ \A u \in Node : Named(todo, u) \/ CoversUses(u)
    BY <1>1, <1>6 DEF DownInv, UpInv, CountedAll, Counted, CompletedSoFar
  <2>2. OutsideExact(p)
    <3>1. CASE p = Root
      BY <1>3, <2>1, <3>1
    <3>2. CASE p # Root
      <4>1. p \in NonRoot
        BY <1>3, <3>2 DEF NonRoot
      <4>2. Parent[p] \in Node /\ Depth[p] = 1 + Depth[Parent[p]] /\ Depth[Parent[p]] \in Int
        BY <4>1, ParentFacts, DepthType
      <4>3. ~Named(todo, Parent[p])
        BY <1>3, <4>2
      <4> QED BY <1>3, <2>1, <4>3
    <3> QED BY <3>1, <3>2
  <2>3. /\ \A x : x \in AllUses <=> x = 1 \/ \E u \in Node : \E i \in 1 .. Len(input[u]) : x = Cap(Uses(u, i))
        /\ AllUses \subseteq 0 .. MaxLong
    BY <1>2, AllUsesAre
  <2> DEFINE X == {sensitivity} \cup {satMul(outside[p][i], delta[p][i]) : i \in DOMAIN input[p]}
  <2>4. DOMAIN input[p] = 1 .. Len(input[p])
    BY <1>2, <1>3, InputFacts
  <2>5. \A i \in 1 .. Len(input[p]) : satMul(outside[p][i], delta[p][i]) = Cap(Uses(p, i))
    BY <1>2, <1>3, <2>1, <2>2, UsesIs
  <2>6. /\ X \subseteq AllUses /\ sensitivity \in X
        /\ \A i \in 1 .. Len(input[p]) : Cap(Uses(p, i)) \in X
    BY <1>3, <2>1, <2>3, <2>4, <2>5
  <2>7. sensitivity' = Max(X)
    BY <1>1 DEF SensitivityWith
  <2> HIDE DEF X
  <2>8. Max(X) \in X /\ \A x \in X : Max(X) >= x
    BY <2>3, <2>6, MaxIs
  <2>9. sensitivity' \in AllUses /\ sensitivity' >= sensitivity /\ sensitivity \in Int /\ sensitivity' \in Int
        /\ \A i \in 1 .. Len(input[p]) : sensitivity' >= Cap(Uses(p, i))
    <3>1. sensitivity' \in AllUses /\ sensitivity' >= sensitivity
      BY <2>6, <2>7, <2>8
    <3>2. sensitivity \in Int /\ sensitivity' \in Int
      BY <2>1, <2>3, <3>1, WidthAssumption
    <3>3. \A i \in 1 .. Len(input[p]) : sensitivity' >= Cap(Uses(p, i))
      BY <2>6, <2>7, <2>8
    <3> QED BY <3>1, <3>2, <3>3
  <2>10. sensitivity' >= 1
    BY <1>1, <1>6, <2>9 DEF DownInv, CompletedSoFar
  <2>11. ASSUME NEW u \in Node, ~Named(todo', u) PROVE CoversUses(u)'
    <3>1. \A i : Uses(u, i)' = Uses(u, i) /\ Cap(Uses(u, i)) \in Int
      <4> TAKE i
      <4>1. Uses(u, i) \in Nat
        BY <1>2, AllUsesAre
      <4>2. Cap(Uses(u, i)) \in Nat
        BY <4>1, MinIsCap
      <4> QED BY <1>1, <4>2, KeepsUses
    <3>2. CASE u = p
      BY <1>1, <2>9, <3>1, <3>2 DEF CoversUses
    <3>3. CASE u # p
      <4>1. CoversUses(u)
        BY <1>3, <2>1, <2>11, <3>3
      <4>2. \A i \in 1 .. Len(input[u]) : sensitivity' >= Cap(Uses(u, i))
        BY <2>9, <3>1, <4>1 DEF CoversUses
      <4> QED BY <1>1, <3>1, <4>2 DEF CoversUses
    <3> QED BY <3>2, <3>3
  <2>12. ASSUME NEW u \in Node, u = Root \/ ~Named(todo', Parent[u]) PROVE OutsideExact(u)'
    <3>1. CASE u \in ChildSet(p)
      <4>1. u \in NonRoot /\ Parent[u] = p
        BY <1>3, <3>1, ChildFacts
      <4>2. \A r \in 1 .. Len(input[u]) : OutsideOf(u, r) = Cap(Cardinality(Through(input, Outer(u), u, r)))
        BY <1>2, <1>3, <1>6, <2>1, <2>2, <4>1, OutsideOfIs
      <4>3. DOMAIN input[u] = 1 .. Len(input[u])
        BY <1>2, InputFacts
      <4>4. \A r \in 1 .. Len(input[u]) : outside'[u][r] = OutsideOf(u, r)
        BY <1>1, <3>1, <4>3
      <4> QED BY <1>1, <4>2, <4>4 DEF OutsideExact
    <3>2. CASE u \notin ChildSet(p)
      <4>1. u = Root \/ Parent[u] # p
        BY <3>2 DEF ChildSet
      <4>2. OutsideExact(u)
        BY <1>3, <2>1, <2>12, <4>1
      <4>3. outside'[u] = outside[u]
        BY <1>1, <3>2
      <4> QED BY <1>1, <4>2, <4>3 DEF OutsideExact
    <3> QED BY <3>1, <3>2
  <2>13. (sensitivity \in AllUses)' /\ (sensitivity >= 1)'
    BY <1>1, <2>9, <2>10, KeepsUses
  <2> QED BY <1>1, <2>11, <2>12, <2>13 DEF CompletedSoFar, Named
<1>7. ~Narrow => CompletedSoFar'
  BY <1>1, KeepsNarrow DEF CompletedSoFar
<1> QED BY <1>4, <1>5, <1>6, <1>7

-----------------------------------------------------------------------------
(* The engine's answer is a number. *)
LengthProduct(db, S) == SatProduct(S, LAMBDA j : Len(db[j]))

LEMMA LengthProductType ==
  ASSUME NEW db, Database(db), NEW S, S \subseteq Node
  PROVE  LengthProduct(db, S) \in 0 .. MaxLong
<1> DEFINE w == [j \in S |-> Len(db[j])]
           F == [j \in S |-> 1 .. Len(db[j])]
           G(g) == [s \in SUBSET S |-> IF s = {} THEN 1
                    ELSE satMul(g[s \ {CHOOSE x \in s : TRUE}], Len(db[CHOOSE x \in s : TRUE]))]
           prod == CHOOSE g : g = G(g)
<1>1. LengthProduct(db, S) = prod[S]
  BY Zenon DEF LengthProduct, SatProduct, FoldSet, MapThenFoldSet
<1>2. ASSUME NEW j \in S PROVE w[j] = Len(db[j]) /\ IsFiniteSet(F[j]) /\ w[j] = Cardinality(F[j])
  <2>1. PICK m \in Nat : m = Len(db[j])
    BY DEF Database
  <2>2. IsFiniteSet(1 .. m) /\ Cardinality(1 .. m) = m
    BY FS_Interval
  <2> QED BY <2>1, <2>2
<1>3. IsFiniteSet(S)
  BY NodesFinite
<1> HIDE DEF w, F
<1>4. /\ \E it : SatProductOf(it, w, S)
      /\ \A it : SatProductOf(it, w, S) => it[S] = Cap(Cardinality(Picks(F, S)))
  BY <1>2, <1>3, SatProductIsPicks
<1>5. \A g : SatProductOf(g, w, S) <=> g = G(g)
  <2>1. \A s \in SUBSET S : s # {} => Len(db[CHOOSE x \in s : TRUE]) = w[CHOOSE x \in s : TRUE]
    BY <1>2
  <2>2. \A g : G(g) = [s \in SUBSET S |-> IF s = {} THEN 1
                         ELSE satMul(g[s \ {CHOOSE x \in s : TRUE}], w[CHOOSE x \in s : TRUE])]
    BY <2>1
  <2> HIDE DEF G
  <2> QED BY <2>2 DEF SatProductOf
<1> HIDE DEF G
<1>6. prod = G(prod)
  BY <1>4, <1>5
<1>7. LengthProduct(db, S) = Cap(Cardinality(Picks(F, S)))
  BY <1>1, <1>4, <1>5, <1>6
<1>8. Cardinality(Picks(F, S)) \in Nat
  <2>1. IsFiniteSet(Picks(F, S))
    BY <1>2, <1>3, ProductIsChoices
  <2> QED BY <2>1, FS_CardinalityType
<1> QED BY <1>7, <1>8, WidthAssumption DEF Cap

LEMMA SensitivitiesType ==
  ASSUME NEW db, Database(db), NEW t
  PROVE  Sensitivities(db, t) \subseteq Int
<1> DEFINE X == {1} \cup {LengthProduct(db, Node \ {i}) : i \in Node}
<1>1. GlobalSensitivity(db) = Max(X)
  BY Zenon DEF GlobalSensitivity, LengthProduct
<1>2. X \subseteq 0 .. MaxLong /\ X # {}
  <2>1. \A i \in Node : LengthProduct(db, Node \ {i}) \in 0 .. MaxLong
    <3> TAKE i \in Node
    <3>1. Node \ {i} \subseteq Node
      OBVIOUS
    <3> QED BY <3>1, LengthProductType
  <2>2. 1 \in 0 .. MaxLong
    BY WidthAssumption
  <2>3. 1 \in X
    OBVIOUS
  <2>4. \A x \in X : x = 1 \/ \E i \in Node : x = LengthProduct(db, Node \ {i})
    OBVIOUS
  <2> HIDE DEF X
  <2> QED BY <2>1, <2>2, <2>3, <2>4
<1> HIDE DEF X
<1>3. PICK g : g = GlobalSensitivity(db)
  OBVIOUS
<1>4. g \in Int
  <2>1. Max(X) \in X
    BY <1>2, MaxIs
  <2>2. g \in 0 .. MaxLong
    BY <1>1, <1>2, <1>3, <2>1
  <2> QED BY <2>2
<1>5. PICK least : least = Min({ResidualAtZero(estTE(t)), ResidualAtZero(rrsTE(t)), ResidualAtZero(hybridTE(t))})
  OBVIOUS
<1>6. Sensitivities(db, t) = {Max({1, Min({s, g})}) : s \in least .. MaxLong}
  BY <1>3, <1>5 DEF Sensitivities
<1>7. ASSUME NEW s \in least .. MaxLong PROVE Max({1, Min({s, g})}) \in Int
  <2>1. s \in Int
    OBVIOUS
  <2>2. PICK m : m = Min({s, g})
    OBVIOUS
  <2>3. m \in Int
    BY <1>4, <2>1, <2>2 DEF Min
  <2>4. Max({1, m}) \in Int
    BY <2>3 DEF Max
  <2> QED BY <2>2, <2>4
<1> QED BY <1>6, <1>7

LEMMA CombineKeeps ==
  ASSUME DownInv, CombineBounds
  PROVE  RootOutside' /\ DownTyped' /\ CompletedSoFar'
<1>1. /\ stage = "combine" /\ stage' = "up" /\ rrs' \in Sensitivities(input, te)
      /\ UNCHANGED <<input, outside, sensitivity, todo>>
  BY Zenon DEF CombineBounds
<1>2. input \in Inputs /\ sensitivity = 1 /\ OutsideExact(Root) /\ outside = [u \in Node |-> outside[u]]
  BY <1>1 DEF DownInv, RootOutside, DownTyped, UpInv, Typed
<1>3. rrs' \in Int
  BY <1>1, <1>2, InputFacts, SensitivitiesType
<1>4. OutsideExact(Root)'
  BY <1>1, <1>2 DEF OutsideExact
<1> QED BY <1>1, <1>2, <1>3, <1>4 DEF RootOutside, DownTyped, CompletedSoFar

(* A step that leaves the downward pass alone. *)
LEMMA DownKeeps ==
  ASSUME DownInv, UNCHANGED <<input, outside, sensitivity, rrs, todo>>,
         \/ Before /\ Before'
         \/ UNCHANGED stage
         \/ stage = "down" /\ stage' = "pad" /\ todo = <<>>
  PROVE  RootOutside' /\ DownTyped' /\ CompletedSoFar'
<1>1. /\ Narrow' <=> Narrow
      /\ AllUses' = AllUses
      /\ \A u, i : Uses(u, i)' = Uses(u, i)
  BY KeepsUses
<1>2. \A u : OutsideExact(u)' <=> OutsideExact(u)
  BY DEF OutsideExact
<1>3. \A u : CoversUses(u)' <=> CoversUses(u)
  BY <1>1 DEF CoversUses
<1>4. (Ascending(todo)' <=> Ascending(todo)) /\ \A u : Named(todo, u)' <=> Named(todo, u)
  BY DEF Ascending, Named
<1>5. todo = <<>> => \A u : ~Named(todo, u)
  BY DEF Named
<1>6. RootOutside'
  BY <1>2 DEF DownInv, RootOutside, Before
<1>7. DownTyped'
  BY <1>4 DEF DownInv, DownTyped, Before
<1>8. CompletedSoFar'
  <2>1. CASE Before /\ Before'
    BY <2>1 DEF CompletedSoFar, Before
  <2>2. CASE UNCHANGED stage
    BY <1>1, <1>2, <1>3, <1>4, <2>2 DEF DownInv, CompletedSoFar
  <2>3. CASE stage = "down" /\ stage' = "pad" /\ todo = <<>>
    BY <1>1, <1>2, <1>3, <1>5, <2>3 DEF DownInv, CompletedSoFar
  <2> QED BY <2>1, <2>2, <2>3
<1> QED BY <1>6, <1>7, <1>8

LEMMA DownStep == ASSUME DownInv, [Next]_vars PROVE DownInv'
<1>0. UpInv'
  BY UpStep DEF DownInv
<1>1. CASE EnumerateBounds
  BY <1>0, <1>1, DownKeeps DEF EnumerateBounds, Before, DownInv
<1>2. CASE CombineBounds
  BY <1>0, <1>2, CombineKeeps DEF DownInv
<1>3. CASE CountNode
  <2>1. /\ stage = "up" /\ stage' = stage /\ UNCHANGED <<input, outside, sensitivity, rrs>>
    BY <1>3, Zenon DEF CountNode
  <2>2. RootOutside'
    <3>1. OutsideExact(Root)' <=> OutsideExact(Root)
      BY <2>1 DEF OutsideExact
    <3> QED BY <2>1, <3>1 DEF DownInv, RootOutside
  <2>3. DownTyped' /\ CompletedSoFar'
    BY <2>1 DEF DownInv, DownTyped, CompletedSoFar
  <2> QED BY <1>0, <2>2, <2>3 DEF DownInv
<1>4. CASE AddRoot
  BY <1>0, <1>4, AddRootStarts DEF DownInv
<1>5. CASE CompleteNode
  BY <1>0, <1>5, CompleteNodeKeeps DEF DownInv
<1>6. CASE EndDown
  BY <1>0, <1>6, DownKeeps DEF EndDown, DownInv
<1>7. CASE Pad
  <2>1. stage' = "done" /\ UNCHANGED <<outside, rrs>>
    BY <1>7, Zenon DEF Pad
  <2> QED BY <1>0, <2>1 DEF DownInv, RootOutside, DownTyped, CompletedSoFar
<1>8. CASE UNCHANGED vars
  <2>1. UNCHANGED <<input, outside, sensitivity, rrs, todo>> /\ UNCHANGED stage
    BY <1>8 DEF vars
  <2> QED BY <1>0, <2>1, DownKeeps DEF DownInv
<1> QED BY <1>1, <1>2, <1>3, <1>4, <1>5, <1>6, <1>7, <1>8 DEF Next

LEMMA DownInvariant == Spec => []DownInv
<1>1. Init => DownInv
  BY UpInit, DownInit DEF DownInv
<1>2. DownInv /\ [Next]_vars => DownInv'
  BY DownStep
<1> QED BY <1>1, <1>2, PTL DEF Spec

(* computeOutputSizeStats: at the end of the downward pass the sensitivity *)
(* is the largest number of answers that use one row, and at least 1.      *)
THEOREM SensitivityExactTheorem == Spec => []SensitivityExact
<1>1. DownInv => SensitivityExact
  <2> SUFFICES ASSUME DownInv, stage = "pad", Narrow PROVE sensitivity = Max(AllUses)
    BY DEF SensitivityExact, AllUses, AllUsesOf, Uses
  <2>1. /\ sensitivity \in AllUses /\ sensitivity >= 1 /\ \A u \in Node : CoversUses(u)
        /\ input \in Inputs
    BY DEF DownInv, CompletedSoFar, UpInv, Typed
  <2>2. /\ AllUses \subseteq 0 .. MaxLong
        /\ \A x : x \in AllUses <=> x = 1 \/ \E u \in Node : \E i \in 1 .. Len(input[u]) : x = Cap(Uses(u, i))
    BY <2>1, AllUsesAre
  <2>3. \A x \in AllUses : sensitivity >= x
    BY <2>1, <2>2 DEF CoversUses
  <2>4. Max(AllUses) \in AllUses /\ \A x \in AllUses : Max(AllUses) >= x
    BY <2>1, <2>2, MaxIs
  <2>5. sensitivity \in Int /\ Max(AllUses) \in Int
    <3>1. sensitivity \in 0 .. MaxLong /\ Max(AllUses) \in 0 .. MaxLong
      BY <2>1, <2>2, <2>4
    <3> QED BY <3>1
  <2> QED BY <2>1, <2>3, <2>4, <2>5
<1> QED BY <1>1, DownInvariant, PTL

-----------------------------------------------------------------------------
(* The largest of the answer and other numbers, cut at an int. *)
LEMMA PadCovers ==
  ASSUME NEW e, NEW n \in Nat, e = Cap(n), NEW x \in Int
  PROVE  Min({MaxInt, Max({1, e, x})}) >= Min({MaxInt, n})
<1>1. MaxInt \in Nat /\ MaxLong \in Nat /\ MaxLong > MaxInt
  BY WidthAssumption
<1>2. e \in Nat /\ (e = n \/ (e = MaxLong /\ n > MaxLong))
  BY <1>1 DEF Cap
<1>3. PICK t : t = Max({1, e, x})
  OBVIOUS
<1>4. t \in {1, e, x} /\ \A y \in {1, e, x} : t >= y
  <2>1. \E m \in {1, e, x} : \A y \in {1, e, x} : m >= y
    BY <1>2
  <2> QED BY <1>3, <2>1 DEF Max
<1>5. t \in Int /\ t >= e
  BY <1>2, <1>4
<1>6. ASSUME NEW y \in Int PROVE Min({MaxInt, y}) = IF y < MaxInt THEN y ELSE MaxInt
  BY <1>1 DEF Min
<1>7. /\ Min({MaxInt, t}) = IF t < MaxInt THEN t ELSE MaxInt
      /\ Min({MaxInt, n}) = IF n < MaxInt THEN n ELSE MaxInt
  BY <1>5, <1>6
<1> QED BY <1>1, <1>2, <1>3, <1>5, <1>7

Given == explicitRows \in ExplicitChoices

LEMMA PadStep ==
  ASSUME DownInv, Given, Pad, Narrow
  PROVE  protectedRows' >= Min({MaxInt, JoinSize(input)})
<1>1. /\ stage = "pad" /\ sensitivity' = (IF rrs > 0 THEN rrs ELSE sensitivity)
      /\ protectedRows' = Min({MaxInt, Target(sensitivity')})
  BY Zenon DEF Pad
<1>2. exactRows = Cap(JoinSize(input)) /\ input \in Inputs /\ rrs \in Int /\ sensitivity \in AllUses
  BY <1>1 DEF DownInv, UpInv, CountedAll, Counted, Typed, DownTyped, CompletedSoFar
<1>3. PICK s : s = sensitivity'
  OBVIOUS
<1>4. s \in Int
  BY <1>1, <1>2, <1>3, AllUsesAre, WidthAssumption
<1>5. JoinSize(input) \in Nat
  <2>1. Database(input) /\ Node \subseteq Node
    BY <1>2, InputFacts
  <2> QED BY <2>1, MatchesFinite, FS_CardinalityType DEF JoinSize
<1>6. exactRows \in Nat
  BY <1>2, <1>5, MinIsCap
<1>7. PICK noise : noise = satMul(Factor, Max({1, s}))
  OBVIOUS
<1>8. noise \in Int
  <2>1. PICK m : m = Max({1, s})
    OBVIOUS
  <2>2. m \in Int
    BY <1>4, <2>1 DEF Max
  <2>3. Factor * m \in Int
    BY <2>2, WidthAssumption
  <2> QED BY <1>7, <2>1, <2>3, WidthAssumption DEF satMul
<1>9. PICK x : x = IF explicitRows > 0 THEN explicitRows ELSE satAdd(exactRows, noise)
  OBVIOUS
<1>10. Target(s) = Max({1, exactRows, x})
  BY <1>7, <1>9 DEF Target
<1>11. x \in Int
  BY <1>6, <1>8, <1>9, WidthAssumption DEF satAdd, Given
<1> QED BY <1>1, <1>2, <1>3, <1>5, <1>10, <1>11, PadCovers

CoverInv == DownInv /\ Given /\ CoversAnswer

LEMMA CoverStep == ASSUME CoverInv, [Next]_vars PROVE CoverInv'
<1>0. DownInv' /\ DownInv /\ Given /\ CoversAnswer
  BY DownStep DEF CoverInv
<1>1. ASSUME UNCHANGED explicitRows, stage' # "done" PROVE CoverInv'
  BY <1>0, <1>1 DEF CoverInv, Given, CoversAnswer
<1>2. CASE EnumerateBounds
  BY <1>1, <1>2 DEF EnumerateBounds
<1>3. CASE CombineBounds
  BY <1>1, <1>3, Zenon DEF CombineBounds
<1>4. CASE CountNode
  <2>1. stage = "up" /\ UNCHANGED <<explicitRows, stage>>
    BY <1>4, Zenon DEF CountNode
  <2> QED BY <1>1, <2>1
<1>5. CASE AddRoot
  <2>1. UNCHANGED <<explicitRows, sized>> /\ stage' = (IF sized THEN "done" ELSE "down")
    BY <1>5, Zenon DEF AddRoot
  <2> QED BY <1>0, <2>1 DEF CoverInv, Given, CoversAnswer
<1>6. CASE CompleteNode
  <2>1. stage = "down" /\ UNCHANGED <<explicitRows, stage>>
    BY <1>6, Zenon DEF CompleteNode
  <2> QED BY <1>1, <2>1
<1>7. CASE EndDown
  BY <1>1, <1>7 DEF EndDown
<1>8. CASE Pad
  <2>1. UNCHANGED <<explicitRows, input>>
    BY <1>8, Zenon DEF Pad
  <2>2. Narrow' <=> Narrow
    BY <2>1, KeepsNarrow
  <2>3. Narrow => protectedRows' >= Min({MaxInt, JoinSize(input)})
    BY <1>0, <1>8, PadStep
  <2> QED BY <1>0, <2>1, <2>2, <2>3 DEF CoverInv, Given, CoversAnswer
<1>9. CASE UNCHANGED vars
  <2>1. UNCHANGED <<explicitRows, input, sized, stage, protectedRows>>
    BY <1>9 DEF vars
  <2>2. Narrow' <=> Narrow
    BY <2>1, KeepsNarrow
  <2> QED BY <1>0, <2>1, <2>2 DEF CoverInv, Given, CoversAnswer
<1> QED BY <1>2, <1>3, <1>4, <1>5, <1>6, <1>7, <1>8, <1>9 DEF Next

(* computeDOPaddingStats: whatever is given or added, the size handed to   *)
(* the join is not below the answer, as far as an int can say it.          *)
THEOREM CoversAnswerTheorem == Spec => []CoversAnswer
<1>1. Init => CoverInv
  <2> SUFFICES ASSUME Init PROVE CoverInv
    OBVIOUS
  <2>1. explicitRows \in ExplicitChoices /\ stage \in {"up", "bounds"}
    BY Zenon DEF Init
  <2> QED BY <2>1, UpInit, DownInit DEF CoverInv, DownInv, Given, CoversAnswer
<1>2. CoverInv /\ [Next]_vars => CoverInv'
  BY CoverStep
<1>3. CoverInv => CoversAnswer
  BY DEF CoverInv
<1> QED BY <1>1, <1>2, <1>3, PTL DEF Spec
=============================================================================
