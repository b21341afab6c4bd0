----------------------------- MODULE RRSSensitivity -----------------------------
(***************************************************************************)
(* RRSEngine: an upper bound on how many answers one row can account for,  *)
(* taken from bounds on the joins of all sets E of relations.              *)
(*                                                                         *)
(* The attributes of the query are the edges of the tree, each named by    *)
(* its child.  The boundary of E are the edges between E and the rest.     *)
(* What is bounded is the maximum boundary of E: the largest number of     *)
(* joined rows of E that agree on the boundary.  A relaxed boundary leaves *)
(* out some edges, which can only enlarge the bound.  The engine has two   *)
(* bounds for each relaxation, a product of degrees (EST) and the exact    *)
(* number (RST, where the relations on the boundary are so connected that  *)
(* it can be computed), and combines them in three ways.                   *)
(*                                                                         *)
(* The engine is a pure computation; the operators follow it.              *)
(***************************************************************************)
EXTENDS JoinTree

CONSTANTS
  MaxLong,    \* LLONG_MAX
  MaxRSTRows  \* kMaxExactRSTComponentRows

satMul(a, b) ==
  IF a <= 0 \/ b <= 0 THEN 0
  ELSE IF a > MaxLong \div b THEN MaxLong ELSE a * b

satAdd(a, b) == IF a > MaxLong - b THEN MaxLong ELSE a + b

SatProduct(S, f(_)) == FoldSet(LAMBDA c, acc : satMul(acc, f(c)), 1, S)

SatSum(S, f(_)) == FoldSet(LAMBDA i, acc : satAdd(acc, f(i)), 0, S)

-----------------------------------------------------------------------------
(* The sets of relations that the loops over E go through. *)
Subsets == (SUBSET Node) \ {{}, Node}

relAttrs(r) == {a \in NonRoot : a = r \/ Parent[a] = r}

attrColumn(r, a) == IF a = r THEN ColInChild[a] ELSE ColInParent[a]

OtherEnd(r, a) == IF a = r THEN Parent[a] ELSE a

BoundaryAttrs(E) == {a \in NonRoot : (a \in E) # (Parent[a] \in E)}

(* The edge that leads from j towards r. *)
EdgeTowards(j, r) ==
  IF r \in Subtree[j] THEN CHOOSE c \in ChildSet(j) : r \in Subtree[c] ELSE j

(* Rows of r that agree with row i on the attributes A. *)
Alike(db, r, A, i) ==
  {k \in DOMAIN db[r] : \A a \in A : db[r][k].keys[attrColumn(r, a)] = db[r][i].keys[attrColumn(r, a)]}

degree(db, r, A) == Max({1} \cup {Cardinality(Alike(db, r, A, i)) : i \in DOMAIN db[r]})

(* Towards an r outside, a row of j has as many continuations as its       *)
(* degree on the edge that leads there and on its part of the boundary.    *)
ComputeEST(db, E, boundary) ==
  LET Towards(r) == SatProduct(E, LAMBDA j :
                      degree(db, j, {EdgeTowards(j, r)} \cup (boundary \cap relAttrs(j))))
  IN  Max({1} \cup {Towards(r) : r \in Node \ E})

-----------------------------------------------------------------------------
Components(E) ==
  LET top[u \in Node] == IF u # Root /\ Parent[u] \in E THEN top[Parent[u]] ELSE u
  IN  {{u \in E : top[u] = t} : t \in {top[u] : u \in E}}

(* How many joined rows of C use each row of v: the number of continuations *)
(* along every edge inside C, from the far end.                            *)
RowsWith(db, C, v) ==
  LET ways[e \in C \X (C \cup {-1})] ==  \* of e[1], seen from its neighbour e[2]
        LET u == e[1]
            inner == {a \in relAttrs(u) : OtherEnd(u, a) \in C \ {e[2]}}
            Continuations(i, a) ==
              LET w == OtherEnd(u, a)
              IN  SatSum({k \in DOMAIN db[w] : db[w][k].keys[attrColumn(w, a)] = db[u][i].keys[attrColumn(u, a)]},
                         LAMBDA k : ways[<<w, u>>][k])
        IN  [i \in DOMAIN db[u] |-> SatProduct(inner, LAMBDA a : Continuations(i, a))]
  IN  ways[<<v, -1>>]

(* mutant: rows that agree on the boundary are not added up *)
LargestRow(db, C, v, A) ==
  LET ways == RowsWith(db, C, v)
  IN  Max({1} \cup {ways[i] : i \in DOMAIN db[v]})

(* The largest sum over the rows of v that agree on A. *)
GroupMax(db, C, v, A) ==
  LET ways == RowsWith(db, C, v)
  IN  Max({1} \cup {SatSum(Alike(db, v, A, i), LAMBDA k : ways[k]) : i \in DOMAIN db[v]})

(* The exact maximum boundary of a component; -1 when its boundary edges   *)
(* do not all start at one relation, the carrier.                          *)
ComponentMaxBoundary(db, E, C, boundary) ==
  LET outer(u) == {a \in relAttrs(u) \cap boundary : OtherEnd(u, a) \notin E}
      carriers == {u \in C : outer(u) # {}}
      v == IF carriers = {} THEN Min(C) ELSE CHOOSE u \in carriers : TRUE
  IN  IF Cardinality(carriers) > 1 THEN -1
      ELSE IF Cardinality(C) = 1 THEN degree(db, v, outer(v))
      ELSE GroupMax(db, C, v, outer(v))

(* A component of several relations is given up when it has too many rows. *)
ComponentBound(db, E, C, boundary) ==
  IF Cardinality(C) > 1 /\ MapThenSumSet(LAMBDA u : Len(db[u]), C) > MaxRSTRows THEN -1
  ELSE ComponentMaxBoundary(db, E, C, boundary)

(* The product over the components, -1 when one of them has no bound. *)
ComputeRST(db, E, boundary) ==
  IF \E C \in Components(E) : ComponentBound(db, E, C, boundary) < 0 THEN -1
  ELSE SatProduct(Components(E), LAMBDA C : ComponentBound(db, E, C, boundary))

-----------------------------------------------------------------------------
(* firstTE and thirdTE: both bounds for all relaxations y of all E. *)
Relaxations(E) == SUBSET BoundaryAttrs(E)

Enumerate(db) ==
  [E \in Subsets |-> [y \in Relaxations(E) |->
     [rst |-> ComputeRST(db, E, BoundaryAttrs(E) \ y),
      est |-> ComputeEST(db, E, BoundaryAttrs(E) \ y)]]]

(* The degree bounds alone.  A bound that has been cut at MaxLong is taken *)
(* for one that was not found, and replaced by 1.                          *)
estTE(te) ==
  [E \in Subsets |-> LET least == Min({te[E][y].est : y \in Relaxations(E)})
                     IN  IF least = MaxLong THEN 1 ELSE least]

Supersets(E) == {E \cup {r} : r \in Node \ E} \ {Node}

(* The exact bounds where they are smaller, and where that is so for all   *)
(* the sets with one more relation.                                        *)
rrsTE(te) ==
  LET rst(E) == {te[E][y].rst : y \in Relaxations(E)} \ {-1, MaxLong}
      useRST[E \in Subsets] ==
        /\ rst(E) # {} /\ Min(rst(E)) < estTE(te)[E]
        /\ \A F \in Supersets(E) : useRST[F]
  IN  [E \in Subsets |-> IF useRST[E] THEN Min(rst(E)) ELSE estTE(te)[E]]

(* The number that a mask has in the loops. *)
Mask(y) == MapThenSumSet(LAMBDA a : 2^a, y)

(* The relaxations of larger sets are kept for smaller ones, and once a    *)
(* degree bound has been taken, smaller sets take degree bounds too.  The  *)
(* first of several least candidates counts.                               *)
hybridTE(te) ==
  LET chosen[E \in Subsets] ==
        LET required == UNION {chosen[F].relax : F \in Supersets(E)} \cap BoundaryAttrs(E)
            degreesOnly == \E F \in Supersets(E) : chosen[F].type = "est"
            Candidate(y, t, n) ==
              [relax |-> y, type |-> t, turn |-> n,
               value |-> IF t = "rst" THEN te[E][y].rst ELSE te[E][y].est]
            exact == {Candidate(required, "rst", -2)} \cup
                     {Candidate(y, "rst", Mask(y)) : y \in {z \in Relaxations(E) : required \subseteq z}}
            candidates == {Candidate(required, "est", -1)} \cup (IF degreesOnly THEN {} ELSE exact)
            possible == {c \in candidates : c.value > 0 /\ c.value < MaxLong}
            First(c) == \A d \in possible :
                          c.value < d.value \/ (c.value = d.value /\ c.turn <= d.turn)
        IN  IF possible = {} THEN [relax |-> {}, type |-> "est", turn |-> 0, value |-> estTE(te)[E]]
            ELSE CHOOSE c \in possible : First(c)
  IN  [E \in Subsets |-> chosen[E].value]

(* mutant: the relation with the fewest other rows *)
SmallestProduct(db) ==
  Min({SatProduct(Node \ {i}, LAMBDA j : Len(db[j])) : i \in Node})

GlobalSensitivity(db) ==
  Max({1} \cup {SatProduct(Node \ {i}, LAMBDA j : Len(db[j])) : i \in Node})

(* ResidualCalculator returns the largest of numbers for growing distances *)
(* k from the database, each with a factor that falls with k.  The one for *)
(* k = 0 is the largest bound on all relations but one: the result is that *)
(* or more.                                                                *)
ResidualAtZero(T) == IF N = 1 THEN 1 ELSE Max({1} \cup {T[Node \ {i}] : i \in Node})

(* What the engine may answer: the least of the three residuals and the    *)
(* global sensitivity.                                                     *)
Sensitivities(db, te) ==
  LET least == Min({ResidualAtZero(estTE(te)), ResidualAtZero(rrsTE(te)), ResidualAtZero(hybridTE(te))})
  IN  {Max({1, Min({s, GlobalSensitivity(db)})}) : s \in least .. MaxLong}
=============================================================================
