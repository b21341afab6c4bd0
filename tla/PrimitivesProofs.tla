--------------------------- MODULE PrimitivesProofs ---------------------------
(***************************************************************************)
(* Proofs about the primitives, for every team, array, marking and set of  *)
(* multiplicities: no two threads of the parallel sort and no two calls of *)
(* the compaction or of the expansion ever work on the same places.        *)
(*                                                                         *)
(* The three parts are independent.  In each, the invariant says why two   *)
(* that are at work are apart: they are in the same round and have shares  *)
(* of its pairs (the sort), or one of them is made, through others, by the *)
(* other, which has waited for it (the compaction) or was done with its    *)
(* own swaps before (the expansion).                                       *)
(***************************************************************************)
EXTENDS Primitives, FiniteSetTheorems, WellFoundedInduction, TLAPS

-----------------------------------------------------------------------------
(* Least and greatest elements, and the sequences that functions are.      *)

LEMMA LeastOfNats ==
  ASSUME NEW X, X \subseteq Nat, X # {}
  PROVE  \E x \in X : \A y \in X : x <= y
<1>1. PICK x \in X : \A y \in X : ~(<<y, x>> \in OpToRel(<, Nat))
  BY NatLessThanWellFounded, WFMin
<1>2. \A y \in X : ~(y < x)
  BY <1>1 DEF OpToRel
<1> QED BY <1>2

LEMMA GreatestOfNats ==
  ASSUME NEW X, X \subseteq Nat, X # {}, NEW b \in Nat, \A x \in X : x <= b
  PROVE  \E x \in X : \A y \in X : x >= y
<1> DEFINE Y == {k \in Nat : \E x \in X : k = b - x}
<1>1. PICK x \in X : TRUE
  OBVIOUS
<1>0. x \in Nat /\ x <= b /\ b - x \in Nat
  OBVIOUS
<1>2. Y \subseteq Nat /\ Y # {}
  BY <1>0
<1>3. PICK k \in Y : \A m \in Y : k <= m
  <2> HIDE DEF Y
  <2> QED BY <1>2, LeastOfNats
<1>4. PICK z \in X : k = b - z
  BY <1>3
<1>5. ASSUME NEW y \in X PROVE z >= y
  <2>1. b - y \in Nat /\ y \in Nat /\ z \in Nat
    OBVIOUS
  <2>2. b - y \in Y
    BY <2>1
  <2>3. b - z <= b - y
    BY <2>2, <1>3, <1>4
  <2> HIDE DEF Y
  <2> QED BY <2>1, <2>3
<1> QED BY <1>5

LEMMA LenOf ==
  ASSUME NEW p \in Nat, NEW s, DOMAIN s = 1 .. p
  PROVE  Len(s) = p
OBVIOUS

LEMMA Division ==
  ASSUME NEW q \in Nat, NEW j \in Nat, j > 0
  PROVE  q = (q \div j) * j + (q % j)
OBVIOUS

LEMMA Quotient ==
  ASSUME NEW q \in Nat, NEW j \in Nat \ {0}
  PROVE  /\ q \div j \in Nat /\ q % j \in 0 .. j-1
         /\ q = (q \div j) * j + (q % j)
<1>1. q \div j \in Nat /\ q % j \in 0 .. j-1
  OBVIOUS
<1>2. q = (q \div j) * j + (q % j)
  BY Division
<1> QED BY <1>1, <1>2

LEMMA Multiples ==
  ASSUME NEW a \in Nat, NEW b \in Nat, NEW j \in Nat, a < b
  PROVE  a * j + j <= b * j /\ a * j \in Nat /\ b * j \in Nat
OBVIOUS

-----------------------------------------------------------------------------
(* The parallel sort. *)

(* The pairs of the places of a round with distance j are disjoint.        *)
LEMMA PairsDisjoint ==
  ASSUME NEW j \in Nat \ {0}, NEW q \in Nat, NEW r \in Nat, q # r
  PROVE  /\ S!Low(q, j) \in Nat
         /\ {S!Low(q, j), S!Low(q, j) + j} \cap {S!Low(r, j), S!Low(r, j) + j} = {}
<1> DEFINE a == q \div j   x == q % j   b == r \div j   y == r % j
<1>1. /\ a \in Nat /\ x \in 0 .. j-1 /\ q = a * j + x
      /\ b \in Nat /\ y \in 0 .. j-1 /\ r = b * j + y
  BY Quotient
<1>2. S!Low(q, j) = 2 * (a * j) + x /\ S!Low(r, j) = 2 * (b * j) + y
  BY <1>1 DEF S!Low
<1>3. a * j \in Nat /\ b * j \in Nat
  BY <1>1
<1> HIDE DEF a, b, x, y
<1>4. CASE a = b
  BY <1>1, <1>2, <1>3, <1>4
<1>5. CASE a < b
  <2>1. a * j + j <= b * j
    BY <1>1, <1>5, Multiples
  <2> QED BY <2>1, <1>1, <1>2, <1>3
<1>6. CASE b < a
  <2>1. b * j + j <= a * j
    BY <1>1, <1>6, Multiples
  <2> QED BY <2>1, <1>1, <1>2, <1>3
<1> QED BY <1>1, <1>4, <1>5, <1>6

LEMMA MinOfTwo ==
  ASSUME NEW a \in Int, NEW b \in Int
  PROVE  S!Min({a, b}) = IF a <= b THEN a ELSE b
BY DEF S!Min

(* The shares of the threads follow one another. *)
LEMMA SharesDisjoint ==
  ASSUME NEW p \in Nat, S!size = p
  PROVE  /\ \A t \in 0 .. Threads : S!First(t) \in Nat
         /\ \A t, u \in S!Team : t < u => S!First(t + 1) <= S!First(u)
<1> DEFINE w == (p \div 2) \div Threads
           m == (p \div 2) % Threads
<1>1. w \in Nat /\ m \in 0 .. Threads-1 /\ Threads \in Nat \ {0}
  <2>1. p \div 2 \in Nat
    OBVIOUS
  <2> QED BY <2>1, CompactAssumption, Quotient
<1> HIDE DEF w, m
<1>2. \A t \in Nat : S!First(t) = t * w + (IF t <= m THEN t ELSE m)
  BY MinOfTwo, <1>1 DEF S!First, w, m
<1>3. \A t \in S!Team : t \in Nat /\ t + 1 \in Nat
  BY <1>1 DEF S!Team
<1>4. \A t \in Nat : t * w \in Nat
  BY <1>1
<1>5. ASSUME NEW t \in S!Team, NEW u \in S!Team, t < u
      PROVE  S!First(t + 1) <= S!First(u)
  <2>1. (t + 1) * w <= u * w
    BY <1>1, <1>3, <1>5, Multiples
  <2> QED BY <2>1, <1>2, <1>3, <1>4, <1>5, <1>1
<1> QED BY <1>2, <1>3, <1>4, <1>5, <1>1

(* The loop over the rounds.                                               *)
RoundOK(r) == r = <<r[1], r[2]>> /\ r[1] \in Nat \ {0} /\ r[2] \in Nat \ {0}

Holding(t) == held[t] # S!NoPair

HeldOK(t) ==
  /\ held[t].dist = round[t][2]
  /\ held[t].low = S!Low(next[t], round[t][2])
  /\ S!First(t) <= next[t] /\ next[t] < S!First(t + 1)
  /\ \A u \in S!Team : S!NotBefore(round[u], round[t])

SortInv ==
  /\ \E p \in Nat : DOMAIN keys = 1 .. p
  /\ DOMAIN round = S!Team /\ \A t \in S!Team : RoundOK(round[t])
  /\ next \in [S!Team -> Nat]
  /\ \A t \in S!Team : S!First(t) <= next[t]
  /\ DOMAIN held = S!Team
  /\ \A t \in S!Team : Holding(t) => HeldOK(t)

LEMMA SortDisjoint == SortInv => S!NoOverlap
<1> SUFFICES ASSUME SortInv, NEW t \in S!Team, NEW u \in S!Team, t # u, Holding(t), Holding(u)
             PROVE  {held[t].low, held[t].low + held[t].dist} \cap {held[u].low, held[u].low + held[u].dist} = {}
  BY DEF S!NoOverlap, Holding
<1>1. HeldOK(t) /\ HeldOK(u)
  BY DEF SortInv
<1>2. round[t] = round[u] /\ round[t][2] \in Nat \ {0}
  BY <1>1 DEF HeldOK, SortInv, RoundOK, S!NotBefore
<1>3. PICK p \in Nat : S!size = p
  BY LenOf DEF SortInv, S!size
<1>4. t \in Nat /\ u \in Nat /\ t + 1 \in S!Team \cup {Threads} /\ u + 1 \in S!Team \cup {Threads}
  BY CompactAssumption DEF S!Team
<1>5. next[t] \in Nat /\ next[u] \in Nat
  BY DEF SortInv
<1>6. next[t] # next[u]
  <2>1. \A a, b \in S!Team : a < b => S!First(a + 1) <= S!First(b)
    BY <1>3, SharesDisjoint
  <2>2. \A a \in 0 .. Threads : S!First(a) \in Nat
    BY <1>3, SharesDisjoint
  <2>3. t + 1 \in 0 .. Threads /\ u + 1 \in 0 .. Threads /\ t \in 0 .. Threads /\ u \in 0 .. Threads
    BY CompactAssumption DEF S!Team
  <2>4. CASE t < u
    BY <2>1, <2>2, <2>3, <2>4, <1>1, <1>5 DEF HeldOK
  <2>5. CASE u < t
    BY <2>1, <2>2, <2>3, <2>5, <1>1, <1>5 DEF HeldOK
  <2> QED BY <2>4, <2>5, <1>4
<1> QED BY <1>1, <1>2, <1>5, <1>6, PairsDisjoint DEF HeldOK

LEMMA PaddedNat ==
  ASSUME NEW m \in 0 .. 2^29
  PROVE  S!Padded(m) \in Nat /\ m <= S!Padded(m)
<1> DEFINE X == {p \in {2^e : e \in 0 .. 30} : p >= m}
<1>1. m \in Nat /\ m <= 2^30
  OBVIOUS
<1>2. X \subseteq Nat
  <2> SUFFICES ASSUME NEW e \in 0 .. 30, 2^e >= m PROVE 2^e \in Nat
    OBVIOUS
  <2>1. 2^e \in Int
    OBVIOUS
  <2> QED BY <2>1, <1>1
<1>3. X # {}
  <2>1. 2^30 \in {2^e : e \in 0 .. 30}
    OBVIOUS
  <2>2. 2^30 >= m
    OBVIOUS
  <2> QED BY <2>1, <2>2
<1>4. \A x \in X : x >= m
  OBVIOUS
<1> HIDE DEF X
<1>5. \E x \in X : \A y \in X : x <= y
  BY <1>2, <1>3, LeastOfNats
<1>6. S!Padded(m) \in X
  <2>1. S!Padded(m) = CHOOSE x \in X : \A y \in X : x <= y
    BY DEF S!Padded, S!Min, X
  <2> QED BY <2>1, <1>5
<1> QED BY <1>2, <1>4, <1>6

LEMMA SortInit == S!Init => SortInv
<1> SUFFICES ASSUME S!Init PROVE SortInv
  OBVIOUS
<1>1. Len(array) \in 0 .. 2^29
  BY SortAssumption DEF S!Init
<1>2. PICK p \in Nat : DOMAIN keys = 1 .. p
  BY <1>1, PaddedNat DEF S!Init
<1>3. \A t \in S!Team : S!First(t) \in Nat
  <2>1. \A t \in 0 .. Threads : S!First(t) \in Nat
    BY <1>2, LenOf, SharesDisjoint DEF S!size
  <2> QED BY <2>1, CompactAssumption DEF S!Team
<1>4. round = [t \in S!Team |-> <<2, 1>>] /\ next = [t \in S!Team |-> S!First(t)]
      /\ held = [t \in S!Team |-> S!NoPair]
  BY DEF S!Init
<1>5. next \in [S!Team -> Nat] /\ \A t \in S!Team : S!First(t) <= next[t]
  BY <1>3, <1>4
<1>6. \A t \in S!Team : ~Holding(t)
  BY <1>4 DEF Holding
<1>7. DOMAIN round = S!Team /\ \A t \in S!Team : RoundOK(round[t])
  BY <1>4 DEF RoundOK
<1> QED BY <1>2, <1>4, <1>5, <1>6, <1>7 DEF SortInv

LEMMA SameShares ==
  ASSUME DOMAIN keys' = DOMAIN keys, SortInv
  PROVE  \A t : S!First(t)' = S!First(t)
<1>1. PICK p \in Nat : DOMAIN keys = 1 .. p
  BY DEF SortInv
<1>2. Len(keys') = p /\ Len(keys) = p
  BY <1>1, LenOf
<1> QED BY <1>2 DEF S!First, S!size

LEMMA FollowingOK ==
  ASSUME NEW r, RoundOK(r)
  PROVE  /\ RoundOK(S!Following(r))
         /\ \A s : RoundOK(s) /\ S!NotBefore(r, s) => S!NotBefore(S!Following(r), s)
<1>1. CASE r[2] > 1
  <2>1. S!Following(r) = <<r[1], r[2] \div 2>>
    BY <1>1 DEF S!Following
  <2>2. r[2] \div 2 \in Nat \ {0} /\ r[2] \div 2 < r[2]
    BY <1>1 DEF RoundOK
  <2> QED BY <2>1, <2>2 DEF RoundOK, S!NotBefore
<1>2. CASE ~(r[2] > 1)
  <2>1. S!Following(r) = <<2 * r[1], r[1]>>
    BY <1>2 DEF S!Following
  <2> QED BY <2>1 DEF RoundOK, S!NotBefore
<1> QED BY <1>1, <1>2

LEMMA SortStep == SortInv /\ S!Next => SortInv'
<1> SUFFICES ASSUME SortInv, S!Next PROVE SortInv'
  OBVIOUS
<1> S!Team' = S!Team /\ S!NoPair' = S!NoPair
  OBVIOUS
<1>1. ASSUME NEW t \in S!Team, S!SwapKeys(t) PROVE SortInv'
  <2>1. DOMAIN keys' = DOMAIN keys
    BY <1>1 DEF S!SwapKeys, S!Exchange
  <2>2. \A u : S!First(u)' = S!First(u)
    BY <2>1, SameShares
  <2>3. UNCHANGED <<round, next>>
    BY <1>1 DEF S!SwapKeys
  <2>4. PICK doSwap : held' = [held EXCEPT ![t] = [low |-> S!Low(next[t], round[t][2]), dist |-> round[t][2], swap |-> doSwap]]
    BY <1>1 DEF S!SwapKeys
  <2>5. HeldOK(t)'
    BY <2>2, <2>3, <2>4, <1>1 DEF HeldOK, SortInv, S!SwapKeys, S!RoundOpen
  <2>6. \A u \in S!Team \ {t} : Holding(u)' => HeldOK(u)'
    BY <2>2, <2>3, <2>4 DEF HeldOK, SortInv, Holding
  <2> QED BY <2>1, <2>2, <2>3, <2>4, <2>5, <2>6 DEF SortInv
<1>2. ASSUME NEW t \in S!Team, S!SwapRows(t) PROVE SortInv'
  <2>1. UNCHANGED <<keys, round>> /\ Holding(t)
        /\ next' = [next EXCEPT ![t] = @ + 1] /\ held' = [held EXCEPT ![t] = S!NoPair]
    BY <1>2 DEF S!SwapRows, Holding
  <2>2. \A u : S!First(u)' = S!First(u)
    BY <2>1, SameShares
  <2>3. next' \in [S!Team -> Nat] /\ \A u \in S!Team : S!First(u) <= next'[u]
    <3>1. PICK p \in Nat : S!size = p
      BY LenOf DEF SortInv, S!size
    <3>2. \A u \in S!Team : S!First(u) \in Nat
      BY <3>1, SharesDisjoint, CompactAssumption DEF S!Team
    <3> QED BY <3>2, <2>1 DEF SortInv
  <2>4. \A u \in S!Team : Holding(u)' => HeldOK(u)'
    <3> SUFFICES ASSUME NEW u \in S!Team, Holding(u)' PROVE HeldOK(u)'
      OBVIOUS
    <3>1. u # t /\ held'[u] = held[u] /\ next'[u] = next[u] /\ Holding(u)
      BY <2>1 DEF Holding, SortInv
    <3> QED BY <3>1, <2>1, <2>2 DEF HeldOK, SortInv
  <2> QED BY <2>1, <2>2, <2>3, <2>4 DEF SortInv
<1>3. ASSUME NEW t \in S!Team, S!EndRound(t) PROVE SortInv'
  <2>1. UNCHANGED <<keys, held>> /\ ~Holding(t) /\ S!RoundOpen(t)
        /\ next' = [next EXCEPT ![t] = S!First(t)]
        /\ round' = [round EXCEPT ![t] = S!Following(round[t])]
    BY <1>3 DEF S!EndRound, Holding
  <2>2. \A u : S!First(u)' = S!First(u)
    BY <2>1, SameShares
  <2>3. next' \in [S!Team -> Nat] /\ \A u \in S!Team : S!First(u) <= next'[u]
    <3>1. PICK p \in Nat : S!size = p
      BY LenOf DEF SortInv, S!size
    <3>2. \A u \in S!Team : S!First(u) \in Nat
      BY <3>1, SharesDisjoint, CompactAssumption DEF S!Team
    <3> QED BY <3>2, <2>1 DEF SortInv
  <2>4. DOMAIN round' = S!Team /\ \A u \in S!Team : RoundOK(round'[u])
    BY <2>1, FollowingOK DEF SortInv
  <2>5. \A u \in S!Team : Holding(u)' => HeldOK(u)'
    <3> SUFFICES ASSUME NEW u \in S!Team, Holding(u)' PROVE HeldOK(u)'
      OBVIOUS
    <3>1. u # t /\ held'[u] = held[u] /\ next'[u] = next[u] /\ round'[u] = round[u] /\ Holding(u)
      BY <2>1 DEF Holding, SortInv
    <3>2. \A v \in S!Team : S!NotBefore(round'[v], round[u])
      <4>1. S!NotBefore(round'[t], round[u])
        BY <2>1, <3>1, FollowingOK DEF HeldOK, SortInv
      <4> QED BY <4>1, <3>1, <2>1 DEF HeldOK, SortInv
    <3> QED BY <3>1, <3>2, <2>1, <2>2 DEF HeldOK, SortInv
  <2> QED BY <2>1, <2>2, <2>3, <2>4, <2>5 DEF SortInv
<1>4. ASSUME S!Finish PROVE SortInv'
  BY <1>4, SameShares DEF S!Finish, SortInv, Holding, HeldOK
<1> QED BY <1>1, <1>2, <1>3, <1>4 DEF S!Next

-----------------------------------------------------------------------------
(* The compaction. *)

CallOK(f) ==
  /\ f = C!Call(f.off, f.left, f.right, f.z)
  /\ f.off \in BOOLEAN /\ f.left \in Nat /\ f.right \in Nat
  /\ IF f.off THEN f.left < f.right ELSE f.left = 0 /\ f.left <= f.right

CallsOK ==
  \A f \in DOMAIN calls :
    CallOK(f) /\ calls[f].stage \in {"called", "first", "waiting", "swapping", "done"}

Done(f) == calls[f].stage = "done"

Before(f, g) == f.right <= g.left \/ g.right <= f.left

Within(f, h) == h.left <= f.left /\ f.right <= h.right /\ (f.off \/ ~h.off)

(* Call f is made by g, or by a call that g made: g waits for it.          *)
Under(f, g) ==
  /\ calls[g].stage # "called" /\ ~C!Short(g)
  /\ \E h \in {C!FirstCall(g), C!SecondCall(g)} :
       h \in DOMAIN calls /\ Within(f, h) /\ (Done(h) => Done(f))

Related(f, g) == Before(f, g) \/ Under(f, g) \/ Under(g, f)

CompactInv ==
  /\ CallsOK
  /\ \A f \in DOMAIN calls : calls[f].stage \in {"first", "waiting"} => ~C!Short(f)
  /\ \A f \in DOMAIN calls :
       calls[f].stage \in {"swapping", "done"} /\ ~C!Short(f) => C!Joined(f)
  /\ \A f, g \in DOMAIN calls : f # g => Related(f, g)


LEMMA PowerBelowBound ==
  ASSUME NEW m \in Nat \ {0}
  PROVE  C!PowerBelow(m) \in 1 .. m
<1> DEFINE X == {p \in {2^e : e \in 0 .. m} : p <= m}
           P == {p \in X : p >= 1}
<1>1. X \subseteq Int /\ \A p \in X : p <= m
  <2> SUFFICES ASSUME NEW e \in 0 .. m, 2^e <= m PROVE 2^e \in Int
    OBVIOUS
  <2> QED OBVIOUS
<1>2. 1 \in P
  <2>1. 0 \in 0 .. m /\ 1 = 2^0
    OBVIOUS
  <2>2. 1 \in {2^e : e \in 0 .. m}
    BY <2>1, Zenon
  <2> QED BY <2>2
<1>3. P \subseteq Nat /\ \A p \in P : p <= m
  BY <1>1
<1>4. PICK x \in P : \A y \in P : x >= y
  <2> HIDE DEF P
  <2> QED BY <1>2, <1>3, GreatestOfNats
<1>5. x \in X /\ \A y \in X : x >= y
  <2>1. \A y \in X : y \in P \/ y < 1
    BY <1>1
  <2>2. x >= 1 /\ x \in X
    BY <1>4
  <2> HIDE DEF X, P
  <2> QED BY <2>1, <2>2, <1>1, <1>4
<1>6. C!PowerBelow(m) = CHOOSE y \in X : \A z \in X : y >= z
  BY DEF C!PowerBelow, C!Max
<1> HIDE DEF X, P
<1>7. C!PowerBelow(m) \in X /\ \A z \in X : C!PowerBelow(m) >= z
  BY <1>5, <1>6
<1>8. 1 \in X
  BY <1>2 DEF P
<1>9. C!PowerBelow(m) \in Int /\ C!PowerBelow(m) <= m /\ C!PowerBelow(m) >= 1
  BY <1>1, <1>7, <1>8
<1> QED BY <1>9

(* What a call that is long enough to split makes. *)
LEMMA SubCalls ==
  ASSUME NEW f, CallOK(f), ~C!Short(f)
  PROVE  LET a == C!FirstCall(f)
             b == C!SecondCall(f)
         IN  /\ CallOK(a) /\ CallOK(b)
             /\ Within(a, f) /\ Within(b, f)
             /\ ~Within(f, a) /\ ~Within(f, b)
             /\ a.right <= b.left
<1> DEFINE k == f.right - f.left
<1>1. CASE f.off
  <2>1. k \in Nat /\ k > 2 /\ C!Half(f) = k \div 2
    BY <1>1 DEF C!Short, C!Rows, C!Half, CallOK
  <2>2. C!Half(f) \in Nat /\ 1 <= C!Half(f) /\ C!Half(f) < k
    BY <2>1
  <2>3. PICK z1, z2 : /\ C!FirstCall(f) = C!Call(TRUE, f.left, f.left + C!Half(f), z1)
                      /\ C!SecondCall(f) = C!Call(TRUE, f.left + C!Half(f), f.right, z2)
    BY <1>1 DEF C!FirstCall, C!SecondCall
  <2> HIDE DEF k
  <2>4. f.left \in Nat /\ f.right \in Nat /\ k = f.right - f.left
    BY DEF CallOK, k
  <2> QED BY <1>1, <2>2, <2>3, <2>4 DEF CallOK, Within, C!Call
<1>2. CASE ~f.off
  <2>1. k \in Nat \ {0} /\ C!Rows(f) = k
    BY <1>2 DEF C!Short, C!Rows, CallOK
  <2>2. C!PowerBelow(C!Rows(f)) \in 1 .. k
    BY <2>1, PowerBelowBound
  <2> DEFINE p == C!PowerBelow(C!Rows(f))
  <2>3. PICK z2 : /\ C!FirstCall(f) = C!Call(FALSE, f.left, f.right - p, 0)
                  /\ C!SecondCall(f) = C!Call(TRUE, f.left + (k - p), f.right, z2)
    BY <1>2 DEF C!FirstCall, C!SecondCall, C!Rows
  <2>4. f.left = 0 /\ f.right \in Nat /\ k = f.right - f.left /\ p \in 1 .. k
    BY <1>2, <2>2 DEF CallOK, k
  <2> HIDE DEF k, p
  <2> QED BY <1>2, <2>3, <2>4 DEF CallOK, Within, C!Call
<1> QED BY <1>1, <1>2 DEF CallOK

LEMMA SameSubCalls ==
  ASSUME M' = M
  PROVE  \A f : C!FirstCall(f)' = C!FirstCall(f) /\ C!SecondCall(f)' = C!SecondCall(f)
BY DEF C!FirstCall, C!SecondCall, C!Marked, C!PrefixSum

LEMMA WithinBefore ==
  ASSUME NEW f, NEW g, NEW h, CallOK(f), CallOK(g), CallOK(h), Within(f, g)
  PROVE  /\ Before(g, h) => Before(f, h)
         /\ Before(h, g) => Before(h, f)
         /\ Before(f, h) => Before(h, f)
         /\ Within(g, h) => Within(f, h)
         /\ Before(f, g) => Before(f, h)
BY DEF CallOK, Within, Before

LEMMA CompactInit == C!Init => CompactInv
<1> SUFFICES ASSUME C!Init PROVE CompactInv
  OBVIOUS
<1>1. Len(M) \in Nat
  BY CompactAssumption DEF C!Init
<1>2. calls = [f \in {C!Root} |-> C!Called] /\ C!Called.stage = "called"
  BY DEF C!Init, C!Called
<1>3. CallOK(C!Root)
  BY <1>1 DEF CallOK, C!Root, C!Call
<1> HIDE DEF C!Called
<1> QED BY <1>2, <1>3 DEF CompactInv, CallsOK

(* A call that makes others stays apart from the rest, and they do. *)
LEMMA MakingKeeps ==
  ASSUME CompactInv, M' = M, NEW y \in DOMAIN calls, ~C!Short(y),
         calls[y].stage \in {"called", "first"}, NEW stage \in {"first", "waiting"},
         NEW made, made \subseteq {C!FirstCall(y), C!SecondCall(y)},
         calls' = C!Making(y, stage, made),
         \A g \in DOMAIN calls : \A e \in made \ DOMAIN calls : Under(g, y) => Before(g, e)
  PROVE  CompactInv'
<1> DEFINE new == made \ DOMAIN calls
<1>1. /\ CallOK(C!FirstCall(y)) /\ CallOK(C!SecondCall(y))
      /\ Within(C!FirstCall(y), y) /\ Within(C!SecondCall(y), y)
      /\ C!FirstCall(y).right <= C!SecondCall(y).left
      /\ CallOK(y)
  BY SubCalls DEF CompactInv, CallsOK
<1>2. DOMAIN calls' = DOMAIN calls \cup new
  BY DEF C!Making
<1>3. /\ calls'[y] = [stage |-> stage, todo |-> {}]
      /\ \A g \in DOMAIN calls \ {y} : calls'[g] = calls[g]
      /\ \A g \in new : calls'[g] = C!Called
  BY <1>2 DEF C!Making, C!Started
<1>4. \A g \in new : calls'[g].stage = "called"
  BY <1>3 DEF C!Called
<1>5. \A g \in DOMAIN calls : /\ calls[g].stage # "called" => calls'[g].stage # "called"
                              /\ Done(g)' <=> Done(g)
  BY <1>3 DEF Done
<1>6. \A f : C!FirstCall(f)' = C!FirstCall(f) /\ C!SecondCall(f)' = C!SecondCall(f)
  BY SameSubCalls
<1>7. CallsOK' /\ \A f \in DOMAIN calls' : calls'[f].stage \in {"first", "waiting"} => ~C!Short(f)
  BY <1>1, <1>2, <1>3, <1>4 DEF CallsOK, CompactInv, CallOK
<1>8. ASSUME NEW f \in DOMAIN calls', calls'[f].stage \in {"swapping", "done"}, ~C!Short(f)
      PROVE  C!Joined(f)'
  <2>1. f \in DOMAIN calls /\ calls[f].stage \in {"swapping", "done"}
    BY <1>2, <1>3, <1>4, <1>8
  <2>2. C!Joined(f)
    BY <1>8, <2>1 DEF CompactInv
  <2> QED BY <2>2, <1>2, <1>5, <1>6 DEF C!Joined, C!Returned, C!Started, Done
<1>9. ASSUME NEW f \in DOMAIN calls, NEW g \in DOMAIN calls, Under(f, g)
      PROVE  Under(f, g)'
  <2>1. PICK h \in {C!FirstCall(g), C!SecondCall(g)} : h \in DOMAIN calls /\ Within(f, h) /\ (Done(h) => Done(f))
    BY <1>9 DEF Under
  <2>2. h \in DOMAIN calls' /\ (Done(h)' => Done(f)')
    BY <2>1, <1>2, <1>5
  <2> QED BY <1>9, <1>5, <1>6, <2>1, <2>2 DEF Under, Within
<1>10. ASSUME NEW e \in new, NEW g \in DOMAIN calls
       PROVE  Before(e, g) \/ Under(e, g)'
  <2>1. CallOK(e) /\ Within(e, y) /\ CallOK(g)
    BY <1>1 DEF CallsOK, CompactInv
  <2>2. CASE g = y
    <3>1. e \in {C!FirstCall(g), C!SecondCall(g)} /\ e \in DOMAIN calls' /\ Within(e, e)
      BY <2>1, <2>2, <1>2 DEF Within, CallOK
    <3>2. ~Done(e)'
      BY <1>4 DEF Done
    <3> QED BY <3>1, <3>2, <2>2, <1>3, <1>6 DEF Under, Within
  <2>3. CASE g # y /\ Before(y, g)
    BY <2>1, <2>3, <1>1, WithinBefore
  <2>4. CASE Under(y, g)
    <3>1. PICK h \in {C!FirstCall(g), C!SecondCall(g)} : h \in DOMAIN calls /\ Within(y, h) /\ (Done(h) => Done(y))
      BY <2>4 DEF Under
    <3>2. ~Done(h)
      BY <3>1 DEF Done
    <3>3. Within(e, h)
      BY <3>1, <2>1, <1>1, WithinBefore DEF CallsOK, CompactInv
    <3>4. h \in DOMAIN calls' /\ ~Done(h)'
      BY <3>1, <3>2, <1>2, <1>5
    <3> QED BY <2>4, <3>1, <3>3, <3>4, <1>5, <1>6 DEF Under, Within
  <2>5. CASE Under(g, y)
    <3>1. Before(g, e)
      BY <2>5
    <3> QED BY <3>1 DEF Before
  <2>6. g # y => Before(y, g) \/ Under(y, g) \/ Under(g, y)
    BY DEF CompactInv, Related
  <2> QED BY <2>2, <2>3, <2>4, <2>5, <2>6
<1>11. ASSUME NEW f \in DOMAIN calls', NEW g \in DOMAIN calls', f # g
       PROVE  Related(f, g)'
  <2> HIDE DEF new
  <2>1. CASE f \in DOMAIN calls /\ g \in DOMAIN calls
    <3>1. Related(f, g)
      BY <2>1, <1>11 DEF CompactInv
    <3> QED BY <2>1, <3>1, <1>9 DEF Related, Before
  <2>2. CASE f \in new /\ g \in DOMAIN calls
    BY <2>2, <1>10 DEF Related, Before
  <2>3. CASE f \in DOMAIN calls /\ g \in new
    BY <2>3, <1>10 DEF Related, Before
  <2>4. CASE f \in new /\ g \in new
    <3>1. f \in {C!FirstCall(y), C!SecondCall(y)} /\ g \in {C!FirstCall(y), C!SecondCall(y)}
      BY <2>4 DEF new
    <3>2. Before(f, g)
      BY <3>1, <1>11, <1>1 DEF Before
    <3> QED BY <3>2 DEF Related, Before
  <2> QED BY <1>2, <2>1, <2>2, <2>3, <2>4
<1> HIDE DEF new
<1> QED BY <1>7, <1>8, <1>11 DEF CompactInv

(* A call that only changes its stage, and does not return. *)
LEMMA StageKeeps ==
  ASSUME CompactInv, M' = M, NEW y \in DOMAIN calls, ~Done(y), calls[y].stage # "called" \/ C!Short(y),
         NEW todo, calls' = C!With(y, "swapping", todo), ~C!Short(y) => C!Joined(y)
  PROVE  CompactInv'
<1>2. DOMAIN calls' = DOMAIN calls
  BY DEF C!With
<1>3. /\ calls'[y] = [stage |-> "swapping", todo |-> todo]
      /\ \A g \in DOMAIN calls \ {y} : calls'[g] = calls[g]
  BY DEF C!With
<1>5. \A g \in DOMAIN calls : /\ calls[g].stage # "called" => calls'[g].stage # "called"
                              /\ Done(g)' <=> Done(g)
  BY <1>3 DEF Done
<1>6. \A f : C!FirstCall(f)' = C!FirstCall(f) /\ C!SecondCall(f)' = C!SecondCall(f)
  BY SameSubCalls
<1>7. CallsOK' /\ \A f \in DOMAIN calls' : calls'[f].stage \in {"first", "waiting"} => ~C!Short(f)
  BY <1>2, <1>3 DEF CallsOK, CompactInv, CallOK
<1>8. ASSUME NEW f \in DOMAIN calls', calls'[f].stage \in {"swapping", "done"}, ~C!Short(f)
      PROVE  C!Joined(f)'
  <2>1. C!Joined(f)
    BY <1>2, <1>3, <1>8 DEF CompactInv
  <2> QED BY <2>1, <1>2, <1>5, <1>6 DEF C!Joined, C!Returned, C!Started, Done
<1>9. ASSUME NEW f \in DOMAIN calls, NEW g \in DOMAIN calls, Under(f, g)
      PROVE  Under(f, g)'
  <2>1. PICK h \in {C!FirstCall(g), C!SecondCall(g)} : h \in DOMAIN calls /\ Within(f, h) /\ (Done(h) => Done(f))
    BY <1>9 DEF Under
  <2>2. h \in DOMAIN calls' /\ (Done(h)' => Done(f)')
    BY <2>1, <1>2, <1>5
  <2> QED BY <1>9, <1>5, <1>6, <2>1, <2>2 DEF Under, Within
<1>11. \A f, g \in DOMAIN calls' : f # g => Related(f, g)'
  BY <1>2, <1>9 DEF CompactInv, Related, Before
<1> QED BY <1>7, <1>8, <1>11 DEF CompactInv

(* A call returns: whatever was made under it has returned.                *)
LEMMA ReturnKeeps ==
  ASSUME CompactInv, M' = M, NEW y \in DOMAIN calls, calls[y].stage = "swapping",
         calls' = C!With(y, "done", {})
  PROVE  CompactInv'
<1>2. DOMAIN calls' = DOMAIN calls
  BY DEF C!With
<1>3. /\ calls'[y] = [stage |-> "done", todo |-> {}]
      /\ \A g \in DOMAIN calls \ {y} : calls'[g] = calls[g]
  BY DEF C!With
<1>5. \A g \in DOMAIN calls : /\ calls[g].stage # "called" => calls'[g].stage # "called"
                              /\ Done(g) => Done(g)'
                              /\ Done(g)' => Done(g) \/ g = y
  BY <1>3 DEF Done
<1>6. \A f : C!FirstCall(f)' = C!FirstCall(f) /\ C!SecondCall(f)' = C!SecondCall(f)
  BY SameSubCalls
<1>7. CallsOK' /\ \A f \in DOMAIN calls' : calls'[f].stage \in {"first", "waiting"} => ~C!Short(f)
  BY <1>2, <1>3 DEF CallsOK, CompactInv, CallOK
<1>8. ASSUME NEW f \in DOMAIN calls', calls'[f].stage \in {"swapping", "done"}, ~C!Short(f)
      PROVE  C!Joined(f)'
  <2>1. C!Joined(f)
    BY <1>2, <1>3, <1>8 DEF CompactInv
  <2> QED BY <2>1, <1>2, <1>5, <1>6 DEF C!Joined, C!Returned, C!Started, Done
<1>9. ASSUME NEW f \in DOMAIN calls, Within(f, y), f # y
      PROVE  Done(f) \/ \A g \in DOMAIN calls : Before(f, g)
  <2>1. \A g \in DOMAIN calls : CallOK(g)
    BY DEF CompactInv, CallsOK
  <2>2. CASE Before(f, y)
    BY <2>1, <2>2, <1>9, WithinBefore
  <2>3. CASE Under(f, y)
    <3>1. C!Joined(y)
      BY <2>3 DEF Under, CompactInv
    <3> QED BY <2>3, <3>1 DEF Under, C!Joined, C!Returned, Done
  <2>4. ~Under(y, f)
    <3> SUFFICES ASSUME Under(y, f) PROVE FALSE
      OBVIOUS
    <3>1. PICK h \in {C!FirstCall(f), C!SecondCall(f)} : Within(y, h)
      BY DEF Under
    <3>2. CallOK(h) /\ ~Within(f, h)
      BY <2>1, SubCalls DEF Under
    <3> QED BY <3>1, <3>2, <2>1, <1>9, WithinBefore
  <2> QED BY <2>2, <2>3, <2>4, <1>9 DEF CompactInv, Related
<1>10. ASSUME NEW f \in DOMAIN calls, NEW g \in DOMAIN calls, Under(f, g)
       PROVE  Before(f, g) \/ Under(f, g)'
  <2>1. PICK h \in {C!FirstCall(g), C!SecondCall(g)} : h \in DOMAIN calls /\ Within(f, h) /\ (Done(h) => Done(f))
    BY <1>10 DEF Under
  <2>2. Before(f, g) \/ (Done(h)' => Done(f)')
    BY <2>1, <1>5, <1>9
  <2> QED BY <1>10, <1>2, <1>5, <1>6, <2>1, <2>2 DEF Under, Within
<1>11. ASSUME NEW f \in DOMAIN calls', NEW g \in DOMAIN calls', f # g
       PROVE  Related(f, g)'
  BY <1>2, <1>10, <1>11 DEF CompactInv, Related, Before
<1> QED BY <1>7, <1>8, <1>11 DEF CompactInv

LEMMA CompactStep == CompactInv /\ C!Next => CompactInv'
<1> SUFFICES ASSUME CompactInv, NEW f \in DOMAIN calls, C!Step(f) PROVE CompactInv'
  BY DEF C!Next
<1>1. CASE C!Fork(f)
  <2>1. calls[f].stage = "called" /\ ~C!Short(f) /\ M' = M
    BY <1>1 DEF C!Fork
  <2>2. \A g : ~Under(g, f)
    BY <2>1 DEF Under
  <2>3. PICK stage \in {"first", "waiting"}, made \in SUBSET {C!FirstCall(f), C!SecondCall(f)} :
          calls' = C!Making(f, stage, made)
    BY <1>1 DEF C!Fork
  <2> QED BY <2>1, <2>2, <2>3, MakingKeeps
<1>2. CASE C!CallSecond(f)
  <2>1. calls[f].stage = "first" /\ M' = M /\ calls' = C!Making(f, "waiting", {C!SecondCall(f)})
    BY <1>2 DEF C!CallSecond
  <2>2. ~C!Short(f)
    BY <2>1 DEF CompactInv
  <2>3. ASSUME NEW g \in DOMAIN calls, NEW e \in {C!SecondCall(f)} \ DOMAIN calls, Under(g, f)
        PROVE  Before(g, e)
    <3>1. Within(g, C!FirstCall(f))
      BY <2>3 DEF Under
    <3>2. CallOK(g) /\ CallOK(f)
      BY DEF CompactInv, CallsOK
    <3>3. CallOK(C!FirstCall(f)) /\ CallOK(C!SecondCall(f)) /\ Before(C!FirstCall(f), C!SecondCall(f))
      BY <2>2, <3>2, SubCalls DEF Before
    <3> QED BY <3>1, <3>2, <3>3, WithinBefore
  <2> QED BY <2>1, <2>2, <2>3, MakingKeeps
<1>3. CASE C!StartSwaps(f)
  <2>1. PICK todo : calls' = C!With(f, "swapping", todo) /\ M' = M
    BY <1>3 DEF C!StartSwaps
  <2>2. ~Done(f) /\ (calls[f].stage # "called" \/ C!Short(f)) /\ (~C!Short(f) => C!Joined(f))
    BY <1>3 DEF C!StartSwaps, Done
  <2> QED BY <2>1, <2>2, StageKeeps
<1>4. CASE C!SwapRows(f)
  <2>1. PICK todo : calls' = C!With(f, "swapping", todo) /\ M' = M
    BY <1>4 DEF C!SwapRows
  <2>2. calls[f].stage = "swapping"
    BY <1>4 DEF C!SwapRows
  <2>3. ~Done(f) /\ (~C!Short(f) => C!Joined(f))
    BY <2>2 DEF CompactInv, Done
  <2> QED BY <2>1, <2>2, <2>3, StageKeeps
<1>5. CASE C!Return(f)
  BY <1>5, ReturnKeeps DEF C!Return
<1> QED BY <1>1, <1>2, <1>3, <1>4, <1>5 DEF C!Step

LEMMA CompactApart == CompactInv => C!Apart
<1> SUFFICES ASSUME CompactInv, NEW f \in DOMAIN calls, NEW g \in DOMAIN calls, f # g,
                    calls[f].stage = "swapping", calls[g].stage = "swapping"
             PROVE  Before(f, g)
  BY DEF C!Apart, Before
<1>1. \A a, b \in {f, g} : ~Under(a, b)
  <2> SUFFICES ASSUME NEW a \in {f, g}, NEW b \in {f, g}, Under(a, b) PROVE FALSE
    OBVIOUS
  <2>1. C!Joined(b)
    BY DEF CompactInv, Under
  <2>2. Done(a)
    BY <2>1 DEF Under, C!Joined, C!Returned, Done
  <2> QED BY <2>2 DEF Done
<1> QED BY <1>1 DEF CompactInv, Related

-----------------------------------------------------------------------------
(* The expansion. *)

(* The tree of the prefix sums: all of its sums are natural numbers. *)
SumNode == [px : Nat, lpx : Nat, l : {0, 1}, c : {0, 1}]

LevelOK(A_) == \E w \in Nat : A_ \in [0 .. w-1 -> SumNode]

SumTree ==
  /\ DOMAIN tree = {"kind", "full", "D", "B", "before", "result", "A", "h", "pass"}
  /\ tree.full = FALSE
  /\ tree.D \in [0 .. Len(M)-1 -> Nat]
  /\ tree.pass \in {"up", "down", "collect", "done"}
  /\ tree.pass = "up" => /\ tree.h \in Nat \ {0} /\ DOMAIN tree.A = 0 .. tree.h - 1
                         /\ \A l \in 0 .. tree.h - 1 : LevelOK(tree.A[l])
                         /\ \A l \in 1 .. tree.h - 1 : DOMAIN tree.A[l] = E!Tree!Above(tree.A[l-1])
  /\ tree.pass = "down" => /\ tree.h \in Nat \ {0} /\ 0 .. tree.h \subseteq DOMAIN tree.A
                           /\ \A l \in 0 .. tree.h : LevelOK(tree.A[l])
                           /\ \A l \in 1 .. tree.h : DOMAIN tree.A[l] = E!Tree!Above(tree.A[l-1])
  /\ tree.pass # "done" => 0 \in DOMAIN tree.A /\ DOMAIN tree.A[0] = 0 .. Len(M)-1
  /\ tree.pass = "collect" => LevelOK(tree.A[0])
  /\ tree.pass = "done" => tree.result \in [0 .. Len(M)-1 -> Nat]

PlaceOK(f) == f = E!Call(f.sub, f.s, f.rows, f.z) /\ f.s \in Nat /\ f.rows \in Nat

Clear(f, g) == f.s + f.rows <= g.s \/ g.s + g.rows <= f.s

Inside(f, g) == g.s <= f.s /\ f.s + f.rows <= g.s + g.rows

(* Call f was made by g, or by a call that g made: g has done its swaps.   *)
Below(f, g) == Inside(f, g) /\ calls[g].stage \in {"waiting", "done"}

(* A set of calls that share no place, all on places of call f. *)
Spread(calls_, f) ==
  /\ \A e \in calls_ : PlaceOK(e) /\ Inside(e, f)
  /\ \A d, e \in calls_ : d # e => Clear(d, e)

StageOK(f) ==
  /\ calls[f] = [stage |-> calls[f].stage, todo |-> calls[f].todo, next |-> calls[f].next]
  /\ calls[f].stage \in {"called", "swapping", "waiting", "done"}
  /\ calls[f].todo # {} => calls[f].stage = "swapping"
  /\ Spread(calls[f].next, f)

ExpandInv ==
  /\ M \in Seq(Nat \ {0}) /\ Len(M) > 0
  /\ "kind" \in DOMAIN tree
  /\ tree.kind = "prefix" => SumTree
  /\ \A f \in DOMAIN calls : PlaceOK(f) /\ StageOK(f)
  /\ \A f, g \in DOMAIN calls : f # g => Clear(f, g) \/ Below(f, g) \/ Below(g, f)

LEMMA ExpandApart == ExpandInv => E!Apart
BY DEF ExpandInv, StageOK, E!Apart, Clear, Below

LEMMA SamePowers == \A m : E!PowerBelow(m) = C!PowerBelow(m)
BY DEF E!PowerBelow, C!PowerBelow, E!Max, C!Max

(* What a call makes. *)
LEMMA PartsClear ==
  ASSUME NEW f, PlaceOK(f), f.rows > 1, NEW m
  PROVE  Spread(E!Parts(f, m), f)
<1>1. CASE f.sub
  <2>1. PICK p \in Nat : p = E!Part(f) /\ p + p <= f.rows
    BY <1>1 DEF E!Part, PlaceOK
  <2>2. CASE f.rows = 2
    BY <1>1, <2>2 DEF E!Parts, Spread
  <2>3. CASE f.rows # 2
    <3>1. PICK z1, z2 : E!Parts(f, m) = {E!Call(TRUE, f.s, p, z1), E!Call(TRUE, f.s + p, p, z2)}
      BY <1>1, <2>1, <2>3 DEF E!Parts
    <3> QED BY <2>1, <3>1 DEF E!Call, PlaceOK, Inside, Clear, Spread
  <2> QED BY <2>2, <2>3
<1>2. CASE ~f.sub
  <2>1. E!PowerBelow(f.rows) \in 1 .. f.rows
    BY SamePowers, PowerBelowBound DEF PlaceOK
  <2>2. PICK p \in Nat, d \in Nat : p = E!Part(f) /\ d = E!Distance(f) /\ p + d = f.rows
    BY <1>2, <2>1 DEF E!Part, E!Distance, PlaceOK
  <2>3. PICK z1, z2 : E!Parts(f, m) = {E!Call(FALSE, f.s, p, z1), E!Call(TRUE, f.s + p, d, z2)}
    BY <1>2, <2>2 DEF E!Parts
  <2> QED BY <2>2, <2>3 DEF E!Call, PlaceOK, Inside, Clear, Spread
<1> QED BY <1>1, <1>2

LEMMA InsideClear ==
  ASSUME NEW e, NEW f, NEW g, PlaceOK(e), PlaceOK(f), PlaceOK(g), Inside(e, f)
  PROVE  /\ Clear(f, g) => Clear(e, g) /\ Clear(g, e)
         /\ Inside(f, g) => Inside(e, g)
BY DEF PlaceOK, Inside, Clear


LEMMA ExpandInit == E!Init => ExpandInv
<1> SUFFICES ASSUME E!Init PROVE ExpandInv
  OBVIOUS
<1>1. M \in Seq(Nat \ {0}) /\ Len(M) > 0 /\ calls = <<>>
  BY ExpandAssumption DEF E!Init
<1> DEFINE d == [i \in 0 .. Len(M)-1 |-> M[i + 1]]
           b == [i \in 0 .. Len(M)-1 |-> IF i = 0 THEN 0 ELSE 1]
<1>2. tree = E!Tree!Loaded("prefix", FALSE, d, b, <<>>)
  BY DEF E!Init
<1>3. d \in [0 .. Len(M)-1 -> Nat]
  BY <1>1
<1>4. /\ DOMAIN tree = {"kind", "full", "D", "B", "before", "result", "A", "h", "pass"}
      /\ tree.kind = "prefix" /\ tree.full = FALSE /\ tree.D = d /\ tree.h = 1
      /\ tree.A = [l \in {0} |-> E!Tree!Leaves("prefix", d, b)] /\ tree.pass \in {"up", "collect"}
  BY <1>2 DEF E!Tree!Loaded
<1>5. E!Tree!Leaves("prefix", d, b) = [i \in 0 .. Len(M)-1 |-> [px |-> d[i], lpx |-> 0, l |-> b[i], c |-> b[i]]]
  BY DEF E!Tree!Leaves
<1>6. tree.A[0] \in [0 .. Len(M)-1 -> SumNode] /\ DOMAIN tree.A = {0}
  <2>1. b \in [0 .. Len(M)-1 -> {0, 1}]
    OBVIOUS
  <2>2. tree.A[0] = [i \in 0 .. Len(M)-1 |-> [px |-> d[i], lpx |-> 0, l |-> b[i], c |-> b[i]]]
    BY <1>4, <1>5
  <2> HIDE DEF d, b
  <2> QED BY <2>1, <2>2, <1>3, <1>4 DEF SumNode
<1>7. LevelOK(tree.A[0]) /\ DOMAIN tree.A[0] = 0 .. Len(M)-1
  BY <1>1, <1>6 DEF LevelOK
<1> HIDE DEF d, b
<1>8. SumTree
  BY <1>3, <1>4, <1>6, <1>7 DEF SumTree
<1> QED BY <1>1, <1>4, <1>8 DEF ExpandInv

LEMMA Halves ==
  ASSUME NEW below, LevelOK(below)
  PROVE  \E w \in Nat : E!Tree!Above(below) = 0 .. w-1
<1>1. PICK w \in Nat : below \in [0 .. w-1 -> SumNode]
  BY DEF LevelOK
<1>2. (w + 1) \div 2 \in Nat /\ E!Tree!Above(below) = 0 .. ((w + 1) \div 2) - 1
  BY <1>1 DEF E!Tree!Above
<1> QED BY <1>2

LEMMA SumUp ==
  ASSUME NEW below, LevelOK(below), NEW i \in E!Tree!Above(below), tree.kind = "prefix"
  PROVE  E!Tree!UpNode(below, i) \in SumNode
<1>1. 2*i \in DOMAIN below /\ \A j \in DOMAIN below : below[j] \in SumNode
  BY DEF LevelOK, E!Tree!Above
<1>2. ASSUME NEW x \in SumNode, NEW y \in SumNode
      PROVE  E!Tree!PrefixUp(x, y) \in SumNode
  <2>1. y.c * x.px \in Nat /\ x.c * y.c \in {0, 1}
    BY DEF SumNode
  <2> QED BY <2>1 DEF E!Tree!PrefixUp, SumNode
<1>3. ASSUME NEW x \in SumNode
      PROVE  E!Tree!PrefixUp(x, E!Tree!NoNode) \in SumNode
  <2>1. 0 * x.px = 0 /\ x.c * 0 = 0
    BY DEF SumNode
  <2> QED BY <2>1 DEF E!Tree!PrefixUp, E!Tree!NoNode, SumNode
<1> QED BY <1>1, <1>2, <1>3 DEF E!Tree!UpNode, E!Tree!OnlyChild, E!Tree!kind

LEMMA SumDown ==
  ASSUME NEW l \in Nat \ {0}, LevelOK(tree.A[l]), LevelOK(tree.A[l-1]),
         DOMAIN tree.A[l] = E!Tree!Above(tree.A[l-1]),
         NEW i \in DOMAIN tree.A[l-1], tree.kind = "prefix"
  PROVE  E!Tree!DownNode(l, i) \in SumNode
<1>1. PICK w \in Nat : tree.A[l-1] \in [0 .. w-1 -> SumNode]
  BY DEF LevelOK
<1> DEFINE j == i \div 2
<1>2. i \in 0 .. w-1 /\ j \in Nat /\ 2*j <= i /\ j <= 2*j
  BY <1>1
<1>3. j \in DOMAIN tree.A[l-1] /\ 2*j \in DOMAIN tree.A[l-1]
  BY <1>1, <1>2
<1>4. tree.A[l][j] \in SumNode /\ tree.A[l-1][2*j] \in SumNode
  BY <1>3 DEF LevelOK, E!Tree!Above
<1>5. 2*j + 1 \in DOMAIN tree.A[l-1] => tree.A[l-1][2*j + 1] \in SumNode
  BY <1>1
<1>6. ASSUME NEW p \in SumNode, NEW x \in SumNode, NEW y, NEW two
      PROVE  E!Tree!LeftDown(p, x, y, two) \in SumNode
  <2>1. p.px * x.l \in Nat
    BY DEF SumNode
  <2>2. E!Tree!LeftDown(p, x, y, two) = [x EXCEPT !.px = p.px * x.l]
    BY DEF E!Tree!LeftDown, E!Tree!kind
  <2> QED BY <2>1, <2>2 DEF SumNode
<1>7. ASSUME NEW p \in SumNode, NEW x \in SumNode, NEW y \in SumNode, NEW flag
      PROVE  E!Tree!RightDown(p, x, y, flag) \in SumNode
  <2>1. x.c * p.px \in Nat
    BY DEF SumNode
  <2>2. p.lpx + x.c * p.px \in Nat
    BY <2>1 DEF SumNode
  <2>3. y.l * (p.lpx + x.c * p.px) \in Nat
    BY <2>2 DEF SumNode
  <2>4. E!Tree!RightDown(p, x, y, flag) = [y EXCEPT !.px = y.l * (p.lpx + x.c * p.px)]
    BY DEF E!Tree!RightDown, E!Tree!kind
  <2> QED BY <2>3, <2>4 DEF SumNode
<1> HIDE DEF j
<1> QED BY <1>4, <1>5, <1>6, <1>7 DEF E!Tree!DownNode, j

LEMMA SumStep == SumTree /\ tree.kind = "prefix" /\ Len(M) \in Nat /\ E!Tree!Next /\ M' = M
                   => SumTree' /\ tree'.kind = "prefix"
<1> SUFFICES ASSUME SumTree, tree.kind = "prefix", Len(M) \in Nat, E!Tree!Next, M' = M
             PROVE  SumTree' /\ tree'.kind = "prefix"
  OBVIOUS
<1>1. CASE E!Tree!Upstream
  <2> DEFINE h == tree.h
             below == tree.A[h-1]
             level == [i \in E!Tree!Above(below) |-> E!Tree!UpNode(below, i)]
             levels == [l \in 0 .. h |-> IF l < h THEN tree.A[l] ELSE level]
  <2>1. /\ h \in Nat \ {0} /\ h - 1 \in 0 .. h-1 /\ 0 \in 0 .. h-1
        /\ DOMAIN tree.A = 0 .. h-1 /\ DOMAIN tree.A[0] = 0 .. Len(M)-1
        /\ \A l \in 0 .. h-1 : LevelOK(tree.A[l])
        /\ \A l \in 1 .. h-1 : DOMAIN tree.A[l] = E!Tree!Above(tree.A[l-1])
    BY <1>1 DEF E!Tree!Upstream, SumTree
  <2>2. PICK h2 \in {h, h + 1}, pass \in {"up", "down"} :
          /\ tree' = [tree EXCEPT !.A = levels, !.h = h2, !.pass = pass]
          /\ pass = "up" => h2 = h + 1
          /\ pass = "down" => h2 = h
    BY <1>1 DEF E!Tree!Upstream
  <2> HIDE DEF h
  <2>3. DOMAIN levels = 0 .. h
        /\ levels[h] = level /\ \A l \in 0 .. h-1 : levels[l] = tree.A[l]
    BY <2>1
  <2>4. LevelOK(level) /\ DOMAIN level = E!Tree!Above(below)
    BY <2>1, Halves, SumUp DEF LevelOK
  <2> HIDE DEF level, levels, below
  <2>5. /\ DOMAIN tree' = DOMAIN tree /\ tree'.kind = "prefix" /\ tree'.full = FALSE /\ tree'.D = tree.D
        /\ tree'.A = levels /\ tree'.h = h2 /\ tree'.pass = pass
    BY <2>2 DEF SumTree
  <2>6. \A l \in 0 .. h : LevelOK(tree'.A[l])
    BY <2>1, <2>3, <2>4, <2>5 DEF SumTree
  <2>7. \A l \in 1 .. h : DOMAIN tree'.A[l] = E!Tree!Above(tree'.A[l-1])
    <3> SUFFICES ASSUME NEW l \in 1 .. h PROVE DOMAIN levels[l] = E!Tree!Above(levels[l-1])
      BY <2>5
    <3>1. l - 1 \in 0 .. h-1 /\ levels[l-1] = tree.A[l-1]
      BY <2>1, <2>3
    <3>2. CASE l = h
      BY <3>1, <3>2, <2>3, <2>4 DEF below
    <3>3. CASE l < h
      <4>1. l \in 1 .. h-1 /\ l \in 0 .. h-1
        BY <2>1, <3>3
      <4> QED BY ONLY <2>1, <2>3, <3>1, <4>1
    <3>4. l = h \/ l < h
      BY <2>1
    <3> QED BY <3>2, <3>3, <3>4
  <2>8. tree'.A[0] = tree.A[0]
    BY <2>1, <2>3, <2>5
  <2>9. h2 \in Nat \ {0} /\ (pass = "up" => h = h2 - 1)
    BY <2>1, <2>2
  <2>10. 0 \in DOMAIN levels /\ 0 .. h \subseteq DOMAIN levels /\ DOMAIN tree'.A[0] = 0 .. Len(M)-1
    BY <2>1, <2>3, <2>8
  <2> QED BY <2>2, <2>3, <2>5, <2>6, <2>7, <2>9, <2>10 DEF SumTree
<1>2. CASE E!Tree!Downstream
  <2> DEFINE h == tree.h
             level == [i \in DOMAIN tree.A[h-1] |-> E!Tree!DownNode(h, i)]
             levels == [tree.A EXCEPT ![h-1] = level]
  <2>1. tree.pass = "down" /\ h \in Nat \ {0} /\ h - 1 \in 0 .. h /\ 0 .. h \subseteq DOMAIN tree.A
    BY <1>2 DEF E!Tree!Downstream, SumTree
  <2>2. PICK pass \in {"down", "collect"} :
          /\ tree' = [tree EXCEPT !.A[h-1] = level, !.h = h - 1, !.pass = pass]
          /\ pass = IF h = 1 THEN "collect" ELSE "down"
    BY <1>2 DEF E!Tree!Downstream
  <2>3. DOMAIN levels = DOMAIN tree.A /\ levels[h-1] = level
        /\ \A l \in 0 .. h-2 : levels[l] = tree.A[l]
    BY <2>1
  <2>4. LevelOK(tree.A[h-1]) /\ LevelOK(tree.A[h]) /\ DOMAIN tree.A[h] = E!Tree!Above(tree.A[h-1])
    BY <2>1 DEF SumTree
  <2>5. LevelOK(level) /\ DOMAIN level = DOMAIN tree.A[h-1]
    <3>1. PICK w \in Nat : DOMAIN tree.A[h-1] = 0 .. w-1
      BY <2>4 DEF LevelOK
    <3>2. \A i \in DOMAIN tree.A[h-1] : E!Tree!DownNode(h, i) \in SumNode
      BY <2>1, <2>4, SumDown
    <3> QED BY <3>1, <3>2 DEF LevelOK
  <2> HIDE DEF level
  <2>6. /\ DOMAIN tree' = DOMAIN tree /\ tree'.kind = "prefix" /\ tree'.full = FALSE /\ tree'.D = tree.D
        /\ tree'.A = levels /\ tree'.h = h - 1 /\ tree'.pass = pass
    BY <2>2 DEF SumTree
  <2> HIDE DEF levels
  <2>7. \A l \in 0 .. h-1 : LevelOK(tree'.A[l]) /\ DOMAIN tree'.A[l] = DOMAIN tree.A[l]
    <3> SUFFICES ASSUME NEW l \in 0 .. h-1 PROVE LevelOK(levels[l]) /\ DOMAIN levels[l] = DOMAIN tree.A[l]
      BY <2>6
    <3>1. CASE l = h - 1
      BY <3>1, <2>3, <2>5
    <3>2. CASE l # h - 1
      <4>1. l \in 0 .. h-2 /\ l \in 0 .. h
        BY <3>2, <2>1
      <4> QED BY <4>1, <2>1, <2>3 DEF SumTree
    <3> QED BY <3>1, <3>2
  <2>8. \A l \in 1 .. h-1 : DOMAIN tree'.A[l] = E!Tree!Above(tree'.A[l-1])
    <3> SUFFICES ASSUME NEW l \in 1 .. h-1 PROVE DOMAIN tree'.A[l] = E!Tree!Above(tree'.A[l-1])
      OBVIOUS
    <3>1. l \in 0 .. h-1 /\ l - 1 \in 0 .. h-1 /\ l \in 1 .. h
      BY <2>1
    <3>2. DOMAIN tree.A[l] = E!Tree!Above(tree.A[l-1])
      BY <3>1, <2>1 DEF SumTree
    <3> QED BY <3>1, <3>2, <2>7 DEF E!Tree!Above
  <2>9. 0 \in 0 .. h-1 /\ 0 \in DOMAIN tree'.A /\ DOMAIN tree'.A[0] = 0 .. Len(M)-1
    BY <2>1, <2>3, <2>6, <2>7 DEF SumTree
  <2> HIDE DEF h
  <2>10. h - 1 \in Nat /\ (pass = "down" => h - 1 \in Nat \ {0}) /\ 0 .. h-1 \subseteq DOMAIN tree'.A
    BY <2>1, <2>2, <2>3, <2>6
  <2> QED BY <2>2, <2>6, <2>7, <2>8, <2>9, <2>10 DEF SumTree
<1>3. CASE E!Tree!Collect
  <2>1. tree.pass = "collect" /\ tree.full = FALSE /\ DOMAIN tree.D = 0 .. Len(M)-1
    BY <1>3 DEF E!Tree!Collect, SumTree
  <2> DEFINE res == [i \in DOMAIN tree.D |-> E!Tree!Read(i)]
  <2>2. tree' = [tree EXCEPT !.pass = "done", !.result = res]
    BY <1>3, <2>1 DEF E!Tree!Collect
  <2>3. res \in [0 .. Len(M)-1 -> Nat]
    <3> SUFFICES ASSUME NEW i \in 0 .. Len(M)-1 PROVE E!Tree!Read(i) \in Nat
      BY <2>1
    <3>1. tree.A[0][i] \in SumNode
      BY <2>1 DEF SumTree, LevelOK
    <3> QED BY <3>1 DEF E!Tree!Read, E!Tree!kind, SumNode
  <2> HIDE DEF res
  <2>4. /\ DOMAIN tree' = DOMAIN tree /\ tree'.kind = "prefix" /\ tree'.full = FALSE /\ tree'.D = tree.D
        /\ tree'.pass = "done" /\ tree'.result = res
    BY <2>2 DEF SumTree
  <2> QED BY <2>3, <2>4 DEF SumTree
<1> QED BY <1>1, <1>2, <1>3 DEF E!Tree!Next

(* A call that changes its own stage only, and not back. *)
LEMMA AdvanceKeeps ==
  ASSUME ExpandInv, UNCHANGED <<M, tree>>, NEW f \in DOMAIN calls,
         calls[f].stage \notin {"waiting", "done"} \/ calls'[f].stage \in {"waiting", "done"},
         NEW state, calls' = [calls EXCEPT ![f] = state], StageOK(f)'
  PROVE  ExpandInv'
<1>1. DOMAIN calls' = DOMAIN calls /\ \A g \in DOMAIN calls : g # f => calls'[g] = calls[g]
  OBVIOUS
<1>2. \A g \in DOMAIN calls' : PlaceOK(g)' /\ StageOK(g)'
  BY <1>1 DEF ExpandInv, PlaceOK, StageOK, Spread
<1>3. \A d, g \in DOMAIN calls : Below(d, g) => Below(d, g)'
  BY <1>1 DEF Below, Inside
<1>4. \A d, g \in DOMAIN calls' : d # g => Clear(d, g) \/ Below(d, g)' \/ Below(g, d)'
  BY <1>1, <1>3 DEF ExpandInv
<1>5. SumTree <=> SumTree'
  BY DEF SumTree, LevelOK
<1> QED BY <1>2, <1>4, <1>5 DEF ExpandInv, Clear

LEMMA ForkKeeps ==
  ASSUME ExpandInv, NEW f \in DOMAIN calls, E!Fork(f)
  PROVE  ExpandInv'
<1> DEFINE new == calls[f].next \ DOMAIN calls
<1>1. UNCHANGED <<M, tree>> /\ calls[f].stage = "swapping" /\ calls[f].todo = {}
  BY DEF E!Fork, E!Swapped
<1>2. PlaceOK(f) /\ StageOK(f) /\ Spread(calls[f].next, f)
  BY DEF ExpandInv, StageOK
<1>3. DOMAIN calls' = DOMAIN calls \cup new
  BY DEF E!Fork
<1>4. /\ calls'[f] = [stage |-> "waiting", todo |-> {}, next |-> calls[f].next]
      /\ \A g \in DOMAIN calls : g # f => calls'[g] = calls[g]
      /\ \A g \in new : calls'[g] = E!Called
  BY <1>1, <1>2, <1>3 DEF E!Fork, StageOK
<1>5. \A g \in DOMAIN calls' : PlaceOK(g)' /\ StageOK(g)'
  <2>1. ASSUME NEW g \in new PROVE PlaceOK(g)' /\ StageOK(g)'
    <3>1. PlaceOK(g)'
      BY <1>2 DEF Spread, PlaceOK
    <3> QED BY <3>1, <1>4 DEF StageOK, E!Called, Spread
  <2>2. StageOK(f)'
    BY <1>2, <1>4 DEF StageOK, Spread, PlaceOK, Inside, Clear
  <2>3. ASSUME NEW g \in DOMAIN calls, g # f PROVE PlaceOK(g)' /\ StageOK(g)'
    BY <2>3, <1>4 DEF ExpandInv, StageOK, Spread, PlaceOK, Inside, Clear
  <2> QED BY <2>1, <2>2, <2>3, <1>2, <1>3 DEF PlaceOK
<1>6. \A d, g \in DOMAIN calls : Below(d, g) => Below(d, g)'
  BY <1>4 DEF Below, Inside
<1>7. ASSUME NEW e \in new, NEW g \in DOMAIN calls
      PROVE  Clear(e, g) \/ Below(e, g)'
  <2>1. PlaceOK(e) /\ PlaceOK(g) /\ Inside(e, f)
    BY <1>2 DEF Spread, ExpandInv
  <2>2. CASE g = f
    BY <2>1, <2>2, <1>4 DEF Below, Inside
  <2>3. CASE g # f /\ Clear(f, g)
    BY <2>1, <2>3, <1>2, InsideClear
  <2>4. CASE g # f /\ Below(f, g)
    BY <2>1, <2>4, <1>2, <1>4, InsideClear DEF Below, Inside
  <2>5. ~Below(g, f)
    BY <1>1 DEF Below
  <2> QED BY <2>2, <2>3, <2>4, <2>5 DEF ExpandInv
<1>8. ASSUME NEW d \in DOMAIN calls', NEW g \in DOMAIN calls', d # g
      PROVE  Clear(d, g) \/ Below(d, g)' \/ Below(g, d)'
  <2>1. CASE d \in new /\ g \in new
    BY <2>1, <1>2, <1>8 DEF Spread
  <2> HIDE DEF new
  <2>2. CASE d \in DOMAIN calls /\ g \in DOMAIN calls
    BY <2>2, <1>6, <1>8 DEF ExpandInv
  <2>3. CASE d \in new /\ g \in DOMAIN calls
    BY <2>3, <1>7
  <2>4. CASE d \in DOMAIN calls /\ g \in new
    BY <2>4, <1>7 DEF Clear
  <2> QED BY <1>3, <2>1, <2>2, <2>3, <2>4
<1>9. SumTree <=> SumTree'
  BY <1>1 DEF SumTree, LevelOK
<1> HIDE DEF new
<1> QED BY <1>1, <1>5, <1>8, <1>9 DEF ExpandInv, Clear

LEMMA ExpandStep == ExpandInv /\ E!Next => ExpandInv'
<1> SUFFICES ASSUME ExpandInv, E!Next PROVE ExpandInv'
  OBVIOUS
<1>1. CASE E!Distribute
  <2>1. tree.pass = "done" /\ tree.kind = "prefix" /\ UNCHANGED <<M, tree>>
    BY <1>1 DEF E!Distribute
  <2>2. M[Len(M)] \in Nat /\ Len(M) - 1 \in 0 .. Len(M)-1
    BY DEF ExpandInv
  <2>3. tree.result[Len(M)-1] \in Nat
    BY <2>1, <2>2 DEF ExpandInv, SumTree
  <2>4. PICK outSize \in Nat : calls' = [f \in {E!Call(FALSE, 0, outSize, 0)} |-> E!Called]
    <3>1. M[Len(M)] + tree.result[Len(M)-1] \in Nat
      BY <2>2, <2>3
    <3>2. calls' = [f \in {E!Call(FALSE, 0, M[Len(M)] + tree.result[Len(M)-1], 0)} |-> E!Called]
      BY <1>1 DEF E!Distribute
    <3> QED BY <3>1, <3>2
  <2>5. PlaceOK(E!Call(FALSE, 0, outSize, 0)) /\ \A f \in DOMAIN calls' : f = E!Call(FALSE, 0, outSize, 0)
    BY <2>4 DEF PlaceOK, E!Call
  <2>6. \A f \in DOMAIN calls' : PlaceOK(f)' /\ StageOK(f)'
    BY <2>4, <2>5 DEF StageOK, E!Called, Spread, PlaceOK
  <2>7. SumTree <=> SumTree'
    BY <2>1 DEF SumTree, LevelOK
  <2> QED BY <2>1, <2>5, <2>6, <2>7 DEF ExpandInv
<1>2. ASSUME NEW f \in DOMAIN calls, E!Start(f) PROVE ExpandInv'
  <2>1. calls[f].stage = "called" /\ UNCHANGED <<M, tree>> /\ PlaceOK(f)
    BY <1>2 DEF E!Start, ExpandInv
  <2>2. CASE f.rows <= 1
    <3>1. calls' = [calls EXCEPT ![f] = [stage |-> "done", todo |-> {}, next |-> {}]]
      BY <1>2, <2>2 DEF E!Start, E!Set
    <3>2. StageOK(f)'
      BY <3>1 DEF StageOK, Spread
    <3> QED BY <2>1, <3>1, <3>2, AdvanceKeeps
  <2>3. CASE ~(f.rows <= 1)
    <3>1. PICK m, todo : calls' = [calls EXCEPT ![f] = [stage |-> "swapping", todo |-> todo, next |-> E!Parts(f, m)]]
      BY <1>2, <2>3 DEF E!Start, E!Set
    <3>2. Spread(E!Parts(f, m), f)
      BY <2>1, <2>3, PartsClear DEF PlaceOK
    <3>3. StageOK(f)'
      BY <3>1, <3>2 DEF StageOK, Spread, PlaceOK, Inside, Clear
    <3> QED BY <2>1, <3>1, <3>3, AdvanceKeeps
  <2> QED BY <2>2, <2>3
<1>3. ASSUME NEW f \in DOMAIN calls, E!Swap(f) PROVE ExpandInv'
  <2>1. PICK todo : calls' = [calls EXCEPT ![f].todo = todo] /\ UNCHANGED <<M, tree>> /\ calls[f].todo # {}
    BY <1>3 DEF E!Swap
  <2>2. calls[f] = [stage |-> "swapping", todo |-> calls[f].todo, next |-> calls[f].next] /\ Spread(calls[f].next, f)
    BY <2>1 DEF ExpandInv, StageOK
  <2>3. calls' = [calls EXCEPT ![f] = [stage |-> "swapping", todo |-> todo, next |-> calls[f].next]]
    <3>1. calls' = [calls EXCEPT ![f] = [calls[f] EXCEPT !.todo = todo]]
      BY <2>1
    <3>2. [calls[f] EXCEPT !.todo = todo] = [stage |-> "swapping", todo |-> todo, next |-> calls[f].next]
      BY <2>2
    <3> QED BY <3>1, <3>2
  <2>4. StageOK(f)'
    BY <2>2, <2>3 DEF StageOK, Spread, PlaceOK, Inside, Clear
  <2> QED BY <2>1, <2>2, <2>3, <2>4, AdvanceKeeps
<1>4. ASSUME NEW f \in DOMAIN calls, E!Fork(f) PROVE ExpandInv'
  BY <1>4, ForkKeeps
<1>5. ASSUME NEW f \in DOMAIN calls, E!Return(f) PROVE ExpandInv'
  <2>1. calls' = [calls EXCEPT ![f] = [stage |-> "done", todo |-> {}, next |-> {}]] /\ UNCHANGED <<M, tree>>
    BY <1>5 DEF E!Return, E!Set
  <2>2. StageOK(f)' /\ calls'[f].stage = "done"
    BY <2>1 DEF StageOK, Spread
  <2> QED BY <2>1, <2>2, AdvanceKeeps
<1>6. CASE E!Fill
  <2>1. UNCHANGED <<M, calls>> /\ "kind" \in DOMAIN tree' /\ tree'.kind = "spread"
    BY <1>6 DEF E!Fill, E!Tree!Loaded
  <2> QED BY <2>1 DEF ExpandInv, PlaceOK, StageOK, Spread, Clear, Inside, Below
<1>7. CASE E!Tree!Next /\ UNCHANGED <<M, T, Q, calls>>
  <2>1. "kind" \in DOMAIN tree' /\ (tree.kind = "prefix" => SumTree') /\ (tree'.kind = "prefix" => tree.kind = "prefix")
    <3>1. CASE tree.kind = "prefix"
      BY <3>1, <1>7, SumStep DEF ExpandInv, SumTree
    <3>2. CASE tree.kind # "prefix"
      <4>1. "kind" \in DOMAIN tree' /\ tree'.kind = tree.kind
        BY <3>2, <1>7 DEF E!Tree!Next, E!Tree!Upstream, E!Tree!Downstream, E!Tree!Collect, E!Tree!kind, ExpandInv
      <4> QED BY <3>2, <4>1
    <3> QED BY <3>1, <3>2
  <2> QED BY <2>1, <1>7 DEF ExpandInv, PlaceOK, StageOK, Spread, Clear, Inside, Below
<1> QED BY <1>1, <1>2, <1>3, <1>4, <1>5, <1>6, <1>7 DEF E!Next

-----------------------------------------------------------------------------
(* All primitives. *)

IInv ==
  /\ algorithm \in {"sort", "recursive", "compact", "expand", "tree"}
  /\ algorithm = "sort" => SortInv
  /\ algorithm = "compact" => CompactInv
  /\ algorithm = "expand" => ExpandInv

LEMMA PrimitivesInit == Init => IInv
BY SortInit, CompactInit, ExpandInit DEF Init, IInv

LEMMA PrimitivesStep == IInv /\ [Next]_vars => IInv'
<1> SUFFICES ASSUME IInv, [Next]_vars PROVE IInv'
  OBVIOUS
<1>1. CASE UNCHANGED vars
  <2>1. algorithm' = algorithm /\ UNCHANGED sortVars /\ UNCHANGED taskVars /\ tree' = tree
    BY <1>1 DEF vars
  <2>2. SortInv => SortInv'
    BY <2>1 DEF sortVars, SortInv, S!First, S!size, HeldOK, Holding
  <2>3. CompactInv => CompactInv'
    <3>1. M' = M /\ calls' = calls
      BY <2>1 DEF taskVars
    <3> QED BY <3>1, SameSubCalls DEF CompactInv, CallsOK, C!Joined, C!Returned, C!Started, Related, Under, Before, Done
  <2>4. ExpandInv => ExpandInv'
    BY <2>1 DEF taskVars, ExpandInv, SumTree, LevelOK, StageOK, Spread, Below
  <2> QED BY <2>1, <2>2, <2>3, <2>4 DEF IInv
<1>2. CASE Next
  <2>1. algorithm' = algorithm
    BY <1>2 DEF Next
  <2>2. CASE algorithm = "sort"
    BY <1>2, <2>1, <2>2, SortStep DEF Next, IInv
  <2>3. CASE algorithm = "compact"
    BY <1>2, <2>1, <2>3, CompactStep DEF Next, IInv
  <2>4. CASE algorithm = "expand"
    BY <1>2, <2>1, <2>4, ExpandStep DEF Next, IInv
  <2>5. CASE algorithm \in {"recursive", "tree"}
    BY <2>1, <2>5 DEF IInv
  <2> QED BY <2>2, <2>3, <2>4, <2>5 DEF IInv
<1> QED BY <1>1, <1>2

LEMMA PrimitivesApart == IInv => RangesDisjoint
BY SortDisjoint, CompactApart, ExpandApart DEF IInv, RangesDisjoint

(* No two threads and no two calls work on the same places at once, however *)
(* the shares of a round fall, in whatever order tasks run, and whatever    *)
(* marks, multiplicities and keys there are: plain assignments suffice.     *)
THEOREM PrimitivesKeepApart == Spec => []RangesDisjoint
<1> QED BY PrimitivesInit, PrimitivesStep, PrimitivesApart, PTL DEF Spec
=============================================================================
