-------------------------- MODULE ParallelBitonicSort --------------------------
(***************************************************************************)
(* ParallelBitonicSorter: a bitonic sorting network run by a team of       *)
(* threads inside one parallel region.  The rows get one integer key each, *)
(* the array is padded to a power of two, and every round (k, j) of the    *)
(* network is a statically scheduled loop over the pairs of the round with *)
(* a barrier at its end.  Comparing a pair and exchanging it takes two     *)
(* steps: the keys are exchanged first, the rows after.                    *)
(*                                                                         *)
(* Indices count from 0 as in the source.                                  *)
(***************************************************************************)
EXTENDS Integers, Sequences, SequencesExt, FiniteSetsExt

CONSTANTS
  Arrays,   \* the inputs: sequences of key tuples (the keyCols of each row)
  Threads   \* size of the team

Team == 0 .. Threads-1

VARIABLES
  array,   \* the key columns of the input rows
  dire,    \* TRUE: ascending
  keys,    \* lex_keys
  rows,    \* flatRows: number of the input row in each place; Pad for filler
  round,   \* round[t]: the round of the network thread t is in
  next,    \* next[t]: its next pair
  held,    \* held[t]: the pair whose keys it has just handled, or NoPair
  sorted   \* getSortedData: the rows returned, <<>> before

vars == <<array, dire, keys, rows, round, next, held, sorted>>

Pad == -1

-----------------------------------------------------------------------------
(* The least power of ten above every key value, and at least 10. *)
KeyBase(a) ==
  LET maxVal == Max({IF a[i][c] < 0 THEN -(a[i][c]) ELSE a[i][c] : i \in DOMAIN a, c \in DOMAIN a[1]})
  IN  Min({b \in {10^e : e \in 1 .. 5} : b > maxVal})

(* The columns as digits of one number in base 2 * KeyBase. *)
LexKey(a, t) == FoldLeft(LAMBDA acc, v : acc * 2 * KeyBase(a) + v + KeyBase(a), 0, t)

(* The filler's digits: the largest one, or 0 in a descending sort. *)
PadKey(a, up) ==
  FoldLeft(LAMBDA acc, v : acc * 2 * KeyBase(a) + (IF up THEN 2 * KeyBase(a) - 1 ELSE 0), 0, a[1])

(* The least power of two that is at least n; pow2 is an int. *)
Padded(n) == Min({p \in {2^e : e \in 0 .. 30} : p >= n})

size == Len(keys)

(* A round is <<k, j>>: the loop over k doubles from 2, in it j halves     *)
(* from k \div 2 to 1.  The network ends when k is beyond the size.        *)
Following(r) == IF r[2] > 1 THEN <<r[1], r[2] \div 2>> ELSE <<2 * r[1], r[1]>>

NotBefore(r, s) == r[1] > s[1] \/ (r[1] = s[1] /\ r[2] <= s[2])

(* The two places that pair q of a round with distance j compares. *)
Low(q, j) == (q \div j) * 2 * j + (q % j)

Places(q, j) == {Low(q, j), Low(q, j) + j}

(* schedule(static): contiguous shares of the pairs, the first ones longer *)
(* by one when the pairs do not divide evenly.                             *)
First(t) ==
  LET p == size \div 2
  IN  t * (p \div Threads) + Min({t, p % Threads})

NoPair == [low |-> 0, dist |-> 0, swap |-> FALSE]

Exchange(f, a, b) == [f EXCEPT ![a] = f[b], ![b] = f[a]]

-----------------------------------------------------------------------------
Init ==
  /\ array \in Arrays
  /\ dire \in BOOLEAN
  /\ LET n == Len(array)
         p == Padded(n)
     IN  /\ keys = [i \in 1 .. p |-> IF i <= n THEN LexKey(array, array[i]) ELSE PadKey(array, dire)]
         /\ rows = [i \in 1 .. p |-> IF i <= n THEN i - 1 ELSE Pad]
  /\ round = [t \in Team |-> <<2, 1>>]
  /\ next = [t \in Team |-> First(t)]
  /\ held = [t \in Team |-> NoPair]
  /\ sorted = <<>>

(* mutant: the loop over the pairs has no barrier *)
NoBarrier(t) == TRUE

(* The barrier at the end of the loop over the pairs of a round. *)
RoundOpen(t) == \A u \in Team : NotBefore(round[u], round[t])

Running(t) == round[t][1] <= size

(* Does the network sort the block of place i upwards in the rounds of k? *)
Ascending(i, k) == ((i \div k) % 2 = 0) = dire

(* Thread t compares its next pair and exchanges the keys. *)
SwapKeys(t) ==
  /\ Running(t)
  /\ RoundOpen(t)
  /\ held[t] = NoPair
  /\ next[t] < First(t + 1)
  /\ LET k == round[t][1]
         j == round[t][2]
         i == Low(next[t], j)
         doSwap == (keys[i + 1] > keys[i + j + 1]) = Ascending(i, k)
     IN  /\ keys' = IF doSwap THEN Exchange(keys, i + 1, i + j + 1) ELSE keys
         /\ held' = [held EXCEPT ![t] = [low |-> i, dist |-> j, swap |-> doSwap]]
  /\ UNCHANGED <<array, dire, rows, round, next, sorted>>

SwapRows(t) ==
  /\ held[t] # NoPair
  /\ LET h == held[t]
     IN  rows' = IF h.swap THEN Exchange(rows, h.low + 1, h.low + h.dist + 1) ELSE rows
  /\ held' = [held EXCEPT ![t] = NoPair]
  /\ next' = [next EXCEPT ![t] = @ + 1]
  /\ UNCHANGED <<array, dire, keys, round, sorted>>

(* Thread t has done its share and goes on to the next round. *)
EndRound(t) ==
  /\ Running(t)
  /\ RoundOpen(t)
  /\ held[t] = NoPair
  /\ next[t] = First(t + 1)
  /\ round' = [round EXCEPT ![t] = Following(@)]
  /\ next' = [next EXCEPT ![t] = First(t)]
  /\ UNCHANGED <<array, dire, keys, rows, held, sorted>>

(* The region ends: the filler places are cut off, the rest is returned. *)
Finish ==
  /\ \A t \in Team : ~Running(t)
  /\ sorted = <<>>
  /\ sorted' = SubSeq(rows, 1, Len(array))
  /\ UNCHANGED <<array, dire, keys, rows, round, next, held>>

Next == (\E t \in Team : SwapKeys(t) \/ SwapRows(t) \/ EndRound(t)) \/ Finish

Spec == Init /\ [][Next]_vars

-----------------------------------------------------------------------------
(* Two threads are never at work on the same place of the array: the       *)
(* source exchanges without atomics and relies on disjoint pairs and the   *)
(* barrier between rounds.                                                 *)
NoOverlap ==
  \A t, u \in Team : t # u /\ held[t] # NoPair /\ held[u] # NoPair =>
    {held[t].low, held[t].low + held[t].dist} \cap {held[u].low, held[u].low + held[u].dist} = {}

LexBefore(a, b) == \E c \in DOMAIN a : a[c] < b[c] /\ \A d \in 1 .. c-1 : a[d] = b[d]

(* The sorter returns every row once, in the order of its key columns. *)
ReturnsSorted ==
  sorted # <<>> =>
    /\ ToSet(sorted) = 0 .. Len(array) - 1
    /\ \A i \in 1 .. Len(sorted) - 1 :
         LET a == array[sorted[i] + 1]
             b == array[sorted[i + 1] + 1]
         IN  IF dire THEN ~LexBefore(b, a) ELSE ~LexBefore(a, b)

(* "Pad to the next power-of-two length by adding elements at the end":    *)
(* what is cut off at the end must be the padding.                         *)
PaddingStaysBehind == sorted # <<>> => Pad \notin ToSet(sorted)
=============================================================================
