------------------------------ MODULE BitonicSort ------------------------------
(***************************************************************************)
(* BitonicSorter: the bitonic sort of one thread.  It recurses; the calls  *)
(* still to be made are kept on a stack.  The array is padded to a power   *)
(* of two with rows that have INT_MAX (INT_MIN when descending) in the     *)
(* first key column and 0 elsewhere, and rows with one of these values in  *)
(* that column are cut off the end.                                        *)
(***************************************************************************)
EXTENDS Integers, Sequences, SequencesExt, FiniteSetsExt

CONSTANTS
  Arrays,          \* the inputs: sequences of key tuples
  INT_MAX, INT_MIN

VARIABLES
  array,   \* the key columns of the input rows
  dire,    \* TRUE: ascending
  rows,    \* number of the input row in each place; Pad for filler
  stack,   \* the calls to be made, the next one first
  sorted   \* the rows returned, <<>> before

recVars == <<array, dire, rows, stack, sorted>>

Pad == -1

(* Calls of bitonic_sort and bitonic_merge on len places from low. *)
Sort(low, len, up) == [merge |-> FALSE, low |-> low, len |-> len, up |-> up]
Merge(low, len, up) == [merge |-> TRUE, low |-> low, len |-> len, up |-> up]

Filler == [c \in DOMAIN array[1] |-> IF c > 1 THEN 0 ELSE IF dire THEN INT_MAX ELSE INT_MIN]

Key(r) == IF r = Pad THEN Filler ELSE array[r + 1]

Greater(a, b) == \E c \in DOMAIN a : a[c] > b[c] /\ \A d \in 1 .. c-1 : a[d] = b[d]

PaddedLen(n) == Min({p \in {2^e : e \in 0 .. n} : p >= n})

-----------------------------------------------------------------------------
RecInit ==
  /\ array \in Arrays
  /\ dire \in BOOLEAN
  /\ LET p == PaddedLen(Len(array))
     IN  /\ rows = [i \in 1 .. p |-> IF i <= Len(array) THEN i - 1 ELSE Pad]
         /\ stack = <<Sort(0, p, dire)>>
  /\ sorted = <<>>

(* bitonic_sort: both halves, one upwards and one downwards, then a merge. *)
SortCall ==
  /\ stack # <<>> /\ ~Head(stack).merge
  /\ LET f == Head(stack)
         mid == f.len \div 2
     IN  stack' = IF f.len <= 1 THEN Tail(stack)
                  ELSE <<Sort(f.low, mid, TRUE), Sort(f.low + mid, mid, FALSE),
                         Merge(f.low, f.len, f.up)>> \o Tail(stack)
  /\ UNCHANGED <<array, dire, rows, sorted>>

(* compare_and_swap: also equal rows change places, when going down. *)
Swapped(i, j, up) == up = Greater(Key(rows[i]), Key(rows[j]))

(* bitonic_merge: the pairs of the two halves, then each half. *)
MergeCall ==
  /\ stack # <<>> /\ Head(stack).merge
  /\ LET f == Head(stack)
         mid == f.len \div 2
         Partner(i) == IF i <= f.low + mid THEN i + mid ELSE i - mid
     IN  IF f.len <= 1 THEN stack' = Tail(stack) /\ UNCHANGED rows
         ELSE /\ rows' = [i \in DOMAIN rows |->
                   IF i \in f.low + 1 .. f.low + 2 * mid /\
                        Swapped(Min({i, Partner(i)}), Max({i, Partner(i)}), f.up)
                   THEN rows[Partner(i)] ELSE rows[i]]
              /\ stack' = <<Merge(f.low, mid, f.up), Merge(f.low + mid, mid, f.up)>> \o Tail(stack)
  /\ UNCHANGED <<array, dire, sorted>>

(* Is a row at the end taken for filler? *)
CutOff(r) == Key(r)[1] \in {INT_MAX, INT_MIN}

(* The rows are returned without what looks like filler at the end. *)
Return ==
  /\ stack = <<>> /\ sorted = <<>>
  /\ sorted' = SubSeq(rows, 1, Max({i \in DOMAIN rows : ~CutOff(rows[i])} \cup {0}))
  /\ UNCHANGED <<array, dire, rows, stack>>

RecNext == SortCall \/ MergeCall \/ Return
=============================================================================
