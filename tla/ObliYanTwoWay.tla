----------------------------- MODULE ObliYanTwoWay -----------------------------
(***************************************************************************)
(* ObliYanTwoWayTimed, the two-way join of ObliYan (the paper's Algorithms *)
(* 10 to 16), which is serial.  Every table is annotated with the number   *)
(* of partners of its rows, expanded to tau rows, and the copies of the    *)
(* second one are numbered so that equal places pair up.                   *)
(*                                                                         *)
(* Rows of zeros are dummies that every step skips and moves to the end;   *)
(* the tables here are cut before them.                                    *)
(***************************************************************************)
EXTENDS TwoTables, TLC

VARIABLES
  call,    \* R, S and tau
  stage,   \* "count", "left", "right", "number", "place" or "done"
  work,    \* rCopiesPerKey
  left,    \* Rtilde
  right,   \* Stilde
  result

vars == <<call, stage, work, left, right, result>>

Init ==
  /\ call \in Calls
  /\ stage = "count"
  /\ work = <<>> /\ left = <<>> /\ right = <<>> /\ result = <<>>

NonBottom(rows) == SelectSeq(rows, LAMBDA r : r # Bottom)

KeysOf(rows) == {r.key : r \in ToSet(rows)}

WithKey(rows, k) == {i \in DOMAIN rows : rows[i].key = k}

(* ReduceByKey: every key with the number of its rows, by key. *)
ReduceByKey(table) ==
  LET rows == NonBottom(table)
      keys == SetToSortSeq(KeysOf(rows), <)
  IN  [i \in DOMAIN keys |-> [key |-> keys[i], count |-> Cardinality(WithKey(rows, keys[i]))]]

(* The count that a reduced table has for a key; 0 without an entry. *)
CountFor(reduced, k) ==
  LET at == {i \in DOMAIN reduced : reduced[i].key = k}
  IN  IF at = {} THEN 0 ELSE reduced[CHOOSE i \in at : TRUE].count

CountCopies ==
  /\ stage = "count"
  /\ work' = ReduceByKey(call.t1)
  /\ stage' = IF call.t1 = <<>> \/ call.t2 = <<>> THEN "done" ELSE "left"
  /\ UNCHANGED <<call, left, right, result>>

-----------------------------------------------------------------------------
(* Annotate: the rows whose key has an entry, by key, with its count.      *)
Annotate(rows, reduced) ==
  [i \in DOMAIN rows |-> rows[i] @@ [weight |-> CountFor(reduced, rows[i].key)]]

(* Augment(R, S): the rows of R that have partners in S, in any order that *)
(* respects the keys.                                                      *)
Augment(table, other) ==
  LET reduced == ReduceByKey(other)
      matched == SelectSeq(NonBottom(table), LAMBDA r : CountFor(reduced, r.key) # 0)
  IN  {Annotate(rows, reduced) : rows \in SortedBy(matched, LAMBDA r, s : r.key < s.key)}

(* Rows stand at even positions from 2, two per copy; the slots to fill at *)
(* odd positions from 3.                                                   *)
SlotAt(i) == 2 * i + 1

WeightBefore(rows, j) == FoldSeq(LAMBDA r, acc : acc + r.weight, 0, SubSeq(rows, 1, j - 1))

PositionOf(rows, j) == 2 + 2 * WeightBefore(rows, j)

(* Expand: every slot takes the last row before it, as long as there is    *)
(* weight left.  Rows whose slots would lie beyond tau are cut off.        *)
Expand(rows, tau) ==
  LET total == Min({tau, WeightBefore(rows, Len(rows) + 1)})
      Source(i) == Max({j \in DOMAIN rows : PositionOf(rows, j) < SlotAt(i)} \cup {0})
      slots == [i \in 1 .. total |-> IF Source(i) = 0 THEN Bottom ELSE rows[Source(i)]]
  IN  NonBottom([i \in DOMAIN slots |-> [key |-> slots[i].key, rest |-> slots[i].rest]])

ExpandLeft ==
  /\ stage = "left"
  /\ \E rows \in Augment(call.t1, call.t2) : left' = Expand(rows, call.size)
  /\ stage' = "right"
  /\ UNCHANGED <<call, work, right, result>>

ExpandRight ==
  /\ stage = "right"
  /\ \E rows \in Augment(call.t2, call.t1) : right' = Expand(rows, call.size)
  /\ stage' = "number"
  /\ UNCHANGED <<call, work, left, result>>

-----------------------------------------------------------------------------
(* mutant: the copies of equal rows go on counting *)
NumberOn(reduced, r, val) == val

(* Equal rows are counted from 1; the copies of one of them take the       *)
(* numbers up to the rows of R with the key, and the next one starts over. *)
NumberOf(reduced, r, val) ==
  LET copies == CountFor(reduced, r.key)
  IN  IF copies > 0 THEN ((val - 1) % copies) + 1 ELSE val

MultiNumber(rows, reduced) ==
  [i \in DOMAIN rows |->
     rows[i] @@ [num |-> NumberOf(reduced, rows[i],
                                  Cardinality({j \in 1 .. i : rows[j] = rows[i]}))]]

(* MultiNumberInternal and the sort by key and number. *)
NumberRight ==
  /\ stage = "number"
  /\ right' = Sorted(MultiNumber(Sorted(right, LAMBDA r : <<r.key, r.rest>>), work),
                     LAMBDA r : <<r.key, r.num, r.rest>>)
  /\ stage' = "place"
  /\ UNCHANGED <<call, work, left, result>>

(* Place by place; a place without a row on either side is a dummy. *)
JoinPlaces ==
  /\ stage = "place"
  /\ result' = [i \in 1 .. call.size |->
       IF i \in DOMAIN left /\ i \in DOMAIN right
       THEN <<left[i], [key |-> right[i].key, rest |-> right[i].rest]>>
       ELSE <<Bottom, Bottom>>]
  /\ stage' = "done"
  /\ UNCHANGED <<call, work, left, right>>

Next == CountCopies \/ ExpandLeft \/ ExpandRight \/ NumberRight \/ JoinPlaces
=============================================================================
