--------------------------- MODULE ParallelSemiJoin ---------------------------
(***************************************************************************)
(* ParallelSemiJoin::executeValueOnly, with which all oblivious modes      *)
(* filter: for every row of R the sum of the values of the rows of S with  *)
(* its key.  The tables are sorted together, the rows of S before those of *)
(* R with the same key, so that a segmented prefix sum ends in the rows of *)
(* R, and the sums go back to the places the rows came from.               *)
(***************************************************************************)
EXTENDS TwoTables, TLC

VARIABLES
  call,    \* R and S; the rest of a row of S is its value
  stage,   \* "sort", "sum", "scatter" or "done"
  work,    \* the merged table T
  left,    \* Sc
  right,   \* unused
  result   \* the rows of R with their sums

vars == <<call, stage, work, left, right, result>>

Init ==
  /\ call \in Calls
  /\ stage = "sort"
  /\ work = <<>> /\ left = <<>> /\ right = <<>> /\ result = <<>>

MergedTable ==
  [i \in DOMAIN call.t1 |-> [key |-> call.t1[i].key, tid |-> 1, val |-> 0, orig |-> i]]
  \o [i \in DOMAIN call.t2 |-> [key |-> call.t2[i].key, tid |-> 0, val |-> call.t2[i].rest, orig |-> 0]]

(* S-tuples sort before R-tuples on the same key. *)
ByKeyTid(r, s) == Less(<<r.key, r.tid>>, <<s.key, s.tid>>)

SortMerged ==
  /\ stage = "sort"
  /\ work' \in SortedBy(MergedTable, ByKeyTid)
  /\ stage' = "sum"
  /\ UNCHANGED <<call, left, right, result>>

(* B[i]: row i has the key of the row before it. *)
Continues(i) == i > 1 /\ work[i].key = work[i-1].key

(* The inclusive prefix sum over the values, starting over where a segment *)
(* does.                                                                   *)
PrefixSums[i \in 0 .. Len(work)] ==
  IF i = 0 THEN 0 ELSE (IF Continues(i) THEN PrefixSums[i-1] ELSE 0) + work[i].val

SumSegments ==
  /\ stage = "sum"
  /\ left' = [i \in DOMAIN work |-> PrefixSums[i]]
  /\ stage' = "scatter"
  /\ UNCHANGED <<call, work, right, result>>

PlaceOfRow(i) == CHOOSE p \in DOMAIN work : work[p].tid = 1 /\ work[p].orig = i

Scatter ==
  /\ stage = "scatter"
  /\ result' = [i \in DOMAIN call.t1 |-> <<call.t1[i], Max({0, left[PlaceOfRow(i)]})>>]
  /\ stage' = "done"
  /\ UNCHANGED <<call, work, left, right>>

Next == SortMerged \/ SumSegments \/ Scatter
=============================================================================
