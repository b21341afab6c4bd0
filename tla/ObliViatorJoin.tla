---------------------------- MODULE ObliViatorJoin ----------------------------
(***************************************************************************)
(* ObliViatorJoin::join, the two-way join of ParYan.  Both tables are      *)
(* sorted together, every row learns how many rows of each table share its *)
(* key (a1, a2), is repeated as often as it has partners, and the copies   *)
(* of the second table are permuted so that equal places pair up.          *)
(*                                                                         *)
(* The parallel loops inside a step write one row per iteration; the       *)
(* sorts, compactions, expansions and aggregation trees are modules of     *)
(* their own and appear here by what they promise.                         *)
(***************************************************************************)
EXTENDS TwoTables, TLC

VARIABLES
  call,    \* T1, T2 and out_size
  stage,   \* the next step: "augment", "fill", "fetch", "align", "result", "done"
  work,    \* the merged table
  left,    \* ExpandT1
  right,   \* ExpandT2
  result

vars == <<call, stage, work, left, right, result>>

Init ==
  /\ call \in Calls
  /\ stage = "augment"
  /\ work = <<>> /\ left = <<>> /\ right = <<>> /\ result = <<>>

Tagged(rows, tid) == [i \in DOMAIN rows |-> rows[i] @@ [tid |-> tid]]

(* By key, then table.  The first other column is a third key, which does  *)
(* not tell rows apart that differ elsewhere.                              *)
ByKeyAndTable(r, s) == Less(<<r.key, r.tid>>, <<s.key, s.tid>>)

augmentTables ==
  /\ stage = "augment"
  /\ work' \in SortedBy(Tagged(call.t1, 1) \o Tagged(call.t2, 2), ByKeyAndTable)
  /\ stage' = "fill"
  /\ UNCHANGED <<call, left, right, result>>

(* The maximal run of equal keys around place i. *)
Run(rows, i) ==
  {j \in DOMAIN rows : \A k \in Min({i, j}) .. Max({i, j}) : rows[k].key = rows[i].key}

(* mutant: the counts stop at the row instead of going to the run's end *)
CountedBefore(rows, i, tid) == Cardinality({j \in Run(rows, i) : j <= i /\ rows[j].tid = tid})

(* The segmented total of the marks of table tid. *)
Counted(rows, i, tid) == Cardinality({j \in Run(rows, i) : rows[j].tid = tid})

fillDimension ==
  /\ stage = "fill"
  /\ work' = [i \in DOMAIN work |->
                work[i] @@ [a1 |-> Counted(work, i, 1), a2 |-> Counted(work, i, 2)]]
  /\ stage' = "fetch"
  /\ UNCHANGED <<call, left, right, result>>

-----------------------------------------------------------------------------
(* The rows of table tid that have a key and a partner, numbered.          *)
Candidates(tid) ==
  LET rows == SelectSeq(work, LAMBDA r :
                r.key # 0 /\ r.tid = tid /\ (IF tid = 1 THEN r.a2 ELSE r.a1) # 0)
  IN  [i \in DOMAIN rows |-> rows[i] @@ [idx |-> i]]

Weight(r) == IF r.tid = 1 THEN r.a2 ELSE r.a1

Total(rows) == FoldSeq(LAMBDA r, acc : acc + Weight(r), 0, rows)

Missing(cnt) == call.size - cnt

(* The dummy of a table, to be repeated add times.  Its a1 is 1, so that   *)
(* its copies keep their order when they are aligned.                      *)
Dummy(tid, add, idx) ==
  Bottom @@ [tid |-> tid, a1 |-> 1, a2 |-> add, idx |-> idx]

WithDummies(rows, tid, add) ==
  IF add <= 0 THEN rows ELSE Append(rows, Dummy(tid, add, Len(rows) + 1))

Copies(r, add) == IF r.key = 0 THEN add ELSE Weight(r)

(* ObliViatorExpand: every row as often as its weight says. *)
Expanded(rows, add) ==
  FlattenSeq([i \in DOMAIN rows |-> Repeat(rows[i], Copies(rows[i], add))])

fetchExpand ==
  /\ stage = "fetch"
  /\ LET add == Missing(Total(Candidates(1)))
     IN  /\ left' = Expanded(WithDummies(Candidates(1), 1, add), add)
         /\ right' = Expanded(WithDummies(Candidates(2), 2, add), add)
  /\ work' = <<>>
  /\ stage' = IF left' = <<>> \/ right' = <<>> THEN "done" ELSE "align"
  /\ UNCHANGED <<call, result>>

-----------------------------------------------------------------------------
(* C[i]: how many rows of the same key stand before row i. *)
RankInRun(rows, i) == i - Min(Run(rows, i))

(* The place of copy c among the rows of its key: copy c % a1 of the       *)
(* (c / a1)-th row.                                                        *)
PlaceOf(r, c) == c \div r.a1 + (c % r.a1) * r.a2

(* join() sorts the first table by key and number and calls alignTable for *)
(* the second.                                                             *)
alignTable ==
  /\ stage = "align"
  /\ left' = Sorted(left, LAMBDA r : <<r.key, r.idx>>)
  /\ right' = Sorted([i \in DOMAIN right |-> right[i] @@ [q |-> PlaceOf(right[i], RankInRun(right, i))]],
                     LAMBDA r : <<r.key, r.q, r.tid>>)
  /\ stage' = "result"
  /\ UNCHANGED <<call, work, result>>

Original(r) == [key |-> r.key, rest |-> r.rest]

Assemble ==
  /\ stage = "result"
  /\ result' = [i \in DOMAIN left |-> <<Original(left[i]), Original(right[i])>>]
  /\ stage' = "done"
  /\ UNCHANGED <<call, work, left, right>>

Next == augmentTables \/ fillDimension \/ fetchExpand \/ alignTable \/ Assemble
=============================================================================
