------------------------------ MODULE ObliExpand ------------------------------
(***************************************************************************)
(* ObliViatorExpand: repeat every row as often as its multiplicity says.   *)
(* The rows are first distributed to the place of their first copy by a    *)
(* tree of tasks (the mirror image of ORCompact: a call swaps rows between *)
(* its two parts, then has both parts distributed), then each gap is       *)
(* filled with the row before it.  The places and the filling come from    *)
(* aggregation trees.                                                      *)
(*                                                                         *)
(* Calls on long ranges are tasks and long loops are taskloops; here all   *)
(* of them are, which only adds orders.  Places count from 0.              *)
(***************************************************************************)
EXTENDS Integers, Sequences, FiniteSetsExt, SequencesExt

CONSTANT Multiplicities   \* the inputs: how often each row is wanted

VARIABLES
  M,      \* the multiplicities
  T,      \* T[i]: the row in place i, or Blank (a row of INT_MAX)
  Q,      \* Q[i]: where that row's first copy belongs; Far for a blank
  calls,  \* the calls in progress: call |-> [stage, todo, next]
  tree    \* the aggregation tree that computes Q, and then the one that
          \* fills the gaps

vars == <<M, T, Q, calls, tree>>

Tree == INSTANCE Aggtree

Blank == -1

Far(outSize) == outSize + 1   \* INT_MAX: behind every place

(* sub: OExpandSub on s .. s+rows-1 with offset z; otherwise OExpand *)
Call(sub, s, rows, z) == [sub |-> sub, s |-> s, rows |-> rows, z |-> z]

PowerBelow(k) == Max({p \in {2^e : e \in 0 .. k} : p <= k})

(* The size of the first part: the rest beyond a power of two, or a half. *)
Part(f) == IF f.sub THEN f.rows \div 2 ELSE f.rows - PowerBelow(f.rows)

(* How far apart the rows of a swap are. *)
Distance(f) == IF f.sub THEN f.rows \div 2 ELSE PowerBelow(f.rows)

(* mutant: rows for the first place of the second part are counted too *)
StayingOrNext(f) == Cardinality({i \in f.s .. f.s + Part(f) - 1 : Q[i] <= f.s + Part(f)})

(* m in the source: how many rows belong into the first part.  OExpand     *)
(* looks at the first part only, OExpandSub at the whole range.            *)
Staying(f) ==
  Cardinality({i \in f.s .. f.s + (IF f.sub THEN f.rows ELSE Part(f)) - 1 : Q[i] < f.s + Part(f)})

XOr(a, b) == a # b

(* Does the call swap the i-th rows of its two parts? *)
Crosses(f, m, i) ==
  LET half == f.rows \div 2
  IN  IF ~f.sub THEN m <= i
      ELSE IF f.rows = 2 THEN m = f.z
      ELSE XOr(XOr((f.z % half) + m < half, f.z < half), (f.z + m) % half <= i)

(* The calls it makes then. *)
Parts(f, m) ==
  LET p == Part(f)
      n1 == Distance(f)
  IN  IF ~f.sub
      THEN {Call(FALSE, f.s, p, 0), Call(TRUE, f.s + p, n1, (n1 - p + m) % n1)}
      ELSE IF f.rows = 2 THEN {}
      ELSE {Call(TRUE, f.s, p, f.z % p), Call(TRUE, f.s + p, p, (f.z + m) % p)}

Called == [stage |-> "called", todo |-> {}, next |-> {}]

Root == Call(FALSE, 0, Cardinality(DOMAIN T), 0)

-----------------------------------------------------------------------------
(* Q is the exclusive prefix sum of all multiplicities: one segment. *)
Init ==
  /\ M \in Multiplicities
  /\ T = <<>> /\ Q = <<>> /\ calls = <<>>
  /\ tree = Tree!Loaded("prefix", FALSE, [i \in 0 .. Len(M)-1 |-> M[i + 1]],
                        [i \in 0 .. Len(M)-1 |-> IF i = 0 THEN 0 ELSE 1], <<>>)

(* The tables are lengthened by blanks to the size of the output, and the  *)
(* first call is made.                                                     *)
Distribute ==
  /\ tree.pass = "done" /\ tree.kind = "prefix" /\ calls = <<>>
  /\ LET outSize == M[Len(M)] + tree.result[Len(M)-1]
     IN  /\ T' = [i \in 0 .. outSize-1 |-> IF i < Len(M) THEN i ELSE Blank]
         /\ Q' = [i \in 0 .. outSize-1 |-> IF i < Len(M) THEN tree.result[i] ELSE Far(outSize)]
         /\ calls' = [f \in {Call(FALSE, 0, outSize, 0)} |-> Called]
  /\ UNCHANGED <<M, tree>>

Returned(f) == f \in DOMAIN calls /\ calls[f].stage = "done"

Set(f, stage, todo, next) == [calls EXCEPT ![f] = [stage |-> stage, todo |-> todo, next |-> next]]

(* The call counts the rows of its range and decides every swap. *)
Start(f) ==
  /\ calls[f].stage = "called"
  /\ calls' = IF f.rows <= 1 THEN Set(f, "done", {}, {})
              ELSE LET m == Staying(f)
                   IN  Set(f, "swapping", {i \in 0 .. Part(f)-1 : Crosses(f, m, i)}, Parts(f, m))
  /\ UNCHANGED <<M, T, Q, tree>>

Exchange(g, a, b) == [g EXCEPT ![a] = g[b], ![b] = g[a]]

Swap(f) ==
  /\ \E i \in calls[f].todo :
       LET a == f.s + i
           b == f.s + i + Distance(f)
       IN  /\ T' = Exchange(T, a, b)
           /\ Q' = Exchange(Q, a, b)
           /\ calls' = [calls EXCEPT ![f].todo = @ \ {i}]
  /\ UNCHANGED <<M, tree>>

Swapped(f) == calls[f].todo = {}

Fork(f) ==
  /\ calls[f].stage = "swapping" /\ Swapped(f)
  /\ calls' = [g \in DOMAIN calls \cup calls[f].next |->
                 IF g = f THEN [calls[f] EXCEPT !.stage = "waiting"]
                 ELSE IF g \in DOMAIN calls THEN calls[g] ELSE Called]
  /\ UNCHANGED <<M, T, Q, tree>>

(* taskwait: for the calls made, and only for them *)
Joined(f) == \A g \in calls[f].next : Returned(g)

Return(f) ==
  /\ calls[f].stage = "waiting" /\ Joined(f)
  /\ calls' = Set(f, "done", {}, {})
  /\ UNCHANGED <<M, T, Q, tree>>

(* B1 in the source: is place i a gap? *)
Gap(i) == IF T[i] = Blank THEN 1 ELSE 0

(* The gaps are filled by DupAggtree. *)
Fill ==
  /\ Returned(Root) /\ tree.kind = "prefix"
  /\ tree' = Tree!Loaded("spread", FALSE, T, [i \in DOMAIN T |-> Gap(i)], <<>>)
  /\ UNCHANGED <<M, T, Q, calls>>

Finished == tree.kind = "spread" /\ tree.pass = "done"

Next ==
  \/ Distribute
  \/ \E f \in DOMAIN calls : Start(f) \/ Swap(f) \/ Fork(f) \/ Return(f)
  \/ Fill
  \/ Tree!Next /\ UNCHANGED <<M, T, Q, calls>>

-----------------------------------------------------------------------------
(* Calls f and g, of which f is swapping and g swapping or about to count, *)
(* may not share a place.                                                  *)
Apart ==
  \A f, g \in DOMAIN calls :
    f # g /\ calls[f].todo # {} /\ (calls[g].stage = "called" \/ calls[g].todo # {}) =>
      f.s + f.rows <= g.s \/ g.s + g.rows <= f.s

(* Every row as often as wanted, in the order of the input. *)
Copies == FlattenSeq([r \in 1 .. Len(M) |-> [k \in 1 .. M[r] |-> r - 1]])
=============================================================================
