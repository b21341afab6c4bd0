--------------------------------- MODULE JFYan ---------------------------------
(***************************************************************************)
(* One join in mode "Ours": runJoin decides how many rows the output gets, *)
(* runs the bottom-up pass and, if the expanded root has rows, the         *)
(* top-down pass.                                                          *)
(*                                                                         *)
(* The target is tau (-tau on the command line, or the protected row count *)
(* of the DO padding) when that is positive, and otherwise the exact size, *)
(* at least 1.                                                             *)
(***************************************************************************)
EXTENDS JFYanDown

CONSTANT Taus   \* values of tau_or_out_size

ASSUME JFYanAssumption == EdgeWorkers \in Nat \ {0} /\ Taus \subseteq Nat

allVars == <<vars, downOnly>>

-----------------------------------------------------------------------------
JInit ==
  /\ Init
  /\ \E tau \in Taus : target = materializedOutSize(input, tau)
  /\ DownInit

(* The top-down pass starts when the bottom-up pass has returned a root    *)
(* table with rows; without rows the (empty) answer is final.              *)
StartDown ==
  /\ phase = "off"
  /\ stage = "done"
  /\ phase' = IF tables[Root] # <<>> THEN "node" ELSE "done"
  /\ UNCHANGED <<tables, oi, idx, sc, pc, work, rank, temp, result, upVars>>

JNext ==
  \/ Next /\ UNCHANGED downOnly
  \/ StartDown
  \/ DownNext /\ UNCHANGED upVars

(* Some thread keeps running.  No step can be repeated for ever, so that   *)
(* nothing more is needed for an answer.                                   *)
JSpec == JInit /\ [][JNext]_allVars /\ WF_allVars(JNext)

-----------------------------------------------------------------------------
(* The control state of the top-down pass has its type; every copied table *)
(* has as many rows as the root, and at most EdgeWorkers edges are open.   *)
DownTypeOK ==
  /\ phase \in {"off", "node", "edges", "sort", "done"}
  /\ oi \in 0 .. Len(order)
  /\ work \in [NonRoot -> {"idle", "ranked", "copied", "sorted"}]
  /\ phase = "edges" => DOMAIN idx = DOMAIN tables[Root] /\ DOMAIN pc = DOMAIN idx
  /\ \A c \in NonRoot :
       work[c] \in {"copied", "sorted"} => DOMAIN temp[c] = DOMAIN tables[Root]
  /\ Cardinality({c \in NonRoot : work[c] = "ranked"}) <= EdgeWorkers

Copied(c) == work[c] \in {"copied", "sorted"}

(* The rows of relation u for position q of the output. *)
At(u, q) == {r \in ToSet(IF u = Root THEN tables[Root] ELSE temp[u]) : r.P = q}

(* The output has no dummy rows. *)
ExactTargets == {<<db, JoinSize(db)>> : db \in Inputs}

Exact == <<input, target>> \in ExactTargets

(* Handing positions down loses none and doubles none: the copies of every *)
(* relation carry the positions 1, 2, ... of the root exactly once each.   *)
(* The final assembly relies on it: it pairs the rows of the relations by  *)
(* their place after the sort.                                             *)
PositionsComplete ==
  Exact => \A c \in NonRoot : Copied(c) =>
    \A q \in DOMAIN tables[Root] :
      Cardinality({k \in DOMAIN temp[c] : temp[c][k].P = q}) = 1

(* The copy that relation c has for a position joins the copy that its     *)
(* parent has for the same position.                                       *)
EdgesAgree ==
  Exact => \A c \in NonRoot : Copied(c) =>
    \A q \in DOMAIN tables[Root] :
      \A r \in At(Parent[c], q), s \in At(c, q) : Joins(c, r, s)

(* The copies of one row of a node share out its delta partial answers     *)
(* evenly: modulo delta, every local index is taken equally often, so that *)
(* no combination of the children's rows is lost or doubled below.         *)
IndicesBalanced ==
  Exact /\ phase = "edges" =>
    LET rows == tables[order[oi + 1]]
        Takers(i, k) == {h \in DOMAIN rows : rows[h].keys = rows[i].keys /\ idx[h] % rows[i].delta = k}
    IN  \A i \in DOMAIN rows :
          \A k \in 0 .. rows[i].delta - 1 : Cardinality(Takers(i, k)) = Cardinality(Takers(i, 0))

(* While a worker is between the two halves of an edge nobody changes what *)
(* it reads: the rows and indices of the node, its own child, its ranks.   *)
EdgesIsolated ==
  [][\A c \in NonRoot : work[c] = "ranked" =>
       /\ tables'[Parent[c]] = tables[Parent[c]]
       /\ <<idx, sc, pc, rank[c]>>' = <<idx, sc, pc, rank[c]>>
       /\ work'[c] = "ranked" => tables'[c] = tables[c]]_allVars

-----------------------------------------------------------------------------
(* The answer without the rows that are dummies at the root, as a bag. *)
RealBag ==
  [v \in {row \in ToSet(result) : DummyValue \notin ToSet(row)} |->
     Cardinality({k \in DOMAIN result : result[k] = v})]

(* The joins of the databases. *)
Answers == [db \in Inputs |-> {JoinBag(db)}]

A == INSTANCE AcyclicJoin WITH
       Answers <- Answers,
       in <- input,
       out <- RealBag,
       st <- IF phase = "done" THEN "answered" ELSE "running"

(* With the exact size as target JFYan implements the abstract join: it    *)
(* answers once, and with the bag of the join.                             *)
ImplementsJoin == A!JoinSpec

(* Every copied row carries an output position: "tid is represented by the *)
(* final output position P" (comment in JFYanDown).                        *)
TidIsPosition ==
  \A c \in NonRoot : Copied(c) =>
    \A r \in ToSet(temp[c]) : r.P \in DOMAIN tables[Root]

=============================================================================
