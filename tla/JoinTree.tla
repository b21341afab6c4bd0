------------------------------- MODULE JoinTree -------------------------------
(***************************************************************************)
(* The query of every algorithm of the repository: relations 0 .. N-1      *)
(* arranged in a rooted join tree.  Relation c joins its parent on column  *)
(* ColInParent[c] of the parent and column ColInChild[c] of its own        *)
(* (joinColInParent, joinColInChild in the source; columns count from 1    *)
(* here and from 0 there).                                                 *)
(*                                                                         *)
(* A row starts as a record [keys |-> <<v1, ..., vk>>].  The passes append *)
(* columns to it; they appear as further fields of the record: us (one     *)
(* u-value per child), delta, and b, P, lambda.                            *)
(*                                                                         *)
(* The second half of the module is the definition of the join itself, the *)
(* nested loops that the repository's tests compare against.               *)
(***************************************************************************)
EXTENDS Integers, Sequences, SequencesExt, FiniteSetsExt

CONSTANTS
  N,            \* number of relations
  Root,         \* the root relation
  Parent,       \* parent array; NoParent at the root
  ColInParent,  \* [Node -> column of the parent], unused at the root
  ColInChild    \* [Node -> column of the child], unused at the root

NoParent == -1

Node == 0 .. N-1

NonRoot == Node \ {Root}

(* The depth that the breadth-first search gives to a node. *)
Depth[u \in Node] == IF u = Root THEN 0 ELSE 1 + Depth[Parent[u]]

(* The parent array is a tree: exactly one root, every other node hangs    *)
(* below it.  The loaders check the first half (one root, parents in       *)
(* range), the second half is what the callers promise.                    *)
ASSUME TreeAssumption ==
  /\ N \in Nat \ {0}
  /\ Root \in Node
  /\ Parent \in [Node -> Node \cup {NoParent}]
  /\ \A u \in Node : Parent[u] = NoParent <=> u = Root
  /\ \A u \in Node : Depth[u] \in 0 .. N-1
  /\ \A u \in Node : Depth[u] = IF u = Root THEN 0 ELSE 1 + Depth[Parent[u]]

ChildSet(p) == {c \in Node : Parent[c] = p}

(* Children in increasing order, as the loop over the parent array pushes  *)
(* them.                                                                   *)
children(p) ==
  CHOOSE s \in [1 .. Cardinality(ChildSet(p)) -> ChildSet(p)] :
    \A i, j \in DOMAIN s : i < j => s[i] < s[j]

IsLeaf(u) == ChildSet(u) = {}

(* Position of c in its parent's children list. *)
ChildIdx(c) == CHOOSE j \in DOMAIN children(Parent[c]) : children(Parent[c])[j] = c

Level(d) == {u \in Node : Depth[u] = d}

MaxDepth == Max({Depth[u] : u \in Node})

(* The levels as the breadth-first queue fills them, and their             *)
(* concatenation.                                                          *)
buildLevels[d \in 0 .. N-1] ==
  IF d = 0
  THEN <<Root>>
  ELSE FlattenSeq([i \in DOMAIN buildLevels[d-1] |-> children(buildLevels[d-1][i])])

BfsOrder == FlattenSeq([d \in 1 .. MaxDepth + 1 |-> buildLevels[d-1]])

(* Do row r of c's parent and row s of c agree on c's join attribute?      *)
Joins(c, r, s) == r.keys[ColInParent[c]] = s.keys[ColInChild[c]]

(* row.back(): the last column of a row. *)
Back(row) == IF "delta" \in DOMAIN row THEN row.delta ELSE Last(row.keys)

(* mutant: the last column of a leaf is taken for a count *)
ContributionAlwaysBack(c, row) == Back(row)

(* The value a child row contributes to a semi-join: its delta column, or  *)
(* 1 when the child is a leaf (valueCol = -1).                             *)
Contribution(c, row) == IF IsLeaf(c) THEN 1 ELSE Back(row)

-----------------------------------------------------------------------------
(* The join by definition, on db \in [Node -> Seq(row)].               *)

Subtree[u \in Node] == {u} \cup UNION {Subtree[c] : c \in ChildSet(u)}

(* All ways of choosing one row of every relation of S so that every tree  *)
(* edge inside S joins.                                                    *)
Matches(db, S) ==
  {f \in [S -> 1 .. Max({Len(db[u]) : u \in S} \cup {0})] :
     /\ \A u \in S : f[u] <= Len(db[u])
     /\ \A u \in S :
          Parent[u] \in S => Joins(u, db[Parent[u]][f[Parent[u]]], db[u][f[u]])}

JoinRow(db, f) == FlattenSeq([i \in 1 .. N |-> db[i-1][f[i-1]].keys])

(* The answer as a bag of rows: the columns of all relations, in relation  *)
(* order.                                                                  *)
JoinBag(db) ==
  [v \in {JoinRow(db, f) : f \in Matches(db, Node)} |->
     Cardinality({f \in Matches(db, Node) : JoinRow(db, f) = v})]

(* How many partial answers of the subtree of u use its i-th row.          *)
SubtreeCount(db, u, i) ==
  Cardinality({f \in Matches(db, Subtree[u]) : f[u] = i})

JoinSize(db) == Cardinality(Matches(db, Node))

(* How many rows runJoin asks for without padding: what the caller gave    *)
(* (tau_or_out_size), or the exact size, but at least 1.                   *)
materializedOutSize(db, tau) == IF tau > 0 THEN tau ELSE Max({1, JoinSize(db)})
=============================================================================
