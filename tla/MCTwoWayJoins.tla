----------------------------- MODULE MCTwoWayJoins -----------------------------
(* Tables of up to three rows: no, one and several partners, equal rows,   *)
(* key 0, a negative key, an empty table; sizes below, at and above the    *)
(* number of pairs.                                                        *)
EXTENDS TwoWayJoins

Table(keys, rests) == [i \in DOMAIN keys |-> [key |-> keys[i], rest |-> rests[i]]]

T1s == {Table(k, r) : k \in {<<1, 1, 2>>, <<2, 1, 1>>, <<0, -1, 1>>, <<2, 2, 2>>},
                      r \in {<<7, 8, 9>>, <<7, 7, 7>>}}
       \cup {<<>>, Table(<<1>>, <<7>>), Table(<<3, 1>>, <<7, 7>>)}

T2s == {Table(k, r) : k \in {<<1, 2, 1>>, <<-1, 1, 0>>, <<2, 2, 2>>},
                      r \in {<<4, 5, 6>>, <<4, 4, 6>>}}
       \cup {Table(<<2>>, <<4>>), Table(<<0, 1>>, <<0, 4>>)}

SomeCalls == [t1 : T1s, t2 : T2s, size : {0, 2, 10}]
=============================================================================
