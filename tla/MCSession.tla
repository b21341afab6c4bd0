------------------------------- MODULE MCSession -------------------------------
(* Command lines over joins of up to eight rows, with a limit of six.      *)
EXTENDS Session

Joins == {[exact |-> e, expected |-> x] : e \in {0, 2, 7}, x \in {-1, 2, 7}}

Calls == {[kind |-> k, memory |-> m] : k \in {"copy", "bench", "profile", "stage"}, m \in BOOLEAN}

SmallRequests ==
  {[exact |-> j.exact, expected |-> j.expected, kind |-> c.kind, memory |-> c.memory,
    modes |-> m, tau |-> t, materialize |-> p, warmup |-> w, sweep |-> s, rrs |-> r, noise |-> 3] :
     j \in Joins, c \in {c \in Calls : c.memory => c.kind \in {"profile", "stage"}},
     m \in {<<"JFYan", "ParYan", "ObliYan">>, <<"ObliYan">>, <<"NonObliJFYan">>},
     t \in {0, 2, 9}, p \in BOOLEAN, w \in BOOLEAN, s \in {0, 2},
     r \in {"available", "unavailable", "tooExpensive"}}
================================================================================
