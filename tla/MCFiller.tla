------------------------------- MODULE MCFiller -------------------------------
(* Instances of ParallelBitonicSort whose keys reach the filler's.         *)
EXTENDS ParallelBitonicSort

(* The last row's only key column is 9, and its key is the filler's. *)
NineArrays == {<<<<9>>, <<9>>, <<9>>>>, <<<<7>>, <<7>>, <<7>>>>}
=============================================================================
