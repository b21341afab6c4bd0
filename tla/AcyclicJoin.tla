------------------------------ MODULE AcyclicJoin ------------------------------
(***************************************************************************)
(* What every join of the repository promises: given a database it         *)
(* eventually answers, once, with a bag of rows that is right for it.  The *)
(* repository's own tests compare the implementations with nested loops;   *)
(* which bags are right is said where the module is instantiated, and is   *)
(* exactly one unless the caller asked for fewer rows than there are.      *)
(***************************************************************************)
EXTENDS Bags

CONSTANT Answers  \* the bags that may answer every input

VARIABLES
  in,   \* the input of this call
  out,  \* the answer, a bag of rows; empty until it is given
  st    \* "running" or "answered"

joinVars == <<in, out, st>>

JoinInit ==
  /\ in \in DOMAIN Answers
  /\ out = EmptyBag
  /\ st = "running"

Answer ==
  /\ st = "running"
  /\ out' \in Answers[in]
  /\ st' = "answered"
  /\ UNCHANGED in

JoinSpec == JoinInit /\ [][Answer]_joinVars /\ WF_joinVars(Answer)
=============================================================================
