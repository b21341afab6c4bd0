---------------------------- MODULE MCMemoryProfile ----------------------------
(* An instance of MemoryProfile: two threads with blocks of one byte, and    *)
(* groups of two branches.                                                   *)
EXTENDS MemoryProfile
================================================================================
