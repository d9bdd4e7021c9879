---------------------------- MODULE MCLogicPool ----------------------------
(* Model-checking instance of LogicPool: two logic threads, and connect ids *)
(* of which two share a thread once both threads exist.                     *)
EXTENDS LogicPool

MC_Conns == {1, 2, 3}
=============================================================================
