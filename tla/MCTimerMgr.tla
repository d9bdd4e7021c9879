----------------------------- MODULE MCTimerMgr -----------------------------
(* Small instances of TimerMgr. *)
EXTENDS TimerMgr

(* "slow" is not due before "quick", so that each can be added while the   *)
(* timer thread waits for, or fires, the other.                            *)
MC_Once == {"quick"}
MC_Loop == {"slow"}
MC_Last == [t \in {"quick", "slow"} |-> IF t = "quick" THEN 1 ELSE 2]
MC_Delay == [t \in {"quick", "slow"} |-> IF t = "quick" THEN 0 ELSE 1]
MC_NoDelay == [t \in {"quick", "slow"} |-> 0]
=============================================================================
