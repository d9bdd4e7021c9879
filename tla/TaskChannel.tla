---------------------------- MODULE TaskChannel ----------------------------
(***************************************************************************)
(* What a logic thread of the library promises to whoever posts work to    *)
(* it, without the queue, the condition variable and the thread that       *)
(* implement the promise (see LogicPool).                                  *)
(*                                                                         *)
(* A channel numbers the messages it accepts 1, 2, 3, ... and runs them in *)
(* that order, one at a time, each once: ran[l] says how far it has come.  *)
(* A channel that is told to close may complete at most one more message   *)
(* ("last"); what is left over is never run.                               *)
(***************************************************************************)
EXTENDS Naturals

CONSTANT Channels

VARIABLES accepted,   \* accepted[l]: messages taken so far
          ran,        \* ran[l]: messages completed so far
          phase       \* phase[l]: "new", "open", "last" or "closed"

tcVars == <<accepted, ran, phase>>

Phases == {"new", "open", "last", "closed"}

Init ==
    /\ accepted = [l \in Channels |-> 0]
    /\ ran = [l \in Channels |-> 0]
    /\ phase = [l \in Channels |-> "new"]

Open(l) ==
    /\ phase[l] = "new"
    /\ phase' = [phase EXCEPT ![l] = "open"]
    /\ UNCHANGED <<accepted, ran>>

Accept(l) ==
    /\ phase[l] # "new"
    /\ accepted' = [accepted EXCEPT ![l] = @ + 1]
    /\ UNCHANGED <<ran, phase>>

(* The next message in acceptance order completes. *)
Run(l) ==
    /\ phase[l] \in {"open", "last"}
    /\ ran[l] < accepted[l]
    /\ ran' = [ran EXCEPT ![l] = @ + 1]
    /\ phase' = [phase EXCEPT ![l] = IF @ = "last" THEN "closed" ELSE @]
    /\ UNCHANGED accepted

Shut(l) ==
    /\ phase[l] \in {"open", "last"}
    /\ \E p \in {"last", "closed"} : phase' = [phase EXCEPT ![l] = p]
    /\ UNCHANGED <<accepted, ran>>

Next == \E l \in Channels : Open(l) \/ Accept(l) \/ Run(l) \/ Shut(l)

Spec == Init /\ [][Next]_tcVars
=============================================================================
