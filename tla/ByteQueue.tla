----------------------------- MODULE ByteQueue -----------------------------
(***************************************************************************)
(* What a receive buffer promises: the bytes that arrive leave in the      *)
(* order in which they were sent, and none is changed, skipped or made up. *)
(***************************************************************************)
EXTENDS Naturals, Sequences

VARIABLES wire, queue   \* sent and not yet received; received and not yet used

Init == wire = <<>> /\ queue = <<>>

Send ==
    /\ Len(wire') > Len(wire)
    /\ SubSeq(wire', 1, Len(wire)) = wire
    /\ UNCHANGED queue

Arrive ==
    /\ Len(queue') > Len(queue)
    /\ queue' \o wire' = queue \o wire

Leave ==
    /\ Len(queue') < Len(queue)
    /\ queue' = SubSeq(queue, Len(queue) - Len(queue') + 1, Len(queue))
    /\ UNCHANGED wire

LinkLost == wire' = <<>> /\ UNCHANGED queue

Next == Send \/ Arrive \/ Leave \/ LinkLost

Spec == Init /\ [][Next]_<<wire, queue>>
=============================================================================
