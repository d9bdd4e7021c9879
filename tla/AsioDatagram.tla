---------------------------- MODULE AsioDatagram ----------------------------
(***************************************************************************)
(* The asio datagram socket and reactor as the UDP client uses them.       *)
(* External to the client, like AsioSocket.                                *)
(*                                                                         *)
(* A connect only notes the peer's address: it opens a closed socket, may  *)
(* be repeated at will and completes at once, with an error only when      *)
(* there is no route.  A receive or a send fails when an earlier datagram  *)
(* was refused by the peer's host.                                         *)
(***************************************************************************)
EXTENDS Naturals, Sequences

CONSTANT MaxFaults   \* bound: operations that fail on their own

VARIABLES open,               \* the socket has a descriptor
          reads, writes,      \* operations waiting in the reactor
          ready,              \* completions for the io thread
          faults              \* failures so far

asio == <<open, reads, writes, ready, faults>>

Done(op, ok) == [op |-> op, ok |-> ok]

Completions == [op : {"connect", "read", "write"}, ok : BOOLEAN]

AsioTypeOK ==
    /\ open \in BOOLEAN
    /\ reads \in Nat
    /\ writes \in Nat
    /\ ready \in Seq(Completions)
    /\ faults \in Nat

AsioInit ==
    /\ open = FALSE
    /\ reads = 0
    /\ writes = 0
    /\ ready = <<>>
    /\ faults = 0

Fails(op, rest) ==
    /\ faults < MaxFaults
    /\ faults' = faults + 1
    /\ ready' = Append(rest, Done(op, FALSE))

Aborted(op, n) == [i \in 1 .. n |-> Done(op, FALSE)]

-----------------------------------------------------------------------------
(* Calls on the socket; rest is the completion queue without the completion *)
(* that the calling io thread has just taken.                               *)

async_connect(rest) ==
    /\ open' = TRUE
    /\ \/ ready' = Append(rest, Done("connect", TRUE)) /\ UNCHANGED faults
       \/ Fails("connect", rest)
    /\ UNCHANGED <<reads, writes>>

async_receive_from(rest) ==
    /\ IF open
       THEN ready' = rest /\ reads' = reads + 1
       ELSE ready' = Append(rest, Done("read", FALSE)) /\ UNCHANGED reads
    /\ UNCHANGED <<open, writes, faults>>

async_send_to(rest) ==
    /\ IF open
       THEN ready' = rest /\ writes' = writes + 1
       ELSE ready' = Append(rest, Done("write", FALSE)) /\ UNCHANGED writes
    /\ UNCHANGED <<open, reads, faults>>

close(rest) ==
    /\ open' = FALSE
    /\ ready' = rest \o Aborted("read", reads) \o Aborted("write", writes)
    /\ reads' = 0
    /\ writes' = 0
    /\ UNCHANGED faults

-----------------------------------------------------------------------------
(* The reactor. *)

ReadReady(ok) ==
    /\ reads > 0
    /\ reads' = reads - 1
    /\ IF ok THEN ready' = Append(ready, Done("read", TRUE)) /\ UNCHANGED faults
             ELSE Fails("read", ready)
    /\ UNCHANGED <<open, writes>>

WriteReady(ok) ==
    /\ writes > 0
    /\ writes' = writes - 1
    /\ IF ok THEN ready' = Append(ready, Done("write", TRUE)) /\ UNCHANGED faults
             ELSE Fails("write", ready)
    /\ UNCHANGED <<open, reads>>
=============================================================================
