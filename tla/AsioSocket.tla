----------------------------- MODULE AsioSocket -----------------------------
(***************************************************************************)
(* The asio stream socket and reactor as the TCP client uses them.         *)
(* External to the client: the vendored asio library on top of the         *)
(* operating system.                                                       *)
(*                                                                         *)
(* An asynchronous operation waits in the reactor (connects, reads and     *)
(* writes count them), then its completion is queued (ready) until the one *)
(* thread that runs the io_context takes it.  close() completes everything *)
(* that waits with operation_aborted.  Operations of two threads on one    *)
(* socket are taken to be atomic.                                          *)
(*                                                                         *)
(* sock: "closed"       no descriptor; async_connect opens one             *)
(*       "idle"         open, not connected                                *)
(*       "connecting"   connect() returned EINPROGRESS                     *)
(*       "established"  the handshake is done, connect() does not know yet *)
(*       "refused"      the handshake failed, connect() does not know yet  *)
(*       "connected"    connect() has returned 0: EISCONN from now on      *)
(***************************************************************************)
EXTENDS Naturals, Sequences

CONSTANT MaxFaults   \* bound: connects that fail plus links that break

VARIABLES sock, gone,                \* gone: the peer has ended the link
          connects, reads, writes,   \* operations waiting in the reactor
          ready,                     \* completions for the io thread
          faults                     \* failures so far

asio == <<sock, gone, connects, reads, writes, ready, faults>>

SockStates == {"closed", "idle", "connecting", "established", "refused", "connected"}

LinkUp == sock \in {"established", "connected"} /\ ~gone

Done(op, ok) == [op |-> op, ok |-> ok]

Completions == [op : {"connect", "read", "write"}, ok : BOOLEAN]

AsioTypeOK ==
    /\ sock \in SockStates
    /\ gone \in BOOLEAN
    /\ connects \in Nat
    /\ reads \in Nat
    /\ writes \in Nat
    /\ ready \in Seq(Completions)
    /\ faults \in Nat

AsioInit ==
    /\ sock = "closed"
    /\ gone = FALSE
    /\ connects = 0
    /\ reads = 0
    /\ writes = 0
    /\ ready = <<>>
    /\ faults = 0

Aborted(op, n) == [i \in 1 .. n |-> Done(op, FALSE)]

-----------------------------------------------------------------------------
(* Calls on the socket.  rest is the completion queue without the           *)
(* completion that the calling io thread has just taken.                    *)

(* connect() on a descriptor that is already connecting fails with EALREADY, *)
(* on a connected one with EISCONN; the first call after the handshake       *)
(* reports its outcome, and after a failure leaves the descriptor idle.      *)
async_connect(rest) ==
    /\ \/ /\ sock \in {"closed", "idle"}
          /\ \/ /\ sock' = "connecting"
                /\ connects' = connects + 1
                /\ ready' = rest
                /\ UNCHANGED faults
             \/ /\ sock' = "connected"
                /\ ready' = Append(rest, Done("connect", TRUE))
                /\ UNCHANGED <<connects, faults>>
             \/ /\ faults < MaxFaults
                /\ faults' = faults + 1
                /\ sock' = "idle"
                /\ ready' = Append(rest, Done("connect", FALSE))
                /\ UNCHANGED connects
       \/ /\ sock \in {"connecting", "refused", "connected"}
          /\ sock' = IF sock = "refused" THEN "idle" ELSE sock
          /\ ready' = Append(rest, Done("connect", FALSE))
          /\ UNCHANGED <<connects, faults>>
       \/ /\ sock = "established"
          /\ sock' = "connected"
          /\ ready' = Append(rest, Done("connect", TRUE))
          /\ UNCHANGED <<connects, faults>>
    /\ UNCHANGED <<gone, reads, writes>>

async_read_some(rest) ==
    /\ IF sock = "closed"
       THEN ready' = Append(rest, Done("read", FALSE)) /\ UNCHANGED reads
       ELSE ready' = rest /\ reads' = reads + 1
    /\ UNCHANGED <<sock, gone, connects, writes, faults>>

async_write(rest) ==
    /\ IF sock = "closed"
       THEN ready' = Append(rest, Done("write", FALSE)) /\ UNCHANGED writes
       ELSE ready' = rest /\ writes' = writes + 1
    /\ UNCHANGED <<sock, gone, connects, reads, faults>>

close(rest) ==
    /\ sock' = "closed"
    /\ gone' = FALSE
    /\ ready' = rest \o Aborted("read", reads) \o Aborted("connect", connects)
                     \o Aborted("write", writes)
    /\ connects' = 0
    /\ reads' = 0
    /\ writes' = 0
    /\ UNCHANGED faults

-----------------------------------------------------------------------------
(* The network and the reactor. *)

Handshake ==
    /\ sock = "connecting"
    /\ \/ sock' = "established" /\ UNCHANGED faults
       \/ /\ faults < MaxFaults
          /\ faults' = faults + 1
          /\ sock' = "refused"
    /\ UNCHANGED <<gone, connects, reads, writes, ready>>

PeerDrop ==
    /\ LinkUp
    /\ faults < MaxFaults
    /\ faults' = faults + 1
    /\ gone' = TRUE
    /\ UNCHANGED <<sock, connects, reads, writes, ready>>

(* A waiting connect reads SO_ERROR.  When another connect() call has read   *)
(* the error away ("idle") it may take the failed handshake for a success.   *)
ConnectReady ==
    /\ connects > 0
    /\ sock # "connecting"
    /\ connects' = connects - 1
    /\ \E ok \in BOOLEAN :
          /\ sock \in {"established", "connected"} => ok
          /\ sock = "refused" => ~ok
          /\ ready' = Append(ready, Done("connect", ok))
    /\ UNCHANGED <<sock, gone, reads, writes, faults>>

ReadReady(ok) ==
    /\ reads > 0
    /\ IF ok THEN LinkUp ELSE gone \/ sock \in {"idle", "refused"}
    /\ reads' = reads - 1
    /\ ready' = Append(ready, Done("read", ok))
    /\ UNCHANGED <<sock, gone, connects, writes, faults>>

(* A write to a link the peer has ended may still succeed. *)
WriteReady ==
    /\ writes > 0
    /\ sock # "connecting"
    /\ writes' = writes - 1
    /\ \E ok \in BOOLEAN :
          /\ LinkUp => ok
          /\ sock \in {"idle", "refused"} => ~ok
          /\ ready' = Append(ready, Done("write", ok))
    /\ UNCHANGED <<sock, gone, connects, reads, faults>>
=============================================================================
