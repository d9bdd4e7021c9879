----------------------------- MODULE TcpClient -----------------------------
(***************************************************************************)
(* One CASIOClient (ASIOClient.h/.cpp): a TCP link that is kept up by      *)
(* completion handlers on the io thread, by tasks on the client's logic    *)
(* thread, by the timer check on logic thread 0 (client_manager.h) and by  *)
(* the users' calls, which thread_mutex_ of the manager admits one at a    *)
(* time.  None of them takes a lock that another one takes around          *)
(* is_connect_, is_client_close_ or the socket.                            *)
(*                                                                         *)
(* A handler is cut into steps where another thread can see or change what *)
(* it has half done.  Data is abstracted: a packet is one task "recv", and *)
(* of the clock only whether more than timer_check_seconds_ have gone by   *)
(* since recv_last_timer_ is kept (stale).                                 *)
(***************************************************************************)
EXTENDS AsioSocket

CONSTANTS Shared,     \* connect_id % thread count = 0: one thread does both
          MaxInputs,  \* bound: users' sends and reconnects, reads that bring data
          Room        \* bound: unless all is quiet, the loop timer fires only
                      \* while few operations and tasks are waiting

ASSUME SharedAssumption == Shared \in BOOLEAN
ASSUME BoundsAssumption ==
    MaxInputs \in Nat /\ MaxFaults \in Nat /\ Room \in Nat

Logic0 == "logic0"
Home   == IF Shared THEN Logic0 ELSE "home"
Logics == {Logic0, Home}

VARIABLES
    is_connect_, is_client_close_,
    stale,     \* get_time_pass_seconds() > timer_check_seconds_
    listed,    \* the client is in asio_client_list_
    io,        \* where the io thread is within a handler
    lpc,       \* lpc[t]: where logic thread t is within a task
    api,       \* where the caller that holds thread_mutex_ is
    q,         \* q[t]: tasks posted to logic thread t
    greeted,   \* history: a connect event was given to do_message
    inputs     \* sends, reconnects and data so far

flags   == <<is_connect_, is_client_close_>>
vars    == <<asio, flags, stale, listed, io, lpc, api, q, greeted, inputs>>

(* start() has been called under the manager's lock; it goes straight to     *)
(* async_connect.                                                            *)
Init ==
    /\ AsioInit
    /\ is_connect_ = FALSE
    /\ is_client_close_ = FALSE
    /\ stale = FALSE
    /\ listed = TRUE
    /\ io = "idle"
    /\ lpc = [t \in Logics |-> "idle"]
    /\ api = "dial"
    /\ q = [t \in Logics |-> <<>>]
    /\ greeted = FALSE
    /\ inputs = 0

Post(task) == q' = [q EXCEPT ![Home] = Append(@, task)]

-----------------------------------------------------------------------------
(* The io thread: one completion handler at a time, in completion order.    *)

Take(op, ok) ==
    /\ io = "idle"
    /\ ready # <<>>
    /\ Head(ready) = Done(op, ok)

Consume == ready' = Tail(ready) /\ UNCHANGED <<sock, gone, connects, reads, writes, faults>>

connect_handler_up ==
    /\ Take("connect", TRUE)
    /\ Consume
    /\ is_connect_' = TRUE
    /\ io' = "arm"
    /\ UNCHANGED <<is_client_close_, stale, listed, lpc, api, q, greeted, inputs>>

connect_handler_arm ==
    /\ io = "arm"
    /\ Post("connect")
    /\ stale' = FALSE
    /\ async_read_some(ready)
    /\ io' = "idle"
    /\ UNCHANGED <<flags, listed, lpc, api, greeted, inputs>>

(* Mutant of connect_handler_failed: the wrong command id in the event. *)
connect_handler_failed_timeout ==
    /\ Take("connect", FALSE)
    /\ Consume
    /\ is_connect_' = FALSE
    /\ Post("timeout")
    /\ UNCHANGED <<is_client_close_, stale, listed, io, lpc, api, greeted, inputs>>

connect_handler_failed ==
    /\ Take("connect", FALSE)
    /\ Consume
    /\ is_connect_' = FALSE
    /\ Post("disconnect")
    /\ UNCHANGED <<is_client_close_, stale, listed, io, lpc, api, greeted, inputs>>

(* Mutant of do_read_data: packets are posted to logic thread 0. *)
do_read_data_logic0 ==
    /\ Take("read", TRUE)
    /\ q' = [q EXCEPT ![Logic0] = Append(@, "recv")]
    /\ stale' = FALSE
    /\ async_read_some(Tail(ready))
    /\ UNCHANGED <<flags, listed, io, lpc, api, greeted, inputs>>

(* format_recv_buffer may find no complete packet in what was read. *)
do_read_data ==
    /\ Take("read", TRUE)
    /\ Post("recv") \/ UNCHANGED q
    /\ stale' = FALSE
    /\ async_read_some(Tail(ready))
    /\ UNCHANGED <<flags, listed, io, lpc, api, greeted, inputs>>

(* Mutants of link_lost: is_client_close_ is not tested; the loss is not    *)
(* reported.                                                                *)
link_lost_untested(op) ==
    /\ Take(op, FALSE)
    /\ Consume
    /\ Post("disconnect")
    /\ io' = "lost"
    /\ UNCHANGED <<flags, stale, listed, lpc, api, greeted, inputs>>

link_lost_silent(op) ==
    /\ Take(op, FALSE)
    /\ Consume
    /\ io' = IF is_client_close_ THEN "idle" ELSE "lost"
    /\ UNCHANGED <<flags, stale, listed, lpc, api, q, greeted, inputs>>

(* The handlers of a failed read and of a failed write report the loss, and *)
(* unless the user has closed the client they close the socket and post the *)
(* automatic reconnect.                                                     *)
link_lost(op) ==
    /\ Take(op, FALSE)
    /\ Consume
    /\ Post("disconnect")
    /\ io' = IF is_client_close_ THEN "idle" ELSE "lost"
    /\ UNCHANGED <<flags, stale, listed, lpc, api, greeted, inputs>>

do_read_failed == link_lost("read")

do_write_failed == link_lost("write")

do_write_done ==
    /\ Take("write", TRUE)
    /\ Consume
    /\ UNCHANGED <<flags, stale, listed, io, lpc, api, q, greeted, inputs>>

(* Mutants of close_socket_flag and close_socket_close: is_connect_ is not  *)
(* reset; no automatic reconnect is posted.                                 *)
close_socket_flag_kept ==
    /\ io = "lost"
    /\ io' = "shut"
    /\ UNCHANGED <<asio, flags, stale, listed, lpc, api, q, greeted, inputs>>

close_socket_close_only ==
    /\ io = "shut"
    /\ close(ready)
    /\ io' = "idle"
    /\ UNCHANGED <<flags, stale, listed, lpc, api, q, greeted, inputs>>

close_socket_flag ==
    /\ io = "lost"
    /\ is_connect_' = FALSE
    /\ io' = "shut"
    /\ UNCHANGED <<asio, is_client_close_, stale, listed, lpc, api, q, greeted, inputs>>

close_socket_close ==
    /\ io = "shut"
    /\ close(ready)
    /\ Post("reconnect")
    /\ io' = "idle"
    /\ UNCHANGED <<flags, stale, listed, lpc, api, greeted, inputs>>

IoThread ==
    \/ connect_handler_up \/ connect_handler_arm \/ connect_handler_failed
    \/ do_read_data \/ do_read_failed \/ do_write_failed \/ do_write_done
    \/ close_socket_flag \/ close_socket_close

-----------------------------------------------------------------------------
(* reconnect(), on whatever thread: the test of is_connect_ and, later, the *)
(* async_connect.                                                           *)

dial == async_connect(ready)

-----------------------------------------------------------------------------
(* Logic threads: one task at a time, in posting order.  On logic thread 0  *)
(* the loop timer's task timer_check() posts the task "check", which looks  *)
(* for expired clients under thread_mutex_ and calls do_check_timeout       *)
(* outside it.                                                              *)

Events == {"connect", "disconnect", "recv"}

Idle(t) == lpc[t] = "idle" /\ q[t] # <<>>

Goto(t, pc) == lpc' = [lpc EXCEPT ![t] = pc]

do_message(t) ==
    /\ Idle(t)
    /\ Head(q[t]) \in Events
    /\ greeted' = (greeted \/ Head(q[t]) = "connect")
    /\ q' = [q EXCEPT ![t] = Tail(@)]
    /\ UNCHANGED <<asio, flags, stale, listed, io, lpc, api, inputs>>

reconnect_task(t) ==
    /\ Idle(t)
    /\ Head(q[t]) = "reconnect"
    /\ q' = [q EXCEPT ![t] = Tail(@)]
    /\ Goto(t, "reconnect")
    /\ UNCHANGED <<asio, flags, stale, listed, io, api, greeted, inputs>>

reconnect_test(t) ==
    /\ lpc[t] = "reconnect"
    /\ Goto(t, IF is_connect_ THEN "idle" ELSE "dial")
    /\ UNCHANGED <<asio, flags, stale, listed, io, api, q, greeted, inputs>>

reconnect_dial(t) ==
    /\ lpc[t] = "dial"
    /\ dial
    /\ Goto(t, "idle")
    /\ UNCHANGED <<flags, stale, listed, io, api, q, greeted, inputs>>

timer_check ==
    /\ Idle(Logic0)
    /\ Head(q[Logic0]) = "timer_check"
    /\ q' = [q EXCEPT ![Logic0] = Append(Tail(@), "check")]
    /\ UNCHANGED <<asio, flags, stale, listed, io, lpc, api, greeted, inputs>>

find_expired ==
    /\ Idle(Logic0)
    /\ Head(q[Logic0]) = "check"
    /\ api = "idle"
    /\ q' = [q EXCEPT ![Logic0] = Tail(@)]
    /\ Goto(Logic0, IF listed /\ stale THEN "expired" ELSE "idle")
    /\ UNCHANGED <<asio, flags, stale, listed, io, api, greeted, inputs>>

(* Mutant of do_check_timeout: it does nothing when not connected. *)
do_check_timeout_connected ==
    /\ lpc[Logic0] = "expired"
    /\ Goto(Logic0, "idle")
    /\ UNCHANGED <<asio, flags, stale, listed, io, api, q, greeted, inputs>>

do_check_timeout ==
    /\ lpc[Logic0] = "expired"
    /\ Goto(Logic0, IF is_connect_ THEN "idle" ELSE "reconnect")
    /\ UNCHANGED <<asio, flags, stale, listed, io, api, q, greeted, inputs>>

LogicThread(t) ==
    \/ do_message(t) \/ reconnect_task(t) \/ reconnect_test(t) \/ reconnect_dial(t)
    \/ t = Logic0 /\ (timer_check \/ find_expired \/ do_check_timeout)

-----------------------------------------------------------------------------
(* Users' calls.  The manager's lock is free when api = "idle"; a call that *)
(* does not find the client returns false.                                  *)

Enter == api = "idle" /\ listed

client_send_data ==
    /\ Enter
    /\ inputs < MaxInputs
    /\ inputs' = inputs + 1
    /\ async_write(ready)
    /\ UNCHANGED <<flags, stale, listed, io, lpc, api, q, greeted>>

client_send_format_data ==
    /\ Enter
    /\ inputs < MaxInputs
    /\ inputs' = inputs + 1
    /\ IF is_connect_
       THEN api' = "write" /\ UNCHANGED q
       ELSE Post("disconnect") /\ UNCHANGED api
    /\ UNCHANGED <<asio, flags, stale, listed, io, lpc, greeted>>

do_write_immediately ==
    /\ api = "write"
    /\ async_write(ready)
    /\ api' = "idle"
    /\ UNCHANGED <<flags, stale, listed, io, lpc, q, greeted, inputs>>

reconnect_server ==
    /\ Enter
    /\ inputs < MaxInputs
    /\ inputs' = inputs + 1
    /\ api' = IF is_connect_ THEN "idle" ELSE "dial"
    /\ UNCHANGED <<asio, flags, stale, listed, io, lpc, q, greeted>>

(* The end of start() and of reconnect_server(). *)
caller_dial ==
    /\ api = "dial"
    /\ dial
    /\ api' = "idle"
    /\ UNCHANGED <<flags, stale, listed, io, lpc, q, greeted, inputs>>

close_client ==
    /\ Enter
    /\ is_client_close_' = TRUE
    /\ api' = "flag"
    /\ UNCHANGED <<asio, is_connect_, stale, listed, io, lpc, q, greeted, inputs>>

close_client_flag ==
    /\ api = "flag"
    /\ is_connect_' = FALSE
    /\ api' = "close"
    /\ UNCHANGED <<asio, is_client_close_, stale, listed, io, lpc, q, greeted, inputs>>

close_client_close ==
    /\ api = "close"
    /\ close(ready)
    /\ listed' = FALSE
    /\ api' = "idle"
    /\ UNCHANGED <<flags, stale, io, lpc, q, greeted, inputs>>

Caller ==
    do_write_immediately \/ caller_dial \/ close_client_flag \/ close_client_close

-----------------------------------------------------------------------------
(* The environment: the network, the reactor, the clock, the loop timer.    *)

client == <<flags, stale, listed, io, lpc, api, q, greeted>>

Reactor ==
    /\ Handshake \/ ConnectReady \/ ReadReady(FALSE) \/ WriteReady
    /\ UNCHANGED <<client, inputs>>

Network ==
    \/ PeerDrop /\ UNCHANGED <<client, inputs>>
    \/ /\ ReadReady(TRUE)
       /\ inputs < MaxInputs
       /\ inputs' = inputs + 1
       /\ UNCHANGED client

TimePasses ==
    /\ ~stale
    /\ stale' = TRUE
    /\ UNCHANGED <<asio, flags, listed, io, lpc, api, q, greeted, inputs>>

Quiet ==
    /\ connects = 0 /\ writes = 0 /\ ready = <<>> /\ io = "idle"
    /\ \A t \in Logics : q[t] = <<>> /\ lpc[t] = "idle"

TimerFires ==
    /\ \/ Quiet
       \/ /\ connects + reads + writes + Len(ready) <= Room
          /\ \A t \in Logics : Len(q[t]) < Room
    /\ q' = [q EXCEPT ![Logic0] = Append(@, "timer_check")]
    /\ UNCHANGED <<asio, flags, stale, listed, io, lpc, api, greeted, inputs>>

Next ==
    \/ IoThread
    \/ \E t \in Logics : LogicThread(t)
    \/ client_send_data \/ client_send_format_data \/ reconnect_server \/ close_client
    \/ Caller
    \/ Reactor \/ Network
    \/ TimePasses \/ TimerFires

(* The io thread and the logic threads run forever, a caller inside the     *)
(* library goes on, the operating system answers, and the loop timer with   *)
(* the period timer_check_seconds_ keeps firing.  Users and peers owe       *)
(* nothing.                                                                 *)
Fairness ==
    /\ WF_vars(IoThread)
    /\ \A t \in Logics : WF_vars(LogicThread(t))
    /\ WF_vars(Caller)
    /\ WF_vars(Reactor)
    /\ WF_vars(TimePasses)
    /\ WF_vars(TimerFires)

Spec == Init /\ [][Next]_vars /\ Fairness
-----------------------------------------------------------------------------
(* Properties. *)

Tasks == Events \cup {"reconnect", "timer_check", "check"}

TypeOK ==
    /\ AsioTypeOK
    /\ is_connect_ \in BOOLEAN
    /\ is_client_close_ \in BOOLEAN
    /\ stale \in BOOLEAN
    /\ listed \in BOOLEAN
    /\ io \in {"idle", "arm", "lost", "shut"}
    /\ lpc \in [Logics -> {"idle", "reconnect", "dial", "expired"}]
    /\ api \in {"idle", "dial", "write", "flag", "close"}
    /\ q \in [Logics -> Seq(Tasks)]
    /\ greeted \in BOOLEAN
    /\ inputs \in Nat

(* A read of the client is waiting, or its completion is. *)
ReadArmed == reads > 0 \/ \E i \in 1 .. Len(ready) : ready[i].op = "read"

(* An open client that believes it is connected has a read armed: without  *)
(* one it would never hear of the end of the link, and since is_connect_   *)
(* keeps reconnect() from doing anything it would stay deaf for ever.  It  *)
(* must survive a close and a connect that complete in any order.          *)
ArmedWhileConnected ==
    is_connect_ /\ ~is_client_close_ /\ io = "idle" => ReadArmed

Dialling == api = "dial" \/ \E t \in Logics : lpc[t] \in {"reconnect", "dial"}

ReconnectQueued == \E t \in Logics : \E i \in 1 .. Len(q[t]) : q[t][i] = "reconnect"

LossQueued ==
    \E i \in 1 .. Len(ready) : ready[i].op \in {"read", "write"} /\ ~ready[i].ok

(* When the socket of an open client is closed, somebody still has to act: *)
(* an automatic reconnect is posted or under way, or the failure that will *)
(* post it is queued for the io thread.                                    *)
ReconnectOwed ==
    (sock = "closed" /\ ~is_client_close_ /\ io = "idle") =>
        Dialling \/ ReconnectQueued \/ LossQueued

(* The closed client is at rest: nothing that is queued or under way will  *)
(* touch the socket again.                                                 *)
AtRest ==
    /\ ~listed
    /\ sock = "closed"
    /\ io \notin {"lost", "shut"}
    /\ ~Dialling
    /\ ~ReconnectQueued
    /\ \A t \in Logics : lpc[t] # "expired"

(* Once at rest a closed client stays there, whatever completions, events  *)
(* and timer checks are still to come.                                     *)
RestIsFinal == [][AtRest => AtRest']_vars

(* do_message sees a connect event before any data: the two are posted by  *)
(* one thread to one queue.                                                *)
DataAfterConnect ==
    \A t \in Logics : \A i \in 1 .. Len(q[t]) :
       q[t][i] = "recv" => greeted \/ \E j \in 1 .. i - 1 : q[t][j] = "connect"

Told == q[Home] # <<>> /\ Head(q[Home]) = "disconnect"

(* When the peer ends a link on which a read is armed, a disconnect event  *)
(* comes to do_message, unless the user has closed the client.             *)
DropReported == (gone /\ reads > 0) ~> (Told \/ is_client_close_)

(* An open client never stays without a link for good: when failures stop, *)
(* the automatic reconnects and the timer checks bring the link up again.  *)
(* (It need not stay up: two reconnects can go on closing each other's     *)
(* link, see the README.)                                                  *)
LinkReturns == []<>(LinkUp \/ is_client_close_)

-----------------------------------------------------------------------------
(* What the repository says of the client, and the code does not do.       *)

(* After automatic reconnects the client knows that it is connected.       *)
ReconnectCompletes == []<>(is_connect_ \/ is_client_close_)

(* A client that the user has closed is not reconnected.                   *)
ClosedStaysClosed == is_client_close_ /\ ~listed => sock = "closed"
=============================================================================
