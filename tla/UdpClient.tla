----------------------------- MODULE UdpClient -----------------------------
(***************************************************************************)
(* One CASIOUDPClient (ASIOUDPClient.h/.cpp).  Its threads are the ones of *)
(* TcpClient, and the steps are cut in the same places.  It differs in     *)
(* that a connect never meets a link that is up or under way, and that a   *)
(* send is never refused: it goes to the socket whatever is_connect_ says. *)
(***************************************************************************)
EXTENDS AsioDatagram

CONSTANTS Shared,     \* connect_id % thread count = 0: one thread does both
          MaxInputs,  \* bound: users' sends and reconnects, datagrams
          Room        \* bound: unless all is quiet, the loop timer fires only
                      \* while few operations and tasks are waiting

ASSUME SharedAssumption == Shared \in BOOLEAN
ASSUME BoundsAssumption ==
    MaxInputs \in Nat /\ MaxFaults \in Nat /\ Room \in Nat

Logic0 == "logic0"
Home   == IF Shared THEN Logic0 ELSE "home"
Logics == {Logic0, Home}

VARIABLES
    is_connect_, is_client_close_,
    stale,     \* get_time_pass_seconds() > timer_check_seconds_
    listed,    \* the client is in asio_client_list_
    io,        \* where the io thread is within a handler
    lpc,       \* lpc[t]: where logic thread t is within a task
    api,       \* where the caller that holds thread_mutex_ is
    q,         \* q[t]: tasks posted to logic thread t
    inputs     \* sends, reconnects and datagrams so far

flags == <<is_connect_, is_client_close_>>
vars  == <<asio, flags, stale, listed, io, lpc, api, q, inputs>>

(* start() has been called under the manager's lock. *)
Init ==
    /\ AsioInit
    /\ is_connect_ = FALSE
    /\ is_client_close_ = FALSE
    /\ stale = FALSE
    /\ listed = TRUE
    /\ io = "idle"
    /\ lpc = [t \in Logics |-> "idle"]
    /\ api = "dial"
    /\ q = [t \in Logics |-> <<>>]
    /\ inputs = 0

Post(task) == q' = [q EXCEPT ![Home] = Append(@, task)]

-----------------------------------------------------------------------------
(* Completion handlers, on the io thread. *)

Take(op, ok) ==
    /\ io = "idle"
    /\ ready # <<>>
    /\ Head(ready) = Done(op, ok)

Consume == ready' = Tail(ready) /\ UNCHANGED <<open, reads, writes, faults>>

connect_handler_up ==
    /\ Take("connect", TRUE)
    /\ Consume
    /\ is_connect_' = TRUE
    /\ io' = "arm"
    /\ UNCHANGED <<is_client_close_, stale, listed, lpc, api, q, inputs>>

(* Mutant of connect_handler_arm: no read is started. *)
connect_handler_deaf ==
    /\ io = "arm"
    /\ Post("connect")
    /\ stale' = FALSE
    /\ io' = "idle"
    /\ UNCHANGED <<asio, flags, listed, lpc, api, inputs>>

connect_handler_arm ==
    /\ io = "arm"
    /\ Post("connect")
    /\ stale' = FALSE
    /\ async_receive_from(ready)
    /\ io' = "idle"
    /\ UNCHANGED <<flags, listed, lpc, api, inputs>>

(* Mutant of connect_handler_failed: the wrong command id in the event. *)
connect_handler_failed_timeout ==
    /\ Take("connect", FALSE)
    /\ Consume
    /\ is_connect_' = FALSE
    /\ Post("timeout")
    /\ UNCHANGED <<is_client_close_, stale, listed, io, lpc, api, inputs>>

connect_handler_failed ==
    /\ Take("connect", FALSE)
    /\ Consume
    /\ is_connect_' = FALSE
    /\ Post("disconnect")
    /\ UNCHANGED <<is_client_close_, stale, listed, io, lpc, api, inputs>>

(* format_recv_buffer may find no complete packet in what was read. *)
do_read_data ==
    /\ Take("read", TRUE)
    /\ Post("recv") \/ UNCHANGED q
    /\ stale' = FALSE
    /\ async_receive_from(Tail(ready))
    /\ UNCHANGED <<flags, listed, io, lpc, api, inputs>>

(* Mutant of failed: is_client_close_ is not tested. *)
failed_untested(op) ==
    /\ Take(op, FALSE)
    /\ Consume
    /\ Post("disconnect")
    /\ io' = "lost"
    /\ UNCHANGED <<flags, stale, listed, lpc, api, inputs>>

(* What the handlers of a failed read and of a failed send do. *)
failed(op) ==
    /\ Take(op, FALSE)
    /\ Consume
    /\ Post("disconnect")
    /\ io' = IF is_client_close_ THEN "idle" ELSE "lost"
    /\ UNCHANGED <<flags, stale, listed, lpc, api, inputs>>

do_read_failed == failed("read")

do_write_failed == failed("write")

do_write_done ==
    /\ Take("write", TRUE)
    /\ Consume
    /\ UNCHANGED <<flags, stale, listed, io, lpc, api, q, inputs>>

close_socket_flag ==
    /\ io = "lost"
    /\ is_connect_' = FALSE
    /\ io' = "shut"
    /\ UNCHANGED <<asio, is_client_close_, stale, listed, lpc, api, q, inputs>>

(* Mutant of close_socket_close: no automatic reconnect is posted. *)
close_socket_close_only ==
    /\ io = "shut"
    /\ close(ready)
    /\ io' = "idle"
    /\ UNCHANGED <<flags, stale, listed, lpc, api, q, inputs>>

close_socket_close ==
    /\ io = "shut"
    /\ close(ready)
    /\ Post("reconnect")
    /\ io' = "idle"
    /\ UNCHANGED <<flags, stale, listed, lpc, api, inputs>>

IoThread ==
    \/ connect_handler_up \/ connect_handler_arm \/ connect_handler_failed
    \/ do_read_data \/ do_read_failed \/ do_write_failed \/ do_write_done
    \/ close_socket_flag \/ close_socket_close

-----------------------------------------------------------------------------
(* Logic threads. *)

Events == {"connect", "disconnect", "recv"}

Idle(t) == lpc[t] = "idle" /\ q[t] # <<>>

Goto(t, pc) == lpc' = [lpc EXCEPT ![t] = pc]

do_message(t) ==
    /\ Idle(t)
    /\ Head(q[t]) \in Events
    /\ q' = [q EXCEPT ![t] = Tail(@)]
    /\ UNCHANGED <<asio, flags, stale, listed, io, lpc, api, inputs>>

reconnect_task(t) ==
    /\ Idle(t)
    /\ Head(q[t]) = "reconnect"
    /\ q' = [q EXCEPT ![t] = Tail(@)]
    /\ Goto(t, "reconnect")
    /\ UNCHANGED <<asio, flags, stale, listed, io, api, inputs>>

reconnect_test(t) ==
    /\ lpc[t] = "reconnect"
    /\ Goto(t, IF is_connect_ THEN "idle" ELSE "dial")
    /\ UNCHANGED <<asio, flags, stale, listed, io, api, q, inputs>>

reconnect_dial(t) ==
    /\ lpc[t] = "dial"
    /\ async_connect(ready)
    /\ Goto(t, "idle")
    /\ UNCHANGED <<flags, stale, listed, io, api, q, inputs>>

timer_check ==
    /\ Idle(Logic0)
    /\ Head(q[Logic0]) = "timer_check"
    /\ q' = [q EXCEPT ![Logic0] = Append(Tail(@), "check")]
    /\ UNCHANGED <<asio, flags, stale, listed, io, lpc, api, inputs>>

find_expired ==
    /\ Idle(Logic0)
    /\ Head(q[Logic0]) = "check"
    /\ api = "idle"
    /\ q' = [q EXCEPT ![Logic0] = Tail(@)]
    /\ Goto(Logic0, IF listed /\ stale THEN "expired" ELSE "idle")
    /\ UNCHANGED <<asio, flags, stale, listed, io, api, inputs>>

(* Mutant of do_check_timeout: it does nothing when not connected. *)
do_check_timeout_connected ==
    /\ lpc[Logic0] = "expired"
    /\ Goto(Logic0, "idle")
    /\ UNCHANGED <<asio, flags, stale, listed, io, api, q, inputs>>

(* The timeout event is given to do_message here, and changes nothing. *)
do_check_timeout ==
    /\ lpc[Logic0] = "expired"
    /\ Goto(Logic0, IF is_connect_ THEN "idle" ELSE "reconnect")
    /\ UNCHANGED <<asio, flags, stale, listed, io, api, q, inputs>>

LogicThread(t) ==
    \/ do_message(t) \/ reconnect_task(t) \/ reconnect_test(t) \/ reconnect_dial(t)
    \/ t = Logic0 /\ (timer_check \/ find_expired \/ do_check_timeout)

-----------------------------------------------------------------------------
(* Users' calls, under the manager's lock. *)

Enter == api = "idle" /\ listed

(* client_send_data and client_send_format_data alike. *)
do_write_immediately ==
    /\ Enter
    /\ inputs < MaxInputs
    /\ inputs' = inputs + 1
    /\ async_send_to(ready)
    /\ UNCHANGED <<flags, stale, listed, io, lpc, api, q>>

reconnect_server ==
    /\ Enter
    /\ inputs < MaxInputs
    /\ inputs' = inputs + 1
    /\ api' = IF is_connect_ THEN "idle" ELSE "dial"
    /\ UNCHANGED <<asio, flags, stale, listed, io, lpc, q>>

(* The end of start() and of reconnect_server(). *)
caller_dial ==
    /\ api = "dial"
    /\ async_connect(ready)
    /\ api' = "idle"
    /\ UNCHANGED <<flags, stale, listed, io, lpc, q, inputs>>

close_client ==
    /\ Enter
    /\ is_client_close_' = TRUE
    /\ api' = "flag"
    /\ UNCHANGED <<asio, is_connect_, stale, listed, io, lpc, q, inputs>>

close_client_flag ==
    /\ api = "flag"
    /\ is_connect_' = FALSE
    /\ api' = "close"
    /\ UNCHANGED <<asio, is_client_close_, stale, listed, io, lpc, q, inputs>>

close_client_close ==
    /\ api = "close"
    /\ close(ready)
    /\ listed' = FALSE
    /\ api' = "idle"
    /\ UNCHANGED <<flags, stale, io, lpc, q, inputs>>

Caller == caller_dial \/ close_client_flag \/ close_client_close

-----------------------------------------------------------------------------
(* The environment: the reactor, the clock, the loop timer. *)

client == <<flags, stale, listed, io, lpc, api, q>>

Sent == WriteReady(TRUE) /\ UNCHANGED <<client, inputs>>

Refused == (ReadReady(FALSE) \/ WriteReady(FALSE)) /\ UNCHANGED <<client, inputs>>

Datagram ==
    /\ ReadReady(TRUE)
    /\ inputs < MaxInputs
    /\ inputs' = inputs + 1
    /\ UNCHANGED client

TimePasses ==
    /\ ~stale
    /\ stale' = TRUE
    /\ UNCHANGED <<asio, flags, listed, io, lpc, api, q, inputs>>

Quiet ==
    /\ writes = 0 /\ ready = <<>> /\ io = "idle"
    /\ \A t \in Logics : q[t] = <<>> /\ lpc[t] = "idle"

TimerFires ==
    /\ \/ Quiet
       \/ /\ reads + writes + Len(ready) <= Room
          /\ \A t \in Logics : Len(q[t]) < Room
    /\ q' = [q EXCEPT ![Logic0] = Append(@, "timer_check")]
    /\ UNCHANGED <<asio, flags, stale, listed, io, lpc, api, inputs>>

Next ==
    \/ IoThread
    \/ \E t \in Logics : LogicThread(t)
    \/ do_write_immediately \/ reconnect_server \/ close_client
    \/ Caller
    \/ Sent \/ Refused \/ Datagram
    \/ TimePasses \/ TimerFires

(* As for TcpClient: threads, the sending of datagrams and the timer go on. *)
Fairness ==
    /\ WF_vars(IoThread)
    /\ \A t \in Logics : WF_vars(LogicThread(t))
    /\ WF_vars(Caller)
    /\ WF_vars(Sent)
    /\ WF_vars(TimePasses)
    /\ WF_vars(TimerFires)

Spec == Init /\ [][Next]_vars /\ Fairness

-----------------------------------------------------------------------------
(* Properties. *)

Tasks == Events \cup {"reconnect", "timer_check", "check"}

TypeOK ==
    /\ AsioTypeOK
    /\ is_connect_ \in BOOLEAN
    /\ is_client_close_ \in BOOLEAN
    /\ stale \in BOOLEAN
    /\ listed \in BOOLEAN
    /\ io \in {"idle", "arm", "lost", "shut"}
    /\ lpc \in [Logics -> {"idle", "reconnect", "dial", "expired"}]
    /\ api \in {"idle", "dial", "flag", "close"}
    /\ q \in [Logics -> Seq(Tasks)]
    /\ inputs \in Nat

ReadArmed == reads > 0 \/ \E i \in 1 .. Len(ready) : ready[i].op = "read"

(* An open client that believes it is connected has a read armed, after    *)
(* any order of failed sends, repeated connects and timer checks: nothing  *)
(* else tells it of datagrams or of a refusal.                             *)
ArmedWhileConnected ==
    is_connect_ /\ ~is_client_close_ /\ io = "idle" => ReadArmed

Dialling == api = "dial" \/ \E t \in Logics : lpc[t] \in {"reconnect", "dial"}

ReconnectQueued == \E t \in Logics : \E i \in 1 .. Len(q[t]) : q[t][i] = "reconnect"

LossQueued ==
    \E i \in 1 .. Len(ready) : ready[i].op \in {"read", "write"} /\ ~ready[i].ok

(* When the socket of an open client is closed, an automatic reconnect is  *)
(* posted or under way, or the failure that will post it is queued.        *)
ReconnectOwed ==
    (~open /\ ~is_client_close_ /\ io = "idle") =>
        Dialling \/ ReconnectQueued \/ LossQueued

AtRest ==
    /\ ~listed
    /\ ~open
    /\ io \notin {"lost", "shut"}
    /\ ~Dialling
    /\ ~ReconnectQueued
    /\ \A t \in Logics : lpc[t] # "expired"

(* A closed client for which no reconnect is queued or under way stays     *)
(* closed, whatever completions, events and timer checks are to come.      *)
RestIsFinal == [][AtRest => AtRest']_vars

(* When operations stop failing the client is connected again and again,   *)
(* and knows it: the timer check repairs a connect that failed, and a      *)
(* connect that meets another one does no harm, whereas for TCP it does.   *)
ReconnectCompletes == []<>(is_connect_ \/ is_client_close_)
=============================================================================
