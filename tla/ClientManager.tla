--------------------------- MODULE ClientManager ---------------------------
(***************************************************************************)
(* CClient_Manager (client_manager.h) behind the C interface of            *)
(* framework.cpp, with its lock, its io thread and its timer check, and    *)
(* with the test program's cpacket_dispose as the user's callback.         *)
(*                                                                         *)
(* Its clients are serial ones (TtyClient) and network ones.  Of the       *)
(* latter, modelled in TcpClient and UdpClient, only is_connect_, the      *)
(* events and server_ip_ are seen: NetConnects and NetLost stand for all   *)
(* that the handlers of a client do whose server_ip_ is an address.  With  *)
(* another one from_string throws, each time it is called, and the socket  *)
(* is never opened.  An exception that leaves a logic thread ends the      *)
(* program; what a user's thread does with one is the user's.  A call      *)
(* is asked for (Call), waits for thread_mutex_ and then runs to its end   *)
(* as one step: everything that the lock guards is only ever touched by    *)
(* calls, and none of them waits for anything else except close(), which   *)
(* is in steps.  load_module is called by one thread at a time.            *)
(***************************************************************************)
EXTENDS TtyClient, FiniteSets

CONSTANTS Users,      \* the user's threads
          NoOne,      \* owner of a free lock
          MaxCalls,   \* bound: calls from the user's threads
          MaxTasks    \* bound: the timer and network clients add nothing
                      \* while a queue is that long

LogicIds == 0 .. Logics - 1
Threads  == Users \cup LogicIds

ASSUME ManagerAssumption ==
    /\ IsFiniteSet(Ids) /\ Ids = 1 .. Cardinality(Ids)
    /\ Logics \in Nat \ {0}
    /\ Users \cap LogicIds = {} /\ NoOne \notin Threads
    /\ MaxCalls \in Nat /\ MaxTasks \in Nat

VARIABLES
    thread_mutex_,        \* the thread that holds it, or NoOne
    asio_client_list_,    \* ids in the list
    curr_client_id_,
    kind,                 \* kind[c]: class of client c
    server_ip_,           \* server_ip_[c]: "none" (not a network client),
                          \* "address", or "other" text
    is_Init_, thread_is_run_,
    io,                   \* where the io thread is
    stopped,              \* io_context_ has been stopped
    call,                 \* call[t]: the call that thread t is in
    closing,              \* where close() is: "no", "stop" or "join"
    expired,              \* timeout_session_list
    checking,             \* logic thread 0 goes through it
    calls

clients == <<tty, is_connect_, is_client_close_, q>>
manager == <<asio_client_list_, curr_client_id_, kind, server_ip_>>
threads == <<is_Init_, thread_is_run_, io, stopped, logic_count>>
check   == <<expired, checking>>
vars    == <<clients, manager, threads, check, thread_mutex_, call, closing, calls>>

NoCall == [fn |-> "none", id |-> 0]

ById == {"client_send_data", "client_send_format_data", "close_client", "reconnect_server"}

Starts == {"start_client_tty", "start_client_net"}

Requests == [fn : ById, id : Ids] \cup [fn : Starts \cup {"close"}, id : {0}]

Init ==
    /\ port = [c \in Ids |-> "none"]
    /\ tty_name_ = [c \in Ids |-> ""]
    /\ is_connect_ = [c \in Ids |-> FALSE]
    /\ is_client_close_ = [c \in Ids |-> FALSE]
    /\ thrown = {}
    /\ ready = <<>>
    /\ logic_count = 0
    /\ q = [l \in LogicIds |-> <<>>]
    /\ thread_mutex_ = NoOne
    /\ asio_client_list_ = {}
    /\ curr_client_id_ = 1
    /\ kind = [c \in Ids |-> "none"]
    /\ server_ip_ = [c \in Ids |-> "none"]
    /\ is_Init_ = FALSE
    /\ thread_is_run_ = FALSE
    /\ io = "none"
    /\ stopped = FALSE
    /\ call = [t \in Threads |-> NoCall]
    /\ closing = "no"
    /\ expired = {}
    /\ checking = FALSE
    /\ calls = 0

(* No exception has left a logic thread: the program has not been ended. *)
Running == \A e \in thrown : e[1] \notin LogicIds

-----------------------------------------------------------------------------
(* Calls. *)

(* Bound: nobody asks for more clients than there are ids. *)
IdsLeft ==
    curr_client_id_ + Cardinality({u \in Users : call[u].fn \in Starts}) <= Cardinality(Ids)

Call(u, request) ==
    /\ Running
    /\ call[u] = NoCall
    /\ calls < MaxCalls
    /\ request.fn \in Starts => IdsLeft
    /\ calls' = calls + 1
    /\ call' = [call EXCEPT ![u] = request]
    /\ UNCHANGED <<clients, manager, threads, check, thread_mutex_, closing>>

Return(t) == call' = [call EXCEPT ![t] = NoCall]

(* The body of call fn of thread t, with the lock taken and given back. *)
Locked(t, fn) ==
    /\ Running
    /\ call[t].fn = fn
    /\ thread_mutex_ = NoOne
    /\ UNCHANGED <<threads, check, calls>>

Found(t) == call[t].id \in asio_client_list_

IsTty(t) == kind[call[t].id] = "tty"

(* Mutant of new_id: the number of clients and one. *)
new_id_by_count == Cardinality(asio_client_list_) + 1

new_id == curr_client_id_

start_client(t, k, ip) ==
    /\ Return(t)
    /\ curr_client_id_' = curr_client_id_ + 1
    /\ asio_client_list_' = asio_client_list_ \cup {new_id}
    /\ kind' = [kind EXCEPT ![new_id] = k]
    /\ server_ip_' = [server_ip_ EXCEPT ![new_id] = ip]

(* Mutant of start_client_tty: lock() and unlock() instead of a lock_guard. *)
start_client_tty_unguarded(t) ==
    /\ Locked(t, "start_client_tty")
    /\ start_client(t, "tty", "none")
    /\ start(new_id, t)
    /\ thread_mutex_' = IF thrown' # thrown THEN t ELSE NoOne
    /\ UNCHANGED closing

(* An exception of start() gives the lock back, too. *)
start_client_tty(t) ==
    /\ Locked(t, "start_client_tty")
    /\ start_client(t, "tty", "none")
    /\ start(new_id, t)
    /\ UNCHANGED <<thread_mutex_, closing>>

(* asio::ip::address::from_string, called by thread t. *)
from_string_throws(ip) == ip # "address"

from_string(ip, t) ==
    thrown' = IF from_string_throws(ip) THEN thrown \cup {<<t, "from_string">>} ELSE thrown

(* server_ip_ is kept and the client is in the list when from_string throws. *)
start_client_net(t) ==
    /\ Locked(t, "start_client_net")
    /\ \E ip \in {"address", "other"} : start_client(t, "net", ip) /\ from_string(ip, t)
    /\ UNCHANGED <<port, tty_name_, ready, is_connect_, is_client_close_, q, thread_mutex_,
                   closing>>

(* reconnect() of a network client; what async_connect leads to is          *)
(* NetConnects.                                                             *)
reconnect_net(c, t, tasks) ==
    /\ IF is_connect_[c] THEN UNCHANGED thrown ELSE from_string(server_ip_[c], t)
    /\ q' = tasks
    /\ UNCHANGED <<port, tty_name_, ready, is_connect_, is_client_close_>>

(* The virtual reconnect() of client c. *)
Reconnect(c, t, tasks) ==
    IF kind[c] = "tty" THEN reconnect(c, t, tasks) ELSE reconnect_net(c, t, tasks)

(* A network client without an address: its socket is never opened. *)
NoSocket(c) == kind[c] = "net" /\ from_string_throws(server_ip_[c])

client_send_data(t) ==
    /\ Locked(t, "client_send_data")
    /\ Return(t)
    /\ IF Found(t) /\ (IsTty(t) \/ NoSocket(call[t].id))
       THEN do_write_immediately(call[t].id)
       ELSE UNCHANGED clients
    /\ UNCHANGED <<manager, thread_mutex_, closing>>

(* Without a link the serial and the TCP client refuse, the UDP client does *)
(* not.                                                                     *)
client_send_format_data(t) ==
    /\ Locked(t, "client_send_format_data")
    /\ Return(t)
    /\ IF Found(t) /\ ~is_connect_[call[t].id]
       THEN \/ do_write_format_data(call[t].id)
            \/ NoSocket(call[t].id) /\ do_write_immediately(call[t].id)
            \/ ~IsTty(t) /\ ~NoSocket(call[t].id) /\ UNCHANGED clients
       ELSE UNCHANGED clients
    /\ UNCHANGED <<manager, thread_mutex_, closing>>

close_client(t) ==
    /\ Locked(t, "close_client")
    /\ Return(t)
    /\ IF Found(t) THEN close_client_socket({call[t].id}) ELSE UNCHANGED clients
    /\ asio_client_list_' = asio_client_list_ \ {call[t].id}
    /\ UNCHANGED <<curr_client_id_, kind, server_ip_, thread_mutex_, closing>>

reconnect_server(t) ==
    /\ Locked(t, "reconnect_server")
    /\ Return(t)
    /\ IF Found(t) THEN Reconnect(call[t].id, t, q) ELSE UNCHANGED clients
    /\ UNCHANGED <<manager, thread_mutex_, closing>>

(* close() of unload_module keeps the lock until the io thread is joined.   *)
close_idle(t) ==
    /\ Running
    /\ call[t].fn = "close"
    /\ thread_mutex_ = NoOne
    /\ ~thread_is_run_
    /\ Return(t)
    /\ UNCHANGED <<clients, manager, threads, check, thread_mutex_, closing, calls>>

close_clients(t) ==
    /\ Locked(t, "close")
    /\ thread_is_run_
    /\ close_client_socket(asio_client_list_)
    /\ asio_client_list_' = {}
    /\ thread_mutex_' = t
    /\ closing' = "stop"
    /\ UNCHANGED <<curr_client_id_, kind, server_ip_, call>>

close_stop(t) ==
    /\ Running
    /\ thread_mutex_ = t
    /\ closing = "stop"
    /\ stopped' = TRUE
    /\ closing' = "join"
    /\ UNCHANGED <<clients, manager, is_Init_, thread_is_run_, io, logic_count, check,
                   thread_mutex_, call, calls>>

(* join() waits for the end of the io thread, which never comes: what       *)
(* stands behind it, App_tms::Close() among it, is not reached.             *)
close_join(t) ==
    /\ Running
    /\ thread_mutex_ = t
    /\ closing = "join"
    /\ IF io = "ended"
       THEN /\ closing' = "no"
            /\ thread_mutex_' = NoOne
            /\ thread_is_run_' = FALSE
            /\ Return(t)
       ELSE UNCHANGED <<closing, thread_mutex_, thread_is_run_, call>>
    /\ UNCHANGED <<clients, manager, is_Init_, io, stopped, logic_count, check, calls>>

Exec(t) ==
    \/ start_client_tty(t) \/ start_client_net(t)
    \/ client_send_data(t) \/ client_send_format_data(t)
    \/ close_client(t) \/ reconnect_server(t)
    \/ close_idle(t) \/ close_clients(t) \/ close_stop(t) \/ close_join(t)

-----------------------------------------------------------------------------
(* Mutant of run: is_Init_ is not set, and each load adds threads. *)
run_again ==
    /\ Running
    /\ ~is_Init_
    /\ logic_count < 3 * Logics
    /\ logic_count' = logic_count + Logics
    /\ io' = IF thread_is_run_ THEN io ELSE "starting"
    /\ UNCHANGED <<clients, manager, is_Init_, thread_is_run_, stopped, check, thread_mutex_,
                   call, closing, calls>>

(* run(), called by load_module: it takes no lock. *)
run ==
    /\ Running
    /\ ~is_Init_
    /\ logic_count' = Logics
    /\ io' = IF thread_is_run_ THEN io ELSE "starting"
    /\ is_Init_' = TRUE
    /\ UNCHANGED <<clients, manager, thread_is_run_, stopped, check, thread_mutex_, call,
                   closing, calls>>

(* The io thread: while (true) { io_context_.run(); } *)
io_starts ==
    /\ Running
    /\ io = "starting"
    /\ thread_is_run_' = TRUE
    /\ io' = "run"
    /\ UNCHANGED <<clients, manager, is_Init_, stopped, logic_count, check, thread_mutex_, call,
                   closing, calls>>

io_handler ==
    /\ Running
    /\ io = "run"
    /\ ~stopped
    /\ write_handler
    /\ UNCHANGED <<manager, threads, check, thread_mutex_, call, closing, calls>>

io_run_returns ==
    /\ Running
    /\ io = "run"
    /\ stopped
    /\ io' = "loop"
    /\ UNCHANGED <<clients, manager, is_Init_, thread_is_run_, stopped, logic_count, check,
                   thread_mutex_, call, closing, calls>>

io_runs_again ==
    /\ Running
    /\ io = "loop"
    /\ io' = "run"
    /\ UNCHANGED <<clients, manager, is_Init_, thread_is_run_, stopped, logic_count, check,
                   thread_mutex_, call, closing, calls>>

IoThread == io_starts \/ io_handler \/ io_run_returns \/ io_runs_again

-----------------------------------------------------------------------------
(* Logic threads. *)

Next_task(l, k) ==
    /\ Running
    /\ call[l] = NoCall
    /\ l = 0 => ~checking
    /\ q[l] # <<>>
    /\ Head(q[l]).kind \in k

Popped(l) == [q EXCEPT ![l] = Tail(@)]

(* do_message of cpacket_dispose answers a connect and a timeout event with *)
(* a packet.                                                                *)
Answer(l, c) == call' = [call EXCEPT ![l] = [fn |-> "client_send_format_data", id |-> c]]

do_message(l) ==
    /\ Next_task(l, {"connect", "disconnect"})
    /\ q' = Popped(l)
    /\ IF Head(q[l]).kind = "connect" THEN Answer(l, Head(q[l]).id) ELSE UNCHANGED call
    /\ UNCHANGED <<tty, is_connect_, is_client_close_, manager, threads, check, thread_mutex_,
                   closing, calls>>

(* The automatic reconnect that the write handlers post. *)
reconnect_task(l) ==
    /\ Next_task(l, {"reconnect"})
    /\ Reconnect(Head(q[l]).id, l, Popped(l))
    /\ UNCHANGED <<manager, threads, check, thread_mutex_, call, closing, calls>>

(* The task of timer_check: it collects the clients whose time is over with *)
(* the lock taken, and calls do_check_timeout of each without it.           *)
find_expired ==
    /\ Next_task(0, {"check"})
    /\ thread_mutex_ = NoOne
    /\ q' = Popped(0)
    /\ expired' \in SUBSET asio_client_list_
    /\ checking' = TRUE
    /\ UNCHANGED <<tty, is_connect_, is_client_close_, manager, threads, thread_mutex_, call,
                   closing, calls>>

(* A connected network client has an event instead of a reconnect.          *)
do_check_timeout(c) ==
    /\ Running
    /\ checking
    /\ call[0] = NoCall
    /\ c \in expired
    /\ \A d \in expired : c <= d
    /\ expired' = expired \ {c}
    /\ IF is_connect_[c] THEN Answer(0, c) ELSE UNCHANGED call
    /\ Reconnect(c, 0, q)
    /\ UNCHANGED <<checking, manager, threads, thread_mutex_, closing, calls>>

check_done ==
    /\ Running
    /\ checking
    /\ call[0] = NoCall
    /\ expired = {}
    /\ checking' = FALSE
    /\ UNCHANGED <<clients, manager, threads, expired, thread_mutex_, call, closing, calls>>

LogicThread(l) ==
    \/ do_message(l) \/ reconnect_task(l)
    \/ l = 0 /\ (find_expired \/ check_done \/ \E c \in Ids : do_check_timeout(c))

-----------------------------------------------------------------------------
(* The loop timer, whose task timer_check() posts the check to thread 0, and *)
(* the network clients.                                                      *)

QueuesShort == \A l \in LogicIds : Len(q[l]) < MaxTasks

TimerFires ==
    /\ Running
    /\ logic_count > 0
    /\ ~checking
    /\ QueuesShort
    /\ q' = [q EXCEPT ![0] = Append(@, Task("check", 0))]
    /\ UNCHANGED <<tty, is_connect_, is_client_close_, manager, threads, check, thread_mutex_,
                   call, closing, calls>>

NetChanges(c, up, event) ==
    /\ Running
    /\ kind[c] = "net"
    /\ io = "run" /\ ~stopped
    /\ is_connect_[c] = ~up
    /\ QueuesShort
    /\ is_connect_' = [is_connect_ EXCEPT ![c] = up]
    /\ q' = Posted(q, event, c)
    /\ UNCHANGED <<tty, is_client_close_, manager, threads, check, thread_mutex_, call, closing,
                   calls>>

NetConnects(c) == ~NoSocket(c) /\ NetChanges(c, TRUE, "connect")

NetLost(c) == NetChanges(c, FALSE, "disconnect")

Next ==
    \/ \E u \in Users, request \in Requests : Call(u, request)
    \/ \E t \in Threads : Exec(t)
    \/ run \/ IoThread
    \/ \E l \in LogicIds : LogicThread(l)
    \/ TimerFires
    \/ \E c \in Ids : NetConnects(c) \/ NetLost(c)
    \/ ~Running /\ UNCHANGED vars

(* A thread that can go on does, and one that waits for the lock gets it    *)
(* when it stays free.  Users, the timer and peers owe nothing.             *)
Fairness ==
    /\ \A t \in Threads : WF_vars(Exec(t))
    /\ \A l \in LogicIds : WF_vars(LogicThread(l))
    /\ WF_vars(IoThread)

Spec == Init /\ [][Next]_vars /\ Fairness

-----------------------------------------------------------------------------
(* Properties. *)

Tasks == [kind : {"connect", "disconnect", "reconnect"}, id : Ids] \cup {Task("check", 0)}

TypeOK ==
    /\ port \in [Ids -> {"none", "closed", "open"}]
    /\ tty_name_ \in [Ids -> {"", Device}]
    /\ is_connect_ \in [Ids -> BOOLEAN]
    /\ is_client_close_ \in [Ids -> BOOLEAN]
    /\ thrown \subseteq Threads \X {"character_size", "from_string"}
    /\ ready \in Seq([id : Ids, ok : BOOLEAN])
    /\ logic_count \in {0, Logics}
    /\ q \in [LogicIds -> Seq(Tasks)]
    /\ thread_mutex_ \in Threads \cup {NoOne}
    /\ asio_client_list_ \subseteq Ids
    /\ curr_client_id_ \in Nat
    /\ kind \in [Ids -> {"none", "tty", "net"}]
    /\ server_ip_ \in [Ids -> {"none", "address", "other"}]
    /\ is_Init_ \in BOOLEAN /\ thread_is_run_ \in BOOLEAN /\ stopped \in BOOLEAN
    /\ io \in {"none", "starting", "run", "loop", "ended"}
    /\ call \in [Threads -> Requests \cup {NoCall}]
    /\ closing \in {"no", "stop", "join"}
    /\ expired \subseteq Ids
    /\ checking \in BOOLEAN
    /\ calls \in Nat

(* A serial client ends no program: its add_serial_port can throw, but only *)
(* where start() calls it on a thread of the user.  The reconnect tasks and *)
(* the timer checks of a client whose start threw open nothing, and do not  *)
(* throw a second time on a logic thread, which has no handler.             *)
NoSerialThrowOnLogicThread ==
    \A l \in LogicIds : <<l, "character_size">> \notin thrown

(* A serial client that is not in the list any more does not hold its       *)
(* device: not when its start failed half way, not when a reconnect that    *)
(* was posted before the close runs after it.                               *)
PortReleased == \A c \in Ids \ asio_client_list_ : port[c] # "open"

(* An id that was given out and closed never finds a client again, so that  *)
(* a late call of a user or of do_message cannot reach someone else's.      *)
IdsNotReused ==
    [][\A c \in Ids : c < curr_client_id_ /\ c \notin asio_client_list_
                          => c \notin asio_client_list_']_vars

(* Every call gets the lock and returns, also when a start throws and when  *)
(* do_message calls back into the library; only unload_module spoils it,    *)
(* and an exception that ends the program.                                  *)
CallsReturn ==
    \A t \in Threads : call[t] # NoCall ~> call[t] = NoCall \/ closing # "no" \/ ~Running

Failed(c) == \E i \in 1 .. Len(ready) : ready[i] = [id |-> c, ok |-> FALSE]

Told(c) == \E l \in LogicIds : q[l] # <<>> /\ Head(q[l]) = Task("disconnect", c)

(* A write that fails is reported by a disconnect event, even when the      *)
(* client is closed in the meantime; an exception may end the program first. *)
FailureReported ==
    \A c \in Ids : Failed(c) /\ io = "run" ~> Told(c) \/ closing # "no" \/ ~Running

-----------------------------------------------------------------------------
(* What the repository says, and the code does not do. *)

(* "Reconnect the server" (ASIOClient.cpp:236, what the timer check does to *)
(* a client without a link): no reconnect on a logic thread throws, which   *)
(* would end the program.                                                   *)
NoThrowOnLogicThread == Running

(* "is over" (the io thread) and "close the timers": unload_module comes to *)
(* its end.                                                                 *)
UnloadReturns == \A u \in Users : call[u].fn = "close" ~> call[u] = NoCall
=============================================================================
