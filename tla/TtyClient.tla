----------------------------- MODULE TtyClient -----------------------------
(***************************************************************************)
(* Serial clients, CASIOTTYClient (ASIOTTYClient.h/.cpp): the operations   *)
(* that the manager, its tasks and the io thread call, for clients with    *)
(* the ids in Ids.                                                         *)
(*                                                                         *)
(* add_serial_port either fails to open the device or throws: it is always *)
(* called with the default char_size, and asio's character_size refuses    *)
(* every value but 5 to 8.  What comes after a call that returns true (the *)
(* option query, is_connect_ = true, do_read and its handler) is therefore *)
(* never reached, and not modelled.                                        *)
(***************************************************************************)
EXTENDS Naturals, Sequences

CONSTANTS Ids,      \* ids of clients
          Logics    \* number of logic threads that load_module creates

VARIABLES
    port,                 \* serial_port_param_: "none", "closed" or "open"
    tty_name_,
    is_connect_, is_client_close_,
    thrown,               \* <<t, what>>: what threw, out of a call of thread t
    ready,                \* completed writes, for the io thread
    logic_count,          \* logic threads there are
    q                     \* q[l]: tasks posted to logic thread l

tty == <<port, tty_name_, thrown, ready>>

Device == "tty"

Task(kind, c) == [kind |-> kind, id |-> c]

(* AddMessage(get_tms_logic_id(), ...): without a logic thread the task is  *)
(* lost.                                                                    *)
Posted(tasks, kind, c) ==
    IF logic_count = 0 THEN tasks
    ELSE [tasks EXCEPT ![c % logic_count] = Append(@, Task(kind, c))]

(* The default argument of add_serial_port, and what asio accepts. *)
CharSize == 1

character_size_throws == CharSize \notin 5 .. 8

(* Whether open() finds a device under that name; "" is the name of none.   *)
Opens(name) == IF name = "" THEN {FALSE} ELSE BOOLEAN

(* Called by thread t, with a new serial_port in the place of the old one;  *)
(* tasks are the queues without the task that t has just taken.             *)
add_serial_port(c, name, t, tasks) ==
    \E opens \in Opens(name) :
       IF opens
       THEN /\ port' = [port EXCEPT ![c] = "open"]
            /\ thrown' = IF character_size_throws
                         THEN thrown \cup {<<t, "character_size">>}
                         ELSE thrown
            /\ q' = tasks
            /\ UNCHANGED is_connect_
       ELSE /\ port' = [port EXCEPT ![c] = "closed"]
            /\ is_connect_' = [is_connect_ EXCEPT ![c] = FALSE]
            /\ q' = Posted(tasks, "disconnect", c)
            /\ UNCHANGED thrown

(* Mutant of start: the name is kept before the port is opened. *)
start_named(c, t) ==
    /\ add_serial_port(c, Device, t, q)
    /\ tty_name_' = [tty_name_ EXCEPT ![c] = Device]
    /\ UNCHANGED <<is_client_close_, ready>>

start(c, t) ==
    /\ add_serial_port(c, Device, t, q)
    /\ UNCHANGED <<tty_name_, is_client_close_, ready>>

reconnect(c, t, tasks) ==
    /\ add_serial_port(c, tty_name_[c], t, tasks)
    /\ UNCHANGED <<tty_name_, is_client_close_, ready>>

(* is_connect_ is never true. *)
do_write_format_data(c) ==
    /\ q' = Posted(q, "disconnect", c)
    /\ UNCHANGED <<tty, is_connect_, is_client_close_>>

(* async_write_some fails at once on a port that is not open, and the       *)
(* network clients' writes on a socket that was never opened.               *)
do_write_immediately(c) ==
    /\ \E ok \in BOOLEAN :
          /\ ok => port[c] = "open"
          /\ ready' = Append(ready, [id |-> c, ok |-> ok])
    /\ UNCHANGED <<port, tty_name_, thrown, is_connect_, is_client_close_, q>>

(* Mutant of write_handler: a closed client's failure is not reported. *)
write_handler_quiet ==
    /\ ready # <<>>
    /\ ready' = Tail(ready)
    /\ LET c == Head(ready).id
       IN  IF Head(ready).ok \/ is_client_close_[c]
           THEN UNCHANGED <<port, is_connect_, q>>
           ELSE /\ q' = Posted(Posted(q, "disconnect", c), "reconnect", c)
                /\ port' = [port EXCEPT ![c] = IF @ = "none" THEN @ ELSE "closed"]
                /\ is_connect_' = [is_connect_ EXCEPT ![c] = FALSE]
    /\ UNCHANGED <<tty_name_, thrown, is_client_close_>>

(* The handler of a write: the failure is reported, and unless the user has *)
(* closed the client the port is closed and a reconnect is posted.  The     *)
(* network clients' handlers do the same; they have no port.                *)
write_handler ==
    /\ ready # <<>>
    /\ ready' = Tail(ready)
    /\ LET c == Head(ready).id
           reported == Posted(q, "disconnect", c)
       IN  IF Head(ready).ok
           THEN UNCHANGED <<port, is_connect_, q>>
           ELSE IF is_client_close_[c]
           THEN q' = reported /\ UNCHANGED <<port, is_connect_>>
           ELSE /\ q' = Posted(reported, "reconnect", c)
                /\ port' = [port EXCEPT ![c] = IF @ = "none" THEN @ ELSE "closed"]
                /\ is_connect_' = [is_connect_ EXCEPT ![c] = FALSE]
    /\ UNCHANGED <<tty_name_, thrown, is_client_close_>>

(* Mutant of close_client_socket: the port is left open. *)
close_client_socket_flag(clients) ==
    /\ is_client_close_' = [c \in Ids |-> is_client_close_[c] \/ c \in clients]
    /\ is_connect_' = [c \in Ids |-> is_connect_[c] /\ c \notin clients]
    /\ UNCHANGED <<tty, q>>

close_client_socket(clients) ==
    /\ is_client_close_' = [c \in Ids |-> is_client_close_[c] \/ c \in clients]
    /\ is_connect_' = [c \in Ids |-> is_connect_[c] /\ c \notin clients]
    /\ port' = [c \in Ids |-> IF c \in clients /\ port[c] = "open" THEN "closed" ELSE port[c]]
    /\ UNCHANGED <<tty_name_, thrown, ready, q>>

=============================================================================
