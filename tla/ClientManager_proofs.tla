------------------------ MODULE ClientManager_proofs ------------------------
(***************************************************************************)
(* Proofs about the client manager and its serial clients, for any number  *)
(* of user's threads, logic threads, clients and calls.                    *)
(***************************************************************************)
EXTENDS ClientManager, FiniteSetTheorems, TLAPS

(* TypeOK by the part of the state it is about. *)
ClientsOK ==
    /\ port \in [Ids -> {"none", "closed", "open"}]
    /\ tty_name_ \in [Ids -> {"", Device}]
    /\ is_connect_ \in [Ids -> BOOLEAN]
    /\ is_client_close_ \in [Ids -> BOOLEAN]
    /\ thrown \subseteq Threads \X {"character_size", "from_string"}
    /\ ready \in Seq([id : Ids, ok : BOOLEAN])
    /\ q \in [LogicIds -> Seq(Tasks)]

ManagerOK ==
    /\ asio_client_list_ \subseteq Ids
    /\ curr_client_id_ \in Nat
    /\ kind \in [Ids -> {"none", "tty", "net"}]
    /\ server_ip_ \in [Ids -> {"none", "address", "other"}]

ThreadsOK ==
    /\ is_Init_ \in BOOLEAN /\ thread_is_run_ \in BOOLEAN /\ stopped \in BOOLEAN
    /\ io \in {"none", "starting", "run", "loop", "ended"}
    /\ logic_count \in {0, Logics}

CallsOK ==
    /\ thread_mutex_ \in Threads \cup {NoOne}
    /\ call \in [Threads -> Requests \cup {NoCall}]
    /\ closing \in {"no", "stop", "join"}
    /\ expired \subseteq Ids
    /\ checking \in BOOLEAN
    /\ calls \in Nat

(* The parts make up TypeOK. *)
LEMMA TypeParts == TypeOK <=> ClientsOK /\ ManagerOK /\ ThreadsOK /\ CallsOK
  BY DEF TypeOK, ClientsOK, ManagerOK, ThreadsOK, CallsOK

(* start() keeps no name (add_serial_port never returns true), logic        *)
(* threads call nothing but client_send_format_data, only close() keeps the *)
(* lock, and the ids that the pending starts are going to take are there.   *)
NameInv == \A c \in Ids : tty_name_[c] = ""

LogicCallInv ==
    \A l \in LogicIds : call[l] = NoCall \/ call[l].fn = "client_send_format_data"

LockInv == \A t \in Threads : thread_mutex_ = t => call[t].fn = "close"

Starting == {u \in Users : call[u].fn \in Starts}

IdInv ==
    /\ IsFiniteSet(Starting)
    /\ curr_client_id_ + Cardinality(Starting) <= Cardinality(Ids) + 1
    /\ curr_client_id_ > 0

MgrInv == TypeOK /\ NameInv /\ LogicCallInv /\ LockInv /\ IdInv

(* Ids are numbers from 1, and logic threads numbers from 0. *)
LEMMA Numbers ==
  /\ Cardinality(Ids) \in Nat
  /\ \A c : c \in Ids <=> c \in Nat /\ 1 <= c /\ c <= Cardinality(Ids)
  /\ LogicIds \subseteq Threads /\ 0 \in LogicIds /\ Users \subseteq Threads
  /\ \A t \in Threads : t \in Users <=> t \notin LogicIds
<1>1. Cardinality(Ids) \in Nat
  BY ManagerAssumption, FS_CardinalityType
<1> DEFINE n == Cardinality(Ids)
<1> HIDE DEF n
<1>2. n \in Nat /\ Ids = 1 .. n
  BY <1>1, ManagerAssumption DEF n
<1>3. \A c : c \in Ids <=> c \in Nat /\ 1 <= c /\ c <= n
  BY <1>2
<1>4. /\ LogicIds \subseteq Threads /\ 0 \in LogicIds /\ Users \subseteq Threads
      /\ \A t \in Threads : t \in Users <=> t \notin LogicIds
  BY ManagerAssumption DEF LogicIds, Threads
<1> QED
  BY <1>1, <1>3, <1>4 DEF n

-----------------------------------------------------------------------------
(* What the clients' operations do. *)

(* Posting a task keeps the queues' types. *)
LEMMA PostedType ==
  ASSUME logic_count \in {0, Logics}, NEW tasks \in [LogicIds -> Seq(Tasks)],
         NEW k \in {"connect", "disconnect", "reconnect"}, NEW c \in Ids
  PROVE  Posted(tasks, k, c) \in [LogicIds -> Seq(Tasks)]
<1>1. Task(k, c) \in Tasks
  BY DEF Task, Tasks
<1>2. CASE logic_count = 0
  BY <1>2 DEF Posted
<1>3. CASE logic_count # 0
  <2>1. logic_count = Logics /\ Logics \in Nat \ {0} /\ c \in Nat
    BY <1>3, ManagerAssumption, Numbers
  <2>2. c % logic_count \in LogicIds
    BY <2>1 DEF LogicIds
  <2>3. Append(tasks[c % logic_count], Task(k, c)) \in Seq(Tasks)
    BY <1>1, <2>2
  <2>4. Posted(tasks, k, c)
          = [tasks EXCEPT ![c % logic_count] = Append(@, Task(k, c))]
    BY <1>3 DEF Posted
  <2> QED
    BY <2>2, <2>3, <2>4
<1> QED
  BY <1>2, <1>3

(* add_serial_port keeps the types, leaves other clients' ports alone, and  *)
(* without a name it neither opens the port nor throws.                     *)
LEMMA AddPort ==
  ASSUME ClientsOK, logic_count \in {0, Logics}, NEW tasks \in [LogicIds -> Seq(Tasks)],
         NEW c \in Ids, NEW name, NEW t \in Threads, add_serial_port(c, name, t, tasks)
  PROVE  /\ port' \in [Ids -> {"none", "closed", "open"}]
         /\ is_connect_' \in [Ids -> BOOLEAN]
         /\ q' \in [LogicIds -> Seq(Tasks)]
         /\ thrown' = thrown \/ thrown' = thrown \cup {<<t, "character_size">>}
         /\ \A d \in Ids : d # c => port'[d] = port[d]
         /\ name = "" => thrown' = thrown /\ port'[c] = "closed"
<1>1. PICK opens \in Opens(name) :
         IF opens
         THEN /\ port' = [port EXCEPT ![c] = "open"]
              /\ thrown' = IF character_size_throws
                           THEN thrown \cup {<<t, "character_size">>} ELSE thrown
              /\ q' = tasks
              /\ UNCHANGED is_connect_
         ELSE /\ port' = [port EXCEPT ![c] = "closed"]
              /\ is_connect_' = [is_connect_ EXCEPT ![c] = FALSE]
              /\ q' = Posted(tasks, "disconnect", c)
              /\ UNCHANGED thrown
  BY DEF add_serial_port
<1>2. Posted(tasks, "disconnect", c) \in [LogicIds -> Seq(Tasks)]
  BY PostedType
<1>3. name = "" => opens = FALSE
  BY DEF Opens
<1>4. CASE opens
  BY <1>1, <1>3, <1>4 DEF ClientsOK
<1>5. CASE ~opens
  <2>1. /\ port' = [port EXCEPT ![c] = "closed"]
        /\ is_connect_' = [is_connect_ EXCEPT ![c] = FALSE]
        /\ q' = Posted(tasks, "disconnect", c)
        /\ UNCHANGED thrown
    BY <1>1, <1>5
  <2> QED
    BY <1>2, <2>1 DEF ClientsOK
<1> QED
  BY <1>4, <1>5

(* start() and reconnect() of a serial client. *)
LEMMA StartStep ==
  ASSUME ClientsOK, logic_count \in {0, Logics}, NEW c \in Ids, NEW t \in Threads,
         start(c, t)
  PROVE  /\ ClientsOK'
         /\ UNCHANGED tty_name_
         /\ thrown' \subseteq thrown \cup {<<t, "character_size">>}
         /\ \A d \in Ids : d # c => port'[d] = port[d]
<1>1. add_serial_port(c, Device, t, q) /\ UNCHANGED <<tty_name_, is_client_close_, ready>>
  BY DEF start
<1>2. /\ q \in [LogicIds -> Seq(Tasks)]
      /\ thrown \subseteq Threads \X {"character_size", "from_string"}
  BY DEF ClientsOK
<1>3. /\ port' \in [Ids -> {"none", "closed", "open"}]
      /\ is_connect_' \in [Ids -> BOOLEAN]
      /\ q' \in [LogicIds -> Seq(Tasks)]
      /\ thrown' = thrown \/ thrown' = thrown \cup {<<t, "character_size">>}
      /\ \A d \in Ids : d # c => port'[d] = port[d]
  BY <1>1, <1>2, AddPort
<1>4. /\ thrown' \subseteq thrown \cup {<<t, "character_size">>}
      /\ thrown' \subseteq Threads \X {"character_size", "from_string"}
  BY <1>2, <1>3
<1> QED
  BY <1>1, <1>3, <1>4 DEF ClientsOK

LEMMA ReconnectStep ==
  ASSUME ClientsOK, NameInv, logic_count \in {0, Logics}, NEW c \in Ids, NEW t \in Threads,
         NEW tasks \in [LogicIds -> Seq(Tasks)], reconnect(c, t, tasks)
  PROVE  /\ ClientsOK'
         /\ UNCHANGED <<tty_name_, thrown>>
         /\ \A d \in Ids : port'[d] = "open" => port[d] = "open"
<1>1. /\ add_serial_port(c, tty_name_[c], t, tasks)
      /\ UNCHANGED <<tty_name_, is_client_close_, ready>>
  BY DEF reconnect
<1>2. tty_name_[c] = ""
  BY DEF NameInv
<1> QED
  BY <1>1, <1>2, AddPort DEF ClientsOK

(* No logic thread is left by an exception of character_size that was not   *)
(* left by one before.                                                      *)
SerialQuiet ==
    \A l \in LogicIds : <<l, "character_size">> \in thrown' => <<l, "character_size">> \in thrown

(* from_string throws for network clients only. *)
LEMMA FromString ==
  ASSUME ClientsOK, NEW ip, NEW t \in Threads, from_string(ip, t)
  PROVE  /\ thrown' \subseteq Threads \X {"character_size", "from_string"}
         /\ SerialQuiet
<1>1. thrown' = thrown \/ thrown' = thrown \cup {<<t, "from_string">>}
  BY DEF from_string
<1>2. thrown \subseteq Threads \X {"character_size", "from_string"}
  BY DEF ClientsOK
<1>3. <<t, "from_string">> \in Threads \X {"character_size", "from_string"}
  OBVIOUS
<1>4. \A l : <<l, "character_size">> # <<t, "from_string">>
  OBVIOUS
<1>5. SerialQuiet
  BY <1>1, <1>4 DEF SerialQuiet
<1> QED
  BY <1>1, <1>2, <1>3, <1>5

(* A reconnect of any client. *)
LEMMA VirtualStep ==
  ASSUME ClientsOK, NameInv, logic_count \in {0, Logics}, NEW c \in Ids, NEW t \in Threads,
         NEW tasks \in [LogicIds -> Seq(Tasks)], Reconnect(c, t, tasks)
  PROVE  /\ ClientsOK' /\ UNCHANGED tty_name_ /\ SerialQuiet
         /\ \A d \in Ids : port'[d] = "open" => port[d] = "open"
<1>1. CASE reconnect(c, t, tasks)
  BY <1>1, ReconnectStep DEF SerialQuiet
<1>2. CASE reconnect_net(c, t, tasks)
  <2>1. thrown' \subseteq Threads \X {"character_size", "from_string"} /\ SerialQuiet
    BY <1>2, FromString DEF reconnect_net, ClientsOK, SerialQuiet
  <2> QED
    BY <1>2, <2>1 DEF reconnect_net, ClientsOK
<1> QED
  BY <1>1, <1>2 DEF Reconnect

(* The completions of writes, and their handler. *)
LEMMA WriteStep ==
  ASSUME ClientsOK, NEW c \in Ids, do_write_immediately(c)
  PROVE  ClientsOK' /\ UNCHANGED <<port, tty_name_, thrown>>
<1>1. PICK ok \in BOOLEAN : ready' = Append(ready, [id |-> c, ok |-> ok])
  BY DEF do_write_immediately
<1>2. [id |-> c, ok |-> ok] \in [id : Ids, ok : BOOLEAN]
  BY Zenon
<1>3. ready' \in Seq([id : Ids, ok : BOOLEAN])
  <2> DEFINE C == [id : Ids, ok : BOOLEAN]
             r == [id |-> c, ok |-> ok]
  <2>1. ready \in Seq(C) /\ r \in C /\ ready' = Append(ready, r)
    BY <1>1, <1>2, Zenon DEF ClientsOK
  <2> HIDE DEF C, r
  <2>2. ready' \in Seq(C)
    BY <2>1
  <2> QED
    BY <2>2 DEF C
<1> QED
  BY <1>3 DEF do_write_immediately, ClientsOK

LEMMA HandlerStep ==
  ASSUME ClientsOK, logic_count \in {0, Logics}, write_handler
  PROVE  /\ ClientsOK'
         /\ UNCHANGED <<tty_name_, thrown>>
         /\ \A d \in Ids : port'[d] = "open" => port[d] = "open"
<1> DEFINE C == [id : Ids, ok : BOOLEAN]
           c == Head(ready).id
<1>1. ready \in Seq(C) /\ ready # <<>> /\ ready' = Tail(ready)
  BY DEF ClientsOK, write_handler
<1>2. Head(ready) \in C /\ ready' \in Seq(C)
  <2> HIDE DEF C
  <2> QED
    BY <1>1
<1>3. c \in Ids
  BY <1>2
<1> DEFINE reported == Posted(q, "disconnect", c)
<1>4. /\ reported \in [LogicIds -> Seq(Tasks)]
      /\ Posted(reported, "reconnect", c) \in [LogicIds -> Seq(Tasks)]
  BY <1>3, PostedType DEF ClientsOK
<1>5. \/ UNCHANGED <<port, is_connect_>> /\ q' \in {q, reported}
      \/ /\ q' = Posted(reported, "reconnect", c)
         /\ port' = [port EXCEPT ![c] = IF port[c] = "none" THEN port[c] ELSE "closed"]
         /\ is_connect_' = [is_connect_ EXCEPT ![c] = FALSE]
  BY DEF write_handler
<1>6. UNCHANGED <<tty_name_, thrown, is_client_close_>>
  BY DEF write_handler
<1> HIDE DEF c, reported
<1>7. q' \in [LogicIds -> Seq(Tasks)]
  BY <1>4, <1>5 DEF ClientsOK
<1>8. /\ port' \in [Ids -> {"none", "closed", "open"}]
      /\ is_connect_' \in [Ids -> BOOLEAN]
      /\ \A d \in Ids : port'[d] = "open" => port[d] = "open"
  BY <1>3, <1>5 DEF ClientsOK
<1> QED
  BY <1>2, <1>6, <1>7, <1>8 DEF ClientsOK

(* close_client_socket closes the ports of the clients it is given. *)
LEMMA CloseStep ==
  ASSUME ClientsOK, NEW S, close_client_socket(S)
  PROVE  /\ ClientsOK'
         /\ UNCHANGED <<tty_name_, thrown>>
         /\ \A d \in Ids : port'[d] = "open" => port[d] = "open" /\ d \notin S
<1>1. is_client_close_' \in [Ids -> BOOLEAN] /\ is_connect_' \in [Ids -> BOOLEAN]
  BY DEF close_client_socket
<1>2. /\ port' \in [Ids -> {"none", "closed", "open"}]
      /\ \A d \in Ids : port'[d] = "open" => port[d] = "open" /\ d \notin S
  BY DEF close_client_socket, ClientsOK
<1> QED
  BY <1>1, <1>2 DEF close_client_socket, ClientsOK

(* A disconnect event. *)
LEMMA FormatStep ==
  ASSUME ClientsOK, logic_count \in {0, Logics}, NEW c \in Ids, do_write_format_data(c)
  PROVE  ClientsOK' /\ UNCHANGED <<port, tty_name_, thrown>>
<1>1. Posted(q, "disconnect", c) \in [LogicIds -> Seq(Tasks)]
  BY PostedType DEF ClientsOK
<1> QED
  BY <1>1 DEF do_write_format_data, tty, ClientsOK

-----------------------------------------------------------------------------
(* The pending starts.                                                      *)

(* A step that changes the call of one thread, as IdInv and LogicCallInv    *)
(* see it.                                                                  *)
LEMMA CallChanges ==
  ASSUME MgrInv, NEW t \in Threads, NEW r, call' = [call EXCEPT ![t] = r]
  PROVE  /\ t \in LogicIds => Starting' = Starting
         /\ t \in Users => Starting' = IF r.fn \in Starts THEN Starting \cup {t}
                                                         ELSE Starting \ {t}
         /\ \A l \in LogicIds : call'[l] = IF l = t THEN r ELSE call[l]
<1>1. \A u \in Threads : call'[u] = IF u = t THEN r ELSE call[u]
  BY DEF MgrInv, TypeOK
<1>2. \A u \in Users : u \in Threads /\ u \notin LogicIds
  BY Numbers
<1> QED
  BY <1>1, <1>2, Numbers DEF Starting

(* A call that is not a start takes no id. *)
LEMMA CallKeeps ==
  ASSUME MgrInv, UNCHANGED curr_client_id_,
         \/ UNCHANGED call
         \/ \E t \in Threads : /\ call' = [call EXCEPT ![t] = NoCall]
                               /\ call[t].fn \notin Starts
         \/ \E u \in Users, r \in Requests : /\ call' = [call EXCEPT ![u] = r]
                                             /\ call[u] = NoCall
                                             /\ r.fn \in Starts => IdsLeft
         \/ \E l \in LogicIds, c \in Ids : Answer(l, c)
  PROVE  LogicCallInv' /\ IdInv'
<1>1. LogicCallInv /\ IdInv /\ NoCall.fn \notin Starts
  BY DEF MgrInv, NoCall, Starts
<1>2. CASE UNCHANGED call
  BY <1>1, <1>2 DEF LogicCallInv, IdInv, Starting
<1>3. ASSUME NEW t \in Threads, call' = [call EXCEPT ![t] = NoCall], call[t].fn \notin Starts
      PROVE  LogicCallInv' /\ IdInv'
  <2>1. Starting' = Starting
    BY <1>1, <1>3, CallChanges, Numbers DEF Starting
  <2> QED
    BY <1>1, <1>3, <2>1, CallChanges DEF LogicCallInv, IdInv
<1>4. ASSUME NEW u \in Users, NEW r \in Requests, call' = [call EXCEPT ![u] = r],
             call[u] = NoCall, r.fn \in Starts => IdsLeft
      PROVE  LogicCallInv' /\ IdInv'
  <2>1. u \in Threads /\ u \notin LogicIds
    BY Numbers
  <2>2. LogicCallInv'
    BY <1>1, <1>4, <2>1, CallChanges DEF LogicCallInv
  <2>3. u \notin Starting
    BY <1>1, <1>4 DEF Starting
  <2>4. CASE r.fn \notin Starts
    <3>1. Starting' = Starting \ {u}
      BY <1>4, <2>1, <2>4, CallChanges
    <3>2. Starting' = Starting
      BY <2>3, <3>1
    <3> QED
      BY <1>1, <2>2, <3>2 DEF IdInv
  <2>5. CASE r.fn \in Starts
    <3>1. Starting' = Starting \cup {u}
      BY <1>4, <2>1, <2>5, CallChanges
    <3>2. IsFiniteSet(Starting') /\ Cardinality(Starting') = Cardinality(Starting) + 1
      BY <1>1, <2>3, <3>1, FS_AddElement DEF IdInv
    <3>3. curr_client_id_ + Cardinality(Starting) <= Cardinality(Ids)
      BY <1>4, <2>5 DEF IdsLeft, Starting
    <3>4. /\ curr_client_id_ \in Nat /\ Cardinality(Starting) \in Nat
          /\ Cardinality(Ids) \in Nat
      BY <1>1, Numbers, FS_CardinalityType DEF MgrInv, TypeOK, IdInv
    <3> QED
      BY <1>1, <2>2, <3>2, <3>3, <3>4 DEF IdInv
  <2> QED
    BY <2>4, <2>5
<1>5. ASSUME NEW l \in LogicIds, NEW c \in Ids, Answer(l, c)
      PROVE  LogicCallInv' /\ IdInv'
  <2>1. l \in Threads /\ call' = [call EXCEPT ![l] = [fn |-> "client_send_format_data", id |-> c]]
    BY <1>5, Numbers DEF Answer
  <2>2. Starting' = Starting
    BY <2>1, CallChanges
  <2> QED
    BY <1>1, <2>1, <2>2, CallChanges DEF LogicCallInv, IdInv
<1> QED
  BY <1>2, <1>3, <1>4, <1>5

(* A thread that is given a call was in none, so it does not hold the lock. *)
LEMMA LockKept ==
  ASSUME MgrInv,
         \/ UNCHANGED <<call, thread_mutex_>>
         \/ thread_mutex_' = NoOne
         \/ /\ UNCHANGED thread_mutex_
            /\ \E t \in Threads : /\ call[t] = NoCall
                                  /\ \E r : call' = [call EXCEPT ![t] = r]
  PROVE  LockInv'
<1>1. LockInv /\ NoOne \notin Threads
  BY ManagerAssumption DEF MgrInv
<1>2. CASE UNCHANGED <<call, thread_mutex_>> \/ thread_mutex_' = NoOne
  BY <1>1, <1>2 DEF LockInv
<1>3. ASSUME UNCHANGED thread_mutex_, NEW t \in Threads, call[t] = NoCall,
             NEW r, call' = [call EXCEPT ![t] = r]
      PROVE  LockInv'
  <2>1. \A u \in Threads : u # t => call'[u] = call[u]
    BY <1>3 DEF MgrInv, TypeOK
  <2>2. thread_mutex_ # t
    BY <1>1, <1>3 DEF LockInv, NoCall
  <2> QED
    BY <1>1, <1>3, <2>1, <2>2 DEF LockInv
<1> QED
  BY <1>2, <1>3

(* A start takes the id that was left for it. *)
LEMMA StartTakes ==
  ASSUME MgrInv, NEW t \in Threads, NEW k \in {"tty", "net"},
         NEW ip \in {"none", "address", "other"}, call[t].fn \in Starts, start_client(t, k, ip)
  PROVE  /\ new_id \in Ids /\ t \in Users
         /\ ManagerOK' /\ LogicCallInv' /\ IdInv'
<1>1. /\ LogicCallInv /\ IdInv /\ curr_client_id_ \in Nat
      /\ NoCall.fn \notin Starts /\ "client_send_format_data" \notin Starts
  BY DEF MgrInv, TypeOK, NoCall, Starts
<1>2. t \in Users /\ t \notin LogicIds /\ t \in Starting
  BY <1>1, Numbers DEF LogicCallInv, Starting
<1>3. call' = [call EXCEPT ![t] = NoCall]
  BY DEF start_client, Return
<1>4. Starting' = Starting \ {t}
  BY <1>1, <1>2, <1>3, CallChanges
<1>5. /\ IsFiniteSet(Starting') /\ Cardinality(Starting') = Cardinality(Starting) - 1
      /\ Cardinality(Starting) \in Nat
  BY <1>1, <1>2, <1>4, FS_RemoveElement, FS_CardinalityType DEF IdInv
<1>6. Cardinality(Starting') \in Nat /\ Cardinality(Ids) \in Nat
  BY <1>5, Numbers, FS_CardinalityType
<1>7. curr_client_id_ <= Cardinality(Ids) /\ curr_client_id_ > 0
  BY <1>1, <1>5, <1>6 DEF IdInv
<1>8. new_id \in Ids
  BY <1>1, <1>7, Numbers DEF new_id
<1>9. ManagerOK'
  <2>1. ManagerOK
    BY TypeParts DEF MgrInv
  <2>2. /\ curr_client_id_' = curr_client_id_ + 1
        /\ asio_client_list_' = asio_client_list_ \cup {new_id}
        /\ kind' = [kind EXCEPT ![new_id] = k]
        /\ server_ip_' = [server_ip_ EXCEPT ![new_id] = ip]
    BY DEF start_client
  <2> QED
    BY <1>8, <2>1, <2>2 DEF ManagerOK
<1>10. IdInv'
  BY <1>1, <1>5, <1>6, <1>7 DEF IdInv, start_client
<1>11. LogicCallInv'
  BY <1>1, <1>2, <1>3, CallChanges DEF LogicCallInv
<1> QED
  BY <1>2, <1>8, <1>9, <1>10, <1>11

-----------------------------------------------------------------------------
(* What one step may do to the ports, the names and the exceptions: enough  *)
(* for the three properties.                                                *)

(* A step of thread t in a call, of a logic thread, or of the io thread.    *)
Effect ==
    /\ ClientsOK' /\ UNCHANGED tty_name_ /\ SerialQuiet
    /\ \A c \in Ids : port'[c] = "open" =>
          \/ port[c] = "open" /\ (c \in asio_client_list_ => c \in asio_client_list_')
          \/ c \in asio_client_list_'
    /\ asio_client_list_' \subseteq asio_client_list_ \cup {curr_client_id_}

(* Nothing happens to the clients. *)
LEMMA NoEffect ==
  ASSUME ClientsOK, UNCHANGED <<clients, asio_client_list_>>
  PROVE  Effect
  BY DEF clients, tty, ClientsOK, Effect, SerialQuiet

(* Every step keeps the manager's invariant, and has such an effect. *)
LEMMA ExecNext ==
  ASSUME MgrInv, NEW t \in Threads, Exec(t)
  PROVE  MgrInv' /\ Effect
<1>1. /\ ClientsOK /\ ManagerOK /\ ThreadsOK /\ CallsOK
      /\ NameInv /\ LogicCallInv /\ IdInv
      /\ logic_count \in {0, Logics}
  BY TypeParts DEF MgrInv, ThreadsOK
<1>2. ASSUME ManagerOK', ThreadsOK', CallsOK', LogicCallInv', IdInv', Effect, LockInv'
      PROVE  MgrInv' /\ Effect
  <2>1. TypeOK'
    BY <1>2 DEF Effect, TypeOK, ClientsOK, ManagerOK, ThreadsOK, CallsOK
  <2> QED
    BY <1>1, <1>2, <2>1 DEF MgrInv, Effect, NameInv
<1>3. ASSUME Return(t) PROVE call' \in [Threads -> Requests \cup {NoCall}]
  BY <1>1, <1>3 DEF Return, CallsOK
<1>4. {"close", "client_send_data", "client_send_format_data", "close_client",
       "reconnect_server"} \cap Starts = {}
  BY DEF Starts
<1> USE DEF threads, check, manager
<1>5. ASSUME NEW fn, Locked(t, fn)
      PROVE  /\ UNCHANGED <<threads, check, calls>> /\ ThreadsOK' /\ call[t].fn = fn
             /\ thread_mutex_ = NoOne
             /\ UNCHANGED thread_mutex_ => LockInv'
  BY <1>1, <1>5, LockKept DEF Locked, ThreadsOK
<1>6. CASE start_client_tty(t)
  <2>1. /\ Locked(t, "start_client_tty") /\ start_client(t, "tty", "none") /\ start(new_id, t)
        /\ UNCHANGED <<thread_mutex_, closing>>
    BY <1>6 DEF start_client_tty
  <2>2. /\ new_id \in Ids /\ t \in Users
        /\ ManagerOK' /\ LogicCallInv' /\ IdInv'
    BY <1>5, <2>1, StartTakes DEF Starts
  <2>3. Return(t) /\ asio_client_list_' = asio_client_list_ \cup {new_id}
    BY <2>1 DEF start_client
  <2>4. /\ ClientsOK' /\ UNCHANGED tty_name_
        /\ thrown' \subseteq thrown \cup {<<t, "character_size">>}
        /\ \A d \in Ids : d # new_id => port'[d] = port[d]
    BY <1>1, <2>1, <2>2, StartStep
  <2>5. SerialQuiet
    BY <2>2, <2>4, Numbers DEF SerialQuiet
  <2>6. Effect
    BY <2>3, <2>4, <2>5 DEF Effect, new_id
  <2>7. CallsOK'
    BY <1>1, <1>3, <1>5, <2>1, <2>3 DEF CallsOK
  <2> QED
    BY <1>2, <1>5, <2>1, <2>2, <2>6, <2>7
<1>7. CASE start_client_net(t)
  <2>1. PICK ip \in {"address", "other"} :
           /\ Locked(t, "start_client_net") /\ start_client(t, "net", ip) /\ from_string(ip, t)
           /\ UNCHANGED <<port, tty_name_, ready, is_connect_, is_client_close_, q,
                          thread_mutex_, closing>>
    BY <1>7 DEF start_client_net
  <2>2. ManagerOK' /\ LogicCallInv' /\ IdInv'
    BY <1>5, <2>1, StartTakes DEF Starts
  <2>3. Return(t) /\ asio_client_list_' = asio_client_list_ \cup {new_id}
    BY <2>1 DEF start_client
  <2>4. Effect
    <3>1. thrown' \subseteq Threads \X {"character_size", "from_string"} /\ SerialQuiet
      BY <1>1, <2>1, FromString
    <3> QED
      BY <1>1, <2>1, <2>3, <3>1 DEF Effect, new_id, ClientsOK
  <2>5. CallsOK'
    BY <1>1, <1>3, <1>5, <2>1, <2>3 DEF CallsOK
  <2> QED
    BY <1>2, <1>5, <2>1, <2>2, <2>4, <2>5
<1>8. ASSUME NEW fn, Locked(t, fn), fn \notin Starts, Return(t),
             UNCHANGED <<manager, thread_mutex_, closing>>, ClientsOK',
             UNCHANGED tty_name_, SerialQuiet,
             \A d \in Ids : port'[d] = "open" => port[d] = "open"
      PROVE  MgrInv' /\ Effect
  <2>1. LogicCallInv' /\ IdInv'
    BY <1>5, <1>8, CallKeeps DEF Return
  <2>2. CallsOK' /\ ManagerOK'
    BY <1>1, <1>3, <1>5, <1>8 DEF CallsOK, ManagerOK
  <2>3. Effect
    BY <1>8 DEF Effect
  <2> QED
    BY <1>2, <1>5, <1>8, <2>1, <2>2, <2>3
<1>9. UNCHANGED clients => /\ ClientsOK' /\ UNCHANGED tty_name_ /\ SerialQuiet
                           /\ \A d \in Ids : port'[d] = "open" => port[d] = "open"
  BY <1>1 DEF clients, tty, ClientsOK, SerialQuiet
<1>10. Found(t) => call[t].id \in Ids
  BY <1>1 DEF Found, ManagerOK
<1>11. CASE client_send_data(t)
  <2>1. /\ ClientsOK' /\ UNCHANGED tty_name_ /\ SerialQuiet
        /\ \A d \in Ids : port'[d] = "open" => port[d] = "open"
    BY <1>1, <1>9, <1>10, <1>11, WriteStep DEF client_send_data, SerialQuiet
  <2> QED
    BY <1>4, <1>8, <1>11, <2>1 DEF client_send_data
<1>12. CASE client_send_format_data(t)
  <2>1. /\ ClientsOK' /\ UNCHANGED tty_name_ /\ SerialQuiet
        /\ \A d \in Ids : port'[d] = "open" => port[d] = "open"
    <3>1. \/ UNCHANGED clients
          \/ /\ call[t].id \in Ids
             /\ do_write_format_data(call[t].id) \/ do_write_immediately(call[t].id)
      BY <1>10, <1>12 DEF client_send_format_data
    <3> QED
      BY <1>1, <1>9, <3>1, FormatStep, WriteStep DEF SerialQuiet
  <2> QED
    BY <1>4, <1>8, <1>12, <2>1 DEF client_send_format_data
<1>13. CASE reconnect_server(t)
  <2>1. /\ ClientsOK' /\ UNCHANGED tty_name_ /\ SerialQuiet
        /\ \A d \in Ids : port'[d] = "open" => port[d] = "open"
    <3>1. q \in [LogicIds -> Seq(Tasks)]
      BY <1>1 DEF ClientsOK
    <3>2. UNCHANGED clients \/ (call[t].id \in Ids /\ Reconnect(call[t].id, t, q))
      BY <1>10, <1>13 DEF reconnect_server
    <3> QED
      BY <1>1, <1>9, <3>1, <3>2, VirtualStep
  <2> QED
    BY <1>4, <1>8, <1>13, <2>1 DEF reconnect_server
<1>14. CASE close_client(t)
  <2>1. /\ Locked(t, "close_client") /\ Return(t)
        /\ asio_client_list_' = asio_client_list_ \ {call[t].id}
        /\ UNCHANGED <<curr_client_id_, kind, server_ip_, thread_mutex_, closing>>
    BY <1>14 DEF close_client
  <2>2. CASE ~Found(t)
    <3>1. UNCHANGED <<clients, asio_client_list_>>
      BY <1>14, <2>1, <2>2 DEF close_client, Found
    <3> QED
      BY <1>4, <1>8, <1>9, <2>1, <3>1
  <2>3. CASE Found(t)
    <3>1. /\ ClientsOK' /\ UNCHANGED <<tty_name_, thrown>>
          /\ \A d \in Ids : port'[d] = "open" => port[d] = "open" /\ d \notin {call[t].id}
      BY <1>1, <1>14, <2>3, CloseStep DEF close_client
    <3>2. Effect
      BY <2>1, <3>1 DEF Effect, SerialQuiet
    <3>3. LogicCallInv' /\ IdInv'
      BY <1>4, <1>5, <2>1, CallKeeps DEF Return
    <3>4. CallsOK' /\ ManagerOK'
      BY <1>1, <1>3, <1>5, <2>1 DEF CallsOK, ManagerOK
    <3> QED
      BY <1>2, <1>5, <2>1, <3>2, <3>3, <3>4
  <2> QED
    BY <2>2, <2>3
<1>15. CASE close_idle(t)
  <2>1. /\ Return(t) /\ call[t].fn = "close" /\ thread_mutex_ = NoOne
        /\ UNCHANGED <<clients, manager, threads, check, thread_mutex_, closing, calls>>
    BY <1>15 DEF close_idle
  <2>2. LogicCallInv' /\ IdInv' /\ LockInv'
    BY <1>4, <2>1, CallKeeps, LockKept DEF Return
  <2>3. CallsOK' /\ ManagerOK' /\ ThreadsOK' /\ Effect
    BY <1>1, <1>3, <2>1, NoEffect DEF CallsOK, ManagerOK, ThreadsOK
  <2> QED
    BY <1>2, <2>2, <2>3
<1>16. CASE close_clients(t)
  <2>1. /\ Locked(t, "close") /\ close_client_socket(asio_client_list_)
        /\ asio_client_list_' = {} /\ thread_mutex_' = t /\ closing' = "stop"
        /\ UNCHANGED <<curr_client_id_, kind, server_ip_, call>>
    BY <1>16 DEF close_clients
  <2>2. /\ ClientsOK' /\ UNCHANGED <<tty_name_, thrown>>
        /\ \A d \in Ids : port'[d] = "open" => port[d] = "open" /\ d \notin asio_client_list_
    BY <1>1, <2>1, CloseStep
  <2>3. Effect
    BY <2>1, <2>2 DEF Effect, SerialQuiet
  <2>4. LogicCallInv' /\ IdInv' /\ LockInv'
    <3>1. \A u \in Threads : thread_mutex_' = u => call'[u].fn = "close"
      BY <1>5, <2>1
    <3> QED
      BY <2>1, <3>1, CallKeeps DEF LockInv
  <2>5. CallsOK' /\ ManagerOK'
    BY <1>1, <1>5, <2>1 DEF CallsOK, ManagerOK
  <2> QED
    BY <1>2, <1>5, <2>1, <2>3, <2>4, <2>5
<1>17. CASE close_stop(t)
  <2>1. LogicCallInv' /\ IdInv' /\ LockInv'
    BY <1>17, CallKeeps, LockKept DEF close_stop
  <2>2. CallsOK' /\ ManagerOK' /\ ThreadsOK' /\ Effect
    BY <1>1, <1>17, NoEffect DEF close_stop, CallsOK, ManagerOK, ThreadsOK
  <2> QED
    BY <1>2, <2>1, <2>2
<1>18. CASE close_join(t)
  <2>1. UNCHANGED <<clients, manager, is_Init_, io, stopped, logic_count, check, calls>>
    BY <1>18 DEF close_join
  <2>2. \/ UNCHANGED <<call, closing, thread_mutex_, thread_is_run_>>
        \/ Return(t) /\ closing' = "no" /\ thread_mutex_' = NoOne /\ thread_is_run_' = FALSE
    BY <1>18 DEF close_join
  <2>3. call[t].fn = "close"
    BY <1>18 DEF close_join, MgrInv, LockInv
  <2>4. LogicCallInv' /\ IdInv' /\ LockInv'
    BY <1>4, <2>1, <2>2, <2>3, CallKeeps, LockKept DEF Return
  <2>5. CallsOK' /\ ManagerOK' /\ ThreadsOK'
    BY <1>1, <1>3, <2>1, <2>2 DEF CallsOK, ManagerOK, ThreadsOK
  <2>6. Effect
    BY <1>1, <2>1, NoEffect
  <2> QED
    BY <1>2, <2>4, <2>5, <2>6
<1> QED
  BY <1>6, <1>7, <1>11, <1>12, <1>13, <1>14, <1>15, <1>16, <1>17, <1>18 DEF Exec

(* What the other steps have in common: no id is taken, and no serial       *)
(* client throws on a logic thread.                                         *)
Quiet ==
    /\ UNCHANGED <<manager, thread_mutex_, tty_name_>>
    /\ ClientsOK' /\ SerialQuiet
    /\ \A d \in Ids : port'[d] = "open" => port[d] = "open"

(* Such a step keeps the manager's invariant. *)
LEMMA QuietStep ==
  ASSUME MgrInv, Quiet, ThreadsOK', CallsOK',
         \/ UNCHANGED call
         \/ \E u \in Users, r \in Requests : /\ call' = [call EXCEPT ![u] = r]
                                             /\ call[u] = NoCall
                                             /\ r.fn \in Starts => IdsLeft
         \/ \E l \in LogicIds, c \in Ids : Answer(l, c) /\ call[l] = NoCall
  PROVE  MgrInv' /\ Effect
<1>1. LogicCallInv' /\ IdInv'
  BY CallKeeps DEF Quiet, manager
<1>2. LockInv'
  <2>1. \/ UNCHANGED <<call, thread_mutex_>>
        \/ /\ UNCHANGED thread_mutex_
           /\ \E t \in Threads : /\ call[t] = NoCall
                                 /\ \E r : call' = [call EXCEPT ![t] = r]
    BY Numbers DEF Quiet, Answer
  <2> QED
    BY <2>1, LockKept
<1>3. ManagerOK' /\ NameInv'
  BY TypeParts DEF MgrInv, Quiet, manager, ManagerOK, NameInv
<1>4. TypeOK'
  BY <1>3 DEF Quiet, TypeOK, ClientsOK, ManagerOK, ThreadsOK, CallsOK
<1> QED
  BY <1>1, <1>2, <1>3, <1>4 DEF MgrInv, Quiet, manager, Effect

(* A task that a logic thread takes. *)
LEMMA PoppedType ==
  ASSUME ClientsOK, NEW l \in LogicIds, q[l] # <<>>
  PROVE  /\ Popped(l) \in [LogicIds -> Seq(Tasks)]
         /\ Head(q[l]) \in Tasks
         /\ Head(q[l]).kind # "check" => Head(q[l]).id \in Ids
<1>1. q \in [LogicIds -> Seq(Tasks)]
  BY DEF ClientsOK
<1>2. Head(q[l]) \in Tasks /\ Tail(q[l]) \in Seq(Tasks)
  <2>1. q[l] \in Seq(Tasks) /\ q[l] # <<>>
    BY <1>1
  <2> HIDE DEF Tasks
  <2> QED
    BY <2>1
<1>3. Popped(l) \in [LogicIds -> Seq(Tasks)]
  BY <1>1, <1>2 DEF Popped
<1>4. ASSUME NEW k \in Tasks, k.kind # "check" PROVE k.id \in Ids
  BY <1>4 DEF Tasks, Task
<1> QED
  BY <1>2, <1>3, <1>4

(* An answer of do_message is a request like a user's. *)
LEMMA AnswerType ==
  ASSUME CallsOK, NEW l \in LogicIds, NEW c \in Ids, Answer(l, c)
  PROVE  call' \in [Threads -> Requests \cup {NoCall}]
<1>1. [fn |-> "client_send_format_data", id |-> c] \in Requests
  BY DEF Requests, ById
<1> QED
  BY <1>1, Numbers DEF CallsOK, Answer

(* The steps that are no call of the manager: the io thread, the logic      *)
(* threads, the timer and the peers.                                        *)
LEMMA OtherNext ==
  ASSUME MgrInv,
         \/ \E u \in Users, request \in Requests : Call(u, request)
         \/ run \/ IoThread
         \/ \E l \in LogicIds : LogicThread(l)
         \/ TimerFires
         \/ \E c \in Ids : NetConnects(c) \/ NetLost(c)
         \/ UNCHANGED vars
  PROVE  MgrInv' /\ Effect
<1>1. /\ ClientsOK /\ ManagerOK /\ ThreadsOK /\ CallsOK /\ NameInv
      /\ logic_count \in {0, Logics}
      /\ q \in [LogicIds -> Seq(Tasks)]
  BY TypeParts DEF MgrInv, ThreadsOK, ClientsOK
<1> USE DEF threads, check, manager
<1>2. UNCHANGED <<clients, manager, thread_mutex_>> => Quiet
  BY <1>1 DEF clients, tty, ClientsOK, Quiet, SerialQuiet
<1>3. ASSUME q' \in [LogicIds -> Seq(Tasks)], is_connect_' \in [Ids -> BOOLEAN],
             UNCHANGED <<tty, is_client_close_, manager, thread_mutex_>>
      PROVE  Quiet
  BY <1>1, <1>3 DEF tty, ClientsOK, Quiet, SerialQuiet
<1>4. ASSUME NEW u \in Users, NEW request \in Requests, Call(u, request)
      PROVE  MgrInv' /\ Effect
  <2>1. /\ call[u] = NoCall /\ (request.fn \in Starts => IdsLeft)
        /\ call' = [call EXCEPT ![u] = request] /\ calls' = calls + 1
        /\ UNCHANGED <<clients, manager, threads, check, thread_mutex_, closing>>
    BY <1>4 DEF Call
  <2>2. CallsOK' /\ ThreadsOK'
    BY <1>1, <2>1, Numbers DEF CallsOK, ThreadsOK
  <2> QED
    BY <1>2, <2>1, <2>2, QuietStep
<1>5. CASE run
  <2>1. CallsOK' /\ ThreadsOK'
    BY <1>1, <1>5 DEF run, CallsOK, ThreadsOK
  <2> QED
    BY <1>2, <1>5, <2>1, QuietStep DEF run
<1>6. CASE io_starts \/ io_run_returns \/ io_runs_again
  <2>1. /\ UNCHANGED <<clients, manager, is_Init_, stopped, logic_count, check, thread_mutex_,
                       call, closing, calls>>
        /\ io' \in {"run", "loop"} /\ thread_is_run_' \in {TRUE, thread_is_run_}
    BY <1>6, Zenon DEF io_starts, io_run_returns, io_runs_again
  <2>2. CallsOK' /\ ThreadsOK'
    BY <1>1, <2>1 DEF CallsOK, ThreadsOK
  <2> QED
    BY <1>2, <2>1, <2>2, QuietStep
<1>7. CASE io_handler
  <2>1. Quiet
    BY <1>1, <1>7, HandlerStep DEF io_handler, Quiet, SerialQuiet
  <2>2. CallsOK' /\ ThreadsOK'
    BY <1>1, <1>7 DEF io_handler, CallsOK, ThreadsOK
  <2> QED
    BY <1>7, <2>1, <2>2, QuietStep DEF io_handler
<1>8. ASSUME NEW l \in LogicIds, do_message(l)
      PROVE  MgrInv' /\ Effect
  <2>1. /\ call[l] = NoCall /\ q[l] # <<>> /\ q' = Popped(l)
        /\ UNCHANGED <<tty, is_connect_, is_client_close_, manager, threads, check,
                       thread_mutex_, closing, calls>>
        /\ UNCHANGED call \/ (Head(q[l]).kind = "connect" /\ Answer(l, Head(q[l]).id))
    BY <1>8 DEF do_message, Next_task
  <2>2. Quiet
    BY <1>1, <1>3, <2>1, PoppedType DEF ClientsOK
  <2>3. UNCHANGED call \/ \E c \in Ids : Answer(l, c) /\ call[l] = NoCall
    BY <1>1, <2>1, PoppedType
  <2>4. call' \in [Threads -> Requests \cup {NoCall}]
    BY <1>1, <2>3, AnswerType DEF CallsOK
  <2>5. CallsOK' /\ ThreadsOK'
    BY <1>1, <2>1, <2>4 DEF CallsOK, ThreadsOK
  <2> QED
    BY <2>2, <2>3, <2>5, QuietStep
<1>9. ASSUME NEW l \in LogicIds, reconnect_task(l)
      PROVE  MgrInv' /\ Effect
  <2>1. /\ q[l] # <<>> /\ Head(q[l]).kind = "reconnect"
        /\ Reconnect(Head(q[l]).id, l, Popped(l))
        /\ UNCHANGED <<manager, threads, check, thread_mutex_, call, closing, calls>>
    BY <1>9 DEF reconnect_task, Next_task
  <2>2. Popped(l) \in [LogicIds -> Seq(Tasks)] /\ Head(q[l]).id \in Ids /\ l \in Threads
    BY <1>1, <2>1, PoppedType, Numbers
  <2>3. Quiet
    BY <1>1, <2>1, <2>2, VirtualStep DEF Quiet
  <2>4. CallsOK' /\ ThreadsOK'
    BY <1>1, <2>1 DEF CallsOK, ThreadsOK
  <2> QED
    BY <2>1, <2>3, <2>4, QuietStep
<1>10. CASE find_expired
  <2>1. /\ q[0] # <<>> /\ q' = Popped(0)
        /\ expired' \subseteq asio_client_list_ /\ checking' = TRUE
        /\ UNCHANGED <<tty, is_connect_, is_client_close_, manager, threads, thread_mutex_,
                       call, closing, calls>>
    BY <1>10 DEF find_expired, Next_task
  <2>2. Quiet
    BY <1>1, <1>3, <2>1, PoppedType, Numbers DEF ClientsOK
  <2>3. CallsOK' /\ ThreadsOK'
    BY <1>1, <2>1 DEF CallsOK, ThreadsOK, ManagerOK
  <2> QED
    BY <2>1, <2>2, <2>3, QuietStep
<1>11. CASE check_done
  <2>1. CallsOK' /\ ThreadsOK'
    BY <1>1, <1>11 DEF check_done, CallsOK, ThreadsOK
  <2> QED
    BY <1>2, <1>11, <2>1, QuietStep DEF check_done
<1>12. ASSUME NEW c \in Ids, do_check_timeout(c)
       PROVE  MgrInv' /\ Effect
  <2>1. /\ call[0] = NoCall /\ expired' = expired \ {c}
        /\ UNCHANGED call \/ Answer(0, c)
        /\ Reconnect(c, 0, q)
        /\ UNCHANGED <<checking, manager, threads, thread_mutex_, closing, calls>>
    BY <1>12 DEF do_check_timeout
  <2>2. Quiet
    BY <1>1, <2>1, VirtualStep, Numbers DEF Quiet
  <2>3. call' \in [Threads -> Requests \cup {NoCall}]
    BY <1>1, <2>1, AnswerType, Numbers DEF CallsOK
  <2>4. CallsOK' /\ ThreadsOK'
    BY <1>1, <2>1, <2>3 DEF CallsOK, ThreadsOK
  <2> QED
    BY <2>1, <2>2, <2>4, QuietStep, Numbers
<1>13. CASE TimerFires
  <2>1. Append(q[0], Task("check", 0)) \in Seq(Tasks)
    <3>1. q[0] \in Seq(Tasks) /\ Task("check", 0) \in Tasks
      BY <1>1, Numbers DEF Tasks
    <3> HIDE DEF Tasks
    <3> QED
      BY <3>1
  <2>2. q' \in [LogicIds -> Seq(Tasks)]
    BY <1>1, <1>13, <2>1 DEF TimerFires
  <2>3. Quiet
    BY <1>1, <1>3, <1>13, <2>2 DEF TimerFires, ClientsOK
  <2>4. CallsOK' /\ ThreadsOK'
    BY <1>1, <1>13 DEF TimerFires, CallsOK, ThreadsOK
  <2> QED
    BY <1>13, <2>3, <2>4, QuietStep DEF TimerFires
<1>14. ASSUME NEW c \in Ids, NetConnects(c) \/ NetLost(c)
       PROVE  MgrInv' /\ Effect
  <2>1. PICK up \in BOOLEAN, event \in {"connect", "disconnect"} : NetChanges(c, up, event)
    BY <1>14 DEF NetConnects, NetLost
  <2>2. /\ is_connect_' = [is_connect_ EXCEPT ![c] = up]
        /\ q' = Posted(q, event, c)
        /\ UNCHANGED <<tty, is_client_close_, manager, threads, check, thread_mutex_, call,
                       closing, calls>>
    BY <2>1 DEF NetChanges
  <2>3. q' \in [LogicIds -> Seq(Tasks)]
    BY <1>1, <2>2, PostedType
  <2>4. Quiet
    BY <1>1, <1>3, <2>2, <2>3 DEF ClientsOK
  <2>5. CallsOK' /\ ThreadsOK'
    BY <1>1, <2>2 DEF CallsOK, ThreadsOK
  <2> QED
    BY <2>2, <2>4, <2>5, QuietStep
<1>15. CASE UNCHANGED vars
  <2>1. CallsOK' /\ ThreadsOK'
    BY <1>1, <1>15 DEF vars, CallsOK, ThreadsOK
  <2> QED
    BY <1>2, <1>15, <2>1, QuietStep DEF vars
<1> QED
  BY <1>4, <1>5, <1>6, <1>7, <1>8, <1>9, <1>10, <1>11, <1>12, <1>13, <1>14, <1>15
     DEF IoThread, LogicThread

(* All of them together, and the start. *)
LEMMA MgrNext ==
  ASSUME MgrInv, [Next]_vars
  PROVE  MgrInv' /\ Effect
  BY ExecNext, OtherNext DEF Next

LEMMA MgrInit == Init => MgrInv
<1> SUFFICES ASSUME Init PROVE MgrInv
  OBVIOUS
<1>1. Cardinality(Ids) \in Nat /\ 0 \in LogicIds
  BY Numbers
<1>2. TypeOK
  <2>1. ClientsOK
    <3>1. ready \in Seq([id : Ids, ok : BOOLEAN])
      <4> DEFINE C == [id : Ids, ok : BOOLEAN]
      <4> HIDE DEF C
      <4>1. ready = <<>>
        BY Zenon DEF Init
      <4>2. ready \in Seq(C)
        BY <4>1
      <4> QED
        BY <4>2 DEF C
    <3>2. q \in [LogicIds -> Seq(Tasks)]
      <4>1. q = [l \in LogicIds |-> <<>>]
        BY Zenon DEF Init
      <4> HIDE DEF Tasks
      <4> QED
        BY <4>1
    <3> QED
      BY <3>1, <3>2 DEF Init, ClientsOK
  <2>2. ManagerOK /\ ThreadsOK
    BY DEF Init, ManagerOK, ThreadsOK
  <2>3. CallsOK
    BY DEF Init, CallsOK
  <2> QED
    BY <2>1, <2>2, <2>3, TypeParts
<1>3. Starting = {}
  BY Numbers DEF Starting, Init, NoCall, Starts
<1>4. IdInv
  <2>1. IsFiniteSet(Starting) /\ Cardinality(Starting) = 0
    BY <1>3, FS_EmptySet
  <2>2. curr_client_id_ = 1
    BY Zenon DEF Init
  <2> QED
    BY <1>1, <2>1, <2>2 DEF IdInv
<1> QED
  BY <1>2, <1>4, Numbers, ManagerAssumption
     DEF MgrInv, NameInv, LogicCallInv, LockInv, Init

-----------------------------------------------------------------------------
(* Every variable keeps its type: a start that is let in finds an id, and a *)
(* task that is posted finds a logic thread.                                *)
THEOREM TypeCorrect == Spec => []TypeOK
<1>1. Init => MgrInv
  BY MgrInit
<1>2. MgrInv /\ [Next]_vars => MgrInv'
  BY MgrNext
<1>3. MgrInv => TypeOK
  BY DEF MgrInv
<1> QED
  BY <1>1, <1>2, <1>3, PTL DEF Spec

(* add_serial_port throws only on a thread of the user: the reconnects of   *)
(* the logic threads go to a client whose name is empty.  (from_string of a *)
(* network client does throw on a logic thread.)                            *)
THEOREM NoThrowCorrect == Spec => []NoSerialThrowOnLogicThread
<1> DEFINE I == MgrInv /\ NoSerialThrowOnLogicThread
<1>1. Init => I
  BY MgrInit DEF Init, NoSerialThrowOnLogicThread
<1>2. I /\ [Next]_vars => I'
  <2> SUFFICES ASSUME I, [Next]_vars PROVE I'
    OBVIOUS
  <2>1. MgrInv' /\ Effect
    BY MgrNext
  <2> QED
    BY <2>1 DEF Effect, SerialQuiet, NoSerialThrowOnLogicThread
<1> QED
  BY <1>1, <1>2, PTL DEF Spec

(* A port is opened by the start that enters its client, and a client that  *)
(* leaves the list has its port closed in the same step.                    *)
THEOREM PortCorrect == Spec => []PortReleased
<1> DEFINE I == MgrInv /\ PortReleased
<1>1. Init => I
  BY MgrInit DEF Init, PortReleased
<1>2. I /\ [Next]_vars => I'
  <2> SUFFICES ASSUME I, [Next]_vars PROVE I'
    OBVIOUS
  <2>1. MgrInv' /\ Effect
    BY MgrNext
  <2> QED
    BY <2>1 DEF Effect, PortReleased
<1> QED
  BY <1>1, <1>2, PTL DEF Spec

(* The only id that can enter the list is the next one. *)
THEOREM IdsCorrect == Spec => IdsNotReused
<1> DEFINE Kept == \A c \in Ids : c < curr_client_id_ /\ c \notin asio_client_list_
                                      => c \notin asio_client_list_'
<1>1. Init => MgrInv
  BY MgrInit
<1>2. MgrInv /\ [Next]_vars => MgrInv'
  BY MgrNext
<1>3. MgrInv /\ [Next]_vars => [Kept]_vars
  <2> SUFFICES ASSUME MgrInv, [Next]_vars PROVE Kept
    OBVIOUS
  <2>1. asio_client_list_' \subseteq asio_client_list_ \cup {curr_client_id_}
    BY MgrNext DEF Effect
  <2>2. curr_client_id_ \in Nat /\ \A c \in Ids : c \in Nat
    BY Numbers DEF MgrInv, TypeOK
  <2> QED
    BY <2>1, <2>2
<1> QED
  BY <1>1, <1>2, <1>3, PTL DEF Spec, IdsNotReused
=============================================================================
