-------------------------- MODULE TcpClient_proofs --------------------------
(***************************************************************************)
(* Proofs about one TCP client, for every value of the bounds and whether  *)
(* or not the client shares logic thread 0 with the timer check.           *)
(***************************************************************************)
EXTENDS TcpClient, SequenceTheorems, TLAPS

(* The four calls on the socket keep the types of what they change. *)
LEMMA CallType ==
  ASSUME AsioTypeOK, NEW rest \in Seq(Completions),
         \/ async_connect(rest) \/ async_read_some(rest) \/ async_write(rest)
         \/ close(rest)
  PROVE  AsioTypeOK'
<1> USE DEF AsioTypeOK
<1>1. ASSUME NEW c \in Completions PROVE Append(rest, c) \in Seq(Completions)
  OBVIOUS
<1>2. CASE async_connect(rest)
  <2>1. Done("connect", TRUE) \in Completions /\ Done("connect", FALSE) \in Completions
    BY Zenon DEF Done, Completions
  <2>2. ready' \in Seq(Completions)
    BY <1>1, <1>2, <2>1 DEF async_connect
  <2>3. /\ sock' \in {sock, "connecting", "connected", "idle"}
        /\ connects' = connects \/ connects' = connects + 1
        /\ faults' = faults \/ faults' = faults + 1
    BY <1>2, Zenon DEF async_connect
  <2>4. sock' \in SockStates /\ connects' \in Nat /\ faults' \in Nat
    BY <2>3 DEF SockStates
  <2> QED
    BY <1>2, <2>2, <2>4 DEF async_connect
<1>3. CASE async_read_some(rest)
  <2>1. Done("read", FALSE) \in Completions
    BY Zenon DEF Done, Completions
  <2>2. ready' \in Seq(Completions)
    BY <1>1, <1>3, <2>1 DEF async_read_some
  <2>3. reads' = reads \/ reads' = reads + 1
    BY <1>3, Zenon DEF async_read_some
  <2>4. reads' \in Nat
    BY <2>3
  <2> QED
    BY <1>3, <2>2, <2>4 DEF async_read_some
<1>4. CASE async_write(rest)
  <2>1. Done("write", FALSE) \in Completions
    BY Zenon DEF Done, Completions
  <2>2. ready' \in Seq(Completions)
    BY <1>1, <1>4, <2>1 DEF async_write
  <2>3. writes' = writes \/ writes' = writes + 1
    BY <1>4, Zenon DEF async_write
  <2>4. writes' \in Nat
    BY <2>3
  <2> QED
    BY <1>4, <2>2, <2>4 DEF async_write
<1>5. CASE close(rest)
  <2>1. ASSUME NEW op \in {"connect", "read", "write"}, NEW n \in Nat
        PROVE  Aborted(op, n) \in Seq(Completions)
    BY DEF Aborted, Done, Completions
  <2>2. ready' \in Seq(Completions)
    BY <1>5, <2>1 DEF close
  <2> QED
    BY <1>5, <2>2 DEF close, SockStates
<1> QED
  BY <1>2, <1>3, <1>4, <1>5

(* So do the network and the reactor. *)
LEMMA ReactorType ==
  ASSUME AsioTypeOK,
         \/ Handshake \/ PeerDrop \/ ConnectReady \/ WriteReady
         \/ \E ok \in BOOLEAN : ReadReady(ok)
  PROVE  AsioTypeOK'
<1> USE DEF AsioTypeOK
<1>1. ASSUME NEW op \in {"connect", "read", "write"}, NEW ok \in BOOLEAN
      PROVE  Append(ready, Done(op, ok)) \in Seq(Completions)
  <2>1. Done(op, ok) \in Completions
    BY Zenon DEF Done, Completions
  <2> QED
    BY <2>1
<1>2. CASE Handshake
  BY <1>2, BoundsAssumption DEF Handshake, SockStates
<1>3. CASE PeerDrop
  BY <1>3, BoundsAssumption DEF PeerDrop
<1>4. CASE ConnectReady
  <2>1. ready' \in Seq(Completions) /\ connects' \in Nat
    BY <1>1, <1>4 DEF ConnectReady
  <2> QED
    BY <1>4, <2>1 DEF ConnectReady
<1>5. CASE WriteReady
  <2>1. ready' \in Seq(Completions) /\ writes' \in Nat
    BY <1>1, <1>5 DEF WriteReady
  <2> QED
    BY <1>5, <2>1 DEF WriteReady
<1>6. CASE \E ok \in BOOLEAN : ReadReady(ok)
  <2>1. ready' \in Seq(Completions) /\ reads' \in Nat
    BY <1>1, <1>6 DEF ReadReady
  <2> QED
    BY <1>6, <2>1 DEF ReadReady
<1> QED
  BY <1>2, <1>3, <1>4, <1>5, <1>6

(* Taking a completion. *)
LEMMA TakeType ==
  ASSUME AsioTypeOK, ready # <<>>
  PROVE  /\ Tail(ready) \in Seq(Completions)
         /\ Consume => AsioTypeOK'
<1>1. Tail(ready) \in Seq(Completions)
  BY DEF AsioTypeOK
<1> QED
  BY <1>1 DEF Consume, AsioTypeOK

(* Posting a task. *)
LEMMA PostType ==
  ASSUME TypeOK, NEW task \in Tasks, Post(task)
  PROVE  q' \in [Logics -> Seq(Tasks)]
<1>1. \A t \in Logics : q[t] \in Seq(Tasks) /\ Append(q[t], task) \in Seq(Tasks)
  BY DEF TypeOK
<1>2. q' = [t \in Logics |-> IF t = Home THEN Append(q[t], task) ELSE q[t]]
  BY DEF TypeOK, Post
<1> QED
  BY <1>1, <1>2

(* Taking the task at the front of a queue, and sending a logic thread to  *)
(* one of its labels.                                                       *)
LEMMA DequeueType ==
  ASSUME TypeOK, NEW t \in Logics, q[t] # <<>>
  PROVE  /\ Head(q[t]) \in Tasks
         /\ [q EXCEPT ![t] = Tail(@)] \in [Logics -> Seq(Tasks)]
         /\ [q EXCEPT ![t] = Append(Tail(@), "check")] \in [Logics -> Seq(Tasks)]
<1>1. /\ Head(q[t]) \in Tasks
      /\ Tail(q[t]) \in Seq(Tasks)
      /\ q \in [Logics -> Seq(Tasks)]
  BY DEF TypeOK
<1>2. Append(Tail(q[t]), "check") \in Seq(Tasks)
  BY <1>1 DEF Tasks
<1> QED
  BY <1>1, <1>2

LPC == {"idle", "reconnect", "dial", "expired"}

(* The io thread keeps the types. *)
LEMMA IoType == TypeOK /\ IoThread => TypeOK'
<1> SUFFICES ASSUME TypeOK, IoThread PROVE TypeOK'
  OBVIOUS
<1> USE DEF flags, asio
<1>1. AsioTypeOK
  BY DEF TypeOK
<1>2. {"connect", "disconnect", "recv", "reconnect"} \subseteq Tasks
  BY DEF Tasks, Events
<1>3. CASE connect_handler_up
  <2>1. AsioTypeOK'
    BY <1>1, <1>3, TakeType DEF connect_handler_up, Take
  <2> QED
    BY <1>3, <2>1 DEF connect_handler_up, TypeOK
<1>4. CASE connect_handler_arm
  <2>1. AsioTypeOK'
    BY <1>1, <1>4, CallType DEF connect_handler_arm, AsioTypeOK
  <2>2. q' \in [Logics -> Seq(Tasks)]
    BY <1>2, <1>4, PostType DEF connect_handler_arm
  <2> QED
    BY <1>4, <2>1, <2>2 DEF connect_handler_arm, TypeOK
<1>5. CASE connect_handler_failed
  <2>1. AsioTypeOK'
    BY <1>1, <1>5, TakeType DEF connect_handler_failed, Take
  <2>2. q' \in [Logics -> Seq(Tasks)]
    BY <1>2, <1>5, PostType DEF connect_handler_failed
  <2> QED
    BY <1>5, <2>1, <2>2 DEF connect_handler_failed, TypeOK
<1>6. CASE do_read_data
  <2>1. AsioTypeOK'
    BY <1>1, <1>6, TakeType, CallType DEF do_read_data, Take
  <2>2. q' \in [Logics -> Seq(Tasks)]
    <3>1. CASE Post("recv")
      BY <1>2, <3>1, PostType
    <3>2. CASE UNCHANGED q
      BY <3>2 DEF TypeOK
    <3> QED
      BY <1>6, <3>1, <3>2 DEF do_read_data
  <2> QED
    BY <1>6, <2>1, <2>2 DEF do_read_data, TypeOK
<1>7. ASSUME NEW op, link_lost(op) PROVE TypeOK'
  <2>1. AsioTypeOK'
    BY <1>1, <1>7, TakeType DEF link_lost, Take
  <2>2. q' \in [Logics -> Seq(Tasks)]
    BY <1>2, <1>7, PostType DEF link_lost
  <2> QED
    BY <1>7, <2>1, <2>2 DEF link_lost, TypeOK
<1>8. CASE do_write_done
  <2>1. AsioTypeOK'
    BY <1>1, <1>8, TakeType DEF do_write_done, Take
  <2> QED
    BY <1>8, <2>1 DEF do_write_done, TypeOK
<1>9. CASE close_socket_flag
  BY <1>9 DEF close_socket_flag, TypeOK, AsioTypeOK
<1>10. CASE close_socket_close
  <2>1. AsioTypeOK'
    BY <1>1, <1>10, CallType DEF close_socket_close, AsioTypeOK
  <2>2. q' \in [Logics -> Seq(Tasks)]
    BY <1>2, <1>10, PostType DEF close_socket_close
  <2> QED
    BY <1>10, <2>1, <2>2 DEF close_socket_close, TypeOK
<1> QED
  BY <1>3, <1>4, <1>5, <1>6, <1>7, <1>8, <1>9, <1>10
     DEF IoThread, do_read_failed, do_write_failed

(* A logic thread keeps the types. *)
LEMMA LogicType ==
  ASSUME TypeOK, NEW t \in Logics, LogicThread(t)
  PROVE  TypeOK'
<1> USE DEF flags, asio
<1>1. AsioTypeOK
  BY DEF TypeOK
<1>2. ASSUME NEW pc \in LPC, Goto(t, pc)
      PROVE  lpc' \in [Logics -> {"idle", "reconnect", "dial", "expired"}]
  BY <1>2 DEF Goto, TypeOK, LPC
<1>3. CASE do_message(t)
  <2>1. q' \in [Logics -> Seq(Tasks)]
    BY <1>3, DequeueType DEF do_message, Idle
  <2>2. greeted' \in BOOLEAN
    BY <1>3 DEF do_message, TypeOK
  <2>3. AsioTypeOK'
    BY <1>1, <1>3 DEF do_message, AsioTypeOK
  <2> QED
    BY <1>3, <2>1, <2>2, <2>3 DEF do_message, TypeOK
<1>4. CASE reconnect_task(t)
  <2>1. q' \in [Logics -> Seq(Tasks)]
    BY <1>4, DequeueType DEF reconnect_task, Idle
  <2>2. lpc' \in [Logics -> {"idle", "reconnect", "dial", "expired"}]
    BY <1>2, <1>4 DEF reconnect_task, LPC
  <2>3. AsioTypeOK'
    BY <1>1, <1>4 DEF reconnect_task, AsioTypeOK
  <2> QED
    BY <1>4, <2>1, <2>2, <2>3 DEF reconnect_task, TypeOK
<1>5. CASE reconnect_test(t)
  <2>1. lpc' \in [Logics -> {"idle", "reconnect", "dial", "expired"}]
    BY <1>2, <1>5 DEF reconnect_test, LPC
  <2>2. AsioTypeOK'
    BY <1>1, <1>5 DEF reconnect_test, AsioTypeOK
  <2> QED
    BY <1>5, <2>1, <2>2 DEF reconnect_test, TypeOK
<1>6. CASE reconnect_dial(t)
  <2>1. lpc' \in [Logics -> {"idle", "reconnect", "dial", "expired"}]
    BY <1>2, <1>6 DEF reconnect_dial, LPC
  <2>2. AsioTypeOK'
    BY <1>1, <1>6, CallType DEF reconnect_dial, dial, AsioTypeOK
  <2> QED
    BY <1>6, <2>1, <2>2 DEF reconnect_dial, TypeOK
<1>7. CASE t = Logic0 /\ timer_check
  <2>1. q' \in [Logics -> Seq(Tasks)]
    BY <1>7, DequeueType DEF timer_check, Idle
  <2>2. AsioTypeOK'
    BY <1>1, <1>7 DEF timer_check, AsioTypeOK
  <2> QED
    BY <1>7, <2>1, <2>2 DEF timer_check, TypeOK
<1>8. CASE t = Logic0 /\ find_expired
  <2>1. q' \in [Logics -> Seq(Tasks)]
    BY <1>8, DequeueType DEF find_expired, Idle
  <2>2. lpc' \in [Logics -> {"idle", "reconnect", "dial", "expired"}]
    BY <1>2, <1>8 DEF find_expired, LPC
  <2>3. AsioTypeOK'
    BY <1>1, <1>8 DEF find_expired, AsioTypeOK
  <2> QED
    BY <1>8, <2>1, <2>2, <2>3 DEF find_expired, TypeOK
<1>9. CASE t = Logic0 /\ do_check_timeout
  <2>1. lpc' \in [Logics -> {"idle", "reconnect", "dial", "expired"}]
    BY <1>2, <1>9 DEF do_check_timeout, LPC
  <2>2. AsioTypeOK'
    BY <1>1, <1>9 DEF do_check_timeout, AsioTypeOK
  <2> QED
    BY <1>9, <2>1, <2>2 DEF do_check_timeout, TypeOK
<1> QED
  BY <1>3, <1>4, <1>5, <1>6, <1>7, <1>8, <1>9 DEF LogicThread

Calls ==
    client_send_data \/ client_send_format_data \/ reconnect_server \/ close_client
                     \/ Caller

(* The users' calls keep the types. *)
LEMMA CallerType == TypeOK /\ Calls => TypeOK'
<1> SUFFICES ASSUME TypeOK, Calls PROVE TypeOK'
  OBVIOUS
<1> USE DEF flags, asio
<1>1. AsioTypeOK /\ ready \in Seq(Completions)
  BY DEF TypeOK, AsioTypeOK
<1>2. CASE client_send_data
  <2>1. AsioTypeOK'
    BY <1>1, <1>2, CallType DEF client_send_data
  <2> QED
    BY <1>2, <2>1 DEF client_send_data, TypeOK
<1>3. CASE client_send_format_data
  <2>1. q' \in [Logics -> Seq(Tasks)] /\ api' \in {"idle", "write"}
    <3>1. "disconnect" \in Tasks
      BY DEF Tasks, Events
    <3>2. CASE is_connect_
      BY <1>3, <3>2 DEF client_send_format_data, TypeOK
    <3>3. CASE ~is_connect_
      BY <1>3, <3>1, <3>3, PostType DEF client_send_format_data, Enter
    <3> QED
      BY <3>2, <3>3
  <2>2. AsioTypeOK' /\ inputs' \in Nat
    BY <1>1, <1>3 DEF client_send_format_data, AsioTypeOK, TypeOK
  <2> QED
    BY <1>3, <2>1, <2>2 DEF client_send_format_data, TypeOK
<1>4. CASE reconnect_server
  <2>1. AsioTypeOK' /\ inputs' \in Nat
    BY <1>1, <1>4 DEF reconnect_server, AsioTypeOK, TypeOK
  <2> QED
    BY <1>4, <2>1 DEF reconnect_server, TypeOK
<1>5. CASE close_client
  <2>1. AsioTypeOK'
    BY <1>1, <1>5 DEF close_client, AsioTypeOK
  <2> QED
    BY <1>5, <2>1 DEF close_client, TypeOK
<1>6. CASE do_write_immediately
  <2>1. AsioTypeOK'
    BY <1>1, <1>6, CallType DEF do_write_immediately
  <2> QED
    BY <1>6, <2>1 DEF do_write_immediately, TypeOK
<1>7. CASE caller_dial
  <2>1. AsioTypeOK'
    BY <1>1, <1>7, CallType DEF caller_dial, dial
  <2> QED
    BY <1>7, <2>1 DEF caller_dial, TypeOK
<1>8. CASE close_client_flag
  <2>1. AsioTypeOK'
    BY <1>1, <1>8 DEF close_client_flag, AsioTypeOK
  <2> QED
    BY <1>8, <2>1 DEF close_client_flag, TypeOK
<1>9. CASE close_client_close
  <2>1. AsioTypeOK'
    BY <1>1, <1>9, CallType DEF close_client_close
  <2> QED
    BY <1>9, <2>1 DEF close_client_close, TypeOK
<1> QED
  BY <1>2, <1>3, <1>4, <1>5, <1>6, <1>7, <1>8, <1>9 DEF Calls, Caller

Environment == Reactor \/ Network \/ TimePasses \/ TimerFires

(* The environment keeps the types. *)
LEMMA EnvironmentType == TypeOK /\ Environment => TypeOK'
<1> SUFFICES ASSUME TypeOK, Environment PROVE TypeOK'
  OBVIOUS
<1> USE DEF flags, asio, client
<1>1. AsioTypeOK
  BY DEF TypeOK
<1>2. CASE Reactor
  <2>1. AsioTypeOK'
    BY <1>1, <1>2, ReactorType DEF Reactor
  <2> QED
    BY <1>2, <2>1 DEF Reactor, TypeOK
<1>3. CASE Network
  <2>1. AsioTypeOK'
    BY <1>1, <1>3, ReactorType DEF Network
  <2>2. inputs' \in Nat
    <3>1. inputs' = inputs \/ inputs' = inputs + 1
      BY <1>3, Zenon DEF Network
    <3> QED
      BY <3>1 DEF TypeOK
  <2> QED
    BY <1>3, <2>1, <2>2 DEF Network, TypeOK
<1>4. CASE TimePasses
  <2>1. AsioTypeOK'
    BY <1>1, <1>4 DEF TimePasses, AsioTypeOK
  <2> QED
    BY <1>4, <2>1 DEF TimePasses, TypeOK
<1>5. CASE TimerFires
  <2>1. AsioTypeOK'
    BY <1>1, <1>5 DEF TimerFires, AsioTypeOK
  <2>2. q' \in [Logics -> Seq(Tasks)]
    <3>1. Logic0 \in Logics /\ "timer_check" \in Tasks
      BY DEF Logics, Tasks
    <3> QED
      BY <1>5, <3>1 DEF TimerFires, TypeOK
  <2> QED
    BY <1>5, <2>1, <2>2 DEF TimerFires, TypeOK
<1> QED
  BY <1>2, <1>3, <1>4, <1>5 DEF Environment

(* Next, by the thread that takes the step. *)
LEMMA NextCases ==
  ASSUME [Next]_vars
  PROVE  IoThread \/ (\E t \in Logics : LogicThread(t)) \/ Calls \/ Environment
                  \/ UNCHANGED vars
  BY DEF Next, Calls, Environment

(* start() has been called: the types hold. *)
LEMMA TypeInit == Init => TypeOK
<1> SUFFICES ASSUME Init PROVE TypeOK
  OBVIOUS
<1>1. AsioTypeOK
  <2>1. ready \in Seq(Completions)
    BY EmptySeq DEF Init, AsioInit
  <2> QED
    BY <2>1, Zenon DEF Init, AsioInit, AsioTypeOK, SockStates
<1>2. /\ q \in [Logics -> Seq(Tasks)]
      /\ lpc \in [Logics -> {"idle", "reconnect", "dial", "expired"}]
  BY DEF Init
<1> QED
  BY <1>1, <1>2 DEF Init, TypeOK

(* Every step keeps the types. *)
LEMMA TypeNext == TypeOK /\ [Next]_vars => TypeOK'
<1> SUFFICES ASSUME TypeOK, [Next]_vars PROVE TypeOK'
  OBVIOUS
<1>1. CASE UNCHANGED vars
  BY <1>1 DEF vars, asio, flags, TypeOK, AsioTypeOK
<1> QED
  BY <1>1, NextCases, IoType, LogicType, CallerType, EnvironmentType

(* Type correctness of the client. *)
THEOREM TypeCorrect == Spec => []TypeOK
  BY TypeInit, TypeNext, PTL DEF Spec

-----------------------------------------------------------------------------
(* A connected client has a read armed.                                     *)

(* While a handler runs, the read it took is not armed again yet; but then  *)
(* the handler either is about to arm one ("arm") or about to reset         *)
(* is_connect_, and what it has reset only connect_handler sets again.      *)
ArmedInv ==
    /\ TypeOK
    /\ ArmedWhileConnected
    /\ io = "shut" => ~is_connect_
    /\ api \in {"flag", "close"} => is_client_close_

(* Appending a completion, or taking one that is not a read, leaves an      *)
(* armed read armed.                                                        *)
LEMMA ArmedAppend ==
  ASSUME TypeOK, ReadArmed, NEW c, ready' = Append(ready, c), reads' >= reads,
         reads' \in Nat
  PROVE  ReadArmed'
<1>1. ready \in Seq(Completions) /\ reads \in Nat
  BY DEF TypeOK, AsioTypeOK
<1>2. CASE reads > 0
  BY <1>1, <1>2 DEF ReadArmed
<1>3. ASSUME NEW i \in 1 .. Len(ready), ready[i].op = "read" PROVE ReadArmed'
  <2>1. i \in 1 .. Len(ready') /\ ready'[i] = ready[i]
    BY <1>1
  <2> QED
    BY <1>3, <2>1 DEF ReadArmed
<1> QED
  BY <1>2, <1>3 DEF ReadArmed

(* (Taking a connect or write completion from the front.) *)
LEMMA ArmedConsume ==
  ASSUME TypeOK, ReadArmed, ready # <<>>, Head(ready).op # "read", Consume
  PROVE  ReadArmed'
<1>1. ready \in Seq(Completions)
  BY DEF TypeOK, AsioTypeOK
<1>2. CASE reads > 0
  BY <1>2 DEF Consume, ReadArmed
<1>3. ASSUME NEW i \in 1 .. Len(ready), ready[i].op = "read" PROVE ReadArmed'
  <2>1. i # 1
    BY <1>1, <1>3
  <2>2. i - 1 \in 1 .. Len(Tail(ready)) /\ Tail(ready)[i - 1] = ready[i]
    BY <1>1, <2>1
  <2> QED
    BY <1>3, <2>2 DEF Consume, ReadArmed
<1> QED
  BY <1>2, <1>3 DEF ReadArmed

(* do_read() arms one. *)
LEMMA ReadArms ==
  ASSUME TypeOK, NEW rest \in Seq(Completions), async_read_some(rest)
  PROVE  ReadArmed'
<1>1. reads \in Nat
  BY DEF TypeOK, AsioTypeOK
<1>2. CASE sock = "closed"
  <2>1. ready' = Append(rest, Done("read", FALSE))
    BY <1>2 DEF async_read_some
  <2>2. Len(rest) + 1 \in 1 .. Len(ready') /\ ready'[Len(rest) + 1] = Done("read", FALSE)
    <3>1. Done("read", FALSE) \in Completions
      BY Zenon DEF Done, Completions
    <3>2. /\ Len(ready') = Len(rest) + 1
          /\ ready'[Len(rest) + 1] = Done("read", FALSE)
      BY <2>1, <3>1, AppendProperties, Zenon
    <3>3. Len(rest) \in Nat
      OBVIOUS
    <3> QED
      BY <3>2, <3>3
  <2>3. Done("read", FALSE).op = "read"
    BY DEF Done
  <2> QED
    BY <2>2, <2>3 DEF ReadArmed
<1>3. CASE sock # "closed"
  BY <1>1, <1>3 DEF async_read_some, ReadArmed
<1> QED
  BY <1>2, <1>3

(* Waiting reads and queued completions stay, or a completion is added. *)
Extends ==
    /\ reads' = reads
    /\ ready' = ready \/ \E c \in Completions : ready' = Append(ready, c)

(* Extending keeps an armed read. *)
LEMMA ArmedExtends == TypeOK /\ ReadArmed /\ Extends => ReadArmed'
<1> SUFFICES ASSUME TypeOK, ReadArmed, Extends PROVE ReadArmed'
  OBVIOUS
<1>1. reads \in Nat /\ reads' = reads
  BY DEF Extends, TypeOK, AsioTypeOK
<1>2. CASE ready' = ready
  BY <1>1, <1>2 DEF ReadArmed
<1>3. ASSUME NEW c \in Completions, ready' = Append(ready, c) PROVE ReadArmed'
  BY <1>1, <1>3, ArmedAppend
<1> QED
  BY <1>2, <1>3 DEF Extends

(* The steps of the socket that keep the reads armed: all but close and    *)
(* the completion of a read only extend, and that moves a read to ready.    *)
LEMMA SocketKeepsArmed ==
  ASSUME TypeOK, ReadArmed,
         \/ async_connect(ready) \/ async_write(ready) \/ Handshake \/ PeerDrop
         \/ ConnectReady \/ WriteReady \/ \E ok \in BOOLEAN : ReadReady(ok)
         \/ UNCHANGED asio
  PROVE  ReadArmed'
<1>1. ASSUME NEW op \in {"connect", "read", "write"}, NEW ok \in BOOLEAN
      PROVE  Done(op, ok) \in Completions /\ Done(op, ok).op = op
  BY Zenon DEF Done, Completions
<1>2. CASE async_connect(ready)
  <2>1. reads' = reads /\ (ready' = ready \/ \E ok \in BOOLEAN :
                               ready' = Append(ready, Done("connect", ok)))
    BY <1>2, Zenon DEF async_connect
  <2> QED
    BY <1>1, <2>1, ArmedExtends DEF Extends
<1>3. CASE async_write(ready)
  <2>1. reads' = reads /\ (ready' = ready \/ ready' = Append(ready, Done("write", FALSE)))
    BY <1>3, Zenon DEF async_write
  <2> QED
    BY <1>1, <2>1, ArmedExtends DEF Extends
<1>4. CASE Handshake \/ PeerDrop \/ UNCHANGED asio
  BY <1>4, ArmedExtends DEF Handshake, PeerDrop, asio, Extends
<1>5. CASE ConnectReady
  <2>1. reads' = reads /\ \E ok \in BOOLEAN : ready' = Append(ready, Done("connect", ok))
    BY <1>5, Zenon DEF ConnectReady
  <2> QED
    BY <1>1, <2>1, ArmedExtends DEF Extends
<1>6. CASE WriteReady
  <2>1. reads' = reads /\ \E ok \in BOOLEAN : ready' = Append(ready, Done("write", ok))
    BY <1>6, Zenon DEF WriteReady
  <2> QED
    BY <1>1, <2>1, ArmedExtends DEF Extends
<1>7. ASSUME NEW ok \in BOOLEAN, ReadReady(ok) PROVE ReadArmed'
  <2>1. ready' = Append(ready, Done("read", ok)) /\ ready \in Seq(Completions)
    BY <1>7 DEF ReadReady, TypeOK, AsioTypeOK
  <2>2. ready'[Len(ready) + 1] = Done("read", ok) /\ Len(ready') = Len(ready) + 1
    <3>1. Done("read", ok) \in Completions
      BY <1>1
    <3> QED
      BY <2>1, <3>1, AppendProperties, Zenon
  <2>3. Len(ready) + 1 \in 1 .. Len(ready')
    BY <2>1, <2>2
  <2>4. ready'[Len(ready) + 1].op = "read"
    BY <1>1, <2>2
  <2> QED
    BY <2>3, <2>4 DEF ReadArmed
<1> QED
  BY <1>2, <1>3, <1>4, <1>5, <1>6, <1>7

(* Every step keeps the armed-read invariant. *)
LEMMA ArmedNext == ArmedInv /\ [Next]_vars => ArmedInv'
<1> SUFFICES ASSUME ArmedInv, [Next]_vars PROVE ArmedInv'
  OBVIOUS
<1>1. TypeOK /\ TypeOK'
  BY TypeNext DEF ArmedInv
<1> USE DEF flags, client
<1>2. ASSUME UNCHANGED <<flags, io>>, ReadArmed => ReadArmed',
             api' \in {"flag", "close"} => api = api'
      PROVE  ArmedInv'
  BY <1>1, <1>2 DEF ArmedInv, ArmedWhileConnected
<1>3. CASE IoThread
  <2>1. CASE connect_handler_up
    BY <1>1, <2>1 DEF connect_handler_up, ArmedInv, ArmedWhileConnected
  <2>2. CASE connect_handler_arm
    <3>1. ReadArmed'
      BY <1>1, <2>2, ReadArms DEF connect_handler_arm, TypeOK, AsioTypeOK
    <3> QED
      BY <1>1, <2>2, <3>1 DEF connect_handler_arm, ArmedInv, ArmedWhileConnected
  <2>3. CASE connect_handler_failed
    BY <1>1, <2>3 DEF connect_handler_failed, ArmedInv, ArmedWhileConnected
  <2>4. CASE do_read_data
    <3>1. ReadArmed'
      BY <1>1, <2>4, TakeType, ReadArms DEF do_read_data, Take, TypeOK
    <3> QED
      BY <1>2, <2>4, <3>1 DEF do_read_data
  <2>5. ASSUME NEW op, link_lost(op) PROVE ArmedInv'
    BY <1>1, <2>5 DEF link_lost, ArmedInv, ArmedWhileConnected
  <2>6. CASE do_write_done
    <3>1. ready # <<>> /\ Head(ready).op # "read"
      BY <2>6 DEF do_write_done, Take, Done
    <3>2. ReadArmed => ReadArmed'
      BY <1>1, <2>6, <3>1, ArmedConsume DEF do_write_done
    <3> QED
      BY <1>2, <2>6, <3>2 DEF do_write_done
  <2>7. CASE close_socket_flag
    BY <1>1, <2>7 DEF close_socket_flag, ArmedInv, ArmedWhileConnected
  <2>8. CASE close_socket_close
    BY <1>1, <2>8 DEF close_socket_close, ArmedInv, ArmedWhileConnected
  <2> QED
    BY <1>3, <2>1, <2>2, <2>3, <2>4, <2>5, <2>6, <2>7, <2>8
       DEF IoThread, do_read_failed, do_write_failed
<1>4. ASSUME NEW t \in Logics, LogicThread(t) PROVE ArmedInv'
  <2>1. UNCHANGED <<flags, io, api>> /\ (UNCHANGED asio \/ async_connect(ready))
    BY <1>4, Zenon DEF LogicThread, do_message, reconnect_task, reconnect_test, reconnect_dial,
              timer_check, find_expired, do_check_timeout, dial
  <2>2. ReadArmed => ReadArmed'
    BY <1>1, <2>1, SocketKeepsArmed
  <2> QED
    BY <1>2, <2>1, <2>2
<1>5. CASE Calls
  <2>1. CASE client_send_data \/ client_send_format_data \/ reconnect_server
             \/ do_write_immediately \/ caller_dial
    <3>1. /\ UNCHANGED <<flags, io>>
          /\ api' \in {"flag", "close"} => api = api'
      BY <2>1 DEF client_send_data, client_send_format_data, reconnect_server,
                  do_write_immediately, caller_dial
    <3>2. UNCHANGED asio \/ async_connect(ready) \/ async_write(ready)
      BY <2>1 DEF client_send_data, client_send_format_data, reconnect_server,
                  do_write_immediately, caller_dial, dial
    <3>3. ReadArmed => ReadArmed'
      BY <1>1, <3>2, SocketKeepsArmed
    <3> QED
      BY <1>2, <3>1, <3>3
  <2>2. CASE close_client
    BY <1>1, <2>2 DEF close_client, ArmedInv, ArmedWhileConnected
  <2>3. CASE close_client_flag
    BY <1>1, <2>3 DEF close_client_flag, ArmedInv, ArmedWhileConnected
  <2>4. CASE close_client_close
    BY <1>1, <2>4 DEF close_client_close, ArmedInv, ArmedWhileConnected
  <2> QED
    BY <1>5, <2>1, <2>2, <2>3, <2>4 DEF Calls, Caller
<1>6. CASE Environment
  <2>1. UNCHANGED <<flags, io, api>>
    BY <1>6 DEF Environment, Reactor, Network, TimePasses, TimerFires
  <2>2. ReadArmed => ReadArmed'
    BY <1>1, <1>6, SocketKeepsArmed
       DEF Environment, Reactor, Network, TimePasses, TimerFires
  <2> QED
    BY <1>2, <2>1, <2>2
<1>7. CASE UNCHANGED vars
  BY <1>1, <1>7 DEF vars, asio, ArmedInv, ArmedWhileConnected, ReadArmed
<1> QED
  BY <1>3, <1>4, <1>5, <1>6, <1>7, NextCases

(* In every behaviour an open client that believes it is connected has a    *)
(* read armed whenever the io thread is between two handlers.               *)
THEOREM ArmedCorrect == Spec => []ArmedWhileConnected
<1>1. Init => ArmedInv
  BY TypeInit DEF Init, ArmedInv, ArmedWhileConnected
<1>2. ArmedInv => ArmedWhileConnected
  BY DEF ArmedInv
<1> QED
  BY <1>1, <1>2, ArmedNext, PTL DEF Spec

-----------------------------------------------------------------------------
(* A closed client that has come to rest stays at rest.                     *)

RestInv ==
    /\ ArmedInv
    /\ ~listed => is_client_close_ /\ api = "idle"

(* A client leaves the list only when it is closed, at the end of the call. *)
LEMMA RestInvNext == RestInv /\ [Next]_vars => RestInv'
<1> SUFFICES ASSUME RestInv, [Next]_vars
             PROVE  (~listed => is_client_close_ /\ api = "idle")'
  BY ArmedNext DEF RestInv
<1> USE DEF flags, client, RestInv
<1>1. CASE IoThread
  BY <1>1 DEF IoThread, connect_handler_up, connect_handler_arm, connect_handler_failed,
       do_read_data, do_read_failed, do_write_failed, link_lost, do_write_done,
       close_socket_flag, close_socket_close
<1>2. ASSUME NEW t \in Logics, LogicThread(t)
      PROVE  (~listed => is_client_close_ /\ api = "idle")'
  BY <1>2 DEF LogicThread, do_message, reconnect_task, reconnect_test, reconnect_dial,
       timer_check, find_expired, do_check_timeout
<1>3. CASE Calls
  BY <1>3 DEF Calls, Caller, Enter, client_send_data, client_send_format_data,
       reconnect_server, close_client, do_write_immediately, caller_dial,
       close_client_flag, close_client_close, ArmedInv
<1>4. CASE Environment
  BY <1>4 DEF Environment, Reactor, Network, TimePasses, TimerFires
<1>5. CASE UNCHANGED vars
  BY <1>5 DEF vars
<1> QED
  BY <1>1, <1>2, <1>3, <1>4, <1>5, NextCases

(* What a step may do to a queue of tasks without queueing a reconnect. *)
LEMMA NoReconnectQueued ==
  ASSUME TypeOK, ~ReconnectQueued,
         \A t \in Logics :
            \/ q'[t] = q[t]
            \/ \E k \in Tasks \ {"reconnect"} : q'[t] = Append(q[t], k)
            \/ q[t] # <<>> /\ q'[t] = Tail(q[t])
            \/ q[t] # <<>> /\ q'[t] = Append(Tail(q[t]), "check")
  PROVE  ~ReconnectQueued'
<1> SUFFICES ASSUME NEW t \in Logics, NEW i \in 1 .. Len(q'[t]) PROVE q'[t][i] # "reconnect"
  BY DEF ReconnectQueued
<1>1. q[t] \in Seq(Tasks) /\ \A j \in 1 .. Len(q[t]) : q[t][j] # "reconnect"
  BY DEF TypeOK, ReconnectQueued
<1>2. CASE q'[t] = q[t]
  BY <1>1, <1>2
<1>3. ASSUME NEW k \in Tasks \ {"reconnect"}, q'[t] = Append(q[t], k)
      PROVE  q'[t][i] # "reconnect"
  BY <1>1, <1>3
<1>4. CASE q[t] # <<>> /\ q'[t] = Tail(q[t])
  BY <1>1, <1>4
<1>5. CASE q[t] # <<>> /\ q'[t] = Append(Tail(q[t]), "check")
  <2>1. Tail(q[t]) \in Seq(Tasks) /\ \A j \in 1 .. Len(Tail(q[t])) : Tail(q[t])[j] # "reconnect"
    BY <1>1, <1>5
  <2> QED
    BY <1>5, <2>1
<1> QED
  BY <1>2, <1>3, <1>4, <1>5

(* The same for Post. *)
LEMMA PostNoReconnect ==
  ASSUME TypeOK, ~ReconnectQueued, NEW k \in Events, Post(k)
  PROVE  ~ReconnectQueued'
<1>1. \A t \in Logics : q'[t] = q[t] \/ q'[t] = Append(q[t], k)
  BY DEF Post, TypeOK
<1>2. k \in Tasks \ {"reconnect"}
  BY DEF Tasks, Events
<1> QED
  BY <1>1, <1>2, NoReconnectQueued

(* No step takes a closed client out of its rest. *)
LEMMA RestNext == RestInv /\ AtRest /\ [Next]_vars => AtRest'
<1> SUFFICES ASSUME RestInv, AtRest, [Next]_vars PROVE AtRest'
  OBVIOUS
<1> USE DEF flags, client
<1>1. /\ TypeOK /\ is_client_close_ /\ api = "idle" /\ ~listed
      /\ sock = "closed" /\ io \notin {"lost", "shut"} /\ ~ReconnectQueued
      /\ \A t \in Logics : lpc[t] = "idle"
  BY DEF RestInv, ArmedInv, AtRest, Dialling, TypeOK
<1>2. ASSUME UNCHANGED <<listed, sock, lpc, api>>, io' \notin {"lost", "shut"}, ~ReconnectQueued'
      PROVE  AtRest'
  BY <1>1, <1>2 DEF AtRest, Dialling
<1>3. {"connect", "disconnect", "recv"} \subseteq Events
  BY DEF Events
<1>4. CASE IoThread
  <2>1. CASE connect_handler_up
    BY <1>1, <1>2, <2>1 DEF connect_handler_up, Consume, ReconnectQueued
  <2>2. CASE connect_handler_arm
    BY <1>1, <1>2, <1>3, <2>2, PostNoReconnect DEF connect_handler_arm, async_read_some
  <2>3. CASE connect_handler_failed
    BY <1>1, <1>2, <1>3, <2>3, PostNoReconnect DEF connect_handler_failed, Consume
  <2>4. CASE do_read_data
    <3>1. ~ReconnectQueued'
      <4>1. CASE Post("recv")
        BY <1>1, <1>3, <4>1, PostNoReconnect
      <4>2. CASE UNCHANGED q
        BY <1>1, <4>2 DEF ReconnectQueued
      <4> QED
        BY <2>4, <4>1, <4>2 DEF do_read_data
    <3> QED
      BY <1>1, <1>2, <2>4, <3>1 DEF do_read_data, async_read_some
  <2>5. ASSUME NEW op, link_lost(op) PROVE AtRest'
    BY <1>1, <1>2, <1>3, <2>5, PostNoReconnect DEF link_lost, Consume
  <2>6. CASE do_write_done
    BY <1>1, <1>2, <2>6 DEF do_write_done, Consume, ReconnectQueued
  <2> QED
    BY <1>1, <1>4, <2>1, <2>2, <2>3, <2>4, <2>5, <2>6
       DEF IoThread, do_read_failed, do_write_failed, close_socket_flag, close_socket_close
<1>5. ASSUME NEW t \in Logics, LogicThread(t) PROVE AtRest'
  <2>1. CASE do_message(t)
    <3>1. \A u \in Logics : q'[u] = q[u] \/ (q[u] # <<>> /\ q'[u] = Tail(q[u]))
      BY <1>1, <2>1 DEF do_message, Idle, TypeOK
    <3>2. ~ReconnectQueued'
      BY <1>1, <3>1, NoReconnectQueued
    <3> QED
      BY <1>1, <1>2, <2>1, <3>2 DEF do_message, asio
  <2>2. CASE t = Logic0 /\ timer_check
    <3>1. \A u \in Logics :
             q'[u] = q[u] \/ (q[u] # <<>> /\ q'[u] = Append(Tail(q[u]), "check"))
      BY <1>1, <2>2 DEF timer_check, Idle, TypeOK
    <3>2. ~ReconnectQueued'
      BY <1>1, <3>1, NoReconnectQueued
    <3> QED
      BY <1>1, <1>2, <2>2, <3>2 DEF timer_check, asio
  <2>3. CASE t = Logic0 /\ find_expired
    <3>1. \A u \in Logics : q'[u] = q[u] \/ (q[u] # <<>> /\ q'[u] = Tail(q[u]))
      BY <1>1, <2>3 DEF find_expired, Idle, TypeOK
    <3>2. ~ReconnectQueued'
      BY <1>1, <3>1, NoReconnectQueued
    <3>3. UNCHANGED lpc
      BY <1>1, <2>3 DEF find_expired, Goto, TypeOK
    <3> QED
      BY <1>1, <1>2, <2>3, <3>2, <3>3 DEF find_expired, asio
  <2>4. ~reconnect_task(t)
    <3>1. q[t] # <<>> => Head(q[t]) # "reconnect"
      BY <1>1 DEF ReconnectQueued, TypeOK
    <3> QED
      BY <3>1 DEF reconnect_task, Idle
  <2>5. ~reconnect_test(t) /\ ~reconnect_dial(t) /\ ~(t = Logic0 /\ do_check_timeout)
    BY <1>1 DEF reconnect_test, reconnect_dial, do_check_timeout
  <2> QED
    BY <1>5, <2>1, <2>2, <2>3, <2>4, <2>5 DEF LogicThread
<1>6. ~Calls
  BY <1>1 DEF Calls, Caller, Enter, client_send_data, client_send_format_data,
       reconnect_server, close_client, do_write_immediately, caller_dial,
       close_client_flag, close_client_close
<1>7. CASE Environment
  <2>1. CASE Reactor
    BY <1>1, <1>2, <2>1 DEF Reactor, Handshake, ConnectReady, ReadReady, WriteReady,
         ReconnectQueued
  <2>2. CASE Network
    BY <1>1, <1>2, <2>2 DEF Network, PeerDrop, LinkUp, ReadReady, ReconnectQueued
  <2>3. CASE TimePasses
    BY <1>1, <1>2, <2>3 DEF TimePasses, asio, ReconnectQueued
  <2>4. CASE TimerFires
    <3>1. \A u \in Logics : q'[u] = q[u] \/ q'[u] = Append(q[u], "timer_check")
      BY <1>1, <2>4 DEF TimerFires, TypeOK
    <3>2. "timer_check" \in Tasks \ {"reconnect"}
      BY DEF Tasks
    <3>3. ~ReconnectQueued'
      BY <1>1, <3>1, <3>2, NoReconnectQueued
    <3> QED
      BY <1>1, <1>2, <2>4, <3>3 DEF TimerFires, asio
  <2> QED
    BY <1>7, <2>1, <2>2, <2>3, <2>4 DEF Environment
<1>8. CASE UNCHANGED vars
  BY <1>1, <1>2, <1>8 DEF vars, asio, ReconnectQueued
<1> QED
  BY <1>4, <1>5, <1>6, <1>7, <1>8, NextCases

(* Once nothing queued or under way can touch the socket of a closed        *)
(* client, nothing ever will.                                               *)
THEOREM RestCorrect == Spec => RestIsFinal
<1>1. Init => RestInv
  BY TypeInit DEF Init, RestInv, ArmedInv, ArmedWhileConnected
<1>2. Spec => []RestInv
  BY <1>1, RestInvNext, PTL DEF Spec
<1>3. RestInv /\ [Next]_vars => [AtRest => AtRest']_vars
  BY RestNext
<1> QED
  BY <1>2, <1>3, PTL DEF Spec, RestIsFinal

-----------------------------------------------------------------------------
(* Somebody still has to bring a closed socket back.                        *)

(* ReconnectOwed is not inductive: a reconnect that finds is_connect_ set   *)
(* does nothing.  But is_connect_ is set on a closed socket only when a     *)
(* late completion of connect_handler armed a read there, whose failure is  *)
(* then queued.                                                             *)
Detached == sock = "closed" /\ ~is_client_close_ /\ io = "idle"

Owed ==
    Detached => LossQueued \/ (~is_connect_ /\ (Dialling \/ ReconnectQueued))

OwedInv == ArmedInv /\ Owed

(* What has to stay true across a step that brings nothing new. *)
LEMMA OwedKept ==
  ASSUME Owed, Detached' => Detached, is_connect_' => is_connect_,
         LossQueued => LossQueued', Dialling => Dialling',
         ReconnectQueued => ReconnectQueued'
  PROVE  Owed'
  BY DEF Owed

(* A queued loss stays queued while completions are added, and when the     *)
(* completion that is taken is not a loss.                                  *)
LEMMA LossAppend ==
  ASSUME TypeOK, LossQueued,
         ready' = ready \/ \E c \in Completions : ready' = Append(ready, c)
  PROVE  LossQueued'
<1>1. PICK i \in 1 .. Len(ready) : ready[i].op \in {"read", "write"} /\ ~ready[i].ok
  BY DEF LossQueued
<1>2. ready \in Seq(Completions)
  BY DEF TypeOK, AsioTypeOK
<1>3. i \in 1 .. Len(ready') /\ ready'[i] = ready[i]
  BY <1>2
<1> QED
  BY <1>1, <1>3 DEF LossQueued

LEMMA LossConsume ==
  ASSUME TypeOK, LossQueued, Consume, NEW op, NEW ok \in BOOLEAN, Take(op, ok),
         ok \/ op = "connect"
  PROVE  LossQueued'
<1>1. PICK i \in 1 .. Len(ready) : ready[i].op \in {"read", "write"} /\ ~ready[i].ok
  BY DEF LossQueued
<1>2. ready \in Seq(Completions) /\ ready # <<>> /\ ready' = Tail(ready)
  BY DEF TypeOK, AsioTypeOK, Take, Consume
<1>3. ready[1].op = op /\ ready[1].ok = ok
  BY <1>2 DEF Take, Done
<1>4. i # 1
  BY <1>1, <1>3
<1>5. i - 1 \in 1 .. Len(ready') /\ ready'[i - 1] = ready[i]
  BY <1>2, <1>4
<1> QED
  BY <1>1, <1>5 DEF LossQueued

(* A read on a closed socket fails at once. *)
LEMMA ReadOnClosed ==
  ASSUME TypeOK, NEW rest \in Seq(Completions), async_read_some(rest), sock = "closed"
  PROVE  LossQueued'
<1>1. Done("read", FALSE) \in Completions
  BY Zenon DEF Done, Completions
<1>2. ready' = Append(rest, Done("read", FALSE))
  BY DEF async_read_some
<1>3. Len(ready') = Len(rest) + 1 /\ ready'[Len(rest) + 1] = Done("read", FALSE)
  BY <1>1, <1>2, AppendProperties, Zenon
<1>4. Len(rest) + 1 \in 1 .. Len(ready')
  BY <1>3
<1>5. Done("read", FALSE).op \in {"read", "write"} /\ ~Done("read", FALSE).ok
  BY DEF Done
<1> QED
  BY <1>3, <1>4, <1>5 DEF LossQueued

(* A queued reconnect stays queued while tasks are added, and when the task *)
(* that is taken is another one.                                            *)
LEMMA QueuedKept ==
  ASSUME TypeOK, ReconnectQueued,
         \A t \in Logics :
            \/ q'[t] = q[t]
            \/ \E k \in Tasks : q'[t] = Append(q[t], k)
            \/ /\ q[t] # <<>> /\ Head(q[t]) # "reconnect"
               /\ q'[t] = Tail(q[t]) \/ \E k \in Tasks : q'[t] = Append(Tail(q[t]), k)
  PROVE  ReconnectQueued'
<1>1. PICK t \in Logics : \E i \in 1 .. Len(q[t]) : q[t][i] = "reconnect"
  BY DEF ReconnectQueued
<1>2. PICK i \in 1 .. Len(q[t]) : q[t][i] = "reconnect"
  BY <1>1
<1>3. q[t] \in Seq(Tasks)
  BY DEF TypeOK
<1>4. CASE q'[t] = q[t] \/ \E k \in Tasks : q'[t] = Append(q[t], k)
  <2>1. i \in 1 .. Len(q'[t]) /\ q'[t][i] = "reconnect"
    BY <1>2, <1>3, <1>4
  <2> QED
    BY <2>1 DEF ReconnectQueued
<1>5. CASE /\ q[t] # <<>> /\ Head(q[t]) # "reconnect"
           /\ q'[t] = Tail(q[t]) \/ \E k \in Tasks : q'[t] = Append(Tail(q[t]), k)
  <2>1. /\ Tail(q[t]) \in Seq(Tasks)
        /\ i - 1 \in 1 .. Len(Tail(q[t]))
        /\ Tail(q[t])[i - 1] = "reconnect"
    BY <1>2, <1>3, <1>5
  <2>2. i - 1 \in 1 .. Len(q'[t]) /\ q'[t][i - 1] = "reconnect"
    <3>1. ASSUME NEW k \in Tasks, q'[t] = Append(Tail(q[t]), k)
          PROVE  i - 1 \in 1 .. Len(q'[t]) /\ q'[t][i - 1] = "reconnect"
      <4> DEFINE s == Tail(q[t])
      <4> HIDE DEF s
      <4>1. s \in Seq(Tasks) /\ i - 1 \in 1 .. Len(s) /\ s[i - 1] = "reconnect"
        BY <2>1 DEF s
      <4>2. q'[t] = Append(s, k)
        BY <3>1 DEF s
      <4> QED
        BY <4>1, <4>2
    <3> QED
      BY <1>5, <2>1, <3>1
  <2> QED
    BY <2>2 DEF ReconnectQueued
<1> QED
  BY <1>4, <1>5

LEMMA QueuedPost ==
  ASSUME TypeOK, NEW task \in Tasks, Post(task)
  PROVE  /\ ReconnectQueued => ReconnectQueued'
         /\ task = "reconnect" => ReconnectQueued'
<1>1. \A t \in Logics : q'[t] = q[t] \/ q'[t] = Append(q[t], task)
  BY DEF Post, TypeOK
<1>2. /\ Home \in Logics /\ q[Home] \in Seq(Tasks)
      /\ q'[Home] = Append(q[Home], task)
  BY DEF Post, TypeOK, Logics
<1>3. Len(q[Home]) + 1 \in 1 .. Len(q'[Home]) /\ q'[Home][Len(q[Home]) + 1] = task
  BY <1>2
<1> QED
  BY <1>1, <1>2, <1>3, QueuedKept DEF ReconnectQueued

(* What the calls and the reactor may do to the completions and the socket. *)
LEMMA SocketCalls ==
  ASSUME TypeOK,
         \/ async_connect(ready) \/ async_write(ready) \/ Handshake \/ PeerDrop
         \/ ConnectReady \/ WriteReady \/ \E ok \in BOOLEAN : ReadReady(ok)
  PROVE  /\ ready' = ready \/ \E c \in Completions : ready' = Append(ready, c)
         /\ sock' = "closed" => sock = "closed"
         /\ async_connect(ready) => sock' # "closed"
<1>1. ASSUME NEW op \in {"connect", "read", "write"}, NEW ok \in BOOLEAN
      PROVE  Done(op, ok) \in Completions
  BY Zenon DEF Done, Completions
<1>2. \/ ready' = ready
      \/ \E op \in {"connect", "read", "write"}, ok \in BOOLEAN :
            ready' = Append(ready, Done(op, ok))
  BY Zenon DEF async_connect, async_write, Handshake, PeerDrop, ConnectReady, WriteReady,
       ReadReady
<1>3. async_connect(ready) => sock' # "closed"
  BY DEF async_connect
<1>4. sock' = "closed" => sock = "closed"
  BY <1>3 DEF async_write, Handshake, PeerDrop, ConnectReady, WriteReady, ReadReady
<1> QED
  BY <1>1, <1>2, <1>3, <1>4

(* Every step keeps the debt, or pays it. *)
LEMMA OwedNext == OwedInv /\ [Next]_vars => Owed'
<1> SUFFICES ASSUME OwedInv, [Next]_vars PROVE Owed'
  OBVIOUS
<1>1. /\ TypeOK /\ Owed
      /\ io = "shut" => ~is_connect_
      /\ api \in {"flag", "close"} => is_client_close_
  BY DEF OwedInv, ArmedInv
<1>2. Events \cup {"reconnect", "timer_check", "check"} \subseteq Tasks
  BY DEF Tasks
<1>3. {"connect", "disconnect", "recv"} = Events
  BY DEF Events
<1> USE DEF flags, client
<1>4. CASE IoThread
  <2>1. CASE connect_handler_up
    BY <2>1 DEF connect_handler_up, Owed, Detached
  <2>2. CASE connect_handler_arm
    <3>1. sock' = sock
      BY <2>2 DEF connect_handler_arm, async_read_some
    <3>2. sock = "closed" => LossQueued'
      BY <1>1, <2>2, ReadOnClosed DEF connect_handler_arm, TypeOK, AsioTypeOK
    <3> QED
      BY <3>1, <3>2 DEF Owed, Detached
  <2>3. CASE connect_handler_failed
    <3>1. LossQueued => LossQueued'
      BY <1>1, <2>3, LossConsume DEF connect_handler_failed
    <3>2. ReconnectQueued => ReconnectQueued'
      BY <1>1, <1>2, <1>3, <2>3, QueuedPost DEF connect_handler_failed
    <3>3. UNCHANGED <<sock, is_client_close_, io, lpc, api>> /\ is_connect_' = FALSE
      BY <2>3 DEF connect_handler_failed, Consume
    <3> QED
      BY <1>1, <3>1, <3>2, <3>3, OwedKept DEF Detached, Dialling
  <2>4. CASE do_read_data
    <3>1. sock' = sock
      BY <2>4 DEF do_read_data, async_read_some
    <3>2. sock = "closed" => LossQueued'
      BY <1>1, <2>4, ReadOnClosed, TakeType DEF do_read_data, Take, TypeOK
    <3> QED
      BY <3>1, <3>2 DEF Owed, Detached
  <2>5. ASSUME NEW op, link_lost(op) PROVE Owed'
    BY <2>5 DEF link_lost, Owed, Detached
  <2>6. CASE do_write_done
    <3>1. LossQueued => LossQueued'
      BY <1>1, <2>6, LossConsume DEF do_write_done
    <3>2. UNCHANGED <<sock, flags, io, lpc, api, q>>
      BY <2>6 DEF do_write_done, Consume
    <3> QED
      BY <1>1, <3>1, <3>2, OwedKept DEF Detached, Dialling, ReconnectQueued
  <2>7. CASE close_socket_flag
    BY <2>7 DEF close_socket_flag, Owed, Detached
  <2>8. CASE close_socket_close
    <3>1. ReconnectQueued'
      BY <1>1, <1>2, <2>8, QueuedPost DEF close_socket_close
    <3> QED
      BY <1>1, <2>8, <3>1 DEF close_socket_close, Owed
  <2> QED
    BY <1>4, <2>1, <2>2, <2>3, <2>4, <2>5, <2>6, <2>7, <2>8
       DEF IoThread, do_read_failed, do_write_failed
<1>5. ASSUME NEW t \in Logics, LogicThread(t) PROVE Owed'
  <2>1. ASSUME UNCHANGED <<asio, flags, io>>, Dialling => Dialling',
               ReconnectQueued => ReconnectQueued'
        PROVE  Owed'
    BY <1>1, <2>1, OwedKept DEF asio, Detached, LossQueued
  <2>2. CASE do_message(t)
    <3>1. \A u \in Logics :
             \/ q'[u] = q[u]
             \/ q[u] # <<>> /\ Head(q[u]) # "reconnect" /\ q'[u] = Tail(q[u])
      BY <1>1, <2>2 DEF do_message, Idle, TypeOK, Events
    <3>2. ReconnectQueued => ReconnectQueued'
      BY <1>1, <3>1, QueuedKept
    <3> QED
      BY <2>1, <2>2, <3>2 DEF do_message, Dialling
  <2>3. CASE reconnect_task(t)
    <3>1. lpc'[t] = "reconnect"
      BY <1>1, <2>3 DEF reconnect_task, Goto, TypeOK
    <3>2. Dialling' /\ UNCHANGED <<asio, flags, io>>
      BY <2>3, <3>1 DEF reconnect_task, Dialling
    <3> QED
      BY <1>1, <3>2 DEF Owed, asio, Detached, LossQueued
  <2>4. CASE reconnect_test(t)
    <3>1. UNCHANGED <<asio, flags, io, api, q>>
      BY <2>4 DEF reconnect_test
    <3>2. CASE is_connect_
      BY <1>1, <3>1, <3>2 DEF Owed, asio, Detached, LossQueued
    <3>3. CASE ~is_connect_
      <4>1. lpc'[t] = "dial"
        BY <1>1, <2>4, <3>3 DEF reconnect_test, Goto, TypeOK
      <4> QED
        BY <3>1, <3>3, <4>1 DEF Owed, Dialling
    <3> QED
      BY <3>2, <3>3
  <2>5. CASE reconnect_dial(t)
    BY <1>1, <2>5, SocketCalls DEF reconnect_dial, dial, Owed, Detached
  <2>6. CASE t = Logic0 /\ timer_check
    <3>1. \A u \in Logics :
             \/ q'[u] = q[u]
             \/ /\ q[u] # <<>> /\ Head(q[u]) # "reconnect"
                /\ q'[u] = Append(Tail(q[u]), "check")
      BY <1>1, <2>6 DEF timer_check, Idle, TypeOK
    <3>2. ReconnectQueued => ReconnectQueued'
      BY <1>1, <1>2, <3>1, QueuedKept
    <3> QED
      BY <2>1, <2>6, <3>2 DEF timer_check, Dialling
  <2>7. CASE t = Logic0 /\ find_expired
    <3>1. \A u \in Logics :
             \/ q'[u] = q[u]
             \/ q[u] # <<>> /\ Head(q[u]) # "reconnect" /\ q'[u] = Tail(q[u])
      BY <1>1, <2>7 DEF find_expired, Idle, TypeOK
    <3>2. ReconnectQueued => ReconnectQueued'
      BY <1>1, <3>1, QueuedKept
    <3>3. Dialling => Dialling'
      BY <1>1, <2>7 DEF find_expired, Idle, Goto, Dialling, TypeOK
    <3> QED
      BY <2>1, <2>7, <3>2, <3>3 DEF find_expired
  <2>8. CASE t = Logic0 /\ do_check_timeout
    <3>1. Dialling => Dialling'
      BY <1>1, <2>8 DEF do_check_timeout, Goto, Dialling, TypeOK
    <3> QED
      BY <2>1, <2>8, <3>1 DEF do_check_timeout, ReconnectQueued
  <2> QED
    BY <1>5, <2>2, <2>3, <2>4, <2>5, <2>6, <2>7, <2>8 DEF LogicThread
<1>6. CASE Calls
  <2>1. CASE client_send_data \/ do_write_immediately
    <3>1. async_write(ready) /\ UNCHANGED <<flags, io, lpc, q>>
      BY <2>1 DEF client_send_data, do_write_immediately
    <3>2. api = "dial" => api' = "dial"
      BY <2>1 DEF client_send_data, do_write_immediately
    <3>3. (LossQueued => LossQueued') /\ (Detached' => Detached)
      BY <1>1, <3>1, SocketCalls, LossAppend DEF Detached
    <3> QED
      BY <1>1, <3>1, <3>2, <3>3, OwedKept DEF Dialling, ReconnectQueued
  <2>2. CASE client_send_format_data
    <3>1. UNCHANGED <<asio, flags, io, lpc>> /\ (api = "dial" => api' = "dial")
      BY <2>2 DEF client_send_format_data, Enter
    <3>2. ReconnectQueued => ReconnectQueued'
      BY <1>1, <1>2, <1>3, <2>2, QueuedPost DEF client_send_format_data, ReconnectQueued
    <3> QED
      BY <1>1, <3>1, <3>2, OwedKept DEF asio, Detached, LossQueued, Dialling
  <2>3. CASE reconnect_server
    BY <1>1, <2>3, OwedKept
       DEF reconnect_server, Enter, asio, Detached, LossQueued, Dialling, ReconnectQueued
  <2>4. CASE caller_dial
    BY <1>1, <2>4, SocketCalls DEF caller_dial, dial, Owed, Detached
  <2>5. CASE close_client \/ close_client_flag \/ close_client_close
    BY <1>1, <2>5 DEF close_client, close_client_flag, close_client_close, Owed, Detached
  <2> QED
    BY <1>6, <2>1, <2>2, <2>3, <2>4, <2>5 DEF Calls, Caller
<1>7. CASE Environment
  <2>1. CASE Reactor \/ Network
    <3>1. UNCHANGED <<flags, io, lpc, api, q>>
      BY <2>1 DEF Reactor, Network
    <3>2. (LossQueued => LossQueued') /\ (sock' = "closed" => sock = "closed")
      BY <1>1, <2>1, SocketCalls, LossAppend DEF Reactor, Network
    <3> QED
      BY <1>1, <3>1, <3>2, OwedKept DEF Detached, Dialling, ReconnectQueued
  <2>2. CASE TimePasses
    BY <1>1, <2>2, OwedKept
       DEF TimePasses, asio, Detached, LossQueued, Dialling, ReconnectQueued
  <2>3. CASE TimerFires
    <3>1. \A u \in Logics : q'[u] = q[u] \/ q'[u] = Append(q[u], "timer_check")
      BY <1>1, <2>3 DEF TimerFires, TypeOK
    <3>2. ReconnectQueued => ReconnectQueued'
      BY <1>1, <1>2, <3>1, QueuedKept
    <3> QED
      BY <1>1, <2>3, <3>2, OwedKept DEF TimerFires, asio, Detached, LossQueued, Dialling
  <2> QED
    BY <1>7, <2>1, <2>2, <2>3 DEF Environment
<1>8. CASE UNCHANGED vars
  BY <1>1, <1>8, OwedKept DEF vars, asio, Detached, LossQueued, Dialling, ReconnectQueued
<1> QED
  BY <1>4, <1>5, <1>6, <1>7, <1>8, NextCases

(* In every behaviour, when the socket of an open client is closed and the  *)
(* io thread is between two handlers, a reconnect is under way or posted,   *)
(* or the failure that will post one is queued: no interleaving of late     *)
(* completions, timer checks and users' calls loses the automatic reconnect. *)
THEOREM OwedCorrect == Spec => []ReconnectOwed
<1>1. Init => OwedInv
  BY TypeInit DEF Init, OwedInv, ArmedInv, ArmedWhileConnected, Owed, Dialling
<1>2. OwedInv /\ [Next]_vars => OwedInv'
  BY ArmedNext, OwedNext DEF OwedInv
<1>3. OwedInv => ReconnectOwed
  BY DEF OwedInv, Owed, Detached, ReconnectOwed
<1> QED
  BY <1>1, <1>2, <1>3, PTL DEF Spec

-----------------------------------------------------------------------------
(* do_message sees the connect event before any data.                       *)

(* A read is armed only after connect_handler has posted the connect event, *)
(* and only the client's own thread is given data.                          *)
ConnectSent ==
    greeted \/ \E i \in 1 .. Len(q[Home]) : q[Home][i] = "connect"

DataAtHome ==
    \A t \in Logics \ {Home} : \A i \in 1 .. Len(q[t]) : q[t][i] # "recv"

GreetInv ==
    /\ TypeOK
    /\ DataAfterConnect
    /\ DataAtHome
    /\ ReadArmed => ConnectSent

(* A step posts to the queues or takes from one; what it posts, other than  *)
(* data of an announced connection, is not data.                            *)
QueueStep(t) ==
    \/ q'[t] = q[t]
    \/ \E k \in Tasks \ {"recv"} : q'[t] = Append(q[t], k)
    \/ t = Home /\ ConnectSent /\ q'[t] = Append(q[t], "recv")
    \/ /\ q[t] # <<>>
       /\ Head(q[t]) = "connect" => greeted'
       /\ q'[t] = Tail(q[t]) \/ q'[t] = Append(Tail(q[t]), "check")

(* The data in s comes after a connect event, in s or, if g, before it. *)
Ordered(s, g) ==
    \A i \in 1 .. Len(s) : s[i] = "recv" => g \/ \E j \in 1 .. i - 1 : s[j] = "connect"

(* Adding a task keeps the data of a queue behind its connect event. *)
LEMMA OrderAppend ==
  ASSUME NEW s \in Seq(Tasks), NEW k \in Tasks, NEW g \in BOOLEAN, Ordered(s, g),
         k = "recv" => g \/ \E j \in 1 .. Len(s) : s[j] = "connect"
  PROVE  Ordered(Append(s, k), g)
<1> DEFINE r == Append(s, k)
<1>1. /\ Len(s) \in Nat /\ Len(r) = Len(s) + 1
      /\ r[Len(s) + 1] = k
      /\ \A i \in 1 .. Len(s) : r[i] = s[i]
  OBVIOUS
<1> HIDE DEF r
<1> SUFFICES ASSUME NEW i \in 1 .. Len(r), r[i] = "recv", ~g
             PROVE  \E j \in 1 .. i - 1 : r[j] = "connect"
  BY DEF r, Ordered
<1>2. CASE i = Len(s) + 1
  <2>1. PICK j \in 1 .. Len(s) : s[j] = "connect"
    BY <1>1, <1>2
  <2> QED
    BY <1>1, <1>2, <2>1
<1>3. CASE i \in 1 .. Len(s)
  <2>1. PICK j \in 1 .. i - 1 : s[j] = "connect"
    BY <1>1, <1>3 DEF Ordered
  <2>2. j \in 1 .. Len(s)
    BY <1>1, <1>3
  <2> QED
    BY <1>1, <2>1, <2>2
<1> QED
  BY <1>1, <1>2, <1>3

(* So does taking the front task, when a connect event that is taken counts. *)
LEMMA OrderTail ==
  ASSUME NEW s \in Seq(Tasks), NEW g \in BOOLEAN, s # <<>>, Head(s) # "connect" \/ g,
         Ordered(s, g)
  PROVE  Ordered(Tail(s), g)
<1> DEFINE r == Tail(s)
<1>1. /\ Len(s) \in Nat /\ Len(r) = Len(s) - 1
      /\ Head(s) = s[1]
      /\ \A i \in 1 .. Len(r) : r[i] = s[i + 1]
  OBVIOUS
<1> HIDE DEF r
<1> SUFFICES ASSUME NEW i \in 1 .. Len(r), r[i] = "recv", ~g
             PROVE  \E j \in 1 .. i - 1 : r[j] = "connect"
  BY DEF r, Ordered
<1>2. s[i + 1] = "recv" /\ i + 1 \in 1 .. Len(s)
  BY <1>1
<1>3. PICK j \in 1 .. (i + 1) - 1 : s[j] = "connect"
  BY <1>2 DEF Ordered
<1>4. j # 1
  BY <1>1, <1>3
<1>5. j - 1 \in 1 .. i - 1 /\ r[j - 1] = "connect"
  BY <1>1, <1>3, <1>4
<1> QED
  BY <1>5

(* The queues stay in order, and an announced connection stays announced. *)
LEMMA QueuesOrdered ==
  ASSUME GreetInv, TypeOK', greeted => greeted', \A t \in Logics : QueueStep(t)
  PROVE  /\ DataAfterConnect' /\ DataAtHome'
         /\ ConnectSent => ConnectSent'
<1>1. /\ \A t \in Logics : q[t] \in Seq(Tasks)
      /\ Home \in Logics /\ "check" \in Tasks
      /\ greeted \in BOOLEAN /\ greeted' \in BOOLEAN
  BY DEF GreetInv, TypeOK, Logics, Tasks
<1>2. ASSUME NEW t \in Logics PROVE Ordered(q'[t], greeted')
  <2>1. Ordered(q[t], greeted')
    BY DEF GreetInv, DataAfterConnect, Ordered
  <2>2. CASE q'[t] = q[t]
    BY <2>1, <2>2
  <2>3. ASSUME NEW k \in Tasks \ {"recv"}, q'[t] = Append(q[t], k)
        PROVE  Ordered(q'[t], greeted')
    BY <1>1, <2>1, <2>3, OrderAppend
  <2>4. CASE t = Home /\ ConnectSent /\ q'[t] = Append(q[t], "recv")
    <3>1. "recv" \in Tasks
      BY DEF Tasks, Events
    <3>2. greeted' \/ \E j \in 1 .. Len(q[t]) : q[t][j] = "connect"
      BY <2>4 DEF ConnectSent
    <3> QED
      BY <1>1, <2>1, <2>4, <3>1, <3>2, OrderAppend
  <2>5. CASE /\ q[t] # <<>>
             /\ Head(q[t]) = "connect" => greeted'
             /\ q'[t] = Tail(q[t]) \/ q'[t] = Append(Tail(q[t]), "check")
    <3> DEFINE r == Tail(q[t])
    <3>1. Ordered(r, greeted')
      BY <1>1, <2>1, <2>5, OrderTail
    <3>2. r \in Seq(Tasks)
      BY <1>1, <2>5
    <3> HIDE DEF r
    <3>3. CASE q'[t] = r
      BY <3>1, <3>3
    <3>4. CASE q'[t] = Append(r, "check")
      <4>1. "check" # "recv"
        OBVIOUS
      <4> QED
        BY <1>1, <3>1, <3>2, <3>4, <4>1, OrderAppend
    <3> QED
      BY <2>5, <3>3, <3>4 DEF r
  <2> QED
    BY <2>2, <2>3, <2>4, <2>5 DEF QueueStep
<1>3. ASSUME NEW t \in Logics \ {Home}, NEW i \in 1 .. Len(q'[t]) PROVE q'[t][i] # "recv"
  <2>1. q[t] \in Seq(Tasks) /\ \A j \in 1 .. Len(q[t]) : q[t][j] # "recv"
    BY <1>1 DEF GreetInv, DataAtHome
  <2>2. CASE q'[t] = q[t]
    BY <2>1, <2>2
  <2>3. ASSUME NEW k \in Tasks \ {"recv"}, q'[t] = Append(q[t], k)
        PROVE  q'[t][i] # "recv"
    BY <2>1, <2>3
  <2>4. CASE /\ q[t] # <<>>
             /\ q'[t] = Tail(q[t]) \/ q'[t] = Append(Tail(q[t]), "check")
    <3> DEFINE r == Tail(q[t])
    <3>1. r \in Seq(Tasks) /\ \A j \in 1 .. Len(r) : r[j] # "recv"
      BY <2>1, <2>4
    <3> HIDE DEF r
    <3>2. q'[t] = r \/ q'[t] = Append(r, "check")
      BY <2>4 DEF r
    <3> QED
      BY <1>1, <3>1, <3>2, SMTT(30)
  <2> QED
    BY <2>2, <2>3, <2>4 DEF QueueStep
<1>4. ASSUME ConnectSent, ~greeted' PROVE ConnectSent'
  <2>1. PICK i \in 1 .. Len(q[Home]) : q[Home][i] = "connect"
    BY <1>4 DEF ConnectSent
  <2>2. CASE q'[Home] = q[Home]
    BY <2>1, <2>2 DEF ConnectSent
  <2>3. ASSUME NEW k \in Tasks, q'[Home] = Append(q[Home], k) PROVE ConnectSent'
    <3>1. i \in 1 .. Len(q'[Home]) /\ q'[Home][i] = "connect"
      BY <1>1, <2>1, <2>3
    <3> QED
      BY <3>1 DEF ConnectSent
  <2>4. CASE /\ q[Home] # <<>>
             /\ Head(q[Home]) = "connect" => greeted'
             /\ q'[Home] = Tail(q[Home]) \/ q'[Home] = Append(Tail(q[Home]), "check")
    <3> DEFINE r == Tail(q[Home])
    <3>1. r \in Seq(Tasks) /\ i - 1 \in 1 .. Len(r) /\ r[i - 1] = "connect"
      BY <1>1, <1>4, <2>1, <2>4
    <3> HIDE DEF r
    <3>2. q'[Home] = r \/ q'[Home] = Append(r, "check")
      BY <2>4 DEF r
    <3>3. i - 1 \in 1 .. Len(q'[Home]) /\ q'[Home][i - 1] = "connect"
      BY <1>1, <3>1, <3>2
    <3> QED
      BY <3>3 DEF ConnectSent
  <2>5. "recv" \in Tasks
    BY DEF Tasks, Events
  <2> QED
    BY <1>1, <2>2, <2>3, <2>4, <2>5 DEF QueueStep
<1> QED
  BY <1>2, <1>3, <1>4 DEF DataAfterConnect, DataAtHome, ConnectSent, Ordered

(* No read is armed but by do_read(): neither the reactor, nor the other    *)
(* calls, nor the io thread when it takes a completion, brings one.         *)
LEMMA ArmedBefore ==
  ASSUME TypeOK, ReadArmed',
         \/ async_connect(ready) \/ async_write(ready) \/ Handshake \/ PeerDrop
         \/ ConnectReady \/ WriteReady \/ (\E ok \in BOOLEAN : ReadReady(ok))
         \/ UNCHANGED asio \/ (ready # <<>> /\ Consume)
  PROVE  ReadArmed
<1>1. ready \in Seq(Completions) /\ reads \in Nat
  BY DEF TypeOK, AsioTypeOK
<1>2. ASSUME NEW op \in {"connect", "read", "write"}, NEW ok \in BOOLEAN
      PROVE  Done(op, ok) \in Completions /\ Done(op, ok).op = op
  BY Zenon DEF Done, Completions
<1>3. CASE UNCHANGED <<ready, reads>>
  BY <1>3 DEF ReadArmed
<1>4. ASSUME NEW c \in Completions, c.op # "read", ready' = Append(ready, c), reads' = reads
      PROVE  ReadArmed
  <2>1. CASE reads > 0
    BY <2>1 DEF ReadArmed
  <2>2. ASSUME NEW i \in 1 .. Len(ready'), ready'[i].op = "read" PROVE ReadArmed
    <3>1. Len(ready') = Len(ready) + 1 /\ ready'[Len(ready) + 1] = c
      BY <1>1, <1>4, AppendProperties, Zenon
    <3>2. i # Len(ready) + 1
      BY <1>4, <2>2, <3>1
    <3>3. i \in 1 .. Len(ready) /\ ready'[i] = ready[i]
      BY <1>1, <1>4, <3>1, <3>2
    <3> QED
      BY <2>2, <3>3 DEF ReadArmed
  <2> QED
    BY <1>4, <2>1, <2>2 DEF ReadArmed
<1>5. CASE ready # <<>> /\ Consume
  <2>1. CASE reads > 0
    BY <2>1 DEF ReadArmed
  <2>2. ASSUME NEW i \in 1 .. Len(ready'), ready'[i].op = "read" PROVE ReadArmed
    <3>1. i + 1 \in 1 .. Len(ready) /\ ready'[i] = ready[i + 1]
      BY <1>1, <1>5, <2>2 DEF Consume
    <3> QED
      BY <2>2, <3>1 DEF ReadArmed
  <2> QED
    BY <1>5, <2>1, <2>2 DEF Consume, ReadArmed
<1>6. CASE \E ok \in BOOLEAN : ReadReady(ok)
  BY <1>6 DEF ReadReady, ReadArmed
<1>7. CASE async_connect(ready) \/ ConnectReady
  <2>1. /\ reads' = reads
        /\ ready' = ready \/ \E ok \in BOOLEAN : ready' = Append(ready, Done("connect", ok))
    BY <1>7, Zenon DEF async_connect, ConnectReady
  <2> QED
    BY <1>2, <1>3, <1>4, <2>1
<1>8. CASE async_write(ready) \/ WriteReady
  <2>1. /\ reads' = reads
        /\ ready' = ready \/ \E ok \in BOOLEAN : ready' = Append(ready, Done("write", ok))
    BY <1>8, Zenon DEF async_write, WriteReady
  <2> QED
    BY <1>2, <1>3, <1>4, <2>1
<1> QED
  BY <1>3, <1>5, <1>6, <1>7, <1>8 DEF Handshake, PeerDrop, asio

(* close() completes the reads that were armed, and arms none. *)
LEMMA ArmedBeforeClose ==
  ASSUME TypeOK, close(ready), ReadArmed'
  PROVE  ReadArmed
<1> SUFFICES ASSUME reads = 0 PROVE ReadArmed
  BY DEF ReadArmed, TypeOK, AsioTypeOK
<1> DEFINE NoRead(s) == \A i \in 1 .. Len(s) : s[i].op # "read"
           R == Aborted("read", reads)
           C == Aborted("connect", connects)
           W == Aborted("write", writes)
<1>1. /\ ready \in Seq(Completions)
      /\ R \in Seq(Completions) /\ C \in Seq(Completions) /\ W \in Seq(Completions)
  BY DEF TypeOK, AsioTypeOK, Aborted, Done, Completions
<1>2. NoRead(R) /\ NoRead(C) /\ NoRead(W)
  BY DEF Aborted, Done, TypeOK, AsioTypeOK
<1>3. ASSUME NEW s \in Seq(Completions), NEW r \in Seq(Completions), NoRead(s), NoRead(r)
      PROVE  NoRead(s \o r) /\ s \o r \in Seq(Completions)
  BY <1>3
<1>4. ~NoRead(ready') /\ ready' = ((ready \o R) \o C) \o W
  BY DEF close, ReadArmed
<1> HIDE DEF NoRead, R, C, W
<1>5. ~NoRead(ready)
  BY <1>1, <1>2, <1>3, <1>4
<1> QED
  BY <1>5 DEF ReadArmed, NoRead

(* Every step keeps the greeting invariant. *)
LEMMA GreetNext == GreetInv /\ [Next]_vars => GreetInv'
<1> SUFFICES ASSUME GreetInv, [Next]_vars PROVE GreetInv'
  OBVIOUS
<1>1. /\ TypeOK /\ TypeOK'
      /\ ReadArmed => ConnectSent
      /\ \A t \in Logics : q[t] \in Seq(Tasks)
      /\ Home \in Logics /\ Logic0 \in Logics
      /\ DOMAIN q = Logics
  BY TypeNext DEF GreetInv, TypeOK, Logics
<1>2. {"connect", "disconnect", "reconnect", "timer_check"} \subseteq Tasks \ {"recv"}
  BY DEF Tasks, Events
<1>3. ASSUME \A t \in Logics : QueueStep(t), greeted => greeted', ReadArmed' => ReadArmed
      PROVE  GreetInv'
  BY <1>1, <1>3, QueuesOrdered DEF GreetInv
<1>4. ASSUME NEW k \in Tasks \ {"recv"}, Post(k) PROVE \A t \in Logics : QueueStep(t)
  BY <1>1, <1>4 DEF Post, QueueStep
<1>5. ASSUME UNCHANGED q PROVE \A t \in Logics : QueueStep(t)
  BY <1>5 DEF QueueStep
<1> USE DEF flags, client
<1>6. CASE IoThread
  <2>1. CASE connect_handler_up \/ do_write_done
    <3>1. ready # <<>> /\ Consume /\ UNCHANGED <<q, greeted>>
      BY <2>1 DEF connect_handler_up, do_write_done, Take
    <3> QED
      BY <1>1, <1>3, <1>5, <3>1, ArmedBefore
  <2>2. CASE connect_handler_arm
    <3>1. Post("connect") /\ UNCHANGED greeted
      BY <2>2 DEF connect_handler_arm
    <3>2. DataAfterConnect' /\ DataAtHome'
      BY <1>1, <1>2, <1>4, <3>1, QueuesOrdered
    <3>3. q'[Home] = Append(q[Home], "connect")
      BY <1>1, <3>1 DEF Post
    <3>4. Len(q[Home]) + 1 \in 1 .. Len(q'[Home]) /\ q'[Home][Len(q[Home]) + 1] = "connect"
      BY <1>1, <3>3
    <3> QED
      BY <1>1, <3>2, <3>4 DEF GreetInv, ConnectSent
  <2>3. CASE connect_handler_failed
    <3>1. ready # <<>> /\ Consume /\ Post("disconnect") /\ UNCHANGED greeted
      BY <2>3 DEF connect_handler_failed, Take
    <3> QED
      BY <1>1, <1>2, <1>3, <1>4, <3>1, ArmedBefore
  <2>4. CASE do_read_data
    <3>1. ReadArmed
      <4>1. ready \in Seq(Completions) /\ ready # <<>> /\ ready[1].op = "read"
        BY <1>1, <2>4 DEF do_read_data, Take, Done, TypeOK, AsioTypeOK
      <4> QED
        BY <4>1 DEF ReadArmed
    <3>2. \A t \in Logics : QueueStep(t)
      <4>1. CASE Post("recv")
        BY <1>1, <3>1, <4>1 DEF Post, QueueStep
      <4> QED
        BY <1>5, <2>4, <4>1 DEF do_read_data
    <3> QED
      BY <1>3, <2>4, <3>1, <3>2 DEF do_read_data
  <2>5. ASSUME NEW op, link_lost(op) PROVE GreetInv'
    <3>1. ready # <<>> /\ Consume /\ Post("disconnect") /\ UNCHANGED greeted
      BY <2>5 DEF link_lost, Take
    <3> QED
      BY <1>1, <1>2, <1>3, <1>4, <3>1, ArmedBefore
  <2>6. CASE close_socket_flag
    BY <1>1, <1>3, <1>5, <2>6, ArmedBefore DEF close_socket_flag
  <2>7. CASE close_socket_close
    BY <1>1, <1>2, <1>3, <1>4, <2>7, ArmedBeforeClose DEF close_socket_close
  <2> QED
    BY <1>6, <2>1, <2>2, <2>3, <2>4, <2>5, <2>6, <2>7
       DEF IoThread, do_read_failed, do_write_failed
<1>7. ASSUME NEW t \in Logics, LogicThread(t) PROVE GreetInv'
  <2>1. UNCHANGED asio \/ async_connect(ready)
    BY <1>7, Zenon DEF LogicThread, do_message, reconnect_task, reconnect_test,
              reconnect_dial, timer_check, find_expired, do_check_timeout, dial
  <2>2. ReadArmed' => ReadArmed
    BY <1>1, <2>1, ArmedBefore
  <2>3. CASE do_message(t)
    <3>1. /\ q[t] # <<>>
          /\ Head(q[t]) = "connect" => greeted'
          /\ greeted => greeted'
      BY <2>3 DEF do_message, Idle
    <3>2. q' = [q EXCEPT ![t] = Tail(@)]
      BY <2>3 DEF do_message
    <3>3. \A u \in Logics : QueueStep(u)
      BY <1>1, <3>1, <3>2 DEF QueueStep
    <3> QED
      BY <1>3, <2>2, <3>1, <3>3
  <2>4. CASE reconnect_task(t) \/ (t = Logic0 /\ find_expired)
    <3>1. /\ q[t] # <<>> /\ Head(q[t]) # "connect" /\ q' = [q EXCEPT ![t] = Tail(@)]
          /\ UNCHANGED greeted
      BY <2>4 DEF reconnect_task, find_expired, Idle
    <3>2. \A u \in Logics : QueueStep(u)
      BY <1>1, <3>1 DEF QueueStep
    <3> QED
      BY <1>3, <2>2, <3>1, <3>2
  <2>5. CASE t = Logic0 /\ timer_check
    <3>1. /\ q[t] # <<>> /\ Head(q[t]) # "connect"
          /\ q' = [q EXCEPT ![t] = Append(Tail(@), "check")]
          /\ UNCHANGED greeted
      BY <2>5 DEF timer_check, Idle
    <3>2. \A u \in Logics : QueueStep(u)
      BY <1>1, <3>1 DEF QueueStep
    <3> QED
      BY <1>3, <2>2, <3>1, <3>2
  <2>6. CASE reconnect_test(t) \/ reconnect_dial(t) \/ (t = Logic0 /\ do_check_timeout)
    BY <1>3, <1>5, <2>2, <2>6 DEF reconnect_test, reconnect_dial, do_check_timeout
  <2> QED
    BY <1>7, <2>3, <2>4, <2>5, <2>6 DEF LogicThread
<1>8. CASE Calls
  <2>1. CASE client_send_format_data
    <3>1. \A t \in Logics : QueueStep(t)
      BY <1>2, <1>4, <1>5, <2>1 DEF client_send_format_data
    <3> QED
      BY <1>1, <1>3, <2>1, <3>1, ArmedBefore DEF client_send_format_data
  <2>2. CASE close_client_close
    BY <1>1, <1>3, <1>5, <2>2, ArmedBeforeClose DEF close_client_close
  <2>3. CASE client_send_data \/ reconnect_server \/ close_client \/ do_write_immediately
             \/ caller_dial \/ close_client_flag
    <3>1. /\ UNCHANGED <<q, greeted>>
          /\ UNCHANGED asio \/ async_connect(ready) \/ async_write(ready)
      BY <2>3 DEF client_send_data, reconnect_server, close_client, do_write_immediately,
                  caller_dial, close_client_flag, dial
    <3> QED
      BY <1>1, <1>3, <1>5, <3>1, ArmedBefore
  <2> QED
    BY <1>8, <2>1, <2>2, <2>3 DEF Calls, Caller
<1>9. CASE Environment
  <2>1. UNCHANGED greeted /\ (ReadArmed' => ReadArmed)
    BY <1>1, <1>9, ArmedBefore DEF Environment, Reactor, Network, TimePasses, TimerFires
  <2>2. \A t \in Logics : QueueStep(t)
    <3>1. CASE TimerFires
      BY <1>1, <1>2, <3>1 DEF TimerFires, QueueStep
    <3> QED
      BY <1>5, <1>9, <3>1 DEF Environment, Reactor, Network, TimePasses
  <2> QED
    BY <1>3, <2>1, <2>2
<1>10. CASE UNCHANGED vars
  BY <1>1, <1>3, <1>5, <1>10, ArmedBefore DEF vars
<1> QED
  BY <1>6, <1>7, <1>8, <1>9, <1>10, NextCases

(* In every behaviour, and whichever thread the client is mapped to, the    *)
(* data of a client stands behind a connect event in its queue, or a        *)
(* connect event has been given to do_message before.                       *)
THEOREM GreetCorrect == Spec => []DataAfterConnect
<1>1. Init => GreetInv
  BY TypeInit DEF Init, AsioInit, GreetInv, DataAfterConnect, DataAtHome, ReadArmed
<1>2. GreetInv => DataAfterConnect
  BY DEF GreetInv
<1> QED
  BY <1>1, <1>2, GreetNext, PTL DEF Spec
=============================================================================
