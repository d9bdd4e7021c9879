# Verification of PSS_Client

TLA+ models of the PSS_Client library, the TLC runs that check them and the
TLAPS proofs about them. PSS_Client keeps TCP, UDP and serial links up for its
user: it connects, reconnects, delivers data and events to the user's
`do_message` on "logic threads", and offers timers on those threads. There is
almost no arithmetic in it. What makes it hard is that one link is handled by
four kinds of threads that share a few plain `bool`s and take no common lock.

## 1. Inventory

All paths are under `src/pss_tcp_client/` unless they say otherwise.

| Part | State | Operations | What makes it correct |
|---|---|---|---|
| Logic threads: `TMS`, `CLogicTasK` (`tms.hpp`), `CMessageQueue` (`ThreadQueue.h`) | table of threads, thread count, a queue and a run flag per thread | `CreateLogic`, `AddMessage`, `CloseLogic`, `Close`, `svc` | each accepted message runs once and in order; no lost wakeup; a close returns |
| Timers: `TimerMgr`, `Timer` (`TimerManager.hpp`), `TMS` around them | priority queue, wakeup state, run flag, table of ids; per timer its times, callback and once flag | `addTimer`, `addTimer_loop`, `timer_run`, `cancel`/`Close_Timer`, `Close` | a once timer fires once, a cancelled one not at all, none early, none lost |
| TCP client: `CASIOClient` | `is_connect_`, `is_client_close_`, socket, one receive buffer, time of the last receipt | `start`, `do_read`, writes, `connect_handler`, `close_socket`, `reconnect`, `do_check_timeout` | one read per link; the link comes back; losses are reported; closed means closed |
| UDP client: `CASIOUDPClient` | the same | the same; a connect always succeeds; sends are not refused | the same |
| Serial client: `CASIOTTYClient` | port, name, `is_connect_` | `start`, `add_serial_port`, writes, `reconnect` (without a test of `is_connect_`), `close_client_socket` | a device is released with its client; failures are reported; no exception on a logic thread |
| Manager: `CClient_Manager` | client table and id counter under `thread_mutex_`, io thread, flags | start/send/close/reconnect by id, `timer_check`, `run`, `close` | ids are unique; calls find their client; unloading ends |
| C interface: `framework`, `dllmain` | none | forwards to manager and TMS | |
| Test program (`src/pss_tcp_client_test/`): packet format, ring buffer, `packet_dispose` | receive buffer, its fill, counted twice | `format_recv_buffer`, `format_send_buffer`, ring buffer writes, removal and peeks; `do_message` | the stream is cut into the packets that were sent; the buffer never fills up |
| singleton, time stamp, common types | | | |

How they interact. The *io thread* runs all completion handlers of all sockets.
A handler posts tasks to the client's logic thread (`connect_id % count`): the
user's events, and "reconnect". A *logic thread* runs its tasks in order;
reconnect tasks call `async_connect` from there. *Users* call the C interface
from any thread, a logic thread included; the manager admits one call at a time
with `thread_mutex_`. The *timer thread* posts `timer_check` to logic thread 0
every `timer_check_seconds`, which posts a second task that collects silent
clients under `thread_mutex_` and, outside it, gives each a timeout event or
reconnects it.

The hard behaviours are listed, each at its line, in `PROJECT.json` under
"hazards".

## 2. Modules

| Module | Models | Kind |
|---|---|---|
| `TaskChannel` | what a logic thread promises | abstract specification |
| `LogicPool` | `tms.hpp` without timers, `ThreadQueue.h` | component |
| `MCLogicPool` | an instance of it | for TLC |
| `LogicPool_proofs` | | proofs |
| `AsioSocket` | a TCP socket and the reactor, as the client uses them | component, of the vendored asio |
| `TcpClient` | `ASIOClient.cpp`, and of `client_manager.h` the calls on one client and the timer check | component, on top of `AsioSocket` |
| `TcpClient_proofs` | | proofs |
| `AsioDatagram` | a UDP socket and the reactor, as the client uses them | component, of the vendored asio |
| `UdpClient` | `ASIOUDPClient.cpp`, and of `client_manager.h` the same calls | component, on top of `AsioDatagram` |
| `UdpClient_proofs` | | proofs |
| `TimerMgr` | `TimerManager.hpp`, and of `tms.hpp` the delayed messages, `Close_Timer` and the end of `Close` | component |
| `MCTimerMgr` | an instance of it | for TLC |
| `TimerMgr_proofs` | | proofs |
| `TtyClient` | `ASIOTTYClient.cpp` | component, for `ClientManager` |
| `ClientManager` | `client_manager.h` behind `framework.cpp`, with `packet_dispose.cpp` as the callback | composition: manager, serial clients, logic threads, io thread |
| `ClientManager_proofs` | | proofs |
| `RingBuffer` | `ring_buffer.hpp`, the part in use | component, for `PacketFormat` |
| `ByteQueue` | what a receive buffer promises | abstract specification |
| `PacketFormat` | `packet_format.cpp` on a `RingBuffer` | component |
| `PacketFormat_proofs` | | proofs |

Definitions keep the names of the functions they model; a function that is cut
into steps gives each step its name and a suffix (`connect_handler_up`,
`connect_handler_arm`). Definitions marked "Mutant of" are single changes to the
definition after them, used to show that a property can fail.

### LogicPool

One message is known by its ticket, the place its queue gave it. `Push` and the
body of `Pop` hold `_mutex` throughout and are one step each; the wait inside
`Pop` is a state of its own ("asleep") which a `Push` ends, or a spurious wakeup.
`creator` is the loop of `run()`, `closer` a thread in `CloseLogic` or `Close`:
it clears `m_run`, puts the CLOSE message, joins, in three steps. Messages may
arrive at any time, behind the CLOSE as well. The table and the count are
separate variables because clients read the count and `AddMessage` the table.

`IsTaskChannel` says that each logic thread implements `TaskChannel`: messages
complete in the order of acceptance, and at most one completes after `Close` has
cleared `m_run`.

### AsioSocket and TcpClient

A socket operation waits in the reactor and then in the completion queue until
the io thread takes it; `close()` completes everything that waits with an error.
What `connect()` answers on a socket that is connecting (EALREADY) or connected
(EISCONN) is modelled, since the client meets both. Calls of two threads on one
socket are taken to be atomic, although asio does not promise it, and the plain
`bool`s are read and written in one step with a fresh value. The client object
is kept alive as long as a handler is outstanding (`connect_handler` is bound to
a raw `this`, so the code does not guarantee it; see the hazards).

Each handler is cut where another thread can see what is half done: between
`is_connect_ = true` and the read, between `is_connect_ = false` and
`socket_.close()`, between the test in `reconnect()` and `async_connect`, between
the collection of silent clients and `do_check_timeout`. Of time only whether it
has run out since the last receipt is kept (`stale`); of data, that a packet came
or not.

`Shared` tells whether the client's own logic thread is thread 0, which also
runs the timer check.

### AsioDatagram and UdpClient

The code of the UDP client is the TCP client's with another socket, and the
model follows it: the same threads, the same cuts, the same tasks. The socket
makes the difference. A connect notes the peer's address and completes at once;
it opens a closed socket, may be repeated at will and never meets EALREADY or
EISCONN, so that `is_connect_` is never cleared on a socket that works. There is
no end of a link; a receive or a send fails when an earlier datagram was refused.
Sends are not refused while the client is not connected: on a closed socket they
fail, and the failure closes the socket once more and posts a reconnect.

### TimerMgr

Time is relative (`rem[t]`, what is left of the interval), so that it never runs
out and liveness can be checked. `copies` and `top` are the priority queue: a
timer can be in it twice after a pop took another entry. When the start time of
an entry is changed in place, the heap order is gone and any entry may come to
the top (`ordered`). The timer thread holds `mtx` inside `timer_run()` wherever it is
not asleep, and `mtx_queue` around the callback. The test `while (timer_run_)` in
front of it takes no lock and is a step of its own (`schedule_while`), so that
`Close` can come between the test and the lock. A thread that adds a timer goes
through push, state, notify and index without `mtx`.
A call of a loop timer's callback which `cancel()` has reset meanwhile either
runs it or throws in the timer thread, which ends the process ("terminated").
`addTimer(ptr)`, `isEmpty`, `nearLeftTime` and `clear` are called by nobody. The
callback finds its logic thread in the table whenever it runs: only `CloseLogic`,
which nobody calls, takes an entry out while timers run.

### TtyClient and ClientManager

`ClientManager` composes what is one per process: the list of clients, the ids,
`thread_mutex_`, the io thread, the logic threads with their tasks, and the users'
threads. A call is asked for, waits for the lock, and then runs as one step,
since all it touches is guarded by the lock; only `close()`, which keeps the lock
while it waits, is cut into steps. Calls also come from the logic threads, because
`do_message` of `cpacket_dispose` answers connect and timeout events with a send.
The io thread is the loop it is in the code: `run()` returns when the io_context is
stopped, and is called again. The network clients are seen from outside
(`NetConnects`, `NetLost`); their insides are `TcpClient` and `UdpClient`, which begin
where the address was understood.

A text that is no address makes `from_string` throw in `start`, after `server_ip_` is
kept and the client is in the list (ASIOClient.cpp:26-28). Such a client is
modelled here: its socket was never opened, so that a write fails and posts
a reconnect, and `reconnect()` throws again (247). `thrown` has who threw what. An
exception of a user's call goes to the user, one of a logic thread ends
the program, after which nothing happens (`Running`).

The serial clients are in full, as far as they go: `add_serial_port` is always
called with the default `char_size` of 1 (ASIOTTYClient.h:48), for which asio's
`character_size` throws (serial_port_base.ipp:499). So a `start` either fails to
open its device or throws with the device open and the client in the list, and
serial links never work; `is_connect_ = true`, `do_read` and its handler are dead
code and not modelled. `tty_name_` stays empty for the same reason, which is what
keeps a serial client's `reconnect()` from opening, and so from throwing, on a logic
thread (`NoSerialThrowOnLogicThread`), and from opening the device of a client that
was closed in the meantime (`PortReleased`).

### RingBuffer, ByteQueue and PacketFormat

A byte is known by its place in its packet and that packet's length, so that the
model can say whether what was cut off is a packet. Each round of the loop in
`format_recv_buffer` is a step. `peek()` gives a pointer into the array, and the
code reads on from there: where that leaves the array (`InArray`), the length is
arbitrary. `head` and `tail` are unsigned and wrap around at `IndexSize`.
`RingIsQueue` says that the ring, seen through `Contents`, implements `ByteQueue`.

## 3. Runs

| Run | Checks | Distinct states | What it shows |
|---|---|---|---|
| `logic_pool` | `TypeOK`, `InOrder`, `NoLostWakeup`, `DropOnlyAfterCloseLogic`, `AcceptedIsRun`, `CloseReturns`, `IsTaskChannel` | 21 thousand | posting, creation and closing in any order lose and reorder nothing |
| `tcp` | `TypeOK`, `ArmedWhileConnected`, `ReconnectOwed`, `DataAfterConnect`, `RestIsFinal`, `DropReported`, `LinkReturns` | 0.4 million | a connected client listens; a closed socket of an open client is owed a reconnect; losses are reported and the link comes back; a closed client that came to rest stays closed; data follows a connect event |
| `udp` | `TypeOK`, `ArmedWhileConnected`, `ReconnectOwed`, `RestIsFinal`, `ReconnectCompletes` | 0.8 million | as for TCP, with sends and connects that are never refused; and the client knows of its connection again and again, which TCP does not achieve |
| `timer` | `TypeOK`, `OnceAtMostOnce`, `CloseCutsWait`, `CloseIsQuiet`, `TimerFires`, `CloseEnds` | 0.5 million | once is once, cancelled is quiet, a lost wakeup costs time and not the timer; shutdown waits for no timer to become due, and ends |
| `client_manager` | `TypeOK`, `NoSerialThrowOnLogicThread`, `PortReleased`, `IdsNotReused`, `CallsReturn`, `FailureReported` | 0.1 million | calls from users and from `do_message` return although a start throws; a serial client throws on no logic thread; a client out of the list holds no device; no id is reused |
| `packet_format` | `TypeOK`, `SizeMatches`, `NeverFull`, `CleanCut`, `RingIsQueue`, `LoopEnds` | 0.2 million | the ring is a queue of bytes, its fill is what the format counts, and it never fills up; packets are whole unless one of three accidents happens |

Six runs show that the code does not do what a comment or the readme says of it:

| Run | Property | Statement | What happens |
|---|---|---|---|
| `tcp_reconnect_completes` | `ReconnectCompletes` | "when the link is broken, it will automatically reconnect" (readme.md:14) | the second connect fails with EISCONN and clears `is_connect_` on a live link; every later reconnect fails alike |
| `tcp_closed_stays_closed` | `ClosedStaysClosed` | the guard at ASIOClient.cpp:80, "close all IO" (client_manager.h:185) | a reconnect that was queued or past its test reopens a closed client |
| `timer_not_early` | `NotEarly` | "it still has to wait until the next due time" (TimerManager.hpp:226) | a notify that comes after the state was overwritten ends the next wait |
| `timer_loop_kept` | `LoopTimerKept` | "a loop message is added again" (TimerManager.hpp:246) | a push between `top()` and `pop()`: the pop takes the new timer, which is never run and never added again |
| `unload_returns` | `UnloadReturns` | "(io_context) is over." (client_manager.h:253), "close the timers" (client_manager.h:201) | `close()` joins an io thread that calls `run()` of the stopped io_context for ever, with `thread_mutex_` held |
| `packets_are_whole` | `PacketsAreWhole` | "a complete packet, go on" (packet_format.cpp:51) | a packet across the end of `data_buff` is read from behind the array |

Three more failures are in the model, without a run of their own. Each shows up
when the definition named is checked as the INVARIANT of the configuration named:

- `NoThrowOnLogicThread`, `ClientManager.cfg` with `MaxCalls` = 1: a start with a bad
  address throws and leaves its client in the list; the next timer check, meant to
  "connect the server again" (ASIOClient.cpp:236), reconnects it, and
  `from_string` throws again (247), on logic thread 0, which ends the program.
- `CloseWakes`, `TimerNotEarly.cfg`: `Close` is to "wake the thread"
  (TimerManager.hpp:192). When it comes between the test of `timer_run_` (266) and the
  lock of `mtx` (199), nobody waits for its notify, and with no timer queued the
  thread goes into the default wait of 300 seconds before it looks at `timer_run_`
  again (208). `CloseCutsWait` and `CloseEnds` are what is left of the promise.
- `NotEarly`, `TimerNotEarly.cfg` with `Delay <- MC_Delay`: `getLeftTime()` adds the delay
  and forgets it at the first look (TimerManager.hpp:75); when that wait is cut
  short, the next one is without the delay.

The redundant connect behind `tcp_reconnect_completes` has a second outcome. When
`reconnect_server` is called while the first connect is under way and both
succeed, `connect_handler` arms two reads on the one `recv_buffer`. `TcpClient` and
`UdpClient` both reach `reads = 2`; `ArmedWhileConnected` and the liveness properties
hold in spite of it.

`CleanCut` names the accidents that it excepts, and the model makes each of them
happen: a packet across the end of `data_buff`, a garbage length, a new link
joined to half a packet of the old one. `NeverFull` and `LoopEnds` hold after all of
them.

`LinkReturns` is deliberately weaker than "the link stays up": when a read and a
write fail together, or a read is aborted by a close, each posts a reconnect, and
each later reconnect can close the link that another one has opened. The number
of reconnects in circulation does not decrease, and timer checks can add to it;
the model has executions in which the link comes up and goes down for ever
without any further failure.

### Bounds

- `LogicPool`: two threads, so that routing and the order of `Close` matter; three
  connect ids, so that two share a thread; two messages per thread, so that one
  can be in hand while one is queued behind or before a CLOSE.
- `TcpClient`: `MaxFaults` = 1 bounds the connects that fail and the links that break,
  `MaxInputs` = 1 the users' sends and reconnects and the reads that bring data. One
  of each already produces two connects in flight, aborted operations and
  redundant reconnects. `close_client` and the timer check are not bounded. Since
  nothing in the code bounds the queue either, the timer fires only while few
  operations and tasks wait (`Room`), or when all is quiet (`Quiet`), which keeps it
  firing for ever: liveness needs the queue finite, not the checks rare. With
  `Room` = 0 a check starts when all is quiet, and whatever else happens may happen
  while it is under way; the violation runs have `Room` = 1 and the client on
  logic thread 0 (`Shared`).
- `UdpClient`: the same bounds with `MaxInputs` = 2, so that a send and a connect, or
  two connects, meet the failure.
- `ClientManager`: two user threads, two clients, two logic threads, so that a user, a
  logic thread and the timer check compete for the lock and the clients' tasks go
  to different threads; three calls, enough to start, use and close a client in
  any order against another thread's calls; a queue takes a timer check or a
  network event only when it is empty (`MaxTasks` = 1), but any number of tasks of
  the clients.
- `PacketFormat`: a buffer of 8 with a head of 2, bodies of 0 and 1 byte (2 is refused
  by the peer's format, as too long to send), reads of up to 4 bytes, so that
  reads cut heads and bodies everywhere and packets come to lie across the end of
  the array; indices wrap around at 16; one reconnect. The sizes satisfy the
  inequalities of `SizesAssumption`, as the program's 16384, 40, 2048 and 10240 do.
- `TimerMgr`: one once timer (interval 1) and one loop timer (interval 2, delay 1
  or 0), so that either can be added while the other is waited for or fired; an
  overdue timer is known to be up to `Late` = 1 ticks late; the default wait of 300
  seconds is 3 ticks, longer than every interval. Firings are counted up to two.
  `timer_not_early` has no delay, so that only the late notify can violate it.

### Fairness

The io thread, the logic threads, the timer thread and a caller that is inside
the library are ordinary threads which the system schedules: weak fairness for
each. The operating system answers a connect, a read on a dead link and a write
(`Reactor`), time passes, and the loop timer keeps firing. Users and peers owe
nothing: no fairness for calls, data, drops or closing. `ClientManager` asks weak
fairness of each thread's step inside a call, which includes taking the lock when
it stays free, and `CallsReturn` needs no more: with the bounded number of calls
nobody takes the lock for ever. `PacketFormat` asks only that the io thread goes on
with a loop it is in.

## 4. Proofs

Each proof module holds for every value of the constants; the only assumptions
are the named ones of the component modules, which TLC evaluates too: bounds are
numbers, intervals are positive, once and loop timers are different timers, there
are finitely many timers and client ids, a user's thread is not a logic thread,
and the sizes of the packet format fit together as the program's do.

Every invariant, every action property and both refinements that the passing runs
check are proved. Few of them are inductive as they stand; what had to be added
is the account of why the code is right.

`LogicPool_proofs`
- `TypeCorrect`: `Spec => []TypeOK`.
- `WakeupCorrect`: `Spec => []NoLostWakeup`.
- `OrderCorrect`: `Spec => []InOrder`. `InOrder` is not inductive: the put of a CLOSE
  keeps "at most one CLOSE" only because a thread that is being closed has not
  been closed before. `OrderInv` adds that threads in the table were created
  (`CreatedInv`), what the closing thread has done so far (`CloserInv`), and that an
  unclosed thread has no CLOSE in its queue (`UnclosedInv`).
- `DropCorrect`: `Spec => []DropOnlyAfterCloseLogic`. `RoutedInv`: a thread that is
  counted has been started, because `CreateLogic` enters the table before it
  counts, and a started thread that is not in the table has ended, because
  `CloseLogic` erases after the join.
- `ChannelCorrect`: `Spec => IsTaskChannel`, the step simulation from `OrderInv`: every
  step of the pool is one step of `TaskChannel` or none. The end of a thread maps
  to "closed" and the time between the cleared flag and the end to "last".

`TcpClient_proofs`
- `TypeCorrect`: `Spec => []TypeOK`, from lemmas about the socket calls.
- `ArmedCorrect`: `Spec => []ArmedWhileConnected`. `ArmedInv` follows the read through
  the steps of the handlers: while `io = "arm"` the read is still to come, and only
  the io thread takes a read away without arming a new one, on the way to
  `is_connect_ = false`.
- `OwedCorrect`: `Spec => []ReconnectOwed`. The reconnect that is owed may itself be
  lost: `reconnect()` does nothing while `is_connect_` is set. So `OwedInv` says more:
  `is_connect_` is clear, or the failure that clears it is queued. It rests on
  `ArmedInv`, since the close of a connected client's socket is answered by the
  aborted read.
- `GreetCorrect`: `Spec => []DataAfterConnect`. `GreetInv` adds that an armed read means
  that the connect event was posted before, and that data go to one queue only,
  so that a task in front is run first.
- `RestCorrect`: `Spec => RestIsFinal`, from `RestInv`: a client out of the list was
  closed by the user, and a closed client's handlers post no reconnect.

`UdpClient_proofs`
- `TypeCorrect`, `ArmedCorrect`, `OwedCorrect` and `RestCorrect`, as for TCP. The
  difference is in the socket: a connect succeeds on a socket of whatever state, and
  a send on a closed socket fails and closes it again, so that these steps
  have to keep the invariants in states that TCP refuses.

`TimerMgr_proofs`
- `TypeCorrect`: `Spec => []TypeOK`. The bound on the entries of one timer is not
  inductive, because a pop may take the entry of another timer than the one
  that is run and pushed again. `CountInv` counts the entries of all timers together:
  never more than timers were pushed by the threads that add them, and one less
  while the timer thread has one popped. The count is the cardinality of a set
  of pairs, so that the library's facts about finite sets apply.
- `OnceCorrect`: `Spec => []OnceAtMostOnce`, and `QuietCorrect`: `Spec => CloseIsQuiet`,
  from one invariant: the top of the queue is an entry of it (`HeapInv`); a timer
  whose `call_once` has run holds no callback, and a once timer about to be called
  has not fired (`OnceInv`); a closed timer has no callback or is out of the
  timer thread's reach (`ClosedInv`).
- `WakeCorrect`: `Spec => []CloseCutsWait`. `WakeInv`: after `Close` the thread is not
  between the look at the first timer and the wait for it either, because it
  holds `mtx` there and `Close` takes `mtx`. The default wait is not covered:
  `CloseWakes` fails because the thread can enter it after `Close`.

`ClientManager_proofs`, from `MgrInv`
- `TypeCorrect`: `Spec => []TypeOK`. A start takes the next id; that there is one needs
  `IdInv`: enough ids are left for all starts that wait for the lock.
- `NoThrowCorrect`: `Spec => []NoSerialThrowOnLogicThread`. `NameInv`: no client ever keeps
  the name of a device, so that a reconnect does not open. `LogicCallInv`: a logic
  thread calls `client_send_format_data` and nothing else, so that no start runs
  on one. Network clients do throw there (`NoThrowOnLogicThread` fails).
- `PortCorrect`: `Spec => []PortReleased`, and `IdsCorrect`: `Spec => IdsNotReused`, from
  `Effect`, which says what any step may do to the ports, names, exceptions and
  the list: a port is opened only for a client that is in the list afterwards, one
  that leaves the list has its port closed in the same step, and only the next id
  can enter. `LockInv`: a thread that keeps `thread_mutex_` between steps is in `close()`.

`PacketFormat_proofs`
- `Invariance` and its corollaries `TypeCorrect`, `SizeCorrect` and `NeverRefuses`:
  `Spec` implies `[]TypeOK`, `[]SizeMatches` and `[]NeverFull`, for all sizes that satisfy
  `SizesAssumption` and `RingAssumption`. `SizeMatches` needs the bound on the fill
  level, because indices that differ by more than the modulus look alike, and
  `NeverFull` needs `SizeMatches` and what a round of the loop leaves behind: they are
  proved together, from lemmas about the arithmetic of the indices.
- `RingCorrect`: `Spec => RingIsQueue`. A write puts its bytes at slots that hold
  nothing, because two numbers less than the capacity apart do not meet under the
  mask (`MaskedAdd`, `MaskedWrap`), also where the index wraps around, which needs
  that the capacity divides the modulus.
- `CutCorrect`: `Spec => []CleanCut`. What was cut so far says nothing about the next
  packet. `StreamInv` does: until an accident happens, the bytes held, followed by
  the bytes on the wire, are whole packets one after the other, so that a read may
  divide them anywhere and what is cut off the front is one of them.

Only model-checked is the liveness: `AcceptedIsRun`, `CloseReturns`, `DropReported`,
`LinkReturns`, UDP's `ReconnectCompletes`, `TimerFires`, `CloseEnds`, `CallsReturn`,
`FailureReported` and `LoopEnds`. They need fairness, about which the prover cannot
reason. `TaskChannel` and `ByteQueue` state no fairness, so nothing of the two
refinements is left out.
The statements that fail are shown by TLC's counterexamples.

## 5. Not modelled

- asio, in `third_include/`, is 561 of the repository's 596 files and nearly all of
  its 145 thousand lines; the program's own code, test program included, has about
  3,270 lines. Of asio the modules have what the clients reach: the
  start, completion and cancellation of socket operations in the epoll reactor,
  the scheduler's loop, the opening of a serial port. Handshakes, peers and what
  the operating system answers are external. The rest (SSL, coroutines, other
  reactors, buffers, streams, executors) is third-party code the library does not
  call; a share of lines modelled that counts it stays small.
- What cannot run: the serial client after a successful open, and
  `addTimer(ptr)`, `isEmpty`, `nearLeftTime`, `clear`, the insert, read and callback
  variants of the ring buffer, which nobody calls; a timer that puts its message
  into a thread's empty table entry (tms.hpp:217), which only `CloseLogic`
  would leave; `App_tms::Close()` in the manager's `close()` (client_manager.h:202),
  behind the join that does not return.
- Bytes on the wire of the clients themselves (two overlapping `async_write`),
  object lifetime (`connect_handler` is bound to a raw `this`), torn reads of
  unsynchronised data (`m_mapLogicList`, `serial_port_param_`), two threads in
  `load_module` at once.
- Mistakes without a state to check: `write_pass` is computed from
  `recv_last_timer_` (ASIOClient.cpp:213), so that a client which only sends is
  treated as silent; a packet with command id 1 to 3 is taken for an event
  (packet_dispose.cpp:6); one `packet_format` object given to two clients mixes
  their streams (`connect_id` is not used).
- The Windows entry point, the test program's console, time stamps, the
  singleton template.

## 6. Plan

The components are modelled, and the safety properties and refinements proved.
Left to do:

1. The safety parts of the liveness properties: that the step a waiting thread
   depends on is never taken away again (a closing thread's CLOSE stays in the
   queue until it is taken; a call that waits for `thread_mutex_` is not forgotten; a
   silent client's failure event stays queued until it is run).
2. What the weakened properties leave open: a bound on the reads that can be armed
   at once (`reads = 2` is reached), in terms of the connects that are under way.
