------------------------------ MODULE TimerMgr ------------------------------
(***************************************************************************)
(* The timers: brynet::TimerMgr and Timer (TimerManager.hpp), and what TMS *)
(* (tms.hpp) does around them to add a timer, to cancel one by its id and  *)
(* to shut the timer thread down.                                          *)
(*                                                                         *)
(* Time is relative, so that it can pass for ever: rem[t] is what is left  *)
(* of mLastTime since mStartTime, which is also the key that mTimers is    *)
(* ordered by (the present moment is common to all keys).                  *)
(*                                                                         *)
(* mtx is held by the timer thread wherever it is not asleep, in front of  *)
(* the lock or between two calls of timer_run(), and mtx_queue around the  *)
(* callback; the threads that add timers take mtx_queue only for the push. *)
(***************************************************************************)
EXTENDS Integers, FiniteSets

CONSTANTS Once, Loop,     \* timers made by addTimer and by addTimer_loop
          Last,           \* Last[t]: its interval
          Delay,          \* Delay[t]: what a loop timer waits in addition, once
          DefaultWait,    \* timer_default_wait
          Late,           \* bound: how far behind an overdue timer is known
          Spurious        \* condition variables may wake unasked

Timers == Once \cup Loop

NoTimer == "no timer"

ASSUME TimersAssumption == Once \cap Loop = {} /\ NoTimer \notin Timers
ASSUME FiniteAssumption == IsFiniteSet(Timers)
ASSUME TimesAssumption ==
    /\ Last \in [Timers -> Nat \ {0}]
    /\ Delay \in [Timers -> Nat] /\ \A t \in Once : Delay[t] = 0
    /\ DefaultWait \in Nat /\ Late \in Nat
ASSUME SpuriousAssumption == Spurious \in BOOLEAN

VARIABLES
    rem, delay, cb, spent,  \* a Timer: its times, mCallback # nullptr,
                            \* mExecuteOnceFlag
    copies, top, ordered,   \* mTimers: its entries, its top, whether it is a heap
    timer_run_, timer_wakeup_state,
    pc, tmp, left,          \* the timer thread in timer_run()
    adder,                  \* adder[t]: the thread that adds t
    m_mapTimeridList,
    closer,                 \* the thread in TMS::Close
    fired, owed, closed     \* history: firings; delay not yet waited for;
                            \* Close_Timer has returned true

timer  == <<rem, delay, cb, spent>>
heap   == <<copies, top, ordered>>
flags  == <<timer_run_, timer_wakeup_state>>
thread == <<pc, tmp, left>>
hist   == <<fired, owed, closed>>
vars   == <<timer, heap, flags, thread, adder, m_mapTimeridList, closer, hist>>

Init ==
    /\ rem = Last
    /\ delay = Delay
    /\ cb = [t \in Timers |-> TRUE]
    /\ spent = [t \in Timers |-> FALSE]
    /\ copies = [t \in Timers |-> 0]
    /\ top = NoTimer
    /\ ordered = TRUE
    /\ timer_run_ = FALSE
    /\ timer_wakeup_state = "EXECUTE"
    /\ pc = "boot"
    /\ tmp = NoTimer
    /\ left = 0
    /\ adder = [t \in Timers |-> "new"]
    /\ m_mapTimeridList = {}
    /\ closer = "no"
    /\ fired = [t \in Timers |-> 0]
    /\ owed = Delay
    /\ closed = [t \in Timers |-> FALSE]

-----------------------------------------------------------------------------
(* Time passes for the timers that exist and for a thread in wait_for.      *)

Running == pc # "terminated"     \* the process has not been ended

Asleep == pc \in {"asleep", "idle"}

Tick ==
    /\ Running
    /\ rem' = [t \in Timers |-> IF adder[t] # "new" /\ rem[t] > -Late
                                THEN rem[t] - 1 ELSE rem[t]]
    /\ left' = IF Asleep /\ left > 0 THEN left - 1 ELSE left
    /\ UNCHANGED <<delay, cb, spent, heap, flags, pc, tmp, adder,
                   m_mapTimeridList, closer, hist>>

-----------------------------------------------------------------------------
(* mTimers, a std::priority_queue over CompareTimer.  An entry whose        *)
(* mStartTime is changed in place leaves it no heap: then what push and pop *)
(* bring to the top is not specified, and any entry may be there.           *)

Earlier(t, u, r) == r[t] < r[u]

Push(t, r, ord) ==
    /\ copies' = [copies EXCEPT ![t] = @ + 1]
    /\ ordered' = ord
    /\ \/ top = NoTimer /\ top' = t
       \/ top # NoTimer /\ (~ord \/ Earlier(t, top, r)) /\ top' = t
       \/ top # NoTimer /\ (~ord \/ ~Earlier(t, top, r)) /\ top' = top

Pop ==
    /\ copies' = [copies EXCEPT ![top] = @ - 1]
    /\ \/ /\ \A u \in Timers : copies'[u] = 0
          /\ top' = NoTimer
       \/ \E t \in Timers :
             /\ copies'[t] > 0
             /\ ordered => \A u \in Timers : copies'[u] > 0 => ~Earlier(u, t, rem)
             /\ top' = t
    /\ UNCHANGED ordered

-----------------------------------------------------------------------------
(* The timer thread: schedule() around timer_run().                         *)

schedule ==
    /\ pc = "boot"
    /\ timer_run_' = TRUE
    /\ pc' = "loop"
    /\ UNCHANGED <<timer, heap, timer_wakeup_state, tmp, left, adder,
                   m_mapTimeridList, closer, hist>>

(* while (timer_run_), without a lock: Close may come before timer_run()    *)
(* has taken mtx.                                                           *)
schedule_while ==
    /\ pc = "loop"
    /\ pc' = IF timer_run_ THEN "lock" ELSE "end"
    /\ UNCHANGED <<timer, heap, flags, tmp, left, adder, m_mapTimeridList, closer, hist>>

(* The lock of mtx and the first look at mTimers. *)
timer_run ==
    /\ pc = "lock"
    /\ pc' = IF top = NoTimer THEN "rest" ELSE "check"
    /\ UNCHANGED <<timer, heap, flags, tmp, left, adder, m_mapTimeridList, closer, hist>>

(* Mutant of WaitEmpty: wait() instead of wait_for(). *)
WaitEmptyForever ==
    /\ pc = "rest"
    /\ pc' = "idle"
    /\ left' = -1
    /\ UNCHANGED <<timer, heap, flags, tmp, adder, m_mapTimeridList, closer, hist>>

WaitEmpty ==
    /\ pc = "rest"
    /\ pc' = "idle"
    /\ left' = DefaultWait
    /\ UNCHANGED <<timer, heap, flags, tmp, adder, m_mapTimeridList, closer, hist>>

(* getLeftTime() counts mDelayTime the first time only. *)
Look ==
    /\ pc = "check"
    /\ \/ /\ ~timer_run_
          /\ pc' = "end"
          /\ UNCHANGED <<delay, tmp, left>>
       \/ /\ timer_run_ /\ top = NoTimer
          /\ pc' = "loop"
          /\ UNCHANGED <<delay, tmp, left>>
       \/ /\ timer_run_ /\ top # NoTimer
          /\ tmp' = top
          /\ left' = rem[top] + delay[top]
          /\ delay' = [delay EXCEPT ![top] = 0]
          /\ pc' = IF rem[top] + delay[top] > 0 THEN "wait" ELSE "fire"
    /\ UNCHANGED <<rem, cb, spent, heap, flags, adder, m_mapTimeridList, closer, hist>>

WaitLeft ==
    /\ pc = "wait"
    /\ pc' = "asleep"
    /\ UNCHANGED <<timer, heap, flags, tmp, left, adder, m_mapTimeridList, closer, hist>>

(* notify_one; an end of a wait. *)
Wake == pc' = CASE pc = "idle" -> "check" [] pc = "asleep" -> "awake" [] OTHER -> pc

WaitEnds ==
    /\ Asleep
    /\ left = 0
    /\ Wake
    /\ UNCHANGED <<timer, heap, flags, tmp, left, adder, m_mapTimeridList, closer, hist>>

SpuriousWake ==
    /\ Spurious
    /\ Asleep
    /\ Wake
    /\ UNCHANGED <<timer, heap, flags, tmp, left, adder, m_mapTimeridList, closer, hist>>

Awake ==
    /\ pc = "awake"
    /\ \/ /\ timer_wakeup_state = "ADD"
          /\ pc' = "loop" /\ tmp' = NoTimer
       \/ /\ timer_wakeup_state # "ADD"
          /\ pc' = IF timer_run_ THEN "fire" ELSE "end"
          /\ UNCHANGED tmp
    /\ UNCHANGED <<timer, heap, flags, left, adder, m_mapTimeridList, closer, hist>>

(* mTimers.pop(), and Timer::operator() up to the callback: a once timer    *)
(* takes it out under call_once, a loop timer looks whether there is one.   *)
(* Mutants: nothing is popped; the callback is not taken out.               *)
FireNoPop ==
    /\ pc = "fire"
    /\ \/ /\ tmp \in Once
          /\ spent' = [spent EXCEPT ![tmp] = TRUE]
          /\ cb' = [cb EXCEPT ![tmp] = FALSE]
          /\ pc' = IF spent[tmp] THEN "mark" ELSE "call"
       \/ /\ tmp \in Loop
          /\ pc' = IF cb[tmp] THEN "call" ELSE "again"
          /\ UNCHANGED <<spent, cb>>
    /\ UNCHANGED <<rem, delay, heap, flags, tmp, left, adder, m_mapTimeridList,
                   closer, hist>>

FireKeep ==
    /\ pc = "fire"
    /\ Pop
    /\ pc' = IF cb[tmp] THEN "call" ELSE IF tmp \in Once THEN "mark" ELSE "again"
    /\ UNCHANGED <<timer, flags, tmp, left, adder, m_mapTimeridList, closer, hist>>

Fire ==
    /\ pc = "fire"
    /\ Pop
    /\ \/ /\ tmp \in Once
          /\ spent' = [spent EXCEPT ![tmp] = TRUE]
          /\ cb' = [cb EXCEPT ![tmp] = FALSE]
          /\ pc' = IF spent[tmp] THEN "mark" ELSE "call"
       \/ /\ tmp \in Loop
          /\ pc' = IF cb[tmp] THEN "call" ELSE "again"
          /\ UNCHANGED <<spent, cb>>
    /\ UNCHANGED <<rem, delay, flags, tmp, left, adder, m_mapTimeridList, closer, hist>>

(* The callback: Put to the logic thread, then a once timer's id is erased. *)
(* Firings are counted up to 2.  The logic thread is in m_mapLogicList:     *)
(* CloseLogic, which would leave nullptr there, is called by nobody.        *)
Call ==
    /\ pc = "call"
    /\ fired' = [fired EXCEPT ![tmp] = IF @ < 2 THEN @ + 1 ELSE @]
    /\ owed' = [owed EXCEPT ![tmp] = 0]
    /\ pc' = IF tmp \in Once THEN "erase" ELSE "again"
    /\ UNCHANGED <<timer, heap, flags, tmp, left, adder, m_mapTimeridList, closer, closed>>

(* Close_Timer has reset mCallback of a loop timer after the look at it:    *)
(* the call may also find nothing to call, and throw in the timer thread.   *)
CallTorn ==
    /\ pc = "call"
    /\ tmp \in Loop
    /\ ~cb[tmp]
    /\ pc' = "terminated"
    /\ UNCHANGED <<timer, heap, flags, tmp, left, adder, m_mapTimeridList, closer, hist>>

CallErase ==
    /\ pc = "erase"
    /\ m_mapTimeridList' = m_mapTimeridList \ {tmp}
    /\ pc' = "mark"
    /\ UNCHANGED <<timer, heap, flags, tmp, left, adder, closer, hist>>

(* A loop timer starts anew and goes back into mTimers.  If the pop took    *)
(* another entry, tmp is still in there and its key changes in place.       *)
Alone(t) == copies[t] = 0 \/ \A u \in Timers \ {t} : copies[u] = 0

Again ==
    /\ pc = "again"
    /\ rem' = [rem EXCEPT ![tmp] = Last[tmp]]
    /\ \/ cb[tmp] /\ Push(tmp, rem', ordered /\ Alone(tmp))
       \/ ~cb[tmp] /\ ordered' = (ordered /\ Alone(tmp)) /\ UNCHANGED <<copies, top>>
    /\ pc' = "mark"
    /\ UNCHANGED <<delay, cb, spent, flags, tmp, left, adder, m_mapTimeridList,
                   closer, hist>>

Mark ==
    /\ pc = "mark"
    /\ timer_wakeup_state' = "EXECUTE"
    /\ pc' = "loop"
    /\ tmp' = NoTimer
    /\ UNCHANGED <<timer, heap, timer_run_, left, adder, m_mapTimeridList, closer, hist>>

-----------------------------------------------------------------------------
(* TMS::AddMessage (delayed) and AddMessage_loop: a user's thread makes the *)
(* timer, which reads the clock, and then pushes, sets the state, notifies  *)
(* and enters the id, without ever taking mtx.                              *)

AddMessage(t) ==
    /\ Running
    /\ adder[t] = "new"
    /\ adder' = [adder EXCEPT ![t] = "push"]
    /\ UNCHANGED <<timer, heap, flags, thread, m_mapTimeridList, closer, hist>>

QueueLocked == pc \in {"call", "erase", "again"}

addTimerPush(t) ==
    /\ Running
    /\ adder[t] = "push"
    /\ ~QueueLocked
    /\ Push(t, rem, ordered)
    /\ adder' = [adder EXCEPT ![t] = "state"]
    /\ UNCHANGED <<timer, flags, thread, m_mapTimeridList, closer, hist>>

addTimerState(t) ==
    /\ Running
    /\ adder[t] = "state"
    /\ timer_wakeup_state' = "ADD"
    /\ adder' = [adder EXCEPT ![t] = "notify"]
    /\ UNCHANGED <<timer, heap, timer_run_, thread, m_mapTimeridList, closer, hist>>

addTimerNotify(t) ==
    /\ Running
    /\ adder[t] = "notify"
    /\ Wake
    /\ adder' = [adder EXCEPT ![t] = "index"]
    /\ UNCHANGED <<timer, heap, flags, tmp, left, m_mapTimeridList, closer, hist>>

AddMessageIndex(t) ==
    /\ Running
    /\ adder[t] = "index"
    /\ m_mapTimeridList' = m_mapTimeridList \cup {t}
    /\ adder' = [adder EXCEPT ![t] = "done"]
    /\ UNCHANGED <<timer, heap, flags, thread, closer, hist>>

AddStep(t) ==
    addTimerPush(t) \/ addTimerState(t) \/ addTimerNotify(t) \/ AddMessageIndex(t)

-----------------------------------------------------------------------------
(* TMS::Close_Timer, for an id that AddMessage has returned.  The weak_ptr  *)
(* has expired when neither mTimers nor the timer thread has the timer.     *)

Gone(t) == copies[t] = 0 /\ tmp # t

(* Mutant of Close_Timer: the id is forgotten, the timer is not cancelled. *)
Close_TimerForget(t) ==
    /\ Running
    /\ adder[t] = "done"
    /\ t \in m_mapTimeridList
    /\ m_mapTimeridList' = m_mapTimeridList \ {t}
    /\ closed' = [closed EXCEPT ![t] = TRUE]
    /\ UNCHANGED <<timer, heap, flags, thread, adder, closer, fired, owed>>

Close_Timer(t) ==
    /\ Running
    /\ adder[t] = "done"
    /\ t \in m_mapTimeridList
    /\ closed' = [closed EXCEPT ![t] = TRUE]
    /\ \/ /\ ~Gone(t)
          /\ cb' = [cb EXCEPT ![t] = IF spent[t] THEN @ ELSE FALSE]
          /\ spent' = [spent EXCEPT ![t] = TRUE]
          /\ m_mapTimeridList' = m_mapTimeridList \ {t}
       \/ /\ Gone(t)
          /\ UNCHANGED <<cb, spent, m_mapTimeridList>>
    /\ UNCHANGED <<rem, delay, heap, flags, thread, adder, closer, fired, owed>>

(* TMS::Close: TimerMgr::Close, under mtx, and the join of the thread. *)
MtxFree == pc \in {"boot", "loop", "lock", "asleep", "idle", "end"}

(* Mutant of Close: no notify_one. *)
CloseSilent ==
    /\ closer = "no"
    /\ MtxFree
    /\ timer_run_' = FALSE
    /\ timer_wakeup_state' = "ADD"
    /\ closer' = "join"
    /\ UNCHANGED <<timer, heap, thread, adder, m_mapTimeridList, hist>>

Close ==
    /\ closer = "no"
    /\ MtxFree
    /\ timer_run_' = FALSE
    /\ timer_wakeup_state' = "ADD"
    /\ Wake
    /\ closer' = "join"
    /\ UNCHANGED <<timer, heap, tmp, left, adder, m_mapTimeridList, hist>>

CloseJoin ==
    /\ closer = "join"
    /\ pc = "end"
    /\ closer' = "done"
    /\ UNCHANGED <<timer, heap, flags, thread, adder, m_mapTimeridList, hist>>

-----------------------------------------------------------------------------

TimerThread ==
    \/ schedule \/ schedule_while \/ timer_run \/ WaitEmpty \/ Look \/ WaitLeft
    \/ WaitEnds \/ Awake \/ Fire \/ Call \/ CallTorn \/ CallErase \/ Again \/ Mark

Next ==
    \/ Tick \/ TimerThread \/ SpuriousWake \/ Close \/ CloseJoin
    \/ \E t \in Timers : AddMessage(t) \/ AddStep(t) \/ Close_Timer(t)
    \/ ~Running /\ UNCHANGED vars

(* The clock and the threads run; nobody has to add or to cancel a timer.   *)
Fairness ==
    /\ WF_vars(Tick)
    /\ WF_vars(TimerThread)
    /\ \A t \in Timers : WF_vars(AddStep(t))

Spec == Init /\ [][Next]_vars /\ Fairness

-----------------------------------------------------------------------------
(* Properties. *)

TypeOK ==
    /\ rem \in [Timers -> Int]
    /\ delay \in [Timers -> Nat]
    /\ cb \in [Timers -> BOOLEAN]
    /\ spent \in [Timers -> BOOLEAN]
    /\ copies \in [Timers -> 0 .. Cardinality(Timers)]
    /\ top \in Timers \cup {NoTimer}
    /\ ordered \in BOOLEAN
    /\ timer_run_ \in BOOLEAN
    /\ timer_wakeup_state \in {"ADD", "EXECUTE"}
    /\ pc \in {"boot", "loop", "lock", "rest", "idle", "check", "wait", "asleep", "awake",
               "fire", "call", "erase", "again", "mark", "end", "terminated"}
    /\ tmp \in Timers \cup {NoTimer}
    /\ left \in Int
    /\ adder \in [Timers -> {"new", "push", "state", "notify", "index", "done"}]
    /\ m_mapTimeridList \subseteq Timers
    /\ closer \in {"no", "join", "done"}
    /\ fired \in [Timers -> 0 .. 2]
    /\ owed \in [Timers -> Nat]
    /\ closed \in [Timers -> BOOLEAN]

(* A timer made by addTimer fires at most once, although timer_run may run *)
(* it twice: when another thread's push puts a new top on mTimers between  *)
(* top() and pop(), the pop takes that one and leaves tmp in the queue.    *)
OnceAtMostOnce == \A t \in Once : fired[t] <= 1

(* Once Close_Timer has returned true for a timer, no call of its callback *)
(* begins: one that the timer thread has already taken is the last.        *)
CloseIsQuiet ==
    [][\A t \in Timers :
          closed[t] /\ pc' = "call" /\ tmp' = t => pc = "call" /\ tmp = t]_vars

(* The join in TMS::Close waits for no timer to become due: TimerMgr::Close *)
(* cuts the thread's wait for one short, and wherever else in timer_run()  *)
(* the thread was, it does not begin such a wait any more.                 *)
CloseCutsWait == closer # "no" /\ ~timer_run_ => pc # "asleep"

(* The timer thread ends after TimerMgr::Close, after one                  *)
(* timer_default_wait at most, so that TMS::Close returns.  Excepted is a  *)
(* Close before schedule(), which sets timer_run_ again.                   *)
CloseEnds == (closer # "no" /\ ~timer_run_) ~> (pc = "end" \/ timer_run_)

(* "Wake the thread" (TimerManager.hpp:192, in Close): once Close has      *)
(* cleared timer_run_ and notified, the timer thread is not in wait_for.   *)
CloseWakes == closer # "no" /\ ~timer_run_ => ~Asleep

(* A timer in mTimers fires, however notify_one and the waits interleave:  *)
(* a wakeup that is lost costs timer_default_wait at most.  Excepted are    *)
(* timers that are cancelled, the shutdown, and an entry that was popped   *)
(* in another one's place.                                                 *)
TimerFires ==
    \A t \in Timers :
        (copies[t] > 0)
            ~> (fired[t] > 0 \/ closed[t] \/ Gone(t) \/ closer # "no" \/ ~Running)

(* "It still has to wait until the next one is due" (TimerManager.hpp:226, *)
(* at the wait_for): no callback is called before the interval, and the    *)
(* first time the delay, have gone by.                                     *)
NotEarly == pc = "call" => rem[tmp] + owed[tmp] <= 0

(* "A loop message is added again" (TimerManager.hpp:246): a loop timer    *)
(* that has been pushed and not cancelled stays in mTimers or in the hands *)
(* of the timer thread.                                                    *)
LoopTimerKept ==
    \A t \in Loop : adder[t] \notin {"new", "push"} /\ cb[t] => ~Gone(t)
=============================================================================
