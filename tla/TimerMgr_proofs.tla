-------------------------- MODULE TimerMgr_proofs --------------------------
(***************************************************************************)
(* Proofs about the timers, for any set of timers with any intervals and   *)
(* delays: a once timer fires at most once, no callback begins after       *)
(* Close_Timer has returned true, Close cuts the wait for a timer short,   *)
(* and mTimers holds no more entries than timers were added.               *)
(***************************************************************************)
EXTENDS TimerMgr, FiniteSetTheorems, TLAPS

Places ==
    {"boot", "loop", "lock", "rest", "idle", "check", "wait", "asleep", "awake", "fire",
     "call", "erase", "again", "mark", "end", "terminated"}

(* The types the argument needs; a thread that runs a timer has one. *)
TypeInv ==
    /\ cb \in [Timers -> BOOLEAN]
    /\ spent \in [Timers -> BOOLEAN]
    /\ copies \in [Timers -> Nat]
    /\ top \in Timers \cup {NoTimer}
    /\ pc \in Places
    /\ tmp \in Timers \cup {NoTimer}
    /\ adder \in [Timers -> {"new", "push", "state", "notify", "index", "done"}]
    /\ fired \in [Timers -> Nat]
    /\ closed \in [Timers -> BOOLEAN]
    /\ pc \in {"wait", "asleep", "awake", "fire", "call", "erase", "again", "mark"}
          => tmp \in Timers

(* The top of mTimers is an entry of it. *)
HeapInv == top # NoTimer => copies[top] > 0

(* A timer whose call_once has run holds no callback; a once timer that    *)
(* fires has taken it out, and has not fired before.                       *)
OnceInv ==
    /\ \A t \in Timers : spent[t] => ~cb[t]
    /\ \A t \in Once :
          /\ fired[t] <= 1
          /\ ~spent[t] => fired[t] = 0
          /\ pc = "call" /\ tmp = t => spent[t] /\ fired[t] = 0

(* A timer that was closed can be run no more: it has no callback, or the  *)
(* timer thread will not come across it again.                             *)
ClosedInv ==
    \A t \in Timers : closed[t] => adder[t] = "done" /\ (spent[t] \/ Gone(t))

Inv == TypeInv /\ HeapInv /\ OnceInv /\ ClosedInv

(* What push and pop do to mTimers. *)
LEMMA PushHeap ==
  ASSUME TypeInv, HeapInv, NEW t \in Timers, NEW r, NEW ord, Push(t, r, ord)
  PROVE  /\ copies' = [copies EXCEPT ![t] = copies[t] + 1]
         /\ copies' \in [Timers -> Nat]
         /\ top' \in Timers
         /\ copies'[top'] > 0
BY DEF Push, TypeInv, HeapInv

LEMMA PopHeap ==
  ASSUME TypeInv, HeapInv, Pop
  PROVE  /\ copies' \in [Timers -> Nat]
         /\ top' \in Timers \cup {NoTimer}
         /\ top' # NoTimer => copies'[top'] > 0
         /\ \A u \in Timers : copies'[u] <= copies[u]
<1>1. copies' = [copies EXCEPT ![top] = copies[top] - 1]
  BY DEF Pop
<1>2. copies' \in [Timers -> Nat] /\ \A u \in Timers : copies'[u] <= copies[u]
  <2>1. CASE top = NoTimer
    <3>1. copies' = copies
      BY <1>1, <2>1, TimersAssumption DEF TypeInv
    <3> QED
      BY <3>1 DEF TypeInv
  <2>2. CASE top \in Timers
    BY <1>1, <2>2, TimersAssumption DEF TypeInv, HeapInv
  <2> QED
    BY <2>1, <2>2 DEF TypeInv
<1>3. top' = NoTimer \/ (top' \in Timers /\ copies'[top'] > 0)
  BY DEF Pop
<1> QED
  BY <1>2, <1>3

(* The initial state. *)
LEMMA InitInv == Init => Inv
BY TimersAssumption
   DEF Init, Inv, TypeInv, HeapInv, OnceInv, ClosedInv, Places, Timers

(* Steps of the timer thread that touch neither mTimers nor a timer, but   *)
(* for its times.                                                          *)
Quiet ==
    /\ UNCHANGED <<cb, spent, copies, top, adder, fired, closed>>
    /\ pc' \in Places \ {"call"}
    /\ tmp' \in {tmp, NoTimer, top}
    /\ pc' \in {"wait", "asleep", "awake", "fire", "erase", "again", "mark"} => tmp' \in Timers

(* A step of that kind keeps the invariant: it can bring the timer thread  *)
(* only a timer that is in mTimers.                                        *)
LEMMA QuietInv == Inv /\ Quiet => Inv'
<1> SUFFICES ASSUME Inv, Quiet PROVE Inv'
  OBVIOUS
<1> USE DEF Inv
<1>1. TypeInv'
  BY DEF Quiet, TypeInv, Places
<1>2. HeapInv'
  BY DEF Quiet, HeapInv
<1>3. OnceInv'
  BY DEF Quiet, OnceInv
<1>4. ClosedInv'
  <2>1. ASSUME NEW t \in Timers, Gone(t) PROVE Gone(t)'
    BY <2>1, TimersAssumption DEF Quiet, Gone, HeapInv, TypeInv
  <2> QED
    BY <2>1 DEF Quiet, ClosedInv
<1> QED
  BY <1>1, <1>2, <1>3, <1>4

(* The timer thread keeps the invariant. *)
LEMMA ThreadInv == Inv /\ (TimerThread \/ SpuriousWake) => Inv'
<1> SUFFICES ASSUME Inv, TimerThread \/ SpuriousWake PROVE Inv'
  OBVIOUS
<1> USE DEF Inv
<1>1. CASE schedule \/ schedule_while \/ timer_run \/ WaitEmpty \/ WaitLeft
  <2>1. Quiet
    BY <1>1 DEF schedule, schedule_while, timer_run, WaitEmpty, WaitLeft, Quiet, TypeInv,
                Places, timer, heap, hist
  <2> QED
    BY <2>1, QuietInv
<1>2. CASE Look
  <2>1. Quiet
    BY <1>2 DEF Look, Quiet, TypeInv, Places, heap, hist
  <2> QED
    BY <2>1, QuietInv
<1>3. CASE WaitEnds \/ SpuriousWake
  <2>1. Quiet
    BY <1>3 DEF WaitEnds, SpuriousWake, Wake, Asleep, Quiet, TypeInv, Places,
                timer, heap, hist
  <2> QED
    BY <2>1, QuietInv
<1>4. CASE Awake \/ Mark
  <2>1. Quiet
    BY <1>4 DEF Awake, Mark, Quiet, TypeInv, Places, timer, heap, hist
  <2> QED
    BY <2>1, QuietInv
<1>5. CASE CallTorn \/ CallErase
  <2>1. Quiet
    BY <1>5 DEF CallTorn, CallErase, Quiet, TypeInv, Places, timer, heap, hist
  <2> QED
    BY <2>1, QuietInv
<1>6. CASE Fire
  <2>1. tmp \in Timers /\ tmp' = tmp
    BY <1>6 DEF Fire, TypeInv
  <2>2. /\ copies' \in [Timers -> Nat]
        /\ top' \in Timers \cup {NoTimer}
        /\ top' # NoTimer => copies'[top'] > 0
        /\ \A u \in Timers : copies'[u] <= copies[u]
    BY <1>6, PopHeap DEF Fire
  <2>3. UNCHANGED <<adder, fired, closed>>
    BY <1>6 DEF Fire, hist
  <2>4. \/ /\ tmp \in Once
           /\ spent' = [spent EXCEPT ![tmp] = TRUE]
           /\ cb' = [cb EXCEPT ![tmp] = FALSE]
           /\ pc' = IF spent[tmp] THEN "mark" ELSE "call"
        \/ /\ tmp \in Loop
           /\ pc' \in {"call", "again"}
           /\ UNCHANGED <<spent, cb>>
    BY <1>6 DEF Fire
  <2>5. TypeInv'
    BY <2>1, <2>2, <2>3, <2>4 DEF TypeInv, Places
  <2>6. HeapInv'
    BY <2>2 DEF HeapInv
  <2>7. OnceInv'
    BY <2>1, <2>3, <2>4, TimersAssumption DEF OnceInv, TypeInv, Timers
  <2>8. ClosedInv'
    <3>1. ASSUME NEW t \in Timers, Gone(t) PROVE Gone(t)'
      BY <3>1, <2>1, <2>2 DEF Gone, TypeInv
    <3>2. ASSUME NEW t \in Timers, spent[t] PROVE spent'[t]
      BY <3>2, <2>1, <2>4 DEF TypeInv
    <3> QED
      BY <2>3, <3>1, <3>2 DEF ClosedInv
  <2> QED
    BY <2>5, <2>6, <2>7, <2>8
<1>7. CASE Call
  <2>1. /\ tmp \in Timers /\ tmp' = tmp /\ pc = "call"
        /\ UNCHANGED <<cb, spent, copies, top, adder, closed>>
        /\ fired' = [fired EXCEPT ![tmp] = IF fired[tmp] < 2 THEN fired[tmp] + 1 ELSE fired[tmp]]
        /\ pc' \in {"erase", "again"}
    BY <1>7 DEF Call, TypeInv, timer, heap
  <2>2. TypeInv'
    BY <2>1 DEF TypeInv, Places
  <2>3. HeapInv'
    BY <2>1 DEF HeapInv
  <2>4. OnceInv'
    BY <2>1 DEF OnceInv, TypeInv, Timers
  <2>5. ClosedInv'
    BY <2>1 DEF ClosedInv, Gone
  <2> QED
    BY <2>2, <2>3, <2>4, <2>5
<1>8. CASE Again
  <2>1. /\ tmp \in Timers /\ tmp' = tmp /\ pc' = "mark"
        /\ UNCHANGED <<cb, spent, adder, fired, closed>>
    BY <1>8 DEF Again, TypeInv, hist
  <2>2. \/ /\ copies' = [copies EXCEPT ![tmp] = copies[tmp] + 1]
           /\ copies' \in [Timers -> Nat]
           /\ top' \in Timers
           /\ copies'[top'] > 0
        \/ UNCHANGED <<copies, top>>
    BY <1>8, <2>1, PushHeap DEF Again
  <2>3. TypeInv'
    BY <2>1, <2>2 DEF TypeInv, Places
  <2>4. HeapInv'
    BY <2>1, <2>2 DEF HeapInv
  <2>5. OnceInv'
    BY <2>1 DEF OnceInv
  <2>6. ClosedInv'
    <3>1. ASSUME NEW t \in Timers, Gone(t) PROVE Gone(t)'
      BY <3>1, <2>1, <2>2 DEF Gone, TypeInv
    <3> QED
      BY <2>1, <3>1 DEF ClosedInv
  <2> QED
    BY <2>3, <2>4, <2>5, <2>6
<1> QED
  BY <1>1, <1>2, <1>3, <1>4, <1>5, <1>6, <1>7, <1>8 DEF TimerThread

(* So do the threads that add a timer. *)
LEMMA AddInv == \A t \in Timers : Inv /\ (AddMessage(t) \/ AddStep(t)) => Inv'
<1> SUFFICES ASSUME NEW t \in Timers, Inv, AddMessage(t) \/ AddStep(t) PROVE Inv'
  OBVIOUS
<1> USE DEF Inv
<1>1. \/ UNCHANGED <<copies, top>>
      \/ /\ adder[t] = "push"
         /\ copies' = [copies EXCEPT ![t] = copies[t] + 1]
         /\ copies' \in [Timers -> Nat]
         /\ top' \in Timers
         /\ copies'[top'] > 0
  BY PushHeap DEF AddMessage, AddStep, addTimerPush, addTimerState, addTimerNotify,
                  AddMessageIndex, heap
<1>2. /\ UNCHANGED <<cb, spent, tmp, fired, closed>>
      /\ adder[t] # "done"
  BY DEF AddMessage, AddStep, addTimerPush, addTimerState, addTimerNotify,
         AddMessageIndex, timer, hist, thread
<1>3. \/ pc' = pc
      \/ pc = "idle" /\ pc' = "check"
      \/ pc = "asleep" /\ pc' = "awake"
  BY DEF AddMessage, AddStep, addTimerPush, addTimerState, addTimerNotify,
         AddMessageIndex, thread, Wake
<1>4. \E a \in {"push", "state", "notify", "index", "done"} :
         adder' = [adder EXCEPT ![t] = a]
  BY DEF AddMessage, AddStep, addTimerPush, addTimerState, addTimerNotify,
         AddMessageIndex
<1>5. TypeInv'
  BY <1>1, <1>2, <1>3, <1>4 DEF TypeInv, Places
<1>6. HeapInv'
  BY <1>1 DEF HeapInv
<1>7. OnceInv'
  BY <1>2, <1>3 DEF OnceInv
<1>8. ClosedInv'
  BY <1>1, <1>2, <1>4 DEF ClosedInv, Gone, TypeInv
<1> QED
  BY <1>5, <1>6, <1>7, <1>8

(* Close_Timer, which closes a timer that is through with being added. *)
LEMMA CloseTimerInv == \A t \in Timers : Inv /\ Close_Timer(t) => Inv'
<1> SUFFICES ASSUME NEW t \in Timers, Inv, Close_Timer(t) PROVE Inv'
  OBVIOUS
<1> USE DEF Inv
<1>1. /\ UNCHANGED <<copies, top, pc, tmp, adder, fired>>
      /\ adder[t] = "done"
      /\ closed' = [closed EXCEPT ![t] = TRUE]
  BY DEF Close_Timer, heap, thread
<1>2. \/ /\ cb' = [cb EXCEPT ![t] = IF spent[t] THEN cb[t] ELSE FALSE]
         /\ spent' = [spent EXCEPT ![t] = TRUE]
      \/ Gone(t) /\ UNCHANGED <<cb, spent>>
  BY DEF Close_Timer
<1>3. TypeInv'
  BY <1>1, <1>2 DEF TypeInv
<1>4. HeapInv'
  BY <1>1 DEF HeapInv
<1>5. OnceInv'
  BY <1>1, <1>2 DEF OnceInv, TypeInv, Timers
<1>6. ClosedInv'
  BY <1>1, <1>2 DEF ClosedInv, Gone, TypeInv
<1> QED
  BY <1>3, <1>4, <1>5, <1>6

(* The invariant holds throughout. *)
LEMMA Invariance == Spec => []Inv
<1>1. Inv /\ [Next]_vars => Inv'
  <2> SUFFICES ASSUME Inv, [Next]_vars PROVE Inv'
    OBVIOUS
  <2>1. CASE TimerThread \/ SpuriousWake
    BY <2>1, ThreadInv
  <2>2. ASSUME NEW t \in Timers, AddMessage(t) \/ AddStep(t) \/ Close_Timer(t)
        PROVE  Inv'
    BY <2>2, AddInv, CloseTimerInv
  <2>3. CASE Tick
    BY <2>3 DEF Tick, Inv, TypeInv, HeapInv, OnceInv, ClosedInv, Gone, heap, hist
  <2>4. CASE Close \/ CloseJoin
    <3>1. /\ UNCHANGED <<cb, spent, copies, top, tmp, adder, fired, closed>>
          /\ \/ pc' = pc
             \/ pc = "idle" /\ pc' = "check"
             \/ pc = "asleep" /\ pc' = "awake"
      BY <2>4 DEF Close, CloseJoin, Wake, timer, heap, hist, thread
    <3> QED
      BY <3>1 DEF Inv, TypeInv, HeapInv, OnceInv, ClosedInv, Gone, Places
  <2>5. CASE UNCHANGED vars
    BY <2>5 DEF vars, timer, heap, thread, hist, Inv, TypeInv, HeapInv, OnceInv,
                ClosedInv, Gone
  <2> QED
    BY <2>1, <2>2, <2>3, <2>4, <2>5 DEF Next
<1> QED
  BY InitInv, <1>1, PTL DEF Spec

(* A once timer fires at most once, although timer_run() may run it twice. *)
THEOREM OnceCorrect == Spec => []OnceAtMostOnce
<1>1. Inv => OnceAtMostOnce
  BY DEF Inv, OnceInv, OnceAtMostOnce
<1> QED
  BY Invariance, <1>1, PTL

(* After Close_Timer has returned true no call of the callback begins. *)
THEOREM QuietCorrect == Spec => CloseIsQuiet
<1> DEFINE A == \A t \in Timers :
                   closed[t] /\ pc' = "call" /\ tmp' = t => pc = "call" /\ tmp = t
<1>1. Inv /\ [Next]_vars => [A]_vars
  <2> SUFFICES ASSUME Inv, Next, NEW t \in Timers,
                      closed[t], pc' = "call", tmp' = t, ~(pc = "call" /\ tmp = t)
               PROVE  FALSE
    BY Zenon
  <2>1. Fire
    <3>1. CASE TimerThread \/ SpuriousWake
      BY <3>1 DEF TimerThread, SpuriousWake, schedule, schedule_while, timer_run,
                  WaitEmpty, Look, WaitLeft, WaitEnds, Wake, Awake, Call, CallTorn,
                  CallErase, Again, Mark
    <3>2. CASE \E u \in Timers : AddMessage(u) \/ AddStep(u) \/ Close_Timer(u)
      BY <3>2 DEF AddMessage, AddStep, addTimerPush, addTimerState, addTimerNotify,
                  AddMessageIndex, Close_Timer, Wake, thread
    <3>3. CASE Tick \/ Close \/ CloseJoin \/ UNCHANGED vars
      BY <3>3 DEF Tick, Close, CloseJoin, Wake, vars, thread
    <3> QED
      BY <3>1, <3>2, <3>3 DEF Next
  <2>2. tmp = t /\ (spent[t] \/ Gone(t))
    BY <2>1 DEF Fire, Inv, ClosedInv
  <2>3. spent[t] /\ ~cb[t]
    BY <2>2 DEF Gone, Inv, OnceInv
  <2> QED
    BY <2>1, <2>2, <2>3 DEF Fire
<1> QED
  BY Invariance, <1>1, PTL DEF Spec, CloseIsQuiet

(* What TimerMgr::Close leaves the timer thread: not waiting for a timer,   *)
(* nor with mtx taken on the way into such a wait.  In front of the lock    *)
(* the notify_one is lost; what follows is the wait without a timer, and    *)
(* then the look at timer_run_.                                             *)
WakeInv ==
    closer # "no" /\ ~timer_run_
        => pc \in {"boot", "loop", "lock", "rest", "idle", "check", "awake", "end"}

(* TMS::Close never joins a thread that waits for a timer: between the look *)
(* at timer_run_ and that wait the thread keeps mtx, which Close takes, so  *)
(* that its notify_one cannot fall in between as the one of addTimer can.   *)
THEOREM WakeCorrect == Spec => []CloseCutsWait
<1>1. Init => WakeInv
  BY DEF Init, WakeInv
<1>2. WakeInv /\ [Next]_vars => WakeInv'
  <2> SUFFICES ASSUME WakeInv, [Next]_vars PROVE WakeInv'
    OBVIOUS
  <2>1. CASE TimerThread \/ SpuriousWake
    BY <2>1 DEF WakeInv, TimerThread, SpuriousWake, schedule, schedule_while, timer_run,
                WaitEmpty, Look, WaitLeft, WaitEnds, Wake, Asleep, Awake, Fire, Call, CallTorn, CallErase,
                Again, Mark, flags
  <2>2. CASE \E t \in Timers : AddMessage(t) \/ AddStep(t) \/ Close_Timer(t)
    <3>1. UNCHANGED <<timer_run_, closer>>
      BY <2>2 DEF AddMessage, AddStep, addTimerPush, addTimerState, addTimerNotify,
                  AddMessageIndex, Close_Timer, flags
    <3>2. pc' = pc \/ (pc = "idle" /\ pc' = "check") \/ (pc = "asleep" /\ pc' = "awake")
      BY <2>2 DEF AddMessage, AddStep, addTimerPush, addTimerState, addTimerNotify,
                  AddMessageIndex, Close_Timer, Wake, thread
    <3> QED
      BY <3>1, <3>2 DEF WakeInv
  <2>3. CASE Close \/ CloseJoin
    BY <2>3 DEF WakeInv, Close, CloseJoin, Wake, MtxFree, thread, flags
  <2>4. CASE Tick \/ UNCHANGED vars
    BY <2>4 DEF WakeInv, Tick, vars, thread, flags
  <2> QED
    BY <2>1, <2>2, <2>3, <2>4 DEF Next
<1>3. WakeInv => CloseCutsWait
  BY DEF WakeInv, CloseCutsWait
<1> QED
  BY <1>1, <1>2, <1>3, PTL DEF Spec

-----------------------------------------------------------------------------
(* How many entries mTimers has.  A bag is counted as a set: the i-th copy  *)
(* of t is <<t, i>>.                                                        *)
Entries(cs) == {e \in Timers \X Nat : 1 <= e[2] /\ e[2] <= cs[e[1]]}

Pushed == {t \in Timers : adder[t] \notin {"new", "push"}}

(* A timer is pushed once by the thread that adds it, and again only in the *)
(* place of an entry that was popped before: mTimers never holds more than  *)
(* one entry for each timer that was added, whichever timers they are of.   *)
(* While the timer thread runs a callback one entry less is there.          *)
CountInv ==
    /\ IsFiniteSet(Entries(copies))
    /\ Cardinality(Entries(copies)) + (IF QueueLocked THEN 1 ELSE 0) <= Cardinality(Pushed)
    /\ pc \in {"wait", "asleep", "awake", "fire"} => top # NoTimer

(* One copy more. *)
LEMMA EntriesAdd ==
  ASSUME NEW cs \in [Timers -> Nat], NEW t \in Timers, IsFiniteSet(Entries(cs))
  PROVE  LET more == Entries([cs EXCEPT ![t] = cs[t] + 1])
         IN  IsFiniteSet(more) /\ Cardinality(more) = Cardinality(Entries(cs)) + 1
<1> DEFINE ct == [cs EXCEPT ![t] = cs[t] + 1]
           e == <<t, cs[t] + 1>>
<1>1. ct \in [Timers -> Nat] /\ ct[t] = cs[t] + 1 /\ \A u \in Timers : u # t => ct[u] = cs[u]
  OBVIOUS
<1>2. e \notin Entries(cs) /\ e \in Entries(ct)
  BY <1>1 DEF Entries
<1>3. ASSUME NEW x \in Timers \X Nat, x # e
      PROVE  x \in Entries(ct) <=> x \in Entries(cs)
  <2>1. PICK u \in Timers, i \in Nat : x = <<u, i>>
    OBVIOUS
  <2>2. u = t => i # cs[t] + 1
    BY <1>3, <2>1
  <2> QED
    BY <1>1, <2>1, <2>2 DEF Entries
<1>4. Entries(ct) = Entries(cs) \cup {e}
  <2>1. Entries(ct) \subseteq Timers \X Nat /\ Entries(cs) \subseteq Timers \X Nat
    BY DEF Entries
  <2> HIDE DEF ct, e
  <2> QED
    BY <1>2, <1>3, <2>1
<1> HIDE DEF e
<1>5. /\ IsFiniteSet(Entries(cs) \cup {e})
      /\ Cardinality(Entries(cs) \cup {e}) = Cardinality(Entries(cs)) + 1
  BY <1>2, FS_AddElement
<1> QED
  BY <1>4, <1>5

(* One copy less. *)
LEMMA EntriesRemove ==
  ASSUME NEW cs \in [Timers -> Nat], NEW t \in Timers, cs[t] > 0, IsFiniteSet(Entries(cs))
  PROVE  LET less == Entries([cs EXCEPT ![t] = cs[t] - 1])
         IN  IsFiniteSet(less) /\ Cardinality(less) = Cardinality(Entries(cs)) - 1
<1> DEFINE ct == [cs EXCEPT ![t] = cs[t] - 1]
           e == <<t, cs[t]>>
<1>1. ct \in [Timers -> Nat] /\ ct[t] = cs[t] - 1 /\ \A u \in Timers : u # t => ct[u] = cs[u]
  OBVIOUS
<1>2. e \in Entries(cs) /\ e \notin Entries(ct)
  BY <1>1 DEF Entries
<1>3. ASSUME NEW x \in Timers \X Nat, x # e
      PROVE  x \in Entries(ct) <=> x \in Entries(cs)
  <2>1. PICK u \in Timers, i \in Nat : x = <<u, i>>
    OBVIOUS
  <2>2. u = t => i # cs[t]
    BY <1>3, <2>1
  <2> QED
    BY <1>1, <2>1, <2>2 DEF Entries
<1>4. Entries(ct) = Entries(cs) \ {e}
  <2>1. Entries(ct) \subseteq Timers \X Nat /\ Entries(cs) \subseteq Timers \X Nat
    BY DEF Entries
  <2> HIDE DEF ct, e
  <2> QED
    BY <1>2, <1>3, <2>1
<1> HIDE DEF e
<1>5. /\ IsFiniteSet(Entries(cs) \ {e})
      /\ Cardinality(Entries(cs) \ {e}) = Cardinality(Entries(cs)) - 1
  BY <1>2, FS_RemoveElement
<1> QED
  BY <1>4, <1>5

(* No timer has more copies than there are entries. *)
LEMMA CopiesBounded ==
  ASSUME NEW cs \in [Timers -> Nat], IsFiniteSet(Entries(cs)), NEW t \in Timers
  PROVE  cs[t] <= Cardinality(Entries(cs))
<1> DEFINE n == cs[t]
           f == [i \in 1 .. n |-> <<t, i>>]
<1>1. n \in Nat
  OBVIOUS
<1>2. f \in [1 .. n -> Entries(cs)]
  BY <1>1 DEF Entries
<1>3. \A i, j \in 1 .. n : f[i] = f[j] => i = j
  BY <1>1
<1> HIDE DEF f, n
<1>4. f \in Injection(1 .. n, Entries(cs))
  BY <1>2, <1>3 DEF Injection, IsInjective
<1>5. Cardinality(1 .. n) <= Cardinality(Entries(cs))
  BY <1>4, FS_Injection
<1>6. Cardinality(1 .. n) = n
  BY <1>1, FS_Interval
<1> QED
  BY <1>5, <1>6 DEF n

(* A step that neither pushes nor pops, and does not begin a callback. *)
CountSame ==
    /\ UNCHANGED <<copies, top, Pushed>>
    /\ QueueLocked' => QueueLocked
    /\ pc' \in {"wait", "asleep", "awake", "fire"} => top # NoTimer

(* Such a step keeps the count. *)
LEMMA CountKept == CountInv /\ CountSame => CountInv'
<1> SUFFICES ASSUME CountInv, CountSame PROVE CountInv'
  OBVIOUS
<1>1. Entries(copies)' = Entries(copies)
  BY DEF CountSame, Entries
<1>2. Cardinality(Entries(copies)) \in Nat /\ Cardinality(Pushed) \in Nat
  <2>1. Pushed \subseteq Timers
    BY DEF Pushed
  <2>2. IsFiniteSet(Pushed)
    BY <2>1, FiniteAssumption, FS_Subset
  <2> QED
    BY <2>2, FS_CardinalityType DEF CountInv
<1>3. (IF QueueLocked THEN 1 ELSE 0)' <= (IF QueueLocked THEN 1 ELSE 0)
  BY DEF CountSame
<1> HIDE DEF QueueLocked
<1> QED
  BY <1>1, <1>2, <1>3 DEF CountInv, CountSame

(* The timer thread pops one entry before it calls, and pushes at most one  *)
(* after it.                                                                *)
LEMMA CountThread ==
  ASSUME Inv, CountInv, TimerThread \/ SpuriousWake
  PROVE  CountInv'
<1> USE DEF QueueLocked
<1>t. /\ copies \in [Timers -> Nat] /\ top \in Timers \cup {NoTimer} /\ TypeInv /\ HeapInv
      /\ pc \in {"call", "erase", "again", "fire"} => tmp \in Timers
  BY DEF Inv, TypeInv
<1>f. IsFiniteSet(Entries(copies)) /\ Cardinality(Entries(copies)) \in Nat
      /\ Cardinality(Pushed) \in Nat
  <2>1. Pushed \subseteq Timers
    BY DEF Pushed
  <2>2. IsFiniteSet(Pushed)
    BY <2>1, FiniteAssumption, FS_Subset
  <2> QED
    BY <2>2, FS_CardinalityType DEF CountInv
<1>1. CASE schedule \/ schedule_while \/ timer_run \/ WaitEmpty \/ WaitLeft \/ Look
  <2>1. CountSame
    BY <1>1 DEF schedule, schedule_while, timer_run, WaitEmpty, WaitLeft, Look, CountSame,
                CountInv, Pushed, heap
  <2> QED
    BY <2>1, CountKept
<1>2. CASE WaitEnds \/ SpuriousWake \/ Awake \/ Mark
  <2>1. CountSame
    BY <1>2 DEF WaitEnds, SpuriousWake, Wake, Asleep, Awake, Mark, CountSame, CountInv, Pushed,
                heap
  <2> QED
    BY <2>1, CountKept
<1>3. CASE Call \/ CallTorn \/ CallErase
  <2>1. CountSame
    BY <1>3 DEF Call, CallTorn, CallErase, CountSame, CountInv, Pushed, heap
  <2> QED
    BY <2>1, CountKept
<1>4. CASE Fire
  <2>1. top \in Timers /\ copies[top] > 0
    BY <1>4, <1>t DEF Fire, CountInv, HeapInv
  <2>2. copies' = [copies EXCEPT ![top] = copies[top] - 1]
    BY <1>4 DEF Fire, Pop
  <2>3. /\ IsFiniteSet(Entries(copies'))
        /\ Cardinality(Entries(copies')) = Cardinality(Entries(copies)) - 1
    BY <1>t, <1>f, <2>1, <2>2, EntriesRemove
  <2>4. Pushed' = Pushed /\ pc' \in {"call", "mark", "again"}
    BY <1>4 DEF Fire, Pushed
  <2>5. Entries(copies)' = Entries(copies')
    BY DEF Entries
  <2>6. Cardinality(Entries(copies)) <= Cardinality(Pushed)
    BY <1>4, <1>f DEF CountInv, Fire
  <2> QED
    BY <1>f, <2>3, <2>4, <2>5, <2>6 DEF CountInv
<1>5. CASE Again
  <2>1. /\ tmp \in Timers /\ pc = "again" /\ pc' = "mark" /\ Pushed' = Pushed
    BY <1>5, <1>t DEF Again, Pushed
  <2>2. copies' = copies \/ copies' = [copies EXCEPT ![tmp] = copies[tmp] + 1]
    BY <1>5 DEF Again, Push
  <2>3. /\ IsFiniteSet(Entries(copies'))
        /\ Cardinality(Entries(copies')) <= Cardinality(Entries(copies)) + 1
    BY <1>t, <1>f, <2>1, <2>2, EntriesAdd
  <2>4. Entries(copies)' = Entries(copies')
    BY DEF Entries
  <2>5. Cardinality(Entries(copies)) + 1 <= Cardinality(Pushed)
    BY <2>1 DEF CountInv
  <2>6. Cardinality(Entries(copies')) \in Nat
    BY <2>3, FS_CardinalityType
  <2> QED
    BY <1>f, <2>1, <2>3, <2>4, <2>5, <2>6 DEF CountInv
<1> QED
  BY <1>1, <1>2, <1>3, <1>4, <1>5 DEF TimerThread

(* A thread that adds a timer pushes it once. *)
LEMMA CountAdd ==
  ASSUME Inv, CountInv, NEW t \in Timers, AddMessage(t) \/ AddStep(t)
  PROVE  CountInv'
<1> USE DEF QueueLocked
<1>t. copies \in [Timers -> Nat] /\ TypeInv /\ HeapInv
      /\ adder \in [Timers -> {"new", "push", "state", "notify", "index", "done"}]
  BY DEF Inv, TypeInv
<1>1. CASE addTimerPush(t)
  <2>1. adder[t] = "push" /\ adder' = [adder EXCEPT ![t] = "state"] /\ UNCHANGED pc
    BY <1>1 DEF addTimerPush, thread
  <2>2. copies' = [copies EXCEPT ![t] = copies[t] + 1] /\ top' \in Timers
    BY <1>1, <1>t, PushHeap DEF addTimerPush
  <2>3. Pushed' = Pushed \cup {t} /\ t \notin Pushed
    BY <1>t, <2>1 DEF Pushed
  <2>4. IsFiniteSet(Pushed) /\ Cardinality(Pushed) \in Nat
    <3>1. Pushed \subseteq Timers
      BY DEF Pushed
    <3>2. IsFiniteSet(Pushed)
      BY <3>1, FiniteAssumption, FS_Subset
    <3> QED
      BY <3>2, FS_CardinalityType
  <2>5. Cardinality(Pushed') = Cardinality(Pushed) + 1
    BY <2>3, <2>4, FS_AddElement
  <2>6. /\ IsFiniteSet(Entries(copies'))
        /\ Cardinality(Entries(copies')) = Cardinality(Entries(copies)) + 1
        /\ Cardinality(Entries(copies)) \in Nat
    BY <1>t, <2>2, EntriesAdd, FS_CardinalityType DEF CountInv
  <2>7. Entries(copies)' = Entries(copies')
    BY DEF Entries
  <2>8. top' # NoTimer
    BY <2>2, TimersAssumption
  <2> QED
    BY <2>1, <2>4, <2>5, <2>6, <2>7, <2>8 DEF CountInv
<1>2. CASE AddMessage(t) \/ addTimerState(t) \/ addTimerNotify(t) \/ AddMessageIndex(t)
  <2>1. PICK a : /\ adder' = [adder EXCEPT ![t] = a]
                 /\ adder[t] \in {"new", "push"} <=> a \in {"new", "push"}
    BY <1>2 DEF AddMessage, addTimerState, addTimerNotify, AddMessageIndex
  <2>2. Pushed' = Pushed
    BY <1>t, <2>1 DEF Pushed
  <2>3. CountSame
    BY <1>2, <2>2 DEF AddMessage, addTimerState, addTimerNotify, AddMessageIndex, Wake,
                      CountSame, CountInv, heap, thread
  <2> QED
    BY <2>3, CountKept
<1> QED
  BY <1>1, <1>2 DEF AddStep

(* All steps together. *)
LEMMA CountNext ==
  ASSUME Inv, CountInv, [Next]_vars
  PROVE  CountInv'
<1>1. CASE Tick \/ Close \/ CloseJoin \/ \E t \in Timers : Close_Timer(t)
  <2>1. CountSame
    BY <1>1 DEF Tick, Close, CloseJoin, Close_Timer, Wake, CountSame, CountInv, Pushed, heap,
                thread, QueueLocked
  <2> QED
    BY <2>1, CountKept
<1>2. CASE UNCHANGED vars
  <2>1. CountSame
    BY <1>2 DEF vars, CountSame, CountInv, Pushed, heap, thread, QueueLocked
  <2> QED
    BY <2>1, CountKept
<1> QED
  BY <1>1, <1>2, CountThread, CountAdd DEF Next

(* At the start mTimers is empty. *)
LEMMA CountInit == Init => CountInv
<1> SUFFICES ASSUME Init PROVE CountInv
  OBVIOUS
<1>1. Entries(copies) = {}
  BY DEF Init, Entries
<1>2. Pushed = {} /\ ~QueueLocked /\ pc = "boot"
  BY DEF Init, Pushed, QueueLocked
<1> QED
  BY <1>1, <1>2, FS_EmptySet DEF CountInv

-----------------------------------------------------------------------------
(* The types of the rest: times, flags and the histories. *)
ValueInv ==
    /\ rem \in [Timers -> Int]
    /\ delay \in [Timers -> Nat]
    /\ ordered \in BOOLEAN
    /\ timer_run_ \in BOOLEAN
    /\ timer_wakeup_state \in {"ADD", "EXECUTE"}
    /\ left \in Int
    /\ m_mapTimeridList \subseteq Timers
    /\ closer \in {"no", "join", "done"}
    /\ fired \in [Timers -> 0 .. 2]
    /\ owed \in [Timers -> Nat]

(* They hold at the start and are kept. *)
LEMMA ValueInit == Init => ValueInv
<1> SUFFICES ASSUME Init PROVE ValueInv
  OBVIOUS
<1>1. ordered \in BOOLEAN /\ timer_run_ \in BOOLEAN
  BY Zenon DEF Init
<1> QED
  BY <1>1, TimesAssumption DEF Init, ValueInv

LEMMA ValueNext ==
  ASSUME Inv, ValueInv, [Next]_vars
  PROVE  ValueInv'
<1> USE DEF timer, heap, flags, thread, hist
<1>t. pc \in {"wait", "asleep", "awake", "fire", "call", "erase", "again", "mark"}
         => tmp \in Timers
  BY DEF Inv, TypeInv
<1>1. CASE Tick
  BY <1>1 DEF Tick, ValueInv
<1>2. CASE schedule \/ timer_run \/ WaitLeft \/ WaitEnds \/ SpuriousWake \/ Awake
  BY <1>2, Zenon DEF schedule, timer_run, WaitLeft, WaitEnds, SpuriousWake, Awake, ValueInv
<1>13. CASE schedule_while
  BY <1>13, Zenon DEF schedule_while, ValueInv
<1>12. CASE WaitEmpty
  <2>1. left' \in Int
    BY <1>12, TimesAssumption DEF WaitEmpty
  <2> QED
    BY <1>12, <2>1 DEF WaitEmpty, ValueInv
<1>3. CASE Look
  <2>1. CASE UNCHANGED <<delay, left>>
    BY <1>3, <2>1 DEF Look, ValueInv
  <2>2. CASE /\ top # NoTimer /\ left' = rem[top] + delay[top]
             /\ delay' = [delay EXCEPT ![top] = 0]
    <3>1. top \in Timers
      BY <2>2 DEF Inv, TypeInv
    <3> QED
      BY <1>3, <2>2, <3>1 DEF Look, ValueInv
  <2> QED
    BY <1>3, <2>1, <2>2 DEF Look
<1>4. CASE Fire
  BY <1>4 DEF Fire, Pop, ValueInv
<1>5. CASE Call
  BY <1>5, <1>t DEF Call, ValueInv
<1>6. CASE CallTorn \/ CallErase \/ Mark
  BY <1>6 DEF CallTorn, CallErase, Mark, ValueInv
<1>7. CASE Again
  <2>1. rem' \in [Timers -> Int]
    <3>1. tmp \in Timers /\ rem' = [rem EXCEPT ![tmp] = Last[tmp]]
      BY <1>7, <1>t DEF Again
    <3>2. Last[tmp] \in Int /\ rem \in [Timers -> Int]
      <4>1. Last \in [Timers -> Nat \ {0}]
        BY TimesAssumption, Zenon
      <4>2. Last[tmp] \in Nat \ {0}
        BY <3>1, <4>1, Zenon
      <4>3. Last[tmp] \in Int
        BY <4>2
      <4> QED
        BY <4>3, Zenon DEF ValueInv
    <3> QED
      BY <3>1, <3>2
  <2>2. ordered' = (ordered /\ Alone(tmp))
    BY <1>7 DEF Again, Push
  <2>3. ordered' \in BOOLEAN
    BY <2>2, Zenon
  <2> QED
    BY <1>7, <2>1, <2>3 DEF Again, ValueInv
<1>8. ASSUME NEW t \in Timers, AddMessage(t) \/ AddStep(t)
      PROVE  ValueInv'
  BY <1>8 DEF AddMessage, AddStep, addTimerPush, Push, addTimerState, addTimerNotify,
              AddMessageIndex, ValueInv
<1>9. ASSUME NEW t \in Timers, Close_Timer(t)
      PROVE  ValueInv'
  BY <1>9 DEF Close_Timer, ValueInv
<1>10. CASE Close \/ CloseJoin
  BY <1>10, Zenon DEF Close, CloseJoin, ValueInv
<1>11. CASE UNCHANGED vars
  BY <1>11 DEF vars, ValueInv
<1> QED
  BY <1>1, <1>2, <1>3, <1>4, <1>5, <1>6, <1>7, <1>8, <1>9, <1>10, <1>11, <1>12, <1>13
     DEF Next, TimerThread

(* The state keeps its type.  What is not plain about it is the bound on    *)
(* copies: timer_run() may pop an entry of another timer than the one it    *)
(* runs and push that one again, so that one timer is in mTimers more than  *)
(* once, but never more often than timers were added.                       *)
THEOREM TypeCorrect == Spec => []TypeOK
<1> DEFINE J == Inv /\ CountInv /\ ValueInv
<1>1. Init => J
  BY InitInv, CountInit, ValueInit
<1>2. J /\ [Next]_vars => CountInv' /\ ValueInv'
  BY CountNext, ValueNext
<1>3. J => TypeOK
  <2> SUFFICES ASSUME J PROVE TypeOK
    OBVIOUS
  <2>1. TypeInv /\ copies \in [Timers -> Nat]
    BY DEF Inv, TypeInv
  <2>2. Pushed \subseteq Timers
    BY DEF Pushed
  <2>3. /\ Cardinality(Pushed) \in Nat /\ Cardinality(Timers) \in Nat
        /\ Cardinality(Pushed) <= Cardinality(Timers)
    BY <2>2, FiniteAssumption, FS_Subset, FS_CardinalityType
  <2>4. /\ Cardinality(Entries(copies)) \in Nat
        /\ Cardinality(Entries(copies)) <= Cardinality(Pushed)
    BY <2>3, FS_CardinalityType DEF CountInv
  <2>5. \A t \in Timers : copies[t] <= Cardinality(Timers)
    BY <2>1, <2>3, <2>4, CopiesBounded DEF CountInv
  <2>6. copies \in [Timers -> 0 .. Cardinality(Timers)]
    BY <2>1, <2>3, <2>5
  <2> QED
    BY <2>1, <2>6 DEF TypeInv, ValueInv, TypeOK, Places
<1> HIDE DEF J
<1>4. Spec => [](CountInv /\ ValueInv)
  <2>1. Inv /\ CountInv /\ ValueInv /\ [Next]_vars => CountInv' /\ ValueInv'
    BY <1>2 DEF J
  <2>2. Init => CountInv /\ ValueInv
    BY <1>1 DEF J
  <2> QED
    BY Invariance, <2>1, <2>2, PTL DEF Spec
<1>5. Inv /\ CountInv /\ ValueInv => TypeOK
  BY <1>3 DEF J
<1> QED
  BY Invariance, <1>4, <1>5, PTL
=============================================================================
