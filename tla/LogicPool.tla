----------------------------- MODULE LogicPool -----------------------------
(***************************************************************************)
(* The logic threads of the TMS (tms.hpp): CLogicTasK with its             *)
(* CMessageQueue (ThreadQueue.h), the table m_mapLogicList and the thread  *)
(* count that clients use to pick "their" thread.                          *)
(*                                                                         *)
(* A message is known by its ticket, its number in the order in which its  *)
(* queue took it; ticket CLOSE is the LOGIC_TYPE_CLOSE message.  What the  *)
(* function in a message does is not modelled here: any thread, a logic    *)
(* thread in the middle of a message included, may post at any time.       *)
(***************************************************************************)
EXTENDS Integers, Sequences

CONSTANTS LogicCount,  \* threads load_module is asked for
          Conns,       \* connect ids that post messages
          MaxMsgs      \* bound: messages accepted per logic thread

ASSUME LogicCountAssumption == LogicCount \in Nat
ASSUME ConnsAssumption == Conns \subseteq Nat
ASSUME MaxMsgsAssumption == MaxMsgs \in Nat

Logics == 0 .. (LogicCount - 1)

CLOSE == 0

NoLogic == -1

VARIABLES
    m_mapLogicList,      \* ids that AddMessage finds
    m_nLogicThreadCount, \* what Get_Logic_Count returns
    creator,             \* run()'s loop: next id and step within CreateLogic
    m_run,               \* CLogicTasK::m_run
    queue,               \* CMessageQueue::_queue
    wpc,                 \* where svc() is
    hand,                \* the message svc() has popped
    closer,              \* the thread inside CloseLogic or Close
    accepted, ran,       \* history: messages taken, messages completed
    dropped              \* history: a routed message found no thread

tables  == <<m_mapLogicList, m_nLogicThreadCount, creator>>
workers == <<m_run, queue, wpc, hand>>
vars    == <<tables, workers, closer, accepted, ran, dropped>>

Init ==
    /\ m_mapLogicList = {}
    /\ m_nLogicThreadCount = 0
    /\ creator = [next |-> 0, pc |-> "create"]
    /\ m_run = [l \in Logics |-> FALSE]
    /\ queue = [l \in Logics |-> <<>>]
    /\ wpc = [l \in Logics |-> "none"]
    /\ hand = [l \in Logics |-> CLOSE]
    /\ closer = [pc |-> "idle", l |-> NoLogic, all |-> FALSE]
    /\ accepted = [l \in Logics |-> 0]
    /\ ran = [l \in Logics |-> 0]
    /\ dropped = FALSE

-----------------------------------------------------------------------------
(* CMessageQueue.  Push and the body of Pop hold _mutex throughout, so each *)
(* is one step; the wait inside Pop gives the mutex up.                     *)

(* Mutants of Push: the newest message first; no notify_one. *)
PushFront(l, msg) ==
    /\ queue' = [queue EXCEPT ![l] = <<msg>> \o @]
    /\ wpc' = [wpc EXCEPT ![l] = IF @ = "asleep" THEN "pop" ELSE @]

PushSilent(l, msg) ==
    /\ queue' = [queue EXCEPT ![l] = Append(@, msg)]
    /\ UNCHANGED wpc

Push(l, msg) ==
    /\ queue' = [queue EXCEPT ![l] = Append(@, msg)]
    /\ wpc' = [wpc EXCEPT ![l] = IF @ = "asleep" THEN "pop" ELSE @]

Pop(l) ==
    /\ wpc[l] = "pop"
    /\ queue[l] # <<>>
    /\ hand' = [hand EXCEPT ![l] = Head(queue[l])]
    /\ queue' = [queue EXCEPT ![l] = Tail(@)]
    /\ wpc' = [wpc EXCEPT ![l] = IF Head(queue[l]) = CLOSE THEN "exit" ELSE "run"]
    /\ UNCHANGED <<tables, m_run, closer, accepted, ran, dropped>>

PopWait(l) ==
    /\ wpc[l] = "pop"
    /\ queue[l] = <<>>
    /\ wpc' = [wpc EXCEPT ![l] = "asleep"]
    /\ UNCHANGED <<tables, m_run, queue, hand, closer, accepted, ran, dropped>>

(* A condition variable may wake without having been notified. *)
SpuriousWake(l) ==
    /\ wpc[l] = "asleep"
    /\ wpc' = [wpc EXCEPT ![l] = "pop"]
    /\ UNCHANGED <<tables, m_run, queue, hand, closer, accepted, ran, dropped>>

-----------------------------------------------------------------------------
(* CLogicTasK::svc, the body of a logic thread. *)

(* Mutant of SvcCheck: the loop does not look at m_run. *)
SvcCheckAlways(l) ==
    /\ wpc[l] = "check"
    /\ wpc' = [wpc EXCEPT ![l] = "pop"]
    /\ UNCHANGED <<tables, m_run, queue, hand, closer, accepted, ran, dropped>>

SvcCheck(l) ==
    /\ wpc[l] = "check"
    /\ wpc' = [wpc EXCEPT ![l] = IF m_run[l] THEN "pop" ELSE "exit"]
    /\ UNCHANGED <<tables, m_run, queue, hand, closer, accepted, ran, dropped>>

(* Mutant of SvcRun: the break is taken after an ordinary message. *)
SvcRunOnce(l) ==
    /\ wpc[l] = "run"
    /\ ran' = [ran EXCEPT ![l] = @ + 1]
    /\ wpc' = [wpc EXCEPT ![l] = "exit"]
    /\ UNCHANGED <<tables, m_run, queue, hand, closer, accepted, dropped>>

SvcRun(l) ==
    /\ wpc[l] = "run"
    /\ ran' = [ran EXCEPT ![l] = @ + 1]
    /\ wpc' = [wpc EXCEPT ![l] = "check"]
    /\ UNCHANGED <<tables, m_run, queue, hand, closer, accepted, dropped>>

-----------------------------------------------------------------------------
(* TMS::CreateLogic, called by run() for 0, 1, ..., LogicCount - 1.         *)

CreateLogic(l) ==
    /\ creator = [next |-> l, pc |-> "create"]
    /\ l \notin m_mapLogicList
    /\ m_run' = [m_run EXCEPT ![l] = TRUE]
    /\ wpc' = [wpc EXCEPT ![l] = "check"]
    /\ m_mapLogicList' = m_mapLogicList \cup {l}
    /\ creator' = [creator EXCEPT !.pc = "count"]
    /\ UNCHANGED <<m_nLogicThreadCount, queue, hand, closer, accepted, ran, dropped>>

(* Mutant of CreateLogicCount: the thread is counted twice. *)
CreateLogicCountTwice ==
    /\ creator.pc = "count"
    /\ m_nLogicThreadCount' = m_nLogicThreadCount + 2
    /\ creator' = [next |-> creator.next + 1, pc |-> "create"]
    /\ UNCHANGED <<m_mapLogicList, workers, closer, accepted, ran, dropped>>

CreateLogicCount ==
    /\ creator.pc = "count"
    /\ m_nLogicThreadCount' = m_nLogicThreadCount + 1
    /\ creator' = [next |-> creator.next + 1, pc |-> "create"]
    /\ UNCHANGED <<m_mapLogicList, workers, closer, accepted, ran, dropped>>

-----------------------------------------------------------------------------
(* Posting.  A client posts to the thread its connect id is mapped to;      *)
(* AddMessage refuses a message for an id that is not in the table.         *)

(* Mutant of get_tms_logic_id: thread ids taken to start from 1. *)
get_tms_logic_id_from_1(c) ==
    IF m_nLogicThreadCount = 0 THEN 0 ELSE 1 + (c % m_nLogicThreadCount)

get_tms_logic_id(c) ==
    IF m_nLogicThreadCount = 0 THEN 0 ELSE c % m_nLogicThreadCount

AddMessage(c) ==
    LET l == get_tms_logic_id(c)
    IN  \/ /\ l \in m_mapLogicList
           /\ accepted[l] < MaxMsgs
           /\ accepted' = [accepted EXCEPT ![l] = @ + 1]
           /\ Push(l, accepted[l] + 1)
           /\ UNCHANGED <<tables, m_run, hand, closer, ran, dropped>>
        \/ /\ l \notin m_mapLogicList
           /\ m_nLogicThreadCount > 0
           /\ dropped' = TRUE
           /\ UNCHANGED <<tables, workers, closer, accepted, ran>>

-----------------------------------------------------------------------------
(* Closing: TMS::CloseLogic closes one thread, TMS::Close all that are in   *)
(* the table, in the table's order; both call CLogicTasK::Close.            *)

Loaded == creator.next = LogicCount

CloseLogic(l) ==
    /\ Loaded
    /\ closer.pc = "idle"
    /\ l \in m_mapLogicList
    /\ closer' = [pc |-> "flag", l |-> l, all |-> FALSE]
    /\ UNCHANGED <<tables, workers, accepted, ran, dropped>>

IsFirst(l, S) == l \in S /\ \A k \in S : l <= k

Close ==
    /\ Loaded
    /\ closer.pc = "idle"
    /\ \/ \E l \in m_mapLogicList :
             /\ IsFirst(l, m_mapLogicList)
             /\ closer' = [pc |-> "flag", l |-> l, all |-> TRUE]
       \/ /\ m_mapLogicList = {}
          /\ closer' = [closer EXCEPT !.pc = "done"]
    /\ UNCHANGED <<tables, workers, accepted, ran, dropped>>

CloseFlag ==
    /\ closer.pc = "flag"
    /\ m_run' = [m_run EXCEPT ![closer.l] = FALSE]
    /\ closer' = [closer EXCEPT !.pc = "put"]
    /\ UNCHANGED <<tables, queue, wpc, hand, accepted, ran, dropped>>

(* Mutant of ClosePut: no CLOSE message. *)
ClosePutNothing ==
    /\ closer.pc = "put"
    /\ closer' = [closer EXCEPT !.pc = "join"]
    /\ UNCHANGED <<tables, workers, accepted, ran, dropped>>

ClosePut ==
    /\ closer.pc = "put"
    /\ Push(closer.l, CLOSE)
    /\ closer' = [closer EXCEPT !.pc = "join"]
    /\ UNCHANGED <<tables, m_run, hand, accepted, ran, dropped>>

Later(l) == {k \in m_mapLogicList : l < k}

CloseJoin ==
    /\ closer.pc = "join"
    /\ wpc[closer.l] = "exit"
    /\ \/ /\ ~closer.all
          /\ m_mapLogicList' = m_mapLogicList \ {closer.l}
          /\ closer' = [closer EXCEPT !.pc = "idle"]
       \/ /\ closer.all
          /\ Later(closer.l) = {}
          /\ closer' = [closer EXCEPT !.pc = "done"]
          /\ UNCHANGED m_mapLogicList
       \/ /\ closer.all
          /\ \E k \in Later(closer.l) :
                /\ IsFirst(k, Later(closer.l))
                /\ closer' = [closer EXCEPT !.pc = "flag", !.l = k]
          /\ UNCHANGED m_mapLogicList
    /\ UNCHANGED <<m_nLogicThreadCount, creator, workers, accepted, ran, dropped>>

-----------------------------------------------------------------------------

Svc(l) == SvcCheck(l) \/ Pop(l) \/ PopWait(l) \/ SvcRun(l)

CloserStep == CloseFlag \/ ClosePut \/ CloseJoin

Next ==
    \/ \E l \in Logics : Svc(l) \/ SpuriousWake(l) \/ CreateLogic(l) \/ CloseLogic(l)
    \/ CreateLogicCount
    \/ \E c \in Conns : AddMessage(c)
    \/ Close
    \/ CloserStep
    \/ closer.pc = "done" /\ UNCHANGED vars     \* the pool is shut down

(* A logic thread and a thread inside Close are ordinary threads the system *)
(* schedules; users, and the peers whose data is posted, owe nothing.       *)
Fairness ==
    /\ \A l \in Logics : WF_vars(Svc(l))
    /\ WF_vars(CloserStep)

Spec == Init /\ [][Next]_vars /\ Fairness
-----------------------------------------------------------------------------
(* Properties. *)

TypeOK ==
    /\ m_mapLogicList \subseteq Logics
    /\ m_nLogicThreadCount \in 0 .. LogicCount
    /\ creator \in [next : 0 .. LogicCount, pc : {"create", "count"}]
    /\ m_run \in [Logics -> BOOLEAN]
    /\ queue \in [Logics -> Seq(Nat)]
    /\ wpc \in [Logics -> {"none", "check", "pop", "asleep", "run", "exit"}]
    /\ hand \in [Logics -> Nat]
    /\ closer \in [pc : {"idle", "flag", "put", "join", "done"},
                   l : Logics \cup {NoLogic}, all : BOOLEAN]
    /\ accepted \in [Logics -> Nat]
    /\ ran \in [Logics -> Nat]
    /\ dropped \in BOOLEAN

(* Messages completed by l or in its hands. *)
Taken(l) == ran[l] + (IF wpc[l] = "run" THEN 1 ELSE 0)

(* s continues t: it holds t + 1, t + 2, ..., a. *)
Continues(s, t, a) ==
    /\ \A i \in 1 .. Len(s) : s[i] = t + i
    /\ a = t + Len(s)

(* The same, with a CLOSE in between, at place p. *)
ContinuesButClose(s, t, a, p) ==
    /\ s[p] = CLOSE
    /\ \A i \in 1 .. (p - 1) : s[i] = t + i
    /\ \A i \in (p + 1) .. Len(s) : s[i] = t + i - 1
    /\ a = t + Len(s) - 1

Orderly(s, t, a) ==
    Continues(s, t, a) \/ \E p \in 1 .. Len(s) : ContinuesButClose(s, t, a, p)

(* The messages a logic thread has run, has in hand and still holds in its *)
(* queue are the ones it accepted, each once and in the order of the calls *)
(* of AddMessage, with at most one CLOSE among them: svc() and Push lose,  *)
(* repeat and reorder nothing, whatever the closing thread does meanwhile. *)
InOrder ==
    \A l \in Logics :
        /\ wpc[l] = "run" => hand[l] = ran[l] + 1
        /\ Orderly(queue[l], Taken(l), accepted[l])

(* A logic thread never sleeps on its condition variable while its queue   *)
(* holds a message: the notify_one of Push reaches it, whenever it comes.  *)
NoLostWakeup == \A l \in Logics : wpc[l] = "asleep" => queue[l] = <<>>

(* The thread a connect id is mapped to by get_tms_logic_id exists from the *)
(* moment the count is not zero: a routed message is refused only after    *)
(* CloseLogic has taken a thread away (which leaves the count as it was).  *)
DropOnlyAfterCloseLogic ==
    dropped => \E l \in Logics : l \notin m_mapLogicList /\ wpc[l] = "exit"

(* A message that AddMessage accepted is run, unless the thread is closed. *)
AcceptedIsRun ==
    \A l \in Logics : \A n \in 1 .. MaxMsgs :
        (accepted[l] >= n) ~> (ran[l] >= n \/ ~m_run[l])

(* CLogicTasK::Close returns: the join meets a thread that ends, however   *)
(* the flag, the CLOSE message and the messages in flight interleave.      *)
CloseReturns == (closer.pc = "flag") ~> (closer.pc \in {"idle", "done"})

(* Each logic thread implements the abstract channel: accepted messages in *)
(* order, and at most one completed after Close has cleared m_run.         *)
AbstractPhase ==
    [l \in Logics |->
        CASE wpc[l] = "none" -> "new"
          [] wpc[l] # "none" /\ m_run[l] -> "open"
          [] ~m_run[l] /\ wpc[l] \in {"pop", "asleep", "run"} -> "last"
          [] OTHER -> "closed"]

Channel == INSTANCE TaskChannel WITH Channels <- Logics, phase <- AbstractPhase

IsTaskChannel == Channel!Spec
=============================================================================
