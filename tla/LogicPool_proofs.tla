-------------------------- MODULE LogicPool_proofs --------------------------
(***************************************************************************)
(* Proofs about the logic threads, for any number of threads, connect ids  *)
(* and messages.                                                           *)
(***************************************************************************)
EXTENDS LogicPool, TLAPS

(* Two actions change m_mapLogicList and the threads at different moments;  *)
(* the count is the number of CreateLogic calls that have returned.         *)
CountInv ==
    /\ m_nLogicThreadCount = creator.next
    /\ creator.pc = "count" => creator.next \in Logics

TypeInv == TypeOK /\ CountInv

(* In the initial states nothing has been created. *)
LEMMA TypeInit == Init => TypeInv
<1> SUFFICES ASSUME Init PROVE TypeInv
  OBVIOUS
<1>1. /\ m_mapLogicList \subseteq Logics
      /\ m_nLogicThreadCount \in 0 .. LogicCount
      /\ creator \in [next : 0 .. LogicCount, pc : {"create", "count"}]
      /\ CountInv
  BY LogicCountAssumption DEF Init, CountInv
<1>2. /\ queue \in [Logics -> Seq(Nat)]
      /\ wpc \in [Logics -> {"none", "check", "pop", "asleep", "run", "exit"}]
      /\ hand \in [Logics -> Nat]
      /\ accepted \in [Logics -> Nat]
      /\ ran \in [Logics -> Nat]
  BY DEF Init, CLOSE
<1>3. /\ m_run \in [Logics -> BOOLEAN]
      /\ dropped \in BOOLEAN
  BY Zenon DEF Init
<1>4. closer \in [pc : {"idle", "flag", "put", "join", "done"},
                 l : Logics \cup {NoLogic}, all : BOOLEAN]
  BY Zenon DEF Init
<1> QED
  BY <1>1, <1>2, <1>3, <1>4, Zenon DEF TypeInv, TypeOK

(* Push keeps the types of the queue and of the program counters. *)
LEMMA PushType ==
  ASSUME TypeOK, NEW l, NEW msg \in Nat, Push(l, msg)
  PROVE  /\ queue' \in [Logics -> Seq(Nat)]
         /\ wpc' \in [Logics -> {"none", "check", "pop", "asleep", "run", "exit"}]
<1>1. queue' \in [Logics -> Seq(Nat)]
  <2>1. \A k \in Logics : queue[k] \in Seq(Nat) /\ Append(queue[k], msg) \in Seq(Nat)
    BY DEF TypeOK
  <2>2. queue' = [k \in Logics |-> IF k = l THEN Append(queue[k], msg) ELSE queue[k]]
    BY DEF TypeOK, Push
  <2> QED
    BY <2>1, <2>2
<1>2. wpc' \in [Logics -> {"none", "check", "pop", "asleep", "run", "exit"}]
  BY DEF TypeOK, Push
<1> QED
  BY <1>1, <1>2

(* Every action keeps the types and the count. *)
LEMMA TypeNext == TypeInv /\ [Next]_vars => TypeInv'
<1> SUFFICES ASSUME TypeInv, [Next]_vars PROVE TypeInv'
  OBVIOUS
<1> USE LogicCountAssumption DEF TypeInv, TypeOK, CountInv
<1>1. ASSUME NEW l \in Logics, SvcCheck(l) PROVE TypeInv'
  BY <1>1 DEF SvcCheck, tables
<1>2. ASSUME NEW l \in Logics, Pop(l) PROVE TypeInv'
  BY <1>2 DEF Pop, tables
<1>3. ASSUME NEW l \in Logics, PopWait(l) PROVE TypeInv'
  BY <1>3 DEF PopWait, tables
<1>4. ASSUME NEW l \in Logics, SvcRun(l) PROVE TypeInv'
  BY <1>4 DEF SvcRun, tables
<1>5. ASSUME NEW l \in Logics, SpuriousWake(l) PROVE TypeInv'
  BY <1>5 DEF SpuriousWake, tables
<1>6. ASSUME NEW l \in Logics, CreateLogic(l) PROVE TypeInv'
  BY <1>6 DEF CreateLogic
<1>7. CASE CreateLogicCount
  <2>1. creator.next \in 0 .. (LogicCount - 1)
    BY <1>7 DEF CreateLogicCount, Logics
  <2>2. /\ creator' \in [next : 0 .. LogicCount, pc : {"create", "count"}]
        /\ m_nLogicThreadCount' \in 0 .. LogicCount
        /\ CountInv'
    BY <1>7, <2>1 DEF CreateLogicCount
  <2> QED
    BY <1>7, <2>2 DEF CreateLogicCount, workers
<1>8. ASSUME NEW c \in Conns, AddMessage(c) PROVE TypeInv'
  <2> DEFINE l == get_tms_logic_id(c)
  <2>1. CASE /\ l \in m_mapLogicList
             /\ accepted' = [accepted EXCEPT ![l] = @ + 1]
             /\ Push(l, accepted[l] + 1)
             /\ UNCHANGED <<tables, m_run, hand, closer, ran, dropped>>
    <3> HIDE DEF l
    <3>1. accepted[l] + 1 \in Nat
      BY <2>1
    <3> QED
      BY <2>1, <3>1, PushType DEF tables
  <2>2. CASE /\ dropped' = TRUE
             /\ UNCHANGED <<tables, workers, closer, accepted, ran>>
    BY <2>2 DEF tables, workers
  <2> QED
    BY <1>8, <2>1, <2>2 DEF AddMessage
<1>9. ASSUME NEW l \in Logics, CloseLogic(l) PROVE TypeInv'
  BY <1>9 DEF CloseLogic, tables, workers
<1>10. CASE Close
  <2>1. closer' \in [pc : {"idle", "flag", "put", "join", "done"},
                    l : Logics \cup {NoLogic}, all : BOOLEAN]
    <3>1. CASE \E l \in m_mapLogicList : closer' = [pc |-> "flag", l |-> l, all |-> TRUE]
      <4>1. \A l \in m_mapLogicList : l \in Logics \cup {NoLogic}
        OBVIOUS
      <4> QED
        BY <3>1, <4>1
    <3>2. CASE closer' = [closer EXCEPT !.pc = "done"]
      BY <3>2
    <3> QED
      BY <1>10, <3>1, <3>2 DEF Close
  <2> QED
    BY <1>10, <2>1 DEF Close, tables, workers
<1>11. CASE CloseFlag
  BY <1>11 DEF CloseFlag, tables
<1>12. CASE ClosePut
  <2>1. CLOSE \in Nat
    BY DEF CLOSE
  <2> QED
    BY <1>12, <2>1, PushType DEF ClosePut, tables
<1>13. CASE CloseJoin
  <2>1. m_mapLogicList' \subseteq Logics
    BY <1>13 DEF CloseJoin
  <2>2. closer' \in [pc : {"idle", "flag", "put", "join", "done"},
                    l : Logics \cup {NoLogic}, all : BOOLEAN]
    <3>1. CASE \E k \in m_mapLogicList : closer' = [closer EXCEPT !.pc = "flag", !.l = k]
      <4>1. PICK k \in m_mapLogicList : closer' = [closer EXCEPT !.pc = "flag", !.l = k]
        BY <3>1
      <4>2. k \in Logics
        BY DEF TypeOK
      <4> QED
        BY <4>1, <4>2
    <3>2. CASE \E p \in {"idle", "done"} : closer' = [closer EXCEPT !.pc = p]
      BY <3>2
    <3> QED
      BY <1>13, <3>1, <3>2 DEF CloseJoin, Later
  <2> QED
    BY <1>13, <2>1, <2>2 DEF CloseJoin, workers
<1>14. CASE UNCHANGED vars
  BY <1>14 DEF vars, tables, workers
<1> QED
  BY <1>1, <1>2, <1>3, <1>4, <1>5, <1>6, <1>7, <1>8, <1>9, <1>10, <1>11, <1>12,
     <1>13, <1>14 DEF Next, Svc, CloserStep

(* Type correctness of the pool, whatever the threads do to each other. *)
THEOREM TypeCorrect == Spec => []TypeOK
<1>1. Spec => []TypeInv
  BY TypeInit, TypeNext, PTL DEF Spec
<1>2. TypeInv => TypeOK
  BY DEF TypeInv
<1> QED
  BY <1>1, <1>2, PTL

-----------------------------------------------------------------------------
(* The condition variable.                                                  *)

(* Whoever adds a message wakes the sleeper in the same critical section,   *)
(* and a thread falls asleep only in the one that saw an empty queue.       *)
LEMMA WakeupNext == TypeInv /\ NoLostWakeup /\ [Next]_vars => NoLostWakeup'
<1> SUFFICES ASSUME TypeInv, NoLostWakeup, [Next]_vars PROVE NoLostWakeup'
  OBVIOUS
<1> USE DEF TypeInv, TypeOK, NoLostWakeup
<1>1. ASSUME NEW l \in Logics, Svc(l) PROVE NoLostWakeup'
  BY <1>1 DEF Svc, SvcCheck, Pop, PopWait, SvcRun
<1>2. ASSUME NEW l \in Logics, SpuriousWake(l) PROVE NoLostWakeup'
  BY <1>2 DEF SpuriousWake
<1>3. ASSUME NEW l \in Logics, CreateLogic(l) PROVE NoLostWakeup'
  BY <1>3 DEF CreateLogic
<1>4. ASSUME NEW l, NEW msg, Push(l, msg) PROVE NoLostWakeup'
  BY <1>4 DEF Push
<1>5. ASSUME UNCHANGED <<queue, wpc>> PROVE NoLostWakeup'
  BY <1>5
<1>6. ASSUME NEW c \in Conns, AddMessage(c) PROVE NoLostWakeup'
  BY <1>4, <1>5, <1>6 DEF AddMessage, workers
<1>7. ASSUME NEW l \in Logics, CloseLogic(l) PROVE NoLostWakeup'
  BY <1>5, <1>7 DEF CloseLogic, workers
<1>8. CASE CreateLogicCount \/ Close \/ CloseFlag \/ CloseJoin \/ UNCHANGED vars
  BY <1>5, <1>8 DEF CreateLogicCount, Close, CloseFlag, CloseJoin, vars, workers
<1>9. CASE ClosePut
  BY <1>4, <1>9 DEF ClosePut
<1> QED
  BY <1>1, <1>2, <1>3, <1>6, <1>7, <1>8, <1>9 DEF Next, CloserStep

(* No logic thread ever sleeps on a queue that holds a message, however     *)
(* many threads post and close at the same time.                            *)
THEOREM WakeupCorrect == Spec => []NoLostWakeup
<1>1. Init => NoLostWakeup
  BY DEF Init, NoLostWakeup
<1> QED
  BY <1>1, TypeInit, TypeNext, WakeupNext, PTL DEF Spec

-----------------------------------------------------------------------------
(* Order.  InOrder is not inductive: a second CLOSE in one queue would break *)
(* it, so the invariant also says which threads have none yet.               *)

(* Creation: a thread is in the table only if it was started, and the ones  *)
(* that CreateLogic is still to be called for have never been used.         *)
CreatedInv ==
    \A l \in Logics :
        /\ l \in m_mapLogicList => wpc[l] # "none"
        /\ wpc[l] = "none" => queue[l] = <<>> /\ accepted[l] = 0 /\ ran[l] = 0
        /\ (creator.pc = "create" /\ creator.next <= l) => wpc[l] = "none"
        /\ (creator.pc = "count" /\ creator.next < l) => wpc[l] = "none"

(* Closing begins when creation is over, and works on a thread in the table. *)
CloserInv ==
    /\ closer.pc # "idle" => Loaded
    /\ closer.pc = "idle" => ~closer.all
    /\ closer.pc \in {"flag", "put", "join"} => closer.l \in m_mapLogicList

(* No CLOSE has been put for l yet, but one may be. *)
Unclosed(l) ==
    /\ l \in m_mapLogicList
    /\ closer.pc # "done"
    /\ closer.pc = "join" => l # closer.l
    /\ closer.all => closer.l <= l

UnclosedInv ==
    \A l \in Logics : Unclosed(l) => Continues(queue[l], Taken(l), accepted[l])

OrderInv == TypeInv /\ CreatedInv /\ CloserInv /\ UnclosedInv /\ InOrder

-----------------------------------------------------------------------------
(* What Push and Pop do to an orderly queue. *)

(* Accepting the next message. *)
LEMMA AppendNext ==
  ASSUME NEW s \in Seq(Nat), NEW t \in Nat, NEW a \in Nat
  PROVE  /\ Continues(s, t, a) => Continues(Append(s, a + 1), t, a + 1)
         /\ Orderly(s, t, a) => Orderly(Append(s, a + 1), t, a + 1)
<1> DEFINE r == Append(s, a + 1)
<1>1. /\ Len(r) = Len(s) + 1
      /\ r[Len(s) + 1] = a + 1
      /\ \A i \in 1 .. Len(s) : r[i] = s[i]
      /\ Len(s) \in Nat
  OBVIOUS
<1> HIDE DEF r
<1>2. ASSUME Continues(s, t, a) PROVE Continues(r, t, a + 1)
  <2>1. ASSUME NEW i \in 1 .. Len(r) PROVE r[i] = t + i
    <3>1. CASE i = Len(s) + 1
      BY <1>1, <1>2, <3>1 DEF Continues
    <3>2. CASE i \in 1 .. Len(s)
      BY <1>1, <1>2, <3>2 DEF Continues
    <3> QED
      BY <1>1, <3>1, <3>2
  <2>2. a + 1 = t + Len(r)
    BY <1>1, <1>2 DEF Continues
  <2> QED
    BY <2>1, <2>2 DEF Continues
<1>3. ASSUME NEW p \in 1 .. Len(s), ContinuesButClose(s, t, a, p)
      PROVE  ContinuesButClose(r, t, a + 1, p) /\ p \in 1 .. Len(r)
  <2>1. ASSUME NEW i \in (p + 1) .. Len(r) PROVE r[i] = t + i - 1
    <3>1. CASE i = Len(s) + 1
      BY <1>1, <1>3, <3>1 DEF ContinuesButClose
    <3>2. CASE i \in (p + 1) .. Len(s)
      BY <1>1, <1>3, <3>2 DEF ContinuesButClose
    <3> QED
      BY <1>1, <3>1, <3>2
  <2>2. \A i \in 1 .. (p - 1) : r[i] = t + i
    BY <1>1, <1>3 DEF ContinuesButClose
  <2>3. /\ r[p] = CLOSE
        /\ a + 1 = t + Len(r) - 1
        /\ p \in 1 .. Len(r)
    BY <1>1, <1>3 DEF ContinuesButClose
  <2> QED
    BY <2>1, <2>2, <2>3 DEF ContinuesButClose
<1> QED
  BY <1>2, <1>3 DEF Orderly, r

(* Putting the one CLOSE message. *)
LEMMA AppendClose ==
  ASSUME NEW s \in Seq(Nat), NEW t \in Nat, NEW a \in Nat, Continues(s, t, a)
  PROVE  Orderly(Append(s, CLOSE), t, a)
<1> DEFINE r == Append(s, CLOSE)
<1>1. /\ Len(r) = Len(s) + 1
      /\ r[Len(s) + 1] = CLOSE
      /\ \A i \in 1 .. Len(s) : r[i] = s[i]
      /\ Len(s) \in Nat
  BY DEF CLOSE
<1> HIDE DEF r
<1>2. ContinuesButClose(r, t, a, Len(s) + 1) /\ Len(s) + 1 \in 1 .. Len(r)
  BY <1>1 DEF Continues, ContinuesButClose
<1> QED
  BY <1>2 DEF Orderly, r

(* Taking the front message: it is the next one, or the CLOSE. *)
LEMMA TakeFront ==
  ASSUME NEW s \in Seq(Nat), NEW t \in Nat, NEW a \in Nat, s # <<>>
  PROVE  /\ Continues(s, t, a) => /\ Head(s) = t + 1
                                 /\ Continues(Tail(s), t + 1, a)
         /\ Orderly(s, t, a) =>
              IF Head(s) = CLOSE THEN Orderly(Tail(s), t, a)
                                 ELSE Head(s) = t + 1 /\ Orderly(Tail(s), t + 1, a)
<1> DEFINE r == Tail(s)
<1>1. /\ Len(s) \in Nat /\ Len(s) > 0
      /\ Len(r) = Len(s) - 1
      /\ Head(s) = s[1]
      /\ \A i \in 1 .. Len(r) : r[i] = s[i + 1]
  OBVIOUS
<1> HIDE DEF r
<1>2. ASSUME Continues(s, t, a) PROVE Head(s) = t + 1 /\ Continues(r, t + 1, a)
  BY <1>1, <1>2 DEF Continues
<1>3. ASSUME ContinuesButClose(s, t, a, 1) PROVE Head(s) = CLOSE /\ Continues(r, t, a)
  BY <1>1, <1>3 DEF Continues, ContinuesButClose
<1>4. ASSUME NEW p \in 2 .. Len(s), ContinuesButClose(s, t, a, p)
      PROVE  /\ Head(s) = t + 1
             /\ ContinuesButClose(r, t + 1, a, p - 1)
             /\ p - 1 \in 1 .. Len(r)
  <2>1. /\ p \in Int /\ 2 <= p /\ p - 1 \in 1 .. Len(r)
        /\ a = (t + 1) + Len(r) - 1
        /\ Head(s) = t + 1
    BY <1>1, <1>4 DEF ContinuesButClose
  <2>2. r[p - 1] = CLOSE
    BY <1>1, <1>4, <2>1 DEF ContinuesButClose
  <2>3. ASSUME NEW i \in 1 .. ((p - 1) - 1) PROVE r[i] = (t + 1) + i
    <3>1. i \in 1 .. Len(r) /\ i + 1 \in 1 .. (p - 1)
      BY <1>1, <2>1
    <3> QED
      BY <1>1, <1>4, <3>1 DEF ContinuesButClose
  <2>4. ASSUME NEW i \in ((p - 1) + 1) .. Len(r) PROVE r[i] = (t + 1) + i - 1
    <3>1. i \in 1 .. Len(r) /\ i + 1 \in (p + 1) .. Len(s)
      BY <1>1, <2>1
    <3> QED
      BY <1>1, <1>4, <3>1 DEF ContinuesButClose
  <2> QED
    BY <2>1, <2>2, <2>3, <2>4 DEF ContinuesButClose
<1>5. t + 1 # CLOSE
  BY DEF CLOSE
<1>6. \A p \in 1 .. Len(s) : p = 1 \/ p \in 2 .. Len(s)
  BY <1>1
<1> QED
  BY <1>2, <1>3, <1>4, <1>5, <1>6 DEF Orderly, r

-----------------------------------------------------------------------------
(* The order invariant, part by part. *)

(* Push starts no thread and touches only the queue it pushes to. *)
LEMMA PushWpc ==
  ASSUME TypeOK, NEW l, NEW msg, Push(l, msg), NEW k \in Logics
  PROVE  /\ wpc'[k] = "none" <=> wpc[k] = "none"
         /\ wpc'[k] = "run" <=> wpc[k] = "run"
         /\ queue'[k] = IF k = l THEN Append(queue[k], msg) ELSE queue[k]
  BY DEF TypeOK, Push

(* Threads are created once, in the order of their ids. *)
LEMMA CreatedNext == OrderInv /\ [Next]_vars => CreatedInv'
<1> SUFFICES ASSUME OrderInv, [Next]_vars PROVE CreatedInv'
  OBVIOUS
<1> USE DEF OrderInv, TypeInv, TypeOK, CountInv, CreatedInv
<1>1. ASSUME NEW l \in Logics, Svc(l) \/ SpuriousWake(l) PROVE CreatedInv'
  BY <1>1, SMTT(30) DEF Svc, SvcCheck, Pop, PopWait, SvcRun, SpuriousWake, tables
<1>2. ASSUME NEW l \in Logics, CreateLogic(l) PROVE CreatedInv'
  <2>1. \A k \in Logics : wpc'[k] = IF k = l THEN "check" ELSE wpc[k]
    BY <1>2 DEF CreateLogic
  <2>2. /\ creator.next = l /\ creator.pc = "create"
        /\ creator'.next = l /\ creator'.pc = "count"
        /\ m_mapLogicList' = m_mapLogicList \cup {l}
        /\ UNCHANGED <<queue, accepted, ran>>
    BY <1>2 DEF CreateLogic
  <2>3. \A k \in Logics : l < k => l <= k /\ k # l
    BY LogicCountAssumption DEF Logics
  <2> QED
    BY <2>1, <2>2, <2>3
<1>3. CASE CreateLogicCount
  <2>1. /\ creator'.next = creator.next + 1 /\ creator'.pc = "create"
        /\ creator.pc = "count" /\ creator.next \in Int
        /\ UNCHANGED <<m_mapLogicList, queue, wpc, accepted, ran>>
    BY <1>3, LogicCountAssumption DEF CreateLogicCount, workers
  <2>2. \A k \in Logics : creator.next + 1 <= k => creator.next < k
    BY <2>1, LogicCountAssumption DEF Logics
  <2> QED
    BY <2>1, <2>2
<1>4. ASSUME NEW l \in m_mapLogicList, NEW msg, Push(l, msg),
             UNCHANGED <<tables, ran>>,
             \A k \in Logics : k # l => accepted'[k] = accepted[k]
      PROVE  CreatedInv'
  BY <1>4, PushWpc, SMTT(30) DEF tables
<1>5. ASSUME NEW c \in Conns, AddMessage(c) PROVE CreatedInv'
  <2> DEFINE l == get_tms_logic_id(c)
  <2> HIDE DEF l
  <2>1. CASE /\ l \in m_mapLogicList
             /\ accepted' = [accepted EXCEPT ![l] = @ + 1]
             /\ Push(l, accepted[l] + 1)
             /\ UNCHANGED <<tables, m_run, hand, closer, ran, dropped>>
    BY <1>4, <2>1
  <2>2. CASE UNCHANGED <<tables, workers, closer, accepted, ran>>
    BY <2>2 DEF tables, workers
  <2> QED
    BY <1>5, <2>1, <2>2 DEF AddMessage, l
<1>6. ASSUME NEW l \in Logics, CloseLogic(l) PROVE CreatedInv'
  BY <1>6 DEF CloseLogic, tables, workers
<1>7. CASE Close \/ UNCHANGED vars
  BY <1>7 DEF Close, vars, tables, workers
<1>8. CASE CloseFlag
  BY <1>8 DEF CloseFlag, tables
<1>9. CASE ClosePut
  BY <1>4, <1>9 DEF ClosePut, CloserInv
<1>10. CASE CloseJoin
  BY <1>10 DEF CloseJoin, workers
<1> QED
  BY <1>1, <1>2, <1>3, <1>5, <1>6, <1>7, <1>8, <1>9, <1>10 DEF Next, CloserStep

(* The closing thread works through the table. *)
LEMMA CloserNext == OrderInv /\ [Next]_vars => CloserInv'
<1> SUFFICES ASSUME OrderInv, [Next]_vars PROVE CloserInv'
  OBVIOUS
<1> USE DEF OrderInv, TypeInv, TypeOK, CountInv, CloserInv, Loaded
<1>1. ASSUME NEW l \in Logics, Svc(l) \/ SpuriousWake(l) PROVE CloserInv'
  BY <1>1 DEF Svc, SvcCheck, Pop, PopWait, SvcRun, SpuriousWake, tables
<1>2. ASSUME NEW l \in Logics, CreateLogic(l) PROVE CloserInv'
  BY <1>2 DEF CreateLogic
<1>3. CASE CreateLogicCount
  <2>1. creator.next # LogicCount
    BY <1>3, LogicCountAssumption DEF CreateLogicCount, Logics
  <2> QED
    BY <1>3, <2>1 DEF CreateLogicCount
<1>4. ASSUME NEW c \in Conns, AddMessage(c) PROVE CloserInv'
  BY <1>4 DEF AddMessage, tables
<1>5. ASSUME NEW l \in Logics, CloseLogic(l) PROVE CloserInv'
  BY <1>5 DEF CloseLogic, tables
<1>6. CASE Close
  BY <1>6 DEF Close, tables
<1>7. CASE CloseFlag \/ ClosePut \/ UNCHANGED vars
  BY <1>7 DEF CloseFlag, ClosePut, vars, tables
<1>8. CASE CloseJoin
  BY <1>8 DEF CloseJoin, Later
<1> QED
  BY <1>1, <1>2, <1>3, <1>4, <1>5, <1>6, <1>7, <1>8 DEF Next, CloserStep

(* A thread that had its CLOSE, or is past its turn, never counts as        *)
(* unclosed again; the only new ones are those just created.                *)
LEMMA UnclosedBack ==
  ASSUME OrderInv, [Next]_vars, NEW k \in Logics, Unclosed(k)'
  PROVE  Unclosed(k) \/ wpc[k] = "none"
<1> USE DEF OrderInv, TypeInv, TypeOK, CloserInv, Unclosed
<1>1. ASSUME NEW l \in Logics, Svc(l) \/ SpuriousWake(l) PROVE Unclosed(k)
  BY <1>1 DEF Svc, SvcCheck, Pop, PopWait, SvcRun, SpuriousWake, tables
<1>2. ASSUME NEW l \in Logics, CreateLogic(l) PROVE Unclosed(k) \/ wpc[k] = "none"
  <2>1. wpc[l] = "none"
    BY <1>2, LogicCountAssumption DEF CreateLogic, CreatedInv, Logics
  <2> QED
    BY <1>2, <2>1 DEF CreateLogic
<1>3. CASE CreateLogicCount
  BY <1>3 DEF CreateLogicCount
<1>4. ASSUME NEW c \in Conns, AddMessage(c) PROVE Unclosed(k)
  BY <1>4 DEF AddMessage, tables
<1>5. ASSUME NEW l \in Logics, CloseLogic(l) PROVE Unclosed(k)
  BY <1>5 DEF CloseLogic, tables
<1>6. CASE Close
  BY <1>6 DEF Close, tables
<1>7. CASE CloseFlag \/ ClosePut \/ UNCHANGED vars
  BY <1>7 DEF CloseFlag, ClosePut, vars, tables
<1>8. CASE CloseJoin
  <2>1. closer.pc = "join" /\ closer.l \in m_mapLogicList
    BY <1>8 DEF CloseJoin
  <2>2. closer.l \in Int /\ k \in Int /\ m_mapLogicList \subseteq Int
    <3>1. Logics \subseteq Int
      BY LogicCountAssumption DEF Logics
    <3>2. m_mapLogicList \subseteq Logics
      OBVIOUS
    <3> HIDE DEF OrderInv, TypeInv, TypeOK, CloserInv, Unclosed
    <3> QED
      BY <2>1, <3>1, <3>2
  <2>3. CASE ~closer.all
    <3>1. m_mapLogicList' = m_mapLogicList \ {closer.l}
      BY <1>8, <2>3 DEF CloseJoin
    <3>2. k \in m_mapLogicList /\ k # closer.l
      BY <3>1
    <3> QED
      BY <2>1, <2>3, <3>2
  <2>4. CASE closer.all
    <3>1. m_mapLogicList' = m_mapLogicList
      BY <1>8, <2>4 DEF CloseJoin
    <3>2. closer'.pc # "done"
      OBVIOUS
    <3>3. PICK j \in Later(closer.l) :
             closer' = [closer EXCEPT !.pc = "flag", !.l = j]
      BY <1>8, <2>1, <2>4, <3>2 DEF CloseJoin
    <3>4. closer'.all = closer.all /\ closer'.l = j
      BY <3>3
    <3>5. j <= k /\ closer.l < j /\ j \in Int
      BY <2>2, <2>4, <3>3, <3>4 DEF Later
    <3> QED
      BY <2>1, <2>2, <3>1, <3>5
  <2> QED
    BY <2>3, <2>4
<1> QED
  BY <1>1, <1>2, <1>3, <1>4, <1>5, <1>6, <1>7, <1>8 DEF Next, CloserStep

(* The four things a step can do to the messages of a thread. *)
Kept(k) ==
    /\ queue'[k] = queue[k]
    /\ accepted'[k] = accepted[k]
    /\ Taken(k)' = Taken(k)

Posted(k) ==
    /\ queue'[k] = Append(queue[k], accepted[k] + 1)
    /\ accepted'[k] = accepted[k] + 1
    /\ Taken(k)' = Taken(k)

ClosePosted(k) ==
    /\ Unclosed(k) /\ ~Unclosed(k)'
    /\ queue'[k] = Append(queue[k], CLOSE)
    /\ accepted'[k] = accepted[k]
    /\ Taken(k)' = Taken(k)

Popped(k) ==
    /\ queue[k] # <<>>
    /\ queue'[k] = Tail(queue[k])
    /\ accepted'[k] = accepted[k]
    /\ Taken(k)' = Taken(k) + (IF Head(queue[k]) = CLOSE THEN 0 ELSE 1)

(* And it does one of them. *)
LEMMA MessageStep ==
  ASSUME OrderInv, [Next]_vars, NEW k \in Logics
  PROVE  Kept(k) \/ Posted(k) \/ ClosePosted(k) \/ Popped(k)
<1> USE DEF OrderInv, TypeInv, TypeOK
<1>1. ASSUME NEW l \in Logics, SvcCheck(l) \/ PopWait(l) \/ SpuriousWake(l)
      PROVE Kept(k)
  BY <1>1 DEF SvcCheck, PopWait, SpuriousWake, Kept, Taken
<1>2. ASSUME NEW l \in Logics, SvcRun(l) PROVE Kept(k)
  BY <1>2 DEF SvcRun, Kept, Taken
<1>3. ASSUME NEW l \in Logics, Pop(l) PROVE Kept(k) \/ Popped(k)
  <2>1. CASE k # l
    BY <1>3, <2>1 DEF Pop, Kept, Taken
  <2>2. CASE k = l
    <3>1. /\ queue[k] # <<>>
          /\ queue'[k] = Tail(queue[k])
          /\ accepted'[k] = accepted[k]
          /\ ran'[k] = ran[k] /\ ran[k] \in Nat
      BY <1>3, <2>2 DEF Pop
    <3>2. /\ wpc[k] = "pop"
          /\ wpc'[k] = IF Head(queue[k]) = CLOSE THEN "exit" ELSE "run"
      BY <1>3, <2>2 DEF Pop
    <3> QED
      BY <3>1, <3>2 DEF Popped, Taken
  <2> QED
    BY <2>1, <2>2
<1>4. ASSUME NEW l \in Logics, CreateLogic(l) PROVE Kept(k)
  <2>1. wpc[l] = "none"
    BY <1>4, LogicCountAssumption DEF CreateLogic, CreatedInv, Logics
  <2> QED
    BY <1>4, <2>1 DEF CreateLogic, Kept, Taken
<1>5. ASSUME NEW c \in Conns, AddMessage(c) PROVE Kept(k) \/ Posted(k)
  <2> DEFINE l == get_tms_logic_id(c)
  <2> HIDE DEF l
  <2>1. CASE /\ l \in m_mapLogicList
             /\ accepted' = [accepted EXCEPT ![l] = @ + 1]
             /\ Push(l, accepted[l] + 1)
             /\ UNCHANGED <<tables, m_run, hand, closer, ran, dropped>>
    <3>1. Taken(k)' = Taken(k)
      BY <2>1, PushWpc DEF Taken
    <3>2. CASE k = l
      BY <2>1, <3>1, <3>2, PushWpc DEF Posted
    <3>3. CASE k # l
      BY <2>1, <3>1, <3>3, PushWpc DEF Kept
    <3> QED
      BY <3>2, <3>3
  <2>2. CASE UNCHANGED <<tables, workers, closer, accepted, ran>>
    BY <2>2 DEF workers, Kept, Taken
  <2> QED
    BY <1>5, <2>1, <2>2 DEF AddMessage, l
<1>6. ASSUME NEW l \in Logics, CloseLogic(l) PROVE Kept(k)
  BY <1>6 DEF CloseLogic, workers, Kept, Taken
<1>7. CASE CreateLogicCount \/ Close \/ CloseFlag \/ CloseJoin \/ UNCHANGED vars
  BY <1>7 DEF CreateLogicCount, Close, CloseFlag, CloseJoin, vars, workers, Kept, Taken
<1>8. CASE ClosePut
  <2>1. Taken(k)' = Taken(k) /\ accepted'[k] = accepted[k]
    BY <1>8, PushWpc DEF ClosePut, Taken
  <2>2. CASE k = closer.l
    <3>1. Unclosed(k) /\ ~Unclosed(k)'
      BY <1>8, <2>2, LogicCountAssumption DEF ClosePut, Unclosed, CloserInv, Logics
    <3>2. queue'[k] = Append(queue[k], CLOSE)
      <4>1. Push(k, CLOSE)
        BY <1>8, <2>2 DEF ClosePut
      <4> QED
        BY <4>1, PushWpc, Zenon
    <3> QED
      BY <2>1, <3>1, <3>2, Zenon DEF ClosePosted
  <2>3. CASE k # closer.l
    BY <1>8, <2>1, <2>3, PushWpc DEF ClosePut, Kept
  <2> QED
    BY <2>2, <2>3
<1> QED
  BY <1>1, <1>2, <1>3, <1>4, <1>5, <1>6, <1>7, <1>8 DEF Next, Svc, CloserStep

(* Every step keeps what is said of the unclosed threads. *)
LEMMA UnclosedNext == OrderInv /\ [Next]_vars => UnclosedInv'
<1> SUFFICES ASSUME OrderInv, [Next]_vars, NEW k \in Logics, Unclosed(k)'
             PROVE  Continues(queue[k], Taken(k), accepted[k])'
  BY DEF UnclosedInv
<1>1. /\ queue[k] \in Seq(Nat)
      /\ accepted[k] \in Nat
      /\ Taken(k) \in Nat
  BY DEF OrderInv, TypeInv, TypeOK, Taken
<1>2. Continues(queue[k], Taken(k), accepted[k])
  <2>1. CASE Unclosed(k)
    BY <2>1 DEF OrderInv, UnclosedInv
  <2>2. CASE wpc[k] = "none"
    BY <2>2 DEF OrderInv, CreatedInv, Continues, Taken
  <2> QED
    BY <2>1, <2>2, UnclosedBack
<1>3. CASE Kept(k)
  BY <1>2, <1>3 DEF Kept
<1>4. CASE Posted(k)
  BY <1>1, <1>2, <1>4, AppendNext DEF Posted
<1>5. CASE Popped(k)
  <2>1. Head(queue[k]) = Taken(k) + 1 /\ Continues(Tail(queue[k]), Taken(k) + 1, accepted[k])
    BY <1>1, <1>2, <1>5, TakeFront DEF Popped
  <2>2. Head(queue[k]) # CLOSE
    BY <1>1, <2>1 DEF CLOSE
  <2> QED
    BY <1>5, <2>1, <2>2 DEF Popped
<1> QED
  BY <1>3, <1>4, <1>5, MessageStep DEF ClosePosted

(* Every step keeps every queue in order. *)
LEMMA InOrderNext == OrderInv /\ [Next]_vars => InOrder'
<1> SUFFICES ASSUME OrderInv, [Next]_vars, NEW k \in Logics
             PROVE  /\ wpc'[k] = "run" => hand'[k] = ran'[k] + 1
                    /\ Orderly(queue[k], Taken(k), accepted[k])'
  BY DEF InOrder
<1>1. /\ queue[k] \in Seq(Nat)
      /\ accepted[k] \in Nat
      /\ Taken(k) \in Nat
  BY DEF OrderInv, TypeInv, TypeOK, Taken
<1>2. Orderly(queue[k], Taken(k), accepted[k])
  BY DEF OrderInv, InOrder
<1>3. Orderly(queue[k], Taken(k), accepted[k])'
  <2>1. CASE Kept(k)
    BY <1>2, <2>1 DEF Kept
  <2>2. CASE Posted(k)
    BY <1>1, <1>2, <2>2, AppendNext DEF Posted
  <2>3. CASE ClosePosted(k)
    <3>1. Continues(queue[k], Taken(k), accepted[k])
      BY <2>3 DEF ClosePosted, OrderInv, UnclosedInv
    <3> QED
      BY <1>1, <2>3, <3>1, AppendClose DEF ClosePosted
  <2>4. CASE Popped(k)
    BY <1>1, <1>2, <2>4, TakeFront DEF Popped
  <2> QED
    BY <2>1, <2>2, <2>3, <2>4, MessageStep
<1>4. wpc'[k] = "run" => hand'[k] = ran'[k] + 1
  <2> USE DEF OrderInv, TypeInv, TypeOK, InOrder
  <2>1. ASSUME NEW l \in Logics, Pop(l), wpc'[k] = "run" PROVE hand'[k] = ran'[k] + 1
    <3>1. CASE k # l
      BY <2>1, <3>1 DEF Pop
    <3>2. CASE k = l
      <4>1. wpc[k] = "pop" /\ queue[k] # <<>> /\ Head(queue[k]) # CLOSE
        BY <2>1, <3>2 DEF Pop
      <4>2. Head(queue[k]) = Taken(k) + 1
        BY <1>1, <1>2, <4>1, TakeFront
      <4>3. Taken(k) = ran[k]
        BY <4>1 DEF Taken
      <4> QED
        BY <2>1, <3>2, <4>2, <4>3 DEF Pop
    <3> QED
      BY <3>1, <3>2
  <2>2. ASSUME NEW l \in Logics, SvcCheck(l) \/ PopWait(l) \/ SvcRun(l) \/ SpuriousWake(l)
                                 \/ CreateLogic(l) \/ CloseLogic(l)
        PROVE  wpc'[k] = "run" => hand'[k] = ran'[k] + 1
    BY <2>2 DEF SvcCheck, PopWait, SvcRun, SpuriousWake, CreateLogic, CloseLogic, workers
  <2>3. ASSUME NEW c \in Conns, AddMessage(c)
        PROVE  wpc'[k] = "run" => hand'[k] = ran'[k] + 1
    BY <2>3, PushWpc DEF AddMessage, workers
  <2>4. CASE CreateLogicCount \/ Close \/ CloseFlag \/ CloseJoin \/ UNCHANGED vars
    BY <2>4 DEF CreateLogicCount, Close, CloseFlag, CloseJoin, vars, workers
  <2>5. CASE ClosePut
    BY <2>5, PushWpc DEF ClosePut
  <2> QED
    BY <2>1, <2>2, <2>3, <2>4, <2>5 DEF Next, Svc, CloserStep
<1> QED
  BY <1>3, <1>4

(* It holds at the start. *)
LEMMA OrderInit == Init => OrderInv
<1> SUFFICES ASSUME Init PROVE OrderInv
  OBVIOUS
<1>1. \A l \in Logics : /\ queue[l] = <<>> /\ wpc[l] = "none"
                        /\ accepted[l] = 0 /\ ran[l] = 0
  BY DEF Init
<1>2. CreatedInv
  BY <1>1 DEF Init, CreatedInv
<1>3. CloserInv
  BY DEF Init, CloserInv
<1>4. \A l \in Logics : Continues(queue[l], Taken(l), accepted[l])
  BY <1>1 DEF Continues, Taken
<1>5. UnclosedInv /\ InOrder
  BY <1>1, <1>4 DEF UnclosedInv, InOrder, Orderly
<1> QED
  BY <1>2, <1>3, <1>5, TypeInit DEF OrderInv

(* Every step keeps the order invariant. *)
LEMMA OrderNext == OrderInv /\ [Next]_vars => OrderInv'
  BY TypeNext, CreatedNext, CloserNext, UnclosedNext, InOrderNext DEF OrderInv

(* For any number of logic threads, posters and messages: what a thread has *)
(* run, holds in hand and has queued is what AddMessage gave it, in that    *)
(* order, each message once.                                                *)
THEOREM OrderCorrect == Spec => []InOrder
<1>1. Spec => []OrderInv
  BY OrderInit, OrderNext, PTL DEF Spec
<1>2. OrderInv => InOrder
  BY DEF OrderInv
<1> QED
  BY <1>1, <1>2, PTL

-----------------------------------------------------------------------------
(* Routing.                                                                 *)

(* Every thread that is counted has been started, and a started one that is *)
(* not in the table any more has ended.                                     *)
RoutedInv ==
    \A l \in Logics :
        /\ l < m_nLogicThreadCount => wpc[l] # "none"
        /\ creator.pc = "count" /\ creator.next = l => wpc[l] # "none"
        /\ wpc[l] # "none" /\ l \notin m_mapLogicList => wpc[l] = "exit"

DropInv == OrderInv /\ RoutedInv /\ DropOnlyAfterCloseLogic

(* A thread that has ended stays so, and does not come back into the table. *)
LEMMA ExitIsFinal ==
  ASSUME OrderInv, [Next]_vars, NEW k \in Logics, wpc[k] = "exit"
  PROVE  /\ wpc'[k] = "exit"
         /\ k \notin m_mapLogicList => k \notin m_mapLogicList'
<1> USE DEF OrderInv, TypeInv, TypeOK
<1>1. ASSUME NEW l \in Logics, Svc(l) \/ SpuriousWake(l)
      PROVE  wpc'[k] = "exit" /\ m_mapLogicList' = m_mapLogicList
  BY <1>1 DEF Svc, SvcCheck, Pop, PopWait, SvcRun, SpuriousWake, tables
<1>2. ASSUME NEW l \in Logics, CreateLogic(l)
      PROVE  wpc'[k] = "exit" /\ m_mapLogicList' = m_mapLogicList \cup {l} /\ k # l
  <2>1. wpc[l] = "none"
    BY <1>2, LogicCountAssumption DEF CreateLogic, CreatedInv, Logics
  <2> QED
    BY <1>2, <2>1 DEF CreateLogic
<1>3. ASSUME NEW l, NEW msg, Push(l, msg) PROVE wpc'[k] = "exit"
  BY <1>3 DEF Push
<1>4. ASSUME NEW c \in Conns, AddMessage(c)
      PROVE  wpc'[k] = "exit" /\ m_mapLogicList' = m_mapLogicList
  BY <1>3, <1>4 DEF AddMessage, tables, workers
<1>5. ASSUME NEW l \in Logics, CloseLogic(l)
      PROVE  wpc'[k] = "exit" /\ m_mapLogicList' = m_mapLogicList
  BY <1>5 DEF CloseLogic, tables, workers
<1>6. CASE ClosePut
  BY <1>3, <1>6 DEF ClosePut, tables
<1>7. CASE CreateLogicCount \/ Close \/ CloseFlag \/ UNCHANGED vars
  BY <1>7 DEF CreateLogicCount, Close, CloseFlag, vars, tables, workers
<1>8. CASE CloseJoin
  BY <1>8 DEF CloseJoin, workers
<1> QED
  BY <1>1, <1>2, <1>4, <1>5, <1>6, <1>7, <1>8 DEF Next, CloserStep

(* Every step keeps the counted threads started. *)
LEMMA RoutedNext == OrderInv /\ RoutedInv /\ [Next]_vars => RoutedInv'
<1> SUFFICES ASSUME OrderInv, RoutedInv, [Next]_vars, NEW k \in Logics
             PROVE  /\ k < m_nLogicThreadCount' => wpc'[k] # "none"
                    /\ creator'.pc = "count" /\ creator'.next = k => wpc'[k] # "none"
                    /\ wpc'[k] # "none" /\ k \notin m_mapLogicList' => wpc'[k] = "exit"
  BY DEF RoutedInv
<1>1. CASE wpc[k] = "exit"
  BY <1>1, ExitIsFinal
<1>2. CASE wpc[k] # "exit"
  <2> USE DEF OrderInv, TypeInv, TypeOK
  <2>1. /\ k < m_nLogicThreadCount => wpc[k] # "none"
        /\ creator.pc = "count" /\ creator.next = k => wpc[k] # "none"
        /\ wpc[k] # "none" => k \in m_mapLogicList
    BY <1>2 DEF RoutedInv
  <2>2. ASSUME UNCHANGED tables,
               wpc'[k] = "none" <=> wpc[k] = "none"
        PROVE  /\ k < m_nLogicThreadCount' => wpc'[k] # "none"
               /\ creator'.pc = "count" /\ creator'.next = k => wpc'[k] # "none"
               /\ wpc'[k] # "none" /\ k \notin m_mapLogicList' => wpc'[k] = "exit"
    BY <2>1, <2>2 DEF tables
  <2>3. ASSUME NEW l \in Logics, Svc(l) \/ SpuriousWake(l)
        PROVE  /\ UNCHANGED tables
               /\ wpc'[k] = "none" <=> wpc[k] = "none"
    BY <2>3 DEF Svc, SvcCheck, Pop, PopWait, SvcRun, SpuriousWake, tables
  <2>4. ASSUME NEW l \in Logics, CreateLogic(l)
        PROVE  /\ k < m_nLogicThreadCount' => wpc'[k] # "none"
               /\ creator'.pc = "count" /\ creator'.next = k => wpc'[k] # "none"
               /\ wpc'[k] # "none" /\ k \notin m_mapLogicList' => wpc'[k] = "exit"
    BY <2>1, <2>4 DEF CreateLogic
  <2>5. CASE CreateLogicCount
    <3>1. /\ m_nLogicThreadCount' = creator.next + 1
          /\ creator.pc = "count" /\ creator.next \in Logics
          /\ creator'.pc = "create"
          /\ UNCHANGED <<m_mapLogicList, wpc>>
      BY <2>5 DEF CreateLogicCount, CountInv, workers
    <3>2. wpc[creator.next] # "none"
      BY <2>1, <3>1 DEF RoutedInv
    <3>3. k < m_nLogicThreadCount' => k < m_nLogicThreadCount \/ k = creator.next
      BY <3>1, LogicCountAssumption DEF CountInv, Logics
    <3> QED
      BY <2>1, <3>1, <3>2, <3>3
  <2>6. ASSUME NEW c \in Conns, AddMessage(c)
        PROVE  /\ UNCHANGED tables
               /\ wpc'[k] = "none" <=> wpc[k] = "none"
    BY <2>6, PushWpc DEF AddMessage, tables, workers
  <2>7. ASSUME NEW l \in Logics, CloseLogic(l)
        PROVE  UNCHANGED <<tables, wpc>>
    BY <2>7 DEF CloseLogic, tables, workers
  <2>8. CASE ClosePut
    <3>1. UNCHANGED tables
      BY <2>8 DEF ClosePut
    <3>2. wpc'[k] = "none" <=> wpc[k] = "none"
      BY <2>8, PushWpc DEF ClosePut
    <3> QED
      BY <2>2, <3>1, <3>2
  <2>9. CASE Close \/ CloseFlag \/ UNCHANGED vars
    BY <2>2, <2>9 DEF Close, CloseFlag, vars, tables, workers
  <2>10. CASE CloseJoin
    <3>1. UNCHANGED <<m_nLogicThreadCount, creator, wpc>> /\ wpc[closer.l] = "exit"
      BY <2>10 DEF CloseJoin, workers
    <3>2. m_mapLogicList \ {closer.l} \subseteq m_mapLogicList'
      BY <2>10 DEF CloseJoin
    <3> QED
      BY <1>2, <2>1, <3>1, <3>2
  <2> QED
    BY <2>2, <2>3, <2>4, <2>5, <2>6, <2>7, <2>8, <2>9, <2>10 DEF Next, CloserStep
<1> QED
  BY <1>1, <1>2

(* And a message is refused only when its thread has been taken away. *)
LEMMA DropNext == DropInv /\ [Next]_vars => DropOnlyAfterCloseLogic'
<1> SUFFICES ASSUME DropInv, [Next]_vars, dropped' PROVE DropOnlyAfterCloseLogic'
  BY DEF DropOnlyAfterCloseLogic
<1> USE DEF DropInv
<1>1. CASE dropped
  <2>1. PICK l \in Logics : l \notin m_mapLogicList /\ wpc[l] = "exit"
    BY <1>1 DEF DropOnlyAfterCloseLogic
  <2> QED
    BY <2>1, ExitIsFinal DEF DropOnlyAfterCloseLogic
<1>2. CASE ~dropped
  <2>1. PICK c \in Conns : AddMessage(c)
    BY <1>2 DEF Next, Svc, SvcCheck, Pop, PopWait, SvcRun, SpuriousWake, CreateLogic,
         CloseLogic, CreateLogicCount, Close, CloserStep, CloseFlag, ClosePut, CloseJoin, vars
  <2> DEFINE l == get_tms_logic_id(c)
  <2>2. /\ l \notin m_mapLogicList
        /\ m_nLogicThreadCount > 0
        /\ UNCHANGED <<m_mapLogicList, wpc>>
    BY <1>2, <2>1 DEF AddMessage, tables, workers
  <2>3. m_nLogicThreadCount \in 1 .. LogicCount /\ c \in Nat
    BY <2>2, LogicCountAssumption, ConnsAssumption DEF OrderInv, TypeInv, TypeOK
  <2>4. l \in 0 .. m_nLogicThreadCount - 1
    BY <2>3, LogicCountAssumption DEF get_tms_logic_id
  <2>5. l \in Logics /\ l < m_nLogicThreadCount
    BY <2>3, <2>4, LogicCountAssumption DEF Logics
  <2> HIDE DEF l
  <2>6. wpc[l] = "exit"
    BY <2>2, <2>5 DEF RoutedInv
  <2> QED
    BY <2>2, <2>5, <2>6 DEF DropOnlyAfterCloseLogic
<1> QED
  BY <1>1, <1>2

(* For any number of threads and connect ids: get_tms_logic_id never sends  *)
(* a message to a thread that CreateLogic has not started yet, although it  *)
(* reads the count while CreateLogic changes table and count in two steps.  *)
THEOREM DropCorrect == Spec => []DropOnlyAfterCloseLogic
<1>1. Init => DropInv
  <2>1. Init => RoutedInv /\ DropOnlyAfterCloseLogic
    BY LogicCountAssumption DEF Init, RoutedInv, DropOnlyAfterCloseLogic, Logics
  <2> QED
    BY <2>1, OrderInit DEF DropInv
<1>2. DropInv /\ [Next]_vars => DropInv'
  BY OrderNext, RoutedNext, DropNext DEF DropInv
<1>3. DropInv => DropOnlyAfterCloseLogic
  BY DEF DropInv
<1> QED
  BY <1>1, <1>2, <1>3, PTL DEF Spec

-----------------------------------------------------------------------------
(* Refinement.  AbstractPhase is a CASE over a thread's own state, so what  *)
(* a step does to it is read off m_run and wpc, thread by thread.           *)

PhaseOf(w, r) ==
    IF w = "none" THEN "new"
    ELSE IF r THEN "open"
    ELSE IF w \in {"pop", "asleep", "run"} THEN "last" ELSE "closed"

(* The refinement mapping, thread by thread, before and after a step. *)
LEMMA PhaseIs ==
  ASSUME TypeOK, TypeOK', NEW k \in Logics
  PROVE  /\ AbstractPhase[k] = PhaseOf(wpc[k], m_run[k])
         /\ AbstractPhase'[k] = PhaseOf(wpc'[k], m_run'[k])
  BY DEF TypeOK, AbstractPhase, PhaseOf

(* A step that leaves the phase of every thread alone leaves the mapping    *)
(* alone; one that moves the phase of l only is an EXCEPT of it.            *)
LEMMA PhaseKept ==
  ASSUME \A k \in Logics : AbstractPhase'[k] = AbstractPhase[k]
  PROVE  AbstractPhase' = AbstractPhase
  BY DEF AbstractPhase

LEMMA PhaseMoved ==
  ASSUME NEW l \in Logics,
         \A k \in Logics : k # l => AbstractPhase'[k] = AbstractPhase[k]
  PROVE  AbstractPhase' = [AbstractPhase EXCEPT ![l] = AbstractPhase'[l]]
<1> DEFINE A == AbstractPhase
           B == AbstractPhase'
<1>1. A = [k \in Logics |-> A[k]] /\ B = [k \in Logics |-> B[k]]
  BY DEF AbstractPhase
<1> HIDE DEF A, B
<1>2. B = [A EXCEPT ![l] = B[l]]
  BY <1>1 DEF A, B
<1> QED
  BY <1>2 DEF A, B

(* A message in hand has been accepted and has not been counted as run. *)
LEMMA RunIsBehind ==
  ASSUME OrderInv, NEW l \in Logics, wpc[l] = "run"
  PROVE  ran[l] < accepted[l]
<1>1. /\ Orderly(queue[l], ran[l] + 1, accepted[l])
      /\ ran[l] \in Nat /\ accepted[l] \in Nat /\ Len(queue[l]) \in Nat
  BY DEF OrderInv, TypeInv, TypeOK, InOrder, Taken
<1> QED
  BY <1>1 DEF Orderly, Continues, ContinuesButClose

(* Every step of the pool is a step of the abstract channels, or none. *)
LEMMA ChannelStep ==
  ASSUME OrderInv, TypeOK', [Next]_vars
  PROVE  [Channel!Next]_(Channel!tcVars)
<1> USE DEF OrderInv, TypeInv
<1>1. ASSUME UNCHANGED <<accepted, ran>>,
             \A k \in Logics : PhaseOf(wpc'[k], m_run'[k]) = PhaseOf(wpc[k], m_run[k])
      PROVE  UNCHANGED Channel!tcVars
  BY <1>1, PhaseIs, PhaseKept DEF Channel!tcVars
<1>2. ASSUME NEW l \in Logics, UNCHANGED <<accepted, ran>>,
             PhaseOf(wpc[l], m_run[l]) \in {"open", "last"},
             PhaseOf(wpc'[l], m_run'[l]) \in {"last", "closed"},
             \A k \in Logics : k # l => wpc'[k] = wpc[k] /\ m_run'[k] = m_run[k]
      PROVE  Channel!Shut(l)
  <2>1. AbstractPhase' = [AbstractPhase EXCEPT ![l] = AbstractPhase'[l]]
    BY <1>2, PhaseIs, PhaseMoved
  <2>2. /\ AbstractPhase[l] \in {"open", "last"}
        /\ AbstractPhase'[l] \in {"last", "closed"}
    BY <1>2, PhaseIs
  <2> QED
    BY <1>2, <2>1, <2>2 DEF Channel!Shut
<1>3. ASSUME NEW l \in Logics, SvcCheck(l) \/ PopWait(l) \/ SpuriousWake(l)
      PROVE  UNCHANGED Channel!tcVars
  BY <1>1, <1>3, SMTT(30) DEF SvcCheck, PopWait, SpuriousWake, PhaseOf, TypeOK
<1>4. ASSUME NEW l \in Logics, Pop(l)
      PROVE  UNCHANGED Channel!tcVars \/ Channel!Shut(l)
  <2>1. /\ wpc[l] = "pop"
        /\ wpc'[l] \in {"run", "exit"}
        /\ \A k \in Logics : k # l => wpc'[k] = wpc[k]
        /\ UNCHANGED <<m_run, accepted, ran>>
    BY <1>4 DEF Pop, TypeOK
  <2>2. CASE m_run[l] \/ wpc'[l] = "run"
    BY <1>1, <2>1, <2>2 DEF PhaseOf
  <2>3. CASE ~m_run[l] /\ wpc'[l] = "exit"
    BY <1>2, <2>1, <2>3 DEF PhaseOf
  <2> QED
    BY <2>1, <2>2, <2>3
<1>5. ASSUME NEW l \in Logics, SvcRun(l) PROVE Channel!Run(l)
  <2>1. /\ wpc[l] = "run"
        /\ wpc'[l] = "check"
        /\ \A k \in Logics : k # l => wpc'[k] = wpc[k]
        /\ UNCHANGED <<m_run, accepted>>
        /\ ran' = [ran EXCEPT ![l] = @ + 1]
    BY <1>5 DEF SvcRun, TypeOK
  <2>2. AbstractPhase' = [AbstractPhase EXCEPT ![l] = AbstractPhase'[l]]
    BY <2>1, PhaseIs, PhaseMoved
  <2>3. /\ AbstractPhase[l] \in {"open", "last"}
        /\ AbstractPhase'[l] = IF AbstractPhase[l] = "last" THEN "closed"
                                                            ELSE AbstractPhase[l]
    BY <2>1, PhaseIs DEF PhaseOf
  <2>4. ran[l] < accepted[l]
    BY <2>1, RunIsBehind
  <2> QED
    BY <2>1, <2>2, <2>3, <2>4 DEF Channel!Run
<1>6. ASSUME NEW l \in Logics, CreateLogic(l) PROVE Channel!Open(l)
  <2>1. wpc[l] = "none"
    BY <1>6, LogicCountAssumption DEF CreateLogic, CreatedInv, Logics
  <2>2. /\ wpc'[l] = "check" /\ m_run'[l] = TRUE
        /\ \A k \in Logics : k # l => wpc'[k] = wpc[k] /\ m_run'[k] = m_run[k]
        /\ UNCHANGED <<accepted, ran>>
    BY <1>6 DEF CreateLogic, TypeOK
  <2>3. AbstractPhase' = [AbstractPhase EXCEPT ![l] = AbstractPhase'[l]]
    BY <2>2, PhaseIs, PhaseMoved
  <2>4. AbstractPhase[l] = "new" /\ AbstractPhase'[l] = "open"
    BY <2>1, <2>2, PhaseIs DEF PhaseOf
  <2> QED
    BY <2>2, <2>3, <2>4 DEF Channel!Open
<1>7. ASSUME NEW l, NEW msg, Push(l, msg), UNCHANGED m_run
      PROVE  \A k \in Logics : PhaseOf(wpc'[k], m_run'[k]) = PhaseOf(wpc[k], m_run[k])
  BY <1>7 DEF Push, PhaseOf, TypeOK
<1>8. ASSUME NEW c \in Conns, AddMessage(c)
      PROVE  UNCHANGED Channel!tcVars \/ \E l \in Logics : Channel!Accept(l)
  <2> DEFINE l == get_tms_logic_id(c)
  <2>1. CASE /\ l \in m_mapLogicList
             /\ accepted' = [accepted EXCEPT ![l] = @ + 1]
             /\ Push(l, accepted[l] + 1)
             /\ UNCHANGED <<tables, m_run, hand, closer, ran, dropped>>
    <3> HIDE DEF l
    <3>1. l \in Logics /\ wpc[l] # "none"
      BY <2>1 DEF CreatedInv, TypeOK
    <3>2. AbstractPhase' = AbstractPhase
      BY <1>7, <2>1, PhaseIs, PhaseKept
    <3>3. AbstractPhase[l] # "new"
      BY <3>1, PhaseIs DEF PhaseOf
    <3>4. Channel!Accept(l)
      BY <2>1, <3>2, <3>3 DEF Channel!Accept
    <3> QED
      BY <3>1, <3>4
  <2>2. CASE UNCHANGED <<tables, workers, closer, accepted, ran>>
    BY <1>1, <2>2 DEF workers
  <2> QED
    BY <1>8, <2>1, <2>2 DEF AddMessage
<1>9. ASSUME NEW l \in Logics, CloseLogic(l) PROVE UNCHANGED Channel!tcVars
  BY <1>1, <1>9 DEF CloseLogic, workers
<1>10. CASE CreateLogicCount \/ Close \/ CloseJoin \/ UNCHANGED vars
  BY <1>1, <1>10 DEF CreateLogicCount, Close, CloseJoin, vars, workers
<1>11. CASE ClosePut
  BY <1>1, <1>7, <1>11 DEF ClosePut
<1>12. CASE CloseFlag
  <2>1. closer.l \in Logics /\ wpc[closer.l] # "none"
    BY <1>12 DEF CloseFlag, CloserInv, CreatedInv, TypeOK
  <2>2. /\ m_run'[closer.l] = FALSE
        /\ \A k \in Logics : k # closer.l => m_run'[k] = m_run[k]
        /\ UNCHANGED <<wpc, accepted, ran>>
    BY <1>12, <2>1 DEF CloseFlag, TypeOK
  <2>3. CASE m_run[closer.l]
    <3>1. Channel!Shut(closer.l)
      BY <1>2, <2>1, <2>2, <2>3 DEF PhaseOf
    <3> QED
      BY <2>1, <3>1 DEF Channel!Next
  <2>4. CASE ~m_run[closer.l]
    BY <1>1, <2>1, <2>2, <2>4 DEF PhaseOf
  <2> QED
    BY <2>3, <2>4
<1> QED
  BY <1>3, <1>4, <1>5, <1>6, <1>8, <1>9, <1>10, <1>11, <1>12
     DEF Next, Svc, CloserStep, Channel!Next

(* For any number of threads and messages: each logic thread, with its      *)
(* queue, its flag and its CLOSE message, implements TaskChannel: what it   *)
(* runs, it runs in acceptance order, and no more than one message          *)
(* completes once CLogicTasK::Close has cleared m_run.                      *)
THEOREM ChannelCorrect == Spec => IsTaskChannel
<1>1. Init => Channel!Init
  BY DEF Init, Channel!Init, AbstractPhase
<1>2. OrderInv /\ OrderInv' /\ [Next]_vars => [Channel!Next]_(Channel!tcVars)
  BY ChannelStep DEF OrderInv, TypeInv
<1>3. Spec => []OrderInv
  BY OrderInit, OrderNext, PTL DEF Spec
<1> QED
  BY <1>1, <1>2, <1>3, PTL DEF Spec, IsTaskChannel, Channel!Spec
=============================================================================
