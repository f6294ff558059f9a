--------------------------- MODULE ThreadsProofs ---------------------------
(***************************************************************************)
(* Theorems about Threads, for every number of threads and every set of    *)
(* client wait queues.                                                     *)
(***************************************************************************)
EXTENDS Threads, ThreadQueuesProofs, WellFoundedInduction

(* The inductive invariant: the node of every thread is in one place, its  *)
(* state says which, and nobody sleeps in a queue that is gone.            *)
IInv ==
  /\ TypeOK
  /\ OneQueuePerThread
  /\ StateMatchesQueue
  /\ NoStrandedSleeper

-----------------------------------------------------------------------------
(* A nonempty set of naturals has a least element. *)
LEMMA LeastNat ==
  ASSUME NEW T \in SUBSET Nat, T # {}
  PROVE  \E x \in T : \A y \in T : x <= y
<1>1. PICK x \in T : \A y \in T : ~ (<<y, x>> \in OpToRel(<, Nat))
  BY NatLessThanWellFounded, WFMin
<1>2. \A y \in T : ~(y < x)
  BY <1>1 DEF OpToRel
<1> QED BY <1>2

(* The loop over allThreads in thread_create finds a free entry. *)
LEMMA LowestFreeIsFree ==
  ASSUME NEW states \in [Tid -> States], \E t \in Tid : states[t] = "NULL"
  PROVE  LowestFree(states) \in Tid /\ states[LowestFree(states)] = "NULL"
<1> DEFINE Free == {t \in Tid : states[t] = "NULL"}
<1>1. Free \in SUBSET Nat /\ Free # {}
  BY MaxThreadsAssumption DEF Tid
<1>2. PICK t \in Free : \A u \in Free : t <= u
  BY <1>1, LeastNat
<1>3. t \in Tid /\ states[t] = "NULL" /\ \A u \in 0..(t - 1) : states[u] # "NULL"
  BY <1>2, MaxThreadsAssumption DEF Tid
<1> QED BY <1>3 DEF LowestFree

(* What thread_wakeup(q, 1) makes ready are the sleepers that were not     *)
(* killed.                                                                 *)
LEMMA WokenProperties ==
  ASSUME TypeOK, NEW q \in WaitQueues, NEW states \in [Tid -> States]
  PROVE  /\ Woken(q, states) \in Seq(Tid)
         /\ Range(Woken(q, states)) = Range(sleepers[q]) \ Killed(q, states)
         /\ Killed(q, states) \subseteq Range(sleepers[q])
         /\ Range(sleepers[q]) \subseteq Tid
         /\ \A t \in Killed(q, states) : states[t] = "EXITED"
         /\ \A t \in Range(Woken(q, states)) : states[t] # "EXITED"
         /\ IsInjective(sleepers[q]) => IsInjective(Woken(q, states))
<1> DEFINE alive == {t \in Tid : states[t] # "EXITED"}
<1>1. sleepers[q] \in Seq(Tid)
  BY DEF TypeOK
<1>2. Range(sleepers[q]) \subseteq Tid
  BY <1>1, RangeOfSeq
<1>3. /\ Woken(q, states) \in Seq(Tid)
      /\ Range(Woken(q, states)) = Range(sleepers[q]) \cap alive
      /\ IsInjective(sleepers[q]) => IsInjective(Woken(q, states))
  BY <1>1, SelectProperties DEF Woken
<1> QED BY <1>2, <1>3 DEF Killed

(* A process that stops keeps its last state, of which only the type is    *)
(* claimed.                                                                *)
LEMMA DiePreserves ==
  ASSUME IInv, NEW how \in Outcomes \ {"running"}, Die(how)
  PROVE  IInv'
<1>1. process' \in Outcomes /\ process' # "running"
  BY DEF Die
<1>2. TypeOK'
  BY <1>1 DEF IInv, TypeOK, Die
<1> QED BY <1>1, <1>2 DEF IInv, OneQueuePerThread, StateMatchesQueue, NoStrandedSleeper

(* Every call returns a named value. *)
LEMMA ResultType ==
  ASSUME NEW call \in Calls, NEW value \in Int
  PROVE  Result(call, value) \in Results
BY DEF Result, Results

(* So is the value that stands for a thread switch. *)
LEMMA SwitchedIsResult == Switched \in Results
<1>1. "switched" \in Calls
  BY DEF Calls
<1> QED BY <1>1, ResultType DEF Switched

(* Emptying exitedQueue keeps the type of mainThread. *)
LEMMA ReapExitedType ==
  ASSUME TypeOK, ReapExited
  PROVE  mainThread' \in BOOLEAN
BY DEF TypeOK, ReapExited

(* thread_yield, once it has a thread to run. *)
LEMMA YieldToPreserves ==
  ASSUME IInv, process = "running", NEW next \in Tid, YieldTo(next)
  PROVE  IInv'
<1> DEFINE pushed == QueuePush(readyQueue, running)
<1>1. /\ TypeOK /\ OneQueuePerThread /\ StateMatchesQueue /\ NoStrandedSleeper
  BY DEF IInv
<1>2. /\ pushed \in Seq(Tid)
      /\ Range(pushed) = Range(readyQueue) \cup {running}
      /\ IsInjective(pushed)
  BY ZenonT(60), <1>1, PushProperties DEF TypeOK, OneQueuePerThread
<1>3. next \in Range(readyQueue) \cup {running}
  BY <1>2 DEF YieldTo, SwitchTo
<1>4. /\ readyQueue' \in Seq(Tid)
      /\ Range(readyQueue') = (Range(readyQueue) \cup {running}) \ {next}
      /\ IsInjective(readyQueue')
  BY <1>2, RemoveProperties DEF YieldTo, SwitchTo
<1>5. /\ running' = next
      /\ exitedQueue' = {}
      /\ UNCHANGED <<waitQueues, sleepers, currThreadCount, process>>
      /\ returned' \in Results
      /\ mainThread' \in BOOLEAN
  BY <1>1, SwitchedIsResult, ReapExitedType DEF YieldTo, SwitchTo, ReapExited
<1>6. /\ threadState' \in [Tid -> States]
      /\ \A t \in Tid : threadState'[t] =
           IF t = next THEN "RUNNING"
           ELSE IF t = running THEN "READY"
           ELSE IF t \in exitedQueue THEN "NULL" ELSE threadState[t]
  BY <1>1 DEF YieldTo, SwitchTo, Reaped, TypeOK, States
<1>7. TypeOK'
  BY <1>1, <1>4, <1>5, <1>6 DEF TypeOK
<1>8. OneQueuePerThread'
  BY <1>1, <1>3, <1>4, <1>5, <1>6 DEF OneQueuePerThread, StateMatchesQueue, TypeOK
<1>9. StateMatchesQueue'
  BY <1>1, <1>3, <1>4, <1>5, <1>6 DEF OneQueuePerThread, StateMatchesQueue, TypeOK
<1>10. NoStrandedSleeper'
  BY <1>1, <1>5 DEF NoStrandedSleeper
<1> QED BY <1>7, <1>8, <1>9, <1>10 DEF IInv

(* A call that only returns leaves the queues alone. *)
LEMMA ReturnPreserves ==
  ASSUME IInv, NEW call \in Calls, NEW value \in Int, Return(call, value)
  PROVE  IInv'
<1>1. returned' \in Results
  BY ResultType DEF Return
<1>2. UNCHANGED <<threadState, running, readyQueue, exitedQueue, waitQueues,
                  sleepers, currThreadCount, mainThread, process>>
  BY DEF Return
<1>3. TypeOK'
  BY <1>1, <1>2 DEF IInv, TypeOK
<1> QED BY <1>2, <1>3 DEF IInv, OneQueuePerThread, StateMatchesQueue, NoStrandedSleeper

(* So does emptying exitedQueue: its threads are nowhere else. *)
LEMMA ReapPreserves ==
  ASSUME IInv, process = "running", threadState' = Reaped, ReapExited,
         UNCHANGED <<running, readyQueue, waitQueues, sleepers, currThreadCount, process>>,
         returned' \in Results
  PROVE  IInv'
<1>1. /\ TypeOK /\ OneQueuePerThread /\ StateMatchesQueue /\ NoStrandedSleeper
  BY DEF IInv
<1>2. /\ threadState' \in [Tid -> States]
      /\ \A t \in Tid : threadState'[t] =
           IF t \in exitedQueue THEN "NULL" ELSE threadState[t]
  BY <1>1 DEF Reaped, TypeOK, States
<1>3. exitedQueue' = {} /\ mainThread' \in BOOLEAN
  BY <1>1, ReapExitedType DEF ReapExited
<1>4. TypeOK'
  BY <1>1, <1>2, <1>3 DEF TypeOK
<1>5. OneQueuePerThread'
  BY <1>1, <1>2, <1>3 DEF OneQueuePerThread, TypeOK
<1>6. StateMatchesQueue'
  BY <1>1, <1>2, <1>3 DEF StateMatchesQueue, OneQueuePerThread, TypeOK
<1>7. NoStrandedSleeper'
  BY <1>1 DEF NoStrandedSleeper
<1> QED BY <1>4, <1>5, <1>6, <1>7 DEF IInv

(* The return codes are integers. *)
LEMMA CodesAreIntegers ==
  /\ Tid \subseteq Int
  /\ THREAD_INVALID \in Int /\ THREAD_NONE \in Int
  /\ THREAD_NOMORE \in Int /\ THREAD_NOMEMORY \in Int
BY MaxThreadsAssumption
   DEF Tid, THREAD_INVALID, THREAD_NONE, THREAD_NOMORE, THREAD_NOMEMORY

(* thread_yield, and the timer. *)
LEMMA ThreadYieldPreserves ==
  ASSUME IInv, NEW want, ThreadYield(want)
  PROVE  IInv'
<1>1. process = "running"
  BY DEF ThreadYield
<1>2. ASSUME NEW code \in {THREAD_INVALID, THREAD_NONE}, YieldReturns(code)
      PROVE  IInv'
  <2>1. "thread_yield" \in Calls
    BY DEF Calls
  <2>2. returned' \in Results
    BY <1>2, <2>1, ResultType, CodesAreIntegers DEF YieldReturns
  <2> QED BY <1>1, <1>2, <2>2, ReapPreserves DEF YieldReturns
<1>3. ASSUME readyQueue # <<>>, YieldTo(Head(readyQueue)) PROVE IInv'
  <2>1. Head(readyQueue) \in Tid
    BY <1>3, PopProperties DEF IInv, TypeOK
  <2> QED BY <1>1, <1>3, <2>1, YieldToPreserves
<1>4. ASSUME YieldTo(running) PROVE IInv'
  BY <1>1, <1>4, YieldToPreserves DEF IInv, TypeOK
<1>5. ASSUME want \in Tid, YieldTo(want) PROVE IInv'
  BY <1>1, <1>5, YieldToPreserves
<1>6. ASSUME Die("segv_switch") PROVE IInv'
  BY <1>6, DiePreserves DEF Outcomes
<1> QED BY <1>2, <1>3, <1>4, <1>5, <1>6 DEF ThreadYield

(* thread_create. *)
LEMMA ThreadCreatePreserves ==
  ASSUME IInv, ThreadCreate
  PROVE  IInv'
<1> DEFINE new == LowestFree(Reaped)
<1>1. /\ TypeOK /\ OneQueuePerThread /\ StateMatchesQueue /\ NoStrandedSleeper
      /\ process = "running"
  BY DEF IInv, ThreadCreate
<1>2. /\ Reaped \in [Tid -> States]
      /\ \A t \in Tid : Reaped[t] = IF t \in exitedQueue THEN "NULL" ELSE threadState[t]
  BY <1>1 DEF Reaped, TypeOK, States
<1>3. new \in Tid /\ Reaped[new] = "NULL"
  BY <1>2, LowestFreeIsFree DEF ThreadCreate
<1> HIDE DEF new
<1>4. /\ new # running
      /\ new \notin Range(readyQueue)
      /\ \A q \in WaitQueues : new \notin Range(sleepers[q])
      /\ new \notin waitQueues
  BY <1>1, <1>2, <1>3 DEF OneQueuePerThread, StateMatchesQueue, TypeOK
<1>5. sleepers[new] = <<>>
  BY <1>1, <1>3, <1>4 DEF NoStrandedSleeper, WaitQueues
<1>6. /\ readyQueue' \in Seq(Tid)
      /\ Range(readyQueue') = Range(readyQueue) \cup {new}
      /\ IsInjective(readyQueue')
  <2>1. readyQueue' = QueuePush(readyQueue, new)
    BY DEF ThreadCreate, new
  <2>2. readyQueue \in Seq(Tid) /\ IsInjective(readyQueue)
    BY <1>1 DEF TypeOK, OneQueuePerThread
  <2> QED BY ZenonT(60), <1>3, <1>4, <2>1, <2>2, PushProperties
<1>7. /\ threadState' \in [Tid -> States]
      /\ \A t \in Tid : threadState'[t] = IF t = new THEN "READY" ELSE Reaped[t]
  BY <1>2, <1>3 DEF ThreadCreate, new, States
<1>8. sleepers' = sleepers
  BY <1>1, <1>5 DEF ThreadCreate, new, TypeOK
<1>9. /\ exitedQueue' = {}
      /\ waitQueues' = waitQueues \cup {new}
      /\ currThreadCount' \in Int
      /\ UNCHANGED <<running, process>>
  BY <1>1 DEF ThreadCreate, ReapExited, new, TypeOK
<1>10. mainThread' \in BOOLEAN /\ returned' \in Results
  <2>1. "thread_create" \in Calls /\ new \in Int
    BY <1>3, CodesAreIntegers DEF Calls
  <2> QED BY <1>1, <2>1, ResultType, ReapExitedType DEF ThreadCreate, new
<1>11. TypeOK'
  BY <1>1, <1>3, <1>6, <1>7, <1>8, <1>9, <1>10 DEF TypeOK, WaitQueues
<1>12. OneQueuePerThread'
  BY <1>1, <1>2, <1>3, <1>4, <1>6, <1>7, <1>8, <1>9 DEF OneQueuePerThread, TypeOK
<1>13. StateMatchesQueue'
  BY <1>1, <1>2, <1>3, <1>4, <1>6, <1>7, <1>9
     DEF StateMatchesQueue, OneQueuePerThread, TypeOK
<1>14. NoStrandedSleeper'
  BY <1>1, <1>8, <1>9 DEF NoStrandedSleeper
<1> QED BY <1>11, <1>12, <1>13, <1>14 DEF IInv

(* thread_create, when it returns an error. *)
LEMMA ThreadCreateFailsPreserves ==
  ASSUME IInv, ThreadCreateFails
  PROVE  IInv'
<1>1. "thread_create" \in Calls
  BY DEF Calls
<1>2. returned' \in Results
  BY <1>1, ResultType, CodesAreIntegers DEF ThreadCreateFails
<1> QED BY <1>2, ReapPreserves DEF ThreadCreateFails

-----------------------------------------------------------------------------
(* Emptying the wait queue w takes its sleepers, and only them, out of the *)
(* wait queues.                                                            *)
LEMMA EmptiedQueue ==
  ASSUME TypeOK, OneQueuePerThread, process = "running", NEW w \in WaitQueues,
         sleepers' = [sleepers EXCEPT ![w] = <<>>]
  PROVE  /\ sleepers' \in [WaitQueues -> Seq(Tid)]
         /\ sleepers'[w] = <<>>
         /\ \A q \in WaitQueues \ {w} : sleepers'[q] = sleepers[q]
         /\ \A q \in WaitQueues :
              /\ IsInjective(sleepers'[q])
              /\ Range(sleepers'[q]) \subseteq Range(sleepers[q])
              /\ Range(sleepers'[q]) \cap Range(sleepers[w]) = {}
              /\ \A r \in WaitQueues \ {q} : Range(sleepers'[q]) \cap Range(sleepers'[r]) = {}
         /\ \A t \in Tid :
              (\E q \in WaitQueues : t \in Range(sleepers[q])) <=>
                \/ t \in Range(sleepers[w])
                \/ \E q \in WaitQueues : t \in Range(sleepers'[q])
<1>1. /\ sleepers' \in [WaitQueues -> Seq(Tid)]
      /\ sleepers'[w] = <<>>
      /\ \A q \in WaitQueues \ {w} : sleepers'[q] = sleepers[q]
  BY DEF TypeOK
<1>2. Range(sleepers'[w]) = {} /\ IsInjective(sleepers'[w])
  BY <1>1 DEF Range, IsInjective
<1>3. \A q \in WaitQueues :
        /\ IsInjective(sleepers[q])
        /\ \A r \in WaitQueues \ {q} : Range(sleepers[q]) \cap Range(sleepers[r]) = {}
  BY DEF OneQueuePerThread
<1>4. ASSUME NEW q \in WaitQueues
      PROVE  /\ IsInjective(sleepers'[q])
             /\ Range(sleepers'[q]) \subseteq Range(sleepers[q])
             /\ Range(sleepers'[q]) \cap Range(sleepers[w]) = {}
             /\ \A r \in WaitQueues \ {q} : Range(sleepers'[q]) \cap Range(sleepers'[r]) = {}
  <2>1. CASE q = w
    BY <1>1, <1>2, <2>1
  <2>2. CASE q # w
    BY <1>1, <1>2, <1>3, <2>2
  <2> QED BY <2>1, <2>2
<1>5. ASSUME NEW t \in Tid
      PROVE  (\E q \in WaitQueues : t \in Range(sleepers[q])) <=>
                \/ t \in Range(sleepers[w])
                \/ \E q \in WaitQueues : t \in Range(sleepers'[q])
  BY <1>1, <1>2
<1> QED BY <1>1, <1>4, <1>5

(* thread_exit, when there is a thread to switch to. *)
LEMMA ThreadExitSwitchPreserves ==
  ASSUME IInv, ThreadExitSwitch
  PROVE  IInv'
<1> DEFINE woken  == Woken(running, threadState)
           killed == Killed(running, threadState)
           ready  == readyQueue \o woken
           next   == Head(ready)
<1>1. /\ TypeOK /\ OneQueuePerThread /\ StateMatchesQueue /\ NoStrandedSleeper
      /\ process = "running"
      /\ running \in Tid /\ running \in WaitQueues
  BY DEF IInv, ThreadExitSwitch, TypeOK, WaitQueues
<1>2. /\ readyQueue \in Seq(Tid) /\ IsInjective(readyQueue)
      /\ IsInjective(sleepers[running])
      /\ Range(readyQueue) \cap Range(sleepers[running]) = {}
  BY <1>1 DEF TypeOK, OneQueuePerThread
<1>3. /\ woken \in Seq(Tid) /\ IsInjective(woken)
      /\ Range(woken) = Range(sleepers[running]) \ killed
      /\ killed \subseteq Range(sleepers[running])
      /\ killed \subseteq Tid
      /\ \A t \in killed : threadState[t] = "EXITED"
  BY <1>1, <1>2, WokenProperties DEF TypeOK
<1>4. /\ ready \in Seq(Tid) /\ IsInjective(ready)
      /\ Range(ready) = Range(readyQueue) \cup Range(woken)
  BY <1>2, <1>3, ConcatQueues
<1>5. next \in Tid /\ next \in Range(ready)
  BY <1>4, PopProperties DEF ThreadExitSwitch
<1>6. /\ SwitchTo(next, ready, [threadState EXCEPT ![running] = "EXITED"])
      /\ exitedQueue' = exitedQueue \cup killed \cup {running}
      /\ DestroyJoinQueue(running)
      /\ currThreadCount' = currThreadCount - 1
      /\ UNCHANGED <<mainThread, process>>
  BY DEF ThreadExitSwitch
<1> HIDE DEF woken, killed, ready, next
<1>7. /\ readyQueue' \in Seq(Tid) /\ IsInjective(readyQueue')
      /\ Range(readyQueue') = Range(ready) \ {next}
  BY <1>4, <1>6, RemoveProperties DEF SwitchTo
<1>8. /\ threadState' \in [Tid -> States]
      /\ \A t \in Tid : threadState'[t] =
           IF t = next THEN "RUNNING" ELSE IF t = running THEN "EXITED" ELSE threadState[t]
      /\ running' = next
      /\ returned' \in Results
  BY <1>1, <1>5, <1>6, SwitchedIsResult DEF SwitchTo, TypeOK, States
<1>9. /\ waitQueues' = waitQueues \ {running}
      /\ sleepers' = [sleepers EXCEPT ![running] = <<>>]
  BY <1>6 DEF DestroyJoinQueue
<1>10. /\ sleepers' \in [WaitQueues -> Seq(Tid)]
       /\ sleepers'[running] = <<>>
       /\ \A q \in WaitQueues \ {running} : sleepers'[q] = sleepers[q]
       /\ \A q \in WaitQueues :
            /\ IsInjective(sleepers'[q])
            /\ Range(sleepers'[q]) \subseteq Range(sleepers[q])
            /\ Range(sleepers'[q]) \cap Range(sleepers[running]) = {}
            /\ \A r \in WaitQueues \ {q} : Range(sleepers'[q]) \cap Range(sleepers'[r]) = {}
       /\ \A t \in Tid :
            (\E q \in WaitQueues : t \in Range(sleepers[q])) <=>
              \/ t \in Range(sleepers[running])
              \/ \E q \in WaitQueues : t \in Range(sleepers'[q])
  BY <1>1, <1>9, EmptiedQueue
<1>11. TypeOK'
  BY <1>1, <1>3, <1>5, <1>6, <1>7, <1>8, <1>9, <1>10 DEF TypeOK
<1>12. OneQueuePerThread'
  <2>1. /\ next \notin Range(readyQueue') \cup exitedQueue'
        /\ Range(readyQueue') \cap exitedQueue' = {}
    BY <1>1, <1>3, <1>4, <1>5, <1>6, <1>7 DEF OneQueuePerThread
  <2>2. ASSUME NEW q \in WaitQueues
        PROVE  Range(sleepers'[q]) \cap (Range(readyQueue') \cup exitedQueue' \cup {next}) = {}
    <3>1. Range(sleepers[q]) \cap (Range(readyQueue) \cup exitedQueue \cup {running}) = {}
      BY <1>1 DEF OneQueuePerThread
    <3>2. Range(sleepers'[q]) \cap (Range(woken) \cup killed) = {}
      BY <1>3, <1>10
    <3>3. Range(sleepers'[q]) \subseteq Range(sleepers[q])
      BY <1>10
    <3> QED BY <1>4, <1>5, <1>6, <1>7, <3>1, <3>2, <3>3
  <2>3. ASSUME NEW t \in Tid
        PROVE  threadState'[t] # "NULL" <=>
                 \/ t = next
                 \/ t \in Range(readyQueue') \cup exitedQueue'
                 \/ \E q \in WaitQueues : t \in Range(sleepers'[q])
    <3>1. threadState[t] # "NULL" <=>
            \/ t = running
            \/ t \in Range(readyQueue) \cup exitedQueue
            \/ \E q \in WaitQueues : t \in Range(sleepers[q])
      BY <1>1 DEF OneQueuePerThread
    <3>2. (\E q \in WaitQueues : t \in Range(sleepers[q])) <=>
            \/ t \in Range(sleepers[running])
            \/ \E q \in WaitQueues : t \in Range(sleepers'[q])
      BY <1>10
    <3>3. t \in killed \cup Range(woken) <=> t \in Range(sleepers[running])
      BY <1>3
    <3>4. threadState'[t] # "NULL" <=> t \in {next, running} \/ threadState[t] # "NULL"
      BY <1>8
    <3>5. next \in Range(readyQueue) \cup Range(woken)
      BY <1>4, <1>5
    <3> QED BY <1>4, <1>6, <1>7, <3>1, <3>2, <3>3, <3>4, <3>5
  <2> QED BY <1>7, <1>8, <1>10, <2>1, <2>2, <2>3 DEF OneQueuePerThread
<1>13. StateMatchesQueue'
  BY <1>1, <1>3, <1>4, <1>5, <1>6, <1>7, <1>8, <1>9
     DEF StateMatchesQueue, OneQueuePerThread, TypeOK
<1>14. NoStrandedSleeper'
  BY <1>1, <1>9, <1>10 DEF NoStrandedSleeper
<1> QED BY <1>11, <1>12, <1>13, <1>14 DEF IInv

(* thread_exit of the last thread: the process is no longer running. *)
LEMMA ThreadExitLastPreserves ==
  ASSUME IInv, ThreadExitLast
  PROVE  IInv'
<1>1. TypeOK /\ running \in Tid /\ running \in WaitQueues
  BY DEF IInv, TypeOK, WaitQueues
<1>2. Killed(running, threadState) \subseteq Tid
  BY <1>1, WokenProperties DEF TypeOK
<1>3. process' \in Outcomes /\ process' # "running"
  BY DEF ThreadExitLast, Outcomes
<1>4. exitedQueue' \in SUBSET Tid
  BY <1>1, <1>2 DEF ThreadExitLast, TypeOK
<1>5. threadState' \in [Tid -> States]
  BY <1>1 DEF ThreadExitLast, TypeOK, States
<1>6. waitQueues' \in SUBSET WaitQueues /\ sleepers' \in [WaitQueues -> Seq(Tid)]
  BY <1>1 DEF ThreadExitLast, DestroyJoinQueue, TypeOK
<1>7. TypeOK'
  BY <1>1, <1>3, <1>4, <1>5, <1>6 DEF ThreadExitLast, TypeOK
<1> QED BY <1>3, <1>7 DEF IInv, OneQueuePerThread, StateMatchesQueue, NoStrandedSleeper

-----------------------------------------------------------------------------
(* thread_kill moves t out of the ready queue or leaves it where it is, and *)
(* wakes its joiners.                                                      *)
LEMMA ThreadKillPreserves ==
  ASSUME IInv, NEW t, ThreadKill(t)
  PROVE  IInv'
<1> DEFINE states  == [threadState EXCEPT ![t] = "EXITED"]
           isReady == {t} \cap {u \in Range(readyQueue) : threadState[u] = "READY"}
           woken   == Woken(t, states)
           killed  == Killed(t, states)
           rest    == IF isReady = {} THEN readyQueue ELSE QueueRemove(readyQueue, t)
<1>1. /\ TypeOK /\ OneQueuePerThread /\ StateMatchesQueue /\ NoStrandedSleeper
      /\ process = "running"
      /\ t \in Tid /\ t \in WaitQueues
      /\ threadState[t] \notin {"NULL", "EXITED"} /\ t # running
  BY DEF IInv, ThreadKill, CanKill, TypeOK, WaitQueues
<1>2. /\ readyQueue \in Seq(Tid) /\ IsInjective(readyQueue)
      /\ IsInjective(sleepers[t])
      /\ Range(readyQueue) \cap Range(sleepers[t]) = {}
  BY <1>1 DEF TypeOK, OneQueuePerThread
<1>3. /\ states \in [Tid -> States]
      /\ \A u \in Tid : states[u] = IF u = t THEN "EXITED" ELSE threadState[u]
  BY <1>1 DEF TypeOK, States
<1>4. /\ readyQueue' = rest \o woken
      /\ exitedQueue' = exitedQueue \cup isReady \cup killed
      /\ threadState' = states
      /\ waitQueues' = waitQueues \ {t}
      /\ sleepers' = [sleepers EXCEPT ![t] = <<>>]
      /\ currThreadCount' = currThreadCount - 1
      /\ UNCHANGED <<running, mainThread, process>>
  BY DEF ThreadKill, DestroyJoinQueue
<1>5. returned' \in Results
  <2>1. "thread_kill" \in Calls /\ t \in Int
    BY <1>1, CodesAreIntegers DEF Calls
  <2> QED BY <2>1, ResultType DEF ThreadKill
<1> HIDE DEF states
<1>6. /\ woken \in Seq(Tid) /\ IsInjective(woken)
      /\ Range(woken) = Range(sleepers[t]) \ killed
      /\ killed \subseteq Range(sleepers[t])
      /\ killed \subseteq Tid
      /\ \A u \in killed : states[u] = "EXITED"
  BY <1>1, <1>2, <1>3, WokenProperties
<1> HIDE DEF woken, killed
<1>7. /\ rest \in Seq(Tid) /\ IsInjective(rest)
      /\ Range(rest) = Range(readyQueue) \ isReady
  <2>1. CASE isReady = {}
    BY <1>2, <2>1
  <2>2. CASE isReady # {}
    <3>1. isReady = {t} /\ rest = QueueRemove(readyQueue, t)
      BY <2>2
    <3> HIDE DEF isReady, rest
    <3> QED BY <1>2, <3>1, RemoveProperties
  <2> QED BY <2>1, <2>2
<1>8. /\ isReady \subseteq Range(readyQueue) \cap {t}
      /\ threadState[t] = "READY" => isReady = {t}
  BY <1>1 DEF StateMatchesQueue
<1> HIDE DEF rest, isReady
<1>9. /\ readyQueue' \in Seq(Tid) /\ IsInjective(readyQueue')
      /\ Range(readyQueue') = (Range(readyQueue) \ isReady) \cup Range(woken)
  <2>1. Range(rest) \cap Range(woken) = {}
    BY <1>2, <1>6, <1>7
  <2> QED BY <1>4, <1>6, <1>7, <2>1, ConcatQueues
<1>10. /\ sleepers' \in [WaitQueues -> Seq(Tid)]
       /\ sleepers'[t] = <<>>
       /\ \A q \in WaitQueues \ {t} : sleepers'[q] = sleepers[q]
       /\ \A q \in WaitQueues :
            /\ IsInjective(sleepers'[q])
            /\ Range(sleepers'[q]) \subseteq Range(sleepers[q])
            /\ Range(sleepers'[q]) \cap Range(sleepers[t]) = {}
            /\ \A r \in WaitQueues \ {q} : Range(sleepers'[q]) \cap Range(sleepers'[r]) = {}
       /\ \A u \in Tid :
            (\E q \in WaitQueues : u \in Range(sleepers[q])) <=>
              \/ u \in Range(sleepers[t])
              \/ \E q \in WaitQueues : u \in Range(sleepers'[q])
  BY <1>1, <1>4, EmptiedQueue
<1>11. TypeOK'
  <2>1. exitedQueue' \in SUBSET Tid
    BY <1>1, <1>4, <1>6, <1>8 DEF TypeOK
  <2> QED BY <1>1, <1>3, <1>4, <1>5, <1>9, <1>10, <2>1 DEF TypeOK
<1>12. OneQueuePerThread'
  <2>1. /\ running \notin Range(readyQueue) \cup exitedQueue \cup Range(sleepers[t])
        /\ Range(readyQueue) \cap exitedQueue = {}
        /\ Range(sleepers[t]) \cap (Range(readyQueue) \cup exitedQueue) = {}
    BY <1>1 DEF OneQueuePerThread
  <2>2. /\ running \notin Range(readyQueue') \cup exitedQueue'
        /\ Range(readyQueue') \cap exitedQueue' = {}
    BY <1>1, <1>4, <1>6, <1>8, <1>9, <2>1
  <2>3. ASSUME NEW q \in WaitQueues
        PROVE  Range(sleepers'[q]) \cap (Range(readyQueue') \cup exitedQueue' \cup {running}) = {}
    <3>1. Range(sleepers[q]) \cap (Range(readyQueue) \cup exitedQueue \cup {running}) = {}
      BY <1>1 DEF OneQueuePerThread
    <3>2. Range(sleepers'[q]) \cap (Range(woken) \cup killed) = {}
      BY <1>6, <1>10
    <3>3. Range(sleepers'[q]) \subseteq Range(sleepers[q])
      BY <1>10
    <3> QED BY <1>4, <1>8, <1>9, <3>1, <3>2, <3>3
  <2>4. ASSUME NEW u \in Tid
        PROVE  threadState'[u] # "NULL" <=>
                 \/ u = running
                 \/ u \in Range(readyQueue') \cup exitedQueue'
                 \/ \E q \in WaitQueues : u \in Range(sleepers'[q])
    <3>1. threadState[u] # "NULL" <=>
            \/ u = running
            \/ u \in Range(readyQueue) \cup exitedQueue
            \/ \E q \in WaitQueues : u \in Range(sleepers[q])
      BY <1>1 DEF OneQueuePerThread
    <3>2. (\E q \in WaitQueues : u \in Range(sleepers[q])) <=>
            \/ u \in Range(sleepers[t])
            \/ \E q \in WaitQueues : u \in Range(sleepers'[q])
      BY <1>10
    <3>3. u \in killed \cup Range(woken) <=> u \in Range(sleepers[t])
      BY <1>6
    <3>4. threadState'[u] # "NULL" <=> threadState[u] # "NULL"
      BY <1>1, <1>3, <1>4
    <3> QED BY <1>4, <1>8, <1>9, <3>1, <3>2, <3>3, <3>4
  <2> QED BY <1>4, <1>9, <1>10, <2>2, <2>3, <2>4 DEF OneQueuePerThread
<1>13. StateMatchesQueue'
  <2>1. \A u \in Tid : threadState'[u] = "READY" => u \in Range(readyQueue')
    BY <1>1, <1>3, <1>4, <1>8, <1>9 DEF StateMatchesQueue
  <2>2. \A u \in Tid : u \in exitedQueue' => threadState'[u] = "EXITED"
    BY <1>1, <1>3, <1>4, <1>6, <1>8 DEF StateMatchesQueue
  <2> QED BY <1>1, <1>3, <1>4, <2>1, <2>2 DEF StateMatchesQueue
<1>14. NoStrandedSleeper'
  BY <1>1, <1>4, <1>10 DEF NoStrandedSleeper
<1> QED BY <1>11, <1>12, <1>13, <1>14 DEF IInv

-----------------------------------------------------------------------------
(* thread_sleep and thread_wait, when the caller is suspended. *)
LEMMA SleepOnPreserves ==
  ASSUME IInv, NEW q \in WaitQueues, SleepOn(q)
  PROVE  IInv'
<1> DEFINE next == Head(readyQueue)
<1>1. /\ TypeOK /\ OneQueuePerThread /\ StateMatchesQueue /\ NoStrandedSleeper
      /\ process = "running" /\ process' = "running"
      /\ running \in Tid
      /\ q \in waitQueues /\ readyQueue # <<>>
      /\ UNCHANGED <<exitedQueue, waitQueues, currThreadCount, mainThread>>
  BY DEF IInv, SleepOn, CanSleep, TypeOK
<1>2. readyQueue \in Seq(Tid) /\ IsInjective(readyQueue)
  BY <1>1 DEF TypeOK, OneQueuePerThread
<1>3. next \in Tid /\ next \in Range(readyQueue)
  BY <1>1, <1>2, PopProperties
<1> HIDE DEF next
<1>4. /\ readyQueue' \in Seq(Tid) /\ IsInjective(readyQueue')
      /\ Range(readyQueue') = Range(readyQueue) \ {next}
  BY <1>2, RemoveProperties DEF SleepOn, SwitchTo, next
<1>5. /\ threadState' \in [Tid -> States]
      /\ \A t \in Tid : threadState'[t] =
           IF t = next THEN "RUNNING" ELSE IF t = running THEN "WAITING" ELSE threadState[t]
      /\ running' = next
      /\ returned' \in Results
  BY <1>1, <1>3, SwitchedIsResult DEF SleepOn, SwitchTo, next, TypeOK, States
<1>6. /\ sleepers[q] \in Seq(Tid) /\ IsInjective(sleepers[q])
      /\ running \notin Range(sleepers[q])
  BY <1>1 DEF TypeOK, OneQueuePerThread
<1>7. /\ sleepers' \in [WaitQueues -> Seq(Tid)]
      /\ \A r \in WaitQueues \ {q} : sleepers'[r] = sleepers[r]
      /\ IsInjective(sleepers'[q])
      /\ Range(sleepers'[q]) = Range(sleepers[q]) \cup {running}
  <2>1. sleepers' = [sleepers EXCEPT ![q] = QueuePush(sleepers[q], running)]
    BY DEF SleepOn
  <2>2. /\ QueuePush(sleepers[q], running) \in Seq(Tid)
        /\ IsInjective(QueuePush(sleepers[q], running))
        /\ Range(QueuePush(sleepers[q], running)) = Range(sleepers[q]) \cup {running}
    BY <1>1, <1>6, PushProperties
  <2> QED BY <1>1, <2>1, <2>2 DEF TypeOK
<1>8. TypeOK'
  BY <1>1, <1>3, <1>4, <1>5, <1>7 DEF TypeOK
<1>9. OneQueuePerThread'
  <2>1. /\ next \notin Range(readyQueue') \cup exitedQueue'
        /\ Range(readyQueue') \cap exitedQueue' = {}
        /\ running # next
    BY <1>1, <1>3, <1>4 DEF OneQueuePerThread
  <2>2. ASSUME NEW r \in WaitQueues
        PROVE  /\ IsInjective(sleepers'[r])
               /\ Range(sleepers'[r]) \cap (Range(readyQueue') \cup exitedQueue' \cup {next}) = {}
    <3>1. /\ IsInjective(sleepers[r])
          /\ Range(sleepers[r]) \cap (Range(readyQueue) \cup exitedQueue \cup {running}) = {}
          /\ running \notin Range(readyQueue) \cup exitedQueue
      BY <1>1 DEF OneQueuePerThread
    <3>2. Range(sleepers'[r]) \subseteq Range(sleepers[r]) \cup {running}
      BY <1>7
    <3>3. IsInjective(sleepers'[r])
      BY <1>7, <3>1
    <3> QED BY <1>1, <1>3, <1>4, <2>1, <3>1, <3>2, <3>3
  <2>3. ASSUME NEW r \in WaitQueues, NEW u \in WaitQueues \ {r}
        PROVE  Range(sleepers'[r]) \cap Range(sleepers'[u]) = {}
    <3>1. /\ Range(sleepers[r]) \cap Range(sleepers[u]) = {}
          /\ running \notin Range(sleepers[r]) /\ running \notin Range(sleepers[u])
      BY <1>1 DEF OneQueuePerThread
    <3>2. CASE r = q
      BY <1>7, <3>1, <3>2
    <3>3. CASE u = q
      BY <1>7, <3>1, <3>3
    <3>4. CASE r # q /\ u # q
      BY <1>7, <3>1, <3>4
    <3> QED BY <3>2, <3>3, <3>4
  <2>4. ASSUME NEW t \in Tid
        PROVE  threadState'[t] # "NULL" <=>
                 \/ t = next
                 \/ t \in Range(readyQueue') \cup exitedQueue'
                 \/ \E r \in WaitQueues : t \in Range(sleepers'[r])
    <3>1. threadState[t] # "NULL" <=>
            \/ t = running
            \/ t \in Range(readyQueue) \cup exitedQueue
            \/ \E r \in WaitQueues : t \in Range(sleepers[r])
      BY <1>1 DEF OneQueuePerThread
    <3>2. (\E r \in WaitQueues : t \in Range(sleepers'[r])) <=>
            \/ t = running
            \/ \E r \in WaitQueues : t \in Range(sleepers[r])
      BY <1>7
    <3>3. threadState'[t] # "NULL" <=> t \in {next, running} \/ threadState[t] # "NULL"
      BY <1>5
    <3> QED BY <1>1, <1>3, <1>4, <3>1, <3>2, <3>3
  <2> QED BY <1>4, <1>5, <2>1, <2>2, <2>3, <2>4 DEF OneQueuePerThread
<1>10. StateMatchesQueue'
  BY <1>1, <1>3, <1>4, <1>5 DEF StateMatchesQueue, OneQueuePerThread, TypeOK
<1>11. NoStrandedSleeper'
  BY <1>1, <1>7 DEF NoStrandedSleeper
<1> QED BY <1>8, <1>9, <1>10, <1>11 DEF IInv

(* thread_wakeup(q, 1), alone or inside wait_queue_destroy, which takes q  *)
(* away once it is empty.                                                  *)
LEMMA WakeAllPreserves ==
  ASSUME IInv, process = "running", NEW q \in WaitQueues, WakeAll(q),
         waitQueues' \in {waitQueues, waitQueues \ {q}},
         UNCHANGED <<threadState, running, currThreadCount, mainThread, process>>,
         returned' \in Results
  PROVE  IInv'
<1> DEFINE woken  == Woken(q, threadState)
           killed == Killed(q, threadState)
<1>1. /\ TypeOK /\ OneQueuePerThread /\ StateMatchesQueue /\ NoStrandedSleeper
  BY DEF IInv
<1>2. /\ readyQueue \in Seq(Tid) /\ IsInjective(readyQueue)
      /\ IsInjective(sleepers[q])
      /\ Range(readyQueue) \cap Range(sleepers[q]) = {}
      /\ Range(sleepers[q]) \cap (exitedQueue \cup {running}) = {}
      /\ Range(readyQueue) \cap exitedQueue = {}
      /\ running \notin Range(readyQueue) \cup exitedQueue
  BY <1>1 DEF TypeOK, OneQueuePerThread
<1>3. /\ woken \in Seq(Tid) /\ IsInjective(woken)
      /\ Range(woken) = Range(sleepers[q]) \ killed
      /\ killed \subseteq Range(sleepers[q])
      /\ killed \subseteq Tid
      /\ \A t \in killed : threadState[t] = "EXITED"
  BY <1>1, <1>2, WokenProperties DEF TypeOK
<1>4. /\ readyQueue' = readyQueue \o woken
      /\ exitedQueue' = exitedQueue \cup killed
      /\ sleepers' = [sleepers EXCEPT ![q] = <<>>]
  BY DEF WakeAll
<1> HIDE DEF woken, killed
<1>5. /\ readyQueue' \in Seq(Tid) /\ IsInjective(readyQueue')
      /\ Range(readyQueue') = Range(readyQueue) \cup Range(woken)
  <2>1. Range(readyQueue) \cap Range(woken) = {}
    BY <1>2, <1>3
  <2> QED BY <1>2, <1>3, <1>4, <2>1, ConcatQueues
<1>6. /\ sleepers' \in [WaitQueues -> Seq(Tid)]
      /\ sleepers'[q] = <<>>
      /\ \A r \in WaitQueues \ {q} : sleepers'[r] = sleepers[r]
      /\ \A r \in WaitQueues :
           /\ IsInjective(sleepers'[r])
           /\ Range(sleepers'[r]) \subseteq Range(sleepers[r])
           /\ Range(sleepers'[r]) \cap Range(sleepers[q]) = {}
           /\ \A u \in WaitQueues \ {r} : Range(sleepers'[r]) \cap Range(sleepers'[u]) = {}
      /\ \A t \in Tid :
           (\E r \in WaitQueues : t \in Range(sleepers[r])) <=>
             \/ t \in Range(sleepers[q])
             \/ \E r \in WaitQueues : t \in Range(sleepers'[r])
  BY <1>1, <1>4, EmptiedQueue
<1>7. TypeOK'
  BY <1>1, <1>3, <1>4, <1>5, <1>6 DEF TypeOK
<1>8. OneQueuePerThread'
  <2>1. /\ running \notin Range(readyQueue') \cup exitedQueue'
        /\ Range(readyQueue') \cap exitedQueue' = {}
    BY <1>2, <1>3, <1>4, <1>5
  <2>2. ASSUME NEW r \in WaitQueues
        PROVE  Range(sleepers'[r]) \cap (Range(readyQueue') \cup exitedQueue' \cup {running}) = {}
    <3>1. Range(sleepers[r]) \cap (Range(readyQueue) \cup exitedQueue \cup {running}) = {}
      BY <1>1 DEF OneQueuePerThread
    <3>2. Range(sleepers'[r]) \cap (Range(woken) \cup killed) = {}
      BY <1>3, <1>6
    <3>3. Range(sleepers'[r]) \subseteq Range(sleepers[r])
      BY <1>6
    <3> QED BY <1>4, <1>5, <3>1, <3>2, <3>3
  <2>3. ASSUME NEW t \in Tid
        PROVE  threadState[t] # "NULL" <=>
                 \/ t = running
                 \/ t \in Range(readyQueue') \cup exitedQueue'
                 \/ \E r \in WaitQueues : t \in Range(sleepers'[r])
    <3>1. threadState[t] # "NULL" <=>
            \/ t = running
            \/ t \in Range(readyQueue) \cup exitedQueue
            \/ \E r \in WaitQueues : t \in Range(sleepers[r])
      BY <1>1 DEF OneQueuePerThread
    <3>2. (\E r \in WaitQueues : t \in Range(sleepers[r])) <=>
            \/ t \in Range(sleepers[q])
            \/ \E r \in WaitQueues : t \in Range(sleepers'[r])
      BY <1>6
    <3>3. t \in killed \cup Range(woken) <=> t \in Range(sleepers[q])
      BY <1>3
    <3> QED BY <1>4, <1>5, <3>1, <3>2, <3>3
  <2> QED BY <1>5, <1>6, <2>1, <2>2, <2>3 DEF OneQueuePerThread
<1>9. StateMatchesQueue'
  BY <1>1, <1>3, <1>4, <1>5 DEF StateMatchesQueue
<1>10. NoStrandedSleeper'
  BY <1>1, <1>6 DEF NoStrandedSleeper
<1> QED BY <1>7, <1>8, <1>9, <1>10 DEF IInv
(* thread_wakeup(q, 0). *)
LEMMA WakeOnePreserves ==
  ASSUME IInv, process = "running", NEW q \in WaitQueues, WakeOne(q),
         UNCHANGED <<threadState, running, waitQueues, currThreadCount, mainThread, process>>,
         returned' \in Results
  PROVE  IInv'
<1> DEFINE woken == Head(sleepers[q])
<1>1. /\ TypeOK /\ OneQueuePerThread /\ StateMatchesQueue /\ NoStrandedSleeper
      /\ sleepers[q] # <<>>
      /\ sleepers' = [sleepers EXCEPT ![q] = Tail(sleepers[q])]
  BY DEF IInv, WakeOne
<1>2. /\ readyQueue \in Seq(Tid) /\ IsInjective(readyQueue)
      /\ sleepers[q] \in Seq(Tid) /\ IsInjective(sleepers[q])
      /\ Range(sleepers[q]) \cap (Range(readyQueue) \cup exitedQueue \cup {running}) = {}
      /\ Range(readyQueue) \cap exitedQueue = {}
      /\ running \notin Range(readyQueue) \cup exitedQueue
  BY <1>1 DEF TypeOK, OneQueuePerThread
<1>3. /\ woken \in Tid /\ woken \in Range(sleepers[q])
      /\ Tail(sleepers[q]) \in Seq(Tid) /\ IsInjective(Tail(sleepers[q]))
      /\ Range(Tail(sleepers[q])) = Range(sleepers[q]) \ {woken}
  BY <1>1, <1>2, PopProperties
<1>4. \/ /\ threadState[woken] = "EXITED"
         /\ exitedQueue' = exitedQueue \cup {woken}
         /\ readyQueue' = readyQueue
      \/ /\ exitedQueue' = exitedQueue
         /\ readyQueue' = QueuePush(readyQueue, woken)
  BY DEF WakeOne
<1> HIDE DEF woken
<1>5. /\ readyQueue' \in Seq(Tid) /\ IsInjective(readyQueue')
      /\ exitedQueue' \in SUBSET Tid
      /\ Range(readyQueue') \cup exitedQueue' = Range(readyQueue) \cup exitedQueue \cup {woken}
      /\ Range(readyQueue) \subseteq Range(readyQueue')
      /\ Range(readyQueue') \cap exitedQueue' = {}
      /\ exitedQueue' \ exitedQueue \subseteq {t \in Tid : threadState[t] = "EXITED"}
  <2>1. woken \notin Range(readyQueue) /\ woken \notin exitedQueue /\ exitedQueue \subseteq Tid
    BY <1>1, <1>2, <1>3 DEF TypeOK
  <2>2. /\ QueuePush(readyQueue, woken) \in Seq(Tid)
        /\ Range(QueuePush(readyQueue, woken)) = Range(readyQueue) \cup {woken}
        /\ IsInjective(QueuePush(readyQueue, woken))
    BY <1>2, <1>3, <2>1, PushProperties
  <2> QED BY <1>2, <1>3, <1>4, <2>1, <2>2
<1>6. /\ sleepers' \in [WaitQueues -> Seq(Tid)]
      /\ \A r \in WaitQueues \ {q} : sleepers'[r] = sleepers[r]
      /\ IsInjective(sleepers'[q])
      /\ Range(sleepers'[q]) = Range(sleepers[q]) \ {woken}
  BY <1>1, <1>3 DEF TypeOK
<1>7. TypeOK'
  BY <1>1, <1>5, <1>6 DEF TypeOK
<1>8. OneQueuePerThread'
  <2>1. running \notin Range(readyQueue') \cup exitedQueue'
    BY <1>2, <1>3, <1>5
  <2>2. ASSUME NEW r \in WaitQueues
        PROVE  /\ IsInjective(sleepers'[r])
               /\ Range(sleepers'[r]) \cap (Range(readyQueue') \cup exitedQueue' \cup {running}) = {}
    <3>1. /\ IsInjective(sleepers[r])
          /\ Range(sleepers[r]) \cap (Range(readyQueue) \cup exitedQueue \cup {running}) = {}
          /\ r # q => Range(sleepers[r]) \cap Range(sleepers[q]) = {}
      BY <1>1 DEF OneQueuePerThread
    <3>2. Range(sleepers'[r]) \subseteq Range(sleepers[r]) /\ woken \notin Range(sleepers'[r])
      BY <1>3, <1>6, <3>1
    <3>3. IsInjective(sleepers'[r])
      BY <1>6, <3>1
    <3> QED BY <1>5, <3>1, <3>2, <3>3
  <2>3. ASSUME NEW r \in WaitQueues, NEW u \in WaitQueues \ {r}
        PROVE  Range(sleepers'[r]) \cap Range(sleepers'[u]) = {}
    <3>1. Range(sleepers[r]) \cap Range(sleepers[u]) = {}
      BY <1>1 DEF OneQueuePerThread
    <3>2. Range(sleepers'[r]) \subseteq Range(sleepers[r])
      BY <1>6
    <3>3. Range(sleepers'[u]) \subseteq Range(sleepers[u])
      BY <1>6
    <3> QED BY <3>1, <3>2, <3>3
  <2>4. ASSUME NEW t \in Tid
        PROVE  threadState[t] # "NULL" <=>
                 \/ t = running
                 \/ t \in Range(readyQueue') \cup exitedQueue'
                 \/ \E r \in WaitQueues : t \in Range(sleepers'[r])
    <3>1. threadState[t] # "NULL" <=>
            \/ t = running
            \/ t \in Range(readyQueue) \cup exitedQueue
            \/ \E r \in WaitQueues : t \in Range(sleepers[r])
      BY <1>1 DEF OneQueuePerThread
    <3>2. (\E r \in WaitQueues : t \in Range(sleepers[r])) <=>
            \/ t = woken
            \/ \E r \in WaitQueues : t \in Range(sleepers'[r])
      BY <1>3, <1>6
    <3> QED BY <1>5, <3>1, <3>2
  <2> QED BY <1>5, <2>1, <2>2, <2>3, <2>4 DEF OneQueuePerThread
<1>9. StateMatchesQueue'
  BY <1>1, <1>5 DEF StateMatchesQueue
<1>10. NoStrandedSleeper'
  <2>1. ASSUME NEW r \in WaitQueues, sleepers'[r] # <<>> PROVE sleepers[r] # <<>>
    BY <1>1, <1>6, <2>1
  <2> QED BY <1>1, <2>1 DEF NoStrandedSleeper
<1> QED BY <1>7, <1>8, <1>9, <1>10 DEF IInv

(* thread_wakeup. *)
LEMMA ThreadWakeupPreserves ==
  ASSUME IInv, NEW q \in WaitQueues, NEW all, ThreadWakeup(q, all)
  PROVE  IInv'
<1>1. "thread_wakeup" \in Calls
  BY DEF Calls
<1>2. sleepers[q] \in Seq(Tid)
  BY DEF IInv, TypeOK
<1>3. Len(sleepers[q]) \in Int
  BY <1>2
<1>4. returned' \in Results
  BY <1>1, <1>3, ResultType DEF ThreadWakeup
<1>5. /\ process = "running"
      /\ UNCHANGED <<threadState, running, waitQueues, currThreadCount, mainThread, process>>
      /\ WakeOne(q) \/ WakeAll(q)
  BY DEF ThreadWakeup
<1> QED BY <1>4, <1>5, WakeOnePreserves, WakeAllPreserves

(* wait_queue_create. *)
LEMMA WaitQueueCreatePreserves ==
  ASSUME IInv, NEW q \in ClientQueues, WaitQueueCreate(q)
  PROVE  IInv'
<1>1. "wait_queue_create" \in Calls
  BY DEF Calls
<1>2. returned' \in Results
  BY <1>1, ResultType DEF WaitQueueCreate
<1>3. /\ TypeOK /\ OneQueuePerThread /\ StateMatchesQueue /\ NoStrandedSleeper
      /\ q \in WaitQueues /\ q \notin Tid
      /\ waitQueues' = waitQueues \cup {q}
      /\ UNCHANGED <<threadState, running, readyQueue, exitedQueue, sleepers,
                     currThreadCount, mainThread, process>>
  BY ClientQueuesAssumption DEF IInv, WaitQueueCreate, WaitQueues
<1>4. TypeOK'
  BY <1>2, <1>3 DEF TypeOK
<1>5. OneQueuePerThread'
  BY <1>3 DEF OneQueuePerThread
<1>6. StateMatchesQueue'
  BY <1>3 DEF StateMatchesQueue
<1>7. NoStrandedSleeper'
  BY <1>3 DEF NoStrandedSleeper
<1> QED BY <1>4, <1>5, <1>6, <1>7 DEF IInv

(* wait_queue_destroy. *)
LEMMA WaitQueueDestroyPreserves ==
  ASSUME IInv, NEW q \in WaitQueues, WaitQueueDestroy(q)
  PROVE  IInv'
<1>1. "wait_queue_destroy" \in Calls
  BY DEF Calls
<1>2. returned' \in Results
  BY <1>1, ResultType DEF WaitQueueDestroy
<1> QED BY <1>2, WakeAllPreserves DEF WaitQueueDestroy

-----------------------------------------------------------------------------
(* The state after thread_init. *)
LEMMA InitIInv == Init => IInv
<1> SUFFICES ASSUME Init PROVE IInv
  OBVIOUS
<1>1. 0 \in Tid /\ 0 \in WaitQueues
  BY MaxThreadsAssumption DEF Tid, WaitQueues
<1>2. Range(<<>>) = {} /\ IsInjective(<<>>)
  BY DEF Range, IsInjective
<1>3. TypeOK
  BY <1>1, SwitchedIsResult DEF Init, TypeOK, States, Outcomes
<1>4. OneQueuePerThread
  BY <1>1, <1>2 DEF Init, OneQueuePerThread
<1>5. StateMatchesQueue
  BY <1>1, <1>2 DEF Init, StateMatchesQueue
<1>6. NoStrandedSleeper
  BY DEF Init, NoStrandedSleeper
<1> QED BY <1>3, <1>4, <1>5, <1>6 DEF IInv

(* Every step preserves the inductive invariant. *)
LEMMA NextIInv == IInv /\ [Next]_vars => IInv'
<1> SUFFICES ASSUME IInv, [Next]_vars PROVE IInv'
  OBVIOUS
<1>1. CASE ThreadCreate
  BY <1>1, ThreadCreatePreserves
<1>2. CASE ThreadCreateFails
  BY <1>2, ThreadCreateFailsPreserves
<1>3. CASE ThreadCreateAborts
  BY <1>3, DiePreserves DEF ThreadCreateAborts, Outcomes
<1>4. ASSUME NEW want \in YieldArguments, ThreadYield(want) PROVE IInv'
  BY <1>4, ThreadYieldPreserves
<1>5. CASE InterruptHandler
  BY <1>5, ThreadYieldPreserves DEF InterruptHandler
<1>6. CASE ThreadExit
  <2>1. CASE ThreadExitSwitch
    BY <2>1, ThreadExitSwitchPreserves
  <2>2. CASE ThreadExitLast
    BY <2>2, ThreadExitLastPreserves
  <2>3. CASE ThreadExitCrash
    BY <2>3, DiePreserves DEF ThreadExitCrash, Outcomes
  <2> QED BY <1>6, <2>1, <2>2, <2>3 DEF ThreadExit
<1>7. CASE InterruptWhileExiting
  BY <1>7, DiePreserves DEF InterruptWhileExiting, Outcomes
<1>8. CASE ProcessExit
  BY <1>8, DiePreserves DEF ProcessExit, Outcomes
<1>9. ASSUME NEW t \in TidArguments, ThreadKill(t) PROVE IInv'
  BY <1>9, ThreadKillPreserves DEF ThreadKill, CanKill
<1>10. ASSUME NEW t \in TidArguments, ThreadKillCrash(t) PROVE IInv'
  BY <1>10, DiePreserves DEF ThreadKillCrash, Outcomes
<1>11. ASSUME NEW t \in TidArguments, ThreadKillFails(t) PROVE IInv'
  BY <1>11, ReturnPreserves, CodesAreIntegers DEF ThreadKillFails, Calls
<1>12. ASSUME NEW t \in TidArguments, ThreadWait(t) PROVE IInv'
  BY <1>12, SleepOnPreserves DEF ThreadWait, CanWait, WaitQueues
<1>13. ASSUME NEW t \in TidArguments, ThreadWaitReturns(t) PROVE IInv'
  <2>1. (IF CanWait(t) THEN t ELSE THREAD_INVALID) \in Int
    BY CodesAreIntegers DEF CanWait
  <2> QED BY <1>13, <2>1, ReturnPreserves DEF ThreadWaitReturns, Calls
<1>14. ASSUME NEW q \in ClientQueues, ThreadSleep(q) PROVE IInv'
  BY <1>14, SleepOnPreserves DEF ThreadSleep, WaitQueues
<1>15. ASSUME NEW q \in ClientQueues, ThreadSleepFails(q) PROVE IInv'
  BY <1>15, ReturnPreserves, CodesAreIntegers DEF ThreadSleepFails, Calls
<1>16. ASSUME NEW q \in ClientQueues, NEW all \in 0..2, ThreadWakeup(q, all) PROVE IInv'
  BY <1>16, ThreadWakeupPreserves DEF WaitQueues
<1>17. ASSUME NEW q \in ClientQueues, NEW all \in 0..2, ThreadWakeupNone(q, all) PROVE IInv'
  BY <1>17, ReturnPreserves DEF ThreadWakeupNone, Calls
<1>18. ASSUME NEW q \in ClientQueues, WaitQueueCreate(q) PROVE IInv'
  BY <1>18, WaitQueueCreatePreserves
<1>19. ASSUME NEW q \in ClientQueues, WaitQueueDestroy(q) PROVE IInv'
  BY <1>19, WaitQueueDestroyPreserves DEF WaitQueues
<1>20. ASSUME NEW q \in ClientQueues, WaitQueueCreateAborts(q) PROVE IInv'
  BY <1>20, DiePreserves DEF WaitQueueCreateAborts, Outcomes
<1>21. ASSUME NEW q \in ClientQueues, WaitQueueDestroyCrash(q) PROVE IInv'
  BY <1>21, DiePreserves DEF WaitQueueDestroyCrash, Outcomes
<1>22. CASE UNCHANGED vars
  BY <1>22 DEF vars, IInv, TypeOK, OneQueuePerThread, StateMatchesQueue, NoStrandedSleeper
<1> QED
  BY <1>1, <1>2, <1>3, <1>4, <1>5, <1>6, <1>7, <1>8, <1>9, <1>10, <1>11, <1>12, <1>13,
     <1>14, <1>15, <1>16, <1>17, <1>18, <1>19, <1>20, <1>21, <1>22
     DEF Next, ThreadCalls, QueueCalls, Terminated

(* The inductive invariant holds in every state the library reaches. *)
THEOREM Inductive == Spec => []IInv
BY InitIInv, NextIInv, PTL DEF Spec

(* Every variable keeps its type: in particular thread_create never writes *)
(* outside allThreads, and no queue holds a Tid out of range.              *)
THEOREM TypeCorrect == Spec => []TypeOK
<1>1. IInv => TypeOK
  BY DEF IInv
<1> QED BY <1>1, Inductive, PTL

(* The node of every thread is in exactly one queue, once: no list of      *)
(* nodes ever gets a cycle, no thread is freed while it is queued          *)
(* elsewhere, and none is lost.                                            *)
THEOREM NodesHaveOneOwner == Spec => []OneQueuePerThread
<1>1. IInv => OneQueuePerThread
  BY DEF IInv
<1> QED BY <1>1, Inductive, PTL

(* What thread_kill and thread_wakeup read from threadState about where a  *)
(* thread is queued is true.                                               *)
THEOREM StatesAreRight == Spec => []StateMatchesQueue
<1>1. IInv => StateMatchesQueue
  BY DEF IInv
<1> QED BY <1>1, Inductive, PTL

(* No thread sleeps in a wait queue that was freed. *)
THEOREM NobodyIsStranded == Spec => []NoStrandedSleeper
<1>1. IInv => NoStrandedSleeper
  BY DEF IInv
<1> QED BY <1>1, Inductive, PTL

-----------------------------------------------------------------------------
(* A crash happens in a state that explains it, and nothing changes after. *)
LEMMA NextCrashes ==
  ASSUME IInv, CrashesExplained, [Next]_vars
  PROVE  CrashesExplained'
<1>1. CASE process' \notin {"segv_switch", "segv_destroy", "segv_client"}
  BY <1>1 DEF CrashesExplained
<1>2. CASE UNCHANGED vars
  BY <1>2 DEF vars, CrashesExplained, Zombie
<1>3. ASSUME NEW want, ThreadYield(want), process' \in {"segv_switch", "segv_destroy", "segv_client"}
      PROVE  CrashesExplained'
  <2>1. /\ process = "running"
        /\ want \in Tid
        /\ Reaped[want] # "NULL"
        /\ want \notin Range(QueuePush(readyQueue, running))
        /\ Die("segv_switch")
    BY <1>3 DEF ThreadYield, YieldReturns, YieldTo
  <2>2. /\ readyQueue \in Seq(Tid) /\ running \in Tid
        /\ threadState[want] # "NULL" /\ want \notin exitedQueue
    BY <2>1 DEF IInv, TypeOK, Reaped
  <2>3. want # running /\ want \notin Range(readyQueue)
    BY <2>1, <2>2, PushProperties
  <2>4. PICK q \in WaitQueues : want \in Range(sleepers[q])
    BY <2>1, <2>2, <2>3 DEF IInv, OneQueuePerThread
  <2>5. sleepers[q] # <<>>
    BY <2>4 DEF Range
  <2> QED BY <2>1, <2>5 DEF Die, CrashesExplained
<1>4. ASSUME ThreadExitCrash PROVE CrashesExplained'
  <2>1. running \in Tid /\ Zombie(running)
    BY <1>4 DEF ThreadExitCrash, IInv, TypeOK, Zombie
  <2> QED BY <1>4, <2>1 DEF ThreadExitCrash, Die, CrashesExplained, Zombie
<1>5. ASSUME NEW t, ThreadKillCrash(t) PROVE CrashesExplained'
  <2>1. threadState[t] \in {"READY", "WAITING"} /\ t \in Tid /\ t \notin waitQueues
    BY <1>5 DEF ThreadKillCrash, CanKill, IInv, TypeOK, States, StateMatchesQueue
  <2>2. Zombie(t)
    BY <1>5, <2>1 DEF Zombie, ThreadKillCrash, IInv, StateMatchesQueue
  <2> QED BY <1>5, <2>1, <2>2 DEF ThreadKillCrash, Die, CrashesExplained, Zombie
<1>6. ASSUME NEW q \in ClientQueues, WaitQueueDestroyCrash(q) PROVE CrashesExplained'
  BY <1>6 DEF WaitQueueDestroyCrash, Die, CrashesExplained
<1>7. ASSUME process' \in {"segv_switch", "segv_destroy", "segv_client"}, Next, ~UNCHANGED vars
      PROVE  \/ \E want : ThreadYield(want)
             \/ ThreadExitCrash
             \/ \E t : ThreadKillCrash(t)
             \/ \E q \in ClientQueues : WaitQueueDestroyCrash(q)
  BY <1>7
     DEF Next, ThreadCalls, QueueCalls, ThreadCreate, ThreadCreateFails, ThreadCreateAborts, InterruptHandler,
         ThreadExit, ThreadExitSwitch, ThreadExitLast, InterruptWhileExiting, ProcessExit,
         ThreadKill, ThreadKillFails, ThreadWait, ThreadWaitReturns, ThreadSleep,
         ThreadSleepFails, SleepOn, ThreadWakeup, ThreadWakeupNone, WaitQueueCreate,
         WaitQueueCreateAborts, WaitQueueDestroyCrash, WaitQueueDestroy, Terminated, Return, Die
<1> QED BY <1>1, <1>2, <1>3, <1>4, <1>5, <1>6, <1>7

(* After thread_init, the library dereferences NULL only after a yield to  *)
(* a thread while some thread sleeps, after an exit or a kill while a      *)
(* killed thread can still run, or where the client destroys a NULL.       *)
THEOREM CrashesAreExplained == Spec => []CrashesExplained
<1>1. Init => CrashesExplained
  BY DEF Init, CrashesExplained
<1> QED BY <1>1, Inductive, NextCrashes, PTL DEF Spec

-----------------------------------------------------------------------------
(* Only the end of u takes a thread out of the wait queue of u.            *)
LEMMA NextJoiners ==
  ASSUME IInv, [Next]_vars, NEW u \in Tid,
         ~(Range(sleepers[u]) \subseteq Range(sleepers'[u]))
  PROVE  u \in waitQueues \ waitQueues'
<1>1. /\ u \in WaitQueues
      /\ sleepers \in [WaitQueues -> Seq(Tid)]
      /\ sleepers' # sleepers
      /\ running \in Tid
  BY DEF IInv, TypeOK, WaitQueues
<1>2. ASSUME NEW t \in Tid, t \in waitQueues, DestroyJoinQueue(t)
      PROVE  u \in waitQueues \ waitQueues'
  BY <1>1, <1>2 DEF DestroyJoinQueue
<1>3. ASSUME NEW q \in WaitQueues, SleepOn(q) PROVE FALSE
  <2>1. CASE u = q
    <3>1. sleepers'[u] = QueuePush(sleepers[u], running)
      BY <1>1, <1>3, <2>1 DEF SleepOn
    <3> QED BY <1>1, <3>1, PushProperties
  <2>2. CASE u # q
    BY <1>1, <1>3, <2>2 DEF SleepOn
  <2> QED BY <2>1, <2>2
<1>4. ASSUME NEW q \in ClientQueues, WakeOne(q) \/ WakeAll(q) PROVE FALSE
  <2>1. q \in WaitQueues /\ q # u
    BY ClientQueuesAssumption DEF WaitQueues
  <2>2. sleepers'[u] = sleepers[u]
    BY <1>1, <1>4, <2>1 DEF WakeOne, WakeAll
  <2> QED BY <2>2
<1>5. ASSUME ThreadCreate PROVE FALSE
  <2> DEFINE new == LowestFree(Reaped)
  <2>1. Reaped \in [Tid -> States] /\ process = "running"
    BY <1>5 DEF ThreadCreate, Reaped, IInv, TypeOK, States
  <2>2. new \in Tid /\ Reaped[new] = "NULL"
    BY <1>5, <2>1, LowestFreeIsFree DEF ThreadCreate
  <2>3. sleepers' = [sleepers EXCEPT ![new] = <<>>]
    BY <1>5 DEF ThreadCreate
  <2> HIDE DEF new
  <2>4. new \notin waitQueues
    BY <2>1, <2>2 DEF Reaped, IInv, StateMatchesQueue
  <2>5. sleepers[new] = <<>>
    BY <2>1, <2>2, <2>4 DEF IInv, NoStrandedSleeper, WaitQueues
  <2> QED BY <1>1, <2>3, <2>5
<1>6. ASSUME NEW t, ThreadWait(t) PROVE FALSE
  BY <1>3, <1>6 DEF ThreadWait, CanWait, WaitQueues
<1>7. ASSUME NEW q \in ClientQueues, ThreadSleep(q) PROVE FALSE
  BY <1>3, <1>7 DEF ThreadSleep, WaitQueues
<1>8. ASSUME NEW q \in ClientQueues, NEW all,
             ThreadWakeup(q, all) \/ WaitQueueDestroy(q)
      PROVE  FALSE
  BY <1>4, <1>8 DEF ThreadWakeup, WaitQueueDestroy
<1>9. ASSUME ThreadExitSwitch \/ ThreadExitLast PROVE u \in waitQueues \ waitQueues'
  BY <1>1, <1>2, <1>9 DEF ThreadExitSwitch, ThreadExitLast
<1>10. ASSUME NEW t, ThreadKill(t) PROVE u \in waitQueues \ waitQueues'
  BY <1>2, <1>10 DEF ThreadKill, CanKill
<1>11. \/ ThreadCreate
       \/ \E t : ThreadWait(t) \/ ThreadKill(t)
       \/ \E q \in ClientQueues : \/ ThreadSleep(q)
                                  \/ \E all : ThreadWakeup(q, all)
                                  \/ WaitQueueDestroy(q)
       \/ ThreadExitSwitch \/ ThreadExitLast
  BY <1>1
     DEF Next, ThreadCalls, QueueCalls, vars, ThreadCreateFails, ThreadCreateAborts, ThreadYield, YieldReturns,
         YieldTo, InterruptHandler, ThreadExit, ThreadExitCrash, InterruptWhileExiting,
         ProcessExit, ThreadKillCrash, ThreadKillFails, ThreadWaitReturns,
         ThreadSleepFails, ThreadWakeupNone, WaitQueueCreate,
         WaitQueueCreateAborts, WaitQueueDestroyCrash, Terminated, Return, Die
<1> QED BY <1>5, <1>6, <1>7, <1>8, <1>9, <1>10, <1>11

(* A thread_wait that did sleep is woken by the end of the thread it waits *)
(* for and by nothing else.                                                *)
THEOREM JoinersWaitForTheEnd == Spec => JoinersLeaveWhenTargetEnds
<1> DEFINE Joiners ==
      \A u \in Tid : ~(Range(sleepers[u]) \subseteq Range(sleepers'[u])) =>
        u \in waitQueues \ waitQueues'
<1>1. IInv /\ [Next]_vars => [Joiners]_vars
  BY NextJoiners
<1>2. []IInv /\ [][Next]_vars => [][Joiners]_vars
  BY <1>1, PTL
<1> QED BY <1>2, Inductive, PTL DEF Spec, JoinersLeaveWhenTargetEnds

-----------------------------------------------------------------------------
(* A sleeper that was not killed is WAITING. *)
LEMMA SleepersWait ==
  ASSUME IInv, process = "running", NEW q \in WaitQueues, NEW t \in Range(sleepers[q]),
         threadState[t] # "EXITED"
  PROVE  t \in Tid /\ threadState[t] = "WAITING"
<1>1. t \in Tid
  BY RangeOfSeq DEF IInv, TypeOK
<1>2. /\ threadState[t] # "NULL"
      /\ t # running
      /\ t \notin Range(readyQueue)
  BY <1>1 DEF IInv, OneQueuePerThread
<1> QED BY <1>1, <1>2 DEF IInv, TypeOK, States, StateMatchesQueue

(* So a thread that is woken with its wait queue gone was a zombie when it *)
(* slept.                                                                  *)
LEMMA WokenZombies ==
  ASSUME IInv, process = "running", NEW q \in WaitQueues,
         NEW states \in [Tid -> States],
         \A u \in Tid : states[u] # "EXITED" => threadState[u] # "EXITED",
         NEW t \in Range(Woken(q, states)), t \notin waitQueues
  PROVE  Zombie(t)
<1>1. t \in Range(sleepers[q]) /\ t \in Tid /\ states[t] # "EXITED"
  BY WokenProperties DEF IInv
<1> QED BY <1>1, SleepersWait DEF Zombie

(* The step in which a thread becomes a zombie. *)
LEMMA NextZombies ==
  ASSUME IInv, [Next]_vars, NEW t \in Tid,
         process' = "running", Zombie(t)', ~Zombie(t)
  PROVE  threadState[t] = "WAITING" /\ t \in Range(readyQueue)
<1> DEFINE Goal == threadState[t] = "WAITING" /\ t \in Range(readyQueue)
<1>1. /\ TypeOK /\ OneQueuePerThread /\ StateMatchesQueue /\ NoStrandedSleeper
      /\ readyQueue \in Seq(Tid) /\ running \in Tid
      /\ threadState \in [Tid -> States]
  BY DEF IInv, TypeOK
<1>2. ASSUME t \in waitQueues => t \in waitQueues',
             Range(readyQueue') \cup {running'} \subseteq Range(readyQueue) \cup {running},
             threadState'[t] = "WAITING" =>
               threadState[t] = "WAITING" \/ t = running
      PROVE  FALSE
  BY <1>2 DEF Zombie
<1>3. ASSUME process = "running", NEW next \in Tid, YieldTo(next) PROVE FALSE
  <2> DEFINE pushed == QueuePush(readyQueue, running)
  <2>1. /\ pushed \in Seq(Tid) /\ IsInjective(pushed)
        /\ Range(pushed) = Range(readyQueue) \cup {running}
    BY <1>1, <1>3, PushProperties DEF OneQueuePerThread
  <2>2. /\ running' = next /\ next \in Range(pushed)
        /\ Range(readyQueue') = Range(pushed) \ {next}
    BY <1>3, <2>1, RemoveProperties DEF YieldTo, SwitchTo
  <2>3. threadState'[t] = "WAITING" => threadState[t] = "WAITING"
    BY <1>1, <1>3 DEF YieldTo, SwitchTo, Reaped
  <2>4. waitQueues' = waitQueues
    BY <1>3 DEF YieldTo
  <2> QED BY <1>2, <2>1, <2>2, <2>3, <2>4
<1>4. ASSUME NEW want, ThreadYield(want) PROVE FALSE
  <2>1. ASSUME NEW code, YieldReturns(code) PROVE FALSE
    <3>1. threadState'[t] = "WAITING" => threadState[t] = "WAITING"
      BY <1>1, <2>1 DEF YieldReturns, Reaped
    <3> QED BY <1>2, <2>1, <3>1 DEF YieldReturns
  <2>2. process = "running" /\ ~Die("segv_switch")
    BY <1>4 DEF ThreadYield, Die
  <2>3. ASSUME readyQueue # <<>> PROVE Head(readyQueue) \in Tid
    BY <1>1, <2>3, PopProperties
  <2> QED BY <1>1, <1>3, <1>4, <2>1, <2>2, <2>3 DEF ThreadYield
<1>5. ASSUME ThreadCreate PROVE FALSE
  <2> DEFINE new == LowestFree(Reaped)
  <2>1. Reaped \in [Tid -> States]
    BY <1>1 DEF Reaped, States
  <2>2. new \in Tid
    BY <1>5, <2>1, LowestFreeIsFree DEF ThreadCreate
  <2>3. /\ threadState' = [Reaped EXCEPT ![new] = "READY"]
        /\ readyQueue' = QueuePush(readyQueue, new)
        /\ waitQueues' = waitQueues \cup {new}
        /\ running' = running
    BY <1>5 DEF ThreadCreate
  <2> HIDE DEF new
  <2>4. Range(readyQueue') = Range(readyQueue) \cup {new}
    <3>1. readyQueue \in Seq(Tid)
      BY <1>1
    <3>2. Range(QueuePush(readyQueue, new)) = Range(readyQueue) \cup {new}
      BY <2>2, <3>1, PushProperties
    <3> QED BY <2>3, <3>2
  <2>5. threadState'[t] = "WAITING" => threadState[t] = "WAITING"
    BY <1>1, <2>1, <2>2, <2>3 DEF Reaped
  <2> QED BY <2>3, <2>4, <2>5 DEF Zombie
<1>6. ASSUME ThreadExitSwitch PROVE FALSE
  <2> DEFINE woken == Woken(running, threadState)
             ready == readyQueue \o woken
             next  == Head(ready)
  <2>1. process = "running" /\ running \in WaitQueues
    BY <1>1, <1>6 DEF ThreadExitSwitch, WaitQueues
  <2>2. /\ woken \in Seq(Tid)
        /\ Range(woken) \subseteq Range(sleepers[running])
        /\ IsInjective(woken)
    BY <1>1, <2>1, WokenProperties DEF OneQueuePerThread
  <2>3. /\ ready \in Seq(Tid) /\ IsInjective(ready)
        /\ Range(ready) = Range(readyQueue) \cup Range(woken)
    BY <1>1, <2>1, <2>2, ConcatQueues DEF OneQueuePerThread
  <2>4. /\ SwitchTo(next, ready, [threadState EXCEPT ![running] = "EXITED"])
        /\ waitQueues' = waitQueues \ {running}
        /\ next \in Range(ready)
    BY <1>6, <2>3, PopProperties DEF ThreadExitSwitch, DestroyJoinQueue
  <2>5. \A u \in Range(woken) : u \notin waitQueues => Zombie(u)
    BY <1>1, <2>1, WokenZombies
  <2> HIDE DEF woken, ready, next
  <2>6. running' = next /\ Range(readyQueue') = Range(ready) \ {next}
    BY <2>3, <2>4, RemoveProperties DEF SwitchTo
  <2>7. /\ threadState'[t] = "WAITING" => threadState[t] = "WAITING"
        /\ t = running /\ t # next => threadState'[t] = "EXITED"
    BY <1>1, <2>4 DEF SwitchTo
  <2>8. running \notin Range(ready)
    BY <1>1, <2>1, <2>2, <2>3 DEF OneQueuePerThread
  <2>9. t # running
    BY <2>4, <2>6, <2>7, <2>8 DEF Zombie
  <2> QED BY <2>3, <2>4, <2>5, <2>6, <2>7, <2>9 DEF Zombie
<1>7. ASSUME NEW k, ThreadKill(k) PROVE Goal
  <2> DEFINE isReady == {k} \cap {u \in Range(readyQueue) : threadState[u] = "READY"}
             states  == [threadState EXCEPT ![k] = "EXITED"]
             rest    == IF isReady = {} THEN readyQueue ELSE QueueRemove(readyQueue, k)
             woken   == Woken(k, states)
  <2>1. /\ process = "running" /\ k \in Tid /\ k \in WaitQueues
        /\ threadState[k] # "EXITED"
        /\ states \in [Tid -> States]
        /\ states[k] = "EXITED"
        /\ \A u \in Tid \ {k} : states[u] = threadState[u]
    BY <1>1, <1>7 DEF ThreadKill, CanKill, WaitQueues, States
  <2>2. /\ threadState' = states
        /\ waitQueues' = waitQueues \ {k}
        /\ running' = running
        /\ readyQueue' = rest \o woken
    BY <1>7 DEF ThreadKill, DestroyJoinQueue
  <2>3. /\ woken \in Seq(Tid)
        /\ \A u \in Range(woken) : states[u] # "EXITED"
        /\ \A u \in Range(woken) : u \notin waitQueues => Zombie(u)
    <3> HIDE DEF states
    <3>1. \A u \in Tid : states[u] # "EXITED" => threadState[u] # "EXITED"
      BY <2>1
    <3>2. /\ woken \in Seq(Tid)
          /\ \A u \in Range(woken) : states[u] # "EXITED"
      BY <1>1, <2>1, WokenProperties
    <3> QED BY <2>1, <3>1, <3>2, WokenZombies
  <2>4. /\ rest \in Seq(Tid)
        /\ Range(rest) = Range(readyQueue) \ isReady
    <3>1. isReady # {} => isReady = {k}
      OBVIOUS
    <3>2. IsInjective(readyQueue)
      BY <1>1, <2>1 DEF OneQueuePerThread
    <3>3. /\ QueueRemove(readyQueue, k) \in Seq(Tid)
          /\ Range(QueueRemove(readyQueue, k)) = Range(readyQueue) \ {k}
      BY <1>1, <3>2, RemoveProperties
    <3> QED BY <1>1, <3>1, <3>3
  <2>5. k # running
    BY <1>7 DEF ThreadKill, CanKill
  <2>6. k \in Range(readyQueue) \ isReady => threadState[k] = "WAITING"
    BY <1>1, <2>1, <2>5 DEF StateMatchesQueue, OneQueuePerThread, States
  <2> HIDE DEF states, woken, rest, isReady
  <2>7. Range(readyQueue') = (Range(readyQueue) \ isReady) \cup Range(woken)
    BY <2>2, <2>3, <2>4, ConcatQueues
  <2>8. CASE t = k
    <3>1. t \in Range(readyQueue) \ isReady
      BY <2>1, <2>2, <2>3, <2>5, <2>7, <2>8 DEF Zombie
    <3> QED BY <2>6, <2>8, <3>1
  <2>9. CASE t # k
    BY <2>1, <2>2, <2>3, <2>7, <2>9 DEF Zombie
  <2> QED BY <2>8, <2>9
<1>8. ASSUME NEW q \in WaitQueues, SleepOn(q) PROVE FALSE
  <2>1. /\ process = "running" /\ readyQueue # <<>>
        /\ waitQueues' = waitQueues
    BY <1>8 DEF SleepOn, CanSleep
  <2>2. Head(readyQueue) \in Range(readyQueue) /\ IsInjective(readyQueue)
    BY <1>1, <2>1, PopProperties DEF OneQueuePerThread
  <2>3. /\ running' = Head(readyQueue)
        /\ Range(readyQueue') = Range(readyQueue) \ {Head(readyQueue)}
    BY <1>1, <1>8, <2>2, RemoveProperties DEF SleepOn, SwitchTo
  <2>4. threadState'[t] = "WAITING" => threadState[t] = "WAITING" \/ t = running
    BY <1>1, <1>8 DEF SleepOn, SwitchTo
  <2> QED BY <1>2, <2>1, <2>2, <2>3, <2>4
<1>9. ASSUME NEW q \in ClientQueues, WakeAll(q), process = "running",
             waitQueues' \in {waitQueues, waitQueues \ {q}},
             UNCHANGED <<threadState, running>>
      PROVE  FALSE
  <2>1. q \in WaitQueues /\ q \notin Tid
    BY ClientQueuesAssumption DEF WaitQueues
  <2>2. /\ Woken(q, threadState) \in Seq(Tid)
        /\ \A u \in Range(Woken(q, threadState)) : u \notin waitQueues => Zombie(u)
    BY <1>1, <1>9, <2>1, WokenProperties, WokenZombies
  <2>3. Range(readyQueue') = Range(readyQueue) \cup Range(Woken(q, threadState))
    BY <1>1, <1>9, <2>2, ConcatQueues DEF WakeAll
  <2> QED BY <1>9, <2>1, <2>2, <2>3 DEF Zombie
<1>10. ASSUME NEW q \in ClientQueues, WakeOne(q), process = "running",
              UNCHANGED <<threadState, running, waitQueues>>
       PROVE  FALSE
  <2> DEFINE woken == Head(sleepers[q])
  <2>1. q \in WaitQueues /\ sleepers[q] \in Seq(Tid) /\ sleepers[q] # <<>>
    BY <1>1, <1>10 DEF WaitQueues, WakeOne, TypeOK
  <2>2. woken \in Range(sleepers[q]) /\ woken \in Tid
    BY <2>1, PopProperties
  <2>3. CASE threadState[woken] = "EXITED"
    BY <1>2, <1>10, <2>3 DEF WakeOne
  <2>4. CASE threadState[woken] # "EXITED"
    <3>1. threadState[woken] = "WAITING"
      BY <1>10, <2>1, <2>2, <2>4, SleepersWait
    <3>2. readyQueue' = QueuePush(readyQueue, woken)
      BY <1>10, <2>4 DEF WakeOne
    <3>3. Range(readyQueue') = Range(readyQueue) \cup {woken}
      <4> HIDE DEF woken
      <4>1. readyQueue \in Seq(Tid) /\ woken \in Tid
        BY <1>1, <2>2
      <4>2. Range(QueuePush(readyQueue, woken)) = Range(readyQueue) \cup {woken}
        BY <4>1, PushProperties
      <4> QED BY <3>2, <4>2
    <3> QED BY <1>10, <3>1, <3>3 DEF Zombie
  <2> QED BY <2>3, <2>4
<1>11. ASSUME NEW q \in ClientQueues, NEW all, ThreadWakeup(q, all) PROVE FALSE
  BY <1>9, <1>10, <1>11 DEF ThreadWakeup
<1>12. ASSUME NEW q \in ClientQueues, WaitQueueDestroy(q) PROVE FALSE
  BY <1>9, <1>12 DEF WaitQueueDestroy
<1>13. ASSUME NEW k, ThreadWait(k) PROVE FALSE
  BY <1>8, <1>13 DEF ThreadWait, CanWait, WaitQueues
<1>14. ASSUME NEW q \in ClientQueues, ThreadSleep(q) PROVE FALSE
  BY <1>8, <1>14 DEF ThreadSleep, WaitQueues
<1>15. ASSUME ThreadCreateFails PROVE FALSE
  <2>1. threadState'[t] = "WAITING" => threadState[t] = "WAITING"
    BY <1>1, <1>15 DEF ThreadCreateFails, Reaped
  <2> QED BY <1>2, <1>15, <2>1 DEF ThreadCreateFails
<1>16. ASSUME NEW q, WaitQueueCreate(q) PROVE FALSE
  BY <1>2, <1>16 DEF WaitQueueCreate
<1>17. ASSUME UNCHANGED <<threadState, running, readyQueue, waitQueues>> PROVE FALSE
  BY <1>17 DEF Zombie
<1>18. process = "running" \/ UNCHANGED vars
  BY DEF Next, ThreadCalls, QueueCalls, ThreadCreate, ThreadCreateFails, ThreadCreateAborts, ThreadYield,
         InterruptHandler, ThreadExit, ThreadExitSwitch, ThreadExitLast, ThreadExitCrash,
         InterruptWhileExiting, ProcessExit, ThreadKill, ThreadKillCrash,
         ThreadKillFails, ThreadWait, ThreadWaitReturns, ThreadSleep, ThreadSleepFails,
         SleepOn, ThreadWakeup, ThreadWakeupNone, WaitQueueCreate,
         WaitQueueCreateAborts, WaitQueueDestroyCrash, WaitQueueDestroy, Terminated, Die
<1>19. \/ UNCHANGED <<threadState, running, readyQueue, waitQueues>>
       \/ ThreadCreate \/ ThreadCreateFails
       \/ \E want : ThreadYield(want)
       \/ ThreadExitSwitch
       \/ \E k : ThreadKill(k) \/ ThreadWait(k)
       \/ \E q \in ClientQueues : \/ ThreadSleep(q)
                                  \/ \E all : ThreadWakeup(q, all)
                                  \/ WaitQueueCreate(q) \/ WaitQueueDestroy(q)
  BY <1>18
     DEF Next, ThreadCalls, QueueCalls, vars, ThreadCreateAborts, InterruptHandler, ThreadExit, ThreadExitLast,
         ThreadExitCrash, InterruptWhileExiting, ProcessExit, ThreadKillCrash,
         ThreadKillFails, ThreadWaitReturns, ThreadSleepFails, ThreadWakeupNone,
         WaitQueueCreateAborts, WaitQueueDestroyCrash, Terminated, Return, Die
<1> QED BY <1>4, <1>5, <1>6, <1>7, <1>11, <1>12, <1>13, <1>14, <1>15, <1>16, <1>17, <1>19

(* A thread whose end was announced runs again in one case only: it was    *)
(* killed after it was woken and before it ran.                            *)
THEOREM OnlyWokenThreadsSurvive == Spec => ZombiesWereWoken
<1> DEFINE Woke ==
      \A t \in Tid : process' = "running" /\ Zombie(t)' /\ ~Zombie(t) =>
        threadState[t] = "WAITING" /\ t \in Range(readyQueue)
<1>1. IInv /\ [Next]_vars => [Woke]_vars
  BY NextZombies
<1>2. []IInv /\ [][Next]_vars => [][Woke]_vars
  BY <1>1, PTL
<1> QED BY <1>2, Inductive, PTL DEF Spec, ZombiesWereWoken

-----------------------------------------------------------------------------
(* A step that starts while the process runs keeps the order.              *)
Fifo ==
  /\ KeepsOrder(readyQueue, readyQueue')
  /\ \A q \in WaitQueues :
       /\ KeepsOrder(sleepers[q], sleepers'[q])
       /\ \A a, b \in Tid : Before(sleepers[q], a, b) =>
            /\ a \in Range(sleepers'[q]) => b \in Range(sleepers'[q])
            /\ {a, b} \subseteq Range(readyQueue') => Before(readyQueue', a, b)

(* What the invariant says of the queues.                                  *)
LEMMA Queues ==
  ASSUME IInv, process = "running"
  PROVE  /\ readyQueue \in Seq(Tid) /\ IsInjective(readyQueue)
         /\ sleepers \in [WaitQueues -> Seq(Tid)]
         /\ running \in Tid /\ running \in WaitQueues /\ running \notin Range(readyQueue)
         /\ \A q \in WaitQueues :
              /\ IsInjective(sleepers[q])
              /\ running \notin Range(sleepers[q])
              /\ Range(sleepers[q]) \cap Range(readyQueue) = {}
              /\ \A r \in WaitQueues \ {q} : Range(sleepers[q]) \cap Range(sleepers[r]) = {}
  BY DEF IInv, TypeOK, OneQueuePerThread, WaitQueues

(* The calls after which no sleeper is ready.                              *)
LEMMA NobodyWoken ==
  ASSUME IInv, process = "running", KeepsOrder(readyQueue, readyQueue'),
         \A q \in WaitQueues : /\ KeepsOrder(sleepers[q], sleepers'[q])
                              /\ \/ Range(sleepers[q]) \subseteq Range(sleepers'[q])
                                 \/ sleepers'[q] = <<>>
                              /\ Range(sleepers[q]) \cap Range(readyQueue') = {}
  PROVE  Fifo
<1> SUFFICES ASSUME NEW q \in WaitQueues, NEW a \in Tid, NEW b \in Tid,
                    Before(sleepers[q], a, b)
             PROVE  /\ a \in Range(sleepers'[q]) => b \in Range(sleepers'[q])
                    /\ {a, b} \subseteq Range(readyQueue') => Before(readyQueue', a, b)
  BY DEF Fifo
<1>1. a \in Range(sleepers[q]) /\ b \in Range(sleepers[q])
  BY BeforeInQueue, Queues
<1>2. \A x : x \notin Range(<<>>)
  BY DEF Range
<1> QED BY <1>1, <1>2

(* The calls that change no queue.                                         *)
LEMMA FifoUnchanged ==
  ASSUME IInv, process = "running", UNCHANGED <<readyQueue, sleepers>>
  PROVE  Fifo
  BY Queues, SameKeepsOrder, NobodyWoken

(* thread_yield: the caller goes to the tail, and next runs.               *)
LEMMA FifoYieldTo ==
  ASSUME IInv, process = "running", NEW next, YieldTo(next)
  PROVE  Fifo
<1> DEFINE mid == QueuePush(readyQueue, running)
<1>1. mid \in Seq(Tid) /\ IsInjective(mid) /\ Range(mid) = Range(readyQueue) \cup {running}
  <2>1. /\ readyQueue \in Seq(Tid) /\ IsInjective(readyQueue)
        /\ running \in Tid /\ running \notin Range(readyQueue)
    BY Queues
  <2> QED BY ZenonT(60), <2>1, PushProperties
<1>2. KeepsOrder(readyQueue, mid)
  BY Queues, PushKeepsOrder
<1>3. readyQueue' = QueueRemove(mid, next) /\ UNCHANGED sleepers
  BY DEF YieldTo, SwitchTo
<1> HIDE DEF mid
<1>4. KeepsOrder(mid, readyQueue') /\ Range(readyQueue') \subseteq Range(mid)
  BY <1>1, <1>3, RemoveKeepsOrder, RemoveProperties
<1>5. KeepsOrder(readyQueue, readyQueue')
  BY <1>1, <1>2, <1>4, KeepsOrderTwice
<1>6. \A q \in WaitQueues : Range(sleepers[q]) \cap Range(readyQueue') = {}
  BY <1>1, <1>4, Queues
<1> QED BY <1>3, <1>5, <1>6, Queues, SameKeepsOrder, NobodyWoken

(* thread_create: the new thread goes to the tail.                         *)
LEMMA FifoCreate ==
  ASSUME IInv, ThreadCreate
  PROVE  Fifo
<1> DEFINE new == LowestFree(Reaped)
<1>1. process = "running" /\ Reaped \in [Tid -> States]
  BY DEF ThreadCreate, Reaped, IInv, TypeOK, States
<1>2. new \in Tid /\ Reaped[new] = "NULL"
  BY <1>1, LowestFreeIsFree DEF ThreadCreate
<1>3. readyQueue' = QueuePush(readyQueue, new) /\ sleepers' = [sleepers EXCEPT ![new] = <<>>]
  BY DEF ThreadCreate
<1> HIDE DEF new
<1>4. new \in exitedQueue \/ threadState[new] = "NULL"
  BY <1>2 DEF Reaped
<1>5. \A q \in WaitQueues : new \notin Range(sleepers[q])
  BY <1>1, <1>2, <1>4 DEF IInv, OneQueuePerThread
<1>6. KeepsOrder(readyQueue, readyQueue') /\ Range(readyQueue') = Range(readyQueue) \cup {new}
  BY <1>1, <1>2, <1>3, Queues, PushKeepsOrder, PushProperties
<1>7. \A q \in WaitQueues : Range(sleepers[q]) \cap Range(readyQueue') = {}
  BY <1>1, <1>5, <1>6, Queues
<1>8. \A q \in WaitQueues : sleepers'[q] = sleepers[q] \/ sleepers'[q] = <<>>
  BY <1>1, <1>3, Queues
<1>9. \A q \in WaitQueues : KeepsOrder(sleepers[q], sleepers'[q])
  BY <1>1, <1>8, Queues, SameKeepsOrder
<1> QED BY <1>1, <1>6, <1>7, <1>8, <1>9, NobodyWoken

(* thread_sleep: the caller goes to the tail of a wait queue.              *)
LEMMA FifoSleepOn ==
  ASSUME IInv, NEW w \in WaitQueues, SleepOn(w)
  PROVE  Fifo
<1>1. /\ process = "running"
      /\ readyQueue' = QueueRemove(readyQueue, Head(readyQueue))
      /\ sleepers' = [sleepers EXCEPT ![w] = QueuePush(@, running)]
  BY DEF SleepOn, SwitchTo
<1>2. KeepsOrder(readyQueue, readyQueue') /\ Range(readyQueue') \subseteq Range(readyQueue)
  BY <1>1, Queues, RemoveKeepsOrder, RemoveProperties
<1>3. ASSUME NEW q \in WaitQueues
      PROVE  /\ KeepsOrder(sleepers[q], sleepers'[q])
             /\ Range(sleepers[q]) \subseteq Range(sleepers'[q])
             /\ Range(sleepers[q]) \cap Range(readyQueue') = {}
  <2>1. sleepers[q] \in Seq(Tid) /\ Range(sleepers[q]) \cap Range(readyQueue') = {}
    BY <1>1, <1>2, Queues
  <2>2. CASE q = w
    <3>1. sleepers'[q] = QueuePush(sleepers[q], running)
      BY <1>1, <2>2, Queues
    <3>2. running \in Tid
      BY <1>1, Queues
    <3>3. KeepsOrder(sleepers[q], QueuePush(sleepers[q], running))
      BY <2>1, <3>2, PushKeepsOrder
    <3>4. Range(QueuePush(sleepers[q], running)) = Range(sleepers[q]) \cup {running}
      BY <2>1, <3>2, PushProperties
    <3> QED BY <2>1, <3>1, <3>3, <3>4
  <2>3. CASE q # w
    <3>1. sleepers'[q] = sleepers[q]
      BY <1>1, <2>3, Queues
    <3> QED BY <2>1, <3>1, SameKeepsOrder
  <2> QED BY <2>2, <2>3
<1> QED BY <1>1, <1>2, <1>3, NobodyWoken

(* thread_wakeup of all, as exit and kill do it, too: the sleepers of w go *)
(* to the tail; a thread may have been taken out of the ready queue before *)
(* (base), and one after it (next).                                        *)
LEMMA FifoWakeAll ==
  ASSUME IInv, process = "running", NEW w \in WaitQueues,
         NEW states \in [Tid -> States],
         sleepers' = [sleepers EXCEPT ![w] = <<>>],
         NEW t, NEW base, base = readyQueue \/ base = QueueRemove(readyQueue, t),
         NEW ready, ready = base \o Woken(w, states),
         NEW next, readyQueue' = ready \/ readyQueue' = QueueRemove(ready, next)
  PROVE  Fifo
<1>1. /\ base \in Seq(Tid) /\ IsInjective(base) /\ Range(base) \subseteq Range(readyQueue)
      /\ KeepsOrder(readyQueue, base)
  BY Queues, SameKeepsOrder, RemoveKeepsOrder, RemoveProperties
<1>2. /\ Woken(w, states) \in Seq(Tid) /\ IsInjective(Woken(w, states))
      /\ Range(Woken(w, states)) \subseteq Range(sleepers[w])
      /\ KeepsOrder(sleepers[w], Woken(w, states))
  <2>1. TypeOK /\ sleepers[w] \in Seq(Tid) /\ IsInjective(sleepers[w])
    BY Queues DEF IInv
  <2>2. KeepsOrder(sleepers[w], Woken(w, states))
    BY <2>1, SelectKeepsOrder DEF Woken
  <2>3. /\ Woken(w, states) \in Seq(Tid) /\ IsInjective(Woken(w, states))
        /\ Range(Woken(w, states)) \subseteq Range(sleepers[w])
    BY <2>1, WokenProperties
  <2> QED BY <2>2, <2>3
<1>3. /\ ready \in Seq(Tid) /\ Range(ready) = Range(base) \cup Range(Woken(w, states))
      /\ IsInjective(ready)
      /\ KeepsOrder(base, ready)
      /\ \A a, b : Before(Woken(w, states), a, b) => Before(ready, a, b)
  <2>1. Range(base) \cap Range(Woken(w, states)) = {}
    BY <1>1, <1>2, Queues
  <2> QED BY <1>1, <1>2, <2>1, ConcatQueues, ConcatKeepsOrder
<1>4. KeepsOrder(ready, readyQueue') /\ Range(readyQueue') \subseteq Range(ready)
  <2>1. ready \in Seq(Tid) /\ IsInjective(ready)
    BY <1>3
  <2>2. CASE readyQueue' = ready
    BY <2>1, <2>2, SameKeepsOrder
  <2>3. CASE readyQueue' = QueueRemove(ready, next)
    <3>1. KeepsOrder(ready, QueueRemove(ready, next))
      BY <2>1, RemoveKeepsOrder
    <3>2. Range(QueueRemove(ready, next)) = Range(ready) \ {next}
      BY ZenonT(30), <2>1, RemoveProperties
    <3> QED BY <2>3, <3>1, <3>2
  <2> QED BY <2>2, <2>3
<1>5. KeepsOrder(readyQueue, readyQueue')
  <2>1. Range(readyQueue) \cap Range(readyQueue') \subseteq Range(base)
    BY <1>2, <1>3, <1>4, Queues
  <2>2. KeepsOrder(base, readyQueue')
    BY <1>3, <1>4, KeepsOrderTwice
  <2> QED BY <1>1, <2>1, <2>2, KeepsOrderTwice
<1>6. \A q \in WaitQueues : KeepsOrder(sleepers[q], sleepers'[q])
  <2>1. \A q \in WaitQueues : sleepers'[q] = sleepers[q] \/ sleepers'[q] = <<>>
    BY Queues
  <2> QED BY <2>1, Queues, SameKeepsOrder
<1>7. ASSUME NEW q \in WaitQueues, NEW a \in Tid, NEW b \in Tid, Before(sleepers[q], a, b)
      PROVE  /\ a \in Range(sleepers'[q]) => b \in Range(sleepers'[q])
             /\ {a, b} \subseteq Range(readyQueue') => Before(readyQueue', a, b)
  <2>1. a \in Range(sleepers[q]) /\ b \in Range(sleepers[q])
    BY <1>7, BeforeInQueue, Queues
  <2>2. CASE q # w
    <3>1. sleepers'[q] = sleepers[q]
      BY <2>2, Queues
    <3>2. a \notin Range(ready)
      BY <1>1, <1>2, <1>3, <2>1, <2>2, Queues
    <3> QED BY <1>4, <2>1, <3>1, <3>2
  <2>3. CASE q = w
    <3>1. a \notin Range(sleepers'[q])
      <4>1. sleepers'[q] = <<>>
        BY <2>3, Queues
      <4> QED BY <4>1 DEF Range
    <3>2. ASSUME {a, b} \subseteq Range(readyQueue') PROVE Before(readyQueue', a, b)
      <4>1. a \in Range(Woken(w, states)) /\ b \in Range(Woken(w, states))
        BY <1>1, <1>3, <1>4, <2>1, <2>3, <3>2, Queues
      <4>2. Before(Woken(w, states), a, b)
        BY <1>2, <1>7, <2>1, <2>3, <4>1 DEF KeepsOrder
      <4>3. Before(ready, a, b)
        BY <1>3, <4>2
      <4> QED BY <1>3, <1>4, <3>2, <4>1, <4>3 DEF KeepsOrder
    <3> QED BY <3>1, <3>2
  <2> QED BY <2>2, <2>3
<1> QED BY <1>5, <1>6, <1>7 DEF Fifo

(* thread_wakeup of one: the head of the queue, if anybody, is ready.      *)
LEMMA FifoWakeOne ==
  ASSUME IInv, process = "running", NEW w \in WaitQueues, WakeOne(w)
  PROVE  Fifo
<1> DEFINE woken == Head(sleepers[w])
<1>1. /\ sleepers[w] \in Seq(Tid) /\ sleepers[w] # <<>> /\ IsInjective(sleepers[w])
      /\ sleepers' = [sleepers EXCEPT ![w] = Tail(@)]
      /\ readyQueue' = readyQueue \/ readyQueue' = QueuePush(readyQueue, woken)
  BY Queues DEF WakeOne
<1>2. /\ woken \in Tid /\ woken \in Range(sleepers[w])
      /\ Range(sleepers[w]) = Range(Tail(sleepers[w])) \cup {woken}
      /\ KeepsOrder(sleepers[w], Tail(sleepers[w]))
  BY <1>1, PopProperties, TailKeepsOrder
<1>3. /\ KeepsOrder(readyQueue, readyQueue')
      /\ Range(readyQueue') \subseteq Range(readyQueue) \cup {woken}
  <2>1. readyQueue \in Seq(Tid) /\ woken \in Tid
    BY <1>2, Queues
  <2> HIDE DEF woken
  <2>2. CASE readyQueue' = readyQueue
    BY <2>1, <2>2, SameKeepsOrder
  <2>3. CASE readyQueue' = QueuePush(readyQueue, woken)
    BY ZenonT(60), <2>1, <2>3, PushKeepsOrder, PushProperties
  <2> QED BY <1>1, <2>2, <2>3 DEF woken
<1>4. ASSUME NEW q \in WaitQueues
      PROVE  /\ KeepsOrder(sleepers[q], sleepers'[q])
             /\ Range(sleepers[q]) \ {woken} \subseteq Range(sleepers'[q])
             /\ q # w => woken \notin Range(sleepers[q])
  <2>1. CASE q = w
    <3>1. sleepers'[q] = Tail(sleepers[q])
      BY <1>1, <2>1, Queues
    <3> QED BY <1>2, <2>1, <3>1
  <2>2. CASE q # w
    <3>1. sleepers'[q] = sleepers[q]
      BY <1>1, <2>2, Queues
    <3>2. woken \notin Range(sleepers[q])
      BY <1>2, <2>2, Queues
    <3> QED BY <3>1, <3>2, Queues, SameKeepsOrder
  <2> QED BY <2>1, <2>2
<1>5. ASSUME NEW q \in WaitQueues, NEW a \in Tid, NEW b \in Tid, Before(sleepers[q], a, b)
      PROVE  b \in Range(sleepers'[q]) /\ ~({a, b} \subseteq Range(readyQueue'))
  <2>1. /\ sleepers[q] \in Seq(Tid) /\ IsInjective(sleepers[q])
        /\ Range(sleepers[q]) \cap Range(readyQueue) = {}
    BY Queues
  <2>2. a \in Range(sleepers[q]) /\ b \in Range(sleepers[q]) /\ b # Head(sleepers[q])
    BY <1>5, <2>1, BeforeInQueue
  <2>3. b # woken
    BY <1>4, <2>2
  <2> QED BY <1>3, <1>4, <2>1, <2>2, <2>3
<1> QED BY <1>3, <1>4, <1>5 DEF Fifo

(* Every step.                                                             *)
LEMMA NextFifo ==
  ASSUME IInv, [Next]_vars, process' = "running"
  PROVE  Fifo
<1>0. process = "running"
  BY DEF Next, ThreadCalls, QueueCalls, vars, ThreadCreate, ThreadCreateFails,
         ThreadCreateAborts, ThreadYield, InterruptHandler, ThreadExit, ThreadExitSwitch,
         ThreadExitLast, ThreadExitCrash, InterruptWhileExiting, ProcessExit, ThreadKill,
         ThreadKillCrash, ThreadKillFails, ThreadWait, ThreadSleep, SleepOn, ThreadWaitReturns,
         ThreadSleepFails, ThreadWakeup, ThreadWakeupNone, WaitQueueCreate,
         WaitQueueCreateAborts, WaitQueueDestroyCrash, WaitQueueDestroy, Terminated, Die
<1>12. threadState \in [Tid -> States]
  BY DEF IInv, TypeOK
<1>1. CASE UNCHANGED <<readyQueue, sleepers>>
  BY <1>1, <1>0, FifoUnchanged
<1>2. ASSUME NEW next, YieldTo(next) PROVE Fifo
  BY <1>2, <1>0, FifoYieldTo
<1>3. CASE ThreadCreate
  BY <1>3, <1>0, FifoCreate
<1>4. ASSUME NEW q \in ClientQueues, ThreadSleep(q) PROVE Fifo
  BY <1>4, FifoSleepOn DEF ThreadSleep, WaitQueues
<1>5. ASSUME NEW t, ThreadWait(t) PROVE Fifo
  BY <1>5, FifoSleepOn DEF ThreadWait, CanWait, WaitQueues
<1>6. ASSUME NEW q \in WaitQueues, WakeAll(q) PROVE Fifo
  <2>1. /\ sleepers' = [sleepers EXCEPT ![q] = <<>>]
        /\ readyQueue' = readyQueue \o Woken(q, threadState)
    BY <1>6 DEF WakeAll
  <2> QED BY <1>12, <2>1, <1>0, FifoWakeAll
<1>7. ASSUME NEW q \in ClientQueues, NEW all, ThreadWakeup(q, all) \/ WaitQueueDestroy(q)
      PROVE  Fifo
  BY <1>6, <1>7, <1>0, FifoWakeOne DEF ThreadWakeup, WaitQueueDestroy, WaitQueues
<1>8. CASE ThreadExitSwitch
  <2> DEFINE ready == readyQueue \o Woken(running, threadState)
  <2>1. /\ sleepers' = [sleepers EXCEPT ![running] = <<>>]
        /\ readyQueue' = QueueRemove(ready, Head(ready))
    BY <1>8 DEF ThreadExitSwitch, DestroyJoinQueue, SwitchTo
  <2>2. running \in WaitQueues
    BY <1>0, Queues
  <2> HIDE DEF ready
  <2> QED BY <1>12, <2>1, <2>2, <1>0, FifoWakeAll DEF ready
<1>9. CASE ThreadExitLast
  <2>1. /\ sleepers' = [sleepers EXCEPT ![running] = <<>>]
        /\ readyQueue' = readyQueue \o Woken(running, threadState)
    <3>1. readyQueue = <<>> /\ UNCHANGED readyQueue
          /\ readyQueue \o Woken(running, threadState) = <<>>
      <4>1. /\ readyQueue \in Seq(Tid) /\ Woken(running, threadState) \in Seq(Tid)
        BY <1>12, <1>0, Queues, WokenProperties DEF IInv
      <4>2. readyQueue \o Woken(running, threadState) = <<>> /\ UNCHANGED readyQueue
        BY <1>9 DEF ThreadExitLast
      <4> QED BY <4>1, <4>2, ConcatProperties, EmptySeq
    <3>2. sleepers' = [sleepers EXCEPT ![running] = <<>>]
      BY <1>9 DEF ThreadExitLast, DestroyJoinQueue
    <3> QED BY <3>1, <3>2
  <2>2. running \in WaitQueues
    BY <1>0, Queues
  <2> QED BY <1>12, <2>1, <2>2, <1>0, FifoWakeAll
<1>10. ASSUME NEW t, ThreadKill(t) PROVE Fifo
  <2> DEFINE states == [threadState EXCEPT ![t] = "EXITED"]
             isReady == {t} \cap {u \in Range(readyQueue) : threadState[u] = "READY"}
             base == IF isReady = {} THEN readyQueue ELSE QueueRemove(readyQueue, t)
  <2>1. /\ t \in Tid /\ sleepers' = [sleepers EXCEPT ![t] = <<>>]
        /\ readyQueue' = base \o Woken(t, states)
    BY <1>10 DEF ThreadKill, CanKill, DestroyJoinQueue
  <2>2. t \in WaitQueues /\ states \in [Tid -> States]
    BY <1>12, <2>1 DEF WaitQueues, States
  <2>3. base = readyQueue \/ base = QueueRemove(readyQueue, t)
    OBVIOUS
  <2> HIDE DEF base, states
  <2> QED BY <2>1, <2>2, <2>3, <1>0, FifoWakeAll
<1>11. \/ UNCHANGED <<readyQueue, sleepers>>
       \/ ThreadCreate
       \/ \E next : YieldTo(next)
       \/ \E t : ThreadWait(t) \/ ThreadKill(t)
       \/ \E q \in ClientQueues : \/ ThreadSleep(q)
                                  \/ \E all : ThreadWakeup(q, all)
                                  \/ WaitQueueDestroy(q)
       \/ ThreadExitSwitch \/ ThreadExitLast
  BY DEF Next, ThreadCalls, QueueCalls, vars, ThreadCreateFails, ThreadCreateAborts, ThreadYield,
         YieldReturns, InterruptHandler, ThreadExit, ThreadExitCrash, InterruptWhileExiting,
         ProcessExit, ThreadKillCrash, ThreadKillFails, ThreadWaitReturns, ThreadSleepFails,
         ThreadWakeupNone, WaitQueueCreate, WaitQueueCreateAborts, WaitQueueDestroyCrash, Terminated, Return, Die
<1> QED BY <1>1, <1>2, <1>3, <1>4, <1>5, <1>7, <1>8, <1>9, <1>10, <1>11

(* The ready queue and the wait queues are first come, first served, over  *)
(* yields, sleeps, wakeups, exits and kills.                               *)
THEOREM FirstComeFirstServed == Spec => QueuesAreFIFO
<1> DEFINE Step == process' = "running" =>
      /\ KeepsOrder(readyQueue, readyQueue')
      /\ \A q \in WaitQueues :
           /\ KeepsOrder(sleepers[q], sleepers'[q])
           /\ \A a, b \in Tid : Before(sleepers[q], a, b) =>
                /\ a \in Range(sleepers'[q]) => b \in Range(sleepers'[q])
                /\ {a, b} \subseteq Range(readyQueue') => Before(readyQueue', a, b)
<1>1. IInv /\ [Next]_vars => [Step]_vars
  BY NextFifo DEF Fifo
<1>2. []IInv /\ [][Next]_vars => [][Step]_vars
  BY <1>1, PTL
<1> QED BY <1>2, Inductive, PTL DEF Spec, QueuesAreFIFO

=============================================================================
