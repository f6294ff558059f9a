------------------------------ MODULE Threads ------------------------------
(***************************************************************************)
(* The user-level thread library, threads/thread.c with the timer handler  *)
(* of threads/interrupt.c: creation, yielding, preemption, exit, killing,  *)
(* sleeping and waking on wait queues, and waiting for a thread to end.    *)
(*                                                                         *)
(* One thread runs at a time.  Every call blocks SIGALRM on entry and      *)
(* restores the mask on return, so a call is one atomic action up to the   *)
(* thread_switch that suspends its caller; what the resumed caller does    *)
(* next in the calls of this module is only to return.  The threads' own   *)
(* code is arbitrary: any call, with any argument, in any order.           *)
(***************************************************************************)
EXTENDS ThreadQueues

CONSTANTS
  MaxThreads,     \* THREAD_MAX_THREADS, at least the main thread
  ClientQueues    \* wait queues the client may hold (struct wait_queue *)

Tid == 0..(MaxThreads - 1)

(* The control and error codes of thread.h. *)
THREAD_ANY      == -1
THREAD_SELF     == -2
THREAD_INVALID  == -3
THREAD_NONE     == -4
THREAD_NOMORE   == -5
THREAD_NOMEMORY == -6

ASSUME MaxThreadsAssumption == MaxThreads \in Nat \ {0}
ASSUME ClientQueuesAssumption == ClientQueues \cap Tid = {}

(* A wait queue is named by the Tid whose exit it announces                *)
(* (allWaitQueues[tid]) or by the client's pointer to it.                  *)
WaitQueues == Tid \cup ClientQueues

VARIABLES
  threadState,      \* allThreads[tid]->threadState, "NULL" when there is no such thread
  running,          \* the Tid in runningQueue
  readyQueue,       \* Tids of the nodes in readyQueue
  exitedQueue,      \* Tids of the nodes in exitedQueue: it is only ever emptied as
                    \* a whole, so its order is of no consequence
  waitQueues,       \* the wait queues that exist (the others are NULL pointers)
  sleepers,         \* the Tids in the queue of each wait queue
  currThreadCount,
  mainThread,       \* Tid 0 is still the thread that called thread_init, whose
                    \* threadStack is a stack pointer and not a malloc'd block
  process,          \* what has become of the process
  returned          \* the last call to return without a thread switch, and its value

vars == <<threadState, running, readyQueue, exitedQueue, waitQueues, sleepers,
          currThreadCount, mainThread, process, returned>>

(* A call that switched threads has not returned yet; when its caller runs *)
(* again it returns next_thread, or tid for thread_wait: not tracked.      *)
Result(call, value) == [call |-> call, value |-> value]
Calls == {"switched", "thread_create", "thread_yield", "thread_kill", "thread_sleep",
          "thread_wait", "thread_wakeup", "wait_queue_create", "wait_queue_destroy"}
Results == [call : Calls, value : Int]
Switched == Result("switched", 0)

States == {"NULL", "RUNNING", "READY", "EXITED", "WAITING"}

(* "exiting": the last thread is between its interrupts_set and exit(0).   *)
(* The others are final: a normal exit, a NULL dereference in              *)
(* thread_switch, in wait_queue_destroy (called by the library or by the   *)
(* client) or in thread_init, the second free of a thread, the free of a   *)
(* stack that was never malloc'd, a failed assertion, the use of a lock or *)
(* condition variable that was freed (ThreadSync).                         *)
Outcomes == {"running", "exiting", "exited", "segv_switch", "segv_destroy",
             "segv_client", "segv_init", "double_free", "bad_free",
             "assert_failed", "use_after_free"}

(* thread_init, called by the main thread.  It does not look at what       *)
(* malloc returns for the thread and for its node, and asserts that there  *)
(* are a wait queue and a context.                                         *)
Init ==
  /\ threadState = [t \in Tid |-> IF t = 0 THEN "RUNNING" ELSE "NULL"]
  /\ running = 0
  /\ readyQueue = <<>>
  /\ exitedQueue = {}
  /\ waitQueues = {0}
  /\ sleepers = [q \in WaitQueues |-> <<>>]
  /\ currThreadCount = 1
  /\ mainThread = TRUE
  /\ process \in {"running", "segv_init", "assert_failed"}
  /\ returned = Switched

-----------------------------------------------------------------------------
(* emptyQueue(exitedQueue): thread_create and thread_yield start with it.  *)

\* Mutant: the freed threads stay in allThreads.
ReapedKeepsThread == threadState

Reaped == [t \in Tid |-> IF t \in exitedQueue THEN "NULL" ELSE threadState[t]]

\* Mutant: the caller forgets to empty exitedQueue.
ReapExitedForgotten == UNCHANGED <<exitedQueue, mainThread>>

ReapExited ==
  /\ exitedQueue' = {}
  /\ mainThread' = IF 0 \in exitedQueue THEN FALSE ELSE mainThread

\* Mutants: the killed sleepers are dropped; they are made ready like the others.
KilledForgotten(q, states) == {}
WokenWithKilled(q, states) == sleepers[q]

(* thread_wakeup(q, 1) sorts the sleepers of q, given the thread states:   *)
(* the killed go to exitedQueue, the others to the tail of readyQueue.     *)
(* A woken thread keeps the state WAITING until it runs.                   *)
Killed(q, states) == {t \in Range(sleepers[q]) : states[t] = "EXITED"}
Woken(q, states)  == QueueSelect(sleepers[q], {t \in Tid : states[t] # "EXITED"})

(* The process is gone: nothing of its memory matters any more. *)
Die(how) ==
  /\ process' = how
  /\ UNCHANGED <<threadState, running, readyQueue, exitedQueue, waitQueues,
                 sleepers, currThreadCount, mainThread, returned>>

\* Mutant: the next thread keeps the state it had.
SwitchToKeepsState(next, ready, states) ==
  /\ next \in Range(ready)
  /\ running' = next
  /\ readyQueue' = QueueRemove(ready, next)
  /\ threadState' = states
  /\ returned' = Switched

(* The second half of thread_switch: take next out of the ready queue (with *)
(* the caller's node already pushed where it goes) and run it.             *)
SwitchTo(next, ready, states) ==
  /\ next \in Range(ready)
  /\ running' = next
  /\ readyQueue' = QueueRemove(ready, next)
  /\ threadState' = [states EXCEPT ![next] = "RUNNING"]
  /\ returned' = Switched

-----------------------------------------------------------------------------
(* thread_create *)

\* Mutant: the search runs from 1 to MaxThreads.
LowestFreeOffByOne(states) ==
  CHOOSE t \in 1..MaxThreads : /\ t \in Tid => states[t] = "NULL"
                               /\ \A u \in 1..(t - 1) : states[u] # "NULL"

LowestFree(states) ==
  CHOOSE t \in Tid : states[t] = "NULL" /\ \A u \in 0..(t - 1) : states[u] # "NULL"

ThreadCreate ==
  /\ process = "running"
  /\ \E t \in Tid : Reaped[t] = "NULL"
  /\ LET new == LowestFree(Reaped) IN
       /\ threadState' = [Reaped EXCEPT ![new] = "READY"]
       /\ readyQueue' = QueuePush(readyQueue, new)
       /\ waitQueues' = waitQueues \cup {new}
       /\ sleepers' = [sleepers EXCEPT ![new] = <<>>]
       /\ returned' = Result("thread_create", new)
  /\ ReapExited
  /\ currThreadCount' = currThreadCount + 1
  /\ UNCHANGED <<running, process>>

(* No Tid is free, or the malloc of the thread, its node or its stack fails. *)
ThreadCreateFails ==
  /\ process = "running"
  /\ \/ returned' = Result("thread_create", THREAD_NOMEMORY)
     \/ /\ \A t \in Tid : Reaped[t] # "NULL"
        /\ returned' = Result("thread_create", THREAD_NOMORE)
  /\ threadState' = Reaped
  /\ ReapExited
  /\ UNCHANGED <<running, readyQueue, waitQueues, sleepers, currThreadCount, process>>

(* The assert(wq) in the wait_queue_create of a thread_create. *)
ThreadCreateAborts ==
  /\ process = "running"
  /\ \E t \in Tid : Reaped[t] = "NULL"
  /\ Die("assert_failed")

-----------------------------------------------------------------------------
(* thread_yield *)

(* The caller goes to the tail of the ready queue and next runs.           *)
YieldTo(next) ==
  /\ SwitchTo(next, QueuePush(readyQueue, running),
              [Reaped EXCEPT ![running] = "READY"])
  /\ ReapExited
  /\ UNCHANGED <<waitQueues, sleepers, currThreadCount, process>>

YieldReturns(code) ==
  /\ returned' = Result("thread_yield", code)
  /\ threadState' = Reaped
  /\ ReapExited
  /\ UNCHANGED <<running, readyQueue, waitQueues, sleepers, currThreadCount, process>>

(* A thread that exists but is in no ready queue is not checked for:       *)
(* queueRemove finds no node and thread_switch dereferences NULL.          *)
ThreadYield(want) ==
  /\ process = "running"
  /\ \/ /\ want \notin THREAD_SELF..(MaxThreads - 1)
        /\ YieldReturns(THREAD_INVALID)
     \/ /\ want = THREAD_ANY
        /\ readyQueue = <<>>
        /\ YieldReturns(THREAD_NONE)
     \/ /\ want = THREAD_ANY
        /\ readyQueue # <<>>
        /\ YieldTo(Head(readyQueue))
     \/ /\ want = THREAD_SELF
        /\ YieldTo(running)
     \/ /\ want \in Tid
        /\ Reaped[want] = "NULL"
        /\ YieldReturns(THREAD_INVALID)
     \/ /\ want \in Tid
        /\ Reaped[want] # "NULL"
        /\ YieldTo(want)
     \/ /\ want \in Tid
        /\ Reaped[want] # "NULL"
        /\ want \notin Range(QueuePush(readyQueue, running))
        /\ Die("segv_switch")

(* interrupt_handler: the timer fires in the running thread's own code. *)
InterruptHandler == ThreadYield(THREAD_ANY)

-----------------------------------------------------------------------------
\* Mutants: the joiners are not woken; those of the caller are, not those of t.
DestroyJoinQueueAsleep(t) ==
  /\ waitQueues' = waitQueues \ {t}
  /\ UNCHANGED sleepers

DestroyJoinQueueOfCaller(t) ==
  /\ waitQueues' = waitQueues \ {t}
  /\ sleepers' = [sleepers EXCEPT ![running] = <<>>]

(* wait_queue_destroy(allWaitQueues[t]), once its sleepers are woken. *)
DestroyJoinQueue(t) ==
  /\ waitQueues' = waitQueues \ {t}
  /\ sleepers' = [sleepers EXCEPT ![t] = <<>>]

(* thread_exit *)

(* The joiners are woken first, so one of them may be the next to run. *)
ThreadExitSwitch ==
  LET states == [threadState EXCEPT ![running] = "EXITED"]
      ready  == readyQueue \o Woken(running, threadState)
  IN
  /\ process = "running"
  /\ running \in waitQueues
  /\ ready # <<>>
  /\ SwitchTo(Head(ready), ready, states)
  /\ exitedQueue' = exitedQueue \cup Killed(running, threadState) \cup {running}
  /\ DestroyJoinQueue(running)
  /\ currThreadCount' = currThreadCount - 1
  /\ UNCHANGED <<mainThread, process>>

(* With nobody to switch to: the exited threads are freed (exitedQueue     *)
(* keeps pointing at them), so is the caller, and the timer is let in      *)
(* again before exit(0).  What free does with the stack pointer of the     *)
(* main thread is undefined: it may end the process or do nothing.         *)
ThreadExitLast ==
  /\ process = "running"
  /\ running \in waitQueues
  /\ readyQueue \o Woken(running, threadState) = <<>>
  /\ exitedQueue' = exitedQueue \cup Killed(running, threadState)
  /\ threadState' = [t \in Tid |-> IF t \in exitedQueue' THEN "NULL" ELSE threadState[t]]
  /\ DestroyJoinQueue(running)
  /\ \/ process' = "exiting"
     \/ running = 0 /\ mainThread /\ process' = "bad_free"
  /\ UNCHANGED <<running, readyQueue, currThreadCount, mainThread, returned>>

(* A thread whose wait queue is already gone (it was killed): thread_wakeup *)
(* ignores the NULL, wait_queue_destroy does not.                          *)
ThreadExitCrash ==
  /\ process = "running"
  /\ running \notin waitQueues
  /\ Die("segv_destroy")

ThreadExit == ThreadExitSwitch \/ ThreadExitLast \/ ThreadExitCrash

(* A SIGALRM that became pending during thread_exit is delivered before    *)
(* exit(0): the handler's thread_yield frees exitedQueue once more.  The   *)
(* ready queue is empty, so with no exited thread the handler just returns. *)
InterruptWhileExiting ==
  /\ process = "exiting"
  /\ exitedQueue # {}
  /\ Die("double_free")

ProcessExit ==
  /\ process = "exiting"
  /\ Die("exited")

-----------------------------------------------------------------------------
(* thread_kill *)

Return(call, value) ==
  /\ returned' = Result(call, value)
  /\ UNCHANGED <<threadState, running, readyQueue, exitedQueue, waitQueues,
                 sleepers, currThreadCount, mainThread, process>>

CanKill(t) ==
  /\ t \in Tid
  /\ threadState[t] \notin {"NULL", "EXITED"}
  /\ t # running

(* Only a thread whose state is READY is moved to exitedQueue: one that    *)
(* sleeps stays in its wait queue until it is woken, and one that was      *)
(* woken and has not run since keeps its place in the ready queue.         *)
ThreadKill(t) ==
  LET isReady == {t} \cap {u \in Range(readyQueue) : threadState[u] = "READY"}
      states  == [threadState EXCEPT ![t] = "EXITED"]
  IN
  /\ process = "running"
  /\ CanKill(t)
  /\ t \in waitQueues
  /\ readyQueue' = (IF isReady = {} THEN readyQueue ELSE QueueRemove(readyQueue, t))
                     \o Woken(t, states)
  /\ exitedQueue' = exitedQueue \cup isReady \cup Killed(t, states)
  /\ threadState' = states
  /\ DestroyJoinQueue(t)
  /\ currThreadCount' = currThreadCount - 1
  /\ returned' = Result("thread_kill", t)
  /\ UNCHANGED <<running, mainThread, process>>

ThreadKillCrash(t) ==
  /\ process = "running"
  /\ CanKill(t)
  /\ t \notin waitQueues
  /\ Die("segv_destroy")

ThreadKillFails(t) ==
  /\ process = "running"
  /\ ~CanKill(t)
  /\ Return("thread_kill", THREAD_INVALID)

-----------------------------------------------------------------------------
(* thread_sleep, thread_wait *)

(* A wait queue that does not exist is a NULL pointer; with nobody ready   *)
(* the caller is not suspended.                                            *)
CanSleep(q) == q \in waitQueues /\ readyQueue # <<>>

SleepOn(q) ==
  /\ process = "running"
  /\ CanSleep(q)
  /\ SwitchTo(Head(readyQueue), readyQueue, [threadState EXCEPT ![running] = "WAITING"])
  /\ sleepers' = [sleepers EXCEPT ![q] = QueuePush(@, running)]
  /\ UNCHANGED <<exitedQueue, waitQueues, currThreadCount, mainThread, process>>

ThreadSleep(q) == SleepOn(q)

ThreadSleepFails(q) ==
  /\ process = "running"
  /\ ~CanSleep(q)
  /\ Return("thread_sleep", IF q \notin waitQueues THEN THREAD_INVALID ELSE THREAD_NONE)

CanWait(t) == t \in Tid /\ t # running /\ threadState[t] # "NULL"

ThreadWait(t) == CanWait(t) /\ SleepOn(t)

(* The result of thread_sleep is dropped: whatever kept the caller from    *)
(* sleeping, it is told that t has exited.                                 *)
ThreadWaitReturns(t) ==
  /\ process = "running"
  /\ ~(CanWait(t) /\ CanSleep(t))
  /\ Return("thread_wait", IF CanWait(t) THEN t ELSE THREAD_INVALID)

-----------------------------------------------------------------------------
(* thread_wakeup, wait_queue_create, wait_queue_destroy *)

WakeAll(q) ==
  /\ readyQueue' = readyQueue \o Woken(q, threadState)
  /\ exitedQueue' = exitedQueue \cup Killed(q, threadState)
  /\ sleepers' = [sleepers EXCEPT ![q] = <<>>]

WakeOne(q) ==
  /\ sleepers[q] # <<>>
  /\ sleepers' = [sleepers EXCEPT ![q] = Tail(@)]
  /\ LET woken == Head(sleepers[q]) IN
       IF threadState[woken] = "EXITED"
         THEN /\ exitedQueue' = exitedQueue \cup {woken}
              /\ UNCHANGED readyQueue
         ELSE /\ readyQueue' = QueuePush(readyQueue, woken)
              /\ UNCHANGED exitedQueue

ThreadWakeup(q, all) ==
  /\ process = "running"
  /\ q \in waitQueues
  /\ sleepers[q] # <<>>
  /\ \/ /\ all = 0
        /\ WakeOne(q)
        /\ returned' = Result("thread_wakeup", 1)
     \/ /\ all = 1
        /\ WakeAll(q)
        /\ returned' = Result("thread_wakeup", Len(sleepers[q]))
  /\ UNCHANGED <<threadState, running, waitQueues, currThreadCount, mainThread, process>>

(* A NULL or empty queue, or a value of all other than 0 and 1. *)
ThreadWakeupNone(q, all) ==
  /\ process = "running"
  /\ (q \in waitQueues /\ sleepers[q] # <<>>) => all \notin {0, 1}
  /\ Return("thread_wakeup", 0)

WaitQueueCreate(q) ==
  /\ process = "running"
  /\ q \notin waitQueues
  /\ waitQueues' = waitQueues \cup {q}
  /\ returned' = Result("wait_queue_create", 0)
  /\ UNCHANGED <<threadState, running, readyQueue, exitedQueue, sleepers,
                 currThreadCount, mainThread, process>>

(* Its assert(wq), when there is no memory. *)
WaitQueueCreateAborts(q) ==
  /\ process = "running"
  /\ q \notin waitQueues
  /\ Die("assert_failed")

(* The client forgets the pointer it passes. *)
WaitQueueDestroy(q) ==
  /\ process = "running"
  /\ q \in waitQueues
  /\ WakeAll(q)
  /\ waitQueues' = waitQueues \ {q}
  /\ returned' = Result("wait_queue_destroy", 0)
  /\ UNCHANGED <<threadState, running, currThreadCount, mainThread, process>>

(* It does not check for a NULL, unlike thread_sleep and thread_wakeup. *)
WaitQueueDestroyCrash(q) ==
  /\ process = "running"
  /\ q \notin waitQueues
  /\ Die("segv_client")

-----------------------------------------------------------------------------
(* The process has ended. *)
Terminated == process \notin {"running", "exiting"} /\ UNCHANGED vars

(* Arguments: every Tid, every control code, and a value out of range on   *)
(* either side.                                                            *)
YieldArguments == (THREAD_SELF - 1)..MaxThreads
TidArguments   == -1..MaxThreads

(* What the threads and the timer do with the thread library proper. *)
ThreadCalls ==
  \/ ThreadCreate
  \/ ThreadCreateFails
  \/ ThreadCreateAborts
  \/ \E want \in YieldArguments : ThreadYield(want)
  \/ InterruptHandler
  \/ ThreadExit
  \/ InterruptWhileExiting
  \/ ProcessExit
  \/ \E t \in TidArguments : \/ ThreadKill(t)
                            \/ ThreadKillCrash(t)
                            \/ ThreadKillFails(t)
                            \/ ThreadWait(t)
                            \/ ThreadWaitReturns(t)

(* What they do with a wait queue of their own. *)
QueueCalls(q) ==
  \/ ThreadSleep(q)
  \/ ThreadSleepFails(q)
  \/ \E all \in 0..2 : ThreadWakeup(q, all) \/ ThreadWakeupNone(q, all)
  \/ WaitQueueCreate(q)
  \/ WaitQueueCreateAborts(q)
  \/ WaitQueueDestroy(q)
  \/ WaitQueueDestroyCrash(q)

Next ==
  \/ ThreadCalls
  \/ \E q \in ClientQueues : QueueCalls(q)
  \/ Terminated

(* The timer is re-armed by every call of the handler, and SIGALRM stays   *)
(* pending while it is blocked: the handler runs again and again.  A call  *)
(* of exit(0) ends the process.                                            *)
Fairness == WF_vars(InterruptHandler) /\ WF_vars(ProcessExit)

Spec == Init /\ [][Next]_vars /\ Fairness

-----------------------------------------------------------------------------
(* Type invariant. *)
TypeOK ==
  /\ threadState \in [Tid -> States]
  /\ running \in Tid
  /\ readyQueue \in Seq(Tid)
  /\ exitedQueue \in SUBSET Tid
  /\ waitQueues \in SUBSET WaitQueues
  /\ sleepers \in [WaitQueues -> Seq(Tid)]
  /\ currThreadCount \in Int
  /\ mainThread \in BOOLEAN
  /\ process \in Outcomes
  /\ returned \in Results

-----------------------------------------------------------------------------
(* Safety. *)

(* The ownership of thread nodes: the node of every thread that exists is  *)
(* in exactly one place, once (running, ready, exited or one wait queue).  *)
(* The queues are threaded through node->next, so a node linked twice      *)
(* would make a cycle or be freed twice, and one linked nowhere is lost    *)
(* with its Tid.                                                           *)
OneQueuePerThread ==
  process = "running" =>
    /\ IsInjective(readyQueue)
    /\ running \notin Range(readyQueue) \cup exitedQueue
    /\ Range(readyQueue) \cap exitedQueue = {}
    /\ \A q \in WaitQueues :
         /\ IsInjective(sleepers[q])
         /\ Range(sleepers[q]) \cap (Range(readyQueue) \cup exitedQueue \cup {running}) = {}
         /\ \A r \in WaitQueues \ {q} : Range(sleepers[q]) \cap Range(sleepers[r]) = {}
    /\ \A t \in Tid :
         threadState[t] # "NULL" <=>
           \/ t = running
           \/ t \in Range(readyQueue) \cup exitedQueue
           \/ \E q \in WaitQueues : t \in Range(sleepers[q])

(* The state a thread carries says where its node is, which is what        *)
(* thread_kill and thread_wakeup go by.  WAITING and EXITED say less: a    *)
(* thread keeps them when it is woken, or killed after it was woken.  A    *)
(* thread that has a queue for its joiners is alive.                       *)
StateMatchesQueue ==
  process = "running" =>
    \A t \in Tid :
      /\ threadState[t] = "RUNNING" <=> t = running
      /\ threadState[t] = "READY" => t \in Range(readyQueue)
      /\ t \in exitedQueue => threadState[t] = "EXITED"
      /\ t \in waitQueues => threadState[t] \notin {"NULL", "EXITED"}

(* No thread is left sleeping in a wait queue that was freed: whoever ends *)
(* a thread or destroys a queue has woken all its sleepers, so thread_wait *)
(* cannot miss the end of its target.                                      *)
NoStrandedSleeper ==
  process = "running" =>
    \A q \in WaitQueues : sleepers[q] # <<>> => q \in waitQueues

(* An ended thread that can still run. *)
Zombie(t) ==
  /\ t \notin waitQueues
  /\ t \in Range(readyQueue) \cup {running} \/ threadState[t] = "WAITING"

(* Once thread_init is done and as long as the client destroys no NULL,    *)
(* the library dereferences a NULL only in two situations: a yield by name *)
(* when some thread sleeps (where thread.h:50-59 lets the caller go on,    *)
(* with THREAD_INVALID if need be), and an exit or a kill when there is a  *)
(* thread that was killed and can still run.                               *)
CrashesExplained ==
  /\ process = "segv_switch" => \E q \in WaitQueues : sleepers[q] # <<>>
  /\ process = "segv_destroy" => \E t \in Tid : Zombie(t)
  /\ process = "segv_client" => ~(ClientQueues \subseteq waitQueues)

(* A thread that has ended runs again in one case only: it was killed      *)
(* after it was woken and before it ran, while its state was still WAITING. *)
ZombiesWereWoken ==
  [][\A t \in Tid : process' = "running" /\ Zombie(t)' /\ ~Zombie(t) =>
       threadState[t] = "WAITING" /\ t \in Range(readyQueue)]_vars

(* Whoever sleeps in the wait queue of a thread leaves it in the step that *)
(* ends that thread, and in no other: a thread_wait that did sleep returns *)
(* after its target ended.                                                 *)
JoinersLeaveWhenTargetEnds ==
  [][\A u \in Tid : ~(Range(sleepers[u]) \subseteq Range(sleepers'[u])) =>
       u \in waitQueues \ waitQueues']_vars

(* First come, first served, in the ready queue and in the wait queues, and *)
(* a thread is woken no later than one that went to sleep after it.        *)
QueuesAreFIFO ==
  [][process' = "running" =>
       /\ KeepsOrder(readyQueue, readyQueue')
       /\ \A q \in WaitQueues :
            /\ KeepsOrder(sleepers[q], sleepers'[q])
            /\ \A a, b \in Tid : Before(sleepers[q], a, b) =>
                 /\ a \in Range(sleepers'[q]) => b \in Range(sleepers'[q])
                 /\ {a, b} \subseteq Range(readyQueue') => Before(readyQueue', a, b)]_vars

-----------------------------------------------------------------------------
(* Liveness. *)

(* No thread stays in the ready queue for ever, whatever the others do.    *)
NoStarvation ==
  \A t \in Tid :
    (process = "running" /\ t \in Range(readyQueue))
      ~> (process # "running" \/ t \notin Range(readyQueue))

(* The memory and the Tid of a thread in exitedQueue are given back.       *)
ExitedAreReclaimed ==
  \A t \in Tid :
    (process = "running" /\ t \in exitedQueue)
      ~> (process # "running" \/ t \notin exitedQueue)

-----------------------------------------------------------------------------
(* What thread.h promises and the code does not keep. *)

(* A killed thread does not run any further (thread.h:73-74). *)
KilledNeverRuns == process = "running" => running \in waitQueues

(* thread_wait returns the Tid of a thread that has exited (thread.h:115). *)
WaitReturnsAfterEnd ==
  returned.call = "thread_wait" => returned.value \notin waitQueues

(* The exit of the last thread is the exit of the program (thread.h:67-68). *)
LastExitEndsProgram == process \notin {"double_free", "bad_free"}

=============================================================================
