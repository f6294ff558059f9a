----------------------------- MODULE ThreadSync -----------------------------
(***************************************************************************)
(* The locks and condition variables of threads/thread.c, on top of the    *)
(* thread library (Threads).                                               *)
(*                                                                         *)
(* These calls make other calls, and may be suspended inside them.  SIGALRM *)
(* stays blocked for the whole of a call, so between its steps only the    *)
(* thread that a step switched to can run.  resume[t] is the place of      *)
(* thread t in such a call, and stands for its saved context.  A step      *)
(* makes at most one call of the thread library: it is an action of        *)
(* Threads, or leaves the variables of Threads alone.                      *)
(***************************************************************************)
EXTENDS Threads

CONSTANTS
  Locks,    \* struct lock *, each named like its wait queue
  Cvs       \* struct cv *, each named like its wait queue

ASSUME SyncAssumption ==
  /\ Locks \cup Cvs \subseteq ClientQueues
  /\ Locks \cap Cvs = {}

VARIABLES
  status,     \* lock->status: 1 when the lock is taken
  acquirer,   \* lock->acquirer, -1 when there is none
  resume,     \* the place of each thread in a call on locks and cvs
  holders     \* history: the threads that acquired the lock, have not
              \* released it since, and whose stack is not freed

syncVars == <<status, acquirer, resume, holders>>
allVars  == <<vars, syncVars>>

(* "acquire...": in the loop of lock_acquire, after which the call returns *)
(* or goes on to the place named; the others: before that call in cv_wait, *)
(* cv_signal or cv_broadcast; "client": in no such call.                   *)
Acquiring == {"acquire", "acquire_release", "acquire_signal", "acquire_broadcast"}
Places    == Acquiring \cup {"client", "release", "sleep", "signal", "broadcast"}

NULL == "NULL"
Positions == [at : Places, lock : Locks \cup {NULL}, cv : Cvs \cup {NULL}]
At(place, lock, cv) == [at |-> place, lock |-> lock, cv |-> cv]
Client == At("client", NULL, NULL)

SyncInit ==
  /\ Init
  /\ status = [l \in Locks |-> 0]
  /\ acquirer = [l \in Locks |-> -1]
  /\ resume = [t \in Tid |-> Client]
  /\ holders = [l \in Locks |-> {}]

\* Mutant: cv_wait lets the timer in between lock_release and thread_sleep.
InterruptsOnBeforeSleep ==
  process = "running" => resume[running].at \in {"client", "sleep"}

(* The running thread is in its own code. *)
InterruptsOn == process = "running" => resume[running] = Client

Goto(position) == resume' = [resume EXCEPT ![running] = position]

(* The place of a thread whose stack is freed is forgotten. *)
StacksFreed ==
  LET freed == exitedQueue \ exitedQueue' IN
  /\ resume' = [t \in Tid |-> IF t \in freed THEN Client ELSE resume[t]]
  /\ holders' = [l \in Locks |-> holders[l] \ freed]

(* A call of the thread library itself. *)
ThreadCall ==
  /\ InterruptsOn
  /\ \/ ThreadCalls
     \/ \E q \in ClientQueues \ (Locks \cup Cvs) : QueueCalls(q)
  /\ StacksFreed
  /\ UNCHANGED <<status, acquirer>>

-----------------------------------------------------------------------------
(* lock_acquire *)

(* What is left of the call once the running thread has the lock. *)
Acquired ==
  LET here == resume[running] IN
  CASE here.at = "acquire_release"   -> At("release", here.lock, here.cv)
    [] here.at = "acquire_signal"    -> At("signal", here.lock, here.cv)
    [] here.at = "acquire_broadcast" -> At("broadcast", here.lock, here.cv)
    [] OTHER                         -> Client

(* The running thread is in the loop of lock_acquire(l), and l exists. *)
InAcquire(l) ==
  /\ process = "running"
  /\ resume[running].at \in Acquiring
  /\ resume[running].lock = l
  /\ l \in waitQueues

AcquireTakes(l) ==
  /\ InAcquire(l)
  /\ status[l] = 0
  /\ status' = [status EXCEPT ![l] = 1]
  /\ acquirer' = [acquirer EXCEPT ![l] = running]
  /\ holders' = [holders EXCEPT ![l] = @ \cup {running}]
  /\ Goto(Acquired)
  /\ UNCHANGED vars

(* A woken thread finds itself in the loop again. *)
AcquireSleeps(l) ==
  /\ InAcquire(l)
  /\ status[l] = 1
  /\ ThreadSleep(l)
  /\ UNCHANGED syncVars

(* With nobody ready thread_sleep returns at once and the loop spins, with *)
(* the timer blocked.                                                      *)
AcquireSpins(l) ==
  /\ InAcquire(l)
  /\ status[l] = 1
  /\ ThreadSleepFails(l)
  /\ UNCHANGED syncVars

LockAcquire(l) ==
  /\ process = "running"
  /\ InterruptsOn
  /\ l \in waitQueues
  /\ Goto(At("acquire", l, NULL))
  /\ UNCHANGED <<vars, status, acquirer, holders>>

-----------------------------------------------------------------------------
(* lock_release *)

\* Mutants: whoever asks may release; one waiting thread is woken.
MayAnyRelease(l) == TRUE
ReleaseWakesOne(l) == ThreadWakeup(l, 0) \/ ThreadWakeupNone(l, 0)

MayRelease(l) == acquirer[l] = running
ReleaseWakes(l) == ThreadWakeup(l, 1) \/ ThreadWakeupNone(l, 1)

(* A release by another thread than the acquirer is ignored. *)
Release(l) ==
  /\ l \in waitQueues
  /\ MayRelease(l)
  /\ status' = [status EXCEPT ![l] = 0]
  /\ acquirer' = [acquirer EXCEPT ![l] = -1]
  /\ holders' = [holders EXCEPT ![l] = @ \ {running}]
  /\ ReleaseWakes(l)

LockRelease(l) ==
  /\ process = "running"
  /\ InterruptsOn
  /\ Release(l)
  /\ UNCHANGED resume

-----------------------------------------------------------------------------
(* lock_create, lock_destroy *)

LockCreate(l) ==
  /\ InterruptsOn
  /\ WaitQueueCreate(l)
  /\ status' = [status EXCEPT ![l] = 0]
  /\ acquirer' = [acquirer EXCEPT ![l] = -1]
  /\ UNCHANGED <<resume, holders>>

LockDestroy(l) ==
  /\ InterruptsOn
  /\ status[l] = 0
  /\ WaitQueueDestroy(l)
  /\ UNCHANGED syncVars

(* Their assertions: the mallocs of lock_create and cv_create, and that a  *)
(* lock is free when it is destroyed.                                      *)
SyncAborts(q) ==
  /\ process = "running"
  /\ InterruptsOn
  /\ \/ q \notin waitQueues
     \/ q \in Locks /\ status[q] # 0
  /\ Die("assert_failed")
  /\ UNCHANGED syncVars

-----------------------------------------------------------------------------
(* Condition variables: cv_create, cv_destroy, cv_wait, cv_signal,         *)
(* cv_broadcast.                                                           *)

CvCreate(c) ==
  /\ InterruptsOn
  /\ WaitQueueCreate(c)
  /\ UNCHANGED syncVars

(* Nothing happens while threads wait. *)
CvDestroy(c) ==
  /\ InterruptsOn
  /\ sleepers[c] = <<>>
  /\ WaitQueueDestroy(c)
  /\ UNCHANGED syncVars

(* A caller that does not hold the lock acquires it first, in all three.   *)
CvEnter(c, l, place, acquirePlace) ==
  /\ process = "running"
  /\ InterruptsOn
  /\ {c, l} \subseteq waitQueues
  /\ Goto(At(IF acquirer[l] = running THEN place ELSE acquirePlace, l, c))
  /\ UNCHANGED <<vars, status, acquirer, holders>>

\* Mutant: cv_signal does not look whether its caller has the lock.
CvSignalUnlocked(c, l) == CvEnter(c, l, "signal", "signal")

CvWait(c, l)      == CvEnter(c, l, "release", "acquire_release")
CvSignal(c, l)    == CvEnter(c, l, "signal", "acquire_signal")
CvBroadcast(c, l) == CvEnter(c, l, "broadcast", "acquire_broadcast")

Standing(place, c, l) == process = "running" /\ resume[running] = At(place, l, c)

CvWaitReleases(c, l) ==
  /\ Standing("release", c, l)
  /\ Release(l)
  /\ Goto(At("sleep", l, c))

(* With nobody ready the caller is not suspended. *)
CvWaitSleeps(c, l) ==
  /\ Standing("sleep", c, l)
  /\ c \in waitQueues
  /\ ThreadSleep(c) \/ ThreadSleepFails(c)
  /\ Goto(At("acquire", l, NULL))
  /\ UNCHANGED <<status, acquirer, holders>>

\* Mutant: cv_signal's thread_wakeup and cv_broadcast's are exchanged.
WakesExchanged(place) == IF place = "signal" THEN 1 ELSE 0

WakesAll(place) == IF place = "signal" THEN 0 ELSE 1

CvWakes(c, l) ==
  /\ \E place \in {"signal", "broadcast"} :
       /\ Standing(place, c, l)
       /\ c \in waitQueues
       /\ ThreadWakeup(c, WakesAll(place)) \/ ThreadWakeupNone(c, WakesAll(place))
  /\ Goto(Client)
  /\ UNCHANGED <<status, acquirer, holders>>

(* A thread resumed in a call on a lock or condition variable that was     *)
(* destroyed meanwhile reads freed memory.                                 *)
UseAfterFree ==
  /\ process = "running"
  /\ \/ resume[running].lock \in Locks \ waitQueues
     \/ resume[running].cv \in Cvs \ waitQueues /\ resume[running].at \notin Acquiring
  /\ Die("use_after_free")
  /\ UNCHANGED syncVars

-----------------------------------------------------------------------------
SyncNext ==
  \/ ThreadCall
  \/ \E l \in Locks : \/ LockAcquire(l)
                      \/ AcquireTakes(l)
                      \/ AcquireSleeps(l)
                      \/ AcquireSpins(l)
                      \/ LockRelease(l)
                      \/ LockCreate(l)
                      \/ LockDestroy(l)
                      \/ \E c \in Cvs : \/ CvWait(c, l)
                                        \/ CvSignal(c, l)
                                        \/ CvBroadcast(c, l)
                                        \/ CvWaitReleases(c, l)
                                        \/ CvWaitSleeps(c, l)
                                        \/ CvWakes(c, l)
  \/ \E c \in Cvs : CvCreate(c) \/ CvDestroy(c)
  \/ \E q \in Locks \cup Cvs : SyncAborts(q)
  \/ UseAfterFree
  \/ Terminated /\ UNCHANGED syncVars

SyncSpec == SyncInit /\ [][SyncNext]_allVars

-----------------------------------------------------------------------------
(* Type invariant. *)
SyncTypeOK ==
  /\ TypeOK
  /\ status \in [Locks -> {0, 1}]
  /\ acquirer \in [Locks -> Tid \cup {-1}]
  /\ resume \in [Tid -> Positions]
  /\ holders \in [Locks -> SUBSET Tid]

(* At most one thread is between the return of its lock_acquire (or its    *)
(* cv_wait) and its lock_release, and the lock knows which: through exits, *)
(* kills, reused Tids and preemption anywhere in the threads' own code.    *)
MutualExclusion ==
  \A l \in Locks :
    holders[l] \subseteq IF status[l] = 1 THEN {acquirer[l]} ELSE {}

(* No lost wakeup: nobody sleeps waiting for a lock that is free. *)
FreeLockHasNoSleepers ==
  process = "running" => \A l \in Locks : status[l] = 0 => sleepers[l] = <<>>

(* A call is suspended in two places only: waiting for a lock, or for a    *)
(* signal with the lock released.  So no thread runs while another stands  *)
(* between two steps of a call, and a thread that sleeps in the queue of a *)
(* lock will take that lock before it returns.                             *)
SuspendedOnlyAsleep ==
  process = "running" =>
    \A t \in Tid :
      /\ t # running => resume[t].at \in Acquiring \cup {"client"}
      /\ \A l \in Locks : t \in Range(sleepers[l]) =>
           resume[t].at \in Acquiring /\ resume[t].lock = l
      /\ \A c \in Cvs : t \in Range(sleepers[c]) => resume[t].at = "acquire"

(* The threads that released their lock in a cv_wait on c and were not     *)
(* woken since.                                                            *)
CvWaiters(c) ==
  Range(sleepers[c]) \cup {t \in Tid : resume[t].at = "sleep" /\ resume[t].cv = c}

(* The waiting threads that a cv_signal or a cv_broadcast takes out of the *)
(* queue: the one that waits longest, or all.                              *)
Taken(c, place) == IF place = "signal" THEN {Head(sleepers[c])} ELSE CvWaiters(c)

(* No signal finds the queue empty while a thread waits (it would be lost  *)
(* between lock_release and thread_sleep), and of those it takes, exactly  *)
(* the ones that were not killed become ready.  So a cv_signal is spent on *)
(* a killed thread when that one waits longest, and wakes nobody though    *)
(* others may wait, where thread.h:152 has it wake up one thread.          *)
SignalsWakeWaiters ==
  [][\A c \in Cvs, place \in {"signal", "broadcast"} :
       /\ resume[running].at = place
       /\ resume[running].cv = c
       /\ resume'[running] = Client
       /\ CvWaiters(c) # {}
       => /\ sleepers[c] # <<>>
          /\ CvWaiters(c)' = CvWaiters(c) \ Taken(c, place)
          /\ Range(readyQueue') =
               Range(readyQueue) \cup {t \in Taken(c, place) : threadState[t] # "EXITED"}]_allVars

-----------------------------------------------------------------------------
(* A thread waits on c from the lock_release of its cv_wait on, and wants  *)
(* its lock from then, or from its lock_acquire, until it has it.          *)
Waiting ==
  [c \in Cvs |->
     IF resume[running].at = "sleep" /\ resume[running].cv = c
       THEN Append(sleepers[c], running)
       ELSE sleepers[c]]

Wants ==
  [t \in Tid |-> IF resume[t].at \in Acquiring \cup {"sleep"} THEN resume[t].lock ELSE NULL]

M == INSTANCE Monitor
       WITH Thread <- Tid, Nobody <- -1, NoLock <- NULL,
            alive <- waitQueues \cap Tid, owner <- acquirer, wants <- Wants, waiting <- Waiting

(* The locks and condition variables are a monitor: cv_wait releases and   *)
(* waits at once, a signal is given with the lock and lets the one go that *)
(* waits longest, and a thread returns from cv_wait only with its lock.    *)
ImplementsMonitor == M!Spec

=============================================================================
