-------------------------- MODULE ThreadSyncProofs --------------------------
(***************************************************************************)
(* Theorems about ThreadSync, for every number of threads, locks and       *)
(* condition variables.                                                    *)
(***************************************************************************)
EXTENDS ThreadSync, ThreadsProofs

(* A lock that does not exist is not taken: lock_destroy asserts it. *)
NoLockTaken == \A l \in Locks \ waitQueues : status[l] = 0

SyncInv ==
  /\ IInv
  /\ SyncTypeOK
  /\ NoLockTaken
  /\ MutualExclusion
  /\ FreeLockHasNoSleepers
  /\ SuspendedOnlyAsleep

-----------------------------------------------------------------------------
(* Every step of locks and condition variables is a call of the thread     *)
(* library, ends the process, or is none of the library's business.        *)
LEMMA SyncStep ==
  ASSUME SyncNext
  PROVE  \/ Next
         \/ \E how \in Outcomes \ {"running"} : Die(how)
         \/ UNCHANGED vars
<1>1. ASSUME ThreadCall PROVE Next
  BY <1>1 DEF ThreadCall, Next
<1>2. ASSUME NEW q \in Locks \cup Cvs,
             \/ ThreadSleep(q) \/ ThreadSleepFails(q)
             \/ \E all \in 0..1 : ThreadWakeup(q, all) \/ ThreadWakeupNone(q, all)
             \/ WaitQueueCreate(q) \/ WaitQueueDestroy(q)
      PROVE  Next
  <2>1. q \in ClientQueues
    BY SyncAssumption
  <2>2. QueueCalls(q)
    BY <1>2 DEF QueueCalls
  <2> QED BY <2>1, <2>2 DEF Next
<1>3. ASSUME NEW l \in Locks
      PROVE  /\ AcquireSleeps(l) \/ AcquireSpins(l) => Next
             /\ LockRelease(l) \/ LockCreate(l) \/ LockDestroy(l) => Next
             /\ LockAcquire(l) \/ AcquireTakes(l) => UNCHANGED vars
  BY <1>2
     DEF AcquireSleeps, AcquireSpins, LockRelease, Release, ReleaseWakes, LockCreate,
         LockDestroy, LockAcquire, AcquireTakes
<1>4. ASSUME NEW l \in Locks, NEW c \in Cvs
      PROVE  /\ CvWait(c, l) \/ CvSignal(c, l) \/ CvBroadcast(c, l) => UNCHANGED vars
             /\ CvWaitReleases(c, l) \/ CvWaitSleeps(c, l) \/ CvWakes(c, l) => Next
  <2>1. WakesAll("signal") = 0 /\ WakesAll("broadcast") = 1
    BY DEF WakesAll
  <2> QED
    BY <1>2, <2>1
       DEF CvWait, CvSignal, CvBroadcast, CvEnter, CvWaitReleases, Release, ReleaseWakes,
           CvWaitSleeps, CvWakes
<1>5. ASSUME NEW c \in Cvs, CvCreate(c) \/ CvDestroy(c) PROVE Next
  BY <1>2, <1>5 DEF CvCreate, CvDestroy
<1>6. ASSUME NEW q, SyncAborts(q) \/ UseAfterFree
      PROVE  \E how \in Outcomes \ {"running"} : Die(how)
  BY <1>6 DEF SyncAborts, UseAfterFree, Outcomes
<1>7. CASE Terminated
  BY <1>7 DEF Terminated
<1> QED BY <1>1, <1>3, <1>4, <1>5, <1>6, <1>7 DEF SyncNext

(* So what is proved of the thread library holds of it here. *)
LEMMA SyncIInv == IInv /\ [SyncNext]_allVars => IInv'
<1> SUFFICES ASSUME IInv, [SyncNext]_allVars PROVE IInv'
  OBVIOUS
<1>1. CASE Next \/ UNCHANGED vars
  BY <1>1, NextIInv
<1>2. ASSUME NEW how \in Outcomes \ {"running"}, Die(how) PROVE IInv'
  BY <1>2, DiePreserves
<1> QED BY <1>1, <1>2, SyncStep DEF allVars

(* A process that has ended does not run again. *)
LEMMA RunningBefore ==
  ASSUME [SyncNext]_allVars, process' = "running"
  PROVE  process = "running"
<1>1. ASSUME Next PROVE process = "running"
  BY <1>1
     DEF Next, ThreadCalls, QueueCalls, vars, ThreadCreate, ThreadCreateFails,
         ThreadCreateAborts, ThreadYield, InterruptHandler, ThreadExit, ThreadExitSwitch,
         ThreadExitLast, ThreadExitCrash, InterruptWhileExiting, ProcessExit, ThreadKill,
         ThreadKillCrash, ThreadKillFails, ThreadWait, ThreadWaitReturns, ThreadSleep,
         ThreadSleepFails, SleepOn, ThreadWakeup, ThreadWakeupNone, WaitQueueCreate,
         WaitQueueCreateAborts, WaitQueueDestroyCrash, WaitQueueDestroy, Terminated, Die
<1>2. CASE UNCHANGED vars
  BY <1>2 DEF vars
<1> QED BY <1>1, <1>2, SyncStep DEF allVars, Die

(* The calls of the thread library use the wait queues of threads only, or *)
(* the one they are called for.                                            *)
LEMMA ThreadCallsQueues ==
  ASSUME IInv, ThreadCalls, NEW r \in ClientQueues
  PROVE  sleepers'[r] = sleepers[r] /\ (r \in waitQueues' <=> r \in waitQueues)
<1>1. /\ r \in WaitQueues /\ r \notin Tid
      /\ sleepers \in [WaitQueues -> Seq(Tid)]
      /\ running \in Tid
  BY ClientQueuesAssumption DEF WaitQueues, IInv, TypeOK
<1>2. ASSUME NEW t \in Tid, DestroyJoinQueue(t)
      PROVE  sleepers'[r] = sleepers[r] /\ (r \in waitQueues' <=> r \in waitQueues)
  BY <1>1, <1>2 DEF DestroyJoinQueue
<1>3. ASSUME ThreadCreate
      PROVE  sleepers'[r] = sleepers[r] /\ (r \in waitQueues' <=> r \in waitQueues)
  <2>1. Reaped \in [Tid -> States]
    BY DEF Reaped, IInv, TypeOK, States
  <2>2. LowestFree(Reaped) \in Tid
    BY <1>3, <2>1, LowestFreeIsFree DEF ThreadCreate
  <2> QED BY <1>1, <1>3, <2>2 DEF ThreadCreate
<1>4. ASSUME NEW t, ThreadWait(t)
      PROVE  sleepers'[r] = sleepers[r] /\ (r \in waitQueues' <=> r \in waitQueues)
  BY <1>1, <1>4 DEF ThreadWait, CanWait, SleepOn
<1>5. ASSUME UNCHANGED <<sleepers, waitQueues>>
      PROVE  sleepers'[r] = sleepers[r] /\ (r \in waitQueues' <=> r \in waitQueues)
  BY <1>5
<1>6. \/ ThreadCreate
      \/ \E t : ThreadWait(t)
      \/ \E t \in Tid : DestroyJoinQueue(t)
      \/ UNCHANGED <<sleepers, waitQueues>>
  BY <1>1
     DEF ThreadCalls, ThreadCreateFails, ThreadCreateAborts, ThreadYield, YieldReturns,
         YieldTo, InterruptHandler, ThreadExit, ThreadExitSwitch, ThreadExitLast,
         ThreadExitCrash, InterruptWhileExiting, ProcessExit, ThreadKill, CanKill,
         ThreadKillCrash, ThreadKillFails, ThreadWaitReturns, Return, Die
<1> QED BY <1>2, <1>3, <1>4, <1>5, <1>6

(* The calls on a wait queue leave the others alone. *)
LEMMA QueueCallsQueues ==
  ASSUME IInv, NEW q \in ClientQueues, QueueCalls(q), NEW r \in ClientQueues \ {q}
  PROVE  sleepers'[r] = sleepers[r] /\ (r \in waitQueues' <=> r \in waitQueues)
<1>1. r \in WaitQueues /\ q \in WaitQueues /\ sleepers \in [WaitQueues -> Seq(Tid)]
  BY DEF WaitQueues, IInv, TypeOK
<1>2. \/ UNCHANGED sleepers
      \/ \E s : sleepers' = [sleepers EXCEPT ![q] = s]
  BY DEF QueueCalls, ThreadSleep, ThreadSleepFails, SleepOn, ThreadWakeup, WakeOne,
         WakeAll, ThreadWakeupNone, WaitQueueCreate, WaitQueueCreateAborts, WaitQueueDestroyCrash,
         WaitQueueDestroy, Return, Die
<1>3. waitQueues' \in {waitQueues, waitQueues \cup {q}, waitQueues \ {q}}
  BY DEF QueueCalls, ThreadSleep, ThreadSleepFails, SleepOn, ThreadWakeup,
         ThreadWakeupNone, WaitQueueCreate, WaitQueueCreateAborts, WaitQueueDestroyCrash,
         WaitQueueDestroy, Return, Die
<1> QED BY <1>1, <1>2, <1>3

-----------------------------------------------------------------------------
(* Places are well formed. *)
LEMMA AtType ==
  /\ Client \in Positions
  /\ \A place \in Places, l \in Locks \cup {NULL}, c \in Cvs \cup {NULL} :
       /\ At(place, l, c) \in Positions
       /\ At(place, l, c).at = place
       /\ At(place, l, c).lock = l
       /\ At(place, l, c).cv = c
BY DEF Client, At, Positions, Places

(* What lock_acquire goes on to. *)
LEMMA AcquiredType ==
  ASSUME SyncTypeOK, NEW l \in Locks, InAcquire(l)
  PROVE  /\ Acquired \in Positions
         /\ Acquired.at \in {"client", "release", "signal", "broadcast"}
<1> DEFINE here == resume[running]
<1>1. here.lock \in Locks \cup {NULL} /\ here.cv \in Cvs \cup {NULL}
  BY DEF SyncTypeOK, TypeOK, Positions
<1>2. \A place \in Places : /\ At(place, here.lock, here.cv) \in Positions
                            /\ At(place, here.lock, here.cv).at = place
  BY <1>1, AtType
<1>3. Client \in Positions /\ Client.at = "client"
  BY DEF Client, At, Positions, Places
<1>4. \/ Acquired = Client
      \/ \E place \in {"release", "signal", "broadcast"} :
           Acquired = At(place, here.lock, here.cv)
  <2>1. here.at \in Acquiring
    BY DEF InAcquire
  <2> QED BY <2>1 DEF Acquired, Acquiring
<1> QED BY <1>2, <1>3, <1>4 DEF Places

(* A step of SyncNext, with what it does to the locks. *)
LEMMA LockSteps ==
  ASSUME [SyncNext]_allVars
  PROVE  \/ ThreadCall
         \/ \E l \in Locks : \/ AcquireTakes(l)
                             \/ MayRelease(l) /\ Release(l) /\ UNCHANGED resume
                             \/ \E c \in Cvs : CvWaitReleases(c, l)
                             \/ LockCreate(l)
                             \/ LockDestroy(l)
         \/ UNCHANGED <<status, acquirer, holders>>
BY DEF SyncNext, allVars, syncVars, LockAcquire, AcquireSleeps, AcquireSpins, LockRelease,
       Release, CvWait, CvSignal, CvBroadcast, CvEnter, CvWaitSleeps, CvWakes, CvCreate,
       CvDestroy, SyncAborts, UseAfterFree

(* The types are kept. *)
LEMMA SyncTypeStep ==
  ASSUME IInv, SyncTypeOK, [SyncNext]_allVars
  PROVE  SyncTypeOK'
<1> DEFINE LocksTyped == /\ status' \in [Locks -> {0, 1}]
                         /\ acquirer' \in [Locks -> Tid \cup {-1}]
                         /\ holders' \in [Locks -> SUBSET Tid]
<1>1. /\ TypeOK
      /\ status \in [Locks -> {0, 1}]
      /\ acquirer \in [Locks -> Tid \cup {-1}]
      /\ resume \in [Tid -> Positions]
      /\ holders \in [Locks -> SUBSET Tid]
      /\ running \in Tid
  BY DEF SyncTypeOK, TypeOK
<1>2. TypeOK'
  BY SyncIInv DEF IInv
<1>3. LocksTyped
  <2>1. CASE ThreadCall
    BY <1>1, <2>1 DEF ThreadCall, StacksFreed
  <2>2. ASSUME NEW l \in Locks, AcquireTakes(l) PROVE LocksTyped
    BY <1>1, <2>2 DEF AcquireTakes
  <2>3. ASSUME NEW l \in Locks, Release(l) PROVE LocksTyped
    BY <1>1, <2>3 DEF Release
  <2>4. ASSUME NEW l \in Locks, LockCreate(l) \/ LockDestroy(l) PROVE LocksTyped
    BY <1>1, <2>4 DEF LockCreate, LockDestroy, syncVars
  <2>5. CASE UNCHANGED <<status, acquirer, holders>>
    BY <1>1, <2>5
  <2> QED BY <2>1, <2>2, <2>3, <2>4, <2>5, LockSteps DEF CvWaitReleases
<1>4. resume' \in [Tid -> Positions]
  <2>1. ASSUME NEW position \in Positions, Goto(position) PROVE resume' \in [Tid -> Positions]
    BY <1>1, <2>1 DEF Goto
  <2>2. ASSUME NEW l \in Locks, AcquireTakes(l) PROVE resume' \in [Tid -> Positions]
    BY <2>1, <2>2, AcquiredType DEF AcquireTakes
  <2>3. ASSUME NEW l \in Locks, LockAcquire(l) PROVE resume' \in [Tid -> Positions]
    <3>1. At("acquire", l, NULL) \in Positions
      BY AtType DEF Places, Acquiring
    <3> QED BY <2>1, <2>3, <3>1 DEF LockAcquire
  <2>4. ASSUME NEW l \in Locks, NEW c \in Cvs,
               \/ CvWait(c, l) \/ CvSignal(c, l) \/ CvBroadcast(c, l)
               \/ CvWaitReleases(c, l) \/ CvWaitSleeps(c, l) \/ CvWakes(c, l)
        PROVE  resume' \in [Tid -> Positions]
    <3>1. \A place \in Places : At(place, l, c) \in Positions
      BY AtType
    <3>2. Client \in Positions /\ At("acquire", l, NULL) \in Positions
      BY AtType DEF Places, Acquiring
    <3>3. \E position \in Positions : Goto(position)
      BY <2>4, <3>1, <3>2
         DEF CvWait, CvSignal, CvBroadcast, CvEnter, CvWaitReleases, CvWaitSleeps,
             CvWakes, Places, Acquiring
    <3> QED BY <2>1, <3>3
  <2>5. CASE ThreadCall
    BY <1>1, <2>5, AtType DEF ThreadCall, StacksFreed
  <2>6. CASE UNCHANGED resume
    BY <1>1, <2>6
  <2>7. \/ ThreadCall \/ UNCHANGED resume
        \/ \E l \in Locks :
             \/ LockAcquire(l) \/ AcquireTakes(l)
             \/ \E c \in Cvs : \/ CvWait(c, l) \/ CvSignal(c, l) \/ CvBroadcast(c, l)
                              \/ CvWaitReleases(c, l) \/ CvWaitSleeps(c, l) \/ CvWakes(c, l)
    BY DEF SyncNext, allVars, syncVars, AcquireSleeps, AcquireSpins, LockRelease,
           LockCreate, LockDestroy, CvCreate, CvDestroy, SyncAborts, UseAfterFree
  <2> QED BY <2>2, <2>3, <2>4, <2>5, <2>6, <2>7
<1> QED BY <1>2, <1>3, <1>4 DEF SyncTypeOK

(* Mutual exclusion is kept: a lock is taken only when it is free, and     *)
(* released only by its acquirer.                                          *)
LEMMA MutualExclusionStep ==
  ASSUME SyncInv, [SyncNext]_allVars
  PROVE  MutualExclusion'
<1>1. /\ TypeOK
      /\ status \in [Locks -> {0, 1}]
      /\ acquirer \in [Locks -> Tid \cup {-1}]
      /\ holders \in [Locks -> SUBSET Tid]
      /\ \A l \in Locks : holders[l] \subseteq IF status[l] = 1 THEN {acquirer[l]} ELSE {}
  BY DEF SyncInv, SyncTypeOK, MutualExclusion
<1>2. CASE ThreadCall
  BY <1>1, <1>2 DEF ThreadCall, StacksFreed, MutualExclusion
<1>3. ASSUME NEW l \in Locks, AcquireTakes(l) PROVE MutualExclusion'
  BY <1>1, <1>3 DEF AcquireTakes, MutualExclusion
<1>4. ASSUME NEW l \in Locks, Release(l) PROVE MutualExclusion'
  BY <1>1, <1>4 DEF Release, MayRelease, MutualExclusion
<1>5. ASSUME NEW l \in Locks, LockCreate(l) PROVE MutualExclusion'
  <2>1. status[l] = 0
    BY <1>5 DEF SyncInv, NoLockTaken, LockCreate, WaitQueueCreate
  <2> QED BY <1>1, <1>5, <2>1 DEF LockCreate, MutualExclusion
<1>6. ASSUME NEW l \in Locks, LockDestroy(l) PROVE MutualExclusion'
  BY <1>1, <1>6 DEF LockDestroy, syncVars, MutualExclusion
<1>7. CASE UNCHANGED <<status, acquirer, holders>>
  BY <1>1, <1>7 DEF MutualExclusion
<1> QED BY <1>2, <1>3, <1>4, <1>5, <1>6, <1>7, LockSteps DEF CvWaitReleases

-----------------------------------------------------------------------------
(* ThreadCall leaves the wait queues of locks and condition variables alone. *)
LEMMA ThreadCallQueues ==
  ASSUME IInv, ThreadCall, NEW r \in Locks \cup Cvs
  PROVE  sleepers'[r] = sleepers[r] /\ (r \in waitQueues' <=> r \in waitQueues)
<1>1. r \in ClientQueues
  BY SyncAssumption
<1>2. CASE ThreadCalls
  BY <1>1, <1>2, ThreadCallsQueues
<1>3. ASSUME NEW q \in ClientQueues \ (Locks \cup Cvs), QueueCalls(q)
      PROVE  sleepers'[r] = sleepers[r] /\ (r \in waitQueues' <=> r \in waitQueues)
  BY <1>1, <1>3, QueueCallsQueues
<1> QED BY <1>2, <1>3 DEF ThreadCall

(* What a step does to the lock l and its wait queue. *)
LEMMA LockQueueSteps ==
  ASSUME IInv, SyncTypeOK, [SyncNext]_allVars, NEW l \in Locks
  PROVE  \/ /\ sleepers'[l] = sleepers[l]
            /\ l \in waitQueues' <=> l \in waitQueues
            /\ status'[l] = status[l] \/ (status'[l] = 1 /\ l \in waitQueues)
         \/ AcquireSleeps(l) \/ Release(l) \/ LockCreate(l) \/ LockDestroy(l)
<1> DEFINE Kept == sleepers'[l] = sleepers[l] /\ (l \in waitQueues' <=> l \in waitQueues)
           Goal == \/ /\ Kept
                      /\ status'[l] = status[l] \/ (status'[l] = 1 /\ l \in waitQueues)
                   \/ AcquireSleeps(l) \/ Release(l) \/ LockCreate(l) \/ LockDestroy(l)
<1>1. ASSUME NEW q \in (Locks \cup Cvs) \ {l},
             \/ ThreadSleep(q) \/ ThreadSleepFails(q)
             \/ \E all \in 0..1 : ThreadWakeup(q, all) \/ ThreadWakeupNone(q, all)
             \/ WaitQueueCreate(q) \/ WaitQueueDestroy(q)
      PROVE  Kept
  <2>1. q \in ClientQueues /\ l \in ClientQueues \ {q}
    BY SyncAssumption
  <2>2. QueueCalls(q)
    BY <1>1 DEF QueueCalls
  <2> QED BY <2>1, <2>2, QueueCallsQueues
<1>2. ASSUME UNCHANGED <<sleepers, waitQueues>> PROVE Kept
  BY <1>2
<1> HIDE DEF Kept
<1>3. status \in [Locks -> {0, 1}]
  BY DEF SyncTypeOK
<1>4. CASE ThreadCall
  BY <1>4, ThreadCallQueues DEF ThreadCall, Kept
<1>5. ASSUME NEW m \in Locks, AcquireTakes(m) PROVE Goal
  BY <1>2, <1>3, <1>5 DEF AcquireTakes, InAcquire, vars
<1>6. ASSUME NEW m \in Locks, AcquireSleeps(m) PROVE Goal
  BY <1>1, <1>6 DEF AcquireSleeps, syncVars
<1>7. ASSUME NEW m \in Locks, Release(m) PROVE Goal
  <2>1. CASE m = l
    BY <1>7, <2>1
  <2>2. CASE m # l
    <3>1. Kept
      BY <1>1, <1>7, <2>2 DEF Release, ReleaseWakes
    <3>2. status'[l] = status[l]
      BY <1>3, <1>7, <2>2 DEF Release
    <3> QED BY <3>1, <3>2
  <2> QED BY <2>1, <2>2
<1>8. ASSUME NEW m \in Locks, LockCreate(m) \/ LockDestroy(m) PROVE Goal
  BY <1>1, <1>3, <1>8 DEF LockCreate, LockDestroy, syncVars
<1>9. ASSUME NEW m \in Locks, LockAcquire(m) \/ AcquireSpins(m) PROVE Goal
  BY <1>2, <1>9 DEF LockAcquire, AcquireSpins, ThreadSleepFails, Return, syncVars, vars
<1>10. ASSUME NEW c \in Cvs, NEW m \in Locks,
              CvWait(c, m) \/ CvSignal(c, m) \/ CvBroadcast(c, m)
       PROVE  Goal
  BY <1>2, <1>10 DEF CvWait, CvSignal, CvBroadcast, CvEnter, vars
<1>11. ASSUME NEW c \in Cvs, NEW m \in Locks, CvWaitSleeps(c, m) \/ CvWakes(c, m)
       PROVE  Goal
  <2>1. c # l
    BY SyncAssumption
  <2>2. WakesAll("signal") = 0 /\ WakesAll("broadcast") = 1
    BY DEF WakesAll
  <2> QED BY <1>1, <1>11, <2>1, <2>2 DEF CvWaitSleeps, CvWakes
<1>12. ASSUME NEW c \in Cvs, CvCreate(c) \/ CvDestroy(c) PROVE Goal
  <2>1. c # l
    BY SyncAssumption
  <2> QED BY <1>1, <1>12, <2>1 DEF CvCreate, CvDestroy, syncVars
<1>13. ASSUME NEW q, SyncAborts(q) \/ UseAfterFree PROVE Goal
  BY <1>2, <1>13 DEF SyncAborts, UseAfterFree, Die, syncVars
<1>14. CASE UNCHANGED allVars
  BY <1>2, <1>14 DEF allVars, vars, syncVars
<1> QED
  BY <1>4, <1>5, <1>6, <1>7, <1>8, <1>9, <1>10, <1>11, <1>12, <1>13, <1>14
     DEF SyncNext, LockRelease, CvWaitReleases, Terminated, allVars, Kept

(* Locks that do not exist are not taken. *)
LEMMA NoLockTakenStep ==
  ASSUME SyncInv, [SyncNext]_allVars
  PROVE  NoLockTaken'
<1> SUFFICES ASSUME NEW l \in Locks, l \notin waitQueues' PROVE status'[l] = 0
  BY DEF NoLockTaken
<1>1. /\ IInv /\ SyncTypeOK
      /\ status \in [Locks -> {0, 1}]
      /\ l \notin waitQueues => status[l] = 0
  BY DEF SyncInv, SyncTypeOK, NoLockTaken
<1>2. CASE AcquireSleeps(l)
  BY <1>2 DEF AcquireSleeps, InAcquire, ThreadSleep, SleepOn
<1>3. CASE Release(l) \/ LockCreate(l)
  BY <1>1, <1>3 DEF Release, LockCreate
<1>4. CASE LockDestroy(l)
  BY <1>4 DEF LockDestroy, syncVars
<1> QED BY <1>1, <1>2, <1>3, <1>4, LockQueueSteps

(* A lock becomes free with its wait queue emptied, and nobody goes to     *)
(* sleep in the queue of a free lock.                                      *)
LEMMA FreeLockStep ==
  ASSUME SyncInv, [SyncNext]_allVars
  PROVE  FreeLockHasNoSleepers'
<1> SUFFICES ASSUME process' = "running", NEW l \in Locks, status'[l] = 0
             PROVE  sleepers'[l] = <<>>
  BY DEF FreeLockHasNoSleepers
<1>1. /\ IInv /\ SyncTypeOK
      /\ process = "running"
      /\ l \in WaitQueues
      /\ sleepers \in [WaitQueues -> Seq(Tid)]
      /\ status[l] = 0 => sleepers[l] = <<>>
  BY RunningBefore, SyncAssumption
     DEF SyncInv, IInv, TypeOK, WaitQueues, FreeLockHasNoSleepers
<1>2. CASE AcquireSleeps(l)
  BY <1>2 DEF AcquireSleeps, syncVars
<1>3. CASE Release(l)
  BY <1>1, <1>3 DEF Release, ReleaseWakes, ThreadWakeup, WakeAll, ThreadWakeupNone, Return
<1>4. CASE LockCreate(l)
  BY <1>1, <1>4 DEF LockCreate, WaitQueueCreate, IInv, NoStrandedSleeper
<1>5. CASE LockDestroy(l)
  BY <1>1, <1>5 DEF LockDestroy, WaitQueueDestroy, WakeAll
<1> QED BY <1>1, <1>2, <1>3, <1>4, <1>5, LockQueueSteps

-----------------------------------------------------------------------------
(* A step that switches threads nowhere keeps the suspended where they are. *)
LEMMA NoSwitchSuspended ==
  ASSUME SuspendedOnlyAsleep, OneQueuePerThread, process = "running", running' = running,
         \A q \in Locks \cup Cvs : Range(sleepers'[q]) \subseteq Range(sleepers[q]),
         \A t \in Tid \ {running} : resume'[t] = resume[t]
  PROVE  SuspendedOnlyAsleep'
<1>1. \A q \in Locks \cup Cvs : running \notin Range(sleepers[q])
  BY SyncAssumption DEF OneQueuePerThread, WaitQueues
<1> QED BY <1>1 DEF SuspendedOnlyAsleep

(* A caller suspended in the queue q stands in the loop of lock_acquire:   *)
(* that of the lock q, or the one at the end of cv_wait.                   *)
LEMMA SleepSuspended ==
  ASSUME SuspendedOnlyAsleep, IInv, NEW q \in Locks \cup Cvs, ThreadSleep(q),
         resume'[running].at \in Acquiring,
         q \in Locks => resume'[running].lock = q,
         q \in Cvs => resume'[running].at = "acquire",
         \A t \in Tid \ {running} : resume'[t] = resume[t]
  PROVE  SuspendedOnlyAsleep'
<1>1. /\ process = "running"
      /\ q \in WaitQueues /\ Locks \cup Cvs \subseteq WaitQueues
      /\ sleepers \in [WaitQueues -> Seq(Tid)]
      /\ running \in Tid
  BY SyncAssumption DEF ThreadSleep, SleepOn, IInv, TypeOK, WaitQueues
<1>2. /\ \A r \in WaitQueues \ {q} : sleepers'[r] = sleepers[r]
      /\ sleepers'[q] = QueuePush(sleepers[q], running)
  BY <1>1 DEF ThreadSleep, SleepOn
<1>3. Range(sleepers'[q]) = Range(sleepers[q]) \cup {running}
  BY <1>1, <1>2, PushProperties
<1>4. \A r \in WaitQueues : running \notin Range(sleepers[r])
  BY <1>1 DEF IInv, OneQueuePerThread
<1>5. \A t \in Tid : resume'[t].at \in Acquiring \cup {"client"} \/ t = running'
  BY <1>1 DEF SuspendedOnlyAsleep
<1>6. ASSUME NEW t \in Tid, NEW l \in Locks, t \in Range(sleepers'[l])
      PROVE  resume'[t].at \in Acquiring /\ resume'[t].lock = l
  <2>1. CASE t = running
    BY <1>1, <1>2, <1>3, <1>4, <1>6, <2>1
  <2>2. CASE t # running
    BY <1>1, <1>2, <1>3, <1>6, <2>2 DEF SuspendedOnlyAsleep
  <2> QED BY <2>1, <2>2
<1>7. ASSUME NEW t \in Tid, NEW c \in Cvs, t \in Range(sleepers'[c])
      PROVE  resume'[t].at = "acquire"
  <2>1. CASE t = running
    BY <1>1, <1>2, <1>3, <1>4, <1>7, <2>1
  <2>2. CASE t # running
    BY <1>1, <1>2, <1>3, <1>7, <2>2 DEF SuspendedOnlyAsleep
  <2> QED BY <2>1, <2>2
<1> QED BY <1>5, <1>6, <1>7 DEF SuspendedOnlyAsleep

(* What the calls on the wait queue q of a lock or condition variable do,  *)
(* when they do not suspend the caller.                                    *)
LEMMA QueueShrinks ==
  ASSUME IInv, NEW q \in Locks \cup Cvs,
         \/ ThreadSleepFails(q)
         \/ \E all \in 0..1 : ThreadWakeup(q, all) \/ ThreadWakeupNone(q, all)
         \/ WaitQueueCreate(q) \/ WaitQueueDestroy(q)
  PROVE  /\ process = "running" /\ running' = running
         /\ \A r \in Locks \cup Cvs : Range(sleepers'[r]) \subseteq Range(sleepers[r])
<1>1. /\ q \in WaitQueues /\ Locks \cup Cvs \subseteq WaitQueues
      /\ sleepers \in [WaitQueues -> Seq(Tid)]
  BY SyncAssumption DEF IInv, TypeOK, WaitQueues
<1>2. process = "running" /\ running' = running
  BY DEF ThreadSleepFails, ThreadWakeup, ThreadWakeupNone, WaitQueueCreate,
         WaitQueueDestroy, Return
<1>3. \/ sleepers' = sleepers
      \/ sleepers' = [sleepers EXCEPT ![q] = <<>>]
      \/ /\ sleepers[q] # <<>>
         /\ sleepers' = [sleepers EXCEPT ![q] = Tail(sleepers[q])]
  BY DEF ThreadSleepFails, ThreadWakeup, ThreadWakeupNone, WaitQueueCreate,
         WaitQueueDestroy, WakeOne, WakeAll, Return
<1>4. Range(<<>>) = {}
  BY DEF Range
<1>5. sleepers[q] # <<>> => Range(Tail(sleepers[q])) \subseteq Range(sleepers[q])
  BY <1>1, PopProperties
<1>6. \A r \in WaitQueues : Range(sleepers'[r]) \subseteq Range(sleepers[r])
  BY <1>1, <1>3, <1>4, <1>5
<1> QED BY <1>1, <1>2, <1>6

(* A call is suspended only asleep. *)
LEMMA SuspendedStep ==
  ASSUME SyncInv, [SyncNext]_allVars
  PROVE  SuspendedOnlyAsleep'
<1> SUFFICES ASSUME process' = "running" PROVE SuspendedOnlyAsleep'
  BY DEF SuspendedOnlyAsleep
<1>1. /\ IInv /\ SyncTypeOK /\ SuspendedOnlyAsleep
      /\ process = "running"
      /\ OneQueuePerThread
      /\ resume \in [Tid -> Positions]
      /\ running \in Tid
  BY RunningBefore DEF SyncInv, IInv, SyncTypeOK, TypeOK
<1>2. ASSUME NEW position, Goto(position)
      PROVE  /\ \A t \in Tid \ {running} : resume'[t] = resume[t]
             /\ resume'[running] = position
  BY <1>1, <1>2 DEF Goto
<1>3. CASE ThreadCall
  <2>1. \A q \in Locks \cup Cvs : sleepers'[q] = sleepers[q]
    BY <1>1, <1>3, ThreadCallQueues
  <2>2. /\ resume[running] = Client
        /\ \A t \in Tid :
             resume'[t] = IF t \in exitedQueue \ exitedQueue' THEN Client ELSE resume[t]
    BY <1>1, <1>3 DEF ThreadCall, StacksFreed, InterruptsOn
  <2>3. Client.at = "client"
    BY DEF Client, At
  <2>4. \A q \in Locks \cup Cvs : Range(sleepers[q]) \cap exitedQueue = {}
    BY <1>1, SyncAssumption DEF OneQueuePerThread, WaitQueues
  <2>5. \A t \in Tid : t # running' => resume'[t].at \in Acquiring \cup {"client"}
    BY <1>1, <2>2, <2>3 DEF SuspendedOnlyAsleep
  <2>6. \A t \in Tid, q \in Locks \cup Cvs : t \in Range(sleepers'[q]) =>
          t \in Range(sleepers[q]) /\ resume'[t] = resume[t]
    BY <2>1, <2>2, <2>4
  <2> QED BY <1>1, <2>5, <2>6 DEF SuspendedOnlyAsleep
<1>4. ASSUME UNCHANGED vars, \/ UNCHANGED resume
                            \/ \E position : Goto(position)
      PROVE  SuspendedOnlyAsleep'
  <2>1. running' = running /\ sleepers' = sleepers
    BY <1>4 DEF vars
  <2> QED BY <1>1, <1>2, <1>4, <2>1, NoSwitchSuspended
<1>5. ASSUME NEW q \in Locks \cup Cvs,
             \/ ThreadSleepFails(q)
             \/ \E all \in 0..1 : ThreadWakeup(q, all) \/ ThreadWakeupNone(q, all)
             \/ WaitQueueCreate(q) \/ WaitQueueDestroy(q),
             \/ UNCHANGED resume
             \/ \E position : Goto(position)
      PROVE  SuspendedOnlyAsleep'
  BY <1>1, <1>2, <1>5, QueueShrinks, NoSwitchSuspended
<1>6. ASSUME NEW l \in Locks, AcquireSleeps(l) PROVE SuspendedOnlyAsleep'
  <2>1. resume'[running].at \in Acquiring /\ resume'[running].lock = l /\ l \notin Cvs
    BY <1>6, SyncAssumption DEF AcquireSleeps, InAcquire, syncVars
  <2> QED BY <1>1, <1>6, <2>1, SleepSuspended DEF AcquireSleeps, syncVars
<1>7. ASSUME NEW l \in Locks, NEW c \in Cvs, CvWaitSleeps(c, l) PROVE SuspendedOnlyAsleep'
  <2>1. CASE ThreadSleep(c)
    <3>1. At("acquire", l, NULL).at = "acquire" /\ "acquire" \in Acquiring /\ c \notin Locks
      BY SyncAssumption DEF At, Acquiring
    <3> QED BY <1>1, <1>2, <1>7, <2>1, <3>1, SleepSuspended DEF CvWaitSleeps
  <2>2. CASE ThreadSleepFails(c)
    BY <1>5, <1>7, <2>2 DEF CvWaitSleeps
  <2> QED BY <1>7, <2>1, <2>2 DEF CvWaitSleeps
<1>8. ASSUME NEW l \in Locks,
             \/ LockAcquire(l) \/ AcquireTakes(l)
             \/ \E c \in Cvs : CvWait(c, l) \/ CvSignal(c, l) \/ CvBroadcast(c, l)
      PROVE  SuspendedOnlyAsleep'
  BY <1>4, <1>8 DEF LockAcquire, AcquireTakes, CvWait, CvSignal, CvBroadcast, CvEnter
<1>9. ASSUME NEW l \in Locks,
             \/ AcquireSpins(l) \/ LockRelease(l) \/ LockCreate(l) \/ LockDestroy(l)
             \/ \E c \in Cvs : CvWaitReleases(c, l)
      PROVE  SuspendedOnlyAsleep'
  BY <1>5, <1>9 DEF AcquireSpins, LockRelease, CvWaitReleases, Release, ReleaseWakes,
                    LockCreate, LockDestroy, syncVars
<1>10. ASSUME NEW l \in Locks, NEW c \in Cvs, CvWakes(c, l) PROVE SuspendedOnlyAsleep'
  <2>1. WakesAll("signal") \in 0..1 /\ WakesAll("broadcast") \in 0..1
    BY DEF WakesAll
  <2> QED BY <1>5, <1>10, <2>1 DEF CvWakes
<1>11. ASSUME NEW c \in Cvs, CvCreate(c) \/ CvDestroy(c) PROVE SuspendedOnlyAsleep'
  BY <1>5, <1>11 DEF CvCreate, CvDestroy, syncVars
<1>12. ASSUME NEW q, SyncAborts(q) \/ UseAfterFree PROVE FALSE
  BY <1>12 DEF SyncAborts, UseAfterFree, Die
<1>13. CASE UNCHANGED allVars
  BY <1>4, <1>13 DEF allVars, syncVars
<1> QED
  BY <1>3, <1>6, <1>7, <1>8, <1>9, <1>10, <1>11, <1>12, <1>13
     DEF SyncNext, Terminated, allVars

(* The state after thread_init, with no lock and no condition variable. *)
LEMMA InitSyncInv == SyncInit => SyncInv
<1> SUFFICES ASSUME SyncInit PROVE SyncInv
  OBVIOUS
<1>1. IInv
  BY InitIInv DEF SyncInit
<1>2. SyncTypeOK
  BY <1>1, AtType DEF SyncInit, SyncTypeOK, IInv
<1>3. /\ \A q \in Locks \cup Cvs : sleepers[q] = <<>>
      /\ Range(<<>>) = {}
  BY SyncAssumption DEF SyncInit, Init, WaitQueues, Range
<1>4. NoLockTaken /\ MutualExclusion /\ FreeLockHasNoSleepers
  BY <1>3 DEF SyncInit, NoLockTaken, MutualExclusion, FreeLockHasNoSleepers
<1>5. SuspendedOnlyAsleep
  BY <1>3 DEF SyncInit, SuspendedOnlyAsleep, Client, At
<1> QED BY <1>1, <1>2, <1>4, <1>5 DEF SyncInv

(* Every step preserves the inductive invariant. *)
LEMMA NextSyncInv == SyncInv /\ [SyncNext]_allVars => SyncInv'
BY SyncIInv, SyncTypeStep, NoLockTakenStep, MutualExclusionStep, FreeLockStep, SuspendedStep
   DEF SyncInv

(* The inductive invariant holds in every state locks and condition        *)
(* variables reach.                                                        *)
THEOREM SyncInductive == SyncSpec => []SyncInv
BY InitSyncInv, NextSyncInv, PTL DEF SyncSpec

(* Locks and condition variables keep the types of all variables. *)
THEOREM SyncTypeCorrect == SyncSpec => []SyncTypeOK
<1>1. SyncInv => SyncTypeOK
  BY DEF SyncInv
<1> QED BY <1>1, SyncInductive, PTL

(* Locks and condition variables use the thread library only by its calls: *)
(* the ownership of thread nodes proved there holds under them too.        *)
THEOREM SyncKeepsNodes == SyncSpec => []OneQueuePerThread
<1>1. SyncInv => OneQueuePerThread
  BY DEF SyncInv, IInv
<1> QED BY <1>1, SyncInductive, PTL

(* Two threads never hold a lock together. *)
THEOREM LocksExclude == SyncSpec => []MutualExclusion
<1>1. SyncInv => MutualExclusion
  BY DEF SyncInv
<1> QED BY <1>1, SyncInductive, PTL

(* A lock that is free keeps nobody waiting. *)
THEOREM NoLostLockWakeup == SyncSpec => []FreeLockHasNoSleepers
<1>1. SyncInv => FreeLockHasNoSleepers
  BY DEF SyncInv
<1> QED BY <1>1, SyncInductive, PTL

(* No thread runs while another stands between two steps of a call. *)
THEOREM CallsAreAtomic == SyncSpec => []SuspendedOnlyAsleep
<1>1. SyncInv => SuspendedOnlyAsleep
  BY DEF SyncInv
<1> QED BY <1>1, SyncInductive, PTL

-----------------------------------------------------------------------------
(* The end of the process leaves its queues as they are. *)
LEMMA EndedKeepsQueues ==
  ASSUME process # "running",
         \/ ThreadCalls
         \/ \E q \in ClientQueues \ (Locks \cup Cvs) : QueueCalls(q)
  PROVE  UNCHANGED <<running, waitQueues, sleepers, exitedQueue>>
BY DEF ThreadCalls, QueueCalls, ThreadCreate, ThreadCreateFails, ThreadCreateAborts,
       ThreadYield, InterruptHandler, ThreadExit, ThreadExitSwitch, ThreadExitLast,
       ThreadExitCrash, InterruptWhileExiting, ProcessExit, ThreadKill, ThreadKillCrash,
       ThreadKillFails, ThreadWait, ThreadWaitReturns, ThreadSleep, ThreadSleepFails,
       SleepOn, ThreadWakeup, ThreadWakeupNone, WaitQueueCreate, WaitQueueCreateAborts, WaitQueueDestroyCrash,
       WaitQueueDestroy, Die

(* The step of cv_signal or cv_broadcast that wakes. *)
Wakes(c, place) ==
  /\ sleepers[c] # <<>>
  /\ CvWaiters(c)' = CvWaiters(c) \ Taken(c, place)
  /\ Range(readyQueue') =
       Range(readyQueue) \cup {t \in Taken(c, place) : threadState[t] # "EXITED"}

LEMMA SignalStep ==
  ASSUME SyncInv, [SyncNext]_allVars, NEW c \in Cvs, NEW place \in {"signal", "broadcast"},
         resume[running].at = place, resume[running].cv = c,
         resume'[running] = Client, CvWaiters(c) # {}
  PROVE  Wakes(c, place)
<1>1. /\ IInv /\ running \in Tid
      /\ resume \in [Tid -> Positions]
      /\ c \in WaitQueues
      /\ sleepers \in [WaitQueues -> Seq(Tid)]
      /\ Client.at = "client"
      /\ place \notin Acquiring /\ place # "client"
  BY SyncAssumption
     DEF SyncInv, IInv, SyncTypeOK, TypeOK, WaitQueues, Client, At, Acquiring
<1>2. PICK l \in Locks, d \in Cvs : CvWakes(d, l)
  <2>1. resume[running] # Client
    BY <1>1
  <2>2. \A l \in Locks, d \in Cvs : Standing("release", d, l) => resume[running].at = "release"
    BY DEF Standing, At
  <2>3. \A l \in Locks, d \in Cvs : Standing("sleep", d, l) => resume[running].at = "sleep"
    BY DEF Standing, At
  <2>4. ~ThreadCall
    <3>1. CASE process = "running"
      BY <2>1, <3>1 DEF ThreadCall, InterruptsOn
    <3>2. CASE process # "running"
      <4>1. ThreadCall => exitedQueue' = exitedQueue
        BY <3>2, EndedKeepsQueues DEF ThreadCall
      <4>2. ThreadCall => resume'[running] = resume[running]
        BY <1>1, <4>1 DEF ThreadCall, StacksFreed
      <4> QED BY <2>1, <4>2
    <3> QED BY <3>1, <3>2
  <2>5. UNCHANGED resume => FALSE
    BY <2>1
  <2> QED
    BY <1>1, <2>1, <2>2, <2>3, <2>4, <2>5
       DEF SyncNext, allVars, syncVars, InterruptsOn, LockAcquire, AcquireTakes,
           InAcquire, AcquireSleeps, AcquireSpins, LockRelease, LockCreate, LockDestroy,
           CvWait, CvSignal, CvBroadcast, CvEnter, CvWaitReleases,
           CvWaitSleeps, CvCreate, CvDestroy, SyncAborts, UseAfterFree
<1>3. /\ process = "running"
      /\ c \in waitQueues
      /\ ThreadWakeup(c, WakesAll(place)) \/ ThreadWakeupNone(c, WakesAll(place))
      /\ Goto(Client)
  <2>1. \A other \in {"signal", "broadcast"} :
          Standing(other, d, l) => other = place /\ d = c
    BY DEF Standing, At
  <2> QED BY <1>2, <2>1 DEF CvWakes, Standing
<1>4. \A t \in Tid : resume[t].at # "sleep" /\ resume'[t].at # "sleep"
  <2>1. \A t \in Tid : resume[t].at # "sleep"
    BY <1>1, <1>3 DEF SyncInv, SuspendedOnlyAsleep, Acquiring
  <2> QED BY <1>1, <1>3, <2>1 DEF Goto
<1>5. CvWaiters(c) = Range(sleepers[c]) /\ CvWaiters(c)' = Range(sleepers'[c])
  BY <1>4 DEF CvWaiters
<1>6. sleepers[c] # <<>>
  BY <1>5 DEF Range
<1>7. ThreadWakeup(c, WakesAll(place))
  BY <1>3, <1>6 DEF ThreadWakeupNone, WakesAll
<1>8. /\ readyQueue \in Seq(Tid) /\ threadState \in [Tid -> States]
       /\ Range(sleepers[c]) \subseteq Tid
  <2>1. sleepers[c] \in Seq(Tid)
    BY <1>1
  <2> QED BY <2>1, RangeOfSeq DEF SyncInv, IInv, TypeOK
<1>9. CASE place = "signal"
  <2> DEFINE first == Head(sleepers[c])
  <2>1. WakeOne(c) /\ sleepers'[c] = Tail(sleepers[c])
    BY <1>1, <1>7, <1>9 DEF ThreadWakeup, WakesAll, WakeOne
  <2>2. Range(Tail(sleepers[c])) = Range(sleepers[c]) \ {Head(sleepers[c])}
    <3>1. IsInjective(sleepers[c])
      BY <1>1, <1>3 DEF IInv, OneQueuePerThread
    <3>2. sleepers[c] \in Seq(Tid)
      BY <1>1
    <3> QED BY <1>6, <3>1, <3>2, PopProperties
  <2>3. first \in Tid
    BY <1>1, <1>6
  <2>4. Range(readyQueue') =
          Range(readyQueue) \cup {t \in {first} : threadState[t] # "EXITED"}
    <3>1. CASE threadState[first] = "EXITED"
      BY <2>1, <3>1 DEF WakeOne
    <3>2. CASE threadState[first] # "EXITED"
      <4>1. readyQueue' = QueuePush(readyQueue, first)
        BY <2>1, <3>2 DEF WakeOne
      <4>2. Range(QueuePush(readyQueue, first)) = Range(readyQueue) \cup {first}
        <5>1. readyQueue \in Seq(Tid) /\ first \in Tid
          BY <1>8, <2>3
        <5> HIDE DEF first
        <5> QED BY <5>1, PushProperties
      <4> QED BY <3>2, <4>1, <4>2
    <3> QED BY <3>1, <3>2
  <2> QED BY <1>5, <1>6, <1>9, <2>1, <2>2, <2>4 DEF Taken, Wakes
<1>10. CASE place = "broadcast"
  <2>1. WakeAll(c) /\ sleepers'[c] = <<>>
    BY <1>1, <1>7, <1>10 DEF ThreadWakeup, WakesAll, WakeAll
  <2> DEFINE woken == Woken(c, threadState)
  <2>2. /\ woken \in Seq(Tid)
        /\ Range(woken) = {t \in Range(sleepers[c]) : threadState[t] # "EXITED"}
    <3>1. woken \in Seq(Tid) /\ Range(woken) = Range(sleepers[c]) \ Killed(c, threadState)
      BY <1>1, <1>8, WokenProperties DEF SyncInv, IInv
    <3> QED BY <1>8, <3>1 DEF Killed
  <2>3. readyQueue' = readyQueue \o woken
    BY <2>1 DEF WakeAll
  <2> HIDE DEF woken
  <2>4. Range(readyQueue \o woken) = Range(readyQueue) \cup Range(woken)
    BY <1>8, <2>2, ConcatQueues
  <2>5. Range(sleepers'[c]) = {}
    BY <2>1 DEF Range
  <2> QED BY <1>5, <1>6, <1>10, <2>2, <2>3, <2>4, <2>5 DEF Taken, Wakes
<1> QED BY <1>9, <1>10

(* A signal is not lost between the lock_release and the thread_sleep of a *)
(* cv_wait; it wakes the thread that waits longest unless that was killed, *)
(* and a broadcast wakes all that were not.                                *)
THEOREM SignalsWake == SyncSpec => SignalsWakeWaiters
<1> DEFINE Reaches ==
      \A c \in Cvs, place \in {"signal", "broadcast"} :
        /\ resume[running].at = place
        /\ resume[running].cv = c
        /\ resume'[running] = Client
        /\ CvWaiters(c) # {}
        => Wakes(c, place)
<1>1. SyncInv /\ [SyncNext]_allVars => [Reaches]_allVars
  BY SignalStep
<1>2. []SyncInv /\ [][SyncNext]_allVars => [][Reaches]_allVars
  BY <1>1, PTL
<1> QED BY <1>2, SyncInductive, PTL DEF SyncSpec, SignalsWakeWaiters, Wakes

-----------------------------------------------------------------------------
(* What makes the mapping to Monitor work, on top of SyncInv: the callers  *)
(* of the three calls have the lock when they go on to release it or to    *)
(* signal, free locks have no acquirer, and a new thread begins in its     *)
(* own code.                                                               *)
HoldsLock ==
  process = "running" /\ resume[running].at \in {"release", "signal", "broadcast"} =>
    /\ resume[running].lock \in Locks
    /\ acquirer[resume[running].lock] = running

FreeLocks == \A l \in Locks : status[l] = 0 <=> acquirer[l] = -1

NewAtClient ==
  process = "running" => \A t \in Tid : threadState[t] = "NULL" => resume[t] = Client

MonitorInv == HoldsLock /\ FreeLocks /\ NewAtClient

(* The places of the threads that do not run. *)
LEMMA OthersSuspended ==
  ASSUME SyncInv, process = "running", NEW t \in Tid \ {running}
  PROVE  resume[t].at \notin {"release", "sleep", "signal", "broadcast"}
BY DEF SyncInv, SuspendedOnlyAsleep, Acquiring

(* thread_sleep runs another thread. *)
LEMMA SleepSwitches ==
  ASSUME IInv, NEW q, ThreadSleep(q)
  PROVE  running' \in Tid \ {running}
<1>1. /\ process = "running" /\ OneQueuePerThread
      /\ readyQueue \in Seq(Tid)
      /\ running' \in Range(readyQueue)
  BY DEF ThreadSleep, SleepOn, SwitchTo, IInv, TypeOK
<1> QED BY <1>1, RangeAt DEF OneQueuePerThread

(* A lock is free if and only if it has no acquirer. *)
LEMMA FreeLocksStep ==
  ASSUME SyncInv, FreeLocks, [SyncNext]_allVars
  PROVE  FreeLocks'
<1>1. /\ status \in [Locks -> {0, 1}]
      /\ acquirer \in [Locks -> Tid \cup {-1}]
      /\ running \in Tid /\ running # -1
  BY MaxThreadsAssumption DEF SyncInv, SyncTypeOK, TypeOK, Tid
<1>2. CASE ThreadCall \/ UNCHANGED <<status, acquirer, holders>>
  BY <1>2 DEF ThreadCall, FreeLocks
<1>3. ASSUME NEW l \in Locks,
             status' = [status EXCEPT ![l] = 1] /\ acquirer' = [acquirer EXCEPT ![l] = running]
      PROVE  FreeLocks'
  BY <1>1, <1>3 DEF FreeLocks
<1>4. ASSUME NEW l \in Locks,
             status' = [status EXCEPT ![l] = 0] /\ acquirer' = [acquirer EXCEPT ![l] = -1]
      PROVE  FreeLocks'
  BY <1>1, <1>4 DEF FreeLocks
<1>5. ASSUME NEW l \in Locks, LockDestroy(l) PROVE FreeLocks'
  BY <1>5 DEF LockDestroy, syncVars, FreeLocks
<1> QED BY <1>2, <1>3, <1>4, <1>5, LockSteps DEF AcquireTakes, Release, CvWaitReleases, LockCreate

(* The caller of cv_signal, cv_broadcast or cv_wait has the lock when it   *)
(* wakes or waits.                                                         *)
LEMMA HoldsLockStep ==
  ASSUME SyncInv, HoldsLock, [SyncNext]_allVars
  PROVE  HoldsLock'
<1> DEFINE Use == {"release", "signal", "broadcast"}
<1> SUFFICES ASSUME process' = "running", resume'[running'].at \in Use
             PROVE  resume'[running'].lock \in Locks /\ acquirer'[resume'[running'].lock] = running'
  BY DEF HoldsLock
<1>1. /\ IInv /\ SyncTypeOK
      /\ process = "running"
      /\ resume \in [Tid -> Positions]
      /\ acquirer \in [Locks -> Tid \cup {-1}]
      /\ running \in Tid
      /\ Client.at = "client"
      /\ "client" \notin Use /\ "acquire" \notin Use /\ "sleep" \notin Use
      /\ Acquiring \cap Use = {}
  BY RunningBefore DEF SyncInv, SyncTypeOK, TypeOK, Client, At, Acquiring
<1>2. \A t \in Tid \ {running} : resume[t].at \notin Use
  BY <1>1, OthersSuspended
<1> HIDE DEF Use
<1>3. ASSUME NEW position, Goto(position)
      PROVE  /\ \A t \in Tid \ {running} : resume'[t] = resume[t]
             /\ resume'[running] = position
  BY <1>1, <1>3 DEF Goto
<1>4. CASE ThreadCall
  <2>1. resume[running] = Client /\ running' \in Tid
    BY <1>1, <1>4, SyncIInv DEF ThreadCall, InterruptsOn, IInv, TypeOK
  <2>2. \A t \in Tid : resume'[t] \in {Client, resume[t]}
    BY <1>1, <1>4 DEF ThreadCall, StacksFreed
  <2> QED BY <1>1, <1>2, <2>1, <2>2
<1>5. ASSUME NEW q, ThreadSleep(q), \A t \in Tid \ {running} : resume'[t] = resume[t]
      PROVE  FALSE
  BY <1>1, <1>2, <1>5, SleepSwitches
<1>6. ASSUME running' = running, resume'[running].at \notin Use PROVE FALSE
  BY <1>6
<1>7. ASSUME NEW l \in Locks, AcquireTakes(l)
      PROVE  resume'[running'].lock \in Locks /\ acquirer'[resume'[running'].lock] = running'
  <2>1. /\ resume'[running] = Acquired /\ running' = running
        /\ resume[running].lock = l /\ acquirer'[l] = running
    BY <1>1, <1>3, <1>7 DEF AcquireTakes, InAcquire, vars
  <2>2. Acquired = Client \/ Acquired.lock = l
    BY <2>1 DEF Acquired, At
  <2> QED BY <1>1, <1>6, <2>1, <2>2
<1>8. ASSUME NEW l \in Locks, AcquireSleeps(l) PROVE FALSE
  BY <1>5, <1>8 DEF AcquireSleeps, syncVars
<1>9. ASSUME NEW l \in Locks, AcquireSpins(l) PROVE FALSE
  BY <1>1, <1>6, <1>9 DEF AcquireSpins, InAcquire, ThreadSleepFails, Return, syncVars
<1>10. ASSUME NEW l \in Locks, LockAcquire(l) PROVE FALSE
  BY <1>1, <1>3, <1>6, <1>10 DEF LockAcquire, vars, At
<1>11. ASSUME NEW q \in Locks \cup Cvs,
              \/ \E all \in 0..1 : ThreadWakeup(q, all) \/ ThreadWakeupNone(q, all)
              \/ WaitQueueCreate(q) \/ WaitQueueDestroy(q),
              InterruptsOn, UNCHANGED resume
       PROVE  FALSE
  BY <1>1, <1>6, <1>11, QueueShrinks DEF InterruptsOn
<1>12. ASSUME NEW l \in Locks, LockRelease(l) \/ LockCreate(l) \/ LockDestroy(l) PROVE FALSE
  BY <1>11, <1>12 DEF LockRelease, Release, ReleaseWakes, LockCreate, LockDestroy, syncVars
<1>13. ASSUME NEW c \in Cvs, CvCreate(c) \/ CvDestroy(c) PROVE FALSE
  BY <1>11, <1>13 DEF CvCreate, CvDestroy, syncVars
<1>14. ASSUME NEW c \in Cvs, NEW l \in Locks, NEW place, NEW acquirePlace \in Acquiring,
              CvEnter(c, l, place, acquirePlace)
       PROVE  resume'[running'].lock \in Locks /\ acquirer'[resume'[running'].lock] = running'
  <2>1. running' = running /\ acquirer' = acquirer
    BY <1>14 DEF CvEnter, vars
  <2>2. CASE acquirer[l] = running
    <3>1. resume'[running].lock = l
      BY <1>3, <1>14, <2>2 DEF CvEnter, At
    <3> QED BY <2>1, <2>2, <3>1
  <2>3. CASE acquirer[l] # running
    <3>1. resume'[running].at = acquirePlace
      BY <1>3, <1>14, <2>3 DEF CvEnter, At
    <3> QED BY <1>1, <1>6, <2>1, <3>1
  <2> QED BY <2>2, <2>3
<1>15. ASSUME NEW c \in Cvs, NEW l \in Locks, CvWaitReleases(c, l) PROVE FALSE
  <2>1. running' = running
    BY <1>1, <1>15, QueueShrinks DEF CvWaitReleases, Release, ReleaseWakes
  <2> QED BY <1>1, <1>3, <1>6, <1>15, <2>1 DEF CvWaitReleases, At
<1>16. ASSUME NEW c \in Cvs, NEW l \in Locks, CvWaitSleeps(c, l) PROVE FALSE
  <2>1. CASE ThreadSleep(c)
    BY <1>3, <1>5, <1>16, <2>1 DEF CvWaitSleeps
  <2>2. CASE ThreadSleepFails(c)
    <3>1. running' = running
      BY <1>1, <2>2, QueueShrinks
    <3> QED BY <1>1, <1>3, <1>6, <1>16, <3>1 DEF CvWaitSleeps, At
  <2> QED BY <1>16, <2>1, <2>2 DEF CvWaitSleeps
<1>17. ASSUME NEW c \in Cvs, NEW l \in Locks, CvWakes(c, l) PROVE FALSE
  <2>1. WakesAll("signal") \in 0..1 /\ WakesAll("broadcast") \in 0..1
    BY DEF WakesAll
  <2>2. running' = running
    BY <1>1, <1>17, <2>1, QueueShrinks DEF CvWakes
  <2> QED BY <1>1, <1>3, <1>6, <1>17, <2>2 DEF CvWakes
<1>18. ASSUME NEW q, SyncAborts(q) \/ UseAfterFree PROVE FALSE
  BY <1>18 DEF SyncAborts, UseAfterFree, Die
<1>19. CASE UNCHANGED allVars
  <2>1. UNCHANGED <<process, running, resume, acquirer>>
    BY <1>19 DEF allVars, vars, syncVars
  <2> QED BY <2>1 DEF HoldsLock, Use
<1>20. {"acquire_release", "acquire_signal", "acquire_broadcast"} \subseteq Acquiring
  BY DEF Acquiring
<1> QED
  BY <1>1, <1>4, <1>7, <1>8, <1>9, <1>10, <1>12, <1>13, <1>14, <1>15, <1>16, <1>17, <1>18,
     <1>19, <1>20
     DEF SyncNext, Terminated, CvWait, CvSignal, CvBroadcast

(* The Tids that become free are those of the exited threads.              *)
LEMMA NullStep ==
  ASSUME IInv, process' = "running", NEW t \in Tid, threadState'[t] = "NULL",
         ThreadCalls \/ \E q \in ClientQueues : QueueCalls(q)
  PROVE  threadState[t] = "NULL" \/ t \in exitedQueue \ exitedQueue'
<1>1. /\ threadState \in [Tid -> States] /\ running \in Tid
      /\ readyQueue \in Seq(Tid)
  BY DEF IInv, TypeOK
<1>2. /\ Reaped \in [Tid -> States]
      /\ \A u \in Tid : Reaped[u] = "NULL" => threadState[u] = "NULL" \/ u \in exitedQueue
  BY <1>1 DEF Reaped, States
<1>3. CASE UNCHANGED threadState
  BY <1>3
<1>4. CASE threadState' = Reaped /\ ReapExited
  BY <1>2, <1>4 DEF ReapExited
<1>5. CASE ThreadCreate
  <2>1. ReapExited /\ \E new : threadState' = [Reaped EXCEPT ![new] = "READY"]
    BY <1>5 DEF ThreadCreate
  <2> QED BY <1>2, <2>1 DEF ReapExited
<1>6. ASSUME NEW next, YieldTo(next)
      PROVE  t \in exitedQueue \ exitedQueue' \/ threadState[t] = "NULL"
  <2>1. /\ ReapExited
        /\ threadState' = [[Reaped EXCEPT ![running] = "READY"] EXCEPT ![next] = "RUNNING"]
    BY <1>6 DEF YieldTo, SwitchTo
  <2> QED BY <1>2, <2>1 DEF ReapExited
<1>7. ASSUME NEW u, NEW v, NEW x \in {"EXITED", "WAITING"},
             \/ threadState' = [threadState EXCEPT ![u] = x]
             \/ threadState' = [[threadState EXCEPT ![u] = x] EXCEPT ![v] = "RUNNING"]
      PROVE  threadState[t] = "NULL"
  BY <1>1, <1>7
<1>8. CASE ThreadExit
  <2>1. ThreadExitSwitch
    BY <1>8 DEF ThreadExit, ThreadExitLast, ThreadExitCrash, Die
  <2> QED BY <1>7, <2>1 DEF ThreadExitSwitch, SwitchTo
<1>9. ASSUME NEW u, ThreadKill(u) PROVE threadState[t] = "NULL"
  BY <1>7, <1>9 DEF ThreadKill
<1>10. ASSUME NEW q, SleepOn(q) PROVE threadState[t] = "NULL"
  BY <1>7, <1>10 DEF SleepOn, SwitchTo
<1>11. ASSUME NEW want, ThreadYield(want)
       PROVE  t \in exitedQueue \ exitedQueue' \/ threadState[t] = "NULL"
  BY <1>4, <1>6, <1>11 DEF ThreadYield, YieldReturns, Die
<1>12. CASE ThreadCalls
  BY <1>3, <1>4, <1>5, <1>8, <1>9, <1>10, <1>11, <1>12
     DEF ThreadCalls, ThreadCreateFails, ThreadCreateAborts, InterruptHandler,
         InterruptWhileExiting, ProcessExit, ThreadKillCrash, ThreadKillFails, ThreadWait,
         ThreadWaitReturns, Return, Die
<1>13. ASSUME NEW q \in ClientQueues, QueueCalls(q) PROVE threadState[t] = "NULL"
  BY <1>3, <1>10, <1>13
     DEF QueueCalls, ThreadSleep, ThreadSleepFails, ThreadWakeup, ThreadWakeupNone,
         WaitQueueCreate, WaitQueueCreateAborts, WaitQueueDestroyCrash, WaitQueueDestroy, Return, Die
<1> QED BY <1>12, <1>13

(* What the calls of locks and condition variables do with a queue frees   *)
(* no Tid.                                                                 *)
LEMMA QueueCallsFreeNothing ==
  ASSUME IInv, NEW q, QueueCalls(q), NEW t \in Tid, threadState'[t] = "NULL"
  PROVE  threadState[t] = "NULL"
<1>1. threadState \in [Tid -> States]
  BY DEF IInv, TypeOK
<1>2. ASSUME SleepOn(q) PROVE threadState[t] = "NULL"
  BY <1>1, <1>2 DEF SleepOn, SwitchTo
<1> QED
  BY <1>2
     DEF QueueCalls, ThreadSleep, ThreadSleepFails, ThreadWakeup, ThreadWakeupNone,
         WaitQueueCreate, WaitQueueCreateAborts, WaitQueueDestroyCrash, WaitQueueDestroy, Return, Die

(* A step of locks and condition variables calls the thread library for a  *)
(* queue of theirs, and moves no thread but the running one in its call.   *)
LEMMA OwnSteps ==
  ASSUME SyncInv, [SyncNext]_allVars, ~ThreadCall, process' = "running"
  PROVE  /\ UNCHANGED resume \/ \E position : Goto(position)
         /\ UNCHANGED vars \/ \E q \in Locks \cup Cvs : QueueCalls(q)
<1>1. WakesAll("signal") = 0 /\ WakesAll("broadcast") = 1
  BY DEF WakesAll
<1>2. ASSUME NEW q, SyncAborts(q) \/ UseAfterFree PROVE FALSE
  BY <1>2 DEF SyncAborts, UseAfterFree, Die
<1>3. ~Terminated
  <2>1. process = "running"
    BY RunningBefore
  <2> QED BY <2>1 DEF Terminated
<1>4. CASE UNCHANGED allVars
  BY <1>4 DEF allVars, vars, syncVars
<1>5. ASSUME NEW l \in Locks,
             \/ LockAcquire(l) \/ AcquireTakes(l) \/ AcquireSleeps(l) \/ AcquireSpins(l)
             \/ LockRelease(l) \/ LockCreate(l) \/ LockDestroy(l)
      PROVE  /\ UNCHANGED resume \/ \E position : Goto(position)
             /\ UNCHANGED vars \/ QueueCalls(l)
  BY <1>5
     DEF LockAcquire, AcquireTakes, AcquireSleeps, AcquireSpins, LockRelease, LockCreate,
         LockDestroy, Release, ReleaseWakes, syncVars, QueueCalls
<1>6. ASSUME NEW c \in Cvs, NEW l \in Locks, CvWait(c, l) \/ CvSignal(c, l) \/ CvBroadcast(c, l)
      PROVE  (\E position : Goto(position)) /\ UNCHANGED vars
  BY <1>6 DEF CvWait, CvSignal, CvBroadcast, CvEnter
<1>7. ASSUME NEW c \in Cvs, NEW l \in Locks,
             CvWaitReleases(c, l) \/ CvWaitSleeps(c, l) \/ CvWakes(c, l)
      PROVE  (\E position : Goto(position)) /\ (QueueCalls(c) \/ QueueCalls(l))
  <2>1. \E position : Goto(position)
    BY <1>7 DEF CvWaitReleases, CvWaitSleeps, CvWakes
  <2>2. QueueCalls(c) \/ QueueCalls(l)
    BY <1>1, <1>7 DEF CvWaitReleases, CvWaitSleeps, CvWakes, Release, ReleaseWakes, QueueCalls
  <2> QED BY <2>1, <2>2
<1>8. ASSUME NEW c \in Cvs, CvCreate(c) \/ CvDestroy(c)
      PROVE  UNCHANGED resume /\ QueueCalls(c)
  BY <1>8 DEF CvCreate, CvDestroy, syncVars, QueueCalls
<1> QED BY <1>2, <1>3, <1>4, <1>5, <1>6, <1>7, <1>8 DEF SyncNext

(* A new thread is in no call.                                             *)
LEMMA NewAtClientStep ==
  ASSUME SyncInv, NewAtClient, [SyncNext]_allVars
  PROVE  NewAtClient'
<1> SUFFICES ASSUME process' = "running", NEW t \in Tid, threadState'[t] = "NULL"
             PROVE  resume'[t] = Client
  BY DEF NewAtClient
<1>1. /\ IInv /\ SyncTypeOK
      /\ process = "running"
      /\ resume \in [Tid -> Positions]
      /\ running \in Tid /\ threadState[running] = "RUNNING"
      /\ threadState[t] = "NULL" => resume[t] = Client
  BY RunningBefore DEF SyncInv, IInv, SyncTypeOK, TypeOK, StateMatchesQueue, NewAtClient
<1>2. CASE ThreadCall
  <2>1. threadState[t] = "NULL" \/ t \in exitedQueue \ exitedQueue'
    BY <1>1, <1>2, NullStep DEF ThreadCall
  <2>2. resume'[t] = IF t \in exitedQueue \ exitedQueue' THEN Client ELSE resume[t]
    BY <1>2 DEF ThreadCall, StacksFreed
  <2> QED BY <1>1, <2>1, <2>2
<1>3. CASE ~ThreadCall
  <2>1. threadState[t] = "NULL"
    <3>1. CASE UNCHANGED vars
      BY <3>1 DEF vars
    <3>2. CASE \E q \in Locks \cup Cvs : QueueCalls(q)
      BY <1>1, <3>2, QueueCallsFreeNothing
    <3> QED BY <1>3, <3>1, <3>2, OwnSteps
  <2>2. resume'[t] = resume[t]
    <3>1. t # running
      BY <1>1, <2>1
    <3> QED BY <1>1, <1>3, <3>1, OwnSteps DEF Goto
  <2> QED BY <1>1, <2>1, <2>2
<1> QED BY <1>2, <1>3

(* The invariant the mapping needs. *)
LEMMA NextMonitorInv == SyncInv /\ MonitorInv /\ [SyncNext]_allVars => MonitorInv'
BY HoldsLockStep, FreeLocksStep, NewAtClientStep DEF MonitorInv

(* thread_init. *)
LEMMA InitMonitorInv == SyncInit => MonitorInv
<1> SUFFICES ASSUME SyncInit PROVE MonitorInv
  OBVIOUS
<1>1. \A t \in Tid : resume[t] = Client
  BY DEF SyncInit
<1>2. running \in Tid /\ Client.at = "client"
  BY MaxThreadsAssumption DEF SyncInit, Init, Tid, Client, At
<1>3. HoldsLock /\ NewAtClient
  BY <1>1, <1>2 DEF HoldsLock, NewAtClient
<1>4. FreeLocks
  BY DEF SyncInit, FreeLocks
<1> QED BY <1>3, <1>4 DEF MonitorInv

-----------------------------------------------------------------------------
(* The variables of Monitor, as ThreadSync maps them. *)
WantsOf(position) ==
  IF position.at \in Acquiring \cup {"sleep"} THEN position.lock ELSE NULL

(* Where a thread stands decides what it wants. *)
LEMMA WantsKept ==
  ASSUME SyncTypeOK
  PROVE  /\ \A t \in Tid : Wants[t] = WantsOf(resume[t])
         /\ Wants = [t \in Tid |-> Wants[t]]
         /\ UNCHANGED resume => Wants' = Wants
         /\ \A position : Goto(position) =>
              Wants' = [Wants EXCEPT ![running] = WantsOf(position)]
<1>1. resume \in [Tid -> Positions] /\ running \in Tid
  BY DEF SyncTypeOK, TypeOK
<1>2. /\ Wants = [t \in Tid |-> WantsOf(resume[t])]
      /\ Wants' = [t \in Tid |-> WantsOf(resume'[t])]
  BY DEF Wants, WantsOf
<1>3. ASSUME NEW position, Goto(position)
      PROVE  Wants' = [Wants EXCEPT ![running] = WantsOf(position)]
  <2>1. \A t \in Tid : resume'[t] = IF t = running THEN position ELSE resume[t]
    BY <1>1, <1>3 DEF Goto
  <2> HIDE DEF WantsOf
  <2> QED BY <1>1, <1>2, <2>1
<1> HIDE DEF WantsOf
<1> QED BY <1>2, <1>3

(* While nobody is between the two halves of a cv_wait, those wait that    *)
(* sleep.                                                                  *)
LEMMA WaitingKept ==
  /\ resume[running].at # "sleep" => Waiting = [c \in Cvs |-> sleepers[c]]
  /\ resume'[running'].at # "sleep" => Waiting' = [c \in Cvs |-> sleepers'[c]]
BY DEF Waiting

(* The running thread waits on no condition variable, but at the end of    *)
(* its cv_wait.                                                            *)
LEMMA RunningGoes ==
  ASSUME SyncInv, process = "running", resume[running].at # "sleep"
  PROVE  /\ ~M!Waits(running)
         /\ resume[running].at \notin Acquiring => M!Goes(running)
<1>1. /\ \A c \in Cvs : c \in WaitQueues /\ sleepers[c] \in Seq(Tid)
      /\ \A c \in Cvs : running \notin Range(sleepers[c])
      /\ running \in Tid
  BY SyncAssumption DEF SyncInv, IInv, TypeOK, OneQueuePerThread, WaitQueues
<1>2. \A c \in Cvs : Waiting[c] = sleepers[c]
  BY WaitingKept
<1>3. ~M!Waits(running)
  BY <1>1, <1>2, RangeAt DEF M!Waits
<1>4. resume[running].at \notin Acquiring => Wants[running] = NULL
  BY <1>1 DEF Wants
<1> QED BY <1>3, <1>4 DEF M!Goes

(* The wait queues of locks and condition variables are not those of       *)
(* threads.                                                                *)
LEMMA AliveKept ==
  ASSUME IInv, NEW q \in Locks \cup Cvs, QueueCalls(q)
  PROVE  (waitQueues \cap Tid)' = waitQueues \cap Tid
<1>1. q \notin Tid
  BY SyncAssumption, ClientQueuesAssumption
<1>2. waitQueues' \in {waitQueues, waitQueues \cup {q}, waitQueues \ {q}}
  BY DEF QueueCalls, ThreadSleep, ThreadSleepFails, SleepOn, ThreadWakeup,
         ThreadWakeupNone, WaitQueueCreate, WaitQueueCreateAborts, WaitQueueDestroyCrash,
         WaitQueueDestroy, Return, Die
<1>3. Tid' = Tid
  BY DEF Tid
<1> QED BY <1>1, <1>2, <1>3

(* A call on the queue q, or none, that does not stand in the way of the   *)
(* other queues: where threads wait on the others is the same.             *)
LEMMA OthersKeepWaiting ==
  ASSUME IInv, NEW q \in Locks \cup Cvs, QueueCalls(q), NEW c \in Cvs \ {q}
  PROVE  sleepers'[c] = sleepers[c]
<1>1. q \in ClientQueues /\ c \in ClientQueues \ {q}
  BY SyncAssumption
<1> QED BY <1>1, QueueCallsQueues

(* A thread that begins has a Tid that was free, or that an exited thread  *)
(* had.                                                                    *)
LEMMA NewThreads ==
  ASSUME IInv, ThreadCall, NEW t \in Tid, t \in waitQueues', t \notin waitQueues
  PROVE  process = "running" /\ Reaped[t] = "NULL" /\ exitedQueue' = {}
<1>1. t \notin ClientQueues
  BY ClientQueuesAssumption
<1>2. ASSUME NEW q \in ClientQueues, QueueCalls(q) PROVE FALSE
  <2>1. waitQueues' \in {waitQueues, waitQueues \cup {q}, waitQueues \ {q}}
    BY <1>2
       DEF QueueCalls, ThreadSleep, ThreadSleepFails, SleepOn, ThreadWakeup,
           ThreadWakeupNone, WaitQueueCreate, WaitQueueCreateAborts, WaitQueueDestroyCrash,
           WaitQueueDestroy, Return, Die
  <2> QED BY <1>1, <1>2, <2>1
<1>3. ThreadCreate
  BY <1>2
     DEF ThreadCall, ThreadCalls, ThreadCreateFails, ThreadCreateAborts, ThreadYield,
         YieldReturns, YieldTo, InterruptHandler, ThreadExit, ThreadExitSwitch,
         ThreadExitLast, ThreadExitCrash, InterruptWhileExiting, ProcessExit, ThreadKill,
         ThreadKillCrash, ThreadKillFails, ThreadWait, ThreadWaitReturns, SleepOn, Return,
         Die, DestroyJoinQueue
<1>4. t = LowestFree(Reaped) /\ exitedQueue' = {} /\ process = "running"
  BY <1>3 DEF ThreadCreate, ReapExited
<1>5. Reaped \in [Tid -> States]
  BY DEF Reaped, IInv, TypeOK, States
<1>6. Reaped[LowestFree(Reaped)] = "NULL"
  BY <1>3, <1>5, LowestFreeIsFree DEF ThreadCreate
<1> QED BY <1>4, <1>6

-----------------------------------------------------------------------------
(* The steps.  A call of the thread library itself: threads are created    *)
(* and end.                                                                *)
LEMMA ThreadCallTurnover ==
  ASSUME SyncInv, MonitorInv, ThreadCall
  PROVE  M!Turnover
<1>1. /\ IInv /\ SyncTypeOK
      /\ resume \in [Tid -> Positions]
      /\ running \in Tid /\ running' \in Tid
      /\ Client.at = "client" /\ "client" \notin Acquiring \cup {"sleep"}
  BY SyncIInv DEF SyncInv, SyncTypeOK, IInv, TypeOK, Client, At, Acquiring, SyncNext
<1>2. /\ \A t \in Tid :
           resume'[t] = IF t \in exitedQueue \ exitedQueue' THEN Client ELSE resume[t]
      /\ acquirer' = acquirer
  BY DEF ThreadCall, StacksFreed
<1>3. CASE process = "running"
  <2> DEFINE gone == exitedQueue \ exitedQueue'
  <2>1. resume[running] = Client
    BY <1>3 DEF ThreadCall, InterruptsOn
  <2>2. resume'[running'].at # "sleep"
    <3>1. resume[running'].at # "sleep"
      BY <1>1, <1>3, <2>1, OthersSuspended
    <3> QED BY <1>1, <1>2, <3>1
  <2>3. \A c \in Cvs : sleepers'[c] = sleepers[c]
    BY <1>1, ThreadCallQueues
  <2>4. Waiting' = Waiting
    BY <1>1, <2>1, <2>2, <2>3, WaitingKept
  <2>5. gone \in SUBSET (Tid \ (waitQueues \cap Tid))
    BY <1>1, <1>3 DEF IInv, TypeOK, StateMatchesQueue
  <2>6. Wants' = [t \in Tid |-> IF t \in gone THEN NULL ELSE Wants[t]]
    <3>1. \A t \in Tid : resume'[t] = IF t \in gone THEN Client ELSE resume[t]
      BY <1>2
    <3> HIDE DEF gone
    <3>2. Wants' = [t \in Tid |-> WantsOf(resume'[t])]
      BY DEF Wants, WantsOf
    <3>3. \A t \in Tid : Wants[t] = WantsOf(resume[t])
      BY <1>1, WantsKept
    <3>4. WantsOf(Client) = NULL
      BY <1>1 DEF WantsOf
    <3>5. \A t \in Tid : WantsOf(resume'[t]) = IF t \in gone THEN NULL ELSE Wants[t]
      BY <3>1, <3>3, <3>4
    <3> QED BY <3>2, <3>5
  <2>7. ASSUME NEW t \in waitQueues' \cap Tid, t \notin waitQueues \cap Tid
        PROVE  Wants'[t] = NULL /\ ~M!Waits(t)
    <3>1. t \in Tid /\ Reaped[t] = "NULL" /\ exitedQueue' = {}
      BY <1>1, <2>7, NewThreads
    <3>2. threadState[t] = "NULL" \/ t \in exitedQueue
      BY <3>1 DEF Reaped
    <3>3. resume[t] = Client \/ t \in gone
      BY <1>3, <3>1, <3>2 DEF MonitorInv, NewAtClient
    <3>4. Wants'[t] = NULL
      <4>1. resume[t] = Client => Wants[t] = NULL
        BY <1>1, <3>1 DEF Wants
      <4> HIDE DEF gone
      <4> QED BY <2>6, <3>1, <3>3, <4>1
    <3>5. \A c \in Cvs : c \in WaitQueues /\ sleepers[c] \in Seq(Tid)
      BY <1>1, SyncAssumption DEF IInv, TypeOK, WaitQueues
    <3>6. \A c \in Cvs : t \notin Range(sleepers[c])
      BY <1>1, <1>3, <3>1, <3>2, <3>5 DEF IInv, OneQueuePerThread
    <3>7. \A c \in Cvs : Waiting[c] = sleepers[c]
      BY <1>1, <2>1, WaitingKept
    <3>8. ~M!Waits(t)
      BY <3>5, <3>6, <3>7, RangeAt DEF M!Waits
    <3> QED BY <3>4, <3>8
  <2>8. Tid' = Tid
    BY DEF Tid
  <2> HIDE DEF gone
  <2>9. (waitQueues \cap Tid)' = waitQueues' \cap Tid
    BY <2>8
  <2> QED BY <1>2, <2>4, <2>5, <2>6, <2>7, <2>9 DEF M!Turnover
<1>4. CASE process # "running"
  <2>1. UNCHANGED <<running, waitQueues, sleepers, exitedQueue>>
    BY <1>4, EndedKeepsQueues DEF ThreadCall
  <2>2. resume' = resume
    <3>1. \A t \in Tid : resume'[t] = resume[t]
      BY <1>2, <2>1
    <3>2. resume' = [t \in Tid |-> resume'[t]]
      BY DEF ThreadCall, StacksFreed
    <3> QED BY <1>1, <3>1, <3>2
  <2>3. Wants' = Wants /\ Waiting' = Waiting /\ (waitQueues \cap Tid)' = waitQueues \cap Tid
    BY <2>1, <2>2 DEF Wants, Waiting, Tid
  <2>4. Wants = [t \in Tid |-> IF t \in {} THEN NULL ELSE Wants[t]]
    BY <1>1, WantsKept
  <2>5. \E gone \in SUBSET (Tid \ (waitQueues \cap Tid)) :
          Wants' = [t \in Tid |-> IF t \in gone THEN NULL ELSE Wants[t]]
    <3>1. {} \in SUBSET (Tid \ (waitQueues \cap Tid))
      OBVIOUS
    <3> QED BY <2>3, <2>4, <3>1
  <2>6. (waitQueues \cap Tid)' \in SUBSET Tid
    BY <2>3
  <2>7. \A t \in (waitQueues \cap Tid)' \ (waitQueues \cap Tid) : Wants'[t] = NULL /\ ~M!Waits(t)
    BY <2>3
  <2> QED BY <1>2, <2>3, <2>5, <2>6, <2>7 DEF M!Turnover
<1> QED BY <1>3, <1>4

(* A step that changes none of what is mapped. *)
LEMMA MonitorStutters ==
  ASSUME SyncTypeOK, acquirer' = acquirer,
         UNCHANGED vars,
         \/ UNCHANGED resume
         \/ \E position : /\ Goto(position)
                          /\ WantsOf(position) = WantsOf(resume[running])
                          /\ position.at # "sleep" /\ resume[running].at # "sleep"
  PROVE  UNCHANGED M!monitorVars
<1>1. /\ UNCHANGED <<running, waitQueues, sleepers>>
      /\ running \in Tid /\ resume \in [Tid -> Positions]
  BY DEF vars, SyncTypeOK, TypeOK
<1>2. (waitQueues \cap Tid)' = waitQueues \cap Tid
  BY <1>1 DEF Tid
<1>3. CASE UNCHANGED resume
  <2>1. Wants' = Wants /\ Waiting' = Waiting
    BY <1>1, <1>3 DEF Wants, Waiting, Tid
  <2> QED BY <1>2, <2>1 DEF M!monitorVars
<1>4. ASSUME NEW position, Goto(position), WantsOf(position) = WantsOf(resume[running]),
             position.at # "sleep", resume[running].at # "sleep"
      PROVE  UNCHANGED M!monitorVars
  <2>1. resume'[running'].at # "sleep"
    BY <1>1, <1>4 DEF Goto
  <2>2. Waiting' = Waiting
    BY <1>1, <1>4, <2>1, WaitingKept
  <2>3. Wants' = Wants
    <3>1. /\ Wants' = [Wants EXCEPT ![running] = Wants[running]]
          /\ Wants = [t \in Tid |-> Wants[t]]
      BY <1>1, <1>4, WantsKept
    <3> QED BY <3>1
  <2> QED BY <1>2, <2>2, <2>3 DEF M!monitorVars
<1> QED BY <1>3, <1>4

(* What is asked of a queue by a thread that stays, and whose place is the *)
(* same to the monitor.                                                    *)
LEMMA QueueStutters ==
  ASSUME SyncInv, NEW q \in Locks \cup Cvs, QueueCalls(q), UNCHANGED resume,
         acquirer' = acquirer,
         resume[running].at # "sleep", resume[running'].at # "sleep",
         \A c \in Cvs : sleepers'[c] = sleepers[c]
  PROVE  UNCHANGED M!monitorVars
<1>1. Waiting' = Waiting
  BY WaitingKept
<1>2. Wants' = Wants
  BY WantsKept DEF SyncInv
<1>3. (waitQueues \cap Tid)' = waitQueues \cap Tid
  BY AliveKept DEF SyncInv
<1> QED BY <1>1, <1>2, <1>3 DEF M!monitorVars

(* A lock is asked for, taken and released. *)
LEMMA LockMonitorSteps ==
  ASSUME SyncInv, MonitorInv, NEW l \in Locks
  PROVE  /\ LockAcquire(l) => M!Ask(running, l)
         /\ AcquireTakes(l) => M!Acquire(running, l)
         /\ LockRelease(l) => M!Release(running, l)
         /\ AcquireSleeps(l) \/ AcquireSpins(l) \/ LockCreate(l) \/ LockDestroy(l) =>
              UNCHANGED M!monitorVars
<1>1. /\ IInv /\ SyncTypeOK
      /\ resume \in [Tid -> Positions]
      /\ status \in [Locks -> {0, 1}]
      /\ acquirer \in [Locks -> Tid \cup {-1}]
      /\ running \in Tid
      /\ Client.at = "client" /\ "client" \notin Acquiring
      /\ "sleep" \notin Acquiring
  BY DEF SyncInv, SyncTypeOK, TypeOK, Client, At, Acquiring
<1>2. Tid' = Tid
  BY DEF Tid
<1>3. WantsOf(Client) = NULL
  BY <1>1 DEF WantsOf
<1>4. status[l] = 0 <=> acquirer[l] = -1
  BY DEF MonitorInv, FreeLocks
<1>5. ASSUME LockAcquire(l) PROVE M!Ask(running, l)
  <2>1. /\ process = "running" /\ resume[running] = Client
        /\ Goto(At("acquire", l, NULL))
        /\ UNCHANGED <<waitQueues, running, sleepers, acquirer>>
    BY <1>5 DEF LockAcquire, InterruptsOn, vars
  <2>2. WantsOf(At("acquire", l, NULL)) = l /\ At("acquire", l, NULL).at = "acquire"
    BY DEF WantsOf, At, Acquiring
  <2>3. Wants' = [Wants EXCEPT ![running] = l]
    BY <1>1, <2>1, <2>2, WantsKept
  <2>4. Waiting' = Waiting
    BY <1>1, <2>1, <2>2, WaitingKept DEF Goto
  <2>5. M!Goes(running)
    BY <1>1, <2>1, RunningGoes
  <2>6. (waitQueues \cap Tid)' = waitQueues \cap Tid
    BY <1>2, <2>1
  <2> QED BY <2>1, <2>3, <2>4, <2>5, <2>6 DEF M!Ask
<1>6. ASSUME AcquireTakes(l) PROVE M!Acquire(running, l)
  <2>1. /\ process = "running" /\ resume[running].at \in Acquiring
        /\ resume[running].lock = l
        /\ acquirer[l] = -1 /\ acquirer' = [acquirer EXCEPT ![l] = running]
        /\ Goto(Acquired)
        /\ UNCHANGED <<waitQueues, running, sleepers>>
    BY <1>4, <1>6 DEF AcquireTakes, InAcquire, vars
  <2>2. Acquired.at \notin Acquiring \cup {"sleep"}
    BY <1>1, <1>6, AcquiredType DEF AcquireTakes, Acquiring
  <2>3. WantsOf(resume[running]) = l /\ WantsOf(Acquired) = NULL
    BY <2>1, <2>2 DEF WantsOf
  <2>4. Wants[running] = l /\ Wants' = [Wants EXCEPT ![running] = NULL]
    BY <1>1, <2>1, <2>3, WantsKept
  <2>5. Waiting' = Waiting
    BY <1>1, <2>1, <2>2, WaitingKept DEF Goto
  <2>6. ~M!Waits(running)
    BY <1>1, <2>1, RunningGoes
  <2>7. (waitQueues \cap Tid)' = waitQueues \cap Tid
    BY <1>2, <2>1
  <2> QED BY <2>1, <2>4, <2>5, <2>6, <2>7 DEF M!Acquire
<1>7. ASSUME LockRelease(l) PROVE M!Release(running, l)
  <2>1. /\ process = "running" /\ resume[running] = Client
        /\ acquirer[l] = running /\ acquirer' = [acquirer EXCEPT ![l] = -1]
        /\ ThreadWakeup(l, 1) \/ ThreadWakeupNone(l, 1)
        /\ UNCHANGED resume
    BY <1>7 DEF LockRelease, InterruptsOn, Release, MayRelease, ReleaseWakes
  <2>2. running' = running /\ QueueCalls(l)
    BY <2>1 DEF ThreadWakeup, ThreadWakeupNone, Return, QueueCalls
  <2>3. (waitQueues \cap Tid)' = waitQueues \cap Tid /\ \A c \in Cvs : sleepers'[c] = sleepers[c]
    BY <1>1, <2>2, SyncAssumption, AliveKept, OthersKeepWaiting
  <2>4. Wants' = Wants /\ Waiting' = Waiting
    BY <1>1, <2>1, <2>2, <2>3, WantsKept, WaitingKept
  <2>5. M!Goes(running)
    BY <1>1, <2>1, RunningGoes
  <2> QED BY <2>1, <2>3, <2>4, <2>5 DEF M!Release
<1>8. ASSUME QueueCalls(l), UNCHANGED resume, acquirer' = acquirer,
             resume[running].at # "sleep", resume[running'].at # "sleep"
      PROVE  UNCHANGED M!monitorVars
  BY <1>1, <1>8, SyncAssumption, OthersKeepWaiting, QueueStutters
<1>9. ASSUME AcquireSleeps(l) \/ AcquireSpins(l) PROVE UNCHANGED M!monitorVars
  <2>1. /\ process = "running" /\ resume[running].at \in Acquiring
        /\ ThreadSleep(l) \/ ThreadSleepFails(l)
        /\ UNCHANGED <<resume, acquirer>>
    BY <1>9 DEF AcquireSleeps, AcquireSpins, InAcquire, syncVars
  <2>2. resume[running].at # "sleep" /\ running' \in Tid
    BY <1>1, <2>1, SleepSwitches DEF ThreadSleepFails, Return
  <2>3. resume[running'].at # "sleep"
    BY <2>1, <2>2, OthersSuspended
  <2> QED BY <1>8, <2>1, <2>2, <2>3 DEF QueueCalls
<1>10. ASSUME LockCreate(l) \/ LockDestroy(l) PROVE UNCHANGED M!monitorVars
  <2>1. /\ process = "running" /\ resume[running] = Client
        /\ WaitQueueCreate(l) \/ WaitQueueDestroy(l)
        /\ running' = running
        /\ UNCHANGED resume
    BY <1>10 DEF LockCreate, LockDestroy, InterruptsOn, WaitQueueCreate, WaitQueueDestroy, syncVars
  <2>2. acquirer' = acquirer
    <3>1. CASE LockCreate(l)
      <4>1. status[l] = 0
        BY <3>1 DEF LockCreate, WaitQueueCreate, SyncInv, NoLockTaken
      <4> QED BY <1>1, <1>4, <3>1, <4>1 DEF LockCreate
    <3>2. CASE LockDestroy(l)
      BY <3>2 DEF LockDestroy, syncVars
    <3> QED BY <1>10, <3>1, <3>2
  <2> QED BY <1>1, <1>8, <2>1, <2>2 DEF QueueCalls
<1> QED BY <1>5, <1>6, <1>7, <1>9, <1>10

(* Condition variables: cv_wait, step by step, and the wakeups.            *)
LEMMA CvMonitorSteps ==
  ASSUME SyncInv, MonitorInv, NEW l \in Locks, NEW c \in Cvs
  PROVE  /\ CvWait(c, l) \/ CvSignal(c, l) \/ CvBroadcast(c, l) =>
              M!Ask(running, l) \/ UNCHANGED M!monitorVars
         /\ CvWaitReleases(c, l) => M!Wait(running, c, l)
         /\ CvWaitSleeps(c, l) => M!WaitFails(c) \/ UNCHANGED M!monitorVars
         /\ CvWakes(c, l) => M!Signal(running, c, l) \/ UNCHANGED M!monitorVars
<1>1. /\ IInv /\ SyncTypeOK
      /\ resume \in [Tid -> Positions]
      /\ running \in Tid
      /\ Client.at = "client" /\ "client" \notin Acquiring
      /\ "sleep" \notin Acquiring
      /\ sleepers \in [WaitQueues -> Seq(Tid)] /\ c \in WaitQueues
  BY SyncAssumption
     DEF SyncInv, IInv, SyncTypeOK, TypeOK, WaitQueues, Client, At, Acquiring
<1>2. Tid' = Tid
  BY DEF Tid
<1>3. WantsOf(Client) = NULL
  BY <1>1 DEF WantsOf
<1>4. \A place, d, m : /\ At(place, m, d).at = place
                       /\ At(place, m, d).lock = m
                       /\ At(place, m, d).cv = d
  BY DEF At
<1>5. ASSUME NEW place \in {"release", "signal", "broadcast"}, NEW acquirePlace \in Acquiring,
             CvEnter(c, l, place, acquirePlace)
      PROVE  M!Ask(running, l) \/ UNCHANGED M!monitorVars
  <2>1. /\ process = "running" /\ resume[running] = Client
        /\ UNCHANGED vars /\ acquirer' = acquirer
        /\ UNCHANGED <<waitQueues, running, sleepers>>
    BY <1>5 DEF CvEnter, InterruptsOn, vars
  <2>2. CASE acquirer[l] = running
    <3>1. Goto(At(place, l, c))
      BY <1>5, <2>2 DEF CvEnter
    <3>2. WantsOf(At(place, l, c)) = NULL /\ At(place, l, c).at # "sleep"
      BY <1>4 DEF WantsOf, Acquiring
    <3> QED BY <1>1, <1>3, <2>1, <3>1, <3>2, MonitorStutters
  <2>3. CASE acquirer[l] # running
    <3>1. Goto(At(acquirePlace, l, c))
      BY <1>5, <2>3 DEF CvEnter
    <3>2. WantsOf(At(acquirePlace, l, c)) = l /\ At(acquirePlace, l, c).at # "sleep"
      BY <1>1, <1>4 DEF WantsOf
    <3>3. Wants' = [Wants EXCEPT ![running] = l]
      BY <1>1, <3>1, <3>2, WantsKept
    <3>4. Waiting' = Waiting
      BY <1>1, <2>1, <3>1, <3>2, WaitingKept DEF Goto
    <3>5. M!Goes(running)
      BY <1>1, <2>1, RunningGoes
    <3>6. (waitQueues \cap Tid)' = waitQueues \cap Tid
      BY <1>2, <2>1
    <3> QED BY <2>1, <3>3, <3>4, <3>5, <3>6 DEF M!Ask
  <2> QED BY <2>2, <2>3
<1>6. ASSUME CvWaitReleases(c, l) PROVE M!Wait(running, c, l)
  <2>1. /\ process = "running" /\ resume[running] = At("release", l, c)
        /\ acquirer[l] = running /\ acquirer' = [acquirer EXCEPT ![l] = -1]
        /\ ThreadWakeup(l, 1) \/ ThreadWakeupNone(l, 1)
        /\ Goto(At("sleep", l, c))
    BY <1>6 DEF CvWaitReleases, Standing, Release, MayRelease, ReleaseWakes
  <2>2. running' = running /\ QueueCalls(l)
    BY <2>1 DEF ThreadWakeup, ThreadWakeupNone, Return, QueueCalls
  <2>3. /\ (waitQueues \cap Tid)' = waitQueues \cap Tid
        /\ \A d \in Cvs : sleepers'[d] = sleepers[d]
    BY <1>1, <2>2, SyncAssumption, AliveKept, OthersKeepWaiting
  <2>4. WantsOf(At("sleep", l, c)) = l /\ resume[running].at = "release"
    BY <1>4, <2>1 DEF WantsOf
  <2>5. Wants' = [Wants EXCEPT ![running] = l]
    BY <1>1, <2>1, <2>4, WantsKept
  <2>6. Waiting = [d \in Cvs |-> sleepers[d]]
    BY <2>4, WaitingKept
  <2>7. resume'[running'] = At("sleep", l, c)
    BY <1>1, <2>1, <2>2 DEF Goto
  <2>8. Waiting' = [d \in Cvs |-> IF c = d THEN Append(sleepers[d], running) ELSE sleepers[d]]
    BY <1>4, <2>2, <2>3, <2>7 DEF Waiting
  <2>9. Waiting' = [Waiting EXCEPT ![c] = Append(Waiting[c], running)]
    BY <2>6, <2>8
  <2>10. M!Goes(running)
    BY <1>1, <2>1, <2>4, RunningGoes DEF Acquiring
  <2> QED BY <2>1, <2>3, <2>5, <2>9, <2>10 DEF M!Wait
<1>7. ASSUME CvWaitSleeps(c, l) PROVE M!WaitFails(c) \/ UNCHANGED M!monitorVars
  <2>1. /\ process = "running" /\ resume[running] = At("sleep", l, c)
        /\ ThreadSleep(c) \/ ThreadSleepFails(c)
        /\ Goto(At("acquire", l, NULL))
        /\ acquirer' = acquirer
    BY <1>7 DEF CvWaitSleeps, Standing
  <2>2. Waiting = [d \in Cvs |-> IF c = d THEN Append(sleepers[d], running) ELSE sleepers[d]]
    BY <1>4, <2>1 DEF Waiting
  <2>3. Wants' = Wants
    <3>1. WantsOf(At("acquire", l, NULL)) = l /\ WantsOf(At("sleep", l, c)) = l
      BY <1>4 DEF WantsOf, Acquiring
    <3>2. /\ Wants' = [Wants EXCEPT ![running] = Wants[running]]
          /\ Wants = [t \in Tid |-> Wants[t]]
      BY <1>1, <2>1, <3>1, WantsKept
    <3> QED BY <3>2
  <2>4. (waitQueues \cap Tid)' = waitQueues \cap Tid
    BY <1>1, <2>1, AliveKept DEF QueueCalls
  <2>5. CASE ThreadSleep(c)
    <3>1. running' \in Tid \ {running}
      BY <1>1, <2>5, SleepSwitches
    <3>2. resume'[running'].at # "sleep"
      BY <1>1, <2>1, <3>1, OthersSuspended DEF Goto
    <3>3. sleepers' = [sleepers EXCEPT ![c] = Append(sleepers[c], running)]
      BY <2>5 DEF ThreadSleep, SleepOn, QueuePush
    <3>4. Cvs \subseteq WaitQueues
      BY SyncAssumption DEF WaitQueues
    <3>5. Waiting' = Waiting
      BY <1>1, <2>2, <3>2, <3>3, <3>4, WaitingKept
    <3> QED BY <2>1, <2>3, <2>4, <3>5 DEF M!monitorVars
  <2>6. CASE ThreadSleepFails(c)
    <3>1. running' = running /\ sleepers' = sleepers
      BY <2>6 DEF ThreadSleepFails, Return
    <3>2. resume'[running'].at # "sleep"
      BY <1>1, <1>4, <2>1, <3>1 DEF Goto
    <3>3. Waiting' = [d \in Cvs |-> sleepers[d]]
      BY <3>1, <3>2, WaitingKept
    <3>4. /\ Append(sleepers[c], running) # <<>>
          /\ sleepers[c] = SubSeq(Append(sleepers[c], running), 1,
                                  Len(Append(sleepers[c], running)) - 1)
      <4> DEFINE s == sleepers[c]
      <4>1. s \in Seq(Tid) /\ running \in Tid
        BY <1>1
      <4> HIDE DEF s
      <4>2. /\ Append(s, running) \in Seq(Tid)
            /\ Len(Append(s, running)) = Len(s) + 1
            /\ \A k \in 1..Len(s) : Append(s, running)[k] = s[k]
        BY <4>1, AppendProperties
      <4>3. Append(s, running) # <<>>
        BY <4>1, <4>2, EmptySeq, LenProperties
      <4>4. s = SubSeq(Append(s, running), 1, Len(Append(s, running)) - 1)
        BY <4>1, <4>2
      <4> QED BY <4>3, <4>4 DEF s
    <3>5. Waiting[c] = Append(sleepers[c], running)
      BY <2>2
    <3>6. Waiting' = [Waiting EXCEPT ![c] = SubSeq(Waiting[c], 1, Len(Waiting[c]) - 1)]
      BY <2>2, <3>3, <3>4, <3>5
    <3> QED BY <2>1, <2>3, <2>4, <3>4, <3>5, <3>6 DEF M!WaitFails
  <2> QED BY <2>1, <2>5, <2>6
<1>8. ASSUME CvWakes(c, l) PROVE M!Signal(running, c, l) \/ UNCHANGED M!monitorVars
  <2>1. PICK place \in {"signal", "broadcast"} :
          /\ process = "running" /\ resume[running] = At(place, l, c)
          /\ c \in waitQueues
          /\ ThreadWakeup(c, WakesAll(place)) \/ ThreadWakeupNone(c, WakesAll(place))
          /\ Goto(Client)
          /\ acquirer' = acquirer
    BY <1>8 DEF CvWakes, Standing
  <2>2. WakesAll(place) \in {0, 1}
    BY DEF WakesAll
  <2>3. running' = running /\ QueueCalls(c)
    BY <2>1, <2>2 DEF ThreadWakeup, ThreadWakeupNone, Return, QueueCalls
  <2>4. resume[running].at = place /\ place # "sleep" /\ place \notin Acquiring
    BY <1>4, <2>1 DEF Acquiring
  <2>5. acquirer[l] = running
    BY <1>4, <2>1, <2>4 DEF MonitorInv, HoldsLock
  <2>6. M!Goes(running)
    BY <1>1, <2>1, <2>4, RunningGoes
  <2>7. Wants' = Wants
    <3>1. WantsOf(resume[running]) = NULL
      BY <2>4 DEF WantsOf
    <3>2. /\ Wants' = [Wants EXCEPT ![running] = Wants[running]]
          /\ Wants = [t \in Tid |-> Wants[t]]
      BY <1>1, <1>3, <2>1, <3>1, WantsKept
    <3> QED BY <3>2
  <2>8. (waitQueues \cap Tid)' = waitQueues \cap Tid
    BY <1>1, <2>3, AliveKept
  <2>9. /\ Waiting = [d \in Cvs |-> sleepers[d]]
        /\ Waiting' = [d \in Cvs |-> sleepers'[d]]
    <3>1. resume'[running'].at # "sleep"
      BY <1>1, <2>1, <2>3 DEF Goto
    <3> QED BY <2>4, <3>1, WaitingKept
  <2>10. CASE ThreadWakeup(c, WakesAll(place))
    <3>1. sleepers[c] # <<>>
      BY <2>10 DEF ThreadWakeup
    <3>2. \/ sleepers' = [sleepers EXCEPT ![c] = Tail(sleepers[c])]
          \/ sleepers' = [sleepers EXCEPT ![c] = <<>>]
      BY <2>10 DEF ThreadWakeup, WakeOne, WakeAll
    <3>3. Cvs \subseteq WaitQueues
      BY SyncAssumption DEF WaitQueues
    <3>4. \/ Waiting' = [Waiting EXCEPT ![c] = Tail(Waiting[c])]
          \/ Waiting' = [Waiting EXCEPT ![c] = <<>>]
      BY <1>1, <2>9, <3>2, <3>3
    <3>5. Waiting[c] # <<>>
      BY <2>9, <3>1
    <3> QED BY <2>1, <2>5, <2>6, <2>7, <2>8, <3>4, <3>5 DEF M!Signal
  <2>11. CASE ThreadWakeupNone(c, WakesAll(place))
    <3>1. sleepers' = sleepers
      BY <2>11 DEF ThreadWakeupNone, Return
    <3>2. Waiting' = Waiting
      BY <2>9, <3>1
    <3> QED BY <2>1, <2>7, <2>8, <3>2 DEF M!monitorVars
  <2> QED BY <2>1, <2>10, <2>11
<1>9. {"acquire_release", "acquire_signal", "acquire_broadcast"} \subseteq Acquiring
  BY DEF Acquiring
<1> QED BY <1>5, <1>6, <1>7, <1>8, <1>9 DEF CvWait, CvSignal, CvBroadcast

(* The monitor has all its condition variables from the beginning. *)
LEMMA CvMakeSteps ==
  ASSUME SyncInv, NEW c \in Cvs, CvCreate(c) \/ CvDestroy(c)
  PROVE  UNCHANGED M!monitorVars
<1>1. /\ IInv /\ Client.at = "client"
      /\ sleepers \in [WaitQueues -> Seq(Tid)] /\ c \in WaitQueues
  BY SyncAssumption DEF SyncInv, IInv, TypeOK, WaitQueues, Client, At
<1>2. /\ process = "running" /\ resume[running] = Client
      /\ WaitQueueCreate(c) \/ (WaitQueueDestroy(c) /\ sleepers[c] = <<>>)
      /\ running' = running
      /\ UNCHANGED <<resume, acquirer>>
  BY DEF CvCreate, CvDestroy, InterruptsOn, WaitQueueCreate, WaitQueueDestroy, syncVars
<1>3. sleepers'[c] = sleepers[c]
  BY <1>1, <1>2 DEF WaitQueueCreate, WaitQueueDestroy, WakeAll
<1>4. QueueCalls(c)
  BY <1>2 DEF QueueCalls
<1>5. \A d \in Cvs : sleepers'[d] = sleepers[d]
  BY <1>1, <1>3, <1>4, OthersKeepWaiting
<1> QED BY <1>1, <1>2, <1>4, <1>5, QueueStutters

(* Every step is one of the monitor, or is none of its business. *)
LEMMA MonitorStep ==
  ASSUME SyncInv, MonitorInv, [SyncNext]_allVars
  PROVE  [M!Next]_M!monitorVars
<1>1. running \in Tid /\ SyncTypeOK
  BY DEF SyncInv, SyncTypeOK, TypeOK
<1>2. ASSUME NEW l \in Locks,
             \/ M!Ask(running, l) \/ M!Acquire(running, l) \/ M!Release(running, l)
             \/ \E c \in Cvs : M!Wait(running, c, l) \/ M!Signal(running, c, l)
      PROVE  M!Next
  BY <1>1, <1>2 DEF M!Next
<1>3. CASE ThreadCall
  BY <1>3, ThreadCallTurnover DEF M!Next
<1>4. ASSUME NEW l \in Locks,
             \/ LockAcquire(l) \/ AcquireTakes(l) \/ AcquireSleeps(l) \/ AcquireSpins(l)
             \/ LockRelease(l) \/ LockCreate(l) \/ LockDestroy(l)
      PROVE  [M!Next]_M!monitorVars
  BY <1>2, <1>4, LockMonitorSteps
<1>5. ASSUME NEW l \in Locks, NEW c \in Cvs,
             \/ CvWait(c, l) \/ CvSignal(c, l) \/ CvBroadcast(c, l)
             \/ CvWaitReleases(c, l) \/ CvWaitSleeps(c, l) \/ CvWakes(c, l)
      PROVE  [M!Next]_M!monitorVars
  <2>1. M!WaitFails(c) => M!Next
    BY DEF M!Next
  <2> QED BY <1>2, <1>5, <2>1, CvMonitorSteps
<1>6. ASSUME NEW c \in Cvs, CvCreate(c) \/ CvDestroy(c) PROVE UNCHANGED M!monitorVars
  BY <1>6, CvMakeSteps
<1>7. ASSUME NEW how, Die(how), UNCHANGED syncVars PROVE UNCHANGED M!monitorVars
  <2>1. UNCHANGED <<running, waitQueues, sleepers, acquirer, resume>>
    BY <1>7 DEF Die, syncVars
  <2> QED BY <2>1 DEF M!monitorVars, Wants, Waiting, Tid
<1>8. ASSUME NEW q, SyncAborts(q) \/ UseAfterFree PROVE UNCHANGED M!monitorVars
  BY <1>7, <1>8 DEF SyncAborts, UseAfterFree
<1>9. CASE UNCHANGED allVars
  <2>1. UNCHANGED vars /\ UNCHANGED <<resume, acquirer>>
    BY <1>9 DEF allVars, syncVars
  <2> QED BY <1>1, <2>1, MonitorStutters
<1> QED BY <1>3, <1>4, <1>5, <1>6, <1>8, <1>9 DEF SyncNext, Terminated, allVars

(* Refinement: locks and condition variables are a monitor, for any number *)
(* of threads, locks and condition variables: cv_wait releases its lock    *)
(* and waits at once, a signal is given with the lock and reaches the      *)
(* thread that waits longest, and whoever waited returns with its lock.    *)
THEOREM SyncImplementsMonitor == SyncSpec => ImplementsMonitor
<1>1. SyncInit => M!Init
  <2> SUFFICES ASSUME SyncInit PROVE M!Init
    OBVIOUS
  <2>1. /\ \A t \in Tid : resume[t].at = "client"
        /\ running \in Tid
    BY MaxThreadsAssumption DEF SyncInit, Init, Tid, Client, At
  <2>2. Wants = [t \in Tid |-> NULL]
    BY <2>1 DEF Wants, Acquiring
  <2>3. Cvs \subseteq WaitQueues
    BY SyncAssumption DEF WaitQueues
  <2>4. Waiting = [c \in Cvs |-> <<>>]
    BY <2>1, <2>3, WaitingKept DEF SyncInit, Init
  <2> QED BY <2>2, <2>4 DEF M!Init, SyncInit
<1>2. SyncInv /\ MonitorInv /\ [SyncNext]_allVars => [M!Next]_M!monitorVars
  BY MonitorStep
<1>3. SyncSpec => []MonitorInv
  BY InitMonitorInv, NextMonitorInv, SyncInductive, PTL DEF SyncSpec
<1> QED BY <1>1, <1>2, <1>3, SyncInductive, PTL DEF SyncSpec, ImplementsMonitor, M!Spec
=============================================================================
