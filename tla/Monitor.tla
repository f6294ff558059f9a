------------------------------ MODULE Monitor ------------------------------
(***************************************************************************)
(* What the locks and condition variables of threads/thread.c amount to    *)
(* for the threads that use them, without the wait queue of a lock, the    *)
(* scheduler, or the steps inside of a call: a monitor in which a signal   *)
(* only lets the one that waits longest ask for its lock again.            *)
(***************************************************************************)
EXTENDS Integers, Sequences

CONSTANTS
  Thread,    \* the names of threads; an ended thread's is used again
  Locks,
  Cvs,
  Nobody,    \* no thread
  NoLock     \* no lock

VARIABLES
  alive,     \* the threads created and not ended
  owner,     \* the thread that has each lock
  wants,     \* the lock that each thread must get before it goes on
  waiting    \* the threads that wait on each condition variable, the first first

monitorVars == <<alive, owner, wants, waiting>>

Init ==
  /\ alive \in SUBSET Thread
  /\ owner = [l \in Locks |-> Nobody]
  /\ wants = [t \in Thread |-> NoLock]
  /\ waiting = [c \in Cvs |-> <<>>]

Waits(t) == \E c \in Cvs : \E k \in 1..Len(waiting[c]) : waiting[c][k] = t

(* The thread t is in its own code. *)
Goes(t) == wants[t] = NoLock /\ ~Waits(t)

Ask(t, l) ==
  /\ Goes(t)
  /\ wants' = [wants EXCEPT ![t] = l]
  /\ UNCHANGED <<alive, owner, waiting>>

Acquire(t, l) ==
  /\ wants[t] = l /\ ~Waits(t)
  /\ owner[l] = Nobody
  /\ owner' = [owner EXCEPT ![l] = t]
  /\ wants' = [wants EXCEPT ![t] = NoLock]
  /\ UNCHANGED <<alive, waiting>>

Release(t, l) ==
  /\ Goes(t)
  /\ owner[l] = t
  /\ owner' = [owner EXCEPT ![l] = Nobody]
  /\ UNCHANGED <<alive, wants, waiting>>

(* The lock is free and the thread waits, both at once. *)
Wait(t, c, l) ==
  /\ Goes(t)
  /\ owner[l] = t
  /\ owner' = [owner EXCEPT ![l] = Nobody]
  /\ wants' = [wants EXCEPT ![t] = l]
  /\ waiting' = [waiting EXCEPT ![c] = Append(@, t)]
  /\ UNCHANGED alive

(* The last to come is not let wait, when nobody else can run. *)
WaitFails(c) ==
  /\ waiting[c] # <<>>
  /\ waiting' = [waiting EXCEPT ![c] = SubSeq(@, 1, Len(@) - 1)]
  /\ UNCHANGED <<alive, owner, wants>>

(* A signal is given with the lock, and lets the first go, or all.         *)
Signal(t, c, l) ==
  /\ Goes(t)
  /\ owner[l] = t
  /\ waiting[c] # <<>>
  /\ waiting' \in {[waiting EXCEPT ![c] = Tail(@)], [waiting EXCEPT ![c] = <<>>]}
  /\ UNCHANGED <<alive, owner, wants>>

(* Threads are created and end.  What a thread that has ended wanted is    *)
(* forgotten, sooner or later, but not the locks it has.                   *)
Turnover ==
  /\ alive' \in SUBSET Thread
  /\ \E gone \in SUBSET (Thread \ alive) :
       wants' = [t \in Thread |-> IF t \in gone THEN NoLock ELSE wants[t]]
  /\ \A t \in alive' \ alive : wants'[t] = NoLock /\ ~Waits(t)
  /\ UNCHANGED <<owner, waiting>>

Next ==
  \/ Turnover
  \/ \E c \in Cvs : WaitFails(c)
  \/ \E t \in Thread, l \in Locks :
       \/ Ask(t, l)
       \/ Acquire(t, l)
       \/ Release(t, l)
       \/ \E c \in Cvs : Wait(t, c, l) \/ Signal(t, c, l)

Spec == Init /\ [][Next]_monitorVars

=============================================================================
