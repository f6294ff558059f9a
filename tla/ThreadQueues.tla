---------------------------- MODULE ThreadQueues ----------------------------
(***************************************************************************)
(* The singly linked thread queues of threads/thread.c: the ready queue,   *)
(* and the queue inside every struct wait_queue.  A queue is the sequence  *)
(* of the Tids of its nodes, head first.                                   *)
(*                                                                         *)
(* No operator here is recursive: theorems are proved about all of them    *)
(* (ThreadQueuesProofs).                                                   *)
(***************************************************************************)
EXTENDS Integers, Sequences, FiniteSets, Functions

\* Mutant: the node is linked before the first one.
QueuePushFront(queue, tid) == <<tid>> \o queue

(* queuePush: the node is linked after the last one. *)
QueuePush(queue, tid) == Append(queue, tid)

(* queueRemove: the first node with this Tid is unlinked; without one the  *)
(* queue is returned as it was.                                            *)
QueueRemove(queue, tid) ==
  IF tid \in Range(queue)
    THEN LET first == CHOOSE i \in DOMAIN queue :
                        /\ queue[i] = tid
                        /\ \A j \in 1..(i - 1) : queue[j] # tid
         IN  [i \in 1..(Len(queue) - 1) |->
                IF i < first THEN queue[i] ELSE queue[i + 1]]
    ELSE queue

(* What a loop of queuePop and a test leaves of a queue: its elements that *)
(* are in S, in the order of the queue.  Rank(i) is the place, among those *)
(* elements, of the one at position i.                                     *)
QueueSelect(queue, S) ==
  LET positions == {i \in DOMAIN queue : queue[i] \in S}
      Rank(i)   == Cardinality({j \in positions : j <= i})
  IN  [k \in 1..Cardinality(positions) |->
         queue[CHOOSE i \in positions : Rank(i) = k]]

(* a stands before b in the queue. *)
Before(queue, a, b) ==
  \E i, j \in DOMAIN queue : i < j /\ queue[i] = a /\ queue[j] = b

(* Newcomers stand behind those who were in the queue, who keep their order. *)
KeepsOrder(old, new) ==
  \A a \in Range(old) \cap Range(new), b \in Range(new) :
    Before(old, a, b) \/ b \notin Range(old) => Before(new, a, b)

=============================================================================
