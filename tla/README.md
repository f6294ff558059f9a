# Verification of the ECE344 labs

The repository holds the labs of an operating systems course: a user-level
thread library with preemption, locks and condition variables (`threads/`), a
small web server with its clients (`webserver/`), and warm-up programs
(`warmup/`). This directory models the program's own core logic in TLA+,
model-checks it with TLC, and proves its main safety properties with TLAPS for
every number of threads, clients, files, bytes and words.

## The system

| Part | Source | State | Operations | Interacts through |
|---|---|---|---|---|
| scheduling | `threads/thread.c` 1-448 | `allThreads`, `runningQueue`, `readyQueue`, `exitedQueue`, `currThreadCount`, a state per thread | `thread_init`, `thread_create`, `thread_yield`, `thread_exit`, `thread_kill`, `thread_switch`, the queue functions | one `next` pointer per thread node: a thread is in one list |
| wait queues | `thread.c` 450-582 | `allWaitQueues[tid]` and client queues | `wait_queue_create/destroy`, `thread_sleep`, `thread_wakeup`, `thread_wait` | exit and kill wake the joiners; wakeups fill the ready or the exited queue |
| timer | `threads/interrupt.c` | signal mask, interval timer | `register_interrupt_handler`, `interrupts_set`, `interrupt_handler` | the handler calls `thread_yield(THREAD_ANY)`; every call blocks SIGALRM |
| locks | `thread.c` 584-665 | `status`, `acquirer`, a wait queue | create, destroy, acquire, release | sleep and wakeup on the lock's queue |
| condition variables | `thread.c` 667-766 | a wait queue | create, destroy, wait, signal, broadcast | the calls of the lock, sleep and wakeup |
| robust I/O | `webserver/common.c` | a read buffer per descriptor | `rio_read`, `rio_write`, `rio_readb`, `rio_readlineb` | partial reads and writes, EINTR, end of file |
| file set builder | `webserver/fileset.c` | the files, the index, the buffer of its lines | unlink, open, write, the index | the files that server and client read |
| requests | `webserver/request.c` | `struct request`, `struct file_data` | init, readfile, sendfile, error, destroy | Rio on the connection, the files |
| server loop | `webserver/server.c` | listening socket, exit fifo | poll, accept, hand over, exit | `server_request` and `server_exit` of `server_thread.c`, which is not in the repository |
| clients | `webserver/client.c`, `client_simple.c` | the index, a thread per connection | connect, send, print, compare | sockets; the index of the file set |
| word count | `warmup/wc.c` | a hash table of word lists | `wc_init`, `wc_output`, `wc_destroy` | none |
| recursive copy | `warmup/cpr.c` | the file system | `recursiveCopy`, `copyFile` | none |

What is hard in it:

* **Who owns a thread node.** A node moves between the running, ready, exited
  and wait queues by being linked through its only `next` pointer. A series of
  sleeps, kills, wakeups and exits that links it twice makes a cycle or frees
  it twice; one that drops it loses the thread and its Tid.
* **State against position.** `thread_kill` and `thread_wakeup` do not search
  for a thread: they trust `threadState`. A woken thread keeps the state
  WAITING until it runs, a killed sleeper is EXITED but still in its wait queue.
* **Ends of threads.** Joiners must be woken by the end of their target
  and by nothing else, whichever way it ends; Tids and stacks are reused.
* **Preemption.** The timer may fire anywhere in a thread's own code, and once
  more between the final frees and `exit(0)`.
* **Calls suspended half way.** `lock_acquire` and `cv_wait` lose the processor
  inside the call; `cv_wait` releases, sleeps and reacquires in three steps.
* **Nobody is ready.** Sleeping, waiting, locking and exiting all behave
  differently when the ready queue is empty.
* **Short and interrupted transfers.** `read` and `write` do less than they were
  asked, or nothing; two layers of buffers lie between the socket and a line.
* **Who owns a connection.** It goes from `accept` through a queue to a worker
  and is closed on several paths, while the exit comes over the fifo.
* **Files under the server's feet.** `stat`, `open` and `read` are three looks
  at a file that another program may be making anew, and the index, the
  file and the client's copy of the index may be of different runs.
* **A process ends with its first error.** `exit(1)` in one thread of the
  server or of the client ends all requests of that process, and the other
  process sees closed connections.
* **Failure in the middle of a tree.** The recursive copy changes permissions
  last, at every level, and any call may fail before.
* **Two passes that must agree.** The word counter sizes its table in one loop
  and computes indexes modulo that size in another; words share lists, and an
  insertion that finds no memory goes unnoticed.

## Modules

| Module | What it is |
|---|---|
| `ThreadQueues` | the linked lists as sequences: push, remove, the loops that filter |
| `Threads` | scheduling, wait queues and the timer; extends `ThreadQueues` |
| `ThreadSync` | locks and condition variables on top of the actions of `Threads`; implements `Monitor` |
| `Monitor` | what locks and condition variables amount to for their users |
| `LineStream` | what the robust reads promise: a text, cut in pieces |
| `Rio` | the robust I/O package at both ends of a connection; implements `LineStream` |
| `Files` | what may happen to the files and the index, for whoever reads them |
| `FileSet` | `fileset.c`, call by call; implements `Files` |
| `Web` | server, workers, fifo and client on top of `Files` |
| `CopyTree` | the recursive copy |
| `WordCount` | the word counter, and the reference it is checked against |
| `MCThreadSync`, `MCRio`, `MCFileSet`, `MCWeb`, `MCCopyTree`, `MCWordCount` | the views, texts, runs of the builder, trees and hash function with which TLC checks them |
| `ThreadQueuesProofs`, `ThreadsProofs`, `ThreadSyncProofs`, `RioProofs`, `FileSetProofs`, `WebProofs`, `CopyTreeProofs`, `WordCountProofs` | theorems about the module of that name |

`ThreadSync` composes with `Threads` by taking its actions as steps. `Web`
composes with `FileSet` through `Files`: the server and the client only see what
`Files` says, and `FileSet` is shown to implement it. `Rio` stands alone: in `Web` a
call of the package is one step, as `LineStream` allows.

### Threads

One thread runs at a time. Every library call blocks SIGALRM on entry and
restores the mask when it returns, so a call is one action, up to the
`thread_switch` that suspends its caller; the resumed caller of a call in this
module only returns. The calls nested in a call belong to its action: the
`emptyQueue(exitedQueue)` that `thread_create` and `thread_yield` begin with
(`Reaped`, `ReapExited`), the wakeup and `wait_queue_destroy` in `thread_exit`
and `thread_kill` (`Woken`, `Killed`, `DestroyJoinQueue`), the `thread_switch` in
yield, sleep and exit (`SwitchTo`).

The client is arbitrary: any thread may make any call at any time, with any Tid,
each control code, and a value out of range on either side. It does not pass a
pointer to a wait queue that was freed, and it knows only the queues in
`ClientQueues`; it may pass NULL, a queue that is not created, which `thread_sleep` and
`thread_wakeup` let pass and `wait_queue_destroy` dereferences (`WaitQueueDestroyCrash`). What the C state becomes:

* a queue is the sequence of the Tids of its nodes; `exitedQueue` is a set, as
  it is only filled and emptied as a whole;
* `allThreads[t] == NULL` is `threadState[t] = "NULL"`; the running thread is
  `running`; `allWaitQueues[t]` and the client's queues are `sleepers[q]`, and
  `waitQueues` says which pointers are not NULL or freed;
* a stack is kept only as far as it matters: `mainThread` says that Tid 0 is still the thread
  whose `threadStack` is no `malloc`ed block;
* `returned` keeps what the last call returned, for calls that do not switch:
  a call that did switch returns later, in its caller's own time;
* `process` says how the process ended, if it did. A NULL dereference, the
  second free of a block, the free of what was never allocated and a failed
  assertion end it. What `free` does with the main thread's stack pointer
  is undefined, so both outcomes are possible;
* each `malloc` may fail: `thread_create` then returns THREAD_NOMEMORY,
  `wait_queue_create` fails its assertion, and `thread_init`, which checks none of
  its own, dereferences NULL or fails that assertion (`Init`).

`InterruptHandler` is `thread_yield(THREAD_ANY)` at any moment of the running
thread's own code. `InterruptWhileExiting` is its delivery between
`interrupts_set` and `exit(0)` in the last `thread_exit`.

### ThreadSync

The calls on locks and condition variables make several calls of the library and
may be suspended between them, with SIGALRM blocked. `resume[t]` is the place of
thread *t* in such a call, that is, its saved context: a step of a call is an
action of `Threads` or leaves the variables of `Threads` alone, and moves
`resume[running]`. The calls of the library proper and the timer need
`InterruptsOn`: the running thread is in its own code. If the library left
the mask open in the middle of a call, `InterruptsOn` would be weaker: the
mutants of `SuspendedOnlyAsleep` do that.

`status` and `acquirer` are the fields of `struct lock`. `holders[l]` is a
history variable: the threads that came back from acquiring *l*, have not
released it, and still have a stack. It is what mutual exclusion is about, and
unlike `acquirer` it does not confuse a thread with the next one that gets its
Tid.

A lock or condition variable may be destroyed when the code lets it be
(`LockDestroy`, `CvDestroy`) while a woken thread has yet to resume inside a call
on it; the resumed thread then reads freed memory (`UseAfterFree`), and the
model ends there.

`Monitor` has no scheduler, no wait queues of locks and no steps inside of a call: a thread
asks for a lock and takes it, `Wait` gives the lock back and waits at once, and a
signal lets the first that waits, or all, want their lock again. In the mapping a
thread waits from the `lock_release` of its `cv_wait` on (`Waiting`), so that
`thread_sleep` stutters. A thread that is not created or has ended is forgotten
in `Turnover`, but a lock that it had is not free again, as in the code; nor is its Tid
taken out of where it waits, so a signal can be spent on it. `WaitFails` is
the `cv_wait` of a thread with nobody ready, which comes back unsignalled.

### Rio

A sender with `rio_write` and a reader with `rio_readlineb` or `rio_read`, at the
ends of a connection that holds `SocketSize` bytes. A step is a system call, or
one byte that `rio_readb` hands over. `write` takes and `read` gives any number
of bytes that there are and that there is room for; either may be interrupted, which changes
nothing, or fail, which ends its process (`unix_error`). `sent` is `n - nleft`,
`rioBuf` the `rio_cnt` bytes from `rio_bufptr` on, `usrbuf` what the call in
progress has stored, `lines` what the calls returned, and `received` is a history variable, all they returned one after the other. `rio_readlineb` always asks `rio_readb`
for one byte, so only that case is there. A call that returns 0 ends the reading.
The 0 byte that ends a line in C, is not in the
state.

`LineStream` has no processes and no buffers: the next piece of a text is
returned, a piece is a line, a full buffer, or the rest, and the text may become shorter only at
the moment when a sender that is `open` ends. `Rio` implements it: `unread` is what is in the caller's buffer,
in `struct rio`, in the kernel and still to be sent, in that order.

### Files and FileSet

The contents of a file matter only in so far as they are what the index says,
so a file is absent, not whole (`"partial"`), or as some run of `fileset` makes
it; the seed is fixed, so a run is known by its options. The index of `FileSet` is
its count and its rows; that of `Files` is the run that it describes, or `"partial"`.

`FileSet` has a step for each system call: `readdir` gives the names, each is
unlinked, with a result nobody looks at; each file of the run is opened with
`O_TRUNC`, written, and its row is added to the buffer; the index is truncated, and count
and rows are written, the rows in as many parts as the kernel likes. Any step may be the last (`GenFails`). It starts where a first run has ended well, over
files of any state besides.

`Files` allows any step of a file except one: what was not truncated does not
become the file of a run; and the index becomes whole only when all of its files
are. Nothing that server or client do keeps files from changing.

### Web

| In the model | In the code |
|---|---|
| `main`, `held`, `Poll`, `ServerRequest`, `Stop` | the loop of `server.c`: poll, accept, `server_request`, `server_exit` |
| `fifo`, `Shutdown` | `server_exit`, and the program that opens it and writes |
| `backlog`, `queue`, `Take` | the listening socket; the queue of `max_requests` and the workers |
| `worker[w]` | a worker's place in `request.c`, its `struct request` and `struct file_data` |
| `conn`, `answer` | the sockets: open or closed by the server, and what was written |
| `process`, `listed`, `thread`, `file`, `lines` | the client: its index, its threads, the request of each and how much of it was sent |
| `changes`, `MakeFiles` | another program at the files |

`server_thread.c` is not in the repository: the pool and the queue are taken
from `request.h`, `server_thread.h` and the calls in `server.c`, and there is no
file cache (`request_set_data` has no caller). A worker's step is a system call
or a call of Rio: `ReadLine`, `ReadHeaders`, `Stat`, `OpenAndRead`,
`SendHeader`, `SendBody`, `Destroy`. The file is looked at by `Stat` and by
`OpenAndRead`, and what is read is the file of a run only if both saw
the same one, whole; otherwise it is `"mixed"`. A file of size 0 is answered with the header
alone (`"empty"`). Failures are the code's:
a failing Rio call or a file that is gone ends the server, whatever else it is
serving; the end of a file in the middle of the headers makes `request_read_headers` read for ever
(`spin`), as its buffer keeps the last line.

The client reads the index (one that is not whole fails an assertion, unless it was
cut inside of its last row: then the last name need not be that of a file, `Listed`), starts its threads, and each
connects, sends its request, reads up to the end of the file and compares.
Any failure ends the process and its other threads, and a part
of the requests that were being sent may have left (`EndsClient`). `client_simple.c` is the same with one
thread. `nr_times` is 1: a thread makes one request.

### CopyTree

A step is a system call of `main`, `recursiveCopy` or `copyFile`, and what follows
up to the next one. The source tree is a constant of a behaviour: kind, parent,
permissions and size of each entry. There are finitely many, parents are
directories, and every entry is below `srcdir` (`IsTree`). `stack` holds the calls of `recursiveCopy`
and what `readdir` has left of each, in any order. Permissions are sets of bits, of which the
model knows that `"w"` is needed to add entries and that the umask clears some.
`reliable` says that no call fails without a reason in the state; without it any
call may fail, and `read` and `write` may be short. Their results are not looked at, so the
program goes on; `lost` remembers it. `closedir` is never called: `opened` only
grows.

### WordCount

A sequential program: `wc_init` loops over the text twice, then `wc_output`
and `wc_destroy` run. A turn of a loop is one step, with `i` the characters read
before it. The hash table is a function from indexes to lists, and a list is the
sequence of its nodes, head first. Characters are their codes; words are
sequences of characters, compared with `=` as `strcmp` does. `firstSpace` is
one more than in the code, as positions start from 1. `hashFunction` is the
constant `Hash`; `MCWordCount` gives it the function of the code.

Every `malloc` may fail. Those of `newNode` are checked and lose the word
silently (`InsertFails`; `dropped` is a history variable that says which). The
others are asserted or used unchecked and end the program
(`AllocationCrashes`). `copies` counts the words `substringCopy` allocated and
nobody freed; a copy that is made of a word already in the table is never freed.

There are two references, neither with a loop. What `wc.h` means by the words of a text is
`WordEndsOf`: a word ends at a separator or at the end of the text; the output is
compared with it. What the loops find is `Ends`, `WordBefore` and `Occurrences`:
the ends that are separators, what stands before one, and how often.

## Runs

| Run | What it shows |
|---|---|
| `threads` | `Threads.cfg`: 3 threads, one client wait queue, every call and argument. The nodes, states and wait queues stay consistent; NULL is dereferenced only in the situations named by `CrashesExplained`; a thread survives its end only if it was killed between its wakeup and its next run; joiners leave only when their target ends; queues are FIFO; no ready thread starves; exited threads are freed |
| `sync` | `MCThreadSync.cfg`: 3 threads, a lock, a condition variable. The lock excludes; nobody sleeps on a free lock; a call is suspended only in the places where the code sleeps; a signal finds whoever waits, and wakes those it takes but the killed (`SignalsWakeWaiters`); every step is one of the abstract `Monitor` (`ImplementsMonitor`) |
| `rio` | `MCRio.cfg`: all texts of up to 5 bytes. The calls return the bytes in order, each once, in lines or full buffers (`ReadsTheStream`, the refinement of `LineStream`); 0 is returned only after the calls have returned all that was sent (`ZeroOnlyAtTheEnd`); neither process waits for ever |
| `fileset` | `MCFileSet.cfg`: two runs over each other's files, with failures. A run that ends well leaves an index that is true; every step is one that `Files` allows (`ImplementsFiles`) |
| `web` | `MCWeb.cfg`: 2 clients, 2 workers, a queue of 1, files that change. Every open connection has one owner; its answer is one, in order, and about its request; without a disturbance from outside nothing fails; requests end; a shutdown ends the server unless a worker reads headers for ever |
| `copytree` | `MCCopyTree.cfg`: all trees of 4 entries. A copy that lost nothing is right, but for the permissions of `dstdir` itself when the umask clears some; what is incomplete after a failure is on the path to the entry it was at; without a failing call only three things stop the copy; it ends |
| `wordcount` | `MCWordCount.cfg`: all texts of up to 7 characters. After every turn of the second loop the table has each word once, in its list, with its count; no index leaves the table; the output has every word that `wc.h` means but the one the text itself ends with; what is not freed at the end is one copy for each repetition and for each word that was refused a node |
| `killed_runs`, `wait_early`, `last_exit` | the code against a sentence of `thread.h`, on the instance of `threads`: each finds the sentence broken |
| `web_missing_file` | the code against a comment of `request.c`, on the instance of `web` |
| `copy_unchecked` | the code against the rule of `warmup/common.h`, on the instance of `copytree` |

No cfg turns deadlock checking off: a process that has ended stutters
(`Terminated`), and any other state has a successor.

**Bounds.** Three bounds cap what could go on for ever: `MaxRuns` (runs of `fileset` over each
other, 2), `MaxChanges` (steps of the files while they are in use, 1) and `MaxText` (the
length of a text). The rest is the size of the instance.

* Three threads allow each thread to have all the roles that interact: one that
  acts, one that it acts on, and a third that is ready, sleeps in the same queue,
  or was given a reused Tid; a queue can hold two threads, so order and partial
  wakeups are visible. One client queue besides the three join queues is enough
  for sleepers in different queues. A lock and a condition variable allow a
  thread to wait for either while the others hold, signal and end.
* Texts of 5 bytes over a newline and two others, a caller's buffer of 3, an
  internal buffer of 2 and a socket of 3: lines that are shorter than, as long as
  and longer than each buffer, a socket that holds more than one refill, a last line without newline, and every split of a transfer.
* Two runs over the files of a third, with options for one or three files:
  a run over more files, over fewer, over the same with other contents, and over
  one that failed half way.
* Two clients and two workers with a queue of one meet in the backlog, in the
  queue, in the main thread and in the workers; a client that fails takes the
  other with it. One change of the files is enough to come between any two looks
  at them. There is one file and one run: with two files the liveness properties take
  too long, and that an answer is about the file that was asked for, whichever
  there are, is a theorem (`AnswersBelongToTheirRequests`).
* Three entries below `srcdir` are enough for a directory in a directory with an
  entry behind it, for each kind of entry; `srcdir` has any permissions, the first entry
  has or has not `"w"`, the others have not, so a directory that nothing could be
  added to occurs at two levels; a file is longer than the buffer; four descriptors are too
  few for some of the trees.
* Texts of 7 characters over a space and two letters have up to three words that
  a separator ends, leading, doubled and trailing spaces, equal words, and
  words that differ but share a list. With a 12-bit unsigned int (`IntBits`) the
  shift of the hash wraps around within three characters, as the 32 bits of
  the code do within seven.

Most safety properties are proved besides for any instance (see *Proofs*).

**Fairness.**

* `Threads` assumes weak fairness of `InterruptHandler` and of
  `ProcessExit`. The handler re-arms the timer each time it runs
  (`interrupt.c:172`), SIGALRM stays pending while it is blocked, and every call
  restores the mask: the signal is delivered again and again. It is assumed that
  the client registers the handler and blocks SIGALRM itself (`interrupts_off`)
  only for a finite time. `exit(0)` is a call that the kernel completes. No
  fairness is assumed of the threads, which may compute for ever. `SyncSpec`
  has no fairness: only safety is checked of it.
* `Rio`: the kernel completes a transfer that is possible, and tells each side of the
  end of the other. Interrupted and failing calls need not happen.
* `Web`: the operating system runs the threads of the server and those of the client that
  have connected. `Connect`, the shutdown, the files and the kill of the client need not happen. A
  worker that spins does take its steps.
* `CopyTree`: the program runs, and each call returns. Which result it has is
  left open.

**View.** `MCThreadSync` leaves `returned` and `currThreadCount` out of the
fingerprint. No action and no property of that run reads either.

## What the code does not keep of its documentation

The first five are runs that TLC ends with a counterexample; `PROJECT.json` quotes
the sentence.

* A thread that is killed after it was woken, and before it ran, runs on: its
  state is still WAITING, so `thread_kill` leaves it in the ready queue
  (`KilledNeverRuns`). Its wait queue is gone: when it exits, or is killed once more
  after it has run, `wait_queue_destroy` dereferences NULL.
* `thread_wait` returns at once, as if its target had exited, when no thread is
  ready (`WaitReturnsAfterEnd`).
* The last `thread_exit` may end in the free of a stack pointer, or in a double
  free when a timer signal was pending (`LastExitEndsProgram`).
* `cpr` ends with status 0 although a copy was cut short: `read` and `write`
  are not checked (`CopyIsComplete`).
* A file that is unlinked between `stat` and `open` ends the web server,
  instead of being answered with an error (`FailureIsAnswered`).

The next five are stated by properties of passing runs: each says exactly how far the code keeps a
sentence and where it departs from it, so the run shows that it does so there and nowhere
else. `PROJECT.json` quotes these sentences, too.

* `thread_yield` to a thread that sleeps dereferences NULL (`CrashesExplained`); `thread.h`
  lets the caller go on after a failure.
* A `cv_signal` may be spent on a thread that was killed while it waited, and then wakes nobody
  (`SignalsWakeWaiters`); `thread.h` has it wake up one that waits.
* The word counter drops the word that the text itself ends with (`OutputIsRight`); `wc.h`
  has words separated by spaces, not ended by them.
* It never frees the copies of a word after the first, or of a word that was refused a node
  (`LostAreRepeats`); `wc.h` wants no memory loss.
* `cpr` makes `dstdir` with the permissions of `srcdir` less the umask (`CopyIsRight`); its comment
  says the same permissions, and `test_cpr` compares them.

Others are in the models as the code has them:

* `thread_wakeup` counts killed sleepers that it does not make ready (`WakeOne`, `WakeAll`).
* A lock whose holder ended can be released by a thread that was given its Tid
  (`MayRelease`); `cv_wait` does not wait when no thread is ready (`CvWaitSleeps`).
* `request_read_headers` does not notice the end of the file, and a worker then
  reads for ever (`Spinning` in `ExitsWhenAsked`).
* A program that opens the exit fifo and ends without writing ends the server in
  the assertion of `server.c:96`; `rand_int` fails its assertion when `random()`
  returns 0 (`Disturbed`).
* A file set whose files `request_readfile` refuses, as it does every name with `..`
  in it, cannot be fetched at all (`Unserved`).
* `cpr` never closes a directory (`FailsExplained`).

## Proofs

The constants are assumed to be what the code has: `MaxThreads` at least 1 (the
main thread), client queues that are not Tids, locks and condition variables
that are distinct client queues. Nothing else is assumed, and nothing bounds
them. Of the word counter it is assumed that characters are integers and that
the hash of a word is a natural number; of Rio, that bytes are integers and
buffers not empty; of the file set, that a run makes some of the files; of the
server, that there is a worker and room for a request in the queue.

`ThreadQueuesProofs` proves what the list operators return and keep: their type,
their range, that an injective queue stays so, that selecting keeps the order.

`ThreadsProofs`. The invariants of the `threads` run are not inductive one by
one. That a yield does not link a node twice needs that the state of a thread
agrees with its position; that a kill removes the right node needs that READY
threads are in the ready queue; that no sleeper is stranded needs that a queue
that is created is empty. `IInv` is their conjunction. Each conjunct has its own
lemmas, with one step per action; `InitIInv` and `NextIInv` combine them,
`Inductive` is `Spec => []IInv`, and the theorems on the single properties
follow. `JoinersWaitForTheEnd` and `OnlyWokenThreadsSurvive` are action
properties, proved from `IInv`.

The order of the queues. `ThreadQueuesProofs` shows `KeepsOrder` of each operation on queues: a
part of a queue in the order of its positions (`PartKeepsOrder`, for remove, pop
and the sorting loop) and what is linked at the end (`ConcatKeepsOrder`). Two in a
row keep it, too, if what is in the first and the last queue is also in the
middle one (`KeepsOrderTwice`). That sleepers become ready in their order needs
that a thread is in one queue (`OneQueuePerThread`): no other sleeper is ready.
`FirstComeFirstServed`, in `ThreadsProofs`, combines the steps.

`ThreadSyncProofs`. A step of `ThreadSync` is a step of `Threads` for the
variables of `Threads` (`SyncStep`), so `IInv` holds under locks and condition variables
too. `SyncInv` adds the types, and the invariants of the `sync` run.
Two more conjuncts make it inductive: a lock that is not taken has no holders and no acquirer,
and a thread that sleeps in the queue of a lock or a condition variable stands
in the matching call (`SuspendedOnlyAsleep`), so that a preempting thread is never in the middle
of one. `SignalsWake` then follows from `SuspendedOnlyAsleep`: when a thread
signals, every waiter is already asleep in the queue, once (`OneQueuePerThread`), so the one
that is taken stops waiting and no other does.

`SyncImplementsMonitor` maps the steps: the first half of `cv_wait` is `Wait`, which
needs that no other thread is in the middle of a call (`OthersSuspended`), and a wakeup
is `Signal`, which needs that the caller has the lock by then (`HoldsLock`). A call of the
library itself is `Turnover`: no thread of its own code waits, and a new
thread neither waits nor wants a lock, although its Tid may be a used one (`NewAtClient`).
`LockMonitorSteps`, `CvMonitorSteps` and `ThreadCallTurnover` are the simulation,
action by action.

`RioProofs`. The invariant is the types with `CallUnfinished`: what a call has
stored is shorter than its buffer and has no newline, if it reads a line. Then
`RioImplementsStream` is the simulation: a step that moves bytes between two
neighbours of `Unread` stutters, as concatenation is associative (`Moved`,
`Taken`); one that completes a call is `Return`, and one that ends the sender is
`SenderEnds`. `ZeroOnlyAtEnd` needs where every byte is that was sent: what the calls returned,
then `usrbuf`, `rioBuf` and `socket`, make up the sent part of the text (`InOrder`); at the end of the
file the last two are empty, and what is in `usrbuf` is returned before the 0 (`ZeroStep`).

`FileSetProofs`. While a run goes on, the rows in its buffer are those of the
files it has made, and these are whole; that makes `IndexDescribesFiles`
inductive. A part of the rows describes no file set (`PartDescribesNothing`), so the index is
partial until the last of them is written. `FileSetImplementsFiles` maps the steps: one of a file is
`ChangeFile`, one of the index `ChangeIndex`; only the last write of the index
needs the invariant, to know that every file is whole.

`WebProofs`. `OneOwner` is proved connection by connection (`Owned`) together with
`Points`, which says what the places in the programs mean: the main thread holds
a connection just between `accept` and `server_request`, a worker has one just while
it is not idle, and a thread that has not connected has none. `Written` says what
each worker has written by where it is, and that the name it uses is the one that
was sent unless the client is gone; from it follows `AnswersAreOwn`. A client
that ends may leave part of a request behind; `AskedKept` shows that this
cannot turn an answer into another's.
`NothingFailsUndisturbed` (`OnlyDisturbed`) needs both processes at once: until
the exit is asked for, every connection that is closed holds the whole answer
(`Serving`), so no client thread fails, so no client is gone (`Served`), so no
worker loses the client it writes to; and a file of the index that nobody
changes is the same one to the client, `Stat` and `OpenAndRead` (`Quiet`).
`Disturbed` never becomes false again (`DisturbedStays`).

`CopyTreeProofs`. None of `CopyIsRight`, `PartialOnPath` and `FailsExplained` is
inductive: what is complete at the end is so because of the order in which the
calls were made. `CopyInv` says what holds between any two system calls:

* `StackInv`: the calls of `recursiveCopy` are at `srcdir`, a directory in it, and so on,
  each once; what `readdir` has left of a directory was not made yet.
* `DoneInv`: everything made that is not `Active` (`srcdir`, the directories of the calls,
  the entry of the last one) is a copy, with all that is in it; and of the
  directories of the calls, all is copied that `readdir` has returned, but the active.
* `EntryInv`: where the last call is at its entry. What was written of a file is the
  part of it before `offset` less what is still in `buf`; a `chmod` of a directory follows
  the copy of all that is in it.
* `MadeInv`: what is in the destination is in a directory that was opened.

One lemma for each action shows that it keeps these. The return of a call
(`ReadDirKeeps`) and the `chmod` after it (`ChmodKeeps`) are the hard ones: an entry leaves
`Active` just when it is complete. `CopiesAreRight` then follows by induction over the tree:
the set of the entries that were made, or are not to be copied, holds `srcdir` and with a
directory all that is in it, so `IsTree` says it is `Entry`. Only `dstdir` keeps the mode of its
`mkdir` (`Made`), which is that of `srcdir` if and only if the umask clears none of it. `FailsExplained` needs that a
directory is opened once, so that the descriptors in use are at most the
directories and one more (`OpenedAreDirectories`), and that the directories of the calls
can be written into as long as `chmod` has not reached them (`TopWritable`).

`WordCountProofs`. That the second loop counts right (`CountsAreRight`) is
inductive only with what the loops know of the text: `firstSpace` is the last
separator read (`FirstIsLast`), so what they test and copy is the word of the
reference (`NextEnd`); and `wordCount` is the number of ends of words
(`FirstPassCounts`), so a word found by the second loop makes the table not
empty (`IndexInRange`). `InsertProperties` says what `insertWord` returns,
`OccurrencesStep` how one character changes a count, and `RightAfterInsert` puts
them together for the node, its list and the other lists.

The output is the concatenation of the lists, a recursive function (`Lists`). That its
equation has a solution is proved with `SetInduction`, which is about a set of numbers
and so needs no operator as a parameter (`ListsExist`). `ListsGather` shows that it
holds every entry of the table once. There is a line for each word that found memory and no
more, which is a bijection between lines and words (`LinesCountWords`). `LinesAreRight` turns that, and
`CountsAreRight`, into `OutputIsRight`: the ends that the loops find are those of `wc.h` but for the
end of the text (`LastIsNotCounted`). `LostAreRepeats` counts: the copies that
were made are the words that were found (`InsertCopies`), and the nodes, one for each
word that found memory, are freed.

## Model-checked only

* Liveness, which is out of the proof system's reach: `NoStarvation`,
  `ExitedAreReclaimed`, `TransferEnds`, `RequestsEnd`, `ExitsWhenAsked`,
  `CopyEnds`.
* The violations.

Every invariant and every action property of the passing runs is a theorem.

## Not modelled

* Threads: machine contexts (`getcontext`, `setcontext`, the registers of a new
  thread) and the memory of stacks; a thread resumes where it was suspended.
  Memory that is leaked (the node of a failed `thread_create`, the stack of a
  reused Tid 0). The signal mask itself, and a client that calls the library
  with SIGALRM blocked. A client that passes a freed wait queue, lock or
  condition variable. The test programs, which are clients.
* Rio: the 0 that `rio_readlineb` stores behind a line that fills its buffer,
  one past the end of the buffer; a stale `errno` after a `write` that returns 0.
* Web: `server_thread.c`, which students write and which is not there, with its
  file cache and `request_set_data`; the contents and checksums of files, and
  the distribution of their sizes; the `int` that sums the sizes of a file set; failures of `malloc` and
  of thread creation; requests that no client of the repository sends; more than
  one request of a thread (`nr_times`).
* `cpr`: names that do not fit into its buffers of 1000 characters, a
  target that lies in the source, and a source that changes while it is copied.
* Word count: the format of its output, its `int` table length (which a text
  of 2^30 words overflows), `isspace` of negative characters.
* `warmup/point.c`, `fact.c`, `hello.c`, `hi.c`, `words.c`, each a few lines without
  state; the tester scripts and makefiles.

## Plan

1. *Done.* `ThreadQueues`, `Threads`, `ThreadSync`, `WordCount`: runs and proofs.
   `Monitor`, and `ThreadSync` proved to implement it.
2. *Done.* `LineStream` and `Rio`; `Files` and `FileSet`: runs, refinements and
   their proofs. `Web` on top of `Files`: run and safety proofs. `CopyTree`: runs and
   proofs.
3. `Scheduler`, an abstract specification of what `thread.h` promises of threads
   and wait queues (sets instead of linked queues), with `Threads` shown to
   implement it where it does.
4. `SignalMask`: `interrupts_set` and its saved states as variables, with the
   nested calls, to justify by a check that a call is atomic.
5. Liveness of locks under a client that releases what it acquires.
6. `nr_times`, and the file cache, when there is a `server_thread.c`.
