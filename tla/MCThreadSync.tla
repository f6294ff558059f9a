---------------------------- MODULE MCThreadSync ----------------------------
(* ThreadSync for TLC.  No action and no property checked here reads       *)
(* returned: states that differ in nothing else are the same.              *)
EXTENDS ThreadSync

View == <<threadState, running, readyQueue, exitedQueue, waitQueues, sleepers,
          mainThread, process, syncVars>>
=============================================================================
