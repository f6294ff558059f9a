-------------------------------- MODULE Web --------------------------------
(***************************************************************************)
(* webserver/: the server's main thread (server.c) and the requests that   *)
(* its worker threads handle (request.c), the threads of the client        *)
(* (client.c), and the files they are about (FileSet).  A step is a system *)
(* call that another process can see, or a call of the package in Rio.tla, *)
(* whose interrupted and short transfers are not repeated here.            *)
(*                                                                         *)
(* The queue and the workers themselves are in server_thread.c, which is   *)
(* not part of the source: they are taken from how server.c and request.h  *)
(* have them used.                                                         *)
(***************************************************************************)
EXTENDS Files, Integers, Sequences, Functions

CONSTANTS
  Client,        \* the threads of the client process; each is its connection
  Worker,        \* the worker threads, nr_threads of them
  MaxRequests,   \* max_requests: the connections that the queue holds
  MaxChanges,    \* bound: the steps of the files while they are in use
  Unserved,      \* the files that request_readfile refuses, by their name
                 \* or permissions, whatever they hold
  None

ASSUME WebAssumption ==
  /\ MaxRequests \in Nat \ {0}
  /\ MaxChanges \in Nat
  /\ Worker # {}
  /\ None \notin Client \cup Worker
  /\ Unserved \subseteq File
  /\ Run \cap {"mixed", "error", "empty"} = {}

VARIABLES
  changes,       \* the steps of the files so far
  server,        \* the server process: "running", "exited", or why it failed
  main,          \* its main thread: "poll", "request" or "exit"
  held,          \* the connection accepted and not yet in the queue
  backlog,       \* the connections that wait for accept
  queue,         \* the connections that wait for a worker
  worker,        \* per worker: a record like Idle
  conn,          \* per connection: "none", "open", or "closed" by the server
  answer,        \* per connection: what the server has written to it
  fifo,          \* server_exit: "none", "open", "data", or "hup"
  process,       \* the client process: "running", "exited", or why it failed
  listed,        \* the run that the client read in the index, or "partial"
  thread,        \* per client thread: "connect", "send", "read" or "done"
  file,          \* the file it asks for
  lines          \* the lines of the request that it has sent

fileVars == <<disk, index, changes>>
serverVars == <<server, main, held, backlog, queue, worker, fifo>>
clientVars == <<process, listed, thread, file, lines>>
vars == <<fileVars, serverVars, clientVars, conn, answer>>

RequestLines == 2     \* the request line; the host line and the empty line

(* A worker: where it is, its connection, data->file_name, what stat saw   *)
(* of the file, and what is in data->file_buf or in the error's body.      *)
Idle == [pc |-> "idle", conn |-> None, name |-> None, seen |-> None, data |-> None]

Init ==
  /\ FilesInit /\ changes = 0
  /\ server = "running"
  /\ main = "poll"
  /\ held = None
  /\ backlog = <<>> /\ queue = <<>>
  /\ worker = [w \in Worker |-> Idle]
  /\ conn = [c \in Client |-> "none"]
  /\ answer = [c \in Client |-> <<>>]
  /\ fifo = "none"
  /\ process = "starting"
  /\ listed = None
  /\ thread = [c \in Client |-> "connect"]
  /\ file = [c \in Client |-> None]
  /\ lines = [c \in Client |-> 0]

ServerRuns == server = "running"
ClientRuns == process = "running"

(* The client's end of its connections is closed, or will not be used.     *)
ClientGone == process \notin {"starting", "running"}

-----------------------------------------------------------------------------
(* server.c: main *)

(* poll returns when there is something in the fifo, or a connection.      *)
SeesExit == fifo = "data"

\* Mutant: the loop goes on after the exit was seen.
PollContinues ==
  /\ ServerRuns /\ main = "poll"
  /\ fifo \in {"data", "hup"} \/ backlog # <<>>
  /\ IF backlog # <<>>
       THEN /\ main' = "request" /\ held' = Head(backlog) /\ backlog' = Tail(backlog)
            /\ UNCHANGED server
       ELSE /\ server' = IF SeesExit THEN "running" ELSE "no connection"
            /\ UNCHANGED <<main, held, backlog>>
  /\ UNCHANGED <<fileVars, clientVars, queue, worker, fifo, conn, answer>>

(* The exit comes first; then a connection is accepted.  When the writer   *)
(* of the fifo is gone and has written nothing, poll returns, too, and     *)
(* without a connection the assertion of line 96 fails.                    *)
Poll ==
  /\ ServerRuns /\ main = "poll"
  /\ \/ /\ SeesExit
        /\ main' = "exit"
        /\ UNCHANGED <<server, held, backlog>>
     \/ /\ ~SeesExit /\ backlog # <<>>
        /\ main' = "request" /\ held' = Head(backlog) /\ backlog' = Tail(backlog)
        /\ UNCHANGED server
     \/ /\ fifo = "hup" /\ backlog = <<>>
        /\ server' = "no connection"
        /\ UNCHANGED <<main, held, backlog>>
  /\ UNCHANGED <<fileVars, clientVars, queue, worker, fifo, conn, answer>>

(* server_request waits until the queue has room. *)
ServerRequest ==
  /\ ServerRuns /\ main = "request"
  /\ Len(queue) < MaxRequests
  /\ queue' = Append(queue, held)
  /\ held' = None /\ main' = "poll"
  /\ UNCHANGED <<fileVars, clientVars, server, backlog, worker, fifo, conn, answer>>

(* server_exit: the workers stop when they have nothing in hand, and what  *)
(* is in the queue or in the backlog is not served.  The process ends with *)
(* its last thread.                                                        *)
Stop(w) ==
  /\ ServerRuns /\ main = "exit"
  /\ worker[w].pc = "idle"
  /\ worker' = [worker EXCEPT ![w].pc = "stopped"]
  /\ server' = IF \A v \in Worker \ {w} : worker[v].pc = "stopped"
                 THEN "exited" ELSE "running"
  /\ UNCHANGED <<fileVars, clientVars, main, held, backlog, queue, fifo, conn, answer>>

-----------------------------------------------------------------------------
(* request.c, in a worker *)

Goes(w, pc) == worker' = [worker EXCEPT ![w].pc = pc]

(* A system call of a Rio_ wrapper or in SYS() fails: exit(1) ends the     *)
(* whole server.                                                           *)
ExitsServer(why) == server' = why /\ UNCHANGED worker

OnlyWorker ==
  UNCHANGED <<fileVars, clientVars, main, held, backlog, queue, fifo, conn, answer>>

Take(w) ==
  /\ ServerRuns /\ worker[w].pc = "idle" /\ queue # <<>>
  /\ worker' = [worker EXCEPT ![w] = [Idle EXCEPT !.pc = "line", !.conn = Head(queue)]]
  /\ queue' = Tail(queue)
  /\ UNCHANGED <<fileVars, clientVars, server, main, held, backlog, fifo, conn, answer>>

(* request_init.  The first line is the request line of client_send, and a *)
(* GET.  When the client is gone before it has sent the line, buf holds a  *)
(* part of it or what was on the stack, so that the method and the name    *)
(* may be anything: the request is refused, or it goes on.                 *)
ReadLine(w) ==
  /\ ServerRuns /\ worker[w].pc = "line"
  /\ LET c == worker[w].conn IN
       \/ /\ lines[c] >= 1
          /\ worker' = [worker EXCEPT ![w].pc = "headers", ![w].name = file[c]]
          /\ UNCHANGED server
       \/ /\ lines[c] = 0 /\ ClientGone
          /\ \/ \E f \in File \cup {None} :
                  worker' = [worker EXCEPT ![w].pc = "headers", ![w].name = f]
             \/ worker' = [worker EXCEPT ![w].pc = "header", ![w].data = "error"]
          /\ UNCHANGED server
       \/ ClientGone /\ ExitsServer("lost client")
  /\ OnlyWorker

\* Mutant: the headers are read up to the end of the file.
ReadHeadersToEof(w) ==
  /\ ServerRuns /\ worker[w].pc = "headers"
  /\ ClientGone
  /\ Goes(w, "stat") \/ Goes(w, "spin")
  /\ UNCHANGED server
  /\ OnlyWorker

(* request_read_headers, up to the empty line.  At the end of the file     *)
(* Rio_readlineb returns 0 and leaves buf as it was: without the empty     *)
(* line the loop never ends, unless no line was read and what was on the   *)
(* stack is an empty line.                                                 *)
ReadHeaders(w) ==
  /\ ServerRuns /\ worker[w].pc = "headers"
  /\ LET c == worker[w].conn IN
       \/ lines[c] = RequestLines /\ Goes(w, "stat") /\ UNCHANGED server
       \/ /\ lines[c] < RequestLines /\ ClientGone
          /\ Goes(w, "spin") \/ Goes(w, "stat")
          /\ UNCHANGED server
       \/ ClientGone /\ ExitsServer("lost client")
  /\ OnlyWorker

Spin(w) == ServerRuns /\ worker[w].pc = "spin" /\ UNCHANGED vars

(* request_readfile: its checks, and stat.  A file that is empty, as one   *)
(* that was truncated may be, is not opened and has no body.               *)
Stat(w) ==
  /\ ServerRuns /\ worker[w].pc = "stat"
  /\ LET f == worker[w].name
         found == f \in File \ Unserved /\ disk[f] # "absent"
     IN  \/ /\ ~found
            /\ worker' = [worker EXCEPT ![w].pc = "header", ![w].data = "error"]
         \/ /\ found
            /\ worker' = [worker EXCEPT ![w].pc = "open", ![w].seen = disk[f]]
         \/ /\ found /\ disk[f] = "partial"
            /\ worker' = [worker EXCEPT ![w].pc = "header", ![w].data = "empty"]
  /\ UNCHANGED server
  /\ OnlyWorker

(* What is in file_buf: the file as a run made it, or, when it was being   *)
(* written or is not what stat saw, parts of files, or bytes that Malloc   *)
(* left.                                                                   *)
Contents(seen, now) == IF seen = now /\ seen \in Run THEN now ELSE "mixed"

\* Mutant: the file_data is shared by all the workers.
OpenAndReadShared(w) ==
  /\ ServerRuns /\ worker[w].pc = "open"
  /\ LET now == disk[worker[w].name] IN
       IF now = "absent"
         THEN ExitsServer("no file")
         ELSE /\ worker' = [v \in Worker |->
                   [worker[v] EXCEPT !.pc = IF v = w THEN "header" ELSE @,
                                     !.data = Contents(worker[w].seen, now)]]
              /\ UNCHANGED server
  /\ OnlyWorker

(* open, Malloc and Rio_read.  A file that is gone since stat ends the     *)
(* server.                                                                 *)
OpenAndRead(w) ==
  /\ ServerRuns /\ worker[w].pc = "open"
  /\ LET now == disk[worker[w].name] IN
       IF now = "absent"
         THEN ExitsServer("no file")
         ELSE /\ worker' = [worker EXCEPT ![w].pc = "header", ![w].seen = None,
                              ![w].data = Contents(worker[w].seen, now)]
              /\ UNCHANGED server
  /\ OnlyWorker

(* A Rio_write to the client.  When the client is gone the kernel takes    *)
(* the bytes or SIGPIPE ends the server.                                   *)
WriteTo(w, part, next) ==
  /\ \/ /\ answer' = [answer EXCEPT ![worker[w].conn] = Append(@, <<part, worker[w].name, worker[w].data>>)]
        /\ Goes(w, next)
        /\ UNCHANGED server
     \/ ClientGone /\ ExitsServer("lost client") /\ UNCHANGED answer
  /\ UNCHANGED <<fileVars, clientVars, main, held, backlog, queue, fifo, conn>>

\* Mutant: the test of the size is inverted.
SendHeaderOnly(w) ==
  /\ ServerRuns /\ worker[w].pc = "header"
  /\ WriteTo(w, "header", IF worker[w].data = "empty" THEN "body" ELSE "close")

(* request_sendfile, or request_error: a header with the length and the    *)
(* checksum, then the body, if it is not empty.                            *)
SendHeader(w) ==
  /\ ServerRuns /\ worker[w].pc = "header"
  /\ WriteTo(w, "header", IF worker[w].data = "empty" THEN "close" ELSE "body")

SendBody(w) == ServerRuns /\ worker[w].pc = "body" /\ WriteTo(w, "body", "close")

\* Mutant: the connection is not closed after an error.
DestroyFile(w) ==
  /\ ServerRuns /\ worker[w].pc = "close"
  /\ conn' = [conn EXCEPT ![worker[w].conn] = IF worker[w].data = "error" THEN @ ELSE "closed"]
  /\ worker' = [worker EXCEPT ![w] = Idle]
  /\ UNCHANGED <<fileVars, clientVars, server, main, held, backlog, queue, fifo, answer>>

(* request_destroy *)
Destroy(w) ==
  /\ ServerRuns /\ worker[w].pc = "close"
  /\ conn' = [conn EXCEPT ![worker[w].conn] = "closed"]
  /\ worker' = [worker EXCEPT ![w] = Idle]
  /\ UNCHANGED <<fileVars, clientVars, server, main, held, backlog, queue, fifo, answer>>

Handle(w) ==
  \/ Take(w)
  \/ ReadLine(w)
  \/ ReadHeaders(w)
  \/ Spin(w)
  \/ Stat(w)
  \/ OpenAndRead(w)
  \/ SendHeader(w)
  \/ SendBody(w)
  \/ Destroy(w)
  \/ Stop(w)

-----------------------------------------------------------------------------
(* client.c *)

OnlyClient == UNCHANGED <<fileVars, serverVars, answer>>

(* The process ends, with every thread: of the request that a thread is    *)
(* sending, any part may have left.                                        *)
EndsClient(why) ==
  /\ process' = why
  /\ lines' \in [Client -> 0..RequestLines]
  /\ \A c \in Client : thread[c] # "send" => lines'[c] = lines[c]
  /\ thread' = [c \in Client |-> "done"]
  /\ UNCHANGED <<listed, file>>

(* init_fileset: an index that is not whole fails an assertion, unless     *)
(* only the end of its last row is missing, which is read as it is.        *)
InitFileset ==
  /\ process = "starting"
  /\ \/ /\ process' = "running" /\ listed' = index
        /\ UNCHANGED <<thread, file, lines>>
     \/ index = "partial" /\ EndsClient("failed")
  /\ UNCHANGED conn
  /\ OnlyClient

(* The names in the rows that were read; the name in a row that was cut    *)
(* need not be that of a file.                                             *)
Listed == IF listed \in Run THEN FilesOf[listed] ELSE File \cup {None}

\* Mutant: the number that rand_int returns is used as an index.
ConnectOffByOne(c) ==
  /\ ClientRuns /\ ServerRuns /\ thread[c] = "connect"
  /\ \E f \in Listed \ {None} : file' = [file EXCEPT ![c] = f + 1]
  /\ thread' = [thread EXCEPT ![c] = "send"]
  /\ conn' = [conn EXCEPT ![c] = "open"]
  /\ backlog' = Append(backlog, c)
  /\ UNCHANGED <<process, listed, lines>>
  /\ UNCHANGED <<fileVars, server, main, held, queue, worker, fifo, answer>>

(* client_request: open_clientfd, and rand_int, which fails its assertion  *)
(* when random() returns 0.                                                *)
Connect(c) ==
  /\ ClientRuns /\ thread[c] = "connect"
  /\ \/ /\ ServerRuns
        /\ \E f \in Listed : file' = [file EXCEPT ![c] = f]
        /\ thread' = [thread EXCEPT ![c] = "send"]
        /\ conn' = [conn EXCEPT ![c] = "open"]
        /\ backlog' = Append(backlog, c)
        /\ UNCHANGED <<process, listed, lines>>
     \/ ~ServerRuns /\ EndsClient("failed") /\ UNCHANGED <<conn, backlog>>
     \/ EndsClient("aborted") /\ UNCHANGED <<conn, backlog>>
  /\ UNCHANGED <<fileVars, server, main, held, queue, worker, fifo, answer>>

(* client_send *)
Send(c) ==
  /\ ClientRuns /\ thread[c] = "send"
  /\ \/ /\ lines' = [lines EXCEPT ![c] = RequestLines]
        /\ thread' = [thread EXCEPT ![c] = "read"]
        /\ UNCHANGED <<process, listed, file>>
     \/ ~ServerRuns /\ EndsClient("failed")
  /\ UNCHANGED conn
  /\ OnlyClient

(* A whole answer: the body of an empty file is not sent. *)
Header(name, data) == <<"header", name, data>>

Answer(name, data) ==
  IF data = "empty" THEN <<Header(name, data)>>
  ELSE <<Header(name, data), <<"body", name, data>>>>

(* client_print reads up to the end of the file, which the server's        *)
(* request_destroy or its end makes, and then compares it with the index,  *)
(* of which a row that was cut may say anything.                           *)
ReadAnswer(c) ==
  /\ ClientRuns /\ thread[c] = "read"
  /\ conn[c] = "closed" \/ ~ServerRuns
  /\ \/ /\ answer[c] = Answer(file[c], listed) \/ listed = "partial"
        /\ thread' = [thread EXCEPT ![c] = "done"]
        /\ UNCHANGED <<process, listed, file, lines>>
     \/ /\ answer[c] # Answer(file[c], listed) \/ ~ServerRuns
        /\ EndsClient("failed")
  /\ UNCHANGED conn
  /\ OnlyClient

(* main has joined all threads. *)
ClientExit ==
  /\ ClientRuns /\ \A c \in Client : thread[c] = "done"
  /\ process' = "exited"
  /\ UNCHANGED <<listed, thread, file, lines, conn>>
  /\ OnlyClient

-----------------------------------------------------------------------------
(* Outside the programs *)

KillClient ==
  /\ process \in {"starting", "running"}
  /\ EndsClient("aborted")
  /\ UNCHANGED conn
  /\ OnlyClient

(* server_shutdown opens the fifo and writes to it; it may end in between. *)
Shutdown ==
  /\ ServerRuns /\ main # "exit"
  /\ \/ fifo = "none" /\ fifo' = "open"
     \/ fifo = "open" /\ fifo' \in {"data", "hup"}
  /\ UNCHANGED <<fileVars, clientVars, server, main, held, backlog, queue, worker, conn, answer>>

MakeFiles ==
  /\ ServerRuns /\ changes < MaxChanges
  /\ FilesNext
  /\ changes' = changes + 1
  /\ UNCHANGED <<serverVars, clientVars, conn, answer>>

Terminated == ~ServerRuns /\ ClientGone /\ UNCHANGED vars

Next ==
  \/ Poll
  \/ ServerRequest
  \/ \E w \in Worker : Handle(w)
  \/ InitFileset
  \/ \E c \in Client : Connect(c) \/ Send(c) \/ ReadAnswer(c)
  \/ ClientExit
  \/ KillClient
  \/ Shutdown
  \/ MakeFiles
  \/ Terminated

(* The threads run; nothing outside them has to happen. *)
Fairness ==
  /\ WF_vars(Poll)
  /\ WF_vars(ServerRequest)
  /\ \A w \in Worker : WF_vars(Handle(w))
  /\ \A c \in Client : WF_vars(Send(c)) /\ WF_vars(ReadAnswer(c))

Spec == Init /\ [][Next]_vars /\ Fairness

-----------------------------------------------------------------------------
WorkerStates ==
  [pc : {"idle", "line", "headers", "spin", "stat", "open", "header", "body",
         "close", "stopped"},
   conn : Client \cup {None}, name : File \cup {None}, seen : States \cup {None},
   data : Run \cup {"mixed", "error", "empty", None}]

Parts ==
  {"header", "body"} \X (File \cup {None}) \X (Run \cup {"mixed", "error", "empty", None})

(* Type invariant. *)
WebTypeOK ==
  /\ disk \in [File -> States] /\ index \in {"partial"} \cup Run
  /\ changes \in 0..MaxChanges
  /\ server \in {"running", "exited", "no connection", "no file", "lost client"}
  /\ main \in {"poll", "request", "exit"}
  /\ held \in Client \cup {None}
  /\ backlog \in Seq(Client) /\ queue \in Seq(Client) /\ Len(queue) <= MaxRequests
  /\ worker \in [Worker -> WorkerStates]
  /\ conn \in [Client -> {"none", "open", "closed"}]
  /\ answer \in [Client -> Seq(Parts)]
  /\ fifo \in {"none", "open", "data", "hup"}
  /\ process \in {"starting", "running", "exited", "failed", "aborted"}
  /\ listed \in Run \cup {"partial", None}
  /\ thread \in [Client -> {"connect", "send", "read", "done"}]
  /\ file \in [Client -> File \cup {None}]
  /\ lines \in [Client -> 0..RequestLines]

(* The connections that were made and not closed are each in one place,    *)
(* once: in the backlog, with the main thread, in the queue, or with one   *)
(* worker; the others are in none, so that nothing is answered or closed   *)
(* twice, or forgotten.                                                    *)
InHand == {worker[w].conn : w \in Worker} \cup {held}

OneOwner ==
  /\ {c \in Client : conn[c] = "open"} =
       Range(backlog) \cup Range(queue) \cup (InHand \ {None})
  /\ IsInjective(backlog) /\ IsInjective(queue)
  /\ Range(backlog) \cap Range(queue) = {}
  /\ InHand \cap (Range(backlog) \cup Range(queue)) = {}
  /\ \A w \in Worker : worker[w].conn # None =>
       /\ worker[w].conn # held
       /\ \A v \in Worker \ {w} : worker[v].conn # worker[w].conn

(* Whatever happens to the files, and whoever else is served, the server   *)
(* writes one answer to a connection, in order, about the file asked for,  *)
(* and its header is about the body that follows.                          *)
AnswersAreOwn ==
  \A c \in Client :
    \E name \in File \cup {None}, data \in Run \cup {"mixed", "error", "empty"} :
      /\ answer[c] \in {<<>>, <<Header(name, data)>>, Answer(name, data)}
      /\ answer[c] # <<>> /\ lines[c] >= 1 => name = file[c]

(* What is outside the programs, and fails them: the client is killed, the *)
(* files are made anew, server_shutdown ends before it writes, or random() *)
(* returns 0.  Without it the server does not fail, and the client only    *)
(* when the server was told to exit.                                       *)
Disturbed ==
  \/ process = "aborted"
  \/ changes > 0
  \/ fifo = "hup"
  \/ FilesOf[index] \cap Unserved # {}

OnlyDisturbed ==
  ~Disturbed =>
    /\ server \in {"running", "exited", "lost client"}
    /\ server = "lost client" => fifo = "data"
    /\ process = "failed" => fifo = "data"

(* A request that was sent is answered, or the server or the client ends.  *)
RequestsEnd ==
  \A c \in Client : thread[c] = "read" ~> (thread[c] # "read" \/ ~ClientRuns)

(* After the shutdown the server ends, unless a worker reads headers for   *)
(* ever.                                                                   *)
Spinning == \E w \in Worker : worker[w].pc = "spin"

ExitsWhenAsked == fifo = "data" ~> (~ServerRuns \/ Spinning)

-----------------------------------------------------------------------------
(* What request.c promises and the code does not keep. *)

(* request_readfile "returns 0 on failure, sends error to client"          *)
(* (request.c:146), whatever keeps it from reading the file.               *)
FailureIsAnswered == server # "no file"

=============================================================================
