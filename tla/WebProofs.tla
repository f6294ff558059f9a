----------------------------- MODULE WebProofs -----------------------------
(***************************************************************************)
(* Theorems about Web: its type invariant, that every open connection is   *)
(* in one place, and that what is written to it is one answer, its own.    *)
(***************************************************************************)
EXTENDS Web, ThreadQueuesProofs

(* What the places say of a connection, and the points of the programs     *)
(* where they say it.                                                      *)
Points ==
  /\ main = "request" <=> held # None
  /\ \A w \in Worker : worker[w].conn = None <=> worker[w].pc \in {"idle", "stopped"}
  /\ \A w \in Worker : worker[w].pc = "open" => worker[w].name \in File
  /\ \A w \in Worker : worker[w].pc = "body" => worker[w].data # "empty"
  /\ \A c \in Client :
       /\ thread[c] = "connect" => conn[c] = "none"
       /\ thread[c] \in {"connect", "send"} => lines[c] = 0
  /\ process = "running" => listed \in Run \cup {"partial"}

(* What a worker has written to its connection. *)
WrittenBy(w) ==
  CASE worker[w].pc = "body"  -> <<Header(worker[w].name, worker[w].data)>>
    [] worker[w].pc = "close" -> Answer(worker[w].name, worker[w].data)
    [] OTHER                  -> <<>>

(* A name is the one that the client sent, or the client is gone.          *)
Asked(c, name) == IF lines[c] >= 1 THEN name = file[c] ELSE ClientGone

Written ==
  /\ \A w \in Worker : worker[w].conn # None => answer[worker[w].conn] = WrittenBy(w)
  /\ \A w \in Worker : worker[w].pc \in {"header", "body", "close"} =>
       worker[w].data \in Run \cup {"mixed", "error", "empty"}
  /\ \A w \in Worker : worker[w].pc \notin {"idle", "stopped", "line"} =>
       Asked(worker[w].conn, worker[w].name)
  /\ \A c \in Client :
       (\A w \in Worker : worker[w].conn # c) /\ conn[c] # "closed" => answer[c] = <<>>
  /\ \A c \in Client : conn[c] = "closed" =>
       \E name \in File \cup {None}, data \in Run \cup {"mixed", "error", "empty"} :
         answer[c] = Answer(name, data) /\ Asked(c, name)

(* OneOwner, connection by connection. *)
Placed(c) ==
  \/ c \in Range(backlog)
  \/ c \in Range(queue)
  \/ c = held
  \/ \E w \in Worker : c = worker[w].conn

Owned ==
  /\ \A c \in Client : conn[c] = "open" <=> Placed(c)
  /\ IsInjective(backlog) /\ IsInjective(queue)
  /\ \A c \in Client :
       /\ c \in Range(backlog) => c \notin Range(queue) /\ c # held
       /\ c \in Range(queue) => c # held
       /\ \A w \in Worker : c = worker[w].conn =>
            /\ c \notin Range(backlog) /\ c \notin Range(queue) /\ c # held
            /\ \A v \in Worker : c = worker[v].conn => v = w

-----------------------------------------------------------------------------

(* The fields of one worker. *)
LEMMA WorkerFields ==
  ASSUME WebTypeOK, NEW w \in Worker
  PROVE  /\ worker[w] \in WorkerStates
         /\ worker[w].conn \in Client \cup {None}
         /\ worker[w].name \in File \cup {None}
         /\ worker[w].data \in Run \cup {"mixed", "error", "empty", None}
<1>1. worker[w] \in WorkerStates
  BY DEF WebTypeOK
<1> QED BY <1>1 DEF WorkerStates

(* Connection by connection, it is OneOwner.                             *)
LEMMA OwnedIsOneOwner ==
  ASSUME WebTypeOK, Owned
  PROVE  OneOwner
<1>1. Range(backlog) \subseteq Client /\ Range(queue) \subseteq Client
  BY RangeAt DEF WebTypeOK
<1>2. \A w \in Worker : worker[w].conn \in Client \cup {None}
  BY WorkerFields
<1>3. held \in Client \cup {None} /\ None \notin Client
  BY WebAssumption DEF WebTypeOK
<1>4. {c \in Client : conn[c] = "open"} =
        Range(backlog) \cup Range(queue) \cup (InHand \ {None})
  BY <1>1, <1>2, <1>3 DEF Owned, Placed, InHand
<1>5. InHand \cap (Range(backlog) \cup Range(queue)) = {}
  BY <1>1, <1>2, <1>3 DEF Owned, InHand
<1>6. Range(backlog) \cap Range(queue) = {}
  BY <1>1 DEF Owned
<1>7. \A w \in Worker : worker[w].conn # None =>
        /\ worker[w].conn # held
        /\ \A v \in Worker \ {w} : worker[v].conn # worker[w].conn
  BY <1>2 DEF Owned
<1> QED BY <1>4, <1>5, <1>6, <1>7 DEF OneOwner, Owned

-----------------------------------------------------------------------------
(* The type invariant. *)

(* A worker that goes on. *)
LEMMA WorkerField ==
  ASSUME WebTypeOK, NEW w \in Worker,
         NEW pc \in {"line", "headers", "spin", "stat", "open", "header", "body",
                    "close", "stopped"}
  PROVE  [worker EXCEPT ![w].pc = pc] \in [Worker -> WorkerStates]
<1>1. worker \in [Worker -> WorkerStates]
  BY DEF WebTypeOK
<1>2. [worker[w] EXCEPT !.pc = pc] \in WorkerStates
  BY <1>1 DEF WorkerStates
<1> QED BY <1>1, <1>2

(* The initial state has the types.                                      *)
LEMMA WebTypeInit ==
  ASSUME Init
  PROVE  WebTypeOK
<1>1. Idle \in WorkerStates
  BY DEF Idle, WorkerStates
<1>2. worker \in [Worker -> WorkerStates]
  BY <1>1 DEF Init
<1>3. disk \in [File -> States] /\ index \in Run
  BY DEF Init, FilesInit
<1>4. backlog \in Seq(Client) /\ queue \in Seq(Client) /\ Len(queue) <= MaxRequests
  BY WebAssumption DEF Init
<1>5. answer \in [Client -> Seq(Parts)]
  BY DEF Init
<1> QED BY <1>2, <1>3, <1>4, <1>5, WebAssumption DEF Init, WebTypeOK, WorkerStates, RequestLines

(* A queue after append and after Tail. *)
LEMMA QueueTypes ==
  ASSUME WebTypeOK
  PROVE  /\ \A c \in Client : Append(backlog, c) \in Seq(Client)
         /\ \A c \in Client : Len(queue) < MaxRequests =>
              Append(queue, c) \in Seq(Client) /\ Len(Append(queue, c)) <= MaxRequests
         /\ backlog # <<>> => Head(backlog) \in Client /\ Tail(backlog) \in Seq(Client)
         /\ queue # <<>> =>
              /\ Head(queue) \in Client /\ Tail(queue) \in Seq(Client)
              /\ Len(Tail(queue)) <= MaxRequests
<1> backlog \in Seq(Client) /\ queue \in Seq(Client)
  BY DEF WebTypeOK
<1>1. ASSUME NEW c \in Client
      PROVE  /\ Append(backlog, c) \in Seq(Client)
             /\ Append(queue, c) \in Seq(Client)
             /\ Len(Append(queue, c)) = Len(queue) + 1
  BY AppendProperties
<1>2. Len(queue) \in Nat /\ MaxRequests \in Nat
  BY LenProperties, WebAssumption DEF WebTypeOK
<1>3. backlog # <<>> => Head(backlog) \in Client /\ Tail(backlog) \in Seq(Client)
  BY HeadTailProperties DEF WebTypeOK
<1>4. queue # <<>> =>
        /\ Head(queue) \in Client /\ Tail(queue) \in Seq(Client)
        /\ Len(Tail(queue)) = Len(queue) - 1
  BY HeadTailProperties DEF WebTypeOK
<1>5. Len(queue) <= MaxRequests
  BY DEF WebTypeOK
<1> QED BY <1>1, <1>2, <1>3, <1>4, <1>5

(* Steps of the main thread, and of what is outside, keep the types.     *)
LEMMA WebTypeMain ==
  ASSUME WebTypeOK, Points, Poll \/ ServerRequest \/ Shutdown \/ MakeFiles
  PROVE  WebTypeOK'
<1>1. CASE Poll
  BY ZenonT(60), <1>1, QueueTypes DEF Poll, WebTypeOK, clientVars, fileVars, States
<1>2. CASE ServerRequest
  <2>1. held \in Client
    BY <1>2 DEF ServerRequest, Points, WebTypeOK
  <2> QED BY ZenonT(60), <1>2, <2>1, QueueTypes
          DEF ServerRequest, WebTypeOK, clientVars, fileVars, States
<1>3. CASE Shutdown
  BY ZenonT(60), <1>3 DEF Shutdown, WebTypeOK, clientVars, fileVars, States
<1>4. CASE MakeFiles
  <2>1. /\ disk \in [File -> States] /\ index \in {"partial"} \cup Run
        /\ changes \in 0..MaxChanges /\ MaxChanges \in Nat
    BY WebAssumption DEF WebTypeOK
  <2>2. disk' \in [File -> States] /\ index' \in {"partial"} \cup Run
    BY <1>4, <2>1 DEF MakeFiles, FilesNext, ChangeFile, ChangeIndex, States
  <2>3. changes' \in 0..MaxChanges
    BY <1>4, <2>1 DEF MakeFiles
  <2> QED BY ZenonT(60), <1>4, <2>2, <2>3 DEF MakeFiles, WebTypeOK, clientVars, serverVars, States
<1> QED BY <1>1, <1>2, <1>3, <1>4

(* Steps of the client keep the types.                                   *)
LEMMA WebTypeClient ==
  ASSUME WebTypeOK, Points,
         \/ InitFileset \/ ClientExit \/ KillClient
         \/ \E c \in Client : Connect(c) \/ Send(c) \/ ReadAnswer(c)
  PROVE  WebTypeOK'
<1>0. /\ backlog \in Seq(Client)
      /\ conn \in [Client -> {"none", "open", "closed"}]
      /\ listed \in Run \cup {"partial", None}
      /\ thread \in [Client -> {"connect", "send", "read", "done"}]
      /\ file \in [Client -> File \cup {None}]
      /\ lines \in [Client -> 0..RequestLines]
      /\ process \in {"starting", "running", "exited", "failed", "aborted"}
  BY DEF WebTypeOK
<1>1. ASSUME NEW why \in {"failed", "aborted"}, EndsClient(why)
      PROVE  /\ process' \in {"failed", "aborted"}
             /\ lines' \in [Client -> 0..RequestLines]
             /\ thread' \in [Client -> {"connect", "send", "read", "done"}]
             /\ listed' = listed /\ file' = file
  BY <1>1 DEF EndsClient
<1> DEFINE ClientTypes ==
      /\ conn' \in [Client -> {"none", "open", "closed"}]
      /\ process' \in {"starting", "running", "exited", "failed", "aborted"}
      /\ listed' \in Run \cup {"partial", None}
      /\ thread' \in [Client -> {"connect", "send", "read", "done"}]
      /\ file' \in [Client -> File \cup {None}]
      /\ lines' \in [Client -> 0..RequestLines]
<1>2. ASSUME InitFileset \/ ClientExit \/ KillClient
      PROVE  ClientTypes /\ OnlyClient
  <2>1. CASE InitFileset
    BY <1>1, <2>1 DEF InitFileset, WebTypeOK
  <2>2. CASE ClientExit
    BY <2>2 DEF ClientExit, WebTypeOK
  <2>3. CASE KillClient
    BY <1>1, <2>3 DEF KillClient, WebTypeOK
  <2> QED BY <1>2, <2>1, <2>2, <2>3
<1>3. ASSUME NEW c \in Client, Send(c) \/ ReadAnswer(c)
      PROVE  ClientTypes /\ OnlyClient
  <2>1. CASE Send(c)
    <3>1. RequestLines \in 0..RequestLines
      BY DEF RequestLines
    <3>2. CASE /\ lines' = [lines EXCEPT ![c] = RequestLines]
               /\ thread' = [thread EXCEPT ![c] = "read"]
               /\ UNCHANGED <<process, listed, file>>
      BY <1>0, <2>1, <3>1, <3>2 DEF Send
    <3>3. CASE EndsClient("failed")
      BY <1>0, <1>1, <2>1, <3>3 DEF Send
    <3> QED BY <2>1, <3>2, <3>3 DEF Send
  <2>2. CASE ReadAnswer(c)
    BY <1>1, <2>2 DEF ReadAnswer, WebTypeOK
  <2> QED BY <1>3, <2>1, <2>2
<1>4. ASSUME NEW c \in Client, Connect(c)
      PROVE  ClientTypes /\ backlog' \in Seq(Client)
  <2>1. Listed \in SUBSET (File \cup {None})
    BY <1>4, FilesAssumption DEF Connect, ClientRuns, Points, Listed
  <2>2. backlog' \in Seq(Client)
    BY ZenonT(60), <1>0, <1>4, QueueTypes DEF Connect
  <2>3. CASE \E f \in Listed :
               /\ file' = [file EXCEPT ![c] = f]
               /\ thread' = [thread EXCEPT ![c] = "send"]
               /\ conn' = [conn EXCEPT ![c] = "open"]
               /\ UNCHANGED <<process, listed, lines>>
    BY <1>0, <2>1, <2>2, <2>3
  <2>4. CASE \E why \in {"failed", "aborted"} : EndsClient(why) /\ UNCHANGED conn
    BY <1>0, <1>1, <2>2, <2>4
  <2> QED BY <1>4, <2>2, <2>3, <2>4 DEF Connect
<1>5. CASE OnlyClient /\ ClientTypes
  BY <1>5 DEF OnlyClient, fileVars, serverVars, WebTypeOK
<1>6. ASSUME NEW c \in Client, Connect(c)
      PROVE  WebTypeOK'
  BY <1>4, <1>6 DEF Connect, fileVars, WebTypeOK
<1> QED BY <1>2, <1>3, <1>5, <1>6

(* What the steps of a worker leave of its record. *)
LEMMA WebTypeWorker ==
  ASSUME WebTypeOK, Points, NEW w \in Worker, Handle(w)
  PROVE  WebTypeOK'
<1> DEFINE WorkerTypes ==
      /\ worker' \in [Worker -> WorkerStates]
      /\ server' \in {"running", "exited", "no connection", "no file", "lost client"}
<1>1. /\ Idle \in WorkerStates /\ worker \in [Worker -> WorkerStates]
      /\ server \in {"running", "exited", "no connection", "no file", "lost client"}
  BY DEF Idle, WorkerStates, WebTypeOK
<1>11. ASSUME NEW pc \in {"stat", "spin", "body", "close"}, Goes(w, pc)
      PROVE  worker' \in [Worker -> WorkerStates]
  BY <1>11, WorkerField DEF Goes
<1>2. CASE Take(w)
  <2>1. [Idle EXCEPT !.pc = "line", !.conn = Head(queue)] \in WorkerStates
    BY <1>2, QueueTypes DEF Take, Idle, WorkerStates
  <2>2. WorkerTypes
    BY <1>1, <1>2, <2>1 DEF Take, WebTypeOK
  <2> QED BY ZenonT(60), <1>2, <2>2, QueueTypes DEF Take, clientVars, fileVars, WebTypeOK
<1>3. CASE ReadLine(w)
  <2>1. ASSUME NEW f \in File \cup {None}
        PROVE  [worker[w] EXCEPT !.pc = "headers", !.name = f] \in WorkerStates
    BY <1>1 DEF WorkerStates
  <2>2. [worker[w] EXCEPT !.pc = "header", !.data = "error"] \in WorkerStates
    BY <1>1 DEF WorkerStates
  <2>3. lines[worker[w].conn] >= 1 => file[worker[w].conn] \in File \cup {None}
    <3>1. worker[w].conn \in Client
      BY <1>1, <1>3 DEF ReadLine, Points, WorkerStates
    <3> QED BY <3>1 DEF WebTypeOK
  <2>4. WorkerTypes
    BY <1>1, <1>3, <2>1, <2>2, <2>3 DEF ReadLine, ExitsServer, WebTypeOK
  <2> QED BY <1>3, <2>4 DEF ReadLine, OnlyWorker, clientVars, fileVars, WebTypeOK
<1>4. CASE ReadHeaders(w)
  <2>1. WorkerTypes
    BY <1>1, <1>11, <1>4 DEF ReadHeaders, ExitsServer
  <2> QED BY <1>4, <2>1 DEF ReadHeaders, OnlyWorker, clientVars, fileVars, WebTypeOK
<1>5. CASE Spin(w)
  <2>1. UNCHANGED <<disk, index, changes, server, main, held, backlog, queue, worker, conn,
                    answer, fifo, process, listed, thread, file, lines>>
    BY <1>5 DEF Spin, vars, clientVars, fileVars, serverVars
  <2> QED BY ZenonT(60), <2>1 DEF WebTypeOK
<1>6. CASE Stat(w)
  <2>1. ASSUME NEW d \in {"error", "empty"}
        PROVE  [worker[w] EXCEPT !.pc = "header", !.data = d] \in WorkerStates
    BY <1>1 DEF WorkerStates
  <2>2. ASSUME NEW s \in States
        PROVE  [worker[w] EXCEPT !.pc = "open", !.seen = s] \in WorkerStates
    BY <1>1 DEF WorkerStates
  <2>3. worker[w].name \in File => disk[worker[w].name] \in States
    BY DEF WebTypeOK
  <2>4. WorkerTypes
    BY <1>1, <1>6, <2>1, <2>2, <2>3 DEF Stat, WebTypeOK
  <2> QED BY <1>6, <2>4 DEF Stat, OnlyWorker, clientVars, fileVars, WebTypeOK
<1>7. CASE OpenAndRead(w)
  <2>1. ASSUME NEW d \in Run \cup {"mixed"}
        PROVE  [worker[w] EXCEPT !.pc = "header", !.seen = None, !.data = d] \in WorkerStates
    BY <1>1 DEF WorkerStates
  <2>2. ASSUME NEW s, NEW n PROVE Contents(s, n) \in Run \cup {"mixed"}
    BY DEF Contents
  <2>3. ASSUME ExitsServer("no file") PROVE WorkerTypes
    BY <1>1, <2>3 DEF ExitsServer
  <2>4. ASSUME worker' = [worker EXCEPT ![w].pc = "header", ![w].seen = None,
                 ![w].data = Contents(worker[w].seen, disk[worker[w].name])],
               UNCHANGED server
        PROVE  WorkerTypes
    BY <1>1, <2>1, <2>2, <2>4
  <2>5. WorkerTypes
    BY <1>7, <2>3, <2>4 DEF OpenAndRead
  <2> QED BY <1>7, <2>5 DEF OpenAndRead, OnlyWorker, clientVars, fileVars, WebTypeOK
<1>8. CASE SendHeader(w) \/ SendBody(w)
  <2>1. WorkerTypes
    BY <1>1, <1>11, <1>8 DEF SendHeader, SendBody, WriteTo, ExitsServer
  <2>2. answer' \in [Client -> Seq(Parts)]
    <3>1. answer \in [Client -> Seq(Parts)]
      BY DEF WebTypeOK
    <3>2. ASSUME NEW part \in {"header", "body"},
                 answer' = [answer EXCEPT ![worker[w].conn] =
                              Append(@, <<part, worker[w].name, worker[w].data>>)]
          PROVE  answer' \in [Client -> Seq(Parts)]
      <4>1. <<part, worker[w].name, worker[w].data>> \in Parts
        BY WorkerFields DEF Parts
      <4>2. \A c \in Client : Append(answer[c], <<part, worker[w].name, worker[w].data>>) \in Seq(Parts)
        BY <3>1, <4>1, AppendProperties
      <4> QED BY <3>1, <3>2, <4>2
    <3> QED BY <1>8, <3>1, <3>2 DEF SendHeader, SendBody, WriteTo
  <2> QED BY <1>8, <2>1, <2>2 DEF SendHeader, SendBody, WriteTo, clientVars, fileVars, WebTypeOK
<1>9. CASE Destroy(w)
  <2>1. WorkerTypes
    BY <1>1, <1>9 DEF Destroy, WebTypeOK
  <2> QED BY <1>9, <2>1 DEF Destroy, clientVars, fileVars, WebTypeOK
<1>10. CASE Stop(w)
  <2>1. WorkerTypes
    BY <1>1, <1>10, WorkerField DEF Stop
  <2> QED BY <1>10, <2>1 DEF Stop, clientVars, fileVars, WebTypeOK
<1> QED BY <1>2, <1>3, <1>4, <1>5, <1>6, <1>7, <1>8, <1>9, <1>10 DEF Handle

(* Every step keeps the types.                                           *)
LEMMA WebTypeStep ==
  ASSUME WebTypeOK, Points, [Next]_vars
  PROVE  WebTypeOK'
<1>1. CASE UNCHANGED vars
  <2>1. UNCHANGED <<fileVars, serverVars, clientVars, conn, answer>>
    BY <1>1 DEF vars
  <2>2. /\ UNCHANGED <<disk, index, changes, server, main, held, backlog, queue, worker, fifo>>
        /\ UNCHANGED <<process, listed, thread, file, lines, conn, answer>>
    BY <2>1 DEF clientVars, fileVars, serverVars
  <2>3. /\ worker' \in [Worker -> WorkerStates] /\ answer' \in [Client -> Seq(Parts)]
        /\ disk' \in [File -> States] /\ index' \in {"partial"} \cup Run
        /\ backlog' \in Seq(Client) /\ queue' \in Seq(Client) /\ Len(queue') <= MaxRequests
        /\ lines' \in [Client -> 0..RequestLines] /\ file' \in [Client -> File \cup {None}]
    BY <2>2 DEF WebTypeOK
  <2> QED BY ZenonT(60), <2>2, <2>3 DEF WebTypeOK
<1>2. CASE Terminated
  BY <1>1, <1>2 DEF Terminated
<1> QED BY <1>1, <1>2, WebTypeMain, WebTypeClient, WebTypeWorker DEF Next

-----------------------------------------------------------------------------
(* What a step of a worker leaves of the records.                         *)

OnlyRecord(w) ==
  /\ worker'[w].conn = worker[w].conn
  /\ \A v \in Worker \ {w} : worker'[v] = worker[v]

(* A worker that only goes on.                                           *)
LEMMA GoesFields ==
  ASSUME WebTypeOK, NEW w \in Worker, NEW pc, worker' = [worker EXCEPT ![w].pc = pc]
  PROVE  /\ OnlyRecord(w)
         /\ worker'[w].pc = pc
         /\ worker'[w].name = worker[w].name
         /\ worker'[w].data = worker[w].data
<1>1. worker \in [Worker -> WorkerStates] /\ worker[w] \in WorkerStates
  BY DEF WebTypeOK
<1>2. /\ worker'[w] = [worker[w] EXCEPT !.pc = pc]
      /\ \A v \in Worker \ {w} : worker'[v] = worker[v]
  BY <1>1
<1> QED BY <1>1, <1>2 DEF OnlyRecord, WorkerStates

(* request_init: the name is the one that was sent, or the client is gone. *)
LEMMA ReadLineFields ==
  ASSUME WebTypeOK, NEW w \in Worker, ReadLine(w)
  PROVE  /\ OnlyRecord(w)
         /\ \/ worker' = worker
            \/ /\ worker'[w].pc = "headers"
               /\ Asked(worker[w].conn, worker'[w].name)
            \/ /\ worker'[w].pc = "header" /\ worker'[w].data = "error"
               /\ Asked(worker[w].conn, worker'[w].name)
<1> DEFINE c == worker[w].conn
<1>1. worker \in [Worker -> WorkerStates] /\ worker[w] \in WorkerStates
  BY DEF WebTypeOK
<1>2. ASSUME NEW f, worker' = [worker EXCEPT ![w].pc = "headers", ![w].name = f]
      PROVE  OnlyRecord(w) /\ worker'[w].pc = "headers" /\ worker'[w].name = f
  <2>1. /\ worker'[w] = [worker[w] EXCEPT !.pc = "headers", !.name = f]
        /\ \A v \in Worker \ {w} : worker'[v] = worker[v]
    BY <1>1, <1>2
  <2> QED BY <1>1, <2>1 DEF OnlyRecord, WorkerStates
<1>3. ASSUME worker' = [worker EXCEPT ![w].pc = "header", ![w].data = "error"]
      PROVE  OnlyRecord(w) /\ worker'[w].pc = "header" /\ worker'[w].data = "error"
  <2>1. /\ worker'[w] = [worker[w] EXCEPT !.pc = "header", !.data = "error"]
        /\ \A v \in Worker \ {w} : worker'[v] = worker[v]
    BY <1>1, <1>3
  <2> QED BY <1>1, <2>1 DEF OnlyRecord, WorkerStates
<1>4. ASSUME worker' = worker
      PROVE  OnlyRecord(w)
  BY <1>4 DEF OnlyRecord
<1>5. CASE lines[c] >= 1 /\ worker' = [worker EXCEPT ![w].pc = "headers", ![w].name = file[c]]
  BY <1>2, <1>5 DEF Asked
<1>6. CASE lines[c] = 0 /\ ClientGone
  <2>1. \A name : Asked(c, name)
    BY <1>6 DEF Asked
  <2>2. CASE \E f \in File \cup {None} : worker' = [worker EXCEPT ![w].pc = "headers", ![w].name = f]
    <3>1. PICK f \in File \cup {None} : worker' = [worker EXCEPT ![w].pc = "headers", ![w].name = f]
      BY <2>2
    <3> QED BY <1>2, <2>1, <3>1
  <2>3. CASE worker' = [worker EXCEPT ![w].pc = "header", ![w].data = "error"]
    BY <1>3, <2>1, <2>3
  <2>4. CASE worker' = worker
    BY <1>4, <2>4
  <2>5. ~(lines[c] >= 1)
    BY <1>6
  <2>6. \/ lines[c] >= 1
        \/ \E f \in File \cup {None} : worker' = [worker EXCEPT ![w].pc = "headers", ![w].name = f]
        \/ worker' = [worker EXCEPT ![w].pc = "header", ![w].data = "error"]
        \/ worker' = worker
    BY DEF ReadLine, ExitsServer
  <2> HIDE DEF c
  <2> QED BY <2>2, <2>3, <2>4, <2>5, <2>6
<1>7. CASE worker' = worker
  BY <1>4, <1>7
<1> QED BY <1>5, <1>6, <1>7 DEF ReadLine, ExitsServer

(* request_readfile up to stat.                                          *)
LEMMA StatFields ==
  ASSUME WebTypeOK, NEW w \in Worker, Stat(w)
  PROVE  /\ OnlyRecord(w)
         /\ worker'[w].name = worker[w].name
         /\ \/ worker'[w].pc = "open"
            \/ worker'[w].pc = "header" /\ worker'[w].data \in {"error", "empty"}
<1>1. worker \in [Worker -> WorkerStates] /\ worker[w] \in WorkerStates
  BY DEF WebTypeOK
<1>2. ASSUME NEW d, worker' = [worker EXCEPT ![w].pc = "header", ![w].data = d]
      PROVE  /\ OnlyRecord(w) /\ worker'[w].name = worker[w].name
             /\ worker'[w].pc = "header" /\ worker'[w].data = d
  <2>1. /\ worker'[w] = [worker[w] EXCEPT !.pc = "header", !.data = d]
        /\ \A v \in Worker \ {w} : worker'[v] = worker[v]
    BY <1>1, <1>2
  <2> QED BY <1>1, <2>1 DEF OnlyRecord, WorkerStates
<1>3. ASSUME NEW s, worker' = [worker EXCEPT ![w].pc = "open", ![w].seen = s]
      PROVE  /\ OnlyRecord(w) /\ worker'[w].name = worker[w].name
             /\ worker'[w].pc = "open"
  <2>1. /\ worker'[w] = [worker[w] EXCEPT !.pc = "open", !.seen = s]
        /\ \A v \in Worker \ {w} : worker'[v] = worker[v]
    BY <1>1, <1>3
  <2> QED BY <1>1, <2>1 DEF OnlyRecord, WorkerStates
<1> QED BY <1>2, <1>3 DEF Stat

(* request_readfile from open on: what was read is the file of a run or mixed. *)
LEMMA OpenAndReadFields ==
  ASSUME WebTypeOK, NEW w \in Worker, OpenAndRead(w)
  PROVE  /\ OnlyRecord(w)
         /\ \/ worker' = worker
            \/ /\ worker'[w].name = worker[w].name
               /\ worker'[w].pc = "header" /\ worker'[w].data \in Run \cup {"mixed"}
<1>1. worker \in [Worker -> WorkerStates] /\ worker[w] \in WorkerStates
  BY DEF WebTypeOK
<1>2. ASSUME NEW d, worker' = [worker EXCEPT ![w].pc = "header", ![w].seen = None, ![w].data = d]
      PROVE  /\ OnlyRecord(w) /\ worker'[w].name = worker[w].name
             /\ worker'[w].pc = "header" /\ worker'[w].data = d
  <2>1. /\ worker'[w] = [worker[w] EXCEPT !.pc = "header", !.seen = None, !.data = d]
        /\ \A v \in Worker \ {w} : worker'[v] = worker[v]
    BY <1>1, <1>2
  <2> QED BY <1>1, <2>1 DEF OnlyRecord, WorkerStates
<1>3. ASSUME NEW s, NEW n PROVE Contents(s, n) \in Run \cup {"mixed"}
  BY DEF Contents
<1>4. CASE worker' = worker
  BY <1>4 DEF OnlyRecord
<1> DEFINE read == Contents(worker[w].seen, disk[worker[w].name])
<1>5. CASE worker' = [worker EXCEPT ![w].pc = "header", ![w].seen = None, ![w].data = read]
  <2>1. read \in Run \cup {"mixed"}
    BY <1>3
  <2> HIDE DEF read
  <2> QED BY <1>2, <1>5, <2>1
<1> QED BY <1>4, <1>5 DEF OpenAndRead, ExitsServer

(* Points. *)

(* The initial state has Points.                                         *)
LEMMA PointsInit ==
  ASSUME Init
  PROVE  Points
  BY WebAssumption DEF Init, Idle, Points

(* The parts of Points, each with the variables that it is about. *)
LEMMA PointsKept ==
  ASSUME Points
  PROVE  /\ UNCHANGED <<main, held>> => (main = "request" <=> held # None)'
         /\ UNCHANGED worker =>
              /\ \A w \in Worker : (worker[w].conn = None <=> worker[w].pc \in {"idle", "stopped"})'
              /\ \A w \in Worker : (worker[w].pc = "open" => worker[w].name \in File)'
              /\ \A w \in Worker : (worker[w].pc = "body" => worker[w].data # "empty")'
         /\ UNCHANGED <<thread, conn>> => \A c \in Client : (thread[c] = "connect" => conn[c] = "none")'
         /\ UNCHANGED <<thread, lines>> =>
              \A c \in Client : (thread[c] \in {"connect", "send"} => lines[c] = 0)'
         /\ UNCHANGED <<process, listed>> => (process = "running" => listed \in Run \cup {"partial"})'
  BY DEF Points

(* The main thread holds a connection between accept and server_request. *)
LEMMA PointsMain ==
  ASSUME WebTypeOK, Points, Poll \/ ServerRequest \/ Shutdown \/ MakeFiles
  PROVE  Points'
<1>1. CASE Poll
  <2>1. (main = "request" <=> held # None)'
    BY <1>1, QueueTypes, WebAssumption DEF Poll, Points
  <2> QED BY <1>1, <2>1, PointsKept DEF Poll, clientVars, Points
<1>2. CASE ServerRequest
  BY <1>2, PointsKept DEF ServerRequest, clientVars, Points
<1>3. CASE Shutdown
  BY <1>3, PointsKept DEF Shutdown, clientVars, Points
<1>4. CASE MakeFiles
  BY <1>4, PointsKept DEF MakeFiles, clientVars, serverVars, Points
<1> QED BY <1>1, <1>2, <1>3, <1>4

(* The client reads the index before its threads connect, each once.     *)
LEMMA PointsClient ==
  ASSUME WebTypeOK, Points,
         \/ InitFileset \/ ClientExit \/ KillClient
         \/ \E c \in Client : Connect(c) \/ Send(c) \/ ReadAnswer(c)
  PROVE  Points'
<1>1. thread \in [Client -> {"connect", "send", "read", "done"}]
      /\ conn \in [Client -> {"none", "open", "closed"}]
      /\ lines \in [Client -> 0..RequestLines]
      /\ index \in {"partial"} \cup Run
  BY DEF WebTypeOK
<1>2. ASSUME NEW why \in {"failed", "aborted"}, EndsClient(why)
      PROVE  /\ process' # "running"
             /\ \A c \in Client : thread'[c] \notin {"connect", "send"}
  BY <1>2 DEF EndsClient
<1> DEFINE Goal == /\ \A c \in Client : (thread[c] = "connect" => conn[c] = "none")'
                   /\ \A c \in Client : (thread[c] \in {"connect", "send"} => lines[c] = 0)'
                   /\ (process = "running" => listed \in Run \cup {"partial"})'
<1>3. UNCHANGED <<main, held, worker>>
  BY DEF InitFileset, ClientExit, KillClient, Connect, Send, ReadAnswer, OnlyClient, serverVars
<1>4. ASSUME InitFileset \/ ClientExit \/ KillClient
      PROVE  Goal
  BY <1>1, <1>2, <1>4 DEF InitFileset, ClientExit, KillClient, Points
<1>5. ASSUME NEW c \in Client, Connect(c)
      PROVE  Goal
  BY <1>1, <1>2, <1>5 DEF Connect, Points
<1>6. ASSUME NEW c \in Client, Send(c)
      PROVE  Goal
  BY <1>1, <1>2, <1>6 DEF Send, Points
<1>7. ASSUME NEW c \in Client, ReadAnswer(c)
      PROVE  Goal
  BY <1>1, <1>2, <1>7 DEF ReadAnswer, Points
<1>8. Goal
  BY <1>4, <1>5, <1>6, <1>7
<1> QED BY <1>3, <1>8, PointsKept DEF Points

(* A worker has a connection while it handles a request.                 *)
LEMMA PointsWorker ==
  ASSUME WebTypeOK, Points, Owned, NEW w \in Worker, Handle(w)
  PROVE  Points'
<1> DEFINE At(v) ==
      /\ worker[v].conn = None <=> worker[v].pc \in {"idle", "stopped"}
      /\ worker[v].pc = "open" => worker[v].name \in File
      /\ worker[v].pc = "body" => worker[v].data # "empty"
<1>1. /\ \A v \in Worker : At(v)
      /\ worker \in [Worker -> WorkerStates]
      /\ worker[w] \in WorkerStates
  BY DEF Points, WebTypeOK
<1>2. UNCHANGED <<main, held, thread, lines, process, listed>>
  BY DEF Handle, Take, ReadLine, ReadHeaders, Spin, Stat, OpenAndRead, SendHeader, SendBody,
       WriteTo, Destroy, Stop, OnlyWorker, vars, clientVars, serverVars
<1>3. \A c \in Client : (thread[c] = "connect" => conn[c] = "none")'
  <2>1. CASE Destroy(w)
    <3>1. conn \in [Client -> {"none", "open", "closed"}] /\ worker[w].conn \in Client
      <4>1. worker[w].conn \in Client \cup {None} /\ worker[w].pc = "close"
        BY <2>1, WorkerFields DEF Destroy
      <4> QED BY <1>1, <4>1 DEF WebTypeOK
    <3>2. conn[worker[w].conn] = "open"
      BY <3>1 DEF Owned, Placed
    <3> QED BY <1>2, <2>1, <3>1, <3>2 DEF Destroy, Points
  <2>2. CASE ~Destroy(w)
    <3>1. UNCHANGED conn
      BY <2>2 DEF Handle, Take, ReadLine, ReadHeaders, Spin, Stat, OpenAndRead, SendHeader,
           SendBody, WriteTo, Stop, OnlyWorker, vars
    <3> QED BY <1>2, <3>1, PointsKept
  <2> QED BY <2>1, <2>2
<1>4. ASSUME NEW v \in Worker, v # w
      PROVE  At(v)'
  <2>1. worker'[v] = worker[v]
    BY <1>1, <1>4 DEF Handle, Take, ReadLine, ReadHeaders, Spin, Stat, OpenAndRead, SendHeader,
         SendBody, WriteTo, Destroy, Stop, Goes, ExitsServer, vars, serverVars
  <2> QED BY <1>1, <2>1
<1>5. ASSUME NEW pc \in {"stat", "spin", "body", "close"}, Goes(w, pc),
             worker[w].pc \notin {"idle", "stopped"},
             pc = "body" => worker[w].data # "empty"
      PROVE  At(w)'
  BY <1>1, <1>5 DEF Goes, WorkerStates
<1>6. At(w)'
  <2>1. CASE Take(w)
    <3>1. worker'[w].conn \in Client /\ worker'[w].pc = "line"
      BY <1>1, <2>1, QueueTypes DEF Take, Idle
    <3> QED BY <3>1, WebAssumption
  <2>2. CASE ReadLine(w)
    <3>1. ASSUME NEW f, worker' = [worker EXCEPT ![w].pc = "headers", ![w].name = f]
          PROVE  At(w)'
      <4>1. worker'[w] = [worker[w] EXCEPT !.pc = "headers", !.name = f]
        BY <1>1, <3>1
      <4> QED BY <1>1, <2>2, <4>1 DEF ReadLine, WorkerStates
    <3>2. ASSUME worker' = [worker EXCEPT ![w].pc = "header", ![w].data = "error"]
          PROVE  At(w)'
      <4>1. worker'[w] = [worker[w] EXCEPT !.pc = "header", !.data = "error"]
        BY <1>1, <3>2
      <4> QED BY <1>1, <2>2, <4>1 DEF ReadLine, WorkerStates
    <3>3. ASSUME UNCHANGED worker PROVE At(w)'
      BY <1>1, <3>3
    <3> QED BY <2>2, <3>1, <3>2, <3>3 DEF ReadLine, ExitsServer
  <2>3. CASE ReadHeaders(w)
    BY <1>1, <1>5, <2>3 DEF ReadHeaders, ExitsServer
  <2>4. CASE Spin(w)
    BY <1>1, <2>4 DEF Spin, vars, serverVars
  <2>5. CASE Stat(w)
    BY <1>1, <2>5 DEF Stat, WorkerStates
  <2>6. CASE OpenAndRead(w)
    <3>1. ASSUME NEW d, worker' = [worker EXCEPT ![w].pc = "header", ![w].seen = None, ![w].data = d]
          PROVE  At(w)'
      <4>1. worker'[w] = [worker[w] EXCEPT !.pc = "header", !.seen = None, !.data = d]
        BY <1>1, <3>1
      <4> QED BY <1>1, <2>6, <4>1 DEF OpenAndRead, WorkerStates
    <3>2. ASSUME UNCHANGED worker PROVE At(w)'
      BY <1>1, <3>2
    <3> QED BY <2>6, <3>1, <3>2 DEF OpenAndRead, ExitsServer
  <2>7. CASE SendHeader(w) \/ SendBody(w)
    BY <1>1, <1>5, <2>7 DEF SendHeader, SendBody, WriteTo, ExitsServer
  <2>8. CASE Destroy(w)
    BY <1>1, <2>8 DEF Destroy, Idle
  <2>9. CASE Stop(w)
    BY <1>1, <2>9 DEF Stop, WorkerStates
  <2> QED BY <2>1, <2>2, <2>3, <2>4, <2>5, <2>6, <2>7, <2>8, <2>9 DEF Handle
<1>7. \A v \in Worker : At(v)'
  BY <1>4, <1>6
<1> QED BY <1>2, <1>3, <1>7, PointsKept DEF Points

(* Owned: a step moves a connection from one place to the next, or none.   *)

(* There are no connections at first.                                    *)
LEMMA OwnedInit ==
  ASSUME Init
  PROVE  Owned
<1>1. /\ backlog = <<>> /\ queue = <<>> /\ held = None
      /\ conn = [c \in Client |-> "none"]
      /\ \A w \in Worker : worker[w].conn = None
  BY DEF Init, Idle
<1>2. Range(<<>>) = {} /\ IsInjective(<<>>)
  BY DEF Range, IsInjective
<1> QED BY <1>1, <1>2, WebAssumption DEF Owned, Placed

(* Steps that move no connection.                                        *)
LEMMA OwnedKept ==
  ASSUME Owned, UNCHANGED <<backlog, queue, held, conn>>,
         \A w \in Worker : worker'[w].conn = worker[w].conn
  PROVE  Owned'
  BY DEF Owned, Placed

(* accept: from the backlog to the main thread.                          *)
LEMMA OwnedPoll ==
  ASSUME WebTypeOK, Points, Owned, Poll
  PROVE  Owned'
<1>1. CASE UNCHANGED <<backlog, held>>
  BY <1>1, OwnedKept DEF Poll
<1>2. CASE ~UNCHANGED <<backlog, held>>
  <2>1. /\ backlog # <<>> /\ backlog \in Seq(Client)
        /\ held' = Head(backlog) /\ backlog' = Tail(backlog) /\ held = None
        /\ UNCHANGED <<queue, worker, conn>>
    BY <1>2 DEF Poll, Points, WebTypeOK
  <2>2. /\ held' \in Range(backlog) /\ held' \in Client
        /\ Range(backlog) = Range(backlog') \cup {held'}
        /\ IsInjective(backlog) => IsInjective(backlog') /\ held' \notin Range(backlog')
    BY <2>1, PopProperties
  <2> QED BY <2>1, <2>2, WebAssumption DEF Owned, Placed
<1> QED BY <1>1, <1>2

(* server_request: from the main thread to the queue.                    *)
LEMMA OwnedRequest ==
  ASSUME WebTypeOK, Points, Owned, ServerRequest
  PROVE  Owned'
<1>1. /\ held \in Client /\ queue \in Seq(Client)
      /\ queue' = QueuePush(queue, held) /\ held' = None
      /\ UNCHANGED <<backlog, worker, conn>>
  BY DEF ServerRequest, Points, WebTypeOK, QueuePush
<1>2. /\ Range(queue') = Range(queue) \cup {held}
      /\ IsInjective(queue) /\ held \notin Range(queue) => IsInjective(queue')
  BY ZenonT(60), <1>1, PushProperties
<1> QED BY <1>1, <1>2, WebAssumption DEF Owned, Placed

(* open_clientfd: a new connection, in the backlog.                      *)
LEMMA OwnedConnect ==
  ASSUME WebTypeOK, Points, Owned, NEW c \in Client, Connect(c)
  PROVE  Owned'
<1>1. CASE UNCHANGED <<backlog, conn>>
  BY <1>1, OwnedKept DEF Connect
<1>2. CASE ~UNCHANGED <<backlog, conn>>
  <2>1. /\ thread[c] = "connect" /\ backlog \in Seq(Client)
        /\ backlog' = QueuePush(backlog, c)
        /\ conn' = [conn EXCEPT ![c] = "open"]
        /\ conn \in [Client -> {"none", "open", "closed"}]
        /\ UNCHANGED <<held, queue, worker>>
    BY <1>2 DEF Connect, WebTypeOK, QueuePush
  <2>2. ~Placed(c)
    BY <2>1 DEF Points, Owned
  <2>3. /\ Range(backlog') = Range(backlog) \cup {c}
        /\ IsInjective(backlog) /\ c \notin Range(backlog) => IsInjective(backlog')
    BY ZenonT(60), <2>1, PushProperties
  <2> QED BY <2>1, <2>2, <2>3 DEF Owned, Placed
<1> QED BY <1>1, <1>2

(* From the queue to a worker, and from the worker to none.              *)
LEMMA OwnedWorker ==
  ASSUME WebTypeOK, Points, Owned, NEW w \in Worker, Handle(w)
  PROVE  Owned'
<1>1. /\ worker \in [Worker -> WorkerStates] /\ worker[w] \in WorkerStates
      /\ \A v \in Worker : worker[v].conn = None <=> worker[v].pc \in {"idle", "stopped"}
  BY DEF Points, WebTypeOK
<1>2. CASE Take(w)
  <2>1. /\ queue # <<>> /\ queue \in Seq(Client) /\ queue' = Tail(queue)
        /\ UNCHANGED <<held, backlog, conn>>
        /\ worker[w].conn = None
    BY <1>1, <1>2 DEF Take, WebTypeOK
  <2>2. /\ worker'[w].conn = Head(queue)
        /\ \A v \in Worker \ {w} : worker'[v] = worker[v]
    BY <1>1, <1>2 DEF Take, Idle
  <2>3. /\ Head(queue) \in Range(queue) /\ Head(queue) \in Client
        /\ Range(queue) = Range(queue') \cup {Head(queue)}
        /\ IsInjective(queue) => IsInjective(queue') /\ Head(queue) \notin Range(queue')
    BY <2>1, PopProperties
  <2> HIDE <1>2
  <2> QED BY <2>1, <2>2, <2>3, WebAssumption DEF Owned, Placed
<1>3. CASE Destroy(w)
  <2>1. /\ worker[w].conn \in Client /\ UNCHANGED <<held, backlog, queue>>
        /\ conn' = [conn EXCEPT ![worker[w].conn] = "closed"]
        /\ conn \in [Client -> {"none", "open", "closed"}]
    BY <1>1, <1>3, WorkerFields DEF Destroy, WebTypeOK
  <2>2. /\ worker'[w].conn = None
        /\ \A v \in Worker \ {w} : worker'[v] = worker[v]
    BY <1>1, <1>3 DEF Destroy, Idle
  <2> QED BY <2>1, <2>2, WebAssumption DEF Owned, Placed
<1>4. CASE ~Take(w) /\ ~Destroy(w)
  <2>1. UNCHANGED <<held, backlog, queue, conn>>
    BY <1>4 DEF Handle, ReadLine, ReadHeaders, Spin, Stat, OpenAndRead, SendHeader, SendBody,
         WriteTo, Stop, OnlyWorker, vars, serverVars
  <2>2. ASSUME NEW pc, Goes(w, pc)
        PROVE  OnlyRecord(w)
    BY <2>2, GoesFields DEF Goes
  <2>3. CASE UNCHANGED worker
    BY <2>1, <2>3, OwnedKept
  <2>4. CASE ReadHeaders(w) \/ SendHeader(w) \/ SendBody(w) \/ Stop(w)
    <3>1. UNCHANGED worker \/ OnlyRecord(w)
      BY <2>2, <2>4 DEF ReadHeaders, SendHeader, SendBody, WriteTo, Stop, Goes, ExitsServer
    <3> QED BY <2>1, <2>3, <3>1, OwnedKept DEF OnlyRecord
  <2>5. CASE ReadLine(w) \/ Stat(w) \/ OpenAndRead(w)
    <3>1. OnlyRecord(w)
      BY <2>5, ReadLineFields, StatFields, OpenAndReadFields
    <3> QED BY <2>1, <3>1, OwnedKept DEF OnlyRecord
  <2>6. CASE Spin(w)
    BY <2>3, <2>6 DEF Spin, vars, serverVars
  <2> QED BY <1>4, <2>4, <2>5, <2>6 DEF Handle
<1> QED BY <1>2, <1>3, <1>4

(* Every step keeps Owned.                                               *)
LEMMA OwnedStep ==
  ASSUME WebTypeOK, Points, Owned, [Next]_vars
  PROVE  Owned'
<1>1. CASE ServerRequest
  BY <1>1, OwnedRequest
<1>2. CASE Poll
  BY <1>2, OwnedPoll
<1>3. ASSUME NEW w \in Worker, Handle(w)
      PROVE  Owned'
  BY <1>3, OwnedWorker
<1>4. ASSUME NEW c \in Client, Connect(c)
      PROVE  Owned'
  BY <1>4, OwnedConnect
<1>5. ASSUME \/ InitFileset \/ ClientExit \/ KillClient \/ Shutdown \/ MakeFiles
             \/ \E c \in Client : Send(c) \/ ReadAnswer(c)
      PROVE  UNCHANGED <<backlog, queue, held, conn, worker>>
  BY <1>5 DEF InitFileset, ClientExit, KillClient, Shutdown, MakeFiles, Send, ReadAnswer,
       OnlyClient, serverVars
<1>6. CASE UNCHANGED vars
  BY <1>6, OwnedKept DEF vars, serverVars
<1> QED BY <1>1, <1>2, <1>3, <1>4, <1>5, <1>6, OwnedKept DEF Next, Terminated

(* Every step keeps Points.                                              *)
LEMMA PointsStep ==
  ASSUME WebTypeOK, Points, Owned, [Next]_vars
  PROVE  Points'
<1>1. CASE UNCHANGED vars
  BY <1>1, PointsKept DEF vars, serverVars, clientVars, Points
<1> QED BY <1>1, PointsMain, PointsClient, PointsWorker DEF Next, Terminated

-----------------------------------------------------------------------------
(* Written. *)

(* Nothing is written at first.                                          *)
LEMMA WrittenInit ==
  ASSUME Init
  PROVE  Written
  BY WebAssumption DEF Init, Idle, Written

(* The client changes neither a line that was sent nor, when it is gone,   *)
(* one that was not.                                                       *)
LEMMA AskedKept ==
  ASSUME WebTypeOK, Points, [Next]_vars,
         NEW c \in Client, thread[c] # "connect", NEW name, Asked(c, name)
  PROVE  Asked(c, name)'
<1>1. /\ lines \in [Client -> 0..RequestLines] /\ file \in [Client -> File \cup {None}]
      /\ thread[c] = "send" => lines[c] = 0
  BY DEF WebTypeOK, Points
<1>2. CASE UNCHANGED <<process, lines, file>>
  BY <1>2 DEF Asked, ClientGone
<1>3. ASSUME NEW why \in {"failed", "aborted"}, EndsClient(why), process \in {"starting", "running"}
      PROVE  Asked(c, name)'
  <2>1. lines[c] >= 1 /\ name = file[c]
    BY <1>3 DEF Asked, ClientGone
  <2>2. lines'[c] = lines[c] /\ file' = file
    BY <1>1, <1>3, <2>1 DEF EndsClient
  <2> QED BY <2>1, <2>2 DEF Asked
<1>4. CASE InitFileset \/ KillClient
  BY <1>2, <1>3, <1>4 DEF InitFileset, KillClient, Asked, ClientGone
<1>5. ASSUME NEW d \in Client, Connect(d)
      PROVE  Asked(c, name)'
  <2>1. CASE \E why \in {"failed", "aborted"} : EndsClient(why)
    BY <1>3, <1>5, <2>1 DEF Connect, ClientRuns
  <2>2. CASE thread[d] = "connect" /\ UNCHANGED <<process, lines>>
             /\ \E f \in Listed : file' = [file EXCEPT ![d] = f]
    BY <1>1, <2>2 DEF Asked, ClientGone
  <2> QED BY <1>5, <2>1, <2>2 DEF Connect
<1>6. ASSUME NEW d \in Client, Send(d)
      PROVE  Asked(c, name)'
  <2>1. CASE EndsClient("failed")
    BY <1>3, <1>6, <2>1 DEF Send, ClientRuns
  <2>2. CASE lines' = [lines EXCEPT ![d] = RequestLines] /\ UNCHANGED <<process, file>>
    <3>1. process = "running"
      BY <1>6 DEF Send, ClientRuns
    <3>2. lines[c] >= 1 /\ name = file[c]
      BY <3>1 DEF Asked, ClientGone
    <3>3. lines'[c] >= 1
      BY <1>1, <2>2, <3>2 DEF RequestLines
    <3> QED BY <2>2, <3>2, <3>3 DEF Asked
  <2> QED BY <1>6, <2>1, <2>2 DEF Send
<1>7. ASSUME NEW d \in Client, ReadAnswer(d)
      PROVE  Asked(c, name)'
  BY <1>2, <1>3, <1>7 DEF ReadAnswer, ClientRuns
<1>8. CASE ClientExit
  BY <1>8 DEF ClientExit, Asked, ClientRuns, ClientGone
<1>9. CASE Poll \/ ServerRequest \/ Shutdown \/ MakeFiles
  BY <1>2, <1>9 DEF Poll, ServerRequest, Shutdown, MakeFiles, clientVars
<1>10. ASSUME NEW w \in Worker, Handle(w)
       PROVE  Asked(c, name)'
  BY <1>2, <1>10 DEF Handle, Take, ReadLine, ReadHeaders, Spin, Stat, OpenAndRead, SendHeader,
       SendBody, WriteTo, Destroy, Stop, OnlyWorker, vars, clientVars
<1>11. CASE UNCHANGED vars
  BY <1>2, <1>11 DEF vars, clientVars
<1> QED BY <1>4, <1>5, <1>6, <1>7, <1>8, <1>9, <1>10, <1>11 DEF Next, Terminated

(* The connection that a worker has is open, and its alone.                *)
LEMMA WorkersConnection ==
  ASSUME WebTypeOK, Points, Owned, NEW w \in Worker, worker[w].conn # None
  PROVE  /\ worker[w].conn \in Client
         /\ conn[worker[w].conn] = "open"
         /\ thread[worker[w].conn] # "connect"
         /\ \A v \in Worker : worker[v].conn = worker[w].conn => v = w
<1>1. worker[w].conn \in Client
  BY WorkerFields
<1> QED BY <1>1 DEF Owned, Placed, Points

(* Steps that neither take up nor answer nor close a request. *)
LEMMA WrittenKept ==
  ASSUME WebTypeOK, Points, Owned, Written, [Next]_vars,
         UNCHANGED <<worker, answer>>,
         \A c \in Client : conn'[c] = "closed" <=> conn[c] = "closed"
  PROVE  Written'
<1>1. ASSUME NEW w \in Worker, worker[w].pc \notin {"idle", "stopped", "line"}
      PROVE  Asked(worker[w].conn, worker[w].name)'
  <2>1. worker[w].conn # None
    BY <1>1 DEF Points
  <2> QED BY <1>1, <2>1, AskedKept, WorkersConnection DEF Written
<1>2. ASSUME NEW c \in Client, conn[c] = "closed"
      PROVE  \E name \in File \cup {None}, data \in Run \cup {"mixed", "error", "empty"} :
               answer'[c] = Answer(name, data) /\ Asked(c, name)'
  <2>1. PICK name \in File \cup {None}, data \in Run \cup {"mixed", "error", "empty"} :
          answer[c] = Answer(name, data) /\ Asked(c, name)
    BY <1>2 DEF Written
  <2>2. thread[c] # "connect"
    BY <1>2 DEF Points
  <2> QED BY <2>1, <2>2, AskedKept
<1>3. \A w \in Worker : WrittenBy(w)' = WrittenBy(w)
  BY DEF WrittenBy
<1> QED BY <1>1, <1>2, <1>3 DEF Written

(* A step of one worker that does not close its connection. *)
LEMMA WrittenByWorker ==
  ASSUME WebTypeOK, Points, Owned, Written,
         NEW w \in Worker, worker[w].conn # None, OnlyRecord(w),
         UNCHANGED <<clientVars, conn>>,
         \A c \in Client \ {worker[w].conn} : answer'[c] = answer[c],
         answer'[worker[w].conn] = WrittenBy(w)',
         worker'[w].pc \notin {"idle", "stopped"},
         worker'[w].pc \in {"header", "body", "close"} => worker'[w].data \in Run \cup {"mixed", "error", "empty"},
         worker'[w].pc # "line" => Asked(worker[w].conn, worker'[w].name)
  PROVE  Written'
<1>0. UNCHANGED <<process, lines, file>>
  BY DEF clientVars
<1>2. ASSUME NEW v \in Worker, v # w
      PROVE  /\ worker'[v].conn # None => answer'[worker'[v].conn] = WrittenBy(v)'
             /\ worker'[v].pc \in {"header", "body", "close"} => worker'[v].data \in Run \cup {"mixed", "error", "empty"}
             /\ worker'[v].pc \notin {"idle", "stopped", "line"} =>
                  Asked(worker[v].conn, worker[v].name)
  <2>1. worker'[v] = worker[v] /\ WrittenBy(v)' = WrittenBy(v)
    BY <1>2 DEF OnlyRecord, WrittenBy
  <2>2. worker[v].conn # None => worker[v].conn \in Client \ {worker[w].conn}
    BY <1>2, WorkersConnection
  <2> QED BY <2>1, <2>2 DEF Written
<1>3. worker'[w].conn = worker[w].conn
  BY DEF OnlyRecord
<1>4. \A v \in Worker : worker'[v].pc \notin {"idle", "stopped", "line"} =>
        Asked(worker[v].conn, worker[v].name)'
  <2>1. ASSUME NEW v \in Worker, worker'[v].pc \notin {"idle", "stopped", "line"}
        PROVE  Asked(worker'[v].conn, worker'[v].name)
    <3>1. CASE v = w
      BY <1>3, <2>1, <3>1
    <3>2. CASE v # w
      BY <1>2, <2>1, <3>2 DEF OnlyRecord
    <3> QED BY <3>1, <3>2
  <2> QED BY <1>0, <2>1 DEF Asked, ClientGone
<1>5. \A v \in Worker : worker'[v].conn = worker[v].conn
  BY DEF OnlyRecord
<1>6. \A c \in Client : conn'[c] = "closed" =>
        \E name \in File \cup {None}, data \in Run \cup {"mixed", "error", "empty"} :
          answer'[c] = Answer(name, data) /\ Asked(c, name)'
  <2> SUFFICES ASSUME NEW c \in Client, conn[c] = "closed"
               PROVE  \E name \in File \cup {None}, data \in Run \cup {"mixed", "error", "empty"} :
                        answer'[c] = Answer(name, data) /\ Asked(c, name)'
    OBVIOUS
  <2>1. c # worker[w].conn
    BY WorkersConnection
  <2> QED BY <1>0, <2>1 DEF Written, Asked, ClientGone
<1>7. \A c \in Client : (\A v \in Worker : worker'[v].conn # c) /\ conn'[c] # "closed" => answer'[c] = <<>>
  BY <1>5 DEF Written
<1>8. \A v \in Worker :
        /\ worker'[v].conn # None => answer'[worker'[v].conn] = WrittenBy(v)'
        /\ worker'[v].pc \in {"header", "body", "close"} => worker'[v].data \in Run \cup {"mixed", "error", "empty"}
  BY <1>2, <1>3
<1> QED BY <1>4, <1>6, <1>7, <1>8 DEF Written, Asked

(* A client that connects was answered nothing.                          *)
LEMMA WrittenConnect ==
  ASSUME WebTypeOK, Points, Owned, Written, [Next]_vars,
         NEW c \in Client, Connect(c)
  PROVE  Written'
<1>1. UNCHANGED <<worker, answer>>
  BY DEF Connect, EndsClient
<1>2. \A d \in Client : conn'[d] = "closed" <=> conn[d] = "closed"
  BY DEF Connect, Points, WebTypeOK
<1> QED BY <1>1, <1>2, WrittenKept

(* A worker takes up a connection to which nothing was written.          *)
LEMMA WrittenTake ==
  ASSUME WebTypeOK, Points, Owned, Written, NEW w \in Worker, Take(w)
  PROVE  Written'
<1>0. PICK c : c = Head(queue)
  OBVIOUS
<1>1. /\ c \in Client /\ c \in Range(queue)
      /\ worker \in [Worker -> WorkerStates] /\ UNCHANGED <<clientVars, conn, answer>>
  BY <1>0, PopProperties DEF Take, WebTypeOK
<1>2. /\ worker'[w].conn = c /\ worker'[w].pc = "line"
      /\ \A v \in Worker \ {w} : worker'[v] = worker[v]
  BY <1>0, <1>1 DEF Take, Idle
<1>3. worker[w].conn = None
  BY DEF Take, Points
<1>4. \A v \in Worker : worker[v].conn # c
  BY <1>1 DEF Owned
<1>5. conn[c] = "open" /\ answer[c] = <<>>
  BY <1>1, <1>4 DEF Owned, Placed, Written
<1>6. UNCHANGED <<process, lines, file>>
  BY <1>1 DEF clientVars
<1>7. \A v \in Worker \ {w} : WrittenBy(v)' = WrittenBy(v)
  BY <1>2 DEF WrittenBy
<1>8. WrittenBy(w)' = <<>>
  BY <1>2 DEF WrittenBy
<1>9. \A v \in Worker : worker'[v].conn # None => answer'[worker'[v].conn] = WrittenBy(v)'
  BY <1>1, <1>2, <1>5, <1>7, <1>8 DEF Written
<1>10. \A d \in Client : (\A v \in Worker : worker'[v].conn # d) /\ conn'[d] # "closed" => answer'[d] = <<>>
  <2> SUFFICES ASSUME NEW d \in Client, \A v \in Worker : worker'[v].conn # d, conn[d] # "closed"
               PROVE  answer[d] = <<>>
    BY <1>1
  <2>1. \A v \in Worker : worker[v].conn # d
    BY <1>2, <1>3, WebAssumption
  <2> QED BY <2>1 DEF Written
<1>11. \A v \in Worker : worker'[v].pc \notin {"idle", "stopped", "line"} =>
         Asked(worker[v].conn, worker[v].name)'
  BY <1>2, <1>6 DEF Written, Asked, ClientGone
<1>12. \A d \in Client : conn'[d] = "closed" =>
         \E name \in File \cup {None}, data \in Run \cup {"mixed", "error", "empty"} :
           answer'[d] = Answer(name, data) /\ Asked(d, name)'
  BY <1>1, <1>6 DEF Written, Asked, ClientGone
<1>13. \A v \in Worker : worker'[v].pc \in {"header", "body", "close"} =>
         worker'[v].data \in Run \cup {"mixed", "error", "empty"}
  BY <1>2 DEF Written
<1> QED BY <1>9, <1>10, <1>11, <1>12, <1>13 DEF Written, Asked

(* request_destroy closes a connection with its whole answer.            *)
LEMMA WrittenDestroy ==
  ASSUME WebTypeOK, Points, Owned, Written, NEW w \in Worker, Destroy(w)
  PROVE  Written'
<1>0. PICK c : c = worker[w].conn
  OBVIOUS
<1>1. /\ worker \in [Worker -> WorkerStates] /\ UNCHANGED <<clientVars, answer>>
      /\ conn \in [Client -> {"none", "open", "closed"}]
      /\ worker[w].pc = "close"
      /\ worker[w].name \in File \cup {None}
  BY WorkerFields DEF Destroy, WebTypeOK
<1>2. /\ c \in Client /\ c # None /\ conn[c] = "open"
      /\ \A v \in Worker \ {w} : worker[v].conn # c
  <2>1. c # None
    BY <1>0, <1>1 DEF Points
  <2> QED BY <1>0, <2>1, WorkersConnection
<1>3. /\ worker'[w].conn = None /\ worker'[w].pc = "idle"
      /\ \A v \in Worker \ {w} : worker'[v] = worker[v]
  BY <1>1 DEF Destroy, Idle
<1>4. conn'[c] = "closed" /\ \A d \in Client \ {c} : conn'[d] = conn[d]
  BY <1>0, <1>1, <1>2 DEF Destroy
<1>5. /\ answer[c] = Answer(worker[w].name, worker[w].data)
      /\ worker[w].data \in Run \cup {"mixed", "error", "empty"}
      /\ Asked(c, worker[w].name)
  BY <1>0, <1>1, <1>2 DEF Written, WrittenBy
<1>6. UNCHANGED <<process, lines, file>>
  BY <1>1 DEF clientVars
<1>7. \A v \in Worker \ {w} : WrittenBy(v)' = WrittenBy(v)
  BY <1>3 DEF WrittenBy
<1>8. \A v \in Worker : worker'[v].conn # None => answer'[worker'[v].conn] = WrittenBy(v)'
  BY <1>0, <1>1, <1>2, <1>3, <1>7 DEF Written
<1>9. \A d \in Client : (\A v \in Worker : worker'[v].conn # d) /\ conn'[d] # "closed" => answer'[d] = <<>>
  <2> SUFFICES ASSUME NEW d \in Client, \A v \in Worker : worker'[v].conn # d, conn'[d] # "closed"
               PROVE  answer[d] = <<>>
    BY <1>1
  <2>1. d # c /\ \A v \in Worker : worker[v].conn # d
    BY <1>0, <1>3, <1>4
  <2> QED BY <1>4, <2>1 DEF Written
<1>10. \A v \in Worker : worker'[v].pc \notin {"idle", "stopped", "line"} =>
         Asked(worker[v].conn, worker[v].name)'
  BY <1>3, <1>6 DEF Written, Asked, ClientGone
<1>11. \A d \in Client : conn'[d] = "closed" =>
         \E name \in File \cup {None}, data \in Run \cup {"mixed", "error", "empty"} :
           answer'[d] = Answer(name, data) /\ Asked(d, name)'
  <2>1. ASSUME NEW d \in Client \ {c}, conn'[d] = "closed"
        PROVE  \E name \in File \cup {None}, data \in Run \cup {"mixed", "error", "empty"} :
                 answer'[d] = Answer(name, data) /\ Asked(d, name)'
    BY <1>1, <1>4, <1>6, <2>1 DEF Written, Asked, ClientGone
  <2>2. \E name \in File \cup {None}, data \in Run \cup {"mixed", "error", "empty"} :
          answer'[c] = Answer(name, data) /\ Asked(c, name)'
    BY <1>1, <1>5, <1>6 DEF Asked, ClientGone
  <2> QED BY <2>1, <2>2 DEF Asked
<1>12. \A v \in Worker : worker'[v].pc \in {"header", "body", "close"} =>
         worker'[v].data \in Run \cup {"mixed", "error", "empty"}
  BY <1>3 DEF Written
<1> QED BY <1>8, <1>9, <1>10, <1>11, <1>12 DEF Written, Asked

(* A worker that reads: nothing is written. *)
LEMMA WrittenRead ==
  ASSUME WebTypeOK, Points, Owned, Written, [Next]_vars, NEW w \in Worker,
         ReadLine(w) \/ ReadHeaders(w) \/ Stat(w) \/ OpenAndRead(w)
  PROVE  Written'
<1>1. /\ worker[w].pc \in {"line", "headers", "stat", "open"}
      /\ UNCHANGED <<clientVars, conn, answer>>
  BY DEF ReadLine, ReadHeaders, Stat, OpenAndRead, OnlyWorker
<1>2. worker[w].conn # None
  BY <1>1 DEF Points
<1>3. answer[worker[w].conn] = <<>>
  BY <1>1, <1>2 DEF Written, WrittenBy
<1>4. CASE worker' = worker
  BY <1>1, <1>4, WrittenKept
<1>5. ASSUME OnlyRecord(w),
             worker'[w].pc \in {"headers", "stat", "spin", "open", "header"},
             worker'[w].pc = "header" => worker'[w].data \in Run \cup {"mixed", "error", "empty"},
             Asked(worker[w].conn, worker'[w].name)
      PROVE  Written'
  <2>1. WrittenBy(w)' = <<>>
    BY <1>5 DEF WrittenBy
  <2> QED BY <1>1, <1>2, <1>3, <1>5, <2>1, WrittenByWorker
<1>6. CASE ReadLine(w)
  BY <1>4, <1>5, <1>6, ReadLineFields
<1>7. worker[w].pc # "line" => Asked(worker[w].conn, worker[w].name)
  BY <1>1 DEF Written
<1>8. CASE ReadHeaders(w)
  <2>1. ASSUME NEW pc \in {"stat", "spin"}, Goes(w, pc)
        PROVE  Written'
    BY <1>5, <1>7, <1>8, <2>1, GoesFields DEF Goes, ReadHeaders
  <2> QED BY <1>4, <1>8, <2>1 DEF ReadHeaders, ExitsServer
<1>9. CASE Stat(w)
  BY <1>5, <1>7, <1>9, StatFields DEF Stat
<1>10. CASE OpenAndRead(w)
  BY <1>4, <1>5, <1>7, <1>10, OpenAndReadFields DEF OpenAndRead
<1> QED BY <1>6, <1>8, <1>9, <1>10

(* The second part of an answer.                                         *)
LEMMA AppendPair ==
  ASSUME NEW x, NEW y
  PROVE  Append(<<x>>, y) = <<x, y>>
<1>1. <<x>> \in Seq({x, y}) /\ <<x, y>> \in Seq({x, y}) /\ Len(<<x>>) = 1 /\ <<x>>[1] = x
  OBVIOUS
<1>2. /\ Append(<<x>>, y) \in Seq({x, y}) /\ Len(Append(<<x>>, y)) = 2
      /\ Append(<<x>>, y)[1] = x /\ Append(<<x>>, y)[2] = y
  BY <1>1, AppendProperties
<1>3. Len(<<x, y>>) = 2 /\ <<x, y>>[1] = x /\ <<x, y>>[2] = y
  OBVIOUS
<1>4. \A i \in 1..2 : Append(<<x>>, y)[i] = <<x, y>>[i]
  BY <1>2, <1>3
<1> QED BY <1>1, <1>2, <1>3, <1>4, SeqEqual

(* A worker that writes one part of its answer. *)
LEMMA WrittenWrite ==
  ASSUME WebTypeOK, Points, Owned, Written, [Next]_vars, NEW w \in Worker,
         SendHeader(w) \/ SendBody(w)
  PROVE  Written'
<1>1. worker[w].pc \in {"header", "body"} /\ UNCHANGED <<clientVars, conn>>
  BY DEF SendHeader, SendBody, WriteTo
<1>2. worker[w].conn # None
  BY <1>1 DEF Points
<1>3. PICK c \in Client : c = worker[w].conn
  BY <1>2, WorkersConnection
<1>4. /\ worker[w].data \in Run \cup {"mixed", "error", "empty"}
      /\ Asked(worker[w].conn, worker[w].name)
  BY <1>1 DEF Written
<1>5. CASE UNCHANGED <<worker, answer>>
  BY <1>1, <1>5, WrittenKept
<1>6. ASSUME NEW part, NEW next \in {"body", "close"}, Goes(w, next),
             answer' = [answer EXCEPT ![worker[w].conn] = Append(@, part)],
             Append(answer[c], part) = IF next = "body" THEN <<Header(worker[w].name, worker[w].data)>>
                                                        ELSE Answer(worker[w].name, worker[w].data)
      PROVE  Written'
  <2>1. /\ OnlyRecord(w) /\ worker'[w].pc = next
        /\ worker'[w].name = worker[w].name /\ worker'[w].data = worker[w].data
    BY <1>6, GoesFields DEF Goes
  <2>2. WrittenBy(w)' = Append(answer[c], part)
    BY <1>6, <2>1 DEF WrittenBy, Header, Answer
  <2>3. answer'[c] = Append(answer[c], part)
    BY <1>3, <1>6 DEF WebTypeOK
  <2>4. \A d \in Client \ {c} : answer'[d] = answer[d]
    BY <1>3, <1>6
  <2> QED BY <1>1, <1>2, <1>3, <1>4, <1>6, <2>1, <2>2, <2>3, <2>4, WrittenByWorker
<1>7. CASE SendHeader(w)
  <2>1. answer[c] = <<>>
    BY <1>2, <1>3, <1>7 DEF SendHeader, Written, WrittenBy
  <2>2. \A x : Append(<<>>, x) = <<x>>
    OBVIOUS
  <2> DEFINE sent == Header(worker[w].name, worker[w].data)
             next == IF worker[w].data = "empty" THEN "close" ELSE "body"
  <2>3. Append(answer[c], sent)
          = IF next = "body" THEN <<sent>> ELSE Answer(worker[w].name, worker[w].data)
    BY <2>1, <2>2 DEF Answer
  <2>4. \/ UNCHANGED <<worker, answer>>
        \/ /\ Goes(w, next)
           /\ answer' = [answer EXCEPT ![worker[w].conn] = Append(@, sent)]
    BY <1>7 DEF SendHeader, WriteTo, ExitsServer, Header
  <2>5. next \in {"body", "close"}
    OBVIOUS
  <2> HIDE DEF next
  <2> QED BY <1>5, <1>6, <2>3, <2>4, <2>5
<1>8. CASE SendBody(w)
  <2>1. answer[c] = <<Header(worker[w].name, worker[w].data)>>
    BY <1>2, <1>3, <1>8 DEF SendBody, Written, WrittenBy
  <2>2. \A x, y : Append(<<x>>, y) = <<x, y>>
    BY AppendPair
  <2>3. worker[w].data # "empty"
    BY <1>8 DEF SendBody, Points
  <2> DEFINE sent == <<"body", worker[w].name, worker[w].data>>
  <2>4. Append(answer[c], sent) = Answer(worker[w].name, worker[w].data)
    BY <2>1, <2>2, <2>3 DEF Answer
  <2>5. \/ UNCHANGED <<worker, answer>>
        \/ /\ Goes(w, "close")
           /\ answer' = [answer EXCEPT ![worker[w].conn] = Append(@, sent)]
    BY <1>8 DEF SendBody, WriteTo, ExitsServer
  <2> QED BY <1>5, <1>6, <2>4, <2>5
<1> QED BY <1>7, <1>8

(* A worker that stops has no connection.                                *)
LEMMA WrittenStop ==
  ASSUME WebTypeOK, Points, Owned, Written, NEW w \in Worker, Stop(w)
  PROVE  Written'
<1>1. /\ OnlyRecord(w) /\ worker'[w].pc = "stopped" /\ worker[w].conn = None
      /\ UNCHANGED <<clientVars, conn, answer>>
  BY GoesFields DEF Stop, Points
<1>2. /\ \A v \in Worker \ {w} : worker'[v] = worker[v]
      /\ \A v \in Worker : worker'[v].conn = worker[v].conn
      /\ UNCHANGED <<process, lines, file>>
  BY <1>1 DEF OnlyRecord, clientVars
<1>3. \A v \in Worker \ {w} : WrittenBy(v)' = WrittenBy(v)
  BY <1>2 DEF WrittenBy
<1> QED BY <1>1, <1>2, <1>3 DEF Written, Asked, ClientGone

(* Every step keeps Written.                                             *)
LEMMA WrittenStep ==
  ASSUME WebTypeOK, Points, Owned, Written, [Next]_vars
  PROVE  Written'
<1>1. ASSUME \/ Poll \/ ServerRequest \/ InitFileset \/ ClientExit \/ KillClient
             \/ Shutdown \/ MakeFiles
             \/ \E c \in Client : Send(c) \/ ReadAnswer(c)
      PROVE  UNCHANGED <<worker, answer, conn>>
  BY <1>1 DEF Poll, ServerRequest, InitFileset, ClientExit, KillClient, Shutdown, MakeFiles,
       Send, ReadAnswer, OnlyClient, serverVars
<1>2. ASSUME NEW w \in Worker, Handle(w)
      PROVE  Written'
  <2>1. CASE Spin(w)
    BY <2>1, WrittenKept DEF Spin, vars, serverVars
  <2> QED BY <1>2, <2>1, WrittenTake, WrittenRead, WrittenWrite, WrittenDestroy,
       WrittenStop DEF Handle
<1>3. CASE UNCHANGED vars
  BY <1>3, WrittenKept DEF vars, serverVars
<1> QED BY <1>1, <1>2, <1>3, WrittenKept, WrittenConnect DEF Next, Terminated

(* What was written is what AnswersAreOwn says.                          *)
LEMMA WrittenIsOwn ==
  ASSUME WebTypeOK, Points, Owned, Written
  PROVE  AnswersAreOwn
<1> SUFFICES ASSUME NEW c \in Client
             PROVE  \E name \in File \cup {None}, data \in Run \cup {"mixed", "error", "empty"} :
                      /\ answer[c] \in {<<>>, <<Header(name, data)>>, Answer(name, data)}
                      /\ answer[c] # <<>> /\ lines[c] >= 1 => name = file[c]
  BY DEF AnswersAreOwn
<1>1. CASE conn[c] = "closed"
  BY <1>1 DEF Written, Asked
<1>2. CASE conn[c] # "closed" /\ \A w \in Worker : worker[w].conn # c
  BY <1>2 DEF Written
<1>3. ASSUME NEW w \in Worker, worker[w].conn = c
      PROVE  \E name \in File \cup {None}, data \in Run \cup {"mixed", "error", "empty"} :
               /\ answer[c] \in {<<>>, <<Header(name, data)>>, Answer(name, data)}
               /\ answer[c] # <<>> /\ lines[c] >= 1 => name = file[c]
  <2>1. answer[c] = WrittenBy(w) /\ worker[w].name \in File \cup {None}
    BY <1>3, WebAssumption, WorkerFields DEF Written
  <2>2. CASE worker[w].pc \in {"body", "close"}
    <3>1. worker[w].data \in Run \cup {"mixed", "error", "empty"} /\ Asked(c, worker[w].name)
      BY <1>3, <2>2 DEF Written
    <3>2. answer[c] \in {<<Header(worker[w].name, worker[w].data)>>, Answer(worker[w].name, worker[w].data)}
      BY <2>1, <2>2 DEF WrittenBy
    <3> QED BY <2>1, <3>1, <3>2 DEF Asked
  <2>3. CASE worker[w].pc \notin {"body", "close"}
    BY <2>1, <2>3 DEF WrittenBy
  <2> QED BY <2>2, <2>3
<1> QED BY <1>1, <1>2, <1>3

-----------------------------------------------------------------------------
(* The three parts of the invariant rest on one another, and the answers   *)
(* on them.                                                                *)
WebInv == WebTypeOK /\ Points /\ Owned /\ Written

(* The four parts together are inductive.                                *)
LEMMA WebInvHolds == Spec => []WebInv
<1>1. Init => WebInv
  BY WebTypeInit, PointsInit, OwnedInit, WrittenInit DEF WebInv
<1>2. WebInv /\ [Next]_vars => WebInv'
  BY WebTypeStep, PointsStep, OwnedStep, WrittenStep DEF WebInv
<1> QED BY <1>1, <1>2, PTL DEF Spec

(* The type invariant of the server and the client. *)
THEOREM WebTypeCorrect == Spec => []WebTypeOK
<1>1. WebInv => WebTypeOK
  BY DEF WebInv
<1> QED BY <1>1, WebInvHolds, PTL

(* Every connection that is open is in one place, once, on its way from    *)
(* accept to request_destroy, for every number of clients and workers.     *)
THEOREM ConnectionsHaveOneOwner == Spec => []OneOwner
<1>1. WebInv => OneOwner
  BY OwnedIsOneOwner DEF WebInv
<1> QED BY <1>1, WebInvHolds, PTL

(* What the server writes to a connection is one answer, in order, about   *)
(* the file that was asked for, with the header of its body.               *)
THEOREM AnswersBelongToTheirRequests == Spec => []AnswersAreOwn
<1>1. WebInv => AnswersAreOwn
  BY WrittenIsOwn DEF WebInv
<1> QED BY <1>1, WebInvHolds, PTL

-----------------------------------------------------------------------------
(* OnlyDisturbed.  What the ends of the two processes mean ...             *)
Ends ==
  /\ main = "exit" => fifo = "data"
  /\ server = "exited" => main = "exit"
  /\ process = "starting" => \A c \in Client : thread[c] = "connect"
  /\ process = "exited" => \A c \in Client : thread[c] = "done"

(* ... what is so as long as nothing is disturbed ...                      *)
Quiet ==
  /\ index \in Run /\ \A f \in FilesOf[index] : disk[f] = index
  /\ \A w \in Worker : worker[w].pc = "open" => disk[worker[w].name] # "absent"
  /\ process \in {"running", "exited"} =>
       /\ listed = index
       /\ \A c \in Client : thread[c] # "connect" => file[c] \in FilesOf[index]
  /\ server \in {"running", "exited", "lost client"}
  /\ server = "lost client" => fifo = "data"
  /\ process = "failed" => fifo = "data"

(* ... and, until the server was told to exit, of what it serves.          *)
Serving ==
  /\ \A c \in Client : thread[c] = "done" => conn[c] = "closed"
  /\ \A c \in Client : conn[c] = "closed" => answer[c] = Answer(file[c], index)
  /\ \A w \in Worker : worker[w].pc = "open" => worker[w].seen = index
  /\ \A w \in Worker : worker[w].pc \in {"header", "body", "close"} => worker[w].data = index

Undisturbed == ~Disturbed => Quiet /\ (fifo # "data" => Serving)

(* They are so at first.                                                   *)
LEMMA UndisturbedInit ==
  ASSUME Init
  PROVE  Ends /\ Undisturbed
  BY DEF Init, FilesInit, Idle, Ends, Undisturbed, Quiet, Serving

(* Ends: the exit is in the fifo before the loop is left, and the client's *)
(* threads run after its start and are joined before its end.              *)
LEMMA EndsStep ==
  ASSUME WebTypeOK, Ends, [Next]_vars
  PROVE  Ends'
<1>1. thread \in [Client -> {"connect", "send", "read", "done"}]
  BY DEF WebTypeOK
<1>2. ASSUME UNCHANGED <<process, thread>>
      PROVE  /\ (process = "starting" => \A c \in Client : thread[c] = "connect")'
             /\ (process = "exited" => \A c \in Client : thread[c] = "done")'
  BY <1>2 DEF Ends
<1>3. ASSUME UNCHANGED <<main, server, fifo>>
      PROVE  /\ (main = "exit" => fifo = "data")'
             /\ (server = "exited" => main = "exit")'
  BY <1>3 DEF Ends
<1>4. CASE UNCHANGED vars
  BY <1>2, <1>3, <1>4 DEF vars, serverVars, clientVars, Ends
<1>5. CASE Poll \/ ServerRequest \/ Shutdown
  BY <1>2, <1>5 DEF Poll, ServerRequest, Shutdown, ServerRuns, SeesExit, clientVars, Ends
<1>6. CASE MakeFiles
  BY <1>2, <1>3, <1>6 DEF MakeFiles, serverVars, clientVars, Ends
<1>7. ASSUME NEW w \in Worker, Handle(w)
      PROVE  Ends'
  <2>1. /\ UNCHANGED <<clientVars, main, fifo>>
        /\ server' = "exited" => main = "exit" \/ server = "exited"
    BY <1>7 DEF Handle, Take, ReadLine, ReadHeaders, Spin, Stat, OpenAndRead, SendHeader,
                SendBody, WriteTo, Destroy, Stop, ExitsServer, OnlyWorker, vars, serverVars
  <2> QED BY <1>2, <2>1 DEF clientVars, Ends
<1>8. ASSUME NEW why \in {"failed", "aborted"}, EndsClient(why)
      PROVE  process' \notin {"starting", "exited"}
  BY <1>8 DEF EndsClient
<1>9. CASE InitFileset \/ KillClient \/ ClientExit
  <2>1. UNCHANGED <<main, server, fifo>>
    BY <1>9 DEF InitFileset, KillClient, ClientExit, OnlyClient, serverVars
  <2> QED BY <1>3, <1>8, <1>9, <2>1 DEF InitFileset, KillClient, ClientExit, Ends
<1>10. ASSUME NEW c \in Client, Connect(c) \/ Send(c) \/ ReadAnswer(c)
       PROVE  Ends'
  <2>1. UNCHANGED <<main, server, fifo>>
    BY <1>10 DEF Connect, Send, ReadAnswer, OnlyClient, serverVars
  <2>2. process' = "running" \/ process' \notin {"starting", "exited"}
    BY <1>8, <1>10 DEF Connect, Send, ReadAnswer, ClientRuns
  <2> QED BY <1>3, <2>1, <2>2 DEF Ends
<1> QED BY <1>4, <1>5, <1>6, <1>7, <1>9, <1>10 DEF Next, Terminated

(* What was disturbed stays so, and nothing else moves the files.          *)
LEMMA DisturbedStays ==
  ASSUME WebTypeOK, [Next]_vars, ~Disturbed'
  PROVE  /\ ~Disturbed
         /\ UNCHANGED <<disk, index>>
         /\ process' # "aborted" /\ fifo' # "hup"
         /\ FilesOf[index] \cap Unserved = {}
         /\ fifo' # "data" => fifo # "data"
<1>1. changes \in Nat
  <2>1. changes \in 0..MaxChanges
    BY DEF WebTypeOK
  <2> QED BY <2>1, WebAssumption
<1>2. UNCHANGED fileVars
  <2>1. ~MakeFiles
    BY <1>1 DEF MakeFiles, Disturbed
  <2> QED BY <2>1 DEF Next, Poll, ServerRequest, Handle, Take, ReadLine, ReadHeaders, Spin, Stat,
                      OpenAndRead, SendHeader, SendBody, WriteTo, Destroy, Stop, OnlyWorker,
                      InitFileset, Connect, Send, ReadAnswer, ClientExit, KillClient, OnlyClient,
                      Shutdown, Terminated, vars
<1>3. process = "aborted" => process' = "aborted"
  BY DEF Next, Poll, ServerRequest, Handle, Take, ReadLine, ReadHeaders, Spin, Stat,
         OpenAndRead, SendHeader, SendBody, WriteTo, Destroy, Stop, OnlyWorker,
         InitFileset, Connect, Send, ReadAnswer, ClientExit, KillClient, ClientRuns,
         Shutdown, MakeFiles, Terminated, vars, clientVars
<1>4. /\ fifo = "hup" => fifo' = "hup"
      /\ fifo = "data" => fifo' = "data"
  BY DEF Next, Poll, ServerRequest, Handle, Take, ReadLine, ReadHeaders, Spin, Stat,
         OpenAndRead, SendHeader, SendBody, WriteTo, Destroy, Stop, OnlyWorker,
         InitFileset, Connect, Send, ReadAnswer, ClientExit, KillClient, OnlyClient,
         Shutdown, MakeFiles, Terminated, vars, serverVars
<1> QED BY <1>2, <1>3, <1>4 DEF Disturbed, fileVars

(* The client of a request that is being handled is there, and asked for a *)
(* file of the index.                                                      *)
LEMMA Served ==
  ASSUME WebInv, Ends, ~Disturbed, Quiet, Serving, fifo # "data",
         NEW w \in Worker, worker[w].pc \notin {"idle", "stopped"}
  PROVE  /\ ~ClientGone
         /\ worker[w].pc # "line" =>
              /\ worker[w].name = file[worker[w].conn]
              /\ worker[w].name \in FilesOf[index]
              /\ disk[worker[w].name] = index
<1>1. worker[w].conn # None
  BY DEF WebInv, Points
<1>2. /\ worker[w].conn \in Client /\ conn[worker[w].conn] = "open"
      /\ thread[worker[w].conn] # "connect"
  BY <1>1, WorkersConnection DEF WebInv
<1>3. process \in {"starting", "running", "exited", "failed", "aborted"}
  BY DEF WebInv, WebTypeOK
<1>4. process \notin {"starting", "exited", "failed", "aborted"}
  BY <1>2 DEF Ends, Serving, Quiet, Disturbed
<1>5. process = "running" /\ ~ClientGone
  BY <1>3, <1>4 DEF ClientGone
<1>6. worker[w].pc # "line" => worker[w].name = file[worker[w].conn]
  BY <1>5 DEF WebInv, Written, Asked
<1>7. file[worker[w].conn] \in FilesOf[index]
  BY <1>2, <1>5 DEF Quiet
<1> QED BY <1>5, <1>6, <1>7 DEF Quiet

(* The main thread.                                                        *)
LEMMA UndisturbedMain ==
  ASSUME WebInv, Ends, ~Disturbed, Quiet, fifo # "data" => Serving, ~Disturbed',
         Poll \/ ServerRequest \/ Shutdown, [Next]_vars
  PROVE  Quiet' /\ (fifo' # "data" => Serving')
<1>1. /\ UNCHANGED <<disk, index, worker, process, listed, thread, file, conn, answer>>
      /\ fifo' # "hup"
      /\ fifo' # "data" => fifo # "data"
  BY DisturbedStays DEF Poll, ServerRequest, Shutdown, WebInv, clientVars, fileVars
<1>3. fifo = "data" => fifo' = "data"
  BY DEF Poll, ServerRequest, Shutdown
<1>4. server' = server
  BY <1>1 DEF Poll, ServerRequest, Shutdown
<1>5. Quiet'
  BY <1>1, <1>3, <1>4 DEF Quiet
<1>6. Serving => Serving'
  BY <1>1 DEF Serving
<1> QED BY <1>1, <1>5, <1>6

(* The client.                                                             *)
LEMMA UndisturbedClient ==
  ASSUME WebInv, Ends, ~Disturbed, Quiet, fifo # "data" => Serving, ~Disturbed', [Next]_vars,
         \/ InitFileset \/ ClientExit \/ KillClient
         \/ \E c \in Client : Connect(c) \/ Send(c) \/ ReadAnswer(c)
  PROVE  Quiet' /\ (fifo' # "data" => Serving')
<1>1. UNCHANGED <<disk, index, server, worker, answer, fifo>>
  BY DEF InitFileset, ClientExit, KillClient, Connect, Send, ReadAnswer, OnlyClient,
         serverVars, fileVars
<1>2. process' # "aborted"
  BY DisturbedStays DEF WebInv
<1>3. ~ServerRuns => fifo = "data"
  BY DEF ServerRuns, Quiet, Ends
<1>4. /\ thread \in [Client -> {"connect", "send", "read", "done"}]
      /\ file \in [Client -> File \cup {None}]
      /\ conn \in [Client -> {"none", "open", "closed"}]
      /\ \A c \in Client : thread[c] = "connect" => conn[c] = "none"
  BY DEF WebInv, WebTypeOK, Points
<1> DEFINE Asks == process' \in {"running", "exited"} =>
                     /\ listed' = index
                     /\ \A c \in Client : thread'[c] # "connect" => file'[c] \in FilesOf[index]
           Answered == fifo # "data" =>
                         /\ \A c \in Client : thread'[c] = "done" => conn'[c] = "closed"
                         /\ \A c \in Client : conn'[c] = "closed" =>
                              answer[c] = Answer(file'[c], index)
           Goal == Asks /\ Answered /\ (process' = "failed" => fifo = "data")
<1>5. CASE Goal
  <2>1. Quiet'
    BY <1>1, <1>5 DEF Quiet
  <2>2. fifo' # "data" => Serving'
    BY <1>1, <1>5 DEF Serving
  <2> QED BY <2>1, <2>2
<1>6. ASSUME InitFileset PROVE Goal
  <2>1. process = "starting" /\ process' = "running" /\ listed' = index
        /\ UNCHANGED <<thread, file, conn>>
    BY <1>6, FilesAssumption DEF InitFileset, Quiet
  <2> QED BY <2>1 DEF Ends, Serving
<1>7. ASSUME ClientExit PROVE Goal
  BY <1>7 DEF ClientExit, ClientRuns, Quiet, Serving
<1>8. ASSUME KillClient PROVE FALSE
  BY <1>2, <1>8 DEF KillClient, EndsClient
<1>9. ASSUME fifo = "data", EndsClient("failed") PROVE Goal
  BY <1>9 DEF EndsClient
<1>10. ASSUME NEW c \in Client, Connect(c) PROVE Goal
  <2>1. ASSUME ~ServerRuns, EndsClient("failed") PROVE Goal
    BY <1>3, <1>9, <2>1
  <2>2. ~EndsClient("aborted")
    BY <1>2 DEF EndsClient
  <2>3. ASSUME NEW f \in Listed, file' = [file EXCEPT ![c] = f],
               thread' = [thread EXCEPT ![c] = "send"], conn' = [conn EXCEPT ![c] = "open"],
               UNCHANGED <<process, listed>>
        PROVE  Goal
    <3>1. process = "running" /\ listed = index
      BY <1>10 DEF Connect, ClientRuns, Quiet
    <3>2. Asks
      BY <1>4, <2>3, <3>1 DEF Quiet, Listed
    <3>3. Answered
      BY <1>4, <2>3 DEF Serving
    <3> QED BY <2>3, <3>1, <3>2, <3>3
  <2> QED BY <1>10, <2>1, <2>2, <2>3 DEF Connect
<1>11. ASSUME NEW c \in Client, Send(c) PROVE Goal
  <2>1. CASE ~ServerRuns /\ EndsClient("failed")
    BY <1>3, <1>9, <2>1
  <2>2. CASE thread' = [thread EXCEPT ![c] = "read"] /\ UNCHANGED <<process, listed, file>>
    <3>1. thread[c] = "send" /\ UNCHANGED conn /\ process = "running"
      BY <1>11 DEF Send, ClientRuns
    <3>2. Asks
      BY <1>4, <2>2, <3>1 DEF Quiet
    <3>3. Answered
      BY <1>4, <2>2, <3>1 DEF Serving
    <3> QED BY <2>2, <3>1, <3>2, <3>3
  <2> QED BY <1>11, <2>1, <2>2 DEF Send
<1>12. ASSUME NEW c \in Client, ReadAnswer(c) PROVE Goal
  <2>1. /\ thread[c] = "read" /\ UNCHANGED conn /\ process = "running"
        /\ fifo # "data" => conn[c] = "closed"
    BY <1>3, <1>12 DEF ReadAnswer, ClientRuns
  <2>2. fifo # "data" => answer[c] = Answer(file[c], listed)
    BY <2>1 DEF Serving, Quiet
  <2>3. CASE EndsClient("failed") /\ (answer[c] # Answer(file[c], listed) \/ ~ServerRuns)
    BY <1>3, <1>9, <2>2, <2>3
  <2>4. CASE thread' = [thread EXCEPT ![c] = "done"] /\ UNCHANGED <<process, listed, file>>
    <3>1. Asks
      BY <1>4, <2>1, <2>4 DEF Quiet
    <3>2. Answered
      BY <1>4, <2>1, <2>4 DEF Serving
    <3> QED BY <2>1, <2>4, <3>1, <3>2
  <2> QED BY <1>12, <2>3, <2>4 DEF ReadAnswer
<1>13. Goal
  BY <1>6, <1>7, <1>8, <1>10, <1>11, <1>12
<1> QED BY <1>5, <1>13

(* A worker.                                                               *)
LEMMA UndisturbedWorker ==
  ASSUME WebInv, Ends, ~Disturbed, Quiet, fifo # "data" => Serving, ~Disturbed', [Next]_vars,
         NEW w \in Worker, Handle(w)
  PROVE  Quiet' /\ (fifo' # "data" => Serving')
<1>1. /\ UNCHANGED <<disk, index, fifo, process, listed, thread, file, lines>>
      /\ FilesOf[index] \cap Unserved = {}
  <2>1. UNCHANGED <<fifo, clientVars>>
    BY DEF Handle, Take, ReadLine, ReadHeaders, Spin, Stat, OpenAndRead, SendHeader,
           SendBody, WriteTo, Destroy, Stop, OnlyWorker, vars, serverVars
  <2> QED BY <2>1, DisturbedStays DEF clientVars, WebInv
<1>2. /\ WebTypeOK /\ worker \in [Worker -> WorkerStates] /\ worker[w] \in WorkerStates
      /\ ClientGone => process \in {"exited", "failed"}
  BY DEF WebInv, WebTypeOK, ClientGone, Disturbed
<1>3. ASSUME fifo # "data", worker[w].pc \notin {"idle", "stopped"}
      PROVE  /\ ~ClientGone
             /\ worker[w].pc # "line" =>
                  /\ worker[w].name = file[worker[w].conn]
                  /\ worker[w].name \in FilesOf[index]
                  /\ disk[worker[w].name] = index
  BY <1>3, Served
(* The server: it ends with its workers, or for want of a client. *)
<1>4. /\ server' \in {"running", "exited", "lost client"}
      /\ server' = "lost client" => fifo = "data"
  <2>1. CASE UNCHANGED server
    BY <2>1 DEF Quiet
  <2>2. CASE Stop(w)
    BY <2>2 DEF Stop
  <2>3. ASSUME ClientGone, ExitsServer("lost client"), worker[w].pc \notin {"idle", "stopped"}
        PROVE  server' = "lost client" /\ fifo = "data"
    BY <1>3, <2>3 DEF ExitsServer
  <2>4. CASE OpenAndRead(w)
    BY <2>1, <2>4 DEF OpenAndRead, Quiet
  <2> QED BY <2>1, <2>2, <2>3, <2>4
         DEF Handle, Take, ReadLine, ReadHeaders, Spin, Stat, SendHeader, SendBody, WriteTo,
             Destroy, vars, serverVars
(* What the worker has found. *)
<1> DEFINE Found(v) == /\ worker[v].pc = "open" => disk[worker[v].name] # "absent"
                       /\ fifo # "data" =>
                            /\ worker[v].pc = "open" => worker[v].seen = index
                            /\ worker[v].pc \in {"header", "body", "close"} =>
                                 worker[v].data = index
<1>5. \A v \in Worker : Found(v)
  BY DEF Quiet, Serving
<1>6. ASSUME worker'[w].pc \notin {"open", "header", "body", "close"}
      PROVE  Found(w)'
  BY <1>6
<1>7. Found(w)'
  <2>1. CASE Take(w) \/ Destroy(w)
    <3>1. \/ worker'[w] = Idle
          \/ worker'[w] = [Idle EXCEPT !.pc = "line", !.conn = Head(queue)]
      BY <1>2, <2>1 DEF Take, Destroy
    <3>2. Idle.pc = "idle" /\ [Idle EXCEPT !.pc = "line", !.conn = Head(queue)].pc = "line"
      BY DEF Idle
    <3>3. worker'[w].pc \in {"idle", "line"}
      BY <3>1, <3>2
    <3> QED BY <1>6, <3>3
  <2>2. CASE ReadLine(w)
    <3>1. worker' = worker \/ worker'[w].pc = "headers" \/ ClientGone
      <4>1. \/ worker' = [worker EXCEPT ![w].pc = "headers",
                             ![w].name = file[worker[w].conn]]
            \/ ClientGone
        BY <2>2 DEF ReadLine
      <4> QED BY <1>2, <4>1 DEF WorkerStates
    <3>2. CASE ClientGone
      <4>1. fifo = "data"
        BY <1>3, <2>2, <3>2 DEF ReadLine
      <4>2. worker'[w].pc # "open"
        BY <1>2, <2>2, ReadLineFields DEF ReadLine
      <4> QED BY <1>1, <4>1, <4>2
    <3> QED BY <1>1, <1>5, <1>6, <3>1, <3>2
  <2>3. ASSUME UNCHANGED worker PROVE Found(w)'
    BY <1>1, <1>5, <2>3
  <2>4. CASE ReadHeaders(w)
    <3>1. ASSUME NEW pc \in {"stat", "spin"}, Goes(w, pc) PROVE Found(w)'
      BY <1>2, <1>6, <3>1, GoesFields DEF Goes
    <3> QED BY <2>3, <2>4, <3>1 DEF ReadHeaders, ExitsServer
  <2>5. CASE Stop(w)
    BY <1>2, <1>6, <2>5, GoesFields DEF Stop
  <2>6. CASE Spin(w)
    BY <2>3, <2>6 DEF Spin, vars, serverVars
  <2>7. CASE Stat(w)
    <3>1. worker'[w].name = worker[w].name
      BY <1>2, <2>7, StatFields
    <3>2. worker'[w].pc = "open" => /\ disk[worker[w].name] # "absent"
                                    /\ worker'[w].seen = disk[worker[w].name]
      BY <1>2, <2>7 DEF Stat, WorkerStates
    <3>3. fifo # "data" => worker'[w].pc = "open"
      <4> SUFFICES ASSUME fifo # "data" PROVE worker'[w].pc = "open"
        OBVIOUS
      <4>1. /\ worker[w].name \in FilesOf[index] /\ disk[worker[w].name] = index
        BY <1>3, <2>7 DEF Stat
      <4>2. worker[w].name \in File \ Unserved /\ index \notin {"absent", "partial"}
        BY <1>1, <4>1, FilesAssumption DEF Quiet
      <4>3. worker' = [worker EXCEPT ![w].pc = "open", ![w].seen = disk[worker[w].name]]
        BY <2>7, <4>1, <4>2 DEF Stat
      <4> QED BY <1>2, <4>3 DEF WorkerStates
    <3>4. fifo # "data" => disk[worker[w].name] = index
      BY <1>3, <2>7 DEF Stat
    <3> QED BY <1>1, <3>1, <3>2, <3>3, <3>4
  <2>8. CASE OpenAndRead(w)
    <3>1. CASE UNCHANGED worker
      BY <2>3, <3>1
    <3>2. CASE ~UNCHANGED worker
      <4>1. /\ worker' = [worker EXCEPT ![w].pc = "header", ![w].seen = None,
                            ![w].data = Contents(worker[w].seen, disk[worker[w].name])]
            /\ worker[w].pc = "open"
        BY <2>8, <3>2 DEF OpenAndRead, ExitsServer
      <4>2. /\ worker'[w].pc = "header"
            /\ worker'[w].data = Contents(worker[w].seen, disk[worker[w].name])
        <5>1. worker'[w] = [worker[w] EXCEPT !.pc = "header", !.seen = None,
                              !.data = Contents(worker[w].seen, disk[worker[w].name])]
          BY <1>2, <4>1
        <5> QED BY <1>2, <5>1 DEF WorkerStates
      <4>3. fifo # "data" => worker'[w].data = index
        BY <1>3, <1>5, <4>1, <4>2 DEF Contents, Quiet
      <4> QED BY <1>1, <4>2, <4>3
    <3> QED BY <3>1, <3>2
  <2>9. CASE SendHeader(w) \/ SendBody(w)
    <3>1. ASSUME NEW pc \in {"body", "close"}, Goes(w, pc) PROVE Found(w)'
      <4>1. worker'[w].pc = pc /\ worker'[w].data = worker[w].data
        BY <1>2, <3>1, GoesFields DEF Goes
      <4>2. worker[w].pc \in {"header", "body"}
        BY <2>9 DEF SendHeader, SendBody
      <4> QED BY <1>1, <1>5, <4>1, <4>2
    <3> QED BY <2>3, <2>9, <3>1 DEF SendHeader, SendBody, WriteTo, ExitsServer
  <2> QED BY <2>1, <2>2, <2>4, <2>5, <2>6, <2>7, <2>8, <2>9 DEF Handle
<1>8. ASSUME NEW v \in Worker, v # w PROVE Found(v)'
  <2>1. worker'[v] = worker[v]
    BY <1>2, <1>8 DEF Handle, Take, ReadLine, ReadHeaders, Spin, Stat, OpenAndRead, SendHeader,
                      SendBody, WriteTo, Destroy, Stop, Goes, ExitsServer, vars, serverVars
  <2> QED BY <1>1, <1>5, <2>1
<1>9. Quiet'
  <2>1. \A v \in Worker : worker'[v].pc = "open" => disk'[worker'[v].name] # "absent"
    BY <1>1, <1>7, <1>8
  <2> QED BY <1>1, <1>4, <2>1 DEF Quiet
(* The answers that are whole. *)
<1>10. ASSUME fifo # "data"
       PROVE  /\ \A c \in Client : thread'[c] = "done" => conn'[c] = "closed"
              /\ \A c \in Client : conn'[c] = "closed" => answer'[c] = Answer(file'[c], index)
  <2>1. CASE Destroy(w)
    <3>1. PICK d : d = worker[w].conn
      OBVIOUS
    <3>2. /\ UNCHANGED answer /\ conn' = [conn EXCEPT ![d] = "closed"]
          /\ worker[w].pc = "close"
      BY <2>1, <3>1 DEF Destroy
    <3>3. d \in Client /\ d # None
      BY <1>2, <3>1, <3>2, WorkersConnection DEF WebInv, Points
    <3>4. answer[d] = Answer(worker[w].name, worker[w].data)
      BY <3>1, <3>2, <3>3 DEF WebInv, Written, WrittenBy
    <3>5. worker[w].name = file[d] /\ worker[w].data = index
      BY <1>3, <1>5, <1>10, <3>1, <3>2
    <3>6. conn \in [Client -> {"none", "open", "closed"}]
      BY <1>2 DEF WebTypeOK
    <3> QED BY <1>1, <1>10, <3>2, <3>3, <3>4, <3>5, <3>6 DEF Serving
  <2>2. CASE SendHeader(w) \/ SendBody(w)
    <3>1. /\ UNCHANGED conn
          /\ \A c \in Client \ {worker[w].conn} : answer'[c] = answer[c]
      BY <1>2, <2>2 DEF SendHeader, SendBody, WriteTo, WebTypeOK
    <3>2. conn[worker[w].conn] = "open"
      <4>1. worker[w].conn # None
        BY <2>2 DEF SendHeader, SendBody, WebInv, Points
      <4> QED BY <4>1, WorkersConnection DEF WebInv
    <3> QED BY <1>1, <1>10, <3>1, <3>2 DEF Serving
  <2>3. CASE ~Destroy(w) /\ ~SendHeader(w) /\ ~SendBody(w)
    <3>1. UNCHANGED <<conn, answer>>
      BY <2>3 DEF Handle, Take, ReadLine, ReadHeaders, Spin, Stat, OpenAndRead, Stop, OnlyWorker,
                    vars
    <3> QED BY <1>1, <1>10, <3>1 DEF Serving
  <2> QED BY <2>1, <2>2, <2>3
<1>11. fifo' # "data" => Serving'
  BY <1>1, <1>7, <1>8, <1>10 DEF Serving
<1> QED BY <1>9, <1>11

(* Every step keeps what is so while nothing is disturbed.                 *)
LEMMA UndisturbedStep ==
  ASSUME WebInv, Ends, Undisturbed, [Next]_vars
  PROVE  Undisturbed'
<1> SUFFICES ASSUME ~Disturbed'
             PROVE  Quiet' /\ (fifo' # "data" => Serving')
  BY DEF Undisturbed
<1>1. ~Disturbed /\ Quiet /\ (fifo # "data" => Serving)
  BY DisturbedStays DEF Undisturbed, WebInv
<1>2. ~MakeFiles
  <2>1. changes \in 0..MaxChanges
    BY DEF WebInv, WebTypeOK
  <2> QED BY <2>1, WebAssumption DEF MakeFiles, Disturbed
<1>3. CASE UNCHANGED vars
  <2>1. /\ UNCHANGED <<disk, index, server, worker, fifo>>
        /\ UNCHANGED <<process, listed, thread, file, conn, answer>>
    BY <1>3 DEF vars, fileVars, serverVars, clientVars
  <2> QED BY <1>1, <2>1 DEF Quiet, Serving
<1> QED BY <1>1, <1>2, <1>3, UndisturbedMain, UndisturbedClient, UndisturbedWorker
       DEF Next, Terminated

(* As long as the client is not killed, the files are not made anew, the   *)
(* exit is asked for as it should be and random() does not return 0, the   *)
(* server fails for want of a client only after the exit, and the client   *)
(* only then, too: whatever their threads do, none is in the other's way.  *)
THEOREM NothingFailsUndisturbed == Spec => []OnlyDisturbed
<1> DEFINE Inv == WebInv /\ Ends /\ Undisturbed
<1>1. Init => Inv
  BY WebTypeInit, PointsInit, OwnedInit, WrittenInit, UndisturbedInit DEF WebInv
<1>2. Inv /\ [Next]_vars => Inv'
  <2> SUFFICES ASSUME Inv, [Next]_vars PROVE Inv'
    OBVIOUS
  <2>1. WebInv'
    BY WebTypeStep, PointsStep, OwnedStep, WrittenStep DEF WebInv
  <2>2. Ends'
    BY EndsStep DEF WebInv
  <2>3. Undisturbed'
    BY UndisturbedStep
  <2> QED BY <2>1, <2>2, <2>3
<1>3. Inv => OnlyDisturbed
  BY DEF Undisturbed, Quiet, OnlyDisturbed
<1> QED BY <1>1, <1>2, <1>3, PTL DEF Spec


=============================================================================
