------------------------------ MODULE Session ------------------------------
(***************************************************************************)
(* Connections of the server on Linux: the epoll thread accepts them,      *)
(* receives requests and hands each one to a worker thread through the     *)
(* task list; the worker executes it and writes the answer as far as the   *)
(* socket takes it, the epoll thread writes the rest.  The EventHandle of  *)
(* a connection goes from receiving to executing to sending, with a count  *)
(* of the threads that use it.  A client sends a request, which TCP may    *)
(* deliver in pieces, waits for the answer, and may go away at any time.   *)
(* A request is three parts: the two halves of its header and its body; an *)
(* answer is two.                                                          *)
(***************************************************************************)
EXTENDS Naturals, Sequences, FiniteSets

CONSTANTS
    Conns,      \* connections, in the order of their numbers
    Workers,    \* worker threads
    MaxConn,    \* ConnInfo objects
    MaxReq,     \* bound: requests of each client
    None

ASSUME SessionAssumption ==
    /\ IsFiniteSet(Conns) /\ IsFiniteSet(Workers) /\ Workers # {} /\ None \notin Conns
    /\ MaxConn \in Nat /\ MaxReq \in [Conns -> Nat]

VARIABLES
    running,    \* glbRunning
    epoll,      \* the epoll thread; its late is history: the workers that were late for the notification
    worker,     \* the worker threads
    taskList,
    connMap,    \* connections that have a ConnInfo
    ev,         \* EventHandle of each connection
    sock,       \* its socket: parts sent, arrived, read; answer parts in its buffer; edge to report
    cli,        \* the clients
    done        \* history: the requests executed for each connection, 0 for an unfinished header

vars == <<running, epoll, worker, taskList, connMap, ev, sock, cli, done>>

ReqParts == 3
HeadParts == 2
RepParts == 2
SendBuf == 1          \* answer parts that the socket takes before the client reads
Methods == {"none", "request"}

NewHandle == [st |-> "recv", head |-> 0, decoded |-> FALSE, body |-> 0, crc |-> 0, method |-> "none",
              role |-> FALSE, tag |-> 0, sent |-> 0, ref |-> 1, mem |-> "live"]
NoHandle == [NewHandle EXCEPT !.ref = 0, !.mem = "none"]
NewSock == [sent |-> 0, avail |-> 0, read |-> 0, out |-> <<>>, nospace |-> FALSE, eof |-> FALSE, edge |-> FALSE]
MinOf(a, b) == IF a <= b THEN a ELSE b
BodySize(e) == IF e.decoded THEN ReqParts - HeadParts ELSE 0

Locked(c) == \E w \in Workers : worker[w].pc = "write" /\ worker[w].c = c
Waiters == {w \in Workers : worker[w].pc = "wait"}

-----------------------------------------------------------------------------
(* The client: DBClient, with one request under way at a time.             *)

ClientStep == UNCHANGED <<running, epoll, worker, taskList, connMap, ev, done>>

\* MakeRequestPacket, Request.  Bound: MaxReq.
Request(c) ==
    /\ cli[c].pc = "idle" /\ cli[c].req < MaxReq[c]
    /\ cli' = [cli EXCEPT ![c].pc = "wait", ![c].req = @ + 1]
    /\ sock' = [sock EXCEPT ![c].sent = @ + ReqParts]
    /\ ClientStep

\* Parts of the request arrive at the server.
Arrive(c) ==
    /\ \E n \in 1 .. sock[c].sent - sock[c].avail :
          sock' = [sock EXCEPT ![c].avail = @ + n, ![c].edge = TRUE]
    /\ ClientStep /\ UNCHANGED cli

\* ExecuteInsert, ExecuteQuery and ExecuteNonQuery return when Recv has the whole answer.
Execute(me, got) ==
    IF Len(got) = RepParts THEN [me EXCEPT !.pc = "idle", !.got = <<>>] ELSE [me EXCEPT !.got = got]

\* Recv: the answer part by part; an error if the server closed the connection.
Recv(c) ==
    /\ cli[c].pc = "wait"
    /\ \/ /\ sock[c].out # <<>>
          /\ cli' = [cli EXCEPT ![c] = Execute(@, Append(@.got, Head(sock[c].out)))]
          /\ sock' = [sock EXCEPT ![c].out = Tail(@), ![c].edge = @ \/ sock[c].nospace, ![c].nospace = FALSE]
       \/ /\ sock[c].out = <<>> /\ ev[c].mem = "freed"
          /\ cli' = [cli EXCEPT ![c].pc = "idle", ![c].got = <<>>] /\ UNCHANGED sock
    /\ ClientStep

\* Disconnect, the end of the client's process, or a break of the connection.
Disconnect(c) ==
    /\ cli[c].pc \in {"idle", "wait"}
    /\ cli' = [cli EXCEPT ![c].pc = "closed", ![c].got = <<>>]
    /\ sock' = [sock EXCEPT ![c].eof = TRUE, ![c].edge = TRUE, ![c].out = <<>>]
    /\ ClientStep

-----------------------------------------------------------------------------
(* The epoll thread.                                                       *)

\* Mutant: the worker that will use the handle is not counted.
AddRef_m(e) == e
AddRef(e) == [e EXCEPT !.ref = @ + 1]

\* MinusRef; the last one deletes the handle, which closes the socket.
MinusRef(e) == [e EXCEPT !.ref = IF e.ref = 0 THEN 0 ELSE e.ref - 1, !.mem = IF e.ref <= 1 THEN "freed" ELSE @]

\* AddConnection needs a free ConnInfo, DelConnection gives it back.
MallocConnInfo == Cardinality(connMap) < MaxConn
AddConnection(c) == connMap' = connMap \cup {c}
DelConnection(c) == connMap' = connMap \ {c}

\* Without a ConnInfo the new handle is deleted, which closes the socket.
NewEvent(c) ==
    IF MallocConnInfo THEN ev' = [ev EXCEPT ![c] = NewHandle] /\ AddConnection(c)
    ELSE ev' = [ev EXCEPT ![c].mem = "freed"] /\ UNCHANGED connMap

\* The client connects; epoll_ctl fails for a socket that was closed, and with it the loop.
Accept(c) ==
    /\ epoll.pc = "wait" /\ running
    /\ cli[c].pc = "new" /\ cli' = [cli EXCEPT ![c].pc = "idle"]
    /\ NewEvent(c)
    /\ IF MallocConnInfo THEN sock' = [sock EXCEPT ![c].edge = TRUE] /\ UNCHANGED epoll
       ELSE epoll' = [epoll EXCEPT !.pc = "failed"] /\ UNCHANGED sock
    /\ UNCHANGED <<running, worker, taskList, done>>

\* epoll_wait, edge-triggered: what is true of the socket now, once for each change.
Mask(c) == {m \in {"hup", "in", "out"} :
              \/ m = "hup" /\ sock[c].eof
              \/ m = "in" /\ sock[c].avail > sock[c].read
              \/ m = "out" /\ Len(sock[c].out) < SendBuf}
EpollWait(c) ==
    /\ epoll.pc = "wait" /\ running /\ c \in connMap /\ sock[c].edge
    /\ sock' = [sock EXCEPT ![c].edge = FALSE]
    /\ epoll' = IF Mask(c) = {} THEN epoll ELSE [epoll EXCEPT !.pc = "handle", !.c = c, !.mask = Mask(c)]
    /\ UNCHANGED <<running, worker, taskList, connMap, ev, cli, done>>

Handled == [pc |-> "wait", c |-> None, mask |-> {}, late |-> {}]
EpollStep == epoll.pc = "handle" /\ epoll' = Handled /\ UNCHANGED <<running, cli, done>>

\* RemoveEvent.
RemoveEvent(c) == DelConnection(c) /\ ev' = [ev EXCEPT ![c] = MinusRef(@)]

HangUp(c) ==
    /\ epoll.c = c /\ "hup" \in epoll.mask
    /\ RemoveEvent(c) /\ EpollStep /\ UNCHANGED <<worker, taskList, sock>>

\* Mutant: nobody is told of the task.
PushTask_m(c) == taskList' = Append(taskList, c) /\ UNCHANGED worker

\* The task list, and notify_one.
PushTask(c) ==
    /\ taskList' = Append(taskList, c)
    /\ IF Waiters = {} THEN UNCHANGED worker
       ELSE \E w \in Waiters : worker' = [worker EXCEPT ![w].pc = "woken"]

\* The header is understood: method, checksum and length of the body are the request's.
DecodeHead(e) == [e EXCEPT !.decoded = TRUE, !.body = 0, !.method = "request", !.crc = 1]

\* What RecvData reads: parts of the header, DecodeHead (which a header that begins in the middle of one
\* does not pass), parts of the body.
Received(c) ==
    LET e == ev[c]
        n == sock[c].avail - sock[c].read
        h == MinOf(n, HeadParts - e.head)
        whole == e.head < HeadParts /\ e.head + h = HeadParts
        aligned == (sock[c].read + h) % ReqParts = HeadParts
        d == IF whole /\ aligned THEN DecodeHead([e EXCEPT !.head = @ + h]) ELSE [e EXCEPT !.head = @ + h]
        b == MinOf(n - h, BodySize(d) - d.body)
    IN  [failed |-> whole /\ ~aligned,
         read   |-> h + b,
         handle |-> [d EXCEPT !.body = @ + b]]

\* The body is complete, which an unfinished header with no body is too: the checksum of nothing is 0.
Complete(e) == e.body = BodySize(e)
CrcOk(e) == e.decoded \/ e.crc = 0

\* The state is first looked at without the lock.
RecvRefused(c) ==
    /\ epoll.c = c /\ "hup" \notin epoll.mask /\ "in" \in epoll.mask
    /\ ev[c].st # "recv"
    /\ RemoveEvent(c) /\ EpollStep /\ UNCHANGED <<worker, taskList, sock>>

\* Mutant: the state is not looked at.
RecvData_m(c) ==
    /\ epoll.c = c /\ "hup" \notin epoll.mask /\ "in" \in epoll.mask
    /\ ~Locked(c)
    /\ LET r == Received(c) IN
       /\ sock' = [sock EXCEPT ![c].read = @ + r.read]
       /\ IF r.failed \/ (Complete(r.handle) /\ ~CrcOk(r.handle))
          THEN RemoveEvent(c) /\ UNCHANGED <<worker, taskList>>
          ELSE /\ UNCHANGED connMap
               /\ IF Complete(r.handle)
                  THEN ev' = [ev EXCEPT ![c] = AddRef([r.handle EXCEPT !.st = "exec"])] /\ PushTask(c)
                  ELSE ev' = [ev EXCEPT ![c] = r.handle] /\ UNCHANGED <<worker, taskList>>
    /\ EpollStep

RecvData(c) ==
    /\ epoll.c = c /\ "hup" \notin epoll.mask /\ "in" \in epoll.mask
    /\ ev[c].st = "recv" /\ ~Locked(c)
    /\ LET r == Received(c) IN
       /\ sock' = [sock EXCEPT ![c].read = @ + r.read]
       /\ IF r.failed \/ (Complete(r.handle) /\ ~CrcOk(r.handle))
          THEN RemoveEvent(c) /\ UNCHANGED <<worker, taskList>>
          ELSE /\ UNCHANGED connMap
               /\ IF Complete(r.handle)
                  THEN ev' = [ev EXCEPT ![c] = AddRef([r.handle EXCEPT !.st = "exec"])] /\ PushTask(c)
                  ELSE ev' = [ev EXCEPT ![c] = r.handle] /\ UNCHANGED <<worker, taskList>>
    /\ EpollStep

\* A handle in its next state, nothing of a request received and nothing of an answer sent.
Ready(e, st) == [e EXCEPT !.st = st, !.head = 0, !.decoded = FALSE, !.body = 0, !.sent = 0]

\* One write of the socket: a part of the answer.
Wrote(c) ==
    /\ Len(sock[c].out) < SendBuf
    /\ sock' = [sock EXCEPT ![c].out = IF sock[c].eof THEN @ ELSE Append(@, ev[c].tag)]
Sent(e) == IF e.sent + 1 < RepParts THEN [e EXCEPT !.sent = @ + 1] ELSE Ready(e, "recv")

\* SendData: what is left of an answer, as far as the socket takes it.
SendData(c) ==
    /\ epoll.c = c /\ epoll.mask = {"out"} /\ ~Locked(c)
    /\ \/ /\ ev[c].st # "send" /\ UNCHANGED <<ev, connMap, sock>>
       \/ /\ ev[c].st = "send" /\ ev[c].sent < RepParts /\ Wrote(c)
          /\ ev' = [ev EXCEPT ![c] = Sent(@)] /\ UNCHANGED connMap
       \/ /\ ev[c].st = "send" /\ sock[c].eof   \* write fails
          /\ RemoveEvent(c) /\ UNCHANGED sock
    /\ EpollStep /\ UNCHANGED <<worker, taskList>>

SignalHandler == running /\ running' = FALSE /\ UNCHANGED <<epoll, worker, taskList, connMap, ev, sock, cli, done>>

\* Workers that have seen glbRunning and are yet to look at the task list: the notification, sent without
\* taskMutex_, is too early for them.  After a failure of the loop glbRunning is still set, for all of them.
Late == {w \in Workers : running \/ worker[w].pc = "take"}

\* The end of the loop notifies all workers, then joins them.  Mutant: it only joins them.
StopEpoll_m ==
    /\ \/ epoll.pc = "wait" /\ ~running
       \/ epoll.pc = "failed"
    /\ epoll' = [epoll EXCEPT !.pc = "join", !.late = Late]
    /\ UNCHANGED <<worker, running, taskList, connMap, ev, sock, cli, done>>

StopEpoll ==
    /\ \/ epoll.pc = "wait" /\ ~running
       \/ epoll.pc = "failed"
    /\ epoll' = [epoll EXCEPT !.pc = "join", !.late = Late]
    /\ worker' = [w \in Workers |-> IF w \in Waiters THEN [worker[w] EXCEPT !.pc = "woken"] ELSE worker[w]]
    /\ UNCHANGED <<running, taskList, connMap, ev, sock, cli, done>>
Joined ==
    /\ epoll.pc = "join" /\ \A w \in Workers : worker[w].pc = "exit"
    /\ epoll' = [epoll EXCEPT !.pc = "stopped"]
    /\ UNCHANGED <<running, worker, taskList, connMap, ev, sock, cli, done>>

-----------------------------------------------------------------------------
(* A worker thread.                                                        *)

WorkerStep(w, pc, c) == worker' = [worker EXCEPT ![w] = [pc |-> pc, c |-> c]] /\ UNCHANGED <<running, epoll, connMap, cli>>

WorkerLoop(w) ==
    /\ worker[w].pc = "loop" /\ WorkerStep(w, IF running THEN "take" ELSE "exit", None)
    /\ UNCHANGED <<taskList, ev, sock, done>>

\* Under taskMutex_: the first task, or wait; a worker that was woken does not wait again.
TakeTask(w) ==
    /\ worker[w].pc \in {"take", "woken"}
    /\ IF taskList # <<>>
       THEN WorkerStep(w, "got", Head(taskList)) /\ taskList' = Tail(taskList)
       ELSE WorkerStep(w, IF worker[w].pc = "take" THEN "wait" ELSE "loop", None) /\ UNCHANGED taskList
    /\ UNCHANGED <<ev, sock, done>>

\* A task taken while the server stops is given up.
GiveUp(w) ==
    /\ worker[w].pc = "got" /\ ~running /\ WorkerStep(w, "loop", None)
    /\ UNCHANGED <<taskList, ev, sock, done>>

\* The client sends nothing else before it has logged in: the first request that the server
\* understands is the login.
LoginPacket(c) == \A i \in 1 .. Len(done[c]) : done[c][i] = 0

\* The login gives the connection its role, or none, for the requests that follow.
ExecLogin(c) == IF LoginPacket(c) THEN BOOLEAN ELSE {ev[c].role}

\* ExecTask up to the answer, which is the error answer if no method was ever received.
Executed(c, role) ==
    [Ready(ev[c], "send") EXCEPT
                  !.role = IF ev[c].method = "request" THEN role ELSE @,
                  !.tag = IF ev[c].method = "request" THEN sock[c].read \div ReqParts ELSE 0]
ExecTask(w) ==
    /\ worker[w].pc = "got" /\ running
    /\ LET c == worker[w].c IN
       IF ev[c].st = "end" THEN WorkerStep(w, "unref", c) /\ UNCHANGED <<ev, done>>
       ELSE /\ \E role \in ExecLogin(c) :
                  ev' = [ev EXCEPT ![c] = Executed(c, role)]
            /\ done' = [done EXCEPT ![c] = Append(@, IF ev[c].method = "none" THEN 0 ELSE sock[c].read \div ReqParts)]
            /\ WorkerStep(w, "write", c)
    /\ UNCHANGED <<taskList, sock>>

\* _SendData: the parts of the answer one by one, still under the lock.
WritePart(w) ==
    /\ worker[w].pc = "write"
    /\ LET c == worker[w].c IN
       \/ /\ ev[c].sent < RepParts /\ Wrote(c)
          /\ ev' = [ev EXCEPT ![c].sent = @ + 1] /\ WorkerStep(w, "write", c)
       \/ /\ ev[c].sent < RepParts /\ Len(sock[c].out) = SendBuf      \* EAGAIN
          /\ sock' = [sock EXCEPT ![c].nospace = TRUE] /\ UNCHANGED ev /\ WorkerStep(w, "unref", c)
       \/ /\ ev[c].sent < RepParts /\ sock[c].eof
          /\ ev' = [ev EXCEPT ![c].st = "end"] /\ UNCHANGED sock /\ WorkerStep(w, "unref", c)
       \/ /\ ev[c].sent = RepParts                                    \* only now the state changes
          /\ ev' = [ev EXCEPT ![c] = Ready(@, "recv")]
          /\ UNCHANGED sock /\ WorkerStep(w, "unref", c)
    /\ UNCHANGED <<taskList, done>>

Unref(w) ==
    /\ worker[w].pc = "unref"
    /\ ev' = [ev EXCEPT ![worker[w].c] = MinusRef(@)] /\ WorkerStep(w, "loop", None)
    /\ UNCHANGED <<taskList, sock, done>>

-----------------------------------------------------------------------------
Init ==
    /\ running = TRUE /\ epoll = Handled
    /\ worker = [w \in Workers |-> [pc |-> "loop", c |-> None]]
    /\ taskList = <<>> /\ connMap = {}
    /\ ev = [c \in Conns |-> NoHandle] /\ sock = [c \in Conns |-> NewSock]
    /\ cli = [c \in Conns |-> [pc |-> "new", req |-> 0, got |-> <<>>]]
    /\ done = [c \in Conns |-> <<>>]

ClientNext(c) == Request(c) \/ Arrive(c) \/ Recv(c) \/ Disconnect(c)
Handle == \E c \in Conns : HangUp(c) \/ RecvRefused(c) \/ RecvData(c) \/ SendData(c)
WorkerNext(w) == WorkerLoop(w) \/ TakeTask(w) \/ GiveUp(w) \/ ExecTask(w) \/ WritePart(w) \/ Unref(w)
Next == \/ \E c \in Conns : ClientNext(c) \/ Accept(c) \/ EpollWait(c)
        \/ Handle \/ SignalHandler \/ StopEpoll \/ Joined
        \/ \E w \in Workers : WorkerNext(w)

\* The threads run; the ready list of epoll and the task list are queues; TCP delivers, and a client
\* that waits for an answer reads it.
Spec == Init /\ [][Next]_vars
FairSpec ==
    /\ Spec /\ WF_vars(Handle) /\ WF_vars(StopEpoll) /\ WF_vars(Joined)
    /\ \A c \in Conns : WF_vars(Arrive(c)) /\ WF_vars(Recv(c)) /\ SF_vars(EpollWait(c))
    /\ \A w \in Workers : WF_vars(WorkerNext(w))

-----------------------------------------------------------------------------
(* Properties                                                              *)

TypeOK ==
    /\ running \in BOOLEAN /\ epoll.pc \in {"wait", "handle", "failed", "join", "stopped"}
    /\ epoll.c \in Conns \cup {None} /\ epoll.mask \subseteq {"hup", "in", "out"} /\ epoll.late \subseteq Workers
    /\ \A w \in Workers : /\ worker[w].pc \in {"loop", "take", "wait", "woken", "got", "write", "unref", "exit"}
                          /\ worker[w].c \in Conns \cup {None}
    /\ taskList \in Seq(Conns) /\ \A i, j \in 1 .. Len(taskList) : taskList[i] = taskList[j] => i = j
    /\ connMap \subseteq Conns /\ Cardinality(connMap) <= MaxConn
    /\ \A c \in Conns :
         /\ ev[c].st \in {"recv", "exec", "send", "end"} /\ ev[c].head \in 0 .. HeadParts
         /\ ev[c].body \in 0 .. 1 /\ ev[c].method \in Methods /\ ev[c].tag \in 0 .. MaxReq[c]
         /\ ev[c].sent \in 0 .. RepParts /\ ev[c].ref \in 0 .. Cardinality(Workers) + 2 /\ ev[c].mem \in {"none", "live", "freed"}
         /\ sock[c].read <= sock[c].avail /\ sock[c].avail <= sock[c].sent
         /\ cli[c].pc \in {"new", "idle", "wait", "closed"} /\ cli[c].req \in 0 .. MaxReq[c]

\* No thread has a handle that was deleted: neither a worker with a task, nor the task list, nor the
\* epoll thread with an event for it.
NoUseAfterFree ==
    /\ \A w \in Workers : worker[w].pc \in {"got", "write", "unref"} => ev[worker[w].c].mem = "live"
    /\ \A i \in DOMAIN taskList : ev[taskList[i]].mem = "live"
    /\ epoll.pc = "handle" => ev[epoll.c].mem = "live"

\* A header whose first part came alone was answered with an error: the client takes it for the
\* answer to its request, which is still on its way.
Mistaken(c) == \E i \in 1 .. Len(done[c]) : done[c][i] = 0

\* The requests of a connection are executed one after the other, none twice, none before it was
\* sent, and what a client reads while it waits answers the request it waits for, unless it was
\* mistaken about an earlier one.
OwnAnswer ==
    \A c \in Conns :
       /\ \A i \in 1 .. Len(done[c]) :
             /\ done[c][i] <= cli[c].req
             /\ \A j \in 1 .. i - 1 : done[c][j] = 0 \/ done[c][j] < done[c][i]
       /\ cli[c].pc = "wait" /\ ~Mistaken(c) =>
            /\ \A i \in 1 .. Len(sock[c].out) : sock[c].out[i] = cli[c].req
            /\ \A i \in 1 .. Len(cli[c].got) : cli[c].got[i] = cli[c].req

\* A client that waits for an answer gets one, or the connection is closed, unless the server is
\* stopped or has run out of ConnInfo objects and stopped listening.
Answered == \A c \in Conns : cli[c].pc = "wait" ~> (cli[c].pc # "wait" \/ ~running \/ epoll.pc \in {"failed", "join"})

\* After the signal the server stops, whatever the workers are doing and whatever is left in the task list,
\* unless a worker was between its look at glbRunning and its wait when the workers were notified, or
\* glbRunning was not yet cleared then.
Stops == (epoll.pc = "join" /\ ~running /\ epoll.late = {}) ~> epoll.pc = "stopped"
=============================================================================
