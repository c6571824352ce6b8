---------------------------- MODULE SessionProofs ----------------------------
(***************************************************************************)
(* Proofs about module Session, whatever the number of connections,        *)
(* workers, ConnInfo objects and requests.                                 *)
(*                                                                         *)
(* References: no thread is left with an EventHandle that was deleted.     *)
(* The count of a handle is at least the number of its holders: the epoll  *)
(* thread, as long as it is listed in connMap; the task list, or the one   *)
(* worker that executes its request; and each worker that is about to give *)
(* its reference up.                                                       *)
(*                                                                         *)
(* Answers: requests are executed in their order, and a client that waits  *)
(* reads the answer to its own.  What ties the two ends of a connection    *)
(* together is the number of parts that were read and that the handle      *)
(* holds: the difference is where the request begins that is received.     *)
(*                                                                         *)
(* Bounds: no reference is counted without a holder, so that the types of  *)
(* TypeOK hold with their bounds.                                          *)
(***************************************************************************)
EXTENDS Session, FiniteSetTheorems, TLAPS

-----------------------------------------------------------------------------
(* The inductive invariant.                                                 *)

Stages == {"recv", "exec", "send", "end"}
Mems == {"none", "live", "freed"}
Handles ==
    [st : Stages, head : Int, decoded : BOOLEAN, body : Int, crc : Int,
     method : Methods, role : BOOLEAN, tag : Int, sent : Int, ref : Nat, mem : Mems]
Sockets ==
    [sent : Int, avail : Int, read : Int, out : Seq(Int), nospace : BOOLEAN, eof : BOOLEAN, edge : BOOLEAN]
Clients == [pc : {"new", "idle", "wait", "closed"}, req : Int, got : Seq(Int)]
Epolls ==
    [pc : {"wait", "handle", "failed", "join", "stopped"}, c : Conns \cup {None},
     mask : SUBSET {"hup", "in", "out"}, late : SUBSET Workers]
WorkerStates == {"loop", "take", "wait", "woken", "got", "write", "unref", "exit"}

\* The types that the argument needs; the bounds are in TypeOK.
Types ==
    /\ epoll \in Epolls
    /\ worker \in [Workers -> [pc : WorkerStates, c : Conns \cup {None}]]
    /\ taskList \in Seq(Conns) /\ connMap \subseteq Conns
    /\ ev \in [Conns -> Handles] /\ sock \in [Conns -> Sockets] /\ cli \in [Conns -> Clients]

\* Who has a handle.
Queued(c) == \E i \in 1 .. Len(taskList) : taskList[i] = c
Executes(w, c) == worker[w].pc \in {"got", "write"} /\ worker[w].c = c
Active(c) == Queued(c) \/ \E w \in Workers : Executes(w, c)
Leaving(c) == {w \in Workers : worker[w].pc = "unref" /\ worker[w].c = c}
One(b) == IF b THEN 1 ELSE 0
Holders(c) == Cardinality(Leaving(c)) + One(Active(c)) + One(c \in connMap)

\* A worker beyond TakeTask has a connection, and the epoll thread handles one that is listed.
Attached ==
    /\ \A w \in Workers : worker[w].pc \in {"got", "write", "unref"} => worker[w].c \in Conns
    /\ epoll.pc = "handle" => epoll.c \in connMap

\* A handle is with one thread at a time, as its state says.
Exclusive ==
    /\ \A i, j \in 1 .. Len(taskList) : taskList[i] = taskList[j] => i = j
    /\ \A w, v \in Workers : \A c \in Conns : Executes(w, c) /\ Executes(v, c) => w = v
    /\ \A w \in Workers : \A c \in Conns : Executes(w, c) => ~Queued(c)
    /\ \A c \in Conns : Queued(c) => ev[c].st = "exec"
    /\ \A w \in Workers : worker[w].pc = "got" => ev[worker[w].c].st = "exec"
    /\ \A w \in Workers : worker[w].pc = "write" => ev[worker[w].c].st = "send"

\* The count of references covers the holders, and the handle is there as long as it is not 0.
Counted ==
    \A c \in Conns :
       /\ Holders(c) <= ev[c].ref
       /\ ev[c].mem = "live" <=> ev[c].ref >= 1
       /\ cli[c].pc = "new" => ev[c].ref = 0

IInv == Types /\ Attached /\ Exclusive /\ Counted

-----------------------------------------------------------------------------
(* Changes of a handle and of a socket.                                     *)

\* What a change of the buffers leaves alone.
Same(r, e) == r \in Handles /\ r.st = e.st /\ r.ref = e.ref /\ r.mem = e.mem

LEMMA SetField ==
    \A e \in Handles :
       /\ \A v \in Int : /\ Same([e EXCEPT !.head = v], e) /\ Same([e EXCEPT !.body = v], e)
                         /\ Same([e EXCEPT !.crc = v], e) /\ Same([e EXCEPT !.tag = v], e)
                         /\ Same([e EXCEPT !.sent = v], e)
       /\ \A v \in BOOLEAN : Same([e EXCEPT !.decoded = v], e) /\ Same([e EXCEPT !.role = v], e)
       /\ \A v \in Methods : Same([e EXCEPT !.method = v], e)
<1> SUFFICES ASSUME NEW e \in Handles
             PROVE  /\ \A v \in Int : /\ Same([e EXCEPT !.head = v], e) /\ Same([e EXCEPT !.body = v], e)
                                      /\ Same([e EXCEPT !.crc = v], e) /\ Same([e EXCEPT !.tag = v], e)
                                      /\ Same([e EXCEPT !.sent = v], e)
                    /\ \A v \in BOOLEAN : Same([e EXCEPT !.decoded = v], e) /\ Same([e EXCEPT !.role = v], e)
                    /\ \A v \in Methods : Same([e EXCEPT !.method = v], e)
  OBVIOUS
<1>1. \A v \in Int : Same([e EXCEPT !.head = v], e) /\ Same([e EXCEPT !.body = v], e)
  BY DEF Handles, Same
<1>2. \A v \in Int : Same([e EXCEPT !.crc = v], e) /\ Same([e EXCEPT !.tag = v], e)
  BY DEF Handles, Same
<1>3. \A v \in Int : Same([e EXCEPT !.sent = v], e)
  BY DEF Handles, Same
<1>4. \A v \in BOOLEAN : Same([e EXCEPT !.decoded = v], e) /\ Same([e EXCEPT !.role = v], e)
  BY DEF Handles, Same
<1>5. \A v \in Methods : Same([e EXCEPT !.method = v], e)
  BY DEF Handles, Same
<1> QED
  BY <1>1, <1>2, <1>3, <1>4, <1>5

LEMMA SetState ==
    ASSUME NEW e \in Handles, NEW v \in Stages
    PROVE  /\ [e EXCEPT !.st = v] \in Handles /\ [e EXCEPT !.st = v].st = v
           /\ [e EXCEPT !.st = v].ref = e.ref /\ [e EXCEPT !.st = v].mem = e.mem
BY DEF Handles

LEMMA SetRef ==
    ASSUME NEW e \in Handles, NEW n \in Nat
    PROVE  /\ [e EXCEPT !.ref = n] \in Handles /\ [e EXCEPT !.ref = n].st = e.st
           /\ [e EXCEPT !.ref = n].ref = n /\ [e EXCEPT !.ref = n].mem = e.mem
BY DEF Handles

LEMMA SetMem ==
    ASSUME NEW e \in Handles, NEW m \in Mems
    PROVE  /\ [e EXCEPT !.mem = m] \in Handles /\ [e EXCEPT !.mem = m].st = e.st
           /\ [e EXCEPT !.mem = m].ref = e.ref /\ [e EXCEPT !.mem = m].mem = m
BY DEF Handles

LEMMA SetSocket ==
    \A s \in Sockets :
       /\ \A v \in Int : /\ [s EXCEPT !.sent = v] \in Sockets /\ [s EXCEPT !.avail = v] \in Sockets
                         /\ [s EXCEPT !.read = v] \in Sockets
       /\ \A v \in BOOLEAN : /\ [s EXCEPT !.nospace = v] \in Sockets /\ [s EXCEPT !.eof = v] \in Sockets
                             /\ [s EXCEPT !.edge = v] \in Sockets
       /\ \A v \in Seq(Int) : [s EXCEPT !.out = v] \in Sockets
BY DEF Sockets

-----------------------------------------------------------------------------
(* What the operators on a handle return.                                   *)

LEMMA AddRefType ==
    ASSUME NEW e \in Handles
    PROVE  /\ AddRef(e) \in Handles /\ AddRef(e).st = e.st
           /\ AddRef(e).ref = e.ref + 1 /\ AddRef(e).mem = e.mem
<1>1. e.ref + 1 \in Nat
  BY DEF Handles
<1> QED
  BY <1>1, SetRef, Zenon DEF AddRef

LEMMA MinusRefType ==
    ASSUME NEW e \in Handles
    PROVE  /\ MinusRef(e) \in Handles /\ MinusRef(e).st = e.st
           /\ MinusRef(e).ref = IF e.ref = 0 THEN 0 ELSE e.ref - 1
           /\ MinusRef(e).mem = IF e.ref <= 1 THEN "freed" ELSE e.mem
<1> DEFINE n == IF e.ref = 0 THEN 0 ELSE e.ref - 1
           m == IF e.ref <= 1 THEN "freed" ELSE e.mem
           less == [e EXCEPT !.ref = n]
<1>1. n \in Nat /\ m \in Mems
  BY DEF Handles, Mems
<1>2. MinusRef(e) = [less EXCEPT !.mem = m]
  BY Zenon DEF MinusRef
<1> HIDE DEF n, m
<1>3. less \in Handles /\ less.st = e.st /\ less.ref = n /\ less.mem = e.mem
  BY <1>1, SetRef, Zenon
<1> HIDE DEF less
<1>4. /\ [less EXCEPT !.mem = m] \in Handles /\ [less EXCEPT !.mem = m].st = less.st
      /\ [less EXCEPT !.mem = m].ref = less.ref /\ [less EXCEPT !.mem = m].mem = m
  BY <1>1, <1>3, SetMem, Zenon
<1>5. /\ MinusRef(e) \in Handles /\ MinusRef(e).st = e.st
      /\ MinusRef(e).ref = n /\ MinusRef(e).mem = m
  BY <1>2, <1>3, <1>4, Zenon
<1> QED
  BY <1>5, Zenon DEF n, m

LEMMA DecodeHeadType ==
    ASSUME NEW e \in Handles
    PROVE  Same(DecodeHead(e), e)
<1>1. 0 \in Int /\ 1 \in Int /\ TRUE \in BOOLEAN /\ "request" \in Methods
  BY DEF Methods
<1>2. \A r : Same(r, e) =>
         /\ Same([r EXCEPT !.body = 0], e) /\ Same([r EXCEPT !.crc = 1], e)
         /\ Same([r EXCEPT !.method = "request"], e)
  <2> TAKE r
  <2> HAVE Same(r, e)
  <2>1. /\ Same([r EXCEPT !.body = 0], r) /\ Same([r EXCEPT !.crc = 1], r)
        /\ Same([r EXCEPT !.method = "request"], r)
    BY <1>1, SetField, Zenon DEF Same
  <2> QED
    BY <2>1, Zenon DEF Same
<1>3. Same([e EXCEPT !.decoded = TRUE], e)
  BY <1>1, SetField, Zenon
<1> QED
  BY <1>2, <1>3, Zenon DEF DecodeHead

LEMMA ReadyType ==
    ASSUME NEW e \in Handles, NEW st \in Stages
    PROVE  /\ Ready(e, st) \in Handles /\ Ready(e, st).st = st
           /\ Ready(e, st).ref = e.ref /\ Ready(e, st).mem = e.mem
<1> DEFINE next == [e EXCEPT !.st = st]
<1>1. 0 \in Int /\ FALSE \in BOOLEAN
  OBVIOUS
<1>2. next \in Handles /\ next.st = st /\ next.ref = e.ref /\ next.mem = e.mem
  BY SetState, Zenon
<1>3. Ready(e, st) = [next EXCEPT !.head = 0, !.decoded = FALSE, !.body = 0, !.sent = 0]
  BY Zenon DEF Ready
<1> HIDE DEF next
<1>4. \A r : Same(r, next) =>
         /\ Same([r EXCEPT !.body = 0], next) /\ Same([r EXCEPT !.sent = 0], next)
         /\ Same([r EXCEPT !.decoded = FALSE], next)
  <2> TAKE r
  <2> HAVE Same(r, next)
  <2>1. /\ Same([r EXCEPT !.body = 0], r) /\ Same([r EXCEPT !.sent = 0], r)
        /\ Same([r EXCEPT !.decoded = FALSE], r)
    BY <1>1, SetField, Zenon DEF Same
  <2> QED
    BY <2>1, Zenon DEF Same
<1>5. Same([next EXCEPT !.head = 0], next)
  BY <1>1, <1>2, SetField, Zenon
<1>6. Same(Ready(e, st), next)
  BY <1>3, <1>4, <1>5, Zenon
<1> QED
  BY <1>2, <1>6, Zenon DEF Same

LEMMA SentType ==
    ASSUME NEW e \in Handles
    PROVE  /\ Sent(e) \in Handles /\ Sent(e).st \in {e.st, "recv"}
           /\ Sent(e).ref = e.ref /\ Sent(e).mem = e.mem
<1>1. e.sent + 1 \in Int
  BY DEF Handles
<1>2. Same([e EXCEPT !.sent = e.sent + 1], e)
  BY <1>1, SetField, Zenon
<1>3. CASE e.sent + 1 < RepParts
  BY <1>2, <1>3, Zenon DEF Sent, Same
<1>4. CASE ~(e.sent + 1 < RepParts)
  <2>1. "recv" \in Stages
    BY DEF Stages
  <2> QED
    BY <1>4, <2>1, ReadyType, Zenon DEF Sent
<1> QED
  BY <1>3, <1>4

LEMMA ReceivedType ==
    ASSUME Types, NEW c \in Conns
    PROVE  Same(Received(c).handle, ev[c]) /\ Received(c).read \in Int
<1> DEFINE e == ev[c]
           n == sock[c].avail - sock[c].read
           h == MinOf(n, HeadParts - e.head)
           whole == e.head < HeadParts /\ e.head + h = HeadParts
           aligned == (sock[c].read + h) % ReqParts = HeadParts
           more == [e EXCEPT !.head = @ + h]
           d == IF whole /\ aligned THEN DecodeHead(more) ELSE more
           b == MinOf(n - h, BodySize(d) - d.body)
           last == [d EXCEPT !.body = @ + b]
<1>1. e \in Handles /\ n \in Int
  BY DEF Types, Sockets
<1>2. h \in Int /\ e.head + h \in Int
  BY <1>1 DEF MinOf, HeadParts, Handles
<1>3. Received(c).read = h + b /\ Received(c).handle = last
  BY DEF Received
<1> HIDE DEF e, h, n, whole, aligned
<1>4. Same(more, e)
  BY <1>1, <1>2, SetField, Zenon
<1> HIDE DEF more
<1>5. Same(d, e)
  <2>1. Same(DecodeHead(more), more)
    BY <1>4, DecodeHeadType, Zenon DEF Same
  <2> QED
    BY <1>4, <2>1, Zenon DEF Same
<1> HIDE DEF d
<1>6. d \in Handles
  BY <1>5, Zenon DEF Same
<1>7. BodySize(d) \in Int /\ d.body \in Int
  BY <1>6 DEF BodySize, ReqParts, HeadParts, Handles
<1>8. b \in Int
  BY <1>1, <1>2, <1>7 DEF MinOf
<1> HIDE DEF b
<1>9. d.body + b \in Int /\ h + b \in Int
  BY <1>2, <1>7, <1>8
<1>10. Same(last, d)
  BY <1>6, <1>9, SetField, Zenon
<1>11. Same(last, e)
  BY <1>5, <1>10, Zenon DEF Same
<1> QED
  BY <1>3, <1>9, <1>11, Zenon DEF e

-----------------------------------------------------------------------------
(* The holders of a handle.                                                 *)

LEMMA HoldersType ==
    ASSUME NEW c \in Conns
    PROVE  /\ IsFiniteSet(Leaving(c)) /\ Cardinality(Leaving(c)) \in Nat
           /\ One(Active(c)) \in {0, 1} /\ One(c \in connMap) \in {0, 1}
           /\ Holders(c) \in Nat
<1>1. Leaving(c) \in SUBSET Workers
  BY DEF Leaving
<1>2. IsFiniteSet(Leaving(c)) /\ Cardinality(Leaving(c)) \in Nat
  BY <1>1, SessionAssumption, FS_Subset, FS_CardinalityType
<1>3. One(Active(c)) \in {0, 1} /\ One(c \in connMap) \in {0, 1}
  BY DEF One
<1> QED
  BY <1>2, <1>3 DEF Holders

\* A step that takes no task and no worker into or out of the use of a handle.
SameWork ==
    /\ taskList' = taskList
    /\ \A w \in Workers :
          \/ worker'[w] = worker[w]
          \/ worker[w].pc \notin {"got", "write", "unref"} /\ worker'[w].pc \notin {"got", "write", "unref"}

LEMMA SameWorkHolders ==
    ASSUME SameWork, NEW c \in Conns
    PROVE  /\ Leaving(c)' = Leaving(c) /\ Queued(c)' = Queued(c) /\ Active(c)' = Active(c)
           /\ \A w \in Workers : Executes(w, c)' = Executes(w, c)
<1>1. Leaving(c)' = Leaving(c)
  BY DEF SameWork, Leaving
<1>2. Queued(c)' = Queued(c)
  BY DEF SameWork, Queued
<1>3. \A w \in Workers : Executes(w, c)' = Executes(w, c)
  BY DEF SameWork, Executes
<1>4. Active(c)' = Active(c)
  BY <1>2, <1>3 DEF Active
<1> QED
  BY <1>1, <1>2, <1>3, <1>4

\* Such a step keeps the invariant if the states of handles in use stay, and the count covers a
\* change of connMap.
LEMMA SameWorkStep ==
    ASSUME IInv, SameWork, Types', Attached',
           \A d \in Conns : Active(d) => ev'[d].st = ev[d].st,
           \A d \in Conns : ev[d].ref + One(d \in connMap)' <= ev'[d].ref + One(d \in connMap),
           \A d \in Conns : ev'[d].mem = "live" <=> ev'[d].ref >= 1,
           \A d \in Conns : cli'[d].pc = "new" => ev'[d].ref = 0
    PROVE  IInv'
<1>1. Exclusive'
  <2>1. \A i, j \in 1 .. Len(taskList') : taskList'[i] = taskList'[j] => i = j
    BY DEF IInv, Exclusive, SameWork
  <2>2. /\ \A w, v \in Workers : \A c \in Conns : Executes(w, c)' /\ Executes(v, c)' => w = v
        /\ \A w \in Workers : \A c \in Conns : Executes(w, c)' => ~Queued(c)'
    BY SameWorkHolders DEF IInv, Exclusive
  <2>3. \A c \in Conns : Queued(c)' => ev'[c].st = "exec"
    BY SameWorkHolders DEF IInv, Exclusive, Active
  <2>4. ASSUME NEW w \in Workers, worker'[w].pc \in {"got", "write"}
        PROVE  worker'[w] = worker[w] /\ ev'[worker[w].c].st = ev[worker[w].c].st
    <3>1. worker'[w] = worker[w]
      BY <2>4 DEF SameWork
    <3>2. worker[w].c \in Conns /\ Executes(w, worker[w].c)
      BY <2>4, <3>1 DEF IInv, Attached, Executes
    <3> QED
      BY <3>1, <3>2 DEF Active
  <2>5. /\ \A w \in Workers : worker'[w].pc = "got" => ev'[worker'[w].c].st = "exec"
        /\ \A w \in Workers : worker'[w].pc = "write" => ev'[worker'[w].c].st = "send"
    BY <2>4 DEF IInv, Exclusive
  <2> QED
    BY <2>1, <2>2, <2>3, <2>5 DEF Exclusive
<1>2. Counted'
  <2> SUFFICES ASSUME NEW c \in Conns PROVE Holders(c)' <= ev'[c].ref
    BY DEF Counted
  <2>1. Holders(c)' = Cardinality(Leaving(c)) + One(Active(c)) + One(c \in connMap)'
    BY SameWorkHolders DEF Holders
  <2>2. Holders(c) = Cardinality(Leaving(c)) + One(Active(c)) + One(c \in connMap)
    BY DEF Holders
  <2>3. Holders(c) <= ev[c].ref /\ ev[c].ref \in Nat /\ ev'[c].ref \in Nat
    BY DEF IInv, Counted, Types, Handles
  <2>4. One(c \in connMap)' \in {0, 1}
    BY DEF One
  <2> QED
    BY <2>1, <2>2, <2>3, <2>4, HoldersType
<1> QED
  BY <1>1, <1>2 DEF IInv

\* The commonest case: the handles and connMap stay too.
LEMMA FrameStep ==
    ASSUME IInv, SameWork, Types', Attached', ev' = ev, connMap' = connMap,
           \A d \in Conns : cli'[d].pc = "new" => cli[d].pc = "new"
    PROVE  IInv'
<1>1. \A d \in Conns : /\ ev[d].ref \in Nat /\ One(d \in connMap)' = One(d \in connMap)
                       /\ One(d \in connMap) \in {0, 1}
  BY DEF IInv, Types, Handles, One
<1>2. \A d \in Conns : ev[d].ref + One(d \in connMap)' <= ev'[d].ref + One(d \in connMap)
  BY <1>1
<1>3. \A d \in Conns : /\ ev'[d].mem = "live" <=> ev'[d].ref >= 1
                       /\ cli'[d].pc = "new" => ev'[d].ref = 0
  BY DEF IInv, Counted
<1> QED
  BY <1>2, <1>3, SameWorkStep

-----------------------------------------------------------------------------
(* The initial states, and the steps of the clients.                        *)

LEMMA SetSockets ==
    \A f \in [Conns -> Sockets] : \A c \in Conns :
       /\ \A v \in Int : /\ [f EXCEPT ![c].sent = v] \in [Conns -> Sockets]
                         /\ [f EXCEPT ![c].avail = v] \in [Conns -> Sockets]
                         /\ [f EXCEPT ![c].read = v] \in [Conns -> Sockets]
       /\ \A v \in BOOLEAN : /\ [f EXCEPT ![c].nospace = v] \in [Conns -> Sockets]
                             /\ [f EXCEPT ![c].eof = v] \in [Conns -> Sockets]
                             /\ [f EXCEPT ![c].edge = v] \in [Conns -> Sockets]
       /\ \A v \in Seq(Int) : [f EXCEPT ![c].out = v] \in [Conns -> Sockets]
<1> SUFFICES ASSUME NEW f \in [Conns -> Sockets], NEW c \in Conns
             PROVE  /\ \A v \in Int : /\ [f EXCEPT ![c].sent = v] \in [Conns -> Sockets]
                                      /\ [f EXCEPT ![c].avail = v] \in [Conns -> Sockets]
                                      /\ [f EXCEPT ![c].read = v] \in [Conns -> Sockets]
                    /\ \A v \in BOOLEAN : /\ [f EXCEPT ![c].nospace = v] \in [Conns -> Sockets]
                                          /\ [f EXCEPT ![c].eof = v] \in [Conns -> Sockets]
                                          /\ [f EXCEPT ![c].edge = v] \in [Conns -> Sockets]
                    /\ \A v \in Seq(Int) : [f EXCEPT ![c].out = v] \in [Conns -> Sockets]
  OBVIOUS
<1>1. \A s \in Sockets : [f EXCEPT ![c] = s] \in [Conns -> Sockets]
  OBVIOUS
<1>2. f[c] \in Sockets
  OBVIOUS
<1> QED
  BY <1>1, <1>2, SetSocket, Zenon

\* A client that has connected does not become new again.
NotNew(f, g) == g \in [Conns -> Clients] /\ \A d \in Conns : g[d].pc = "new" => f[d].pc = "new"

LEMMA SetClients ==
    \A f \in [Conns -> Clients] : \A c \in Conns :
       /\ \A v \in {"idle", "wait", "closed"} : NotNew(f, [f EXCEPT ![c].pc = v])
       /\ \A v \in Int : NotNew(f, [f EXCEPT ![c].req = v])
       /\ \A v \in Seq(Int) : NotNew(f, [f EXCEPT ![c].got = v])
<1> SUFFICES ASSUME NEW f \in [Conns -> Clients], NEW c \in Conns
             PROVE  /\ \A v \in {"idle", "wait", "closed"} : NotNew(f, [f EXCEPT ![c].pc = v])
                    /\ \A v \in Int : NotNew(f, [f EXCEPT ![c].req = v])
                    /\ \A v \in Seq(Int) : NotNew(f, [f EXCEPT ![c].got = v])
  OBVIOUS
<1>1. f[c] \in Clients
  OBVIOUS
<1>2. \A k \in Clients : (k.pc = "new" => f[c].pc = "new") => NotNew(f, [f EXCEPT ![c] = k])
  BY DEF NotNew
<1>3. /\ \A v \in {"idle", "wait", "closed"} : [f[c] EXCEPT !.pc = v] \in Clients /\ [f[c] EXCEPT !.pc = v].pc = v
      /\ \A v \in Int : [f[c] EXCEPT !.req = v] \in Clients /\ [f[c] EXCEPT !.req = v].pc = f[c].pc
      /\ \A v \in Seq(Int) : [f[c] EXCEPT !.got = v] \in Clients /\ [f[c] EXCEPT !.got = v].pc = f[c].pc
  BY <1>1 DEF Clients
<1>4. \A v \in {"idle", "wait", "closed"} : v # "new"
  OBVIOUS
<1> DEFINE Live == {"idle", "wait", "closed"}
<1>5. \A v \in Live : [f[c] EXCEPT !.pc = v] \in Clients /\ [f[c] EXCEPT !.pc = v].pc # "new"
  BY <1>3, <1>4
<1> HIDE DEF Live
<1>6. \A v \in Live : NotNew(f, [f EXCEPT ![c].pc = v])
  BY <1>2, <1>5, Zenon
<1>7. /\ \A v \in Int : NotNew(f, [f EXCEPT ![c].req = v])
      /\ \A v \in Seq(Int) : NotNew(f, [f EXCEPT ![c].got = v])
  BY <1>2, <1>3, Zenon
<1> QED
  BY <1>6, <1>7 DEF Live

LEMMA WroteType ==
    ASSUME Types, NEW c \in Conns, Wrote(c)
    PROVE  sock' \in [Conns -> Sockets]
<1> DEFINE out == IF sock[c].eof THEN sock[c].out ELSE Append(sock[c].out, ev[c].tag)
<1>1. out \in Seq(Int) /\ sock \in [Conns -> Sockets]
  BY DEF Types, Sockets, Handles
<1>2. sock' = [sock EXCEPT ![c].out = out]
  BY DEF Wrote
<1> HIDE DEF out
<1> QED
  BY <1>1, <1>2, SetSockets, Zenon

LEMMA InitIInv ==
    ASSUME Init
    PROVE  IInv
<1>1. NewHandle \in Handles
  BY DEF NewHandle, Handles, Stages, Mems, Methods
<1>2. NoHandle \in Handles /\ NoHandle.ref = 0 /\ NoHandle.mem = "none"
  <2> DEFINE less == [NewHandle EXCEPT !.ref = 0]
  <2>1. 0 \in Nat /\ "none" \in Mems
    BY DEF Mems
  <2>2. less \in Handles /\ less.ref = 0
    BY <1>1, <2>1, SetRef, Zenon
  <2>3. NoHandle = [less EXCEPT !.mem = "none"]
    BY Zenon DEF NoHandle
  <2> HIDE DEF less
  <2>4. /\ [less EXCEPT !.mem = "none"] \in Handles
        /\ [less EXCEPT !.mem = "none"].ref = less.ref /\ [less EXCEPT !.mem = "none"].mem = "none"
    BY <2>1, <2>2, SetMem, Zenon
  <2> QED
    BY <2>2, <2>3, <2>4, Zenon
<1>3. Types
  <2>1. epoll \in Epolls
    BY DEF Init, Handled, Epolls
  <2>2. worker \in [Workers -> [pc : WorkerStates, c : Conns \cup {None}]]
    BY DEF Init, WorkerStates
  <2>3. taskList \in Seq(Conns) /\ connMap \subseteq Conns /\ ev \in [Conns -> Handles]
    BY <1>2 DEF Init
  <2>4. NewSock \in Sockets
    BY DEF NewSock, Sockets
  <2>5. sock \in [Conns -> Sockets]
    BY <2>4 DEF Init
  <2>6. cli \in [Conns -> Clients]
    BY DEF Init, Clients
  <2> QED
    BY <2>1, <2>2, <2>3, <2>5, <2>6 DEF Types
<1>4. Attached
  BY DEF Init, Attached, Handled
<1>5. /\ \A c \in Conns : ~Queued(c) /\ Leaving(c) = {}
      /\ \A w \in Workers : \A c \in Conns : ~Executes(w, c)
  BY DEF Init, Queued, Leaving, Executes
<1>6. Exclusive
  BY <1>5 DEF Init, Exclusive
<1>7. Counted
  <2> SUFFICES ASSUME NEW c \in Conns
               PROVE  Holders(c) <= ev[c].ref /\ (ev[c].mem = "live" <=> ev[c].ref >= 1) /\ ev[c].ref = 0
    BY DEF Counted
  <2>1. ev[c] = NoHandle
    BY DEF Init
  <2>2. Holders(c) = 0
    <3>1. Cardinality(Leaving(c)) = 0
      BY <1>5, FS_EmptySet
    <3>2. One(Active(c)) = 0 /\ One(c \in connMap) = 0
      BY <1>5, Zenon DEF Init, Active, One
    <3> QED
      BY <3>1, <3>2 DEF Holders
  <2> QED
    BY <1>2, <2>1, <2>2
<1> QED
  BY <1>3, <1>4, <1>6, <1>7 DEF IInv

LEMMA ExecuteType ==
    \A f \in [Conns -> Clients] : \A c \in Conns : \A got \in Seq(Int) :
       NotNew(f, [f EXCEPT ![c] = Execute(@, got)])
<1> SUFFICES ASSUME NEW f \in [Conns -> Clients], NEW c \in Conns, NEW got \in Seq(Int)
             PROVE  NotNew(f, [f EXCEPT ![c] = Execute(@, got)])
  OBVIOUS
<1>1. CASE Len(got) = RepParts
  <2> DEFINE idle == [f EXCEPT ![c].pc = "idle"]
             g == [f EXCEPT ![c] = Execute(@, got)]
  <2>1. "idle" \in {"idle", "wait", "closed"} /\ <<>> \in Seq(Int)
    OBVIOUS
  <2>2. g = [idle EXCEPT ![c].got = <<>>]
    BY <1>1 DEF Execute
  <2>3. NotNew(f, idle)
    BY <2>1, SetClients, Zenon
  <2> HIDE DEF idle, g
  <2>4. NotNew(idle, g)
    <3>1. idle \in [Conns -> Clients]
      BY <2>3 DEF NotNew
    <3> QED
      BY <2>1, <2>2, <3>1, SetClients, Zenon
  <2>5. NotNew(f, g)
    BY <2>3, <2>4, Zenon DEF NotNew
  <2> QED
    BY <2>5 DEF g
<1>2. CASE Len(got) # RepParts
  BY <1>2, SetClients, Zenon DEF Execute
<1> QED
  BY <1>1, <1>2

\* A step of the client changes its own state and its socket.
LEMMA ClientFrame ==
    ASSUME IInv, ClientStep, sock' \in [Conns -> Sockets], NotNew(cli, cli')
    PROVE  IInv'
<1>1. Types' /\ Attached' /\ SameWork
  BY DEF IInv, Types, Attached, SameWork, ClientStep, NotNew
<1> QED
  BY <1>1, FrameStep DEF ClientStep, NotNew

LEMMA ClientNextStep ==
    ASSUME IInv, NEW c \in Conns, ClientNext(c)
    PROVE  IInv'
<1>1. sock \in [Conns -> Sockets] /\ cli \in [Conns -> Clients] /\ sock[c] \in Sockets /\ cli[c] \in Clients
  BY DEF IInv, Types
<1>2. CASE Request(c)
  <2>1. sock[c].sent + ReqParts \in Int
    BY <1>1 DEF Sockets, ReqParts
  <2>2. sock' \in [Conns -> Sockets]
    BY <1>1, <1>2, <2>1, SetSockets, Zenon DEF Request
  <2>3. cli[c].req + 1 \in Int /\ "wait" \in {"idle", "wait", "closed"}
    BY <1>1 DEF Clients
  <2> DEFINE more == [cli EXCEPT ![c].pc = "wait"]
  <2>4. cli' = [more EXCEPT ![c].req = cli[c].req + 1]
    BY <1>2 DEF Request
  <2>5. NotNew(cli, more)
    BY <1>1, <2>3, SetClients, Zenon
  <2> HIDE DEF more
  <2>6. NotNew(more, cli')
    <3>1. more \in [Conns -> Clients]
      BY <2>5 DEF NotNew
    <3> QED
      BY <2>3, <2>4, <3>1, SetClients, Zenon
  <2>7. NotNew(cli, cli')
    BY <2>5, <2>6, Zenon DEF NotNew
  <2> QED
    BY <1>2, <2>2, <2>7, ClientFrame DEF Request
<1>3. CASE Arrive(c)
  <2>1. PICK n \in 1 .. sock[c].sent - sock[c].avail :
           sock' = [sock EXCEPT ![c].avail = @ + n, ![c].edge = TRUE]
    BY <1>3 DEF Arrive
  <2>2. sock[c].avail + n \in Int /\ TRUE \in BOOLEAN
    BY <1>1 DEF Sockets
  <2> DEFINE more == [sock EXCEPT ![c].avail = sock[c].avail + n]
  <2>3. more \in [Conns -> Sockets] /\ sock' = [more EXCEPT ![c].edge = TRUE]
    BY <1>1, <2>1, <2>2, SetSockets, Zenon
  <2> HIDE DEF more
  <2>4. sock' \in [Conns -> Sockets]
    BY <2>2, <2>3, SetSockets, Zenon
  <2> QED
    BY <1>1, <1>3, <2>4, ClientFrame DEF Arrive, NotNew
<1>4. CASE Recv(c)
  <2>1. CASE sock[c].out # <<>> /\ cli' = [cli EXCEPT ![c] = Execute(@, Append(@.got, Head(sock[c].out)))]
             /\ sock' = [sock EXCEPT ![c].out = Tail(@), ![c].edge = @ \/ sock[c].nospace, ![c].nospace = FALSE]
    <3>1. Tail(sock[c].out) \in Seq(Int) /\ Head(sock[c].out) \in Int
      BY <1>1, <2>1 DEF Sockets
    <3> DEFINE less == [sock EXCEPT ![c].out = Tail(@)]
               edge == less[c].edge \/ sock[c].nospace
               more == [less EXCEPT ![c].edge = edge]
    <3>2. less \in [Conns -> Sockets]
      BY <1>1, <3>1, SetSockets, Zenon
    <3>3. edge \in BOOLEAN /\ FALSE \in BOOLEAN
      OBVIOUS
    <3>4. sock' = [more EXCEPT ![c].nospace = FALSE]
      BY <2>1, Zenon
    <3> HIDE DEF less, edge
    <3>5. more \in [Conns -> Sockets]
      BY <3>2, <3>3, SetSockets, Zenon
    <3> HIDE DEF more
    <3>6. sock' \in [Conns -> Sockets]
      BY <3>3, <3>4, <3>5, SetSockets, Zenon
    <3>7. Append(cli[c].got, Head(sock[c].out)) \in Seq(Int)
      BY <1>1, <3>1 DEF Clients
    <3>8. NotNew(cli, cli')
      BY <1>1, <2>1, <3>7, ExecuteType, Zenon
    <3> QED
      BY <1>4, <3>6, <3>8, ClientFrame DEF Recv
  <2>2. CASE cli' = [cli EXCEPT ![c].pc = "idle", ![c].got = <<>>] /\ sock' = sock
    <3>1. "idle" \in {"idle", "wait", "closed"} /\ <<>> \in Seq(Int)
      OBVIOUS
    <3> DEFINE free == [cli EXCEPT ![c].pc = "idle"]
    <3>2. NotNew(cli, free) /\ cli' = [free EXCEPT ![c].got = <<>>]
      BY <1>1, <2>2, <3>1, SetClients, Zenon
    <3> HIDE DEF free
    <3>3. free \in [Conns -> Clients]
      BY <3>2 DEF NotNew
    <3>4. NotNew(free, cli')
      BY <3>1, <3>2, <3>3, SetClients, Zenon
    <3>5. NotNew(cli, cli')
      BY <3>2, <3>4, Zenon DEF NotNew
    <3> QED
      BY <1>1, <1>4, <2>2, <3>5, ClientFrame DEF Recv
  <2> QED
    BY <1>4, <2>1, <2>2 DEF Recv
<1>5. CASE Disconnect(c)
  <2>1. TRUE \in BOOLEAN /\ <<>> \in Seq(Int)
    OBVIOUS
  <2> DEFINE over == [sock EXCEPT ![c].eof = TRUE]
             told == [over EXCEPT ![c].edge = TRUE]
  <2>2. over \in [Conns -> Sockets] /\ sock' = [told EXCEPT ![c].out = <<>>]
    BY <1>1, <1>5, <2>1, SetSockets, Zenon DEF Disconnect
  <2> HIDE DEF over
  <2>3. told \in [Conns -> Sockets]
    BY <2>1, <2>2, SetSockets, Zenon
  <2> HIDE DEF told
  <2>4. sock' \in [Conns -> Sockets]
    BY <2>1, <2>2, <2>3, SetSockets, Zenon
  <2> DEFINE gone == [cli EXCEPT ![c].pc = "closed"]
  <2>5. "closed" \in {"idle", "wait", "closed"}
    OBVIOUS
  <2>6. NotNew(cli, gone) /\ cli' = [gone EXCEPT ![c].got = <<>>]
    BY <1>1, <1>5, <2>5, SetClients, Zenon DEF Disconnect
  <2> HIDE DEF gone
  <2>7. NotNew(gone, cli')
    <3>1. gone \in [Conns -> Clients]
      BY <2>6 DEF NotNew
    <3> QED
      BY <2>1, <2>6, <3>1, SetClients, Zenon
  <2>8. NotNew(cli, cli')
    BY <2>6, <2>7, Zenon DEF NotNew
  <2> QED
    BY <1>5, <2>4, <2>8, ClientFrame DEF Disconnect
<1> QED
  BY <1>2, <1>3, <1>4, <1>5 DEF ClientNext

-----------------------------------------------------------------------------
(* The steps of the epoll thread.                                           *)

LEMMA SetHandle ==
    ASSUME Types, NEW c \in Conns, NEW e \in Handles, ev' = [ev EXCEPT ![c] = e]
    PROVE  /\ ev' \in [Conns -> Handles] /\ ev'[c] = e /\ ev[c] \in Handles
           /\ \A d \in Conns : d # c => ev'[d] = ev[d]
BY DEF Types

\* What is known of each handle.
LEMMA HandleFacts ==
    ASSUME IInv, NEW c \in Conns
    PROVE  /\ ev[c] \in Handles /\ ev[c].ref \in Nat
           /\ Cardinality(Leaving(c)) + One(Active(c)) + One(c \in connMap) <= ev[c].ref
           /\ ev[c].mem = "live" <=> ev[c].ref >= 1
           /\ cli[c].pc = "new" => ev[c].ref = 0
           /\ Cardinality(Leaving(c)) \in Nat
           /\ Active(c) => ev[c].ref >= 1
           /\ c \in connMap => ev[c].ref >= 1
           /\ Active(c) => ev[c].st \in {"exec", "send"}
<1>1. ev[c] \in Handles /\ ev[c].ref \in Nat
  BY DEF IInv, Types, Handles
<1>2. /\ Cardinality(Leaving(c)) + One(Active(c)) + One(c \in connMap) <= ev[c].ref
      /\ ev[c].mem = "live" <=> ev[c].ref >= 1
      /\ cli[c].pc = "new" => ev[c].ref = 0
  BY DEF IInv, Counted, Holders
<1>3. /\ Cardinality(Leaving(c)) \in Nat
      /\ One(Active(c)) \in {0, 1} /\ One(c \in connMap) \in {0, 1}
  BY HoldersType
<1>4. (Active(c) => One(Active(c)) = 1) /\ (c \in connMap => One(c \in connMap) = 1)
  BY DEF One
<1>5. Active(c) => ev[c].st \in {"exec", "send"}
  BY DEF IInv, Exclusive, Active, Executes
<1> QED
  BY <1>1, <1>2, <1>3, <1>4, <1>5

\* A step of another thread than the workers that changes the handle of c.
LEMMA HandleStep ==
    ASSUME IInv, SameWork, NEW c \in Conns, NEW e \in Handles, ev' = [ev EXCEPT ![c] = e],
           Types', Attached',
           Active(c) => e.st = ev[c].st,
           ev[c].ref + One(c \in connMap)' <= e.ref + One(c \in connMap),
           e.mem = "live" <=> e.ref >= 1,
           cli'[c].pc = "new" => e.ref = 0,
           \A d \in Conns : d # c => (d \in connMap' <=> d \in connMap) /\ cli'[d] = cli[d]
    PROVE  IInv'
<1>1. ev'[c] = e /\ \A d \in Conns : d # c => ev'[d] = ev[d]
  BY SetHandle DEF IInv
<1>2. \A d \in Conns : Active(d) => ev'[d].st = ev[d].st
  BY <1>1
<1>3. \A d \in Conns : d # c => /\ ev[d].ref + One(d \in connMap)' <= ev'[d].ref + One(d \in connMap)
                                /\ ev'[d].mem = "live" <=> ev'[d].ref >= 1
                                /\ cli'[d].pc = "new" => ev'[d].ref = 0
  <2> SUFFICES ASSUME NEW d \in Conns, d # c
               PROVE  /\ ev[d].ref + One(d \in connMap)' <= ev'[d].ref + One(d \in connMap)
                      /\ ev'[d].mem = "live" <=> ev'[d].ref >= 1
                      /\ cli'[d].pc = "new" => ev'[d].ref = 0
    OBVIOUS
  <2>1. One(d \in connMap)' = One(d \in connMap) /\ One(d \in connMap) \in {0, 1}
    BY DEF One
  <2> QED
    BY <1>1, <2>1, HandleFacts
<1>4. /\ ev[c].ref + One(c \in connMap)' <= ev'[c].ref + One(c \in connMap)
      /\ ev'[c].mem = "live" <=> ev'[c].ref >= 1
      /\ cli'[c].pc = "new" => ev'[c].ref = 0
  BY <1>1
<1>5. \A d \in Conns : ev[d].ref + One(d \in connMap)' <= ev'[d].ref + One(d \in connMap)
  BY <1>3, <1>4, Zenon
<1>6. \A d \in Conns : ev'[d].mem = "live" <=> ev'[d].ref >= 1
  BY <1>3, <1>4, Zenon
<1>7. \A d \in Conns : cli'[d].pc = "new" => ev'[d].ref = 0
  BY <1>3, <1>4, Zenon
<1> QED
  BY <1>2, <1>5, <1>6, <1>7, SameWorkStep

LEMMA AcceptStep ==
    ASSUME IInv, NEW c \in Conns, Accept(c)
    PROVE  IInv'
<1>1. SameWork /\ ~Active(c) /\ ev[c].ref = 0
  BY HandleFacts DEF Accept, SameWork
<1>2. /\ cli' \in [Conns -> Clients] /\ cli'[c].pc = "idle"
      /\ \A d \in Conns : d # c => cli'[d] = cli[d]
  BY DEF Accept, IInv, Types, Clients
<1>3. CASE MallocConnInfo
  <2>1. NewHandle \in Handles /\ NewHandle.ref = 1 /\ NewHandle.mem = "live"
    BY DEF NewHandle, Handles, Stages, Mems, Methods
  <2>2. ev' = [ev EXCEPT ![c] = NewHandle] /\ connMap' = connMap \cup {c} /\ epoll' = epoll
    BY <1>3 DEF Accept, NewEvent, AddConnection
  <2>3. sock' \in [Conns -> Sockets]
    <3>1. TRUE \in BOOLEAN /\ sock \in [Conns -> Sockets]
      BY DEF IInv, Types
    <3>2. sock' = [sock EXCEPT ![c].edge = TRUE]
      BY <1>3, Zenon DEF Accept
    <3> QED
      BY <3>1, <3>2, SetSockets, Zenon
  <2>4. ev' \in [Conns -> Handles]
    BY <2>1, <2>2, SetHandle DEF IInv
  <2>5. Types' /\ Attached'
    BY <1>2, <2>2, <2>3, <2>4 DEF IInv, Types, Attached, Accept
  <2>6. One(c \in connMap)' = 1 /\ One(c \in connMap) \in {0, 1}
    BY <2>2 DEF One
  <2>7. ev[c].ref + One(c \in connMap)' <= NewHandle.ref + One(c \in connMap)
    BY <1>1, <2>1, <2>6
  <2>8. \A d \in Conns : d # c => (d \in connMap' <=> d \in connMap) /\ cli'[d] = cli[d]
    BY <1>2, <2>2
  <2> QED
    <3>1. /\ Active(c) => NewHandle.st = ev[c].st
          /\ NewHandle.mem = "live" <=> NewHandle.ref >= 1
          /\ cli'[c].pc = "new" => NewHandle.ref = 0
      BY <1>1, <1>2, <2>1
    <3> QED
      BY <1>1, <2>1, <2>2, <2>5, <2>7, <2>8, <3>1, HandleStep, Zenon
<1>4. CASE ~MallocConnInfo
  <2> DEFINE e == [ev[c] EXCEPT !.mem = "freed"]
  <2>1. "freed" \in Mems /\ ev[c] \in Handles
    BY HandleFacts DEF Mems
  <2>2. e \in Handles /\ e.ref = 0 /\ e.mem = "freed"
    BY <1>1, <2>1, SetMem, Zenon
  <2>3. ev' = [ev EXCEPT ![c] = e] /\ connMap' = connMap /\ sock' = sock
    BY <1>4 DEF Accept, NewEvent
  <2> HIDE DEF e
  <2>4. ev' \in [Conns -> Handles]
    BY <2>2, <2>3, SetHandle DEF IInv
  <2>5. epoll' = [epoll EXCEPT !.pc = "failed"]
    BY <1>4 DEF Accept
  <2>6. epoll' \in Epolls /\ epoll'.pc = "failed"
    BY <2>5 DEF IInv, Types, Epolls
  <2>7. Types' /\ Attached'
    BY <1>2, <2>3, <2>4, <2>6 DEF IInv, Types, Attached, Accept
  <2>8. One(c \in connMap)' = One(c \in connMap) /\ One(c \in connMap) \in {0, 1}
    BY <2>3 DEF One
  <2>9. ev[c].ref + One(c \in connMap)' <= e.ref + One(c \in connMap)
    BY <1>1, <2>2, <2>8
  <2>10. \A d \in Conns : d # c => (d \in connMap' <=> d \in connMap) /\ cli'[d] = cli[d]
    BY <1>2, <2>3
  <2> QED
    <3>1. /\ Active(c) => e.st = ev[c].st
          /\ e.mem = "live" <=> e.ref >= 1
          /\ cli'[c].pc = "new" => e.ref = 0
      BY <1>1, <2>2
    <3> QED
      BY <1>1, <2>2, <2>3, <2>7, <2>9, <2>10, <3>1, HandleStep, Zenon
<1> QED
  BY <1>3, <1>4

LEMMA EpollWaitStep ==
    ASSUME IInv, NEW c \in Conns, EpollWait(c)
    PROVE  IInv'
<1>1. SameWork /\ ev' = ev /\ connMap' = connMap /\ cli' = cli /\ worker' = worker /\ taskList' = taskList
  BY DEF EpollWait, SameWork
<1>2. sock' \in [Conns -> Sockets]
  <2>1. FALSE \in BOOLEAN /\ sock \in [Conns -> Sockets]
    BY DEF IInv, Types
  <2>2. sock' = [sock EXCEPT ![c].edge = FALSE]
    BY DEF EpollWait
  <2> QED
    BY <2>1, <2>2, SetSockets, Zenon
<1>3. epoll' \in Epolls /\ (epoll'.pc = "handle" => epoll'.c \in connMap')
  <2>1. CASE epoll' = epoll
    BY <1>1, <2>1 DEF IInv, Types, Attached
  <2>2. CASE epoll' = [epoll EXCEPT !.pc = "handle", !.c = c, !.mask = Mask(c)]
    <3> DEFINE told == [epoll EXCEPT !.pc = "handle"]
               at == [told EXCEPT !.c = c]
    <3>1. told \in Epolls
      BY DEF IInv, Types, Epolls
    <3>2. epoll' = [at EXCEPT !.mask = Mask(c)]
      BY <2>2
    <3> HIDE DEF told
    <3>3. at \in Epolls /\ at.c = c
      BY <3>1 DEF Epolls
    <3> HIDE DEF at
    <3>4. Mask(c) \in SUBSET {"hup", "in", "out"}
      BY DEF Mask
    <3>5. epoll' \in Epolls /\ epoll'.c = c
      BY <3>2, <3>3, <3>4 DEF Epolls
    <3>6. c \in connMap
      BY DEF EpollWait
    <3> QED
      BY <1>1, <3>5, <3>6
  <2> QED
    BY <2>1, <2>2 DEF EpollWait
<1>4. Types' /\ Attached'
  BY <1>1, <1>2, <1>3 DEF IInv, Types, Attached
<1> QED
  BY <1>1, <1>4, FrameStep

LEMMA EpollStepTypes ==
    ASSUME IInv, EpollStep, NEW c \in Conns, epoll.c = c,
           UNCHANGED worker, taskList' \in Seq(Conns), connMap' \subseteq Conns,
           ev' \in [Conns -> Handles], sock' \in [Conns -> Sockets]
    PROVE  /\ Types' /\ Attached' /\ cli' = cli /\ c \in connMap
           /\ taskList' = taskList => SameWork
<1>1. cli' = cli /\ c \in connMap
  BY DEF IInv, Attached, EpollStep
<1>2. epoll' \in Epolls /\ epoll'.pc = "wait"
  BY DEF EpollStep, Handled, Epolls
<1>3. Types' /\ Attached'
  BY <1>1, <1>2 DEF IInv, Types, Attached
<1>4. taskList' = taskList => SameWork
  BY DEF SameWork
<1> QED
  BY <1>1, <1>3, <1>4

\* The event ends with RemoveEvent: the epoll thread gives its reference up.
LEMMA RemoveStep ==
    ASSUME IInv, EpollStep, NEW c \in Conns, epoll.c = c, RemoveEvent(c),
           UNCHANGED <<worker, taskList>>, sock' \in [Conns -> Sockets]
    PROVE  IInv'
<1> DEFINE e == MinusRef(ev[c])
<1>1. c \in connMap
  BY DEF IInv, Attached, EpollStep
<1>2. /\ ev[c] \in Handles /\ ev[c].ref \in Nat /\ ev[c].ref >= 1 /\ ev[c].mem = "live"
      /\ cli[c].pc = "new" => ev[c].ref = 0
  BY <1>1, HandleFacts
<1>3. /\ e \in Handles /\ e.st = ev[c].st
      /\ e.ref = IF ev[c].ref = 0 THEN 0 ELSE ev[c].ref - 1
      /\ e.mem = IF ev[c].ref <= 1 THEN "freed" ELSE ev[c].mem
  BY <1>2, MinusRefType
<1>4. ev' = [ev EXCEPT ![c] = e] /\ connMap' = connMap \ {c}
  BY DEF RemoveEvent, DelConnection
<1> HIDE DEF e
<1>5. ev' \in [Conns -> Handles] /\ connMap' \subseteq Conns /\ taskList' \in Seq(Conns)
  BY <1>3, <1>4, SetHandle DEF IInv, Types
<1>6. Types' /\ Attached' /\ cli' = cli /\ SameWork
  BY <1>5, EpollStepTypes
<1>7. One(c \in connMap)' = 0 /\ One(c \in connMap) = 1
  BY <1>1, <1>4 DEF One
<1>8. e.ref = ev[c].ref - 1
  BY <1>2, <1>3
<1>9. /\ ev[c].ref + One(c \in connMap)' <= e.ref + One(c \in connMap)
      /\ e.mem = "live" <=> e.ref >= 1
      /\ cli'[c].pc = "new" => e.ref = 0
  BY <1>2, <1>3, <1>6, <1>7, <1>8
<1>10. \A d \in Conns : d # c => (d \in connMap' <=> d \in connMap) /\ cli'[d] = cli[d]
  BY <1>4, <1>6
<1> QED
  BY <1>3, <1>4, <1>6, <1>9, <1>10, HandleStep, Zenon

\* The event changes the handle of c, and the references stay.
LEMMA KeepStep ==
    ASSUME IInv, EpollStep, NEW c \in Conns, epoll.c = c, NEW e \in Handles, ev' = [ev EXCEPT ![c] = e],
           e.ref = ev[c].ref, e.mem = ev[c].mem, Active(c) => e.st = ev[c].st,
           UNCHANGED <<worker, taskList, connMap>>, sock' \in [Conns -> Sockets]
    PROVE  IInv'
<1>1. ev' \in [Conns -> Handles] /\ connMap' \subseteq Conns /\ taskList' \in Seq(Conns)
  BY SetHandle DEF IInv, Types
<1>2. Types' /\ Attached' /\ cli' = cli /\ SameWork
  BY <1>1, EpollStepTypes
<1>3. One(c \in connMap)' = One(c \in connMap) /\ One(c \in connMap) \in {0, 1}
  BY DEF One
<1>4. /\ ev[c].ref + One(c \in connMap)' <= e.ref + One(c \in connMap)
      /\ e.mem = "live" <=> e.ref >= 1
      /\ cli'[c].pc = "new" => e.ref = 0
  BY <1>2, <1>3, HandleFacts
<1>5. \A d \in Conns : d # c => (d \in connMap' <=> d \in connMap) /\ cli'[d] = cli[d]
  BY <1>2
<1> QED
  BY <1>2, <1>4, <1>5, HandleStep, Zenon

\* A request that is complete goes to the task list, with a reference of its own.
LEMMA PushStep ==
    ASSUME IInv, EpollStep, NEW c \in Conns, epoll.c = c, ev[c].st = "recv", NEW r, Same(r, ev[c]),
           ev' = [ev EXCEPT ![c] = AddRef([r EXCEPT !.st = "exec"])], PushTask(c), UNCHANGED connMap,
           sock' \in [Conns -> Sockets]
    PROVE  IInv'
<1> DEFINE x == [r EXCEPT !.st = "exec"]
           e == AddRef(x)
<1>1. "exec" \in Stages /\ r \in Handles
  BY DEF Stages, Same
<1>2. x \in Handles /\ x.st = "exec" /\ x.ref = ev[c].ref /\ x.mem = ev[c].mem
  BY <1>1, SetState, Zenon DEF Same
<1> HIDE DEF x
<1>3. e \in Handles /\ e.st = "exec" /\ e.ref = ev[c].ref + 1 /\ e.mem = ev[c].mem
  BY <1>2, AddRefType, Zenon
<1>4. ev' = [ev EXCEPT ![c] = e]
  BY DEF x
<1> HIDE DEF e
<1>5. ev' \in [Conns -> Handles] /\ ev'[c] = e /\ \A d \in Conns : d # c => ev'[d] = ev[d]
  BY <1>3, <1>4, SetHandle DEF IInv
<1>6. c \in connMap /\ ~Active(c) /\ cli' = cli
  <2>1. c \in connMap /\ cli' = cli
    BY DEF IInv, Attached, EpollStep
  <2> QED
    BY <2>1, HandleFacts
<1>7. taskList' = Append(taskList, c) /\ taskList \in Seq(Conns)
  BY DEF PushTask, IInv, Types
<1>8. /\ worker' \in [Workers -> [pc : WorkerStates, c : Conns \cup {None}]]
      /\ \A w \in Workers : \/ worker'[w] = worker[w]
                            \/ worker[w].pc = "wait" /\ worker'[w].pc = "woken"
  <2>1. CASE worker' = worker
    BY <2>1 DEF IInv, Types
  <2>2. CASE \E w \in Waiters : worker' = [worker EXCEPT ![w].pc = "woken"]
    BY <2>2 DEF IInv, Types, Waiters, WorkerStates
  <2> QED
    BY <2>1, <2>2 DEF PushTask
<1>9. Types' /\ Attached'
  <2>1. epoll' \in Epolls /\ epoll'.pc = "wait"
    BY DEF EpollStep, Handled, Epolls
  <2>2. Types'
    BY <1>5, <1>6, <1>7, <1>8, <2>1 DEF IInv, Types
  <2> QED
    BY <1>8, <2>1, <2>2 DEF IInv, Attached
<1>10. \A d \in Conns : /\ Leaving(d)' = Leaving(d)
                        /\ \A w \in Workers : Executes(w, d)' = Executes(w, d)
                        /\ Queued(d)' <=> Queued(d) \/ d = c
  <2> SUFFICES ASSUME NEW d \in Conns
               PROVE  /\ Leaving(d)' = Leaving(d)
                      /\ \A w \in Workers : Executes(w, d)' = Executes(w, d)
                      /\ Queued(d)' <=> Queued(d) \/ d = c
    OBVIOUS
  <2>1. Leaving(d)' = Leaving(d)
    BY <1>8 DEF Leaving
  <2>2. \A w \in Workers : Executes(w, d)' = Executes(w, d)
    BY <1>8 DEF Executes
  <2>3. Queued(d)' <=> Queued(d) \/ d = c
    BY <1>7 DEF Queued
  <2> QED
    BY <2>1, <2>2, <2>3
<1>11. Exclusive'
  <2>1. \A i, j \in 1 .. Len(taskList') : taskList'[i] = taskList'[j] => i = j
    BY <1>6, <1>7 DEF IInv, Exclusive, Active, Queued
  <2>2. /\ \A w, v \in Workers : \A d \in Conns : Executes(w, d)' /\ Executes(v, d)' => w = v
        /\ \A w \in Workers : \A d \in Conns : Executes(w, d)' => ~Queued(d)'
    BY <1>6, <1>10 DEF IInv, Exclusive, Active
  <2>3. \A d \in Conns : Queued(d)' => ev'[d].st = "exec"
    BY <1>3, <1>5, <1>10 DEF IInv, Exclusive
  <2>4. \A w \in Workers : worker'[w].pc \in {"got", "write"} =>
           worker'[w] = worker[w] /\ ev'[worker[w].c] = ev[worker[w].c]
    <3> SUFFICES ASSUME NEW w \in Workers, worker'[w].pc \in {"got", "write"}
                 PROVE  worker'[w] = worker[w] /\ ev'[worker[w].c] = ev[worker[w].c]
      OBVIOUS
    <3>1. worker'[w] = worker[w] /\ worker[w].c \in Conns
      BY <1>8 DEF IInv, Attached
    <3>2. worker[w].c # c
      BY <1>6, <3>1 DEF Active, Executes
    <3> QED
      BY <1>5, <3>1, <3>2
  <2>5. /\ \A w \in Workers : worker'[w].pc = "got" => ev'[worker'[w].c].st = "exec"
        /\ \A w \in Workers : worker'[w].pc = "write" => ev'[worker'[w].c].st = "send"
    BY <2>4 DEF IInv, Exclusive
  <2> QED
    BY <2>1, <2>2, <2>3, <2>5 DEF Exclusive
<1>12. Counted'
  <2> SUFFICES ASSUME NEW d \in Conns
               PROVE  /\ Holders(d)' <= ev'[d].ref
                      /\ ev'[d].mem = "live" <=> ev'[d].ref >= 1
                      /\ cli'[d].pc = "new" => ev'[d].ref = 0
    BY DEF Counted
  <2>1. Holders(d)' = Cardinality(Leaving(d)) + One(Active(d)') + One(d \in connMap)
    BY <1>10 DEF Holders
  <2>2. /\ d # c => One(Active(d)') = One(Active(d))
        /\ One(Active(c)') \in {0, 1} /\ One(Active(c)) = 0 /\ One(c \in connMap) = 1
    BY <1>6, <1>10 DEF One, Active
  <2>3. CASE d = c
    BY <1>3, <1>5, <1>6, <2>1, <2>2, <2>3, HandleFacts
  <2>4. CASE d # c
    BY <1>5, <1>6, <2>1, <2>2, <2>4, HandleFacts
  <2> QED
    BY <2>3, <2>4
<1> QED
  BY <1>9, <1>11, <1>12 DEF IInv

LEMMA HandleNextStep ==
    ASSUME IInv, NEW c \in Conns, HangUp(c) \/ RecvRefused(c) \/ RecvData(c) \/ SendData(c)
    PROVE  IInv'
<1>1. /\ sock \in [Conns -> Sockets] /\ sock[c] \in Sockets /\ ev[c] \in Handles
      /\ ev[c].ref \in Nat
  BY HandleFacts DEF IInv, Types
<1>2. CASE HangUp(c)
  BY <1>1, <1>2, RemoveStep DEF HangUp
<1>3. CASE RecvRefused(c)
  BY <1>1, <1>3, RemoveStep DEF RecvRefused
<1>4. CASE RecvData(c)
  <2> DEFINE r == Received(c)
  <2>1. Same(r.handle, ev[c]) /\ r.read \in Int
    BY ReceivedType DEF IInv
  <2> HIDE DEF r
  <2>2. sock' \in [Conns -> Sockets]
    <3>1. sock[c].read + r.read \in Int
      BY <1>1, <2>1 DEF Sockets
    <3>2. sock' = [sock EXCEPT ![c].read = sock[c].read + r.read]
      BY <1>4 DEF RecvData, r
    <3> QED
      BY <1>1, <3>1, <3>2, SetSockets, Zenon
  <2>3. epoll.c = c /\ ev[c].st = "recv" /\ EpollStep
    BY <1>4 DEF RecvData
  <2>4. CASE RemoveEvent(c) /\ UNCHANGED <<worker, taskList>>
    BY <2>2, <2>3, <2>4, RemoveStep
  <2>5. CASE /\ UNCHANGED connMap /\ PushTask(c)
             /\ ev' = [ev EXCEPT ![c] = AddRef([r.handle EXCEPT !.st = "exec"])]
    BY <2>1, <2>2, <2>3, <2>5, PushStep, Zenon
  <2>6. CASE ev' = [ev EXCEPT ![c] = r.handle] /\ UNCHANGED <<worker, taskList, connMap>>
    <3>1. /\ r.handle \in Handles /\ r.handle.ref = ev[c].ref /\ r.handle.mem = ev[c].mem
          /\ r.handle.st = ev[c].st
      BY <2>1 DEF Same
    <3> QED
      BY <2>2, <2>3, <2>6, <3>1, KeepStep, Zenon
  <2> QED
    BY <1>4, <2>4, <2>5, <2>6 DEF RecvData, r
<1>5. CASE SendData(c)
  <2>1. epoll.c = c /\ EpollStep /\ UNCHANGED <<worker, taskList>>
    BY <1>5 DEF SendData
  <2>2. CASE UNCHANGED <<ev, connMap, sock>>
    <3>1. ev' = [ev EXCEPT ![c] = ev[c]]
      BY <2>2 DEF IInv, Types
    <3> QED
      BY <1>1, <2>1, <2>2, <3>1, KeepStep
  <2>3. CASE ev[c].st = "send" /\ Wrote(c) /\ ev' = [ev EXCEPT ![c] = Sent(@)] /\ UNCHANGED connMap
    <3>1. ~Active(c)
      <4>1. ~Queued(c)
        BY <2>3 DEF IInv, Exclusive
      <4>2. \A w \in Workers : ~Executes(w, c)
        BY <1>5, <2>3 DEF IInv, Exclusive, Executes, SendData, Locked
      <4> QED
        BY <4>1, <4>2 DEF Active
    <3>2. Sent(ev[c]) \in Handles /\ Sent(ev[c]).ref = ev[c].ref /\ Sent(ev[c]).mem = ev[c].mem
      BY <1>1, SentType
    <3>3. sock' \in [Conns -> Sockets]
      BY <2>3, WroteType DEF IInv
    <3> QED
      BY <2>1, <2>3, <3>1, <3>2, <3>3, KeepStep, Zenon
  <2>4. CASE RemoveEvent(c) /\ UNCHANGED sock
    BY <1>1, <2>1, <2>4, RemoveStep
  <2> QED
    BY <1>5, <2>2, <2>3, <2>4 DEF SendData
<1> QED
  BY <1>2, <1>3, <1>4, <1>5

\* The other steps of the epoll thread, and the signal, take no handle.
LEMMA StopStep ==
    ASSUME IInv, SignalHandler \/ StopEpoll \/ Joined
    PROVE  IInv'
<1>1. UNCHANGED <<taskList, connMap, ev, sock, cli>>
  BY DEF SignalHandler, StopEpoll, Joined
<1>2. epoll' \in Epolls /\ (epoll'.pc = "handle" => epoll' = epoll)
  <2>1. CASE epoll' = epoll
    BY <2>1 DEF IInv, Types
  <2>2. CASE epoll' = [epoll EXCEPT !.pc = "join", !.late = Late]
    <3> DEFINE told == [epoll EXCEPT !.pc = "join"]
    <3>1. told \in Epolls /\ told.pc = "join"
      BY DEF IInv, Types, Epolls
    <3>2. epoll' = [told EXCEPT !.late = Late]
      BY <2>2
    <3> HIDE DEF told
    <3>3. Late \in SUBSET Workers
      BY DEF Late
    <3>4. epoll' \in Epolls /\ epoll'.pc = "join"
      BY <3>1, <3>2, <3>3 DEF Epolls
    <3> QED
      BY <3>4
  <2>3. CASE epoll' = [epoll EXCEPT !.pc = "stopped"]
    BY <2>3 DEF IInv, Types, Epolls
  <2> QED
    BY <2>1, <2>2, <2>3 DEF SignalHandler, StopEpoll, Joined
<1>3. worker' = worker \/ worker' = [w \in Workers |-> IF w \in Waiters THEN [worker[w] EXCEPT !.pc = "woken"] ELSE worker[w]]
  BY DEF SignalHandler, StopEpoll, Joined
<1>4. \A w \in Workers : [worker[w] EXCEPT !.pc = "woken"] \in [pc : WorkerStates, c : Conns \cup {None}]
  BY DEF IInv, Types, WorkerStates
<1>5. worker' \in [Workers -> [pc : WorkerStates, c : Conns \cup {None}]]
  BY <1>3, <1>4 DEF IInv, Types
<1>6. SameWork
  <2>1. \A w \in Workers : [worker[w] EXCEPT !.pc = "woken"].pc = "woken"
    BY DEF IInv, Types
  <2> QED
    BY <1>1, <1>3, <2>1 DEF SameWork, Waiters
<1>7. Types'
  BY <1>1, <1>2, <1>5 DEF IInv, Types
<1>8. Attached'
  <2>1. \A w \in Workers : worker'[w].pc \in {"got", "write", "unref"} => worker'[w].c \in Conns
    BY <1>6 DEF SameWork, IInv, Attached
  <2> QED
    BY <1>1, <1>2, <2>1 DEF IInv, Attached
<1> QED
  BY <1>1, <1>6, <1>7, <1>8, FrameStep

-----------------------------------------------------------------------------
(* The steps of a worker.                                                   *)

\* What a step of worker w makes of the holders.
LEMMA WorkerMoves ==
    ASSUME IInv, NEW w \in Workers, NEW p \in WorkerStates, NEW x \in Conns \cup {None}, WorkerStep(w, p, x),
           p \in {"got", "write", "unref"} => x \in Conns,
           taskList' \in Seq(Conns), ev' \in [Conns -> Handles], sock' \in [Conns -> Sockets]
    PROVE  /\ Types' /\ Attached' /\ connMap' = connMap /\ cli' = cli
           /\ worker'[w].pc = p /\ worker'[w].c = x
           /\ \A v \in Workers : v # w => worker'[v] = worker[v]
           /\ \A d \in Conns :
                /\ Leaving(d)' = IF p = "unref" /\ x = d THEN Leaving(d) \cup {w} ELSE Leaving(d) \ {w}
                /\ Executes(w, d)' <=> p \in {"got", "write"} /\ x = d
                /\ \A v \in Workers : v # w => Executes(v, d)' = Executes(v, d)
<1>1. worker' = [worker EXCEPT ![w] = [pc |-> p, c |-> x]] /\ UNCHANGED <<running, epoll, connMap, cli>>
  BY DEF WorkerStep
<1>2. /\ worker' \in [Workers -> [pc : WorkerStates, c : Conns \cup {None}]]
      /\ worker'[w].pc = p /\ worker'[w].c = x
      /\ \A v \in Workers : v # w => worker'[v] = worker[v]
  BY <1>1 DEF IInv, Types
<1>3. Types'
  BY <1>1, <1>2 DEF IInv, Types
<1>4. Attached'
  BY <1>1, <1>2 DEF IInv, Attached
<1>5. \A d \in Conns :
         /\ Leaving(d)' = IF p = "unref" /\ x = d THEN Leaving(d) \cup {w} ELSE Leaving(d) \ {w}
         /\ Executes(w, d)' <=> p \in {"got", "write"} /\ x = d
         /\ \A v \in Workers : v # w => Executes(v, d)' = Executes(v, d)
  <2> SUFFICES ASSUME NEW d \in Conns
               PROVE  /\ Leaving(d)' = IF p = "unref" /\ x = d THEN Leaving(d) \cup {w} ELSE Leaving(d) \ {w}
                      /\ Executes(w, d)' <=> p \in {"got", "write"} /\ x = d
                      /\ \A v \in Workers : v # w => Executes(v, d)' = Executes(v, d)
    OBVIOUS
  <2>1. Leaving(d)' = IF p = "unref" /\ x = d THEN Leaving(d) \cup {w} ELSE Leaving(d) \ {w}
    BY <1>2 DEF Leaving
  <2>2. /\ Executes(w, d)' <=> p \in {"got", "write"} /\ x = d
        /\ \A v \in Workers : v # w => Executes(v, d)' = Executes(v, d)
    BY <1>2 DEF Executes
  <2> QED
    BY <2>1, <2>2
<1> QED
  BY <1>1, <1>2, <1>3, <1>4, <1>5

\* A worker that holds no handle and takes none.
LEMMA IdleStep ==
    ASSUME IInv, NEW w \in Workers, NEW p \in WorkerStates, WorkerStep(w, p, None),
           worker[w].pc \notin {"got", "write", "unref"}, p \notin {"got", "write", "unref"},
           UNCHANGED <<taskList, ev, sock>>
    PROVE  IInv'
<1>1. None \in Conns \cup {None} /\ taskList \in Seq(Conns) /\ ev \in [Conns -> Handles] /\ sock \in [Conns -> Sockets]
  BY DEF IInv, Types
<1>2. /\ Types' /\ Attached' /\ connMap' = connMap /\ cli' = cli
      /\ worker'[w].pc = p /\ \A v \in Workers : v # w => worker'[v] = worker[v]
  BY <1>1, WorkerMoves
<1>3. SameWork
  BY <1>2 DEF SameWork
<1> QED
  BY <1>2, <1>3, FrameStep

LEMMA TakeTaskStep ==
    ASSUME IInv, NEW w \in Workers, TakeTask(w)
    PROVE  IInv'
<1>1. CASE taskList = <<>>
  <2>1. PICK p \in {"wait", "loop"} : WorkerStep(w, p, None)
    BY <1>1 DEF TakeTask
  <2>2. p \in WorkerStates /\ p \notin {"got", "write", "unref"}
    BY DEF WorkerStates
  <2> QED
    BY <1>1, <2>1, <2>2, IdleStep DEF TakeTask
<1>2. CASE taskList # <<>>
  <2>0. taskList \in Seq(Conns) /\ Head(taskList) \in Conns /\ Tail(taskList) \in Seq(Conns)
    BY <1>2 DEF IInv, Types
  <2> PICK c \in Conns : c = Head(taskList)
    BY <2>0
  <2>1. /\ taskList' = Tail(taskList) /\ taskList' \in Seq(Conns)
        /\ WorkerStep(w, "got", c) /\ UNCHANGED <<ev, sock>>
        /\ worker[w].pc \in {"take", "woken"}
    BY <1>2, <2>0 DEF TakeTask
  <2>2. /\ Len(taskList) \in Nat /\ Len(taskList) >= 1 /\ Len(taskList') = Len(taskList) - 1
        /\ taskList[1] = c /\ \A i \in 1 .. Len(taskList') : taskList'[i] = taskList[i + 1]
    BY <1>2, <2>0, <2>1
  <2>3. "got" \in WorkerStates /\ ev' \in [Conns -> Handles] /\ sock' \in [Conns -> Sockets]
    BY <2>1 DEF WorkerStates, IInv, Types
  <2>4. /\ Types' /\ Attached' /\ connMap' = connMap /\ cli' = cli
        /\ worker'[w].pc = "got" /\ worker'[w].c = c
        /\ \A v \in Workers : v # w => worker'[v] = worker[v]
        /\ \A d \in Conns :
             /\ Leaving(d)' = Leaving(d) \ {w}
             /\ Executes(w, d)' <=> d = c
             /\ \A v \in Workers : v # w => Executes(v, d)' = Executes(v, d)
    BY <2>1, <2>3, WorkerMoves
  <2>5. Queued(c) /\ ~Queued(c)' /\ \A d \in Conns : d # c => Queued(d)' = Queued(d)
    <3>1. Queued(c)
      BY <2>2 DEF Queued
    <3>2. ~Queued(c)'
      <4> SUFFICES ASSUME NEW i \in 1 .. Len(taskList'), taskList'[i] = c PROVE FALSE
        BY DEF Queued
      <4>1. i + 1 \in 1 .. Len(taskList) /\ 1 \in 1 .. Len(taskList) /\ taskList[i + 1] = taskList[1] /\ i + 1 # 1
        BY <2>2
      <4> QED
        BY <4>1 DEF IInv, Exclusive
    <3>3. ASSUME NEW d \in Conns, d # c PROVE Queued(d)' = Queued(d)
      <4>1. Queued(d)' => Queued(d)
        <5> SUFFICES ASSUME NEW i \in 1 .. Len(taskList'), taskList'[i] = d PROVE Queued(d)
          BY DEF Queued
        <5>1. i + 1 \in 1 .. Len(taskList) /\ taskList[i + 1] = d
          BY <2>2
        <5> QED
          BY <5>1 DEF Queued
      <4>2. Queued(d) => Queued(d)'
        <5> SUFFICES ASSUME NEW i \in 1 .. Len(taskList), taskList[i] = d PROVE Queued(d)'
          BY DEF Queued
        <5>1. i # 1
          BY <2>2, <3>3
        <5>2. i - 1 \in 1 .. Len(taskList') /\ taskList'[i - 1] = taskList[(i - 1) + 1] /\ (i - 1) + 1 = i
          BY <2>2, <5>1
        <5> QED
          BY <5>2 DEF Queued
      <4> QED
        BY <4>1, <4>2 DEF Queued
    <3> QED
      BY <3>1, <3>2, <3>3
  <2>6. \A d \in Conns : Leaving(d)' = Leaving(d) /\ ~Executes(w, d) /\ (Active(d)' <=> Active(d))
    <3> SUFFICES ASSUME NEW d \in Conns
                 PROVE  Leaving(d)' = Leaving(d) /\ ~Executes(w, d) /\ (Active(d)' <=> Active(d))
      OBVIOUS
    <3>1. w \notin Leaving(d) /\ ~Executes(w, d)
      BY <2>1 DEF Leaving, Executes
    <3>2. Leaving(d)' = Leaving(d)
      BY <2>4, <3>1
    <3>3. Active(d)' <=> Active(d)
      <4>1. CASE d = c
        BY <2>4, <2>5, <4>1 DEF Active
      <4>2. CASE d # c
        BY <2>4, <2>5, <3>1, <4>2 DEF Active
      <4> QED
        BY <4>1, <4>2
    <3> QED
      BY <3>1, <3>2, <3>3
  <2>7. Exclusive'
    <3>1. \A i, j \in 1 .. Len(taskList') : taskList'[i] = taskList'[j] => i = j
      <4> SUFFICES ASSUME NEW i \in 1 .. Len(taskList'), NEW j \in 1 .. Len(taskList'), taskList'[i] = taskList'[j]
                   PROVE  i = j
        OBVIOUS
      <4>1. i + 1 \in 1 .. Len(taskList) /\ j + 1 \in 1 .. Len(taskList) /\ taskList[i + 1] = taskList[j + 1]
        BY <2>2
      <4>2. i + 1 = j + 1
        BY <4>1 DEF IInv, Exclusive
      <4> QED
        BY <2>2, <4>2
    <3>2. \A v \in Workers : v # w => ~Executes(v, c)
      BY <2>5 DEF IInv, Exclusive
    <3>3. \A v, u \in Workers : \A d \in Conns : Executes(v, d)' /\ Executes(u, d)' => v = u
      BY <2>4, <3>2 DEF IInv, Exclusive
    <3>4. \A v \in Workers : \A d \in Conns : Executes(v, d)' => ~Queued(d)'
      <4> SUFFICES ASSUME NEW v \in Workers, NEW d \in Conns, Executes(v, d)' PROVE ~Queued(d)'
        OBVIOUS
      <4>1. CASE d = c
        BY <2>5, <4>1
      <4>2. CASE d # c
        BY <2>4, <2>5, <4>2 DEF IInv, Exclusive
      <4> QED
        BY <4>1, <4>2
    <3>5. \A d \in Conns : Queued(d)' => ev'[d].st = "exec"
      BY <2>1, <2>5 DEF IInv, Exclusive
    <3>6. ev'[c].st = "exec"
      BY <2>1, <2>5 DEF IInv, Exclusive
    <3>7. /\ \A v \in Workers : worker'[v].pc = "got" => ev'[worker'[v].c].st = "exec"
          /\ \A v \in Workers : worker'[v].pc = "write" => ev'[worker'[v].c].st = "send"
      BY <2>1, <2>4, <3>6 DEF IInv, Exclusive
    <3> QED
      BY <3>1, <3>3, <3>4, <3>5, <3>7 DEF Exclusive
  <2>8. Counted'
    <3>1. \A d \in Conns : One(Active(d)') = One(Active(d))
      BY <2>6 DEF One
    <3>2. \A d \in Conns : Holders(d)' = Holders(d)
      BY <2>4, <2>6, <3>1 DEF Holders
    <3> QED
      BY <2>1, <2>4, <3>2 DEF IInv, Counted
  <2> QED
    BY <2>4, <2>7, <2>8 DEF IInv
<1> QED
  BY <1>1, <1>2

\* A worker lets go of the handle of its connection: it has executed the request, or gives its
\* reference up.
LetGo(w, c, p, x, e) ==
    /\ worker[w].c = c /\ worker[w].pc \in {"got", "write", "unref"}
    /\ p \in {"loop", "unref"} /\ x \in Conns \cup {None} /\ (p = "unref" => x = c)
    /\ WorkerStep(w, p, x) /\ ev' = [ev EXCEPT ![c] = e]
    /\ worker[w].pc = "unref" => e.st = ev[c].st /\ p = "loop"
    /\ e.ref = IF worker[w].pc = "unref" THEN ev[c].ref - 1 ELSE ev[c].ref
    /\ e.mem = "live" <=> e.ref >= 1
    /\ taskList' = taskList /\ sock' \in [Conns -> Sockets]

LEMMA OneLess ==
    ASSUME NEW S, NEW T, NEW w, IsFiniteSet(S)
    PROVE  /\ Cardinality(S) \in Nat
           /\ w \in S /\ T = S \ {w} => Cardinality(T) \in Nat /\ Cardinality(T) = Cardinality(S) - 1
           /\ w \notin S /\ (T = S \cup {w} \/ T = S \ {w}) =>
                 Cardinality(T) \in Nat /\ Cardinality(T) <= Cardinality(S) + 1
<1>1. Cardinality(S) \in Nat
  BY FS_CardinalityType
<1>2. CASE w \in S /\ T = S \ {w}
  BY <1>1, <1>2, FS_RemoveElement, FS_CardinalityType
<1>3. CASE w \notin S /\ T = S \cup {w}
  BY <1>1, <1>3, FS_AddElement
<1>4. CASE w \notin S /\ T = S \ {w}
  <2>1. T = S
    BY <1>4
  <2>2. Cardinality(T) = Cardinality(S)
    BY <2>1
  <2>3. Cardinality(T) \in Nat /\ Cardinality(T) <= Cardinality(S) + 1
    BY <1>1, <2>2
  <2> QED
    BY <1>1, <1>4, <2>3, Zenon
<1> QED
  BY <1>1, <1>2, <1>3, <1>4

LEMMA LeaveStep ==
    ASSUME IInv, NEW w \in Workers, NEW c \in Conns, NEW p, NEW x, NEW e \in Handles, LetGo(w, c, p, x, e)
    PROVE  IInv'
<1>1. /\ p \in WorkerStates /\ p \notin {"got", "write"} /\ x \in Conns \cup {None} /\ (p = "unref" => x = c)
      /\ WorkerStep(w, p, x) /\ worker[w].c = c /\ worker[w].pc \in {"got", "write", "unref"}
  BY DEF LetGo, WorkerStates
<1>2. /\ ev' \in [Conns -> Handles] /\ ev'[c] = e /\ \A d \in Conns : d # c => ev'[d] = ev[d]
      /\ taskList' = taskList /\ taskList' \in Seq(Conns) /\ sock' \in [Conns -> Sockets]
  BY SetHandle DEF LetGo, IInv, Types
<1>3. /\ Types' /\ Attached' /\ connMap' = connMap /\ cli' = cli
      /\ worker'[w].pc = p /\ worker'[w].c = x
      /\ \A v \in Workers : v # w => worker'[v] = worker[v]
      /\ \A d \in Conns :
           /\ Leaving(d)' = IF p = "unref" /\ x = d THEN Leaving(d) \cup {w} ELSE Leaving(d) \ {w}
           /\ Executes(w, d)' <=> p \in {"got", "write"} /\ x = d
           /\ \A v \in Workers : v # w => Executes(v, d)' = Executes(v, d)
  BY <1>1, <1>2, WorkerMoves
<1>4. \A d \in Conns : Queued(d)' = Queued(d)
  BY <1>2 DEF Queued
<1>5. \A d \in Conns : ~Executes(w, d)' /\ (d # c => ~Executes(w, d))
  BY <1>1, <1>3 DEF Executes
<1>6. Executes(w, c) <=> worker[w].pc # "unref"
  BY <1>1 DEF Executes
<1>7. Active(c)' <=> Active(c) /\ worker[w].pc = "unref"
  <2>1. CASE worker[w].pc = "unref"
    BY <1>3, <1>4, <1>5, <1>6, <2>1 DEF Active
  <2>2. CASE worker[w].pc # "unref"
    <3>1. ~Queued(c) /\ \A v \in Workers : v # w => ~Executes(v, c)
      BY <1>6, <2>2 DEF IInv, Exclusive
    <3> QED
      BY <1>3, <1>4, <1>5, <2>2, <3>1 DEF Active
  <2> QED
    BY <2>1, <2>2
<1>8. ASSUME NEW d \in Conns, d # c
      PROVE  Holders(d)' = Holders(d)
  <2>1. w \notin Leaving(d) /\ Leaving(d)' = Leaving(d)
    <3>1. w \notin Leaving(d)
      BY <1>1, <1>8 DEF Leaving
    <3>2. Leaving(d)' = Leaving(d) \ {w}
      BY <1>1, <1>3, <1>8
    <3> QED
      BY <3>1, <3>2
  <2>2. Active(d)' <=> Active(d)
    BY <1>3, <1>4, <1>5, <1>8 DEF Active
  <2>3. One(Active(d)') = One(Active(d))
    BY <2>2 DEF One
  <2> QED
    BY <1>3, <2>1, <2>3 DEF Holders
<1>9. Exclusive'
  <2>1. \A i, j \in 1 .. Len(taskList') : taskList'[i] = taskList'[j] => i = j
    BY <1>2 DEF IInv, Exclusive
  <2>2. \A v, u \in Workers : \A d \in Conns : Executes(v, d)' /\ Executes(u, d)' => v = u
    BY <1>3, <1>5 DEF IInv, Exclusive
  <2>3. \A v \in Workers : \A d \in Conns : Executes(v, d)' => ~Queued(d)'
    BY <1>3, <1>4, <1>5 DEF IInv, Exclusive
  <2>4. \A d \in Conns : Active(d)' => Active(d) /\ ev'[d].st = ev[d].st
    <3> SUFFICES ASSUME NEW d \in Conns, Active(d)' PROVE Active(d) /\ ev'[d].st = ev[d].st
      OBVIOUS
    <3>1. CASE d = c
      BY <1>2, <1>7, <3>1 DEF LetGo
    <3>2. CASE d # c
      BY <1>2, <1>3, <1>4, <1>5, <3>2 DEF Active
    <3> QED
      BY <3>1, <3>2
  <2>5. \A d \in Conns : Queued(d)' => ev'[d].st = "exec"
    BY <1>4, <2>4 DEF IInv, Exclusive, Active
  <2>6. \A v \in Workers : worker'[v].pc \in {"got", "write"} =>
           worker'[v] = worker[v] /\ ev'[worker[v].c].st = ev[worker[v].c].st
    <3> SUFFICES ASSUME NEW v \in Workers, worker'[v].pc \in {"got", "write"}
                 PROVE  worker'[v] = worker[v] /\ ev'[worker[v].c].st = ev[worker[v].c].st
      OBVIOUS
    <3>1. v # w /\ worker'[v] = worker[v] /\ worker[v].c \in Conns
      BY <1>1, <1>3 DEF IInv, Attached
    <3>2. Executes(v, worker[v].c)'
      BY <1>3, <3>1 DEF Executes
    <3>3. Active(worker[v].c)'
      BY <3>1, <3>2 DEF Active
    <3> QED
      BY <2>4, <3>1, <3>3
  <2>7. /\ \A v \in Workers : worker'[v].pc = "got" => ev'[worker'[v].c].st = "exec"
        /\ \A v \in Workers : worker'[v].pc = "write" => ev'[worker'[v].c].st = "send"
    BY <2>6 DEF IInv, Exclusive
  <2> QED
    BY <2>1, <2>2, <2>3, <2>5, <2>7 DEF Exclusive
<1>10. /\ ev[c].ref \in Nat
       /\ Cardinality(Leaving(c)) + One(Active(c)) + One(c \in connMap) <= ev[c].ref
       /\ cli[c].pc = "new" => ev[c].ref = 0
       /\ Cardinality(Leaving(c)) \in Nat /\ IsFiniteSet(Leaving(c))
       /\ One(Active(c)) \in {0, 1} /\ One(c \in connMap) \in {0, 1}
  BY HandleFacts, HoldersType
<1>11. w \in Leaving(c) <=> worker[w].pc = "unref"
  BY <1>1 DEF Leaving
<1>12. Leaving(c)' = Leaving(c) \cup {w} \/ Leaving(c)' = Leaving(c) \ {w}
  BY <1>3
<1>13. Holders(c)' = Cardinality(Leaving(c)') + One(Active(c)') + One(c \in connMap)
  BY <1>3 DEF Holders
<1>14. Holders(c)' <= e.ref /\ (cli[c].pc = "new" => e.ref = 0)
  <2>1. CASE worker[w].pc = "unref"
    <3>1. Leaving(c)' = Leaving(c) \ {w} /\ w \in Leaving(c)
      <4>1. p # "unref"
        BY <2>1 DEF LetGo
      <4> QED
        BY <1>3, <1>11, <2>1, <4>1
    <3>2. Cardinality(Leaving(c)') \in Nat /\ Cardinality(Leaving(c)') = Cardinality(Leaving(c)) - 1
      BY <1>10, <3>1, OneLess, Zenon
    <3>3. One(Active(c)') = One(Active(c))
      BY <1>7, <2>1 DEF One
    <3>4. e.ref = ev[c].ref - 1
      BY <2>1 DEF LetGo
    <3> QED
      BY <1>10, <1>13, <3>2, <3>3, <3>4
  <2>2. CASE worker[w].pc # "unref"
    <3>1. w \notin Leaving(c)
      BY <1>11, <2>2
    <3>2. Cardinality(Leaving(c)') \in Nat /\ Cardinality(Leaving(c)') <= Cardinality(Leaving(c)) + 1
      BY <1>10, <1>12, <3>1, OneLess, Zenon
    <3>3. Active(c)
      BY <1>6, <2>2 DEF Active
    <3>4. One(Active(c)) = 1 /\ One(Active(c)') = 0
      BY <1>7, <2>2, <3>3 DEF One
    <3>5. e.ref = ev[c].ref
      BY <2>2 DEF LetGo
    <3> QED
      BY <1>10, <1>13, <3>2, <3>4, <3>5
  <2> QED
    BY <2>1, <2>2
<1>15. Counted'
  <2> SUFFICES ASSUME NEW d \in Conns
               PROVE  /\ Holders(d)' <= ev'[d].ref
                      /\ ev'[d].mem = "live" <=> ev'[d].ref >= 1
                      /\ cli'[d].pc = "new" => ev'[d].ref = 0
    BY DEF Counted
  <2>1. CASE d = c
    <3>1. e.mem = "live" <=> e.ref >= 1
      BY DEF LetGo
    <3> QED
      BY <1>2, <1>3, <1>14, <2>1, <3>1
  <2>2. CASE d # c
    <3>1. Holders(d)' = Holders(d) /\ ev'[d] = ev[d] /\ cli'[d] = cli[d]
      BY <1>2, <1>3, <1>8, <2>2
    <3> QED
      BY <3>1 DEF IInv, Counted
  <2> QED
    BY <2>1, <2>2
<1> QED
  BY <1>3, <1>9, <1>15 DEF IInv

\* A worker goes on with the request it executes.
LEMMA GoOnStep ==
    ASSUME IInv, NEW w \in Workers, NEW c \in Conns, worker[w].c = c, worker[w].pc \in {"got", "write"},
           WorkerStep(w, "write", c), NEW e \in Handles, ev' = [ev EXCEPT ![c] = e],
           e.st = "send", e.ref = ev[c].ref, e.mem = ev[c].mem,
           taskList' = taskList, sock' \in [Conns -> Sockets]
    PROVE  IInv'
<1>1. "write" \in WorkerStates /\ c \in Conns \cup {None} /\ taskList' \in Seq(Conns)
  BY DEF WorkerStates, IInv, Types
<1>2. ev' \in [Conns -> Handles] /\ ev'[c] = e /\ \A d \in Conns : d # c => ev'[d] = ev[d]
  BY SetHandle DEF IInv
<1>3. /\ Types' /\ Attached' /\ connMap' = connMap /\ cli' = cli
      /\ worker'[w].pc = "write" /\ worker'[w].c = c
      /\ \A v \in Workers : v # w => worker'[v] = worker[v]
      /\ \A d \in Conns :
           /\ Leaving(d)' = Leaving(d) \ {w}
           /\ Executes(w, d)' <=> c = d
           /\ \A v \in Workers : v # w => Executes(v, d)' = Executes(v, d)
  BY <1>1, <1>2, WorkerMoves
<1>4. Executes(w, c) /\ ~Queued(c) /\ \A v \in Workers : v # w => ~Executes(v, c)
  <2>1. Executes(w, c)
    BY DEF Executes
  <2> QED
    BY <2>1 DEF IInv, Exclusive
<1>5. \A d \in Conns : /\ Queued(d)' = Queued(d) /\ Leaving(d)' = Leaving(d)
                       /\ \A v \in Workers : Executes(v, d)' <=> Executes(v, d)
  <2> SUFFICES ASSUME NEW d \in Conns
               PROVE  /\ Queued(d)' = Queued(d) /\ Leaving(d)' = Leaving(d)
                      /\ \A v \in Workers : Executes(v, d)' <=> Executes(v, d)
    OBVIOUS
  <2>1. w \notin Leaving(d) /\ Leaving(d)' = Leaving(d) \ {w}
    BY <1>3 DEF Leaving
  <2>2. Leaving(d)' = Leaving(d)
    BY <2>1
  <2>3. Queued(d)' = Queued(d)
    BY DEF Queued
  <2>4. Executes(w, d) <=> c = d
    BY DEF Executes
  <2>5. \A v \in Workers : Executes(v, d)' <=> Executes(v, d)
    BY <1>3, <2>4
  <2> QED
    BY <2>2, <2>3, <2>5
<1>6. Exclusive'
  <2>1. \A i, j \in 1 .. Len(taskList') : taskList'[i] = taskList'[j] => i = j
    BY DEF IInv, Exclusive
  <2>2. /\ \A v, u \in Workers : \A d \in Conns : Executes(v, d)' /\ Executes(u, d)' => v = u
        /\ \A v \in Workers : \A d \in Conns : Executes(v, d)' => ~Queued(d)'
    BY <1>5 DEF IInv, Exclusive
  <2>3. \A d \in Conns : Queued(d)' => ev'[d].st = "exec"
    BY <1>2, <1>4, <1>5 DEF IInv, Exclusive
  <2>4. ASSUME NEW v \in Workers, v # w, worker'[v].pc \in {"got", "write"}
        PROVE  worker'[v] = worker[v] /\ ev'[worker[v].c] = ev[worker[v].c]
    <3>1. worker'[v] = worker[v] /\ worker[v].c \in Conns
      BY <1>3, <2>4 DEF IInv, Attached
    <3>2. worker[v].c # c
      BY <1>4, <2>4, <3>1 DEF Executes
    <3> QED
      BY <1>2, <3>1, <3>2
  <2>5. /\ \A v \in Workers : worker'[v].pc = "got" => ev'[worker'[v].c].st = "exec"
        /\ \A v \in Workers : worker'[v].pc = "write" => ev'[worker'[v].c].st = "send"
    <3>1. \A v \in Workers : v # w => /\ worker'[v].pc = "got" => ev'[worker'[v].c].st = "exec"
                                      /\ worker'[v].pc = "write" => ev'[worker'[v].c].st = "send"
      BY <2>4 DEF IInv, Exclusive
    <3>2. worker'[w].pc = "write" /\ ev'[worker'[w].c].st = "send"
      BY <1>2, <1>3
    <3> QED
      BY <3>1, <3>2
  <2> QED
    BY <2>1, <2>2, <2>3, <2>5 DEF Exclusive
<1>7. Counted'
  <2> SUFFICES ASSUME NEW d \in Conns
               PROVE  /\ Holders(d)' <= ev'[d].ref
                      /\ ev'[d].mem = "live" <=> ev'[d].ref >= 1
                      /\ cli'[d].pc = "new" => ev'[d].ref = 0
    BY DEF Counted
  <2>1. ev'[d].ref = ev[d].ref /\ ev'[d].mem = ev[d].mem /\ cli'[d] = cli[d]
    BY <1>2, <1>3
  <2>2. Active(d)' <=> Active(d)
    BY <1>5 DEF Active
  <2>3. One(Active(d)') = One(Active(d)) /\ One(d \in connMap)' = One(d \in connMap)
    BY <1>3, <2>2 DEF One
  <2>4. Holders(d)' = Holders(d)
    BY <1>5, <2>3 DEF Holders
  <2> QED
    BY <2>1, <2>4 DEF IInv, Counted
<1> QED
  BY <1>3, <1>6, <1>7 DEF IInv

LEMMA ExecutedType ==
    ASSUME IInv, NEW c \in Conns, NEW role \in BOOLEAN
    PROVE  /\ Executed(c, role) \in Handles /\ Executed(c, role).st = "send"
           /\ Executed(c, role).ref = ev[c].ref /\ Executed(c, role).mem = ev[c].mem
<1> DEFINE e == Ready(ev[c], "send")
           r == IF ev[c].method = "request" THEN role ELSE e.role
           t == IF ev[c].method = "request" THEN sock[c].read \div ReqParts ELSE 0
           f == [e EXCEPT !.role = r]
<1>1. /\ e \in Handles /\ e.st = "send" /\ e.ref = ev[c].ref /\ e.mem = ev[c].mem
  BY HandleFacts, ReadyType DEF Stages
<1>2. r \in BOOLEAN /\ t \in Int
  <2>1. e.role \in BOOLEAN
    BY <1>1 DEF Handles
  <2>2. sock[c].read \div ReqParts \in Int
    BY DEF IInv, Types, Sockets, ReqParts
  <2> QED
    BY <2>1, <2>2
<1>3. Executed(c, role) = [f EXCEPT !.tag = t]
  BY Zenon DEF Executed
<1> HIDE DEF e, r, t
<1>4. Same(f, e)
  BY <1>1, <1>2, SetField, Zenon
<1> HIDE DEF f
<1>5. Same(Executed(c, role), f)
  <2>1. f \in Handles
    BY <1>4 DEF Same
  <2> QED
    BY <1>2, <1>3, <2>1, SetField, Zenon
<1> QED
  BY <1>1, <1>4, <1>5, Zenon DEF Same

\* The connection of a worker beyond TakeTask.
LEMMA WorkerConn ==
    ASSUME IInv, NEW w \in Workers, worker[w].pc \in {"got", "write", "unref"}
    PROVE  /\ worker[w].c \in Conns /\ ev[worker[w].c] \in Handles
           /\ ev[worker[w].c].mem = "live" /\ ev[worker[w].c].ref >= 1
           /\ worker[w].pc = "got" => ev[worker[w].c].st = "exec"
           /\ worker[w].pc = "write" => ev[worker[w].c].st = "send"
<1> PICK c \in Conns : c = worker[w].c
  BY DEF IInv, Attached
<1>1. /\ ev[c] \in Handles /\ ev[c].ref \in Nat
      /\ Cardinality(Leaving(c)) + One(Active(c)) + One(c \in connMap) <= ev[c].ref
      /\ ev[c].mem = "live" <=> ev[c].ref >= 1
      /\ Cardinality(Leaving(c)) \in Nat
      /\ Active(c) => ev[c].ref >= 1
      /\ IsFiniteSet(Leaving(c)) /\ One(Active(c)) \in {0, 1} /\ One(c \in connMap) \in {0, 1}
  BY HandleFacts, HoldersType
<1>2. ev[c].ref >= 1
  <2>1. CASE worker[w].pc \in {"got", "write"}
    BY <1>1, <2>1 DEF Active, Executes
  <2>2. CASE worker[w].pc = "unref"
    <3>1. w \in Leaving(c)
      BY <2>2 DEF Leaving
    <3>2. Cardinality(Leaving(c)) # 0
      BY <1>1, <3>1, FS_EmptySet
    <3> QED
      BY <1>1, <3>2
  <2> QED
    BY <2>1, <2>2
<1>3. /\ worker[w].pc = "got" => ev[c].st = "exec"
      /\ worker[w].pc = "write" => ev[c].st = "send"
  BY DEF IInv, Exclusive
<1> QED
  BY <1>1, <1>2, <1>3

LEMMA WorkerNextStep ==
    ASSUME IInv, NEW w \in Workers, WorkerNext(w)
    PROVE  IInv'
<1>1. taskList \in Seq(Conns) /\ sock \in [Conns -> Sockets] /\ ev \in [Conns -> Handles]
  BY DEF IInv, Types
<1>2. CASE WorkerLoop(w)
  <2>1. PICK p \in {"take", "exit"} : WorkerStep(w, p, None)
    BY <1>2 DEF WorkerLoop
  <2>2. p \in WorkerStates /\ p \notin {"got", "write", "unref"}
    BY DEF WorkerStates
  <2>3. worker[w].pc \notin {"got", "write", "unref"} /\ UNCHANGED <<taskList, ev, sock>>
    BY <1>2 DEF WorkerLoop
  <2> QED
    BY <2>1, <2>2, <2>3, IdleStep
<1>3. CASE TakeTask(w)
  BY <1>3, TakeTaskStep
<1>4. CASE GiveUp(w)
  <2>1. /\ worker[w].pc = "got" /\ WorkerStep(w, "loop", None)
        /\ taskList' = taskList /\ ev' = ev /\ sock' = sock
    BY <1>4 DEF GiveUp
  <2> PICK c \in Conns : c = worker[w].c
    BY <2>1, WorkerConn
  <2>2. ev[c] \in Handles /\ ev[c].mem = "live" /\ ev[c].ref >= 1
    BY <2>1, WorkerConn
  <2>3. ev' = [ev EXCEPT ![c] = ev[c]]
    BY <1>1, <2>1
  <2>4. LetGo(w, c, "loop", None, ev[c])
    BY <1>1, <2>1, <2>2, <2>3 DEF LetGo
  <2> QED
    BY <2>2, <2>4, LeaveStep
<1>5. CASE ExecTask(w)
  <2>1. worker[w].pc = "got" /\ taskList' = taskList /\ sock' = sock
    BY <1>5 DEF ExecTask
  <2> PICK c \in Conns : c = worker[w].c
    BY <2>1, WorkerConn
  <2>2. ev[c] \in Handles /\ ev[c].st = "exec"
    BY <2>1, WorkerConn
  <2>3. /\ \E role \in ExecLogin(c) : ev' = [ev EXCEPT ![c] = Executed(c, role)]
        /\ WorkerStep(w, "write", c)
    BY <1>5, <2>2 DEF ExecTask
  <2>4. PICK role \in BOOLEAN : ev' = [ev EXCEPT ![c] = Executed(c, role)]
    <3>1. ev[c].role \in BOOLEAN
      BY <2>2 DEF Handles
    <3> QED
      BY <2>3, <3>1 DEF ExecLogin
  <2> DEFINE e == Executed(c, role)
  <2>5. e \in Handles /\ e.st = "send" /\ e.ref = ev[c].ref /\ e.mem = ev[c].mem
    BY ExecutedType
  <2>6. ev' = [ev EXCEPT ![c] = e]
    BY <2>4
  <2> HIDE DEF e
  <2>7. worker[w].pc \in {"got", "write"} /\ worker[w].c = c
    BY <2>1
  <2> QED
    BY <1>1, <2>1, <2>3, <2>5, <2>6, <2>7, GoOnStep
<1>6. CASE WritePart(w)
  <2>1. worker[w].pc = "write" /\ taskList' = taskList
    BY <1>6 DEF WritePart
  <2> PICK c \in Conns : c = worker[w].c
    BY <2>1, WorkerConn
  <2>2. /\ ev[c] \in Handles /\ ev[c].st = "send" /\ ev[c].mem = "live" /\ ev[c].ref >= 1
        /\ ev[c].sent + 1 \in Int
    <3>1. ev[c] \in Handles /\ ev[c].st = "send" /\ ev[c].mem = "live" /\ ev[c].ref >= 1
      BY <2>1, WorkerConn
    <3> QED
      BY <3>1 DEF Handles
  <2>3. CASE /\ Wrote(c) /\ ev' = [ev EXCEPT ![c].sent = @ + 1] /\ WorkerStep(w, "write", c)
    <3> DEFINE e == [ev[c] EXCEPT !.sent = ev[c].sent + 1]
    <3>1. Same(e, ev[c])
      BY <2>2, SetField, Zenon
    <3>2. ev' = [ev EXCEPT ![c] = e]
      BY <2>3, Zenon
    <3> HIDE DEF e
    <3>3. e \in Handles /\ e.st = "send" /\ e.ref = ev[c].ref /\ e.mem = ev[c].mem
      BY <2>2, <3>1 DEF Same
    <3>4. sock' \in [Conns -> Sockets]
      BY <2>3, WroteType DEF IInv
    <3>5. worker[w].pc \in {"got", "write"} /\ worker[w].c = c
      BY <2>1
    <3> QED
      BY <2>1, <2>3, <3>2, <3>3, <3>4, <3>5, GoOnStep
  <2>4. ASSUME NEW e \in Handles, ev' = [ev EXCEPT ![c] = e], e.ref = ev[c].ref, e.mem = ev[c].mem,
               sock' \in [Conns -> Sockets], WorkerStep(w, "unref", c)
        PROVE  IInv'
    <3>1. LetGo(w, c, "unref", c, e)
      BY <2>1, <2>2, <2>4 DEF LetGo
    <3> QED
      BY <2>4, <3>1, LeaveStep
  <2>5. CASE /\ sock' = [sock EXCEPT ![c].nospace = TRUE] /\ UNCHANGED ev /\ WorkerStep(w, "unref", c)
    <3>1. ev' = [ev EXCEPT ![c] = ev[c]]
      BY <1>1, <2>5
    <3>2. sock' \in [Conns -> Sockets]
      <4>1. TRUE \in BOOLEAN
        OBVIOUS
      <4> QED
        BY <1>1, <2>5, <4>1, SetSockets, Zenon
    <3> QED
      BY <2>2, <2>4, <2>5, <3>1, <3>2
  <2>6. CASE ev' = [ev EXCEPT ![c].st = "end"] /\ UNCHANGED sock /\ WorkerStep(w, "unref", c)
    <3> DEFINE e == [ev[c] EXCEPT !.st = "end"]
    <3>1. "end" \in Stages
      BY DEF Stages
    <3>2. e \in Handles /\ e.ref = ev[c].ref /\ e.mem = ev[c].mem
      BY <2>2, <3>1, SetState, Zenon
    <3>3. ev' = [ev EXCEPT ![c] = e]
      BY <2>6, Zenon
    <3> HIDE DEF e
    <3> QED
      BY <1>1, <2>4, <2>6, <3>2, <3>3
  <2>7. CASE ev' = [ev EXCEPT ![c] = Ready(@, "recv")] /\ UNCHANGED sock /\ WorkerStep(w, "unref", c)
    <3>1. "recv" \in Stages
      BY DEF Stages
    <3>2. Ready(ev[c], "recv") \in Handles /\ Ready(ev[c], "recv").ref = ev[c].ref /\ Ready(ev[c], "recv").mem = ev[c].mem
      BY <2>2, <3>1, ReadyType, Zenon
    <3> QED
      BY <1>1, <2>4, <2>7, <3>2
  <2> QED
    BY <1>6, <2>3, <2>5, <2>6, <2>7 DEF WritePart
<1>7. CASE Unref(w)
  <2>1. /\ worker[w].pc = "unref" /\ WorkerStep(w, "loop", None)
        /\ taskList' = taskList /\ sock' = sock /\ ev' = [ev EXCEPT ![worker[w].c] = MinusRef(@)]
    BY <1>7 DEF Unref
  <2> PICK c \in Conns : c = worker[w].c
    BY <2>1, WorkerConn
  <2>2. ev[c] \in Handles /\ ev[c].ref \in Nat /\ ev[c].mem = "live" /\ ev[c].ref >= 1
    <3>1. ev[c] \in Handles /\ ev[c].mem = "live" /\ ev[c].ref >= 1
      BY <2>1, WorkerConn
    <3> QED
      BY <3>1 DEF Handles
  <2> DEFINE e == MinusRef(ev[c])
  <2>3. /\ e \in Handles /\ e.st = ev[c].st
        /\ e.ref = IF ev[c].ref = 0 THEN 0 ELSE ev[c].ref - 1
        /\ e.mem = IF ev[c].ref <= 1 THEN "freed" ELSE ev[c].mem
    BY <2>2, MinusRefType
  <2>4. ev' = [ev EXCEPT ![c] = e]
    BY <2>1
  <2> HIDE DEF e
  <2>5. e.ref = ev[c].ref - 1 /\ (e.mem = "live" <=> e.ref >= 1)
    BY <2>2, <2>3
  <2>6. LetGo(w, c, "loop", None, e)
    BY <1>1, <2>1, <2>3, <2>4, <2>5 DEF LetGo
  <2> QED
    BY <2>3, <2>6, LeaveStep
<1> QED
  BY <1>2, <1>3, <1>4, <1>5, <1>6, <1>7 DEF WorkerNext

-----------------------------------------------------------------------------
(* References: the theorems.                                                *)

LEMMA NextIInv ==
    ASSUME IInv, [Next]_vars
    PROVE  IInv'
<1>1. CASE \E c \in Conns : ClientNext(c)
  BY <1>1, ClientNextStep
<1>2. CASE \E c \in Conns : Accept(c)
  BY <1>2, AcceptStep
<1>3. CASE \E c \in Conns : EpollWait(c)
  BY <1>3, EpollWaitStep
<1>4. CASE Handle
  BY <1>4, HandleNextStep DEF Handle
<1>5. CASE SignalHandler \/ StopEpoll \/ Joined
  BY <1>5, StopStep
<1>6. CASE \E w \in Workers : WorkerNext(w)
  BY <1>6, WorkerNextStep
<1>7. CASE UNCHANGED vars
  <2>1. /\ UNCHANGED <<epoll, worker, taskList, connMap, ev, sock, cli>> /\ SameWork
    BY <1>7 DEF vars, SameWork
  <2>2. Types' /\ Attached'
    BY <2>1 DEF IInv, Types, Attached
  <2> QED
    BY <2>1, <2>2, FrameStep
<1> QED
  BY <1>1, <1>2, <1>3, <1>4, <1>5, <1>6, <1>7 DEF Next

\* The reference count covers every holder of a handle, in every reachable state.
THEOREM IInvHolds == Spec => []IInv
<1>1. Init => IInv
  BY InitIInv
<1>2. IInv /\ [Next]_vars => IInv'
  BY NextIInv
<1> QED
  BY <1>1, <1>2, PTL DEF Spec

\* No thread has a handle that was deleted (ref_, MinusRef and RemoveEvent of event_handle.cpp): neither
\* a worker with a task, nor the task list, nor the epoll thread with an event for it.
THEOREM HandlesLive == Spec => []NoUseAfterFree
<1>1. IInv => NoUseAfterFree
  <2> SUFFICES ASSUME IInv PROVE NoUseAfterFree
    OBVIOUS
  <2>1. \A w \in Workers : worker[w].pc \in {"got", "write", "unref"} => ev[worker[w].c].mem = "live"
    BY WorkerConn
  <2>2. \A i \in DOMAIN taskList : ev[taskList[i]].mem = "live"
    <3> SUFFICES ASSUME NEW i \in DOMAIN taskList PROVE ev[taskList[i]].mem = "live"
      OBVIOUS
    <3>1. i \in 1 .. Len(taskList) /\ taskList[i] \in Conns
      BY DEF IInv, Types
    <3>2. Active(taskList[i])
      BY <3>1 DEF Active, Queued
    <3> QED
      BY <3>1, <3>2, HandleFacts
  <2>3. epoll.pc = "handle" => ev[epoll.c].mem = "live"
    <3> SUFFICES ASSUME epoll.pc = "handle" PROVE ev[epoll.c].mem = "live"
      OBVIOUS
    <3>1. epoll.c \in connMap /\ epoll.c \in Conns
      BY DEF IInv, Attached, Types
    <3> QED
      BY <3>1, HandleFacts
  <2> QED
    BY <2>1, <2>2, <2>3 DEF NoUseAfterFree
<1> QED
  BY <1>1, IInvHolds, PTL

-----------------------------------------------------------------------------
(* Answers: what is known of a connection.                                  *)

\* The event of c is still handled: its handle is listed, or a worker has it.
In(c) == c \in connMap \/ ev[c].st # "recv"

\* The parts of a request that its handle has.
Cur(c) == ev[c].head + ev[c].body

Nothing(c) == sock[c].out = <<>> /\ cli[c].got = <<>>
Parts(c) == Len(sock[c].out) + Len(cli[c].got)

\* TCP, and the requests of a client.
SockInv(c) ==
    /\ sock[c].sent = ReqParts * cli[c].req
    /\ 0 <= sock[c].read /\ sock[c].read <= sock[c].avail /\ sock[c].avail <= sock[c].sent
    /\ sock[c].eof <=> cli[c].pc = "closed"
    /\ cli[c].pc = "new" => cli[c].req = 0 /\ ev[c].mem = "none"
    /\ cli[c].req \in 0 .. MaxReq[c]
    /\ Len(sock[c].out) <= SendBuf

\* What a handle has received and sent, by its state.
HandleInv(c) ==
    /\ ev[c].head \in 0 .. HeadParts /\ ev[c].body \in 0 .. 1 /\ ev[c].crc \in 0 .. 1 /\ ev[c].sent \in 0 .. RepParts
    /\ ev[c].method = "request" <=> ev[c].crc = 1
    /\ ev[c].decoded => ev[c].head = HeadParts /\ ev[c].method = "request"
    /\ ~ev[c].decoded => ev[c].body = 0 /\ ev[c].head < HeadParts
    /\ ev[c].tag \in 0 .. cli[c].req
    /\ ev[c].st = "exec" => (IF ev[c].decoded THEN ev[c].body = 1 ELSE ev[c].method = "none")
    /\ ev[c].st \in {"send", "end"} => Cur(c) = 0
    /\ ev[c].st = "end" => cli[c].pc = "closed"

\* What was executed lies before the request that is being received.
DoneInv(c) ==
    /\ Cur(c) <= sock[c].read
    /\ ev[c].decoded /\ In(c) => (sock[c].read - Cur(c)) % ReqParts = 0
    /\ ev[c].method = "none" => \A i \in 1 .. Len(done[c]) : done[c][i] = 0
    /\ \A i \in 1 .. Len(done[c]) :
          /\ ReqParts * done[c][i] <= sock[c].read
          /\ In(c) => ReqParts * done[c][i] <= sock[c].read - Cur(c)
          /\ \A j \in 1 .. i - 1 : done[c][j] = 0 \/ done[c][j] < done[c][i]

\* The client has the answers to all requests but the last, and of that one what was sent.
AnswerInv(c) ==
    ~Mistaken(c) =>
       /\ cli[c].pc \in {"new", "idle"} => Nothing(c)
       /\ cli[c].pc = "wait" => /\ \A i \in 1 .. Len(sock[c].out) : sock[c].out[i] = cli[c].req
                                /\ \A i \in 1 .. Len(cli[c].got) : cli[c].got[i] = cli[c].req
       /\ ev[c].mem = "live" /\ cli[c].pc = "idle" /\ In(c) =>
             /\ sock[c].read = ReqParts * cli[c].req /\ Cur(c) = 0
             /\ ev[c].st = "recv" \/ (ev[c].st = "send" /\ ev[c].sent = RepParts)
       /\ ev[c].mem = "live" /\ cli[c].pc = "wait" /\ In(c) =>
             \/ /\ sock[c].read - Cur(c) = ReqParts * (cli[c].req - 1) /\ Nothing(c)
                /\ \/ ev[c].st = "recv"
                   \/ ev[c].st = "send" /\ ev[c].sent = RepParts
                   \/ ev[c].st = "exec"
             \/ /\ sock[c].read = ReqParts * cli[c].req /\ Cur(c) = 0
                /\ \/ ev[c].st = "recv" /\ Parts(c) = RepParts
                   \/ ev[c].st = "send" /\ ev[c].tag = cli[c].req /\ Parts(c) = ev[c].sent

Conn(c) == SockInv(c) /\ HandleInv(c) /\ DoneInv(c) /\ AnswerInv(c)

\* The epoll thread is told of parts that it has not read.
EventInv == epoll.pc = "handle" /\ "in" \in epoll.mask => sock[epoll.c].read < sock[epoll.c].avail

AInv == done \in [Conns -> Seq(Nat)] /\ EventInv /\ \A c \in Conns : Conn(c)

-----------------------------------------------------------------------------
(* Answers: lemmas about one connection, and the steps of the client.       *)

Sized == ReqParts = 3 /\ HeadParts = 2 /\ RepParts = 2 /\ SendBuf = 1

LEMMA Sizes == Sized
BY DEF Sized, ReqParts, HeadParts, RepParts, SendBuf

LEMMA PartsType == \A n \in Nat : ReqParts * n \in Int
BY DEF ReqParts

\* The numbers of one connection.
Numbers(c) ==
    /\ ev[c].head \in Int /\ ev[c].body \in Int /\ ev[c].crc \in Int /\ ev[c].tag \in Int /\ ev[c].sent \in Int
    /\ sock[c].sent \in Int /\ sock[c].avail \in Int /\ sock[c].read \in Int /\ cli[c].req \in Int
    /\ Len(sock[c].out) \in Nat /\ Len(cli[c].got) \in Nat /\ Len(done[c]) \in Nat
    /\ Cur(c) \in Int /\ MaxReq[c] \in Nat

\* The values of one connection.
FieldTypes(e, s, k, d) ==
    /\ e \in Handles /\ s \in Sockets /\ k \in Clients /\ d \in Seq(Nat)
    /\ e.st \in Stages /\ e.head \in Int /\ e.decoded \in BOOLEAN /\ e.body \in Int /\ e.crc \in Int
    /\ e.method \in Methods /\ e.tag \in Int /\ e.sent \in Int /\ e.ref \in Nat /\ e.mem \in Mems
    /\ s.sent \in Int /\ s.avail \in Int /\ s.read \in Int /\ s.out \in Seq(Int) /\ s.eof \in BOOLEAN
    /\ k.pc \in {"new", "idle", "wait", "closed"} /\ k.req \in Int /\ k.got \in Seq(Int)
    /\ Len(s.out) \in Nat /\ Len(k.got) \in Nat /\ Len(d) \in Nat
    /\ \A i \in 1 .. Len(d) : d[i] \in Nat

LEMMA ConnTypes ==
    IInv /\ AInv => \A c \in Conns : FieldTypes(ev[c], sock[c], cli[c], done[c])
<1> SUFFICES ASSUME IInv, AInv, NEW c \in Conns PROVE FieldTypes(ev[c], sock[c], cli[c], done[c])
  OBVIOUS
<1>1. ev[c] \in Handles /\ sock[c] \in Sockets /\ cli[c] \in Clients /\ done[c] \in Seq(Nat)
  BY DEF IInv, Types, AInv
<1>2. /\ ev[c].st \in Stages /\ ev[c].head \in Int /\ ev[c].decoded \in BOOLEAN /\ ev[c].body \in Int /\ ev[c].crc \in Int
      /\ ev[c].method \in Methods /\ ev[c].tag \in Int /\ ev[c].sent \in Int /\ ev[c].ref \in Nat /\ ev[c].mem \in Mems
  BY <1>1 DEF Handles
<1>3. /\ sock[c].sent \in Int /\ sock[c].avail \in Int /\ sock[c].read \in Int
      /\ sock[c].out \in Seq(Int) /\ sock[c].eof \in BOOLEAN
      /\ Len(sock[c].out) \in Nat
  BY <1>1 DEF Sockets
<1>4. /\ cli[c].pc \in {"new", "idle", "wait", "closed"} /\ cli[c].req \in Int
      /\ cli[c].got \in Seq(Int) /\ Len(cli[c].got) \in Nat
  BY <1>1 DEF Clients
<1>5. Len(done[c]) \in Nat /\ \A i \in 1 .. Len(done[c]) : done[c][i] \in Nat
  BY <1>1
<1> QED
  BY <1>1, <1>2, <1>3, <1>4, <1>5 DEF FieldTypes

LEMMA ConnNumbers ==
    ASSUME IInv, AInv, NEW c \in Conns
    PROVE  Numbers(c)
<1>1. FieldTypes(ev[c], sock[c], cli[c], done[c]) /\ MaxReq[c] \in Nat
  BY ConnTypes, SessionAssumption
<1> QED
  BY <1>1 DEF Numbers, FieldTypes, Cur

\* A step that leaves what is known of c alone, or removes its event.
LEMMA Quiet ==
    ASSUME NEW c \in Conns, FieldTypes(ev[c], sock[c], cli[c], done[c]), Conn(c),
           ev'[c].st = ev[c].st, ev'[c].head = ev[c].head, ev'[c].decoded = ev[c].decoded,
           ev'[c].body = ev[c].body, ev'[c].crc = ev[c].crc, ev'[c].method = ev[c].method,
           ev'[c].tag = ev[c].tag, ev'[c].sent = ev[c].sent,
           ev'[c].mem = ev[c].mem \/ (ev'[c].mem = "freed" /\ ev[c].mem = "live"),
           sock'[c].sent = sock[c].sent, sock'[c].avail = sock[c].avail,
           sock'[c].out = sock[c].out, sock'[c].eof = sock[c].eof,
           sock'[c].read \in sock[c].read .. sock[c].avail,
           In(c)' => In(c) /\ sock'[c].read = sock[c].read,
           cli'[c] = cli[c], done'[c] = done[c]
    PROVE  Conn(c)'
<1> USE DEF FieldTypes
<1>1. Nothing(c)' = Nothing(c) /\ Parts(c)' = Parts(c) /\ Cur(c)' = Cur(c) /\ Mistaken(c)' = Mistaken(c)
  BY DEF Nothing, Parts, Cur, Mistaken
<1>2. Cur(c) \in Int
  BY DEF Cur
<1>3. SockInv(c)'
  BY DEF Conn, SockInv
<1>4. HandleInv(c)'
  BY <1>1 DEF Conn, HandleInv
<1>5. DoneInv(c)'
  <2>1. Cur(c)' <= sock'[c].read
    BY <1>1, <1>2 DEF Conn, DoneInv
  <2>2. ev'[c].decoded /\ In(c)' => (sock'[c].read - Cur(c)') % ReqParts = 0
    BY <1>1 DEF Conn, DoneInv
  <2>3. \A i \in 1 .. Len(done'[c]) :
           /\ ReqParts * done'[c][i] <= sock'[c].read
           /\ In(c)' => ReqParts * done'[c][i] <= sock'[c].read - Cur(c)'
    <3> TAKE i \in 1 .. Len(done'[c])
    <3>1. done'[c][i] = done[c][i] /\ i \in 1 .. Len(done[c]) /\ done[c][i] \in Nat
      OBVIOUS
    <3>2. ReqParts * done[c][i] \in Int
      BY <3>1, PartsType
    <3>3. ReqParts * done[c][i] <= sock[c].read /\ (In(c) => ReqParts * done[c][i] <= sock[c].read - Cur(c))
      BY <3>1 DEF Conn, DoneInv
    <3>4. sock'[c].read \in Int /\ sock[c].read <= sock'[c].read
      OBVIOUS
    <3> HIDE DEF FieldTypes
    <3>5. sock[c].read \in Int
      BY DEF FieldTypes
    <3> QED
      BY <1>1, <1>2, <3>1, <3>2, <3>3, <3>4, <3>5
  <2>4. \A i \in 1 .. Len(done'[c]) : \A j \in 1 .. i - 1 : done'[c][j] = 0 \/ done'[c][j] < done'[c][i]
    BY DEF Conn, DoneInv
  <2>5. ev'[c].method = "none" => \A i \in 1 .. Len(done'[c]) : done'[c][i] = 0
    BY DEF Conn, DoneInv
  <2> QED
    BY <2>1, <2>2, <2>3, <2>4, <2>5 DEF DoneInv
<1>6. AnswerInv(c)'
  BY <1>1 DEF Conn, AnswerInv
<1> QED
  BY <1>3, <1>4, <1>5, <1>6 DEF Conn

LEMMA Untouched ==
    ASSUME IInv, AInv, NEW d \in Conns,
           ev'[d] = ev[d], sock'[d] = sock[d], cli'[d] = cli[d], done'[d] = done[d],
           d \in connMap' <=> d \in connMap
    PROVE  Conn(d)'
<1>1. FieldTypes(ev[d], sock[d], cli[d], done[d]) /\ Conn(d)
  BY ConnTypes DEF AInv
<1>2. In(d)' => In(d)
  BY DEF In
<1>3. sock'[d].read \in sock[d].read .. sock[d].avail
  BY <1>1 DEF FieldTypes, Conn, SockInv
<1> QED
  BY <1>1, <1>2, <1>3, Quiet

\* A step about one connection.
LEMMA OneConn ==
    ASSUME IInv, AInv, NEW c \in Conns, Conn(c)', EventInv', done' \in [Conns -> Seq(Nat)],
           \A d \in Conns : d # c =>
              /\ ev'[d] = ev[d] /\ sock'[d] = sock[d] /\ cli'[d] = cli[d] /\ done'[d] = done[d]
              /\ d \in connMap' <=> d \in connMap
    PROVE  AInv'
<1>1. \A d \in Conns : Conn(d)'
  BY Untouched
<1> QED
  BY <1>1 DEF AInv

LEMMA ClientConn ==
    ASSUME IInv, AInv, NEW c \in Conns, ClientStep, Conn(c)',
           \A d \in Conns : d # c => sock'[d] = sock[d] /\ cli'[d] = cli[d],
           sock'[c].read = sock[c].read, sock[c].avail <= sock'[c].avail, sock'[c].avail \in Int
    PROVE  AInv'
<1>1. UNCHANGED <<epoll, ev, done, connMap>>
  BY DEF ClientStep
<1>2. EventInv'
  <2> SUFFICES ASSUME epoll.pc = "handle", "in" \in epoll.mask
               PROVE  sock'[epoll.c].read < sock'[epoll.c].avail
    BY <1>1 DEF EventInv
  <2>1. epoll.c \in Conns /\ sock[epoll.c].read < sock[epoll.c].avail
    BY DEF AInv, EventInv, IInv, Attached, Types
  <2>2. sock[c].read \in Int /\ sock[c].avail \in Int
    BY ConnTypes DEF FieldTypes
  <2>3. CASE epoll.c = c
    BY <2>1, <2>2, <2>3
  <2>4. CASE epoll.c # c
    BY <2>1, <2>4
  <2> QED
    BY <2>3, <2>4
<1> QED
  BY <1>1, <1>2, OneConn DEF AInv

LEMMA RequestConn ==
    ASSUME IInv, AInv, NEW c \in Conns, Request(c)
    PROVE  AInv'
<1>1. FieldTypes(ev[c], sock[c], cli[c], done[c]) /\ Conn(c) /\ Sized
  BY ConnTypes, Sizes DEF AInv
<1>2. sock \in [Conns -> Sockets] /\ cli \in [Conns -> Clients] /\ MaxReq[c] \in Nat
  BY SessionAssumption DEF IInv, Types
<1>3. /\ sock'[c].sent = sock[c].sent + 3 /\ sock'[c].avail = sock[c].avail /\ sock'[c].read = sock[c].read
      /\ sock'[c].out = sock[c].out /\ sock'[c].eof = sock[c].eof
      /\ \A d \in Conns : d # c => sock'[d] = sock[d]
  BY <1>1, <1>2 DEF Request, Sockets, Sized
<1>4. /\ cli'[c].pc = "wait" /\ cli'[c].req = cli[c].req + 1 /\ cli'[c].got = cli[c].got
      /\ \A d \in Conns : d # c => cli'[d] = cli[d]
  BY <1>2 DEF Request, Clients
<1>5. cli[c].pc = "idle" /\ cli[c].req < MaxReq[c] /\ ClientStep /\ UNCHANGED <<epoll, ev, done, connMap>>
  BY DEF Request, ClientStep
<1>6. SockInv(c)'
  <2>1. Numbers(c) /\ SockInv(c)
    BY <1>1, ConnNumbers DEF Conn
  <2>2. sock'[c].sent = ReqParts * cli'[c].req
    BY <1>1, <1>3, <1>4, <2>1 DEF SockInv, Numbers, Sized
  <2>3. sock[c].avail <= sock'[c].sent /\ cli'[c].req \in 0 .. MaxReq[c]
    <3>1. /\ sock[c].avail <= sock[c].sent /\ sock[c].avail \in Int /\ sock[c].sent \in Int
          /\ cli[c].req \in 0 .. MaxReq[c] /\ MaxReq[c] \in Nat
      BY <2>1 DEF SockInv, Numbers
    <3> QED
      BY <1>3, <1>4, <1>5, <3>1
  <2> QED
    BY <1>3, <1>4, <1>5, <2>1, <2>2, <2>3 DEF SockInv
<1>7. HandleInv(c)'
  BY <1>1, <1>4, <1>5 DEF Conn, HandleInv, FieldTypes, Sized, Cur
<1>8. DoneInv(c)'
  BY <1>1, <1>3, <1>5 DEF Conn, DoneInv, In, Cur
<1>9. AnswerInv(c)'
  <2>1. Nothing(c)' = Nothing(c) /\ Cur(c)' = Cur(c) /\ In(c)' = In(c) /\ Mistaken(c)' = Mistaken(c)
    BY <1>3, <1>4, <1>5 DEF Nothing, Cur, In, Mistaken
  <2>2. Cur(c) \in Int
    BY <1>1 DEF Cur, FieldTypes
  <2>3. ~Mistaken(c) => Nothing(c)
    BY <1>1, <1>5 DEF Conn, AnswerInv
  <2>4. ~Mistaken(c)' => /\ \A i \in 1 .. Len(sock'[c].out) : sock'[c].out[i] = cli'[c].req
                         /\ \A i \in 1 .. Len(cli'[c].got) : cli'[c].got[i] = cli'[c].req
    BY <1>3, <1>4, <2>1, <2>3 DEF Nothing
  <2>5. ~Mistaken(c)' /\ ev'[c].mem = "live" /\ In(c)' =>
           /\ sock'[c].read - Cur(c)' = ReqParts * (cli'[c].req - 1) /\ Nothing(c)'
           /\ \/ ev'[c].st = "recv"
              \/ ev'[c].st = "send" /\ ev'[c].sent = RepParts
    BY <1>1, <1>3, <1>4, <1>5, <2>1, <2>2, <2>3 DEF Conn, AnswerInv, FieldTypes, Sized
  <2> QED
    BY <1>4, <2>4, <2>5 DEF AnswerInv
<1>10. Conn(c)' /\ sock[c].avail <= sock'[c].avail /\ sock'[c].avail \in Int
  BY <1>1, <1>3, <1>6, <1>7, <1>8, <1>9 DEF Conn, FieldTypes
<1> QED
  BY <1>3, <1>4, <1>5, <1>10, ClientConn

LEMMA ArriveConn ==
    ASSUME IInv, AInv, NEW c \in Conns, Arrive(c)
    PROVE  AInv'
<1>1. FieldTypes(ev[c], sock[c], cli[c], done[c]) /\ Conn(c)
  BY ConnTypes DEF AInv
<1>2. PICK n \in 1 .. sock[c].sent - sock[c].avail :
         sock' = [sock EXCEPT ![c].avail = @ + n, ![c].edge = TRUE]
  BY DEF Arrive
<1>3. /\ sock'[c].sent = sock[c].sent /\ sock'[c].avail = sock[c].avail + n /\ sock'[c].read = sock[c].read
      /\ sock'[c].out = sock[c].out /\ sock'[c].eof = sock[c].eof
      /\ \A d \in Conns : d # c => sock'[d] = sock[d]
  BY <1>2 DEF IInv, Types, Sockets
<1>4. UNCHANGED <<epoll, ev, done, connMap, cli>> /\ ClientStep
  BY DEF Arrive, ClientStep
<1>5. SockInv(c)' /\ sock[c].avail <= sock'[c].avail /\ sock'[c].avail \in Int
  <2>1. Numbers(c) /\ SockInv(c)
    BY <1>1, ConnNumbers DEF Conn
  <2>2. sock[c].avail + n \in Int /\ sock[c].avail <= sock[c].avail + n /\ sock[c].avail + n <= sock[c].sent
        /\ sock[c].read <= sock[c].avail + n
    <3>1. /\ sock[c].avail <= sock[c].sent /\ sock[c].read <= sock[c].avail
          /\ sock[c].avail \in Int /\ sock[c].sent \in Int /\ sock[c].read \in Int
      BY <2>1 DEF SockInv, Numbers
    <3> QED
      BY <3>1
  <2> QED
    BY <1>3, <1>4, <2>1, <2>2 DEF SockInv
<1>6. /\ Cur(c)' = Cur(c) /\ In(c)' = In(c) /\ Nothing(c)' = Nothing(c) /\ Parts(c)' = Parts(c)
      /\ Mistaken(c)' = Mistaken(c)
  BY <1>3, <1>4 DEF Cur, In, Nothing, Parts, Mistaken
<1>7. HandleInv(c)'
  BY <1>1, <1>4, <1>6 DEF Conn, HandleInv
<1>8. DoneInv(c)'
  BY <1>1, <1>3, <1>4, <1>6 DEF Conn, DoneInv
<1>9. AnswerInv(c)'
  BY <1>1, <1>3, <1>4, <1>6 DEF Conn, AnswerInv
<1>10. Conn(c)'
  BY <1>5, <1>7, <1>8, <1>9 DEF Conn
<1> QED
  BY <1>3, <1>4, <1>5, <1>10, ClientConn

LEMMA RecvConn ==
    ASSUME IInv, AInv, NEW c \in Conns, Recv(c)
    PROVE  AInv'
<1>1. /\ FieldTypes(ev[c], sock[c], cli[c], done[c]) /\ Numbers(c)
      /\ SockInv(c) /\ HandleInv(c) /\ DoneInv(c) /\ AnswerInv(c)
  BY ConnTypes, ConnNumbers DEF AInv, Conn
<1>2. sock \in [Conns -> Sockets] /\ cli \in [Conns -> Clients]
  BY DEF IInv, Types
<1>3. UNCHANGED <<epoll, ev, done, connMap>> /\ ClientStep /\ cli[c].pc = "wait"
  BY DEF Recv, ClientStep
<1>4. Cur(c)' = Cur(c) /\ In(c)' = In(c) /\ Mistaken(c)' = Mistaken(c)
  BY <1>3 DEF Cur, In, Mistaken
<1>5. ASSUME sock'[c].sent = sock[c].sent, sock'[c].avail = sock[c].avail, sock'[c].read = sock[c].read,
             sock'[c].eof = sock[c].eof, sock'[c].out = <<>>,
             cli'[c].pc \in {"wait", "idle"}, cli'[c].req = cli[c].req, AnswerInv(c)',
             \A d \in Conns : d # c => sock'[d] = sock[d] /\ cli'[d] = cli[d]
      PROVE  AInv'
  <2>1. SockInv(c)'
    BY <1>1, <1>3, <1>5 DEF SockInv, SendBuf
  <2>2. HandleInv(c)'
    BY <1>1, <1>3, <1>4, <1>5 DEF HandleInv
  <2>3. DoneInv(c)'
    BY <1>1, <1>3, <1>4, <1>5 DEF DoneInv
  <2>4. Conn(c)'
    BY <1>5, <2>1, <2>2, <2>3 DEF Conn
  <2>5. sock[c].avail <= sock'[c].avail /\ sock'[c].avail \in Int
    BY <1>1, <1>5 DEF Numbers
  <2> QED
    BY <1>3, <1>5, <2>4, <2>5, ClientConn
<1>6. CASE sock[c].out # <<>>
  <2> DEFINE x == Head(sock[c].out)
             got == Append(cli[c].got, x)
  <2>1. /\ cli' = [cli EXCEPT ![c] = Execute(@, Append(@.got, Head(sock[c].out)))]
        /\ sock' = [sock EXCEPT ![c].out = Tail(@), ![c].edge = @ \/ sock[c].nospace, ![c].nospace = FALSE]
    BY <1>6 DEF Recv
  <2>2. /\ sock[c].out \in Seq(Int) /\ cli[c].got \in Seq(Int) /\ Len(sock[c].out) <= 1
    BY <1>1 DEF FieldTypes, SockInv, SendBuf
  <2>3. /\ Len(sock[c].out) = 1 /\ x = sock[c].out[1] /\ Tail(sock[c].out) = <<>>
        /\ got \in Seq(Int) /\ Len(got) = Len(cli[c].got) + 1
        /\ \A i \in 1 .. Len(got) : got[i] = IF i <= Len(cli[c].got) THEN cli[c].got[i] ELSE x
    <3>1. Len(sock[c].out) \in Nat /\ Len(sock[c].out) # 0 /\ Len(sock[c].out) <= 1
      BY <1>6, <2>2
    <3>2. Len(sock[c].out) = 1
      <4>1. \A n \in Nat : n # 0 /\ n <= 1 => n = 1
        OBVIOUS
      <4> QED
        BY <3>1, <4>1, Zenon
    <3>3. x = sock[c].out[1] /\ x \in Int
      BY <1>6, <2>2, <3>2
    <3>4. Tail(sock[c].out) \in Seq(Int) /\ Len(Tail(sock[c].out)) = 0
      BY <1>6, <2>2, <3>2
    <3>5. Tail(sock[c].out) = <<>>
      <4>1. \A s \in Seq(Int) : Len(s) = 0 => s = <<>>
        OBVIOUS
      <4> QED
        BY <3>4, <4>1
    <3> HIDE DEF x
    <3>6. got \in Seq(Int) /\ Len(got) = Len(cli[c].got) + 1
      BY <2>2, <3>3
    <3>7. \A i \in 1 .. Len(got) : got[i] = IF i <= Len(cli[c].got) THEN cli[c].got[i] ELSE x
      BY <2>2, <3>3, <3>6
    <3> QED
      BY <3>2, <3>3, <3>5, <3>6, <3>7
  <2>4. /\ sock'[c].sent = sock[c].sent /\ sock'[c].avail = sock[c].avail /\ sock'[c].read = sock[c].read
        /\ sock'[c].eof = sock[c].eof /\ sock'[c].out = <<>>
        /\ \A d \in Conns : d # c => sock'[d] = sock[d]
    BY <1>2, <2>1, <2>3 DEF Sockets
  <2>5. /\ cli'[c] = Execute(cli[c], got) /\ \A d \in Conns : d # c => cli'[d] = cli[d]
    BY <1>2, <2>1
  <2> HIDE DEF x, got
  <2>6. ~Mistaken(c) => x = cli[c].req /\ \A i \in 1 .. Len(got) : got[i] = cli[c].req
    BY <1>1, <1>3, <2>3 DEF AnswerInv
  <2>7. ~Mistaken(c) /\ ev[c].mem = "live" /\ In(c) =>
           /\ sock[c].read = ReqParts * cli[c].req /\ Cur(c) = 0
           /\ \/ ev[c].st = "recv" /\ Len(got) = RepParts
              \/ ev[c].st = "send" /\ ev[c].tag = cli[c].req /\ Len(got) = ev[c].sent
    <3>1. ~Nothing(c) /\ Parts(c) = Len(got)
      BY <1>1, <1>6, <2>3 DEF Nothing, Parts, Numbers
    <3> QED
      BY <1>1, <1>3, <3>1 DEF AnswerInv
  <2>8. CASE Len(got) = RepParts
    <3>1. cli'[c].pc = "idle" /\ cli'[c].req = cli[c].req /\ cli'[c].got = <<>>
      BY <1>2, <2>5, <2>8 DEF Execute, Clients
    <3>2. AnswerInv(c)'
      BY <1>3, <1>4, <2>4, <2>7, <2>8, <3>1 DEF AnswerInv, Nothing
    <3> QED
      BY <1>5, <2>4, <2>5, <3>1, <3>2
  <2>9. CASE Len(got) # RepParts
    <3>1. cli'[c].pc = "wait" /\ cli'[c].req = cli[c].req /\ cli'[c].got = got
      BY <1>2, <1>3, <2>5, <2>9 DEF Execute, Clients
    <3>2. Parts(c)' = Len(got)
      BY <2>2, <2>3, <2>4, <3>1 DEF Parts
    <3>3. AnswerInv(c)'
      BY <1>3, <1>4, <2>4, <2>6, <2>7, <2>9, <3>1, <3>2 DEF AnswerInv
    <3> QED
      BY <1>5, <2>4, <2>5, <3>1, <3>3
  <2> QED
    BY <2>8, <2>9
<1>7. CASE sock[c].out = <<>>
  <2>1. ev[c].mem = "freed" /\ cli' = [cli EXCEPT ![c].pc = "idle", ![c].got = <<>>] /\ sock' = sock
    BY <1>7 DEF Recv
  <2>2. /\ cli'[c].pc = "idle" /\ cli'[c].req = cli[c].req /\ cli'[c].got = <<>>
        /\ \A d \in Conns : d # c => cli'[d] = cli[d]
    BY <1>2, <2>1 DEF Clients
  <2>3. AnswerInv(c)'
    BY <1>3, <1>7, <2>1, <2>2 DEF AnswerInv, Nothing
  <2> QED
    BY <1>5, <1>7, <2>1, <2>2, <2>3
<1> QED
  BY <1>6, <1>7

LEMMA DisconnectConn ==
    ASSUME IInv, AInv, NEW c \in Conns, Disconnect(c)
    PROVE  AInv'
<1>1. Numbers(c) /\ SockInv(c) /\ HandleInv(c) /\ DoneInv(c)
  BY ConnNumbers DEF AInv, Conn
<1>2. UNCHANGED <<epoll, ev, done, connMap>> /\ ClientStep
  BY DEF Disconnect, ClientStep
<1>3. /\ cli'[c].pc = "closed" /\ cli'[c].req = cli[c].req /\ cli'[c].got = <<>>
      /\ sock'[c].sent = sock[c].sent /\ sock'[c].avail = sock[c].avail /\ sock'[c].read = sock[c].read
      /\ sock'[c].eof = TRUE /\ sock'[c].out = <<>>
      /\ \A d \in Conns : d # c => sock'[d] = sock[d] /\ cli'[d] = cli[d]
  BY DEF Disconnect, IInv, Types, Sockets, Clients
<1>4. Cur(c)' = Cur(c) /\ In(c)' = In(c)
  BY <1>2 DEF Cur, In
<1>5. SockInv(c)'
  BY <1>1, <1>3 DEF SockInv, SendBuf
<1>6. HandleInv(c)'
  BY <1>1, <1>2, <1>3, <1>4 DEF HandleInv
<1>7. DoneInv(c)'
  BY <1>1, <1>2, <1>3, <1>4 DEF DoneInv
<1>8. AnswerInv(c)'
  BY <1>3 DEF AnswerInv
<1>9. Conn(c)' /\ sock[c].avail <= sock'[c].avail /\ sock'[c].avail \in Int
  BY <1>1, <1>3, <1>5, <1>6, <1>7, <1>8 DEF Conn, Numbers
<1> QED
  BY <1>2, <1>3, <1>9, ClientConn

LEMMA AcceptConn ==
    ASSUME IInv, AInv, NEW c \in Conns, Accept(c)
    PROVE  AInv'
<1>1. /\ FieldTypes(ev[c], sock[c], cli[c], done[c]) /\ Numbers(c)
      /\ SockInv(c) /\ HandleInv(c) /\ DoneInv(c) /\ AnswerInv(c)
  BY ConnTypes, ConnNumbers DEF AInv, Conn
<1>2. /\ cli[c].pc = "new" /\ cli'[c].pc = "idle" /\ cli'[c].req = cli[c].req /\ cli'[c].got = cli[c].got
      /\ epoll.pc = "wait" /\ done' = done
      /\ \A d \in Conns : d # c => cli'[d] = cli[d]
  BY DEF Accept, IInv, Types, Clients
<1>3. /\ sock'[c].sent = sock[c].sent /\ sock'[c].avail = sock[c].avail /\ sock'[c].read = sock[c].read
      /\ sock'[c].out = sock[c].out /\ sock'[c].eof = sock[c].eof
      /\ \A d \in Conns : d # c => sock'[d] = sock[d]
  BY DEF Accept, IInv, Types, Sockets
<1>4. EventInv'
  BY <1>2 DEF Accept, EventInv, IInv, Types, Epolls
<1>5. SockInv(c)'
  BY <1>1, <1>2, <1>3 DEF SockInv
<1>6. cli[c].req = 0 /\ sock[c].read = 0
  BY <1>1, <1>2 DEF SockInv, Numbers, ReqParts
<1>7. ~Mistaken(c) => Nothing(c)
  BY <1>1, <1>2 DEF AnswerInv
<1>8. Nothing(c)' = Nothing(c) /\ Mistaken(c)' = Mistaken(c)
  BY <1>2, <1>3 DEF Nothing, Mistaken
<1>9. \A i \in 1 .. Len(done[c]) : done[c][i] = 0
  <2> SUFFICES ASSUME NEW i \in 1 .. Len(done[c]) PROVE done[c][i] = 0
    OBVIOUS
  <2>1. done[c][i] \in Nat
    BY <1>1 DEF FieldTypes
  <2>2. 3 * done[c][i] <= 0
    BY <1>1, <1>6 DEF DoneInv, ReqParts
  <2> QED
    BY <2>1, <2>2
<1>10. CASE MallocConnInfo
  <2>1. ev' = [ev EXCEPT ![c] = NewHandle] /\ connMap' = connMap \cup {c}
    BY <1>10 DEF Accept, NewEvent, AddConnection
  <2>2. ev'[c] = NewHandle /\ \A d \in Conns : d # c => ev'[d] = ev[d]
    BY <2>1 DEF IInv, Types
  <2>3. /\ ev'[c].st = "recv" /\ ev'[c].head = 0 /\ ev'[c].decoded = FALSE /\ ev'[c].body = 0
        /\ ev'[c].crc = 0 /\ ev'[c].method = "none" /\ ev'[c].tag = 0 /\ ev'[c].sent = 0
    BY <2>2 DEF NewHandle
  <2>4. Cur(c)' = 0
    BY <2>3 DEF Cur
  <2>5. HandleInv(c)'
    <3>1. 0 \in 0 .. cli'[c].req
      BY <1>2, <1>6
    <3>2. 0 \in 0 .. RepParts /\ 0 \in 0 .. HeadParts /\ 0 < HeadParts
      BY DEF RepParts, HeadParts
    <3> QED
      BY <2>3, <3>1, <3>2 DEF HandleInv
  <2>6. DoneInv(c)'
    <3>1. ReqParts * 0 <= 0 - 0 /\ ReqParts * 0 <= 0 /\ 0 <= 0
      BY DEF ReqParts
    <3> QED
      BY <1>2, <1>3, <1>6, <1>9, <2>3, <2>4, <3>1 DEF DoneInv
  <2>7. AnswerInv(c)'
    <3>1. 0 = ReqParts * 0
      BY DEF ReqParts
    <3> QED
      BY <1>2, <1>3, <1>6, <1>7, <1>8, <2>3, <2>4, <3>1 DEF AnswerInv
  <2>8. Conn(c)' /\ \A d \in Conns : d # c => (d \in connMap' <=> d \in connMap)
    BY <1>5, <2>1, <2>5, <2>6, <2>7 DEF Conn
  <2> QED
    BY <1>2, <1>3, <1>4, <2>2, <2>8, OneConn DEF AInv
<1>11. CASE ~MallocConnInfo
  <2>1. ev' = [ev EXCEPT ![c].mem = "freed"] /\ connMap' = connMap
    BY <1>11 DEF Accept, NewEvent
  <2>2. /\ ev'[c].mem = "freed" /\ ev'[c].st = ev[c].st /\ ev'[c].head = ev[c].head
        /\ ev'[c].decoded = ev[c].decoded /\ ev'[c].body = ev[c].body /\ ev'[c].crc = ev[c].crc
        /\ ev'[c].method = ev[c].method /\ ev'[c].tag = ev[c].tag /\ ev'[c].sent = ev[c].sent
        /\ \A d \in Conns : d # c => ev'[d] = ev[d]
    BY <2>1 DEF IInv, Types, Handles
  <2>3. Cur(c)' = Cur(c) /\ In(c)' = In(c)
    BY <2>1, <2>2 DEF Cur, In
  <2>4. HandleInv(c)'
    BY <1>1, <1>2, <2>2, <2>3 DEF HandleInv
  <2>5. DoneInv(c)'
    BY <1>1, <1>2, <1>3, <2>2, <2>3 DEF DoneInv
  <2>6. AnswerInv(c)'
    BY <1>2, <1>7, <1>8, <2>2 DEF AnswerInv
  <2>7. Conn(c)'
    BY <1>5, <2>4, <2>5, <2>6 DEF Conn
  <2> QED
    BY <1>2, <1>3, <1>4, <2>1, <2>2, <2>7, OneConn DEF AInv
<1> QED
  BY <1>10, <1>11

LEMMA EpollWaitConn ==
    ASSUME IInv, AInv, NEW c \in Conns, EpollWait(c)
    PROVE  AInv'
<1>1. FieldTypes(ev[c], sock[c], cli[c], done[c]) /\ Conn(c) /\ Numbers(c)
  BY ConnTypes, ConnNumbers DEF AInv
<1>2. /\ sock'[c].sent = sock[c].sent /\ sock'[c].avail = sock[c].avail /\ sock'[c].read = sock[c].read
      /\ sock'[c].out = sock[c].out /\ sock'[c].eof = sock[c].eof
      /\ \A d \in Conns : d # c => sock'[d] = sock[d]
  BY DEF EpollWait, IInv, Types, Sockets
<1>3. UNCHANGED <<connMap, ev, cli, done>> /\ epoll.pc = "wait" /\ epoll \in Epolls
  BY DEF EpollWait, IInv, Types
<1>4. EventInv'
  <2>1. CASE Mask(c) = {}
    BY <1>3, <2>1 DEF EpollWait, EventInv
  <2>2. CASE Mask(c) # {}
    <3>1. epoll'.c = c /\ epoll'.mask = Mask(c)
      BY <1>3, <2>2 DEF EpollWait, Epolls
    <3>2. "in" \in Mask(c) => sock[c].avail > sock[c].read
      BY DEF Mask
    <3>3. "in" \in Mask(c) => sock[c].read < sock[c].avail
      BY <1>1, <3>2 DEF Numbers
    <3> QED
      BY <1>2, <3>1, <3>3 DEF EventInv
  <2> QED
    BY <2>1, <2>2
<1>5. sock'[c].read \in sock[c].read .. sock[c].avail
  BY <1>1, <1>2 DEF Numbers, Conn, SockInv
<1>6. In(c)' => In(c) /\ sock'[c].read = sock[c].read
  BY <1>2, <1>3 DEF In
<1>7. Conn(c)'
  BY <1>1, <1>2, <1>3, <1>5, <1>6, Quiet
<1> QED
  BY <1>2, <1>3, <1>4, <1>7, OneConn DEF AInv

\* Steps that change neither a handle nor a socket nor a client.
LEMMA SameConn ==
    ASSUME IInv, AInv, EventInv', UNCHANGED <<connMap, ev, sock, cli, done>>
    PROVE  AInv'
<1>1. \A d \in Conns : Conn(d)'
  BY Untouched
<1> QED
  BY <1>1 DEF AInv

-----------------------------------------------------------------------------
(* Answers: the steps of the epoll thread and of a worker.                  *)

LEMMA MinusRefFields ==
    ASSUME NEW e \in Handles
    PROVE  LET f == MinusRef(e) IN
           /\ f.st = e.st /\ f.head = e.head /\ f.decoded = e.decoded /\ f.body = e.body /\ f.crc = e.crc
           /\ f.method = e.method /\ f.tag = e.tag /\ f.sent = e.sent /\ f.mem \in {e.mem, "freed"}
BY DEF MinusRef, Handles

LEMMA ReadyFields ==
    ASSUME NEW e \in Handles, NEW st \in Stages
    PROVE  LET f == Ready(e, st) IN
           /\ f.st = st /\ f.head = 0 /\ f.decoded = FALSE /\ f.body = 0 /\ f.crc = e.crc
           /\ f.method = e.method /\ f.tag = e.tag /\ f.sent = 0 /\ f.mem = e.mem
BY DEF Ready, Handles

LEMMA DecodeFields ==
    ASSUME NEW e \in Handles
    PROVE  LET f == DecodeHead(e) IN
           /\ f.st = e.st /\ f.head = e.head /\ f.decoded = TRUE /\ f.body = 0 /\ f.crc = 1
           /\ f.method = "request" /\ f.tag = e.tag /\ f.sent = e.sent /\ f.mem = e.mem
BY DEF DecodeHead, Handles

LEMMA RemoveConn ==
    ASSUME IInv, AInv, EpollStep, NEW c \in Conns, epoll.c = c, RemoveEvent(c),
           sock'[c].sent = sock[c].sent, sock'[c].avail = sock[c].avail,
           sock'[c].out = sock[c].out, sock'[c].eof = sock[c].eof,
           sock'[c].read \in sock[c].read .. sock[c].avail,
           ev[c].st = "recv" \/ sock'[c].read = sock[c].read,
           \A d \in Conns : d # c => sock'[d] = sock[d]
    PROVE  AInv'
<1>1. /\ FieldTypes(ev[c], sock[c], cli[c], done[c]) /\ Conn(c) /\ ev \in [Conns -> Handles] /\ ev[c] \in Handles
      /\ ev[c].mem = "live" /\ c \in connMap
  <2>1. c \in connMap
    BY DEF EpollStep, IInv, Attached
  <2> QED
    BY <2>1, ConnTypes, HandleFacts DEF AInv, IInv, Types
<1>2. UNCHANGED <<cli, done>> /\ epoll'.pc = "wait"
  BY DEF EpollStep, Handled
<1>3. ev' = [ev EXCEPT ![c] = MinusRef(ev[c])] /\ connMap' = connMap \ {c}
  BY DEF RemoveEvent, DelConnection
<1>4. ev'[c] = MinusRef(ev[c]) /\ \A d \in Conns : d # c => ev'[d] = ev[d]
  BY <1>1, <1>3
<1>5. /\ ev'[c].st = ev[c].st /\ ev'[c].head = ev[c].head /\ ev'[c].decoded = ev[c].decoded
      /\ ev'[c].body = ev[c].body /\ ev'[c].crc = ev[c].crc /\ ev'[c].method = ev[c].method
      /\ ev'[c].tag = ev[c].tag /\ ev'[c].sent = ev[c].sent
      /\ ev'[c].mem = ev[c].mem \/ (ev'[c].mem = "freed" /\ ev[c].mem = "live")
  BY <1>1, <1>4, MinusRefFields
<1>6. In(c)' => In(c) /\ sock'[c].read = sock[c].read
  BY <1>3, <1>5 DEF In
<1>7. Conn(c)'
  BY <1>1, <1>2, <1>5, <1>6, Quiet
<1>8. EventInv' /\ \A d \in Conns : d # c => (d \in connMap' <=> d \in connMap)
  BY <1>2, <1>3 DEF EventInv
<1> QED
  BY <1>2, <1>4, <1>7, <1>8, OneConn DEF AInv

\* A part of an answer goes to the socket.
LEMMA WroteConn ==
    ASSUME IInv, AInv, NEW c \in Conns, Wrote(c), ev[c].mem = "live", ev[c].st = "send", ev[c].sent < RepParts,
           UNCHANGED <<cli, done, connMap>>, NEW e, ev' = [ev EXCEPT ![c] = e],
           \/ e = [ev[c] EXCEPT !.sent = @ + 1]
           \/ e = Ready(ev[c], "recv") /\ ev[c].sent + 1 = RepParts /\ c \in connMap
    PROVE  Conn(c)'
<1>1. /\ FieldTypes(ev[c], sock[c], cli[c], done[c]) /\ Numbers(c) /\ ev \in [Conns -> Handles] /\ ev[c] \in Handles
      /\ SockInv(c) /\ HandleInv(c) /\ DoneInv(c) /\ AnswerInv(c)
  BY ConnTypes, ConnNumbers, HandleFacts DEF AInv, Conn, IInv, Types
<1>2. cli'[c] = cli[c] /\ done'[c] = done[c] /\ ev'[c] = e
  BY <1>1
<1>3. /\ ev'[c].head = 0 /\ ev'[c].decoded = FALSE /\ ev'[c].body = 0
      /\ ev'[c].crc = ev[c].crc /\ ev'[c].method = ev[c].method
      /\ ev'[c].tag = ev[c].tag /\ ev'[c].mem = "live"
      /\ \/ ev'[c].st = "send" /\ ev'[c].sent = ev[c].sent + 1
         \/ ev'[c].st = "recv" /\ ev'[c].sent = 0 /\ ev[c].sent + 1 = RepParts /\ c \in connMap
  <2>1. ev[c].head = 0 /\ ev[c].body = 0 /\ ev[c].decoded = FALSE
    <3>1. ev[c].head + ev[c].body = 0 /\ ev[c].head \in 0 .. 2 /\ ev[c].body \in 0 .. 1
      BY <1>1 DEF HandleInv, Cur, HeadParts
    <3>2. ev[c].head = 0 /\ ev[c].body = 0
      BY <3>1
    <3> QED
      BY <1>1, <3>2 DEF HandleInv, HeadParts, FieldTypes
  <2>2. CASE e = [ev[c] EXCEPT !.sent = @ + 1]
    BY <1>1, <1>2, <2>1, <2>2 DEF Handles
  <2>3. CASE e = Ready(ev[c], "recv") /\ ev[c].sent + 1 = RepParts /\ c \in connMap
    BY <1>1, <1>2, <2>3, ReadyFields DEF Stages
  <2> QED
    BY <2>2, <2>3
<1>4. /\ sock'[c].sent = sock[c].sent /\ sock'[c].avail = sock[c].avail /\ sock'[c].read = sock[c].read
      /\ sock'[c].eof = sock[c].eof /\ sock[c].out = <<>>
      /\ sock'[c].out = IF sock[c].eof THEN <<>> ELSE <<ev[c].tag>>
  <2>1. sock[c].out = <<>>
    <3>1. Len(sock[c].out) = 0
      BY <1>1 DEF Wrote, Numbers, SendBuf
    <3> QED
      BY <1>1, <3>1 DEF FieldTypes
  <2>2. Append(<<>>, ev[c].tag) = <<ev[c].tag>>
    OBVIOUS
  <2> QED
    BY <2>1, <2>2 DEF Wrote, IInv, Types, Sockets
<1>5. Cur(c) = 0 /\ Cur(c)' = 0 /\ In(c) /\ In(c)' /\ Mistaken(c)' = Mistaken(c)
  <2>1. Cur(c) = 0
    BY <1>1 DEF HandleInv
  <2>2. Cur(c)' = 0
    BY <1>3 DEF Cur
  <2>3. In(c)
    BY DEF In
  <2>4. In(c)'
    BY <1>3 DEF In
  <2> QED
    BY <1>2, <2>1, <2>2, <2>3, <2>4 DEF Mistaken
<1>6. SockInv(c)'
  <2>1. Len(sock'[c].out) <= SendBuf
    <3>1. Len(<<>>) <= 1 /\ Len(<<ev[c].tag>>) <= 1
      OBVIOUS
    <3> QED
      BY <1>4, <3>1 DEF SendBuf
  <2> QED
    BY <1>1, <1>2, <1>3, <1>4, <2>1 DEF SockInv
<1>7. HandleInv(c)'
  <2>1. 0 \in 0 .. HeadParts /\ 0 \in 0 .. 1 /\ 0 < HeadParts /\ ev'[c].sent \in 0 .. RepParts
    BY <1>1, <1>3 DEF HandleInv, RepParts, HeadParts, Numbers
  <2> QED
    BY <1>1, <1>2, <1>3, <1>5, <2>1 DEF HandleInv
<1>8. DoneInv(c)'
  BY <1>1, <1>2, <1>3, <1>4, <1>5 DEF DoneInv
<1>9. AnswerInv(c)'
  <2> SUFFICES ASSUME ~Mistaken(c) PROVE AnswerInv(c)'
    BY <1>5 DEF AnswerInv
  <2>1. cli[c].pc # "new" /\ cli[c].pc # "idle"
    BY <1>1, <1>5 DEF AnswerInv, SockInv, RepParts, Numbers
  <2>2. ASSUME cli[c].pc = "wait"
        PROVE  /\ sock[c].read = ReqParts * cli[c].req /\ ev[c].tag = cli[c].req /\ Parts(c) = ev[c].sent
               /\ sock'[c].out = <<ev[c].tag>> /\ Parts(c)' = ev[c].sent + 1
               /\ \A i \in 1 .. Len(sock'[c].out) : sock'[c].out[i] = cli[c].req
               /\ \A i \in 1 .. Len(cli[c].got) : cli[c].got[i] = cli[c].req
    <3>1. /\ sock[c].read = ReqParts * cli[c].req /\ ev[c].tag = cli[c].req /\ Parts(c) = ev[c].sent
          /\ \A i \in 1 .. Len(cli[c].got) : cli[c].got[i] = cli[c].req
      BY <1>1, <1>5, <2>2 DEF AnswerInv, RepParts, Numbers
    <3>2. sock'[c].out = <<ev[c].tag>>
      BY <1>1, <1>4, <2>2 DEF SockInv
    <3>3. Len(<<>>) = 0 /\ Len(<<ev[c].tag>>) = 1
      OBVIOUS
    <3>4. Parts(c)' = ev[c].sent + 1
      <4>1. Parts(c) = 0 + Len(cli[c].got) /\ Parts(c)' = 1 + Len(cli[c].got) /\ Len(cli[c].got) \in Nat
        BY <1>1, <1>2, <1>4, <3>2, <3>3 DEF Parts, Numbers
      <4> QED
        BY <3>1, <4>1
    <3>5. \A i \in 1 .. Len(sock'[c].out) : sock'[c].out[i] = cli[c].req
      BY <3>1, <3>2
    <3> QED
      BY <3>1, <3>2, <3>4, <3>5
  <2> QED
    BY <1>2, <1>3, <1>4, <1>5, <2>1, <2>2 DEF AnswerInv
<1> QED
  BY <1>6, <1>7, <1>8, <1>9 DEF Conn

\* A handle after RecvData: the header is whole and understood, or only its first part is there.
Gathered(e, f, at) ==
    /\ f.st = e.st /\ f.tag = e.tag /\ f.sent = e.sent /\ f.mem = e.mem
    /\ \/ /\ f.decoded = TRUE /\ f.head = 2 /\ f.body \in {0, 1} /\ f.method = "request" /\ f.crc = 1
          /\ at % 3 = 0
       \/ f.decoded = FALSE /\ f.head = 1 /\ f.body = 0 /\ f.method = e.method /\ f.crc = e.crc

LEMMA ReceivedFields ==
    ASSUME IInv, AInv, NEW c \in Conns, c \in connMap, ev[c].st = "recv", sock[c].read < sock[c].avail
    PROVE  LET r == Received(c)
               f == r.handle
           IN  /\ r.read \in 0 .. sock[c].avail - sock[c].read
               /\ ~r.failed => /\ f.head + f.body = Cur(c) + r.read
                               /\ Gathered(ev[c], f, sock[c].read - Cur(c))
<1> DEFINE e == ev[c]
           n == sock[c].avail - sock[c].read
           h == MinOf(n, HeadParts - e.head)
           whole == e.head < HeadParts /\ e.head + h = HeadParts
           aligned == (sock[c].read + h) % ReqParts = HeadParts
           more == [e EXCEPT !.head = @ + h]
           d == IF whole /\ aligned THEN DecodeHead(more) ELSE more
           b == MinOf(n - h, BodySize(d) - d.body)
           f == [d EXCEPT !.body = @ + b]
           R == sock[c].read
<1>1. /\ e \in Handles /\ Numbers(c) /\ HandleInv(c) /\ DoneInv(c) /\ R \in Int /\ n \in Int /\ n >= 1
  BY ConnNumbers, HandleFacts DEF AInv, Conn, Numbers
<1>2. /\ e.head \in {0, 1, 2} /\ e.body \in {0, 1} /\ e.decoded \in BOOLEAN /\ Cur(c) = e.head + e.body
      /\ e.decoded => e.head = 2 /\ e.method = "request" /\ e.crc = 1 /\ (R - Cur(c)) % 3 = 0
      /\ ~e.decoded => e.body = 0 /\ e.head # 2
  <2>1. e.head \in 0 .. 2 /\ e.body \in 0 .. 1
    BY <1>1 DEF HandleInv, HeadParts
  <2>2. Cur(c) = e.head + e.body /\ e.decoded \in BOOLEAN
    BY <1>1 DEF Cur, Handles
  <2>3. e.decoded => e.head = 2 /\ e.method = "request" /\ e.crc = 1
    BY <1>1 DEF HandleInv, HeadParts
  <2>4. e.decoded => (R - Cur(c)) % 3 = 0
    BY <1>1 DEF DoneInv, ReqParts, In
  <2>5. ~e.decoded => e.body = 0 /\ e.head < 2
    BY <1>1 DEF HandleInv, HeadParts
  <2> QED
    BY <2>1, <2>2, <2>3, <2>4, <2>5
<1>3. /\ Received(c).failed = (whole /\ ~aligned) /\ Received(c).read = h + b
      /\ Received(c).handle = f
  BY DEF Received
<1>4. (whole <=> e.head < 2 /\ e.head + h = 2) /\ (aligned <=> (R + h) % 3 = 2)
  BY DEF HeadParts, ReqParts
<1>5. h = MinOf(n, 2 - e.head)
  BY DEF HeadParts
<1> HIDE DEF e, n, R
<1>6. more = [e EXCEPT !.head = e.head + h]
  BY DEF more
<1>7. /\ h \in Int /\ 0 <= h /\ h <= n /\ h <= 2 - e.head
      /\ h = n \/ h = 2 - e.head
  BY <1>1, <1>2, <1>5 DEF MinOf
<1> HIDE DEF h, whole, aligned
<1>8. /\ more \in Handles /\ more.head = e.head + h /\ more.decoded = e.decoded /\ more.body = e.body
      /\ more.crc = e.crc /\ more.method = e.method
      /\ more.st = e.st /\ more.tag = e.tag /\ more.sent = e.sent /\ more.mem = e.mem
  BY <1>1, <1>2, <1>6, <1>7 DEF Handles
<1> HIDE DEF more
<1>9. /\ d \in Handles /\ d.head = e.head + h
      /\ d.st = e.st /\ d.tag = e.tag /\ d.sent = e.sent /\ d.mem = e.mem
      /\ IF whole /\ aligned THEN d.decoded = TRUE /\ d.body = 0 /\ d.crc = 1 /\ d.method = "request"
         ELSE d.decoded = e.decoded /\ d.body = e.body /\ d.crc = e.crc /\ d.method = e.method
  <2>1. CASE whole /\ aligned
    <3>1. DecodeHead(more) \in Handles
      BY <1>8, DecodeHeadType DEF Same
    <3> QED
      BY <1>8, <2>1, <3>1, DecodeFields
  <2>2. CASE ~(whole /\ aligned)
    BY <1>8, <2>2
  <2> QED
    BY <2>1, <2>2
<1> HIDE DEF d
<1>10. BodySize(d) = IF d.decoded THEN 1 ELSE 0
  BY DEF BodySize, ReqParts, HeadParts
<1>11. d.body \in {0, 1} /\ (d.decoded \/ d.body = 0) /\ d.decoded \in BOOLEAN
  BY <1>2, <1>9
<1>12. /\ b \in Int /\ 0 <= b /\ b <= n - h
       /\ d.body + b \in {0, 1} /\ (d.decoded \/ b = 0)
  BY <1>1, <1>7, <1>10, <1>11 DEF MinOf
<1> HIDE DEF b
<1>13. /\ f.head = d.head /\ f.decoded = d.decoded /\ f.body = d.body + b /\ f.crc = d.crc /\ f.method = d.method
       /\ f.st = d.st /\ f.tag = d.tag /\ f.sent = d.sent /\ f.mem = d.mem
  BY <1>9 DEF Handles
<1> HIDE DEF f
<1>14. h + b \in 0 .. n
  BY <1>1, <1>7, <1>12
<1>15. ASSUME ~(whole /\ ~aligned)
       PROVE  /\ f.head + f.body = Cur(c) + (h + b)
              /\ Gathered(e, f, R - Cur(c))
  <2>1. CASE e.decoded
    <3>1. e.head = 2 /\ e.body \in {0, 1} /\ Cur(c) = e.head + e.body /\ (R - Cur(c)) % 3 = 0
          /\ e.method = "request" /\ e.crc = 1
      BY <1>2, <2>1
    <3>2. ~whole /\ h = 0
      <4>1. ~(e.head < 2)
        BY <3>1
      <4>2. h = 0
        BY <1>7, <3>1
      <4> QED
        BY <1>4, <4>1, <4>2
    <3>3. f.head = 2 /\ f.body = e.body + b /\ f.body \in {0, 1}
      BY <1>9, <1>12, <1>13, <3>1, <3>2
    <3>4. f.decoded = TRUE /\ f.method = "request" /\ f.crc = 1
          /\ f.st = e.st /\ f.tag = e.tag /\ f.sent = e.sent /\ f.mem = e.mem
      BY <1>9, <1>11, <1>13, <2>1, <3>1, <3>2
    <3>5. Gathered(e, f, R - Cur(c))
      BY <3>1, <3>3, <3>4 DEF Gathered
    <3>6. f.head + f.body = Cur(c) + (h + b)
      BY <1>12, <3>1, <3>2, <3>3
    <3> QED
      BY <3>5, <3>6
  <2>2. CASE ~e.decoded /\ whole /\ aligned
    <3>1. e.head + h = 2 /\ (R + h) % 3 = 2 /\ e.body = 0 /\ e.head # 2
      BY <1>2, <1>4, <2>2
    <3>2. R - e.head = (R + h) - 2
      BY <1>1, <1>2, <1>7, <3>1
    <3>3. (R - Cur(c)) % 3 = 0
      <4>1. \A x \in Int : x % 3 = 2 => (x - 2) % 3 = 0
        OBVIOUS
      <4>2. R + h \in Int
        BY <1>1, <1>7
      <4>3. R - Cur(c) = (R + h) - 2
        <5>1. Cur(c) = e.head
          BY <1>2, <3>1
        <5> QED
          BY <3>2, <5>1
      <4>4. ((R + h) - 2) % 3 = 0
        <5>1. PICK x \in Int : x = R + h
          BY <4>2
        <5>2. x % 3 = 2
          BY <3>1, <5>1
        <5>3. (x - 2) % 3 = 0
          BY <4>1, <5>2
        <5> QED
          BY <5>1, <5>3
      <4> QED
        BY <4>3, <4>4, Zenon
    <3>4. f.head = 2 /\ f.body = b /\ f.body \in {0, 1}
      BY <1>9, <1>12, <1>13, <2>2, <3>1
    <3> QED
      BY <1>2, <1>7, <1>9, <1>12, <1>13, <2>2, <3>1, <3>3, <3>4 DEF Gathered
  <2>3. CASE ~e.decoded /\ ~whole
    <3>1. e.body = 0 /\ e.head \in {0, 1} /\ e.head + h # 2
      <4>1. e.body = 0 /\ e.head \in {0, 1}
        BY <1>2, <2>3
      <4>2. e.head < 2
        BY <4>1
      <4> QED
        BY <1>4, <2>3, <4>1, <4>2
    <3>2. h = n /\ e.head = 0 /\ h = 1
      BY <1>1, <1>7, <3>1
    <3>3. b = 0 /\ f.head = 1 /\ f.body = 0
      BY <1>9, <1>12, <1>13, <2>3, <3>1, <3>2
    <3> QED
      BY <1>2, <1>9, <1>13, <2>3, <3>1, <3>2, <3>3 DEF Gathered
  <2> QED
    BY <1>15, <2>1, <2>2, <2>3
<1> QED
  BY <1>3, <1>14, <1>15 DEF e, n, R

\* Parts of a request, up to all of them, are in the handle.
LEMMA GatheredConn ==
    ASSUME IInv, AInv, NEW c \in Conns, c \in connMap, ev[c].st = "recv", sock[c].read < sock[c].avail,
           UNCHANGED <<cli, done, connMap>>,
           NEW k \in Int, k \in 0 .. sock[c].avail - sock[c].read,
           sock' = [sock EXCEPT ![c].read = @ + k],
           NEW f, Gathered(ev[c], f, sock[c].read - Cur(c)), f.head + f.body = Cur(c) + k,
           ev'[c].st \in {"recv", "exec"}, ev'[c].head = f.head, ev'[c].decoded = f.decoded,
           ev'[c].body = f.body, ev'[c].crc = f.crc, ev'[c].method = f.method, ev'[c].tag = f.tag,
           ev'[c].sent = f.sent, ev'[c].mem = f.mem,
           ev'[c].st = "exec" => (IF f.decoded THEN f.body = 1 ELSE f.crc = 0)
    PROVE  Conn(c)'
<1>1. /\ FieldTypes(ev[c], sock[c], cli[c], done[c]) /\ Numbers(c)
      /\ SockInv(c) /\ HandleInv(c) /\ DoneInv(c) /\ AnswerInv(c) /\ ev[c].mem = "live"
  BY ConnTypes, ConnNumbers, HandleFacts DEF AInv, Conn
<1>2. cli'[c] = cli[c] /\ done'[c] = done[c] /\ In(c) /\ Mistaken(c)' = Mistaken(c)
  BY DEF In, Mistaken
<1>3. /\ sock'[c].sent = sock[c].sent /\ sock'[c].avail = sock[c].avail /\ sock'[c].read = sock[c].read + k
      /\ sock'[c].eof = sock[c].eof /\ sock'[c].out = sock[c].out
  BY DEF IInv, Types, Sockets
<1>4. /\ Cur(c)' = Cur(c) + k /\ Cur(c) \in Int /\ Nothing(c)' = Nothing(c) /\ Parts(c)' = Parts(c)
  BY <1>1, <1>2, <1>3 DEF Cur, Nothing, Parts, Numbers
<1>5. /\ sock'[c].read \in Int /\ sock'[c].read >= sock[c].read /\ sock'[c].read <= sock[c].avail
      /\ sock'[c].read - Cur(c)' = sock[c].read - Cur(c)
  <2>1. Cur(c) \in Int /\ sock[c].read \in Int /\ sock[c].avail \in Int
    BY <1>1 DEF Numbers
  <2>2. k >= 0 /\ k <= sock[c].avail - sock[c].read
    BY <2>1
  <2> QED
    BY <1>3, <1>4, <2>1, <2>2
<1>6. SockInv(c)'
  <2>1. ev'[c].mem = ev[c].mem
    BY DEF Gathered
  <2>2. 0 <= sock'[c].read
    <3>1. 0 <= sock[c].read /\ sock[c].read \in Int
      BY <1>1 DEF SockInv, Numbers
    <3> QED
      BY <1>5, <3>1
  <2> QED
    BY <1>1, <1>2, <1>3, <1>5, <2>1, <2>2 DEF SockInv
<1>7. HandleInv(c)'
  <2>1. /\ ev'[c].head \in 0 .. HeadParts /\ ev'[c].body \in 0 .. 1 /\ ev'[c].crc \in 0 .. 1
        /\ ev'[c].decoded => ev'[c].head = HeadParts /\ ev'[c].method = "request"
        /\ ~ev'[c].decoded => ev'[c].body = 0 /\ ev'[c].head < HeadParts
        /\ ev'[c].method = "request" <=> ev'[c].crc = 1
    BY <1>1 DEF Gathered, HandleInv, HeadParts
  <2>2. ev'[c].sent \in 0 .. RepParts /\ ev'[c].tag \in 0 .. cli'[c].req
    BY <1>1, <1>2 DEF Gathered, HandleInv
  <2>3. ev'[c].st = "exec" => (IF ev'[c].decoded THEN ev'[c].body = 1 ELSE ev'[c].method = "none")
    <3>1. f.method \in Methods
      BY <1>1 DEF Gathered, FieldTypes, Methods
    <3> QED
      BY <2>1, <3>1 DEF Methods
  <2> QED
    BY <2>1, <2>2, <2>3 DEF HandleInv
<1>8. DoneInv(c)'
  <2>1. Cur(c)' <= sock'[c].read
    BY <1>1, <1>3, <1>4 DEF DoneInv, Numbers
  <2>2. ev'[c].decoded => (sock'[c].read - Cur(c)') % ReqParts = 0
    BY <1>5 DEF Gathered, ReqParts
  <2>3. ev'[c].method = "none" => \A i \in 1 .. Len(done'[c]) : done'[c][i] = 0
    BY <1>1, <1>2 DEF Gathered, DoneInv
  <2>4. \A i \in 1 .. Len(done'[c]) :
           /\ ReqParts * done'[c][i] <= sock'[c].read
           /\ ReqParts * done'[c][i] <= sock'[c].read - Cur(c)'
    <3> TAKE i \in 1 .. Len(done'[c])
    <3>1. done'[c][i] = done[c][i] /\ i \in 1 .. Len(done[c]) /\ done[c][i] \in Nat
      BY <1>1, <1>2 DEF FieldTypes
    <3>2. ReqParts * done[c][i] \in Int
      BY <3>1, PartsType
    <3>3. ReqParts * done[c][i] <= sock[c].read /\ ReqParts * done[c][i] <= sock[c].read - Cur(c)
      BY <1>1, <1>2, <3>1 DEF DoneInv
    <3>4. sock[c].read \in Int
      BY <1>1 DEF Numbers
    <3> QED
      BY <1>5, <3>1, <3>2, <3>3, <3>4
  <2>5. \A i \in 1 .. Len(done'[c]) : \A j \in 1 .. i - 1 : done'[c][j] = 0 \/ done'[c][j] < done'[c][i]
    BY <1>1, <1>2 DEF DoneInv
  <2> QED
    BY <2>1, <2>2, <2>3, <2>4, <2>5 DEF DoneInv
<1>9. AnswerInv(c)'
  <2> SUFFICES ASSUME ~Mistaken(c) PROVE AnswerInv(c)'
    BY <1>2 DEF AnswerInv
  <2>1. cli[c].pc # "new"
    BY <1>1 DEF SockInv
  <2>2. sock[c].read # ReqParts * cli[c].req
    <3>1. sock[c].avail <= ReqParts * cli[c].req
      BY <1>1 DEF SockInv
    <3>2. ReqParts * cli[c].req \in Int /\ sock[c].read \in Int /\ sock[c].avail \in Int
      BY <1>1 DEF Numbers, ReqParts
    <3> QED
      BY <3>1, <3>2
  <2>3. cli[c].pc # "idle"
    BY <1>1, <1>2, <2>2 DEF AnswerInv
  <2>4. cli[c].pc = "wait" =>
           /\ sock[c].read - Cur(c) = ReqParts * (cli[c].req - 1) /\ Nothing(c)
           /\ \A i \in 1 .. Len(sock[c].out) : sock[c].out[i] = cli[c].req
           /\ \A i \in 1 .. Len(cli[c].got) : cli[c].got[i] = cli[c].req
    BY <1>1, <1>2, <2>2 DEF AnswerInv
  <2> QED
    BY <1>2, <1>3, <1>4, <1>5, <2>1, <2>3, <2>4 DEF AnswerInv
<1> QED
  BY <1>6, <1>7, <1>8, <1>9 DEF Conn

LEMMA RecvDataConn ==
    ASSUME IInv, AInv, NEW c \in Conns, RecvData(c)
    PROVE  AInv'
<1> DEFINE r == Received(c)
           f == r.handle
<1>1. /\ epoll.c = c /\ "in" \in epoll.mask /\ ev[c].st = "recv" /\ EpollStep
      /\ sock' = [sock EXCEPT ![c].read = @ + r.read]
      /\ IF r.failed \/ (Complete(f) /\ ~CrcOk(f))
         THEN RemoveEvent(c)
         ELSE /\ UNCHANGED connMap
              /\ IF Complete(f) THEN ev' = [ev EXCEPT ![c] = AddRef([f EXCEPT !.st = "exec"])]
                 ELSE ev' = [ev EXCEPT ![c] = f]
  BY DEF RecvData
<1>2. epoll.pc = "handle" /\ epoll'.pc = "wait" /\ UNCHANGED <<cli, done>>
  BY <1>1 DEF EpollStep, Handled
<1>3. c \in connMap /\ sock[c].read < sock[c].avail
  BY <1>1, <1>2 DEF IInv, Attached, AInv, EventInv
<1>4. /\ r.read \in 0 .. sock[c].avail - sock[c].read
      /\ ~r.failed => /\ f.head + f.body = Cur(c) + r.read
                      /\ Gathered(ev[c], f, sock[c].read - Cur(c))
  BY <1>1, <1>3, ReceivedFields
<1>5. f \in Handles /\ ev \in [Conns -> Handles] /\ sock \in [Conns -> Sockets] /\ Numbers(c)
  BY ReceivedType, ConnNumbers DEF IInv, Same, Types
<1> HIDE DEF r, f
<1>6. r.read \in Int /\ sock[c].read + r.read \in sock[c].read .. sock[c].avail
  <2>1. sock[c].read \in Int /\ sock[c].avail \in Int
    BY <1>5 DEF Numbers
  <2> QED
    BY <1>4, <2>1
<1>7. /\ sock'[c].sent = sock[c].sent /\ sock'[c].avail = sock[c].avail
      /\ sock'[c].out = sock[c].out /\ sock'[c].eof = sock[c].eof
      /\ sock'[c].read = sock[c].read + r.read
      /\ \A d \in Conns : d # c => sock'[d] = sock[d]
  BY <1>1, <1>5 DEF Sockets
<1>8. CASE RemoveEvent(c)
  BY <1>1, <1>6, <1>7, <1>8, RemoveConn
<1>9. CASE ~RemoveEvent(c)
  <2>1. ~r.failed /\ (Complete(f) => CrcOk(f)) /\ connMap' = connMap
    BY <1>1, <1>9
  <2>2. /\ Gathered(ev[c], f, sock[c].read - Cur(c)) /\ f.head + f.body = Cur(c) + r.read
    BY <1>4, <2>1
  <2>3. /\ ev'[c].st \in {"recv", "exec"} /\ ev'[c].head = f.head /\ ev'[c].decoded = f.decoded
        /\ ev'[c].body = f.body /\ ev'[c].crc = f.crc /\ ev'[c].method = f.method /\ ev'[c].tag = f.tag
        /\ ev'[c].sent = f.sent /\ ev'[c].mem = f.mem
        /\ ev'[c].st = "exec" => Complete(f)
        /\ \A d \in Conns : d # c => ev'[d] = ev[d]
    <3>1. CASE Complete(f)
      <4>1. ev' = [ev EXCEPT ![c] = AddRef([f EXCEPT !.st = "exec"])]
        BY <1>1, <1>9, <3>1
      <4> QED
        BY <1>5, <3>1, <4>1 DEF AddRef, Handles
    <3>2. CASE ~Complete(f)
      <4>1. ev' = [ev EXCEPT ![c] = f]
        BY <1>1, <1>9, <3>2
      <4>2. f.st = "recv"
        BY <1>1, <2>2 DEF Gathered
      <4> QED
        BY <1>5, <4>1, <4>2
    <3> QED
      BY <3>1, <3>2
  <2>4. ev'[c].st = "exec" => (IF f.decoded THEN f.body = 1 ELSE f.crc = 0)
    BY <2>1, <2>3 DEF Complete, CrcOk, BodySize, ReqParts, HeadParts
  <2>5. Conn(c)'
    BY <1>1, <1>2, <1>3, <1>4, <1>6, <2>1, <2>2, <2>3, <2>4, GatheredConn
  <2> QED
    <3>1. EventInv' /\ done' \in [Conns -> Seq(Nat)]
      BY <1>2 DEF EventInv, AInv
    <3> QED
      BY <1>2, <1>7, <2>1, <2>3, <2>5, <3>1, OneConn
<1> QED
  BY <1>8, <1>9

LEMMA SendDataConn ==
    ASSUME IInv, AInv, NEW c \in Conns, SendData(c)
    PROVE  AInv'
<1>1. epoll.c = c /\ EpollStep /\ epoll.pc = "handle" /\ epoll'.pc = "wait" /\ UNCHANGED <<cli, done>>
  BY DEF SendData, EpollStep, Handled
<1>2. c \in connMap /\ ev[c].mem = "live" /\ ev[c] \in Handles /\ ev \in [Conns -> Handles]
  BY <1>1, HandleFacts DEF IInv, Attached, Types
<1>3. EventInv' /\ done' \in [Conns -> Seq(Nat)]
  BY <1>1 DEF EventInv, AInv
<1>4. CASE UNCHANGED <<ev, connMap, sock>>
  BY <1>1, <1>3, <1>4, SameConn
<1>5. CASE /\ ev[c].st = "send" /\ ev[c].sent < RepParts /\ Wrote(c)
           /\ ev' = [ev EXCEPT ![c] = Sent(@)] /\ UNCHANGED connMap
  <2> DEFINE e == Sent(ev[c])
  <2>1. ev[c].sent \in Int
    BY <1>2 DEF Handles
  <2>2. \/ e = [ev[c] EXCEPT !.sent = @ + 1]
        \/ e = Ready(ev[c], "recv") /\ ev[c].sent + 1 = RepParts /\ c \in connMap
    BY <1>2, <1>5, <2>1 DEF Sent, RepParts
  <2>3. ev' = [ev EXCEPT ![c] = e]
    BY <1>5
  <2> HIDE DEF e
  <2>4. Conn(c)'
    BY <1>1, <1>2, <1>5, <2>2, <2>3, WroteConn
  <2>5. \A d \in Conns : d # c => ev'[d] = ev[d] /\ sock'[d] = sock[d]
    BY <1>2, <1>5 DEF Wrote, IInv, Types
  <2> QED
    BY <1>1, <1>3, <1>5, <2>4, <2>5, OneConn
<1>6. CASE ev[c].st = "send" /\ RemoveEvent(c) /\ UNCHANGED sock
  <2>1. sock[c].read \in sock[c].read .. sock[c].avail
    <3>1. Numbers(c) /\ SockInv(c)
      BY ConnNumbers DEF AInv, Conn
    <3>2. sock[c].read \in Int /\ sock[c].avail \in Int /\ sock[c].read <= sock[c].avail
      BY <3>1 DEF Numbers, SockInv
    <3> QED
      BY <3>2
  <2> QED
    BY <1>1, <1>6, <2>1, RemoveConn
<1> QED
  BY <1>4, <1>5, <1>6 DEF SendData

\* HangUp and RecvRefused.
LEMMA HangUpConn ==
    ASSUME IInv, AInv, NEW c \in Conns, HangUp(c) \/ RecvRefused(c)
    PROVE  AInv'
<1>1. epoll.c = c /\ EpollStep /\ RemoveEvent(c) /\ sock' = sock
  BY DEF HangUp, RecvRefused
<1>2. sock[c].read \in sock[c].read .. sock[c].avail
  <2>1. Numbers(c) /\ SockInv(c)
    BY ConnNumbers DEF AInv, Conn
  <2>2. sock[c].read \in Int /\ sock[c].avail \in Int /\ sock[c].read <= sock[c].avail
    BY <2>1 DEF Numbers, SockInv
  <2> QED
    BY <2>2
<1> QED
  BY <1>1, <1>2, RemoveConn

LEMMA ExecutedFields ==
    ASSUME NEW c \in Conns, ev[c] \in Handles, NEW role
    PROVE  LET e == Executed(c, role) IN
           /\ e.st = "send" /\ e.head = 0 /\ e.decoded = FALSE /\ e.body = 0 /\ e.crc = ev[c].crc
           /\ e.method = ev[c].method /\ e.sent = 0 /\ e.mem = ev[c].mem
           /\ e.tag = IF ev[c].method = "request" THEN sock[c].read \div ReqParts ELSE 0
<1> DEFINE e == Ready(ev[c], "send")
<1>1. /\ e.st = "send" /\ e.head = 0 /\ e.decoded = FALSE /\ e.body = 0 /\ e.crc = ev[c].crc
      /\ e.method = ev[c].method /\ e.sent = 0 /\ e.mem = ev[c].mem /\ e \in Handles
  BY ReadyFields, ReadyType DEF Stages
<1> HIDE DEF e
<1> QED
  BY <1>1 DEF Executed, Handles, e

LEMMA ExecTaskConn ==
    ASSUME IInv, AInv, NEW w \in Workers, ExecTask(w)
    PROVE  AInv'
<1>1. worker[w].pc = "got" /\ UNCHANGED sock
  BY DEF ExecTask
<1>2. PICK c \in Conns : c = worker[w].c /\ ev[c].st = "exec" /\ ev[c].mem = "live"
  BY <1>1, WorkerConn
<1> DEFINE v == IF ev[c].method = "none" THEN 0 ELSE sock[c].read \div ReqParts
<1>3. /\ \E role \in ExecLogin(c) : ev' = [ev EXCEPT ![c] = Executed(c, role)]
      /\ done' = [done EXCEPT ![c] = Append(@, v)]
      /\ WorkerStep(w, "write", c)
  BY <1>2 DEF ExecTask
<1>4. PICK role : ev' = [ev EXCEPT ![c] = Executed(c, role)]
  BY <1>3
<1>5. UNCHANGED <<epoll, connMap, cli>> /\ EventInv'
  BY <1>1, <1>3 DEF WorkerStep, AInv, EventInv
<1>6. /\ FieldTypes(ev[c], sock[c], cli[c], done[c]) /\ Numbers(c)
      /\ SockInv(c) /\ HandleInv(c) /\ DoneInv(c) /\ AnswerInv(c)
      /\ ev \in [Conns -> Handles] /\ ev[c] \in Handles /\ done \in [Conns -> Seq(Nat)] /\ done[c] \in Seq(Nat)
  BY ConnTypes, ConnNumbers, HandleFacts DEF AInv, Conn, IInv, Types
<1>7. /\ ev'[c].st = "send" /\ ev'[c].head = 0 /\ ev'[c].decoded = FALSE /\ ev'[c].body = 0
      /\ ev'[c].crc = ev[c].crc /\ ev'[c].method = ev[c].method /\ ev'[c].sent = 0 /\ ev'[c].mem = "live"
      /\ ev'[c].tag = IF ev[c].method = "request" THEN sock[c].read \div ReqParts ELSE 0
      /\ \A d \in Conns : d # c => ev'[d] = ev[d]
  <2> DEFINE e == Executed(c, role)
  <2>1. /\ e.st = "send" /\ e.head = 0 /\ e.decoded = FALSE /\ e.body = 0 /\ e.crc = ev[c].crc
        /\ e.method = ev[c].method /\ e.sent = 0 /\ e.mem = ev[c].mem
        /\ e.tag = IF ev[c].method = "request" THEN sock[c].read \div ReqParts ELSE 0
    BY <1>6, ExecutedFields
  <2>2. ev' = [ev EXCEPT ![c] = e]
    BY <1>4
  <2> HIDE DEF e
  <2>3. ev'[c] = e /\ \A d \in Conns : d # c => ev'[d] = ev[d]
    BY <1>6, <2>2
  <2> QED
    BY <1>2, <2>1, <2>3
<1>8. PICK q \in Int : q = sock[c].read \div ReqParts /\ 3 * q <= sock[c].read /\ sock[c].read <= 3 * q + 2 /\ q >= 0
  <2>1. sock[c].read \in Int /\ sock[c].read >= 0
    BY <1>6 DEF Numbers, SockInv
  <2>2. \A x \in Int : x >= 0 => /\ x \div 3 \in Int /\ 3 * (x \div 3) <= x /\ x <= 3 * (x \div 3) + 2 /\ x \div 3 >= 0
    OBVIOUS
  <2> QED
    BY <2>1, <2>2 DEF ReqParts
<1>9. v = (IF ev[c].method = "none" THEN 0 ELSE q) /\ v \in Nat
  BY <1>8
<1> HIDE DEF v
<1>10. In(c) /\ In(c)' /\ Cur(c)' = 0
  BY <1>2, <1>7 DEF In, Cur
<1>11. q <= cli[c].req
  <2>1. sock[c].read <= 3 * cli[c].req /\ cli[c].req \in Int /\ sock[c].read \in Int
    <3>1. /\ sock[c].read <= sock[c].avail /\ sock[c].avail <= sock[c].sent /\ sock[c].sent = 3 * cli[c].req
          /\ cli[c].req \in Int /\ sock[c].read \in Int /\ sock[c].avail \in Int
      BY <1>6 DEF SockInv, Numbers, ReqParts
    <3> QED
      BY <3>1
  <2> QED
    BY <1>8, <2>1
\* A request that was understood has all its parts.
<1>12. ev[c].method # "none" =>
         ev[c].decoded /\ Cur(c) = 3 /\ (sock[c].read - 3) % 3 = 0 /\ sock[c].read = 3 * q
  <2> SUFFICES ASSUME ev[c].method # "none"
               PROVE  ev[c].decoded /\ Cur(c) = 3 /\ (sock[c].read - 3) % 3 = 0 /\ sock[c].read = 3 * q
    OBVIOUS
  <2>1. ev[c].decoded /\ ev[c].body = 1 /\ ev[c].head = 2
    BY <1>2, <1>6 DEF HandleInv, HeadParts
  <2>2. Cur(c) = 3
    BY <2>1 DEF Cur
  <2>3. (sock[c].read - 3) % 3 = 0
    BY <1>6, <1>10, <2>1, <2>2 DEF DoneInv, ReqParts
  <2>4. \A x \in Int : (x - 3) % 3 = 0 /\ 3 * q <= x /\ x <= 3 * q + 2 => x = 3 * q
    OBVIOUS
  <2>5. sock[c].read = 3 * q
    BY <1>6, <1>8, <2>3, <2>4 DEF Numbers
  <2> QED
    BY <2>1, <2>2, <2>3, <2>5
<1>13. /\ done'[c] = Append(done[c], v) /\ \A d \in Conns : d # c => done'[d] = done[d]
       /\ done' \in [Conns -> Seq(Nat)]
  BY <1>3, <1>6, <1>9
<1>14. /\ Len(done'[c]) = Len(done[c]) + 1 /\ Len(done[c]) \in Nat
       /\ \A i \in 1 .. Len(done[c]) : done'[c][i] = done[c][i] /\ done[c][i] \in Nat
       /\ done'[c][Len(done[c]) + 1] = v
  BY <1>6, <1>9, <1>13
<1>15. SockInv(c)'
  BY <1>1, <1>2, <1>5, <1>6, <1>7 DEF SockInv
<1>16. HandleInv(c)'
  <2>1. ev'[c].tag \in 0 .. cli'[c].req
    <3>1. cli[c].req \in Int /\ cli[c].req >= 0
      BY <1>6 DEF SockInv, Numbers
    <3> QED
      BY <1>5, <1>7, <1>8, <1>11, <3>1
  <2>2. 0 \in 0 .. HeadParts /\ 0 \in 0 .. 1 /\ 0 < HeadParts /\ 0 \in 0 .. RepParts
    BY DEF HeadParts, RepParts
  <2> QED
    BY <1>6, <1>7, <1>10, <2>1, <2>2 DEF HandleInv
<1>17. DoneInv(c)'
  <2>1. Cur(c)' <= sock'[c].read
    BY <1>1, <1>6, <1>10 DEF SockInv
  <2>2. ev'[c].method = "none" => \A i \in 1 .. Len(done'[c]) : done'[c][i] = 0
    <3>1. ev[c].method = "none" => v = 0 /\ \A i \in 1 .. Len(done[c]) : done[c][i] = 0
      BY <1>6, <1>9 DEF DoneInv
    <3> QED
      BY <1>7, <1>14, <3>1
  <2>3. \A i \in 1 .. Len(done'[c]) : 3 * done'[c][i] <= sock[c].read
    <3> TAKE i \in 1 .. Len(done'[c])
    <3>1. CASE i \in 1 .. Len(done[c])
      BY <1>6, <1>14, <3>1 DEF DoneInv, ReqParts
    <3>2. CASE i = Len(done[c]) + 1
      <4>1. 0 <= sock[c].read /\ 3 * 0 <= 0
        BY <1>6 DEF SockInv
      <4>2. done'[c][i] = v
        BY <1>14, <3>2
      <4> QED
        BY <1>8, <1>9, <4>1, <4>2
    <3> QED
      BY <1>14, <3>1, <3>2
  <2>4. \A i \in 1 .. Len(done[c]) : done[c][i] = 0 \/ done[c][i] < v
    <3> TAKE i \in 1 .. Len(done[c])
    <3>1. CASE ev[c].method = "none"
      BY <1>6, <3>1 DEF DoneInv
    <3>2. CASE ev[c].method # "none"
      <4>1. 3 * done[c][i] <= sock[c].read - Cur(c) /\ done[c][i] \in Nat
        BY <1>6, <1>10, <1>14 DEF DoneInv, ReqParts
      <4>2. Cur(c) = 3 /\ sock[c].read = 3 * q /\ v = q
        BY <1>9, <1>12, <3>2
      <4> QED
        BY <4>1, <4>2
    <3> QED
      BY <3>1, <3>2
  <2>5. \A i \in 1 .. Len(done'[c]) : \A j \in 1 .. i - 1 : done'[c][j] = 0 \/ done'[c][j] < done'[c][i]
    <3> SUFFICES ASSUME NEW i \in 1 .. Len(done'[c]), NEW j \in 1 .. i - 1
                 PROVE  done'[c][j] = 0 \/ done'[c][j] < done'[c][i]
      OBVIOUS
    <3>1. j \in 1 .. Len(done[c]) /\ (i \in 1 .. Len(done[c]) \/ i = Len(done[c]) + 1)
      BY <1>14
    <3>2. CASE i \in 1 .. Len(done[c])
      BY <1>6, <1>14, <3>1, <3>2 DEF DoneInv
    <3>3. CASE i = Len(done[c]) + 1
      BY <1>14, <2>4, <3>1, <3>3
    <3> QED
      BY <3>1, <3>2, <3>3
  <2>6. \A i \in 1 .. Len(done'[c]) :
           /\ ReqParts * done'[c][i] <= sock'[c].read
           /\ ReqParts * done'[c][i] <= sock'[c].read - Cur(c)'
    <3>1. sock'[c].read - Cur(c)' = sock[c].read
      BY <1>1, <1>6, <1>10 DEF Numbers
    <3> QED
      BY <1>1, <2>3, <3>1 DEF ReqParts
  <2> QED
    BY <1>7, <2>1, <2>2, <2>5, <2>6 DEF DoneInv
<1>18. AnswerInv(c)'
  <2> SUFFICES ASSUME ~Mistaken(c)' PROVE AnswerInv(c)'
    BY DEF AnswerInv
  <2>1. v # 0 /\ ~Mistaken(c)
    <3>1. Len(done[c]) + 1 \in 1 .. Len(done'[c]) /\ \A i \in 1 .. Len(done[c]) : i \in 1 .. Len(done'[c])
      BY <1>14
    <3> QED
      BY <1>14, <3>1 DEF Mistaken
  <2>2. ev[c].method = "request" /\ v = q /\ Cur(c) = 3 /\ sock[c].read = 3 * q
    BY <1>6, <1>9, <1>12, <2>1 DEF FieldTypes, Methods
  <2>3. cli[c].pc # "new" /\ cli[c].pc # "idle"
    BY <1>2, <1>6, <1>10, <2>1 DEF AnswerInv, SockInv
  <2>4. cli[c].pc = "wait" =>
           /\ Nothing(c) /\ q = cli[c].req
           /\ \A i \in 1 .. Len(sock[c].out) : sock[c].out[i] = cli[c].req
           /\ \A i \in 1 .. Len(cli[c].got) : cli[c].got[i] = cli[c].req
    <3> SUFFICES ASSUME cli[c].pc = "wait"
                 PROVE  /\ Nothing(c) /\ q = cli[c].req
                        /\ \A i \in 1 .. Len(sock[c].out) : sock[c].out[i] = cli[c].req
                        /\ \A i \in 1 .. Len(cli[c].got) : cli[c].got[i] = cli[c].req
      OBVIOUS
    <3>1. /\ sock[c].read - Cur(c) = 3 * (cli[c].req - 1) /\ Nothing(c)
          /\ \A i \in 1 .. Len(sock[c].out) : sock[c].out[i] = cli[c].req
          /\ \A i \in 1 .. Len(cli[c].got) : cli[c].got[i] = cli[c].req
      BY <1>2, <1>6, <1>10, <2>1 DEF AnswerInv, ReqParts
    <3>2. cli[c].req \in Int
      BY <1>6 DEF Numbers
    <3>3. q = cli[c].req
      BY <2>2, <3>1, <3>2
    <3> QED
      BY <3>1, <3>3
  <2>5. Nothing(c) => Parts(c)' = 0
    <3>1. Len(<<>>) = 0
      OBVIOUS
    <3> QED
      BY <1>1, <1>5, <3>1 DEF Nothing, Parts
  <2> QED
    BY <1>1, <1>5, <1>7, <1>8, <1>10, <2>2, <2>3, <2>4, <2>5 DEF AnswerInv, ReqParts
<1>19. Conn(c)'
  BY <1>15, <1>16, <1>17, <1>18 DEF Conn
<1> QED
  BY <1>1, <1>5, <1>7, <1>13, <1>19, OneConn

LEMMA WritePartConn ==
    ASSUME IInv, AInv, NEW w \in Workers, WritePart(w)
    PROVE  AInv'
<1>1. worker[w].pc = "write" /\ UNCHANGED done
  BY DEF WritePart
<1>2. PICK c \in Conns : c = worker[w].c /\ ev[c].st = "send" /\ ev[c].mem = "live"
  BY <1>1, WorkerConn
<1>3. UNCHANGED <<epoll, connMap, cli>> /\ done' \in [Conns -> Seq(Nat)]
  BY <1>1 DEF WritePart, WorkerStep, AInv
<1>4. /\ FieldTypes(ev[c], sock[c], cli[c], done[c]) /\ Numbers(c)
      /\ SockInv(c) /\ HandleInv(c) /\ DoneInv(c) /\ AnswerInv(c)
      /\ ev \in [Conns -> Handles] /\ ev[c] \in Handles /\ sock \in [Conns -> Sockets]
  BY ConnTypes, ConnNumbers, HandleFacts DEF AInv, Conn, IInv, Types
<1>5. ASSUME \A d \in Conns : sock'[d].read = sock[d].read /\ sock'[d].avail = sock[d].avail
      PROVE  EventInv'
  <2>1. epoll.pc = "handle" => epoll.c \in Conns
    BY DEF IInv, Attached, Types
  <2> QED
    BY <1>3, <1>5, <2>1 DEF AInv, EventInv
<1>6. CASE ev[c].sent < RepParts /\ Wrote(c) /\ ev' = [ev EXCEPT ![c].sent = @ + 1]
  <2> DEFINE e == [ev[c] EXCEPT !.sent = @ + 1]
  <2>1. ev' = [ev EXCEPT ![c] = e]
    BY <1>6
  <2>2. e = [ev[c] EXCEPT !.sent = @ + 1]
    OBVIOUS
  <2> HIDE DEF e
  <2>3. Conn(c)'
    BY <1>1, <1>2, <1>3, <1>6, <2>1, <2>2, WroteConn
  <2>4. /\ \A d \in Conns : d # c => ev'[d] = ev[d] /\ sock'[d] = sock[d]
        /\ \A d \in Conns : sock'[d].read = sock[d].read /\ sock'[d].avail = sock[d].avail
    BY <1>4, <1>6, <2>1 DEF Wrote, Sockets
  <2> QED
    BY <1>1, <1>3, <1>5, <2>3, <2>4, OneConn
<1>7. CASE sock' = [sock EXCEPT ![c].nospace = TRUE] /\ UNCHANGED ev
  <2>1. /\ sock'[c].sent = sock[c].sent /\ sock'[c].avail = sock[c].avail
        /\ sock'[c].out = sock[c].out /\ sock'[c].eof = sock[c].eof /\ sock'[c].read = sock[c].read
        /\ \A d \in Conns : d # c => sock'[d] = sock[d]
        /\ \A d \in Conns : sock'[d].read = sock[d].read /\ sock'[d].avail = sock[d].avail
    BY <1>4, <1>7 DEF Sockets
  <2>2. sock'[c].read \in sock[c].read .. sock[c].avail
    <3>1. sock[c].read \in Int /\ sock[c].avail \in Int /\ sock[c].read <= sock[c].avail
      BY <1>4 DEF Numbers, SockInv
    <3> QED
      BY <2>1, <3>1
  <2>3. In(c)' => In(c) /\ sock'[c].read = sock[c].read
    BY <1>3, <1>7, <2>1 DEF In
  <2>4. Conn(c)
    BY DEF AInv
  <2>5. Conn(c)'
    BY <1>1, <1>3, <1>4, <1>7, <2>1, <2>2, <2>3, <2>4, Quiet
  <2> QED
    BY <1>1, <1>3, <1>5, <1>7, <2>1, <2>5, OneConn
\* The answer is finished, or it cannot be: the state of the handle changes.
<1>8. ASSUME sock' = sock, NEW e, ev' = [ev EXCEPT ![c] = e],
             \/ e = [ev[c] EXCEPT !.st = "end"] /\ sock[c].eof
             \/ e = Ready(ev[c], "recv") /\ ev[c].sent = RepParts
      PROVE  AInv'
  <2>1. ev'[c] = e /\ \A d \in Conns : d # c => ev'[d] = ev[d]
    BY <1>4, <1>8
  <2>2. Cur(c) = 0 /\ ev[c].head = 0 /\ ev[c].body = 0 /\ ev[c].decoded = FALSE
    <3>1. Cur(c) = 0 /\ ev[c].head \in 0 .. 2 /\ ev[c].body \in 0 .. 1
      BY <1>2, <1>4 DEF HandleInv, HeadParts
    <3>2. ev[c].head = 0 /\ ev[c].body = 0
      BY <3>1 DEF Cur
    <3> QED
      BY <1>4, <3>1, <3>2 DEF HandleInv, HeadParts, FieldTypes
  <2>3. /\ ev'[c].head = 0 /\ ev'[c].decoded = FALSE /\ ev'[c].body = 0
        /\ ev'[c].crc = ev[c].crc /\ ev'[c].method = ev[c].method /\ ev'[c].tag = ev[c].tag
        /\ ev'[c].sent \in 0 .. RepParts /\ ev'[c].mem = "live"
        /\ \/ ev'[c].st = "end" /\ sock[c].eof
           \/ ev'[c].st = "recv" /\ ev[c].sent = RepParts
    <3>1. CASE e = [ev[c] EXCEPT !.st = "end"] /\ sock[c].eof
      <4>1. ev[c].sent \in 0 .. RepParts
        BY <1>4 DEF HandleInv
      <4> QED
        BY <1>2, <1>4, <2>1, <2>2, <3>1, <4>1 DEF Handles
    <3>2. CASE e = Ready(ev[c], "recv") /\ ev[c].sent = RepParts
      <4>1. 0 \in 0 .. RepParts
        BY DEF RepParts
      <4>2. /\ e.st = "recv" /\ e.head = 0 /\ e.decoded = FALSE /\ e.body = 0 /\ e.crc = ev[c].crc
            /\ e.method = ev[c].method /\ e.tag = ev[c].tag /\ e.sent = 0 /\ e.mem = ev[c].mem
        BY <1>4, <3>2, ReadyFields DEF Stages
      <4> QED
        BY <1>2, <2>1, <3>2, <4>1, <4>2
    <3> QED
      BY <1>8, <3>1, <3>2
  <2>4. /\ Cur(c)' = 0 /\ In(c) /\ Mistaken(c)' = Mistaken(c) /\ Nothing(c)' = Nothing(c) /\ Parts(c)' = Parts(c)
    BY <1>1, <1>2, <1>3, <1>8, <2>3 DEF Cur, In, Mistaken, Nothing, Parts
  <2>5. SockInv(c)'
    BY <1>2, <1>3, <1>4, <1>8, <2>3 DEF SockInv
  <2>6. HandleInv(c)'
    <3>1. 0 \in 0 .. HeadParts /\ 0 \in 0 .. 1 /\ 0 < HeadParts
      BY DEF HeadParts
    <3>2. sock[c].eof => cli[c].pc = "closed"
      BY <1>4 DEF SockInv
    <3> QED
      BY <1>3, <1>4, <2>3, <2>4, <3>1, <3>2 DEF HandleInv
  <2>7. DoneInv(c)'
    BY <1>1, <1>4, <1>8, <2>2, <2>3, <2>4 DEF DoneInv
  <2>8. AnswerInv(c)'
    <3>1. CASE sock[c].eof
      <4>1. cli[c].pc = "closed"
        BY <1>4, <3>1 DEF SockInv
      <4> QED
        BY <1>3, <4>1 DEF AnswerInv
    <3>2. CASE ~sock[c].eof
      BY <1>2, <1>3, <1>4, <1>8, <2>2, <2>3, <2>4, <3>2 DEF AnswerInv
    <3> QED
      BY <3>1, <3>2
  <2>9. Conn(c)'
    BY <2>5, <2>6, <2>7, <2>8 DEF Conn
  <2> QED
    BY <1>1, <1>3, <1>5, <1>8, <2>1, <2>9, OneConn
<1>9. CASE sock[c].eof /\ ev' = [ev EXCEPT ![c].st = "end"] /\ UNCHANGED sock
  BY <1>8, <1>9
<1>10. CASE ev[c].sent = RepParts /\ ev' = [ev EXCEPT ![c] = Ready(@, "recv")] /\ UNCHANGED sock
  BY <1>8, <1>10
<1> QED
  BY <1>2, <1>6, <1>7, <1>9, <1>10 DEF WritePart

LEMMA UnrefConn ==
    ASSUME IInv, AInv, NEW w \in Workers, Unref(w)
    PROVE  AInv'
<1>1. worker[w].pc = "unref" /\ UNCHANGED <<epoll, connMap, cli, sock, done>>
  BY DEF Unref, WorkerStep
<1>2. PICK c \in Conns : c = worker[w].c /\ ev[c].mem = "live" /\ ev[c] \in Handles
  BY <1>1, WorkerConn
<1>3. ev' = [ev EXCEPT ![c] = MinusRef(ev[c])] /\ ev \in [Conns -> Handles]
  BY <1>2 DEF Unref, IInv, Types
<1>4. ev'[c] = MinusRef(ev[c]) /\ \A d \in Conns : d # c => ev'[d] = ev[d]
  BY <1>3
<1>5. /\ ev'[c].st = ev[c].st /\ ev'[c].head = ev[c].head /\ ev'[c].decoded = ev[c].decoded
      /\ ev'[c].body = ev[c].body /\ ev'[c].crc = ev[c].crc /\ ev'[c].method = ev[c].method
      /\ ev'[c].tag = ev[c].tag /\ ev'[c].sent = ev[c].sent
      /\ ev'[c].mem = ev[c].mem \/ (ev'[c].mem = "freed" /\ ev[c].mem = "live")
  BY <1>2, <1>4, MinusRefFields
<1>6. FieldTypes(ev[c], sock[c], cli[c], done[c]) /\ Conn(c) /\ sock'[c].read \in sock[c].read .. sock[c].avail
  <2>1. Numbers(c) /\ Conn(c) /\ FieldTypes(ev[c], sock[c], cli[c], done[c])
    BY ConnNumbers, ConnTypes DEF AInv
  <2>2. sock[c].read \in Int /\ sock[c].avail \in Int /\ sock[c].read <= sock[c].avail
    BY <2>1 DEF Numbers, Conn, SockInv
  <2> QED
    BY <1>1, <2>1, <2>2
<1>7. In(c)' => In(c) /\ sock'[c].read = sock[c].read
  BY <1>1, <1>5 DEF In
<1>8. Conn(c)'
  BY <1>1, <1>5, <1>6, <1>7, Quiet
<1>9. EventInv'
  BY <1>1 DEF AInv, EventInv
<1> QED
  BY <1>1, <1>4, <1>8, <1>9, OneConn DEF AInv

LEMMA NextAInv ==
    ASSUME IInv, AInv, [Next]_vars
    PROVE  AInv'
<1>1. CASE \E c \in Conns : ClientNext(c)
  BY <1>1, RequestConn, ArriveConn, RecvConn, DisconnectConn DEF ClientNext
<1>2. CASE \E c \in Conns : Accept(c)
  BY <1>2, AcceptConn
<1>3. CASE \E c \in Conns : EpollWait(c)
  BY <1>3, EpollWaitConn
<1>4. CASE Handle
  BY <1>4, HangUpConn, RecvDataConn, SendDataConn DEF Handle
<1>5. CASE SignalHandler \/ StopEpoll \/ Joined
  <2>1. UNCHANGED <<connMap, ev, sock, cli, done>> /\ (epoll' = epoll \/ epoll'.pc \in {"join", "stopped"})
    BY <1>5 DEF SignalHandler, StopEpoll, Joined, IInv, Types, Epolls
  <2>2. EventInv'
    BY <2>1 DEF AInv, EventInv
  <2> QED
    BY <2>1, <2>2, SameConn
<1>6. ASSUME NEW w \in Workers, WorkerNext(w) PROVE AInv'
  <2>1. CASE WorkerLoop(w) \/ TakeTask(w) \/ GiveUp(w)
    <3>1. UNCHANGED <<epoll, connMap, ev, sock, cli, done>>
      BY <2>1 DEF WorkerLoop, TakeTask, GiveUp, WorkerStep
    <3>2. EventInv'
      BY <3>1 DEF AInv, EventInv
    <3> QED
      BY <3>1, <3>2, SameConn
  <2> QED
    BY <1>6, <2>1, ExecTaskConn, WritePartConn, UnrefConn DEF WorkerNext
<1>7. CASE UNCHANGED vars
  <2>1. UNCHANGED <<epoll, connMap, ev, sock, cli, done>>
    BY <1>7 DEF vars
  <2>2. EventInv'
    BY <2>1 DEF AInv, EventInv
  <2> QED
    BY <2>1, <2>2, SameConn
<1> QED
  BY <1>1, <1>2, <1>3, <1>4, <1>5, <1>6, <1>7 DEF Next

LEMMA InitAInv ==
    ASSUME Init
    PROVE  AInv
<1>1. done \in [Conns -> Seq(Nat)] /\ EventInv
  BY DEF Init, EventInv, Handled
<1>2. ASSUME NEW c \in Conns PROVE Conn(c)
  <2>1. /\ ev[c].st = "recv" /\ ev[c].head = 0 /\ ev[c].decoded = FALSE /\ ev[c].body = 0 /\ ev[c].crc = 0
        /\ ev[c].method = "none" /\ ev[c].tag = 0 /\ ev[c].sent = 0 /\ ev[c].mem = "none"
    BY <1>2 DEF Init, NoHandle, NewHandle
  <2>2. /\ sock[c].sent = 0 /\ sock[c].avail = 0 /\ sock[c].read = 0 /\ sock[c].out = <<>> /\ sock[c].eof = FALSE
        /\ cli[c].pc = "new" /\ cli[c].req = 0 /\ cli[c].got = <<>> /\ done[c] = <<>>
    BY <1>2 DEF Init, NewSock
  <2>3. MaxReq[c] \in Nat /\ 0 \in 0 .. 0 /\ Len(<<>>) = 0
    BY <1>2, SessionAssumption
  <2>4. SockInv(c)
    BY <2>1, <2>2, <2>3 DEF SockInv, ReqParts, SendBuf
  <2>5. Cur(c) = 0
    BY <2>1 DEF Cur
  <2>6. HandleInv(c)
    BY <2>1, <2>2, <2>3 DEF HandleInv, HeadParts, RepParts
  <2>7. DoneInv(c)
    BY <2>1, <2>2, <2>3, <2>5 DEF DoneInv
  <2>8. AnswerInv(c)
    BY <2>1, <2>2 DEF AnswerInv, Nothing
  <2> QED
    BY <2>4, <2>6, <2>7, <2>8 DEF Conn
<1> QED
  BY <1>1, <1>2 DEF AInv

LEMMA AInvHolds == Spec => [](IInv /\ AInv)
<1>1. Init => IInv /\ AInv
  BY InitIInv, InitAInv
<1>2. (IInv /\ AInv) /\ [Next]_vars => (IInv /\ AInv)'
  BY NextIInv, NextAInv
<1> QED
  BY <1>1, <1>2, PTL DEF Spec

\* Requests are executed in their order, each once and after it was sent, and a client that waits reads the
\* answer to the request it waits for (RecvData, ExecTask and _SendData of event_handle.cpp, Recv of
\* pdb_client.cpp), unless an unfinished header was answered before.
THEOREM AnswersMatch == Spec => []OwnAnswer
<1>1. IInv /\ AInv => OwnAnswer
  <2> SUFFICES ASSUME IInv, AInv, NEW c \in Conns
               PROVE  /\ \A i \in 1 .. Len(done[c]) :
                            /\ done[c][i] <= cli[c].req
                            /\ \A j \in 1 .. i - 1 : done[c][j] = 0 \/ done[c][j] < done[c][i]
                      /\ cli[c].pc = "wait" /\ ~Mistaken(c) =>
                           /\ \A i \in 1 .. Len(sock[c].out) : sock[c].out[i] = cli[c].req
                           /\ \A i \in 1 .. Len(cli[c].got) : cli[c].got[i] = cli[c].req
    BY DEF OwnAnswer
  <2>1. Numbers(c) /\ SockInv(c) /\ DoneInv(c) /\ AnswerInv(c) /\ FieldTypes(ev[c], sock[c], cli[c], done[c])
    BY ConnNumbers, ConnTypes DEF AInv, Conn
  <2>2. ASSUME NEW i \in 1 .. Len(done[c]) PROVE done[c][i] <= cli[c].req
    <3>1. 3 * done[c][i] <= sock[c].read /\ done[c][i] \in Nat
      BY <2>1 DEF DoneInv, ReqParts, FieldTypes
    <3>2. /\ sock[c].read <= sock[c].avail /\ sock[c].avail <= sock[c].sent /\ sock[c].sent = 3 * cli[c].req
          /\ sock[c].read \in Int /\ sock[c].avail \in Int /\ cli[c].req \in Int
      BY <2>1 DEF SockInv, Numbers, ReqParts
    <3> QED
      BY <3>1, <3>2
  <2> QED
    BY <2>1, <2>2 DEF DoneInv, AnswerInv
<1> QED
  BY <1>1, AInvHolds, PTL

-----------------------------------------------------------------------------
(* Bounds.                                                                  *)

\* A handle that is executed, or is still marked so, has one reference for it.
Marked(c) == ev[c].st = "exec" \/ Locked(c)

\* No reference is counted without a holder.
Refs(c) == ev[c].ref <= Cardinality(Leaving(c)) + One(Marked(c)) + One(c \in connMap)

BInv == running \in BOOLEAN /\ Cardinality(connMap) <= MaxConn /\ \A c \in Conns : Refs(c)

\* No worker begins or ends to write an answer or to leave.
SameUse ==
    \A w \in Workers :
       \/ worker'[w] = worker[w]
       \/ worker[w].pc \notin {"write", "unref"} /\ worker'[w].pc \notin {"write", "unref"}

LEMMA UseStays ==
    ASSUME SameUse, NEW c \in Conns
    PROVE  Leaving(c)' = Leaving(c) /\ (Locked(c)' <=> Locked(c))
<1>1. Leaving(c)' = Leaving(c)
  BY DEF SameUse, Leaving
<1>2. Locked(c)' <=> Locked(c)
  BY DEF SameUse, Locked
<1> QED
  BY <1>1, <1>2

LEMMA RefsStep ==
    ASSUME IInv, NEW c \in Conns, Refs(c), NEW n \in Nat, ev'[c].ref = n, NEW k \in Nat,
           Cardinality(Leaving(c)') = k,
           n + Cardinality(Leaving(c)) + One(Marked(c)) + One(c \in connMap)
              <= ev[c].ref + k + One(Marked(c)') + One(c \in connMap)'
    PROVE  Refs(c)'
<1>1. /\ ev[c].ref \in Nat /\ Cardinality(Leaving(c)) \in Nat
      /\ One(Marked(c)) \in Nat /\ One(c \in connMap) \in Nat
      /\ One(Marked(c)') \in Nat /\ One(c \in connMap)' \in Nat
  BY HandleFacts DEF One
<1>2. ev[c].ref <= Cardinality(Leaving(c)) + One(Marked(c)) + One(c \in connMap)
  BY DEF Refs
<1>3. n <= k + One(Marked(c)') + One(c \in connMap)'
  BY <1>1, <1>2
<1>4. One(Marked(c))' = One(Marked(c)')
  BY DEF One
<1> QED
  BY <1>3, <1>4 DEF Refs

\* A step that keeps the references and the state of c, if it is executed.
LEMMA SameRefs ==
    ASSUME IInv, SameUse, NEW c \in Conns, Refs(c), ev'[c].ref = ev[c].ref,
           ev[c].st = "exec" => ev'[c].st = "exec", c \in connMap' <=> c \in connMap
    PROVE  Refs(c)'
<1>1. Leaving(c)' = Leaving(c) /\ (Locked(c)' <=> Locked(c))
  BY UseStays
<1>2. ev[c].ref \in Nat /\ Cardinality(Leaving(c)) \in Nat
  BY HandleFacts
<1>3. Marked(c) => Marked(c)'
  BY <1>1 DEF Marked
<1>4. One(Marked(c)) <= One(Marked(c)') /\ One(c \in connMap)' = One(c \in connMap)
  BY <1>3 DEF One
<1>5. One(Marked(c)) \in Nat /\ One(Marked(c)') \in Nat /\ One(c \in connMap) \in Nat
  BY DEF One
<1>6. Cardinality(Leaving(c)') = Cardinality(Leaving(c))
  BY <1>1
<1>7. ev[c].ref + Cardinality(Leaving(c)) + One(Marked(c)) + One(c \in connMap)
         <= ev[c].ref + Cardinality(Leaving(c)) + One(Marked(c)') + One(c \in connMap)'
  BY <1>2, <1>4, <1>5
<1> QED
  BY <1>2, <1>6, <1>7, RefsStep

LEMMA SameBound ==
    ASSUME IInv, BInv, SameUse, running' \in BOOLEAN, connMap' = connMap,
           \A c \in Conns : ev'[c].ref = ev[c].ref /\ (ev[c].st = "exec" => ev'[c].st = "exec")
    PROVE  BInv'
<1>1. \A c \in Conns : Refs(c)'
  BY SameRefs DEF BInv
<1> QED
  BY <1>1 DEF BInv

\* A step about the reference of one connection.
LEMMA OneBound ==
    ASSUME IInv, BInv, SameUse, NEW c \in Conns, Refs(c)', running' \in BOOLEAN, Cardinality(connMap)' <= MaxConn,
           \A d \in Conns : d # c => ev'[d] = ev[d] /\ (d \in connMap' <=> d \in connMap)
    PROVE  BInv'
<1>1. \A d \in Conns : Refs(d)'
  BY SameRefs DEF BInv
<1> QED
  BY <1>1 DEF BInv

LEMMA ConnMapFinite ==
    ASSUME IInv
    PROVE  IsFiniteSet(connMap) /\ Cardinality(connMap) \in Nat
<1>1. connMap \subseteq Conns
  BY DEF IInv, Types
<1> QED
  BY <1>1, SessionAssumption, FS_Subset, FS_CardinalityType

LEMMA RemoveBound ==
    ASSUME IInv, BInv, EpollStep, NEW c \in Conns, epoll.c = c, RemoveEvent(c), UNCHANGED worker
    PROVE  BInv'
<1>1. /\ c \in connMap /\ ev \in [Conns -> Handles] /\ ev[c] \in Handles /\ ev[c].ref \in Nat /\ ev[c].ref >= 1
      /\ Cardinality(Leaving(c)) \in Nat
  BY HandleFacts DEF EpollStep, IInv, Attached, Types
<1>2. SameUse /\ running' = running
  BY DEF EpollStep, SameUse
<1>3. ev' = [ev EXCEPT ![c] = MinusRef(ev[c])] /\ connMap' = connMap \ {c}
  BY DEF RemoveEvent, DelConnection
<1>4. ev'[c] = MinusRef(ev[c]) /\ \A d \in Conns : d # c => ev'[d] = ev[d]
  BY <1>1, <1>3
<1>5. ev'[c].st = ev[c].st /\ ev'[c].ref = ev[c].ref - 1
  BY <1>1, <1>4, MinusRefType
<1>6. Cardinality(connMap') <= MaxConn
  <2>1. Cardinality(connMap') <= Cardinality(connMap) /\ Cardinality(connMap') \in Nat
    BY <1>3, ConnMapFinite, FS_Subset, FS_CardinalityType
  <2> QED
    BY <2>1, ConnMapFinite, SessionAssumption DEF BInv
<1>7. Refs(c)'
  <2>1. Leaving(c)' = Leaving(c) /\ (Locked(c)' <=> Locked(c))
    BY <1>2, UseStays
  <2>2. One(Marked(c)') = One(Marked(c)) /\ One(Marked(c)) \in Nat
    BY <1>5, <2>1 DEF One, Marked
  <2>3. One(c \in connMap) = 1 /\ One(c \in connMap)' = 0
    BY <1>1, <1>3 DEF One
  <2>4. Cardinality(Leaving(c)') = Cardinality(Leaving(c)) /\ ev[c].ref - 1 \in Nat
    BY <1>1, <2>1
  <2>5. (ev[c].ref - 1) + Cardinality(Leaving(c)) + One(Marked(c)) + One(c \in connMap)
           <= ev[c].ref + Cardinality(Leaving(c)) + One(Marked(c)') + One(c \in connMap)'
    BY <1>1, <2>2, <2>3
  <2> QED
    BY <1>1, <1>5, <2>4, <2>5, RefsStep DEF BInv
<1> QED
  BY <1>2, <1>3, <1>4, <1>6, <1>7, OneBound DEF BInv

LEMMA AcceptBound ==
    ASSUME IInv, BInv, NEW c \in Conns, Accept(c)
    PROVE  BInv'
<1>1. SameUse /\ running' = running /\ ev[c].ref = 0 /\ ev \in [Conns -> Handles] /\ ev[c] \in Handles
      /\ Cardinality(Leaving(c)) \in Nat
  BY HandleFacts DEF Accept, SameUse, IInv, Types
<1>2. CASE MallocConnInfo
  <2>1. ev' = [ev EXCEPT ![c] = NewHandle] /\ connMap' = connMap \cup {c}
    BY <1>2 DEF Accept, NewEvent, AddConnection
  <2>2. ev'[c] = NewHandle /\ NewHandle.ref = 1 /\ \A d \in Conns : d # c => ev'[d] = ev[d]
    BY <1>1, <2>1 DEF NewHandle
  <2>3. Cardinality(connMap') <= MaxConn
    <3>1. Cardinality(connMap') = Cardinality(connMap) \/ Cardinality(connMap') = Cardinality(connMap) + 1
      BY <2>1, ConnMapFinite, FS_AddElement
    <3>2. Cardinality(connMap) < MaxConn
      BY <1>2 DEF MallocConnInfo
    <3> QED
      BY <3>1, <3>2, ConnMapFinite, SessionAssumption
  <2>4. c \notin connMap
    BY <1>1, HandleFacts
  <2>5. Refs(c)'
    <3>1. Leaving(c)' = Leaving(c) /\ (Locked(c)' <=> Locked(c))
      BY <1>1, UseStays
    <3>2. ~Active(c)
      BY <1>1, HandleFacts
    <3>3. One(c \in connMap) = 0 /\ One(c \in connMap)' = 1
      BY <2>1, <2>4 DEF One
    <3>4. One(Marked(c)') \in Nat /\ Cardinality(Leaving(c)') = Cardinality(Leaving(c))
      BY <3>1 DEF One
    <3>5. One(Marked(c)') = One(Marked(c))' /\ One(c \in connMap)' = One(c \in connMap')
      BY DEF One
    <3> QED
      BY <1>1, <2>2, <3>3, <3>4, <3>5 DEF Refs
  <2> QED
    BY <1>1, <2>1, <2>2, <2>3, <2>5, OneBound DEF BInv
<1>3. CASE ~MallocConnInfo
  <2>1. ev' = [ev EXCEPT ![c].mem = "freed"] /\ connMap' = connMap
    BY <1>3 DEF Accept, NewEvent
  <2>2. \A d \in Conns : ev'[d].ref = ev[d].ref /\ ev'[d].st = ev[d].st
    BY <1>1, <2>1 DEF Handles
  <2> QED
    BY <1>1, <2>1, <2>2, SameBound DEF BInv
<1> QED
  BY <1>2, <1>3

LEMMA PushTaskUse ==
    ASSUME IInv, NEW c \in Conns, PushTask(c)
    PROVE  SameUse
<1>1. CASE UNCHANGED worker
  BY <1>1 DEF SameUse
<1>2. CASE ~UNCHANGED worker
  <2>1. PICK w \in Waiters : worker' = [worker EXCEPT ![w].pc = "woken"]
    BY <1>2 DEF PushTask
  <2>2. w \in Workers /\ worker[w].pc = "wait"
    BY <2>1 DEF Waiters
  <2>3. worker'[w].pc = "woken" /\ \A v \in Workers : v # w => worker'[v] = worker[v]
    BY <2>1, <2>2 DEF IInv, Types
  <2> QED
    BY <2>2, <2>3 DEF SameUse
<1> QED
  BY <1>1, <1>2

LEMMA RecvDataBound ==
    ASSUME IInv, BInv, NEW c \in Conns, RecvData(c)
    PROVE  BInv'
<1> DEFINE r == Received(c)
           f == r.handle
<1>1. /\ epoll.c = c /\ ev[c].st = "recv" /\ EpollStep
      /\ \/ RemoveEvent(c) /\ UNCHANGED <<worker, taskList>>
         \/ UNCHANGED connMap /\ ev' = [ev EXCEPT ![c] = AddRef([f EXCEPT !.st = "exec"])] /\ PushTask(c)
         \/ UNCHANGED connMap /\ ev' = [ev EXCEPT ![c] = f] /\ UNCHANGED <<worker, taskList>>
  BY DEF RecvData
<1>2. f \in Handles /\ f.st = ev[c].st /\ f.ref = ev[c].ref
  BY ReceivedType DEF IInv, Same
<1> HIDE DEF r, f
<1>3. /\ ev \in [Conns -> Handles] /\ ev[c].ref \in Nat /\ running' = running
      /\ Cardinality(Leaving(c)) \in Nat
  BY <1>1, HandleFacts DEF IInv, Types, EpollStep
<1>4. CASE RemoveEvent(c) /\ UNCHANGED <<worker, taskList>>
  BY <1>1, <1>4, RemoveBound
<1>5. CASE UNCHANGED connMap /\ ev' = [ev EXCEPT ![c] = AddRef([f EXCEPT !.st = "exec"])] /\ PushTask(c)
  <2>1. SameUse
    BY <1>5, PushTaskUse
  <2>2. ev'[c].st = "exec" /\ ev'[c].ref = ev[c].ref + 1 /\ \A d \in Conns : d # c => ev'[d] = ev[d]
    BY <1>2, <1>3, <1>5 DEF AddRef, Handles
  <2>3. Leaving(c)' = Leaving(c) /\ (Locked(c)' <=> Locked(c))
    BY <2>1, UseStays
  <2>4. ~Locked(c)
    BY <1>1 DEF IInv, Exclusive, Locked
  <2>5. One(Marked(c)) = 0 /\ One(Marked(c)') = 1 /\ One(c \in connMap)' = One(c \in connMap)
    BY <1>1, <1>5, <2>2, <2>4 DEF One, Marked
  <2>6. One(c \in connMap) \in Nat /\ Cardinality(Leaving(c)') = Cardinality(Leaving(c)) /\ ev[c].ref + 1 \in Nat
    BY <1>3, <2>3 DEF One
  <2>7. (ev[c].ref + 1) + Cardinality(Leaving(c)) + One(Marked(c)) + One(c \in connMap)
           <= ev[c].ref + Cardinality(Leaving(c)) + One(Marked(c)') + One(c \in connMap)'
    BY <1>3, <2>5, <2>6
  <2>8. Refs(c)'
    BY <1>3, <2>2, <2>6, <2>7, RefsStep DEF BInv
  <2> QED
    BY <1>3, <1>5, <2>1, <2>2, <2>8, OneBound DEF BInv
<1>6. CASE UNCHANGED connMap /\ ev' = [ev EXCEPT ![c] = f] /\ UNCHANGED <<worker, taskList>>
  <2>1. \A d \in Conns : ev'[d].ref = ev[d].ref /\ ev'[d].st = ev[d].st
    BY <1>2, <1>3, <1>6
  <2>2. SameUse
    BY <1>6 DEF SameUse
  <2> QED
    BY <1>3, <1>6, <2>1, <2>2, SameBound DEF BInv
<1> QED
  BY <1>1, <1>4, <1>5, <1>6

LEMMA HandleBound ==
    ASSUME IInv, BInv, NEW c \in Conns, HangUp(c) \/ RecvRefused(c) \/ SendData(c)
    PROVE  BInv'
<1>1. epoll.c = c /\ EpollStep /\ UNCHANGED worker /\ running' = running
  BY DEF HangUp, RecvRefused, SendData, EpollStep
<1>2. CASE RemoveEvent(c)
  BY <1>1, <1>2, RemoveBound
<1>3. CASE ~RemoveEvent(c)
  <2>1. /\ UNCHANGED connMap
        /\ ev' = ev \/ (ev[c].st = "send" /\ ev' = [ev EXCEPT ![c] = Sent(@)])
    BY <1>3 DEF HangUp, RecvRefused, SendData
  <2>2. ev[c] \in Handles /\ ev \in [Conns -> Handles]
    BY HandleFacts DEF IInv, Types
  <2>3. Sent(ev[c]).ref = ev[c].ref
    BY <2>2, SentType
  <2>4. \A d \in Conns : ev'[d].ref = ev[d].ref /\ (ev[d].st = "exec" => ev'[d].st = "exec")
    BY <2>1, <2>2, <2>3
  <2>5. SameUse
    BY <1>1 DEF SameUse
  <2> QED
    BY <1>1, <2>1, <2>4, <2>5, SameBound DEF BInv
<1> QED
  BY <1>2, <1>3

\* A worker beyond TakeTask goes to p.
LEMMA WorkerBound ==
    ASSUME IInv, IInv', BInv, NEW w \in Workers, NEW c \in Conns, worker[w].c = c,
           worker[w].pc \in {"got", "write", "unref"},
           NEW p \in WorkerStates, NEW x \in Conns \cup {None}, WorkerStep(w, p, x),
           p \in {"write", "unref"} => x = c, p # "got",
           \A d \in Conns : d # c => ev'[d] = ev[d],
           ev'[c].ref + One(w \in Leaving(c)) + One(Marked(c)) <= ev[c].ref + One(p = "unref") + One(Marked(c)')
    PROVE  BInv'
<1>1. /\ UNCHANGED <<running, connMap>> /\ worker' = [worker EXCEPT ![w] = [pc |-> p, c |-> x]]
      /\ worker \in [Workers -> [pc : WorkerStates, c : Conns \cup {None}]]
  BY DEF WorkerStep, IInv, Types
<1>2. worker'[w].pc = p /\ worker'[w].c = x /\ \A v \in Workers : v # w => worker'[v] = worker[v]
  BY <1>1
<1>3. ASSUME NEW d \in Conns, d # c
      PROVE  Refs(d)'
  <2>1. Leaving(d)' = Leaving(d)
    BY <1>2, <1>3 DEF Leaving
  <2>2. Locked(d)' <=> Locked(d)
    BY <1>2, <1>3 DEF Locked
  <2>3. One(Marked(d))' = One(Marked(d)) /\ One(d \in connMap)' = One(d \in connMap)
    BY <1>1, <1>3, <2>2 DEF Marked, One
  <2>4. Refs(d) /\ ev'[d] = ev[d]
    BY <1>3 DEF BInv
  <2> QED
    BY <2>1, <2>3, <2>4 DEF Refs
<1>4. Refs(c)'
  <2>1. /\ IsFiniteSet(Leaving(c)) /\ Cardinality(Leaving(c)) \in Nat /\ ev[c].ref \in Nat
        /\ One(c \in connMap) \in Nat /\ One(Marked(c)) \in Nat /\ One(Marked(c)') \in Nat
        /\ One(w \in Leaving(c)) \in Nat /\ One(p = "unref") \in Nat
    BY HandleFacts, HoldersType DEF One
  <2>2. ev'[c].ref \in Nat
    BY DEF IInv, Types, Handles
  <2>3. Leaving(c)' = IF p = "unref" THEN Leaving(c) \cup {w} ELSE Leaving(c) \ {w}
    BY <1>2 DEF Leaving
  <2>4. /\ Cardinality(Leaving(c)') \in Nat
        /\ Cardinality(Leaving(c)') = (Cardinality(Leaving(c)) + One(p = "unref")) - One(w \in Leaving(c))
           \/ (p = "unref" /\ w \in Leaving(c))
    <3>1. CASE p = "unref" /\ w \in Leaving(c)
      <4>1. Leaving(c)' = Leaving(c)
        BY <2>3, <3>1
      <4> QED
        BY <2>1, <3>1, <4>1
    <3>2. CASE p = "unref" /\ w \notin Leaving(c)
      <4>1. Leaving(c)' = Leaving(c) \cup {w} /\ One(p = "unref") = 1 /\ One(w \in Leaving(c)) = 0
        BY <2>3, <3>2 DEF One
      <4>2. Cardinality(Leaving(c)') = Cardinality(Leaving(c)) + 1
        <5>1. Cardinality(Leaving(c) \cup {w}) = Cardinality(Leaving(c)) + 1
          BY <2>1, <3>2, FS_AddElement
        <5> QED
          BY <4>1, <5>1
      <4> QED
        BY <2>1, <4>1, <4>2
    <3>3. CASE p # "unref" /\ w \in Leaving(c)
      <4>1. Leaving(c)' = Leaving(c) \ {w} /\ One(p = "unref") = 0 /\ One(w \in Leaving(c)) = 1
        BY <2>3, <3>3 DEF One
      <4>2. Cardinality(Leaving(c)') = Cardinality(Leaving(c)) - 1 /\ Cardinality(Leaving(c)') \in Nat
        BY <2>1, <3>3, <4>1, OneLess
      <4> QED
        BY <2>1, <4>1, <4>2
    <3>4. CASE p # "unref" /\ w \notin Leaving(c)
      <4>1. Leaving(c)' = Leaving(c) /\ One(p = "unref") = 0 /\ One(w \in Leaving(c)) = 0
        BY <2>3, <3>4 DEF One
      <4> QED
        BY <2>1, <4>1
    <3> QED
      BY <3>1, <3>2, <3>3, <3>4
  <2>5. CASE p = "unref" /\ w \in Leaving(c)
    <3>1. Leaving(c)' = Leaving(c) /\ One(p = "unref") = 1 /\ One(w \in Leaving(c)) = 1
      BY <2>3, <2>5 DEF One
    <3>2. One(c \in connMap)' = One(c \in connMap) /\ Cardinality(Leaving(c)') = Cardinality(Leaving(c))
      BY <1>1, <3>1 DEF One
    <3>3. ev'[c].ref + Cardinality(Leaving(c)) + One(Marked(c)) + One(c \in connMap)
             <= ev[c].ref + Cardinality(Leaving(c)) + One(Marked(c)') + One(c \in connMap)'
      BY <2>1, <2>2, <3>1, <3>2
    <3> QED
      BY <2>1, <2>2, <3>2, <3>3, RefsStep DEF BInv
  <2>6. CASE ~(p = "unref" /\ w \in Leaving(c))
    <3> DEFINE k == Cardinality(Leaving(c)')
    <3>1. k \in Nat /\ k = (Cardinality(Leaving(c)) + One(p = "unref")) - One(w \in Leaving(c))
      BY <2>4, <2>6
    <3>2. One(c \in connMap)' = One(c \in connMap)
      BY <1>1 DEF One
    <3> HIDE DEF k
    <3>3. ev'[c].ref + Cardinality(Leaving(c)) + One(Marked(c)) + One(c \in connMap)
             <= ev[c].ref + k + One(Marked(c)') + One(c \in connMap)'
      BY <2>1, <2>2, <3>1, <3>2
    <3>4. Cardinality(Leaving(c)') = k
      BY DEF k
    <3> QED
      BY <2>2, <3>1, <3>3, <3>4, RefsStep DEF BInv
  <2> QED
    BY <2>5, <2>6
<1>5. \A d \in Conns : Refs(d)'
  BY <1>3, <1>4
<1> QED
  BY <1>1, <1>5 DEF BInv

LEMMA WorkerNextBound ==
    ASSUME IInv, IInv', BInv, NEW w \in Workers, WorkerNext(w)
    PROVE  BInv'
<1>1. /\ UNCHANGED <<running, connMap>> /\ ev \in [Conns -> Handles]
      /\ worker \in [Workers -> [pc : WorkerStates, c : Conns \cup {None}]]
  BY DEF WorkerNext, WorkerLoop, TakeTask, GiveUp, ExecTask, WritePart, Unref, WorkerStep, IInv, Types
<1>2. CASE WorkerLoop(w) \/ TakeTask(w) \/ GiveUp(w)
  <2>1. worker[w].pc \in {"loop", "take", "woken", "got"} /\ ev' = ev
    BY <1>2 DEF WorkerLoop, TakeTask, GiveUp
  <2>2. PICK p \in {"take", "exit", "got", "wait", "loop"} :
             \E x : worker' = [worker EXCEPT ![w] = [pc |-> p, c |-> x]]
    BY <1>2 DEF WorkerLoop, TakeTask, GiveUp, WorkerStep
  <2>3. worker'[w].pc = p /\ \A v \in Workers : v # w => worker'[v] = worker[v]
    BY <1>1, <2>2
  <2>4. SameUse
    BY <2>1, <2>3 DEF SameUse
  <2> QED
    BY <1>1, <2>1, <2>4, SameBound DEF BInv
<1>3. ASSUME worker[w].pc \in {"got", "write", "unref"}, NEW c \in Conns, worker[w].c = c, NEW e \in Handles,
             ev' = [ev EXCEPT ![c] = e]
      PROVE  /\ ev'[c] = e /\ \A d \in Conns : d # c => ev'[d] = ev[d]
             /\ ev[c] \in Handles /\ ev[c].ref \in Nat
             /\ One(Marked(c)) \in {0, 1} /\ One(Marked(c)') \in {0, 1}
             /\ One(w \in Leaving(c)) = One(worker[w].pc = "unref")
  <2>1. w \in Leaving(c) <=> worker[w].pc = "unref"
    BY <1>3 DEF Leaving
  <2> QED
    BY <1>1, <1>3, <2>1, HandleFacts DEF One
<1>4. CASE ExecTask(w)
  <2>1. worker[w].pc = "got"
    BY <1>4 DEF ExecTask
  <2> PICK c \in Conns : c = worker[w].c
    BY <2>1, WorkerConn
  <2>2. ev[c] \in Handles /\ ev[c].st = "exec"
    BY <2>1, WorkerConn
  <2>3. PICK role \in BOOLEAN : ev' = [ev EXCEPT ![c] = Executed(c, role)] /\ WorkerStep(w, "write", c)
    <3>1. ev[c].role \in BOOLEAN
      BY <2>2 DEF Handles
    <3> QED
      BY <1>4, <2>2, <3>1 DEF ExecTask, ExecLogin
  <2> DEFINE e == Executed(c, role)
  <2>4. e \in Handles /\ e.ref = ev[c].ref
    BY ExecutedType
  <2>5. ev' = [ev EXCEPT ![c] = e]
    BY <2>3
  <2> HIDE DEF e
  <2>6. /\ ev'[c] = e /\ \A d \in Conns : d # c => ev'[d] = ev[d]
        /\ ev[c].ref \in Nat /\ One(w \in Leaving(c)) = One(worker[w].pc = "unref")
    BY <1>3, <2>1, <2>4, <2>5
  <2>7. worker'[w] = [pc |-> "write", c |-> c]
    BY <1>1, <2>3 DEF WorkerStep
  <2>8. Marked(c) /\ Marked(c)'
    BY <2>2, <2>7 DEF Marked, Locked
  <2>9. One(Marked(c)) = 1 /\ One(Marked(c)') = 1 /\ One(w \in Leaving(c)) = 0 /\ One("write" = "unref") = 0
    BY <2>1, <2>6, <2>8 DEF One
  <2>10. ev'[c].ref + One(w \in Leaving(c)) + One(Marked(c)) <= ev[c].ref + One("write" = "unref") + One(Marked(c)')
    BY <2>4, <2>6, <2>9
  <2> QED
    BY <2>1, <2>3, <2>6, <2>10, WorkerBound DEF WorkerStates
<1>5. CASE WritePart(w)
  <2>1. worker[w].pc = "write"
    BY <1>5 DEF WritePart
  <2> PICK c \in Conns : c = worker[w].c
    BY <2>1, WorkerConn
  <2>2. ev[c] \in Handles /\ ev[c].sent + 1 \in Int
    <3>1. ev[c] \in Handles
      BY <2>1, WorkerConn
    <3> QED
      BY <3>1 DEF Handles
  <2>3. PICK p \in {"write", "unref"}, e \in Handles :
           WorkerStep(w, p, c) /\ ev' = [ev EXCEPT ![c] = e] /\ e.ref = ev[c].ref
    <3>1. CASE ev' = [ev EXCEPT ![c].sent = @ + 1] /\ WorkerStep(w, "write", c)
      <4> DEFINE e == [ev[c] EXCEPT !.sent = ev[c].sent + 1]
      <4>1. e \in Handles /\ e.ref = ev[c].ref
        BY <2>2, SetField DEF Same
      <4>2. ev' = [ev EXCEPT ![c] = e]
        BY <3>1, Zenon
      <4> HIDE DEF e
      <4> QED
        BY <3>1, <4>1, <4>2
    <3>2. CASE ev' = ev /\ WorkerStep(w, "unref", c)
      <4>1. ev' = [ev EXCEPT ![c] = ev[c]]
        BY <1>1, <3>2
      <4> QED
        BY <2>2, <3>2, <4>1
    <3>3. CASE ev' = [ev EXCEPT ![c].st = "end"] /\ WorkerStep(w, "unref", c)
      <4> DEFINE e == [ev[c] EXCEPT !.st = "end"]
      <4>1. e \in Handles /\ e.ref = ev[c].ref
        BY <2>2, SetState DEF Stages
      <4>2. ev' = [ev EXCEPT ![c] = e]
        BY <3>3, Zenon
      <4> HIDE DEF e
      <4> QED
        BY <3>3, <4>1, <4>2
    <3>4. CASE ev' = [ev EXCEPT ![c] = Ready(@, "recv")] /\ WorkerStep(w, "unref", c)
      <4> DEFINE e == Ready(ev[c], "recv")
      <4>1. e \in Handles /\ e.ref = ev[c].ref
        BY <2>2, ReadyType DEF Stages
      <4>2. ev' = [ev EXCEPT ![c] = e]
        BY <3>4, Zenon
      <4> HIDE DEF e
      <4> QED
        BY <3>4, <4>1, <4>2
    <3> QED
      BY <1>5, <3>1, <3>2, <3>3, <3>4 DEF WritePart
  <2>4. /\ ev'[c] = e /\ \A d \in Conns : d # c => ev'[d] = ev[d]
        /\ ev[c].ref \in Nat /\ One(Marked(c)) \in {0, 1} /\ One(Marked(c)') \in {0, 1}
        /\ One(w \in Leaving(c)) = One(worker[w].pc = "unref")
    BY <1>3, <2>1, <2>3
  <2>5. One(w \in Leaving(c)) = 0
    BY <2>1, <2>4 DEF One
  <2>6. One(Marked(c)) <= One(p = "unref") + One(Marked(c)')
    <3>1. CASE p = "unref"
      BY <2>4, <3>1 DEF One
    <3>2. CASE p = "write"
      <4>1. worker'[w] = [pc |-> p, c |-> c]
        BY <1>1, <2>3 DEF WorkerStep
      <4>2. Marked(c)'
        BY <3>2, <4>1 DEF Marked, Locked
      <4>3. One(Marked(c)') = 1 /\ One(p = "unref") = 0
        BY <3>2, <4>2 DEF One
      <4> QED
        BY <2>4, <4>3
    <3> QED
      BY <2>3, <3>1, <3>2
  <2>7. ev'[c].ref + One(w \in Leaving(c)) + One(Marked(c)) <= ev[c].ref + One(p = "unref") + One(Marked(c)')
    <3>1. One(p = "unref") \in {0, 1} /\ ev'[c].ref = ev[c].ref
      BY <2>3, <2>4 DEF One
    <3> QED
      BY <2>4, <2>5, <2>6, <3>1
  <2> QED
    BY <2>1, <2>3, <2>4, <2>7, WorkerBound DEF WorkerStates
<1>6. CASE Unref(w)
  <2>1. worker[w].pc = "unref" /\ WorkerStep(w, "loop", None) /\ ev' = [ev EXCEPT ![worker[w].c] = MinusRef(@)]
    BY <1>6 DEF Unref
  <2> PICK c \in Conns : c = worker[w].c
    BY <2>1, WorkerConn
  <2>2. ev[c] \in Handles /\ ev[c].ref >= 1
    BY <2>1, WorkerConn
  <2> DEFINE e == MinusRef(ev[c])
  <2>3. e \in Handles /\ e.st = ev[c].st /\ e.ref = IF ev[c].ref = 0 THEN 0 ELSE ev[c].ref - 1
    BY <2>2, MinusRefType
  <2>4. ev' = [ev EXCEPT ![c] = e]
    BY <2>1
  <2> HIDE DEF e
  <2>5. /\ ev'[c] = e /\ \A d \in Conns : d # c => ev'[d] = ev[d]
        /\ ev[c].ref \in Nat /\ One(Marked(c)) \in {0, 1} /\ One(Marked(c)') \in {0, 1}
        /\ One(w \in Leaving(c)) = One(worker[w].pc = "unref")
    BY <1>3, <2>1, <2>3, <2>4
  <2>6. One(w \in Leaving(c)) = 1 /\ One("loop" = "unref") = 0 /\ ev'[c].ref = ev[c].ref - 1
    BY <2>1, <2>2, <2>3, <2>5 DEF One
  <2>7. worker'[w] = [pc |-> "loop", c |-> None] /\ \A v \in Workers : v # w => worker'[v] = worker[v]
    BY <1>1, <2>1 DEF WorkerStep
  <2>8. Marked(c)' <=> Marked(c)
    BY <2>1, <2>3, <2>5, <2>7 DEF Marked, Locked
  <2>9. One(Marked(c)') = One(Marked(c))
    BY <2>8 DEF One
  <2>10. ev'[c].ref + One(w \in Leaving(c)) + One(Marked(c)) <= ev[c].ref + One("loop" = "unref") + One(Marked(c)')
    BY <2>5, <2>6, <2>9
  <2> QED
    BY <2>1, <2>5, <2>10, WorkerBound DEF WorkerStates
<1> QED
  BY <1>2, <1>4, <1>5, <1>6 DEF WorkerNext

LEMMA NextBInv ==
    ASSUME IInv, IInv', BInv, [Next]_vars
    PROVE  BInv'
<1>1. CASE \/ \E c \in Conns : ClientNext(c) \/ EpollWait(c)
           \/ SignalHandler \/ Joined \/ UNCHANGED vars
  <2>1. UNCHANGED <<connMap, ev, worker>> /\ running' \in {running, FALSE}
    BY <1>1 DEF ClientNext, Request, Arrive, Recv, Disconnect, ClientStep, EpollWait, SignalHandler, Joined, vars
  <2>2. SameUse
    BY <2>1 DEF SameUse
  <2> QED
    BY <2>1, <2>2, SameBound DEF BInv
<1>2. CASE StopEpoll
  <2>1. UNCHANGED <<connMap, ev, running>>
    BY <1>2 DEF StopEpoll
  <2>2. worker \in [Workers -> [pc : WorkerStates, c : Conns \cup {None}]]
    BY DEF IInv, Types
  <2>3. SameUse
    BY <1>2, <2>2 DEF StopEpoll, SameUse, Waiters
  <2> QED
    BY <2>1, <2>3, SameBound DEF BInv
<1>3. CASE \E c \in Conns : Accept(c)
  BY <1>3, AcceptBound
<1>4. CASE Handle
  BY <1>4, HandleBound, RecvDataBound DEF Handle
<1>5. CASE \E w \in Workers : WorkerNext(w)
  BY <1>5, WorkerNextBound
<1> QED
  BY <1>1, <1>2, <1>3, <1>4, <1>5 DEF Next

LEMMA InitBInv ==
    ASSUME Init
    PROVE  BInv
<1>1. running \in BOOLEAN /\ connMap = {}
  BY DEF Init
<1>2. Cardinality(connMap) <= MaxConn
  BY <1>1, FS_EmptySet, SessionAssumption
<1>3. \A c \in Conns : ev[c].ref = 0 /\ Leaving(c) = {}
  BY DEF Init, NoHandle, NewHandle, Leaving
<1>4. \A c \in Conns : Refs(c)
  BY <1>3, FS_EmptySet DEF Refs, One
<1> QED
  BY <1>1, <1>2, <1>4 DEF BInv

\* The bounds: a handle has at most one reference of each worker that leaves it, one of the request and
\* one of connMap; a task is in the list once; there are at most MaxConn connections; the buffers hold one
\* request and one answer.
THEOREM BoundsHold == Spec => []TypeOK
<1>1. IInv /\ AInv /\ BInv => TypeOK
  <2> SUFFICES ASSUME IInv, AInv, BInv PROVE TypeOK
    OBVIOUS
  <2>1. /\ running \in BOOLEAN /\ epoll.pc \in {"wait", "handle", "failed", "join", "stopped"}
        /\ epoll.c \in Conns \cup {None} /\ epoll.mask \subseteq {"hup", "in", "out"} /\ epoll.late \subseteq Workers
    BY DEF BInv, IInv, Types, Epolls
  <2>2. \A w \in Workers : /\ worker[w].pc \in {"loop", "take", "wait", "woken", "got", "write", "unref", "exit"}
                           /\ worker[w].c \in Conns \cup {None}
    BY DEF IInv, Types, WorkerStates
  <2>3. /\ taskList \in Seq(Conns) /\ \A i, j \in 1 .. Len(taskList) : taskList[i] = taskList[j] => i = j
        /\ connMap \subseteq Conns /\ Cardinality(connMap) <= MaxConn
    BY DEF BInv, IInv, Types, Exclusive
  <2>4. ASSUME NEW c \in Conns
        PROVE  /\ ev[c].st \in {"recv", "exec", "send", "end"} /\ ev[c].head \in 0 .. HeadParts
               /\ ev[c].body \in 0 .. 1 /\ ev[c].method \in Methods /\ ev[c].tag \in 0 .. MaxReq[c]
               /\ ev[c].sent \in 0 .. RepParts /\ ev[c].ref \in 0 .. Cardinality(Workers) + 2
               /\ ev[c].mem \in {"none", "live", "freed"}
               /\ sock[c].read <= sock[c].avail /\ sock[c].avail <= sock[c].sent
               /\ cli[c].pc \in {"new", "idle", "wait", "closed"} /\ cli[c].req \in 0 .. MaxReq[c]
    <3>1. FieldTypes(ev[c], sock[c], cli[c], done[c]) /\ Numbers(c) /\ SockInv(c) /\ HandleInv(c)
      BY ConnTypes, ConnNumbers DEF AInv, Conn
    <3>2. ev[c].tag \in 0 .. MaxReq[c]
      <4>1. ev[c].tag \in 0 .. cli[c].req /\ cli[c].req \in 0 .. MaxReq[c] /\ MaxReq[c] \in Nat
        BY <3>1 DEF HandleInv, SockInv, Numbers
      <4> QED
        BY <4>1
    <3>3. ev[c].ref \in 0 .. Cardinality(Workers) + 2
      <4>1. Cardinality(Leaving(c)) <= Cardinality(Workers) /\ Cardinality(Workers) \in Nat /\ Cardinality(Leaving(c)) \in Nat
        <5>1. Leaving(c) \subseteq Workers
          BY DEF Leaving
        <5> QED
          BY <5>1, SessionAssumption, FS_Subset, FS_CardinalityType
      <4>2. One(Marked(c)) \in {0, 1} /\ One(c \in connMap) \in {0, 1} /\ ev[c].ref \in Nat
        BY HandleFacts DEF One
      <4>3. ev[c].ref <= Cardinality(Leaving(c)) + One(Marked(c)) + One(c \in connMap)
        BY DEF BInv, Refs
      <4> QED
        BY <4>1, <4>2, <4>3
    <3>4. /\ ev[c].st \in {"recv", "exec", "send", "end"} /\ ev[c].method \in Methods /\ ev[c].mem \in {"none", "live", "freed"}
          /\ cli[c].pc \in {"new", "idle", "wait", "closed"}
      BY <3>1 DEF FieldTypes, Stages, Mems
    <3>5. /\ ev[c].head \in 0 .. HeadParts /\ ev[c].body \in 0 .. 1 /\ ev[c].sent \in 0 .. RepParts
      BY <3>1 DEF HandleInv
    <3>6. /\ sock[c].read <= sock[c].avail /\ sock[c].avail <= sock[c].sent /\ cli[c].req \in 0 .. MaxReq[c]
      BY <3>1 DEF SockInv
    <3> QED
      BY <3>2, <3>3, <3>4, <3>5, <3>6
  <2> QED
    BY <2>1, <2>2, <2>3, <2>4 DEF TypeOK
<1>2. Init => BInv
  BY InitBInv
<1>3. (IInv /\ BInv) /\ [Next]_vars => (IInv /\ BInv)'
  BY NextIInv, NextBInv
<1>4. Init => IInv
  BY InitIInv
<1> QED
  BY <1>1, <1>2, <1>3, <1>4, AInvHolds, PTL DEF Spec
=============================================================================
