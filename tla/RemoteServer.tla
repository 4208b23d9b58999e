---------------------------- MODULE RemoteServer ----------------------------
(* The native HTTP server of doltlite_remotesrv.c, as patched: one thread   *)
(* that accepts connections and collects requests, a bounded queue of jobs, *)
(* worker threads, the cache of open chunk stores, and the stop that        *)
(* RemoteServer::quiesce waits for. A step is a section under pSrv->mutex,  *)
(* a section under a handle's mutex, or work of one thread on what it owns. *)
(* What the handlers of a push do to their store is in RemotePush.          *)
EXTENDS Integers, Sequences, FiniteSets, FiniteSetsExt, Functions

CONSTANTS
    Workers,        \* SERVER_WORKERS threads
    Dbs,            \* database paths that requests name
    None,           \* no value
    MaxConns,       \* bound: connections that clients ever open
    MaxHandles,     \* bound: addresses of RemoteDbHandle objects
    QueueSize,      \* SERVER_QUEUE_SIZE
    PendingMax,     \* SERVER_PENDING_MAX
    DbCacheMax,     \* SERVER_DB_CACHE_MAX
    MaxRequest,     \* pSrv->maxRequestBytes, in allocation units
    BodyMax         \* SERVER_BODY_BUFFER_MAX, in allocation units

Conns == 1..MaxConns
Fds == 1..MaxConns
Handles == 1..MaxHandles

VARIABLES
    running,        \* pSrv->running
    loop,           \* "serve", or "done" when serverLoop has returned
    stop,           \* progress of doltliteServerStop
    conn,           \* connection -> where it is and its request
    fd,             \* descriptor -> connection or None
    queue,          \* pSrv->queue from queueHead
    nBodyAlloc,     \* pSrv->nBodyAlloc
    wk,             \* worker -> program counter, job and handle
    activeFd,       \* pSrv->activeFd
    handle,         \* address -> RemoteDbHandle, or None when it is free
    cache,          \* the handles of pSrv->pDbCache
    now             \* monotonicMs, in acquisitions of a handle

vars == <<running, loop, stop, conn, fd, queue, nBodyAlloc, wk, activeFd, handle, cache, now>>

(* at: new, pending (aPending), queued, active, closed. hdr: the header is  *)
(* complete. need, got, alloc: contentLength, nBody, nBodyAlloc of the      *)
(* request; a job keeps only the buffer. ok: requestStatus is still 200.    *)
Conn == [at : {"new", "pending", "queued", "active", "closed"},
         fd : Fds \cup {None}, hdr : BOOLEAN, ok : BOOLEAN,
         need : 0..MaxRequest, got : 0..MaxRequest, alloc : 0..MaxRequest]
NoConn(at) == [at |-> at, fd |-> None, hdr |-> FALSE, ok |-> TRUE, need |-> 0,
               got |-> 0, alloc |-> 0]

Handle == [path : Dbs, open : BOOLEAN, writable : BOOLEAN, res : Nat,
           mu : Workers \cup {None}, last : Nat]

ASSUME ConstantsAssumption ==
    /\ None \notin Workers \cup Dbs /\ None \notin Int \cup Handle /\ IsFiniteSet(Workers)
    /\ {MaxConns, MaxHandles, QueueSize, PendingMax, DbCacheMax} \subseteq Nat \ {0}
    /\ MaxRequest \in Nat \ {0} /\ BodyMax \in Nat \ {0}
    /\ MaxRequest <= BodyMax

Worker == [pc : {"idle", "wait", "request", "lock", "open", "handle",
                 "unreserve", "respond", "finish", "close", "exit"},
           job : Conns \cup {None}, h : Handles \cup {None},
           db : Dbs \cup {None}, write : BOOLEAN]
NoJob(pc) == [pc |-> pc, job |-> None, h |-> None, db |-> None, write |-> FALSE]

Init ==
    /\ running = TRUE /\ loop = "serve" /\ stop = "run"
    /\ conn = [c \in Conns |-> NoConn("new")]
    /\ fd = [f \in Fds |-> None]
    /\ queue = <<>> /\ nBodyAlloc = 0
    /\ wk = [w \in Workers |-> NoJob("idle")]
    /\ activeFd = [w \in Workers |-> None]
    /\ handle = [h \in Handles |-> None] /\ cache = {} /\ now = 0

At(p) == {c \in Conns : conn[c].at = p}
Free == {f \in Fds : fd[f] = None}
Goto(w, pc) == wk' = [wk EXCEPT ![w].pc = pc]

\* The allocation units of the request buffers of C: their number is the sum
\* of the sizes.
Units(C) == {u \in C \X (1..MaxRequest) : u[2] <= conn[u[1]].alloc}

-----------------------------------------------------------------------------
(* The accept thread.                                                       *)

\* pendingClose: descriptor and buffer of c are given back; n is nBodyAlloc
\* when it is called.
PendingClose(c, alloc, n) ==
    /\ conn' = [conn EXCEPT ![c] = NoConn("closed")]
    /\ fd' = [fd EXCEPT ![conn[c].fd] = None]
    /\ nBodyAlloc' = n - alloc
    /\ UNCHANGED <<queue, wk>>

\* Mutant of Signal: no worker is woken.
SignalNobody == UNCHANGED wk

\* doltliteCondSignal(&pSrv->workReady)
Signal ==
    LET W == {w \in Workers : wk[w].pc = "wait"}
    IN  IF W = {} THEN UNCHANGED wk ELSE \E w \in W : Goto(w, "idle")

\* Mutant of EnqueueJob: a job is accepted whether the server runs or not.
EnqueueJobLate(c, r, n) ==
    /\ queue' = Append(queue, c)
    /\ conn' = [conn EXCEPT ![c] = [r EXCEPT !.at = "queued", !.need = 0, !.got = 0]]
    /\ nBodyAlloc' = n
    /\ Signal
    /\ UNCHANGED fd

EnqueueJob(c, r, n) ==
    IF ~running \/ Len(queue) = QueueSize
    THEN PendingClose(c, r.alloc, n)
    ELSE /\ queue' = Append(queue, c)
         /\ conn' = [conn EXCEPT ![c] = [r EXCEPT !.at = "queued", !.need = 0, !.got = 0]]
         /\ nBodyAlloc' = n
         /\ Signal
         /\ UNCHANGED fd

\* The copy of the header or a socket option may fail; the caller closes.
PendingPromote(c, r, n) ==
    \/ EnqueueJob(c, r, n)
    \/ PendingClose(c, r.alloc, n)

\* The buffer starts at one unit, doubles, and ends at the request limit.
Sizes == ({2^k : k \in 0..MaxRequest} \cap 1..MaxRequest) \cup {0, MaxRequest}
AllocFor(n) == Min({a \in Sizes : a >= n})

\* Mutant of PendingAppendBody: a failed growth keeps its reservation.
PendingAppendBodyLeaks(c, r, n) ==
    LET more == IF r.got + n > r.alloc THEN AllocFor(r.got + n) - r.alloc ELSE 0
    IN  /\ more <= BodyMax - nBodyAlloc
        /\ PendingClose(c, r.alloc, nBodyAlloc + more)

\* pendingAppendBody and what pendingIngest does with its result. The
\* reservation fails when the server's buffers are full, and is given back
\* when the buffer cannot grow.
PendingAppendBody(c, r, n) ==
    LET got == r.got + n
        more == IF got > r.alloc THEN AllocFor(got) - r.alloc ELSE 0
        grown == [r EXCEPT !.got = got, !.alloc = @ + more]
    IN  \/ /\ more > BodyMax - nBodyAlloc
           /\ PendingClose(c, r.alloc, nBodyAlloc)
        \/ /\ 0 < more /\ more <= BodyMax - nBodyAlloc
           /\ PendingClose(c, r.alloc, nBodyAlloc + more - more)
        \/ /\ more <= BodyMax - nBodyAlloc
           /\ IF got = r.need
              THEN PendingPromote(c, grown, nBodyAlloc + more)
              ELSE /\ conn' = [conn EXCEPT ![c] = grown]
                   /\ nBodyAlloc' = nBodyAlloc + more
                   /\ UNCHANGED <<fd, queue, wk>>

\* accept and pendingAdd; the kernel returns the lowest free descriptor.
PendingAdd ==
    /\ \E c \in At("new"), f \in Free :
          /\ (\A d \in At("new") : c <= d) /\ (\A g \in Free : f <= g)
          /\ \/ /\ Cardinality(At("pending")) < PendingMax
                /\ conn' = [conn EXCEPT ![c] = [NoConn("pending") EXCEPT !.fd = f]]
                /\ fd' = [fd EXCEPT ![f] = c]
             \/ /\ conn' = [conn EXCEPT ![c] = NoConn("closed")]
                /\ UNCHANGED fd
    /\ UNCHANGED <<queue, nBodyAlloc, wk>>

\* pendingIngest up to the header: the peer closes, the header is refused, or
\* it is complete and arrives with the first n bytes of the body.
IngestHeader(c) ==
    /\ conn[c].at = "pending" /\ ~conn[c].hdr
    /\ \/ PendingClose(c, conn[c].alloc, nBodyAlloc)
       \/ PendingPromote(c, [conn[c] EXCEPT !.hdr = TRUE, !.ok = FALSE], nBodyAlloc)
       \/ \E need \in 0..MaxRequest : \E n \in 0..need :
             PendingAppendBody(c, [conn[c] EXCEPT !.hdr = TRUE, !.need = need], n)

\* pendingIngest within the body. When the peer has gone the request is marked
\* 400 and, being incomplete, stays until its budget is used up.
IngestBody(c) ==
    /\ conn[c].at = "pending" /\ conn[c].hdr /\ conn[c].ok
    /\ conn[c].got < conn[c].need
    /\ \/ \E n \in 1..(conn[c].need - conn[c].got) : PendingAppendBody(c, conn[c], n)
       \/ /\ conn' = [conn EXCEPT ![c].ok = FALSE]
          /\ UNCHANGED <<fd, queue, nBodyAlloc, wk>>

\* The budget of c is used up: 400 once the header is there, else closed.
Expire(c) ==
    /\ conn[c].at = "pending"
    /\ IF conn[c].hdr
       THEN PendingPromote(c, [conn[c] EXCEPT !.ok = FALSE], nBodyAlloc)
       ELSE PendingClose(c, conn[c].alloc, nBodyAlloc)

\* serverIsRunning is false: the connections still pending are closed.
LoopExit ==
    /\ ~running
    /\ conn' = [c \in Conns |-> IF c \in At("pending") THEN NoConn("closed") ELSE conn[c]]
    /\ fd' = [f \in Fds |-> IF fd[f] \in At("pending") THEN None ELSE fd[f]]
    /\ nBodyAlloc' = nBodyAlloc - Cardinality(Units(At("pending")))
    /\ loop' = "done"
    /\ UNCHANGED <<queue, wk>>

ServerLoop ==
    /\ loop = "serve"
    /\ \/ /\ \/ PendingAdd
             \/ \E c \in Conns : IngestHeader(c) \/ IngestBody(c) \/ Expire(c)
          /\ UNCHANGED loop
       \/ LoopExit
    /\ UNCHANGED <<running, stop, activeFd, handle, cache, now>>

-----------------------------------------------------------------------------
(* The workers.                                                             *)

\* The head of serverWorkerEntry's loop, up to the end of its mutex section.
TakeJob(w) ==
    /\ wk[w].pc = "idle"
    /\ \/ /\ queue = <<>>
          /\ Goto(w, IF running THEN "wait" ELSE "exit")
          /\ UNCHANGED <<queue, conn, activeFd>>
       \/ /\ queue # <<>>
          /\ wk' = [wk EXCEPT ![w].pc = "request", ![w].job = Head(queue)]
          /\ conn' = [conn EXCEPT ![Head(queue)].at = "active"]
          /\ activeFd' = [activeFd EXCEPT ![w] = conn[Head(queue)].fd]
          /\ queue' = Tail(queue)
    /\ UNCHANGED <<running, loop, stop, fd, nBodyAlloc, handle, cache, now>>

\* handleRequest answers without a store (refused header, bad path, missing
\* database), or no connection object can be made and nothing is answered.
Refuse(w) ==
    /\ wk[w].pc = "request"
    /\ \E pc \in {"respond", "finish"} : Goto(w, pc)
    /\ UNCHANGED <<running, loop, stop, conn, fd, queue, nBodyAlloc, activeFd, handle, cache, now>>

\* Mutant of Idle: the reservations are not looked at.
IdleUnlocked(h) == handle[h].mu = None

\* What remoteDbCacheEvictOne may take.
Idle(h) == handle[h].res = 0 /\ handle[h].mu = None

\* Mutant of Evictions: the limit may be exceeded by one.
EvictionsLate ==
    LET idle == {h \in cache : Idle(h)}
        n == Min({Cardinality(idle), Max({0, Cardinality(cache) - DbCacheMax})})
    IN  {S \in SUBSET idle : Cardinality(S) = n}

\* The handles that remoteDbAcquire's loop may evict before it adds one: the
\* least recently used of the idle ones, as many as the limit asks for.
Evictions ==
    LET idle == {h \in cache : Idle(h)}
        n == Min({Cardinality(idle), Max({0, Cardinality(cache) - DbCacheMax + 1})})
    IN  {S \in SUBSET idle :
            /\ Cardinality(S) = n
            /\ \A g \in S, h \in idle \ S : handle[g].last <= handle[h].last}

\* handleRequest names a store, and the first half of remoteDbAcquire finds
\* or creates its handle and reserves it.
Lookup(w, db, write) ==
    LET known == {h \in cache : handle[h].path = db}
        Uses(h) == wk' = [wk EXCEPT ![w] = [@ EXCEPT !.pc = "lock", !.h = h,
                                                !.db = db, !.write = write]]
        Left(S) == [h \in Handles |-> IF h \in S THEN None ELSE handle[h]]
        Added(S, new) ==
            /\ handle' = [Left(S) EXCEPT ![new] =
                   [path |-> db, open |-> FALSE, writable |-> FALSE,
                    res |-> 1, mu |-> None, last |-> 0]]
            /\ cache' = (cache \ S) \cup {new}
            /\ Uses(new)
        NoMemory(S) ==
            /\ handle' = Left(S)
            /\ cache' = cache \ S
            /\ Goto(w, "respond")
    IN  /\ wk[w].pc = "request" /\ conn[wk[w].job].ok
        /\ \/ \E h \in known :
                /\ handle' = [handle EXCEPT ![h].res = @ + 1]
                /\ Uses(h)
                /\ UNCHANGED cache
           \/ /\ known = {}
              /\ \E S \in Evictions :
                    \/ NoMemory(S)
                    \/ \E new \in {h \in Handles : Left(S)[h] = None} :
                          /\ \A h \in Handles : Left(S)[h] = None => new <= h
                          /\ Added(S, new)
        /\ UNCHANGED <<running, loop, stop, conn, fd, queue, nBodyAlloc, activeFd, now>>

\* Mutant of LockHandle: the handle's mutex is not waited for.
LockHandleShared(w) ==
    /\ wk[w].pc = "lock"
    /\ now' = now + 1
    /\ handle' = [handle EXCEPT ![wk[w].h].mu = w, ![wk[w].h].last = now']
    /\ Goto(w, "open")
    /\ UNCHANGED <<running, loop, stop, conn, fd, queue, nBodyAlloc, activeFd, cache>>

\* The handle's mutex and its time of use, later than any before.
LockHandle(w) ==
    LET h == wk[w].h
    IN  /\ wk[w].pc = "lock" /\ handle[h].mu = None
        /\ now' = now + 1
        /\ handle' = [handle EXCEPT ![h].mu = w, ![h].last = now']
        /\ Goto(w, "open")
        /\ UNCHANGED <<running, loop, stop, conn, fd, queue, nBodyAlloc, activeFd, cache>>

\* A request that writes needs a store that was opened for writing.
Usable(w) == handle[wk[w].h].open /\ (wk[w].write => handle[wk[w].h].writable)

\* The rest of remoteDbAcquire under the handle's mutex: the store is
\* refreshed, opened, or closed and opened again, or the request fails.
OpenStore(w) ==
    LET h == wk[w].h
        write == wk[w].write
        Ends(open, writable, mu, pc) ==
            /\ handle' = [handle EXCEPT ![h].open = open, ![h].writable = writable, ![h].mu = mu]
            /\ Goto(w, pc)
    IN  /\ wk[w].pc = "open"
        /\ \/ Usable(w) /\ Ends(TRUE, handle[h].writable, w, "handle")
           \/ Ends(TRUE, write, w, "handle")
           \/ Ends(FALSE, FALSE, None, "unreserve")
           \/ Usable(w) /\ write /\ Ends(TRUE, TRUE, None, "unreserve")
        /\ UNCHANGED <<running, loop, stop, conn, fd, queue, nBodyAlloc, activeFd, cache, now>>

\* The handler has run; remoteDbRelease drops the handle's mutex ...
Release(w) ==
    /\ wk[w].pc = "handle"
    /\ handle' = [handle EXCEPT ![wk[w].h].mu = None]
    /\ Goto(w, "unreserve")
    /\ UNCHANGED <<running, loop, stop, conn, fd, queue, nBodyAlloc, activeFd, cache, now>>

\* Mutant of Unreserve: the handle remains with the worker.
UnreserveKeeps(w) ==
    /\ wk[w].pc = "unreserve"
    /\ handle' = [handle EXCEPT ![wk[w].h].res = @ - 1]
    /\ \E pc \in {"unreserve", "respond"} : Goto(w, pc)
    /\ UNCHANGED <<running, loop, stop, conn, fd, queue, nBodyAlloc, activeFd, cache, now>>

\* ... and then the reservation.
Unreserve(w) ==
    /\ wk[w].pc = "unreserve"
    /\ handle' = [handle EXCEPT ![wk[w].h].res = @ - 1]
    /\ wk' = [wk EXCEPT ![w] = [NoJob("respond") EXCEPT !.job = wk[w].job]]
    /\ UNCHANGED <<running, loop, stop, conn, fd, queue, nBodyAlloc, activeFd, cache, now>>

\* The response is written, times out, or is interrupted by a shutdown.
Respond(w) ==
    /\ wk[w].pc = "respond"
    /\ Goto(w, "finish")
    /\ UNCHANGED <<running, loop, stop, conn, fd, queue, nBodyAlloc, activeFd, handle, cache, now>>

\* Mutant of Finish: the connection is closed before activeFd is reset.
FinishClosed(w) ==
    /\ wk[w].pc = "finish"
    /\ nBodyAlloc' = nBodyAlloc - conn[wk[w].job].alloc
    /\ conn' = [conn EXCEPT ![wk[w].job].alloc = 0]
    /\ fd' = [fd EXCEPT ![conn[wk[w].job].fd] = None]
    /\ Goto(w, "close")
    /\ UNCHANGED <<running, loop, stop, activeFd, queue, handle, cache, now>>

Finish(w) ==
    /\ wk[w].pc = "finish"
    /\ nBodyAlloc' = nBodyAlloc - conn[wk[w].job].alloc
    /\ conn' = [conn EXCEPT ![wk[w].job].alloc = 0]
    /\ activeFd' = [activeFd EXCEPT ![w] = None]
    /\ Goto(w, "close")
    /\ UNCHANGED <<running, loop, stop, fd, queue, handle, cache, now>>

CloseConn(w) ==
    /\ wk[w].pc = "close"
    /\ fd' = [fd EXCEPT ![conn[wk[w].job].fd] = None]
    /\ conn' = [conn EXCEPT ![wk[w].job] = NoConn("closed")]
    /\ wk' = [wk EXCEPT ![w] = NoJob("idle")]
    /\ UNCHANGED <<running, loop, stop, queue, nBodyAlloc, activeFd, handle, cache, now>>

WorkerStep(w) ==
    \/ TakeJob(w) \/ Refuse(w) \/ (\E db \in Dbs, write \in BOOLEAN : Lookup(w, db, write))
    \/ LockHandle(w) \/ OpenStore(w) \/ Release(w) \/ Unreserve(w) \/ Respond(w) \/ Finish(w) \/ CloseConn(w)

-----------------------------------------------------------------------------
(* doltliteServerStop.                                                      *)

\* Mutant of Broadcast: one waiting worker is woken.
BroadcastOne ==
    LET W == {w \in Workers : wk[w].pc = "wait"}
    IN  IF W = {} THEN {} ELSE {CHOOSE w \in W : TRUE}

Broadcast == {w \in Workers : wk[w].pc = "wait"}

RequestStop ==
    /\ stop = "run"
    /\ stop' = "joinLoop" /\ running' = FALSE
    /\ queue' = <<>>
    /\ conn' = [c \in Conns |-> IF c \in Range(queue) THEN NoConn("closed") ELSE conn[c]]
    /\ fd' = [f \in Fds |-> IF fd[f] \in Range(queue) THEN None ELSE fd[f]]
    /\ nBodyAlloc' = nBodyAlloc - Cardinality(Units(Range(queue)))
    /\ wk' = [w \in Workers |-> IF w \in Broadcast THEN [wk[w] EXCEPT !.pc = "idle"] ELSE wk[w]]
    /\ UNCHANGED <<loop, activeFd, handle, cache, now>>

JoinLoop ==
    /\ stop = "joinLoop" /\ loop = "done"
    /\ stop' = "joinWorkers"
    /\ UNCHANGED <<running, loop, conn, fd, queue, nBodyAlloc, wk, activeFd, handle, cache, now>>

\* serverJoinWorkers, then serverCleanup with remoteDbCacheClear.
JoinWorkers ==
    /\ stop = "joinWorkers" /\ \A w \in Workers : wk[w].pc = "exit"
    /\ stop' = "freed"
    /\ handle' = [h \in Handles |-> IF h \in cache THEN None ELSE handle[h]]
    /\ cache' = {}
    /\ UNCHANGED <<running, loop, conn, fd, queue, nBodyAlloc, wk, activeFd, now>>

ServerStop == RequestStop \/ JoinLoop \/ JoinWorkers

Next ==
    \/ ServerLoop
    \/ \E w \in Workers : WorkerStep(w)
    \/ ServerStop

Spec == Init /\ [][Next]_vars

(* Threads that can run are scheduled, requests of the kernel return and    *)
(* budgets run out. Nothing is assumed of the clients.                      *)
Fairness ==
    /\ \A c \in Conns : WF_vars(loop = "serve" /\ Expire(c)
                                /\ UNCHANGED <<running, loop, stop, activeFd, handle, cache, now>>)
    /\ WF_vars(ServerLoop /\ loop' = "done")
    /\ \A w \in Workers : WF_vars(WorkerStep(w))
    /\ WF_vars(JoinLoop \/ JoinWorkers)

FairSpec == Spec /\ Fairness

-----------------------------------------------------------------------------
(* Properties.                                                              *)

(* Every field holds a value it can have in the code; a reservation never  *)
(* drops below zero and a worker without a store has no handle.             *)
TypeOK ==
    /\ running \in BOOLEAN /\ loop \in {"serve", "done"}
    /\ stop \in {"run", "joinLoop", "joinWorkers", "freed"}
    /\ conn \in [Conns -> Conn]
    /\ fd \in [Fds -> Conns \cup {None}]
    /\ queue \in Seq(Conns) /\ nBodyAlloc \in Nat
    /\ wk \in [Workers -> Worker]
    /\ activeFd \in [Workers -> Fds \cup {None}]
    /\ handle \in [Handles -> Handle \cup {None}]
    /\ cache \subseteq Handles /\ now \in Nat

Using(h) == {w \in Workers : wk[w].h = h}

(* No worker uses a freed handle: while it waits for the mutex or is in the *)
(* store, its handle is in the cache under the path of its request and its  *)
(* reservation is counted (remoteDbAcquire, remoteDbCacheEvictOne).         *)
HandlesValid ==
    \A w \in Workers : wk[w].h # None =>
        /\ wk[w].h \in cache
        /\ handle[wk[w].h] # None
        /\ handle[wk[w].h].path = wk[w].db
        /\ handle[wk[w].h].res = Cardinality(Using(wk[w].h))

InStore(w) == wk[w].pc \in {"open", "handle"}

(* Two workers are never in the store of one database, and a write runs     *)
(* only on a store that is open for writing.                                *)
StoreExclusive ==
    \A w \in Workers : InStore(w) =>
        /\ \A v \in Workers \ {w} :
              InStore(v) => wk[v].db # wk[w].db
        /\ wk[w].pc = "handle" => Usable(w)

InUse == {h \in Handles : handle[h] # None /\ handle[h].res > 0}

(* A request for a store that is not cached leaves the cache within        *)
(* SERVER_DB_CACHE_MAX, or with no handle that could have been evicted; so  *)
(* it never outgrows the larger of the limit and the number of workers.     *)
CacheBounded ==
    [][Cardinality(cache') > Cardinality(cache) =>
          \/ Cardinality(cache') <= DbCacheMax
          \/ Cardinality(cache') <= Cardinality(InUse')]_vars

(* nBodyAlloc is the sum of the request buffers in the process and never    *)
(* above SERVER_BODY_BUFFER_MAX, on every path a request can leave by.      *)
BodyAccounted ==
    /\ nBodyAlloc = Cardinality(Units(Conns))
    /\ nBodyAlloc <= BodyMax

(* serverRequestStop shuts down only descriptors of connections that the    *)
(* workers still own, never one that was closed and opened again elsewhere. *)
ActiveOwned ==
    \A w \in Workers : activeFd[w] # None => fd[activeFd[w]] = wk[w].job

(* When doltliteServerStop returns, every connection that was accepted is   *)
(* closed, no buffer or handle is left and no job waits in the queue.       *)
NothingLeft ==
    stop = "freed" =>
        /\ \A c \in Conns : conn[c].at \in {"new", "closed"}
        /\ \A f \in Fds : fd[f] = None
        /\ queue = <<>> /\ nBodyAlloc = 0
        /\ \A h \in Handles : handle[h] = None

(* A connection that was accepted is answered or closed.                    *)
Answered == \A c \in Conns : (conn[c].at = "pending") ~> (conn[c].at = "closed")

(* doltliteServerStop returns.                                              *)
StopReturns == (stop # "run") ~> (stop = "freed")
-----------------------------------------------------------------------------
(* What holds in every reachable state and makes the properties inductive.  *)

Accepted == {"pending", "queued", "active"}
Resting == {"idle", "wait", "exit"}
Reserving == {"lock", "open", "handle", "unreserve"}

(* A descriptor belongs to exactly one connection, which was accepted and   *)
(* is not closed; a request has no body before its header.                  *)
ConnInv ==
    /\ \A c \in Conns : conn[c].at \notin Accepted => conn[c] = NoConn(conn[c].at)
    /\ \A c \in Conns : conn[c].at \in Accepted => conn[c].fd \in Fds /\ fd[conn[c].fd] = c
    /\ \A f \in Fds : fd[f] # None => conn[fd[f]].at \in Accepted /\ conn[fd[f]].fd = f
    /\ \A c \in Conns : ~conn[c].hdr => conn[c].need = 0 /\ conn[c].got = 0

(* The queue holds every queued connection once, and nothing after a stop.  *)
QueueInv ==
    /\ \A i \in DOMAIN queue : conn[queue[i]].at = "queued"
    /\ \A i, j \in DOMAIN queue : queue[i] = queue[j] => i = j
    /\ \A c \in Conns : conn[c].at = "queued" => c \in Range(queue)
    /\ ~running => queue = <<>>

(* A worker has a job exactly while it is not resting, every active         *)
(* connection is the job of one worker, and activeFd is its descriptor      *)
(* until the job is finished and its buffer given back.                     *)
JobInv ==
    /\ \A w \in Workers : wk[w].job # None <=> wk[w].pc \notin Resting
    /\ \A w \in Workers : wk[w].job # None => conn[wk[w].job].at = "active"
    /\ \A v, w \in Workers : wk[v].job # None /\ wk[v].job = wk[w].job => v = w
    /\ \A c \in Conns : conn[c].at = "active" => \E w \in Workers : wk[w].job = c
    /\ \A w \in Workers : activeFd[w] # None =>
          /\ wk[w].pc \notin Resting \cup {"close"}
          /\ activeFd[w] = conn[wk[w].job].fd
    /\ \A w \in Workers : wk[w].pc = "close" => conn[wk[w].job].alloc = 0

(* The order of doltliteServerStop.                                         *)
StopInv ==
    /\ running <=> stop = "run"
    /\ loop = "done" => ~running /\ At("pending") = {}
    /\ stop \in {"joinWorkers", "freed"} => loop = "done"
    /\ stop = "freed" => cache = {} /\ \A w \in Workers : wk[w].pc = "exit"

(* The handles are those in the cache, one to a path; a handle counts its   *)
(* users, and its mutex belongs to the one that is in the store.            *)
StoreInv ==
    /\ cache = {h \in Handles : handle[h] # None}
    /\ \A g, h \in cache : handle[g].path = handle[h].path => g = h
    /\ \A h \in cache : handle[h].res = Cardinality(Using(h))
    /\ \A w \in Workers : wk[w].h # None <=> wk[w].pc \in Reserving
    /\ \A w \in Workers : wk[w].h # None =>
          wk[w].h \in cache /\ handle[wk[w].h].path = wk[w].db
    /\ \A w \in Workers : InStore(w) => handle[wk[w].h].mu = w
    /\ \A h \in cache : handle[h].mu # None =>
          InStore(handle[h].mu) /\ wk[handle[h].mu].h = h
    /\ \A w \in Workers : wk[w].pc = "handle" => Usable(w)

ServerInv ==
    TypeOK /\ ConnInv /\ QueueInv /\ JobInv /\ StopInv /\ StoreInv /\ BodyAccounted
=============================================================================
