------------------------- MODULE RemoteServerProofs -------------------------
(***************************************************************************)
(* Proofs about RemoteServer: the invariant ServerInv is inductive for any *)
(* number of workers, connections, databases and handles and any limits,   *)
(* and the safety properties of the server follow from it.                 *)
(***************************************************************************)
EXTENDS RemoteServer, FiniteSetTheorems, WellFoundedInduction, TLAPS

-----------------------------------------------------------------------------
(* Sums of buffer sizes, counted in units.                                 *)

UnitsOf(C, a) == {u \in C \X (1..MaxRequest) : u[2] <= a[u[1]]}
Allocs == [c \in Conns |-> conn[c].alloc]
Sizing == [Conns -> 0..MaxRequest]

LEMMA ConnsFinite == IsFiniteSet(Conns) /\ IsFiniteSet(1..MaxRequest) /\ IsFiniteSet(Conns \X (1..MaxRequest))
<1>1. MaxConns \in Int /\ MaxRequest \in Int
  BY ConstantsAssumption
<1>2. IsFiniteSet(Conns) /\ IsFiniteSet(1..MaxRequest)
  BY <1>1, FS_Interval DEF Conns
<1>3. QED
  BY <1>2, FS_Product

LEMMA UnitsFinite ==
  ASSUME NEW C \in SUBSET Conns, NEW a
  PROVE  IsFiniteSet(UnitsOf(C, a)) /\ Cardinality(UnitsOf(C, a)) \in Nat
<1>1. UnitsOf(C, a) \in SUBSET (Conns \X (1..MaxRequest))
  BY DEF UnitsOf
<1>2. IsFiniteSet(UnitsOf(C, a))
  BY <1>1, ConnsFinite, FS_Subset
<1>3. QED
  BY <1>2, FS_CardinalityType

(* The units of one connection are as many as its size.                    *)
LEMMA UnitsOfOne ==
  ASSUME NEW a \in Sizing, NEW c \in Conns
  PROVE  Cardinality(UnitsOf({c}, a)) = a[c]
<1>0. a[c] \in 0..MaxRequest /\ MaxRequest \in Nat
  BY ConstantsAssumption DEF Sizing
<1>1. UnitsOf({c}, a) = {c} \X (1..a[c])
  <2>1. ASSUME NEW u \in UnitsOf({c}, a) PROVE u \in {c} \X (1..a[c])
    BY <1>0, <2>1 DEF UnitsOf
  <2>2. ASSUME NEW u \in {c} \X (1..a[c]) PROVE u \in UnitsOf({c}, a)
    BY <1>0, <2>2 DEF UnitsOf
  <2>3. QED
    BY <2>1, <2>2
<1>2. PICK k \in Nat : k = a[c]
  BY <1>0
<1>20. IsFiniteSet(1..k) /\ Cardinality(1..k) = IF 1 > k THEN 0 ELSE k - 1 + 1
  BY FS_Interval
<1>21. Cardinality(1..k) = k
  BY <1>20
<1>3. IsFiniteSet({c}) /\ Cardinality({c}) = 1
  BY FS_Singleton
<1>4. Cardinality({c} \X (1..k)) = Cardinality({c}) * Cardinality(1..k)
  BY <1>20, <1>3, FS_Product
<1>5. Cardinality({c} \X (1..k)) = k
  BY <1>21, <1>3, <1>4
<1>6. QED
  BY <1>1, <1>2, <1>5

(* What a set of connections and the others have together.                 *)
LEMMA UnitsSplit ==
  ASSUME NEW a, NEW C \in SUBSET Conns
  PROVE  Cardinality(UnitsOf(Conns, a)) =
           Cardinality(UnitsOf(C, a)) + Cardinality(UnitsOf(Conns \ C, a))
<1> DEFINE S == UnitsOf(C, a)
           T == UnitsOf(Conns \ C, a)
<1>1. UnitsOf(Conns, a) = S \cup T /\ S \cap T = {}
  BY DEF UnitsOf
<1>2. /\ IsFiniteSet(S) /\ IsFiniteSet(T)
      /\ Cardinality(S) \in Nat /\ Cardinality(T) \in Nat
  BY UnitsFinite
<1> HIDE DEF S, T
<1>3. Cardinality(S \cup T) = Cardinality(S) + Cardinality(T) - Cardinality(S \cap T)
  BY <1>2, FS_Union
<1>4. Cardinality(S \cap T) = 0
  BY <1>1, FS_EmptySet
<1>5. QED
  BY <1>1, <1>2, <1>3, <1>4 DEF S, T

(* One buffer changes.                                                     *)
LEMMA UnitsResize ==
  ASSUME NEW a \in Sizing, NEW b \in Sizing, NEW c \in Conns,
         \A d \in Conns : d # c => a[d] = b[d]
  PROVE  Cardinality(UnitsOf(Conns, b)) = Cardinality(UnitsOf(Conns, a)) - a[c] + b[c]
<1>1. UnitsOf(Conns \ {c}, a) = UnitsOf(Conns \ {c}, b)
  BY DEF UnitsOf
<1>2. Cardinality(UnitsOf({c}, a)) = a[c] /\ Cardinality(UnitsOf({c}, b)) = b[c]
  BY UnitsOfOne
<1>3. /\ Cardinality(UnitsOf(Conns, a)) = a[c] + Cardinality(UnitsOf(Conns \ {c}, a))
      /\ Cardinality(UnitsOf(Conns, b)) = b[c] + Cardinality(UnitsOf(Conns \ {c}, b))
  BY <1>2, UnitsSplit
<1>4. Cardinality(UnitsOf(Conns \ {c}, a)) \in Nat /\ a[c] \in Nat /\ b[c] \in Nat
  BY UnitsFinite, ConstantsAssumption DEF Sizing
<1> HIDE DEF UnitsOf
<1>5. QED
  BY <1>1, <1>3, <1>4

(* The buffers of C are given back.                                        *)
LEMMA UnitsRelease ==
  ASSUME NEW a \in Sizing, NEW b \in Sizing, NEW C \in SUBSET Conns,
         \A d \in Conns : b[d] = IF d \in C THEN 0 ELSE a[d]
  PROVE  Cardinality(UnitsOf(Conns, b)) =
           Cardinality(UnitsOf(Conns, a)) - Cardinality(UnitsOf(C, a))
<1>1. UnitsOf(Conns \ C, a) = UnitsOf(Conns \ C, b)
  BY DEF UnitsOf
<1>2. UnitsOf(C, b) = {}
  BY DEF UnitsOf
<1>3. Cardinality(UnitsOf(C, b)) = 0
  BY <1>2, FS_EmptySet
<1>4. /\ Cardinality(UnitsOf(Conns, a)) =
           Cardinality(UnitsOf(C, a)) + Cardinality(UnitsOf(Conns \ C, a))
      /\ Cardinality(UnitsOf(Conns, b)) =
           Cardinality(UnitsOf(C, b)) + Cardinality(UnitsOf(Conns \ C, b))
  BY UnitsSplit
<1>5. Cardinality(UnitsOf(Conns \ C, a)) \in Nat /\ Cardinality(UnitsOf(C, a)) \in Nat
  BY UnitsFinite
<1>6. QED
  BY <1>1, <1>3, <1>4, <1>5

-----------------------------------------------------------------------------
(* The body accounting of one step.                                        *)

LEMMA AllocsSized ==
  ASSUME TypeOK
  PROVE  /\ Allocs \in Sizing
         /\ \A C \in SUBSET Conns : Units(C) = UnitsOf(C, Allocs)
<1>1. conn \in [Conns -> Conn]
  BY DEF TypeOK
<1>2. \A c \in Conns : conn[c].alloc \in 0..MaxRequest
  BY <1>1 DEF Conn
<1>3. ASSUME NEW C \in SUBSET Conns PROVE Units(C) = UnitsOf(C, Allocs)
  <2>1. \A u \in C \X (1..MaxRequest) : Allocs[u[1]] = conn[u[1]].alloc
    BY DEF Allocs
  <2>2. QED
    BY <2>1 DEF Units, UnitsOf
<1>4. QED
  BY <1>2, <1>3 DEF Allocs, Sizing

(* The buffer of one connection changes and nBodyAlloc with it.            *)
LEMMA BodyResize ==
  ASSUME TypeOK, BodyAccounted, NEW c \in Conns, NEW r \in Conn,
         conn' = [conn EXCEPT ![c] = r],
         nBodyAlloc' = nBodyAlloc + r.alloc - conn[c].alloc, nBodyAlloc' <= BodyMax
  PROVE  BodyAccounted' /\ nBodyAlloc' \in Nat
<1> DEFINE a == Allocs
           b == [d \in Conns |-> IF d = c THEN r.alloc ELSE a[d]]
<1>1. a \in Sizing /\ Units(Conns) = UnitsOf(Conns, a) /\ a[c] = conn[c].alloc
  BY AllocsSized DEF Allocs
<1>2. b \in Sizing /\ b[c] = r.alloc /\ \A d \in Conns : d # c => a[d] = b[d]
  BY <1>1 DEF Sizing, Conn
<1>3. conn \in [Conns -> Conn] /\ \A d \in Conns : conn'[d].alloc = b[d]
  BY <1>2 DEF TypeOK, Allocs
<1>4. Units(Conns)' = UnitsOf(Conns, b)
  <2>1. \A u \in Conns \X (1..MaxRequest) : b[u[1]] = conn'[u[1]].alloc
    BY <1>3
  <2> HIDE DEF b
  <2>2. QED
    BY <2>1 DEF Units, UnitsOf
<1> HIDE DEF a, b
<1>5. Cardinality(UnitsOf(Conns, b)) = Cardinality(UnitsOf(Conns, a)) - a[c] + b[c]
  BY <1>1, <1>2, UnitsResize
<1>6. /\ Cardinality(UnitsOf(Conns, b)) \in Nat /\ Cardinality(UnitsOf(Conns, a)) \in Nat
      /\ a[c] \in Nat /\ b[c] \in Nat
  BY <1>1, <1>2, UnitsFinite, ConstantsAssumption DEF Sizing
<1>7. nBodyAlloc' = Cardinality(UnitsOf(Conns, b))
  BY <1>1, <1>2, <1>5, <1>6 DEF BodyAccounted
<1>8. QED
  BY <1>4, <1>6, <1>7 DEF BodyAccounted

(* No buffer changes.                                                      *)
LEMMA BodyKept ==
  ASSUME BodyAccounted, \A d \in Conns : conn'[d].alloc = conn[d].alloc,
         nBodyAlloc' = nBodyAlloc
  PROVE  BodyAccounted'
<1>1. Units(Conns)' = Units(Conns)
  BY DEF Units
<1>2. QED
  BY <1>1 DEF BodyAccounted

(* The buffers of the connections C are given back.                        *)
LEMMA BodyRelease ==
  ASSUME TypeOK, BodyAccounted, NEW C \in SUBSET Conns,
         \A d \in Conns : conn'[d].alloc = IF d \in C THEN 0 ELSE conn[d].alloc,
         nBodyAlloc' = nBodyAlloc - Cardinality(Units(C))
  PROVE  BodyAccounted' /\ nBodyAlloc' \in Nat
<1> DEFINE a == Allocs
           b == [d \in Conns |-> IF d \in C THEN 0 ELSE a[d]]
<1>1. /\ a \in Sizing /\ Units(Conns) = UnitsOf(Conns, a) /\ Units(C) = UnitsOf(C, a)
  BY AllocsSized
<1>2. b \in Sizing /\ \A d \in Conns : b[d] = IF d \in C THEN 0 ELSE a[d]
  BY <1>1, ConstantsAssumption DEF Sizing
<1>3. \A d \in Conns : conn'[d].alloc = b[d]
  BY <1>2 DEF Allocs
<1>4. Units(Conns)' = UnitsOf(Conns, b)
  <2>1. \A u \in Conns \X (1..MaxRequest) : b[u[1]] = conn'[u[1]].alloc
    BY <1>3
  <2> HIDE DEF b
  <2>2. QED
    BY <2>1 DEF Units, UnitsOf
<1> HIDE DEF a, b
<1>5. Cardinality(UnitsOf(Conns, b)) = Cardinality(UnitsOf(Conns, a)) - Cardinality(UnitsOf(C, a))
  BY <1>1, <1>2, UnitsRelease
<1>6. /\ Cardinality(UnitsOf(Conns, b)) \in Nat /\ Cardinality(UnitsOf(Conns, a)) \in Nat
      /\ Cardinality(UnitsOf(C, a)) \in Nat /\ BodyMax \in Nat
  BY UnitsFinite, ConstantsAssumption
<1>7. nBodyAlloc' = Cardinality(UnitsOf(Conns, b)) /\ nBodyAlloc' <= BodyMax
  BY <1>1, <1>5, <1>6 DEF BodyAccounted
<1>8. QED
  BY <1>4, <1>6, <1>7 DEF BodyAccounted

-----------------------------------------------------------------------------
(* Parts of the invariant that a step leaves alone.                        *)

(* No worker enters or leaves a handle.                                    *)
LEMMA StoreKept ==
  ASSUME TypeOK, StoreInv, UNCHANGED <<handle, cache>>,
         \A w \in Workers :
            \/ /\ wk'[w].pc = wk[w].pc /\ wk'[w].h = wk[w].h
               /\ wk'[w].db = wk[w].db /\ wk'[w].write = wk[w].write
            \/ wk[w].pc \notin Reserving /\ wk'[w].pc \notin Reserving /\ wk'[w].h = None
  PROVE  StoreInv'
<1>1. \A w \in Workers : wk[w].h = wk'[w].h
  BY DEF StoreInv
<1>2. \A h : Using(h)' = Using(h)
  BY <1>1 DEF Using
<1>3. \A w \in Workers : InStore(w)' = InStore(w)
  BY DEF InStore, Reserving
<1>4. \A w \in Workers : wk'[w].pc = "handle" => wk[w].pc = "handle" /\ wk'[w].write = wk[w].write
  BY DEF Reserving
<1>5. \A w \in Workers : wk'[w].pc = "handle" => Usable(w)'
  BY <1>1, <1>4 DEF StoreInv, Usable
<1>6. \A w \in Workers : wk'[w].h # None => wk'[w].db = wk[w].db
  BY DEF StoreInv
<1>7. \A w \in Workers : wk'[w].h # None <=> wk'[w].pc \in Reserving
  BY <1>1 DEF StoreInv
<1>8. \A h \in cache : handle[h].mu \in Workers \cup {None}
  BY DEF StoreInv, TypeOK, Handle
<1>9. \A h \in cache : handle[h].mu # None => InStore(handle[h].mu)' /\ wk'[handle[h].mu].h = h
  BY <1>1, <1>3, <1>8 DEF StoreInv
<1>10. QED
  BY <1>1, <1>2, <1>3, <1>5, <1>6, <1>7, <1>9 DEF StoreInv

(* No connection becomes or stops being a worker's job.                    *)
LEMMA JobKept ==
  ASSUME JobInv, UNCHANGED activeFd,
         \A w \in Workers : /\ wk'[w].job = wk[w].job
                            /\ wk[w].pc \in Resting <=> wk'[w].pc \in Resting
                            /\ wk'[w].pc = "close" => wk[w].pc = "close",
         \A w \in Workers : wk[w].job # None => wk[w].job \in Conns,
         \A c \in Conns : /\ conn[c].at = "active" <=> conn'[c].at = "active"
                          /\ conn[c].at = "active" => conn'[c].fd = conn[c].fd /\ conn'[c].alloc = conn[c].alloc
  PROVE  JobInv'
<1>1. \A w \in Workers : activeFd[w] # None => wk[w].job # None
  BY DEF JobInv
<1>2. \A w \in Workers : wk[w].job # None => conn[wk[w].job].at = "active"
  BY DEF JobInv
<1>3. \A w \in Workers : wk'[w].pc = "close" => wk[w].pc = "close" /\ wk[w].job # None
  BY DEF JobInv, Resting
<1>4. QED
  BY <1>1, <1>2, <1>3 DEF JobInv

-----------------------------------------------------------------------------
(* The accept thread.                                                      *)

LEMMA NoConnType == \A at \in {"new", "pending", "queued", "active", "closed"} : NoConn(at) \in Conn
  BY ConstantsAssumption DEF NoConn, Conn

LEMMA ConnRecord ==
  ASSUME NEW r \in Conn
  PROVE  /\ r.hdr \in BOOLEAN /\ r.ok \in BOOLEAN
         /\ r.need \in Nat /\ r.got \in Nat /\ r.alloc \in Nat
         /\ r.need <= MaxRequest /\ r.got <= MaxRequest /\ r.alloc <= MaxRequest
  BY ConstantsAssumption DEF Conn

(* A request that becomes a job, and one that has grown.                   *)
LEMMA QueuedRecord ==
  ASSUME NEW r \in Conn
  PROVE  LET s == [r EXCEPT !.at = "queued", !.need = 0, !.got = 0]
         IN  /\ s \in Conn /\ s.at = "queued" /\ s.fd = r.fd
             /\ s.need = 0 /\ s.got = 0 /\ s.alloc = r.alloc
<1>1. 0 \in 0..MaxRequest
  BY ConstantsAssumption
<1>2. QED
  BY <1>1 DEF Conn

LEMMA GrownRecord ==
  ASSUME NEW r \in Conn, NEW g \in 0..MaxRequest, NEW a \in 0..MaxRequest
  PROVE  LET s == [r EXCEPT !.got = g, !.alloc = a]
         IN  /\ s \in Conn /\ s.at = r.at /\ s.fd = r.fd /\ s.hdr = r.hdr
             /\ s.alloc = a
  BY DEF Conn

LEMMA ConnFields ==
  ASSUME TypeOK, NEW c \in Conns
  PROVE  /\ conn[c] \in Conn /\ conn[c].hdr \in BOOLEAN /\ conn[c].ok \in BOOLEAN
         /\ conn[c].need \in Nat /\ conn[c].got \in Nat /\ conn[c].alloc \in Nat
         /\ conn[c].need <= MaxRequest /\ conn[c].got <= MaxRequest
         /\ conn[c].alloc <= MaxRequest
<1>1. conn[c] \in Conn
  BY DEF TypeOK
<1>2. QED
  BY <1>1, ConstantsAssumption DEF Conn

(* Jobs are connections.                                                   *)
LEMMA JobsConns ==
  ASSUME TypeOK
  PROVE  \A w \in Workers : wk[w].job # None => wk[w].job \in Conns
  BY DEF TypeOK, Worker

(* A signal moves at most one worker, from waiting to the head of its loop. *)
LEMMA SignalMoves ==
  ASSUME TypeOK, Signal
  PROVE  /\ wk' \in [Workers -> Worker]
         /\ \A w \in Workers : \/ wk'[w] = wk[w]
                               \/ wk[w].pc = "wait" /\ wk'[w] = [wk[w] EXCEPT !.pc = "idle"]
<1>0. wk \in [Workers -> Worker]
  BY DEF TypeOK
<1>1. CASE UNCHANGED wk
  BY <1>0, <1>1
<1>2. CASE \E w \in Workers : wk[w].pc = "wait" /\ Goto(w, "idle")
  <2>1. PICK w \in Workers : wk[w].pc = "wait" /\ wk' = [wk EXCEPT ![w].pc = "idle"]
    BY <1>2 DEF Goto
  <2>2. [wk[w] EXCEPT !.pc = "idle"] \in Worker
    BY <1>0 DEF Worker
  <2>3. QED
    BY <1>0, <2>1, <2>2
<1>3. QED
  BY <1>1, <1>2 DEF Signal

(* What a step of the accept thread leaves alone, and how it may move the  *)
(* workers.                                                                *)
LoopFrame ==
  /\ loop = "serve" /\ UNCHANGED <<running, loop, stop, activeFd, handle, cache, now>>
  /\ wk' \in [Workers -> Worker]
  /\ \A w \in Workers : \/ wk'[w] = wk[w]
                        \/ wk[w].pc = "wait" /\ wk'[w] = [wk[w] EXCEPT !.pc = "idle"]

(* The parts that are not about the connection c itself.                   *)
LEMMA LoopKept ==
  ASSUME ServerInv, LoopFrame, NEW c \in Conns, conn[c].at # "active", conn'[c].at # "active",
         \A d \in Conns : d # c => conn'[d] = conn[d]
  PROVE  JobInv' /\ StopInv' /\ StoreInv'
<1>0. wk \in [Workers -> Worker] /\ TypeOK
  BY DEF ServerInv, TypeOK
<1>1. \A w \in Workers : /\ wk'[w].job = wk[w].job /\ wk'[w].h = wk[w].h
                         /\ wk'[w].db = wk[w].db /\ wk'[w].write = wk[w].write
                         /\ \/ wk'[w].pc = wk[w].pc
                            \/ wk[w].pc = "wait" /\ wk'[w].pc = "idle"
  BY <1>0 DEF LoopFrame, Worker
<1>2. JobInv'
  <2>1. \A d \in Conns : /\ conn[d].at = "active" <=> conn'[d].at = "active"
                         /\ conn[d].at = "active" => conn'[d].fd = conn[d].fd /\ conn'[d].alloc = conn[d].alloc
    OBVIOUS
  <2>2. \A w \in Workers : /\ wk'[w].job = wk[w].job
                           /\ wk[w].pc \in Resting <=> wk'[w].pc \in Resting
                           /\ wk'[w].pc = "close" => wk[w].pc = "close"
    BY <1>1 DEF Resting
  <2>3. QED
    BY <1>0, <2>1, <2>2, JobKept, JobsConns DEF LoopFrame, ServerInv
<1>3. StopInv'
  BY DEF StopInv, ServerInv, LoopFrame, At
<1>4. StoreInv'
  <2>1. \A w \in Workers :
            \/ /\ wk'[w].pc = wk[w].pc /\ wk'[w].h = wk[w].h
               /\ wk'[w].db = wk[w].db /\ wk'[w].write = wk[w].write
            \/ wk[w].pc \notin Reserving /\ wk'[w].pc \notin Reserving /\ wk'[w].h = None
    BY <1>1 DEF Reserving, StoreInv, ServerInv
  <2>2. QED
    BY <1>0, <2>1, StoreKept DEF LoopFrame, ServerInv
<1>5. QED
  BY <1>2, <1>3, <1>4

(* pendingClose gives back what the connection has, whatever its buffer    *)
(* was about to become.                                                    *)
LEMMA CloseStep ==
  ASSUME ServerInv, LoopFrame, NEW c \in Conns, conn[c].at = "pending",
         NEW a \in Int, NEW n \in Int, n - a = nBodyAlloc - conn[c].alloc,
         PendingClose(c, a, n)
  PROVE  ServerInv'
<1> DEFINE r == NoConn("closed")
<1>0. /\ TypeOK /\ ConnInv /\ QueueInv /\ BodyAccounted
      /\ conn \in [Conns -> Conn] /\ fd \in [Fds -> Conns \cup {None}] /\ nBodyAlloc \in Nat
      /\ conn[c].alloc \in Nat
  BY ConnFields DEF ServerInv, TypeOK
<1>1. /\ r \in Conn /\ r.at = "closed" /\ r.fd = None /\ r.alloc = 0
      /\ r = NoConn(r.at) /\ r.need = 0 /\ r.got = 0
  BY NoConnType DEF NoConn
<1>2. /\ conn' = [conn EXCEPT ![c] = r] /\ fd' = [fd EXCEPT ![conn[c].fd] = None]
      /\ nBodyAlloc' = nBodyAlloc - conn[c].alloc /\ queue' = queue
  BY DEF PendingClose
<1> HIDE DEF r
<1>3. BodyAccounted' /\ nBodyAlloc' \in Nat
  <2>1. nBodyAlloc' = nBodyAlloc + r.alloc - conn[c].alloc
    BY <1>0, <1>1, <1>2
  <2>2. nBodyAlloc' <= BodyMax
    BY <1>0, <1>2, ConstantsAssumption DEF BodyAccounted
  <2>3. QED
    BY <1>0, <1>1, <1>2, <2>1, <2>2, BodyResize
<1>4. conn[c].fd \in Fds /\ fd[conn[c].fd] = c
  BY <1>0 DEF ConnInv, Accepted
<1>5. TypeOK'
  BY <1>0, <1>1, <1>2, <1>3 DEF TypeOK, LoopFrame
<1>6. ConnInv'
  <2>1. \A d \in Conns : d # c => conn'[d] = conn[d]
    BY <1>0, <1>2
  <2>2. conn'[c] = r
    BY <1>0, <1>2
  <2>3. \A d \in Conns : conn'[d].at \notin Accepted => conn'[d] = NoConn(conn'[d].at)
    BY <1>0, <1>1, <2>1, <2>2 DEF ConnInv
  <2>4. \A d \in Conns : conn'[d].at \in Accepted => conn'[d].fd \in Fds /\ fd'[conn'[d].fd] = d
    BY <1>0, <1>1, <1>2, <1>4, <2>1, <2>2 DEF ConnInv, Accepted
  <2>5. \A f \in Fds : fd'[f] # None => conn'[fd'[f]].at \in Accepted /\ conn'[fd'[f]].fd = f
    BY <1>0, <1>2, <1>4, <2>1 DEF ConnInv
  <2>6. \A d \in Conns : ~conn'[d].hdr => conn'[d].need = 0 /\ conn'[d].got = 0
    BY <1>0, <1>1, <2>1, <2>2 DEF ConnInv
  <2>7. QED
    BY <2>3, <2>4, <2>5, <2>6 DEF ConnInv
<1>7. QueueInv'
  BY <1>0, <1>1, <1>2 DEF QueueInv, LoopFrame, Range, TypeOK
<1>8. JobInv' /\ StopInv' /\ StoreInv'
  BY <1>0, <1>1, <1>2, LoopKept
<1>9. QED
  BY <1>3, <1>5, <1>6, <1>7, <1>8 DEF ServerInv

(* pendingIngest keeps what it has read of the request.                    *)
LEMMA ReadStep ==
  ASSUME ServerInv, LoopFrame, NEW c \in Conns, conn[c].at = "pending",
         NEW r \in Conn, r.at = "pending", r.fd = conn[c].fd,
         ~r.hdr => r.need = 0 /\ r.got = 0,
         conn' = [conn EXCEPT ![c] = r], UNCHANGED <<fd, queue>>,
         nBodyAlloc' = nBodyAlloc + r.alloc - conn[c].alloc, nBodyAlloc' <= BodyMax
  PROVE  ServerInv'
<1>0. /\ TypeOK /\ ConnInv /\ QueueInv /\ BodyAccounted
      /\ conn \in [Conns -> Conn] /\ fd \in [Fds -> Conns \cup {None}]
  BY DEF ServerInv, TypeOK
<1>1. BodyAccounted' /\ nBodyAlloc' \in Nat
  BY <1>0, BodyResize
<1>2. (\A d \in Conns : d # c => conn'[d] = conn[d]) /\ conn'[c] = r
  BY <1>0
<1>3. TypeOK'
  BY <1>0, <1>1 DEF TypeOK, LoopFrame
<1>4. ConnInv'
  <2>1. \A d \in Conns : conn'[d].at \notin Accepted => conn'[d] = NoConn(conn'[d].at)
    BY <1>0, <1>2 DEF ConnInv, Accepted
  <2>2. \A d \in Conns : conn'[d].at \in Accepted => conn'[d].fd \in Fds /\ fd'[conn'[d].fd] = d
    BY <1>0, <1>2 DEF ConnInv, Accepted
  <2>3. \A f \in Fds : fd'[f] # None => conn'[fd'[f]].at \in Accepted /\ conn'[fd'[f]].fd = f
    BY <1>0, <1>2 DEF ConnInv, Accepted
  <2>4. \A d \in Conns : ~conn'[d].hdr => conn'[d].need = 0 /\ conn'[d].got = 0
    BY <1>0, <1>2 DEF ConnInv
  <2>5. QED
    BY <2>1, <2>2, <2>3, <2>4 DEF ConnInv
<1>5. QueueInv'
  BY <1>0, <1>2 DEF QueueInv, LoopFrame, Range, TypeOK
<1>6. JobInv' /\ StopInv' /\ StoreInv'
  BY <1>2, LoopKept
<1>7. QED
  BY <1>1, <1>3, <1>4, <1>5, <1>6 DEF ServerInv

(* enqueueJob accepts.                                                     *)
LEMMA QueuedStep ==
  ASSUME ServerInv, LoopFrame, NEW c \in Conns, conn[c].at = "pending", running,
         NEW r \in Conn, r.at = "queued", r.fd = conn[c].fd, r.need = 0, r.got = 0,
         conn' = [conn EXCEPT ![c] = r], UNCHANGED fd, queue' = Append(queue, c),
         nBodyAlloc' = nBodyAlloc + r.alloc - conn[c].alloc, nBodyAlloc' <= BodyMax
  PROVE  ServerInv'
<1>0. /\ TypeOK /\ ConnInv /\ QueueInv /\ BodyAccounted
      /\ conn \in [Conns -> Conn] /\ fd \in [Fds -> Conns \cup {None}] /\ queue \in Seq(Conns)
  BY DEF ServerInv, TypeOK
<1>1. BodyAccounted' /\ nBodyAlloc' \in Nat
  BY <1>0, BodyResize
<1>2. (\A d \in Conns : d # c => conn'[d] = conn[d]) /\ conn'[c] = r
  BY <1>0
<1>3. TypeOK'
  BY <1>0, <1>1 DEF TypeOK, LoopFrame
<1>4. ConnInv'
  <2>1. \A d \in Conns : conn'[d].at \notin Accepted => conn'[d] = NoConn(conn'[d].at)
    BY <1>0, <1>2 DEF ConnInv, Accepted
  <2>2. \A d \in Conns : conn'[d].at \in Accepted => conn'[d].fd \in Fds /\ fd'[conn'[d].fd] = d
    BY <1>0, <1>2 DEF ConnInv, Accepted
  <2>3. \A f \in Fds : fd'[f] # None => conn'[fd'[f]].at \in Accepted /\ conn'[fd'[f]].fd = f
    BY <1>0, <1>2 DEF ConnInv, Accepted
  <2>4. \A d \in Conns : ~conn'[d].hdr => conn'[d].need = 0 /\ conn'[d].got = 0
    BY <1>0, <1>2 DEF ConnInv
  <2>5. QED
    BY <2>1, <2>2, <2>3, <2>4 DEF ConnInv
<1>5. QueueInv'
  <2>1. /\ DOMAIN queue = 1..Len(queue) /\ DOMAIN queue' = 1..(Len(queue) + 1)
        /\ Len(queue) \in Nat /\ queue'[Len(queue) + 1] = c
        /\ \A i \in DOMAIN queue : queue'[i] = queue[i] /\ queue[i] \in Conns
    BY <1>0
  <2>2. \A i \in DOMAIN queue' : i \in DOMAIN queue \/ i = Len(queue) + 1
    BY <2>1
  <2>3. \A i \in DOMAIN queue : queue[i] # c /\ conn[queue[i]].at = "queued"
    BY <1>0 DEF QueueInv
  <2>4. \A i \in DOMAIN queue' : conn'[queue'[i]].at = "queued"
    BY <1>2, <2>1, <2>2, <2>3
  <2>5. \A i, j \in DOMAIN queue' : queue'[i] = queue'[j] => i = j
    BY <1>0, <2>1, <2>2, <2>3 DEF QueueInv
  <2>6. \A d \in Conns : conn'[d].at = "queued" => \E i \in DOMAIN queue' : queue'[i] = d
    <3>1. ASSUME NEW d \in Conns, d # c, conn'[d].at = "queued" PROVE \E i \in DOMAIN queue' : queue'[i] = d
      <4>1. \E i \in DOMAIN queue : queue[i] = d
        BY <1>0, <1>2, <3>1 DEF QueueInv, Range
      <4>2. QED
        BY <2>1, <4>1
    <3>2. QED
      BY <2>1, <3>1
  <2>7. QED
    BY <2>4, <2>5, <2>6 DEF QueueInv, Range, LoopFrame
<1>6. JobInv' /\ StopInv' /\ StoreInv'
  BY <1>2, LoopKept
<1>7. QED
  BY <1>1, <1>3, <1>4, <1>5, <1>6 DEF ServerInv

(* The environment of a step of the accept thread that signals or not.     *)
LoopVars == loop = "serve" /\ UNCHANGED <<running, loop, stop, activeFd, handle, cache, now>>

LEMMA QuietFrame ==
  ASSUME TypeOK, LoopVars, UNCHANGED wk
  PROVE  LoopFrame
  BY DEF TypeOK, LoopVars, LoopFrame

LEMMA SignalFrame ==
  ASSUME TypeOK, LoopVars, Signal
  PROVE  LoopFrame
  BY SignalMoves DEF LoopVars, LoopFrame

(* pendingPromote: queued, or closed.                                      *)
LEMMA PromoteStep ==
  ASSUME ServerInv, LoopVars, NEW c \in Conns, conn[c].at = "pending",
         NEW r \in Conn, r.at = "pending", r.fd = conn[c].fd, NEW n \in Nat,
         n = nBodyAlloc + r.alloc - conn[c].alloc, n <= BodyMax,
         PendingPromote(c, r, n)
  PROVE  ServerInv'
<1>0. TypeOK /\ r.alloc \in Nat /\ nBodyAlloc \in Nat /\ conn[c].alloc \in Nat
  BY ConnFields, ConnRecord DEF ServerInv, TypeOK
<1>1. CASE PendingClose(c, r.alloc, n)
  <2>1. UNCHANGED wk /\ n - r.alloc = nBodyAlloc - conn[c].alloc
    BY <1>0, <1>1 DEF PendingClose
  <2>2. r.alloc \in Int /\ n \in Int /\ LoopFrame
    BY <1>0, <2>1, QuietFrame
  <2>3. QED
    BY <1>1, <2>1, <2>2, CloseStep
<1>2. CASE ~PendingClose(c, r.alloc, n)
  <2> DEFINE s == [r EXCEPT !.at = "queued", !.need = 0, !.got = 0]
  <2>1. /\ running /\ queue' = Append(queue, c) /\ conn' = [conn EXCEPT ![c] = s]
        /\ nBodyAlloc' = n /\ Signal /\ UNCHANGED fd
    BY <1>2 DEF PendingPromote, EnqueueJob
  <2>2. /\ s \in Conn /\ s.at = "queued" /\ s.fd = r.fd /\ s.need = 0 /\ s.got = 0
        /\ s.alloc = r.alloc
    BY QueuedRecord
  <2>3. LoopFrame
    BY <1>0, <2>1, SignalFrame
  <2> HIDE DEF s
  <2>4. nBodyAlloc' = nBodyAlloc + s.alloc - conn[c].alloc /\ nBodyAlloc' <= BodyMax
    BY <2>1, <2>2
  <2>5. QED
    BY <2>1, <2>2, <2>3, <2>4, QueuedStep
<1>3. QED
  BY <1>1, <1>2

(* A nonempty set of numbers has a least element, and Min is it.           *)
LEMMA MinIsLeast ==
  ASSUME NEW S \in SUBSET Nat, S # {}
  PROVE  Min(S) \in S /\ \A y \in S : Min(S) <= y
<1> DEFINE R == OpToRel(<, Nat)
<1>1. IsWellFoundedOn(R, Nat)
  BY NatLessThanWellFounded, Zenon
<1>2. PICK x \in S : \A y \in S : ~(<<y, x>> \in R)
  BY <1>1, WFMin, Zenon
<1>3. \A y \in S : ~(y < x)
  BY <1>2 DEF OpToRel
<1>4. \A y \in S : x =< y
  BY <1>3
<1>5. QED
  BY <1>4 DEF Min

(* remoteSrvGrowBuf ends at a size that is enough and within the limit.    *)
LEMMA AllocEnough ==
  ASSUME NEW n \in 0..MaxRequest
  PROVE  AllocFor(n) \in 0..MaxRequest /\ n <= AllocFor(n)
<1> DEFINE S == {a \in Sizes : a >= n}
<1>1. Sizes \subseteq 0..MaxRequest /\ MaxRequest \in Sizes /\ MaxRequest \in Nat
  BY ConstantsAssumption DEF Sizes
<1>2. S \in SUBSET Nat /\ S \subseteq 0..MaxRequest /\ MaxRequest \in S
  <2>0. S \subseteq Sizes
    OBVIOUS
  <2>1. S \subseteq 0..MaxRequest /\ S \subseteq Nat
    <3> HIDE DEF S
    <3>1. QED
      BY <1>1, <2>0
  <2>2. MaxRequest >= n
    BY <1>1
  <2>3. QED
    BY <1>1, <2>1, <2>2
<1>3. \A a \in S : n <= a
  BY <1>1
<1>4. AllocFor(n) = Min(S)
  BY DEF AllocFor
<1> HIDE DEF S
<1>5. Min(S) \in S
  BY <1>2, MinIsLeast
<1>6. QED
  BY <1>2, <1>3, <1>4, <1>5

(* pendingAppendBody.                                                      *)
LEMMA AppendBodyStep ==
  ASSUME ServerInv, LoopVars, NEW c \in Conns, conn[c].at = "pending",
         NEW r \in Conn, r.at = "pending", r.fd = conn[c].fd, r.hdr, r.alloc = conn[c].alloc,
         NEW n \in Nat, r.got + n <= MaxRequest,
         PendingAppendBody(c, r, n)
  PROVE  ServerInv'
<1> DEFINE got == r.got + n
           more == IF got > r.alloc THEN AllocFor(got) - r.alloc ELSE 0
           grown == [r EXCEPT !.got = got, !.alloc = @ + more]
<1>0. /\ TypeOK /\ nBodyAlloc \in Nat /\ BodyMax \in Nat /\ nBodyAlloc <= BodyMax
      /\ r.alloc \in Nat /\ r.alloc <= MaxRequest /\ got \in 0..MaxRequest
  <2>1. TypeOK /\ nBodyAlloc \in Nat /\ nBodyAlloc <= BodyMax
    BY DEF ServerInv, TypeOK, BodyAccounted
  <2>2. BodyMax \in Nat /\ MaxRequest \in Nat
    BY ConstantsAssumption
  <2>3. r.alloc \in Nat /\ r.alloc <= MaxRequest /\ r.got \in Nat
    BY ConnRecord
  <2>4. got \in 0..MaxRequest
    BY <2>2, <2>3
  <2>5. QED
    BY <2>1, <2>2, <2>3, <2>4
<1>1. more \in Nat /\ r.alloc + more \in 0..MaxRequest
  <2>0. AllocFor(got) \in 0..MaxRequest /\ got <= AllocFor(got) /\ MaxRequest \in Nat
    BY <1>0, AllocEnough, ConstantsAssumption
  <2> HIDE DEF got
  <2>1. QED
    BY <1>0, <2>0
<1>2. PICK a \in 0..MaxRequest, g \in 0..MaxRequest : a = r.alloc + more /\ g = got
  BY <1>0, <1>1
<1>3. grown = [r EXCEPT !.got = g, !.alloc = a]
  BY <1>2
<1>4. /\ grown \in Conn /\ grown.at = "pending" /\ grown.fd = conn[c].fd /\ grown.hdr
      /\ grown.alloc = r.alloc + more
  <2> HIDE DEF got, more, grown
  <2>1. /\ grown \in Conn /\ grown.at = r.at /\ grown.fd = r.fd /\ grown.hdr = r.hdr
        /\ grown.alloc = a
    BY <1>3, GrownRecord, Zenon
  <2>2. QED
    BY <1>2, <2>1
<1>5. \/ more > BodyMax - nBodyAlloc /\ PendingClose(c, r.alloc, nBodyAlloc)
      \/ more <= BodyMax - nBodyAlloc /\ PendingClose(c, r.alloc, nBodyAlloc + more - more)
      \/ /\ more <= BodyMax - nBodyAlloc
         /\ \/ PendingPromote(c, grown, nBodyAlloc + more)
            \/ /\ conn' = [conn EXCEPT ![c] = grown]
               /\ nBodyAlloc' = nBodyAlloc + more
               /\ UNCHANGED <<fd, queue, wk>>
  BY DEF PendingAppendBody
<1> HIDE DEF got, more, grown
<1>6. CASE PendingClose(c, r.alloc, nBodyAlloc) \/ PendingClose(c, r.alloc, nBodyAlloc + more - more)
  <2>1. nBodyAlloc + more - more = nBodyAlloc
    BY <1>0, <1>1
  <2>2. PendingClose(c, r.alloc, nBodyAlloc) /\ UNCHANGED wk
    BY <1>6, <2>1 DEF PendingClose
  <2>3. nBodyAlloc - r.alloc = nBodyAlloc - conn[c].alloc /\ r.alloc \in Int /\ nBodyAlloc \in Int
    BY <1>0
  <2>4. QED
    BY <1>0, <2>2, <2>3, CloseStep, QuietFrame
<1>7. PICK m \in Nat : m = nBodyAlloc + more
  BY <1>0, <1>1
<1>8. m = nBodyAlloc + grown.alloc - conn[c].alloc
  BY <1>0, <1>1, <1>4, <1>7
<1>9. CASE more <= BodyMax - nBodyAlloc /\ PendingPromote(c, grown, nBodyAlloc + more)
  <2>1. m <= BodyMax /\ PendingPromote(c, grown, m)
    BY <1>0, <1>1, <1>7, <1>9
  <2>2. QED
    BY <1>4, <1>8, <2>1, PromoteStep
<1>10. CASE /\ more <= BodyMax - nBodyAlloc
            /\ conn' = [conn EXCEPT ![c] = grown]
            /\ nBodyAlloc' = nBodyAlloc + more
            /\ UNCHANGED <<fd, queue, wk>>
  <2>1. m <= BodyMax /\ nBodyAlloc' = m
    BY <1>0, <1>1, <1>7, <1>10
  <2>2. nBodyAlloc' = nBodyAlloc + grown.alloc - conn[c].alloc /\ nBodyAlloc' <= BodyMax
    BY <1>8, <2>1
  <2>3. QED
    BY <1>0, <1>4, <1>10, <2>2, ReadStep, QuietFrame
<1>11. QED
  BY <1>5, <1>6, <1>9, <1>10

(* accept and pendingAdd.                                                  *)
LEMMA AddStep ==
  ASSUME ServerInv, LoopVars, PendingAdd
  PROVE  ServerInv'
<1>0. /\ TypeOK /\ ConnInv /\ QueueInv /\ BodyAccounted
      /\ conn \in [Conns -> Conn] /\ fd \in [Fds -> Conns \cup {None}] /\ queue \in Seq(Conns)
      /\ UNCHANGED <<queue, nBodyAlloc, wk>>
  BY DEF ServerInv, TypeOK, PendingAdd
<1>1. LoopFrame
  BY <1>0, QuietFrame
<1>2. PICK c \in Conns, f \in Fds :
        /\ conn[c].at = "new" /\ fd[f] = None
        /\ \/ conn' = [conn EXCEPT ![c] = [NoConn("pending") EXCEPT !.fd = f]] /\ fd' = [fd EXCEPT ![f] = c]
           \/ conn' = [conn EXCEPT ![c] = NoConn("closed")] /\ UNCHANGED fd
  BY DEF PendingAdd, At, Free
<1> DEFINE r == conn'[c]
<1>3. /\ r \in Conn /\ conn' = [conn EXCEPT ![c] = r] /\ ~r.hdr /\ r.need = 0 /\ r.got = 0 /\ r.alloc = 0
      /\ \/ r.at = "pending" /\ r.fd = f /\ fd' = [fd EXCEPT ![f] = c]
         \/ r.at = "closed" /\ r = NoConn(r.at) /\ UNCHANGED fd
  <2>1. CASE conn' = [conn EXCEPT ![c] = [NoConn("pending") EXCEPT !.fd = f]] /\ fd' = [fd EXCEPT ![f] = c]
    <3>1. r = [NoConn("pending") EXCEPT !.fd = f]
      BY <1>0, <2>1
    <3>2. NoConn("pending") \in Conn
      BY NoConnType
    <3>3. r \in Conn
      BY <3>1, <3>2 DEF Conn
    <3>4. QED
      BY <2>1, <3>1, <3>3 DEF NoConn
  <2>2. CASE conn' = [conn EXCEPT ![c] = NoConn("closed")] /\ UNCHANGED fd
    <3>1. r = NoConn("closed") /\ r \in Conn
      BY <1>0, <2>2, NoConnType
    <3>2. LET k == NoConn("closed")
          IN  k.at = "closed" /\ ~k.hdr /\ k.need = 0 /\ k.got = 0 /\ k.alloc = 0
      BY DEF NoConn
    <3> HIDE DEF r
    <3>3. QED
      BY <2>2, <3>1, <3>2
  <2>3. QED
    BY <1>2, <2>1, <2>2
<1> HIDE DEF r
<1>4. (\A d \in Conns : d # c => conn'[d] = conn[d]) /\ conn'[c] = r
  BY <1>0, <1>3
<1>5. conn[c] = NoConn("new") /\ conn[c].alloc = 0
  BY <1>0, <1>2 DEF ConnInv, Accepted, NoConn
<1>6. BodyAccounted'
  <2>1. \A d \in Conns : conn'[d].alloc = conn[d].alloc
    BY <1>3, <1>4, <1>5
  <2>2. QED
    BY <1>0, <2>1, BodyKept
<1>7. TypeOK'
  BY <1>0, <1>1, <1>2, <1>3 DEF TypeOK, LoopFrame
<1>8. ConnInv'
  <2>1. \A d \in Conns : conn'[d].at \notin Accepted => conn'[d] = NoConn(conn'[d].at)
    BY <1>0, <1>3, <1>4 DEF ConnInv, Accepted
  <2>2. \A d \in Conns : conn'[d].at \in Accepted => conn'[d].fd \in Fds /\ fd'[conn'[d].fd] = d
    BY <1>0, <1>2, <1>3, <1>4, ConstantsAssumption DEF ConnInv, Accepted, Conns
  <2>3. \A g \in Fds : fd'[g] # None => conn'[fd'[g]].at \in Accepted /\ conn'[fd'[g]].fd = g
    BY <1>0, <1>2, <1>3, <1>4 DEF ConnInv, Accepted
  <2>4. \A d \in Conns : ~conn'[d].hdr => conn'[d].need = 0 /\ conn'[d].got = 0
    BY <1>0, <1>3, <1>4 DEF ConnInv
  <2>5. QED
    BY <2>1, <2>2, <2>3, <2>4 DEF ConnInv
<1>9. QueueInv'
  BY <1>0, <1>1, <1>2, <1>3, <1>4 DEF QueueInv, LoopFrame, Range
<1>10. JobInv' /\ StopInv' /\ StoreInv'
  BY <1>1, <1>2, <1>3, <1>4, LoopKept
<1>11. QED
  BY <1>6, <1>7, <1>8, <1>9, <1>10 DEF ServerInv

(* pendingIngest and the end of a request's budget.                        *)
LEMMA IngestStep ==
  ASSUME ServerInv, LoopVars, NEW c \in Conns, IngestHeader(c) \/ IngestBody(c) \/ Expire(c)
  PROVE  ServerInv'
<1> DEFINE k == conn[c]
<1>0. /\ TypeOK /\ ConnInv /\ k \in Conn /\ k.at = "pending" /\ nBodyAlloc \in Nat /\ nBodyAlloc <= BodyMax
      /\ k.need \in Nat /\ k.got \in Nat /\ k.alloc \in Nat
      /\ k.need <= MaxRequest /\ k.got <= MaxRequest
      /\ conn \in [Conns -> Conn]
  BY ConnFields DEF ServerInv, TypeOK, BodyAccounted, IngestHeader, IngestBody, Expire
<1>1. ASSUME PendingClose(c, k.alloc, nBodyAlloc) PROVE ServerInv'
  <2>1. UNCHANGED wk /\ k.alloc \in Int /\ nBodyAlloc \in Int
    BY <1>0, <1>1 DEF PendingClose
  <2>2. QED
    BY <1>0, <1>1, <2>1, CloseStep, QuietFrame
<1>2. ASSUME NEW r \in Conn, r.at = "pending", r.fd = k.fd, r.alloc = k.alloc,
             PendingPromote(c, r, nBodyAlloc)
      PROVE  ServerInv'
  <2>1. nBodyAlloc = nBodyAlloc + r.alloc - conn[c].alloc
    BY <1>0, <1>2
  <2>2. QED
    BY <1>0, <1>2, <2>1, PromoteStep
<1>3. CASE IngestHeader(c)
  <2>0. ~k.hdr /\ k.got = 0
    BY <1>0, <1>3 DEF IngestHeader, ConnInv
  <2>1. CASE PendingClose(c, k.alloc, nBodyAlloc)
    BY <1>1, <2>1
  <2>2. CASE PendingPromote(c, [k EXCEPT !.hdr = TRUE, !.ok = FALSE], nBodyAlloc)
    <3> DEFINE r == [k EXCEPT !.hdr = TRUE, !.ok = FALSE]
    <3>1. r \in Conn /\ r.at = "pending" /\ r.fd = k.fd /\ r.alloc = k.alloc
      BY <1>0 DEF Conn
    <3> HIDE DEF r
    <3>2. QED
      BY <1>2, <2>2, <3>1 DEF r
  <2>3. ASSUME NEW need \in 0..MaxRequest, NEW n \in 0..need,
               PendingAppendBody(c, [k EXCEPT !.hdr = TRUE, !.need = need], n)
        PROVE  ServerInv'
    <3> DEFINE r == [k EXCEPT !.hdr = TRUE, !.need = need]
    <3>1. r \in Conn /\ r.at = "pending" /\ r.fd = k.fd /\ r.alloc = k.alloc /\ r.hdr /\ r.got = k.got
      BY <1>0 DEF Conn
    <3>2. n \in Nat /\ k.got + n <= MaxRequest
      BY <2>0, ConstantsAssumption
    <3>3. PendingAppendBody(c, r, n)
      BY <2>3
    <3> HIDE DEF r
    <3>4. QED
      BY <1>0, <3>1, <3>2, <3>3, AppendBodyStep
  <2>4. QED
    BY <1>3, <2>1, <2>2, <2>3 DEF IngestHeader
<1>4. CASE IngestBody(c)
  <2>0. k.hdr
    BY <1>4 DEF IngestBody
  <2>1. ASSUME NEW n \in 1..(k.need - k.got), PendingAppendBody(c, k, n) PROVE ServerInv'
    <3>1. n \in Nat /\ k.got + n <= MaxRequest
      BY <1>0, ConstantsAssumption
    <3>2. QED
      BY <1>0, <2>0, <2>1, <3>1, AppendBodyStep
  <2>2. CASE conn' = [conn EXCEPT ![c].ok = FALSE] /\ UNCHANGED <<fd, queue, nBodyAlloc, wk>>
    <3> DEFINE r == [k EXCEPT !.ok = FALSE]
    <3>1. /\ r \in Conn /\ r.at = "pending" /\ r.fd = k.fd /\ r.alloc = k.alloc /\ r.hdr = k.hdr
          /\ conn' = [conn EXCEPT ![c] = r]
      BY <1>0, <2>2 DEF Conn
    <3> HIDE DEF r
    <3>2. nBodyAlloc' = nBodyAlloc + r.alloc - conn[c].alloc /\ nBodyAlloc' <= BodyMax
      BY <1>0, <2>2, <3>1
    <3>3. QED
      BY <1>0, <2>0, <2>2, <3>1, <3>2, ReadStep, QuietFrame
  <2>3. QED
    BY <1>4, <2>1, <2>2 DEF IngestBody
<1>5. CASE Expire(c)
  <2>1. CASE PendingPromote(c, [k EXCEPT !.ok = FALSE], nBodyAlloc)
    <3> DEFINE r == [k EXCEPT !.ok = FALSE]
    <3>1. r \in Conn /\ r.at = "pending" /\ r.fd = k.fd /\ r.alloc = k.alloc
      BY <1>0 DEF Conn
    <3> HIDE DEF r
    <3>2. QED
      BY <1>2, <2>1, <3>1 DEF r
  <2>2. QED
    BY <1>1, <1>5, <2>1 DEF Expire
<1>6. QED
  BY <1>3, <1>4, <1>5

(* serverLoop returns.                                                     *)
LEMMA LoopExitStep ==
  ASSUME ServerInv, LoopExit, UNCHANGED <<running, stop, activeFd, handle, cache, now>>
  PROVE  ServerInv'
<1>0. /\ TypeOK /\ ConnInv /\ QueueInv /\ JobInv /\ StopInv /\ StoreInv /\ BodyAccounted
      /\ conn \in [Conns -> Conn] /\ fd \in [Fds -> Conns \cup {None}] /\ UNCHANGED <<queue, wk>>
      /\ loop' = "done" /\ ~running
  BY DEF ServerInv, TypeOK, LoopExit
<1> DEFINE P == At("pending")
<1>1. /\ P \in SUBSET Conns
      /\ \A c \in Conns : c \in P <=> conn[c].at = "pending"
      /\ conn' = [c \in Conns |-> IF c \in P THEN NoConn("closed") ELSE conn[c]]
      /\ fd' = [f \in Fds |-> IF fd[f] \in P THEN None ELSE fd[f]]
      /\ nBodyAlloc' = nBodyAlloc - Cardinality(Units(P))
  BY DEF LoopExit, At
<1> HIDE DEF P
<1>2. /\ NoConn("closed") \in Conn /\ NoConn("closed").at = "closed"
      /\ NoConn("closed").alloc = 0 /\ NoConn("closed").need = 0 /\ NoConn("closed").got = 0
  BY NoConnType DEF NoConn
<1>3. BodyAccounted' /\ nBodyAlloc' \in Nat
  <2>1. \A d \in Conns : conn'[d].alloc = IF d \in P THEN 0 ELSE conn[d].alloc
    BY <1>1, <1>2
  <2>2. QED
    BY <1>0, <1>1, <2>1, BodyRelease
<1>4. TypeOK'
  <2>1. conn' \in [Conns -> Conn]
    BY <1>0, <1>1, <1>2
  <2>2. fd' \in [Fds -> Conns \cup {None}]
    BY <1>0, <1>1
  <2>3. QED
    BY <1>0, <1>3, <2>1, <2>2 DEF TypeOK
<1>5. ConnInv'
  <2>1. \A d \in Conns : conn'[d].at \notin Accepted => conn'[d] = NoConn(conn'[d].at)
    BY <1>0, <1>1, <1>2 DEF ConnInv, Accepted
  <2>2. \A d \in Conns : conn'[d].at \in Accepted => conn'[d].fd \in Fds /\ fd'[conn'[d].fd] = d
    BY <1>0, <1>1, <1>2 DEF ConnInv, Accepted
  <2>3. \A g \in Fds : fd'[g] # None => conn'[fd'[g]].at \in Accepted /\ conn'[fd'[g]].fd = g
    BY <1>0, <1>1, <1>2 DEF ConnInv, Accepted
  <2>4. \A d \in Conns : ~conn'[d].hdr => conn'[d].need = 0 /\ conn'[d].got = 0
    BY <1>0, <1>1, <1>2 DEF ConnInv
  <2>5. QED
    BY <2>1, <2>2, <2>3, <2>4 DEF ConnInv
<1>6. QueueInv'
  BY <1>0, <1>1, <1>2 DEF QueueInv, Range, TypeOK
<1>7. JobInv'
  <2>1. \A c \in Conns : /\ conn[c].at = "active" <=> conn'[c].at = "active"
                         /\ conn[c].at = "active" => conn'[c].fd = conn[c].fd /\ conn'[c].alloc = conn[c].alloc
    BY <1>1, <1>2
  <2>2. QED
    BY <1>0, <2>1, JobKept, JobsConns
<1>8. StopInv'
  BY <1>0, <1>1, <1>2 DEF StopInv, At
<1>9. StoreInv'
  BY <1>0, StoreKept
<1>10. QED
  BY <1>3, <1>4, <1>5, <1>6, <1>7, <1>8, <1>9 DEF ServerInv

LEMMA LoopStep ==
  ASSUME ServerInv, ServerLoop
  PROVE  ServerInv'
<1>1. CASE PendingAdd /\ UNCHANGED loop
  BY <1>1, AddStep DEF ServerLoop, LoopVars
<1>2. ASSUME NEW c \in Conns, IngestHeader(c) \/ IngestBody(c) \/ Expire(c), UNCHANGED loop
      PROVE  ServerInv'
  BY <1>2, IngestStep DEF ServerLoop, LoopVars
<1>3. CASE LoopExit
  BY <1>3, LoopExitStep DEF ServerLoop
<1>4. QED
  BY <1>1, <1>2, <1>3 DEF ServerLoop

-----------------------------------------------------------------------------
(* The workers.                                                            *)

Pcs == {"idle", "wait", "request", "lock", "open", "handle",
        "unreserve", "respond", "finish", "close", "exit"}

LEMMA GotoRecord ==
  ASSUME TypeOK, NEW w \in Workers, NEW pc \in Pcs, Goto(w, pc)
  PROVE  LET n == wk'[w]
         IN  /\ n \in Worker /\ wk' = [wk EXCEPT ![w] = n]
             /\ n.pc = pc /\ n.job = wk[w].job /\ n.h = wk[w].h
             /\ n.db = wk[w].db /\ n.write = wk[w].write
<1> DEFINE n == [wk[w] EXCEPT !.pc = pc]
<1>0. wk \in [Workers -> Worker] /\ wk[w] \in Worker
  BY DEF TypeOK
<1>1. wk' = [wk EXCEPT ![w] = n] /\ wk'[w] = n
  BY <1>0 DEF Goto
<1>2. /\ n \in Worker /\ n.pc = pc /\ n.job = wk[w].job /\ n.h = wk[w].h
      /\ n.db = wk[w].db /\ n.write = wk[w].write
  BY <1>0 DEF Worker, Pcs
<1> HIDE DEF n
<1>3. QED
  BY <1>1, <1>2

LEMMA StopKept ==
  ASSUME StopInv, NEW w \in Workers, wk[w].pc # "exit", UNCHANGED <<running, loop, stop>>,
         \A c \in Conns : conn'[c].at = "pending" => conn[c].at = "pending"
  PROVE  StopInv'
  BY DEF StopInv, At

(* A step of a worker within its request that only concerns its handle.    *)
LEMMA WorkerQuiet ==
  ASSUME ServerInv, NEW w \in Workers, wk[w].pc \notin Resting \cup {"close"},
         NEW n \in Worker, wk' = [wk EXCEPT ![w] = n], n.job = wk[w].job,
         n.pc \notin Resting \cup {"close"},
         UNCHANGED <<running, loop, stop, conn, fd, queue, nBodyAlloc, activeFd>>,
         handle' \in [Handles -> Handle \cup {None}], cache' \subseteq Handles, now' \in Nat,
         StoreInv'
  PROVE  ServerInv'
<1>0. TypeOK /\ ConnInv /\ QueueInv /\ JobInv /\ StopInv /\ BodyAccounted /\ wk \in [Workers -> Worker]
  BY DEF ServerInv, TypeOK
<1>1. \A v \in Workers : wk'[v] = IF v = w THEN n ELSE wk[v]
  BY <1>0
<1>2. TypeOK'
  BY <1>0 DEF TypeOK
<1>3. ConnInv' /\ QueueInv'
  BY <1>0 DEF ConnInv, QueueInv
<1>4. JobInv'
  <2>1. \A v \in Workers : /\ wk'[v].job = wk[v].job
                           /\ wk[v].pc \in Resting <=> wk'[v].pc \in Resting
                           /\ wk'[v].pc = "close" => wk[v].pc = "close"
    BY <1>1
  <2>2. QED
    BY <1>0, <2>1, JobKept, JobsConns
<1>5. StopInv'
  BY <1>0, StopKept DEF Resting
<1>6. BodyAccounted'
  BY <1>0, BodyKept
<1>7. QED
  BY <1>2, <1>3, <1>4, <1>5, <1>6 DEF ServerInv

(* handleRequest answers, before or after the store.                       *)
LEMMA AnswerStep ==
  ASSUME ServerInv, NEW w \in Workers, Refuse(w) \/ Respond(w)
  PROVE  ServerInv'
<1> DEFINE n == wk'[w]
<1>0. TypeOK /\ StoreInv /\ wk \in [Workers -> Worker] /\ handle \in [Handles -> Handle \cup {None}]
      /\ cache \subseteq Handles /\ now \in Nat
  BY DEF ServerInv, TypeOK
<1>1. /\ wk[w].pc \in {"request", "respond"} /\ \E pc \in {"respond", "finish"} : Goto(w, pc)
      /\ UNCHANGED <<running, loop, stop, conn, fd, queue, nBodyAlloc, activeFd, handle, cache, now>>
  BY DEF Refuse, Respond
<1>2. /\ n \in Worker /\ wk' = [wk EXCEPT ![w] = n] /\ n.pc \in {"respond", "finish"}
      /\ n.job = wk[w].job /\ n.h = wk[w].h
  BY <1>0, <1>1, GotoRecord DEF Pcs
<1> HIDE DEF n
<1>3. wk[w].h = None
  BY <1>0, <1>1 DEF StoreInv, Reserving
<1>4. StoreInv'
  <2>1. \A v \in Workers :
            \/ /\ wk'[v].pc = wk[v].pc /\ wk'[v].h = wk[v].h
               /\ wk'[v].db = wk[v].db /\ wk'[v].write = wk[v].write
            \/ wk[v].pc \notin Reserving /\ wk'[v].pc \notin Reserving /\ wk'[v].h = None
    BY <1>0, <1>1, <1>2, <1>3 DEF Reserving
  <2>2. QED
    BY <1>0, <1>1, <2>1, StoreKept
<1>5. QED
  BY <1>0, <1>1, <1>2, <1>4, WorkerQuiet DEF Resting

(* A worker that finds no job.                                             *)
LEMMA RestStep ==
  ASSUME ServerInv, NEW w \in Workers, wk[w].pc = "idle",
         NEW pc \in {"wait", "exit"}, Goto(w, pc),
         UNCHANGED <<running, loop, stop, conn, fd, queue, nBodyAlloc, activeFd, handle, cache, now>>
  PROVE  ServerInv'
<1> DEFINE n == wk'[w]
<1>0. /\ TypeOK /\ ConnInv /\ QueueInv /\ JobInv /\ StopInv /\ StoreInv /\ BodyAccounted
      /\ wk \in [Workers -> Worker]
  BY DEF ServerInv, TypeOK
<1>1. /\ n \in Worker /\ wk' = [wk EXCEPT ![w] = n] /\ n.pc \in {"wait", "exit"}
      /\ n.job = wk[w].job /\ n.h = wk[w].h
  BY <1>0, GotoRecord DEF Pcs
<1> HIDE DEF n
<1>2. \A v \in Workers : wk'[v] = IF v = w THEN n ELSE wk[v]
  BY <1>0, <1>1
<1>3. TypeOK'
  BY <1>0, <1>1 DEF TypeOK
<1>4. ConnInv' /\ QueueInv'
  BY <1>0 DEF ConnInv, QueueInv
<1>5. JobInv'
  <2>1. \A v \in Workers : /\ wk'[v].job = wk[v].job
                           /\ wk[v].pc \in Resting <=> wk'[v].pc \in Resting
                           /\ wk'[v].pc = "close" => wk[v].pc = "close"
    BY <1>1, <1>2 DEF Resting
  <2>2. QED
    BY <1>0, <2>1, JobKept, JobsConns
<1>6. StopInv'
  BY <1>0, StopKept
<1>7. StoreInv'
  <2>1. wk[w].h = None
    BY <1>0 DEF StoreInv, Reserving
  <2>2. \A v \in Workers :
            \/ /\ wk'[v].pc = wk[v].pc /\ wk'[v].h = wk[v].h
               /\ wk'[v].db = wk[v].db /\ wk'[v].write = wk[v].write
            \/ wk[v].pc \notin Reserving /\ wk'[v].pc \notin Reserving /\ wk'[v].h = None
    BY <1>1, <1>2, <2>1 DEF Reserving
  <2>3. QED
    BY <1>0, <2>2, StoreKept
<1>8. BodyAccounted'
  BY <1>0, BodyKept
<1>9. QED
  BY <1>3, <1>4, <1>5, <1>6, <1>7, <1>8 DEF ServerInv

(* The head of the queue becomes the job of w.                             *)
LEMMA JobStep ==
  ASSUME ServerInv, NEW w \in Workers, wk[w].pc = "idle", queue # <<>>, TakeJob(w)
  PROVE  ServerInv'
<1> DEFINE c == Head(queue)
           r == [conn[c] EXCEPT !.at = "active"]
           n == [wk[w] EXCEPT !.pc = "request", !.job = c]
<1>0. /\ TypeOK /\ ConnInv /\ QueueInv /\ JobInv /\ StopInv /\ StoreInv /\ BodyAccounted
      /\ wk \in [Workers -> Worker] /\ conn \in [Conns -> Conn] /\ queue \in Seq(Conns)
      /\ activeFd \in [Workers -> Fds \cup {None}] /\ fd \in [Fds -> Conns \cup {None}]
  BY DEF ServerInv, TypeOK
<1>1. /\ wk' = [wk EXCEPT ![w] = n] /\ conn' = [conn EXCEPT ![c] = r]
      /\ activeFd' = [activeFd EXCEPT ![w] = conn[c].fd] /\ queue' = Tail(queue)
      /\ UNCHANGED <<running, loop, stop, fd, nBodyAlloc, handle, cache, now>>
  BY <1>0 DEF TakeJob
<1>2. /\ DOMAIN queue = 1..Len(queue) /\ Len(queue) \in Nat \ {0} /\ c = queue[1] /\ c \in Conns
      /\ queue' \in Seq(Conns) /\ DOMAIN queue' = 1..(Len(queue) - 1)
      /\ \A i \in 1..(Len(queue) - 1) : queue'[i] = queue[i + 1]
  BY <1>0, <1>1
<1>3. conn[c].at = "queued" /\ conn[c].fd \in Fds /\ fd[conn[c].fd] = c
  BY <1>0, <1>2 DEF QueueInv, ConnInv, Accepted
<1>4. /\ r \in Conn /\ r.at = "active" /\ r.fd = conn[c].fd /\ r.alloc = conn[c].alloc
      /\ r.hdr = conn[c].hdr /\ r.need = conn[c].need /\ r.got = conn[c].got
  BY <1>0, <1>2 DEF Conn
<1> HIDE DEF c
<1>5. n \in Worker /\ n.pc = "request" /\ n.job = c /\ n.h = wk[w].h /\ c # None
  <2>1. c # None
    BY <1>2, ConstantsAssumption DEF Conns
  <2>2. n \in Worker /\ n.pc = "request" /\ n.job = c /\ n.h = wk[w].h
    BY <1>0, <1>2 DEF Worker
  <2>3. QED
    BY <2>1, <2>2
<1> HIDE DEF r, n
<1>6. /\ \A v \in Workers : wk'[v] = IF v = w THEN n ELSE wk[v]
      /\ \A d \in Conns : conn'[d] = IF d = c THEN r ELSE conn[d]
      /\ \A v \in Workers : activeFd'[v] = IF v = w THEN conn[c].fd ELSE activeFd[v]
  BY <1>0, <1>1
<1>7. TypeOK'
  BY <1>0, <1>1, <1>2, <1>3, <1>4, <1>5 DEF TypeOK
<1>8. ConnInv'
  <2>1. \A d \in Conns : conn'[d].at \notin Accepted => conn'[d] = NoConn(conn'[d].at)
    BY <1>0, <1>4, <1>6 DEF ConnInv, Accepted
  <2>2. \A d \in Conns : conn'[d].at \in Accepted => conn'[d].fd \in Fds /\ fd'[conn'[d].fd] = d
    BY <1>0, <1>1, <1>3, <1>4, <1>6 DEF ConnInv, Accepted
  <2>3. \A g \in Fds : fd'[g] # None => conn'[fd'[g]].at \in Accepted /\ conn'[fd'[g]].fd = g
    BY <1>0, <1>1, <1>4, <1>6 DEF ConnInv, Accepted
  <2>4. \A d \in Conns : ~conn'[d].hdr => conn'[d].need = 0 /\ conn'[d].got = 0
    BY <1>0, <1>4, <1>6 DEF ConnInv
  <2>5. QED
    BY <2>1, <2>2, <2>3, <2>4 DEF ConnInv
<1>9. QueueInv'
  <2>1. \A i \in DOMAIN queue' : i \in DOMAIN queue /\ i + 1 \in DOMAIN queue /\ i + 1 # 1 /\ 1 \in DOMAIN queue
                                 /\ queue'[i] = queue[i + 1] /\ queue[i + 1] \in Conns
    BY <1>0, <1>2
  <2>2. \A i \in DOMAIN queue' : conn'[queue'[i]].at = "queued"
    <3> SUFFICES ASSUME NEW i \in DOMAIN queue' PROVE conn'[queue'[i]].at = "queued"
      OBVIOUS
    <3>1. PICK j \in DOMAIN queue : j = i + 1 /\ j # 1 /\ queue'[i] = queue[j] /\ queue[j] \in Conns
      BY <2>1
    <3>2. queue[j] # c
      BY <1>0, <1>2, <3>1 DEF QueueInv
    <3>3. QED
      BY <1>0, <1>6, <3>1, <3>2 DEF QueueInv
  <2>3. \A i, j \in DOMAIN queue' : queue'[i] = queue'[j] => i = j
    <3> SUFFICES ASSUME NEW i \in DOMAIN queue', NEW j \in DOMAIN queue', queue'[i] = queue'[j]
                 PROVE  i = j
      OBVIOUS
    <3>1. i + 1 = j + 1
      BY <1>0, <2>1 DEF QueueInv
    <3>2. QED
      BY <1>2, <3>1
  <2>4. \A d \in Conns : conn'[d].at = "queued" => \E i \in DOMAIN queue' : queue'[i] = d
    <3> SUFFICES ASSUME NEW d \in Conns, conn'[d].at = "queued" PROVE \E i \in DOMAIN queue' : queue'[i] = d
      OBVIOUS
    <3>1. d # c /\ conn[d].at = "queued"
      BY <1>4, <1>6
    <3>2. PICK j \in DOMAIN queue : queue[j] = d
      BY <1>0, <3>1 DEF QueueInv, Range
    <3>3. j # 1 /\ j \in 1..Len(queue)
      BY <1>2, <3>1, <3>2
    <3>4. PICK i \in 1..(Len(queue) - 1) : j = i + 1
      <4>1. j - 1 \in 1..(Len(queue) - 1) /\ j = (j - 1) + 1
        BY <1>2, <3>3
      <4>2. QED
        BY <4>1
    <3>5. QED
      BY <1>2, <3>2, <3>4
  <2>5. ~running => queue' = <<>>
    BY <1>0 DEF QueueInv
  <2>6. QED
    BY <1>1, <2>2, <2>3, <2>4, <2>5 DEF QueueInv, Range
<1>10. JobInv'
  <2>0. wk[w].job = None /\ activeFd[w] = None /\ \A v \in Workers : wk[v].job # c
    BY <1>0, <1>3, <1>5 DEF JobInv, Resting
  <2>1. \A v \in Workers : wk'[v].job # None <=> wk'[v].pc \notin Resting
    BY <1>0, <1>5, <1>6 DEF JobInv, Resting
  <2>2. \A v \in Workers : wk'[v].job # None => conn'[wk'[v].job].at = "active"
    BY <1>0, <1>2, <1>4, <1>5, <1>6, <2>0, JobsConns DEF JobInv
  <2>3. \A u, v \in Workers : wk'[u].job # None /\ wk'[u].job = wk'[v].job => u = v
    BY <1>0, <1>5, <1>6, <2>0 DEF JobInv
  <2>4. \A d \in Conns : conn'[d].at = "active" => \E v \in Workers : wk'[v].job = d
    <3> SUFFICES ASSUME NEW d \in Conns, conn'[d].at = "active" PROVE \E v \in Workers : wk'[v].job = d
      OBVIOUS
    <3>1. CASE d = c
      BY <1>5, <1>6, <3>1
    <3>2. CASE d # c
      <4>1. PICK v \in Workers : wk[v].job = d
        BY <1>0, <1>6, <3>2 DEF JobInv
      <4>2. v # w
        BY <2>0, <4>1, ConstantsAssumption DEF Conns
      <4>3. QED
        BY <1>6, <4>1, <4>2
    <3>3. QED
      BY <3>1, <3>2
  <2>5. ASSUME NEW v \in Workers, activeFd'[v] # None
        PROVE  wk'[v].pc \notin Resting \cup {"close"} /\ activeFd'[v] = conn'[wk'[v].job].fd
    <3>1. CASE v = w
      BY <1>2, <1>4, <1>5, <1>6, <3>1 DEF Resting
    <3>2. CASE v # w
      <4>1. activeFd[v] # None /\ wk'[v] = wk[v] /\ wk[v].job # None
        BY <1>0, <1>6, <2>5, <3>2 DEF JobInv
      <4>2. wk[v].job \in Conns /\ conn'[wk[v].job] = conn[wk[v].job]
        BY <1>0, <1>6, <2>0, <4>1, JobsConns
      <4>3. QED
        BY <1>0, <1>6, <3>2, <4>1, <4>2 DEF JobInv
    <3>3. QED
      BY <3>1, <3>2
  <2>6. ASSUME NEW v \in Workers, wk'[v].pc = "close" PROVE conn'[wk'[v].job].alloc = 0
    <3>1. wk'[v] = wk[v] /\ wk[v].job # None /\ wk[v].job # c
      BY <1>0, <1>5, <1>6, <2>0, <2>6 DEF JobInv, Resting
    <3>2. QED
      BY <1>0, <1>6, <2>6, <3>1, JobsConns DEF JobInv
  <2>7. QED
    BY <2>1, <2>2, <2>3, <2>4, <2>5, <2>6 DEF JobInv
<1>11. StopInv'
  BY <1>0, <1>1, <1>4, <1>6, StopKept
<1>12. StoreInv'
  <2>1. wk[w].h = None
    BY <1>0 DEF StoreInv, Reserving
  <2>2. \A v \in Workers :
            \/ /\ wk'[v].pc = wk[v].pc /\ wk'[v].h = wk[v].h
               /\ wk'[v].db = wk[v].db /\ wk'[v].write = wk[v].write
            \/ wk[v].pc \notin Reserving /\ wk'[v].pc \notin Reserving /\ wk'[v].h = None
    BY <1>5, <1>6, <2>1 DEF Reserving
  <2>3. QED
    BY <1>0, <1>1, <2>2, StoreKept
<1>13. BodyAccounted'
  BY <1>0, <1>1, <1>4, <1>6, BodyKept
<1>14. QED
  BY <1>7, <1>8, <1>9, <1>10, <1>11, <1>12, <1>13 DEF ServerInv

(* The end of a request: the accounting, then the connection.              *)
LEMMA FinishStep ==
  ASSUME ServerInv, NEW w \in Workers, Finish(w)
  PROVE  ServerInv'
<1> DEFINE c == wk[w].job
           r == [conn[c] EXCEPT !.alloc = 0]
           n == wk'[w]
<1>0. /\ TypeOK /\ ConnInv /\ QueueInv /\ JobInv /\ StopInv /\ StoreInv /\ BodyAccounted
      /\ wk \in [Workers -> Worker] /\ conn \in [Conns -> Conn] /\ nBodyAlloc \in Nat
      /\ activeFd \in [Workers -> Fds \cup {None}] /\ fd \in [Fds -> Conns \cup {None}]
  BY DEF ServerInv, TypeOK
<1>1. /\ wk[w].pc = "finish" /\ Goto(w, "close")
      /\ nBodyAlloc' = nBodyAlloc - conn[c].alloc /\ conn' = [conn EXCEPT ![c].alloc = 0]
      /\ activeFd' = [activeFd EXCEPT ![w] = None]
      /\ UNCHANGED <<running, loop, stop, fd, queue, handle, cache, now>>
  BY DEF Finish
<1>2. c \in Conns /\ conn[c].at = "active"
  BY <1>0, <1>1, JobsConns DEF JobInv, Resting
<1>3. /\ n \in Worker /\ wk' = [wk EXCEPT ![w] = n] /\ n.pc = "close"
      /\ n.job = c /\ n.h = wk[w].h
  BY <1>0, <1>1, GotoRecord DEF Pcs
<1>4. /\ r \in Conn /\ r.at = "active" /\ r.fd = conn[c].fd /\ r.alloc = 0
      /\ r.hdr = conn[c].hdr /\ r.need = conn[c].need /\ r.got = conn[c].got
      /\ conn' = [conn EXCEPT ![c] = r]
  <2>1. 0 \in 0..MaxRequest
    BY ConstantsAssumption
  <2>2. QED
    BY <1>0, <1>1, <1>2, <2>1 DEF Conn
<1>5. conn[c].alloc \in Nat
  BY <1>0, <1>2, ConnFields
<1> HIDE DEF c, r, n
<1>6. /\ \A v \in Workers : wk'[v] = IF v = w THEN n ELSE wk[v]
      /\ \A d \in Conns : conn'[d] = IF d = c THEN r ELSE conn[d]
      /\ \A v \in Workers : activeFd'[v] = IF v = w THEN None ELSE activeFd[v]
  BY <1>0, <1>1, <1>3, <1>4
<1>7. BodyAccounted' /\ nBodyAlloc' \in Nat
  <2>1. nBodyAlloc' = nBodyAlloc + r.alloc - conn[c].alloc /\ nBodyAlloc' <= BodyMax
    BY <1>0, <1>1, <1>4, <1>5, ConstantsAssumption DEF BodyAccounted
  <2>2. QED
    BY <1>0, <1>2, <1>4, <2>1, BodyResize
<1>8. TypeOK'
  BY <1>0, <1>1, <1>3, <1>4, <1>7 DEF TypeOK
<1>9. ConnInv'
  <2>1. \A d \in Conns : conn'[d].at \notin Accepted => conn'[d] = NoConn(conn'[d].at)
    BY <1>0, <1>4, <1>6 DEF ConnInv, Accepted
  <2>2. \A d \in Conns : conn'[d].at \in Accepted => conn'[d].fd \in Fds /\ fd'[conn'[d].fd] = d
    BY <1>0, <1>1, <1>2, <1>4, <1>6 DEF ConnInv, Accepted
  <2>3. \A g \in Fds : fd'[g] # None => conn'[fd'[g]].at \in Accepted /\ conn'[fd'[g]].fd = g
    BY <1>0, <1>1, <1>4, <1>6 DEF ConnInv, Accepted
  <2>4. \A d \in Conns : ~conn'[d].hdr => conn'[d].need = 0 /\ conn'[d].got = 0
    BY <1>0, <1>4, <1>6 DEF ConnInv
  <2>5. QED
    BY <2>1, <2>2, <2>3, <2>4 DEF ConnInv
<1>10. QueueInv'
  <2>1. \A d \in Conns : conn'[d].at = conn[d].at
    BY <1>2, <1>4, <1>6
  <2>2. QED
    BY <1>0, <1>1, <2>1 DEF QueueInv, Range, TypeOK
<1>11. JobInv'
  <2>1. \A v \in Workers : wk'[v].job = wk[v].job /\ (wk'[v].pc \in Resting <=> wk[v].pc \in Resting)
    BY <1>1, <1>3, <1>6 DEF Resting, c
  <2>2. \A d \in Conns : conn'[d].at = conn[d].at /\ conn'[d].fd = conn[d].fd
    BY <1>2, <1>4, <1>6
  <2>3. ASSUME NEW v \in Workers, activeFd'[v] # None
        PROVE  wk'[v].pc \notin Resting \cup {"close"} /\ activeFd'[v] = conn'[wk'[v].job].fd
    <3>1. v # w /\ activeFd[v] # None /\ wk'[v] = wk[v] /\ wk[v].job # None
      BY <1>0, <1>6, <2>3 DEF JobInv
    <3>2. QED
      BY <1>0, <1>6, <2>2, <3>1, JobsConns DEF JobInv
  <2>4. ASSUME NEW v \in Workers, wk'[v].pc = "close" PROVE conn'[wk'[v].job].alloc = 0
    <3>1. CASE v = w
      BY <1>2, <1>3, <1>4, <1>6, <3>1
    <3>2. CASE v # w
      <4>1. wk'[v] = wk[v] /\ wk[v].job # None /\ conn[wk[v].job].alloc = 0
        BY <1>0, <1>6, <2>4, <3>2 DEF JobInv, Resting
      <4>2. QED
        BY <1>0, <1>4, <1>6, <4>1, JobsConns
    <3>3. QED
      BY <3>1, <3>2
  <2>5. QED
    BY <1>0, <2>1, <2>2, <2>3, <2>4, JobsConns DEF JobInv
<1>12. StopInv'
  BY <1>0, <1>1, <1>4, <1>6, StopKept
<1>13. StoreInv'
  <2>1. wk[w].h = None
    BY <1>0, <1>1 DEF StoreInv, Reserving
  <2>2. \A v \in Workers :
            \/ /\ wk'[v].pc = wk[v].pc /\ wk'[v].h = wk[v].h
               /\ wk'[v].db = wk[v].db /\ wk'[v].write = wk[v].write
            \/ wk[v].pc \notin Reserving /\ wk'[v].pc \notin Reserving /\ wk'[v].h = None
    BY <1>1, <1>3, <1>6, <2>1 DEF Reserving
  <2>3. QED
    BY <1>0, <1>1, <2>2, StoreKept
<1>14. QED
  BY <1>7, <1>8, <1>9, <1>10, <1>11, <1>12, <1>13 DEF ServerInv

LEMMA CloseConnStep ==
  ASSUME ServerInv, NEW w \in Workers, CloseConn(w)
  PROVE  ServerInv'
<1> DEFINE c == wk[w].job
           r == NoConn("closed")
           n == NoJob("idle")
<1>0. /\ TypeOK /\ ConnInv /\ QueueInv /\ JobInv /\ StopInv /\ StoreInv /\ BodyAccounted
      /\ wk \in [Workers -> Worker] /\ conn \in [Conns -> Conn] /\ nBodyAlloc \in Nat
      /\ activeFd \in [Workers -> Fds \cup {None}] /\ fd \in [Fds -> Conns \cup {None}]
  BY DEF ServerInv, TypeOK
<1>1. /\ wk[w].pc = "close" /\ fd' = [fd EXCEPT ![conn[c].fd] = None]
      /\ conn' = [conn EXCEPT ![c] = r] /\ wk' = [wk EXCEPT ![w] = n]
      /\ UNCHANGED <<running, loop, stop, queue, nBodyAlloc, activeFd, handle, cache, now>>
  BY DEF CloseConn
<1>2. c \in Conns /\ conn[c].at = "active" /\ conn[c].fd \in Fds /\ fd[conn[c].fd] = c /\ c # None
  BY <1>0, <1>1, JobsConns DEF JobInv, Resting, ConnInv, Accepted
<1>3. n \in Worker /\ n.pc = "idle" /\ n.job = None /\ n.h = None
  BY DEF NoJob, Worker
<1>4. /\ r \in Conn /\ r.at = "closed" /\ r.fd = None /\ r.alloc = 0
      /\ r = NoConn(r.at) /\ r.need = 0 /\ r.got = 0
  BY NoConnType DEF NoConn
<1> HIDE DEF r, n
<1>5. /\ \A v \in Workers : wk'[v] = IF v = w THEN n ELSE wk[v]
      /\ \A d \in Conns : conn'[d] = IF d = c THEN r ELSE conn[d]
  BY <1>0, <1>1
<1>6. conn[c].alloc = 0 => BodyAccounted' /\ nBodyAlloc' \in Nat
  <2>1. conn[c].alloc = 0 => \A d \in Conns : conn'[d].alloc = conn[d].alloc
    BY <1>4, <1>5
  <2>2. QED
    BY <1>0, <1>1, <2>1, BodyKept
<1>8. TypeOK'
  BY <1>0, <1>1, <1>3, <1>4 DEF TypeOK
<1>9. ConnInv'
  <2>1. \A d \in Conns : conn'[d].at \notin Accepted => conn'[d] = NoConn(conn'[d].at)
    BY <1>0, <1>4, <1>5 DEF ConnInv, Accepted
  <2>2. \A d \in Conns : conn'[d].at \in Accepted => conn'[d].fd \in Fds /\ fd'[conn'[d].fd] = d
    BY <1>0, <1>1, <1>2, <1>4, <1>5 DEF ConnInv, Accepted
  <2>3. \A g \in Fds : fd'[g] # None => conn'[fd'[g]].at \in Accepted /\ conn'[fd'[g]].fd = g
    BY <1>0, <1>1, <1>2, <1>4, <1>5 DEF ConnInv, Accepted
  <2>4. \A d \in Conns : ~conn'[d].hdr => conn'[d].need = 0 /\ conn'[d].got = 0
    BY <1>0, <1>4, <1>5 DEF ConnInv
  <2>5. QED
    BY <2>1, <2>2, <2>3, <2>4 DEF ConnInv
<1>10. QueueInv'
  <2>1. \A d \in Conns : conn'[d].at = "queued" <=> conn[d].at = "queued"
    BY <1>2, <1>4, <1>5
  <2>2. QED
    BY <1>0, <1>1, <2>1 DEF QueueInv, Range, TypeOK
<1>11. JobInv'
  <2>1. \A v \in Workers : v # w => wk[v].job # c
    BY <1>0, <1>2 DEF JobInv
  <2>2. activeFd[w] = None
    BY <1>0, <1>1 DEF JobInv
  <2>3. \A v \in Workers : wk'[v].job # None <=> wk'[v].pc \notin Resting
    BY <1>0, <1>3, <1>5 DEF JobInv, Resting
  <2>4. \A v \in Workers : wk'[v].job # None => conn'[wk'[v].job].at = "active"
    BY <1>0, <1>3, <1>5, <2>1, JobsConns DEF JobInv
  <2>5. \A u, v \in Workers : wk'[u].job # None /\ wk'[u].job = wk'[v].job => u = v
    BY <1>0, <1>3, <1>5 DEF JobInv
  <2>6. \A d \in Conns : conn'[d].at = "active" => \E v \in Workers : wk'[v].job = d
    <3> SUFFICES ASSUME NEW d \in Conns, conn'[d].at = "active" PROVE \E v \in Workers : wk'[v].job = d
      OBVIOUS
    <3>1. d # c /\ conn[d].at = "active"
      BY <1>4, <1>5
    <3>2. PICK v \in Workers : wk[v].job = d
      BY <1>0, <3>1 DEF JobInv
    <3>3. v # w
      BY <3>1, <3>2
    <3>4. QED
      BY <1>5, <3>2, <3>3
  <2>7. ASSUME NEW v \in Workers, activeFd'[v] # None
        PROVE  wk'[v].pc \notin Resting \cup {"close"} /\ activeFd'[v] = conn'[wk'[v].job].fd
    <3>1. v # w /\ activeFd[v] # None /\ wk'[v] = wk[v] /\ wk[v].job # None
      BY <1>0, <1>1, <1>5, <2>2, <2>7 DEF JobInv
    <3>2. wk[v].job \in Conns /\ conn'[wk[v].job] = conn[wk[v].job]
      BY <1>0, <1>5, <2>1, <3>1, JobsConns
    <3>3. QED
      BY <1>0, <1>1, <3>1, <3>2 DEF JobInv
  <2>8. ASSUME NEW v \in Workers, wk'[v].pc = "close" PROVE conn'[wk'[v].job].alloc = 0
    <3>1. v # w /\ wk'[v] = wk[v] /\ wk[v].job # None
      BY <1>0, <1>3, <1>5, <2>8 DEF JobInv, Resting
    <3>2. QED
      BY <1>0, <1>5, <2>1, <2>8, <3>1, JobsConns DEF JobInv
  <2>9. QED
    BY <2>3, <2>4, <2>5, <2>6, <2>7, <2>8 DEF JobInv
<1>12. StopInv'
  BY <1>0, <1>1, <1>4, <1>5, StopKept
<1>13. StoreInv'
  <2>1. \A v \in Workers :
            \/ /\ wk'[v].pc = wk[v].pc /\ wk'[v].h = wk[v].h
               /\ wk'[v].db = wk[v].db /\ wk'[v].write = wk[v].write
            \/ wk[v].pc \notin Reserving /\ wk'[v].pc \notin Reserving /\ wk'[v].h = None
    BY <1>1, <1>3, <1>5 DEF Reserving
  <2>2. QED
    BY <1>0, <1>1, <2>1, StoreKept
<1>14. conn[c].alloc = 0
  BY <1>0, <1>1, <1>2 DEF JobInv
<1>15. QED
  BY <1>6, <1>8, <1>9, <1>10, <1>11, <1>12, <1>13, <1>14 DEF ServerInv

-----------------------------------------------------------------------------
(* The handles of the open stores.                                         *)

LEMMA HandleFields ==
  ASSUME TypeOK, StoreInv, NEW h \in cache
  PROVE  /\ h \in Handles /\ handle[h] \in Handle /\ handle[h] # None
         /\ handle[h].mu \in Workers \cup {None} /\ handle[h].res \in Nat
         /\ handle[h].path \in Dbs
  BY DEF TypeOK, StoreInv, Handle

LEMMA NoneNotHandle == None \notin Handle
  BY ConstantsAssumption

LEMMA UsersFinite == \A h : IsFiniteSet(Using(h)) /\ Cardinality(Using(h)) \in Nat
<1> SUFFICES ASSUME NEW h PROVE IsFiniteSet(Using(h)) /\ Cardinality(Using(h)) \in Nat
  OBVIOUS
<1>1. Using(h) \in SUBSET Workers
  BY DEF Using
<1>2. IsFiniteSet(Using(h))
  BY <1>1, ConstantsAssumption, FS_Subset
<1>3. QED
  BY <1>2, FS_CardinalityType

(* A handle without reservations has no user.                              *)
LEMMA UnreservedUnused ==
  ASSUME StoreInv, NEW h \in cache, handle[h].res = 0
  PROVE  \A w \in Workers : wk[w].h # h
<1>1. Cardinality(Using(h)) = 0
  BY DEF StoreInv
<1>2. Using(h) = {}
  BY <1>1, UsersFinite, FS_EmptySet
<1>3. QED
  BY <1>2 DEF Using

(* The user of a handle takes, keeps or drops its mutex.                   *)
LEMMA MutexStep ==
  ASSUME ServerInv, NEW w \in Workers, wk[w].pc \in Reserving,
         handle[wk[w].h].mu \in {None, w},
         NEW g \in Handle, handle' = [handle EXCEPT ![wk[w].h] = g],
         g.path = handle[wk[w].h].path, g.res = handle[wk[w].h].res,
         NEW n \in Worker, wk' = [wk EXCEPT ![w] = n], n.job = wk[w].job,
         n.h = wk[w].h, n.db = wk[w].db, n.pc \in Reserving,
         n.pc \in {"open", "handle"} => g.mu = w,
         n.pc \notin {"open", "handle"} => g.mu = None,
         n.pc = "handle" => g.open /\ (n.write => g.writable),
         UNCHANGED <<running, loop, stop, conn, fd, queue, nBodyAlloc, activeFd, cache>>,
         now' \in Nat
  PROVE  ServerInv'
<1> DEFINE h == wk[w].h
<1>0. /\ TypeOK /\ StoreInv /\ wk \in [Workers -> Worker] /\ cache \subseteq Handles
      /\ handle \in [Handles -> Handle \cup {None}]
  BY DEF ServerInv, TypeOK
<1>1. h \in cache /\ h \in Handles /\ h # None /\ handle[h].path = wk[w].db
  BY <1>0 DEF StoreInv
<1>2. None \notin Workers
  BY ConstantsAssumption
<1> HIDE DEF h
<1>3. /\ \A v \in Workers : wk'[v] = IF v = w THEN n ELSE wk[v]
      /\ \A k \in Handles : handle'[k] = IF k = h THEN g ELSE handle[k]
      /\ n.h = h /\ wk[w].h = h
  BY <1>0 DEF h
<1>4. g # None
  <2>1. handle[h] # None /\ handle[h] \in Handle
    BY <1>0, <1>1, HandleFields
  <2>2. QED
    BY <1>1, <2>1, NoneNotHandle
<1>5. \A v \in Workers : wk'[v].h = wk[v].h
  BY <1>3
<1>6. \A k : Using(k)' = Using(k)
  BY <1>5 DEF Using
<1>7. \A v \in Workers : v # w => (InStore(v) <=> InStore(v)')
  BY <1>3 DEF InStore
<1>8. \A v \in Workers : v # w /\ InStore(v) => wk[v].h # h
  BY <1>0, <1>2, <1>3 DEF StoreInv, h
<1>9. cache' = {k \in Handles : handle'[k] # None}
  BY <1>0, <1>1, <1>3, <1>4 DEF StoreInv
<1>10. \A k \in cache' : handle'[k].path = handle[k].path /\ handle'[k].res = handle[k].res
  BY <1>0, <1>1, <1>3 DEF h
<1>11. \A j, k \in cache' : handle'[j].path = handle'[k].path => j = k
  BY <1>0, <1>10 DEF StoreInv
<1>12. \A k \in cache' : handle'[k].res = Cardinality(Using(k))'
  BY <1>0, <1>6, <1>10 DEF StoreInv
<1>13. \A v \in Workers : wk'[v].h # None <=> wk'[v].pc \in Reserving
  BY <1>0, <1>1, <1>3 DEF StoreInv
<1>14. \A v \in Workers : wk'[v].h # None => wk'[v].h \in cache' /\ handle'[wk'[v].h].path = wk'[v].db
  BY <1>0, <1>3, <1>5, <1>10 DEF StoreInv
<1>15. ASSUME NEW v \in Workers, InStore(v)' PROVE handle'[wk'[v].h].mu = v
  <2>1. CASE v = w
    BY <1>1, <1>3, <1>15, <2>1 DEF InStore
  <2>2. CASE v # w
    <3>1. InStore(v) /\ wk[v].h # h /\ handle[wk[v].h].mu = v /\ wk[v].h # None
      BY <1>0, <1>7, <1>8, <1>15, <2>2 DEF StoreInv, InStore, Reserving
    <3>2. QED
      BY <1>0, <1>3, <3>1, <2>2 DEF StoreInv
  <2>3. QED
    BY <2>1, <2>2
<1>16. ASSUME NEW k \in cache', handle'[k].mu # None
       PROVE  (InStore(handle[k].mu) /\ wk[handle[k].mu].h = k)'
  <2>1. CASE k = h
    <3>1. handle'[k] = g /\ g.mu = w /\ n.pc \in {"open", "handle"}
      BY <1>1, <1>3, <1>16, <2>1
    <3>2. QED
      BY <1>3, <2>1, <3>1 DEF InStore
  <2>2. CASE k # h
    <3>1. handle'[k] = handle[k] /\ k \in cache /\ handle[k].mu \in Workers
      BY <1>0, <1>3, <1>16, <2>2, HandleFields
    <3>2. InStore(handle[k].mu) /\ wk[handle[k].mu].h = k /\ handle[k].mu # w
      BY <1>0, <1>3, <1>16, <2>2, <3>1 DEF StoreInv
    <3>3. PICK v \in Workers : v = handle[k].mu /\ v = handle'[k].mu
      BY <3>1
    <3>4. v # w /\ InStore(v)' /\ wk'[v].h = k
      BY <1>3, <1>7, <3>2, <3>3
    <3>5. QED
      BY <3>3, <3>4 DEF InStore
  <2>3. QED
    BY <2>1, <2>2
<1>17. ASSUME NEW v \in Workers, wk'[v].pc = "handle" PROVE Usable(v)'
  <2>1. CASE v = w
    BY <1>1, <1>3, <1>17, <2>1 DEF Usable
  <2>2. CASE v # w
    <3>1. Usable(v) /\ wk'[v] = wk[v] /\ wk[v].h # h /\ wk[v].h # None
      BY <1>0, <1>3, <1>8, <1>17, <2>2 DEF StoreInv, InStore, Reserving
    <3>2. handle'[wk[v].h] = handle[wk[v].h]
      BY <1>0, <1>3, <3>1 DEF StoreInv
    <3>3. QED
      BY <3>1, <3>2 DEF Usable
  <2>3. QED
    BY <2>1, <2>2
<1>18. StoreInv'
  BY <1>9, <1>11, <1>12, <1>13, <1>14, <1>15, <1>16, <1>17 DEF StoreInv
<1>19. handle' \in [Handles -> Handle \cup {None}]
  BY <1>0
<1>20. QED
  BY <1>0, <1>18, <1>19, WorkerQuiet DEF Reserving, Resting

LEMMA HandleUpdate ==
  ASSUME NEW k \in Handle, NEW o \in BOOLEAN, NEW wr \in BOOLEAN, NEW m \in Workers \cup {None},
         NEW l \in Nat
  PROVE  /\ [k EXCEPT !.mu = m] \in Handle
         /\ [k EXCEPT !.mu = m, !.last = l] \in Handle
         /\ [k EXCEPT !.open = o, !.writable = wr, !.mu = m] \in Handle
  BY DEF Handle

LEMMA LockStep ==
  ASSUME ServerInv, NEW w \in Workers, LockHandle(w)
  PROVE  ServerInv'
<1> DEFINE h == wk[w].h
           g == [handle[h] EXCEPT !.mu = w, !.last = now']
           n == wk'[w]
<1>0. TypeOK /\ StoreInv /\ handle \in [Handles -> Handle \cup {None}] /\ now \in Nat
  BY DEF ServerInv, TypeOK
<1>1. /\ wk[w].pc = "lock" /\ handle[h].mu = None /\ now' = now + 1 /\ Goto(w, "open")
      /\ handle' = [handle EXCEPT ![h].mu = w, ![h].last = now']
      /\ UNCHANGED <<running, loop, stop, conn, fd, queue, nBodyAlloc, activeFd, cache>>
  BY DEF LockHandle
<1>2. h \in cache /\ h \in Handles /\ handle[h] \in Handle
  BY <1>0, <1>1, HandleFields DEF StoreInv, Reserving
<1>3. PICK l \in Nat : l = now'
  BY <1>0, <1>1
<1>4. g \in Handle
  BY <1>2, <1>3, HandleUpdate
<1>5. /\ g.path = handle[h].path /\ g.res = handle[h].res /\ g.mu = w
      /\ handle' = [handle EXCEPT ![h] = g]
  BY <1>0, <1>1, <1>2 DEF Handle
<1>6. /\ n \in Worker /\ wk' = [wk EXCEPT ![w] = n] /\ n.pc = "open"
      /\ n.job = wk[w].job /\ n.h = wk[w].h /\ n.db = wk[w].db
  BY <1>0, <1>1, GotoRecord DEF Pcs
<1> HIDE DEF g, n
<1>7. now' \in Nat
  BY <1>3
<1>8. QED
  BY <1>1, <1>4, <1>5, <1>6, <1>7, MutexStep DEF Reserving

LEMMA OpenStep ==
  ASSUME ServerInv, NEW w \in Workers, OpenStore(w)
  PROVE  ServerInv'
<1> DEFINE h == wk[w].h
           n == wk'[w]
<1>0. /\ TypeOK /\ StoreInv /\ handle \in [Handles -> Handle \cup {None}] /\ now \in Nat
      /\ wk[w] \in Worker
  BY DEF ServerInv, TypeOK
<1>1. /\ wk[w].pc = "open"
      /\ UNCHANGED <<running, loop, stop, conn, fd, queue, nBodyAlloc, activeFd, cache, now>>
  BY DEF OpenStore
<1>2. h \in cache /\ h \in Handles /\ handle[h] \in Handle /\ handle[h].mu = w
  BY <1>0, <1>1, HandleFields DEF StoreInv, Reserving, InStore
<1>3. wk[w].write \in BOOLEAN /\ handle[h].writable \in BOOLEAN
  BY <1>0, <1>2 DEF Worker, Handle
<1>4. PICK o \in BOOLEAN, wr \in BOOLEAN, m \in {w, None}, pc \in {"handle", "unreserve"} :
        /\ handle' = [handle EXCEPT ![h].open = o, ![h].writable = wr, ![h].mu = m]
        /\ Goto(w, pc)
        /\ pc = "handle" => o /\ (wk[w].write => wr) /\ m = w
        /\ pc = "unreserve" => m = None
  <2>1. CASE /\ Usable(w) /\ Goto(w, "handle")
             /\ handle' = [handle EXCEPT ![h].open = TRUE, ![h].writable = handle[h].writable, ![h].mu = w]
    BY <1>3, <2>1 DEF Usable
  <2>2. CASE /\ Goto(w, "handle")
             /\ handle' = [handle EXCEPT ![h].open = TRUE, ![h].writable = wk[w].write, ![h].mu = w]
    BY <1>3, <2>2
  <2>3. CASE /\ Goto(w, "unreserve")
             /\ handle' = [handle EXCEPT ![h].open = FALSE, ![h].writable = FALSE, ![h].mu = None]
    BY <2>3
  <2>4. CASE /\ Goto(w, "unreserve")
             /\ handle' = [handle EXCEPT ![h].open = TRUE, ![h].writable = TRUE, ![h].mu = None]
    BY <2>4
  <2>5. QED
    BY <2>1, <2>2, <2>3, <2>4 DEF OpenStore
<1> DEFINE g == [handle[h] EXCEPT !.open = o, !.writable = wr, !.mu = m]
<1>5. g \in Handle
  BY <1>2, HandleUpdate, Zenon
<1>6. /\ g.path = handle[h].path /\ g.res = handle[h].res /\ g.mu = m /\ g.open = o /\ g.writable = wr
      /\ handle' = [handle EXCEPT ![h] = g]
  BY <1>0, <1>2, <1>4 DEF Handle
<1>7. /\ n \in Worker /\ wk' = [wk EXCEPT ![w] = n] /\ n.pc = pc /\ n.write = wk[w].write
      /\ n.job = wk[w].job /\ n.h = wk[w].h /\ n.db = wk[w].db
  BY <1>0, <1>4, GotoRecord DEF Pcs
<1> HIDE DEF g, n
<1>8. /\ n.pc \in {"open", "handle"} => g.mu = w
      /\ n.pc \notin {"open", "handle"} => g.mu = None
      /\ n.pc = "handle" => g.open /\ (n.write => g.writable)
      /\ n.pc \in Reserving
  BY <1>4, <1>6, <1>7 DEF Reserving
<1>9. now' \in Nat /\ wk[w].pc \in Reserving
  BY <1>0, <1>1 DEF Reserving
<1>10. QED
  BY <1>1, <1>2, <1>5, <1>6, <1>7, <1>8, <1>9, MutexStep

LEMMA ReleaseStep ==
  ASSUME ServerInv, NEW w \in Workers, Release(w)
  PROVE  ServerInv'
<1> DEFINE h == wk[w].h
           g == [handle[h] EXCEPT !.mu = None]
           n == wk'[w]
<1>0. TypeOK /\ StoreInv /\ handle \in [Handles -> Handle \cup {None}] /\ now \in Nat
  BY DEF ServerInv, TypeOK
<1>1. /\ wk[w].pc = "handle" /\ Goto(w, "unreserve")
      /\ handle' = [handle EXCEPT ![h].mu = None]
      /\ UNCHANGED <<running, loop, stop, conn, fd, queue, nBodyAlloc, activeFd, cache, now>>
  BY DEF Release
<1>2. h \in cache /\ h \in Handles /\ handle[h] \in Handle /\ handle[h].mu = w
  BY <1>0, <1>1, HandleFields DEF StoreInv, Reserving, InStore
<1>3. /\ g \in Handle /\ g.path = handle[h].path /\ g.res = handle[h].res /\ g.mu = None
      /\ handle' = [handle EXCEPT ![h] = g]
  BY <1>0, <1>1, <1>2 DEF Handle
<1>4. /\ n \in Worker /\ wk' = [wk EXCEPT ![w] = n] /\ n.pc = "unreserve"
      /\ n.job = wk[w].job /\ n.h = wk[w].h /\ n.db = wk[w].db
  BY <1>0, <1>1, GotoRecord DEF Pcs
<1> HIDE DEF g, n
<1>5. now' \in Nat /\ wk[w].pc \in Reserving
  BY <1>0, <1>1 DEF Reserving
<1>6. QED
  BY <1>1, <1>2, <1>3, <1>4, <1>5, MutexStep DEF Reserving

(* A worker gives up its reservation.                                      *)
LEMMA UnreserveStep ==
  ASSUME ServerInv, NEW w \in Workers, Unreserve(w)
  PROVE  ServerInv'
<1> DEFINE h == wk[w].h
           g == [handle[h] EXCEPT !.res = @ - 1]
           n == [NoJob("respond") EXCEPT !.job = wk[w].job]
<1>0. /\ TypeOK /\ StoreInv /\ wk \in [Workers -> Worker] /\ cache \subseteq Handles
      /\ handle \in [Handles -> Handle \cup {None}] /\ now \in Nat
  BY DEF ServerInv, TypeOK
<1>1. /\ wk[w].pc = "unreserve" /\ handle' = [handle EXCEPT ![h].res = @ - 1]
      /\ wk' = [wk EXCEPT ![w] = n]
      /\ UNCHANGED <<running, loop, stop, conn, fd, queue, nBodyAlloc, activeFd, cache, now>>
  BY DEF Unreserve
<1>2. h \in cache /\ h \in Handles /\ handle[h] \in Handle /\ h # None /\ handle[h].res \in Nat
  BY <1>0, <1>1, HandleFields DEF StoreInv, Reserving
<1>3. w \in Using(h) /\ handle[h].res = Cardinality(Using(h)) /\ IsFiniteSet(Using(h))
  <2>1. w \in Using(h)
    BY DEF Using
  <2>2. handle[h].res = Cardinality(Using(h))
    BY <1>0, <1>2 DEF StoreInv
  <2>3. QED
    BY <2>1, <2>2, UsersFinite
<1>4. handle[h].res # 0
  BY <1>0, <1>2, UnreservedUnused
<1>5. PICK r \in Nat : r = handle[h].res - 1
  BY <1>2, <1>4
<1>6. /\ g \in Handle /\ g.path = handle[h].path /\ g.res = r /\ g.mu = handle[h].mu
      /\ g.open = handle[h].open /\ g.writable = handle[h].writable
      /\ handle' = [handle EXCEPT ![h] = g]
  <2>1. g = [handle[h] EXCEPT !.res = r]
    BY <1>5
  <2>2. handle' = [handle EXCEPT ![h] = g]
    BY <1>0, <1>1, <1>2
  <2> HIDE DEF g
  <2>3. QED
    BY <1>2, <2>1, <2>2 DEF Handle
<1>7. n \in Worker /\ n.pc = "respond" /\ n.job = wk[w].job /\ n.h = None
  <2>1. wk[w].job \in Conns \cup {None}
    BY <1>0 DEF Worker
  <2>2. QED
    BY <2>1 DEF NoJob, Worker
<1> HIDE DEF h, g, n
<1>8. /\ \A v \in Workers : wk'[v] = IF v = w THEN n ELSE wk[v]
      /\ \A k \in Handles : handle'[k] = IF k = h THEN g ELSE handle[k]
      /\ wk[w].h = h
  BY <1>0, <1>1, <1>6 DEF h
<1>9. g # None
  BY <1>6, NoneNotHandle
<1>10. cache' = {k \in Handles : handle'[k] # None}
  BY <1>0, <1>1, <1>2, <1>8, <1>9 DEF StoreInv
<1>11. \A k \in cache' : handle'[k].path = handle[k].path /\ handle'[k].mu = handle[k].mu
                         /\ handle'[k].open = handle[k].open /\ handle'[k].writable = handle[k].writable
  BY <1>0, <1>1, <1>6, <1>8
<1>12. \A j, k \in cache' : handle'[j].path = handle'[k].path => j = k
  BY <1>0, <1>1, <1>11 DEF StoreInv
<1>13. ASSUME NEW k \in cache' PROVE handle'[k].res = Cardinality(Using(k))'
  <2>1. CASE k = h
    <3>1. Using(k)' = Using(h) \ {w}
      BY <1>2, <1>7, <1>8, <2>1 DEF Using
    <3>2. Cardinality(Using(h) \ {w}) = Cardinality(Using(h)) - 1
      BY <1>3, FS_RemoveElement
    <3>3. QED
      BY <1>2, <1>3, <1>5, <1>6, <1>8, <2>1, <3>1, <3>2
  <2>2. CASE k # h
    <3>1. Using(k)' = Using(k)
      <4>1. k # None
        BY <1>0, <1>1, ConstantsAssumption DEF Handles
      <4>2. QED
        BY <1>7, <1>8, <2>2, <4>1 DEF Using
    <3>2. QED
      BY <1>0, <1>1, <1>8, <2>2, <3>1 DEF StoreInv
  <2>3. QED
    BY <2>1, <2>2
<1>14. \A v \in Workers : wk'[v].h # None <=> wk'[v].pc \in Reserving
  BY <1>0, <1>7, <1>8 DEF StoreInv, Reserving
<1>15. \A v \in Workers : wk'[v].h # None => wk'[v].h \in cache' /\ handle'[wk'[v].h].path = wk'[v].db
  BY <1>0, <1>1, <1>7, <1>8, <1>11 DEF StoreInv
<1>16. ASSUME NEW v \in Workers, InStore(v)' PROVE handle'[wk'[v].h].mu = v
  <2>1. v # w /\ InStore(v) /\ wk'[v] = wk[v] /\ wk[v].h # None
    BY <1>0, <1>7, <1>8, <1>16 DEF InStore, StoreInv, Reserving
  <2>2. QED
    BY <1>0, <1>1, <1>11, <2>1 DEF StoreInv
<1>17. ASSUME NEW k \in cache', handle'[k].mu # None
       PROVE  (InStore(handle[k].mu) /\ wk[handle[k].mu].h = k)'
  <2>1. PICK v \in Workers : v = handle[k].mu /\ v = handle'[k].mu
    BY <1>0, <1>1, <1>11, <1>17, HandleFields
  <2>2. InStore(v) /\ wk[v].h = k /\ v # w
    BY <1>0, <1>1, <1>17, <2>1 DEF StoreInv, InStore
  <2>3. QED
    BY <1>8, <2>1, <2>2 DEF InStore
<1>18. ASSUME NEW v \in Workers, wk'[v].pc = "handle" PROVE Usable(v)'
  <2>1. v # w /\ wk'[v] = wk[v] /\ Usable(v) /\ wk[v].h # None
    BY <1>0, <1>7, <1>8, <1>18 DEF StoreInv, Reserving
  <2>2. wk[v].h \in cache'
    BY <1>0, <1>1, <2>1 DEF StoreInv
  <2>3. QED
    BY <1>11, <2>1, <2>2 DEF Usable
<1>19. StoreInv'
  BY <1>10, <1>12, <1>13, <1>14, <1>15, <1>16, <1>17, <1>18 DEF StoreInv
<1>20. handle' \in [Handles -> Handle \cup {None}] /\ now' \in Nat /\ cache' \subseteq Handles
  BY <1>0, <1>1, <1>6
<1>21. QED
  BY <1>1, <1>7, <1>19, <1>20, WorkerQuiet DEF Resting

(* remoteDbAcquire finds the handle of its path, or adds one, or fails: in *)
(* general, the idle handles S go, and w comes to use the handle h.        *)
LEMMA FoundStep ==
  ASSUME ServerInv, NEW w \in Workers, wk[w].pc = "request",
         NEW h \in cache, NEW db \in Dbs, NEW write \in BOOLEAN, handle[h].path = db,
         handle' = [handle EXCEPT ![h].res = @ + 1],
         wk' = [wk EXCEPT ![w] = [@ EXCEPT !.pc = "lock", !.h = h, !.db = db, !.write = write]],
         UNCHANGED <<running, loop, stop, conn, fd, queue, nBodyAlloc, activeFd, cache, now>>
  PROVE  ServerInv'
<1> DEFINE g == [handle[h] EXCEPT !.res = @ + 1]
           n == [wk[w] EXCEPT !.pc = "lock", !.h = h, !.db = db, !.write = write]
<1>0. /\ TypeOK /\ StoreInv /\ wk \in [Workers -> Worker] /\ cache \subseteq Handles
      /\ handle \in [Handles -> Handle \cup {None}] /\ now \in Nat
  BY DEF ServerInv, TypeOK
<1>1. wk' = [wk EXCEPT ![w] = n]
  BY <1>0
<1>2. h \in Handles /\ handle[h] \in Handle /\ h # None /\ handle[h].res \in Nat
  BY <1>0, HandleFields, ConstantsAssumption DEF Handles
<1>3. /\ wk[w].h = None /\ w \notin Using(h) /\ handle[h].res = Cardinality(Using(h))
      /\ IsFiniteSet(Using(h))
  <2>1. wk[w].h = None /\ handle[h].res = Cardinality(Using(h))
    BY <1>0 DEF StoreInv, Reserving
  <2>2. w \notin Using(h)
    BY <1>2, <2>1 DEF Using
  <2>3. QED
    BY <2>1, <2>2, UsersFinite
<1>5. PICK r \in Nat : r = handle[h].res + 1
  BY <1>2
<1>6. /\ g \in Handle /\ g.path = handle[h].path /\ g.res = r /\ g.mu = handle[h].mu
      /\ g.open = handle[h].open /\ g.writable = handle[h].writable
      /\ handle' = [handle EXCEPT ![h] = g]
  <2>1. g = [handle[h] EXCEPT !.res = r]
    BY <1>5
  <2>2. handle' = [handle EXCEPT ![h] = g]
    BY <1>0, <1>2
  <2> HIDE DEF g
  <2>3. QED
    BY <1>2, <2>1, <2>2 DEF Handle
<1>7. n \in Worker /\ n.pc = "lock" /\ n.job = wk[w].job /\ n.h = h /\ n.db = db
  BY <1>0, <1>2 DEF Worker
<1> HIDE DEF g, n
<1>8. /\ \A v \in Workers : wk'[v] = IF v = w THEN n ELSE wk[v]
      /\ \A k \in Handles : handle'[k] = IF k = h THEN g ELSE handle[k]
  BY <1>0, <1>1, <1>6
<1>9. g # None
  BY <1>6, NoneNotHandle
<1>10. cache' = {k \in Handles : handle'[k] # None}
  BY <1>0, <1>2, <1>8, <1>9 DEF StoreInv
<1>11. \A k \in cache' : handle'[k].path = handle[k].path /\ handle'[k].mu = handle[k].mu
                         /\ handle'[k].open = handle[k].open /\ handle'[k].writable = handle[k].writable
  BY <1>0, <1>6, <1>8
<1>12. \A j, k \in cache' : handle'[j].path = handle'[k].path => j = k
  BY <1>0, <1>11 DEF StoreInv
<1>13. ASSUME NEW k \in cache' PROVE handle'[k].res = Cardinality(Using(k))'
  <2>1. CASE k = h
    <3>1. Using(k)' = Using(h) \cup {w}
      BY <1>2, <1>7, <1>8, <2>1 DEF Using
    <3>2. Cardinality(Using(h) \cup {w}) = Cardinality(Using(h)) + 1
      BY <1>3, FS_AddElement
    <3>3. QED
      BY <1>2, <1>3, <1>5, <1>6, <1>8, <2>1, <3>1, <3>2
  <2>2. CASE k # h
    <3>1. Using(k)' = Using(k)
      <4>1. k # None
        BY <1>0, ConstantsAssumption DEF Handles
      <4>2. QED
        BY <1>3, <1>7, <1>8, <2>2, <4>1 DEF Using
    <3>2. QED
      BY <1>0, <1>8, <2>2, <3>1 DEF StoreInv
  <2>3. QED
    BY <2>1, <2>2
<1>14. \A v \in Workers : wk'[v].h # None <=> wk'[v].pc \in Reserving
  BY <1>0, <1>2, <1>7, <1>8 DEF StoreInv, Reserving
<1>15. \A v \in Workers : wk'[v].h # None => wk'[v].h \in cache' /\ handle'[wk'[v].h].path = wk'[v].db
  BY <1>0, <1>7, <1>8, <1>11 DEF StoreInv
<1>16. ASSUME NEW v \in Workers, InStore(v)' PROVE handle'[wk'[v].h].mu = v
  <2>1. v # w /\ InStore(v) /\ wk'[v] = wk[v] /\ wk[v].h # None
    BY <1>0, <1>7, <1>8, <1>16 DEF InStore, StoreInv, Reserving
  <2>2. QED
    BY <1>0, <1>11, <2>1 DEF StoreInv
<1>17. ASSUME NEW k \in cache', handle'[k].mu # None
       PROVE  (InStore(handle[k].mu) /\ wk[handle[k].mu].h = k)'
  <2>1. PICK v \in Workers : v = handle[k].mu /\ v = handle'[k].mu
    BY <1>0, <1>11, <1>17, HandleFields
  <2>2. InStore(v) /\ wk[v].h = k /\ v # w
    BY <1>0, <1>17, <2>1 DEF StoreInv, InStore
  <2>3. QED
    BY <1>8, <2>1, <2>2 DEF InStore
<1>18. ASSUME NEW v \in Workers, wk'[v].pc = "handle" PROVE Usable(v)'
  <2>1. v # w /\ wk'[v] = wk[v] /\ Usable(v) /\ wk[v].h # None
    BY <1>0, <1>7, <1>8, <1>18 DEF StoreInv, Reserving
  <2>2. wk[v].h \in cache'
    BY <1>0, <2>1 DEF StoreInv
  <2>3. QED
    BY <1>11, <2>1, <2>2 DEF Usable
<1>19. StoreInv'
  BY <1>10, <1>12, <1>13, <1>14, <1>15, <1>16, <1>17, <1>18 DEF StoreInv
<1>20. handle' \in [Handles -> Handle \cup {None}] /\ now' \in Nat /\ cache' \subseteq Handles
  BY <1>0, <1>6
<1>21. QED
  BY <1>1, <1>7, <1>19, <1>20, WorkerQuiet DEF Resting

(* The handles that remoteDbCacheEvictOne takes have no user.              *)
LEMMA EvictedUnused ==
  ASSUME TypeOK, StoreInv, NEW S \in Evictions
  PROVE  /\ S \subseteq cache /\ \A h \in S : handle[h].mu = None /\ handle[h].res = 0
         /\ \A w \in Workers : wk[w].h \notin S
<1>1. S \subseteq {h \in cache : Idle(h)}
  BY DEF Evictions
<1>2. S \subseteq cache /\ \A h \in S : handle[h].res = 0 /\ handle[h].mu = None
  BY <1>1 DEF Idle
<1>3. \A h \in S : \A w \in Workers : wk[w].h # h
  BY <1>2, UnreservedUnused
<1>4. QED
  BY <1>2, <1>3

(* The evicted handles are freed, and w is answered with an error.         *)
LEMMA EvictStep ==
  ASSUME ServerInv, NEW w \in Workers, wk[w].pc = "request", NEW S \in Evictions,
         handle' = [h \in Handles |-> IF h \in S THEN None ELSE handle[h]],
         cache' = cache \ S, Goto(w, "respond"),
         UNCHANGED <<running, loop, stop, conn, fd, queue, nBodyAlloc, activeFd, now>>
  PROVE  ServerInv'
<1> DEFINE n == wk'[w]
<1>0. /\ TypeOK /\ StoreInv /\ wk \in [Workers -> Worker] /\ cache \subseteq Handles
      /\ handle \in [Handles -> Handle \cup {None}] /\ now \in Nat
  BY DEF ServerInv, TypeOK
<1>1. /\ S \subseteq cache /\ \A v \in Workers : wk[v].h \notin S
  BY <1>0, EvictedUnused
<1>2. /\ n \in Worker /\ wk' = [wk EXCEPT ![w] = n] /\ n.pc = "respond"
      /\ n.job = wk[w].job /\ n.h = wk[w].h
  BY <1>0, GotoRecord DEF Pcs
<1> HIDE DEF n
<1>3. \A v \in Workers : wk'[v] = IF v = w THEN n ELSE wk[v]
  BY <1>0, <1>2
<1>4. wk[w].h = None
  BY <1>0 DEF StoreInv, Reserving
<1>5. \A h : Using(h)' = Using(h)
  BY <1>2, <1>3 DEF Using
<1>6. \A h \in cache' : h \in cache /\ handle'[h] = handle[h]
  BY <1>0
<1>7. cache' = {h \in Handles : handle'[h] # None}
  BY <1>0 DEF StoreInv
<1>8. /\ \A g, h \in cache' : handle'[g].path = handle'[h].path => g = h
      /\ \A h \in cache' : handle'[h].res = Cardinality(Using(h))'
  BY <1>0, <1>5, <1>6 DEF StoreInv
<1>9. \A v \in Workers : wk'[v].h # None <=> wk'[v].pc \in Reserving
  BY <1>0, <1>2, <1>3, <1>4 DEF StoreInv, Reserving
<1>10. \A v \in Workers : wk'[v].h # None => v # w /\ wk'[v] = wk[v] /\ wk[v].h \in cache'
  BY <1>0, <1>1, <1>2, <1>3, <1>4 DEF StoreInv
<1>11. \A v \in Workers : wk'[v].h # None => handle'[wk'[v].h].path = wk'[v].db
  BY <1>0, <1>6, <1>10 DEF StoreInv
<1>12. ASSUME NEW v \in Workers, InStore(v)' PROVE handle'[wk'[v].h].mu = v
  BY <1>0, <1>6, <1>9, <1>10, <1>12 DEF StoreInv, InStore, Reserving
<1>13. ASSUME NEW k \in cache', handle'[k].mu # None
       PROVE  (InStore(handle[k].mu) /\ wk[handle[k].mu].h = k)'
  <2>1. PICK v \in Workers : v = handle[k].mu /\ v = handle'[k].mu
    BY <1>0, <1>6, <1>13, HandleFields
  <2>2. InStore(v) /\ wk[v].h = k /\ v # w
    BY <1>0, <1>6, <1>13, <2>1 DEF StoreInv, InStore
  <2>3. QED
    BY <1>3, <2>1, <2>2 DEF InStore
<1>14. ASSUME NEW v \in Workers, wk'[v].pc = "handle" PROVE Usable(v)'
  <2>1. wk'[v] = wk[v] /\ Usable(v) /\ wk[v].h \in cache'
    BY <1>0, <1>9, <1>10, <1>14 DEF StoreInv, Reserving
  <2>2. QED
    BY <1>6, <2>1 DEF Usable
<1>15. StoreInv'
  BY <1>7, <1>8, <1>9, <1>10, <1>11, <1>12, <1>13, <1>14 DEF StoreInv
<1>16. handle' \in [Handles -> Handle \cup {None}] /\ now' \in Nat /\ cache' \subseteq Handles
  BY <1>0
<1>17. QED
  BY <1>2, <1>15, <1>16, WorkerQuiet DEF Resting

(* The evicted handles are freed, and w comes to use a new one.            *)
LEMMA AddedStep ==
  ASSUME ServerInv, NEW w \in Workers, wk[w].pc = "request", NEW S \in Evictions,
         NEW db \in Dbs, NEW write \in BOOLEAN, \A h \in cache : handle[h].path # db,
         NEW new \in Handles, new \in S \/ handle[new] = None,
         handle' = [[h \in Handles |-> IF h \in S THEN None ELSE handle[h]] EXCEPT ![new] =
                       [path |-> db, open |-> FALSE, writable |-> FALSE,
                        res |-> 1, mu |-> None, last |-> 0]],
         cache' = (cache \ S) \cup {new},
         wk' = [wk EXCEPT ![w] = [@ EXCEPT !.pc = "lock", !.h = new, !.db = db, !.write = write]],
         UNCHANGED <<running, loop, stop, conn, fd, queue, nBodyAlloc, activeFd, now>>
  PROVE  ServerInv'
<1> DEFINE g == [path |-> db, open |-> FALSE, writable |-> FALSE,
                 res |-> 1, mu |-> None, last |-> 0]
           n == [wk[w] EXCEPT !.pc = "lock", !.h = new, !.db = db, !.write = write]
<1>0. /\ TypeOK /\ StoreInv /\ wk \in [Workers -> Worker] /\ cache \subseteq Handles
      /\ handle \in [Handles -> Handle \cup {None}] /\ now \in Nat
  BY DEF ServerInv, TypeOK
<1>1. /\ S \subseteq cache /\ \A v \in Workers : wk[v].h \notin S
  BY <1>0, EvictedUnused
<1>2. wk' = [wk EXCEPT ![w] = n]
  BY <1>0
<1>3. new # None /\ new \notin cache \ S
  BY <1>0, ConstantsAssumption DEF Handles, StoreInv
<1>4. g \in Handle /\ g.path = db /\ g.res = 1 /\ g.mu = None
  BY DEF Handle
<1>5. n \in Worker /\ n.pc = "lock" /\ n.job = wk[w].job /\ n.h = new /\ n.db = db
  BY <1>0 DEF Worker
<1> HIDE DEF n
<1>6. /\ \A v \in Workers : wk'[v] = IF v = w THEN n ELSE wk[v]
      /\ \A k \in Handles : handle'[k] = IF k = new THEN g ELSE IF k \in S THEN None ELSE handle[k]
  BY <1>0, <1>2
<1>7. g # None
  BY <1>4, NoneNotHandle
<1> HIDE DEF g
<1>8. /\ wk[w].h = None
      /\ \A v \in Workers : wk[v].h # None => wk[v].h \in cache \ S /\ wk[v].h # new
  BY <1>0, <1>1, <1>3 DEF StoreInv, Reserving
<1>9. \A h \in cache \ S : h \in Handles /\ h # new /\ handle'[h] = handle[h]
  BY <1>0, <1>3, <1>6
<1>10. cache' = {k \in Handles : handle'[k] # None}
  <2>0. cache' \subseteq Handles
    BY <1>0
  <2>1. ASSUME NEW k \in Handles PROVE k \in cache' <=> handle'[k] # None
    <3>1. k \in cache <=> handle[k] # None
      BY <1>0 DEF StoreInv
    <3>2. CASE k = new
      BY <1>6, <1>7, <3>2
    <3>3. CASE k # new /\ k \in S
      BY <1>6, <3>3
    <3>4. CASE k # new /\ k \notin S
      BY <1>6, <3>1, <3>4
    <3>5. QED
      BY <3>2, <3>3, <3>4
  <2>2. QED
    BY <2>0, <2>1
<1>11. handle'[new] = g
  BY <1>6
<1>12. \A j, k \in cache' : handle'[j].path = handle'[k].path => j = k
  <2> SUFFICES ASSUME NEW j \in cache', NEW k \in cache', handle'[j].path = handle'[k].path PROVE j = k
    OBVIOUS
  <2>1. (j \in cache \ S \/ j = new) /\ (k \in cache \ S \/ k = new)
    OBVIOUS
  <2>2. CASE j \in cache \ S /\ k \in cache \ S
    BY <1>0, <1>9, <2>2 DEF StoreInv
  <2>3. CASE j = new /\ k \in cache \ S
    BY <1>4, <1>9, <1>11, <2>3
  <2>4. CASE k = new /\ j \in cache \ S
    BY <1>4, <1>9, <1>11, <2>4
  <2>5. QED
    BY <2>1, <2>2, <2>3, <2>4
<1>13. ASSUME NEW k \in cache' PROVE handle'[k].res = Cardinality(Using(k))'
  <2>1. CASE k = new
    <3>1. Using(k)' = {w}
      BY <1>3, <1>5, <1>6, <1>8, <2>1 DEF Using
    <3>2. Cardinality({w}) = 1
      BY FS_Singleton
    <3>3. QED
      BY <1>4, <1>11, <2>1, <3>1, <3>2
  <2>2. CASE k # new
    <3>1. k \in cache \ S /\ k # None
      BY <1>0, <2>2, ConstantsAssumption DEF Handles
    <3>2. Using(k)' = Using(k)
      BY <1>5, <1>6, <1>8, <2>2, <3>1 DEF Using
    <3>3. QED
      BY <1>0, <1>9, <3>1, <3>2 DEF StoreInv
  <2>3. QED
    BY <2>1, <2>2
<1>14. \A v \in Workers : wk'[v].h # None <=> wk'[v].pc \in Reserving
  BY <1>0, <1>3, <1>5, <1>6 DEF StoreInv, Reserving
<1>15. \A v \in Workers : v # w /\ wk'[v].h # None => wk'[v] = wk[v] /\ wk[v].h \in cache \ S
  BY <1>6, <1>8
<1>16. \A v \in Workers : wk'[v].h # None => wk'[v].h \in cache' /\ handle'[wk'[v].h].path = wk'[v].db
  <2> SUFFICES ASSUME NEW v \in Workers, wk'[v].h # None
               PROVE  wk'[v].h \in cache' /\ handle'[wk'[v].h].path = wk'[v].db
    OBVIOUS
  <2>1. CASE v = w
    BY <1>4, <1>5, <1>6, <1>11, <2>1
  <2>2. CASE v # w
    BY <1>0, <1>9, <1>15, <2>2 DEF StoreInv
  <2>3. QED
    BY <2>1, <2>2
<1>17. ASSUME NEW v \in Workers, InStore(v)' PROVE handle'[wk'[v].h].mu = v
  <2>1. v # w /\ wk'[v].h # None
    BY <1>5, <1>6, <1>14, <1>17 DEF InStore, Reserving
  <2>2. QED
    BY <1>0, <1>9, <1>15, <1>17, <2>1 DEF StoreInv, InStore
<1>18. ASSUME NEW k \in cache', handle'[k].mu # None
       PROVE  (InStore(handle[k].mu) /\ wk[handle[k].mu].h = k)'
  <2>0. k # new /\ k \in cache \ S /\ handle'[k] = handle[k]
    BY <1>4, <1>9, <1>11, <1>18
  <2>1. PICK v \in Workers : v = handle[k].mu /\ v = handle'[k].mu
    BY <1>0, <1>18, <2>0, HandleFields
  <2>2. InStore(v) /\ wk[v].h = k /\ v # w
    BY <1>0, <1>18, <2>0, <2>1 DEF StoreInv, InStore
  <2>3. QED
    BY <1>6, <2>1, <2>2 DEF InStore
<1>19. ASSUME NEW v \in Workers, wk'[v].pc = "handle" PROVE Usable(v)'
  <2>1. v # w /\ wk'[v].h # None
    BY <1>5, <1>6, <1>14, <1>19 DEF Reserving
  <2>2. wk'[v] = wk[v] /\ Usable(v) /\ wk[v].h \in cache \ S
    BY <1>0, <1>15, <1>19, <2>1 DEF StoreInv
  <2>3. QED
    BY <1>9, <2>2 DEF Usable
<1>20. StoreInv'
  BY <1>10, <1>12, <1>13, <1>14, <1>16, <1>17, <1>18, <1>19 DEF StoreInv
<1>21. handle' \in [Handles -> Handle \cup {None}]
  <2>1. [h \in Handles |-> IF h \in S THEN None ELSE handle[h]] \in [Handles -> Handle \cup {None}]
    BY <1>0
  <2>2. QED
    BY <1>4, <2>1 DEF g
<1>22. now' \in Nat /\ cache' \subseteq Handles
  BY <1>0
<1>23. QED
  BY <1>2, <1>5, <1>20, <1>21, <1>22, WorkerQuiet DEF Resting

LEMMA LookupStep ==
  ASSUME ServerInv, NEW w \in Workers, NEW db \in Dbs, NEW write \in BOOLEAN, Lookup(w, db, write)
  PROVE  ServerInv'
<1> DEFINE Left(S) == [h \in Handles |-> IF h \in S THEN None ELSE handle[h]]
           Uses(h) == wk' = [wk EXCEPT ![w] = [@ EXCEPT !.pc = "lock", !.h = h,
                                                   !.db = db, !.write = write]]
<1>0. /\ wk[w].pc = "request"
      /\ UNCHANGED <<running, loop, stop, conn, fd, queue, nBodyAlloc, activeFd, now>>
  BY DEF Lookup
<1>1. ASSUME NEW h \in cache, handle[h].path = db, handle' = [handle EXCEPT ![h].res = @ + 1],
             Uses(h), UNCHANGED cache
      PROVE  ServerInv'
  BY <1>0, <1>1, FoundStep
<1>2. ASSUME NEW S \in Evictions, handle' = Left(S), cache' = cache \ S, Goto(w, "respond")
      PROVE  ServerInv'
  BY <1>0, <1>2, EvictStep
<1>3. ASSUME {h \in cache : handle[h].path = db} = {}, NEW S \in Evictions, NEW new \in Handles, Left(S)[new] = None,
             handle' = [Left(S) EXCEPT ![new] = [path |-> db, open |-> FALSE, writable |-> FALSE,
                                                 res |-> 1, mu |-> None, last |-> 0]],
             cache' = (cache \ S) \cup {new}, Uses(new)
      PROVE  ServerInv'
  <2>1. new \in S \/ handle[new] = None
    BY <1>3
  <2>2. \A h \in cache : handle[h].path # db
    BY <1>3
  <2>3. QED
    BY <1>0, <1>3, <2>1, <2>2, AddedStep
<1>4. QED
  BY <1>1, <1>2, <1>3 DEF Lookup

LEMMA TakeJobStep ==
  ASSUME ServerInv, NEW w \in Workers, TakeJob(w)
  PROVE  ServerInv'
<1>1. CASE queue # <<>>
  BY <1>1, JobStep DEF TakeJob
<1>2. CASE queue = <<>>
  <2>1. /\ wk[w].pc = "idle" /\ Goto(w, IF running THEN "wait" ELSE "exit")
        /\ UNCHANGED <<running, loop, stop, conn, fd, queue, nBodyAlloc, activeFd, handle, cache, now>>
    BY <1>2 DEF TakeJob
  <2>2. PICK pc \in {"wait", "exit"} : Goto(w, pc)
    BY <2>1
  <2>3. QED
    BY <2>1, <2>2, RestStep
<1>3. QED
  BY <1>1, <1>2

LEMMA WorkersStep ==
  ASSUME ServerInv, NEW w \in Workers, WorkerStep(w)
  PROVE  ServerInv'
<1>1. CASE TakeJob(w)
  BY <1>1, TakeJobStep
<1>2. CASE Refuse(w) \/ Respond(w)
  BY <1>2, AnswerStep
<1>3. CASE \E db \in Dbs, write \in BOOLEAN : Lookup(w, db, write)
  BY <1>3, LookupStep
<1>4. CASE LockHandle(w)
  BY <1>4, LockStep
<1>5. CASE OpenStore(w)
  BY <1>5, OpenStep
<1>6. CASE Release(w)
  BY <1>6, ReleaseStep
<1>7. CASE Unreserve(w)
  BY <1>7, UnreserveStep
<1>8. CASE Finish(w)
  BY <1>8, FinishStep
<1>9. CASE CloseConn(w)
  BY <1>9, CloseConnStep
<1>10. QED
  BY <1>1, <1>2, <1>3, <1>4, <1>5, <1>6, <1>7, <1>8, <1>9 DEF WorkerStep

-----------------------------------------------------------------------------
(* doltliteServerStop.                                                     *)

(* The connections of the queue are closed and every waiting worker is     *)
(* back at the head of its loop.                                           *)
LEMMA RequestStopStep ==
  ASSUME ServerInv, RequestStop
  PROVE  ServerInv'
<1>0. /\ TypeOK /\ ConnInv /\ QueueInv /\ JobInv /\ StopInv /\ StoreInv /\ BodyAccounted
      /\ conn \in [Conns -> Conn] /\ fd \in [Fds -> Conns \cup {None}] /\ queue \in Seq(Conns)
      /\ wk \in [Workers -> Worker]
      /\ UNCHANGED <<loop, activeFd, handle, cache, now>>
      /\ stop = "run" /\ stop' = "joinLoop" /\ running' = FALSE /\ queue' = <<>>
  BY DEF ServerInv, TypeOK, RequestStop
<1> DEFINE P == Range(queue)
<1>1. /\ P \in SUBSET Conns
      /\ \A c \in Conns : c \in P <=> conn[c].at = "queued"
  BY <1>0 DEF QueueInv, Range
<1>2. /\ conn' = [c \in Conns |-> IF c \in P THEN NoConn("closed") ELSE conn[c]]
      /\ fd' = [f \in Fds |-> IF fd[f] \in P THEN None ELSE fd[f]]
      /\ nBodyAlloc' = nBodyAlloc - Cardinality(Units(P))
      /\ wk' = [w \in Workers |-> IF w \in Broadcast THEN [wk[w] EXCEPT !.pc = "idle"] ELSE wk[w]]
  BY DEF RequestStop
<1> HIDE DEF P
<1>3. /\ NoConn("closed") \in Conn /\ NoConn("closed").at = "closed"
      /\ NoConn("closed").alloc = 0 /\ NoConn("closed").need = 0 /\ NoConn("closed").got = 0
  BY NoConnType DEF NoConn
<1>4. BodyAccounted' /\ nBodyAlloc' \in Nat
  <2>1. \A d \in Conns : conn'[d].alloc = IF d \in P THEN 0 ELSE conn[d].alloc
    BY <1>2, <1>3
  <2>2. QED
    BY <1>0, <1>1, <1>2, <2>1, BodyRelease
<1>5. /\ wk' \in [Workers -> Worker]
      /\ \A w \in Workers : /\ wk'[w].job = wk[w].job /\ wk'[w].h = wk[w].h
                            /\ wk'[w].db = wk[w].db /\ wk'[w].write = wk[w].write
                            /\ \/ wk'[w].pc = wk[w].pc
                               \/ wk[w].pc = "wait" /\ wk'[w].pc = "idle"
  <2>1. ASSUME NEW w \in Workers
        PROVE  /\ wk'[w] \in Worker
               /\ wk'[w].job = wk[w].job /\ wk'[w].h = wk[w].h
               /\ wk'[w].db = wk[w].db /\ wk'[w].write = wk[w].write
               /\ \/ wk'[w].pc = wk[w].pc
                  \/ wk[w].pc = "wait" /\ wk'[w].pc = "idle"
    <3> DEFINE n == [wk[w] EXCEPT !.pc = "idle"]
    <3>1. /\ n \in Worker /\ n.job = wk[w].job /\ n.h = wk[w].h /\ n.db = wk[w].db
          /\ n.write = wk[w].write /\ n.pc = "idle"
      BY <1>0 DEF Worker
    <3>2. wk'[w] = IF wk[w].pc = "wait" THEN n ELSE wk[w]
      BY <1>2 DEF Broadcast
    <3> HIDE DEF n
    <3>3. QED
      BY <1>0, <3>1, <3>2
  <2>2. QED
    BY <1>2, <2>1
<1>6. TypeOK'
  <2>1. conn' \in [Conns -> Conn]
    BY <1>0, <1>2, <1>3
  <2>2. fd' \in [Fds -> Conns \cup {None}]
    BY <1>0, <1>2
  <2>3. queue' \in Seq(Conns)
    BY <1>0
  <2>4. QED
    BY <1>0, <1>4, <1>5, <2>1, <2>2, <2>3 DEF TypeOK
<1>7. ConnInv'
  <2>1. \A d \in Conns : conn'[d].at \notin Accepted => conn'[d] = NoConn(conn'[d].at)
    BY <1>0, <1>2, <1>3 DEF ConnInv, Accepted
  <2>2. \A d \in Conns : conn'[d].at \in Accepted => conn'[d].fd \in Fds /\ fd'[conn'[d].fd] = d
    BY <1>0, <1>2, <1>3 DEF ConnInv, Accepted
  <2>3. \A g \in Fds : fd'[g] # None => conn'[fd'[g]].at \in Accepted /\ conn'[fd'[g]].fd = g
    BY <1>0, <1>2, <1>3 DEF ConnInv, Accepted
  <2>4. \A d \in Conns : ~conn'[d].hdr => conn'[d].need = 0 /\ conn'[d].got = 0
    BY <1>0, <1>2, <1>3 DEF ConnInv
  <2>5. QED
    BY <2>1, <2>2, <2>3, <2>4 DEF ConnInv
<1>8. QueueInv'
  <2>1. DOMAIN queue' = {}
    BY <1>0
  <2>2. \A c \in Conns : conn'[c].at # "queued"
    BY <1>0, <1>1, <1>2, <1>3
  <2>3. QED
    BY <1>0, <2>1, <2>2 DEF QueueInv
<1>9. JobInv'
  <2>1. \A c \in Conns : /\ conn[c].at = "active" <=> conn'[c].at = "active"
                         /\ conn[c].at = "active" => conn'[c].fd = conn[c].fd /\ conn'[c].alloc = conn[c].alloc
    BY <1>1, <1>2, <1>3
  <2>2. \A w \in Workers : /\ wk'[w].job = wk[w].job
                           /\ wk[w].pc \in Resting <=> wk'[w].pc \in Resting
                           /\ wk'[w].pc = "close" => wk[w].pc = "close"
    BY <1>5 DEF Resting
  <2>3. QED
    BY <1>0, <2>1, <2>2, JobKept, JobsConns
<1>10. StopInv'
  BY <1>0 DEF StopInv
<1>11. StoreInv'
  <2>1. \A w \in Workers :
            \/ /\ wk'[w].pc = wk[w].pc /\ wk'[w].h = wk[w].h
               /\ wk'[w].db = wk[w].db /\ wk'[w].write = wk[w].write
            \/ wk[w].pc \notin Reserving /\ wk'[w].pc \notin Reserving /\ wk'[w].h = None
    BY <1>0, <1>5 DEF Reserving, StoreInv
  <2>2. QED
    BY <1>0, <2>1, StoreKept
<1>12. QED
  BY <1>4, <1>6, <1>7, <1>8, <1>9, <1>10, <1>11 DEF ServerInv

LEMMA JoinLoopStep ==
  ASSUME ServerInv, JoinLoop
  PROVE  ServerInv'
<1>1. /\ TypeOK /\ ConnInv /\ QueueInv /\ JobInv /\ StopInv /\ StoreInv /\ BodyAccounted
      /\ stop = "joinLoop" /\ loop = "done" /\ stop' = "joinWorkers"
      /\ UNCHANGED <<running, loop, conn, fd, queue, nBodyAlloc, wk, activeFd, handle, cache, now>>
  BY DEF ServerInv, JoinLoop
<1>2. TypeOK' /\ ConnInv' /\ QueueInv'
  BY <1>1 DEF TypeOK, ConnInv, QueueInv
<1>3. JobInv'
  BY <1>1 DEF JobInv
<1>4. StopInv'
  BY <1>1 DEF StopInv, At
<1>5. StoreInv'
  BY <1>1, StoreKept
<1>6. BodyAccounted'
  BY <1>1, BodyKept
<1>7. QED
  BY <1>2, <1>3, <1>4, <1>5, <1>6 DEF ServerInv

(* Every worker has returned, so no handle has a user.                     *)
LEMMA JoinWorkersStep ==
  ASSUME ServerInv, JoinWorkers
  PROVE  ServerInv'
<1>1. /\ TypeOK /\ ConnInv /\ QueueInv /\ JobInv /\ StopInv /\ StoreInv /\ BodyAccounted
      /\ stop = "joinWorkers" /\ stop' = "freed" /\ \A w \in Workers : wk[w].pc = "exit"
      /\ handle' = [h \in Handles |-> IF h \in cache THEN None ELSE handle[h]] /\ cache' = {}
      /\ handle \in [Handles -> Handle \cup {None}]
      /\ UNCHANGED <<running, loop, conn, fd, queue, nBodyAlloc, wk, activeFd, now>>
  BY DEF ServerInv, JoinWorkers, TypeOK
<1>2. TypeOK' /\ ConnInv' /\ QueueInv'
  BY <1>1 DEF TypeOK, ConnInv, QueueInv
<1>3. JobInv'
  BY <1>1 DEF JobInv
<1>4. StopInv'
  BY <1>1 DEF StopInv, At
<1>5. StoreInv'
  <2>1. \A h \in Handles : handle'[h] = None
    BY <1>1 DEF StoreInv
  <2>2. \A w \in Workers : wk'[w].h = None /\ wk'[w].pc = "exit"
    BY <1>1 DEF StoreInv, Reserving
  <2>3. QED
    BY <1>1, <2>1, <2>2 DEF StoreInv, InStore, Reserving
<1>6. BodyAccounted'
  BY <1>1, BodyKept
<1>7. QED
  BY <1>2, <1>3, <1>4, <1>5, <1>6 DEF ServerInv

-----------------------------------------------------------------------------
(* The invariant.                                                          *)

LEMMA InitInv == Init => ServerInv
<1> SUFFICES ASSUME Init PROVE ServerInv
  OBVIOUS
<1>0. /\ NoConn("new") \in Conn /\ NoConn("new").at = "new" /\ NoConn("new").hdr = FALSE
      /\ NoConn("new").alloc = 0 /\ NoConn("new").need = 0 /\ NoConn("new").got = 0
  BY NoConnType DEF NoConn
<1>1. /\ NoJob("idle") \in Worker /\ NoJob("idle").pc = "idle" /\ NoJob("idle").job = None
      /\ NoJob("idle").h = None
  BY DEF NoJob, Worker
<1>2. /\ \A c \in Conns : conn[c] = NoConn("new")
      /\ \A w \in Workers : wk[w] = NoJob("idle") /\ activeFd[w] = None
      /\ \A f \in Fds : fd[f] = None
      /\ \A h \in Handles : handle[h] = None
  BY DEF Init
<1>3. TypeOK
  <2>1. conn \in [Conns -> Conn] /\ wk \in [Workers -> Worker]
    BY <1>0, <1>1 DEF Init
  <2>2. /\ fd \in [Fds -> Conns \cup {None}] /\ activeFd \in [Workers -> Fds \cup {None}]
        /\ handle \in [Handles -> Handle \cup {None}]
    BY DEF Init
  <2>3. queue \in Seq(Conns) /\ nBodyAlloc \in Nat /\ now \in Nat
    BY DEF Init
  <2>4. QED
    BY <2>1, <2>2, <2>3 DEF Init, TypeOK
<1>4. ConnInv
  BY <1>0, <1>2 DEF ConnInv, Accepted
<1>5. QueueInv
  <2>1. queue = <<>> /\ DOMAIN queue = {} /\ running
    BY DEF Init
  <2>2. QED
    BY <1>0, <1>2, <2>1 DEF QueueInv
<1>6. JobInv
  BY <1>0, <1>1, <1>2 DEF JobInv, Resting
<1>7. StopInv
  BY DEF Init, StopInv
<1>8. StoreInv
  BY <1>1, <1>2 DEF Init, StoreInv, Reserving, InStore
<1>9. BodyAccounted
  <2>1. Units(Conns) = {}
    <3>1. ASSUME NEW u \in Conns \X (1..MaxRequest) PROVE ~ (u[2] <= conn[u[1]].alloc)
      <4>1. u[1] \in Conns /\ u[2] \in 1..MaxRequest
        OBVIOUS
      <4>2. conn[u[1]].alloc = 0
        BY <1>0, <1>2, <4>1
      <4>3. QED
        BY <4>1, <4>2, ConstantsAssumption
    <3>2. QED
      BY <3>1 DEF Units
  <2>2. QED
    BY <2>1, FS_EmptySet, ConstantsAssumption DEF Init, BodyAccounted
<1>10. QED
  BY <1>3, <1>4, <1>5, <1>6, <1>7, <1>8, <1>9 DEF ServerInv

LEMMA NextInv == ServerInv /\ [Next]_vars => ServerInv'
<1> SUFFICES ASSUME ServerInv, [Next]_vars PROVE ServerInv'
  OBVIOUS
<1>1. CASE ServerLoop
  BY <1>1, LoopStep
<1>2. CASE \E w \in Workers : WorkerStep(w)
  BY <1>2, WorkersStep
<1>3. CASE ServerStop
  BY <1>3, RequestStopStep, JoinLoopStep, JoinWorkersStep DEF ServerStop
<1>4. CASE UNCHANGED vars
  <2>1. /\ TypeOK /\ ConnInv /\ QueueInv /\ JobInv /\ StopInv /\ StoreInv /\ BodyAccounted
        /\ UNCHANGED <<running, loop, stop, conn, fd, queue, nBodyAlloc, wk, activeFd, handle, cache, now>>
    BY <1>4 DEF ServerInv, vars
  <2>2. TypeOK' /\ ConnInv' /\ QueueInv'
    BY <2>1 DEF TypeOK, ConnInv, QueueInv
  <2>3. JobInv'
    BY <2>1 DEF JobInv
  <2>4. StopInv'
    BY <2>1 DEF StopInv, At
  <2>5. StoreInv' /\ BodyAccounted'
    BY <2>1, StoreKept, BodyKept
  <2>6. QED
    BY <2>2, <2>3, <2>4, <2>5 DEF ServerInv
<1>5. QED
  BY <1>1, <1>2, <1>3, <1>4 DEF Next

(* In every reachable state of the server the descriptors, the queue, the  *)
(* jobs, the buffers and the handles of doltlite_remotesrv.c are in the    *)
(* hands of exactly one owner each.                                        *)
THEOREM ServerInvariant == Spec => []ServerInv
  BY InitInv, NextInv, PTL DEF Spec

-----------------------------------------------------------------------------
(* What follows from the invariant.                                        *)

(* Every field of the server, its connections, workers and handles keeps   *)
(* its type, for any number of them; in particular remoteDbRelease never   *)
(* brings a reservation below zero.                                        *)
THEOREM TypeCorrect == Spec => []TypeOK
<1>1. ServerInv => TypeOK
  BY DEF ServerInv
<1>2. QED
  BY <1>1, ServerInvariant, PTL

(* remoteDbCacheEvictOne never frees a handle that a worker is about to    *)
(* lock or is in: its reservation under pSrv->mutex is counted.            *)
THEOREM ValidHandles == Spec => []HandlesValid
<1>1. ServerInv => HandlesValid
  BY DEF ServerInv, StoreInv, HandlesValid
<1>2. QED
  BY <1>1, ServerInvariant, PTL

(* The handle's mutex keeps two workers out of the store of one database:  *)
(* the cache has one handle to a path, and a request that writes has a     *)
(* store opened for writing.                                               *)
THEOREM ExclusiveStore == Spec => []StoreExclusive
<1>1. ServerInv => StoreExclusive
  <2> SUFFICES ASSUME ServerInv, NEW w \in Workers, InStore(w)
               PROVE  /\ \A v \in Workers \ {w} : InStore(v) => wk[v].db # wk[w].db
                      /\ wk[w].pc = "handle" => Usable(w)
    BY DEF StoreExclusive
  <2>0. StoreInv
    BY DEF ServerInv
  <2>1. \A v \in Workers : InStore(v) => /\ wk[v].h \in cache
                                         /\ handle[wk[v].h].path = wk[v].db
                                         /\ handle[wk[v].h].mu = v
    BY <2>0 DEF StoreInv, InStore, Reserving
  <2>2. \A v \in Workers \ {w} : InStore(v) => wk[v].db # wk[w].db
    BY <2>0, <2>1 DEF StoreInv
  <2>3. QED
    BY <2>0, <2>2 DEF StoreInv
<1>2. QED
  BY <1>1, ServerInvariant, PTL

(* nBodyAlloc is the sum of the request buffers, whichever way a request   *)
(* is promoted, refused, expired, finished or dropped by a stop.           *)
THEOREM AccountedBody == Spec => []BodyAccounted
<1>1. ServerInv => BodyAccounted
  BY DEF ServerInv
<1>2. QED
  BY <1>1, ServerInvariant, PTL

(* The descriptor that serverRequestStop would shut down is the one of the *)
(* worker's own connection.                                                *)
THEOREM OwnedActive == Spec => []ActiveOwned
<1>1. ServerInv => ActiveOwned
  <2> SUFFICES ASSUME ServerInv, NEW w \in Workers, activeFd[w] # None
               PROVE  fd[activeFd[w]] = wk[w].job
    BY DEF ActiveOwned
  <2>1. ConnInv /\ JobInv /\ TypeOK
    BY DEF ServerInv
  <2>2. activeFd[w] = conn[wk[w].job].fd /\ wk[w].job # None /\ conn[wk[w].job].at = "active"
    BY <2>1 DEF JobInv
  <2>3. wk[w].job \in Conns
    BY <2>1, <2>2, JobsConns
  <2>4. QED
    BY <2>1, <2>2, <2>3 DEF ConnInv, Accepted
<1>2. QED
  BY <1>1, ServerInvariant, PTL

(* doltliteServerStop returns with every accepted connection closed and no *)
(* buffer, handle or job left, in whatever state the stop met the server.  *)
THEOREM LeftNothing == Spec => []NothingLeft
<1>1. ServerInv => NothingLeft
  <2> SUFFICES ASSUME ServerInv, stop = "freed"
               PROVE  /\ \A c \in Conns : conn[c].at \in {"new", "closed"}
                      /\ \A f \in Fds : fd[f] = None
                      /\ queue = <<>> /\ nBodyAlloc = 0
                      /\ \A h \in Handles : handle[h] = None
    BY DEF NothingLeft
  <2>0. /\ TypeOK /\ ConnInv /\ QueueInv /\ JobInv /\ StopInv /\ StoreInv /\ BodyAccounted
        /\ conn \in [Conns -> Conn] /\ fd \in [Fds -> Conns \cup {None}]
    BY DEF ServerInv, TypeOK
  <2>1. queue = <<>> /\ loop = "done" /\ cache = {} /\ \A w \in Workers : wk[w].pc = "exit"
    BY <2>0 DEF StopInv, QueueInv
  <2>2. \A c \in Conns : conn[c].at # "pending"
    BY <2>0, <2>1 DEF StopInv, At
  <2>3. \A c \in Conns : conn[c].at # "queued"
    <3>1. DOMAIN queue = {}
      BY <2>1
    <3>2. Range(queue) = {}
      BY <3>1 DEF Range
    <3>3. QED
      BY <2>0, <3>2 DEF QueueInv
  <2>4. \A c \in Conns : conn[c].at # "active"
    <3>1. \A w \in Workers : wk[w].job = None
      BY <2>0, <2>1 DEF JobInv, Resting
    <3>2. \A c \in Conns : c # None
      BY ConstantsAssumption DEF Conns
    <3>3. QED
      BY <2>0, <3>1, <3>2 DEF JobInv
  <2>5. \A c \in Conns : conn[c].at \in {"new", "closed"}
    BY <2>0, <2>2, <2>3, <2>4 DEF Conn
  <2>6. \A f \in Fds : fd[f] = None
    BY <2>0, <2>5 DEF ConnInv, Accepted
  <2>7. nBodyAlloc = 0
    <3>1. \A c \in Conns : conn[c].alloc = 0
      BY <2>0, <2>5 DEF ConnInv, Accepted, NoConn
    <3>2. \A u \in Conns \X (1..MaxRequest) : ~ (u[2] <= conn[u[1]].alloc)
      BY <3>1, ConstantsAssumption
    <3>3. Units(Conns) = {}
      BY <3>2 DEF Units
    <3>4. QED
      BY <2>0, <3>3, FS_EmptySet DEF BodyAccounted
  <2>8. \A h \in Handles : handle[h] = None
    BY <2>0, <2>1 DEF StoreInv
  <2>9. QED
    BY <2>1, <2>5, <2>6, <2>7, <2>8
<1>2. QED
  BY <1>1, ServerInvariant, PTL

-----------------------------------------------------------------------------
(* The bound of the cache.                                                 *)

LEMMA MaxOfTwo ==
  ASSUME NEW a \in Int, NEW b \in Int
  PROVE  Max({a, b}) \in {a, b} /\ a <= Max({a, b}) /\ b <= Max({a, b})
  BY DEF Max

LEMMA MinOfTwo ==
  ASSUME NEW a \in Int, NEW b \in Int
  PROVE  Min({a, b}) \in {a, b}
  BY DEF Min

LEMMA CacheFinite ==
  ASSUME TypeOK
  PROVE  /\ IsFiniteSet(Handles) /\ IsFiniteSet(cache) /\ Cardinality(cache) \in Nat
<1>1. MaxHandles \in Int
  BY ConstantsAssumption
<1>2. IsFiniteSet(Handles)
  BY <1>1, FS_Interval DEF Handles
<1>3. cache \in SUBSET Handles
  BY DEF TypeOK
<1>4. IsFiniteSet(cache)
  BY <1>2, <1>3, FS_Subset
<1>5. QED
  BY <1>2, <1>4, FS_CardinalityType

(* A handle that cannot be evicted is reserved.                            *)
LEMMA BusyReserved ==
  ASSUME TypeOK, StoreInv, NEW h \in cache, ~Idle(h)
  PROVE  handle[h].res > 0
<1>1. handle[h].res \in Nat /\ handle[h].mu \in Workers \cup {None}
  BY HandleFields
<1>2. CASE handle[h].res # 0
  BY <1>1, <1>2
<1>3. CASE handle[h].res = 0
  <2>1. handle[h].mu # None /\ wk[handle[h].mu].h = h
    BY <1>3 DEF Idle, StoreInv
  <2>2. QED
    BY <1>1, <1>3, <2>1, UnreservedUnused
<1>4. QED
  BY <1>2, <1>3

(* After remoteDbAcquire's loop the cache has room for one more, or every  *)
(* handle left in it is reserved.                                          *)
LEMMA EvictionRoom ==
  ASSUME TypeOK, StoreInv, NEW S \in Evictions
  PROVE  \/ Cardinality(cache \ S) + 1 <= DbCacheMax
         \/ \A h \in cache \ S : ~Idle(h)
<1> DEFINE idle == {h \in cache : Idle(h)}
           over == Cardinality(cache) - DbCacheMax + 1
           n == Min({Cardinality(idle), Max({0, over})})
<1>0. IsFiniteSet(cache) /\ Cardinality(cache) \in Nat /\ DbCacheMax \in Nat
  BY CacheFinite, ConstantsAssumption
<1>1. S \in SUBSET idle /\ idle \in SUBSET cache /\ S \in SUBSET cache /\ Cardinality(S) = n
  BY DEF Evictions
<1>2. \A h \in cache : h \in idle <=> Idle(h)
  OBVIOUS
<1> HIDE DEF idle
<1>3. IsFiniteSet(idle) /\ IsFiniteSet(S)
  BY <1>0, <1>1, FS_Subset
<1>4. Cardinality(idle) \in Nat /\ Cardinality(S) \in Nat
  BY <1>3, FS_CardinalityType
<1>5. over \in Int
  BY <1>0
<1>6. over = Cardinality(cache) - DbCacheMax + 1
  OBVIOUS
<1> HIDE DEF over
<1>7. Max({0, over}) \in Int /\ over <= Max({0, over})
  BY <1>5, MaxOfTwo
<1>8. n \in {Cardinality(idle), Max({0, over})}
  BY <1>4, <1>7, MinOfTwo
<1> HIDE DEF n
<1>9. CASE n = Cardinality(idle)
  <2>1. S = idle
    BY <1>1, <1>3, <1>9, FS_Subset
  <2>2. QED
    BY <1>2, <2>1
<1>10. CASE n = Max({0, over})
  <2>1. Cardinality(S) >= over
    BY <1>1, <1>7, <1>10
  <2>2. cache \cap S = S
    BY <1>1
  <2>3. Cardinality(cache \ S) = Cardinality(cache) - Cardinality(S)
    BY <1>0, <2>2, FS_Difference
  <2>4. QED
    BY <1>0, <1>4, <1>6, <2>1, <2>3
<1>11. QED
  BY <1>8, <1>9, <1>10

LEMMA AddedBound ==
  ASSUME TypeOK, StoreInv, TypeOK', NEW S \in Evictions, NEW new \in Handles,
         NEW g, g # None, g.res = 1,
         \A h \in Handles : handle'[h] = IF h = new THEN g ELSE IF h \in S THEN None ELSE handle[h],
         cache' = (cache \ S) \cup {new}
  PROVE  \/ Cardinality(cache') <= DbCacheMax
         \/ Cardinality(cache') <= Cardinality(InUse')
<1>0. IsFiniteSet(cache) /\ IsFiniteSet(Handles) /\ cache \subseteq Handles
  BY CacheFinite DEF TypeOK
<1>1. CASE Cardinality(cache \ S) + 1 <= DbCacheMax
  <2>1. IsFiniteSet(cache \ S)
    BY <1>0, FS_Difference
  <2>2. Cardinality(cache \ S) \in Nat
    BY <2>1, FS_CardinalityType
  <2>3. Cardinality(cache') = IF new \in cache \ S THEN Cardinality(cache \ S) ELSE Cardinality(cache \ S) + 1
    BY <2>1, FS_AddElement
  <2>4. Cardinality(cache') <= DbCacheMax
    BY <1>1, <2>2, <2>3, ConstantsAssumption
  <2>5. QED
    BY <2>4
<1>2. CASE \A h \in cache \ S : ~Idle(h)
  <2>1. \A h \in cache \ S : handle[h] # None /\ handle[h].res > 0
    BY <1>2, BusyReserved, HandleFields
  <2>2. cache' \in SUBSET InUse'
    <3> SUFFICES ASSUME NEW h \in cache' PROVE h \in InUse'
      OBVIOUS
    <3>1. CASE h = new
      BY <3>1 DEF InUse
    <3>2. CASE h # new
      BY <1>0, <2>1, <3>2 DEF InUse
    <3>3. QED
      BY <3>1, <3>2
  <2>3. InUse' \in SUBSET Handles
    BY DEF InUse
  <2>4. IsFiniteSet(InUse')
    BY <1>0, <2>3, FS_Subset
  <2>5. QED
    BY <2>2, <2>4, FS_Subset
<1>3. QED
  BY <1>1, <1>2, EvictionRoom

(* remoteDbAcquire, which alone adds to the cache, evicts what it may      *)
(* first: a cache that grows is within SERVER_DB_CACHE_MAX or has only     *)
(* handles that workers have reserved.                                     *)
THEOREM BoundedCache == Spec => CacheBounded
<1> DEFINE Grows == Cardinality(cache') > Cardinality(cache)
           Bounded == \/ Cardinality(cache') <= DbCacheMax
                      \/ Cardinality(cache') <= Cardinality(InUse')
<1>1. ASSUME ServerInv, ServerInv', [Next]_vars, Grows PROVE Bounded
  <2>0. /\ TypeOK /\ StoreInv /\ TypeOK' /\ handle \in [Handles -> Handle \cup {None}]
        /\ IsFiniteSet(cache) /\ Cardinality(cache) \in Nat
    BY <1>1, CacheFinite DEF ServerInv, TypeOK
  <2>1. ~ (UNCHANGED cache)
    BY <1>1, <2>0
  <2>2. ASSUME cache' \in SUBSET cache PROVE FALSE
    <3>1. IsFiniteSet(cache') /\ Cardinality(cache') <= Cardinality(cache)
      BY <2>0, <2>2, FS_Subset
    <3>2. Cardinality(cache') \in Nat
      BY <3>1, FS_CardinalityType
    <3>3. QED
      BY <1>1, <2>0, <3>1, <3>2
  <2>3. \E w \in Workers, db \in Dbs, write \in BOOLEAN : Lookup(w, db, write)
    <3>1. ASSUME ServerLoop \/ UNCHANGED vars PROVE FALSE
      BY <2>1, <3>1 DEF ServerLoop, vars
    <3>2. ASSUME ServerStop PROVE FALSE
      BY <2>1, <2>2, <3>2 DEF ServerStop, RequestStop, JoinLoop, JoinWorkers
    <3>3. ASSUME NEW w \in Workers, WorkerStep(w), ~ \E db \in Dbs, write \in BOOLEAN : Lookup(w, db, write)
          PROVE  FALSE
      <4>1. \/ TakeJob(w) \/ Refuse(w) \/ LockHandle(w) \/ OpenStore(w) \/ Release(w)
            \/ Unreserve(w) \/ Respond(w) \/ Finish(w) \/ CloseConn(w)
        BY <3>3 DEF WorkerStep
      <4>2. QED
        BY <2>1, <4>1 DEF TakeJob, Refuse, LockHandle, OpenStore, Release, Unreserve,
                          Respond, Finish, CloseConn
    <3>4. QED
      BY <1>1, <3>1, <3>2, <3>3 DEF Next
  <2>4. PICK w \in Workers, db \in Dbs, write \in BOOLEAN : Lookup(w, db, write)
    BY <2>3
  <2> DEFINE Left(S) == [h \in Handles |-> IF h \in S THEN None ELSE handle[h]]
             g == [path |-> db, open |-> FALSE, writable |-> FALSE,
                   res |-> 1, mu |-> None, last |-> 0]
  <2>5. ASSUME NEW S \in Evictions, cache' = cache \ S PROVE FALSE
    BY <2>2, <2>5
  <2>6. PICK S \in Evictions, new \in Handles :
           handle' = [Left(S) EXCEPT ![new] = g] /\ cache' = (cache \ S) \cup {new}
    BY <2>1, <2>4, <2>5 DEF Lookup
  <2>7. g \in Handle /\ g.res = 1
    BY DEF Handle
  <2>8. \A h \in Handles : handle'[h] = IF h = new THEN g ELSE IF h \in S THEN None ELSE handle[h]
    BY <2>6
  <2> HIDE DEF g
  <2>9. g # None
    BY <2>7, NoneNotHandle
  <2>10. QED
    BY <2>0, <2>6, <2>7, <2>8, <2>9, AddedBound
<1>2. ServerInv /\ ServerInv' /\ [Next]_vars => [Grows => Bounded]_vars
  BY <1>1
<1>3. QED
  BY <1>2, ServerInvariant, PTL DEF Spec, CacheBounded

=============================================================================
