----------------------------- MODULE BlockCache -----------------------------
(***************************************************************************)
(* The bounded block cache of blockcachevfs.c after the patch series: one  *)
(* attached container whose database blocks live in a fixed pool of        *)
(* cache-file slots, are staged to the bucket under cache pressure, and    *)
(* are published only by an explicit upload of a new manifest.             *)
(*                                                                         *)
(* A step is one section of code run under the VFS mutex, or one request   *)
(* to the bucket, or one read or write of cache-file bytes: exactly the    *)
(* pieces that other threads, and a crash, can come between.  Clients are  *)
(* the threads doing xRead, xWrite and xTruncate; the uploader and the     *)
(* poller are the threads inside sqlite3_bcvfs_upload and _poll.           *)
(*                                                                         *)
(* Durable local state (blocksdb.bcv and cachefile.bcv) survives a crash;  *)
(* slot, local, alloc, eState, cl, up and poll do not.  obj and rman are   *)
(* the bucket.  cur is a history variable: what each block may hold, that  *)
(* is the last acknowledged bytes and those of failed writes since.        *)
(***************************************************************************)
EXTENDS Naturals, FiniteSets

CONSTANTS
    Clients,            \* threads with an open file on the container
    Dbs,                \* databases of the container
    Pos,                \* block positions 0..n-1 of a database
    Slots,              \* positions of cachefile.bcv below nMaxBlk
    Contents,           \* payloads of a block
    None,               \* "no name", "no address", "no row", ...
    Published0,         \* addresses published when the container is attached
    ContentNames,       \* nNamebytes >= BCV_MIN_MD5_NAMEBYTES
    PollWhileWriting,   \* clients may run I/O while a poll is in progress
    LocalFaults,        \* updates of the staging tables may fail
    SlotFaults,         \* I/O on cachefile.bcv and updates of block rows may fail
    Calls,              \* what happens besides writes and uploads
    BatchLimit,         \* bcvfsStageBatchLimit
    StageWatermark,     \* dirty slots at which a write starts staging
    MaxGen,             \* bound: block names ever generated
    MaxSeq,             \* bound: staging sequence numbers
    MaxAttempt,         \* bound: uploads ever started
    MaxVersion          \* bound: manifest versions other writers may create

Addr == Dbs \X Pos

(* A block name: a random part, unique in (gen, tag), and the MD5 prefix   *)
(* that replaces its first bytes when names are long enough to hold one.   *)
Name == [gen : Nat, tag : Slots \cup Addr, md5 : Contents \cup {None}]
Blocks == [Addr -> Name \cup {None}]
Manifest == [blk : Blocks, del : SUBSET (Name \X Nat), ver : Nat]
StagedRow == [addr : Addr, name : Name, seq : Nat]
PendingRow == [blk : Blocks, del : SUBSET (Name \X Nat), max : Nat]

ASSUME ConstantsAssumption ==
    /\ Pos \subseteq Nat /\ 0 \in Pos
    /\ Published0 \subseteq Addr
    /\ ContentNames \in BOOLEAN /\ PollWhileWriting \in BOOLEAN
    /\ LocalFaults \in BOOLEAN /\ SlotFaults \in BOOLEAN
    /\ BatchLimit \in Nat \ {0} /\ StageWatermark \in Nat \ {0}
    /\ MaxGen \in Nat /\ MaxSeq \in Nat /\ MaxAttempt \in Nat /\ MaxVersion \in Nat
    /\ Contents # {}
    /\ Calls \subseteq {"read", "truncate", "poll", "revert", "crash"}
    /\ None \notin Name \cup Addr \cup Slots \cup Contents \cup PendingRow

VARIABLES
    slot,     \* CacheEntry of each slot (the hash table and the unused list)
    data,     \* cachefile.bcv: bytes of each slot
    row,      \* block table: the name of a clean slot, the address of a dirty one
    local,    \* ManifestDb.aBlkLocal of every database, None past nBlkLocal
    alloc,    \* databases with nBlkLocalAlloc>0
    base,     \* container row = Container.pMan: the installed manifest
    staged,   \* staged table
    gc,       \* staged_gc table: tombstones of staged rows
    seq,      \* staged_sequence table
    pending,  \* pending_publish row
    obj,      \* bucket: block objects
    rman,     \* bucket: the container manifest
    eState,   \* Container.eState
    cl,       \* state of each client thread
    up,       \* state of the uploader
    poll,     \* state of the poller
    gen,      \* random source: names with a smaller gen may exist
    cur       \* history: what each block may hold, {} if it is not there

durable == <<data, row, base, staged, gc, seq, pending>>
bucket == <<obj, rman>>
vars == <<slot, local, alloc, eState, cl, up, poll, gen, cur, durable, bucket>>

-----------------------------------------------------------------------------
(* Cache entries.                                                          *)

FreeEntry == [name |-> None, addr |-> None, valid |-> FALSE,
              dirty |-> FALSE, staged |-> FALSE]

(* Rows of the block table: the name is NULL in the row of a dirty slot.   *)
NoRow == [name |-> None, addr |-> None]
CleanRow(n) == [NoRow EXCEPT !.name = n]
DirtyRow(a) == [NoRow EXCEPT !.addr = a]

IdleClient == [pc |-> "idle", op |-> "read", a |-> None, v |-> None,
               s |-> None, wb |-> FALSE, ok |-> {}, nst |-> 0,
               retry |-> FALSE, batch |-> {}, ack |-> {}]
IdleUpload == [pc |-> "idle", dbs |-> {}, blk |-> [a \in Addr |-> None],
               todo |-> {}, del |-> {}, recs |-> {}, max |-> 0, att |-> 0]
IdlePoll == [pc |-> "idle", man |-> None]

ContentOf(n) == IF n \in DOMAIN obj THEN obj[n] ELSE None

Entry(n, a) == [FreeEntry EXCEPT !.name = n, !.addr = a]

(* Mutant of Pinned: the references of client threads do not count.        *)
PinnedByUploadOnly(s) == \E r \in up.recs : r.s = s

(* CacheEntry.nRef and bStaging: a slot is referenced by the client doing  *)
(* I/O on it, by a staging batch, or by an UploadRecord.                   *)
Holders(s) == {c \in Clients : cl[c].s = s \/ s \in cl[c].batch}
Staging(s) == \E c \in Clients : s \in cl[c].batch
Pinned(s) == Holders(s) # {} \/ \E r \in up.recs : r.s = s

Named(n) == {s \in Slots : n # None /\ slot[s].name = n}

(* Mutant of Evictable: dirty entries are on the LRU list too.             *)
EvictableIgnoringDirty == {s \in Slots : slot[s].valid /\ ~Pinned(s)}

(* bcvfsAllocCacheEntry: an unused slot, else the victim of the LRU list,  *)
(* which holds only clean valid entries that nobody references.            *)
Unused == {s \in Slots : slot[s].name = None /\ ~Pinned(s)}
Evictable == {s \in Slots : slot[s].valid /\ ~slot[s].dirty /\ ~Pinned(s)}
AllocCacheEntry == IF Unused # {} THEN Unused ELSE Evictable

-----------------------------------------------------------------------------
(* The staged map.                                                         *)

(* BCVFS_FIND_STAGED: an untombstoned row for exactly this generation.     *)
StagedFind(a, n) == \E r \in staged \ gc : r.addr = a /\ r.name = n

(* BCVFS_INSERT_STAGED: REPLACE keyed by (db, dbpos, generation).          *)
StagedPut(rows) ==
    {r \in staged : \A q \in rows : r.addr # q.addr \/ r.name # q.name}
        \cup rows

StagedSeqs == {r.seq : r \in staged}

(* Mutant of StagedMax: max() of no rows is NULL, not 0.                   *)
StagedMaxNull ==
    IF staged = {} THEN None
    ELSE CHOOSE m \in StagedSeqs : \A k \in StagedSeqs : k <= m

StagedMax == IF staged = {} THEN 0
             ELSE CHOOSE m \in StagedSeqs : \A k \in StagedSeqs : k <= m

StagedAfter(rows, m) == {r \in rows : r.seq > m}

(* bcvfsPendingPublishMatches: byte equality of composed manifests, which  *)
(* carry the delete list with its timestamps but no ETag.                  *)
PendingMatches(p, m) == p # None /\ p.blk = m.blk /\ p.del = m.del

-----------------------------------------------------------------------------
(* Client threads: xRead, xWrite, xTruncate.                               *)

nBlk(m, d) == Cardinality({p \in Pos : m[<<d, p>>] # None})

Writing(d) == {c \in Clients : cl[c].op = "write" /\ cl[c].a[1] = d}
(* Mutant of UploadLocks: the checkpointer lock is not retained.           *)
UploadLocksDropped(d) == FALSE

(* The CHECKPOINTER lock and DoltLite's upload lock: no client writes a    *)
(* database between the uploader's checkpoint and the end of its upload.   *)
UploadLocks(d) == d \in up.dbs /\ up.pc \notin {"idle", "ckpt"}
MayRun == PollWhileWriting \/ poll.pc = "idle"

(* Bound: every write in progress can still be given its new name.         *)
NamesLeft == gen + Cardinality({c \in Clients : cl[c].op = "write"}) < MaxGen

(* What a read of block a that starts now may return.                      *)
InFlight(a) == {c \in Clients : cl[c].op = "write" /\ cl[c].a = a
                                /\ cl[c].v # None}
Acceptable(a) == cur[a] \cup {cl[c].v : c \in InFlight(a)}

Call(op, a, v) ==
    [IdleClient EXCEPT !.pc = "begin", !.op = op, !.a = a, !.v = v,
                       !.ok = IF op = "read" THEN Acceptable(a) ELSE {}]

Read(c, a) ==
    /\ "read" \in Calls /\ cl[c].pc = "idle" /\ MayRun
    /\ cl' = [cl EXCEPT ![c] = Call("read", a, None)]
    /\ UNCHANGED <<slot, local, alloc, eState, up, poll, gen, cur, durable,
                   bucket>>

(* SQLite has one writer per database, and it extends a file by appending. *)
Write(c, a, v) ==
    /\ cl[c].pc = "idle" /\ MayRun
    /\ Writing(a[1]) = {} /\ ~UploadLocks(a[1])
    /\ a[2] <= nBlk(local, a[1]) /\ NamesLeft
    /\ cl' = [k \in Clients |->
                IF k = c THEN Call("write", a, v)
                ELSE IF cl[k].op = "read" /\ cl[k].a = a
                     THEN [cl[k] EXCEPT !.ok = cl[k].ok \cup {v}]
                     ELSE cl[k]]
    /\ UNCHANGED <<slot, local, alloc, eState, up, poll, gen, cur, durable,
                   bucket>>

Done(c) == cl' = [cl EXCEPT ![c] = IdleClient]

(* A read past nBlkLocal is a short read.                                  *)
ShortRead(c) ==
    /\ cl[c].pc = "begin" /\ eState # "stage"
    /\ cl[c].op = "read" /\ local[cl[c].a] = None
    /\ Done(c)
    /\ UNCHANGED <<slot, local, alloc, eState, up, poll, gen, cur, durable,
                   bucket>>

(* bcvfsFindBlockForIO starts only outside STAGE.  Case 2: the entry is    *)
(* being filled or staged by another thread; wait on the condition and     *)
(* look again, now without testing for STAGE.                              *)
Looking(c) == cl[c].pc = "wait" \/ (cl[c].pc = "begin" /\ eState # "stage")

WaitForEntry(c) ==
    /\ cl[c].pc = "begin" /\ eState # "stage"
    /\ \E s \in Named(local[cl[c].a]) : ~slot[s].valid \/ Staging(s)
    /\ cl' = [cl EXCEPT ![c].pc = "wait"]
    /\ UNCHANGED <<slot, local, alloc, eState, up, poll, gen, cur, durable,
                   bucket>>

(* Case 1: a valid entry that is not being staged.                         *)
CacheHit(c) ==
    /\ Looking(c)
    /\ \E s \in Named(local[cl[c].a]) :
         /\ slot[s].valid /\ ~Staging(s)
         /\ cl' = [cl EXCEPT ![c].pc = "ready", ![c].s = s]
    /\ UNCHANGED <<slot, local, alloc, eState, up, poll, gen, cur, durable,
                   bucket>>

(* Case 3, or an append.                                                   *)
Misses(c) ==
    /\ Looking(c) /\ Named(local[cl[c].a]) = {}
    /\ local[cl[c].a] = None => cl[c].op = "write"

(* Take a slot and forget its block row.  A miss is fetched when the block *)
(* was published or its generation is staged.                              *)
CacheMiss(c) ==
    LET a == cl[c].a
        n == local[a]
        fromStage == base.blk[a] = None /\ n # None /\ StagedFind(a, n)
        fetch == n # None /\ (base.blk[a] # None \/ fromStage)
    IN  /\ Misses(c)
        /\ \E s \in AllocCacheEntry :
             /\ slot' = [slot EXCEPT ![s] =
                           [Entry(n, None) EXCEPT !.staged = fromStage]]
             /\ row' = [row EXCEPT ![s] = NoRow]
             /\ cl' = [cl EXCEPT ![c].s = s,
                                 ![c].pc = IF fetch THEN "fetch" ELSE "ready"]
        /\ UNCHANGED <<local, alloc, eState, up, poll, gen, cur, data, base,
                       staged, gc, seq, pending, bucket>>

(* SQLITE_FULL from the allocator.                                         *)
CacheFull(c) ==
    /\ Misses(c) /\ AllocCacheEntry = {}
    /\ cl' = [cl EXCEPT ![c].pc = "full", ![c].retry = TRUE]
    /\ UNCHANGED <<slot, local, alloc, eState, up, poll, gen, cur, durable,
                   bucket>>


(* bcvfsFetchBlock: the object's bytes, or an error that frees the slot.   *)
FetchBlock(c) ==
    /\ cl[c].pc = "fetch"
    /\ \/ /\ slot[cl[c].s].name \in DOMAIN obj
          /\ data' = [data EXCEPT ![cl[c].s] = obj[slot[cl[c].s].name]]
          /\ cl' = [cl EXCEPT ![c].pc = "ready", ![c].wb = TRUE]
          /\ UNCHANGED slot
       \/ /\ slot' = [slot EXCEPT ![cl[c].s] = FreeEntry]
          /\ Done(c)
          /\ UNCHANGED data
    /\ UNCHANGED <<local, alloc, eState, up, poll, gen, cur, row, base,
                   staged, gc, seq, pending, bucket>>

ReadBytes(c) ==
    /\ cl[c].pc = "ready" /\ cl[c].op = "read"
    /\ cl' = [cl EXCEPT ![c].pc = "done", ![c].v = data[cl[c].s]]
    /\ UNCHANGED <<slot, local, alloc, eState, up, poll, gen, cur, durable,
                   bucket>>

(* A dirty entry is already writable; the test is made without the mutex.  *)
AlreadyDirty(c) ==
    /\ cl[c].pc = "ready" /\ cl[c].op = "write" /\ slot[cl[c].s].dirty
    /\ cl' = [cl EXCEPT ![c].pc = "bytes"]
    /\ UNCHANGED <<slot, local, alloc, eState, up, poll, gen, cur, durable,
                   bucket>>

(* bcvfsMakeBlockWritable: copy an entry that another thread references,   *)
(* otherwise rewrite in place after forgetting the slot's row; either way  *)
(* the block gets a new random name in the local manifest.                 *)
Shared(c) ==
    LET s == cl[c].s
    IN  slot[s].valid /\ (Holders(s) # {c} \/ \E r \in up.recs : r.s = s)
WritableTargets(c) == IF Shared(c) THEN AllocCacheEntry ELSE {cl[c].s}
Rewrites(c) == cl[c].pc = "ready" /\ cl[c].op = "write" /\ ~slot[cl[c].s].dirty

MakeBlockWritable(c) ==
    LET s == cl[c].s
        a == cl[c].a
    IN  /\ Rewrites(c)
        /\ \E t \in WritableTargets(c) :
             LET n == [gen |-> gen, tag |-> t, md5 |-> None]
             IN  /\ slot' = [slot EXCEPT ![t] =
                               [name |-> n, addr |-> a, dirty |-> TRUE,
                                staged |-> FALSE,
                                valid |-> t = s /\ slot[s].valid]]
                 /\ data' = [data EXCEPT ![t] = data[s]]
                 /\ row' = [row EXCEPT ![t] = NoRow]
                 /\ local' = [local EXCEPT ![a] = n]
                 /\ cl' = [cl EXCEPT ![c].pc = "bytes", ![c].s = t,
                                     ![c].wb = TRUE]
        /\ alloc' = alloc \cup {a[1]}
        /\ gen' = gen + 1
        /\ UNCHANGED <<eState, up, poll, cur, base, staged, gc, seq, pending,
                       bucket>>

(* Copy-on-write found no slot: drop the reference and stage.              *)
CopyFull(c) ==
    /\ Rewrites(c) /\ WritableTargets(c) = {}
    /\ cl' = [cl EXCEPT ![c].pc = "full", ![c].retry = TRUE,
                        ![c].s = None, ![c].wb = FALSE]
    /\ UNCHANGED <<slot, local, alloc, eState, up, poll, gen, cur, durable,
                   bucket>>

WriteBytes(c) ==
    /\ cl[c].pc = "bytes"
    /\ data' = [data EXCEPT ![cl[c].s] = cl[c].v]
    /\ cl' = [cl EXCEPT ![c].pc = "done"]
    /\ UNCHANGED <<slot, local, alloc, eState, up, poll, gen, cur, row, base,
                   staged, gc, seq, pending, bucket>>

(* bcvfsAtStageWatermark.                                                  *)
AtStageWatermark ==
    Cardinality({s \in Slots : slot'[s].valid /\ slot'[s].dirty})
        >= StageWatermark

(* The closing mutex section: record the block row, validate the entry and *)
(* drop the reference.  A write is acknowledged here; it then stages if    *)
(* the dirty slots have reached the watermark.                             *)
FinishIO(c) ==
    LET s == cl[c].s
        a == cl[c].a
    IN  /\ cl[c].pc = "done"
        /\ slot' = [slot EXCEPT ![s].valid = TRUE]
        /\ row' = IF cl[c].wb
                  THEN [row EXCEPT ![s] = IF slot[s].dirty THEN DirtyRow(a)
                                          ELSE CleanRow(slot[s].name)]
                  ELSE row
        /\ IF cl[c].op = "write"
           THEN /\ cur' = [cur EXCEPT ![a] = {cl[c].v}]
                /\ cl' = [cl EXCEPT ![c] =
                            IF AtStageWatermark
                            THEN [IdleClient EXCEPT !.pc = "full",
                                    !.op = "write", !.a = a]
                            ELSE IdleClient]
           ELSE Done(c) /\ UNCHANGED cur
        /\ UNCHANGED <<local, alloc, eState, up, poll, gen, data, base,
                       staged, gc, seq, pending, bucket>>

(* A slot chosen for a miss or for a copy goes to the unused list when its *)
(* row cannot be forgotten or the copy fails, and the call with an error.  *)
ClearBlockFails(c) ==
    /\ SlotFaults /\ (Misses(c) \/ (Rewrites(c) /\ Shared(c)))
    /\ \E s \in AllocCacheEntry :
         /\ slot' = [slot EXCEPT ![s] = FreeEntry]
         /\ row' \in {row, [row EXCEPT ![s] = NoRow]}
    /\ Done(c)
    /\ UNCHANGED <<local, alloc, eState, up, poll, gen, cur, data, base,
                   staged, gc, seq, pending, bucket>>

(* The closing section after a failed read or write of cache-file bytes or *)
(* a failed update of the block row: an entry that was being filled leaves *)
(* the cache, a valid one stays as it is.  What the block then holds is    *)
(* open between the old bytes and the ones that could not be written.      *)
FailIO(c) ==
    LET s == cl[c].s
        a == cl[c].a
    IN  /\ SlotFaults /\ cl[c].pc \in {"ready", "bytes", "done"}
        /\ slot' = IF slot[s].valid THEN slot ELSE [slot EXCEPT ![s] = FreeEntry]
        /\ cur' = IF cl[c].op = "write" /\ cur[a] # {}
                  THEN [cur EXCEPT ![a] = @ \cup {cl[c].v}] ELSE cur
        /\ Done(c)
        /\ UNCHANGED <<local, alloc, eState, up, poll, gen, durable, bucket>>

(* Mutant of Undirty: the staged rows get no tombstone.                    *)
UndirtyKeepsStaged(T) ==
    LET hit == {s \in Slots : \E a \in T : s \in Named(local[a])}
    IN  /\ slot' = [s \in Slots |->
                      IF s \in hit
                      THEN [slot[s] EXCEPT !.dirty = FALSE, !.staged = FALSE]
                      ELSE slot[s]]
        /\ row' = [s \in Slots |->
                     IF s \in hit /\ slot[s].dirty THEN CleanRow(slot[s].name)
                     ELSE row[s]]
        /\ UNCHANGED gc

(* bcvfsUndirtyBlocks and bcvfsStagedDelete for the blocks of T, which     *)
(* differ from the installed manifest: tombstone their staged rows and     *)
(* turn their dirty entries into clean, unreferenced ones.                 *)
Undirty(T) ==
    LET hit == {s \in Slots : \E a \in T : s \in Named(local[a])}
    IN  /\ gc' = gc \cup {r \in staged : r.addr \in T}
        /\ slot' = [s \in Slots |->
                      IF s \in hit
                      THEN [slot[s] EXCEPT !.dirty = FALSE, !.staged = FALSE]
                      ELSE slot[s]]
        /\ row' = [s \in Slots |->
                     IF s \in hit /\ slot[s].dirty THEN CleanRow(slot[s].name)
                     ELSE row[s]]

Unpublished(D) == {a \in D \X Pos : local[a] # None /\ local[a] # base.blk[a]}

(* bcvfsTruncate to n blocks.  SQLite keeps the header block, has          *)
(* rewritten it before it truncates, and cuts no page that is in use.      *)
Truncate(c, d, n) ==
    LET cut == {a \in Addr : a[1] = d /\ a[2] >= n}
    IN  /\ "truncate" \in Calls /\ cl[c].pc = "idle" /\ MayRun /\ eState # "stage"
        /\ Writing(d) = {} /\ ~UploadLocks(d)
        /\ 0 < n /\ n < nBlk(local, d)
        /\ \A k \in Clients : cl[k].a \notin cut
        /\ local[<<d, 0>>] # base.blk[<<d, 0>>]
        /\ Undirty(Unpublished({d}) \cap cut)
        /\ local' = [a \in Addr |-> IF a \in cut THEN None ELSE local[a]]
        /\ cur' = [a \in Addr |-> IF a \in cut THEN {} ELSE cur[a]]
        /\ UNCHANGED <<alloc, eState, cl, up, poll, gen, data, base, staged,
                       seq, pending, bucket>>

-----------------------------------------------------------------------------
(* Staging (bcvfsStageOneForFileInternal), by a client that found the      *)
(* cache full or, after a write, at the watermark.                         *)

Stageable ==
    {s \in Slots : /\ slot[s].valid /\ slot[s].dirty /\ ~Pinned(s)
                   /\ local[slot[s].addr] = slot[s].name}

(* Mutant of Renamed: the MD5 prefix is never put into the name.           *)
RenamedNever(n, v) == n

Renamed(n, v) == IF ContentNames THEN [n EXCEPT !.md5 = v] ELSE n

(* Select and pin a batch, enter STAGE unless inside UPLOAD, and give each *)
(* block the name it will be stored under.                                 *)
StageSelect(c) ==
    /\ cl[c].pc = "full"
    /\ eState \in {"none", "upload"}
    /\ \E B \in SUBSET Stageable :
         /\ B # {}
         /\ \/ Cardinality(B) = BatchLimit
            \/ B = Stageable /\ Cardinality(B) < BatchLimit
         /\ cl' = [cl EXCEPT ![c].pc = "put", ![c].batch = B]
         /\ slot' = [s \in Slots |->
                       IF s \in B
                       THEN [slot[s] EXCEPT !.name = Renamed(@, data[s])]
                       ELSE slot[s]]
         /\ local' = [a \in Addr |->
                        IF \E s \in B : slot[s].addr = a
                        THEN Renamed(local[a],
                                     data[CHOOSE s \in B : slot[s].addr = a])
                        ELSE local[a]]
    /\ eState' = IF eState = "none" THEN "stage" ELSE eState
    /\ UNCHANGED <<alloc, up, poll, gen, cur, durable, bucket>>

(* Nothing can be staged (SQLITE_FULL, which a watermark ignores), or no   *)
(* request handle could be had for the PUTs.                               *)
StageNothing(c) ==
    /\ cl[c].pc = "full"
    /\ Done(c)
    /\ UNCHANGED <<slot, local, alloc, eState, up, poll, gen, cur, durable,
                   bucket>>

PutObjects(S) ==
    obj' = [n \in DOMAIN obj \cup {slot[s].name : s \in S} |->
              IF \E s \in S : slot[s].name = n
              THEN data[CHOOSE s \in S : slot[s].name = n]
              ELSE obj[n]]

(* Mutant of StagePut: every member counts as acknowledged.                *)
StagePutAllAcked(c) ==
    /\ cl[c].pc = "put"
    /\ \E A \in SUBSET cl[c].batch : PutObjects(A)
    /\ cl' = [cl EXCEPT ![c].pc = "persist", ![c].ack = cl[c].batch]
    /\ UNCHANGED <<slot, local, alloc, eState, up, poll, gen, cur, durable,
                   rman>>

(* The PUTs of the batch: each is applied or not, and an applied one is    *)
(* acknowledged or its response is lost.  A refused writer guard applies   *)
(* none of them.                                                           *)
StagePut(c) ==
    /\ cl[c].pc = "put"
    /\ \E A \in SUBSET cl[c].batch : \E K \in SUBSET A :
         /\ PutObjects(A)
         /\ cl' = [cl EXCEPT ![c].pc = "persist", ![c].ack = K]
    /\ UNCHANGED <<slot, local, alloc, eState, up, poll, gen, cur, durable,
                   rman>>

(* Persist the acknowledged members: P gets its staged row, C of those     *)
(* also its clean block row.  Only then may the slot be reused.            *)
StageRows(P) == {[addr |-> slot[s].addr, name |-> slot[s].name,
                  seq |-> seq + 1] : s \in P}
StageClean(C) ==
    [s \in Slots |-> IF s \in C
                     THEN [slot[s] EXCEPT !.dirty = FALSE, !.staged = TRUE]
                     ELSE slot[s]]

(* Where the client goes after staging: back to its I/O if all went well   *)
(* and its retry budget lasts (past it the code goes on with a null        *)
(* entry), or out of the call.                                             *)
AfterStage(k, allStaged) ==
    IF ~(k.retry /\ allStaged) THEN IdleClient
    ELSE IF k.nst <= Cardinality(Slots)
         THEN [Call(k.op, k.a, k.v) EXCEPT !.nst = k.nst + 1, !.ok = k.ok]
         ELSE [IdleClient EXCEPT !.pc = "null"]

StagePersist(c) ==
    /\ cl[c].pc = "persist"
    /\ \E P \in SUBSET cl[c].ack : \E C \in SUBSET P :
         /\ P = {} \/ seq < MaxSeq
         /\ C = cl[c].ack \/ LocalFaults \/ seq = MaxSeq
         /\ staged' = StagedPut(StageRows(P))
         /\ seq' = IF P = {} THEN seq ELSE seq + 1
         /\ slot' = StageClean(C)
         /\ row' = [s \in Slots |-> IF s \in C THEN CleanRow(slot[s].name)
                                    ELSE row[s]]
         /\ cl' = [cl EXCEPT ![c] = AfterStage(cl[c], C = cl[c].batch)]
    /\ eState' = IF eState = "stage" THEN "none" ELSE eState
    /\ UNCHANGED <<local, alloc, up, poll, gen, cur, data, base, gc, pending,
                   bucket>>

-----------------------------------------------------------------------------
(* Upload (bcvfsUpload): the only publication.                             *)

(* Every dirty database, or the one named by PRAGMA bcv_upload.            *)
UploadBegin(D) ==
    /\ up.pc = "idle" /\ eState = "none" /\ up.att < MaxAttempt
    /\ D # {} /\ (D = alloc \/ \E d \in alloc : D = {d})
    /\ eState' = "upload"
    /\ up' = [up EXCEPT !.pc = "ckpt", !.dbs = D, !.att = up.att + 1]
    /\ UNCHANGED <<slot, local, alloc, cl, poll, gen, cur, durable, bucket>>

(* Checkpoint done, locks held: duplicate the manifest.                    *)
UploadSnapshot ==
    /\ up.pc = "ckpt" /\ \A d \in up.dbs : Writing(d) = {}
    /\ up' = [up EXCEPT !.pc = "blocks", !.blk = local,
                        !.todo = Unpublished(up.dbs), !.del = base.del]
    /\ UNCHANGED <<slot, local, alloc, eState, cl, poll, gen, cur, durable,
                   bucket>>

OtherBlocks(d) == {base.blk[b] : b \in {x \in Addr : x[1] # d}} \ {None}

(* bcvMHash: the stored blocks of other databases with these bytes.        *)
SameBytes(d, v) == {n \in OtherBlocks(d) : ContentNames /\ n.md5 = v}

(* bcvfsUploadDeleteBlockIf.                                               *)
DeleteBlockIf(a) ==
    IF base.blk[a] # None /\ base.blk[a] \notin OtherBlocks(a[1])
    THEN up.del \cup {<<base.blk[a], up.att>>} ELSE up.del

(* bcvfsUploadOneBlockTry on a staged block: no PUT is needed.             *)
UploadStaged(a) ==
    LET E == Named(up.blk[a])
    IN  /\ up.pc = "blocks" /\ a \in up.todo
        /\ \/ \E s \in E : slot[s].staged
           \/ /\ \A s \in E : ~slot[s].dirty
              /\ StagedFind(a, up.blk[a])
        /\ up' = [up EXCEPT !.todo = @ \ {a}, !.del = DeleteBlockIf(a)]
        /\ UNCHANGED <<slot, local, alloc, eState, cl, poll, gen, cur,
                       durable, bucket>>

(* ... on a dirty block: pin it, name it, and PUT it unless another        *)
(* database already stores the same bytes under an MD5 name.               *)
UploadDirty(a) ==
    /\ up.pc = "blocks" /\ a \in up.todo
    /\ \E s \in Named(up.blk[a]) :
         LET same == SameBytes(a[1], data[s])
             new == IF same # {} THEN CHOOSE n \in same : TRUE
                    ELSE Renamed(up.blk[a], data[s])
             next == [up EXCEPT !.blk[a] = new, !.todo = @ \ {a},
                                !.del = DeleteBlockIf(a),
                                !.recs = @ \cup {[s |-> s, old |-> up.blk[a],
                                                  new |-> new]}]
             stored == [n \in DOMAIN obj \cup {new} |->
                          IF n = new THEN data[s] ELSE obj[n]]
         IN  /\ slot[s].dirty /\ ~slot[s].staged
             /\ \/ same # {} /\ up' = next /\ UNCHANGED obj
                \/ same = {} /\ up' = next /\ obj' = stored
                \/ same = {} /\ up' = [next EXCEPT !.pc = "fail"]
                             /\ obj' \in {obj, stored}
    /\ UNCHANGED <<slot, local, alloc, eState, cl, poll, gen, cur, durable,
                   rman>>

(* ... on a block it can find nowhere: SQLITE_CORRUPT.                     *)
UploadMissing(a) ==
    /\ up.pc = "blocks" /\ a \in up.todo
    /\ \A s \in Named(up.blk[a]) : ~slot[s].dirty /\ ~slot[s].staged
    /\ ~StagedFind(a, up.blk[a])
    /\ up' = [up EXCEPT !.pc = "corrupt"]
    /\ UNCHANGED <<slot, local, alloc, eState, cl, poll, gen, cur, durable,
                   bucket>>

(* The manifest to publish: uploaded databases from the duplicate, the     *)
(* others as installed; superseded staged objects join the delete list.    *)
NewBlk == [a \in Addr |-> IF a[1] \in up.dbs THEN up.blk[a] ELSE base.blk[a]]

(* Mutant of StagedGc: the new manifest's own blocks are listed too.       *)
StagedGcUnchecked ==
    {<<r.name, up.att>> : r \in {q \in staged \cup gc : q.seq <= StagedMax}}

StagedGc ==
    LET dead == {r.name : r \in {q \in staged \cup gc : q.seq <= StagedMax}}
    IN  {<<n, up.att>> : n \in {m \in dead : /\ \A a \in Addr : NewBlk[a] # m
                                             /\ \A e \in up.del : e[1] # m}}
NewManifest == [blk |-> NewBlk, del |-> up.del, ver |-> rman.ver + 1]

(* Mutant of UploadPending: does not wait for all the block uploads.       *)
UploadPendingEarly ==
    LET del == up.del \cup StagedGc
    IN  /\ up.pc = "blocks"
        /\ pending' = [blk |-> NewBlk, del |-> del, max |-> StagedMax]
        /\ up' = [up EXCEPT !.pc = "manifest", !.del = del, !.max = StagedMax]
        /\ UNCHANGED <<slot, local, alloc, eState, cl, poll, gen, cur, data,
                       row, base, staged, gc, seq, bucket>>

(* Record the manifest and the staged high-water mark before the PUT.      *)
UploadPending ==
    LET del == up.del \cup StagedGc
    IN  /\ up.pc = "blocks" /\ up.todo = {}
        /\ pending' = [blk |-> NewBlk, del |-> del, max |-> StagedMax]
        /\ up' = [up EXCEPT !.pc = "manifest", !.del = del, !.max = StagedMax]
        /\ UNCHANGED <<slot, local, alloc, eState, cl, poll, gen, cur, data,
                       row, base, staged, gc, seq, bucket>>

(* bcvfsUploadManifest: a PUT conditional on the ETag of the installed     *)
(* manifest.  It is refused, fails, or is applied; an applied one may      *)
(* still be reported as failed.                                            *)
UploadManifest ==
    /\ up.pc = "manifest"
    /\ \/ /\ rman.ver = base.ver
          /\ rman' = NewManifest
          /\ up' \in {[up EXCEPT !.pc = "install"], [up EXCEPT !.pc = "fail"]}
       \/ /\ up' = [up EXCEPT !.pc = "fail"]
          /\ UNCHANGED rman
    /\ UNCHANGED <<slot, local, alloc, eState, cl, poll, gen, cur, durable,
                   obj>>

EndUpload == up' = [IdleUpload EXCEPT !.att = up.att]

(* bcvfsManifestMergeAndInstall, the retirement of staged rows (either     *)
(* delete may fail and is then left to a restart), and the rename of the   *)
(* uploaded entries, all in one mutex section.                             *)
Retire(m) == /\ staged' = StagedAfter(staged, m)
             /\ gc' = StagedAfter(gc, m)
Recorded(s) == {r \in up.recs : r.s = s /\ slot[s].dirty /\ slot[s].name = r.old}
RecordedSlots == {s \in Slots : Recorded(s) # {}}
PublishedName(s) == (CHOOSE r \in Recorded(s) : TRUE).new
Published(S) == [s \in Slots |-> IF s \in S THEN CleanRow(PublishedName(s))
                                 ELSE row[s]]

(* An entry may be staged, hence clean, by the time it is to be renamed.   *)
Mismatched == \E r \in up.recs : /\ ~(slot[r.s].dirty /\ slot[r.s].name = r.old)
                                 /\ ~(~slot[r.s].dirty /\ slot[r.s].name = r.new)

(* The loop over the records stops at such an entry, or at the first row   *)
(* that cannot be updated: <<entries cleaned, the entry renamed but left   *)
(* dirty>>.                                                                *)
RenameOutcomes ==
    {p \in (SUBSET RecordedSlots) \X (SUBSET RecordedSlots) :
        \/ p = <<RecordedSlots, {}>> /\ ~Mismatched
        \/ p[2] = {} /\ Mismatched
        \/ p[1] \cap p[2] = {} /\ Cardinality(p[2]) = 1 /\ SlotFaults}

UploadInstall ==
    /\ up.pc = "install"
    /\ base' = [NewManifest EXCEPT !.ver = base.ver + 1]
    /\ local' = [a \in Addr |-> IF a[1] \in up.dbs THEN up.blk[a] ELSE local[a]]
    /\ alloc' = alloc \ up.dbs
    /\ \/ Retire(up.max) /\ pending' = None
       \/ LocalFaults /\ Retire(up.max) /\ UNCHANGED pending
       \/ LocalFaults /\ UNCHANGED <<staged, gc, pending>>
    /\ \E p \in RenameOutcomes :
         /\ slot' = [s \in Slots |->
                       IF s \in p[1] \cup p[2]
                       THEN [slot[s] EXCEPT !.dirty = s \in p[2],
                                            !.name = PublishedName(s)]
                       ELSE slot[s]]
         /\ row' = Published(p[1])
    /\ EndUpload /\ eState' = "none"
    /\ UNCHANGED <<cl, poll, gen, cur, data, seq, bucket>>

(* Mutant of UploadFail: the container is left in state UPLOAD.            *)
UploadFailKeepsState ==
    /\ up.pc \in {"ckpt", "blocks", "fail", "corrupt"}
    /\ EndUpload
    /\ UNCHANGED <<slot, local, alloc, eState, cl, poll, gen, cur, durable,
                   bucket>>

(* A request or a local read failed, or the checkpoint of a database still *)
(* being written did (SQLITE_BUSY): nothing is installed.                  *)
UploadFail ==
    /\ up.pc \in {"ckpt", "blocks", "fail", "corrupt"}
    /\ EndUpload /\ eState' = "none"
    /\ UNCHANGED <<slot, local, alloc, cl, poll, gen, cur, durable, bucket>>

-----------------------------------------------------------------------------
(* Another process publishes a new version of one block (external).        *)
RemotePublish(a, v) ==
    LET n == [gen |-> gen, tag |-> a, md5 |-> IF ContentNames THEN v ELSE None]
    IN  /\ rman.ver < MaxVersion /\ NamesLeft
        /\ rman.blk[a] # None
        /\ obj' = [m \in DOMAIN obj \cup {n} |-> IF m = n THEN v ELSE obj[m]]
        /\ rman' = [rman EXCEPT !.blk[a] = n, !.ver = @ + 1,
                                !.del = @ \cup {<<rman.blk[a], 0>>}]
        /\ gen' = gen + 1
        /\ UNCHANGED <<slot, local, alloc, eState, cl, up, poll, cur, durable>>

-----------------------------------------------------------------------------
(* Poll (bcvfsPollContainer): fetch the manifest, then install it.         *)

PollBegin ==
    /\ "poll" \in Calls /\ eState = "none" /\ poll.pc = "idle"
    /\ PollWhileWriting \/ \A c \in Clients : cl[c].pc \in {"idle", "null"}
    /\ eState' = "poll"
    /\ poll' = [pc |-> "fetched", man |-> rman]
    /\ UNCHANGED <<slot, local, alloc, cl, up, gen, cur, durable, bucket>>

EndPoll == poll' = IdlePoll /\ eState' = "none"

DirtySlots == {s \in Slots : slot[s].dirty}

(* bcvfsPendingPublishTryInstall: the fetched manifest is our own          *)
(* interrupted publication, nothing was staged since, and every dirty      *)
(* entry holds the bytes that were published for its position.             *)
PendingInstallable ==
    /\ PendingMatches(pending, poll.man)
    /\ StagedAfter(staged, pending.max) = {}
    /\ \A s \in DirtySlots :
         LET n == poll.man.blk[slot[s].addr]
         IN  n \in DOMAIN obj /\ obj[n] = data[s]

(* bcvfsPendingPublishCleanDirtyEntries, for the rows of S.                *)
CleanDirtyEntries(S) ==
    [s \in Slots |-> IF s \in S THEN CleanRow(poll.man.blk[slot[s].addr])
                     ELSE row[s]]

(* Blocks without local changes now read as published.                     *)
Reconciled ==
    [a \in Addr |-> IF a \in Unpublished(Dbs) \/ poll.man.blk[a] = base.blk[a]
                    THEN cur[a] ELSE {ContentOf(poll.man.blk[a])} \ {None}]

PendingTryInstall ==
    /\ poll.pc = "fetched" /\ PendingInstallable
    /\ base' = poll.man /\ local' = poll.man.blk /\ alloc' = {}
    /\ slot' = [s \in Slots |->
                  IF s \in DirtySlots
                  THEN [slot[s] EXCEPT !.name = poll.man.blk[slot[s].addr],
                                       !.dirty = FALSE, !.staged = FALSE]
                  ELSE [slot[s] EXCEPT !.staged = FALSE]]
    /\ row' = CleanDirtyEntries(DirtySlots)
    /\ \/ Retire(pending.max) /\ pending' = None
       \/ LocalFaults /\ Retire(pending.max) /\ UNCHANGED pending
       \/ LocalFaults /\ UNCHANGED <<staged, gc, pending>>
    /\ cur' = Reconciled
    /\ EndPoll
    /\ UNCHANGED <<cl, up, gen, data, seq, bucket>>

(* A row cannot be updated: the manifest is installed, the entries of S    *)
(* are clean, the others stay dirty, and nothing is retired.               *)
PendingInstallFails ==
    /\ SlotFaults /\ poll.pc = "fetched" /\ PendingInstallable
    /\ base' = poll.man /\ local' = poll.man.blk /\ alloc' = {}
    /\ \E S \in SUBSET DirtySlots :
         /\ S # DirtySlots
         /\ slot' = [s \in Slots |->
                       IF s \in S
                       THEN [slot[s] EXCEPT !.name = poll.man.blk[slot[s].addr],
                                            !.dirty = FALSE]
                       ELSE slot[s]]
         /\ row' = CleanDirtyEntries(S)
    /\ cur' = Reconciled
    /\ EndPoll
    /\ UNCHANGED <<cl, up, gen, data, staged, gc, seq, pending, bucket>>

(* bcvManifestUpdate: a database changed remotely must have no local       *)
(* changes; a database that did not change keeps its local blocks.         *)
Changed(d) == \E p \in Pos : poll.man.blk[<<d, p>>] # base.blk[<<d, p>>]

(* Mutant of Collision: local changes do not stop an install.              *)
CollisionNever(d) == FALSE

Collision(d) == Changed(d) /\ (d \in alloc \/ Writing(d) # {})

ManifestUpdate ==
    /\ poll.pc = "fetched" /\ ~PendingInstallable
    /\ \A d \in Dbs : ~Collision(d)
    /\ base' = poll.man
    /\ local' = [a \in Addr |-> IF Changed(a[1]) \/ a[1] \notin alloc
                                THEN poll.man.blk[a] ELSE local[a]]
    /\ cur' = [a \in Addr |-> IF Changed(a[1])
                              THEN {ContentOf(poll.man.blk[a])} \ {None} ELSE cur[a]]
    /\ EndPoll
    /\ UNCHANGED <<slot, alloc, cl, up, gen, data, row, staged, gc, seq,
                   pending, bucket>>

(* A write collision, or a request of the poll failed.                     *)
PollFail ==
    /\ poll.pc = "fetched" /\ EndPoll
    /\ UNCHANGED <<slot, local, alloc, cl, up, gen, cur, durable, bucket>>

(* sqlite3_bcvfs_revert, holding every lock of every database.             *)
Revert ==
    /\ "revert" \in Calls /\ eState = "none" /\ \A c \in Clients : cl[c].pc \in {"idle", "null"}
    /\ Undirty(Unpublished(Dbs))
    /\ local' = base.blk /\ alloc' = {}
    /\ cur' = [a \in Addr |-> {ContentOf(base.blk[a])} \ {None}]
    /\ UNCHANGED <<eState, cl, up, poll, gen, data, base, staged, seq,
                   pending, bucket>>

-----------------------------------------------------------------------------
(* Crash and restart: bcvfsCacheInit rebuilds the volatile state from the  *)
(* durable tables, here passed as arguments.                               *)

(* Mutant of Replayed: the rows are read in the opposite order.            *)
ReplayedOldest(st, g, bs) ==
    {r \in st \ g : /\ \A q \in st : q.addr = r.addr => q.seq >= r.seq
                    /\ bs.blk[r.addr] # r.name}

(* The staged rows to replay: untombstoned, superseded by no later row,    *)
(* not already what the manifest publishes.                                *)
Replayed(st, g, bs) ==
    {r \in st \ g : /\ \A q \in st : q.addr = r.addr => q.seq <= r.seq
                    /\ bs.blk[r.addr] # r.name}

(* bcvfsManifestWrite of the rows to replay and, over them, of the dirty   *)
(* rows under new random names.  A block has two dirty rows only after an  *)
(* update of the block table failed; the table's order then decides.       *)
RecoveredName(a, st, g, bs, rw) ==
    LET dirty == {s \in Slots : rw[s].addr = a}
        rows == {r \in Replayed(st, g, bs) : r.addr = a}
    IN  CASE dirty # {} -> [gen |-> gen, tag |-> CHOOSE s \in dirty : TRUE,
                            md5 |-> None]
          [] dirty = {} /\ rows # {} -> (CHOOSE r \in rows : TRUE).name
          [] OTHER -> bs.blk[a]

(* Clean block rows are hints about unsynced bytes and are deleted, so a   *)
(* block without a dirty row is fetched again from the bucket.             *)
RecoveredContent(a, st, g, bs, rw) ==
    LET dirty == {s \in Slots : rw[s].addr = a}
    IN  IF dirty # {} THEN data[CHOOSE s \in dirty : TRUE]
        ELSE ContentOf(RecoveredName(a, st, g, bs, rw))

(* Mutant of RecoveredEntry: dirty slots are discarded like clean ones.    *)
RecoveredEntryNone(s, rw) == FreeEntry

RecoveredEntry(s, rw) ==
    IF rw[s].addr = None THEN FreeEntry
    ELSE [name |-> [gen |-> gen, tag |-> s, md5 |-> None], addr |-> rw[s].addr,
          valid |-> TRUE, dirty |-> TRUE, staged |-> FALSE]

(* A publication that was installed before the crash is retired first.     *)
Unretired(rows, bs, pd) ==
    IF PendingMatches(pd, bs) THEN StagedAfter(rows, pd.max) ELSE rows

CacheInit(st0, g0, bs, pd, rw, cur0) ==
    LET st == Unretired(st0, bs, pd)
        g == Unretired(g0, bs, pd)
    IN  /\ gen < MaxGen
        /\ slot' = [s \in Slots |-> RecoveredEntry(s, rw)]
        /\ local' = [a \in Addr |-> RecoveredName(a, st, g, bs, rw)]
        /\ alloc' = {a[1] : a \in {b \in Addr : \/ \E s \in Slots : rw[s].addr = b
                                                \/ \E r \in Replayed(st, g, bs) : r.addr = b}}
        /\ row' = [s \in Slots |-> IF rw[s].addr = None THEN NoRow ELSE rw[s]]
        /\ staged' = st /\ gc' = g /\ base' = bs
        /\ pending' = IF PendingMatches(pd, bs) THEN None ELSE pd
        /\ cl' = [c \in Clients |-> IdleClient]
        /\ EndUpload /\ poll' = IdlePoll /\ eState' = "none"
        /\ gen' = gen + 1
        /\ cur' = [a \in Addr |->
                     LET v == RecoveredContent(a, st, g, bs, rw)
                     IN  IF v \in cur0[a] \cup {cl[c].v : c \in InFlight(a)}
                         THEN {v} ELSE cur0[a]]
        /\ UNCHANGED <<data, seq, bucket>>

Crash == "crash" \in Calls /\ CacheInit(staged, gc, base, pending, row, cur)

(* A crash inside the mutex section of UploadInstall, after the container  *)
(* row was replaced: the deletes and the updates of block rows that follow *)
(* are separate transactions.  The restart redoes the deletes.             *)
CrashInstalling ==
    /\ "crash" \in Calls /\ up.pc = "install"
    /\ \E R \in SUBSET RecordedSlots :
         CacheInit(staged, gc, [NewManifest EXCEPT !.ver = base.ver + 1], pending,
                   Published(R), cur)

(* A crash inside PendingTryInstall, after the container row was replaced: *)
(* the block rows are cleaned first, then the staged rows are retired.     *)
CrashReconciling ==
    /\ "crash" \in Calls /\ poll.pc = "fetched" /\ PendingInstallable
    /\ \E R \in SUBSET DirtySlots :
         CacheInit(staged, gc, poll.man, pending, CleanDirtyEntries(R), Reconciled)

-----------------------------------------------------------------------------
Init ==
    LET c0 == CHOOSE v \in Contents : TRUE
        name == [a \in Addr |-> [gen |-> 0, tag |-> a, md5 |->
                                   IF ContentNames THEN c0 ELSE None]]
        man == [blk |-> [a \in Addr |-> IF a \in Published0 THEN name[a] ELSE None],
                del |-> {}, ver |-> 0]
    IN  /\ slot = [s \in Slots |-> FreeEntry]
        /\ data = [s \in Slots |-> c0]
        /\ row = [s \in Slots |-> NoRow]
        /\ base = man /\ rman = man /\ local = man.blk /\ alloc = {}
        /\ staged = {} /\ gc = {} /\ seq = 0 /\ pending = None
        /\ obj = [n \in {name[a] : a \in Published0} |-> c0]
        /\ eState = "none" /\ gen = 1
        /\ cl = [c \in Clients |-> IdleClient]
        /\ up = IdleUpload /\ poll = IdlePoll
        /\ cur = [a \in Addr |-> IF a \in Published0 THEN {c0} ELSE {}]

IOStep(c) ==
    \/ ShortRead(c) \/ WaitForEntry(c) \/ CacheHit(c) \/ CacheMiss(c)
    \/ CacheFull(c) \/ ClearBlockFails(c) \/ FailIO(c)
    \/ FetchBlock(c) \/ ReadBytes(c) \/ AlreadyDirty(c) \/ MakeBlockWritable(c)
    \/ CopyFull(c) \/ WriteBytes(c) \/ FinishIO(c)
StageStep(c) ==
    StageSelect(c) \/ StageNothing(c) \/ StagePut(c) \/ StagePersist(c)
UploadStep ==
    \/ UploadSnapshot
    \/ \E a \in Addr : UploadStaged(a) \/ UploadDirty(a) \/ UploadMissing(a)
    \/ UploadPending \/ UploadManifest \/ UploadInstall \/ UploadFail
PollStep == PendingTryInstall \/ PendingInstallFails \/ ManifestUpdate \/ PollFail

Next ==
    \/ \E c \in Clients :
         \/ \E a \in Addr : Read(c, a) \/ \E v \in Contents : Write(c, a, v)
         \/ \E d \in Dbs : \E n \in Pos : Truncate(c, d, n)
         \/ IOStep(c) \/ StageStep(c)
    \/ \E D \in SUBSET Dbs : UploadBegin(D)
    \/ UploadStep \/ PollBegin \/ PollStep \/ Revert
    \/ \E a \in Addr : \E v \in Contents : RemotePublish(a, v)
    \/ Crash \/ CrashInstalling \/ CrashReconciling

Spec == Init /\ [][Next]_vars

-----------------------------------------------------------------------------
(* Properties.                                                             *)

EntryType == [name : Name \cup {None}, addr : Addr \cup {None},
              valid : BOOLEAN, dirty : BOOLEAN, staged : BOOLEAN]
PCs == {"idle", "begin", "wait", "full", "fetch", "ready", "bytes", "done", "put",
        "persist", "null"}
ClientType ==
    [pc : PCs, op : {"read", "write"}, a : Addr \cup {None},
     v : Contents \cup {None}, s : Slots \cup {None}, wb : BOOLEAN,
     ok : SUBSET (Contents \cup {None}), nst : Nat, retry : BOOLEAN,
     batch : SUBSET Slots, ack : SUBSET Slots]
UploadType ==
    [pc : {"idle", "ckpt", "blocks", "manifest", "install", "fail", "corrupt"},
     dbs : SUBSET Dbs, blk : Blocks, todo : SUBSET Addr,
     del : SUBSET (Name \X Nat),
     recs : SUBSET [s : Slots, old : Name, new : Name], max : Nat, att : Nat]

(* Every variable stays in the range its C type or table schema gives it.  *)
TypeOK ==
    /\ slot \in [Slots -> EntryType]
    /\ data \in [Slots -> Contents]
    /\ row \in [Slots -> [name : Name \cup {None}, addr : Addr \cup {None}]]
    /\ local \in Blocks /\ alloc \in SUBSET Dbs
    /\ base \in Manifest /\ rman \in Manifest
    /\ staged \in SUBSET StagedRow /\ gc \in SUBSET StagedRow
    /\ seq \in Nat /\ gen \in Nat
    /\ pending \in PendingRow \cup {None}
    /\ DOMAIN obj \subseteq Name /\ \A n \in DOMAIN obj : obj[n] \in Contents
    /\ eState \in {"none", "stage", "upload", "poll"}
    /\ cl \in [Clients -> ClientType]
    /\ up \in UploadType
    /\ poll \in [pc : {"idle", "fetched"}, man : Manifest \cup {None}]
    /\ cur \in [Addr -> SUBSET Contents]

Settled(a) == cur[a] # {} /\ InFlight(a) = {}

(* What a client that looks block a up now would be given.                 *)
LookupContents(a) ==
    LET n == local[a]
    IN  IF Named(n) # {}
        THEN {data[s] : s \in {t \in Named(n) : slot[t].valid}}
        ELSE IF base.blk[a] # None \/ StagedFind(a, n) THEN {ContentOf(n)}
        ELSE {None}

(* Read-your-writes: while no write of the block is in progress, the       *)
(* resident slot, the staging mapping or the published manifest yields     *)
(* exactly the last acknowledged bytes, whatever was staged, evicted,      *)
(* uploaded, polled or recovered in between.                               *)
CurrentBytes ==
    \A a \in Addr : Settled(a) => LookupContents(a) \subseteq cur[a]

(* A read that spans other threads' steps (its slot referenced but the     *)
(* mutex released) returns bytes the block held at some time during it.    *)
ReadReturnsCurrent ==
    \A c \in Clients : cl[c].pc = "done" /\ cl[c].op = "read" /\ cur[cl[c].a] # {}
                         => cl[c].v \in cl[c].ok

(* Crash safety at every instant: bcvfsCacheInit, run on the durable       *)
(* tables and the bucket as they are now, gives back the last acknowledged *)
(* bytes of every settled block.                                           *)
DurablyRecoverable ==
    \A a \in Addr : Settled(a) =>
        RecoveredContent(a, Unretired(staged, base, pending),
                         Unretired(gc, base, pending), base, row) \in cur[a]

(* The manifest in the bucket never names a block object that has not been *)
(* stored: blocks are acknowledged before the manifest that names them.    *)
PublishedComplete ==
    \A a \in Addr : rman.blk[a] # None => rman.blk[a] \in DOMAIN obj

(* An upload finds the bytes of every unpublished block, dirty or staged:  *)
(* it never ends in SQLITE_CORRUPT.                                        *)
UploadFindsBlocks == up.pc # "corrupt"

(* The published delete list, which a cleanup may act on, never names a    *)
(* block that the installed manifest or a current generation needs.        *)
DeleteListSafe ==
    \A e \in base.del : \A a \in Addr : e[1] # local[a] /\ e[1] # base.blk[a]

(* What the bucket's manifest reads as.                                    *)
PublishedContent(a) == ContentOf(rman.blk[a])

(* An upload publishes the acknowledged bytes of every block of its        *)
(* databases, dirty or staged, and leaves what the bucket publishes for    *)
(* the other databases as it is.                                           *)
PublishesCurrent ==
    [][ rman' # rman /\ up.pc = "manifest" /\ gen' = gen =>
          \A a \in Addr :
             PublishedContent(a)' \in
                IF a[1] \notin up.dbs THEN {PublishedContent(a)}
                ELSE IF cur[a] = {} THEN {None} ELSE cur[a]
      ]_vars

(* Block objects are immutable once published: only a new manifest changes *)
(* what the published one reads as, whatever is staged or uploaded again.  *)
PublishedStable ==
    [][ rman' = rman => \A a \in Addr : PublishedContent(a)' = PublishedContent(a)
      ]_vars

(* A caller whose staging retries are exhausted gets an error, never a     *)
(* null cache entry and SQLITE_OK.                                         *)
NoNullEntry == \A c \in Clients : cl[c].pc # "null"

(* While the bucket holds a manifest of this process that it has not       *)
(* installed, the durable marker is that manifest, so that a poll can      *)
(* reconcile it (for instances where no other process publishes).          *)
MarkerIdentifiesPublication ==
    MaxVersion = 0 /\ rman.ver > base.ver => PendingMatches(pending, rman)


(* The container state, which excludes every other manifest operation, is  *)
(* always given back.                                                      *)
StateReleased == eState # "none" ~> eState = "none"

Fairness ==
    /\ \A c \in Clients : WF_vars(IOStep(c)) /\ WF_vars(StageStep(c))
    /\ WF_vars(UploadStep) /\ WF_vars(PollStep)
LiveSpec == Spec /\ Fairness

-----------------------------------------------------------------------------
(* The inductive invariant behind TypeOK and PublishedComplete.            *)

IOPhases == {"fetch", "ready", "bytes", "done"}

(* What a client has fixed by the time it reaches each of its steps.       *)
ClientOK(c) ==
    /\ cl[c].pc \notin {"idle", "null"} => cl[c].a \in Addr
    /\ cl[c].op = "write" => cl[c].a \in Addr
    /\ cl[c].op = "write" /\ (cl[c].pc \in IOPhases \cup {"begin", "wait"} \/ cl[c].retry)
         => cl[c].v \in Contents
    /\ cl[c].pc \in IOPhases <=> cl[c].s \in Slots
    /\ cl[c].pc = "bytes" => cl[c].op = "write"
    /\ cl[c].pc = "full" => cl[c].retry \/ cl[c].op = "write"
    /\ cl[c].batch # {} => cl[c].pc \in {"put", "persist"}
    /\ cl[c].ack \subseteq cl[c].batch
ClientsOK == \A c \in Clients : ClientOK(c)

(* A dirty entry says which block it holds and is in no staged object; an  *)
(* entry being staged stays valid; one being filled has a single holder.   *)
EntriesOK ==
    /\ \A s \in Slots : slot[s].dirty => /\ slot[s].addr \in Addr
                                          /\ slot[s].name \in Name
                                          /\ ~slot[s].staged
    /\ \A c \in Clients : \A s \in cl[c].batch :
         slot[s].valid /\ slot[s].addr \in Addr /\ slot[s].name \in Name
    /\ \A c \in Clients : cl[c].pc = "fetch" => ~slot[cl[c].s].valid
    /\ \A c, k \in Clients : cl[c].s \in Slots /\ cl[c].s = cl[k].s
                               /\ ~slot[cl[c].s].valid => c = k

OperationsOK ==
    /\ up.pc \in {"idle", "ckpt"} => up.recs = {}
    /\ \A a \in up.todo : up.blk[a] # None
    /\ up.pc \in {"manifest", "install"} => up.todo = {}
    /\ poll.pc = "fetched" => poll.man \in Manifest
    /\ \A r \in staged : r.seq <= seq

Stored(n) == n = None \/ n \in DOMAIN obj

(* Whatever is published, or can be published without a further PUT, has   *)
(* been stored: the installed, remote and fetched manifests, the staged    *)
(* rows and entries, the acknowledged members of a staging batch, and the  *)
(* blocks the uploader has dealt with.                                     *)
NamesStored ==
    /\ \A a \in Addr : Stored(base.blk[a]) /\ Stored(rman.blk[a])
    /\ poll.pc = "fetched" => \A a \in Addr : Stored(poll.man.blk[a])
    /\ \A r \in staged : r.name \in DOMAIN obj
    /\ \A s \in Slots : slot[s].staged => slot[s].name \in DOMAIN obj
    /\ \A c \in Clients : \A s \in cl[c].ack : slot[s].name \in DOMAIN obj
    /\ up.pc \in {"blocks", "manifest", "install"} =>
         /\ \A r \in up.recs : r.new \in DOMAIN obj
         /\ \A a \in Addr \ up.todo : a[1] \in up.dbs => Stored(up.blk[a])

StoredInv == TypeOK /\ ClientsOK /\ EntriesOK /\ OperationsOK /\ NamesStored

-----------------------------------------------------------------------------
(* The inductive invariant behind PublishedStable, for names that carry an *)
(* MD5 prefix: every object is stored under the prefix of its bytes.  The  *)
(* bytes of an entry in a staging batch cannot change between its renaming *)
(* and its PUT, as nobody else references it, and an upload or a poll that *)
(* renames it meanwhile gives it another name of the same bytes.           *)
Addressed == \A n \in DOMAIN obj : n.md5 = obj[n]

BatchNamed(c) ==
    \A s \in cl[c].batch :
        /\ slot[s].name.md5 = data[s]
        /\ \A k \in Clients : cl[k].s # s
        /\ \A r \in up.recs : r.s = s => r.new.md5 = data[s]

ContentInv == Addressed /\ \A c \in Clients : BatchNamed(c)
=============================================================================
