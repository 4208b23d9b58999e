------------------------- MODULE BlockObjectProofs -------------------------
(***************************************************************************)
(* With names that carry the MD5 prefix of their bytes, the objects of the *)
(* bucket are immutable, for any number of threads, databases and slots    *)
(* and with every failure, crash and poll of BlockCache.                   *)
(***************************************************************************)
EXTENDS BlockCacheProofs

(* A step that stores nothing, leaves the bytes of every entry in a        *)
(* staging batch alone and gives it no other name but one of its bytes.    *)
LEMMA ContentKept ==
  ASSUME ContentInv, UNCHANGED obj, up'.recs \subseteq up.recs,
         \A c \in Clients : \A s \in cl'[c].batch :
            /\ s \in cl[c].batch /\ data'[s] = data[s]
            /\ slot'[s].name = slot[s].name \/ slot'[s].name.md5 = data[s]
            /\ \A k \in Clients : cl'[k].s # s
  PROVE  ContentInv'
<1>1. Addressed'
  BY DEF ContentInv, Addressed
<1>2. ASSUME NEW c \in Clients, NEW s \in cl'[c].batch
      PROVE  /\ slot'[s].name.md5 = data'[s]
             /\ \A k \in Clients : cl'[k].s # s
             /\ \A r \in up'.recs : r.s = s => r.new.md5 = data'[s]
  BY <1>2 DEF ContentInv, BatchNamed
<1>3. QED
  BY <1>1, <1>2 DEF ContentInv, BatchNamed

(* A step of a thread that changes one entry, which is in no batch.        *)
LEMMA OneEntry ==
  ASSUME StoredInv, ContentInv, UNCHANGED obj, up'.recs \subseteq up.recs,
         NEW t, \A k \in Clients : t \notin cl[k].batch,
         \A s \in Slots : s # t => slot'[s].name = slot[s].name /\ data'[s] = data[s],
         \A k \in Clients : cl'[k].s \in {cl[k].s, None, t} /\ cl'[k].batch \in {cl[k].batch, {}}
  PROVE  ContentInv'
<1>1. ASSUME NEW c \in Clients, NEW s \in cl'[c].batch
      PROVE  /\ s \in cl[c].batch /\ data'[s] = data[s] /\ slot'[s].name = slot[s].name
             /\ \A k \in Clients : cl'[k].s # s
  <2>1. s \in cl[c].batch /\ s \in Slots /\ s # t /\ s # None
    BY <1>1, ConstantsAssumption DEF StoredInv, TypeOK, ClientType
  <2>2. \A k \in Clients : cl[k].s # s
    BY <2>1 DEF ContentInv, BatchNamed
  <2>3. QED
    BY <2>1, <2>2
<1>2. QED
  BY <1>1, ContentKept

(* No thread references an entry that is in a batch.                       *)
LEMMA HeldInNoBatch ==
  ASSUME ContentInv, NEW c \in Clients
  PROVE  \A k \in Clients : cl[c].s \notin cl[k].batch
  BY DEF ContentInv, BatchNamed

LEMMA NoneInNoBatch ==
  ASSUME StoredInv PROVE \A k \in Clients : None \notin cl[k].batch
  BY ConstantsAssumption DEF StoredInv, TypeOK, ClientType

LEMMA FreeInNoBatch ==
  ASSUME NEW t \in AllocCacheEntry
  PROVE  t \in Slots /\ \A k \in Clients : t \notin cl[k].batch
  BY DEF AllocCacheEntry, Unused, Evictable, Pinned, Holders

LEMMA IdleFields == IdleClient.s = None /\ IdleClient.batch = {}
  BY DEF IdleClient

LEMMA CallFields == \A op, a, v : Call(op, a, v).s = None /\ Call(op, a, v).batch = {}
  BY DEF Call, IdleClient

-----------------------------------------------------------------------------
(* Client threads.                                                         *)

(* The steps that change only the thread's own state.                      *)
LEMMA ThreadContent ==
  ASSUME StoredInv, ContentInv, NEW c \in Clients,
         \/ \E a \in Addr : Read(c, a) \/ \E v \in Contents : Write(c, a, v)
         \/ ShortRead(c) \/ WaitForEntry(c) \/ CacheFull(c) \/ ReadBytes(c)
         \/ AlreadyDirty(c) \/ CopyFull(c) \/ StageNothing(c)
  PROVE  ContentInv'
<1>1. UNCHANGED <<slot, data, obj, up>>
  BY DEF Read, Write, ShortRead, WaitForEntry, CacheFull, ReadBytes, AlreadyDirty, CopyFull,
         StageNothing, durable, bucket
<1>2. cl \in [Clients -> ClientType]
  BY DEF StoredInv, TypeOK
<1>3. \A k \in Clients : cl'[k].s \in {cl[k].s, None} /\ cl'[k].batch \in {cl[k].batch, {}}
  <2>1. CASE \E a \in Addr : Read(c, a)
    BY <1>2, <2>1, CallFields DEF Read
  <2>2. CASE \E a \in Addr : \E v \in Contents : Write(c, a, v)
    <3>1. PICK a \in Addr, v \in Contents : Write(c, a, v)
      BY <2>2
    <3>2. ASSUME NEW k \in Clients
          PROVE  LET n == [cl[k] EXCEPT !.ok = cl[k].ok \cup {v}]
                 IN  n.s = cl[k].s /\ n.batch = cl[k].batch
      BY <1>2 DEF ClientType
    <3>3. QED
      BY <1>2, <3>1, <3>2, CallFields DEF Write
  <2>3. CASE ShortRead(c) \/ StageNothing(c)
    BY <1>2, <2>3, IdleFields DEF ShortRead, StageNothing, Done
  <2>4. CASE WaitForEntry(c) \/ AlreadyDirty(c)
    BY <1>2, <2>4 DEF WaitForEntry, AlreadyDirty, ClientType
  <2>5. CASE CacheFull(c) \/ CopyFull(c)
    BY <1>2, <2>5 DEF CacheFull, CopyFull, ClientType
  <2>6. CASE ReadBytes(c)
    BY <1>2, <2>6 DEF ReadBytes, ClientType
  <2>7. QED
    BY <2>1, <2>2, <2>3, <2>4, <2>5, <2>6
<1>4. QED
  BY <1>1, <1>3, NoneInNoBatch, OneEntry

(* The steps of an I/O on its entry.                                       *)
LEMMA EntryContent ==
  ASSUME StoredInv, ContentInv, NEW c \in Clients,
         \/ CacheHit(c) \/ CacheMiss(c) \/ FetchBlock(c) \/ MakeBlockWritable(c) \/ WriteBytes(c)
         \/ FinishIO(c) \/ ClearBlockFails(c) \/ FailIO(c)
  PROVE  ContentInv'
<1>1. cl \in [Clients -> ClientType] /\ slot \in [Slots -> EntryType] /\ data \in [Slots -> Contents]
  BY DEF StoredInv, TypeOK
<1>2. UNCHANGED <<obj, up>>
  BY DEF CacheHit, CacheMiss, FetchBlock, MakeBlockWritable, WriteBytes, FinishIO, ClearBlockFails,
         FailIO, durable, bucket
<1>3. \A k \in Clients : cl[c].s \notin cl[k].batch
  BY HeldInNoBatch
<1>4. CASE CacheHit(c)
  <2>1. PICK t \in Slots : ~Staging(t) /\ cl' = [cl EXCEPT ![c].pc = "ready", ![c].s = t]
    BY <1>4 DEF CacheHit, Named
  <2>2. \A k \in Clients : cl'[k].s \in {cl[k].s, None, t} /\ cl'[k].batch \in {cl[k].batch, {}}
    BY <1>1, <2>1 DEF ClientType
  <2>3. \A k \in Clients : t \notin cl[k].batch
    BY <2>1 DEF Staging
  <2>4. UNCHANGED <<slot, data>>
    BY <1>4 DEF CacheHit, durable
  <2>5. QED
    BY <1>2, <2>2, <2>3, <2>4, OneEntry
<1>5. CASE CacheMiss(c)
  <2>1. PICK t \in AllocCacheEntry : /\ \A s \in Slots : s # t => slot'[s] = slot[s]
                                     /\ \E pc : cl' = [cl EXCEPT ![c].s = t, ![c].pc = pc]
    BY <1>1, <1>5 DEF CacheMiss
  <2>2. \A k \in Clients : cl'[k].s \in {cl[k].s, None, t} /\ cl'[k].batch \in {cl[k].batch, {}}
    BY <1>1, <2>1 DEF ClientType
  <2>3. UNCHANGED data
    BY <1>5 DEF CacheMiss
  <2>4. QED
    BY <1>2, <2>1, <2>2, <2>3, FreeInNoBatch, OneEntry
<1>6. CASE FetchBlock(c)
  <2>1. \A k \in Clients : cl'[k].s \in {cl[k].s, None} /\ cl'[k].batch \in {cl[k].batch, {}}
    BY <1>1, <1>6, IdleFields DEF FetchBlock, Done, ClientType
  <2>2. \A s \in Slots : s # cl[c].s => slot'[s] = slot[s] /\ data'[s] = data[s]
    BY <1>1, <1>6 DEF FetchBlock
  <2>3. QED
    BY <1>2, <1>3, <2>1, <2>2, OneEntry
<1>7. CASE MakeBlockWritable(c)
  <2>1. PICK t \in WritableTargets(c) :
           /\ \A s \in Slots : s # t => slot'[s] = slot[s] /\ data'[s] = data[s]
           /\ cl' = [cl EXCEPT ![c].pc = "bytes", ![c].s = t, ![c].wb = TRUE]
    BY <1>1, <1>7 DEF MakeBlockWritable
  <2>2. \A k \in Clients : cl'[k].s \in {cl[k].s, None, t} /\ cl'[k].batch \in {cl[k].batch, {}}
    BY <1>1, <2>1 DEF ClientType
  <2>3. \A k \in Clients : t \notin cl[k].batch
    BY <1>7, TargetInNoBatch DEF MakeBlockWritable, Rewrites
  <2>4. QED
    BY <1>2, <2>1, <2>2, <2>3, OneEntry
<1>8. CASE WriteBytes(c)
  <2>1. \A k \in Clients : cl'[k].s \in {cl[k].s, None} /\ cl'[k].batch \in {cl[k].batch, {}}
    BY <1>1, <1>8 DEF WriteBytes, ClientType
  <2>2. UNCHANGED slot /\ \A s \in Slots : s # cl[c].s => data'[s] = data[s]
    BY <1>1, <1>8 DEF WriteBytes
  <2>3. QED
    BY <1>2, <1>3, <2>1, <2>2, OneEntry
<1>9. CASE FinishIO(c)
  <2>1. PICK k0 : cl' = [cl EXCEPT ![c] = k0] /\ k0.s = None /\ k0.batch = {}
    <3>1. CASE cl[c].op = "write"
      <4>1. [IdleClient EXCEPT !.pc = "full", !.op = "write", !.a = cl[c].a].s = None
        BY DEF IdleClient
      <4>2. [IdleClient EXCEPT !.pc = "full", !.op = "write", !.a = cl[c].a].batch = {}
        BY DEF IdleClient
      <4>3. QED
        BY <1>9, <3>1, <4>1, <4>2, IdleFields DEF FinishIO
    <3>2. QED
      BY <1>9, <3>1, IdleFields DEF FinishIO, Done
  <2>2. \A k \in Clients : cl'[k].s \in {cl[k].s, None} /\ cl'[k].batch \in {cl[k].batch, {}}
    BY <1>1, <2>1
  <2>3. UNCHANGED data /\ \A s \in Slots : s # cl[c].s => slot'[s] = slot[s]
    BY <1>1, <1>9 DEF FinishIO
  <2>4. QED
    BY <1>2, <1>3, <2>2, <2>3, OneEntry
<1>10. CASE ClearBlockFails(c)
  <2>1. PICK t \in AllocCacheEntry : \A s \in Slots : s # t => slot'[s] = slot[s]
    BY <1>1, <1>10 DEF ClearBlockFails
  <2>2. \A k \in Clients : cl'[k].s \in {cl[k].s, None} /\ cl'[k].batch \in {cl[k].batch, {}}
    BY <1>1, <1>10, IdleFields DEF ClearBlockFails, Done
  <2>3. UNCHANGED data
    BY <1>10 DEF ClearBlockFails
  <2>4. QED
    BY <1>2, <2>1, <2>2, <2>3, FreeInNoBatch, OneEntry
<1>11. CASE FailIO(c)
  <2>1. \A k \in Clients : cl'[k].s \in {cl[k].s, None} /\ cl'[k].batch \in {cl[k].batch, {}}
    BY <1>1, <1>11, IdleFields DEF FailIO, Done
  <2>2. UNCHANGED data /\ \A s \in Slots : s # cl[c].s => slot'[s] = slot[s]
    BY <1>1, <1>11 DEF FailIO, durable
  <2>3. QED
    BY <1>2, <1>3, <2>1, <2>2, OneEntry
<1>12. QED
  BY <1>4, <1>5, <1>6, <1>7, <1>8, <1>9, <1>10, <1>11

-----------------------------------------------------------------------------
(* Staging.                                                                *)

LEMMA RenamedMd5 ==
  ASSUME ContentNames, NEW n \in Name, NEW v
  PROVE  Renamed(n, v).md5 = v
  BY DEF Renamed, Name

(* Nobody references a stageable entry, and it gets the name of its bytes. *)
LEMMA StageSelectContent ==
  ASSUME ContentNames, StoredInv, ContentInv, NEW c \in Clients, StageSelect(c)
  PROVE  ContentInv'
<1>1. cl \in [Clients -> ClientType] /\ slot \in [Slots -> EntryType]
  BY DEF StoredInv, TypeOK
<1>2. PICK B \in SUBSET Stageable :
         /\ cl' = [cl EXCEPT ![c].pc = "put", ![c].batch = B]
         /\ slot' = [s \in Slots |-> IF s \in B THEN [slot[s] EXCEPT !.name = Renamed(@, data[s])]
                                     ELSE slot[s]]
  BY DEF StageSelect
<1>3. UNCHANGED <<data, obj, up>>
  BY DEF StageSelect, durable, bucket
<1>4. \A k \in Clients : /\ cl'[k].s = cl[k].s
                         /\ cl'[k].batch = IF k = c THEN B ELSE cl[k].batch
  BY <1>1, <1>2 DEF ClientType
<1>5. ASSUME NEW s \in B
      PROVE  /\ s \in Slots /\ slot'[s].name.md5 = data[s] /\ \A k \in Clients : cl[k].s # s
             /\ \A r \in up.recs : r.s # s
  <2>1. s \in Slots /\ slot[s].dirty /\ ~Pinned(s)
    BY <1>5 DEF Stageable
  <2>2. slot[s].name \in Name /\ slot[s] \in EntryType
    BY <1>1, <2>1 DEF StoredInv, EntriesOK
  <2>3. slot'[s].name = Renamed(slot[s].name, data[s])
    BY <1>2, <2>1, <2>2 DEF EntryType
  <2>4. slot'[s].name.md5 = data[s]
    BY <2>2, <2>3, RenamedMd5
  <2>5. QED
    BY <2>1, <2>4 DEF Pinned, Holders
<1>6. ASSUME NEW k \in Clients, NEW s \in cl'[k].batch
      PROVE  /\ slot'[s].name.md5 = data[s] /\ \A j \in Clients : cl[j].s # s
             /\ \A r \in up.recs : r.s = s => r.new.md5 = data[s]
  <2>1. CASE s \in B
    BY <1>5, <2>1
  <2>2. CASE s \notin B
    <3>1. s \in cl[k].batch /\ s \in Slots
      BY <1>1, <1>4, <1>6, <2>2 DEF ClientType
    <3>2. slot'[s] = slot[s]
      BY <1>2, <2>2, <3>1
    <3>3. QED
      BY <3>1, <3>2 DEF ContentInv, BatchNamed
  <2>3. QED
    BY <2>1, <2>2
<1>7. Addressed'
  BY <1>3 DEF ContentInv, Addressed
<1>8. QED
  BY <1>3, <1>4, <1>6, <1>7 DEF ContentInv, BatchNamed

(* A PUT stores the bytes its name was made of.                            *)
LEMMA StagePutContent ==
  ASSUME StoredInv, ContentInv, NEW c \in Clients, StagePut(c)
  PROVE  ContentInv'
<1>1. cl \in [Clients -> ClientType]
  BY DEF StoredInv, TypeOK
<1>2. PICK A \in SUBSET cl[c].batch : PutObjects(A)
  BY DEF StagePut
<1>3. UNCHANGED <<slot, data, up>>
  BY DEF StagePut, durable
<1>4. \A k \in Clients : cl'[k].s = cl[k].s /\ cl'[k].batch = cl[k].batch
  BY <1>1 DEF StagePut, ClientType
<1>5. Addressed'
  <2>1. ASSUME NEW n \in DOMAIN obj' PROVE n.md5 = obj'[n]
    <3>1. CASE \E s \in A : slot[s].name = n
      <4>1. PICK s \in A : slot[s].name = n /\ obj'[n] = data[s]
        <5>1. obj'[n] = data[CHOOSE s \in A : slot[s].name = n]
          BY <1>2, <2>1, <3>1 DEF PutObjects
        <5>2. QED
          BY <3>1, <5>1
      <4>2. slot[s].name.md5 = data[s]
        BY <4>1 DEF ContentInv, BatchNamed
      <4>3. QED
        BY <4>1, <4>2
    <3>2. CASE ~\E s \in A : slot[s].name = n
      <4>1. n \in DOMAIN obj /\ obj'[n] = obj[n]
        BY <1>2, <2>1, <3>2 DEF PutObjects
      <4>2. QED
        BY <4>1 DEF ContentInv, Addressed
    <3>3. QED
      BY <3>1, <3>2
  <2>2. QED
    BY <2>1 DEF Addressed
<1>6. QED
  BY <1>3, <1>4, <1>5 DEF ContentInv, BatchNamed

LEMMA AfterStageFields ==
  ASSUME NEW k, NEW b \in BOOLEAN
  PROVE  AfterStage(k, b).s = None /\ AfterStage(k, b).batch = {}
<1>1. [Call(k.op, k.a, k.v) EXCEPT !.nst = k.nst + 1, !.ok = k.ok].s = None
  BY DEF Call, IdleClient
<1>2. [Call(k.op, k.a, k.v) EXCEPT !.nst = k.nst + 1, !.ok = k.ok].batch = {}
  BY DEF Call, IdleClient
<1>3. /\ [IdleClient EXCEPT !.pc = "null"].s = None
      /\ [IdleClient EXCEPT !.pc = "null"].batch = {}
  BY DEF IdleClient
<1>4. QED
  BY <1>1, <1>2, <1>3, IdleFields DEF AfterStage

LEMMA StagePersistContent ==
  ASSUME StoredInv, ContentInv, NEW c \in Clients, StagePersist(c)
  PROVE  ContentInv'
<1>1. cl \in [Clients -> ClientType] /\ slot \in [Slots -> EntryType]
  BY DEF StoredInv, TypeOK
<1>2. UNCHANGED <<data, obj, up>>
  BY DEF StagePersist, bucket
<1>3. PICK C \in SUBSET cl[c].ack :
         /\ slot' = StageClean(C)
         /\ cl' = [cl EXCEPT ![c] = AfterStage(cl[c], C = cl[c].batch)]
  BY DEF StagePersist
<1>4. \A s \in Slots : slot'[s].name = slot[s].name
  <2>1. ASSUME NEW s \in Slots
        PROVE  [slot[s] EXCEPT !.dirty = FALSE, !.staged = TRUE].name = slot[s].name
    BY <1>1 DEF EntryType
  <2>2. QED
    BY <1>3, <2>1 DEF StageClean
<1>5. \A k \in Clients : cl'[k].s \in {cl[k].s, None} /\ cl'[k].batch \in {cl[k].batch, {}}
  <2>1. (C = cl[c].batch) \in BOOLEAN
    OBVIOUS
  <2>2. QED
    BY <1>1, <1>3, <2>1, AfterStageFields
<1>6. QED
  BY <1>2, <1>4, <1>5, NoneInNoBatch, OneEntry

-----------------------------------------------------------------------------
(* Upload.                                                                 *)

LEMMA UploadContent ==
  ASSUME StoredInv, ContentInv,
         \/ \E D \in SUBSET Dbs : UploadBegin(D)
         \/ \E a \in Addr : UploadStaged(a) \/ UploadMissing(a)
         \/ UploadSnapshot \/ UploadPending \/ UploadManifest \/ UploadFail
  PROVE  ContentInv'
<1>1. UNCHANGED <<slot, data, cl, obj>>
  BY DEF UploadBegin, UploadStaged, UploadMissing, UploadSnapshot, UploadPending, UploadManifest,
         UploadFail, durable, bucket
<1>2. up \in UploadType
  BY DEF StoredInv, TypeOK
<1>3. up'.recs \subseteq up.recs
  <2>1. CASE UploadFail
    BY <2>1 DEF UploadFail, EndUpload, IdleUpload
  <2>2. CASE UploadManifest
    BY <1>2, <2>2 DEF UploadManifest, UploadType
  <2>3. CASE UploadPending \/ UploadSnapshot
    BY <1>2, <2>3 DEF UploadPending, UploadSnapshot, UploadType
  <2>4. CASE \E a \in Addr : UploadStaged(a) \/ UploadMissing(a)
    BY <1>2, <2>4 DEF UploadStaged, UploadMissing, UploadType
  <2>5. CASE \E D \in SUBSET Dbs : UploadBegin(D)
    BY <1>2, <2>5 DEF UploadBegin, UploadType
  <2>6. QED
    BY <2>1, <2>2, <2>3, <2>4, <2>5
<1>4. QED
  BY <1>1, <1>3, NoneInNoBatch, OneEntry

(* A block is uploaded under the name of its bytes, new or another         *)
(* database's.                                                             *)
LEMMA UploadDirtyContent ==
  ASSUME ContentNames, StoredInv, ContentInv, NEW a \in Addr, UploadDirty(a)
  PROVE  ContentInv'
<1>1. UNCHANGED <<slot, data, cl>>
  BY DEF UploadDirty, durable
<1>2. up \in UploadType /\ up.blk[a] \in Name
  BY DEF UploadDirty, UploadType, StoredInv, TypeOK, OperationsOK, Blocks
<1>3. PICK s \in Slots : \E new :
        /\ new.md5 = data[s]
        /\ \/ obj' = obj
           \/ obj' = [n \in DOMAIN obj \cup {new} |-> IF n = new THEN data[s] ELSE obj[n]]
        /\ up'.recs = up.recs \cup {[s |-> s, old |-> up.blk[a], new |-> new]}
  <2>1. PICK s \in Named(up.blk[a]) :
          LET same == SameBytes(a[1], data[s])
              new == IF same # {} THEN CHOOSE n \in same : TRUE
                     ELSE Renamed(up.blk[a], data[s])
              next == [up EXCEPT !.blk[a] = new, !.todo = @ \ {a},
                                 !.del = DeleteBlockIf(a),
                                 !.recs = @ \cup {[s |-> s, old |-> up.blk[a],
                                                   new |-> new]}]
              stored == [n \in DOMAIN obj \cup {new} |->
                           IF n = new THEN data[s] ELSE obj[n]]
          IN  \/ up' = next /\ UNCHANGED obj
              \/ up' = next /\ obj' = stored
              \/ up' = [next EXCEPT !.pc = "fail"] /\ obj' \in {obj, stored}
    BY DEF UploadDirty
  <2> DEFINE same == SameBytes(a[1], data[s])
             new == IF same # {} THEN CHOOSE n \in same : TRUE
                    ELSE Renamed(up.blk[a], data[s])
             rec == [s |-> s, old |-> up.blk[a], new |-> new]
             next == [up EXCEPT !.blk[a] = new, !.todo = @ \ {a},
                                !.del = DeleteBlockIf(a), !.recs = @ \cup {rec}]
             stored == [n \in DOMAIN obj \cup {new} |-> IF n = new THEN data[s] ELSE obj[n]]
  <2>2. s \in Slots
    BY DEF Named
  <2>3. new.md5 = data[s]
    <3>1. CASE same # {}
      <4>1. new \in same
        BY <3>1
      <4>2. QED
        BY <4>1 DEF SameBytes
    <3>2. CASE same = {}
      BY <1>2, <3>2, RenamedMd5
    <3>3. QED
      BY <3>1, <3>2
  <2>4. \/ up' = next /\ UNCHANGED obj
        \/ up' = next /\ obj' = stored
        \/ up' = [next EXCEPT !.pc = "fail"] /\ obj' \in {obj, stored}
    BY <2>1
  <2>5. up'.recs = up.recs \cup {rec}
    <3> HIDE DEF new, rec, same, stored
    <3>1. next.recs = up.recs \cup {rec} /\ [next EXCEPT !.pc = "fail"].recs = up.recs \cup {rec}
      BY <1>2 DEF UploadType
    <3>2. QED
      BY <2>4, <3>1
  <2>6. obj' = obj \/ obj' = stored
    BY <2>4
  <2>7. QED
    BY <2>2, <2>3, <2>5, <2>6
<1>4. PICK new :
        /\ new.md5 = data[s]
        /\ \/ obj' = obj
           \/ obj' = [n \in DOMAIN obj \cup {new} |-> IF n = new THEN data[s] ELSE obj[n]]
        /\ up'.recs = up.recs \cup {[s |-> s, old |-> up.blk[a], new |-> new]}
  BY <1>3
<1>5. Addressed'
  BY <1>4 DEF ContentInv, Addressed
<1>6. ASSUME NEW c \in Clients, NEW t \in cl[c].batch, NEW r \in up'.recs, r.s = t
      PROVE  r.new.md5 = data[t]
  BY <1>4, <1>6 DEF ContentInv, BatchNamed
<1>7. QED
  BY <1>1, <1>5, <1>6 DEF ContentInv, BatchNamed

(* The install renames an entry that another thread is staging to another  *)
(* name of the same bytes, if at all.                                      *)
LEMMA UploadInstallContent ==
  ASSUME StoredInv, ContentInv, UploadInstall
  PROVE  ContentInv'
<1>1. slot \in [Slots -> EntryType] /\ cl \in [Clients -> ClientType]
  BY DEF StoredInv, TypeOK
<1>2. UNCHANGED <<data, cl, obj>> /\ up'.recs = {}
  BY DEF UploadInstall, EndUpload, IdleUpload, bucket
<1>3. \A s \in Slots : slot'[s].name = slot[s].name
                       \/ (s \in RecordedSlots /\ slot'[s].name = PublishedName(s))
  <2>1. PICK p \in RenameOutcomes :
          slot' = [s \in Slots |-> IF s \in p[1] \cup p[2]
                                   THEN [slot[s] EXCEPT !.dirty = s \in p[2], !.name = PublishedName(s)]
                                   ELSE slot[s]]
    BY DEF UploadInstall
  <2>2. p[1] \cup p[2] \subseteq RecordedSlots
    BY DEF RenameOutcomes
  <2>3. ASSUME NEW s \in Slots
        PROVE  [slot[s] EXCEPT !.dirty = s \in p[2], !.name = PublishedName(s)].name = PublishedName(s)
    BY <1>1 DEF EntryType
  <2>4. QED
    BY <2>1, <2>2, <2>3
<1>4. ASSUME NEW c \in Clients, NEW s \in cl[c].batch, s \in RecordedSlots
      PROVE  PublishedName(s).md5 = data[s]
  <2>1. PICK r \in up.recs : r.s = s /\ PublishedName(s) = r.new
    BY <1>4 DEF RecordedSlots, Recorded, PublishedName
  <2>2. QED
    BY <1>4, <2>1 DEF ContentInv, BatchNamed
<1>5. ASSUME NEW c \in Clients, NEW s \in cl'[c].batch
      PROVE  /\ s \in cl[c].batch /\ data'[s] = data[s]
             /\ slot'[s].name = slot[s].name \/ slot'[s].name.md5 = data[s]
             /\ \A k \in Clients : cl'[k].s # s
  <2>1. s \in cl[c].batch /\ s \in Slots /\ data'[s] = data[s]
    BY <1>1, <1>2, <1>5 DEF ClientType
  <2>2. \A k \in Clients : cl'[k].s # s
    BY <1>2, <2>1 DEF ContentInv, BatchNamed
  <2>3. QED
    BY <1>3, <1>4, <2>1, <2>2
<1>6. QED
  BY <1>2, <1>5, ContentKept

-----------------------------------------------------------------------------
(* Other writers, polls, revert and restart.                               *)

LEMMA RemotePublishContent ==
  ASSUME ContentNames, ContentInv, NEW a \in Addr, NEW v \in Contents, RemotePublish(a, v)
  PROVE  ContentInv'
<1> DEFINE n == [gen |-> gen, tag |-> a, md5 |-> IF ContentNames THEN v ELSE None]
<1>1. obj' = [m \in DOMAIN obj \cup {n} |-> IF m = n THEN v ELSE obj[m]]
  BY DEF RemotePublish
<1>2. n.md5 = v
  OBVIOUS
<1>3. UNCHANGED <<slot, data, cl, up>>
  BY DEF RemotePublish, durable
<1> HIDE DEF n
<1>4. Addressed'
  BY <1>1, <1>2 DEF ContentInv, Addressed
<1>5. QED
  BY <1>3, <1>4 DEF ContentInv, BatchNamed

(* A reconciling poll renames only entries whose bytes are those of the    *)
(* published object.                                                       *)
LEMMA PendingContent ==
  ASSUME StoredInv, ContentInv, PendingTryInstall \/ PendingInstallFails
  PROVE  ContentInv'
<1>1. slot \in [Slots -> EntryType] /\ cl \in [Clients -> ClientType]
  BY DEF StoredInv, TypeOK
<1>2. UNCHANGED <<data, cl, obj, up>>
  BY DEF PendingTryInstall, PendingInstallFails, bucket
<1>3. \A s \in Slots : \/ slot'[s].name = slot[s].name
                       \/ s \in DirtySlots /\ slot'[s].name = poll.man.blk[slot[s].addr]
  <2>1. ASSUME NEW s \in Slots, NEW n
        PROVE  /\ [slot[s] EXCEPT !.name = n, !.dirty = FALSE, !.staged = FALSE].name = n
               /\ [slot[s] EXCEPT !.name = n, !.dirty = FALSE].name = n
               /\ [slot[s] EXCEPT !.staged = FALSE].name = slot[s].name
    BY <1>1 DEF EntryType
  <2>2. CASE PendingTryInstall
    BY <2>1, <2>2 DEF PendingTryInstall
  <2>3. CASE PendingInstallFails
    <3>1. PICK S \in SUBSET DirtySlots :
            slot' = [s \in Slots |->
                       IF s \in S
                       THEN [slot[s] EXCEPT !.name = poll.man.blk[slot[s].addr],
                                            !.dirty = FALSE]
                       ELSE slot[s]]
      BY <2>3 DEF PendingInstallFails
    <3>2. QED
      BY <2>1, <3>1
  <2>4. QED
    BY <2>2, <2>3
<1>4. ASSUME NEW s \in DirtySlots PROVE poll.man.blk[slot[s].addr].md5 = data[s]
  <2>1. poll.man.blk[slot[s].addr] \in DOMAIN obj /\ obj[poll.man.blk[slot[s].addr]] = data[s]
    BY <1>4 DEF PendingTryInstall, PendingInstallFails, PendingInstallable
  <2>2. QED
    BY <2>1 DEF ContentInv, Addressed
<1>5. ASSUME NEW c \in Clients, NEW s \in cl'[c].batch
      PROVE  /\ s \in cl[c].batch /\ data'[s] = data[s]
             /\ slot'[s].name = slot[s].name \/ slot'[s].name.md5 = data[s]
             /\ \A k \in Clients : cl'[k].s # s
  <2>1. s \in cl[c].batch /\ s \in Slots /\ data'[s] = data[s]
    BY <1>1, <1>2, <1>5 DEF ClientType
  <2>2. \A k \in Clients : cl'[k].s # s
    BY <1>2, <2>1 DEF ContentInv, BatchNamed
  <2>3. QED
    BY <1>3, <1>4, <2>1, <2>2
<1>6. QED
  BY <1>2, <1>5, ContentKept

LEMMA UndirtyNames ==
  ASSUME StoredInv, NEW T, Undirty(T)
  PROVE  \A s \in Slots : slot'[s].name = slot[s].name
<1>1. ASSUME NEW s \in Slots
      PROVE  [slot[s] EXCEPT !.dirty = FALSE, !.staged = FALSE].name = slot[s].name
  BY DEF StoredInv, TypeOK, EntryType
<1>2. QED
  BY <1>1 DEF Undirty

LEMMA ManifestContent ==
  ASSUME StoredInv, ContentInv,
         \/ \E c \in Clients : \E d \in Dbs : \E n \in Pos : Truncate(c, d, n)
         \/ PollBegin \/ PollFail \/ ManifestUpdate \/ Revert
  PROVE  ContentInv'
<1>1. UNCHANGED <<data, cl, obj, up>>
  BY DEF Truncate, PollBegin, PollFail, ManifestUpdate, Revert, durable, bucket
<1>2. \A s \in Slots : slot'[s].name = slot[s].name
  <2>1. CASE PollBegin \/ PollFail \/ ManifestUpdate
    BY <2>1 DEF PollBegin, PollFail, ManifestUpdate
  <2>2. CASE Revert
    BY <2>2, UndirtyNames DEF Revert
  <2>3. CASE \E c \in Clients : \E d \in Dbs : \E n \in Pos : Truncate(c, d, n)
    BY <2>3, UndirtyNames DEF Truncate
  <2>4. QED
    BY <2>1, <2>2, <2>3
<1>3. QED
  BY <1>1, <1>2, NoneInNoBatch, OneEntry

LEMMA CrashContent ==
  ASSUME StoredInv, ContentInv, Crash \/ CrashInstalling \/ CrashReconciling
  PROVE  ContentInv'
<1>1. UNCHANGED <<data, obj>> /\ cl' = [c \in Clients |-> IdleClient]
  BY DEF Crash, CrashInstalling, CrashReconciling, CacheInit, bucket
<1>2. \A c \in Clients : cl'[c].batch = {}
  BY <1>1, IdleFields
<1>3. QED
  BY <1>1, <1>2 DEF ContentInv, Addressed, BatchNamed

-----------------------------------------------------------------------------

LEMMA InitContent ==
  ASSUME ContentNames, Init
  PROVE  ContentInv
<1>1. Addressed
  <2> DEFINE c0 == CHOOSE v \in Contents : TRUE
             name == [a \in Addr |-> [gen |-> 0, tag |-> a, md5 |->
                                        IF ContentNames THEN c0 ELSE None]]
  <2>1. obj = [n \in {name[a] : a \in Published0} |-> c0]
    BY DEF Init
  <2>2. \A a \in Published0 : name[a].md5 = c0
    BY ConstantsAssumption
  <2> HIDE DEF c0, name
  <2>3. QED
    BY <2>1, <2>2 DEF Addressed
<1>2. \A c \in Clients : cl[c].batch = {}
  BY IdleFields DEF Init
<1>3. QED
  BY <1>1, <1>2 DEF ContentInv, BatchNamed

LEMMA NextContent ==
  ASSUME ContentNames, StoredInv, ContentInv, [Next]_vars
  PROVE  ContentInv'
<1>1. CASE UNCHANGED vars
  <2>1. UNCHANGED <<slot, data, cl, up, obj>>
    BY <1>1 DEF vars, durable, bucket
  <2>2. QED
    BY <2>1 DEF ContentInv, Addressed, BatchNamed
<1>2. CASE \E c \in Clients : \/ \E a \in Addr : Read(c, a) \/ \E v \in Contents : Write(c, a, v)
                              \/ IOStep(c)
  BY <1>2, ThreadContent, EntryContent DEF IOStep
<1>3. CASE \E c \in Clients : StageStep(c)
  BY <1>3, ThreadContent, StageSelectContent, StagePutContent, StagePersistContent DEF StageStep
<1>4. CASE UploadStep \/ \E D \in SUBSET Dbs : UploadBegin(D)
  BY <1>4, UploadContent, UploadDirtyContent, UploadInstallContent DEF UploadStep
<1>5. CASE PollBegin \/ PollStep \/ Revert
           \/ \E c \in Clients : \E d \in Dbs : \E n \in Pos : Truncate(c, d, n)
  BY <1>5, ManifestContent, PendingContent DEF PollStep
<1>6. CASE \E a \in Addr : \E v \in Contents : RemotePublish(a, v)
  BY <1>6, RemotePublishContent
<1>7. CASE Crash \/ CrashInstalling \/ CrashReconciling
  BY <1>7, CrashContent
<1>8. QED
  BY <1>1, <1>2, <1>3, <1>4, <1>5, <1>6, <1>7 DEF Next

LEMMA ContentAlways == ASSUME ContentNames PROVE Spec => []ContentInv
<1>1. Init => ContentInv
  BY InitContent
<1>2. StoredInv /\ ContentInv /\ [Next]_vars => ContentInv'
  BY NextContent
<1>3. QED
  BY <1>1, <1>2, StoredInvariant, PTL DEF Spec

(* No step deletes an object.                                              *)
LEMMA ObjectsStay ==
  ASSUME [Next]_vars
  PROVE  DOMAIN obj \subseteq DOMAIN obj'
<1>1. CASE UNCHANGED obj
  BY <1>1
<1>2. CASE \E c \in Clients : StagePut(c)
  BY <1>2 DEF StagePut, PutObjects
<1>3. CASE \E a \in Addr : UploadDirty(a)
  BY <1>3 DEF UploadDirty
<1>4. CASE \E a \in Addr : \E v \in Contents : RemotePublish(a, v)
  BY <1>4 DEF RemotePublish
<1>5. CASE \E c \in Clients : \/ \E a \in Addr : Read(c, a) \/ \E v \in Contents : Write(c, a, v)
                              \/ \E d \in Dbs : \E n \in Pos : Truncate(c, d, n)
                              \/ IOStep(c)
  <2>1. PICK c \in Clients :
          \/ \E a \in Addr : Read(c, a) \/ \E v \in Contents : Write(c, a, v)
          \/ \E d \in Dbs : \E n \in Pos : Truncate(c, d, n)
          \/ IOStep(c)
    BY <1>5
  <2>2. CASE \E a \in Addr : Read(c, a) \/ \E v \in Contents : Write(c, a, v)
    BY <1>1, <2>2 DEF Read, Write, bucket
  <2>3. CASE \E d \in Dbs : \E n \in Pos : Truncate(c, d, n)
    BY <1>1, <2>3 DEF Truncate, bucket
  <2>4. CASE ShortRead(c) \/ WaitForEntry(c) \/ CacheHit(c) \/ CacheMiss(c)
    BY <1>1, <2>4 DEF ShortRead, WaitForEntry, CacheHit, CacheMiss, bucket
  <2>5. CASE CacheFull(c) \/ ClearBlockFails(c) \/ FailIO(c) \/ FetchBlock(c) \/ ReadBytes(c)
    BY <1>1, <2>5 DEF CacheFull, ClearBlockFails, FailIO, FetchBlock, ReadBytes, bucket
  <2>6. CASE AlreadyDirty(c) \/ MakeBlockWritable(c) \/ CopyFull(c) \/ WriteBytes(c) \/ FinishIO(c)
    BY <1>1, <2>6 DEF AlreadyDirty, MakeBlockWritable, CopyFull, WriteBytes, FinishIO, bucket
  <2>7. QED
    BY <2>1, <2>2, <2>3, <2>4, <2>5, <2>6 DEF IOStep
<1>6. CASE \E c \in Clients : StageSelect(c) \/ StageNothing(c) \/ StagePersist(c)
  BY <1>1, <1>6 DEF StageSelect, StageNothing, StagePersist, bucket
<1>7. CASE \/ \E D \in SUBSET Dbs : UploadBegin(D)
           \/ \E a \in Addr : UploadStaged(a) \/ UploadMissing(a)
           \/ UploadSnapshot \/ UploadPending \/ UploadManifest \/ UploadFail \/ UploadInstall
  BY <1>1, <1>7 DEF UploadBegin, UploadStaged, UploadMissing, UploadSnapshot, UploadPending,
                    UploadManifest, UploadFail, UploadInstall, bucket
<1>8. CASE PollBegin \/ PollStep \/ Revert
  BY <1>1, <1>8 DEF PollBegin, PollStep, PendingTryInstall, PendingInstallFails, ManifestUpdate,
                    PollFail, Revert, bucket
<1>9. CASE Crash \/ CrashInstalling \/ CrashReconciling
  BY <1>1, <1>9 DEF Crash, CrashInstalling, CrashReconciling, CacheInit, bucket
<1>10. CASE UNCHANGED vars
  BY <1>1, <1>10 DEF vars, bucket
<1>11. QED
  BY <1>2, <1>3, <1>4, <1>5, <1>6, <1>7, <1>8, <1>9, <1>10 DEF Next, StageStep, UploadStep

(* No step removes an object or changes its bytes.                         *)
ObjectsImmutable == [][\A n \in DOMAIN obj : n \in DOMAIN obj' /\ obj'[n] = obj[n]]_vars

(* An object that has been stored keeps its bytes and is never deleted by  *)
(* the cache: bcvfsStageDirty, the upload and a retry of either put a name *)
(* again only with the bytes it stands for.                                *)
THEOREM Immutable == ASSUME ContentNames PROVE Spec => ObjectsImmutable
<1>1. ContentInv /\ ContentInv' /\ [Next]_vars =>
        [\A n \in DOMAIN obj : n \in DOMAIN obj' /\ obj'[n] = obj[n]]_vars
  BY ObjectsStay DEF ContentInv, Addressed
<1>2. QED
  BY <1>1, ContentAlways, PTL DEF Spec, ObjectsImmutable

(* With content names, only a new manifest changes what the published one  *)
(* reads as: the object of every block it names stays as it is.            *)
THEOREM StablePublication == ASSUME ContentNames PROVE Spec => PublishedStable
<1>1. StoredInv /\ ContentInv /\ ContentInv' /\ StoredInv' /\ [Next]_vars =>
        [rman' = rman => \A a \in Addr : PublishedContent(a)' = PublishedContent(a)]_vars
  <2>1. SUFFICES ASSUME StoredInv, ContentInv, ContentInv', StoredInv', [Next]_vars, rman' = rman,
                        NEW a \in Addr
                 PROVE  PublishedContent(a)' = PublishedContent(a)
    OBVIOUS
  <2>2. CASE rman.blk[a] = None
    <3>1. None \notin DOMAIN obj /\ None \notin DOMAIN obj'
      BY <2>1, ConstantsAssumption DEF StoredInv, TypeOK
    <3>2. QED
      BY <2>1, <2>2, <3>1 DEF PublishedContent, ContentOf
  <2>3. CASE rman.blk[a] # None
    <3>1. rman.blk[a] \in DOMAIN obj
      BY <2>1, <2>3 DEF StoredInv, NamesStored, Stored
    <3>2. rman.blk[a] \in DOMAIN obj' /\ obj'[rman.blk[a]] = obj[rman.blk[a]]
      BY <2>1, <3>1, ObjectsStay DEF ContentInv, Addressed
    <3>3. QED
      BY <2>1, <3>1, <3>2 DEF PublishedContent, ContentOf
  <2>4. QED
    BY <2>2, <2>3
<1>2. QED
  BY <1>1, ContentAlways, StoredInvariant, PTL DEF Spec, PublishedStable

=============================================================================
