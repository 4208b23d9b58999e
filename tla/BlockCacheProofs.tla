-------------------------- MODULE BlockCacheProofs --------------------------
(***************************************************************************)
(* Theorems about BlockCache: StoredInv is an inductive invariant of Spec, *)
(* for every set of clients, databases, positions, slots and contents and  *)
(* every value of the bounds; TypeOK and PublishedComplete follow.         *)
(*                                                                         *)
(* There is one lemma per action.  Under it, a step for each conjunct of   *)
(* StoredInv, and under TypeOK a step for each variable that changes.      *)
(***************************************************************************)
EXTENDS BlockCache, WellFoundedInduction, TLAPS

-----------------------------------------------------------------------------
(* Types of the constant records and of their updates.                     *)

(* An idle client record is well typed.                                    *)
LEMMA IdleClientType == IdleClient \in ClientType
  BY ConstantsAssumption DEF IdleClient, ClientType, PCs

(* So is the entry of an unused slot.                                      *)
LEMMA FreeEntryType == FreeEntry \in EntryType
  BY ConstantsAssumption DEF FreeEntry, EntryType

(* Rows of the block table.                                                *)
RowType == [name : Name \cup {None}, addr : Addr \cup {None}]

(* The three kinds of block row are well typed.                            *)
LEMMA RowTypes ==
  /\ NoRow \in RowType
  /\ \A n \in Name \cup {None} : CleanRow(n) \in RowType
  /\ \A a \in Addr \cup {None} : DirtyRow(a) \in RowType
  BY DEF NoRow, CleanRow, DirtyRow, RowType

(* A call starts with values of the right types.                           *)
LEMMA CallType ==
  ASSUME TypeOK, NEW op \in {"read", "write"}, NEW a \in Addr,
         NEW v \in Contents \cup {None}
  PROVE  Call(op, a, v) \in ClientType
<1>1. Acceptable(a) \subseteq Contents \cup {None}
  BY DEF TypeOK, ClientType, Acceptable, InFlight
<1>2. QED
  BY <1>1, ConstantsAssumption DEF Call, IdleClient, ClientType, PCs

-----------------------------------------------------------------------------
(* Client threads.                                                         *)

(* xRead starts: only the calling thread's state changes.                  *)
LEMMA ReadStep ==
  ASSUME StoredInv, NEW c \in Clients, NEW a \in Addr, Read(c, a)
  PROVE  StoredInv'
<1> USE DEF StoredInv, durable, bucket
<1>1. TypeOK'
  <2>1. cl' \in [Clients -> ClientType]
    BY CallType DEF Read, TypeOK
  <2>2. QED
    BY <2>1 DEF Read, TypeOK
<1>2. ClientsOK'
  BY ConstantsAssumption
     DEF TypeOK, ClientsOK, ClientOK, Read, Call, ClientType, IOPhases, IdleClient
<1>3. EntriesOK'
  BY ConstantsAssumption DEF TypeOK, ClientsOK, ClientOK, EntriesOK, Read, Call,
                             ClientType, IdleClient
<1>4. OperationsOK'
  BY DEF OperationsOK, Read
<1>5. NamesStored'
  BY DEF TypeOK, NamesStored, Stored, Read, Call, ClientType, IdleClient
<1>6. QED
  BY <1>1, <1>2, <1>3, <1>4, <1>5

(* xWrite starts: reads of the block in progress may now return v.         *)
LEMMA WriteStep ==
  ASSUME StoredInv, NEW c \in Clients, NEW a \in Addr, NEW v \in Contents,
         Write(c, a, v)
  PROVE  StoredInv'
<1> USE DEF StoredInv, durable, bucket
<1>1. TypeOK'
  <2>1. Call("write", a, v) \in ClientType
    BY CallType
  <2>2. ASSUME NEW k \in Clients
        PROVE  [cl[k] EXCEPT !.ok = cl[k].ok \cup {v}] \in ClientType
    <3>1. cl[k] \in ClientType
      BY DEF TypeOK
    <3>2. QED
      BY <3>1 DEF ClientType
  <2>3. cl' \in [Clients -> ClientType]
    BY <2>1, <2>2 DEF Write, TypeOK
  <2>4. QED
    BY <2>3 DEF Write, TypeOK
<1>2. ClientsOK'
  BY ConstantsAssumption
     DEF TypeOK, ClientsOK, ClientOK, Write, Call, ClientType, IOPhases, IdleClient
<1>3. EntriesOK'
  BY ConstantsAssumption DEF TypeOK, ClientsOK, ClientOK, EntriesOK, Write, Call,
                             ClientType, IdleClient
<1>4. OperationsOK'
  BY DEF OperationsOK, Write
<1>5. NamesStored'
  BY DEF TypeOK, NamesStored, Stored, Write, Call, ClientType, IdleClient
<1>6. QED
  BY <1>1, <1>2, <1>3, <1>4, <1>5

(* A short read returns.                                                   *)
LEMMA ShortReadStep ==
  ASSUME StoredInv, NEW c \in Clients, ShortRead(c)
  PROVE  StoredInv'
<1> USE DEF StoredInv, durable, bucket
<1>1. TypeOK'
  BY IdleClientType DEF ShortRead, Done, TypeOK
<1>2. ClientsOK'
  BY ConstantsAssumption
     DEF TypeOK, ClientsOK, ClientOK, ShortRead, Done, ClientType, IOPhases, IdleClient
<1>3. EntriesOK'
  BY ConstantsAssumption DEF TypeOK, ClientsOK, ClientOK, EntriesOK, ShortRead, Done,
                             ClientType, IdleClient
<1>4. OperationsOK'
  BY DEF OperationsOK, ShortRead
<1>5. NamesStored'
  BY DEF TypeOK, NamesStored, Stored, ShortRead, Done, ClientType, IdleClient
<1>6. QED
  BY <1>1, <1>2, <1>3, <1>4, <1>5

(* A thread waits for an entry that another one fills or stages.           *)
LEMMA WaitForEntryStep ==
  ASSUME StoredInv, NEW c \in Clients, WaitForEntry(c)
  PROVE  StoredInv'
<1> USE DEF StoredInv, durable, bucket
<1>1. TypeOK'
  <2>0. cl[c] \in ClientType
    BY DEF TypeOK
  <2>1. [cl[c] EXCEPT !.pc = "wait"] \in ClientType
    BY <2>0 DEF ClientType, PCs
  <2>2. cl' \in [Clients -> ClientType]
    BY <2>1 DEF WaitForEntry, TypeOK
  <2>3. QED
    BY <2>2 DEF WaitForEntry, TypeOK
<1>2. ClientsOK'
  BY ConstantsAssumption DEF TypeOK, ClientsOK, ClientOK, WaitForEntry, ClientType, IOPhases
<1>3. EntriesOK'
  BY ConstantsAssumption DEF TypeOK, ClientsOK, ClientOK, EntriesOK, WaitForEntry, ClientType
<1>4. OperationsOK'
  BY DEF OperationsOK, WaitForEntry
<1>5. NamesStored'
  BY DEF TypeOK, NamesStored, Stored, WaitForEntry, ClientType
<1>6. QED
  BY <1>1, <1>2, <1>3, <1>4, <1>5

(* A hit references a valid entry.                                         *)
LEMMA CacheHitStep ==
  ASSUME StoredInv, NEW c \in Clients, CacheHit(c)
  PROVE  StoredInv'
<1> USE DEF StoredInv, durable, bucket
<1>1. TypeOK'
  <2>1. PICK s \in Slots : cl' = [cl EXCEPT ![c].pc = "ready", ![c].s = s]
    BY DEF CacheHit, Named
  <2>0. cl[c] \in ClientType
    BY DEF TypeOK
  <2>2. [cl[c] EXCEPT !.pc = "ready", !.s = s] \in ClientType
    BY <2>0 DEF ClientType, PCs
  <2>3. cl' \in [Clients -> ClientType]
    BY <2>1, <2>2 DEF TypeOK
  <2>4. QED
    BY <2>3 DEF CacheHit, TypeOK
<1>2. ClientsOK'
  BY ConstantsAssumption
     DEF TypeOK, ClientsOK, ClientOK, CacheHit, Looking, Named, ClientType, IOPhases
<1>3. EntriesOK'
  BY ConstantsAssumption DEF TypeOK, ClientsOK, ClientOK, EntriesOK, CacheHit, Looking,
                             Named, ClientType, IOPhases
<1>4. OperationsOK'
  BY DEF OperationsOK, CacheHit
<1>5. NamesStored'
  BY DEF TypeOK, NamesStored, Stored, CacheHit, Named, ClientType
<1>6. QED
  BY <1>1, <1>2, <1>3, <1>4, <1>5

(* A miss takes a slot nobody references; one filled from a staged object  *)
(* has that object's name.                                                 *)
LEMMA CacheMissStep ==
  ASSUME StoredInv, NEW c \in Clients, CacheMiss(c)
  PROVE  StoredInv'
<1> USE DEF StoredInv, durable, bucket
<1>1. TypeOK'
  BY ConstantsAssumption
     DEF TypeOK, ClientsOK, ClientOK, CacheMiss, Misses, Looking, Named, AllocCacheEntry, Unused,
         Evictable, Pinned, Holders, Entry, NoRow, ClientType, EntryType,
         PCs, IOPhases, FreeEntry
<1>2. ClientsOK'
  BY ConstantsAssumption
     DEF TypeOK, ClientsOK, ClientOK, CacheMiss, Misses, Looking, AllocCacheEntry, Unused,
         Evictable,
         ClientType, IOPhases
<1>3. EntriesOK'
  BY ConstantsAssumption
     DEF TypeOK, ClientsOK, ClientOK, EntriesOK, CacheMiss, Misses, Looking, AllocCacheEntry, Unused,
         Evictable, Pinned, Holders, Entry, ClientType, EntryType, IOPhases,
         FreeEntry
<1>4. OperationsOK'
  BY DEF OperationsOK, CacheMiss
<1>5. NamesStored'
  <2> DEFINE n == local[cl[c].a]
             new == [Entry(n, None) EXCEPT
                       !.staged = /\ base.blk[cl[c].a] = None /\ n # None
                                  /\ StagedFind(cl[c].a, n)]
  <2>0. \A s \in AllocCacheEntry : s \in Slots /\ Holders(s) = {}
    BY DEF AllocCacheEntry, Unused, Evictable, Pinned
  <2> DEFINE pc == IF n # None /\ (\/ base.blk[cl[c].a] # None
                                  \/ /\ base.blk[cl[c].a] = None /\ n # None
                                     /\ StagedFind(cl[c].a, n))
                   THEN "fetch" ELSE "ready"
  <2>a. PICK s \in AllocCacheEntry : /\ slot' = [slot EXCEPT ![s] = new]
                                     /\ cl' = [cl EXCEPT ![c].s = s, ![c].pc = pc]
    BY DEF CacheMiss
  <2> HIDE DEF pc, new
  <2>b. \A k \in Clients : cl'[k].ack = cl[k].ack
    BY <2>a DEF TypeOK, ClientType
  <2>1. /\ s \in Slots /\ Holders(s) = {} /\ slot' = [slot EXCEPT ![s] = new]
        /\ \A k \in Clients : cl'[k].ack = cl[k].ack
    BY <2>0, <2>a, <2>b
  <2>2. new.name = n /\ (new.staged => n \in DOMAIN obj)
    BY DEF new, Entry, FreeEntry, StagedFind, NamesStored
  <2>3. \A t \in Slots : slot'[t].staged => slot'[t].name \in DOMAIN obj
    BY <2>1, <2>2 DEF NamesStored, TypeOK
  <2>4. \A k \in Clients : \A t \in cl'[k].ack : slot'[t].name \in DOMAIN obj
    BY <2>1 DEF NamesStored, Holders, ClientsOK, ClientOK, TypeOK, ClientType
  <2>5. QED
    BY <2>3, <2>4 DEF CacheMiss, NamesStored, Stored
<1>6. QED
  BY <1>1, <1>2, <1>3, <1>4, <1>5

(* The allocator found no slot.                                            *)
LEMMA CacheFullStep ==
  ASSUME StoredInv, NEW c \in Clients, CacheFull(c)
  PROVE  StoredInv'
<1> USE DEF StoredInv, durable, bucket
<1>1. TypeOK'
  <2>0. cl[c] \in ClientType
    BY DEF TypeOK
  <2>1. [cl[c] EXCEPT !.pc = "full", !.retry = TRUE] \in ClientType
    BY <2>0 DEF ClientType, PCs
  <2>2. cl' \in [Clients -> ClientType]
    BY <2>1 DEF CacheFull, TypeOK
  <2>3. QED
    BY <2>2 DEF CacheFull, TypeOK
<1>2. ClientsOK'
  BY ConstantsAssumption DEF TypeOK, ClientsOK, ClientOK, CacheFull, Misses, Looking,
                             ClientType, IOPhases
<1>3. EntriesOK'
  BY ConstantsAssumption DEF TypeOK, ClientsOK, ClientOK, EntriesOK, CacheFull, Misses,
                             Looking, ClientType
<1>4. OperationsOK'
  BY DEF OperationsOK, CacheFull
<1>5. NamesStored'
  BY DEF TypeOK, NamesStored, Stored, CacheFull, ClientType
<1>6. QED
  BY <1>1, <1>2, <1>3, <1>4, <1>5

(* A fetched block fills its slot; a failed fetch gives the slot back,     *)
(* which nobody else can be using because it is not valid yet.             *)
LEMMA FetchBlockStep ==
  ASSUME StoredInv, NEW c \in Clients, FetchBlock(c)
  PROVE  StoredInv'
<1> USE DEF StoredInv, durable, bucket
<1>1. CASE /\ slot[cl[c].s].name \in DOMAIN obj
           /\ data' = [data EXCEPT ![cl[c].s] = obj[slot[cl[c].s].name]]
           /\ cl' = [cl EXCEPT ![c].pc = "ready", ![c].wb = TRUE]
           /\ UNCHANGED slot
  <2>1. TypeOK'
    <3>1. cl[c] \in ClientType
      BY DEF TypeOK
    <3>2. [cl[c] EXCEPT !.pc = "ready", !.wb = TRUE] \in ClientType
      BY <3>1 DEF ClientType, PCs
    <3>3. cl' \in [Clients -> ClientType]
      BY <1>1, <3>2 DEF TypeOK
    <3>4. data' \in [Slots -> Contents]
      BY <1>1 DEF TypeOK
    <3>5. QED
      BY <1>1, <3>3, <3>4 DEF FetchBlock, TypeOK
  <2>2. ClientsOK'
    BY <1>1, ConstantsAssumption
       DEF TypeOK, ClientsOK, ClientOK, FetchBlock, ClientType, IOPhases
  <2>3. EntriesOK'
    BY <1>1 DEF TypeOK, ClientsOK, ClientOK, EntriesOK, FetchBlock, ClientType, IOPhases
  <2>4. OperationsOK'
    BY DEF OperationsOK, FetchBlock
  <2>5. NamesStored'
    BY <1>1 DEF TypeOK, NamesStored, Stored, FetchBlock, ClientType
  <2>6. QED
    BY <2>1, <2>2, <2>3, <2>4, <2>5
<1>2. CASE /\ slot' = [slot EXCEPT ![cl[c].s] = FreeEntry]
           /\ Done(c)
           /\ UNCHANGED data
  <2>1. TypeOK'
    <3>1. cl' \in [Clients -> ClientType]
      BY <1>2, IdleClientType DEF Done, TypeOK
    <3>2. slot' \in [Slots -> EntryType]
      BY <1>2, FreeEntryType DEF TypeOK
    <3>3. QED
      BY <1>2, <3>1, <3>2 DEF FetchBlock, TypeOK
  <2>2. ClientsOK'
    BY <1>2, ConstantsAssumption
       DEF TypeOK, ClientsOK, ClientOK, FetchBlock, Done, ClientType, IOPhases, IdleClient
  <2>3. EntriesOK'
    BY <1>2, ConstantsAssumption
       DEF TypeOK, ClientsOK, ClientOK, EntriesOK, FetchBlock, Done, ClientType,
           EntryType, IOPhases, IdleClient, FreeEntry
  <2>4. OperationsOK'
    BY DEF OperationsOK, FetchBlock
  <2>5. NamesStored'
    BY <1>2 DEF TypeOK, ClientsOK, ClientOK, EntriesOK, NamesStored, Stored, FetchBlock,
                Done, ClientType, EntryType, IdleClient, FreeEntry
  <2>6. QED
    BY <2>1, <2>2, <2>3, <2>4, <2>5
<1>3. QED
  BY <1>1, <1>2 DEF FetchBlock

(* The bytes are read without the mutex.                                   *)
LEMMA ReadBytesStep ==
  ASSUME StoredInv, NEW c \in Clients, ReadBytes(c)
  PROVE  StoredInv'
<1> USE DEF StoredInv, durable, bucket
<1>1. TypeOK'
  <2>1. cl[c] \in ClientType /\ data[cl[c].s] \in Contents
    BY DEF TypeOK, ClientsOK, ClientOK, ReadBytes, IOPhases
  <2>2. [cl[c] EXCEPT !.pc = "done", !.v = data[cl[c].s]] \in ClientType
    BY <2>1 DEF ClientType, PCs
  <2>3. cl' \in [Clients -> ClientType]
    BY <2>2 DEF ReadBytes, TypeOK
  <2>4. QED
    BY <2>3 DEF ReadBytes, TypeOK
<1>2. ClientsOK'
  BY ConstantsAssumption DEF TypeOK, ClientsOK, ClientOK, ReadBytes, ClientType, IOPhases
<1>3. EntriesOK'
  BY DEF TypeOK, ClientsOK, ClientOK, EntriesOK, ReadBytes, ClientType, IOPhases
<1>4. OperationsOK'
  BY DEF OperationsOK, ReadBytes
<1>5. NamesStored'
  BY DEF TypeOK, NamesStored, Stored, ReadBytes, ClientType
<1>6. QED
  BY <1>1, <1>2, <1>3, <1>4, <1>5

(* A dirty entry is written in place.                                      *)
LEMMA AlreadyDirtyStep ==
  ASSUME StoredInv, NEW c \in Clients, AlreadyDirty(c)
  PROVE  StoredInv'
<1> USE DEF StoredInv, durable, bucket
<1>1. TypeOK'
  <2>1. cl[c] \in ClientType
    BY DEF TypeOK
  <2>2. [cl[c] EXCEPT !.pc = "bytes"] \in ClientType
    BY <2>1 DEF ClientType, PCs
  <2>3. cl' \in [Clients -> ClientType]
    BY <2>2 DEF AlreadyDirty, TypeOK
  <2>4. QED
    BY <2>3 DEF AlreadyDirty, TypeOK
<1>2. ClientsOK'
  BY ConstantsAssumption DEF TypeOK, ClientsOK, ClientOK, AlreadyDirty, ClientType, IOPhases
<1>3. EntriesOK'
  BY DEF TypeOK, ClientsOK, ClientOK, EntriesOK, AlreadyDirty, ClientType, IOPhases
<1>4. OperationsOK'
  BY DEF OperationsOK, AlreadyDirty
<1>5. NamesStored'
  BY DEF TypeOK, NamesStored, Stored, AlreadyDirty, ClientType
<1>6. QED
  BY <1>1, <1>2, <1>3, <1>4, <1>5

(* A slot made writable is in nobody's staging batch: it is copied if any  *)
(* other thread references it.                                             *)
LEMMA TargetInNoBatch ==
  ASSUME StoredInv, NEW c \in Clients, cl[c].pc = "ready",
         NEW t \in WritableTargets(c)
  PROVE  /\ t \in Slots
         /\ \A k \in Clients : t \notin cl[k].batch
         /\ t # cl[c].s => \A k \in Clients : cl[k].s # t
<1>1. CASE slot[cl[c].s].valid /\ (Holders(cl[c].s) # {c} \/ \E r \in up.recs : r.s = cl[c].s)
  BY <1>1 DEF WritableTargets, Shared, AllocCacheEntry, Unused, Evictable, Pinned, Holders
<1>2. CASE ~slot[cl[c].s].valid
  BY <1>2 DEF WritableTargets, Shared, StoredInv, ClientsOK, ClientOK, EntriesOK, IOPhases
<1>3. CASE Holders(cl[c].s) = {c} /\ ~(\E r \in up.recs : r.s = cl[c].s)
  <2>1. t = cl[c].s /\ t \in Slots
    BY <1>3 DEF WritableTargets, Shared, StoredInv, ClientsOK, ClientOK, IOPhases
  <2>2. ASSUME NEW k \in Clients, t \in cl[k].batch
        PROVE  FALSE
    <3>1. k = c
      BY <1>3, <2>1, <2>2 DEF Holders
    <3>2. QED
      BY <2>2, <3>1 DEF StoredInv, ClientsOK, ClientOK
  <2>3. QED
    BY <2>1, <2>2
<1>4. QED
  BY <1>1, <1>2, <1>3

(* The slot that becomes dirty is in no staging batch, so renaming it      *)
(* disturbs neither an acknowledged PUT nor another thread's entry.        *)
LEMMA MakeBlockWritableStep ==
  ASSUME StoredInv, NEW c \in Clients, MakeBlockWritable(c)
  PROVE  StoredInv'
<1> USE DEF StoredInv, durable, bucket
<1> DEFINE s == cl[c].s
           a == cl[c].a
           n(t) == [gen |-> gen, tag |-> t, md5 |-> None]
           e(t) == [name |-> n(t), addr |-> a, dirty |-> TRUE,
                    staged |-> FALSE, valid |-> t = s /\ slot[s].valid]
<1>1. PICK t \in WritableTargets(c) :
        /\ slot' = [slot EXCEPT ![t] = e(t)]
        /\ data' = [data EXCEPT ![t] = data[s]]
        /\ row' = [row EXCEPT ![t] = NoRow]
        /\ local' = [local EXCEPT ![a] = n(t)]
        /\ cl' = [cl EXCEPT ![c].pc = "bytes", ![c].s = t, ![c].wb = TRUE]
  BY DEF MakeBlockWritable
<1>2. /\ t \in Slots
      /\ \A k \in Clients : t \notin cl[k].batch
      /\ t # s => \A k \in Clients : cl[k].s # t
  BY TargetInNoBatch DEF MakeBlockWritable, Rewrites
<1>3. s \in Slots /\ a \in Addr
  BY DEF MakeBlockWritable, Rewrites, ClientsOK, ClientOK, IOPhases
<1>4. n(t) \in Name
  BY <1>2 DEF TypeOK, Name
<1>5. e(t) \in EntryType
  BY <1>2, <1>3, <1>4 DEF TypeOK, EntryType
<1>6. TypeOK'
  <2>1. slot' \in [Slots -> EntryType]
    BY <1>1, <1>5 DEF TypeOK
  <2>2. data' \in [Slots -> Contents]
    BY <1>1, <1>3 DEF TypeOK
  <2>3. row' \in [Slots -> RowType]
    BY <1>1, RowTypes DEF TypeOK, RowType
  <2>4. local' \in Blocks
    BY <1>1, <1>4 DEF TypeOK, Blocks
  <2>5. cl[c] \in ClientType
    BY DEF TypeOK
  <2>6. [cl[c] EXCEPT !.pc = "bytes", !.s = t, !.wb = TRUE] \in ClientType
    BY <1>2, <2>5 DEF ClientType, PCs
  <2>7. cl' \in [Clients -> ClientType]
    BY <1>1, <2>6 DEF TypeOK
  <2>8. alloc' \in SUBSET Dbs /\ gen' \in Nat
    BY <1>3 DEF MakeBlockWritable, TypeOK, Addr
  <2>9. QED
    BY <2>1, <2>2, <2>3, <2>4, <2>7, <2>8 DEF MakeBlockWritable, TypeOK, RowType
<1>7. /\ \A k \in Clients \ {c} : cl'[k] = cl[k]
      /\ cl'[c].pc = "bytes" /\ cl'[c].s = t
      /\ cl'[c].op = cl[c].op /\ cl'[c].a = cl[c].a /\ cl'[c].v = cl[c].v
      /\ cl'[c].batch = cl[c].batch /\ cl'[c].ack = cl[c].ack
  BY <1>1 DEF TypeOK, ClientType
<1>8. ClientsOK'
  <2> SUFFICES ASSUME NEW k \in Clients
               PROVE  ClientOK(k)'
    BY DEF ClientsOK
  <2>1. CASE k = c
    BY <2>1, <1>2, <1>7 DEF MakeBlockWritable, Rewrites, ClientsOK, ClientOK, IOPhases
  <2>2. CASE k # c
    BY <2>2, <1>7 DEF ClientsOK, ClientOK
  <2>3. QED
    BY <2>1, <2>2
<1>9. /\ \A u \in Slots \ {t} : slot'[u] = slot[u]
      /\ slot'[t] = e(t)
      /\ t = s /\ ~slot'[t].valid => ~slot[s].valid
  BY <1>1, <1>2 DEF TypeOK
<1>10. EntriesOK'
  <2>1. \A u \in Slots : slot'[u].dirty => /\ slot'[u].addr \in Addr
                                           /\ slot'[u].name \in Name
                                           /\ ~slot'[u].staged
    BY <1>3, <1>4, <1>9 DEF EntriesOK
  <2>2. \A k \in Clients : \A u \in cl'[k].batch :
          slot'[u].valid /\ slot'[u].addr \in Addr /\ slot'[u].name \in Name
    BY <1>2, <1>7, <1>9 DEF TypeOK, ClientType, EntriesOK
  <2>3. \A k \in Clients : cl'[k].pc = "fetch" => ~slot'[cl'[k].s].valid
    <3> SUFFICES ASSUME NEW k \in Clients, cl'[k].pc = "fetch"
                 PROVE  ~slot'[cl'[k].s].valid
      OBVIOUS
    <3>1. k # c /\ cl'[k] = cl[k]
      BY <1>7
    <3>2. cl[k].s \in Slots /\ ~slot[cl[k].s].valid
      BY <3>1 DEF ClientsOK, ClientOK, EntriesOK, IOPhases
    <3>3. cl[k].s # t
      BY <1>2, <1>3, <3>1, <3>2 DEF EntriesOK
    <3>4. QED
      BY <1>9, <3>1, <3>2, <3>3
  <2>4. ASSUME NEW j \in Clients, NEW k \in Clients, cl'[j].s \in Slots,
               cl'[j].s = cl'[k].s, ~slot'[cl'[j].s].valid
        PROVE  j = k
    <3>1. CASE cl'[j].s # t
      BY <2>4, <3>1, <1>7, <1>9 DEF EntriesOK
    <3>2. CASE cl'[j].s = t
      <4>1. t # s => j = c /\ k = c
        BY <2>4, <3>2, <1>2, <1>7
      <4>2. t = s => ~slot[s].valid
        BY <2>4, <3>2, <1>9
      <4>3. t = s => cl[j].s = s /\ cl[k].s = s
        BY <2>4, <3>2, <1>7
      <4>4. QED
        BY <4>1, <4>2, <4>3, <1>3 DEF EntriesOK
    <3>3. QED
      BY <3>1, <3>2
  <2>5. QED
    BY <2>1, <2>2, <2>3, <2>4 DEF EntriesOK
<1>11. OperationsOK'
  BY DEF OperationsOK, MakeBlockWritable
<1>12. NamesStored'
  BY <1>1, <1>2 DEF MakeBlockWritable, TypeOK, ClientsOK, ClientOK, NamesStored, Stored,
                    ClientType, EntryType
<1>13. QED
  BY <1>6, <1>8, <1>10, <1>11, <1>12

(* Copy-on-write found no slot.                                            *)
LEMMA CopyFullStep ==
  ASSUME StoredInv, NEW c \in Clients, CopyFull(c)
  PROVE  StoredInv'
<1> USE DEF StoredInv, durable, bucket
<1>1. TypeOK'
  <2>1. cl[c] \in ClientType
    BY DEF TypeOK
  <2>2. [cl[c] EXCEPT !.pc = "full", !.retry = TRUE, !.s = None, !.wb = FALSE]
          \in ClientType
    BY <2>1 DEF ClientType, PCs
  <2>3. cl' \in [Clients -> ClientType]
    BY <2>2 DEF CopyFull, TypeOK
  <2>4. QED
    BY <2>3 DEF CopyFull, TypeOK
<1>2. ClientsOK'
  BY ConstantsAssumption
     DEF TypeOK, ClientsOK, ClientOK, CopyFull, Rewrites, ClientType, IOPhases
<1>3. EntriesOK'
  BY ConstantsAssumption
     DEF TypeOK, ClientsOK, ClientOK, EntriesOK, CopyFull, ClientType, IOPhases
<1>4. OperationsOK'
  BY DEF OperationsOK, CopyFull
<1>5. NamesStored'
  BY DEF TypeOK, NamesStored, Stored, CopyFull, ClientType
<1>6. QED
  BY <1>1, <1>2, <1>3, <1>4, <1>5

(* The bytes are written without the mutex.                                *)
LEMMA WriteBytesStep ==
  ASSUME StoredInv, NEW c \in Clients, WriteBytes(c)
  PROVE  StoredInv'
<1> USE DEF StoredInv, durable, bucket
<1>1. TypeOK'
  <2>1. cl[c] \in ClientType /\ cl[c].v \in Contents
    BY DEF TypeOK, ClientsOK, ClientOK, WriteBytes, IOPhases
  <2>2. [cl[c] EXCEPT !.pc = "done"] \in ClientType
    BY <2>1 DEF ClientType, PCs
  <2>3. cl' \in [Clients -> ClientType]
    BY <2>2 DEF WriteBytes, TypeOK
  <2>4. data' \in [Slots -> Contents]
    BY <2>1 DEF WriteBytes, TypeOK
  <2>5. QED
    BY <2>3, <2>4 DEF WriteBytes, TypeOK
<1>2. ClientsOK'
  BY ConstantsAssumption DEF TypeOK, ClientsOK, ClientOK, WriteBytes, ClientType, IOPhases
<1>3. EntriesOK'
  BY DEF TypeOK, ClientsOK, ClientOK, EntriesOK, WriteBytes, ClientType, IOPhases
<1>4. OperationsOK'
  BY DEF OperationsOK, WriteBytes
<1>5. NamesStored'
  BY DEF TypeOK, NamesStored, Stored, WriteBytes, ClientType
<1>6. QED
  BY <1>1, <1>2, <1>3, <1>4, <1>5

(* The closing section validates the entry, of which this thread is the    *)
(* only holder if it was not valid before, and drops the reference.        *)
LEMMA FinishIOStep ==
  ASSUME StoredInv, NEW c \in Clients, FinishIO(c)
  PROVE  StoredInv'
<1> USE DEF StoredInv, durable, bucket
<1> DEFINE s == cl[c].s
           a == cl[c].a
           stage == [IdleClient EXCEPT !.pc = "full", !.op = "write", !.a = a]
<1>1. s \in Slots /\ a \in Addr
  BY DEF FinishIO, ClientsOK, ClientOK, IOPhases
<1>2. \E k \in {IdleClient, stage} : cl' = [cl EXCEPT ![c] = k]
  BY DEF FinishIO, Done
<1>3. PICK k \in {IdleClient, stage} : cl' = [cl EXCEPT ![c] = k]
  BY <1>2
<1>4. /\ k.pc \in {"idle", "full"} /\ k.s = None /\ k.batch = {} /\ k.ack = {}
      /\ k.pc = "full" => k.op = "write"
      /\ k.op = "write" => k.a \in Addr
      /\ k.pc = "idle" => k.op = "read"
      /\ ~k.retry
      /\ k \in ClientType
  <2>1. CASE k = IdleClient
    BY <2>1, IdleClientType DEF IdleClient
  <2>2. CASE k = stage
    BY <2>2, <1>1, IdleClientType DEF IdleClient, ClientType, PCs
  <2>3. QED
    BY <2>1, <2>2
<1>5. slot' = [slot EXCEPT ![s].valid = TRUE]
  BY DEF FinishIO
<1>6. TypeOK'
  <2>1. slot[s] \in EntryType
    BY <1>1 DEF TypeOK
  <2>2. [slot[s] EXCEPT !.valid = TRUE] \in EntryType
    BY <2>1 DEF EntryType
  <2>3. slot' \in [Slots -> EntryType]
    BY <1>5, <2>2 DEF TypeOK
  <2>4. row' \in [Slots -> RowType]
    <3>1. slot[s].name \in Name \cup {None}
      BY <2>1 DEF EntryType
    <3>2. row \in [Slots -> RowType]
      BY DEF TypeOK, RowType
    <3>3. QED
      BY <1>1, <3>1, <3>2, RowTypes DEF FinishIO
  <2>5. cur' \in [Addr -> SUBSET Contents]
    BY <1>1 DEF FinishIO, TypeOK, ClientsOK, ClientOK, IOPhases
  <2>6. cl' \in [Clients -> ClientType]
    BY <1>3, <1>4 DEF TypeOK
  <2>7. QED
    BY <2>3, <2>4, <2>5, <2>6 DEF FinishIO, TypeOK, RowType
<1>7. ClientsOK'
  BY <1>3, <1>4, ConstantsAssumption DEF TypeOK, ClientsOK, ClientOK, ClientType, IOPhases
<1>8. EntriesOK'
  BY <1>1, <1>3, <1>4, <1>5, ConstantsAssumption
     DEF FinishIO, TypeOK, ClientsOK, ClientOK, EntriesOK, ClientType, EntryType, IOPhases
<1>9. OperationsOK'
  BY DEF OperationsOK, FinishIO
<1>10. NamesStored'
  BY <1>3, <1>4, <1>5 DEF FinishIO, TypeOK, NamesStored, Stored, ClientType, EntryType
<1>11. QED
  BY <1>6, <1>7, <1>8, <1>9, <1>10

(* A thread leaves its call, and the entry of a slot that no other thread  *)
(* references may leave the cache.                                         *)
LEMMA EntriesReleased ==
  ASSUME StoredInv, NEW c \in Clients, NEW s \in Slots, obj' = obj,
         cl' = [cl EXCEPT ![c] = IdleClient],
         \/ slot' = slot
         \/ /\ slot' = [slot EXCEPT ![s] = FreeEntry]
            /\ \A k \in Clients \ {c} : cl[k].s # s /\ s \notin cl[k].batch
  PROVE  /\ EntriesOK'
         /\ \A t \in Slots : slot'[t].staged => slot'[t].name \in DOMAIN obj
         /\ \A k \in Clients : \A t \in cl'[k].ack : slot'[t].name \in DOMAIN obj
<1> USE DEF StoredInv
<1>1. /\ IdleClient.pc = "idle" /\ IdleClient.s = None
      /\ IdleClient.batch = {} /\ IdleClient.ack = {} /\ None \notin Slots
  BY ConstantsAssumption DEF IdleClient
<1>2. cl'[c] = IdleClient /\ \A k \in Clients \ {c} : cl'[k] = cl[k]
  BY DEF TypeOK
<1>3. \A t \in Slots : slot'[t] = slot[t] \/ slot'[t] = FreeEntry
  BY DEF TypeOK
<1>4. ~FreeEntry.valid /\ ~FreeEntry.dirty /\ ~FreeEntry.staged
  BY DEF FreeEntry
<1>5. \A k \in Clients \ {c} : \A t \in Slots :
        cl[k].s = t \/ t \in cl[k].batch => slot'[t] = slot[t]
  BY DEF TypeOK
<1>6. \A t \in Slots : slot'[t].dirty => /\ slot'[t].addr \in Addr
                                         /\ slot'[t].name \in Name
                                         /\ ~slot'[t].staged
  BY <1>3, <1>4 DEF EntriesOK
<1>7. \A k \in Clients : cl[k].batch \subseteq Slots /\ cl[k].ack \subseteq cl[k].batch
  BY DEF TypeOK, ClientType, ClientsOK, ClientOK
<1>8. \A k \in Clients : \A t \in cl'[k].batch :
        slot'[t].valid /\ slot'[t].addr \in Addr /\ slot'[t].name \in Name
  BY <1>1, <1>2, <1>5, <1>7 DEF EntriesOK
<1>9. \A k \in Clients : cl'[k].pc = "fetch" => ~slot'[cl'[k].s].valid
  <2> SUFFICES ASSUME NEW k \in Clients \ {c}, cl[k].pc = "fetch"
               PROVE  ~slot'[cl[k].s].valid
    BY <1>1, <1>2
  <2>1. cl[k].s \in Slots /\ ~slot[cl[k].s].valid
    BY DEF EntriesOK, ClientsOK, ClientOK, IOPhases
  <2>2. QED
    BY <2>1, <1>5
<1>10. \A j, k \in Clients : cl'[j].s \in Slots /\ cl'[j].s = cl'[k].s
                              /\ ~slot'[cl'[j].s].valid => j = k
  <2> SUFFICES ASSUME NEW j \in Clients \ {c}, NEW k \in Clients \ {c},
                      cl[j].s \in Slots, cl[j].s = cl[k].s, ~slot'[cl[j].s].valid
               PROVE  j = k
    BY <1>1, <1>2
  <2>1. ~slot[cl[j].s].valid
    BY <1>5
  <2>2. QED
    BY <2>1 DEF EntriesOK
<1>11. EntriesOK'
  BY <1>6, <1>8, <1>9, <1>10 DEF EntriesOK
<1>12. \A t \in Slots : slot'[t].staged => slot'[t].name \in DOMAIN obj
  BY <1>3, <1>4 DEF NamesStored
<1>13. \A k \in Clients : \A t \in cl'[k].ack : slot'[t].name \in DOMAIN obj
  BY <1>1, <1>2, <1>5, <1>7 DEF NamesStored
<1>14. QED
  BY <1>11, <1>12, <1>13

(* A slot nobody references goes to the unused list.                       *)
LEMMA ClearBlockFailsStep ==
  ASSUME StoredInv, NEW c \in Clients, ClearBlockFails(c)
  PROVE  StoredInv'
<1> USE DEF StoredInv, durable, bucket
<1>1. PICK s \in Slots :
        /\ Holders(s) = {} /\ slot' = [slot EXCEPT ![s] = FreeEntry]
        /\ row' \in {row, [row EXCEPT ![s] = NoRow]}
  BY DEF ClearBlockFails, AllocCacheEntry, Unused, Evictable, Pinned
<1>2. TypeOK'
  <2>1. slot' \in [Slots -> EntryType]
    BY <1>1, FreeEntryType DEF TypeOK
  <2>2. row' \in [Slots -> RowType]
    BY <1>1, RowTypes DEF TypeOK, RowType
  <2>3. cl' \in [Clients -> ClientType]
    BY IdleClientType DEF ClearBlockFails, Done, TypeOK
  <2>4. QED
    BY <2>1, <2>2, <2>3 DEF ClearBlockFails, TypeOK, RowType
<1>3. ClientsOK'
  BY ConstantsAssumption
     DEF TypeOK, ClientsOK, ClientOK, ClearBlockFails, Done, ClientType, IOPhases, IdleClient
<1>4. /\ EntriesOK'
      /\ \A t \in Slots : slot'[t].staged => slot'[t].name \in DOMAIN obj
      /\ \A k \in Clients : \A t \in cl'[k].ack : slot'[t].name \in DOMAIN obj
  BY <1>1, EntriesReleased DEF ClearBlockFails, Done, Holders
<1>5. OperationsOK'
  BY DEF OperationsOK, ClearBlockFails
<1>6. NamesStored'
  BY <1>4 DEF NamesStored, Stored, ClearBlockFails
<1>7. QED
  BY <1>2, <1>3, <1>4, <1>5, <1>6

(* A failed call drops its reference; an entry that it was filling is in   *)
(* no batch and has no other holder, so it may leave the cache.            *)
LEMMA FailIOStep ==
  ASSUME StoredInv, NEW c \in Clients, FailIO(c)
  PROVE  StoredInv'
<1> USE DEF StoredInv, durable, bucket
<1> DEFINE s == cl[c].s
           a == cl[c].a
<1>1. s \in Slots /\ a \in Addr
  BY DEF FailIO, ClientsOK, ClientOK, IOPhases
<1>2. cl' = [cl EXCEPT ![c] = IdleClient]
  BY DEF FailIO, Done
<1>3. slot' = slot \/ (~slot[s].valid /\ slot' = [slot EXCEPT ![s] = FreeEntry])
  BY DEF FailIO
<1>4. TypeOK'
  <2>1. slot' \in [Slots -> EntryType]
    BY <1>3, FreeEntryType DEF TypeOK
  <2>2. cl' \in [Clients -> ClientType]
    BY <1>2, IdleClientType DEF TypeOK
  <2>3. cur' \in [Addr -> SUBSET Contents]
    <3>1. cl[c].op = "write" => cl[c].v \in Contents
      BY DEF FailIO, ClientsOK, ClientOK, IOPhases
    <3>2. QED
      BY <1>1, <3>1 DEF FailIO, TypeOK
  <2>4. QED
    BY <2>1, <2>2, <2>3 DEF FailIO, TypeOK
<1>5. ClientsOK'
  BY <1>2, ConstantsAssumption
     DEF TypeOK, ClientsOK, ClientOK, ClientType, IOPhases, IdleClient
<1>6. ~slot[s].valid => \A k \in Clients \ {c} : cl[k].s # s /\ s \notin cl[k].batch
  BY <1>1 DEF EntriesOK
<1>7. /\ EntriesOK'
      /\ \A t \in Slots : slot'[t].staged => slot'[t].name \in DOMAIN obj
      /\ \A k \in Clients : \A t \in cl'[k].ack : slot'[t].name \in DOMAIN obj
  BY <1>1, <1>2, <1>3, <1>6, EntriesReleased DEF FailIO
<1>8. OperationsOK'
  BY DEF OperationsOK, FailIO
<1>9. NamesStored'
  BY <1>7 DEF FailIO, NamesStored, Stored
<1>10. QED
  BY <1>4, <1>5, <1>7, <1>8, <1>9

(* Undirtying entries and tombstoning rows leaves names and validity alone. *)
LEMMA UndirtyStep ==
  ASSUME StoredInv, NEW T, Undirty(T), UNCHANGED <<staged, cl, obj>>
  PROVE  /\ slot' \in [Slots -> EntryType]
         /\ row' \in [Slots -> RowType]
         /\ gc' \in SUBSET StagedRow
         /\ \A s \in Slots : /\ slot'[s].name = slot[s].name
                             /\ slot'[s].addr = slot[s].addr
                             /\ slot'[s].valid = slot[s].valid
                             /\ slot'[s].dirty => slot[s].dirty
                             /\ slot'[s].staged => slot[s].staged
         /\ EntriesOK'
<1> USE DEF StoredInv
<1> DEFINE clean(s) == [slot[s] EXCEPT !.dirty = FALSE, !.staged = FALSE]
<1>1. ASSUME NEW s \in Slots
      PROVE  /\ clean(s) \in EntryType
             /\ clean(s).name = slot[s].name /\ clean(s).addr = slot[s].addr
             /\ clean(s).valid = slot[s].valid
             /\ clean(s).dirty = FALSE /\ clean(s).staged = FALSE
             /\ slot[s].name \in Name \cup {None}
  <2>1. slot[s] \in EntryType
    BY DEF TypeOK
  <2>2. QED
    BY <2>1 DEF EntryType
<1>2. PICK hit : slot' = [s \in Slots |-> IF s \in hit THEN clean(s) ELSE slot[s]]
  BY DEF Undirty
<1>3. slot' \in [Slots -> EntryType]
  BY <1>1, <1>2 DEF TypeOK
<1>4. row' \in [Slots -> RowType]
  BY <1>1, RowTypes DEF Undirty, TypeOK, RowType
<1>5. gc' \in SUBSET StagedRow
  BY DEF Undirty, TypeOK
<1>6. \A s \in Slots : /\ slot'[s].name = slot[s].name
                       /\ slot'[s].addr = slot[s].addr
                       /\ slot'[s].valid = slot[s].valid
                       /\ slot'[s].dirty => slot[s].dirty
                       /\ slot'[s].staged => slot[s].staged
  BY <1>1, <1>2
<1>7. EntriesOK'
  BY <1>6 DEF EntriesOK, ClientsOK, ClientOK, IOPhases, TypeOK, ClientType
<1>8. QED
  BY <1>3, <1>4, <1>5, <1>6, <1>7

(* xTruncate.                                                              *)
LEMMA TruncateStep ==
  ASSUME StoredInv, NEW c \in Clients, NEW d \in Dbs, NEW n \in Pos,
         Truncate(c, d, n)
  PROVE  StoredInv'
<1> USE DEF StoredInv, durable, bucket
<1>1. PICK T : Undirty(T)
  BY DEF Truncate
<1>2. UNCHANGED <<staged, cl, obj>>
  BY DEF Truncate
<1>3. TypeOK'
  <2>1. local' \in Blocks /\ cur' \in [Addr -> SUBSET Contents]
    BY DEF Truncate, TypeOK, Blocks
  <2>2. QED
    BY <1>1, <1>2, <2>1, UndirtyStep DEF Truncate, TypeOK, RowType
<1>4. ClientsOK'
  BY <1>2 DEF ClientsOK, ClientOK
<1>5. EntriesOK'
  BY <1>1, <1>2, UndirtyStep
<1>6. OperationsOK'
  BY DEF OperationsOK, Truncate
<1>7. NamesStored'
  <2>1. \A s \in Slots : /\ slot'[s].name = slot[s].name
                         /\ slot'[s].staged => slot[s].staged
    BY <1>1, <1>2, UndirtyStep
  <2>2. QED
    BY <2>1, <1>2 DEF Truncate, TypeOK, ClientType, NamesStored, Stored
<1>8. QED
  BY <1>3, <1>4, <1>5, <1>6, <1>7

-----------------------------------------------------------------------------
(* Staging.                                                                *)

(* Putting the MD5 prefix into a name gives a name.                        *)
LEMMA RenamedName ==
  ASSUME NEW n \in Name, NEW v \in Contents
  PROVE  Renamed(n, v) \in Name
  BY DEF Renamed, Name

(* The selected entries are referenced by nobody else; their new names are *)
(* not in use yet.                                                         *)
LEMMA StageSelectStep ==
  ASSUME StoredInv, NEW c \in Clients, StageSelect(c)
  PROVE  StoredInv'
<1> USE DEF StoredInv, durable, bucket
<1> DEFINE new(s) == [slot[s] EXCEPT !.name = Renamed(slot[s].name, data[s])]
<1>1. PICK B \in SUBSET Stageable :
        /\ B # {}
        /\ cl' = [cl EXCEPT ![c].pc = "put", ![c].batch = B]
        /\ slot' = [s \in Slots |-> IF s \in B THEN new(s) ELSE slot[s]]
        /\ local' = [a \in Addr |->
                        IF \E s \in B : slot[s].addr = a
                        THEN Renamed(local[a],
                                     data[CHOOSE s \in B : slot[s].addr = a])
                        ELSE local[a]]
  BY DEF StageSelect
<1>2. ASSUME NEW s \in B
      PROVE  /\ s \in Slots /\ slot[s] \in EntryType /\ data[s] \in Contents
             /\ slot[s].valid /\ slot[s].dirty /\ ~slot[s].staged
             /\ slot[s].addr \in Addr /\ slot[s].name \in Name
             /\ local[slot[s].addr] = slot[s].name
             /\ \A k \in Clients : cl[k].s # s /\ s \notin cl[k].batch
  BY DEF Stageable, Pinned, Holders, EntriesOK, TypeOK
<1>3. ASSUME NEW s \in B
      PROVE  /\ new(s) \in EntryType
             /\ new(s).name \in Name /\ new(s).addr = slot[s].addr
             /\ new(s).valid = slot[s].valid /\ new(s).dirty = slot[s].dirty
             /\ new(s).staged = slot[s].staged
  <2>1. Renamed(slot[s].name, data[s]) \in Name
    BY <1>2, RenamedName
  <2>2. QED
    BY <1>2, <2>1 DEF EntryType
<1>4. cl[c] \in ClientType /\ cl[c].pc = "full" /\ cl[c].ack = {}
  BY DEF TypeOK, StageSelect, ClientsOK, ClientOK
<1>5. B \subseteq Slots
  BY <1>2
<1>6. TypeOK'
  <2>1. [cl[c] EXCEPT !.pc = "put", !.batch = B] \in ClientType
    BY <1>4, <1>5 DEF ClientType, PCs
  <2>2. cl' \in [Clients -> ClientType]
    BY <1>1, <2>1 DEF TypeOK
  <2>3. slot' \in [Slots -> EntryType]
    BY <1>1, <1>3 DEF TypeOK
  <2>4. ASSUME NEW a \in Addr, \E s \in B : slot[s].addr = a
        PROVE  Renamed(local[a], data[CHOOSE s \in B : slot[s].addr = a]) \in Name
    <3>1. PICK s \in B : /\ s = CHOOSE u \in B : slot[u].addr = a
                         /\ slot[s].addr = a
      BY <2>4
    <3>2. QED
      BY <3>1, <1>2, RenamedName
  <2>5. local' \in Blocks
    BY <1>1, <2>4 DEF TypeOK, Blocks
  <2>6. eState' \in {"none", "stage", "upload", "poll"}
    BY DEF StageSelect, TypeOK
  <2>7. QED
    BY <2>2, <2>3, <2>5, <2>6 DEF StageSelect, TypeOK
<1>7. /\ \A k \in Clients \ {c} : cl'[k] = cl[k]
      /\ cl'[c].pc = "put" /\ cl'[c].s = cl[c].s /\ cl'[c].retry = cl[c].retry
      /\ cl'[c].op = cl[c].op /\ cl'[c].a = cl[c].a /\ cl'[c].v = cl[c].v
      /\ cl'[c].batch = B /\ cl'[c].ack = cl[c].ack
  BY <1>1 DEF TypeOK, ClientType
<1>8. ClientsOK'
  <2> SUFFICES ASSUME NEW k \in Clients
               PROVE  ClientOK(k)'
    BY DEF ClientsOK
  <2>1. CASE k = c
    BY <2>1, <1>4, <1>7 DEF ClientsOK, ClientOK, IOPhases
  <2>2. CASE k # c
    BY <2>2, <1>7 DEF ClientsOK, ClientOK
  <2>3. QED
    BY <2>1, <2>2
<1>9. /\ \A s \in Slots \ B : slot'[s] = slot[s]
      /\ \A s \in B : slot'[s] = new(s)
  BY <1>1, <1>2
<1>10. EntriesOK'
  <2>1. \A s \in Slots : slot'[s].dirty => /\ slot'[s].addr \in Addr
                                           /\ slot'[s].name \in Name
                                           /\ ~slot'[s].staged
    BY <1>2, <1>3, <1>9 DEF EntriesOK
  <2>2. \A k \in Clients : \A s \in cl'[k].batch :
          slot'[s].valid /\ slot'[s].addr \in Addr /\ slot'[s].name \in Name
    <3> SUFFICES ASSUME NEW k \in Clients, NEW s \in cl'[k].batch
                 PROVE  slot'[s].valid /\ slot'[s].addr \in Addr /\ slot'[s].name \in Name
      OBVIOUS
    <3>1. CASE k = c
      <4>1. s \in B
        BY <3>1, <1>7
      <4>2. slot'[s] = new(s)
        BY <4>1, <1>9
      <4>3. /\ slot[s].valid /\ slot[s].addr \in Addr
            /\ new(s).name \in Name /\ new(s).addr = slot[s].addr
            /\ new(s).valid = slot[s].valid
        BY <4>1, <1>2, <1>3
      <4>4. QED
        BY <4>2, <4>3
    <3>2. CASE k # c
      <4>1. s \in cl[k].batch /\ s \in Slots \ B
        BY <3>2, <1>2, <1>7 DEF TypeOK, ClientType
      <4>2. QED
        BY <4>1, <1>9 DEF EntriesOK
    <3>3. QED
      BY <3>1, <3>2
  <2>3. \A k \in Clients : cl'[k].s = cl[k].s /\ cl[k].s \notin B
    BY <1>2, <1>7
  <2>4. \A k \in Clients : cl'[k].pc = "fetch" => ~slot'[cl'[k].s].valid
    BY <2>3, <1>7, <1>9 DEF EntriesOK, ClientsOK, ClientOK, IOPhases
  <2>5. \A j, k \in Clients : cl'[j].s \in Slots /\ cl'[j].s = cl'[k].s
                              /\ ~slot'[cl'[j].s].valid => j = k
    BY <2>3, <1>9 DEF EntriesOK
  <2>6. QED
    BY <2>1, <2>2, <2>4, <2>5 DEF EntriesOK
<1>11. OperationsOK'
  BY DEF OperationsOK, StageSelect
<1>12. NamesStored'
  <2>1. \A s \in Slots : slot'[s].staged => slot'[s].name \in DOMAIN obj
    BY <1>2, <1>3, <1>9 DEF NamesStored
  <2>2. \A k \in Clients : \A s \in cl'[k].ack : slot'[s].name \in DOMAIN obj
    BY <1>2, <1>4, <1>7, <1>9 DEF NamesStored, ClientsOK, ClientOK, TypeOK, ClientType
  <2>3. QED
    BY <2>1, <2>2 DEF NamesStored, Stored, StageSelect
<1>13. QED
  BY <1>6, <1>8, <1>10, <1>11, <1>12

(* Nothing to stage: the call returns.                                     *)
LEMMA StageNothingStep ==
  ASSUME StoredInv, NEW c \in Clients, StageNothing(c)
  PROVE  StoredInv'
<1> USE DEF StoredInv, durable, bucket
<1>1. TypeOK'
  BY IdleClientType DEF StageNothing, Done, TypeOK
<1>2. ClientsOK'
  BY ConstantsAssumption
     DEF TypeOK, ClientsOK, ClientOK, StageNothing, Done, ClientType, IOPhases, IdleClient
<1>3. EntriesOK'
  BY ConstantsAssumption DEF TypeOK, ClientsOK, ClientOK, EntriesOK, StageNothing, Done,
                             ClientType, IdleClient
<1>4. OperationsOK'
  BY DEF OperationsOK, StageNothing
<1>5. NamesStored'
  BY DEF TypeOK, NamesStored, Stored, StageNothing, Done, ClientType, IdleClient
<1>6. QED
  BY <1>1, <1>2, <1>3, <1>4, <1>5

(* More objects never hurt.                                                *)
LEMMA NamesStoredGrows ==
  ASSUME NamesStored, DOMAIN obj \subseteq DOMAIN obj',
         UNCHANGED <<base, rman, poll, staged, slot, up>>,
         \A c \in Clients : \A s \in cl'[c].ack : slot[s].name \in DOMAIN obj'
  PROVE  NamesStored'
  BY DEF NamesStored, Stored

(* Acknowledged PUTs are stored.                                           *)
LEMMA StagePutStep ==
  ASSUME StoredInv, NEW c \in Clients, StagePut(c)
  PROVE  StoredInv'
<1> USE DEF StoredInv, durable, bucket
<1>0. PICK A \in SUBSET cl[c].batch : \E K \in SUBSET A :
        /\ PutObjects(A)
        /\ cl' = [cl EXCEPT ![c].pc = "persist", ![c].ack = K]
  BY DEF StagePut
<1>1. PICK K \in SUBSET A :
        /\ PutObjects(A)
        /\ cl' = [cl EXCEPT ![c].pc = "persist", ![c].ack = K]
  BY <1>0
<1>2. cl[c] \in ClientType /\ A \subseteq Slots /\ cl[c].pc = "put"
  BY DEF TypeOK, ClientType, StagePut
<1>3. \A s \in A : slot[s].name \in Name /\ data[s] \in Contents
  BY <1>2 DEF EntriesOK, TypeOK
<1>4. /\ DOMAIN obj' = DOMAIN obj \cup {slot[s].name : s \in A}
      /\ \A n \in DOMAIN obj' : obj'[n] \in Contents
  <2>1. DOMAIN obj' = DOMAIN obj \cup {slot[s].name : s \in A}
    BY <1>1 DEF PutObjects
  <2>2. ASSUME NEW n \in DOMAIN obj'
        PROVE  obj'[n] \in Contents
    <3>1. CASE \E s \in A : slot[s].name = n
      <4>1. (CHOOSE s \in A : slot[s].name = n) \in A
        BY <3>1
      <4>2. QED
        BY <1>1, <1>3, <2>2, <3>1, <4>1 DEF PutObjects
    <3>2. CASE ~ \E s \in A : slot[s].name = n
      BY <1>1, <2>1, <2>2, <3>2 DEF PutObjects, TypeOK
    <3>3. QED
      BY <3>1, <3>2
  <2>3. QED
    BY <2>1, <2>2
<1>5. TypeOK'
  <2>1. K \subseteq Slots
    BY <1>2
  <2>2. [cl[c] EXCEPT !.pc = "persist", !.ack = K] \in ClientType
    BY <1>2, <2>1 DEF ClientType, PCs
  <2>3. cl' \in [Clients -> ClientType]
    BY <1>1, <2>2 DEF TypeOK
  <2>4. DOMAIN obj' \subseteq Name
    BY <1>3, <1>4 DEF TypeOK
  <2>5. QED
    BY <1>4, <2>3, <2>4 DEF StagePut, TypeOK
<1>6. ClientsOK'
  BY <1>1, <1>2, ConstantsAssumption
     DEF TypeOK, ClientsOK, ClientOK, ClientType, IOPhases
<1>7. EntriesOK'
  BY <1>1, <1>2 DEF StagePut, TypeOK, EntriesOK, ClientType
<1>8. OperationsOK'
  BY DEF OperationsOK, StagePut
<1>9. NamesStored'
  <2>1. \A k \in Clients : \A s \in cl'[k].ack : slot[s].name \in DOMAIN obj'
    BY <1>1, <1>4 DEF NamesStored, TypeOK, ClientType
  <2>2. QED
    BY <2>1, <1>4, NamesStoredGrows DEF StagePut
<1>10. QED
  BY <1>5, <1>6, <1>7, <1>8, <1>9

(* Only acknowledged members get a staged row and become clean.            *)
LEMMA StagePersistStep ==
  ASSUME StoredInv, NEW c \in Clients, StagePersist(c)
  PROVE  StoredInv'
<1> USE DEF StoredInv, durable, bucket
<1> DEFINE new(s) == [slot[s] EXCEPT !.dirty = FALSE, !.staged = TRUE]
<1>0. PICK P \in SUBSET cl[c].ack : \E C \in SUBSET P :
        /\ staged' = StagedPut(StageRows(P))
        /\ seq' = IF P = {} THEN seq ELSE seq + 1
        /\ slot' = StageClean(C)
        /\ row' = [s \in Slots |-> IF s \in C THEN CleanRow(slot[s].name)
                                    ELSE row[s]]
        /\ cl' = [cl EXCEPT ![c] = AfterStage(cl[c], C = cl[c].batch)]
  BY DEF StagePersist
<1>1. PICK C \in SUBSET P :
        /\ staged' = StagedPut(StageRows(P))
        /\ seq' = IF P = {} THEN seq ELSE seq + 1
        /\ slot' = StageClean(C)
        /\ row' = [s \in Slots |-> IF s \in C THEN CleanRow(slot[s].name)
                                    ELSE row[s]]
        /\ cl' = [cl EXCEPT ![c] = AfterStage(cl[c], C = cl[c].batch)]
  BY <1>0
<1>2. /\ cl[c] \in ClientType /\ cl[c].pc = "persist"
      /\ P \subseteq cl[c].batch /\ P \subseteq Slots
  BY DEF TypeOK, ClientType, StagePersist, ClientsOK, ClientOK
<1>3. \A s \in P : /\ slot[s].name \in DOMAIN obj /\ slot[s].name \in Name
                   /\ slot[s].addr \in Addr /\ slot[s].valid
  BY <1>2 DEF EntriesOK, NamesStored
<1>4. PICK k \in ClientType :
        /\ cl' = [cl EXCEPT ![c] = k]
        /\ k.pc \in {"begin", "null", "idle"} /\ k.s = None
        /\ k.batch = {} /\ k.ack = {} /\ ~k.retry
        /\ k.pc = "idle" \/ k.pc = "null" => k.op = "read"
        /\ k.pc = "begin" => k.a \in Addr /\ (k.op = "write" => k.v \in Contents)
  <2>1. CASE cl[c].retry /\ C = cl[c].batch /\ cl[c].nst <= Cardinality(Slots)
    <3> DEFINE k1 == Call(cl[c].op, cl[c].a, cl[c].v)
               k == [k1 EXCEPT !.nst = cl[c].nst + 1, !.ok = cl[c].ok]
    <3>1. k1 \in ClientType
      BY <1>2, CallType DEF ClientsOK, ClientOK, ClientType
    <3>2. cl[c].nst + 1 \in Nat /\ cl[c].ok \in SUBSET (Contents \cup {None})
      BY <1>2 DEF ClientType
    <3>3. k \in ClientType
      BY <3>1, <3>2 DEF ClientType
    <3>4. /\ k1.pc = "begin" /\ k1.s = None /\ k1.batch = {} /\ k1.ack = {}
          /\ ~k1.retry /\ k1.a = cl[c].a /\ k1.op = cl[c].op /\ k1.v = cl[c].v
      BY DEF Call, IdleClient
    <3>5. /\ k.pc = k1.pc /\ k.s = k1.s /\ k.batch = k1.batch /\ k.ack = k1.ack
          /\ k.retry = k1.retry /\ k.a = k1.a /\ k.op = k1.op /\ k.v = k1.v
      BY DEF Call, IdleClient
    <3>6. cl' = [cl EXCEPT ![c] = k]
      BY <2>1, <1>1 DEF AfterStage
    <3>7. cl[c].a \in Addr /\ (cl[c].op = "write" => cl[c].v \in Contents)
      BY <2>1, <1>2 DEF ClientsOK, ClientOK
    <3>8. QED
      BY <3>3, <3>4, <3>5, <3>6, <3>7
  <2>2. CASE cl[c].retry /\ C = cl[c].batch /\ ~(cl[c].nst <= Cardinality(Slots))
    <3> DEFINE k == [IdleClient EXCEPT !.pc = "null"]
    <3>1. k \in ClientType /\ k.pc = "null" /\ k.s = None /\ k.batch = {}
          /\ k.ack = {} /\ ~k.retry /\ k.op = "read"
      BY IdleClientType DEF IdleClient, ClientType, PCs
    <3>2. cl' = [cl EXCEPT ![c] = k]
      BY <2>2, <1>1 DEF AfterStage
    <3>3. QED
      BY <3>1, <3>2
  <2>3. CASE ~(cl[c].retry /\ C = cl[c].batch)
    <3>1. cl' = [cl EXCEPT ![c] = IdleClient]
      BY <2>3, <1>1 DEF AfterStage
    <3>2. QED
      BY <3>1, IdleClientType DEF IdleClient
  <2>4. QED
    BY <2>1, <2>2, <2>3
<1>5. \A s \in C : /\ new(s) \in EntryType
                   /\ new(s).name = slot[s].name /\ new(s).addr = slot[s].addr
                   /\ new(s).valid = slot[s].valid
                   /\ new(s).dirty = FALSE /\ new(s).staged = TRUE
  <2> SUFFICES ASSUME NEW s \in C
               PROVE  /\ new(s) \in EntryType
                      /\ new(s).name = slot[s].name /\ new(s).addr = slot[s].addr
                      /\ new(s).valid = slot[s].valid
                      /\ new(s).dirty = FALSE /\ new(s).staged = TRUE
    OBVIOUS
  <2>1. slot[s] \in EntryType
    BY <1>2 DEF TypeOK
  <2>2. QED
    BY <2>1 DEF EntryType
<1>6. slot' = [s \in Slots |-> IF s \in C THEN new(s) ELSE slot[s]]
  BY <1>1 DEF StageClean
<1>7. StageRows(P) \subseteq StagedRow
  BY <1>2, <1>3 DEF StageRows, StagedRow, TypeOK
<1>8. \A r \in staged' : r \in staged \/ r \in StageRows(P)
  BY <1>1 DEF StagedPut
<1>9. \A r \in StageRows(P) : r.name \in DOMAIN obj /\ r.seq = seq + 1
  BY <1>3 DEF StageRows
<1>10. TypeOK'
  <2>1. slot' \in [Slots -> EntryType]
    BY <1>5, <1>6 DEF TypeOK
  <2>2. row' \in [Slots -> RowType]
    BY <1>1, <1>3, RowTypes DEF TypeOK, RowType
  <2>3. cl' \in [Clients -> ClientType]
    BY <1>4 DEF TypeOK
  <2>4. staged' \in SUBSET StagedRow
    BY <1>7, <1>8 DEF TypeOK
  <2>5. seq' \in Nat
    BY <1>1 DEF TypeOK
  <2>6. eState' \in {"none", "stage", "upload", "poll"}
    BY DEF StagePersist, TypeOK
  <2>7. QED
    BY <2>1, <2>2, <2>3, <2>4, <2>5, <2>6 DEF StagePersist, TypeOK, RowType
<1>11. ClientsOK'
  BY <1>4, ConstantsAssumption DEF TypeOK, ClientsOK, ClientOK, ClientType, IOPhases
<1>12. \A s \in Slots : /\ slot'[s].name = slot[s].name
                        /\ slot'[s].addr = slot[s].addr
                        /\ slot'[s].valid = slot[s].valid
                        /\ slot'[s].dirty => slot'[s] = slot[s]
                        /\ slot'[s].staged => slot'[s] = slot[s] \/ s \in C
  BY <1>5, <1>6
<1>13. EntriesOK'
  <2>1. /\ \A j \in Clients \ {c} : cl'[j] = cl[j]
        /\ cl'[c] = k
    BY <1>4 DEF TypeOK
  <2>2. \A s \in Slots : slot'[s].dirty => /\ slot'[s].addr \in Addr
                                           /\ slot'[s].name \in Name
                                           /\ ~slot'[s].staged
    BY <1>12 DEF EntriesOK
  <2>3. \A j \in Clients : \A s \in cl'[j].batch :
          slot'[s].valid /\ slot'[s].addr \in Addr /\ slot'[s].name \in Name
    BY <1>4, <1>12, <2>1 DEF EntriesOK, TypeOK, ClientType
  <2>4. \A j \in Clients : cl'[j].s \in Slots => j # c /\ cl'[j] = cl[j]
    BY <1>4, <2>1, ConstantsAssumption
  <2>5. \A j \in Clients : cl'[j].pc = "fetch" => ~slot'[cl'[j].s].valid
    BY <1>4, <1>12, <2>1 DEF EntriesOK, ClientsOK, ClientOK, IOPhases
  <2>6. \A i, j \in Clients : cl'[i].s \in Slots /\ cl'[i].s = cl'[j].s
                              /\ ~slot'[cl'[i].s].valid => i = j
    BY <1>12, <2>4 DEF EntriesOK
  <2>7. QED
    BY <2>2, <2>3, <2>5, <2>6 DEF EntriesOK
<1>14. OperationsOK'
  <2>1. \A r \in staged' : r.seq <= seq'
    <3>1. CASE P = {}
      BY <3>1, <1>1, <1>8 DEF OperationsOK, StageRows
    <3>2. CASE P # {}
      BY <3>2, <1>1, <1>7, <1>8, <1>9 DEF OperationsOK, TypeOK, StagedRow
    <3>3. QED
      BY <3>1, <3>2
  <2>2. QED
    BY <2>1 DEF OperationsOK, StagePersist
<1>15. NamesStored'
  <2>1. \A s \in Slots : slot'[s].staged => slot'[s].name \in DOMAIN obj
    BY <1>3, <1>12 DEF NamesStored
  <2>2. \A j \in Clients : \A s \in cl'[j].ack : slot'[s].name \in DOMAIN obj
    BY <1>4, <1>12 DEF NamesStored, TypeOK, ClientType
  <2>3. QED
    BY <2>1, <2>2, <1>8, <1>9 DEF NamesStored, Stored, StagePersist
<1>16. QED
  BY <1>10, <1>11, <1>13, <1>14, <1>15

-----------------------------------------------------------------------------
(* Upload.                                                                 *)

(* A nonempty set of numbers below a bound has a largest element.          *)
LEMMA BoundedHasMax ==
  ASSUME NEW S \in SUBSET Nat, S # {}, NEW b \in Nat, \A k \in S : k <= b
  PROVE  \E m \in S : \A k \in S : k <= m
<1> DEFINE R == OpToRel(<, Nat)
           D == {b - k : k \in S}
<1>1. D \subseteq Nat /\ D # {}
  <2>1. \A k \in S : k \in Nat /\ k <= b
    OBVIOUS
  <2>2. \A k \in S : b - k \in Nat
    BY <2>1
  <2>3. QED
    BY <2>2
<1>2. IsWellFoundedOn(R, Nat)
  BY NatLessThanWellFounded, Zenon
<1>3. PICK x \in D : \A y \in D : ~(<<y, x>> \in R)
  BY <1>1, <1>2, WFMin, Zenon
<1>4. \A y \in D : ~(y < x)
  BY <1>1, <1>3 DEF OpToRel
<1>5. PICK m \in S : x = b - m
  OBVIOUS
<1>6. \A k \in S : k <= m
  <2> SUFFICES ASSUME NEW k \in S
               PROVE  k <= m
    OBVIOUS
  <2>1. b - k \in D
    OBVIOUS
  <2>2. ~(b - k < b - m)
    BY <2>1, <1>4, <1>5
  <2>3. QED
    BY <2>2
<1>7. QED
  BY <1>6

(* BCVFS_STAGED_MAX yields a number: rows are bounded by the sequence.     *)
LEMMA StagedMaxType ==
  ASSUME StoredInv
  PROVE  StagedMax \in Nat
<1>1. CASE staged = {}
  BY <1>1 DEF StagedMax
<1>2. CASE staged # {}
  <2>1. StagedSeqs \in SUBSET Nat /\ StagedSeqs # {} /\ seq \in Nat
    BY <1>2 DEF StagedSeqs, StoredInv, TypeOK, StagedRow
  <2>2. \A k \in StagedSeqs : k <= seq
    BY DEF StagedSeqs, StoredInv, OperationsOK
  <2>3. \E m \in StagedSeqs : \A k \in StagedSeqs : k <= m
    BY <2>1, <2>2, BoundedHasMax
  <2>4. (CHOOSE m \in StagedSeqs : \A k \in StagedSeqs : k <= m) \in StagedSeqs
    BY <2>3
  <2>5. QED
    BY <1>2, <2>1, <2>4 DEF StagedMax
<1>3. QED
  BY <1>1, <1>2

(* The uploader's state after an upload is well typed.                     *)
LEMMA IdleUploadType ==
    ASSUME TypeOK
    PROVE  [IdleUpload EXCEPT !.att = up.att] \in UploadType
<1>1. up.att \in Nat
  BY DEF TypeOK, UploadType
<1>2. IdleUpload \in UploadType
  BY DEF IdleUpload, UploadType, Blocks
<1>3. QED
  BY <1>1, <1>2 DEF UploadType

(* Entering UPLOAD.                                                        *)
LEMMA UploadBeginStep ==
  ASSUME StoredInv, NEW D \in SUBSET Dbs, UploadBegin(D)
  PROVE  StoredInv'
<1> USE DEF StoredInv, durable, bucket
<1>1. up \in UploadType
  BY DEF TypeOK
<1>2. [up EXCEPT !.pc = "ckpt", !.dbs = D, !.att = up.att + 1] \in UploadType
  <2>1. up.att + 1 \in Nat
    BY <1>1 DEF UploadType
  <2>2. QED
    BY <1>1, <2>1 DEF UploadType
<1>3. TypeOK'
  BY <1>2 DEF UploadBegin, TypeOK
<1>4. ClientsOK' /\ EntriesOK'
  BY DEF UploadBegin, ClientsOK, ClientOK, EntriesOK
<1>5. /\ up'.pc = "ckpt" /\ up'.todo = up.todo /\ up'.blk = up.blk
      /\ up'.recs = up.recs /\ up.pc = "idle"
  BY <1>1 DEF UploadBegin, UploadType
<1>6. OperationsOK'
  BY <1>5 DEF UploadBegin, OperationsOK
<1>7. NamesStored'
  BY <1>5 DEF UploadBegin, NamesStored, Stored
<1>8. QED
  BY <1>3, <1>4, <1>6, <1>7

(* The duplicate: a block outside todo is the installed one.               *)
LEMMA UploadSnapshotStep ==
  ASSUME StoredInv, UploadSnapshot
  PROVE  StoredInv'
<1> USE DEF StoredInv, durable, bucket
<1>0. up \in UploadType /\ local \in Blocks /\ base \in Manifest
  BY DEF TypeOK
<1>1. Unpublished(up.dbs) \subseteq Addr
  BY <1>0 DEF Unpublished, Addr, UploadType
<1>2. up' \in UploadType
  BY <1>0, <1>1 DEF UploadSnapshot, UploadType, Manifest
<1>3. TypeOK'
  BY <1>2 DEF UploadSnapshot, TypeOK
<1>4. ClientsOK' /\ EntriesOK'
  BY DEF UploadSnapshot, ClientsOK, ClientOK, EntriesOK
<1>5. /\ up'.pc = "blocks" /\ up'.todo = Unpublished(up.dbs) /\ up'.blk = local
      /\ up'.recs = up.recs /\ up'.dbs = up.dbs
  BY <1>0 DEF UploadSnapshot, UploadType
<1>6. OperationsOK'
  BY <1>5 DEF UploadSnapshot, OperationsOK, Unpublished
<1>7. NamesStored'
  <2>1. \A a \in Addr \ up'.todo : a[1] \in up'.dbs => Stored(up'.blk[a])
    BY <1>5 DEF Unpublished, Addr, NamesStored, Stored
  <2>2. \A r \in up'.recs : r.new \in DOMAIN obj
    BY <1>5 DEF UploadSnapshot, OperationsOK
  <2>3. QED
    BY <1>5, <2>1, <2>2 DEF UploadSnapshot, NamesStored, Stored
<1>8. QED
  BY <1>3, <1>4, <1>6, <1>7

(* bcvfsUploadDeleteBlockIf adds names with a timestamp.                   *)
LEMMA DeleteListType ==
  ASSUME TypeOK, NEW a \in Addr
  PROVE  DeleteBlockIf(a) \in SUBSET (Name \X Nat)
  BY DEF TypeOK, DeleteBlockIf, UploadType, Manifest, Blocks

(* A staged block is published under the name it is stored under.          *)
LEMMA UploadStagedStep ==
  ASSUME StoredInv, NEW a \in Addr, UploadStaged(a)
  PROVE  StoredInv'
<1> USE DEF StoredInv, durable, bucket
<1>1. up \in UploadType
  BY DEF TypeOK
<1>2. up' = [up EXCEPT !.todo = up.todo \ {a}, !.del = DeleteBlockIf(a)]
  BY DEF UploadStaged
<1>3. /\ up'.pc = "blocks" /\ up'.todo = up.todo \ {a} /\ up'.blk = up.blk
      /\ up'.recs = up.recs /\ up'.dbs = up.dbs
  BY <1>1, <1>2 DEF UploadStaged, UploadType
<1>4. TypeOK'
  <2>1. up' \in UploadType
    BY <1>1, <1>2, DeleteListType DEF UploadType
  <2>2. QED
    BY <2>1 DEF UploadStaged, TypeOK
<1>5. ClientsOK' /\ EntriesOK'
  BY DEF UploadStaged, ClientsOK, ClientOK, EntriesOK
<1>6. OperationsOK'
  BY <1>3 DEF UploadStaged, OperationsOK
<1>7. up.blk[a] \in DOMAIN obj
  BY DEF UploadStaged, Named, StagedFind, NamesStored
<1>8. NamesStored'
  <2>1. up.pc = "blocks"
    BY DEF UploadStaged
  <2>2. \A b \in Addr \ up'.todo : b[1] \in up'.dbs => Stored(up'.blk[b])
    BY <1>3, <1>7, <2>1 DEF NamesStored, Stored
  <2>3. QED
    BY <1>3, <2>1, <2>2 DEF UploadStaged, NamesStored, Stored
<1>9. QED
  BY <1>4, <1>5, <1>6, <1>8

(* A dirty block is PUT, or shares an object of another database, before   *)
(* the uploader goes on.                                                   *)
LEMMA UploadDirtyStep ==
  ASSUME StoredInv, NEW a \in Addr, UploadDirty(a)
  PROVE  StoredInv'
<1> USE DEF StoredInv, durable, bucket
<1> DEFINE next(s, n) == [up EXCEPT !.blk[a] = n, !.todo = up.todo \ {a},
                             !.del = DeleteBlockIf(a),
                             !.recs = up.recs \cup {[s |-> s, old |-> up.blk[a],
                                                     new |-> n]}]
           stored(s, n) == [m \in DOMAIN obj \cup {n} |->
                              IF m = n THEN data[s] ELSE obj[m]]
<1>1. PICK s \in Slots, n \in Name :
        \/ n \in DOMAIN obj /\ up' = next(s, n) /\ UNCHANGED obj
        \/ up' = next(s, n) /\ obj' = stored(s, n)
        \/ up' = [next(s, n) EXCEPT !.pc = "fail"] /\ obj' \in {obj, stored(s, n)}
  <2>1. PICK s \in Named(up.blk[a]) :
          LET same == SameBytes(a[1], data[s])
              new == IF same # {} THEN CHOOSE n \in same : TRUE
                     ELSE Renamed(up.blk[a], data[s])
          IN  \/ same # {} /\ up' = next(s, new) /\ UNCHANGED obj
              \/ same = {} /\ up' = next(s, new) /\ obj' = stored(s, new)
              \/ same = {} /\ up' = [next(s, new) EXCEPT !.pc = "fail"]
                           /\ obj' \in {obj, stored(s, new)}
    BY DEF UploadDirty
  <2>2. s \in Slots /\ up.blk[a] \in Name /\ data[s] \in Contents
    <3>1. s \in Slots /\ up.blk[a] # None
      BY <2>1 DEF Named
    <3>2. up.blk[a] \in Name \cup {None} /\ data[s] \in Contents
      BY <3>1 DEF TypeOK, UploadType, Blocks
    <3>3. QED
      BY <3>1, <3>2
  <2> DEFINE same == SameBytes(a[1], data[s])
             new == IF same # {} THEN CHOOSE n \in same : TRUE
                    ELSE Renamed(up.blk[a], data[s])
  <2>3. OtherBlocks(a[1]) \subseteq Name /\ OtherBlocks(a[1]) \subseteq DOMAIN obj
    BY DEF OtherBlocks, NamesStored, Stored, TypeOK, Manifest, Blocks
  <2>4. CASE same # {}
    <3>1. new \in same
      BY <2>4
    <3>2. new \in Name /\ new \in DOMAIN obj
      BY <2>3, <3>1 DEF SameBytes
    <3>3. up' = next(s, new) /\ UNCHANGED obj
      BY <2>1, <2>4
    <3>4. QED
      BY <2>2, <3>2, <3>3
  <2>5. CASE same = {}
    <3>1. new \in Name
      BY <2>2, <2>5, RenamedName
    <3>2. \/ up' = next(s, new) /\ obj' = stored(s, new)
          \/ up' = [next(s, new) EXCEPT !.pc = "fail"]
             /\ obj' \in {obj, stored(s, new)}
      BY <2>1, <2>5
    <3>3. QED
      BY <2>2, <3>1, <3>2
  <2>6. QED
    BY <2>4, <2>5
<1>2. /\ up \in UploadType /\ up.pc = "blocks" /\ a \in up.todo
      /\ up.blk[a] \in Name /\ data[s] \in Contents
  <2>1. up \in UploadType /\ up.pc = "blocks" /\ a \in up.todo /\ data[s] \in Contents
    BY DEF TypeOK, UploadDirty
  <2>2. up.blk[a] # None
    BY <2>1 DEF OperationsOK
  <2>3. QED
    BY <2>1, <2>2 DEF UploadType, Blocks
<1>3. /\ next(s, n) \in UploadType
      /\ next(s, n).pc = "blocks" /\ next(s, n).dbs = up.dbs
      /\ next(s, n).todo = up.todo \ {a} /\ next(s, n).blk = [up.blk EXCEPT ![a] = n]
      /\ next(s, n).recs = up.recs \cup {[s |-> s, old |-> up.blk[a], new |-> n]}
  <2>1. [up.blk EXCEPT ![a] = n] \in Blocks
    BY <1>2 DEF UploadType, Blocks
  <2>2. up.recs \cup {[s |-> s, old |-> up.blk[a], new |-> n]}
          \in SUBSET [s : Slots, old : Name, new : Name]
    BY <1>2 DEF UploadType
  <2>3. QED
    BY <1>2, <2>1, <2>2, DeleteListType DEF UploadType
<1>4. /\ up' \in UploadType /\ up'.pc \in {"blocks", "fail"} /\ up'.dbs = up.dbs
      /\ up'.todo = up.todo \ {a} /\ up'.blk = [up.blk EXCEPT ![a] = n]
      /\ up'.recs = up.recs \cup {[s |-> s, old |-> up.blk[a], new |-> n]}
  <2>1. CASE up' = next(s, n)
    BY <2>1, <1>3
  <2>2. CASE up' = [next(s, n) EXCEPT !.pc = "fail"]
    BY <2>2, <1>3 DEF UploadType
  <2>3. QED
    BY <2>1, <2>2, <1>1
<1>5. /\ DOMAIN obj \subseteq DOMAIN obj' /\ DOMAIN obj' \subseteq Name
      /\ \A m \in DOMAIN obj' : obj'[m] \in Contents
      /\ up'.pc = "blocks" => n \in DOMAIN obj'
  <2>1. obj' = obj \/ obj' = stored(s, n)
    BY <1>1
  <2>2. up'.pc = "blocks" => n \in DOMAIN obj \/ obj' = stored(s, n)
    <3>1. CASE up' = [next(s, n) EXCEPT !.pc = "fail"]
      BY <3>1, <1>3 DEF UploadType
    <3>2. CASE up' # [next(s, n) EXCEPT !.pc = "fail"]
      BY <3>2, <1>1
    <3>3. QED
      BY <3>1, <3>2
  <2>3. QED
    BY <1>2, <2>1, <2>2 DEF TypeOK
<1>6. TypeOK'
  BY <1>4, <1>5 DEF UploadDirty, TypeOK
<1>7. ClientsOK' /\ EntriesOK'
  BY DEF UploadDirty, ClientsOK, ClientOK, EntriesOK
<1>8. OperationsOK'
  <2>1. \A b \in up'.todo : up'.blk[b] # None
    BY <1>2, <1>4 DEF OperationsOK, UploadType, Blocks
  <2>2. QED
    BY <1>4, <2>1 DEF UploadDirty, OperationsOK
<1>9. NamesStored'
  <2>1. CASE up'.pc = "fail"
    BY <2>1, <1>5 DEF UploadDirty, NamesStored, Stored
  <2>2. CASE up'.pc = "blocks"
    <3>1. \A r \in up'.recs : r.new \in DOMAIN obj'
      BY <2>2, <1>2, <1>4, <1>5 DEF NamesStored
    <3>2. \A b \in Addr \ up'.todo : b[1] \in up'.dbs =>
            up'.blk[b] = None \/ up'.blk[b] \in DOMAIN obj'
      <4> SUFFICES ASSUME NEW b \in Addr \ up'.todo, b[1] \in up'.dbs
                   PROVE  up'.blk[b] = None \/ up'.blk[b] \in DOMAIN obj'
        OBVIOUS
      <4>1. CASE b = a
        BY <4>1, <2>2, <1>2, <1>4, <1>5 DEF UploadType, Blocks
      <4>2. CASE b # a
        <5>1. b \in Addr \ up.todo /\ b[1] \in up.dbs /\ up'.blk[b] = up.blk[b]
          BY <4>2, <1>2, <1>4 DEF UploadType, Blocks
        <5>2. QED
          BY <5>1, <1>2, <1>5 DEF NamesStored, Stored
      <4>3. QED
        BY <4>1, <4>2
    <3>3. QED
      BY <3>1, <3>2, <1>5 DEF UploadDirty, NamesStored, Stored
  <2>3. QED
    BY <2>1, <2>2, <1>4
<1>10. QED
  BY <1>6, <1>7, <1>8, <1>9

(* SQLITE_CORRUPT, or a failure, only ends the upload.                     *)
LEMMA UploadMissingStep ==
  ASSUME StoredInv, NEW a \in Addr, UploadMissing(a)
  PROVE  StoredInv'
<1> USE DEF StoredInv, durable, bucket
<1>1. up \in UploadType
  BY DEF TypeOK
<1>2. /\ up' \in UploadType
      /\ up'.pc = "corrupt" /\ up'.todo = up.todo /\ up'.blk = up.blk
  BY <1>1 DEF UploadMissing, UploadType
<1>3. TypeOK'
  BY <1>2 DEF UploadMissing, TypeOK
<1>4. ClientsOK' /\ EntriesOK'
  BY DEF UploadMissing, ClientsOK, ClientOK, EntriesOK
<1>5. OperationsOK'
  BY <1>2 DEF UploadMissing, OperationsOK
<1>6. NamesStored'
  BY <1>2 DEF UploadMissing, NamesStored, Stored
<1>7. QED
  BY <1>3, <1>4, <1>5, <1>6

(* The manifest to publish names stored blocks only.                       *)
LEMMA NewBlkStored ==
  ASSUME StoredInv, up.pc \in {"manifest", "install"}
  PROVE  /\ NewBlk \in Blocks
         /\ \A a \in Addr : Stored(NewBlk[a])
<1> USE DEF StoredInv
<1>1. up.blk \in Blocks /\ base.blk \in Blocks
  BY DEF TypeOK, UploadType, Manifest
<1>2. NewBlk \in Blocks
  BY <1>1 DEF NewBlk, Blocks
<1>3. \A a \in Addr : a[1] \in up.dbs => Stored(up.blk[a])
  BY DEF OperationsOK, NamesStored
<1>4. QED
  BY <1>2, <1>3 DEF NewBlk, NamesStored

(* The pending marker is written once nothing is left to upload.           *)
LEMMA UploadPendingStep ==
  ASSUME StoredInv, UploadPending
  PROVE  StoredInv'
<1> USE DEF StoredInv, durable, bucket
<1> DEFINE del == up.del \cup StagedGc
<1>1. up \in UploadType /\ up.todo = {} /\ up.pc = "blocks" /\ StagedMax \in Nat
  BY StagedMaxType DEF TypeOK, UploadPending
<1>2. StagedGc \in SUBSET (Name \X Nat)
  <2>1. \A r \in staged \cup gc : r.name \in Name
    BY DEF TypeOK, StagedRow
  <2>2. up.att \in Nat
    BY <1>1 DEF UploadType
  <2>3. QED
    BY <2>1, <2>2 DEF StagedGc
<1>3. del \in SUBSET (Name \X Nat)
  BY <1>1, <1>2 DEF UploadType
<1>4. NewBlk \in Blocks
  BY <1>1 DEF NewBlk, TypeOK, UploadType, Manifest, Blocks
<1>5. up' = [up EXCEPT !.pc = "manifest", !.del = del, !.max = StagedMax]
  BY DEF UploadPending
<1>6. /\ up' \in UploadType /\ up'.pc = "manifest" /\ up'.todo = {}
      /\ up'.blk = up.blk /\ up'.recs = up.recs /\ up'.dbs = up.dbs
  BY <1>1, <1>3, <1>5 DEF UploadType
<1>7. TypeOK'
  <2>1. pending' \in PendingRow
    BY <1>1, <1>3, <1>4 DEF UploadPending, PendingRow
  <2>2. QED
    BY <1>6, <2>1 DEF UploadPending, TypeOK
<1>8. ClientsOK' /\ EntriesOK'
  BY DEF UploadPending, ClientsOK, ClientOK, EntriesOK
<1>9. OperationsOK'
  BY <1>6 DEF UploadPending, OperationsOK
<1>10. NamesStored'
  <2>1. \A a \in Addr \ up'.todo : a[1] \in up'.dbs => Stored(up'.blk[a])
    BY <1>1, <1>6 DEF NamesStored
  <2>2. \A r \in up'.recs : r.new \in DOMAIN obj
    BY <1>1, <1>6 DEF NamesStored
  <2>3. QED
    BY <2>1, <2>2 DEF UploadPending, NamesStored, Stored
<1>11. QED
  BY <1>7, <1>8, <1>9, <1>10

(* The publication: every block the new manifest names is stored.          *)
LEMMA UploadManifestStep ==
  ASSUME StoredInv, UploadManifest
  PROVE  StoredInv'
<1> USE DEF StoredInv, durable, bucket
<1>1. up \in UploadType /\ up.pc = "manifest" /\ rman \in Manifest
  BY DEF TypeOK, UploadManifest
<1>2. up' = [up EXCEPT !.pc = "install"] \/ up' = [up EXCEPT !.pc = "fail"]
  BY DEF UploadManifest
<1>3. /\ up' \in UploadType /\ up'.pc \in {"install", "fail"} /\ up'.todo = up.todo
      /\ up'.blk = up.blk /\ up'.recs = up.recs /\ up'.dbs = up.dbs
  <2>1. CASE up' = [up EXCEPT !.pc = "install"]
    BY <2>1, <1>1 DEF UploadType
  <2>2. CASE up' = [up EXCEPT !.pc = "fail"]
    BY <2>2, <1>1 DEF UploadType
  <2>3. QED
    BY <2>1, <2>2, <1>2
<1>4. rman' \in Manifest /\ \A a \in Addr : Stored(rman'.blk[a])
  <2>1. CASE rman' = NewManifest
    <3>1. NewManifest \in Manifest
      BY <1>1, NewBlkStored DEF NewManifest, Manifest, UploadType
    <3>2. QED
      BY <2>1, <3>1, <1>1, NewBlkStored DEF NewManifest
  <2>2. CASE UNCHANGED rman
    BY <2>2, <1>1 DEF NamesStored
  <2>3. QED
    BY <2>1, <2>2 DEF UploadManifest
<1>5. TypeOK'
  BY <1>3, <1>4 DEF UploadManifest, TypeOK
<1>6. ClientsOK' /\ EntriesOK'
  BY DEF UploadManifest, ClientsOK, ClientOK, EntriesOK
<1>7. OperationsOK'
  BY <1>1, <1>3 DEF UploadManifest, OperationsOK
<1>8. NamesStored'
  <2>1. \A a \in Addr \ up'.todo : a[1] \in up'.dbs => Stored(up'.blk[a])
    BY <1>1, <1>3 DEF NamesStored
  <2>2. \A r \in up'.recs : r.new \in DOMAIN obj
    BY <1>1, <1>3 DEF NamesStored
  <2>3. QED
    BY <1>4, <2>1, <2>2 DEF UploadManifest, NamesStored, Stored
<1>9. QED
  BY <1>5, <1>6, <1>7, <1>8

(* The entries renamed by an install come from upload records.             *)
LEMMA RecordedRows ==
  ASSUME StoredInv, NEW s \in Slots, Recorded(s) # {}
  PROVE  /\ PublishedName(s) \in Name
         /\ up.pc = "install" => PublishedName(s) \in DOMAIN obj
         /\ slot[s].dirty
<1>1. PICK r \in Recorded(s) : PublishedName(s) = r.new
  BY DEF PublishedName
<1>2. r \in up.recs /\ slot[s].dirty
  BY DEF Recorded
<1>3. r.new \in Name
  BY <1>2 DEF StoredInv, TypeOK, UploadType
<1>4. QED
  BY <1>1, <1>2, <1>3 DEF StoredInv, NamesStored

(* Their block rows are well typed, whichever of them are written.         *)
LEMMA PublishedRows ==
  ASSUME StoredInv, NEW S \in SUBSET RecordedSlots
  PROVE  Published(S) \in [Slots -> RowType]
<1>1. \A s \in S : s \in Slots /\ PublishedName(s) \in Name
  BY RecordedRows DEF RecordedSlots
<1>2. QED
  BY <1>1, RowTypes DEF Published, StoredInv, TypeOK, RowType

(* The installed manifest names stored blocks, and so do the entries it    *)
(* renames.                                                                *)
LEMMA InstalledManifest ==
  ASSUME StoredInv, up.pc = "install"
  PROVE  LET m == [NewManifest EXCEPT !.ver = base.ver + 1]
         IN  m \in Manifest /\ \A a \in Addr : Stored(m.blk[a])
<1>1. /\ NewBlk \in Blocks /\ (\A a \in Addr : Stored(NewBlk[a]))
      /\ up.del \in SUBSET (Name \X Nat) /\ base.ver + 1 \in Nat /\ rman.ver + 1 \in Nat
  BY NewBlkStored DEF StoredInv, TypeOK, UploadType, Manifest
<1>2. QED
  BY <1>1 DEF NewManifest, Manifest

(* Entries may be renamed to stored names, and cleaned or left dirty.      *)
LEMMA EntriesCleaned ==
  ASSUME StoredInv, UNCHANGED <<cl, obj>>,
         slot' \in [Slots -> EntryType],
         \A s \in Slots :
            \/ slot'[s] = slot[s]
            \/ /\ slot'[s].valid = slot[s].valid /\ slot'[s].addr = slot[s].addr
               /\ slot'[s].dirty => slot[s].dirty /\ ~slot'[s].staged
               /\ slot'[s].name = slot[s].name \/ slot'[s].name \in DOMAIN obj
               /\ slot'[s].staged => slot[s].staged
  PROVE  /\ EntriesOK'
         /\ \A s \in Slots : slot'[s].staged => slot'[s].name \in DOMAIN obj
         /\ \A c \in Clients : \A s \in cl'[c].ack : slot'[s].name \in DOMAIN obj
<1> USE DEF StoredInv
<1>1. \A s \in Slots : /\ slot'[s].valid = slot[s].valid
                       /\ slot'[s].addr = slot[s].addr
                       /\ slot'[s].name = slot[s].name \/ slot'[s].name \in DOMAIN obj
                       /\ slot'[s].dirty => slot[s].dirty
                       /\ slot'[s].staged => slot[s].staged
  OBVIOUS
<1>2. DOMAIN obj \subseteq Name
  BY DEF TypeOK
<1>3. \A s \in Slots : slot'[s].dirty => /\ slot'[s].addr \in Addr
                                         /\ slot'[s].name \in Name
                                         /\ ~slot'[s].staged
  BY <1>1, <1>2 DEF EntriesOK
<1>4. \A c \in Clients : \A s \in cl'[c].batch :
        slot'[s].valid /\ slot'[s].addr \in Addr /\ slot'[s].name \in Name
  BY <1>1, <1>2 DEF EntriesOK, TypeOK, ClientType
<1>5. \A c \in Clients : cl'[c].pc = "fetch" => ~slot'[cl'[c].s].valid
  BY <1>1 DEF EntriesOK, ClientsOK, ClientOK, IOPhases
<1>6. \A c, k \in Clients : cl'[c].s \in Slots /\ cl'[c].s = cl'[k].s
                            /\ ~slot'[cl'[c].s].valid => c = k
  BY <1>1 DEF EntriesOK
<1>7. EntriesOK'
  BY <1>3, <1>4, <1>5, <1>6 DEF EntriesOK
<1>8. \A c \in Clients : \A s \in cl'[c].ack : slot'[s].name \in DOMAIN obj
  BY <1>1 DEF NamesStored, TypeOK, ClientType
<1>9. QED
  BY <1>1, <1>7, <1>8 DEF NamesStored

(* Installing the published manifest: all it names is stored, and the      *)
(* renamed entries carry the names their records were stored under.        *)
LEMMA UploadInstallStep ==
  ASSUME StoredInv, UploadInstall
  PROVE  StoredInv'
<1> USE DEF StoredInv, durable, bucket
<1>0. PICK p \in RenameOutcomes :
        /\ slot' = [s \in Slots |->
                       IF s \in p[1] \cup p[2]
                       THEN [slot[s] EXCEPT !.dirty = s \in p[2],
                                            !.name = PublishedName(s)]
                       ELSE slot[s]]
        /\ row' = Published(p[1])
  BY DEF UploadInstall
<1> DEFINE new(s) == [slot[s] EXCEPT !.dirty = s \in p[2], !.name = PublishedName(s)]
<1>00. p[1] \in SUBSET RecordedSlots /\ p[2] \in SUBSET RecordedSlots
  BY DEF RenameOutcomes
<1>1. base' \in Manifest /\ \A a \in Addr : Stored(base'.blk[a])
  BY InstalledManifest DEF UploadInstall
<1>2. /\ up' \in UploadType /\ up'.pc = "idle" /\ up'.todo = {} /\ up'.recs = {}
  BY IdleUploadType DEF UploadInstall, EndUpload, IdleUpload
<1>3. slot' = [s \in Slots |-> IF s \in p[1] \cup p[2] THEN new(s) ELSE slot[s]]
  BY <1>0
<1>4. ASSUME NEW s \in Slots, s \in p[1] \cup p[2]
      PROVE  /\ new(s) \in EntryType
             /\ new(s).valid = slot[s].valid /\ new(s).addr = slot[s].addr
             /\ slot[s].dirty /\ ~slot[s].staged /\ new(s).staged = slot[s].staged
             /\ new(s).name \in DOMAIN obj
  <2>1. slot[s] \in EntryType
    BY DEF TypeOK
  <2>2. PublishedName(s) \in Name /\ PublishedName(s) \in DOMAIN obj /\ slot[s].dirty
    BY <1>4, <1>00, RecordedRows DEF UploadInstall, RecordedSlots
  <2>3. ~slot[s].staged
    BY <2>2 DEF EntriesOK
  <2>4. new(s).name = PublishedName(s) /\ new(s).dirty = (s \in p[2])
    BY <2>1 DEF EntryType
  <2>5. (s \in p[2]) \in BOOLEAN
    OBVIOUS
  <2>6. new(s) \in EntryType
    BY <2>1, <2>2, <2>5 DEF EntryType
  <2>7. QED
    BY <2>1, <2>2, <2>3, <2>4, <2>6 DEF EntryType
<1>5. slot' \in [Slots -> EntryType]
  BY <1>3, <1>4 DEF TypeOK
<1>6. /\ staged' \in SUBSET staged /\ gc' \in SUBSET gc
      /\ pending' = pending \/ pending' = None
  BY DEF UploadInstall, Retire, StagedAfter
<1>7. TypeOK'
  <2>1. local' \in Blocks /\ alloc' \in SUBSET Dbs
    BY DEF UploadInstall, TypeOK, UploadType, Blocks
  <2>2. row' \in [Slots -> RowType]
    BY <1>0, <1>00, PublishedRows
  <2>3. QED
    BY <1>1, <1>2, <1>5, <1>6, <2>1, <2>2 DEF UploadInstall, TypeOK, RowType
<1>8. ClientsOK'
  BY DEF UploadInstall, ClientsOK, ClientOK
<1>9. /\ EntriesOK'
      /\ \A s \in Slots : slot'[s].staged => slot'[s].name \in DOMAIN obj
      /\ \A c \in Clients : \A s \in cl'[c].ack : slot'[s].name \in DOMAIN obj
  <2>1. \A s \in Slots :
            \/ slot'[s] = slot[s]
            \/ /\ slot'[s].valid = slot[s].valid /\ slot'[s].addr = slot[s].addr
               /\ slot'[s].dirty => slot[s].dirty /\ ~slot'[s].staged
               /\ slot'[s].name = slot[s].name \/ slot'[s].name \in DOMAIN obj
               /\ slot'[s].staged => slot[s].staged
    BY <1>3, <1>4
  <2>2. UNCHANGED <<cl, obj>>
    BY DEF UploadInstall
  <2>3. QED
    BY <2>1, <2>2, <1>5, EntriesCleaned
<1>10. OperationsOK'
  BY <1>2, <1>6 DEF UploadInstall, OperationsOK
<1>11. NamesStored'
  BY <1>1, <1>2, <1>6, <1>9 DEF UploadInstall, NamesStored, Stored
<1>12. QED
  BY <1>7, <1>8, <1>9, <1>10, <1>11

(* A failed upload installs nothing.                                       *)
LEMMA UploadFailStep ==
  ASSUME StoredInv, UploadFail
  PROVE  StoredInv'
<1> USE DEF StoredInv, durable, bucket
<1>1. up' \in UploadType /\ up'.pc = "idle" /\ up'.todo = {} /\ up'.recs = {}
  BY IdleUploadType DEF UploadFail, EndUpload, IdleUpload
<1>2. TypeOK'
  BY <1>1 DEF UploadFail, TypeOK
<1>3. ClientsOK' /\ EntriesOK'
  BY DEF UploadFail, ClientsOK, ClientOK, EntriesOK
<1>4. OperationsOK'
  BY <1>1 DEF UploadFail, OperationsOK
<1>5. NamesStored'
  BY <1>1 DEF UploadFail, NamesStored, Stored
<1>6. QED
  BY <1>2, <1>3, <1>4, <1>5

-----------------------------------------------------------------------------
(* Other writers, poll and revert.                                         *)

(* Another writer stores a block before the manifest that names it.        *)
LEMMA RemotePublishStep ==
  ASSUME StoredInv, NEW a \in Addr, NEW v \in Contents, RemotePublish(a, v)
  PROVE  StoredInv'
<1> USE DEF StoredInv, durable, bucket
<1> DEFINE n == [gen |-> gen, tag |-> a,
                 md5 |-> IF ContentNames THEN v ELSE None]
<1>1. n \in Name
  BY DEF Name, TypeOK
<1>2. obj' = [m \in DOMAIN obj \cup {n} |-> IF m = n THEN v ELSE obj[m]]
  BY DEF RemotePublish
<1>3. /\ DOMAIN obj' = DOMAIN obj \cup {n}
      /\ \A m \in DOMAIN obj' : obj'[m] \in Contents
  BY <1>2 DEF TypeOK
<1>4. /\ rman' \in Manifest
      /\ rman'.blk = [rman.blk EXCEPT ![a] = n]
  <2>1. /\ rman \in Manifest /\ rman.blk[a] \in Name /\ rman.blk[a] # None
        /\ rman.ver + 1 \in Nat
    BY DEF RemotePublish, TypeOK, Manifest, Blocks
  <2>2. /\ [rman.blk EXCEPT ![a] = n] \in Blocks
        /\ rman.del \cup {<<rman.blk[a], 0>>} \in SUBSET (Name \X Nat)
    BY <1>1, <2>1 DEF Manifest, Blocks
  <2>3. rman' = [rman EXCEPT !.blk = [rman.blk EXCEPT ![a] = n],
                             !.ver = rman.ver + 1,
                             !.del = rman.del \cup {<<rman.blk[a], 0>>}]
    BY <2>1 DEF RemotePublish, Manifest
  <2>4. QED
    BY <2>1, <2>2, <2>3 DEF Manifest
<1>5. TypeOK'
  BY <1>1, <1>3, <1>4 DEF RemotePublish, TypeOK
<1>6. ClientsOK' /\ EntriesOK'
  BY DEF RemotePublish, ClientsOK, ClientOK, EntriesOK
<1>7. OperationsOK'
  BY DEF RemotePublish, OperationsOK
<1>8. \A b \in Addr : rman'.blk[b] = None \/ rman'.blk[b] \in DOMAIN obj'
  BY <1>3, <1>4 DEF NamesStored, Stored, TypeOK, Manifest, Blocks
<1>9. NamesStored'
  BY <1>3, <1>8 DEF RemotePublish, NamesStored, Stored
<1>10. QED
  BY <1>5, <1>6, <1>7, <1>9

(* The manifest in the bucket names stored blocks, so the fetched one does.*)
LEMMA PollBeginStep ==
  ASSUME StoredInv, PollBegin
  PROVE  StoredInv'
<1> USE DEF StoredInv, durable, bucket
<1>1. TypeOK'
  BY DEF PollBegin, TypeOK
<1>2. ClientsOK' /\ EntriesOK'
  BY DEF PollBegin, ClientsOK, ClientOK, EntriesOK
<1>3. OperationsOK'
  BY DEF PollBegin, OperationsOK, TypeOK
<1>4. NamesStored'
  BY DEF PollBegin, NamesStored, Stored
<1>5. QED
  BY <1>1, <1>2, <1>3, <1>4

(* A failed poll installs nothing.                                         *)
LEMMA PollFailStep ==
  ASSUME StoredInv, PollFail
  PROVE  StoredInv'
<1> USE DEF StoredInv, durable, bucket
<1>1. poll' = IdlePoll /\ IdlePoll.pc = "idle" /\ IdlePoll.man = None
  BY DEF PollFail, EndPoll, IdlePoll
<1>2. TypeOK'
  BY DEF PollFail, EndPoll, IdlePoll, TypeOK
<1>3. ClientsOK' /\ EntriesOK'
  BY DEF PollFail, ClientsOK, ClientOK, EntriesOK
<1>4. OperationsOK'
  BY <1>1 DEF PollFail, OperationsOK
<1>5. NamesStored'
  BY <1>1 DEF PollFail, NamesStored, Stored
<1>6. QED
  BY <1>2, <1>3, <1>4, <1>5

(* What an object reads as is a payload or nothing.                        *)
LEMMA ContentOfType ==
  ASSUME TypeOK, NEW n
  PROVE  ContentOf(n) \in Contents \cup {None}
  BY DEF ContentOf, TypeOK

(* A pending publication is installed: its manifest was fetched, so its    *)
(* names are stored.                                                       *)
LEMMA FetchedManifest ==
  ASSUME StoredInv, poll.pc = "fetched", PendingInstallable
  PROVE  /\ poll.man \in Manifest /\ \A a \in Addr : Stored(poll.man.blk[a])
         /\ \A s \in DirtySlots : /\ poll.man.blk[slot[s].addr] \in Name
                                  /\ poll.man.blk[slot[s].addr] \in DOMAIN obj
         /\ \A R \in SUBSET DirtySlots : CleanDirtyEntries(R) \in [Slots -> RowType]
         /\ Reconciled \in [Addr -> SUBSET Contents]
<1> USE DEF StoredInv
<1>1. poll.man \in Manifest /\ \A a \in Addr : Stored(poll.man.blk[a])
  BY DEF OperationsOK, NamesStored
<1>2. \A s \in DirtySlots : poll.man.blk[slot[s].addr] \in DOMAIN obj
  BY DEF PendingInstallable
<1>3. \A s \in DirtySlots : poll.man.blk[slot[s].addr] \in Name
  BY <1>2 DEF TypeOK
<1>4. \A R \in SUBSET DirtySlots : CleanDirtyEntries(R) \in [Slots -> RowType]
  <2> SUFFICES ASSUME NEW R \in SUBSET DirtySlots
               PROVE  CleanDirtyEntries(R) \in [Slots -> RowType]
    OBVIOUS
  <2>1. \A s \in R : CleanRow(poll.man.blk[slot[s].addr]) \in RowType
    BY <1>3, RowTypes
  <2>2. QED
    BY <2>1 DEF CleanDirtyEntries, TypeOK, RowType
<1>5. Reconciled \in [Addr -> SUBSET Contents]
  BY ContentOfType DEF Reconciled, TypeOK
<1>6. QED
  BY <1>1, <1>2, <1>3, <1>4, <1>5

(* Reconciling an interrupted publication installs the fetched manifest    *)
(* and cleans every dirty entry under a stored name.                       *)
LEMMA PendingTryInstallStep ==
  ASSUME StoredInv, PendingTryInstall
  PROVE  StoredInv'
<1> USE DEF StoredInv, durable, bucket
<1> DEFINE new(s) == [slot[s] EXCEPT !.name = poll.man.blk[slot[s].addr],
                                     !.dirty = FALSE, !.staged = FALSE]
           keep(s) == [slot[s] EXCEPT !.staged = FALSE]
<1>1. /\ poll.man \in Manifest /\ \A a \in Addr : Stored(poll.man.blk[a])
      /\ \A s \in DirtySlots : /\ poll.man.blk[slot[s].addr] \in Name
                               /\ poll.man.blk[slot[s].addr] \in DOMAIN obj
      /\ \A R \in SUBSET DirtySlots : CleanDirtyEntries(R) \in [Slots -> RowType]
      /\ Reconciled \in [Addr -> SUBSET Contents]
  BY FetchedManifest DEF PendingTryInstall
<1>2. poll' = IdlePoll /\ IdlePoll.pc = "idle"
  BY DEF PendingTryInstall, EndPoll, IdlePoll
<1>3. slot' = [s \in Slots |-> IF s \in DirtySlots THEN new(s) ELSE keep(s)]
  BY DEF PendingTryInstall
<1>4. ASSUME NEW s \in Slots
      PROVE  /\ s \in DirtySlots => new(s) \in EntryType
             /\ new(s).valid = slot[s].valid /\ new(s).addr = slot[s].addr
             /\ new(s).dirty = FALSE /\ new(s).staged = FALSE
             /\ s \in DirtySlots => new(s).name \in DOMAIN obj
             /\ keep(s) \in EntryType
             /\ keep(s).valid = slot[s].valid /\ keep(s).addr = slot[s].addr
             /\ keep(s).dirty = slot[s].dirty /\ keep(s).staged = FALSE
             /\ keep(s).name = slot[s].name
             /\ s \notin DirtySlots => ~slot[s].dirty
  <2>1. slot[s] \in EntryType
    BY DEF TypeOK
  <2>2. QED
    BY <1>1, <2>1 DEF EntryType, DirtySlots
<1>5. slot' \in [Slots -> EntryType]
  BY <1>3, <1>4
<1>6. /\ staged' \in SUBSET staged /\ gc' \in SUBSET gc
      /\ pending' = pending \/ pending' = None
  BY DEF PendingTryInstall, Retire, StagedAfter
<1>7. TypeOK'
  <2>1. base' \in Manifest /\ local' \in Blocks /\ alloc' \in SUBSET Dbs
        /\ cur' \in [Addr -> SUBSET Contents]
    BY <1>1 DEF PendingTryInstall, Manifest
  <2>2. row' \in [Slots -> RowType]
    BY <1>1 DEF PendingTryInstall
  <2>3. poll' \in [pc : {"idle", "fetched"}, man : Manifest \cup {None}]
        /\ eState' \in {"none", "stage", "upload", "poll"}
    BY DEF PendingTryInstall, EndPoll, IdlePoll
  <2>4. QED
    BY <1>5, <1>6, <2>1, <2>2, <2>3 DEF PendingTryInstall, TypeOK, RowType
<1>8. ClientsOK'
  BY DEF PendingTryInstall, ClientsOK, ClientOK
<1>9. /\ EntriesOK'
      /\ \A s \in Slots : slot'[s].staged => slot'[s].name \in DOMAIN obj
      /\ \A c \in Clients : \A s \in cl'[c].ack : slot'[s].name \in DOMAIN obj
  <2>1. \A s \in Slots :
            \/ slot'[s] = slot[s]
            \/ /\ slot'[s].valid = slot[s].valid /\ slot'[s].addr = slot[s].addr
               /\ slot'[s].dirty => slot[s].dirty /\ ~slot'[s].staged
               /\ slot'[s].name = slot[s].name \/ slot'[s].name \in DOMAIN obj
               /\ slot'[s].staged => slot[s].staged
    BY <1>3, <1>4
  <2>2. UNCHANGED <<cl, obj>>
    BY DEF PendingTryInstall
  <2>3. QED
    BY <2>1, <2>2, <1>5, EntriesCleaned
<1>10. OperationsOK'
  BY <1>2, <1>6 DEF PendingTryInstall, OperationsOK
<1>11. NamesStored'
  BY <1>1, <1>2, <1>6, <1>9 DEF PendingTryInstall, NamesStored, Stored
<1>12. QED
  BY <1>7, <1>8, <1>9, <1>10, <1>11

(* If a row cannot be updated, the entries cleaned so far have stored      *)
(* names and the others stay as they are.                                  *)
LEMMA PendingInstallFailsStep ==
  ASSUME StoredInv, PendingInstallFails
  PROVE  StoredInv'
<1> USE DEF StoredInv, durable, bucket
<1> DEFINE new(s) == [slot[s] EXCEPT !.name = poll.man.blk[slot[s].addr],
                                     !.dirty = FALSE]
<1>1. /\ poll.man \in Manifest /\ \A a \in Addr : Stored(poll.man.blk[a])
      /\ \A s \in DirtySlots : /\ poll.man.blk[slot[s].addr] \in Name
                               /\ poll.man.blk[slot[s].addr] \in DOMAIN obj
      /\ \A R \in SUBSET DirtySlots : CleanDirtyEntries(R) \in [Slots -> RowType]
      /\ Reconciled \in [Addr -> SUBSET Contents]
  BY FetchedManifest DEF PendingInstallFails
<1>2. poll' = IdlePoll /\ IdlePoll.pc = "idle"
  BY DEF PendingInstallFails, EndPoll, IdlePoll
<1>3. PICK S \in SUBSET DirtySlots :
        /\ slot' = [s \in Slots |-> IF s \in S THEN new(s) ELSE slot[s]]
        /\ row' = CleanDirtyEntries(S)
  BY DEF PendingInstallFails
<1>4. ASSUME NEW s \in S
      PROVE  /\ new(s) \in EntryType
             /\ new(s).valid = slot[s].valid /\ new(s).addr = slot[s].addr
             /\ new(s).dirty = FALSE /\ new(s).staged = slot[s].staged
             /\ new(s).name \in DOMAIN obj
  <2>1. slot[s] \in EntryType
    BY DEF TypeOK, DirtySlots
  <2>2. QED
    BY <1>1, <2>1 DEF EntryType
<1>5. slot' \in [Slots -> EntryType]
  BY <1>3, <1>4 DEF TypeOK
<1>6. TypeOK'
  <2>1. base' \in Manifest /\ local' \in Blocks /\ alloc' \in SUBSET Dbs
        /\ cur' \in [Addr -> SUBSET Contents]
    BY <1>1 DEF PendingInstallFails, Manifest
  <2>2. row' \in [Slots -> RowType]
    BY <1>1, <1>3
  <2>3. poll' \in [pc : {"idle", "fetched"}, man : Manifest \cup {None}]
        /\ eState' \in {"none", "stage", "upload", "poll"}
    BY DEF PendingInstallFails, EndPoll, IdlePoll
  <2>4. QED
    BY <1>5, <2>1, <2>2, <2>3 DEF PendingInstallFails, TypeOK, RowType
<1>7. ClientsOK'
  BY DEF PendingInstallFails, ClientsOK, ClientOK
<1>8. /\ EntriesOK'
      /\ \A s \in Slots : slot'[s].staged => slot'[s].name \in DOMAIN obj
      /\ \A c \in Clients : \A s \in cl'[c].ack : slot'[s].name \in DOMAIN obj
  <2>1. \A s \in Slots :
            \/ slot'[s] = slot[s]
            \/ /\ slot'[s].valid = slot[s].valid /\ slot'[s].addr = slot[s].addr
               /\ slot'[s].dirty => slot[s].dirty /\ ~slot'[s].staged
               /\ slot'[s].name = slot[s].name \/ slot'[s].name \in DOMAIN obj
               /\ slot'[s].staged => slot[s].staged
    BY <1>3, <1>4
  <2>2. UNCHANGED <<cl, obj>>
    BY DEF PendingInstallFails
  <2>3. QED
    BY <2>1, <2>2, <1>5, EntriesCleaned
<1>9. OperationsOK'
  BY <1>2 DEF PendingInstallFails, OperationsOK
<1>10. NamesStored'
  BY <1>1, <1>2, <1>8 DEF PendingInstallFails, NamesStored, Stored
<1>11. QED
  BY <1>6, <1>7, <1>8, <1>9, <1>10

(* Installing another writer's manifest touches no entry.                  *)
LEMMA ManifestUpdateStep ==
  ASSUME StoredInv, ManifestUpdate
  PROVE  StoredInv'
<1> USE DEF StoredInv, durable, bucket
<1>1. poll.man \in Manifest /\ \A a \in Addr : Stored(poll.man.blk[a])
  BY DEF ManifestUpdate, OperationsOK, NamesStored
<1>2. poll' = IdlePoll /\ IdlePoll.pc = "idle"
  BY DEF ManifestUpdate, EndPoll, IdlePoll
<1>3. TypeOK'
  <2>1. base' \in Manifest /\ local' \in Blocks
    BY <1>1 DEF ManifestUpdate, TypeOK, Manifest, Blocks
  <2>2. cur' \in [Addr -> SUBSET Contents]
    BY ContentOfType DEF ManifestUpdate, TypeOK
  <2>3. poll' \in [pc : {"idle", "fetched"}, man : Manifest \cup {None}]
        /\ eState' \in {"none", "stage", "upload", "poll"}
    BY DEF ManifestUpdate, EndPoll, IdlePoll
  <2>4. QED
    BY <2>1, <2>2, <2>3 DEF ManifestUpdate, TypeOK
<1>4. ClientsOK' /\ EntriesOK'
  BY DEF ManifestUpdate, ClientsOK, ClientOK, EntriesOK
<1>5. OperationsOK'
  BY <1>2 DEF ManifestUpdate, OperationsOK
<1>6. NamesStored'
  BY <1>1, <1>2 DEF ManifestUpdate, NamesStored, Stored
<1>7. QED
  BY <1>3, <1>4, <1>5, <1>6

(* Revert goes back to the installed manifest.                             *)
LEMMA RevertStep ==
  ASSUME StoredInv, Revert
  PROVE  StoredInv'
<1> USE DEF StoredInv, durable, bucket
<1>1. PICK T : Undirty(T)
  BY DEF Revert
<1>2. UNCHANGED <<staged, cl, obj>>
  BY DEF Revert
<1>3. TypeOK'
  <2>1. local' \in Blocks /\ alloc' \in SUBSET Dbs
    BY DEF Revert, TypeOK, Manifest
  <2>2. cur' \in [Addr -> SUBSET Contents]
    BY ContentOfType DEF Revert
  <2>3. QED
    BY <1>1, <1>2, <2>1, <2>2, UndirtyStep DEF Revert, TypeOK, RowType
<1>4. ClientsOK'
  BY <1>2 DEF ClientsOK, ClientOK
<1>5. EntriesOK'
  BY <1>1, <1>2, UndirtyStep
<1>6. OperationsOK'
  BY DEF OperationsOK, Revert
<1>7. NamesStored'
  <2>1. \A s \in Slots : /\ slot'[s].name = slot[s].name
                         /\ slot'[s].staged => slot[s].staged
    BY <1>1, <1>2, UndirtyStep
  <2>2. QED
    BY <2>1, <1>2 DEF Revert, TypeOK, ClientType, NamesStored, Stored
<1>8. QED
  BY <1>3, <1>4, <1>5, <1>6, <1>7

-----------------------------------------------------------------------------
(* Crash and restart.                                                      *)

(* Recovery from any installed manifest whose blocks are stored and any    *)
(* block rows reestablishes the invariant: it only replays staged rows.    *)
LEMMA CacheInitStep ==
  ASSUME StoredInv,
         NEW bs \in Manifest, \A a \in Addr : Stored(bs.blk[a]),
         NEW rw \in [Slots -> RowType],
         NEW c0 \in [Addr -> SUBSET Contents],
         CacheInit(staged, gc, bs, pending, rw, c0)
  PROVE  StoredInv'
<1> USE DEF StoredInv, durable, bucket
<1> DEFINE st == Unretired(staged, bs, pending)
           g == Unretired(gc, bs, pending)
<1>1. st \subseteq staged /\ g \subseteq gc
  BY DEF Unretired, StagedAfter
<1>2. \A r \in Replayed(st, g, bs) : r \in staged /\ r \in StagedRow
  BY <1>1 DEF Replayed, TypeOK
<1>3. \A a \in Addr : RecoveredName(a, st, g, bs, rw) \in Name \cup {None}
  <2> SUFFICES ASSUME NEW a \in Addr
               PROVE  RecoveredName(a, st, g, bs, rw) \in Name \cup {None}
    OBVIOUS
  <2> DEFINE dirty == {s \in Slots : rw[s].addr = a}
             rows == {r \in Replayed(st, g, bs) : r.addr = a}
  <2>1. CASE dirty # {}
    <3>1. PICK s \in Slots : s = CHOOSE u \in dirty : TRUE
      BY <2>1
    <3>2. RecoveredName(a, st, g, bs, rw) = [gen |-> gen, tag |-> s, md5 |-> None]
      BY <2>1, <3>1 DEF RecoveredName
    <3>3. QED
      BY <3>2 DEF Name, TypeOK
  <2>2. CASE dirty = {} /\ rows # {}
    <3>1. PICK r \in rows : r = CHOOSE q \in rows : TRUE
      BY <2>2
    <3>2. RecoveredName(a, st, g, bs, rw) = r.name
      BY <2>2, <3>1 DEF RecoveredName
    <3>3. QED
      BY <1>2, <3>2 DEF StagedRow
  <2>3. CASE dirty = {} /\ rows = {}
    BY <2>3 DEF RecoveredName, Manifest, Blocks
  <2>4. QED
    BY <2>1, <2>2, <2>3
<1>4. ASSUME NEW s \in Slots
      PROVE  LET e == RecoveredEntry(s, rw)
             IN  /\ e \in EntryType
                 /\ e.dirty => e.addr \in Addr /\ e.name \in Name
                 /\ ~e.staged
  <2>1. rw[s] \in RowType
    OBVIOUS
  <2>2. CASE rw[s].addr # None
    <3> DEFINE e == [name |-> [gen |-> gen, tag |-> s, md5 |-> None],
                     addr |-> rw[s].addr, valid |-> TRUE, dirty |-> TRUE,
                     staged |-> FALSE]
    <3>1. RecoveredEntry(s, rw) = e
      BY <2>2 DEF RecoveredEntry
    <3>2. rw[s].addr \in Addr
      BY <2>1, <2>2 DEF RowType
    <3>3. e.name \in Name
      BY DEF Name, TypeOK
    <3>4. e \in EntryType /\ e.addr \in Addr /\ ~e.staged
      BY <3>2, <3>3 DEF EntryType
    <3>5. QED
      BY <3>1, <3>3, <3>4
  <2>3. CASE rw[s].addr = None
    <3>1. RecoveredEntry(s, rw) = FreeEntry
      BY <2>3 DEF RecoveredEntry
    <3>2. QED
      BY <3>1, FreeEntryType DEF FreeEntry
  <2>4. QED
    BY <2>2, <2>3
<1>5. /\ slot' = [s \in Slots |-> RecoveredEntry(s, rw)]
      /\ local' = [a \in Addr |-> RecoveredName(a, st, g, bs, rw)]
      /\ staged' = st /\ gc' = g /\ base' = bs
      /\ row' = [s \in Slots |-> IF rw[s].addr = None THEN NoRow ELSE rw[s]]
      /\ pending' = pending \/ pending' = None
      /\ cl' = [c \in Clients |-> IdleClient]
      /\ poll' = IdlePoll /\ eState' = "none" /\ gen' = gen + 1
      /\ UNCHANGED <<data, seq, obj, rman>>
  BY DEF CacheInit
<1>6. up' \in UploadType /\ up'.pc = "idle" /\ up'.todo = {} /\ up'.recs = {}
  BY IdleUploadType DEF CacheInit, EndUpload, IdleUpload
<1>7. IdlePoll.pc = "idle" /\ IdlePoll.man = None
      /\ IdlePoll \in [pc : {"idle", "fetched"}, man : Manifest \cup {None}]
  BY DEF IdlePoll
<1>8. IdleClient.pc = "idle" /\ IdleClient.op = "read" /\ IdleClient.s = None
      /\ IdleClient.batch = {} /\ IdleClient.ack = {}
  BY DEF IdleClient
<1>9. TypeOK'
  <2>1. slot' \in [Slots -> EntryType]
    BY <1>4, <1>5
  <2>2. local' \in Blocks
    BY <1>3, <1>5 DEF Blocks
  <2>3. alloc' \in SUBSET Dbs
    <3>1. alloc' \subseteq {a[1] : a \in Addr}
      BY DEF CacheInit
    <3>2. QED
      BY <3>1 DEF Addr
  <2>4. staged' \in SUBSET StagedRow /\ gc' \in SUBSET StagedRow
    BY <1>1, <1>5 DEF TypeOK
  <2>5. cl' \in [Clients -> ClientType]
    BY <1>5, IdleClientType
  <2>6. cur' \in [Addr -> SUBSET Contents]
    BY DEF CacheInit, InFlight, TypeOK, ClientType
  <2>7. gen' \in Nat /\ pending' \in PendingRow \cup {None}
    BY <1>5 DEF TypeOK
  <2>8. row' \in [Slots -> RowType]
    BY <1>5, RowTypes
  <2>9. QED
    BY <1>5, <1>6, <1>7, <2>1, <2>2, <2>3, <2>4, <2>5, <2>6, <2>7, <2>8
       DEF TypeOK, RowType
<1>10. ClientsOK'
  BY <1>5, <1>8, ConstantsAssumption DEF ClientsOK, ClientOK, IOPhases
<1>11. EntriesOK'
  BY <1>4, <1>5, <1>8, ConstantsAssumption DEF EntriesOK
<1>12. OperationsOK'
  BY <1>1, <1>5, <1>6, <1>7 DEF OperationsOK
<1>13. NamesStored'
  BY <1>1, <1>4, <1>5, <1>6, <1>7, <1>8 DEF NamesStored, Stored
<1>14. QED
  BY <1>9, <1>10, <1>11, <1>12, <1>13

(* The three places where a crash is told apart.                           *)
LEMMA CrashStep ==
  ASSUME StoredInv, Crash \/ CrashInstalling \/ CrashReconciling
  PROVE  StoredInv'
<1>1. CASE Crash
  BY <1>1, CacheInitStep DEF Crash, StoredInv, NamesStored, TypeOK, RowType
<1>2. CASE CrashInstalling
  <2> DEFINE bs == [NewManifest EXCEPT !.ver = base.ver + 1]
  <2>1. PICK R \in SUBSET RecordedSlots :
          CacheInit(staged, gc, bs, pending, Published(R), cur)
    BY <1>2 DEF CrashInstalling
  <2>2. bs \in Manifest /\ \A a \in Addr : Stored(bs.blk[a])
    BY <1>2, InstalledManifest DEF CrashInstalling
  <2>3. Published(R) \in [Slots -> RowType]
    BY PublishedRows
  <2>4. cur \in [Addr -> SUBSET Contents]
    BY DEF StoredInv, TypeOK
  <2> HIDE DEF bs
  <2>5. QED
    BY <2>1, <2>2, <2>3, <2>4, CacheInitStep
<1>3. CASE CrashReconciling
  <2>1. PICK R \in SUBSET DirtySlots :
          CacheInit(staged, gc, poll.man, pending, CleanDirtyEntries(R), Reconciled)
    BY <1>3 DEF CrashReconciling
  <2>2. /\ poll.man \in Manifest /\ \A a \in Addr : Stored(poll.man.blk[a])
        /\ CleanDirtyEntries(R) \in [Slots -> RowType]
        /\ Reconciled \in [Addr -> SUBSET Contents]
    BY <1>3, FetchedManifest DEF CrashReconciling
  <2>3. QED
    BY <2>1, <2>2, CacheInitStep
<1>4. QED
  BY <1>1, <1>2, <1>3

-----------------------------------------------------------------------------
(* The invariance theorems.                                                *)

(* The attached container satisfies the invariant.                         *)
LEMMA InitStored == Init => StoredInv
<1> SUFFICES ASSUME Init
             PROVE  StoredInv
  OBVIOUS
<1> DEFINE c0 == CHOOSE v \in Contents : TRUE
           name == [a \in Addr |-> [gen |-> 0, tag |-> a,
                                    md5 |-> IF ContentNames THEN c0 ELSE None]]
           blk == [a \in Addr |-> IF a \in Published0 THEN name[a] ELSE None]
           man == [blk |-> blk, del |-> {}, ver |-> 0]
<1>1. c0 \in Contents
  BY ConstantsAssumption
<1>2. \A a \in Addr : name[a] \in Name
  BY <1>1 DEF Name
<1>3. blk \in Blocks
  BY <1>2 DEF Blocks
<1>4. man \in Manifest
  BY <1>3 DEF Manifest
<1>5. /\ slot = [s \in Slots |-> FreeEntry]
      /\ data = [s \in Slots |-> c0]
      /\ row = [s \in Slots |-> NoRow]
      /\ base = man /\ rman = man /\ local = blk /\ alloc = {}
      /\ staged = {} /\ gc = {} /\ seq = 0 /\ pending = None
      /\ obj = [n \in {name[a] : a \in Published0} |-> c0]
      /\ eState = "none" /\ gen = 1
      /\ cl = [c \in Clients |-> IdleClient]
      /\ up = IdleUpload /\ poll = IdlePoll
      /\ cur = [a \in Addr |-> IF a \in Published0 THEN {c0} ELSE {}]
  BY DEF Init
<1>6. Published0 \subseteq Addr
  BY ConstantsAssumption
<1>7. \A a \in Addr : Stored(blk[a])
  <2>1. DOMAIN obj = {name[a] : a \in Published0}
    BY <1>5
  <2>2. \A a \in Addr : blk[a] = IF a \in Published0 THEN name[a] ELSE None
    OBVIOUS
  <2> HIDE DEF name, blk
  <2>3. QED
    BY <2>1, <2>2 DEF Stored
<1> HIDE DEF c0, name, blk
<1>8. IdleUpload \in UploadType /\ IdleUpload.pc = "idle" /\ IdleUpload.todo = {}
      /\ IdleUpload.recs = {}
  BY DEF IdleUpload, UploadType, Blocks
<1>9. IdlePoll.pc = "idle"
      /\ IdlePoll \in [pc : {"idle", "fetched"}, man : Manifest \cup {None}]
  BY DEF IdlePoll
<1>10. IdleClient.pc = "idle" /\ IdleClient.op = "read" /\ IdleClient.s = None
      /\ IdleClient.batch = {} /\ IdleClient.ack = {}
  BY DEF IdleClient
<1>11. TypeOK
  <2>1. DOMAIN obj \subseteq Name /\ \A n \in DOMAIN obj : obj[n] \in Contents
    BY <1>1, <1>2, <1>5, <1>6
  <2>2. row \in [Slots -> RowType]
    BY <1>5, RowTypes
  <2>3. cur \in [Addr -> SUBSET Contents] /\ data \in [Slots -> Contents]
    BY <1>1, <1>5
  <2>4. slot \in [Slots -> EntryType] /\ cl \in [Clients -> ClientType]
    BY <1>5, FreeEntryType, IdleClientType
  <2>5. QED
    BY <1>3, <1>4, <1>5, <1>8, <1>9, <2>1, <2>2, <2>3, <2>4 DEF TypeOK, RowType
<1>12. ClientsOK
  BY <1>5, <1>10, ConstantsAssumption DEF ClientsOK, ClientOK, IOPhases
<1>13. EntriesOK
  BY <1>5, <1>10, ConstantsAssumption DEF EntriesOK, FreeEntry
<1>14. OperationsOK
  BY <1>5, <1>8, <1>9 DEF OperationsOK
<1>15. NamesStored
  BY <1>5, <1>7, <1>8, <1>9, <1>10 DEF NamesStored, FreeEntry
<1>16. QED
  BY <1>11, <1>12, <1>13, <1>14, <1>15 DEF StoredInv

(* Every step of every action preserves it.                                *)
LEMMA StepStored == StoredInv /\ [Next]_vars => StoredInv'
<1> SUFFICES ASSUME StoredInv, [Next]_vars
             PROVE  StoredInv'
  OBVIOUS
<1>1. ASSUME NEW c \in Clients, NEW a \in Addr, Read(c, a)
      PROVE  StoredInv'
  BY <1>1, ReadStep
<1>2. ASSUME NEW c \in Clients, NEW a \in Addr, NEW v \in Contents, Write(c, a, v)
      PROVE  StoredInv'
  BY <1>2, WriteStep
<1>3. ASSUME NEW c \in Clients, NEW d \in Dbs, NEW n \in Pos, Truncate(c, d, n)
      PROVE  StoredInv'
  BY <1>3, TruncateStep
<1>4. ASSUME NEW c \in Clients, IOStep(c)
      PROVE  StoredInv'
  BY <1>4, ShortReadStep, WaitForEntryStep, CacheHitStep, CacheMissStep,
     CacheFullStep, ClearBlockFailsStep, FailIOStep,
     FetchBlockStep, ReadBytesStep, AlreadyDirtyStep, MakeBlockWritableStep,
     CopyFullStep, WriteBytesStep, FinishIOStep DEF IOStep
<1>5. ASSUME NEW c \in Clients, StageStep(c)
      PROVE  StoredInv'
  BY <1>5, StageSelectStep, StageNothingStep, StagePutStep, StagePersistStep
     DEF StageStep
<1>6. ASSUME NEW D \in SUBSET Dbs, UploadBegin(D)
      PROVE  StoredInv'
  BY <1>6, UploadBeginStep
<1>7. CASE UploadStep
  BY <1>7, UploadSnapshotStep, UploadStagedStep, UploadDirtyStep,
     UploadMissingStep, UploadPendingStep, UploadManifestStep,
     UploadInstallStep, UploadFailStep DEF UploadStep
<1>8. CASE PollBegin \/ PollStep \/ Revert
  BY <1>8, PollBeginStep, PendingTryInstallStep, PendingInstallFailsStep,
     ManifestUpdateStep, PollFailStep, RevertStep DEF PollStep
<1>9. ASSUME NEW a \in Addr, NEW v \in Contents, RemotePublish(a, v)
      PROVE  StoredInv'
  BY <1>9, RemotePublishStep
<1>10. CASE Crash \/ CrashInstalling \/ CrashReconciling
  BY <1>10, CrashStep
<1>11. CASE UNCHANGED vars
  BY <1>11 DEF vars, durable, bucket, StoredInv, TypeOK, ClientsOK, ClientOK,
               EntriesOK, OperationsOK, NamesStored, Stored
<1>12. QED
  BY <1>1, <1>2, <1>3, <1>4, <1>5, <1>6, <1>7, <1>8, <1>9, <1>10, <1>11 DEF Next

(* StoredInv holds in every reachable state of bcvfs, whatever the number  *)
(* of client threads, databases and cache slots: every name that a         *)
(* manifest, a staged row or a staged entry refers to has been stored.     *)
THEOREM StoredInvariant == Spec => []StoredInv
<1>1. Init => StoredInv
  BY InitStored
<1>2. StoredInv /\ [Next]_vars => StoredInv'
  BY StepStored
<1>3. QED
  BY <1>1, <1>2, PTL DEF Spec

(* Every variable keeps the type that its C declaration or table schema    *)
(* gives it.                                                               *)
THEOREM TypeCorrect == Spec => []TypeOK
<1>1. StoredInv => TypeOK
  BY DEF StoredInv
<1>2. QED
  BY <1>1, StoredInvariant, PTL

(* bcvfsUpload never publishes a manifest that names an object which was   *)
(* not stored, whatever PUTs fail or lose their response, whatever is      *)
(* staged meanwhile and wherever the process crashes.                      *)
THEOREM PublicationComplete == Spec => []PublishedComplete
<1>1. StoredInv => PublishedComplete
  BY DEF StoredInv, NamesStored, Stored, PublishedComplete
<1>2. QED
  BY <1>1, StoredInvariant, PTL
=============================================================================
