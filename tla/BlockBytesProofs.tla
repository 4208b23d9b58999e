-------------------------- MODULE BlockBytesProofs --------------------------
(***************************************************************************)
(* Bytes: in a container with one database and with content names, reads,  *)
(* writes, truncations, staging, eviction and uploads of any number of     *)
(* threads never lose or confuse the acknowledged bytes of a block, and an *)
(* upload publishes them.  One lemma per step; restarts, reverts and the   *)
(* theorems are in BlockRecoveryProofs.                                    *)
(***************************************************************************)
EXTENDS BlockObjectProofs

(* The instances the lemmas are about: one database, names with an MD5     *)
(* prefix and no failures of local I/O.                                    *)
Faultless ==
    /\ ContentNames /\ ~LocalFaults /\ ~SlotFaults
    /\ \A d, e \in Dbs : d = e

-----------------------------------------------------------------------------
(* The inductive invariant.  Renaming keeps the random part of a name.     *)
SameId(m, n) == m # None /\ n # None /\ m.gen = n.gen /\ m.tag = n.tag

DirtyAt(a) == {s \in Slots : slot[s].dirty /\ slot[s].addr = a}

(* Every name has been generated, and no two blocks share one.             *)
NamesFresh ==
    /\ \A s \in Slots : slot[s].name # None => slot[s].name.gen < gen
    /\ \A a \in Addr : /\ local[a] # None => local[a].gen < gen
                       /\ base.blk[a] # None => base.blk[a].gen < gen
    /\ \A r \in staged \cup gc : r.name.gen < gen
    /\ \A a, b \in Addr : SameId(local[a], local[b]) => a = b

(* A dirty entry is the current generation of its block, and neither       *)
(* another entry nor a published or staged block bears its name.           *)
DirtyUnique(s) ==
    slot[s].dirty =>
        /\ local[slot[s].addr] = slot[s].name
        /\ \A t \in Slots : SameId(slot[t].name, slot[s].name) => t = s
        /\ \A a \in Addr : ~SameId(base.blk[a], slot[s].name)
        /\ \A r \in staged \cup gc : ~SameId(r.name, slot[s].name)

(* A block without a dirty entry is published or staged under a name that  *)
(* stands for its bytes and occurs with no other prefix.                   *)
CleanBacked(a) ==
    IF local[a] = None THEN cur[a] = {}
    ELSE DirtyAt(a) = {} =>
           /\ local[a] = base.blk[a] \/ StagedFind(a, local[a])
           /\ local[a].md5 \in cur[a]
           /\ \A s \in Slots : SameId(slot[s].name, local[a]) => slot[s].name = local[a]
           /\ \A r \in staged : SameId(r.name, local[a]) => r.name = local[a]

(* A dirty entry holds the bytes of its block unless a thread writes them; *)
(* a clean one, once it is filled, those its name stands for.              *)
Writer(c, s) == cl[c].op = "write" /\ cl[c].s = s /\ cl[c].pc \in {"bytes", "done"}
DirtyBytes(s) ==
    slot[s].dirty => \/ slot[s].valid /\ data[s] \in cur[slot[s].addr]
                     \/ \E c \in Clients : Writer(c, s)

Filled(s) ==
    \/ slot[s].valid /\ \E a \in Addr : local[a] = slot[s].name
    \/ \E c \in Clients : cl[c].s = s /\ ~slot[s].valid /\ cl[c].pc \in {"ready", "done"}
CleanBytes(s) ==
    /\ slot[s].valid => slot[s].name # None
    /\ ~slot[s].dirty /\ slot[s].name # None /\ Filled(s) => data[s] = slot[s].name.md5

EntryInv(s) == DirtyUnique(s) /\ DirtyBytes(s) /\ CleanBytes(s)

(* A writer stays with the current generation of its block.                *)
WriterOK(c) ==
    cl[c].op = "write" =>
        /\ \A k \in Clients : cl[k].op = "write" => k = c
        /\ cl[c].pc \in {"fetch", "ready"} => slot[cl[c].s].name = local[cl[c].a]
        /\ cl[c].pc \in {"bytes", "done"} => slot[cl[c].s].dirty /\ slot[cl[c].s].addr = cl[c].a
        /\ cl[c].pc = "bytes" /\ slot[cl[c].s].valid => data[cl[c].s] \in cur[cl[c].a]
        /\ cl[c].pc = "done" => data[cl[c].s] = cl[c].v

(* A reader's entry holds bytes that the block has had during the read.    *)
ReaderOK(c) ==
    cl[c].op = "read" /\ cl[c].pc \notin {"idle", "null"} =>
        /\ Acceptable(cl[c].a) \subseteq cl[c].ok
        /\ cl[c].pc \in IOPhases => /\ slot[cl[c].s].name # None
                                    /\ slot[cl[c].s].dirty => slot[cl[c].s].addr = cl[c].a
        /\ cl[c].pc = "fetch" => slot[cl[c].s].name.md5 \in cl[c].ok
        /\ cl[c].pc = "ready" => data[cl[c].s] \in cl[c].ok
        /\ cl[c].pc = "done" => cl[c].v \in cl[c].ok

ThreadInv(c) ==
    /\ WriterOK(c) /\ ReaderOK(c)
    /\ cl[c].pc = "fetch" => ~slot[cl[c].s].dirty /\ slot[cl[c].s].name # None

(* The uploader's names are those of the blocks, and what it is done with  *)
(* stands for their bytes: its own name, or the one its record gives the   *)
(* entry at the end.                                                       *)
Publishing == up.pc \in {"blocks", "manifest", "install"}
RecordOK(r) ==
    /\ slot[r.s].valid
    /\ IF slot[r.s].dirty
       THEN /\ slot[r.s].name = r.old /\ r.new = Renamed(r.old, data[r.s])
            /\ slot[r.s].addr \notin up.todo /\ up.blk[slot[r.s].addr] = r.new
       ELSE slot[r.s].name = r.new
BlockOK(a) ==
    /\ a[1] \in up.dbs
    /\ SameId(up.blk[a], local[a]) \/ (up.blk[a] = None /\ local[a] = None)
    /\ a \in up.todo \/ IF DirtyAt(a) = {} THEN up.blk[a] = local[a]
                        ELSE \E r \in up.recs : slot[r.s].dirty /\ slot[r.s].addr = a
UploadCurrent ==
    Publishing => /\ \A c \in Clients : cl[c].op # "write"
                  /\ \A a \in Addr : BlockOK(a)
                  /\ \A r \in up.recs : RecordOK(r)

BytesInv ==
    /\ NamesFresh
    /\ \A s \in Slots : EntryInv(s)
    /\ \A a \in Addr : CleanBacked(a)
    /\ \A c \in Clients : ThreadInv(c)
    /\ UploadCurrent
    /\ up.pc = "ckpt" => up.dbs # {}
    /\ poll.pc = "idle" /\ \A r \in gc : r.seq <= seq
-----------------------------------------------------------------------------
(* What the invariant gives.                                               *)

LEMMA Kinds ==
  ASSUME StoredInv
  PROVE  /\ cl \in [Clients -> ClientType] /\ slot \in [Slots -> EntryType]
         /\ data \in [Slots -> Contents] /\ local \in [Addr -> Name \cup {None}]
         /\ base.blk \in [Addr -> Name \cup {None}] /\ up \in UploadType
         /\ staged \subseteq StagedRow /\ gc \subseteq StagedRow /\ gen \in Nat /\ seq \in Nat
         /\ cur \in [Addr -> SUBSET Contents]
  BY DEF StoredInv, TypeOK, Blocks, Manifest

LEMMA NoneNot == None \notin Name /\ None \notin Addr /\ None \notin Slots /\ None \notin Contents
  BY ConstantsAssumption

(* The entry of a thread in an I/O, and the arguments of a writer.         *)
LEMMA ThreadKinds ==
  ASSUME StoredInv, NEW c \in Clients
  PROVE  /\ cl[c].pc \in IOPhases <=> cl[c].s \in Slots
         /\ cl[c].pc \notin {"idle", "null"} => cl[c].a \in Addr
         /\ cl[c].op = "write" => cl[c].a \in Addr
         /\ cl[c].op = "write" /\ cl[c].pc \in IOPhases => cl[c].v \in Contents
         /\ cl[c].op \in {"read", "write"}
         /\ cl[c].pc = "bytes" => cl[c].op = "write"
  BY DEF StoredInv, TypeOK, ClientType, ClientsOK, ClientOK

LEMMA DirtyKinds ==
  ASSUME StoredInv, NEW s \in Slots, slot[s].dirty
  PROVE  slot[s].addr \in Addr /\ slot[s].name \in Name /\ slot[s].name # None
  BY NoneNot DEF StoredInv, EntriesOK

(* A dirty entry that bears the name of a block is that block's.           *)
LEMMA DirtyOwner ==
  ASSUME StoredInv, BytesInv, NEW s \in Slots, slot[s].dirty, NEW a \in Addr,
         SameId(slot[s].name, local[a])
  PROVE  slot[s].addr = a /\ slot[s].name = local[a]
<1>1. slot[s].addr \in Addr /\ local[slot[s].addr] = slot[s].name
  BY DirtyKinds DEF BytesInv, EntryInv, DirtyUnique
<1>2. QED
  BY <1>1 DEF BytesInv, NamesFresh

(* A name is its own, and a block has at most one dirty entry.             *)
LEMMA SelfId == \A n : n # None => SameId(n, n)
  BY DEF SameId

LEMMA OneDirty ==
  ASSUME StoredInv, BytesInv, NEW s \in Slots, slot[s].dirty, NEW t \in Slots,
         SameId(slot[t].name, local[slot[s].addr])
  PROVE  t = s
<1>1. local[slot[s].addr] = slot[s].name
  BY DEF BytesInv, EntryInv, DirtyUnique
<1>2. QED
  BY <1>1 DEF BytesInv, EntryInv, DirtyUnique

LEMMA NotDirtyAt ==
  ASSUME StoredInv, BytesInv, NEW a \in Addr, NEW t \in Slots, ~slot[t].dirty, local[a] # None,
         slot[t].name = local[a]
  PROVE  DirtyAt(a) = {}
<1>1. SameId(slot[t].name, local[a])
  BY SelfId
<1>2. QED
  BY <1>1, OneDirty DEF DirtyAt

(* The bytes of the entries that bear the name of a block.                 *)
LEMMA ResidentBytes ==
  ASSUME StoredInv, BytesInv, NEW a \in Addr, local[a] # None, NEW t \in Slots, slot[t].valid,
         slot[t].name = local[a]
  PROVE  \/ data[t] \in cur[a]
         \/ \E c \in Clients : Writer(c, t) /\ cl[c].a = a /\ data[t] = cl[c].v
<1>1. SameId(slot[t].name, local[a])
  BY SelfId
<1>2. CASE slot[t].dirty
  <2>1. slot[t].addr = a
    BY <1>1, <1>2, DirtyOwner
  <2>2. ASSUME NEW c \in Clients, Writer(c, t)
        PROVE  cl[c].a = a /\ (data[t] = cl[c].v \/ data[t] \in cur[a])
    BY <2>1, <2>2 DEF BytesInv, ThreadInv, WriterOK, Writer
  <2>3. DirtyBytes(t)
    BY DEF BytesInv, EntryInv
  <2>4. QED
    BY <1>2, <2>1, <2>2, <2>3 DEF DirtyBytes
<1>3. CASE ~slot[t].dirty
  <2>1. DirtyAt(a) = {}
    BY <1>3, NotDirtyAt
  <2>2. local[a].md5 \in cur[a]
    BY <2>1 DEF BytesInv, CleanBacked
  <2>3. data[t] = slot[t].name.md5
    BY <1>3 DEF BytesInv, EntryInv, CleanBytes, Filled
  <2>4. QED
    BY <2>2, <2>3
<1>4. QED
  BY <1>2, <1>3

(* The object of a block that has no dirty entry.                          *)
LEMMA StoredBytes ==
  ASSUME StoredInv, ContentInv, BytesInv, NEW a \in Addr, local[a] # None, DirtyAt(a) = {}
  PROVE  /\ base.blk[a] # None \/ StagedFind(a, local[a])
         /\ ContentOf(local[a]) \in cur[a]
<1>1. /\ local[a] = base.blk[a] \/ StagedFind(a, local[a])
      /\ local[a].md5 \in cur[a]
  BY DEF BytesInv, CleanBacked
<1>2. local[a] \in DOMAIN obj
  BY <1>1 DEF StoredInv, NamesStored, Stored, StagedFind
<1>3. QED
  BY <1>1, <1>2 DEF ContentInv, Addressed, ContentOf

LEMMA BytesCurrent ==
  ASSUME StoredInv, ContentInv, BytesInv
  PROVE  CurrentBytes
<1>1. SUFFICES ASSUME NEW a \in Addr, Settled(a) PROVE LookupContents(a) \subseteq cur[a]
  BY DEF CurrentBytes
<1>2. local[a] # None
  BY <1>1 DEF Settled, BytesInv, CleanBacked
<1>3. CASE Named(local[a]) # {}
  <2>1. ASSUME NEW t \in Named(local[a]), slot[t].valid PROVE data[t] \in cur[a]
    <3>1. t \in Slots /\ slot[t].name = local[a]
      BY <2>1 DEF Named
    <3>2. ASSUME NEW c \in Clients, Writer(c, t), cl[c].a = a PROVE FALSE
      <4>1. cl[c].op = "write" /\ cl[c].pc \in IOPhases
        BY <3>2 DEF Writer, IOPhases
      <4>2. cl[c].v # None
        BY <4>1, ThreadKinds, NoneNot
      <4>3. QED
        BY <1>1, <3>2, <4>1, <4>2 DEF Settled, InFlight
    <3>3. QED
      BY <1>2, <2>1, <3>1, <3>2, ResidentBytes
  <2>2. LookupContents(a) = {data[s] : s \in {t \in Named(local[a]) : slot[t].valid}}
    BY <1>3 DEF LookupContents
  <2>3. QED
    BY <2>1, <2>2
<1>4. CASE Named(local[a]) = {}
  <2>1. DirtyAt(a) = {}
    BY <1>2, <1>4 DEF BytesInv, EntryInv, DirtyUnique, DirtyAt, Named
  <2>2. LookupContents(a) = {ContentOf(local[a])}
    BY <1>2, <1>4, <2>1, StoredBytes DEF LookupContents
  <2>3. QED
    BY <1>2, <2>1, <2>2, StoredBytes
<1>5. QED
  BY <1>3, <1>4

LEMMA ReadCurrent ==
  ASSUME StoredInv, BytesInv
  PROVE  ReadReturnsCurrent
  BY DEF BytesInv, ThreadInv, ReaderOK, ReadReturnsCurrent

-----------------------------------------------------------------------------
(* Steps of a thread that change no entry.                                 *)

(* What a read may return does not grow without a new write.               *)
AcceptableKept == \A a \in Addr : Acceptable(a)' \subseteq Acceptable(a)

LEMMA AcceptableShrinks ==
  ASSUME \A a \in Addr : cur'[a] \subseteq Acceptable(a),
         \A k \in Clients : cl'[k].op = "write" /\ cl'[k].v # None =>
            cl[k].op = "write" /\ cl[k].a = cl'[k].a /\ cl[k].v = cl'[k].v
  PROVE  AcceptableKept
<1>1. SUFFICES ASSUME NEW a \in Addr PROVE Acceptable(a)' \subseteq Acceptable(a)
  BY DEF AcceptableKept
<1>2. ASSUME NEW k \in InFlight(a)' PROVE cl'[k].v \in Acceptable(a)
  BY <1>2 DEF InFlight, Acceptable
<1>3. QED
  BY <1>2 DEF Acceptable

(* A thread whose own state and entry the step leaves alone.               *)
LEMMA ThreadKept ==
  ASSUME StoredInv, NEW k \in Clients, ThreadInv(k), cl'[k] = cl[k],
         cl[k].pc \in IOPhases => /\ slot'[cl[k].s] = slot[cl[k].s]
                                  /\ data'[cl[k].s] = data[cl[k].s],
         cl[k].op = "write" => /\ local'[cl[k].a] = local[cl[k].a]
                               /\ cur'[cl[k].a] = cur[cl[k].a]
                               /\ \A j \in Clients : cl'[j].op = "write" => j = k,
         AcceptableKept
  PROVE  ThreadInv(k)'
<1>1. WriterOK(k)'
  BY DEF ThreadInv, WriterOK, IOPhases
<1>2. ReaderOK(k)'
  <2>1. CASE cl[k].op = "read" /\ cl[k].pc \notin {"idle", "null"}
    <3>1. cl[k].a \in Addr
      BY <2>1, ThreadKinds
    <3>2. Acceptable(cl[k].a)' \subseteq Acceptable(cl[k].a)
      BY <3>1 DEF AcceptableKept
    <3>3. QED
      BY <2>1, <3>2 DEF ThreadInv, ReaderOK, IOPhases
  <2>2. CASE ~(cl[k].op = "read" /\ cl[k].pc \notin {"idle", "null"})
    BY <2>2 DEF ReaderOK
  <2>3. QED
    BY <2>1, <2>2
<1>3. QED
  BY <1>1, <1>2 DEF ThreadInv, IOPhases

(* The parts that depend on the entries and tables alone.                  *)
LEMMA TablesKept ==
  ASSUME BytesInv, UNCHANGED <<slot, local, base, staged, gc, gen, cur>>
  PROVE  /\ NamesFresh' /\ \A a \in Addr : CleanBacked(a)'
         /\ \A s \in Slots : DirtyUnique(s)'
<1>1. NamesFresh'
  BY DEF BytesInv, NamesFresh
<1>2. \A a \in Addr : CleanBacked(a)'
  BY DEF BytesInv, CleanBacked, DirtyAt, StagedFind
<1>3. \A s \in Slots : DirtyUnique(s)'
  BY DEF BytesInv, EntryInv, DirtyUnique
<1>4. QED
  BY <1>1, <1>2, <1>3

LEMMA UploadKept ==
  ASSUME UploadCurrent, UNCHANGED <<slot, data, local, up>>,
         Publishing => \A k \in Clients : cl'[k].op # "write"
  PROVE  UploadCurrent'
  BY DEF UploadCurrent, Publishing, BlockOK, RecordOK, DirtyAt

(* The bytes of the entries, when a thread that was not writing moves on.  *)
LEMMA EntriesKept ==
  ASSUME BytesInv, NEW c \in Clients, UNCHANGED <<slot, data, local, base, staged, gc, gen, cur>>,
         \A k \in Clients \ {c} :
            cl'[k].pc = cl[k].pc /\ cl'[k].op = cl[k].op /\ cl'[k].s = cl[k].s,
         cl[c].pc \notin {"bytes", "done"},
         cl'[c].pc \in {"ready", "done"} =>
            slot[cl'[c].s].valid \/ (cl[c].pc = "ready" /\ cl[c].s = cl'[c].s)
  PROVE  \A s \in Slots : EntryInv(s)'
<1>1. SUFFICES ASSUME NEW s \in Slots PROVE EntryInv(s)'
  OBVIOUS
<1>2. DirtyUnique(s)'
  BY TablesKept
<1>3. DirtyBytes(s)'
  BY DEF BytesInv, EntryInv, DirtyBytes, Writer
<1>4. Filled(s)' => Filled(s)
  BY DEF Filled
<1>5. CleanBytes(s)'
  BY <1>4 DEF BytesInv, EntryInv, CleanBytes
<1>6. QED
  BY <1>2, <1>3, <1>5 DEF EntryInv

LEMMA ThreadBytes ==
  ASSUME StoredInv, BytesInv, NEW c \in Clients,
         UNCHANGED <<slot, data, local, base, staged, gc, gen, seq, cur, up, poll>>,
         \A k \in Clients \ {c} : cl'[k] = cl[k],
         cl'[c].op = "write" => /\ cl[c].op = "write" /\ cl'[c].a = cl[c].a
                                /\ cl'[c].v # None => cl'[c].v = cl[c].v,
         cl[c].pc \notin {"bytes", "done"},
         cl'[c].pc \in {"ready", "done"} =>
            slot[cl'[c].s].valid \/ (cl[c].pc = "ready" /\ cl[c].s = cl'[c].s),
         ThreadInv(c) /\ AcceptableKept => ThreadInv(c)'
  PROVE  BytesInv'
<1>1. NamesFresh' /\ \A a \in Addr : CleanBacked(a)'
  BY TablesKept
<1>2. \A s \in Slots : EntryInv(s)'
  BY EntriesKept
<1>3. AcceptableKept
  BY AcceptableShrinks DEF Acceptable
<1>4. ASSUME NEW k \in Clients PROVE ThreadInv(k)'
  <2>1. CASE k = c
    BY <1>3, <2>1 DEF BytesInv
  <2>2. CASE k # c
    <3>1. ThreadInv(k) /\ cl'[k] = cl[k]
      BY <2>2 DEF BytesInv
    <3>2. \A j \in Clients : cl'[j].op = "write" => cl[j].op = "write"
      OBVIOUS
    <3>3. cl[k].op = "write" => \A j \in Clients : cl'[j].op = "write" => j = k
      BY <3>1, <3>2 DEF ThreadInv, WriterOK
    <3>4. QED
      BY <1>3, <3>1, <3>3, ThreadKept
  <2>3. QED
    BY <2>1, <2>2
<1>5. UploadCurrent'
  <2>1. Publishing => \A k \in Clients : cl'[k].op # "write"
    BY DEF BytesInv, UploadCurrent
  <2>2. QED
    BY <2>1, UploadKept DEF BytesInv
<1>6. QED
  BY <1>1, <1>2, <1>4, <1>5 DEF BytesInv

LEMMA CallIs ==
  ASSUME NEW op, NEW a, NEW v
  PROVE  /\ Call(op, a, v).pc = "begin" /\ Call(op, a, v).op = op /\ Call(op, a, v).a = a
         /\ Call(op, a, v).v = v /\ Call(op, a, v).s = None
         /\ Call(op, a, v).ok = IF op = "read" THEN Acceptable(a) ELSE {}
  BY DEF Call, IdleClient

LEMMA IdleIs == IdleClient.pc = "idle" /\ IdleClient.op = "read"
  BY DEF IdleClient

(* An idle thread has no obligations.                                      *)
LEMMA IdleThread ==
  ASSUME NEW c \in Clients, cl'[c] = IdleClient
  PROVE  ThreadInv(c)'
  BY IdleIs DEF ThreadInv, WriterOK, ReaderOK

LEMMA ReadBytesInv ==
  ASSUME StoredInv, BytesInv, NEW c \in Clients, NEW a \in Addr, Read(c, a)
  PROVE  BytesInv'
<1> DEFINE n == Call("read", a, None)
<1>1. /\ cl' = [cl EXCEPT ![c] = n] /\ cl[c].pc = "idle"
      /\ UNCHANGED <<slot, data, local, base, staged, gc, gen, seq, cur, up, poll>>
  BY DEF Read, durable
<1>2. n.pc = "begin" /\ n.op = "read" /\ n.a = a /\ n.ok = Acceptable(a)
  BY CallIs
<1> HIDE DEF n
<1>3. cl'[c] = n /\ \A k \in Clients \ {c} : cl'[k] = cl[k]
  BY <1>1, Kinds
<1>4. ASSUME AcceptableKept PROVE ThreadInv(c)'
  <2>1. Acceptable(a)' \subseteq n.ok
    BY <1>2, <1>4 DEF AcceptableKept
  <2>2. QED
    BY <1>2, <1>3, <2>1 DEF ThreadInv, WriterOK, ReaderOK, IOPhases
<1>5. QED
  BY <1>1, <1>2, <1>3, <1>4, ThreadBytes

(* The step leaves the thread without an entry.                            *)
LEMMA ReleaseBytesInv ==
  ASSUME StoredInv, BytesInv, NEW c \in Clients, ShortRead(c) \/ StageNothing(c)
  PROVE  BytesInv'
<1>1. /\ cl' = [cl EXCEPT ![c] = IdleClient] /\ cl[c].pc \in {"begin", "full"}
      /\ UNCHANGED <<slot, data, local, base, staged, gc, gen, seq, cur, up, poll>>
  BY DEF ShortRead, StageNothing, Done, durable
<1>2. cl'[c] = IdleClient /\ \A k \in Clients \ {c} : cl'[k] = cl[k]
  BY <1>1, Kinds
<1>3. QED
  BY <1>1, <1>2, IdleThread, IdleIs, ThreadBytes

(* The step changes the program counter only, before or after the I/O.     *)
LEMMA MoveBytesInv ==
  ASSUME StoredInv, BytesInv, NEW c \in Clients,
         WaitForEntry(c) \/ CacheFull(c) \/ CopyFull(c) \/ StagePut(c)
  PROVE  BytesInv'
<1>1. UNCHANGED <<slot, data, local, base, staged, gc, gen, seq, cur, up, poll>>
  BY DEF WaitForEntry, CacheFull, CopyFull, StagePut, durable
<1>2. cl[c].pc \in {"begin", "wait", "ready", "put"}
  BY DEF WaitForEntry, CacheFull, CopyFull, StagePut, Misses, Looking, Rewrites
<1>3. /\ \A k \in Clients \ {c} : cl'[k] = cl[k]
      /\ cl'[c].op = cl[c].op /\ cl'[c].a = cl[c].a /\ cl'[c].v = cl[c].v /\ cl'[c].ok = cl[c].ok
      /\ cl'[c].pc \in {"wait", "full", "persist"}
  <2>1. CASE WaitForEntry(c)
    BY <2>1, Kinds DEF WaitForEntry, ClientType
  <2>2. CASE CacheFull(c)
    BY <2>2, Kinds DEF CacheFull, ClientType
  <2>3. CASE CopyFull(c)
    BY <2>3, Kinds DEF CopyFull, ClientType
  <2>4. CASE StagePut(c)
    <3>1. PICK K : cl' = [cl EXCEPT ![c].pc = "persist", ![c].ack = K]
      BY <2>4 DEF StagePut
    <3>2. QED
      BY <3>1, Kinds DEF ClientType
  <2>5. QED
    BY <2>1, <2>2, <2>3, <2>4
<1>4. ASSUME ThreadInv(c), AcceptableKept PROVE ThreadInv(c)'
  <2>1. cl[c].a \in Addr
    BY <1>2, ThreadKinds
  <2>2. Acceptable(cl[c].a)' \subseteq Acceptable(cl[c].a)
    BY <1>3, <1>4, <2>1 DEF AcceptableKept
  <2>3. ReaderOK(c)'
    BY <1>2, <1>3, <1>4, <2>2 DEF ThreadInv, ReaderOK, IOPhases
  <2>4. WriterOK(c)'
    BY <1>3, <1>4 DEF ThreadInv, WriterOK
  <2>5. QED
    BY <1>3, <2>3, <2>4 DEF ThreadInv
<1>5. QED
  BY <1>1, <1>2, <1>3, <1>4, ThreadBytes

(* A hit gives a reader bytes it may return, a writer the current entry.   *)
LEMMA CacheHitBytesInv ==
  ASSUME StoredInv, BytesInv, NEW c \in Clients, CacheHit(c)
  PROVE  BytesInv'
<1>1. /\ UNCHANGED <<slot, data, local, base, staged, gc, gen, seq, cur, up, poll>>
      /\ cl[c].pc \in {"begin", "wait"}
  BY DEF CacheHit, Looking, durable
<1>2. PICK s \in Named(local[cl[c].a]) :
         slot[s].valid /\ ~Staging(s) /\ cl' = [cl EXCEPT ![c].pc = "ready", ![c].s = s]
  BY DEF CacheHit
<1>3. /\ \A k \in Clients \ {c} : cl'[k] = cl[k]
      /\ cl'[c].op = cl[c].op /\ cl'[c].a = cl[c].a /\ cl'[c].v = cl[c].v /\ cl'[c].ok = cl[c].ok
      /\ cl'[c].pc = "ready" /\ cl'[c].s = s
  BY <1>2, Kinds DEF ClientType
<1>4. cl[c].a \in Addr /\ s \in Slots /\ local[cl[c].a] # None /\ slot[s].name = local[cl[c].a]
  BY <1>1, <1>2, ThreadKinds DEF Named
<1>5. ASSUME ThreadInv(c), AcceptableKept PROVE ThreadInv(c)'
  <2>1. WriterOK(c)'
    BY <1>1, <1>3, <1>4, <1>5 DEF ThreadInv, WriterOK
  <2>2. ReaderOK(c)'
    <3>1. SUFFICES ASSUME cl[c].op = "read" PROVE ReaderOK(c)'
      BY <1>3 DEF ReaderOK
    <3>2. Acceptable(cl[c].a)' \subseteq Acceptable(cl[c].a) /\ Acceptable(cl[c].a) \subseteq cl[c].ok
      BY <1>1, <1>3, <1>4, <1>5, <3>1 DEF AcceptableKept, ThreadInv, ReaderOK
    <3>3. data[s] \in Acceptable(cl[c].a)
      <4>1. CASE data[s] \in cur[cl[c].a]
        BY <4>1 DEF Acceptable
      <4>2. ASSUME NEW k \in Clients, Writer(k, s), cl[k].a = cl[c].a, data[s] = cl[k].v
            PROVE  data[s] \in Acceptable(cl[c].a)
        <5>1. cl[k].op = "write" /\ cl[k].v # None
          BY <4>2, <1>4, Kinds, NoneNot DEF Writer
        <5>2. QED
          BY <4>2, <5>1 DEF Acceptable, InFlight
      <4>3. QED
        BY <1>2, <1>4, <4>1, <4>2, ResidentBytes
    <3>4. slot[s].dirty => slot[s].addr = cl[c].a
      BY <1>4, DirtyOwner, SelfId
    <3>5. QED
      BY <1>1, <1>3, <1>4, <3>2, <3>3, <3>4 DEF ReaderOK
  <2>3. QED
    BY <1>3, <2>1, <2>2 DEF ThreadInv
<1>6. QED
  BY <1>1, <1>2, <1>3, <1>5, ThreadBytes

LEMMA ReadBytesBytesInv ==
  ASSUME StoredInv, BytesInv, NEW c \in Clients, ReadBytes(c)
  PROVE  BytesInv'
<1>1. /\ UNCHANGED <<slot, data, local, base, staged, gc, gen, seq, cur, up, poll>>
      /\ cl[c].pc = "ready" /\ cl[c].op = "read"
  BY DEF ReadBytes, durable
<1>2. /\ \A k \in Clients \ {c} : cl'[k] = cl[k]
      /\ cl'[c].op = cl[c].op /\ cl'[c].a = cl[c].a /\ cl'[c].s = cl[c].s /\ cl'[c].ok = cl[c].ok
      /\ cl'[c].pc = "done" /\ cl'[c].v = data[cl[c].s]
  BY Kinds DEF ReadBytes, ClientType
<1>3. ASSUME ThreadInv(c), AcceptableKept PROVE ThreadInv(c)'
  <2>1. cl[c].a \in Addr
    BY <1>1, ThreadKinds
  <2>2. Acceptable(cl[c].a)' \subseteq Acceptable(cl[c].a)
    BY <1>2, <1>3, <2>1 DEF AcceptableKept
  <2>3. ReaderOK(c)'
    BY <1>1, <1>2, <1>3, <2>2 DEF ThreadInv, ReaderOK, IOPhases
  <2>4. QED
    BY <1>1, <1>2, <2>3 DEF ThreadInv, WriterOK
<1>4. QED
  BY <1>1, <1>2, <1>3, ThreadBytes

(* A writer's dirty entry is that of its block.                            *)
LEMMA AlreadyDirtyBytesInv ==
  ASSUME StoredInv, BytesInv, NEW c \in Clients, AlreadyDirty(c)
  PROVE  BytesInv'
<1>1. /\ UNCHANGED <<slot, data, local, base, staged, gc, gen, seq, cur, up, poll>>
      /\ cl[c].pc = "ready" /\ cl[c].op = "write" /\ slot[cl[c].s].dirty
  BY DEF AlreadyDirty, durable
<1>2. /\ \A k \in Clients \ {c} : cl'[k] = cl[k]
      /\ cl'[c].op = cl[c].op /\ cl'[c].a = cl[c].a /\ cl'[c].s = cl[c].s /\ cl'[c].v = cl[c].v
      /\ cl'[c].pc = "bytes"
  BY Kinds DEF AlreadyDirty, ClientType
<1>3. cl[c].s \in Slots /\ cl[c].a \in Addr
  BY <1>1, ThreadKinds DEF IOPhases
<1>4. slot[cl[c].s].name = local[cl[c].a] /\ \A k \in Clients : cl[k].op = "write" => k = c
  BY <1>1 DEF BytesInv, ThreadInv, WriterOK
<1>5. slot[cl[c].s].addr = cl[c].a
  BY <1>1, <1>3, <1>4, DirtyOwner, DirtyKinds, SelfId
<1>6. ~\E k \in Clients : Writer(k, cl[c].s)
  BY <1>1, <1>4 DEF Writer
<1>7. data[cl[c].s] \in cur[cl[c].a]
  BY <1>1, <1>3, <1>5, <1>6 DEF BytesInv, EntryInv, DirtyBytes
<1>8. ThreadInv(c)'
  BY <1>1, <1>2, <1>4, <1>5, <1>7 DEF ThreadInv, WriterOK, ReaderOK
<1>9. QED
  BY <1>1, <1>2, <1>8, ThreadBytes

(* The only writer starts: every reader of the block may now return the    *)
(* new bytes too.                                                          *)
LEMMA WriteBytesInv ==
  ASSUME Faultless, StoredInv, BytesInv, NEW c \in Clients, NEW a \in Addr, NEW v \in Contents,
         Write(c, a, v)
  PROVE  BytesInv'
<1> DEFINE n == Call("write", a, v)
<1>1. /\ UNCHANGED <<slot, data, local, base, staged, gc, gen, seq, cur, up, poll>>
      /\ cl[c].pc = "idle" /\ Writing(a[1]) = {} /\ ~UploadLocks(a[1])
  BY DEF Write, durable
<1>2. n.pc = "begin" /\ n.op = "write" /\ n.a = a /\ n.v = v
  BY CallIs
<1>3. cl' = [k \in Clients |->
                IF k = c THEN n
                ELSE IF cl[k].op = "read" /\ cl[k].a = a
                     THEN [cl[k] EXCEPT !.ok = cl[k].ok \cup {v}]
                     ELSE cl[k]]
  BY DEF Write
<1> HIDE DEF n
<1>4. cl'[c] = n
  BY <1>3
<1>5. ASSUME NEW k \in Clients \ {c}
      PROVE  /\ cl'[k].pc = cl[k].pc /\ cl'[k].op = cl[k].op /\ cl'[k].s = cl[k].s
             /\ cl'[k].a = cl[k].a /\ cl'[k].v = cl[k].v /\ cl[k].ok \subseteq cl'[k].ok
             /\ cl[k].op = "read" /\ cl[k].a = a => v \in cl'[k].ok
  BY <1>3, <1>5, Kinds DEF ClientType
<1>6. \A k \in Clients : cl[k].op # "write"
  <2>1. SUFFICES ASSUME NEW k \in Clients, cl[k].op = "write" PROVE FALSE
    OBVIOUS
  <2>2. cl[k].a \in Addr
    BY <2>1, ThreadKinds
  <2>3. cl[k].a[1] = a[1]
    BY <2>2 DEF Faultless, Addr
  <2>4. QED
    BY <1>1, <2>1, <2>3 DEF Writing
<1>7. ~Publishing
  BY <1>1 DEF BytesInv, UploadCurrent, BlockOK, UploadLocks, Publishing
<1>8. NamesFresh' /\ \A b \in Addr : CleanBacked(b)'
  BY <1>1, TablesKept
<1>9. \A s \in Slots : EntryInv(s)'
  BY <1>1, <1>2, <1>4, <1>5, EntriesKept
<1>10. \A b \in Addr : Acceptable(b)' \subseteq Acceptable(b) \cup (IF b = a THEN {v} ELSE {})
  <2>1. ASSUME NEW b \in Addr, NEW k \in InFlight(b)' PROVE k = c /\ b = a /\ cl'[k].v = v
    BY <1>2, <1>4, <1>5, <1>6, <2>1 DEF InFlight
  <2>2. QED
    BY <1>1, <2>1 DEF Acceptable
<1>11. ASSUME NEW k \in Clients PROVE ThreadInv(k)'
  <2>1. CASE k = c
    <3>1. \A j \in Clients : cl'[j].op = "write" => j = c
      BY <1>5, <1>6
    <3>2. QED
      BY <1>2, <1>4, <2>1, <3>1 DEF ThreadInv, WriterOK, ReaderOK
  <2>2. CASE k # c
    <3>1. ThreadInv(k)
      BY DEF BytesInv
    <3>2. WriterOK(k)'
      BY <1>5, <1>6, <2>2 DEF WriterOK
    <3>3. ReaderOK(k)'
      <4>1. SUFFICES ASSUME cl[k].op = "read", cl[k].pc \notin {"idle", "null"} PROVE ReaderOK(k)'
        BY <1>5, <2>2 DEF ReaderOK
      <4>2. cl[k].a \in Addr
        BY <4>1, ThreadKinds
      <4>3. Acceptable(cl[k].a)' \subseteq cl'[k].ok
        <5>1. Acceptable(cl[k].a) \subseteq cl[k].ok
          BY <3>1, <4>1 DEF ThreadInv, ReaderOK
        <5>2. QED
          BY <1>5, <1>10, <2>2, <4>1, <4>2, <5>1
      <4>4. QED
        BY <1>1, <1>5, <2>2, <3>1, <4>1, <4>3 DEF ThreadInv, ReaderOK
    <3>4. QED
      BY <1>1, <1>5, <2>2, <3>1, <3>2, <3>3 DEF ThreadInv
  <2>3. QED
    BY <2>1, <2>2
<1>12. UploadCurrent'
  BY <1>1, <1>7 DEF UploadCurrent, Publishing
<1>13. QED
  BY <1>1, <1>8, <1>9, <1>11, <1>12 DEF BytesInv

-----------------------------------------------------------------------------
(* Steps of a thread on its entry.                                         *)

LEMMA FreeSlot ==
  ASSUME StoredInv, NEW t \in AllocCacheEntry
  PROVE  /\ t \in Slots /\ ~slot[t].dirty
         /\ \A k \in Clients : cl[k].s # t
         /\ \A r \in up.recs : r.s # t
<1>1. t \in Slots /\ ~Pinned(t) /\ (slot[t].name = None \/ ~slot[t].dirty)
  BY DEF AllocCacheEntry, Unused, Evictable
<1>2. ~slot[t].dirty
  BY <1>1, DirtyKinds
<1>3. QED
  BY <1>1, <1>2 DEF Pinned, Holders

(* A step that changes one clean entry to another clean entry, which bears *)
(* no name, its own, or the name of a block that is not resident.          *)
LEMMA OneCleanEntry ==
  ASSUME StoredInv, BytesInv, NEW t \in Slots, ~slot[t].dirty, ~slot'[t].dirty,
         \A s \in Slots : s # t => slot'[s] = slot[s],
         UNCHANGED <<local, base, staged, gc, gen, cur>>,
         \/ slot'[t].name \in {None, slot[t].name}
         \/ \E a \in Addr : slot'[t].name = local[a] /\ Named(local[a]) = {}
  PROVE  /\ NamesFresh' /\ \A a \in Addr : CleanBacked(a)'
         /\ \A s \in Slots : DirtyUnique(s)'
         /\ \A a \in Addr : DirtyAt(a)' = DirtyAt(a)
<1>1. ASSUME NEW n, n # None, SameId(slot'[t].name, n)
      PROVE  \/ SameId(slot[t].name, n) /\ slot'[t].name = slot[t].name
             \/ \E a \in Addr : slot'[t].name = local[a] /\ Named(local[a]) = {} /\ SameId(local[a], n)
  BY <1>1 DEF SameId
<1>2. NamesFresh'
  BY DEF BytesInv, NamesFresh
<1>3. \A a \in Addr : DirtyAt(a)' = DirtyAt(a)
  BY DEF DirtyAt
<1>4. ASSUME NEW a \in Addr PROVE CleanBacked(a)'
  <2>1. CASE local[a] = None
    BY <2>1 DEF BytesInv, CleanBacked
  <2>2. CASE local[a] # None /\ DirtyAt(a) = {}
    <3>1. ASSUME SameId(slot'[t].name, local[a]) PROVE slot'[t].name = local[a]
      BY <1>1, <2>2, <3>1 DEF BytesInv, CleanBacked, NamesFresh
    <3>2. \A s \in Slots : SameId(slot'[s].name, local[a]) => slot'[s].name = local[a]
      BY <2>2, <3>1 DEF BytesInv, CleanBacked
    <3>3. QED
      BY <1>3, <2>2, <3>2 DEF BytesInv, CleanBacked, StagedFind
  <2>3. CASE local[a] # None /\ DirtyAt(a) # {}
    BY <1>3, <2>3 DEF CleanBacked
  <2>4. QED
    BY <2>1, <2>2, <2>3
<1>5. ASSUME NEW s \in Slots PROVE DirtyUnique(s)'
  <2>1. SUFFICES ASSUME slot'[s].dirty PROVE DirtyUnique(s)'
    BY DEF DirtyUnique
  <2>2. s # t /\ slot'[s] = slot[s] /\ DirtyUnique(s) /\ slot[s].dirty
    BY <2>1 DEF BytesInv, EntryInv
  <2>3. slot[s].name # None /\ slot[s].addr \in Addr
    BY <2>2, DirtyKinds
  <2>4. ~SameId(slot'[t].name, slot[s].name)
    <3>1. SUFFICES ASSUME SameId(slot'[t].name, slot[s].name) PROVE FALSE
      OBVIOUS
    <3>2. ~SameId(slot[t].name, slot[s].name)
      BY <2>2 DEF DirtyUnique
    <3>3. PICK a \in Addr : Named(local[a]) = {} /\ SameId(local[a], slot[s].name)
      BY <1>1, <2>3, <3>1, <3>2
    <3>4. slot[s].name = local[a]
      BY <2>2, <3>3, DirtyOwner DEF SameId
    <3>5. QED
      BY <2>3, <3>3, <3>4 DEF Named
  <2>5. QED
    BY <2>2, <2>4 DEF DirtyUnique
<1>6. QED
  BY <1>2, <1>3, <1>4, <1>5

LEMMA UploadOneEntry ==
  ASSUME StoredInv, UploadCurrent, NEW t, UNCHANGED <<local, up>>,
         \A s \in Slots : s # t => slot'[s] = slot[s] /\ data'[s] = data[s],
         \A a \in Addr : DirtyAt(a)' = DirtyAt(a),
         Publishing => \A r \in up.recs : r.s # t,
         Publishing => \A k \in Clients : cl'[k].op # "write"
  PROVE  UploadCurrent'
<1>1. SUFFICES ASSUME Publishing PROVE UploadCurrent'
  BY DEF UploadCurrent, Publishing
<1>2. \A r \in up.recs : slot'[r.s] = slot[r.s] /\ data'[r.s] = data[r.s]
  BY <1>1, Kinds DEF UploadType
<1>3. \A r \in up.recs : RecordOK(r)'
  BY <1>1, <1>2 DEF UploadCurrent, RecordOK
<1>4. \A a \in Addr : BlockOK(a)'
  BY <1>1, <1>2 DEF UploadCurrent, BlockOK
<1>5. QED
  BY <1>1, <1>3, <1>4 DEF UploadCurrent

(* A miss takes a free slot for a block that is not resident, and fetches  *)
(* it if it has a name.                                                    *)
LEMMA CacheMissBytesInv ==
  ASSUME StoredInv, BytesInv, NEW c \in Clients, CacheMiss(c)
  PROVE  BytesInv'
<1> DEFINE a == cl[c].a
           n == local[a]
           fromStage == base.blk[a] = None /\ n # None /\ StagedFind(a, n)
           fetch == n # None /\ (base.blk[a] # None \/ fromStage)
           e == [Entry(n, None) EXCEPT !.staged = fromStage]
<1>1. /\ UNCHANGED <<data, local, base, staged, gc, gen, seq, cur, up, poll>>
      /\ Misses(c)
  BY DEF CacheMiss
<1>2. PICK t \in AllocCacheEntry :
         /\ slot' = [slot EXCEPT ![t] = e]
         /\ cl' = [cl EXCEPT ![c].s = t, ![c].pc = IF fetch THEN "fetch" ELSE "ready"]
  BY DEF CacheMiss
<1>3. e.name = n /\ e.dirty = FALSE /\ e.valid = FALSE
  BY DEF Entry, FreeEntry
<1>4. /\ cl[c].pc \in {"begin", "wait"} /\ Named(n) = {} /\ (n = None => cl[c].op = "write")
      /\ a \in Addr
  BY <1>1, ThreadKinds DEF Misses, Looking
<1>5. /\ \A k \in Clients \ {c} : cl'[k] = cl[k]
      /\ cl'[c].op = cl[c].op /\ cl'[c].a = a /\ cl'[c].v = cl[c].v /\ cl'[c].ok = cl[c].ok
      /\ cl'[c].s = t /\ cl'[c].pc = IF fetch THEN "fetch" ELSE "ready"
  BY <1>2, Kinds DEF ClientType
<1>6. /\ t \in Slots /\ ~slot[t].dirty /\ (\A k \in Clients : cl[k].s # t)
      /\ \A r \in up.recs : r.s # t
  BY FreeSlot
<1>7. slot'[t] = e /\ \A s \in Slots : s # t => slot'[s] = slot[s]
  BY <1>2, <1>6, Kinds
<1>8. n # None => n.md5 \in cur[a] /\ fetch
  <2>1. SUFFICES ASSUME n # None PROVE n.md5 \in cur[a] /\ fetch
    OBVIOUS
  <2>2. DirtyAt(a) = {}
    BY <1>4, <2>1 DEF BytesInv, EntryInv, DirtyUnique, DirtyAt, Named
  <2>3. QED
    BY <1>4, <2>1, <2>2 DEF BytesInv, CleanBacked
<1> HIDE DEF e, fetch, n, a
<1>9. /\ NamesFresh' /\ \A b \in Addr : CleanBacked(b)'
      /\ \A s \in Slots : DirtyUnique(s)'
      /\ \A b \in Addr : DirtyAt(b)' = DirtyAt(b)
  BY <1>1, <1>3, <1>4, <1>6, <1>7, OneCleanEntry DEF n
<1>10. ASSUME NEW s \in Slots PROVE DirtyBytes(s)' /\ CleanBytes(s)'
  <2>1. CASE s = t
    <3>1. DirtyBytes(s)'
      BY <1>3, <1>7, <2>1 DEF DirtyBytes
    <3>2. slot'[t].name # None => ~Filled(t)'
      BY <1>3, <1>5, <1>6, <1>7, <1>8 DEF Filled
    <3>3. QED
      BY <1>3, <1>7, <2>1, <3>1, <3>2 DEF CleanBytes
  <2>2. CASE s # t
    <3>1. slot'[s] = slot[s] /\ EntryInv(s)
      BY <1>7, <2>2 DEF BytesInv
    <3>2. \A k \in Clients : Writer(k, s) => Writer(k, s)'
      BY <1>4, <1>5 DEF Writer
    <3>3. Filled(s)' => Filled(s)
      BY <1>1, <1>5, <2>2, <3>1 DEF Filled
    <3>4. QED
      BY <1>1, <3>1, <3>2, <3>3 DEF EntryInv, DirtyBytes, CleanBytes
  <2>3. QED
    BY <2>1, <2>2
<1>11. AcceptableKept
  <2>1. \A b \in Addr : cur'[b] \subseteq Acceptable(b)
    BY <1>1 DEF Acceptable
  <2>2. QED
    BY <1>5, <2>1, AcceptableShrinks DEF a
<1>12. ASSUME NEW k \in Clients PROVE ThreadInv(k)'
  <2>1. ThreadInv(k)
    BY DEF BytesInv
  <2>2. CASE k # c
    <3>1. cl[k].pc \in IOPhases => slot'[cl[k].s] = slot[cl[k].s]
      BY <1>6, <1>7, ThreadKinds
    <3>2. cl[k].op = "write" => \A j \in Clients : cl'[j].op = "write" => j = k
      BY <1>5, <2>1, <2>2 DEF ThreadInv, WriterOK
    <3>3. QED
      BY <1>1, <1>5, <1>11, <2>1, <2>2, <3>1, <3>2, ThreadKept
  <2>3. CASE k = c
    <3>1. WriterOK(c)'
      BY <1>1, <1>3, <1>5, <1>7, <2>1, <2>3 DEF ThreadInv, WriterOK, n
    <3>2. ReaderOK(c)'
      <4>1. SUFFICES ASSUME cl[c].op = "read" PROVE ReaderOK(c)'
        BY <1>5 DEF ReaderOK
      <4>2. n # None /\ n.md5 \in cur[a] /\ fetch
        BY <1>4, <1>8, <4>1
      <4>3. Acceptable(a) \subseteq cl[c].ok
        BY <1>4, <2>1, <2>3, <4>1 DEF ThreadInv, ReaderOK, a
      <4>4. Acceptable(cl[c].a)' \subseteq Acceptable(a)
        BY <1>4, <1>5, <1>11 DEF AcceptableKept
      <4>5. n.md5 \in cl[c].ok
        BY <4>2, <4>3 DEF Acceptable
      <4>6. QED
        BY <1>3, <1>5, <1>7, <4>2, <4>3, <4>4, <4>5 DEF ReaderOK
    <3>3. QED
      BY <1>3, <1>5, <1>7, <1>8, <2>3, <3>1, <3>2 DEF ThreadInv, fetch
  <2>4. QED
    BY <2>2, <2>3
<1>13. UploadCurrent'
  BY <1>1, <1>5, <1>6, <1>7, <1>9, UploadOneEntry DEF BytesInv, UploadCurrent
<1>14. QED
  BY <1>1, <1>9, <1>10, <1>12, <1>13 DEF BytesInv, EntryInv

(* The object of a block name holds the bytes the name stands for.         *)
LEMMA FetchBlockBytesInv ==
  ASSUME StoredInv, ContentInv, BytesInv, NEW c \in Clients, FetchBlock(c)
  PROVE  BytesInv'
<1> DEFINE t == cl[c].s
<1>1. UNCHANGED <<local, base, staged, gc, gen, seq, cur, up, poll>> /\ cl[c].pc = "fetch"
  BY DEF FetchBlock
<1>2. /\ t \in Slots /\ ~slot[t].dirty /\ ~slot[t].valid /\ slot[t].name # None
      /\ \A k \in Clients \ {c} : cl[k].s # t
  BY <1>1, ThreadKinds DEF IOPhases, BytesInv, ThreadInv, StoredInv, EntriesOK
<1>3. Publishing => \A r \in up.recs : r.s # t
  BY <1>2 DEF BytesInv, UploadCurrent, RecordOK
<1>4. CASE /\ slot[t].name \in DOMAIN obj
           /\ data' = [data EXCEPT ![t] = obj[slot[t].name]]
           /\ cl' = [cl EXCEPT ![c].pc = "ready", ![c].wb = TRUE]
           /\ UNCHANGED slot
  <2>1. data'[t] = slot[t].name.md5 /\ \A s \in Slots : s # t => data'[s] = data[s]
    BY <1>2, <1>4, Kinds DEF ContentInv, Addressed
  <2>2. /\ \A k \in Clients \ {c} : cl'[k] = cl[k]
        /\ cl'[c].op = cl[c].op /\ cl'[c].a = cl[c].a /\ cl'[c].v = cl[c].v
        /\ cl'[c].ok = cl[c].ok /\ cl'[c].s = t /\ cl'[c].pc = "ready"
    BY <1>4, Kinds DEF ClientType
  <2>3. /\ NamesFresh' /\ \A b \in Addr : CleanBacked(b)'
        /\ \A s \in Slots : DirtyUnique(s)'
    BY <1>1, <1>4, TablesKept
  <2>4. ASSUME NEW s \in Slots PROVE DirtyBytes(s)' /\ CleanBytes(s)'
    <3>1. CASE s = t
      BY <1>2, <1>4, <2>1, <3>1 DEF DirtyBytes, CleanBytes
    <3>2. CASE s # t
      <4>1. EntryInv(s)
        BY DEF BytesInv
      <4>2. \A k \in Clients : Writer(k, s) => Writer(k, s)'
        BY <1>1, <2>2 DEF Writer
      <4>3. Filled(s)' => Filled(s)
        BY <1>1, <1>4, <2>2, <3>2 DEF Filled
      <4>4. QED
        BY <1>1, <1>4, <2>1, <3>2, <4>1, <4>2, <4>3 DEF EntryInv, DirtyBytes, CleanBytes
    <3>3. QED
      BY <3>1, <3>2
  <2>5. AcceptableKept
    BY <1>1, <2>2, AcceptableShrinks DEF Acceptable
  <2>6. ASSUME NEW k \in Clients PROVE ThreadInv(k)'
    <3>1. ThreadInv(k)
      BY DEF BytesInv
    <3>2. CASE k # c
      <4>1. cl[k].pc \in IOPhases => data'[cl[k].s] = data[cl[k].s]
        BY <1>2, <2>1, <3>2, ThreadKinds
      <4>2. cl[k].op = "write" => \A j \in Clients : cl'[j].op = "write" => j = k
        BY <2>2, <3>1, <3>2 DEF ThreadInv, WriterOK
      <4>3. QED
        BY <1>1, <1>4, <2>2, <2>5, <3>1, <3>2, <4>1, <4>2, ThreadKept
    <3>3. CASE k = c
      <4>1. WriterOK(c)'
        BY <1>1, <1>4, <2>2, <3>1, <3>3 DEF ThreadInv, WriterOK
      <4>2. Acceptable(cl[c].a)' \subseteq Acceptable(cl[c].a)
        BY <1>1, <2>2, <2>5, ThreadKinds DEF AcceptableKept
      <4>3. ReaderOK(c)'
        BY <1>1, <1>4, <2>1, <2>2, <3>1, <3>3, <4>2 DEF ThreadInv, ReaderOK, IOPhases
      <4>4. QED
        BY <2>2, <3>3, <4>1, <4>3 DEF ThreadInv
    <3>4. QED
      BY <3>2, <3>3
  <2>7. UploadCurrent'
    <3>1. \A b \in Addr : DirtyAt(b)' = DirtyAt(b)
      BY <1>4 DEF DirtyAt
    <3>2. Publishing => \A k \in Clients : cl'[k].op # "write"
      BY <2>2 DEF BytesInv, UploadCurrent
    <3>3. QED
      BY <1>1, <1>3, <1>4, <2>1, <3>1, <3>2, UploadOneEntry DEF BytesInv
  <2>8. QED
    BY <1>1, <2>3, <2>4, <2>6, <2>7 DEF BytesInv, EntryInv
<1>5. CASE slot' = [slot EXCEPT ![t] = FreeEntry] /\ Done(c) /\ UNCHANGED data
  <2>1. slot'[t] = FreeEntry /\ \A s \in Slots : s # t => slot'[s] = slot[s]
    BY <1>2, <1>5, Kinds
  <2>2. cl'[c] = IdleClient /\ \A k \in Clients \ {c} : cl'[k] = cl[k]
    BY <1>5, Kinds DEF Done
  <2>3. FreeEntry.name = None /\ FreeEntry.dirty = FALSE /\ FreeEntry.valid = FALSE
    BY DEF FreeEntry
  <2>4. /\ NamesFresh' /\ \A b \in Addr : CleanBacked(b)'
        /\ \A s \in Slots : DirtyUnique(s)'
        /\ \A b \in Addr : DirtyAt(b)' = DirtyAt(b)
    BY <1>1, <1>2, <2>1, <2>3, OneCleanEntry
  <2>5. ASSUME NEW s \in Slots PROVE DirtyBytes(s)' /\ CleanBytes(s)'
    <3>1. CASE s = t
      BY <2>1, <2>3, <3>1 DEF DirtyBytes, CleanBytes
    <3>2. CASE s # t
      <4>1. EntryInv(s) /\ slot'[s] = slot[s]
        BY <2>1, <3>2 DEF BytesInv
      <4>2. \A k \in Clients : Writer(k, s) => Writer(k, s)'
        BY <1>1, <2>2 DEF Writer
      <4>3. Filled(s)' => Filled(s)
        BY <1>1, <2>2, <4>1, IdleIs DEF Filled
      <4>4. QED
        BY <1>1, <1>5, <4>1, <4>2, <4>3 DEF EntryInv, DirtyBytes, CleanBytes
    <3>3. QED
      BY <3>1, <3>2
  <2>6. AcceptableKept
    BY <1>1, <2>2, IdleIs, AcceptableShrinks DEF Acceptable
  <2>7. ASSUME NEW k \in Clients PROVE ThreadInv(k)'
    <3>1. ThreadInv(k)
      BY DEF BytesInv
    <3>2. CASE k # c
      <4>1. cl[k].pc \in IOPhases => slot'[cl[k].s] = slot[cl[k].s]
        BY <1>2, <2>1, <3>2, ThreadKinds
      <4>2. cl[k].op = "write" => \A j \in Clients : cl'[j].op = "write" => j = k
        BY <2>2, <3>1, <3>2, IdleIs DEF ThreadInv, WriterOK
      <4>3. QED
        BY <1>1, <1>5, <2>2, <2>6, <3>1, <3>2, <4>1, <4>2, ThreadKept
    <3>3. QED
      BY <2>2, <3>2, IdleThread
  <2>8. UploadCurrent'
    <3>1. Publishing => \A k \in Clients : cl'[k].op # "write"
      BY <2>2, IdleIs DEF BytesInv, UploadCurrent
    <3>2. QED
      BY <1>1, <1>3, <1>5, <2>1, <2>4, <3>1, UploadOneEntry DEF BytesInv
  <2>9. QED
    BY <1>1, <2>4, <2>5, <2>7, <2>8 DEF BytesInv, EntryInv
<1>6. QED
  BY <1>4, <1>5 DEF FetchBlock

(* Nobody else uses the entry a writer rewrites or copies to.              *)
LEMMA TargetFree ==
  ASSUME StoredInv, NEW c \in Clients, cl[c].pc = "ready", ~slot[cl[c].s].dirty,
         NEW t \in WritableTargets(c)
  PROVE  t \in Slots /\ ~slot[t].dirty /\ \A k \in Clients \ {c} : cl[k].s # t
<1>1. cl[c].s \in Slots
  BY ThreadKinds DEF IOPhases
<1>2. CASE Shared(c)
  BY <1>2, FreeSlot DEF WritableTargets
<1>3. CASE ~Shared(c)
  <2>1. t = cl[c].s
    BY <1>3 DEF WritableTargets
  <2>2. CASE slot[t].valid
    <3>1. Holders(t) = {c}
      BY <1>3, <2>1, <2>2 DEF Shared
    <3>2. QED
      BY <1>1, <2>1, <3>1 DEF Holders
  <2>3. CASE ~slot[t].valid
    BY <1>1, <2>1, <2>3 DEF StoredInv, EntriesOK
  <2>4. QED
    BY <1>1, <2>1, <2>2, <2>3
<1>4. QED
  BY <1>2, <1>3

(* A rewritten block gets an entry and a name of its own.                  *)
LEMMA MakeBlockWritableBytesInv ==
  ASSUME StoredInv, BytesInv, NEW c \in Clients, MakeBlockWritable(c)
  PROVE  BytesInv'
<1> DEFINE s == cl[c].s
           a == cl[c].a
           n(t) == [gen |-> gen, tag |-> t, md5 |-> None]
           e(t) == [name |-> n(t), addr |-> a, dirty |-> TRUE, staged |-> FALSE,
                    valid |-> t = s /\ slot[s].valid]
<1>1. /\ UNCHANGED <<base, staged, gc, seq, cur, up, poll>> /\ gen' = gen + 1
      /\ cl[c].pc = "ready" /\ cl[c].op = "write" /\ ~slot[s].dirty
  BY DEF MakeBlockWritable, Rewrites
<1>2. PICK t \in WritableTargets(c) :
         /\ slot' = [slot EXCEPT ![t] = e(t)]
         /\ data' = [data EXCEPT ![t] = data[s]]
         /\ local' = [local EXCEPT ![a] = n(t)]
         /\ cl' = [cl EXCEPT ![c].pc = "bytes", ![c].s = t, ![c].wb = TRUE]
  BY DEF MakeBlockWritable
<1>3. t \in Slots /\ ~slot[t].dirty /\ \A k \in Clients \ {c} : cl[k].s # t
  BY <1>1, TargetFree
<1>4. s \in Slots /\ a \in Addr
  BY <1>1, ThreadKinds DEF IOPhases
<1>5. /\ e(t).name = n(t) /\ e(t).addr = a /\ e(t).dirty = TRUE
      /\ (e(t).valid <=> (t = s /\ slot[s].valid))
  OBVIOUS
<1>6. n(t).gen = gen /\ n(t) # None
  BY <1>3, Kinds, NoneNot DEF Name
<1>7. /\ \A k \in Clients \ {c} : cl'[k] = cl[k]
      /\ cl'[c].op = "write" /\ cl'[c].a = a /\ cl'[c].v = cl[c].v
      /\ cl'[c].s = t /\ cl'[c].pc = "bytes"
  BY <1>1, <1>2, Kinds DEF ClientType
<1>8. PICK m : m = n(t)
  OBVIOUS
<1>9. PICK w : w = e(t)
  OBVIOUS
<1>10. /\ slot'[t] = w /\ \A x \in Slots : x # t => slot'[x] = slot[x] /\ data'[x] = data[x]
       /\ data'[t] = data[s]
       /\ local'[a] = m /\ \A b \in Addr : b # a => local'[b] = local[b]
  BY <1>2, <1>3, <1>4, <1>8, <1>9, Kinds
<1>11. /\ w.name = m /\ w.addr = a /\ w.dirty /\ (w.valid => t = s /\ slot[s].valid)
       /\ m.gen = gen /\ m # None
  BY <1>5, <1>6, <1>8, <1>9
<1> HIDE DEF n, e
<1>12. \A k \in Clients : cl[k].op = "write" => k = c
  BY <1>1 DEF BytesInv, ThreadInv, WriterOK
<1>13. slot[s].name = local[a]
  BY <1>1 DEF BytesInv, ThreadInv, WriterOK
<1>14. DirtyAt(a) = {}
  <2>1. CASE local[a] = None
    BY <1>4, <2>1, DirtyKinds DEF BytesInv, EntryInv, DirtyUnique, DirtyAt
  <2>2. CASE local[a] # None
    BY <1>1, <1>4, <1>13, <2>2, NotDirtyAt
  <2>3. QED
    BY <2>1, <2>2
<1>15. /\ \A x \in Slots : ~SameId(m, slot[x].name) /\ ~SameId(slot[x].name, m)
       /\ \A b \in Addr : ~SameId(m, local[b]) /\ ~SameId(local[b], m) /\ ~SameId(base.blk[b], m)
       /\ \A r \in staged \cup gc : ~SameId(r.name, m) /\ ~SameId(m, r.name)
  <2>1. \A x \in Slots : slot[x].name # None => slot[x].name.gen < gen
    BY DEF BytesInv, NamesFresh
  <2>2. \A x \in Slots : slot[x].name # None => slot[x].name.gen # gen
    BY <2>1, Kinds DEF EntryType, Name
  <2>3. \A b \in Addr : /\ local[b] # None => local[b].gen # gen
                        /\ base.blk[b] # None => base.blk[b].gen # gen
    BY Kinds DEF BytesInv, NamesFresh, Name
  <2>4. \A r \in staged \cup gc : r.name.gen # gen
    BY Kinds DEF BytesInv, NamesFresh, Name, StagedRow
  <2>5. QED
    BY <1>11, <2>2, <2>3, <2>4 DEF SameId
<1>16. NamesFresh'
  <2>1. \A k \in Nat : k < gen => k < gen'
    BY <1>1, Kinds
  <2>2. gen < gen'
    BY <1>1, Kinds
  <2>3. \A x \in Slots : slot'[x].name # None => slot'[x].name.gen < gen'
    BY <1>10, <1>11, <2>1, <2>2, Kinds DEF BytesInv, NamesFresh, EntryType, Name
  <2>4. \A b \in Addr : local'[b] # None => local'[b].gen < gen'
    BY <1>10, <1>11, <2>1, <2>2, Kinds DEF BytesInv, NamesFresh, Name
  <2>5. \A b \in Addr : base.blk[b] # None => base.blk[b].gen < gen'
    BY <2>1, Kinds DEF BytesInv, NamesFresh, Name
  <2>6. \A r \in staged \cup gc : r.name.gen < gen'
    BY <2>1, Kinds DEF BytesInv, NamesFresh, Name, StagedRow
  <2>7. \A b, d \in Addr : SameId(local'[b], local'[d]) => b = d
    BY <1>10, <1>15 DEF BytesInv, NamesFresh
  <2>8. QED
    BY <1>1, <2>3, <2>4, <2>5, <2>6, <2>7 DEF NamesFresh
<1>17. ASSUME NEW x \in Slots PROVE DirtyUnique(x)'
  <2>1. CASE x = t
    BY <1>1, <1>10, <1>11, <1>15, <2>1 DEF DirtyUnique
  <2>2. CASE x # t
    <3>1. SUFFICES ASSUME slot[x].dirty PROVE DirtyUnique(x)'
      BY <1>10, <2>2 DEF DirtyUnique
    <3>2. DirtyUnique(x) /\ slot[x].addr \in Addr /\ slot[x].addr # a
      BY <1>14, <3>1, DirtyKinds DEF BytesInv, EntryInv, DirtyAt
    <3>3. QED
      BY <1>1, <1>10, <1>11, <1>15, <2>2, <3>1, <3>2 DEF DirtyUnique
  <2>3. QED
    BY <2>1, <2>2
<1>18. ASSUME NEW b \in Addr PROVE CleanBacked(b)'
  <2>1. CASE b = a
    <3>1. t \in DirtyAt(b)'
      BY <1>3, <1>10, <1>11, <2>1 DEF DirtyAt
    <3>2. QED
      BY <1>10, <1>11, <2>1, <3>1 DEF CleanBacked
  <2>2. CASE b # a
    <3>1. DirtyAt(b)' = DirtyAt(b)
      BY <1>3, <1>10, <1>11, <2>2 DEF DirtyAt
    <3>2. CleanBacked(b) /\ local'[b] = local[b]
      BY <1>10, <2>2 DEF BytesInv
    <3>3. QED
      BY <1>1, <1>10, <1>11, <1>15, <3>1, <3>2 DEF CleanBacked, StagedFind
  <2>3. QED
    BY <2>1, <2>2
<1>19. ASSUME NEW x \in Slots PROVE DirtyBytes(x)' /\ CleanBytes(x)'
  <2>1. CASE x = t
    <3>1. Writer(c, t)'
      BY <1>7 DEF Writer
    <3>2. QED
      BY <1>10, <1>11, <2>1, <3>1 DEF DirtyBytes, CleanBytes
  <2>2. CASE x # t
    <3>1. EntryInv(x) /\ slot'[x] = slot[x] /\ data'[x] = data[x]
      BY <1>10, <2>2 DEF BytesInv
    <3>2. \A k \in Clients : Writer(k, x) => Writer(k, x)'
      BY <1>1, <1>7 DEF Writer
    <3>3. slot[x].name # None /\ Filled(x)' => Filled(x)
      <4>1. ASSUME slot[x].name # None, NEW b \in Addr, local'[b] = slot[x].name
            PROVE  local[b] = slot[x].name
        BY <1>10, <1>15, <4>1, SelfId
      <4>2. QED
        BY <1>7, <2>2, <3>1, <4>1 DEF Filled
    <3>4. QED
      BY <1>1, <3>1, <3>2, <3>3 DEF EntryInv, DirtyBytes, CleanBytes
  <2>3. QED
    BY <2>1, <2>2
<1>20. AcceptableKept
  BY <1>1, <1>7, AcceptableShrinks DEF Acceptable
<1>21. ASSUME NEW k \in Clients PROVE ThreadInv(k)'
  <2>1. ThreadInv(k)
    BY DEF BytesInv
  <2>2. CASE k # c
    <3>1. cl[k].pc \in IOPhases => /\ slot'[cl[k].s] = slot[cl[k].s]
                                   /\ data'[cl[k].s] = data[cl[k].s]
      BY <1>3, <1>10, <2>2, ThreadKinds
    <3>2. QED
      BY <1>7, <1>12, <1>20, <2>1, <2>2, <3>1, ThreadKept
  <2>3. CASE k = c
    <3>1. ASSUME w.valid PROVE data'[t] \in cur[a]
      <4>1. slot[s].valid /\ t = s
        BY <1>11, <3>1
      <4>2. slot[s].name # None
        BY <1>4, <4>1 DEF BytesInv, EntryInv, CleanBytes
      <4>3. data[s] = slot[s].name.md5
        BY <1>1, <1>4, <1>13, <4>1, <4>2 DEF BytesInv, EntryInv, CleanBytes, Filled
      <4>4. local[a].md5 \in cur[a]
        BY <1>4, <1>13, <1>14, <4>2 DEF BytesInv, CleanBacked
      <4>5. QED
        BY <1>10, <1>13, <4>3, <4>4
    <3>2. \A j \in Clients : cl'[j].op = "write" => j = c
      BY <1>7, <1>12
    <3>3. WriterOK(c)'
      BY <1>1, <1>7, <1>10, <1>11, <3>1, <3>2 DEF WriterOK
    <3>4. QED
      BY <1>7, <2>3, <3>3 DEF ThreadInv, ReaderOK
  <2>4. QED
    BY <2>2, <2>3
<1>22. UploadCurrent'
  BY <1>1 DEF BytesInv, UploadCurrent, Publishing
<1>23. QED
  BY <1>1, <1>16, <1>17, <1>18, <1>19, <1>21, <1>22 DEF BytesInv, EntryInv

(* Readers of an entry that is being written may return the new bytes.     *)
LEMMA WriteBytesBytesInv ==
  ASSUME StoredInv, BytesInv, NEW c \in Clients, WriteBytes(c)
  PROVE  BytesInv'
<1> DEFINE s == cl[c].s
           a == cl[c].a
<1>1. /\ UNCHANGED <<slot, local, base, staged, gc, gen, seq, cur, up, poll>>
      /\ cl[c].pc = "bytes" /\ cl[c].op = "write"
  BY ThreadKinds DEF WriteBytes
<1>2. s \in Slots /\ a \in Addr /\ cl[c].v \in Contents
  BY <1>1, ThreadKinds DEF IOPhases
<1>3. data'[s] = cl[c].v /\ \A x \in Slots : x # s => data'[x] = data[x]
  BY <1>2, Kinds DEF WriteBytes
<1>4. /\ \A k \in Clients \ {c} : cl'[k] = cl[k]
      /\ cl'[c].op = "write" /\ cl'[c].a = a /\ cl'[c].v = cl[c].v
      /\ cl'[c].s = s /\ cl'[c].pc = "done"
  BY <1>1, Kinds DEF WriteBytes, ClientType
<1>5. /\ slot[s].dirty /\ slot[s].addr = a
      /\ \A k \in Clients : cl[k].op = "write" => k = c
  BY <1>1 DEF BytesInv, ThreadInv, WriterOK
<1>6. /\ NamesFresh' /\ \A b \in Addr : CleanBacked(b)'
      /\ \A x \in Slots : DirtyUnique(x)'
  BY <1>1, TablesKept
<1>7. ASSUME NEW x \in Slots PROVE DirtyBytes(x)' /\ CleanBytes(x)'
  <2>1. EntryInv(x)
    BY DEF BytesInv
  <2>2. \A k \in Clients : Writer(k, x) => Writer(k, x)'
    BY <1>1, <1>4 DEF Writer
  <2>3. CASE x = s
    <3>1. Writer(c, x)'
      BY <1>4, <2>3 DEF Writer
    <3>2. QED
      BY <1>1, <1>5, <2>1, <2>3, <3>1 DEF EntryInv, DirtyBytes, CleanBytes
  <2>4. CASE x # s
    <3>1. Filled(x)' => Filled(x)
      BY <1>1, <1>4, <2>4 DEF Filled
    <3>2. QED
      BY <1>1, <1>3, <2>1, <2>2, <2>4, <3>1 DEF EntryInv, DirtyBytes, CleanBytes
  <2>5. QED
    BY <2>3, <2>4
<1>8. AcceptableKept
  BY <1>1, <1>4, AcceptableShrinks DEF Acceptable
<1>9. ASSUME NEW k \in Clients PROVE ThreadInv(k)'
  <2>1. ThreadInv(k)
    BY DEF BytesInv
  <2>2. CASE k = c
    <3>1. \A j \in Clients : cl'[j].op = "write" => j = c
      BY <1>4, <1>5
    <3>2. QED
      BY <1>1, <1>3, <1>4, <1>5, <2>2, <3>1 DEF ThreadInv, WriterOK, ReaderOK
  <2>3. CASE k # c /\ cl[k].s # s
    <3>1. cl[k].pc \in IOPhases => data'[cl[k].s] = data[cl[k].s]
      BY <1>3, <2>3, ThreadKinds
    <3>2. cl[k].op # "write"
      BY <1>5, <2>3
    <3>3. QED
      BY <1>1, <1>4, <1>8, <2>1, <2>3, <3>1, <3>2, ThreadKept
  <2>4. CASE k # c /\ cl[k].s = s
    <3>1. cl[k].op = "read" /\ cl[k].pc \in IOPhases /\ cl'[k] = cl[k]
      BY <1>2, <1>4, <1>5, <2>4, ThreadKinds
    <3>2. cl[k].a = a /\ Acceptable(a) \subseteq cl[k].ok
      BY <1>5, <2>1, <2>4, <3>1 DEF ThreadInv, ReaderOK, IOPhases
    <3>3. cl[c].v \in Acceptable(a)
      BY <1>1, <1>2, NoneNot DEF Acceptable, InFlight
    <3>4. Acceptable(cl[k].a)' \subseteq Acceptable(a)
      BY <1>2, <1>8, <3>1, <3>2 DEF AcceptableKept
    <3>5. ReaderOK(k)'
      BY <1>1, <1>3, <2>1, <2>4, <3>1, <3>2, <3>3, <3>4 DEF ThreadInv, ReaderOK
    <3>6. QED
      BY <1>1, <2>1, <3>1, <3>5 DEF ThreadInv, WriterOK
  <2>5. QED
    BY <2>2, <2>3, <2>4
<1>10. UploadCurrent'
  BY <1>1 DEF BytesInv, UploadCurrent, Publishing
<1>11. QED
  BY <1>1, <1>6, <1>7, <1>9, <1>10 DEF BytesInv, EntryInv

(* The closing section of a read: a filled entry becomes valid.            *)
LEMMA FinishReadBytesInv ==
  ASSUME StoredInv, BytesInv, NEW c \in Clients, FinishIO(c), cl[c].op = "read"
  PROVE  BytesInv'
<1> DEFINE s == cl[c].s
<1>1. /\ UNCHANGED <<data, local, base, staged, gc, gen, seq, cur, up, poll>>
      /\ cl[c].pc = "done" /\ cl' = [cl EXCEPT ![c] = IdleClient]
      /\ slot' = [slot EXCEPT ![s].valid = TRUE]
  BY DEF FinishIO, Done
<1>2. s \in Slots
  BY <1>1, ThreadKinds DEF IOPhases
<1>3. cl'[c] = IdleClient /\ \A k \in Clients \ {c} : cl'[k] = cl[k]
  BY <1>1, Kinds
<1>4. /\ slot'[s].valid = TRUE /\ slot'[s].name = slot[s].name /\ slot'[s].addr = slot[s].addr
      /\ slot'[s].dirty = slot[s].dirty
      /\ \A x \in Slots : x # s => slot'[x] = slot[x]
  BY <1>1, <1>2, Kinds DEF EntryType
<1>5. slot[s].name # None
  BY <1>1 DEF BytesInv, ThreadInv, ReaderOK, IOPhases
<1>6. /\ NamesFresh' /\ \A b \in Addr : CleanBacked(b)'
      /\ \A x \in Slots : DirtyUnique(x)'
      /\ \A b \in Addr : DirtyAt(b)' = DirtyAt(b)
  <2>1. \A x \in Slots : /\ slot'[x].name = slot[x].name /\ slot'[x].addr = slot[x].addr
                         /\ slot'[x].dirty = slot[x].dirty
    BY <1>4
  <2>2. \A b \in Addr : DirtyAt(b)' = DirtyAt(b)
    BY <2>1 DEF DirtyAt
  <2>3. NamesFresh'
    BY <1>1, <2>1 DEF BytesInv, NamesFresh
  <2>4. \A b \in Addr : CleanBacked(b)'
    BY <1>1, <2>1, <2>2 DEF BytesInv, CleanBacked, StagedFind
  <2>5. \A x \in Slots : DirtyUnique(x)'
    BY <1>1, <2>1 DEF BytesInv, EntryInv, DirtyUnique
  <2>6. QED
    BY <2>2, <2>3, <2>4, <2>5
<1>7. slot[s].valid \/ ~slot[s].dirty
  <2>1. SUFFICES ASSUME ~slot[s].valid, slot[s].dirty PROVE FALSE
    OBVIOUS
  <2>2. PICK k \in Clients : Writer(k, s)
    BY <1>2, <2>1 DEF BytesInv, EntryInv, DirtyBytes
  <2>3. k = c
    BY <1>2, <2>1, <2>2 DEF StoredInv, EntriesOK, Writer
  <2>4. QED
    BY <2>2, <2>3 DEF Writer
<1>8. ASSUME NEW x \in Slots PROVE DirtyBytes(x)' /\ CleanBytes(x)'
  <2>1. EntryInv(x)
    BY DEF BytesInv
  <2>2. \A k \in Clients : Writer(k, x) => Writer(k, x)'
    BY <1>1, <1>3 DEF Writer
  <2>3. CASE x = s
    <3>1. DirtyBytes(x)'
      BY <1>1, <1>4, <1>7, <2>1, <2>2, <2>3 DEF EntryInv, DirtyBytes
    <3>2. Filled(x)' => Filled(x)
      BY <1>1, <1>2, <1>4, <2>3 DEF Filled
    <3>3. QED
      BY <1>1, <1>4, <1>5, <2>1, <2>3, <3>1, <3>2 DEF EntryInv, CleanBytes
  <2>4. CASE x # s
    <3>1. Filled(x)' => Filled(x)
      BY <1>1, <1>3, <1>4, <2>4, IdleIs DEF Filled
    <3>2. QED
      BY <1>1, <1>4, <2>1, <2>2, <2>4, <3>1 DEF EntryInv, DirtyBytes, CleanBytes
  <2>5. QED
    BY <2>3, <2>4
<1>9. AcceptableKept
  BY <1>1, <1>3, IdleIs, AcceptableShrinks DEF Acceptable
<1>10. ASSUME NEW k \in Clients PROVE ThreadInv(k)'
  <2>1. ThreadInv(k)
    BY DEF BytesInv
  <2>2. CASE k # c /\ (cl[k].s # s \/ slot[s].valid)
    <3>1. slot[s].valid => slot'[s] = slot[s]
      BY <1>1, <1>2, Kinds DEF EntryType
    <3>2. cl[k].pc \in IOPhases => slot'[cl[k].s] = slot[cl[k].s]
      BY <1>4, <2>2, <3>1, ThreadKinds
    <3>3. cl[k].op = "write" => \A j \in Clients : cl'[j].op = "write" => j = k
      BY <1>3, <2>1, IdleIs DEF ThreadInv, WriterOK
    <3>4. QED
      BY <1>1, <1>3, <1>9, <2>1, <2>2, <3>2, <3>3, ThreadKept
  <2>3. CASE k # c /\ cl[k].s = s /\ ~slot[s].valid
    BY <1>2, <2>3 DEF StoredInv, EntriesOK
  <2>4. QED
    BY <1>3, <2>2, <2>3, IdleThread
<1>11. UploadCurrent'
  <2>1. SUFFICES ASSUME Publishing PROVE UploadCurrent'
    BY <1>1 DEF UploadCurrent, Publishing
  <2>2. \A r \in up.recs : slot[r.s].valid /\ r.s \in Slots
    BY <2>1, Kinds DEF BytesInv, UploadCurrent, RecordOK, UploadType
  <2>3. \A r \in up.recs : slot'[r.s].valid /\ slot'[r.s].name = slot[r.s].name
                           /\ slot'[r.s].dirty = slot[r.s].dirty /\ slot'[r.s].addr = slot[r.s].addr
    BY <1>4, <2>2
  <2>4. \A r \in up.recs : RecordOK(r)'
    BY <1>1, <2>1, <2>3 DEF BytesInv, UploadCurrent, RecordOK
  <2>5. \A b \in Addr : BlockOK(b)'
    BY <1>1, <1>6, <2>1, <2>3 DEF BytesInv, UploadCurrent, BlockOK
  <2>6. \A k \in Clients : cl'[k].op # "write"
    BY <1>3, <2>1, IdleIs DEF BytesInv, UploadCurrent
  <2>7. QED
    BY <1>1, <2>4, <2>5, <2>6 DEF UploadCurrent
<1>12. QED
  BY <1>1, <1>6, <1>8, <1>10, <1>11 DEF BytesInv, EntryInv

(* The closing section of a write: its bytes are those of the block.       *)
LEMMA FinishWriteBytesInv ==
  ASSUME StoredInv, BytesInv, NEW c \in Clients, FinishIO(c), cl[c].op = "write"
  PROVE  BytesInv'
<1> DEFINE s == cl[c].s
           a == cl[c].a
<1>1. /\ UNCHANGED <<data, local, base, staged, gc, gen, seq, up, poll>>
      /\ cl[c].pc = "done" /\ cur' = [cur EXCEPT ![a] = {cl[c].v}]
      /\ slot' = [slot EXCEPT ![s].valid = TRUE]
  BY DEF FinishIO
<1>2. s \in Slots /\ a \in Addr /\ cl[c].v \in Contents
  BY <1>1, ThreadKinds DEF IOPhases
<1>3. PICK n : /\ cl' = [cl EXCEPT ![c] = n] /\ n.pc \in {"idle", "full"}
               /\ n.op = "write" => n.v = None
               /\ n.op = "read" => n.pc = "idle"
  <2>1. PICK m : m = [IdleClient EXCEPT !.pc = "full", !.op = "write", !.a = a]
    OBVIOUS
  <2>2. m.pc = "full" /\ m.op = "write" /\ m.v = None
    BY <2>1 DEF IdleClient
  <2>3. cl' = [cl EXCEPT ![c] = m] \/ cl' = [cl EXCEPT ![c] = IdleClient]
    BY <2>1 DEF FinishIO
  <2>4. QED
    BY <2>2, <2>3, IdleIs
<1>4. cl'[c] = n /\ \A k \in Clients \ {c} : cl'[k] = cl[k]
  BY <1>3, Kinds
<1>5. /\ slot'[s].valid = TRUE /\ slot'[s].name = slot[s].name /\ slot'[s].addr = slot[s].addr
      /\ slot'[s].dirty = slot[s].dirty
      /\ \A x \in Slots : x # s => slot'[x] = slot[x]
  BY <1>1, <1>2, Kinds DEF EntryType
<1>6. /\ slot[s].dirty /\ slot[s].addr = a /\ data[s] = cl[c].v
      /\ \A k \in Clients : cl[k].op = "write" => k = c
  BY <1>1 DEF BytesInv, ThreadInv, WriterOK
<1>7. cur'[a] = {cl[c].v} /\ \A b \in Addr : b # a => cur'[b] = cur[b]
  BY <1>1, <1>2, Kinds
<1>8. local[a] = slot[s].name /\ slot[s].name # None
  BY <1>2, <1>6, DirtyKinds DEF BytesInv, EntryInv, DirtyUnique
<1>9. \A x \in Slots : /\ slot'[x].name = slot[x].name /\ slot'[x].addr = slot[x].addr
                       /\ slot'[x].dirty = slot[x].dirty
  BY <1>5
<1>10. \A b \in Addr : DirtyAt(b)' = DirtyAt(b)
  BY <1>9 DEF DirtyAt
<1>11. NamesFresh'
  BY <1>1, <1>9 DEF BytesInv, NamesFresh
<1>12. \A x \in Slots : DirtyUnique(x)'
  BY <1>1, <1>9 DEF BytesInv, EntryInv, DirtyUnique
<1>13. ASSUME NEW b \in Addr PROVE CleanBacked(b)'
  <2>1. CASE b = a
    <3>1. s \in DirtyAt(b)
      BY <1>2, <1>6, <2>1 DEF DirtyAt
    <3>2. QED
      BY <1>1, <1>8, <1>10, <2>1, <3>1 DEF CleanBacked
  <2>2. CASE b # a
    BY <1>1, <1>7, <1>9, <1>10, <2>2 DEF BytesInv, CleanBacked, StagedFind
  <2>3. QED
    BY <2>1, <2>2
<1>14. ASSUME NEW x \in Slots PROVE DirtyBytes(x)' /\ CleanBytes(x)'
  <2>1. CASE x = s
    BY <1>1, <1>5, <1>6, <1>7, <1>8, <2>1 DEF DirtyBytes, CleanBytes
  <2>2. CASE x # s
    <3>1. EntryInv(x) /\ slot'[x] = slot[x]
      BY <1>5, <2>2 DEF BytesInv
    <3>2. \A k \in Clients : ~Writer(k, x)
      BY <1>6, <2>2 DEF Writer
    <3>3. slot[x].dirty => slot[x].addr # a /\ slot[x].addr \in Addr
      BY <1>2, <1>6, <1>8, <2>2, <3>1, OneDirty, SelfId, DirtyKinds DEF EntryInv, DirtyUnique
    <3>4. DirtyBytes(x)'
      BY <1>1, <1>7, <3>1, <3>2, <3>3 DEF EntryInv, DirtyBytes
    <3>5. Filled(x)' => Filled(x)
      BY <1>1, <1>3, <1>4, <3>1 DEF Filled
    <3>6. QED
      BY <1>1, <3>1, <3>4, <3>5 DEF EntryInv, CleanBytes
  <2>3. QED
    BY <2>1, <2>2
<1>15. AcceptableKept
  <2>1. cl[c].v \in Acceptable(a)
    BY <1>2, NoneNot DEF Acceptable, InFlight
  <2>2. \A b \in Addr : cur'[b] \subseteq Acceptable(b)
    BY <1>7, <2>1 DEF Acceptable
  <2>3. QED
    BY <1>3, <1>4, <2>2, AcceptableShrinks
<1>16. ASSUME NEW k \in Clients PROVE ThreadInv(k)'
  <2>1. ThreadInv(k)
    BY DEF BytesInv
  <2>2. CASE k # c /\ (cl[k].s # s \/ slot[s].valid)
    <3>1. slot[s].valid => slot'[s] = slot[s]
      BY <1>1, <1>2, Kinds DEF EntryType
    <3>2. cl[k].pc \in IOPhases => slot'[cl[k].s] = slot[cl[k].s]
      BY <1>5, <2>2, <3>1, ThreadKinds
    <3>3. cl[k].op # "write"
      BY <1>6, <2>2
    <3>4. QED
      BY <1>1, <1>4, <1>15, <2>1, <2>2, <3>2, <3>3, ThreadKept
  <2>3. CASE k # c /\ cl[k].s = s /\ ~slot[s].valid
    BY <1>2, <2>3 DEF StoredInv, EntriesOK
  <2>4. CASE k = c
    <3>1. \A j \in Clients : cl'[j].op = "write" => j = c
      BY <1>4, <1>6
    <3>2. QED
      BY <1>3, <1>4, <2>4, <3>1 DEF ThreadInv, WriterOK, ReaderOK
  <2>5. QED
    BY <2>2, <2>3, <2>4
<1>17. UploadCurrent'
  BY <1>1 DEF BytesInv, UploadCurrent, Publishing
<1>18. QED
  BY <1>1, <1>11, <1>12, <1>13, <1>14, <1>16, <1>17 DEF BytesInv, EntryInv

-----------------------------------------------------------------------------
(* Staging.                                                                *)

LEMMA RenamedId ==
  ASSUME NEW n \in Name, NEW v
  PROVE  Renamed(n, v).gen = n.gen /\ Renamed(n, v).tag = n.tag
  BY DEF Renamed, Name

(* Whether two names are of one block depends on their random parts.       *)
SameRandom(m, n) == (m = None <=> n = None) /\ (n # None => m.gen = n.gen /\ m.tag = n.tag)

LEMMA SameRandomId ==
  ASSUME NEW m, NEW n, SameRandom(m, n), NEW x
  PROVE  (SameId(m, x) <=> SameId(n, x)) /\ (SameId(x, m) <=> SameId(x, n))
  BY DEF SameRandom, SameId

LEMMA RenamedRandom ==
  ASSUME NEW n \in Name, NEW v \in Contents
  PROVE  SameRandom(Renamed(n, v), n) /\ Renamed(n, v) # None
  BY RenamedId, RenamedName, NoneNot DEF SameRandom

(* Selecting a batch gives its entries and their blocks new names that     *)
(* differ in the prefix only.                                              *)
InBatch(s) ==
    /\ s \in Slots /\ slot[s].dirty /\ slot[s].name \in Name /\ slot[s].addr \in Addr
    /\ local[slot[s].addr] = slot[s].name /\ data[s] \in Contents
    /\ \A k \in Clients : cl[k].s # s /\ s \notin cl[k].batch
    /\ \A r \in up.recs : r.s # s
EntryRenamed(B, s) ==
    /\ slot'[s].dirty = slot[s].dirty /\ slot'[s].addr = slot[s].addr
    /\ slot'[s].valid = slot[s].valid /\ SameRandom(slot'[s].name, slot[s].name)
    /\ s \notin B => slot'[s] = slot[s]
BlockRenamed(B, a) ==
    /\ SameRandom(local'[a], local[a])
    /\ (\A s \in B : slot[s].addr # a) => local'[a] = local[a]
    /\ DirtyAt(a)' = DirtyAt(a)
    /\ DirtyAt(a) = {} => local'[a] = local[a]

LEMMA SelectedBatch ==
  ASSUME StoredInv, BytesInv, NEW c \in Clients, StageSelect(c)
  PROVE  \E B : /\ cl' = [cl EXCEPT ![c].pc = "put", ![c].batch = B]
                /\ \A s \in B : InBatch(s) /\ local'[slot[s].addr] = slot'[s].name
                /\ \A s \in Slots : EntryRenamed(B, s)
                /\ \A a \in Addr : BlockRenamed(B, a)
<1> DEFINE new(s) == Renamed(slot[s].name, data[s])
<1>1. PICK B \in SUBSET Stageable :
         /\ cl' = [cl EXCEPT ![c].pc = "put", ![c].batch = B]
         /\ slot' = [s \in Slots |-> IF s \in B THEN [slot[s] EXCEPT !.name = new(s)] ELSE slot[s]]
         /\ local' = [a \in Addr |->
                        IF \E s \in B : slot[s].addr = a
                        THEN Renamed(local[a], data[CHOOSE s \in B : slot[s].addr = a])
                        ELSE local[a]]
  BY DEF StageSelect
<1>2. ASSUME NEW s \in B
      PROVE  /\ s \in Slots /\ slot[s].dirty /\ slot[s].name \in Name /\ slot[s].addr \in Addr
             /\ local[slot[s].addr] = slot[s].name /\ data[s] \in Contents
             /\ \A k \in Clients : cl[k].s # s /\ s \notin cl[k].batch
             /\ \A r \in up.recs : r.s # s
  BY DirtyKinds, Kinds DEF Stageable, Pinned, Holders
<1>3. ASSUME NEW s \in Slots
      PROVE  /\ slot'[s].dirty = slot[s].dirty /\ slot'[s].addr = slot[s].addr
             /\ slot'[s].valid = slot[s].valid /\ SameRandom(slot'[s].name, slot[s].name)
             /\ s \notin B => slot'[s] = slot[s]
             /\ s \in B => slot'[s].name = new(s)
  <2>1. CASE s \in B
    <3>1. slot'[s] = [slot[s] EXCEPT !.name = new(s)] /\ slot[s] \in EntryType
      BY <1>1, <2>1, Kinds
    <3>2. /\ slot'[s].dirty = slot[s].dirty /\ slot'[s].addr = slot[s].addr
          /\ slot'[s].valid = slot[s].valid /\ slot'[s].name = new(s)
      BY <3>1 DEF EntryType
    <3>3. SameRandom(new(s), slot[s].name)
      BY <1>2, <2>1, RenamedRandom
    <3>4. QED
      BY <2>1, <3>2, <3>3
  <2>2. CASE s \notin B
    BY <1>1, <2>2 DEF SameRandom
  <2>3. QED
    BY <2>1, <2>2
<1>4. ASSUME NEW s \in B PROVE local'[slot[s].addr] = slot'[s].name
  <2>1. \A t \in B : slot[t].addr = slot[s].addr => t = s
    BY <1>2, OneDirty, SelfId, NoneNot
  <2>2. (CHOOSE t \in B : slot[t].addr = slot[s].addr) = s
    BY <1>4, <2>1
  <2>3. local'[slot[s].addr] = Renamed(local[slot[s].addr], data[s])
    BY <1>1, <1>2, <2>2
  <2>4. QED
    BY <1>2, <1>3, <2>3
<1> HIDE DEF new
<1>5. ASSUME NEW a \in Addr
      PROVE  /\ SameRandom(local'[a], local[a])
             /\ (\A s \in B : slot[s].addr # a) => local'[a] = local[a]
             /\ DirtyAt(a)' = DirtyAt(a)
             /\ DirtyAt(a) = {} => local'[a] = local[a]
  <2>1. CASE \E s \in B : slot[s].addr = a
    <3>1. PICK s \in B : slot[s].addr = a
      BY <2>1
    <3>2. local'[a] = slot'[s].name /\ local[a] = slot[s].name
      BY <1>2, <1>4, <3>1
    <3>3. s \in DirtyAt(a)
      BY <1>2, <3>1 DEF DirtyAt
    <3>4. DirtyAt(a)' = DirtyAt(a)
      BY <1>3 DEF DirtyAt
    <3>5. SameRandom(slot'[s].name, slot[s].name)
      BY <1>2, <1>3, <3>1
    <3>6. QED
      BY <2>1, <3>2, <3>3, <3>4, <3>5
  <2>2. CASE ~\E s \in B : slot[s].addr = a
    <3>1. local'[a] = local[a]
      BY <1>1, <2>2
    <3>2. DirtyAt(a)' = DirtyAt(a)
      BY <1>3 DEF DirtyAt
    <3>3. QED
      BY <3>1, <3>2 DEF SameRandom
  <2>3. QED
    BY <2>1, <2>2
<1>6. /\ \A s \in B : InBatch(s) /\ local'[slot[s].addr] = slot'[s].name
      /\ \A s \in Slots : EntryRenamed(B, s)
  BY <1>2, <1>3, <1>4 DEF InBatch, EntryRenamed
<1>7. \A a \in Addr : BlockRenamed(B, a)
  BY <1>5 DEF BlockRenamed
<1>8. QED
  BY <1>1, <1>6, <1>7, Zenon

LEMMA StageSelectBytesInv ==
  ASSUME StoredInv, BytesInv, NEW c \in Clients, StageSelect(c)
  PROVE  BytesInv'
<1>1. UNCHANGED <<data, base, staged, gc, gen, seq, cur, up, poll>> /\ cl[c].pc = "full"
  BY DEF StageSelect, durable
<1>2. PICK B : /\ cl' = [cl EXCEPT ![c].pc = "put", ![c].batch = B]
               /\ \A s \in B : InBatch(s) /\ local'[slot[s].addr] = slot'[s].name
               /\ \A s \in Slots : EntryRenamed(B, s)
               /\ \A a \in Addr : BlockRenamed(B, a)
  BY SelectedBatch
<1>3. ASSUME NEW s \in B
      PROVE  /\ s \in Slots /\ slot[s].dirty /\ slot[s].name \in Name /\ slot[s].addr \in Addr
             /\ local[slot[s].addr] = slot[s].name /\ data[s] \in Contents
             /\ \A k \in Clients : cl[k].s # s
             /\ \A r \in up.recs : r.s # s
  BY <1>2 DEF InBatch
<1>4. /\ \A k \in Clients \ {c} : cl'[k] = cl[k]
      /\ cl'[c].op = cl[c].op /\ cl'[c].a = cl[c].a /\ cl'[c].v = cl[c].v /\ cl'[c].ok = cl[c].ok
      /\ cl'[c].s = cl[c].s /\ cl'[c].pc = "put"
  BY <1>2, Kinds DEF ClientType
<1>5. ASSUME NEW s \in Slots
      PROVE  /\ slot'[s].dirty = slot[s].dirty /\ slot'[s].addr = slot[s].addr
             /\ slot'[s].valid = slot[s].valid /\ SameRandom(slot'[s].name, slot[s].name)
             /\ s \notin B => slot'[s] = slot[s]
  BY <1>2 DEF EntryRenamed
<1>6. ASSUME NEW s \in B PROVE local'[slot[s].addr] = slot'[s].name
  BY <1>2
<1>7. ASSUME NEW a \in Addr
      PROVE  /\ SameRandom(local'[a], local[a])
             /\ (\A s \in B : slot[s].addr # a) => local'[a] = local[a]
             /\ DirtyAt(a)' = DirtyAt(a)
             /\ DirtyAt(a) = {} => local'[a] = local[a]
  BY <1>2 DEF BlockRenamed
<1>8. /\ \A x : \A s \in Slots :
            /\ SameId(slot'[s].name, x) <=> SameId(slot[s].name, x)
            /\ SameId(x, slot'[s].name) <=> SameId(x, slot[s].name)
      /\ \A x : \A a \in Addr :
            /\ SameId(local'[a], x) <=> SameId(local[a], x)
            /\ SameId(x, local'[a]) <=> SameId(x, local[a])
  BY <1>5, <1>7, SameRandomId
<1>9. NamesFresh'
  <2>1. \A s \in Slots : slot'[s].name # None => slot'[s].name.gen < gen
    BY <1>5 DEF BytesInv, NamesFresh, SameRandom
  <2>2. \A a \in Addr : local'[a] # None => local'[a].gen < gen
    BY <1>7 DEF BytesInv, NamesFresh, SameRandom
  <2>3. \A a, b \in Addr : SameId(local'[a], local'[b]) => a = b
    BY <1>8 DEF BytesInv, NamesFresh
  <2>4. QED
    BY <1>1, <2>1, <2>2, <2>3 DEF BytesInv, NamesFresh
<1>10. ASSUME NEW s \in Slots PROVE DirtyUnique(s)'
  <2>1. SUFFICES ASSUME slot[s].dirty PROVE DirtyUnique(s)'
    BY <1>5 DEF DirtyUnique
  <2>2. DirtyUnique(s) /\ slot[s].addr \in Addr /\ slot[s].name # None
    BY <2>1, DirtyKinds DEF BytesInv, EntryInv
  <2>3. local'[slot'[s].addr] = slot'[s].name
    <3>1. CASE s \in B
      BY <1>5, <1>6, <3>1
    <3>2. CASE s \notin B
      <4>1. \A t \in B : slot[t].addr # slot[s].addr
        BY <1>3, <2>1, <2>2, <3>2, OneDirty, SelfId DEF DirtyUnique
      <4>2. QED
        BY <1>5, <1>7, <2>1, <2>2, <3>2, <4>1 DEF DirtyUnique
    <3>3. QED
      BY <3>1, <3>2
  <2>4. QED
    BY <1>1, <1>8, <2>1, <2>2, <2>3 DEF DirtyUnique
<1>11. ASSUME NEW a \in Addr PROVE CleanBacked(a)'
  <2>1. CASE local[a] = None
    BY <1>1, <1>7, <2>1 DEF BytesInv, CleanBacked, SameRandom
  <2>2. CASE local[a] # None /\ DirtyAt(a) # {}
    BY <1>7, <2>2 DEF CleanBacked, SameRandom
  <2>3. CASE local[a] # None /\ DirtyAt(a) = {}
    <3>1. local'[a] = local[a] /\ DirtyAt(a)' = {} /\ CleanBacked(a)
      BY <1>7, <2>3 DEF BytesInv
    <3>2. ASSUME NEW s \in Slots, SameId(slot'[s].name, local[a]) PROVE slot'[s].name = local[a]
      <4>1. SameId(slot[s].name, local[a])
        BY <1>8, <3>2
      <4>2. s \notin B
        <5>1. SUFFICES ASSUME s \in B PROVE FALSE
          OBVIOUS
        <5>2. slot[s].addr = a /\ slot[s].dirty
          BY <1>3, <4>1, <5>1, DirtyOwner
        <5>3. QED
          BY <2>3, <5>2 DEF DirtyAt
      <4>3. QED
        BY <1>5, <2>3, <3>1, <4>1, <4>2 DEF CleanBacked
    <3>3. QED
      BY <1>1, <2>3, <3>1, <3>2 DEF CleanBacked, StagedFind
  <2>4. QED
    BY <2>1, <2>2, <2>3
<1>12. ASSUME NEW s \in Slots PROVE DirtyBytes(s)' /\ CleanBytes(s)'
  <2>1. EntryInv(s)
    BY DEF BytesInv
  <2>2. \A k \in Clients : Writer(k, s) => Writer(k, s)'
    BY <1>1, <1>4 DEF Writer
  <2>3. DirtyBytes(s)'
    BY <1>1, <1>5, <2>1, <2>2 DEF EntryInv, DirtyBytes
  <2>4. CASE slot[s].dirty
    BY <1>5, <2>1, <2>3, <2>4 DEF EntryInv, CleanBytes, SameRandom
  <2>5. CASE ~slot[s].dirty
    <3>1. slot'[s] = slot[s]
      BY <1>3, <1>5, <2>5
    <3>2. ASSUME NEW a \in Addr, local'[a] = slot[s].name, slot[s].name # None
          PROVE  local[a] = slot[s].name
      <4>1. SameId(slot[s].name, local[a])
        BY <1>8, <3>2, SelfId
      <4>2. \A t \in B : slot[t].addr # a
        BY <1>3, <2>5, <4>1, OneDirty
      <4>3. QED
        BY <1>7, <3>2, <4>2
    <3>3. slot[s].name # None /\ Filled(s)' => Filled(s)
      BY <1>4, <3>1, <3>2 DEF Filled
    <3>4. QED
      BY <1>1, <2>1, <2>3, <3>1, <3>3 DEF EntryInv, CleanBytes
  <2>6. QED
    BY <2>4, <2>5
<1>13. AcceptableKept
  <2>1. \A a \in Addr : cur'[a] \subseteq Acceptable(a)
    BY <1>1 DEF Acceptable
  <2>2. QED
    BY <1>4, <2>1, AcceptableShrinks
<1>14. ASSUME NEW k \in Clients PROVE ThreadInv(k)'
  <2>1. ThreadInv(k)
    BY DEF BytesInv
  <2>2. CASE k # c
    <3>1. cl[k].pc \in IOPhases => slot'[cl[k].s] = slot[cl[k].s] /\ cl[k].s \in Slots
      BY <1>3, <1>5, ThreadKinds
    <3>2. WriterOK(k)'
      <4>1. SUFFICES ASSUME cl[k].op = "write" PROVE WriterOK(k)'
        BY <1>4, <2>2 DEF WriterOK
      <4>2. cl[k].a \in Addr
        BY <4>1, ThreadKinds
      <4>3. cl[k].pc \in {"fetch", "ready"} => local'[cl[k].a] = local[cl[k].a]
        <5>1. SUFFICES ASSUME cl[k].pc \in {"fetch", "ready"} PROVE local'[cl[k].a] = local[cl[k].a]
          OBVIOUS
        <5>2. slot[cl[k].s].name = local[cl[k].a] /\ cl[k].s \in Slots
          BY <2>1, <3>1, <4>1, <5>1 DEF ThreadInv, WriterOK, IOPhases
        <5>3. \A t \in B : slot[t].addr # cl[k].a
          BY <1>3, <5>2, OneDirty, SelfId, NoneNot
        <5>4. QED
          BY <1>7, <4>2, <5>3
      <4>4. \A j \in Clients : cl'[j].op = "write" => j = k
        BY <1>4, <2>1, <4>1 DEF ThreadInv, WriterOK
      <4>5. QED
        BY <1>1, <1>4, <2>1, <2>2, <3>1, <4>1, <4>3, <4>4 DEF ThreadInv, WriterOK, IOPhases
    <3>3. ReaderOK(k)'
      <4>1. SUFFICES ASSUME cl[k].op = "read", cl[k].pc \notin {"idle", "null"} PROVE ReaderOK(k)'
        BY <1>4, <2>2 DEF ReaderOK
      <4>2. Acceptable(cl[k].a)' \subseteq Acceptable(cl[k].a)
        BY <1>4, <1>13, <2>2, <4>1, ThreadKinds DEF AcceptableKept
      <4>3. QED
        BY <1>1, <1>4, <2>1, <2>2, <3>1, <4>1, <4>2 DEF ThreadInv, ReaderOK, IOPhases
    <3>4. QED
      BY <1>4, <2>1, <2>2, <3>1, <3>2, <3>3 DEF ThreadInv, IOPhases
  <2>3. CASE k = c
    <3>1. \A j \in Clients : cl'[j].op = cl[j].op
      BY <1>4
    <3>2. WriterOK(c)'
      BY <1>4, <2>1, <2>3, <3>1 DEF ThreadInv, WriterOK
    <3>3. Acceptable(cl[c].a)' \subseteq Acceptable(cl[c].a)
      BY <1>1, <1>4, <1>13, ThreadKinds DEF AcceptableKept
    <3>4. ReaderOK(c)'
      BY <1>1, <1>4, <2>1, <2>3, <3>3 DEF ThreadInv, ReaderOK, IOPhases
    <3>5. QED
      BY <1>4, <2>3, <3>2, <3>4 DEF ThreadInv
  <2>4. QED
    BY <2>2, <2>3
<1>15. UploadCurrent'
  <2>1. SUFFICES ASSUME Publishing PROVE UploadCurrent'
    BY <1>1 DEF UploadCurrent, Publishing
  <2>2. \A r \in up.recs : slot'[r.s] = slot[r.s]
    BY <1>3, <1>5, Kinds DEF UploadType
  <2>3. \A r \in up.recs : RecordOK(r)'
    BY <1>1, <2>1, <2>2 DEF BytesInv, UploadCurrent, RecordOK
  <2>4. ASSUME NEW a \in Addr PROVE BlockOK(a)'
    <3>1. BlockOK(a)
      BY <2>1 DEF BytesInv, UploadCurrent
    <3>2. SameId(up.blk[a], local'[a]) \/ (up.blk[a] = None /\ local'[a] = None)
      BY <1>7, <1>8, <3>1 DEF BlockOK, SameRandom
    <3>3. QED
      BY <1>1, <1>7, <2>2, <3>1, <3>2 DEF BlockOK
  <2>5. \A k \in Clients : cl'[k].op # "write"
    BY <1>4, <2>1 DEF BytesInv, UploadCurrent
  <2>6. QED
    BY <1>1, <2>3, <2>4, <2>5 DEF UploadCurrent
<1>16. QED
  BY <1>1, <1>9, <1>10, <1>11, <1>12, <1>14, <1>15 DEF BytesInv, EntryInv

LEMMA AfterStageIs ==
  ASSUME NEW k, NEW b
  PROVE  LET n == AfterStage(k, b)
         IN  \/ n.pc \in {"idle", "null"} /\ n.op = "read" /\ n.s = None
             \/ /\ n.pc = "begin" /\ n.op = k.op /\ n.a = k.a /\ n.v = k.v
                /\ n.s = None /\ n.ok = k.ok
  BY DEF AfterStage, Call, IdleClient

LEMMA RenamedSame ==
  ASSUME Faultless, NEW n \in Name, NEW v, n.md5 = v
  PROVE  Renamed(n, v) = n
  BY DEF Faultless, Renamed, Name

(* Persisting a batch cleans its entries only together with their rows.    *)
(* Without faults the rows and the entries of the same members change.     *)
LEMMA PersistedBatch ==
  ASSUME Faultless, NEW c \in Clients, StagePersist(c)
  PROVE  \E C \in SUBSET cl[c].ack :
            /\ staged' = StagedPut(StageRows(C))
            /\ seq' = IF C = {} THEN seq ELSE seq + 1
            /\ slot' = StageClean(C)
            /\ row' = [s \in Slots |-> IF s \in C THEN CleanRow(slot[s].name) ELSE row[s]]
            /\ cl' = [cl EXCEPT ![c] = AfterStage(cl[c], C = cl[c].batch)]
<1>1. PICK P \in SUBSET cl[c].ack : \E C \in SUBSET P :
       /\ P = {} \/ seq < MaxSeq
       /\ C = cl[c].ack \/ LocalFaults \/ seq = MaxSeq
       /\ staged' = StagedPut(StageRows(P))
       /\ seq' = IF P = {} THEN seq ELSE seq + 1
       /\ slot' = StageClean(C)
       /\ row' = [s \in Slots |-> IF s \in C THEN CleanRow(slot[s].name) ELSE row[s]]
       /\ cl' = [cl EXCEPT ![c] = AfterStage(cl[c], C = cl[c].batch)]
  BY DEF StagePersist
<1>2. PICK C \in SUBSET P :
       /\ P = {} \/ seq < MaxSeq
       /\ C = cl[c].ack \/ LocalFaults \/ seq = MaxSeq
       /\ staged' = StagedPut(StageRows(P))
       /\ seq' = IF P = {} THEN seq ELSE seq + 1
       /\ slot' = StageClean(C)
       /\ row' = [s \in Slots |-> IF s \in C THEN CleanRow(slot[s].name) ELSE row[s]]
       /\ cl' = [cl EXCEPT ![c] = AfterStage(cl[c], C = cl[c].batch)]
  BY <1>1
<1>3. seq = MaxSeq => ~(seq < MaxSeq)
  BY ConstantsAssumption
<1>4. C = P
  BY <1>2, <1>3 DEF Faultless
<1>5. QED
  BY <1>2, <1>4

LEMMA StagePersistBytesInv ==
  ASSUME Faultless, StoredInv, ContentInv, BytesInv, NEW c \in Clients, StagePersist(c)
  PROVE  BytesInv'
<1>1. UNCHANGED <<data, local, base, gc, gen, cur, up, poll>> /\ cl[c].pc = "persist"
  BY DEF StagePersist
<1>2. PICK C \in SUBSET cl[c].ack :
         /\ staged' = StagedPut(StageRows(C))
         /\ seq' = IF C = {} THEN seq ELSE seq + 1
         /\ slot' = StageClean(C)
         /\ cl' = [cl EXCEPT ![c] = AfterStage(cl[c], C = cl[c].batch)]
  BY PersistedBatch
<1> DEFINE n == AfterStage(cl[c], C = cl[c].batch)
<1>3. cl'[c] = n /\ \A k \in Clients \ {c} : cl'[k] = cl[k]
  BY <1>2, Kinds
<1>4. /\ n.s = None /\ n.pc \in {"idle", "null", "begin"}
      /\ n.pc # "begin" => n.op = "read"
      /\ n.pc = "begin" => n.op = cl[c].op /\ n.a = cl[c].a /\ n.v = cl[c].v /\ n.ok = cl[c].ok
  BY AfterStageIs
<1> HIDE DEF n
<1>5. ASSUME NEW s \in C
      PROVE  /\ s \in Slots /\ slot[s].name \in Name /\ slot[s].addr \in Addr /\ slot[s].valid
             /\ slot[s].name.md5 = data[s]
             /\ \A k \in Clients : cl[k].s # s
  <2>1. s \in cl[c].batch /\ s \in Slots
    BY <1>2, Kinds DEF ClientType, StoredInv, ClientsOK, ClientOK
  <2>2. QED
    BY <2>1 DEF StoredInv, EntriesOK, ContentInv, BatchNamed
<1>6. ASSUME NEW s \in Slots
      PROVE  /\ slot'[s].name = slot[s].name /\ slot'[s].addr = slot[s].addr
             /\ slot'[s].valid = slot[s].valid
             /\ slot'[s].dirty = (slot[s].dirty /\ s \notin C)
             /\ s \notin C => slot'[s] = slot[s]
  BY <1>2, Kinds DEF StageClean, EntryType
<1>7. /\ \A r \in staged' : r \in staged \/ \E s \in C : r.name = slot[s].name
      /\ \A s \in C : \E r \in staged' \ gc : r.addr = slot[s].addr /\ r.name = slot[s].name
      /\ \A m : \A b \in Addr : StagedFind(b, m) => StagedFind(b, m)'
  <2>1. /\ \A q \in StageRows(C) : /\ q.seq = seq + 1
                                   /\ \E s \in C : q.addr = slot[s].addr /\ q.name = slot[s].name
        /\ \A s \in C : \E q \in StageRows(C) : q.addr = slot[s].addr /\ q.name = slot[s].name
    <3> DEFINE q(s) == [addr |-> slot[s].addr, name |-> slot[s].name, seq |-> seq + 1]
    <3>1. StageRows(C) = {q(s) : s \in C}
      BY DEF StageRows
    <3>2. \A s : q(s).addr = slot[s].addr /\ q(s).name = slot[s].name /\ q(s).seq = seq + 1
      OBVIOUS
    <3> HIDE DEF q
    <3>3. QED
      BY <3>1, <3>2
  <2>2. \A r \in gc : r.seq # seq + 1
    BY Kinds DEF BytesInv, StagedRow
  <2>3. StageRows(C) \subseteq staged' /\ \A q \in StageRows(C) : q \notin gc
    BY <1>2, <2>1, <2>2 DEF StagedPut
  <2>4. \A r \in staged' : r \in staged \/ r \in StageRows(C)
    BY <1>2 DEF StagedPut
  <2>5. \A r \in staged : r \in staged' \/ \E q \in StageRows(C) : r.addr = q.addr /\ r.name = q.name
    BY <1>2 DEF StagedPut
  <2>6. ASSUME NEW b \in Addr, NEW m, StagedFind(b, m) PROVE StagedFind(b, m)'
    <3>1. PICK r \in staged \ gc : r.addr = b /\ r.name = m
      BY <2>6 DEF StagedFind
    <3>2. PICK q \in staged' : q \notin gc /\ q.addr = b /\ q.name = m
      BY <2>3, <2>5, <3>1
    <3>3. QED
      BY <1>1, <3>2 DEF StagedFind
  <2>7. QED
    BY <2>1, <2>3, <2>4, <2>6
<1>8. NamesFresh'
  <2>1. \A r \in staged' \cup gc : r.name.gen < gen
    BY <1>5, <1>7, NoneNot DEF BytesInv, NamesFresh
  <2>2. QED
    BY <1>1, <1>6, <2>1 DEF BytesInv, NamesFresh
<1>9. ASSUME NEW s \in Slots PROVE DirtyUnique(s)'
  <2>1. SUFFICES ASSUME slot[s].dirty, s \notin C PROVE DirtyUnique(s)'
    BY <1>6 DEF DirtyUnique
  <2>2. DirtyUnique(s)
    BY DEF BytesInv, EntryInv
  <2>3. \A r \in staged' : ~SameId(r.name, slot[s].name)
    BY <1>5, <1>7, <2>1, <2>2 DEF DirtyUnique
  <2>4. QED
    BY <1>1, <1>6, <2>1, <2>2, <2>3 DEF DirtyUnique
<1>10. ASSUME NEW t \in C, slot[t].dirty
       PROVE  /\ local[slot[t].addr] = slot[t].name /\ data[t] \in cur[slot[t].addr]
              /\ \A s \in Slots : SameId(slot[s].name, slot[t].name) => s = t
              /\ \A r \in staged' : SameId(r.name, slot[t].name) => r.name = slot[t].name
  <2>1. t \in Slots /\ EntryInv(t) /\ \A k \in Clients : ~Writer(k, t)
    BY <1>5 DEF BytesInv, Writer
  <2>2. QED
    BY <1>5, <1>7, <1>10, <2>1 DEF EntryInv, DirtyUnique, DirtyBytes
<1>11. ASSUME NEW b \in Addr PROVE CleanBacked(b)'
  <2>1. CASE local[b] = None
    BY <1>1, <2>1 DEF BytesInv, CleanBacked
  <2>2. CASE local[b] # None /\ DirtyAt(b) = {}
    <3>1. CleanBacked(b)
      BY DEF BytesInv
    <3>2. \A r \in staged' : SameId(r.name, local[b]) => r.name = local[b]
      BY <1>5, <1>7, <2>2, <3>1 DEF CleanBacked
    <3>3. StagedFind(b, local[b]) => StagedFind(b, local[b])'
      BY <1>1, <1>7
    <3>4. QED
      BY <1>1, <1>6, <2>2, <3>1, <3>2, <3>3 DEF CleanBacked
  <2>3. CASE local[b] # None /\ DirtyAt(b) # {}
    <3>1. PICK t \in Slots : slot[t].dirty /\ slot[t].addr = b
      BY <2>3 DEF DirtyAt
    <3>2. CASE t \notin C
      BY <1>1, <1>6, <2>3, <3>1, <3>2 DEF CleanBacked, DirtyAt
    <3>3. CASE t \in C
      <4>1. local[b] = slot[t].name /\ local[b].md5 \in cur[b]
        BY <1>5, <1>10, <3>1, <3>3
      <4>2. StagedFind(b, local[b])'
        BY <1>1, <1>7, <3>1, <3>3, <4>1 DEF StagedFind
      <4>3. \A s \in Slots : SameId(slot'[s].name, local[b]) => slot'[s].name = local[b]
        BY <1>6, <1>10, <3>1, <3>3, <4>1
      <4>4. \A r \in staged' : SameId(r.name, local[b]) => r.name = local[b]
        BY <1>10, <3>1, <3>3, <4>1
      <4>5. QED
        BY <1>1, <2>3, <4>1, <4>2, <4>3, <4>4 DEF CleanBacked
    <3>4. QED
      BY <3>2, <3>3
  <2>4. QED
    BY <2>1, <2>2, <2>3
<1>12. ASSUME NEW s \in Slots PROVE DirtyBytes(s)' /\ CleanBytes(s)'
  <2>1. EntryInv(s)
    BY DEF BytesInv
  <2>2. \A k \in Clients : Writer(k, s) => Writer(k, s)'
    BY <1>1, <1>3 DEF Writer
  <2>3. DirtyBytes(s)'
    BY <1>1, <1>6, <2>1, <2>2 DEF EntryInv, DirtyBytes
  <2>4. Filled(s)' => Filled(s)
    BY <1>1, <1>3, <1>4, <1>6 DEF Filled
  <2>5. s \in C => data[s] = slot[s].name.md5
    BY <1>5
  <2>6. CleanBytes(s)'
    BY <1>1, <1>6, <2>1, <2>4, <2>5 DEF EntryInv, CleanBytes
  <2>7. QED
    BY <2>3, <2>6
<1>13. /\ AcceptableKept
       /\ \A j \in Clients : cl'[j].op = "write" => cl[j].op = "write"
  <2>1. \A b \in Addr : cur'[b] \subseteq Acceptable(b)
    BY <1>1 DEF Acceptable
  <2>2. n.op = "write" => n.op = cl[c].op /\ n.a = cl[c].a /\ n.v = cl[c].v
    BY <1>4
  <2>3. QED
    BY <1>3, <2>1, <2>2, AcceptableShrinks
<1>14. ASSUME NEW k \in Clients PROVE ThreadInv(k)'
  <2>1. ThreadInv(k)
    BY DEF BytesInv
  <2>2. CASE k # c
    <3>1. cl[k].pc \in IOPhases => slot'[cl[k].s] = slot[cl[k].s]
      BY <1>5, <1>6, ThreadKinds
    <3>2. cl[k].op = "write" => \A j \in Clients : cl'[j].op = "write" => j = k
      BY <1>13, <2>1 DEF ThreadInv, WriterOK
    <3>3. QED
      BY <1>1, <1>3, <1>13, <2>1, <2>2, <3>1, <3>2, ThreadKept
  <2>3. CASE k = c /\ n.pc = "begin"
    <3>1. WriterOK(c)'
      BY <1>3, <1>4, <1>13, <2>1, <2>3 DEF ThreadInv, WriterOK
    <3>2. Acceptable(cl[c].a)' \subseteq Acceptable(cl[c].a)
      <4>1. cl'[c].a = cl[c].a /\ cl[c].a \in Addr
        BY <1>1, <1>3, <1>4, <2>3, ThreadKinds
      <4>2. QED
        BY <1>13, <4>1 DEF AcceptableKept
    <3>3. cl'[c].a = cl[c].a /\ cl'[c].ok = cl[c].ok /\ cl'[c].pc = "begin" /\ cl'[c].op = cl[c].op
      BY <1>3, <1>4, <2>3
    <3>4. ReaderOK(c)'
      BY <1>1, <2>1, <2>3, <3>2, <3>3 DEF ThreadInv, ReaderOK, IOPhases
    <3>5. QED
      BY <2>3, <3>1, <3>3, <3>4 DEF ThreadInv
  <2>4. CASE k = c /\ n.pc # "begin"
    BY <1>3, <1>4, <2>4 DEF ThreadInv, WriterOK, ReaderOK
  <2>5. QED
    BY <2>2, <2>3, <2>4
<1>15. UploadCurrent'
  <2>1. SUFFICES ASSUME Publishing PROVE UploadCurrent'
    BY <1>1 DEF UploadCurrent, Publishing
  <2>2. /\ \A k \in Clients : cl[k].op # "write"
        /\ \A a \in Addr : BlockOK(a)
        /\ \A r \in up.recs : RecordOK(r) /\ r.s \in Slots
    BY <2>1, Kinds DEF BytesInv, UploadCurrent, UploadType
  <2>3. ASSUME NEW r \in up.recs, slot[r.s].dirty, r.s \in C PROVE r.new = slot[r.s].name
    BY <1>5, <2>2, <2>3, RenamedSame DEF RecordOK
  <2>4. ASSUME NEW r \in up.recs PROVE RecordOK(r)'
    BY <1>1, <1>6, <2>2, <2>3 DEF RecordOK
  <2>5. ASSUME NEW a \in Addr PROVE BlockOK(a)'
    <3>1. BlockOK(a)
      BY <2>2
    <3>2. CASE a \in up.todo
      BY <1>1, <3>1, <3>2 DEF BlockOK
    <3>3. CASE a \notin up.todo /\ DirtyAt(a) = {}
      <4>1. DirtyAt(a)' = {}
        BY <1>6, <3>3 DEF DirtyAt
      <4>2. QED
        BY <1>1, <3>1, <3>3, <4>1 DEF BlockOK
    <3>4. CASE a \notin up.todo /\ DirtyAt(a) # {}
      <4>1. PICK r \in up.recs : slot[r.s].dirty /\ slot[r.s].addr = a
        BY <3>1, <3>4 DEF BlockOK
      <4>2. r.s \in Slots /\ RecordOK(r) /\ local[a] = slot[r.s].name /\ local[a] # None
        BY <2>2, <4>1, DirtyKinds DEF BytesInv, EntryInv, DirtyUnique
      <4>3. CASE r.s \in C
        <5>1. up.blk[a] = local[a]
          BY <2>3, <4>1, <4>2, <4>3 DEF RecordOK
        <5>2. DirtyAt(a)' = {}
          <6>1. ASSUME NEW t \in Slots, slot'[t].dirty, slot'[t].addr = a PROVE FALSE
            <7>1. slot[t].dirty /\ slot[t].addr = a /\ t \notin C
              BY <1>6, <6>1
            <7>2. slot[t].name = local[a]
              BY <7>1 DEF BytesInv, EntryInv, DirtyUnique
            <7>3. t = r.s
              BY <4>1, <4>2, <7>2, OneDirty, SelfId
            <7>4. QED
              BY <4>3, <7>1, <7>3
          <6>2. QED
            BY <6>1 DEF DirtyAt
        <5>3. QED
          BY <1>1, <3>1, <5>1, <5>2 DEF BlockOK
      <4>4. CASE r.s \notin C
        <5>1. slot'[r.s] = slot[r.s]
          BY <1>6, <4>2, <4>4
        <5>2. DirtyAt(a)' # {}
          BY <4>1, <4>2, <5>1 DEF DirtyAt
        <5>3. QED
          BY <1>1, <3>1, <4>1, <5>1, <5>2 DEF BlockOK
      <4>5. QED
        BY <4>3, <4>4
    <3>5. QED
      BY <3>2, <3>3, <3>4
  <2>6. \A k \in Clients : cl'[k].op # "write"
    BY <1>13, <2>2
  <2>7. QED
    BY <1>1, <2>4, <2>5, <2>6 DEF UploadCurrent
<1>16. \A r \in gc' : r.seq <= seq'
  <2>1. \A r \in gc : r.seq \in Nat /\ r.seq <= seq
    BY Kinds DEF BytesInv, StagedRow
  <2>2. seq \in Nat /\ seq' \in {seq, seq + 1}
    BY <1>2, Kinds
  <2>3. QED
    BY <1>1, <2>1, <2>2
<1>17. poll'.pc = "idle" /\ (up'.pc = "ckpt" => up'.dbs # {})
  BY <1>1 DEF BytesInv
<1>18. QED
  BY <1>8, <1>9, <1>11, <1>12, <1>14, <1>15, <1>16, <1>17 DEF BytesInv, EntryInv

-----------------------------------------------------------------------------
(* Truncation: the entries of the blocks that are cut become clean, and    *)
(* bear the name of no block.                                              *)
LEMMA TruncateBytesInv ==
  ASSUME Faultless, StoredInv, BytesInv, NEW c \in Clients, NEW d \in Dbs, NEW n \in Pos,
         Truncate(c, d, n)
  PROVE  BytesInv'
<1> DEFINE cut == {a \in Addr : a[1] = d /\ a[2] >= n}
           T == Unpublished({d}) \cap cut
           hit == {s \in Slots : \E a \in T : s \in Named(local[a])}
<1>1. UNCHANGED <<data, base, staged, gen, seq, up, poll>> /\ cl' = cl
  BY DEF Truncate
<1>2. /\ Undirty(T) /\ gc' = gc \cup {r \in staged : r.addr \in T}
      /\ local' = [a \in Addr |-> IF a \in cut THEN None ELSE local[a]]
      /\ cur' = [a \in Addr |-> IF a \in cut THEN {} ELSE cur[a]]
  BY DEF Truncate, Undirty
<1>3. \A s \in Slots : slot'[s] = IF s \in hit
                                  THEN [slot[s] EXCEPT !.dirty = FALSE, !.staged = FALSE]
                                  ELSE slot[s]
  BY <1>2 DEF Undirty
<1>4. \A a \in cut : a \in {d} \X Pos
  BY DEF Addr
<1>5. \A a \in cut : local[a] # None /\ local[a] # base.blk[a] => a \in T
  BY <1>4 DEF Unpublished
<1>6. \A k \in Clients : cl[k].op # "write"
  <2>1. SUFFICES ASSUME NEW k \in Clients, cl[k].op = "write" PROVE FALSE
    OBVIOUS
  <2>2. cl[k].a \in Dbs \X Pos
    BY <2>1, ThreadKinds DEF Addr
  <2>3. cl[k].a[1] = d
    BY <2>2 DEF Faultless
  <2>4. QED
    BY <2>1, <2>3 DEF Truncate, Writing
<1>7. ~Publishing
  <2>1. SUFFICES ASSUME Publishing PROVE FALSE
    OBVIOUS
  <2>2. <<d, n>> \in Addr
    BY DEF Addr
  <2>3. d \in up.dbs
    BY <2>1, <2>2 DEF BytesInv, UploadCurrent, BlockOK
  <2>4. QED
    BY <2>1, <2>3 DEF Publishing, Truncate, UploadLocks
<1>8. \A k \in Clients : cl[k].a \notin cut
  BY DEF Truncate
<1>9. ASSUME NEW s \in Slots, slot[s].dirty
      PROVE  s \in hit <=> slot[s].addr \in cut
  <2>1. /\ slot[s].addr \in Addr /\ slot[s].name # None
        /\ local[slot[s].addr] = slot[s].name /\ local[slot[s].addr] # base.blk[slot[s].addr]
    BY <1>9, DirtyKinds, SelfId DEF BytesInv, EntryInv, DirtyUnique
  <2>2. ASSUME slot[s].addr \in cut PROVE s \in hit
    BY <1>5, <2>1, <2>2 DEF Named
  <2>3. ASSUME s \in hit PROVE slot[s].addr \in cut
    <3>1. PICK a \in cut : slot[s].name = local[a] /\ a \in Addr
      BY <2>3 DEF Named
    <3>2. SameId(slot[s].name, local[a])
      BY <2>1, <3>1, SelfId
    <3>3. QED
      BY <1>9, <3>1, <3>2, DirtyOwner
  <2>4. QED
    BY <2>2, <2>3
<1>10. ASSUME NEW s \in Slots
       PROVE  /\ slot'[s].name = slot[s].name /\ slot'[s].addr = slot[s].addr
              /\ slot'[s].valid = slot[s].valid
              /\ slot'[s].dirty = (slot[s].dirty /\ slot[s].addr \notin cut)
  <2>1. slot[s] \in EntryType
    BY Kinds
  <2>2. /\ slot'[s].name = slot[s].name /\ slot'[s].addr = slot[s].addr
        /\ slot'[s].valid = slot[s].valid
        /\ slot'[s].dirty = (slot[s].dirty /\ s \notin hit)
    <3>1. CASE s \in hit
      <4>1. slot'[s] = [slot[s] EXCEPT !.dirty = FALSE, !.staged = FALSE]
        BY <1>3, <3>1
      <4>2. QED
        BY <2>1, <3>1, <4>1 DEF EntryType
    <3>2. CASE s \notin hit
      <4>1. slot'[s] = slot[s] /\ slot[s].dirty \in BOOLEAN
        BY <1>3, <2>1, <3>2 DEF EntryType
      <4>2. QED
        BY <3>2, <4>1
    <3>3. QED
      BY <3>1, <3>2
  <2>3. QED
    BY <1>9, <2>2
<1> HIDE DEF hit
<1>11. /\ \A a \in Addr : a \in cut => local'[a] = None /\ cur'[a] = {}
       /\ \A a \in Addr : a \notin cut => local'[a] = local[a] /\ cur'[a] = cur[a]
       /\ \A r \in gc' : r \in gc \/ (r \in staged /\ r.addr \in cut)
  BY <1>2
<1> HIDE DEF T
<1> HIDE DEF cut
<1>12. NamesFresh'
  <2>1. \A s \in Slots : slot'[s].name # None => slot'[s].name.gen < gen
    BY <1>10 DEF BytesInv, NamesFresh
  <2>2. \A a \in Addr : local'[a] # None => local'[a] = local[a]
    BY <1>11
  <2>3. \A r \in staged \cup gc' : r.name.gen < gen
    BY <1>11 DEF BytesInv, NamesFresh
  <2>4. \A a, b \in Addr : SameId(local'[a], local'[b]) => SameId(local[a], local[b])
    BY <2>2 DEF SameId
  <2>5. QED
    BY <1>1, <2>1, <2>2, <2>3, <2>4 DEF BytesInv, NamesFresh
<1>13. ASSUME NEW s \in Slots PROVE DirtyUnique(s)'
  <2>1. SUFFICES ASSUME slot[s].dirty, slot[s].addr \notin cut PROVE DirtyUnique(s)'
    BY <1>10 DEF DirtyUnique
  <2>2. DirtyUnique(s) /\ slot[s].addr \in Addr
    BY <2>1, DirtyKinds DEF BytesInv, EntryInv
  <2>3. \A r \in staged \cup gc' : ~SameId(r.name, slot[s].name)
    BY <1>11, <2>1, <2>2 DEF DirtyUnique
  <2>4. QED
    BY <1>1, <1>10, <1>11, <2>1, <2>2, <2>3 DEF DirtyUnique
<1>14. ASSUME NEW a \in Addr PROVE CleanBacked(a)'
  <2>1. CASE a \in cut
    BY <1>11, <2>1 DEF CleanBacked
  <2>2. CASE a \notin cut
    <3>1. DirtyAt(a)' = DirtyAt(a)
      BY <1>10, <2>2 DEF DirtyAt
    <3>2. StagedFind(a, local[a]) => StagedFind(a, local[a])'
      <4>1. \A r \in staged \ gc : r.addr = a => r \in staged' \ gc'
        BY <1>1, <1>11, <2>2
      <4>2. local'[a] = local[a]
        BY <1>11, <2>2
      <4>3. QED
        BY <4>1, <4>2 DEF StagedFind
    <3>3. QED
      BY <1>1, <1>10, <1>11, <2>2, <3>1, <3>2 DEF BytesInv, CleanBacked
  <2>3. QED
    BY <2>1, <2>2
<1>15. ASSUME NEW s \in Slots PROVE DirtyBytes(s)' /\ CleanBytes(s)'
  <2>1. EntryInv(s) /\ \A k \in Clients : ~Writer(k, s)
    BY <1>6 DEF BytesInv, Writer
  <2>2. slot[s].dirty => slot[s].addr \in Addr /\ slot[s].valid /\ slot[s].name # None
    BY <2>1, DirtyKinds DEF EntryInv, DirtyBytes
  <2>3. DirtyBytes(s)'
    <3>1. SUFFICES ASSUME slot[s].dirty, slot[s].addr \notin cut PROVE DirtyBytes(s)'
      BY <1>10 DEF DirtyBytes
    <3>2. data[s] \in cur[slot[s].addr] /\ slot[s].addr \in Addr /\ slot[s].valid
      BY <2>1, <2>2, <3>1 DEF EntryInv, DirtyBytes
    <3>3. cur'[slot[s].addr] = cur[slot[s].addr]
      BY <1>11, <3>1, <3>2
    <3>4. QED
      BY <1>1, <1>10, <3>2, <3>3 DEF DirtyBytes
  <2>4. ASSUME slot[s].name # None, Filled(s)', ~slot'[s].dirty PROVE ~slot[s].dirty /\ Filled(s)
    <3>1. ASSUME NEW a \in Addr, local'[a] = slot[s].name PROVE a \notin cut /\ local[a] = slot[s].name
      BY <1>11, <2>4, <3>1
    <3>2. ~slot[s].dirty
      <4>1. SUFFICES ASSUME slot[s].dirty PROVE FALSE
        OBVIOUS
      <4>2. PICK a \in Addr : local'[a] = slot[s].name
        BY <1>1, <1>10, <2>2, <2>4, <4>1 DEF Filled
      <4>3. slot[s].addr = a
        BY <2>2, <3>1, <4>1, <4>2, DirtyOwner, SelfId
      <4>4. QED
        BY <1>10, <2>4, <3>1, <4>1, <4>2, <4>3
    <3>3. QED
      BY <1>1, <1>10, <2>4, <3>1, <3>2 DEF Filled
  <2>5. CleanBytes(s)'
    BY <1>1, <1>10, <2>1, <2>4 DEF EntryInv, CleanBytes
  <2>6. QED
    BY <2>3, <2>5
<1>16. AcceptableKept
  <2>1. \A a \in Addr : cur'[a] \subseteq Acceptable(a)
    BY <1>11 DEF Acceptable
  <2>2. QED
    BY <1>1, <2>1, AcceptableShrinks
<1>17. ASSUME NEW k \in Clients PROVE ThreadInv(k)'
  <2>1. ThreadInv(k) /\ cl[k].op # "write"
    BY <1>6 DEF BytesInv
  <2>2. WriterOK(k)'
    BY <1>1, <2>1 DEF WriterOK
  <2>3. cl[k].pc \in IOPhases => cl[k].s \in Slots
    BY ThreadKinds
  <2>4. ReaderOK(k)'
    <3>1. SUFFICES ASSUME cl[k].op = "read", cl[k].pc \notin {"idle", "null"} PROVE ReaderOK(k)'
      BY <1>1 DEF ReaderOK
    <3>2. Acceptable(cl[k].a)' \subseteq Acceptable(cl[k].a)
      BY <1>1, <1>16, <3>1, ThreadKinds DEF AcceptableKept
    <3>3. QED
      BY <1>1, <1>10, <2>1, <2>3, <3>1, <3>2 DEF ThreadInv, ReaderOK, IOPhases
  <2>5. QED
    BY <1>1, <1>10, <2>1, <2>2, <2>3, <2>4 DEF ThreadInv, IOPhases
<1>18. UploadCurrent'
  BY <1>1, <1>7 DEF UploadCurrent, Publishing
<1>19. /\ poll'.pc = "idle" /\ (up'.pc = "ckpt" => up'.dbs # {})
       /\ \A r \in gc' : r.seq <= seq'
  BY <1>1, <1>11 DEF BytesInv, StoredInv, OperationsOK
<1>20. QED
  BY <1>12, <1>13, <1>14, <1>15, <1>17, <1>18, <1>19 DEF BytesInv, EntryInv

-----------------------------------------------------------------------------
(* The uploader.  Until it installs, only its own state changes.           *)
LEMMA UploaderBytes ==
  ASSUME BytesInv, UNCHANGED <<slot, data, local, base, staged, gc, gen, seq, cur, cl, poll>>,
         UploadCurrent', up'.pc = "ckpt" => up'.dbs # {}
  PROVE  BytesInv'
<1>1. NamesFresh' /\ (\A a \in Addr : CleanBacked(a)') /\ \A s \in Slots : DirtyUnique(s)'
  BY TablesKept
<1>2. \A s \in Slots : DirtyBytes(s)' /\ CleanBytes(s)'
  BY DEF BytesInv, EntryInv, DirtyBytes, CleanBytes, Filled, Writer
<1>3. \A c \in Clients : ThreadInv(c)'
  BY DEF BytesInv, ThreadInv, WriterOK, ReaderOK, Acceptable, InFlight
<1>4. QED
  BY <1>1, <1>2, <1>3 DEF BytesInv, EntryInv

(* Steps that start or end an upload, or abandon it.                       *)
LEMMA UploadEndsBytesInv ==
  ASSUME StoredInv, BytesInv, (\E D \in SUBSET Dbs : UploadBegin(D)) \/ UploadFail
                                \/ \E a \in Addr : UploadMissing(a)
  PROVE  BytesInv'
<1>1. CASE \E D \in SUBSET Dbs : UploadBegin(D)
  <2>1. PICK D : D # {} /\ up' = [up EXCEPT !.pc = "ckpt", !.dbs = D, !.att = up.att + 1]
    BY <1>1 DEF UploadBegin
  <2>2. up'.pc = "ckpt" /\ up'.dbs # {}
    BY <2>1, Kinds DEF UploadType
  <2>3. UploadCurrent'
    BY <2>2 DEF UploadCurrent, Publishing
  <2>4. UNCHANGED <<slot, data, local, base, staged, gc, gen, seq, cur, cl, poll>>
    BY <1>1 DEF UploadBegin, durable
  <2>5. QED
    BY <2>2, <2>3, <2>4, UploaderBytes
<1>2. CASE UploadFail
  <2>1. up' = [IdleUpload EXCEPT !.att = up.att]
    BY <1>2 DEF UploadFail, EndUpload
  <2>2. up'.pc = "idle"
    BY <2>1 DEF IdleUpload
  <2>3. QED
    BY <1>2, <2>2, UploaderBytes DEF UploadFail, durable, UploadCurrent, Publishing
<1>3. CASE \E a \in Addr : UploadMissing(a)
  <2>1. up' = [up EXCEPT !.pc = "corrupt"]
    BY <1>3 DEF UploadMissing
  <2>2. QED
    BY <1>3, <2>1, UploaderBytes DEF UploadMissing, durable, UploadCurrent, Publishing
<1>4. QED
  BY <1>1, <1>2, <1>3

(* The steps after the blocks keep names and records.                      *)
LEMMA UploadMoveBytesInv ==
  ASSUME StoredInv, BytesInv, UploadPending \/ UploadManifest
  PROVE  BytesInv'
<1>1. UNCHANGED <<slot, data, local, base, staged, gc, gen, seq, cur, cl, poll>>
  BY DEF UploadPending, UploadManifest, durable
<1>2. /\ Publishing /\ up'.pc \in {"manifest", "install", "fail"}
      /\ up'.blk = up.blk /\ up'.todo = up.todo /\ up'.recs = up.recs /\ up'.dbs = up.dbs
  <2>1. up \in UploadType
    BY Kinds
  <2>2. CASE UploadPending
    BY <2>1, <2>2 DEF UploadPending, UploadType, Publishing
  <2>3. CASE UploadManifest
    BY <2>1, <2>3 DEF UploadManifest, UploadType, Publishing
  <2>4. QED
    BY <2>2, <2>3
<1>3. UploadCurrent'
  BY <1>1, <1>2 DEF BytesInv, UploadCurrent, BlockOK, RecordOK, DirtyAt
<1>4. QED
  BY <1>1, <1>2, <1>3, UploaderBytes

(* With one database, every block is one of the upload's.                  *)
LEMMA OneDatabase ==
  ASSUME Faultless, StoredInv, NEW a \in Addr
  PROVE  /\ a[1] \in Dbs /\ \A d \in Dbs : a[1] = d
         /\ up.dbs # {} => a[1] \in up.dbs
         /\ OtherBlocks(a[1]) = {}
<1>1. a[1] \in Dbs /\ \A d \in Dbs : a[1] = d
  BY DEF Faultless, Addr
<1>2. \A b \in Addr : b[1] \in Dbs
  BY DEF Addr
<1>3. up.dbs \subseteq Dbs
  BY Kinds DEF UploadType
<1>4. QED
  BY <1>1, <1>2, <1>3 DEF OtherBlocks

(* The snapshot: what is not to be uploaded is published.                  *)
LEMMA UploadSnapshotBytesInv ==
  ASSUME Faultless, StoredInv, BytesInv, UploadSnapshot
  PROVE  BytesInv'
<1>1. /\ UNCHANGED <<slot, data, local, base, staged, gc, gen, seq, cur, cl, poll>>
      /\ up.pc = "ckpt" /\ up.dbs # {} /\ up.recs = {}
      /\ \A d \in up.dbs : Writing(d) = {}
  BY DEF UploadSnapshot, durable, BytesInv, StoredInv, OperationsOK
<1>2. /\ up'.pc = "blocks" /\ up'.blk = local /\ up'.todo = Unpublished(up.dbs)
      /\ up'.recs = {} /\ up'.dbs = up.dbs
  BY <1>1, Kinds DEF UploadSnapshot, UploadType
<1>3. \A c \in Clients : cl[c].op # "write"
  <2>1. SUFFICES ASSUME NEW c \in Clients, cl[c].op = "write" PROVE FALSE
    OBVIOUS
  <2>2. cl[c].a \in Addr
    BY <2>1, ThreadKinds
  <2>3. cl[c].a[1] \in up.dbs
    BY <1>1, <2>2, OneDatabase
  <2>4. QED
    BY <1>1, <2>1, <2>3 DEF Writing
<1>4. ASSUME NEW a \in Addr PROVE BlockOK(a)'
  <2>1. a[1] \in up.dbs
    BY <1>1, OneDatabase
  <2>2. SameId(local[a], local[a]) \/ local[a] = None
    BY SelfId
  <2>3. ASSUME a \notin Unpublished(up.dbs) PROVE DirtyAt(a) = {}
    <3>1. local[a] = None \/ local[a] = base.blk[a]
      BY <2>1, <2>3 DEF Unpublished, Addr
    <3>2. ASSUME NEW s \in Slots, slot[s].dirty, slot[s].addr = a PROVE FALSE
      <4>1. slot[s].name # None /\ local[a] = slot[s].name /\ ~SameId(base.blk[a], slot[s].name)
        BY <3>2, DirtyKinds DEF BytesInv, EntryInv, DirtyUnique
      <4>2. QED
        BY <3>1, <4>1, SelfId
    <3>3. QED
      BY <3>2 DEF DirtyAt
  <2>4. DirtyAt(a)' = DirtyAt(a)
    BY <1>1 DEF DirtyAt
  <2>5. QED
    BY <1>1, <1>2, <2>1, <2>2, <2>3, <2>4 DEF BlockOK
<1>5. UploadCurrent'
  BY <1>1, <1>2, <1>3, <1>4 DEF UploadCurrent
<1>6. QED
  BY <1>1, <1>2, <1>5, UploaderBytes

(* A block whose entry or row bears the uploader's name is clean, and the  *)
(* name is the current one.                                                *)
LEMMA UploadStagedBytesInv ==
  ASSUME StoredInv, BytesInv, NEW a \in Addr, UploadStaged(a)
  PROVE  BytesInv'
<1>1. /\ UNCHANGED <<slot, data, local, base, staged, gc, gen, seq, cur, cl, poll>>
      /\ up.pc = "blocks" /\ a \in up.todo /\ up.blk[a] # None
  BY DEF UploadStaged, durable, StoredInv, OperationsOK
<1>2. /\ up'.pc = "blocks" /\ up'.blk = up.blk /\ up'.todo = up.todo \ {a}
      /\ up'.recs = up.recs /\ up'.dbs = up.dbs
  BY <1>1, Kinds DEF UploadStaged, UploadType
<1>3. /\ \A c \in Clients : cl[c].op # "write"
      /\ \A b \in Addr : BlockOK(b)
      /\ \A r \in up.recs : RecordOK(r)
  BY <1>1 DEF BytesInv, UploadCurrent, Publishing
<1>4. SameId(up.blk[a], local[a]) /\ local[a] # None
  BY <1>1, <1>3 DEF BlockOK, SameId
<1>5. DirtyAt(a) = {} /\ up.blk[a] = local[a]
  <2>1. CASE \E s \in Named(up.blk[a]) : slot[s].staged
    <3>1. PICK s \in Slots : slot[s].name = up.blk[a] /\ slot[s].staged
      BY <2>1 DEF Named
    <3>2. ~slot[s].dirty
      BY <3>1 DEF StoredInv, EntriesOK
    <3>3. SameId(slot[s].name, local[a])
      BY <1>4, <3>1
    <3>4. DirtyAt(a) = {}
      BY <3>2, <3>3, OneDirty DEF DirtyAt
    <3>5. slot[s].name = local[a]
      BY <1>4, <3>3, <3>4 DEF BytesInv, CleanBacked
    <3>6. QED
      BY <3>1, <3>4, <3>5
  <2>2. CASE StagedFind(a, up.blk[a])
    <3>1. PICK r \in staged : r.name = up.blk[a]
      BY <2>2 DEF StagedFind
    <3>2. SameId(r.name, local[a])
      BY <1>4, <3>1
    <3>3. ASSUME NEW t \in Slots, slot[t].dirty, slot[t].addr = a PROVE FALSE
      BY <3>2, <3>3 DEF BytesInv, EntryInv, DirtyUnique
    <3>4. DirtyAt(a) = {}
      BY <3>3 DEF DirtyAt
    <3>5. r.name = local[a]
      BY <1>4, <3>2, <3>4 DEF BytesInv, CleanBacked
    <3>6. QED
      BY <3>1, <3>4, <3>5
  <2>3. QED
    BY <2>1, <2>2 DEF UploadStaged
<1>6. ASSUME NEW b \in Addr PROVE BlockOK(b)'
  <2>1. DirtyAt(b)' = DirtyAt(b) /\ BlockOK(b)
    BY <1>1, <1>3 DEF DirtyAt
  <2>2. CASE b = a
    BY <1>1, <1>2, <1>5, <2>1, <2>2 DEF BlockOK
  <2>3. CASE b # a
    BY <1>1, <1>2, <2>1, <2>3 DEF BlockOK
  <2>4. QED
    BY <2>2, <2>3
<1>7. ASSUME NEW r \in up.recs PROVE RecordOK(r)'
  BY <1>1, <1>2, <1>3 DEF RecordOK
<1>8. UploadCurrent'
  BY <1>1, <1>2, <1>3, <1>6, <1>7 DEF UploadCurrent
<1>9. QED
  BY <1>1, <1>2, <1>8, UploaderBytes

(* A dirty block is uploaded under the name it is given at the end.        *)
LEMMA UploadDirtyBytesInv ==
  ASSUME Faultless, StoredInv, BytesInv, NEW a \in Addr, UploadDirty(a)
  PROVE  BytesInv'
<1>1. /\ UNCHANGED <<slot, data, local, base, staged, gc, gen, seq, cur, cl, poll>>
      /\ up.pc = "blocks" /\ a \in up.todo /\ up.blk[a] # None /\ up.blk[a] \in Name
      /\ up \in UploadType
  BY Kinds DEF UploadDirty, durable, StoredInv, OperationsOK, UploadType, Blocks
<1>2. PICK s \in Slots :
        LET new == Renamed(up.blk[a], data[s])
            next == [up EXCEPT !.blk[a] = new, !.todo = @ \ {a}, !.del = DeleteBlockIf(a),
                               !.recs = @ \cup {[s |-> s, old |-> up.blk[a], new |-> new]}]
        IN  /\ slot[s].name = up.blk[a] /\ slot[s].dirty
            /\ up' = next \/ up' = [next EXCEPT !.pc = "fail"]
  <2>1. \A x : SameBytes(a[1], x) = {}
    BY OneDatabase DEF SameBytes
  <2>2. QED
    BY <2>1 DEF UploadDirty, Named
<1> DEFINE new == Renamed(up.blk[a], data[s])
           rec == [s |-> s, old |-> up.blk[a], new |-> new]
           next == [up EXCEPT !.blk[a] = new, !.todo = @ \ {a}, !.del = DeleteBlockIf(a),
                              !.recs = @ \cup {rec}]
<1>3. up' = next \/ up' = [next EXCEPT !.pc = "fail"]
  BY <1>2
<1>4. CASE up' = [next EXCEPT !.pc = "fail"]
  <2>1. up'.pc = "fail"
    BY <1>4
  <2>2. QED
    BY <1>1, <2>1, UploaderBytes DEF UploadCurrent, Publishing
<1>5. CASE up' = next
  <2>1. /\ \A c \in Clients : cl[c].op # "write"
        /\ \A b \in Addr : BlockOK(b)
        /\ \A r \in up.recs : RecordOK(r)
    BY <1>1 DEF BytesInv, UploadCurrent, Publishing
  <2>2. /\ SameId(slot[s].name, local[a]) /\ slot[s].addr = a
    <3>1. SameId(up.blk[a], local[a])
      BY <1>1, <2>1 DEF BlockOK
    <3>2. QED
      BY <1>2, <3>1, DirtyOwner
  <2>3. SameId(new, local[a])
    <3>1. new.gen = up.blk[a].gen /\ new.tag = up.blk[a].tag /\ new # None
      BY <1>1, RenamedId, RenamedRandom, Kinds
    <3>2. QED
      BY <1>2, <2>2, <3>1 DEF SameId
  <2>4. slot[s].valid
    BY <1>2, <2>1 DEF BytesInv, EntryInv, DirtyBytes, Writer
  <2>5. rec.s = s /\ rec.old = up.blk[a] /\ rec.new = new
    OBVIOUS
  <2>6. new = Renamed(slot[s].name, data[s])
    BY <1>2
  <2> HIDE DEF new, rec
  <2>7. /\ up'.pc = "blocks" /\ up'.dbs = up.dbs /\ up'.todo = up.todo \ {a}
        /\ up'.recs = up.recs \cup {rec} /\ up'.blk[a] = new
        /\ \A b \in Addr : b # a => up'.blk[b] = up.blk[b]
    BY <1>1, <1>5 DEF UploadType, Blocks
  <2>8. ASSUME NEW b \in Addr PROVE BlockOK(b)'
    <3>1. DirtyAt(b)' = DirtyAt(b) /\ BlockOK(b)
      BY <1>1, <2>1 DEF DirtyAt
    <3>2. CASE b = a
      <4>1. DirtyAt(a) # {}
        BY <1>2, <2>2 DEF DirtyAt
      <4>2. slot[rec.s].dirty /\ slot[rec.s].addr = a
        BY <1>2, <2>2, <2>5
      <4>3. a[1] \in up.dbs
        BY <3>1, <3>2 DEF BlockOK
      <4>4. QED
        BY <1>1, <2>3, <2>7, <3>1, <3>2, <4>1, <4>2, <4>3 DEF BlockOK
    <3>3. CASE b # a
      BY <1>1, <2>7, <3>1, <3>3 DEF BlockOK
    <3>4. QED
      BY <3>2, <3>3
  <2>9. ASSUME NEW r \in up.recs \cup {rec} PROVE RecordOK(r)'
    <3>1. CASE r \in up.recs
      <4>1. RecordOK(r) /\ r.s \in Slots
        BY <2>1, <3>1, Kinds DEF UploadType
      <4>2. CASE slot[r.s].dirty
        <5>1. slot[r.s].addr \in Addr /\ slot[r.s].addr # a
          BY <1>1, <4>1, <4>2, DirtyKinds DEF RecordOK
        <5>2. QED
          BY <1>1, <2>7, <4>1, <4>2, <5>1 DEF RecordOK
      <4>3. CASE ~slot[r.s].dirty
        BY <1>1, <4>1, <4>3 DEF RecordOK
      <4>4. QED
        BY <4>2, <4>3
    <3>2. CASE r = rec
      BY <1>1, <1>2, <2>2, <2>4, <2>5, <2>6, <2>7, <3>2 DEF RecordOK
    <3>3. QED
      BY <3>1, <3>2
  <2>10. UploadCurrent'
    BY <1>1, <2>1, <2>7, <2>8, <2>9 DEF UploadCurrent
  <2>11. QED
    BY <1>1, <2>7, <2>10, UploaderBytes
<1>6. QED
  BY <1>3, <1>4, <1>5

(* Installing the manifest: every dirty entry has a record, and takes the  *)
(* name that its block now has; all entries are clean.                     *)
LEMMA RecordsMatch ==
  ASSUME Faultless, StoredInv, BytesInv, up.pc = "install", NEW p \in RenameOutcomes
  PROVE  p[1] = RecordedSlots /\ p[2] = {}
<1>1. \A r \in up.recs : RecordOK(r)
  BY DEF BytesInv, UploadCurrent, Publishing
<1>2. ~Mismatched
  BY <1>1 DEF Mismatched, RecordOK
<1>3. p = <<RecordedSlots, {}>>
  BY <1>2 DEF RenameOutcomes, Faultless
<1>4. QED
  BY <1>3

LEMMA RecordedName ==
  ASSUME Faultless, StoredInv, BytesInv, up.pc = "install", NEW s \in Slots
  PROVE  /\ s \in RecordedSlots <=> slot[s].dirty
         /\ slot[s].dirty => /\ PublishedName(s) = up.blk[slot[s].addr]
                             /\ PublishedName(s) = Renamed(slot[s].name, data[s])
<1>1. /\ \A r \in up.recs : RecordOK(r) /\ r.s \in Slots
      /\ up.todo = {} /\ \A a \in Addr : BlockOK(a)
  BY Kinds DEF BytesInv, UploadCurrent, Publishing, UploadType, StoredInv, OperationsOK
<1>2. ASSUME s \in RecordedSlots PROVE slot[s].dirty
  BY <1>2 DEF RecordedSlots, Recorded
<1>3. ASSUME slot[s].dirty PROVE s \in RecordedSlots
  <2> DEFINE a == slot[s].addr
  <2>1. a \in Addr /\ s \in DirtyAt(a) /\ local[a] = slot[s].name /\ local[a] # None
    BY <1>3, DirtyKinds DEF DirtyAt, BytesInv, EntryInv, DirtyUnique
  <2>2. PICK r \in up.recs : slot[r.s].dirty /\ slot[r.s].addr = a
    BY <1>1, <2>1 DEF BlockOK
  <2>3. r.s = s
    BY <1>1, <2>1, <2>2, OneDirty, SelfId
  <2>4. r \in Recorded(s)
    BY <1>1, <1>3, <2>3 DEF Recorded, RecordOK
  <2>5. QED
    BY <2>4 DEF RecordedSlots
<1>4. ASSUME slot[s].dirty
      PROVE  /\ PublishedName(s) = up.blk[slot[s].addr]
             /\ PublishedName(s) = Renamed(slot[s].name, data[s])
  <2>1. PICK r \in Recorded(s) : PublishedName(s) = r.new
    BY <1>3, <1>4 DEF RecordedSlots, PublishedName
  <2>2. r \in up.recs /\ r.s = s
    BY DEF Recorded
  <2>3. QED
    BY <1>1, <1>4, <2>1, <2>2 DEF RecordOK
<1>5. QED
  BY <1>2, <1>3, <1>4

(* What an installation makes of the entries and of the manifest.          *)
LEMMA Installed ==
  ASSUME Faultless, StoredInv, BytesInv, UploadInstall
  PROVE  /\ \A a \in Addr : /\ local'[a] = up.blk[a] /\ base'.blk[a] = up.blk[a]
                            /\ SameRandom(local'[a], local[a])
                            /\ DirtyAt(a) = {} => local'[a] = local[a]
         /\ \A s \in Slots : /\ ~slot'[s].dirty /\ slot'[s].valid = slot[s].valid
                             /\ slot'[s].addr = slot[s].addr
                             /\ SameRandom(slot'[s].name, slot[s].name)
                             /\ ~slot[s].dirty => slot'[s] = slot[s]
                             /\ slot[s].dirty => /\ slot'[s].name = up.blk[slot[s].addr]
                                                 /\ slot'[s].name.md5 = data[s]
         /\ \A s \in Slots : \A a \in Addr :
              SameId(slot[s].name, local[a]) => slot'[s].name = local'[a]
<1>1. up.pc = "install"
  BY DEF UploadInstall
<1>2. /\ \A c \in Clients : cl[c].op # "write"
      /\ up.todo = {} /\ \A a \in Addr : BlockOK(a)
  BY <1>1 DEF BytesInv, UploadCurrent, Publishing, StoredInv, OperationsOK
<1>3. \A a \in Addr : local'[a] = up.blk[a] /\ base'.blk[a] = up.blk[a]
  <2>1. \A a \in Addr : a[1] \in up.dbs
    BY <1>2 DEF BlockOK
  <2>2. local' = [a \in Addr |-> IF a[1] \in up.dbs THEN up.blk[a] ELSE local[a]]
    BY DEF UploadInstall
  <2>3. base'.blk = NewBlk
    BY DEF UploadInstall, NewManifest
  <2>4. QED
    BY <2>1, <2>2, <2>3 DEF NewBlk
<1>4. \A s \in Slots : slot'[s] = IF slot[s].dirty
                                  THEN [slot[s] EXCEPT !.dirty = FALSE, !.name = PublishedName(s)]
                                  ELSE slot[s]
  <2>1. PICK p \in RenameOutcomes :
           slot' = [s \in Slots |->
                      IF s \in p[1] \cup p[2]
                      THEN [slot[s] EXCEPT !.dirty = s \in p[2], !.name = PublishedName(s)]
                      ELSE slot[s]]
    BY DEF UploadInstall
  <2>2. p[1] = RecordedSlots /\ p[2] = {}
    BY <1>1, RecordsMatch
  <2>3. \A s \in Slots : (s \in p[2]) = FALSE
    BY <2>2
  <2>4. \A s \in Slots : s \in p[1] \cup p[2] <=> slot[s].dirty
    BY <1>1, <2>2, RecordedName
  <2>5. QED
    BY <2>1, <2>3, <2>4
<1>5. ASSUME NEW s \in Slots, slot[s].dirty
      PROVE  /\ slot'[s].name = up.blk[slot[s].addr] /\ slot'[s].name.md5 = data[s]
             /\ slot'[s].addr = slot[s].addr /\ slot'[s].valid = slot[s].valid
             /\ slot'[s].dirty = FALSE /\ SameRandom(slot'[s].name, slot[s].name)
             /\ slot'[s].name # None
  <2>1. slot[s] \in EntryType /\ slot[s].name \in Name /\ data[s] \in Contents
    BY <1>5, DirtyKinds, Kinds
  <2>2. slot'[s] = [slot[s] EXCEPT !.dirty = FALSE, !.name = PublishedName(s)]
    BY <1>4, <1>5
  <2>3. /\ slot'[s].name = PublishedName(s) /\ slot'[s].addr = slot[s].addr
        /\ slot'[s].valid = slot[s].valid /\ slot'[s].dirty = FALSE
    BY <2>1, <2>2 DEF EntryType
  <2>4. PublishedName(s) = up.blk[slot[s].addr] /\ PublishedName(s) = Renamed(slot[s].name, data[s])
    BY <1>1, <1>5, RecordedName
  <2>5. Renamed(slot[s].name, data[s]).md5 = data[s]
    BY <2>1, RenamedMd5 DEF Faultless
  <2>6. QED
    BY <2>1, <2>3, <2>4, <2>5, RenamedRandom
<1>6. ASSUME NEW s \in Slots, ~slot[s].dirty PROVE slot'[s] = slot[s]
  BY <1>4, <1>6
<1>7. ASSUME NEW s \in Slots
      PROVE  /\ ~slot'[s].dirty /\ slot'[s].valid = slot[s].valid
             /\ slot'[s].addr = slot[s].addr
             /\ SameRandom(slot'[s].name, slot[s].name)
  <2>1. CASE slot[s].dirty
    BY <1>5, <2>1
  <2>2. CASE ~slot[s].dirty
    BY <1>6, <2>2 DEF SameRandom
  <2>3. QED
    BY <2>1, <2>2
<1>8. ASSUME NEW a \in Addr
      PROVE  /\ SameRandom(local'[a], local[a])
             /\ DirtyAt(a) = {} => local'[a] = local[a]
  BY <1>2, <1>3 DEF BlockOK, SameRandom, SameId
<1>9. ASSUME NEW s \in Slots, NEW a \in Addr, SameId(slot[s].name, local[a])
       PROVE  slot'[s].name = local'[a]
  <2>1. CASE slot[s].dirty
    <3>1. slot[s].addr = a
      BY <1>9, <2>1, DirtyOwner
    <3>2. QED
      BY <1>3, <1>5, <2>1, <3>1
  <2>2. CASE ~slot[s].dirty
    <3>1. DirtyAt(a) = {}
      BY <1>9, <2>2, OneDirty DEF DirtyAt
    <3>2. slot[s].name = local[a]
      BY <1>9, <3>1 DEF BytesInv, CleanBacked, SameId
    <3>3. QED
      BY <1>6, <1>8, <2>2, <3>1, <3>2
  <2>3. QED
    BY <2>1, <2>2
<1>10. QED
  BY <1>3, <1>5, <1>6, <1>7, <1>8, <1>9

LEMMA UploadInstallBytesInv ==
  ASSUME Faultless, StoredInv, BytesInv, UploadInstall
  PROVE  BytesInv'
<1>1. /\ UNCHANGED <<data, gen, seq, cur, poll>> /\ cl' = cl
      /\ up.pc = "install" /\ up'.pc = "idle"
      /\ staged' \subseteq staged /\ gc' \subseteq gc
  BY DEF UploadInstall, EndUpload, IdleUpload, Retire, StagedAfter
<1>2. /\ \A c \in Clients : cl[c].op # "write"
      /\ up.todo = {} /\ \A a \in Addr : BlockOK(a)
  BY <1>1 DEF BytesInv, UploadCurrent, Publishing, StoredInv, OperationsOK
<1>3. \A a \in Addr : local'[a] = up.blk[a] /\ base'.blk[a] = up.blk[a]
  BY Installed
<1>5. ASSUME NEW s \in Slots, slot[s].dirty
      PROVE  /\ slot'[s].name = up.blk[slot[s].addr] /\ slot'[s].name.md5 = data[s]
             /\ slot'[s].addr = slot[s].addr /\ slot'[s].valid = slot[s].valid
             /\ slot'[s].dirty = FALSE /\ SameRandom(slot'[s].name, slot[s].name)
             /\ slot'[s].name # None
  <2>1. slot[s].name # None
    BY <1>5, DirtyKinds
  <2>2. QED
    BY <1>5, <2>1, Installed DEF SameRandom
<1>6. ASSUME NEW s \in Slots, ~slot[s].dirty PROVE slot'[s] = slot[s]
  BY <1>6, Installed
<1>7. ASSUME NEW s \in Slots
      PROVE  /\ ~slot'[s].dirty /\ slot'[s].valid = slot[s].valid
             /\ SameRandom(slot'[s].name, slot[s].name)
  BY Installed
<1>8. ASSUME NEW a \in Addr
      PROVE  /\ SameRandom(local'[a], local[a])
             /\ DirtyAt(a) = {} => local'[a] = local[a]
  BY Installed
<1>9. /\ \A x : \A s \in Slots : SameId(slot'[s].name, x) <=> SameId(slot[s].name, x)
      /\ \A x : \A a \in Addr : /\ SameId(local'[a], x) <=> SameId(local[a], x)
                                /\ SameId(x, local'[a]) <=> SameId(x, local[a])
  BY <1>7, <1>8, SameRandomId
<1>10. NamesFresh'
  <2>1. \A s \in Slots : slot'[s].name # None => slot'[s].name.gen < gen
    BY <1>7 DEF BytesInv, NamesFresh, SameRandom
  <2>2. \A a \in Addr : local'[a] # None => local'[a].gen < gen
    BY <1>8 DEF BytesInv, NamesFresh, SameRandom
  <2>3. \A a, b \in Addr : SameId(local'[a], local'[b]) => a = b
    BY <1>9 DEF BytesInv, NamesFresh
  <2>4. \A r \in staged' \cup gc' : r.name.gen < gen
    BY <1>1 DEF BytesInv, NamesFresh
  <2>5. QED
    BY <1>1, <1>3, <2>1, <2>2, <2>3, <2>4 DEF NamesFresh
<1>11. ASSUME NEW s \in Slots, NEW a \in Addr, SameId(slot[s].name, local[a])
       PROVE  slot'[s].name = local'[a]
  BY <1>11, Installed
<1>12. ASSUME NEW a \in Addr PROVE CleanBacked(a)'
  <2>1. CASE local[a] = None
    BY <1>1, <1>8, <2>1 DEF BytesInv, CleanBacked, SameRandom
  <2>2. CASE local[a] # None
    <3>1. local'[a] # None /\ local'[a] = base'.blk[a]
      BY <1>3, <1>8, <2>2 DEF SameRandom
    <3>2. \A s \in Slots : SameId(slot'[s].name, local'[a]) => slot'[s].name = local'[a]
      BY <1>9, <1>11
    <3>3. CASE DirtyAt(a) = {}
      <4>1. CleanBacked(a) /\ local'[a] = local[a]
        BY <1>8, <3>3 DEF BytesInv
      <4>2. QED
        BY <1>1, <2>2, <3>1, <3>2, <3>3, <4>1 DEF CleanBacked
    <3>4. CASE DirtyAt(a) # {}
      <4>1. PICK s \in Slots : slot[s].dirty /\ slot[s].addr = a
        BY <3>4 DEF DirtyAt
      <4>2. EntryInv(s) /\ \A k \in Clients : ~Writer(k, s)
        BY <1>2 DEF BytesInv, Writer
      <4>3. local'[a].md5 \in cur'[a]
        <5>1. local'[a].md5 = data[s]
          <6>1. local'[a] = slot'[s].name /\ slot'[s].name.md5 = data[s]
            BY <1>3, <1>5, <4>1
          <6>2. QED
            BY <6>1
        <5>2. data[s] \in cur[a]
          BY <4>1, <4>2 DEF EntryInv, DirtyBytes
        <5>3. QED
          BY <1>1, <5>1, <5>2
      <4>4. \A r \in staged' : ~SameId(r.name, local'[a])
        <5>1. \A r \in staged : ~SameId(r.name, local[a])
          BY <4>1, <4>2 DEF EntryInv, DirtyUnique
        <5>2. QED
          BY <1>1, <1>9, <5>1
      <4>5. QED
        BY <3>1, <3>2, <4>3, <4>4 DEF CleanBacked
    <3>5. QED
      BY <3>3, <3>4
  <2>3. QED
    BY <2>1, <2>2
<1>13. ASSUME NEW s \in Slots PROVE EntryInv(s)'
  <2>1. DirtyUnique(s)' /\ DirtyBytes(s)'
    BY <1>7 DEF DirtyUnique, DirtyBytes
  <2>2. CASE slot[s].dirty
    BY <1>1, <1>5, <2>1, <2>2 DEF EntryInv, CleanBytes
  <2>3. CASE ~slot[s].dirty
    <3>1. slot'[s] = slot[s] /\ CleanBytes(s)
      BY <1>6, <2>3 DEF BytesInv, EntryInv
    <3>2. ASSUME NEW a \in Addr, local'[a] = slot[s].name, slot[s].name # None
          PROVE  local[a] = slot[s].name
      <4>1. SameId(slot[s].name, local[a])
        BY <1>9, <3>2, SelfId
      <4>2. DirtyAt(a) = {}
        BY <2>3, <4>1, OneDirty DEF DirtyAt
      <4>3. QED
        BY <1>8, <3>2, <4>2
    <3>3. slot[s].name # None /\ Filled(s)' => Filled(s)
      BY <1>1, <3>1, <3>2 DEF Filled
    <3>4. CleanBytes(s)'
      BY <1>1, <3>1, <3>3 DEF CleanBytes
    <3>5. QED
      BY <2>1, <3>4 DEF EntryInv
  <2>4. QED
    BY <2>2, <2>3
<1>14. ASSUME NEW k \in Clients PROVE ThreadInv(k)'
  <2>1. ThreadInv(k) /\ cl[k].op # "write" /\ (cl[k].pc \in IOPhases => cl[k].s \in Slots)
    BY <1>2, ThreadKinds DEF BytesInv
  <2>2. WriterOK(k)'
    BY <1>1, <2>1 DEF WriterOK
  <2>3. cl[k].pc \in IOPhases /\ slot[cl[k].s].name # None => slot'[cl[k].s].name # None
    BY <1>7, <2>1 DEF SameRandom
  <2>4. cl[k].pc \in IOPhases => ~slot'[cl[k].s].dirty
    BY <1>7, <2>1
  <2>5. cl[k].pc = "fetch" => slot'[cl[k].s] = slot[cl[k].s]
    BY <1>6, <2>1 DEF ThreadInv, IOPhases
  <2>6. \A a \in Addr : Acceptable(a)' = Acceptable(a)
    BY <1>1 DEF Acceptable, InFlight
  <2>7. ReaderOK(k)'
    <3>1. SUFFICES ASSUME cl[k].op = "read", cl[k].pc \notin {"idle", "null"} PROVE ReaderOK(k)'
      BY <1>1 DEF ReaderOK
    <3>2. Acceptable(cl[k].a)' = Acceptable(cl[k].a)
      BY <1>1, <2>6, <3>1, ThreadKinds
    <3>3. QED
      BY <1>1, <2>1, <2>3, <2>4, <2>5, <3>1, <3>2 DEF ThreadInv, ReaderOK
  <2>8. QED
    BY <1>1, <2>1, <2>2, <2>4, <2>5, <2>7 DEF ThreadInv, IOPhases
<1>15. UploadCurrent'
  BY <1>1 DEF UploadCurrent, Publishing
<1>16. /\ poll'.pc = "idle" /\ (up'.pc = "ckpt" => up'.dbs # {})
       /\ \A r \in gc' : r.seq <= seq'
  BY <1>1 DEF BytesInv
<1>17. QED
  BY <1>10, <1>12, <1>13, <1>14, <1>15, <1>16 DEF BytesInv

-----------------------------------------------------------------------------
(* The remaining steps, and the invariant.                                 *)

(* Another process takes names of its own.                                 *)
LEMMA RemotePublishBytesInv ==
  ASSUME StoredInv, BytesInv, NEW a \in Addr, NEW v \in Contents, RemotePublish(a, v)
  PROVE  BytesInv'
<1>1. UNCHANGED <<slot, data, local, base, staged, gc, seq, cur, cl, up, poll>> /\ gen' = gen + 1
  BY DEF RemotePublish, durable
<1>2. NamesFresh'
  <2>1. \A n \in Name : n.gen < gen => n.gen < gen'
    BY <1>1, Kinds DEF Name
  <2>2. /\ \A s \in Slots : slot[s].name # None => slot[s].name \in Name
        /\ \A b \in Addr : /\ local[b] # None => local[b] \in Name
                           /\ base.blk[b] # None => base.blk[b] \in Name
        /\ \A r \in staged \cup gc : r.name \in Name
    BY Kinds DEF EntryType, StagedRow
  <2>3. QED
    BY <1>1, <2>1, <2>2 DEF BytesInv, NamesFresh
<1>3. (\A b \in Addr : CleanBacked(b)') /\ \A s \in Slots : EntryInv(s)'
  <2>1. \A b \in Addr : CleanBacked(b)'
    BY <1>1 DEF BytesInv, CleanBacked, DirtyAt, StagedFind
  <2>2. \A s \in Slots : DirtyUnique(s)'
    BY <1>1 DEF BytesInv, EntryInv, DirtyUnique
  <2>3. \A s \in Slots : DirtyBytes(s)' /\ CleanBytes(s)'
    BY <1>1 DEF BytesInv, EntryInv, DirtyBytes, CleanBytes, Filled, Writer
  <2>4. QED
    BY <2>1, <2>2, <2>3 DEF EntryInv
<1>4. \A c \in Clients : ThreadInv(c)'
  BY <1>1 DEF BytesInv, ThreadInv, WriterOK, ReaderOK, Acceptable, InFlight
<1>5. UploadCurrent'
  BY <1>1 DEF BytesInv, UploadCurrent, Publishing, BlockOK, RecordOK, DirtyAt
<1>6. QED
  BY <1>1, <1>2, <1>3, <1>4, <1>5 DEF BytesInv

LEMMA FinishIOBytesInv ==
  ASSUME StoredInv, BytesInv, NEW c \in Clients, FinishIO(c)
  PROVE  BytesInv'
  BY ThreadKinds, FinishReadBytesInv, FinishWriteBytesInv

LEMMA IOBytesInv ==
  ASSUME Faultless, StoredInv, ContentInv, BytesInv, NEW c \in Clients, IOStep(c)
  PROVE  BytesInv'
<1>1. ~ClearBlockFails(c) /\ ~FailIO(c)
  BY DEF Faultless, ClearBlockFails, FailIO
<1>2. QED
  BY <1>1, ReleaseBytesInv, MoveBytesInv, CacheHitBytesInv, CacheMissBytesInv, FetchBlockBytesInv,
     ReadBytesBytesInv, AlreadyDirtyBytesInv, MakeBlockWritableBytesInv, WriteBytesBytesInv,
     FinishIOBytesInv DEF IOStep

LEMMA StageBytesInv ==
  ASSUME Faultless, StoredInv, ContentInv, BytesInv, NEW c \in Clients, StageStep(c)
  PROVE  BytesInv'
  BY ReleaseBytesInv, MoveBytesInv, StageSelectBytesInv, StagePersistBytesInv DEF StageStep

LEMMA UploadBytesInv ==
  ASSUME Faultless, StoredInv, BytesInv, UploadStep \/ \E D \in SUBSET Dbs : UploadBegin(D)
  PROVE  BytesInv'
  BY UploadEndsBytesInv, UploadMoveBytesInv, UploadSnapshotBytesInv, UploadStagedBytesInv,
     UploadDirtyBytesInv, UploadInstallBytesInv DEF UploadStep

LEMMA NextBytes ==
  ASSUME Faultless, StoredInv, ContentInv, BytesInv, [Next]_vars,
         ~PollBegin, ~Revert, ~Crash, ~CrashInstalling
  PROVE  BytesInv'
<1>1. CASE UNCHANGED vars
  <2>1. UNCHANGED <<slot, data, local, base, staged, gc, gen, seq, cur, cl, up, poll>>
    BY <1>1 DEF vars, durable
  <2>2. UploadCurrent'
    BY <2>1 DEF BytesInv, UploadCurrent, Publishing, BlockOK, RecordOK, DirtyAt
  <2>3. QED
    BY <2>1, <2>2, UploaderBytes DEF BytesInv
<1>2. CASE \E c \in Clients : \E a \in Addr : Read(c, a) \/ \E v \in Contents : Write(c, a, v)
  BY <1>2, ReadBytesInv, WriteBytesInv
<1>3. CASE \E c \in Clients : \E d \in Dbs : \E n \in Pos : Truncate(c, d, n)
  BY <1>3, TruncateBytesInv
<1>4. CASE \E c \in Clients : IOStep(c) \/ StageStep(c)
  BY <1>4, IOBytesInv, StageBytesInv
<1>5. CASE UploadStep \/ \E D \in SUBSET Dbs : UploadBegin(D)
  BY <1>5, UploadBytesInv
<1>6. CASE \E a \in Addr : \E v \in Contents : RemotePublish(a, v)
  BY <1>6, RemotePublishBytesInv
<1>7. ~PollStep /\ ~CrashReconciling
  BY DEF BytesInv, PollStep, PendingTryInstall, PendingInstallFails, ManifestUpdate, PollFail,
         CrashReconciling
<1>8. QED
  BY <1>1, <1>2, <1>3, <1>4, <1>5, <1>6, <1>7 DEF Next

LEMMA InitBytes ==
  ASSUME Faultless, Init
  PROVE  BytesInv
<1> DEFINE c0 == CHOOSE v \in Contents : TRUE
           name(a) == [gen |-> 0, tag |-> a, md5 |-> c0]
<1>1. /\ slot = [s \in Slots |-> FreeEntry] /\ cl = [c \in Clients |-> IdleClient]
      /\ \A a \in Addr : local[a] = IF a \in Published0 THEN name(a) ELSE None
      /\ \A a \in Addr : base.blk[a] = local[a]
      /\ staged = {} /\ gc = {} /\ gen = 1 /\ up = IdleUpload /\ poll = IdlePoll
      /\ \A a \in Addr : cur[a] = IF a \in Published0 THEN {c0} ELSE {}
  BY DEF Init, Faultless
<1>2. \A a : name(a).gen = 0 /\ name(a).tag = a /\ name(a).md5 = c0
  OBVIOUS
<1>3. \A a \in Published0 : name(a) # None
  <2>1. c0 \in Contents
    BY ConstantsAssumption
  <2>2. \A a \in Published0 : name(a) \in Name
    BY <2>1, ConstantsAssumption DEF Name
  <2>3. QED
    BY <2>2, NoneNot
<1> HIDE DEF name
<1> HIDE DEF c0
<1>4. \A s \in Slots : slot[s].name = None /\ ~slot[s].dirty /\ ~slot[s].valid
  BY <1>1 DEF FreeEntry
<1>5. \A c \in Clients : cl[c].pc = "idle" /\ cl[c].op = "read"
  BY <1>1, IdleIs
<1>6. up.pc = "idle" /\ poll.pc = "idle"
  BY <1>1 DEF IdleUpload, IdlePoll
<1>7. NamesFresh
  <2>1. \A a, b \in Addr : SameId(local[a], local[b]) => a = b
    BY <1>1, <1>2 DEF SameId
  <2>2. \A a \in Addr : local[a] # None => local[a].gen < gen
    BY <1>1, <1>2
  <2>3. QED
    BY <1>1, <1>4, <2>1, <2>2 DEF NamesFresh
<1>8. \A s \in Slots : EntryInv(s)
  BY <1>4 DEF EntryInv, DirtyUnique, DirtyBytes, CleanBytes
<1>9. ASSUME NEW a \in Addr PROVE CleanBacked(a)
  <2>1. CASE a \in Published0
    <3>1. local[a] = name(a) /\ local[a] # None /\ cur[a] = {c0}
      BY <1>1, <1>3, <2>1
    <3>2. local[a].md5 \in cur[a]
      BY <1>2, <3>1
    <3>3. QED
      BY <1>1, <1>4, <3>1, <3>2 DEF CleanBacked, SameId
  <2>2. CASE a \notin Published0
    BY <1>1, <2>2 DEF CleanBacked
  <2>3. QED
    BY <2>1, <2>2
<1>10. \A c \in Clients : ThreadInv(c)
  BY <1>5 DEF ThreadInv, WriterOK, ReaderOK
<1>11. UploadCurrent
  BY <1>6 DEF UploadCurrent, Publishing
<1>12. QED
  BY <1>1, <1>6, <1>7, <1>8, <1>9, <1>10, <1>11 DEF BytesInv

(* Which step changes the bucket's manifest.                               *)
LEMMA ManifestChanges ==
  ASSUME StoredInv, [Next]_vars, rman' # rman, gen' = gen
  PROVE  UploadManifest
<1>1. CASE UploadManifest
  BY <1>1
<1>2. CASE UNCHANGED rman
  BY <1>2
<1>3. CASE \E a \in Addr : \E v \in Contents : RemotePublish(a, v)
  <2>1. gen' = gen + 1 /\ gen \in Nat
    BY <1>3, Kinds DEF RemotePublish
  <2>2. QED
    BY <2>1
<1>4. CASE \E c \in Clients : \/ \E a \in Addr : Read(c, a) \/ \E v \in Contents : Write(c, a, v)
                              \/ \E d \in Dbs : \E n \in Pos : Truncate(c, d, n)
                              \/ IOStep(c)
  <2>1. PICK c \in Clients :
          \/ \E a \in Addr : Read(c, a) \/ \E v \in Contents : Write(c, a, v)
          \/ \E d \in Dbs : \E n \in Pos : Truncate(c, d, n)
          \/ IOStep(c)
    BY <1>4
  <2>2. CASE \E a \in Addr : Read(c, a) \/ \E v \in Contents : Write(c, a, v)
    BY <1>2, <2>2 DEF Read, Write, bucket
  <2>3. CASE \E d \in Dbs : \E n \in Pos : Truncate(c, d, n)
    BY <1>2, <2>3 DEF Truncate, bucket
  <2>4. CASE ShortRead(c) \/ WaitForEntry(c) \/ CacheHit(c) \/ CacheMiss(c)
    BY <1>2, <2>4 DEF ShortRead, WaitForEntry, CacheHit, CacheMiss, bucket
  <2>5. CASE CacheFull(c) \/ ClearBlockFails(c) \/ FailIO(c) \/ FetchBlock(c) \/ ReadBytes(c)
    BY <1>2, <2>5 DEF CacheFull, ClearBlockFails, FailIO, FetchBlock, ReadBytes, bucket
  <2>6. CASE AlreadyDirty(c) \/ MakeBlockWritable(c) \/ CopyFull(c) \/ WriteBytes(c) \/ FinishIO(c)
    BY <1>2, <2>6 DEF AlreadyDirty, MakeBlockWritable, CopyFull, WriteBytes, FinishIO, bucket
  <2>7. QED
    BY <2>1, <2>2, <2>3, <2>4, <2>5, <2>6 DEF IOStep
<1>5. CASE \E c \in Clients : StageStep(c)
  BY <1>2, <1>5 DEF StageStep, StageSelect, StageNothing, StagePut, StagePersist, bucket
<1>6. CASE \/ \E D \in SUBSET Dbs : UploadBegin(D)
           \/ \E a \in Addr : UploadStaged(a) \/ UploadDirty(a) \/ UploadMissing(a)
           \/ UploadSnapshot \/ UploadPending \/ UploadFail \/ UploadInstall
  BY <1>2, <1>6 DEF UploadBegin, UploadStaged, UploadDirty, UploadMissing, UploadSnapshot,
                    UploadPending, UploadFail, UploadInstall, bucket
<1>7. CASE PollBegin \/ PollStep \/ Revert
  BY <1>2, <1>7 DEF PollBegin, PollStep, PendingTryInstall, PendingInstallFails, ManifestUpdate,
                    PollFail, Revert, bucket
<1>8. CASE Crash \/ CrashInstalling \/ CrashReconciling
  BY <1>2, <1>8 DEF Crash, CrashInstalling, CrashReconciling, CacheInit, bucket
<1>9. CASE UNCHANGED vars
  BY <1>2, <1>9 DEF vars, bucket
<1>10. QED
  BY <1>1, <1>3, <1>4, <1>5, <1>6, <1>7, <1>8, <1>9 DEF Next, UploadStep

(* The manifest that is put names, for every block, an object with the     *)
(* acknowledged bytes.                                                     *)
LEMMA ManifestCurrent ==
  ASSUME ContentNames, StoredInv, ContentInv, BytesInv, UploadManifest, rman' # rman, NEW a \in Addr
  PROVE  /\ a[1] \in up.dbs
         /\ PublishedContent(a)' \in IF cur[a] = {} THEN {None} ELSE cur[a]
<1>1. /\ up.pc = "manifest" /\ obj' = obj /\ rman' = NewManifest /\ up.todo = {}
  BY DEF UploadManifest, StoredInv, OperationsOK
<1>2. /\ \A c \in Clients : cl[c].op # "write"
      /\ BlockOK(a) /\ \A r \in up.recs : RecordOK(r) /\ r.s \in Slots
  BY <1>1, Kinds DEF BytesInv, UploadCurrent, Publishing, UploadType
<1>3. a[1] \in up.dbs
  BY <1>2 DEF BlockOK
<1>4. rman'.blk[a] = up.blk[a]
  BY <1>1, <1>3 DEF NewManifest, NewBlk
<1>5. up.blk[a] = None \/ up.blk[a] \in DOMAIN obj
  BY <1>1, <1>3 DEF StoredInv, NamesStored, Stored
<1>6. CASE local[a] = None
  <2>1. up.blk[a] = None /\ cur[a] = {}
    BY <1>2, <1>6 DEF BlockOK, SameId, BytesInv, CleanBacked
  <2>2. None \notin DOMAIN obj
    BY NoneNot DEF StoredInv, TypeOK
  <2>3. QED
    BY <1>1, <1>3, <1>4, <2>1, <2>2 DEF PublishedContent, ContentOf
<1>7. CASE local[a] # None
  <2>1. up.blk[a] # None
    BY <1>2, <1>7 DEF BlockOK, SameId
  <2>2. PublishedContent(a)' = up.blk[a].md5
    BY <1>1, <1>4, <1>5, <2>1 DEF PublishedContent, ContentOf, ContentInv, Addressed
  <2>3. up.blk[a].md5 \in cur[a]
    <3>1. CASE DirtyAt(a) = {}
      BY <1>1, <1>2, <1>7, <3>1 DEF BlockOK, BytesInv, CleanBacked
    <3>2. CASE DirtyAt(a) # {}
      <4>1. PICK r \in up.recs : slot[r.s].dirty /\ slot[r.s].addr = a
        BY <1>1, <1>2, <3>2 DEF BlockOK
      <4>2. /\ r.s \in Slots /\ slot[r.s].name \in Name
            /\ up.blk[a] = Renamed(slot[r.s].name, data[r.s])
        BY <1>2, <4>1, DirtyKinds DEF RecordOK
      <4>3. data[r.s] \in cur[a]
        BY <1>2, <4>1, <4>2 DEF BytesInv, EntryInv, DirtyBytes, Writer
      <4>4. up.blk[a].md5 = data[r.s]
        BY <4>2, RenamedMd5
      <4>5. QED
        BY <4>3, <4>4
    <3>3. QED
      BY <3>1, <3>2
  <2>4. QED
    BY <1>3, <2>2, <2>3
<1>8. QED
  BY <1>6, <1>7
=============================================================================
