------------------------- MODULE BlockRecoveryProofs -------------------------
(***************************************************************************)
(* Crash safety: in a container with one database and with content names,  *)
(* whatever any number of threads read, write, stage, evict and upload,    *)
(* the durable tables and the bucket give back the acknowledged bytes of   *)
(* every block at every instant, and go on doing so after restarts and     *)
(* reverts; nothing that is needed is ever put on the delete list.         *)
(***************************************************************************)
EXTENDS BlockBytesProofs

(* The instances the theorems are about: no failures of local I/O, no      *)
(* polls, and either truncations or restarts.  A batch that was selected   *)
(* inside an upload may be persisted after a truncation of its blocks, and *)
(* a restart would then bring them back.                                   *)
Undisturbed ==
    /\ Faultless
    /\ "poll" \notin Calls
    /\ "truncate" \notin Calls \/ "crash" \notin Calls

-----------------------------------------------------------------------------
(* The inductive invariant: names.                                         *)

(* The names that a block has: its current one, the published one and      *)
(* those of its staged rows and of their tombstones.                       *)
Names(a) == {local[a], base.blk[a]} \cup {r.name : r \in {q \in staged \cup gc : q.addr = a}}

(* A random part stands for one name of one block, in the tables and in    *)
(* the entries, and an entry that is published holds its bytes.            *)
Coherent ==
    \A a, b \in Addr : \A m \in Names(a) : \A n \in Names(b) : SameId(m, n) => a = b /\ m = n
EntryNames(s) ==
    /\ \A t \in Slots : SameId(slot[t].name, slot[s].name) => t = s
    /\ \A a \in Addr : \A n \in Names(a) : SameId(slot[s].name, n) =>
         /\ slot[s].name = n
         /\ slot[s].addr # None => slot[s].addr = a
    /\ \A a \in Addr : slot[s].valid /\ slot[s].name = base.blk[a] =>
         data[s] = slot[s].name.md5

(* The block table marks exactly the dirty entries whose write is over.    *)
RowOK(s) ==
    /\ row[s].addr # None => slot[s].dirty /\ slot[s].valid /\ slot[s].addr = row[s].addr
    /\ slot[s].dirty /\ row[s].addr = None => \E c \in Clients : Writer(c, s) /\ cl[c].wb

(* An upload is in progress only if there is something to publish, and the *)
(* durable marker is never the installed manifest.                         *)
Announced == up.pc \in {"manifest", "install"}
PendingOK ==
    /\ up.pc # "idle" => eState = "upload" /\ alloc # {}
    /\ alloc # {} => \E a \in Addr : local[a] # base.blk[a]
    /\ pending # None => pending.blk # base.blk
    /\ Announced => pending = [blk |-> NewBlk, del |-> up.del, max |-> up.max]
    /\ \A g \in gc : \E r \in staged : r.seq >= g.seq
    /\ Announced => \A g \in gc : g.seq <= up.max

(* What is deleted is no longer a name of anything.                        *)
DeleteOK ==
    /\ \A e \in base.del : /\ e[1].gen < gen
                           /\ \A a \in Addr : ~SameId(e[1], local[a]) /\ ~SameId(e[1], base.blk[a])
    /\ Publishing =>
         /\ \A e \in up.del : e[1].gen < gen /\ \A a \in Addr : ~SameId(e[1], local[a])
         /\ \A a \in up.todo : local[a] # base.blk[a]

NameInv == Coherent /\ (\A s \in Slots : EntryNames(s) /\ RowOK(s)) /\ PendingOK /\ DeleteOK

-----------------------------------------------------------------------------
(* The inductive invariant: recovery.                                      *)

(* The name a restart gives to a block that has no dirty row.              *)
BackupOf(st, g, bs, a) ==
    LET rows == {r \in Replayed(st, g, bs) : r.addr = a}
    IN  IF rows # {} THEN (CHOOSE r \in rows : TRUE).name ELSE bs.blk[a]
Backup(a) == BackupOf(staged, gc, base, a)
HasBytes(n, V) == IF n = None THEN V = {} ELSE n.md5 \in V

(* It is the current name, or, while a write is in progress, one of bytes  *)
(* that may be recovered.                                                  *)
BackupOK(a) ==
    (\A s \in Slots : row[s].addr # a) =>
        IF DirtyAt(a) = {} THEN Backup(a) = local[a] ELSE HasBytes(Backup(a), cur[a])

RecoverInv ==
    /\ \A a \in Addr : BackupOK(a)
    /\ \A c \in Clients : \A s \in cl[c].batch : local[slot[s].addr] = slot[s].name
    /\ \A r, q \in staged : r.addr = q.addr /\ r.seq = q.seq => r = q
    /\ Announced => \A r \in staged : r.seq > up.max => r.name = local[r.addr]
    /\ \A e \in base.del : \A r \in staged \cup gc : ~SameId(e[1], r.name)

(* What the lemmas below preserve, step by step.                           *)
Inv == StoredInv /\ ContentInv /\ BytesInv /\ NameInv
-----------------------------------------------------------------------------
(* What the invariant gives.                                               *)

LEMMA TableKinds ==
  ASSUME StoredInv
  PROVE  /\ \A a \in Addr : Names(a) \subseteq Name \cup {None}
         /\ \A e \in base.del : e[1] \in Name
         /\ \A e \in up.del : e[1] \in Name
         /\ up.blk \in [Addr -> Name \cup {None}] /\ up.todo \subseteq Addr /\ up.max \in Nat
         /\ row \in [Slots -> [name : Name \cup {None}, addr : Addr \cup {None}]]
         /\ \A r \in staged \cup gc : r.addr \in Addr /\ r.name \in Name /\ r.seq \in Nat
<1>1. base \in Manifest /\ up \in UploadType
  BY DEF StoredInv, TypeOK
<1>2. base.del \subseteq Name \X Nat /\ up.del \subseteq Name \X Nat
  BY <1>1 DEF Manifest, UploadType
<1>3. \A r \in staged \cup gc : r.addr \in Addr /\ r.name \in Name /\ r.seq \in Nat
  BY Kinds DEF StagedRow
<1>4. \A a \in Addr : Names(a) \subseteq Name \cup {None}
  BY <1>3, Kinds DEF Names
<1>5. QED
  BY <1>1, <1>2, <1>3, <1>4 DEF UploadType, Blocks, StoredInv, TypeOK

(* Being names of one block is an equivalence.                             *)
LEMMA IdEq ==
  /\ \A m, n : SameId(m, n) <=> SameId(n, m)
  /\ \A m, n, x : SameId(m, n) /\ SameId(n, x) => SameId(m, x)
  BY DEF SameId

LEMMA NamesKept ==
  ASSUME UNCHANGED <<local, base, staged, gc>>
  PROVE  /\ \A a : Names(a)' = Names(a) /\ Backup(a)' = Backup(a)
         /\ Coherent => Coherent'
<1>1. \A a : Names(a)' = Names(a)
  BY DEF Names
<1>2. \A a : Backup(a)' = Backup(a)
  BY DEF Backup
<1>3. QED
  BY <1>1, <1>2 DEF Coherent

LEMMA PendingKept ==
  ASSUME PendingOK, UNCHANGED <<up, eState, alloc, local, base, pending, staged, gc>>
  PROVE  PendingOK'
  BY DEF PendingOK, Announced, NewBlk

LEMMA DeleteKept ==
  ASSUME DeleteOK, UNCHANGED <<up, local, base, gen>>
  PROVE  DeleteOK'
  BY DEF DeleteOK, Publishing

(* The rows to replay determine the backup.                                *)
LEMMA BackupRow ==
  ASSUME NEW st, NEW g, NEW bs, NEW a, NEW r \in Replayed(st, g, bs), r.addr = a,
         \A q \in Replayed(st, g, bs) : q.addr = a => q.name = r.name
  PROVE  BackupOf(st, g, bs, a) = r.name
  BY DEF BackupOf

LEMMA BackupNone ==
  ASSUME NEW st, NEW g, NEW bs, NEW a, \A q \in Replayed(st, g, bs) : q.addr # a
  PROVE  BackupOf(st, g, bs, a) = bs.blk[a]
  BY DEF BackupOf

LEMMA BackupCases ==
  ASSUME NEW st, NEW g, NEW bs, NEW a
  PROVE  \/ BackupOf(st, g, bs, a) = bs.blk[a] /\ \A q \in Replayed(st, g, bs) : q.addr # a
         \/ \E r \in Replayed(st, g, bs) : r.addr = a /\ BackupOf(st, g, bs, a) = r.name
  BY DEF BackupOf

(* It depends on the rows of the block only.                               *)
LEMMA BackupSame ==
  ASSUME NEW st, NEW g, NEW bs, NEW st2, NEW g2, NEW bs2, NEW a, bs2.blk[a] = bs.blk[a],
         \A r : r.addr = a => (r \in st2 <=> r \in st) /\ (r \in st => (r \in g2 <=> r \in g))
  PROVE  BackupOf(st2, g2, bs2, a) = BackupOf(st, g, bs, a)
<1>1. \A r : r.addr = a => (r \in Replayed(st2, g2, bs2) <=> r \in Replayed(st, g, bs))
  BY DEF Replayed
<1>2. {r \in Replayed(st2, g2, bs2) : r.addr = a} = {r \in Replayed(st, g, bs) : r.addr = a}
  BY <1>1
<1>3. PICK R : R = {r \in Replayed(st, g, bs) : r.addr = a}
  OBVIOUS
<1>4. BackupOf(st, g, bs, a) = IF R # {} THEN (CHOOSE r \in R : TRUE).name ELSE bs.blk[a]
  BY <1>3 DEF BackupOf
<1>5. PICK Q : Q = {r \in Replayed(st2, g2, bs2) : r.addr = a}
  OBVIOUS
<1>6. BackupOf(st2, g2, bs2, a) = IF Q # {} THEN (CHOOSE r \in Q : TRUE).name ELSE bs2.blk[a]
  BY <1>5 DEF BackupOf
<1>7. Q = R
  BY <1>2, <1>3, <1>5
<1>8. QED
  BY <1>4, <1>6, <1>7

(* A newest row that has no tombstone is the backup, replayed or published *)
(* already.                                                                *)
LEMMA BackupNewest ==
  ASSUME NEW st, NEW g, NEW bs, NEW a, NEW q \in st, q \notin g, q.addr = a,
         \A r \in st : r.addr = a => r.seq <= q.seq,
         \A r \in st : r.addr = a /\ q.seq <= r.seq => r.name = q.name
  PROVE  BackupOf(st, g, bs, a) = q.name
<1>1. \A r \in Replayed(st, g, bs) : r.addr = a => r.name = q.name /\ bs.blk[a] # q.name
  BY DEF Replayed
<1>2. CASE bs.blk[a] = q.name
  BY <1>1, <1>2, BackupNone
<1>3. CASE bs.blk[a] # q.name
  <2>1. q \in Replayed(st, g, bs)
    BY <1>3 DEF Replayed
  <2>2. QED
    BY <1>1, <2>1, BackupRow
<1>4. QED
  BY <1>2, <1>3

(* A block without a dirty entry has no dirty row.                         *)
LEMMA CleanRows ==
  ASSUME StoredInv, NameInv, NEW a \in Addr, DirtyAt(a) = {}
  PROVE  \A s \in Slots : row[s].addr # a
  BY NoneNot DEF NameInv, RowOK, DirtyAt

-----------------------------------------------------------------------------
(* Steps that change the state of a thread only.                           *)

LEMMA ThreadStep ==
  ASSUME Inv, UNCHANGED <<slot, data, row, local, alloc, base, staged, gc, pending, gen, eState, up, cur>>,
         \A k \in Clients : cl'[k].batch \subseteq cl[k].batch,
         \A k \in Clients : \A s \in Slots : Writer(k, s) /\ cl[k].wb => Writer(k, s)' /\ cl'[k].wb
  PROVE  NameInv' /\ (RecoverInv => RecoverInv')
<1>1. Coherent' /\ \A a : Names(a)' = Names(a) /\ Backup(a)' = Backup(a)
  BY NamesKept DEF Inv, NameInv
<1>2. PendingOK' /\ DeleteOK'
  BY PendingKept, DeleteKept DEF Inv, NameInv
<1>3. ASSUME NEW s \in Slots PROVE EntryNames(s)' /\ RowOK(s)'
  <2>1. EntryNames(s)'
    BY <1>1 DEF Inv, NameInv, EntryNames
  <2>2. RowOK(s)'
    BY DEF Inv, NameInv, RowOK
  <2>3. QED
    BY <2>1, <2>2
<1>4. ASSUME RecoverInv PROVE RecoverInv'
  <2>1. ASSUME NEW a \in Addr PROVE BackupOK(a)'
    BY <1>1, <1>4 DEF RecoverInv, BackupOK, DirtyAt
  <2>2. QED
    BY <1>4, <2>1 DEF RecoverInv, Announced
<1>5. QED
  BY <1>1, <1>2, <1>3, <1>4 DEF NameInv

LEMMA CallRecovers ==
  ASSUME Inv, NEW c \in Clients, NEW a \in Addr, Read(c, a) \/ \E v \in Contents : Write(c, a, v)
  PROVE  NameInv' /\ (RecoverInv => RecoverInv')
<1>1. UNCHANGED <<slot, data, row, local, alloc, base, staged, gc, pending, gen, eState, up, cur>>
  BY DEF Read, Write, durable
<1>2. CASE Read(c, a)
  <2>1. cl[c].pc = "idle" /\ cl'[c] = Call("read", a, None) /\ \A k \in Clients \ {c} : cl'[k] = cl[k]
    BY <1>2, Kinds DEF Read, Inv
  <2>2. cl'[c].batch = {}
    BY <2>1 DEF Call, IdleClient
  <2>3. QED
    BY <1>1, <2>1, <2>2, ThreadStep DEF Writer
<1>3. CASE \E v \in Contents : Write(c, a, v)
  <2>1. PICK v \in Contents : Write(c, a, v)
    BY <1>3
  <2>2. cl[c].pc = "idle" /\ cl'[c] = Call("write", a, v)
    BY <2>1, Kinds DEF Write, Inv
  <2>3. cl'[c].batch = {}
    BY <2>2 DEF Call, IdleClient
  <2>4. ASSUME NEW k \in Clients \ {c}
        PROVE  /\ cl'[k].batch = cl[k].batch /\ cl'[k].op = cl[k].op /\ cl'[k].s = cl[k].s
               /\ cl'[k].pc = cl[k].pc /\ cl'[k].wb = cl[k].wb
    <3>1. cl'[k] = [cl[k] EXCEPT !.ok = cl[k].ok \cup {v}] \/ cl'[k] = cl[k]
      BY <2>1 DEF Write
    <3>2. cl[k] \in ClientType
      BY Kinds DEF Inv
    <3>3. QED
      BY <3>1, <3>2 DEF ClientType
  <2>5. QED
    BY <1>1, <2>2, <2>3, <2>4, ThreadStep DEF Writer
<1>4. QED
  BY <1>2, <1>3

LEMMA MoveRecovers ==
  ASSUME Inv, NEW c \in Clients,
         \/ ShortRead(c) \/ WaitForEntry(c) \/ CacheHit(c) \/ CacheFull(c) \/ CopyFull(c)
         \/ ReadBytes(c) \/ AlreadyDirty(c) \/ StageNothing(c) \/ StagePut(c)
  PROVE  NameInv' /\ (RecoverInv => RecoverInv')
<1>1. UNCHANGED <<slot, data, row, local, alloc, base, staged, gc, pending, gen, eState, up, cur>>
  BY DEF ShortRead, WaitForEntry, CacheHit, CacheFull, CopyFull, ReadBytes, AlreadyDirty,
         StageNothing, StagePut, durable
<1>2. cl \in [Clients -> ClientType] /\ \A s \in Slots : ~Writer(c, s) \/ cl[c].pc = "bytes"
  <2>1. cl[c].pc = "done" => cl[c].op = "read"
    BY DEF ShortRead, WaitForEntry, CacheHit, CacheFull, CopyFull, ReadBytes, AlreadyDirty,
           StageNothing, StagePut, Looking, Misses, Rewrites
  <2>2. QED
    BY <2>1, Kinds DEF Inv, Writer
<1>3. cl[c].pc # "bytes"
  BY DEF ShortRead, WaitForEntry, CacheHit, CacheFull, CopyFull, ReadBytes, AlreadyDirty,
         StageNothing, StagePut, Looking, Misses, Rewrites
<1>4. (\A k \in Clients \ {c} : cl'[k] = cl[k]) /\ cl'[c].batch \subseteq cl[c].batch
  <2>1. CASE ShortRead(c) \/ StageNothing(c)
    <3>1. cl'[c] = IdleClient /\ \A k \in Clients \ {c} : cl'[k] = cl[k]
      BY <1>2, <2>1 DEF ShortRead, StageNothing, Done
    <3>2. QED
      BY <3>1 DEF IdleClient
  <2>2. CASE WaitForEntry(c) \/ CacheHit(c) \/ CacheFull(c) \/ CopyFull(c)
    BY <1>2, <2>2 DEF WaitForEntry, CacheHit, CacheFull, CopyFull, ClientType
  <2>3. CASE ReadBytes(c) \/ AlreadyDirty(c) \/ StagePut(c)
    BY <1>2, <2>3 DEF ReadBytes, AlreadyDirty, StagePut, ClientType
  <2>4. QED
    BY <2>1, <2>2, <2>3
<1>5. QED
  BY <1>1, <1>2, <1>3, <1>4, ThreadStep DEF Writer

-----------------------------------------------------------------------------
(* Steps that change one entry.                                            *)

LEMMA OneEntryNames ==
  ASSUME Inv, UNCHANGED <<local, base, staged, gc>>, NEW t \in Slots,
         \A s \in Slots : s # t => slot'[s] = slot[s] /\ data'[s] = data[s],
         \A a \in Addr : slot'[t].valid /\ slot'[t].name = base.blk[a] => data'[t] = slot'[t].name.md5,
         \/ slot'[t].name = None
         \/ slot'[t].name = slot[t].name /\ slot'[t].addr = slot[t].addr
         \/ /\ slot'[t].addr = None
            /\ \E a \in Addr : slot'[t].name = local[a] /\ Named(local[a]) = {}
  PROVE  \A s \in Slots : EntryNames(s)'
<1>1. (\A a : Names(a)' = Names(a)) /\ Coherent /\ \A s \in Slots : EntryNames(s)
  BY NamesKept DEF Inv, NameInv
<1>2. ASSUME NEW s \in Slots, s # t, SameId(slot'[t].name, slot[s].name) PROVE FALSE
  <2>1. CASE slot'[t].name = None
    BY <1>2, <2>1 DEF SameId
  <2>2. CASE slot'[t].name = slot[t].name
    BY <1>1, <1>2, <2>2 DEF EntryNames
  <2>3. CASE \E a \in Addr : slot'[t].name = local[a] /\ Named(local[a]) = {}
    <3>1. PICK a \in Addr : slot'[t].name = local[a] /\ Named(local[a]) = {}
      BY <2>3
    <3>2. local[a] \in Names(a) /\ SameId(slot[s].name, local[a])
      BY <1>2, <3>1, IdEq DEF Names
    <3>3. slot[s].name = local[a] /\ local[a] # None
      BY <1>1, <3>2 DEF EntryNames, SameId
    <3>4. QED
      BY <3>1, <3>3 DEF Named
  <2>4. QED
    BY <2>1, <2>2, <2>3
<1>3. ASSUME NEW s \in Slots PROVE EntryNames(s)'
  <2>1. CASE s # t
    <3>1. \A x \in Slots : SameId(slot'[x].name, slot'[s].name) => x = s
      BY <1>1, <1>2, <2>1 DEF EntryNames
    <3>2. QED
      BY <1>1, <2>1, <3>1 DEF EntryNames
  <2>2. CASE s = t
    <3>1. \A x \in Slots : SameId(slot'[x].name, slot'[t].name) => x = t
      BY <1>2, IdEq
    <3>2. ASSUME NEW a \in Addr, NEW n \in Names(a), SameId(slot'[t].name, n)
          PROVE  slot'[t].name = n /\ (slot'[t].addr # None => slot'[t].addr = a)
      <4>1. CASE slot'[t].name = None
        BY <3>2, <4>1 DEF SameId
      <4>2. CASE slot'[t].name = slot[t].name /\ slot'[t].addr = slot[t].addr
        BY <1>1, <3>2, <4>2 DEF EntryNames
      <4>3. CASE slot'[t].addr = None /\ \E b \in Addr : slot'[t].name = local[b]
        <5>1. PICK b \in Addr : slot'[t].name = local[b]
          BY <4>3
        <5>2. local[b] \in Names(b)
          BY DEF Names
        <5>3. QED
          BY <1>1, <3>2, <4>3, <5>1, <5>2 DEF Coherent
      <4>4. QED
        BY <4>1, <4>2, <4>3
    <3>3. QED
      BY <1>1, <2>2, <3>1, <3>2 DEF EntryNames
  <2>3. QED
    BY <2>1, <2>2
<1>4. QED
  BY <1>3

LEMMA EntryRecovers ==
  ASSUME RecoverInv, UNCHANGED <<local, base, staged, gc, up>>,
         \A a \in Addr : DirtyAt(a)' = DirtyAt(a),
         \A a \in Addr : (\A s \in Slots : row'[s].addr # a) =>
            cur'[a] = cur[a] /\ \A s \in Slots : row[s].addr # a,
         \A k \in Clients : \A s \in cl'[k].batch :
            s \in cl[k].batch /\ slot'[s].addr = slot[s].addr /\ slot'[s].name = slot[s].name
  PROVE  RecoverInv'
<1>1. \A a : Backup(a)' = Backup(a)
  BY NamesKept
<1>2. ASSUME NEW a \in Addr PROVE BackupOK(a)'
  BY <1>1 DEF RecoverInv, BackupOK
<1>3. QED
  BY <1>2 DEF RecoverInv, Announced

(* A clean entry has no dirty row.                                         *)
LEMMA CleanRow1 ==
  ASSUME NameInv, NEW s \in Slots, ~slot[s].dirty
  PROVE  row[s].addr = None
  BY DEF NameInv, RowOK

LEMMA WriteBytesRecovers ==
  ASSUME Inv, NEW c \in Clients, WriteBytes(c)
  PROVE  NameInv' /\ (RecoverInv => RecoverInv')
<1> DEFINE t == cl[c].s
<1>1. /\ UNCHANGED <<slot, row, local, alloc, base, staged, gc, pending, gen, eState, up, cur>>
      /\ cl[c].pc = "bytes"
  BY DEF WriteBytes
<1>2. StoredInv /\ BytesInv /\ NameInv
  BY DEF Inv
<1>3. t \in Slots /\ cl[c].op = "write"
  BY <1>1, <1>2, ThreadKinds DEF IOPhases
<1>4. slot[t].dirty
  BY <1>1, <1>2, <1>3 DEF BytesInv, ThreadInv, WriterOK
<1>5. \A s \in Slots : s # t => data'[s] = data[s]
  BY <1>2, Kinds DEF WriteBytes
<1>6. (\A k \in Clients \ {c} : cl'[k] = cl[k]) /\ cl'[c] = [cl[c] EXCEPT !.pc = "done"]
  BY <1>2, Kinds DEF WriteBytes
<1>7. /\ cl'[c].pc = "done" /\ cl'[c].op = cl[c].op /\ cl'[c].s = t /\ cl'[c].wb = cl[c].wb
      /\ cl'[c].batch = cl[c].batch
  BY <1>2, <1>6, Kinds DEF ClientType
<1>8. \A a \in Addr : slot[t].name # base.blk[a]
  BY <1>2, <1>3, <1>4, DirtyKinds, SelfId DEF BytesInv, EntryInv, DirtyUnique
<1>9. \A s \in Slots : EntryNames(s)'
  BY <1>1, <1>3, <1>5, <1>8, OneEntryNames
<1>10. \A s \in Slots : RowOK(s)'
  <2>1. ASSUME NEW k \in Clients, NEW s \in Slots, Writer(k, s), cl[k].wb
        PROVE  Writer(k, s)' /\ cl'[k].wb
    BY <1>6, <1>7, <2>1 DEF Writer
  <2>2. ASSUME NEW s \in Slots PROVE RowOK(s)'
    BY <1>1, <1>2, <2>1, <2>2 DEF NameInv, RowOK
  <2>3. QED
    BY <2>2
<1>11. Coherent' /\ PendingOK' /\ DeleteOK'
  BY <1>1, <1>2, NamesKept, PendingKept, DeleteKept DEF NameInv
<1>12. ASSUME RecoverInv PROVE RecoverInv'
  <2>1. \A a \in Addr : DirtyAt(a)' = DirtyAt(a)
    BY <1>1 DEF DirtyAt
  <2>2. QED
    BY <1>1, <1>6, <1>7, <1>12, <2>1, EntryRecovers
<1>13. QED
  BY <1>9, <1>10, <1>11, <1>12 DEF NameInv

LEMMA FetchBlockRecovers ==
  ASSUME Inv, NEW c \in Clients, FetchBlock(c)
  PROVE  NameInv' /\ (RecoverInv => RecoverInv')
<1> DEFINE t == cl[c].s
<1>1. /\ UNCHANGED <<row, local, alloc, base, staged, gc, pending, gen, eState, up, cur>>
      /\ cl[c].pc = "fetch"
  BY DEF FetchBlock
<1>2. StoredInv /\ BytesInv /\ NameInv /\ ContentInv
  BY DEF Inv
<1>3. t \in Slots /\ ~slot[t].dirty /\ ~slot[t].valid
  BY <1>1, <1>2, ThreadKinds DEF IOPhases, BytesInv, ThreadInv, StoredInv, EntriesOK
<1>4. Coherent' /\ PendingOK' /\ DeleteOK'
  BY <1>1, <1>2, NamesKept, PendingKept, DeleteKept DEF NameInv
<1>5. FreeEntry.name = None /\ FreeEntry.dirty = FALSE /\ FreeEntry.valid = FALSE
  BY DEF FreeEntry
<1>6. /\ \A s \in Slots : s # t => slot'[s] = slot[s] /\ data'[s] = data[s]
      /\ slot'[t] = slot[t] \/ slot'[t] = FreeEntry
  BY <1>2, <1>3, Kinds DEF FetchBlock
<1>7. /\ \A k \in Clients \ {c} : cl'[k] = cl[k]
      /\ cl'[c].batch \subseteq cl[c].batch
  <2>1. CASE cl' = [cl EXCEPT ![c].pc = "ready", ![c].wb = TRUE]
    BY <1>2, <2>1, Kinds DEF ClientType
  <2>2. CASE Done(c)
    BY <1>2, <2>2, Kinds DEF Done, IdleClient
  <2>3. QED
    BY <2>1, <2>2 DEF FetchBlock
<1>8. \A s \in Slots : EntryNames(s)'
  BY <1>1, <1>3, <1>5, <1>6, OneEntryNames
<1>9. \A s \in Slots : RowOK(s)'
  <2>1. \A s \in Slots : ~Writer(c, s)
    BY <1>1 DEF Writer
  <2>2. row[t].addr = None /\ ~slot'[t].dirty
    BY <1>2, <1>3, <1>5, <1>6, CleanRow1
  <2>3. QED
    BY <1>1, <1>2, <1>6, <1>7, <2>1, <2>2 DEF NameInv, RowOK, Writer
<1>10. ASSUME RecoverInv PROVE RecoverInv'
  <2>1. \A a \in Addr : DirtyAt(a)' = DirtyAt(a)
    BY <1>3, <1>5, <1>6 DEF DirtyAt
  <2>2. ASSUME NEW k \in Clients, NEW s \in cl'[k].batch
        PROVE  s \in cl[k].batch /\ slot'[s] = slot[s]
    <3>1. s \in cl[k].batch /\ s \in Slots
      BY <1>2, <1>7, Kinds DEF ClientType
    <3>2. slot[s].valid
      BY <1>2, <3>1 DEF StoredInv, EntriesOK
    <3>3. QED
      BY <1>3, <1>6, <3>1, <3>2
  <2>3. QED
    BY <1>1, <1>10, <2>1, <2>2, EntryRecovers
<1>11. QED
  BY <1>4, <1>8, <1>9, <1>10 DEF NameInv

LEMMA CacheMissRecovers ==
  ASSUME Inv, NEW c \in Clients, CacheMiss(c)
  PROVE  NameInv' /\ (RecoverInv => RecoverInv')
<1> DEFINE a == cl[c].a
<1>1. UNCHANGED <<data, local, alloc, base, staged, gc, pending, gen, eState, up, cur>> /\ Misses(c)
  BY DEF CacheMiss
<1>2. StoredInv /\ BytesInv /\ NameInv
  BY DEF Inv
<1>3. PICK t \in AllocCacheEntry, g \in BOOLEAN, q \in {"fetch", "ready"} :
         /\ slot' = [slot EXCEPT ![t] = [Entry(local[a], None) EXCEPT !.staged = g]]
         /\ row' = [row EXCEPT ![t] = NoRow]
         /\ cl' = [cl EXCEPT ![c].s = t, ![c].pc = q]
  BY DEF CacheMiss
<1>4. /\ cl[c].pc \in {"begin", "wait"} /\ Named(local[a]) = {} /\ a \in Addr
  BY <1>1, <1>2, ThreadKinds DEF Misses, Looking
<1>5. t \in Slots /\ ~slot[t].dirty
  BY <1>2, FreeSlot
<1>6. ~Staging(t)
  BY <1>3, <1>5 DEF AllocCacheEntry, Unused, Evictable, Pinned, Holders, Staging
<1>7. /\ slot'[t].name = local[a] /\ slot'[t].addr = None /\ ~slot'[t].dirty /\ ~slot'[t].valid
      /\ \A s \in Slots : s # t => slot'[s] = slot[s]
  BY <1>2, <1>3, <1>5, Kinds DEF Entry, FreeEntry
<1>8. row'[t].addr = None /\ row[t].addr = None /\ \A s \in Slots : s # t => row'[s] = row[s]
  BY <1>2, <1>3, <1>5, TableKinds, CleanRow1 DEF NoRow
<1>9. (\A k \in Clients \ {c} : cl'[k] = cl[k]) /\ cl'[c].batch = cl[c].batch
  BY <1>2, <1>3, Kinds DEF ClientType
<1>10. Coherent' /\ PendingOK' /\ DeleteOK'
  BY <1>1, <1>2, NamesKept, PendingKept, DeleteKept DEF NameInv
<1>11. \A s \in Slots : EntryNames(s)'
  BY <1>1, <1>4, <1>5, <1>7, OneEntryNames
<1>12. \A s \in Slots : RowOK(s)'
  <2>1. \A s \in Slots : ~Writer(c, s)
    BY <1>4 DEF Writer
  <2>2. QED
    BY <1>2, <1>7, <1>8, <1>9, <2>1 DEF NameInv, RowOK, Writer
<1>13. ASSUME RecoverInv PROVE RecoverInv'
  <2>1. \A b \in Addr : DirtyAt(b)' = DirtyAt(b)
    BY <1>5, <1>7 DEF DirtyAt
  <2>2. ASSUME NEW k \in Clients, NEW s \in cl'[k].batch
        PROVE  s \in cl[k].batch /\ slot'[s] = slot[s]
    <3>1. s \in cl[k].batch /\ s \in Slots
      BY <1>2, <1>9, Kinds DEF ClientType
    <3>2. QED
      BY <1>6, <1>7, <3>1 DEF Staging
  <2>3. \A b \in Addr : (\A s \in Slots : row'[s].addr # b) => \A s \in Slots : row[s].addr # b
    BY <1>8
  <2>4. QED
    BY <1>1, <1>13, <2>1, <2>2, <2>3, EntryRecovers
<1>14. QED
  BY <1>10, <1>11, <1>12, <1>13 DEF NameInv

LEMMA FinishIORecovers ==
  ASSUME Inv, NEW c \in Clients, FinishIO(c)
  PROVE  NameInv' /\ (RecoverInv => RecoverInv')
<1>1. /\ UNCHANGED <<data, local, alloc, base, staged, gc, pending, gen, eState, up>>
      /\ cl[c].pc = "done" /\ slot' = [slot EXCEPT ![cl[c].s].valid = TRUE]
  BY DEF FinishIO
<1>2. StoredInv /\ BytesInv /\ NameInv
  BY DEF Inv
<1>3. PICK t \in Slots, a \in Addr : t = cl[c].s /\ a = cl[c].a
  BY <1>1, <1>2, ThreadKinds DEF IOPhases
<1>4. /\ slot'[t].valid = TRUE /\ slot'[t].name = slot[t].name /\ slot'[t].addr = slot[t].addr
      /\ slot'[t].dirty = slot[t].dirty
      /\ \A x \in Slots : x # t => slot'[x] = slot[x]
  BY <1>1, <1>2, <1>3, Kinds DEF EntryType
<1>5. (\A k \in Clients \ {c} : cl'[k] = cl[k]) /\ cl'[c].batch = {}
  <2>1. PICK m : m = [IdleClient EXCEPT !.pc = "full", !.op = "write", !.a = cl[c].a]
    OBVIOUS
  <2>2. m.batch = {} /\ IdleClient.batch = {}
    BY <2>1 DEF IdleClient
  <2>3. cl' = [cl EXCEPT ![c] = m] \/ cl' = [cl EXCEPT ![c] = IdleClient]
    BY <2>1 DEF FinishIO, Done
  <2>4. QED
    BY <1>2, <2>2, <2>3, Kinds
<1>6. slot[t].dirty => slot[t].addr = a
  BY <1>1, <1>2, <1>3, ThreadKinds DEF BytesInv, ThreadInv, WriterOK, ReaderOK, IOPhases
<1>7. /\ \A x \in Slots : x # t => row'[x] = row[x]
      /\ ~cl[c].wb => row' = row
      /\ cl[c].wb => row'[t].addr = IF slot[t].dirty THEN a ELSE None
  <2>1. DirtyRow(a).addr = a /\ CleanRow(slot[t].name).addr = None
    BY DEF DirtyRow, CleanRow, NoRow
  <2>2. CASE cl[c].wb
    <3>1. PICK w : w = IF slot[t].dirty THEN DirtyRow(a) ELSE CleanRow(slot[t].name)
      OBVIOUS
    <3>2. row' = [row EXCEPT ![t] = w]
      BY <1>3, <2>2, <3>1 DEF FinishIO
    <3>3. row'[t] = w /\ \A x \in Slots : x # t => row'[x] = row[x]
      BY <1>2, <3>2, TableKinds
    <3>4. QED
      BY <2>1, <2>2, <3>1, <3>3
  <2>3. CASE ~cl[c].wb
    BY <2>3 DEF FinishIO
  <2>4. QED
    BY <2>2, <2>3
<1>8. RowOK(t)
  BY <1>2 DEF NameInv
<1>9. \A k \in Clients : k # c => \A x \in Slots : Writer(k, x) => Writer(k, x)'
  BY <1>5 DEF Writer
<1>10. cl[c].op = "write" => slot[t].dirty /\ \A k \in Clients : cl[k].op = "write" => k = c
  BY <1>1, <1>2, <1>3 DEF BytesInv, ThreadInv, WriterOK
<1>11. cl[c].op = "write" => row'[t].addr = a
  <2>1. CASE cl[c].op = "write" /\ ~cl[c].wb
    <3>1. row[t].addr # None
      BY <1>8, <1>10, <2>1 DEF RowOK, Writer
    <3>2. QED
      BY <1>6, <1>7, <1>8, <2>1, <3>1 DEF RowOK
  <2>2. QED
    BY <1>7, <1>10, <2>1
<1>12. /\ row'[t].addr # None => slot[t].dirty /\ slot[t].addr = row'[t].addr
       /\ slot[t].dirty /\ row'[t].addr = None => row[t].addr = None /\ cl[c].op # "write"
       /\ row[t].addr # None => row'[t].addr = row[t].addr
  BY <1>3, <1>6, <1>7, <1>8, <1>11, NoneNot DEF RowOK
<1>13. \A s \in Slots : RowOK(s)'
  <2>1. RowOK(t)'
    <3>1. row'[t].addr # None => slot'[t].dirty /\ slot'[t].valid /\ slot'[t].addr = row'[t].addr
      BY <1>4, <1>12
    <3>2. ASSUME slot[t].dirty, row'[t].addr = None
          PROVE  \E k \in Clients : Writer(k, t)' /\ cl'[k].wb
      <4>1. PICK k \in Clients : Writer(k, t) /\ cl[k].wb
        BY <1>8, <1>12, <3>2 DEF RowOK
      <4>2. k # c
        BY <1>12, <3>2, <4>1 DEF Writer
      <4>3. QED
        BY <1>5, <1>9, <4>1, <4>2
    <3>3. QED
      BY <1>4, <3>1, <3>2 DEF RowOK
  <2>2. ASSUME NEW s \in Slots, s # t PROVE RowOK(s)'
    <3>1. \A k \in Clients : Writer(k, s) => k # c
      BY <1>3, <2>2 DEF Writer
    <3>2. \A k \in Clients : Writer(k, s) /\ cl[k].wb => Writer(k, s)' /\ cl'[k].wb
      BY <1>5, <1>9, <3>1
    <3>3. slot'[s] = slot[s] /\ row'[s] = row[s] /\ RowOK(s)
      BY <1>2, <1>4, <1>7, <2>2 DEF NameInv
    <3>4. QED
      BY <3>2, <3>3 DEF RowOK
  <2>3. QED
    BY <2>1, <2>2
<1>14. \A s \in Slots : EntryNames(s)'
  <2>1. ASSUME NEW b \in Addr, slot'[t].name = base.blk[b] PROVE data'[t] = slot'[t].name.md5
    <3>1. CASE slot[t].valid
      BY <1>1, <1>2, <1>4, <2>1, <3>1 DEF NameInv, EntryNames
    <3>2. CASE ~slot[t].valid
      <4>1. CASE slot[t].dirty
        BY <1>2, <1>4, <2>1, <4>1, DirtyKinds, SelfId DEF BytesInv, EntryInv, DirtyUnique
      <4>2. CASE ~slot[t].dirty
        <5>1. cl[c].op = "read"
          BY <1>2, <1>10, <4>2, ThreadKinds
        <5>2. slot[t].name # None
          BY <1>1, <1>2, <1>3, <5>1 DEF BytesInv, ThreadInv, ReaderOK, IOPhases
        <5>3. Filled(t)
          BY <1>1, <1>3, <3>2 DEF Filled
        <5>4. QED
          BY <1>1, <1>2, <1>4, <4>2, <5>2, <5>3 DEF BytesInv, EntryInv, CleanBytes
      <4>3. QED
        BY <4>1, <4>2
    <3>3. QED
      BY <3>1, <3>2
  <2>2. QED
    BY <1>1, <1>4, <2>1, OneEntryNames
<1>15. Coherent' /\ PendingOK' /\ DeleteOK'
  BY <1>1, <1>2, NamesKept, PendingKept, DeleteKept DEF NameInv
<1>16. ASSUME RecoverInv PROVE RecoverInv'
  <2>1. \A b \in Addr : DirtyAt(b)' = DirtyAt(b)
    BY <1>4 DEF DirtyAt
  <2>2. ASSUME NEW b \in Addr, \A s \in Slots : row'[s].addr # b
        PROVE  cur'[b] = cur[b] /\ \A s \in Slots : row[s].addr # b
    <3>1. \A s \in Slots : row[s].addr # b
      BY <1>7, <1>12, <2>2, NoneNot
    <3>2. CASE cl[c].op = "write"
      BY <1>2, <1>3, <1>11, <2>2, <3>1, <3>2, Kinds DEF FinishIO
    <3>3. CASE cl[c].op # "write"
      BY <3>1, <3>3 DEF FinishIO
    <3>4. QED
      BY <3>2, <3>3
  <2>3. ASSUME NEW k \in Clients, NEW s \in cl'[k].batch
        PROVE  s \in cl[k].batch /\ slot'[s].addr = slot[s].addr /\ slot'[s].name = slot[s].name
    <3>1. s \in cl[k].batch /\ s \in Slots
      BY <1>2, <1>5, <2>3, Kinds DEF ClientType
    <3>2. QED
      BY <1>4, <3>1
  <2>4. QED
    BY <1>1, <1>16, <2>1, <2>2, <2>3, EntryRecovers
<1>17. QED
  BY <1>13, <1>14, <1>15, <1>16 DEF NameInv

-----------------------------------------------------------------------------
(* A block is rewritten under a fresh name.                                *)

LEMMA MakeBlockWritableRecovers ==
  ASSUME Inv, NEW c \in Clients, MakeBlockWritable(c)
  PROVE  NameInv' /\ (RecoverInv => RecoverInv')
<1> DEFINE n(t) == [gen |-> gen, tag |-> t, md5 |-> None]
           e(t) == [name |-> n(t), addr |-> cl[c].a, dirty |-> TRUE, staged |-> FALSE,
                    valid |-> t = cl[c].s /\ slot[cl[c].s].valid]
<1>1. /\ UNCHANGED <<base, staged, gc, cur, up, pending, eState>> /\ gen' = gen + 1
      /\ cl[c].pc = "ready" /\ cl[c].op = "write" /\ ~slot[cl[c].s].dirty
      /\ alloc' = alloc \cup {cl[c].a[1]}
  BY DEF MakeBlockWritable, Rewrites
<1>2. StoredInv /\ BytesInv /\ NameInv /\ ContentInv
  BY DEF Inv
<1>3. PICK o \in Slots, a \in Addr : o = cl[c].s /\ a = cl[c].a
  BY <1>1, <1>2, ThreadKinds DEF IOPhases
<1>4. PICK t \in WritableTargets(c) :
         /\ slot' = [slot EXCEPT ![t] = e(t)]
         /\ data' = [data EXCEPT ![t] = data[cl[c].s]]
         /\ row' = [row EXCEPT ![t] = NoRow]
         /\ local' = [local EXCEPT ![cl[c].a] = n(t)]
         /\ cl' = [cl EXCEPT ![c].pc = "bytes", ![c].s = t, ![c].wb = TRUE]
  BY DEF MakeBlockWritable
<1>5. t \in Slots /\ ~slot[t].dirty /\ \A k \in Clients \ {c} : cl[k].s # t
  BY <1>1, <1>2, TargetFree
<1>6. PICK m : m = n(t)
  OBVIOUS
<1>7. PICK w : w = e(t)
  OBVIOUS
<1>8. w.name = m /\ w.addr = a /\ w.dirty /\ m.gen = gen
  BY <1>3, <1>6, <1>7
<1>9. m # None
  BY <1>2, <1>5, <1>6, Kinds, NoneNot DEF Name
<1>10. /\ slot'[t] = w /\ \A x \in Slots : x # t => slot'[x] = slot[x] /\ data'[x] = data[x]
       /\ row'[t].addr = None /\ \A x \in Slots : x # t => row'[x] = row[x]
       /\ local'[a] = m /\ \A b \in Addr : b # a => local'[b] = local[b]
  BY <1>2, <1>3, <1>4, <1>5, <1>6, <1>7, Kinds, TableKinds DEF NoRow
<1>11. /\ \A k \in Clients \ {c} : cl'[k] = cl[k]
       /\ cl'[c].op = "write" /\ cl'[c].s = t /\ cl'[c].pc = "bytes" /\ cl'[c].wb
       /\ cl'[c].batch = cl[c].batch
  BY <1>1, <1>2, <1>4, Kinds DEF ClientType
<1> HIDE DEF n, e
<1>12. slot[o].name = local[a]
  BY <1>1, <1>2, <1>3 DEF BytesInv, ThreadInv, WriterOK
<1>13. DirtyAt(a) = {}
  <2>1. CASE local[a] = None
    BY <1>2, <2>1, DirtyKinds DEF BytesInv, EntryInv, DirtyUnique, DirtyAt
  <2>2. CASE local[a] # None
    BY <1>1, <1>2, <1>3, <1>12, <2>2, NotDirtyAt
  <2>3. QED
    BY <2>1, <2>2
<1>14. /\ \A x \in Slots : ~SameId(m, slot[x].name) /\ ~SameId(slot[x].name, m)
       /\ \A b \in Addr : \A x \in Names(b) : ~SameId(m, x) /\ ~SameId(x, m)
       /\ \A x \in base.del : ~SameId(x[1], m)
  <2>1. \A x \in Slots : slot[x].name # None => slot[x].name.gen # gen
    BY <1>2, Kinds DEF BytesInv, NamesFresh, EntryType, Name
  <2>2. \A b \in Addr : /\ local[b] # None => local[b].gen # gen
                        /\ base.blk[b] # None => base.blk[b].gen # gen
    BY <1>2, Kinds DEF BytesInv, NamesFresh, Name
  <2>3. \A r \in staged \cup gc : r.name.gen # gen
    BY <1>2, Kinds DEF BytesInv, NamesFresh, Name, StagedRow
  <2>4. \A b \in Addr : \A x \in Names(b) : x # None => x.gen # gen
    BY <2>2, <2>3 DEF Names
  <2>5. \A x \in base.del : x[1].gen # gen
    <3>1. \A x \in base.del : x[1] \in Name /\ x[1].gen < gen
      BY <1>2, TableKinds DEF NameInv, DeleteOK
    <3>2. QED
      BY <1>2, <3>1, Kinds DEF Name
  <2>6. QED
    BY <1>8, <2>1, <2>4, <2>5 DEF SameId
<1>15. \A b \in Addr : \A x \in Names(b)' : x \in Names(b) \/ (x = m /\ b = a)
  BY <1>1, <1>10 DEF Names
<1>16. Coherent'
  <2>1. ASSUME NEW b \in Addr, NEW d \in Addr, NEW x \in Names(b)', NEW y \in Names(d)', SameId(x, y)
        PROVE  b = d /\ x = y
    BY <1>2, <1>14, <1>15, <2>1 DEF NameInv, Coherent
  <2>2. QED
    BY <2>1 DEF Coherent
<1>17. ASSUME NEW s \in Slots PROVE EntryNames(s)'
  <2>1. CASE s = t
    <3>1. \A x \in Slots : SameId(slot'[x].name, slot'[s].name) => x = s
      BY <1>8, <1>10, <1>14, <2>1
    <3>2. ASSUME NEW b \in Addr, NEW x \in Names(b)', SameId(slot'[s].name, x)
          PROVE  slot'[s].name = x /\ slot'[s].addr = b
      BY <1>8, <1>10, <1>14, <1>15, <2>1, <3>2
    <3>3. \A b \in Addr : slot'[s].name # base'.blk[b]
      BY <1>1, <1>8, <1>9, <1>10, <1>14, <2>1, SelfId DEF Names
    <3>4. QED
      BY <3>1, <3>2, <3>3 DEF EntryNames
  <2>2. CASE s # t
    <3>1. slot'[s] = slot[s] /\ data'[s] = data[s] /\ EntryNames(s)
      BY <1>2, <1>10, <2>2 DEF NameInv
    <3>2. \A x \in Slots : SameId(slot'[x].name, slot'[s].name) => x = s
      BY <1>8, <1>10, <1>14, <3>1 DEF EntryNames
    <3>3. ASSUME NEW b \in Addr, NEW x \in Names(b)', SameId(slot'[s].name, x)
          PROVE  slot'[s].name = x /\ (slot'[s].addr # None => slot'[s].addr = b)
      BY <1>14, <1>15, <3>1, <3>3 DEF EntryNames
    <3>4. QED
      BY <1>1, <3>1, <3>2, <3>3 DEF EntryNames
  <2>3. QED
    BY <2>1, <2>2
<1>18. ASSUME NEW s \in Slots PROVE RowOK(s)'
  <2>1. CASE s = t
    <3>1. Writer(c, t)' /\ cl'[c].wb
      BY <1>11 DEF Writer
    <3>2. QED
      BY <1>10, <2>1, <3>1 DEF RowOK
  <2>2. CASE s # t
    <3>1. slot'[s] = slot[s] /\ row'[s] = row[s] /\ RowOK(s)
      BY <1>2, <1>10, <2>2 DEF NameInv
    <3>2. \A k \in Clients : Writer(k, s) /\ cl[k].wb => Writer(k, s)' /\ cl'[k].wb
      BY <1>1, <1>11 DEF Writer
    <3>3. QED
      BY <3>1, <3>2 DEF RowOK
  <2>3. QED
    BY <2>1, <2>2
<1>19. ~Publishing
  BY <1>1, <1>2 DEF BytesInv, UploadCurrent
<1>20. ~Announced
  BY <1>19 DEF Publishing, Announced
<1>21. PendingOK'
  <2>1. local'[a] # base'.blk[a]
    BY <1>1, <1>9, <1>10, <1>14, SelfId DEF Names
  <2>2. ~Announced'
    BY <1>1, <1>20 DEF Announced
  <2>3. up'.pc # "idle" => eState' = "upload" /\ alloc' # {}
    BY <1>1, <1>2 DEF NameInv, PendingOK
  <2>4. pending' # None => pending'.blk # base'.blk
    BY <1>1, <1>2 DEF NameInv, PendingOK
  <2>5. \A g \in gc' : \E r \in staged' : r.seq >= g.seq
    BY <1>1, <1>2 DEF NameInv, PendingOK
  <2>6. QED
    BY <2>1, <2>2, <2>3, <2>4, <2>5 DEF PendingOK
<1>22. DeleteOK'
  <2>1. ASSUME NEW x \in base.del PROVE x[1].gen < gen'
    <3>1. x[1] \in Name /\ x[1].gen < gen
      BY <1>2, TableKinds DEF NameInv, DeleteOK
    <3>2. QED
      BY <1>1, <1>2, <3>1, Kinds DEF Name
  <2>2. ASSUME NEW x \in base.del, NEW b \in Addr PROVE ~SameId(x[1], local'[b]) /\ ~SameId(x[1], base.blk[b])
    BY <1>2, <1>10, <1>14 DEF NameInv, DeleteOK
  <2>3. ~Publishing'
    BY <1>1, <1>19 DEF Publishing
  <2>4. QED
    BY <1>1, <2>1, <2>2, <2>3 DEF DeleteOK
<1>23. ASSUME RecoverInv PROVE RecoverInv'
  <2>1. ASSUME NEW b \in Addr PROVE BackupOK(b)'
    <3>1. Backup(b)' = Backup(b)
      BY <1>1 DEF Backup
    <3>2. CASE b = a
      <4>1. t \in DirtyAt(b)'
        BY <1>5, <1>8, <1>10, <3>2 DEF DirtyAt
      <4>2. Backup(a) = local[a]
        BY <1>2, <1>13, <1>23, CleanRows DEF RecoverInv, BackupOK
      <4>3. HasBytes(local[a], cur[a])
        BY <1>2, <1>13 DEF BytesInv, CleanBacked, HasBytes
      <4>4. QED
        BY <1>1, <3>1, <3>2, <4>1, <4>2, <4>3 DEF BackupOK
    <3>3. CASE b # a
      <4>1. DirtyAt(b)' = DirtyAt(b)
        BY <1>5, <1>8, <1>10, <3>3 DEF DirtyAt
      <4>2. row[t].addr = None
        BY <1>2, <1>5, CleanRow1
      <4>3. (\A s \in Slots : row'[s].addr # b) => \A s \in Slots : row[s].addr # b
        BY <1>10, <4>2
      <4>4. QED
        BY <1>1, <1>10, <1>23, <3>1, <3>3, <4>1, <4>3 DEF RecoverInv, BackupOK
    <3>4. QED
      BY <3>2, <3>3
  <2>2. ASSUME NEW k \in Clients, NEW s \in cl'[k].batch PROVE local'[slot'[s].addr] = slot'[s].name
    <3>1. s \in cl[k].batch /\ s \in Slots
      BY <1>2, <1>11, Kinds DEF ClientType
    <3>2. /\ slot[s].addr \in Addr /\ slot[s].name # None /\ cl[c].s # s
          /\ local[slot[s].addr] = slot[s].name
      BY <1>2, <1>23, <3>1, NoneNot DEF StoredInv, EntriesOK, ContentInv, BatchNamed, RecoverInv
    <3>3. s # t
      <4>1. CASE Shared(c)
        BY <3>1, <4>1 DEF WritableTargets, AllocCacheEntry, Unused, Evictable, Pinned, Holders
      <4>2. CASE ~Shared(c)
        BY <3>2, <4>2 DEF WritableTargets
      <4>3. QED
        BY <4>1, <4>2
    <3>4. slot[s].addr # a
      <4>1. SUFFICES ASSUME slot[s].addr = a PROVE FALSE
        OBVIOUS
      <4>2. SameId(slot[o].name, slot[s].name)
        BY <1>12, <3>2, <4>1, SelfId
      <4>3. QED
        BY <1>2, <1>3, <3>1, <3>2, <4>2 DEF NameInv, EntryNames
    <3>5. QED
      BY <1>10, <3>1, <3>2, <3>3, <3>4
  <2>3. ~Announced'
    BY <1>1, <1>20 DEF Announced
  <2>4. QED
    BY <1>1, <1>23, <2>1, <2>2, <2>3 DEF RecoverInv
<1>24. QED
  BY <1>16, <1>17, <1>18, <1>21, <1>22, <1>23 DEF NameInv

-----------------------------------------------------------------------------
(* Staging.                                                                *)

LEMMA StageSelectRecovers ==
  ASSUME Inv, NEW c \in Clients, StageSelect(c)
  PROVE  NameInv' /\ (RecoverInv => RecoverInv')
<1>1. /\ UNCHANGED <<data, row, alloc, base, staged, gc, pending, gen, cur, up>>
      /\ cl[c].pc = "full" /\ (eState = "upload" => eState' = "upload")
  BY DEF StageSelect, durable
<1>2. StoredInv /\ BytesInv /\ NameInv /\ ContentInv
  BY DEF Inv
<1>3. PICK B : /\ cl' = [cl EXCEPT ![c].pc = "put", ![c].batch = B]
               /\ \A s \in B : InBatch(s) /\ local'[slot[s].addr] = slot'[s].name
               /\ \A s \in Slots : EntryRenamed(B, s)
               /\ \A a \in Addr : BlockRenamed(B, a)
  BY <1>2, SelectedBatch
<1>4. (\A k \in Clients \ {c} : cl'[k] = cl[k]) /\ cl'[c].batch = B
  BY <1>2, <1>3, Kinds DEF ClientType
<1>5. /\ \A x : \A s \in Slots :
            /\ SameId(slot'[s].name, x) <=> SameId(slot[s].name, x)
            /\ SameId(x, slot'[s].name) <=> SameId(x, slot[s].name)
      /\ \A x : \A a \in Addr :
            /\ SameId(local'[a], x) <=> SameId(local[a], x)
            /\ SameId(x, local'[a]) <=> SameId(x, local[a])
  BY <1>3, SameRandomId DEF EntryRenamed, BlockRenamed
<1>6. ASSUME NEW s \in B
      PROVE  /\ s \in Slots /\ slot[s].dirty /\ slot[s].addr \in Addr /\ slot[s].name # None
             /\ local[slot[s].addr] = slot[s].name /\ local'[slot[s].addr] = slot'[s].name
             /\ \A k \in Clients : s \notin cl[k].batch
  BY <1>3, NoneNot DEF InBatch
(* What the tables name is not what a batch renames.                       *)
<1> DEFINE Tabled(a) == {base.blk[a]} \cup {r.name : r \in {q \in staged \cup gc : q.addr = a}}
<1>7. ASSUME NEW s \in B, NEW a \in Addr, NEW n \in Tabled(a)
      PROVE  ~SameId(slot[s].name, n)
  <2>1. DirtyUnique(s)
    BY <1>2, <1>6 DEF BytesInv, EntryInv
  <2>2. QED
    BY <1>6, <2>1, IdEq DEF DirtyUnique
<1>8. \A a \in Addr : Names(a)' = {local'[a]} \cup Tabled(a) /\ Names(a) = {local[a]} \cup Tabled(a)
  BY <1>1 DEF Names
<1>9. ASSUME NEW a \in Addr, NEW n \in Tabled(a), NEW b \in Addr, SameId(local[b], n)
      PROVE  b = a /\ local[b] = n /\ local'[b] = n
  <2>1. b = a /\ local[b] = n
    BY <1>2, <1>8, <1>9 DEF NameInv, Coherent
  <2>2. \A s \in B : slot[s].addr # b
    BY <1>6, <1>7, <1>9
  <2>3. QED
    BY <1>3, <2>1, <2>2 DEF BlockRenamed
<1>10. ASSUME NEW a \in Addr, local[a] # base.blk[a] PROVE local'[a] # base.blk[a]
  <2>1. SUFFICES ASSUME local'[a] = base.blk[a] PROVE FALSE
    OBVIOUS
  <2>2. CASE local'[a] = None
    BY <1>3, <1>10, <2>1, <2>2 DEF BlockRenamed, SameRandom
  <2>3. CASE local'[a] # None
    BY <1>5, <1>9, <1>10, <2>1, <2>3, SelfId
  <2>4. QED
    BY <2>2, <2>3
<1> HIDE DEF Tabled
<1>11. Coherent'
  <2>1. ASSUME NEW a \in Addr, NEW b \in Addr, NEW m \in Names(a)', NEW n \in Names(b)', SameId(m, n)
        PROVE  a = b /\ m = n
    <3>1. CASE m = local'[a] /\ n = local'[b]
      BY <1>2, <1>5, <2>1, <3>1 DEF BytesInv, NamesFresh
    <3>2. CASE m = local'[a] /\ n \in Tabled(b)
      BY <1>5, <1>9, <2>1, <3>2
    <3>3. CASE m \in Tabled(a) /\ n = local'[b]
      BY <1>5, <1>9, <2>1, <3>3, IdEq
    <3>4. CASE m \in Tabled(a) /\ n \in Tabled(b)
      BY <1>2, <1>8, <2>1, <3>4 DEF NameInv, Coherent
    <3>5. QED
      BY <1>8, <3>1, <3>2, <3>3, <3>4
  <2>2. QED
    BY <2>1 DEF Coherent
<1>12. ASSUME NEW s \in Slots PROVE EntryNames(s)'
  <2>1. EntryNames(s) /\ EntryRenamed(B, s)
    BY <1>2, <1>3 DEF NameInv
  <2>2. \A t \in Slots : SameId(slot'[t].name, slot'[s].name) => t = s
    BY <1>5, <2>1 DEF EntryNames
  <2>3. ASSUME NEW a \in Addr, NEW n \in Tabled(a), SameId(slot'[s].name, n)
        PROVE  s \notin B /\ slot'[s] = slot[s]
    BY <1>5, <1>7, <2>1, <2>3 DEF EntryRenamed
  <2>4. ASSUME NEW a \in Addr, NEW n \in Names(a)', SameId(slot'[s].name, n)
        PROVE  slot'[s].name = n /\ (slot'[s].addr # None => slot'[s].addr = a)
    <3>1. CASE n \in Tabled(a)
      BY <1>8, <2>1, <2>3, <2>4, <3>1 DEF EntryNames
    <3>2. CASE n = local'[a]
      <4>1. SameId(slot[s].name, local[a])
        BY <1>5, <2>4, <3>2
      <4>2. slot[s].name = local[a] /\ (slot[s].addr # None => slot[s].addr = a)
        BY <1>8, <2>1, <4>1 DEF EntryNames
      <4>3. CASE s \in B
        BY <1>2, <1>6, <2>1, <3>2, <4>1, <4>2, <4>3, DirtyOwner DEF EntryRenamed
      <4>4. CASE s \notin B
        <5>1. \A t \in B : slot[t].addr # a
          BY <1>2, <1>6, <4>1, <4>4, OneDirty
        <5>2. QED
          BY <1>3, <2>1, <3>2, <4>2, <4>4, <5>1 DEF BlockRenamed, EntryRenamed
      <4>5. QED
        BY <4>3, <4>4
    <3>3. QED
      BY <1>8, <3>1, <3>2
  <2>5. ASSUME NEW a \in Addr, slot'[s].valid, slot'[s].name = base.blk[a]
        PROVE  data'[s] = slot'[s].name.md5
    <3>1. slot'[s].name # None
      BY <1>2, <2>1, <2>5 DEF BytesInv, EntryInv, CleanBytes, EntryRenamed, SameRandom
    <3>2. base.blk[a] \in Tabled(a)
      BY DEF Tabled
    <3>3. slot'[s] = slot[s]
      BY <2>3, <2>5, <3>1, <3>2, SelfId
    <3>4. QED
      BY <1>1, <2>1, <2>5, <3>3 DEF EntryNames
  <2>6. QED
    BY <1>1, <2>2, <2>4, <2>5 DEF EntryNames
<1>13. ASSUME NEW s \in Slots PROVE RowOK(s)'
  <2>1. \A k \in Clients : Writer(k, s) /\ cl[k].wb => Writer(k, s)' /\ cl'[k].wb
    BY <1>1, <1>4 DEF Writer
  <2>2. RowOK(s) /\ EntryRenamed(B, s)
    BY <1>2, <1>3 DEF NameInv
  <2>3. QED
    BY <1>1, <2>1, <2>2 DEF RowOK, EntryRenamed
<1>14. PendingOK'
  <2>1. PendingOK
    BY <1>2 DEF NameInv
  <2>2. alloc' # {} => \E a \in Addr : local'[a] # base'.blk[a]
    BY <1>1, <1>10, <2>1 DEF PendingOK
  <2>3. up'.pc # "idle" => eState' = "upload" /\ alloc' # {}
    BY <1>1, <2>1 DEF PendingOK
  <2>4. NewBlk' = NewBlk /\ (Announced' <=> Announced)
    BY <1>1 DEF NewBlk, Announced
  <2>5. QED
    BY <1>1, <2>1, <2>2, <2>3, <2>4 DEF PendingOK
<1>15. DeleteOK'
  <2>1. DeleteOK /\ (Publishing' <=> Publishing) /\ up.todo \subseteq Addr
    BY <1>1, <1>2, TableKinds DEF NameInv, Publishing
  <2>2. QED
    BY <1>1, <1>5, <1>10, <2>1 DEF DeleteOK
<1>16. ASSUME RecoverInv PROVE RecoverInv'
  <2>1. ASSUME NEW a \in Addr PROVE BackupOK(a)'
    <3>1. Backup(a)' = Backup(a)
      BY <1>1 DEF Backup
    <3>2. BackupOK(a) /\ BlockRenamed(B, a)
      BY <1>3, <1>16 DEF RecoverInv
    <3>3. QED
      BY <1>1, <3>1, <3>2 DEF BackupOK, BlockRenamed
  <2>2. ASSUME NEW k \in Clients, NEW s \in cl'[k].batch PROVE local'[slot'[s].addr] = slot'[s].name
    <3>1. CASE k = c
      BY <1>3, <1>4, <1>6, <2>2, <3>1 DEF EntryRenamed
    <3>2. CASE k # c
      <4>1. s \in cl[k].batch /\ s \in Slots
        BY <1>2, <1>4, <2>2, <3>2, Kinds DEF ClientType
      <4>2. /\ slot[s].addr \in Addr /\ slot[s].name # None /\ slot'[s] = slot[s]
            /\ local[slot[s].addr] = slot[s].name
        BY <1>2, <1>3, <1>6, <1>16, <4>1, NoneNot DEF StoredInv, EntriesOK, RecoverInv, EntryRenamed
      <4>3. \A t \in B : slot[t].addr # slot[s].addr
        BY <1>2, <1>6, <4>1, <4>2, OneDirty, SelfId
      <4>4. QED
        BY <1>3, <4>2, <4>3 DEF BlockRenamed
    <3>3. QED
      BY <3>1, <3>2
  <2>3. ASSUME Announced, NEW r \in staged, r.seq > up.max PROVE r.name = local'[r.addr]
    <3>1. r.name = local[r.addr] /\ r.addr \in Addr /\ r.name # None
      BY <1>2, <1>16, <2>3, TableKinds, NoneNot DEF RecoverInv
    <3>2. r.name \in Tabled(r.addr)
      BY DEF Tabled
    <3>3. QED
      BY <1>9, <3>1, <3>2, SelfId
  <2>4. Announced' <=> Announced
    BY <1>1 DEF Announced
  <2>5. QED
    BY <1>1, <1>16, <2>1, <2>2, <2>3, <2>4 DEF RecoverInv
<1>17. QED
  BY <1>11, <1>12, <1>13, <1>14, <1>15, <1>16 DEF NameInv

LEMMA StagePersistRecovers ==
  ASSUME Faultless, Inv, NEW c \in Clients, StagePersist(c)
  PROVE  NameInv' /\ (RecoverInv => RecoverInv')
<1>1. /\ UNCHANGED <<data, local, alloc, base, gc, pending, gen, cur, up>> /\ cl[c].pc = "persist"
      /\ eState = "upload" => eState' = "upload"
  BY DEF StagePersist
<1>2. StoredInv /\ BytesInv /\ NameInv /\ ContentInv
  BY DEF Inv
<1>3. PICK C \in SUBSET cl[c].ack :
         /\ staged' = StagedPut(StageRows(C))
         /\ slot' = StageClean(C)
         /\ row' = [s \in Slots |-> IF s \in C THEN CleanRow(slot[s].name) ELSE row[s]]
         /\ cl' = [cl EXCEPT ![c] = AfterStage(cl[c], C = cl[c].batch)]
  BY PersistedBatch
<1>4. ASSUME NEW s \in C
      PROVE  /\ s \in Slots /\ s \in cl[c].batch
             /\ slot[s].name \in Name /\ slot[s].name # None /\ slot[s].addr \in Addr
  <2>1. s \in cl[c].batch /\ s \in Slots
    BY <1>2, <1>3, Kinds DEF ClientType, StoredInv, ClientsOK, ClientOK
  <2>2. QED
    BY <1>2, <2>1, NoneNot DEF StoredInv, EntriesOK
<1>5. ASSUME NEW s \in Slots
      PROVE  /\ slot'[s].name = slot[s].name /\ slot'[s].addr = slot[s].addr
             /\ slot'[s].valid = slot[s].valid
             /\ slot'[s].dirty = (slot[s].dirty /\ s \notin C)
             /\ s \notin C => slot'[s] = slot[s] /\ row'[s] = row[s]
             /\ s \in C => row'[s].addr = None
  BY <1>2, <1>3, Kinds DEF StageClean, EntryType, CleanRow, NoRow
<1>6. (\A k \in Clients \ {c} : cl'[k] = cl[k]) /\ cl'[c].batch = {}
  <2>1. AfterStage(cl[c], C = cl[c].batch).batch = {}
    BY DEF AfterStage, Call, IdleClient
  <2>2. QED
    BY <1>2, <1>3, <2>1, Kinds
<1> DEFINE q(s) == [addr |-> slot[s].addr, name |-> slot[s].name, seq |-> seq + 1]
<1>7. /\ \A s : q(s).addr = slot[s].addr /\ q(s).name = slot[s].name /\ q(s).seq = seq + 1
      /\ StageRows(C) = {q(s) : s \in C}
  BY DEF StageRows
<1> HIDE DEF q
<1>8. /\ \A s \in C : q(s) \in staged'
      /\ \A r \in staged' : r \in staged \/ \E s \in C : r = q(s)
      /\ \A r \in staged : r \in staged' \/ \E s \in C : r.addr = slot[s].addr
  BY <1>3, <1>7 DEF StagedPut
<1>9. ASSUME NEW a \in Addr, NEW n \in Names(a)'
      PROVE  n \in Names(a) \/ \E s \in C : slot[s].addr = a /\ slot[s].name = n
  <2>1. CASE n \in {local[a], base.blk[a]}
    BY <1>1, <2>1 DEF Names
  <2>2. CASE \E r \in staged' \cup gc : r.addr = a /\ n = r.name
    <3>1. PICK r \in staged' \cup gc : r.addr = a /\ n = r.name
      BY <2>2
    <3>2. CASE r \in staged \cup gc
      BY <3>1, <3>2 DEF Names
    <3>3. CASE \E s \in C : r = q(s)
      BY <1>7, <3>1, <3>3
    <3>4. QED
      BY <1>8, <3>2, <3>3
  <2>3. QED
    BY <1>1, <1>9, <2>1, <2>2 DEF Names
<1>10. Coherent'
  <2>1. ASSUME NEW a \in Addr, NEW b \in Addr, NEW m \in Names(a)', NEW n \in Names(b)', SameId(m, n)
        PROVE  a = b /\ m = n
    <3>1. CASE m \in Names(a) /\ n \in Names(b)
      BY <1>2, <2>1, <3>1 DEF NameInv, Coherent
    <3>2. CASE m \in Names(a) /\ \E s \in C : slot[s].addr = b /\ slot[s].name = n
      BY <1>2, <1>4, <2>1, <3>2, IdEq, NoneNot DEF NameInv, EntryNames
    <3>3. CASE n \in Names(b) /\ \E s \in C : slot[s].addr = a /\ slot[s].name = m
      BY <1>2, <1>4, <2>1, <3>3, NoneNot DEF NameInv, EntryNames
    <3>4. CASE /\ \E s \in C : slot[s].addr = b /\ slot[s].name = n
               /\ \E s \in C : slot[s].addr = a /\ slot[s].name = m
      BY <1>2, <1>4, <2>1, <3>4 DEF NameInv, EntryNames
    <3>5. QED
      BY <1>9, <3>1, <3>2, <3>3, <3>4
  <2>2. QED
    BY <2>1 DEF Coherent
<1>11. ASSUME NEW s \in Slots PROVE EntryNames(s)'
  <2>1. EntryNames(s)
    BY <1>2 DEF NameInv
  <2>2. ASSUME NEW a \in Addr, NEW n \in Names(a)', SameId(slot[s].name, n)
        PROVE  slot[s].name = n /\ (slot[s].addr # None => slot[s].addr = a)
    <3>1. CASE n \in Names(a)
      BY <2>1, <2>2, <3>1 DEF EntryNames
    <3>2. CASE \E t \in C : slot[t].addr = a /\ slot[t].name = n
      BY <1>2, <1>4, <2>2, <3>2 DEF NameInv, EntryNames
    <3>3. QED
      BY <1>9, <3>1, <3>2
  <2>3. QED
    BY <1>1, <1>5, <2>1, <2>2 DEF EntryNames
<1>12. ASSUME NEW s \in Slots PROVE RowOK(s)'
  <2>1. \A k \in Clients : Writer(k, s) /\ cl[k].wb => Writer(k, s)' /\ cl'[k].wb
    BY <1>1, <1>6 DEF Writer
  <2>2. RowOK(s)
    BY <1>2 DEF NameInv
  <2>3. QED
    BY <1>5, <2>1, <2>2 DEF RowOK
<1>13. PendingOK'
  <2>1. PendingOK
    BY <1>2 DEF NameInv
  <2>2. ASSUME NEW g \in gc PROVE \E r \in staged' : r.seq >= g.seq
    <3>1. PICK r \in staged : r.seq >= g.seq
      BY <2>1 DEF PendingOK
    <3>2. ASSUME NEW s \in C PROVE q(s).seq >= g.seq
      <4>1. g.seq \in Nat /\ g.seq <= seq /\ seq \in Nat
        BY <1>2, Kinds, TableKinds DEF BytesInv
      <4>2. QED
        BY <1>7, <4>1
    <3>3. QED
      BY <1>8, <3>1, <3>2
  <2>3. NewBlk' = NewBlk /\ (Announced' <=> Announced)
    BY <1>1 DEF NewBlk, Announced
  <2>4. QED
    BY <1>1, <2>1, <2>2, <2>3 DEF PendingOK
<1>14. DeleteOK'
  BY <1>1, <1>2, DeleteKept DEF NameInv
<1>15. ASSUME RecoverInv PROVE RecoverInv'
  <2>1. \A s \in C : local[slot[s].addr] = slot[s].name
    BY <1>4, <1>15 DEF RecoverInv
  <2>2. \A r \in staged : r.seq \in Nat /\ r.seq <= seq /\ seq \in Nat
    BY <1>2, Kinds, TableKinds DEF StoredInv, OperationsOK
  <2>3. \A s \in C : /\ \A r \in staged : ~(q(s).seq <= r.seq) /\ r.seq <= q(s).seq /\ r.seq # q(s).seq
                     /\ \A t \in C : q(s).seq = q(t).seq /\ q(s).seq <= q(t).seq
    BY <1>2, <1>7, <2>2, Kinds
  <2>4. \A s \in C : q(s) \notin gc
    <3>1. \A r \in gc : r.seq \in Nat /\ r.seq <= seq /\ seq \in Nat
      BY <1>2, Kinds, TableKinds DEF BytesInv
    <3>2. QED
      BY <1>7, <3>1
  <2>5. ASSUME NEW s \in C, NEW t \in C, slot[s].addr = slot[t].addr PROVE s = t
    <3>1. slot[s].name = slot[t].name
      BY <2>1, <2>5
    <3>2. QED
      BY <1>2, <1>4, <3>1, SelfId DEF NameInv, EntryNames
  <2>6. ASSUME NEW a \in Addr PROVE BackupOK(a)'
    <3>1. CASE \E s \in C : slot[s].addr = a
      <4>1. PICK s \in C : slot[s].addr = a
        BY <3>1
      <4>2. ASSUME NEW t \in Slots, slot'[t].dirty, slot'[t].addr = a PROVE FALSE
        <5>1. slot[t].dirty /\ slot[t].addr = a /\ t \notin C
          BY <1>5, <4>2
        <5>2. slot[t].name = slot[s].name
          BY <1>2, <2>1, <4>1, <5>1 DEF BytesInv, EntryInv, DirtyUnique
        <5>3. QED
          BY <1>2, <1>4, <4>1, <5>1, <5>2, SelfId DEF NameInv, EntryNames
      <4>3. DirtyAt(a)' = {}
        BY <4>2 DEF DirtyAt
      <4>4. \A r \in staged' : r.addr = a => r.seq <= q(s).seq
        BY <1>8, <2>3
      <4>5. \A r \in staged' : r.addr = a /\ q(s).seq <= r.seq => r.name = q(s).name
        BY <1>7, <1>8, <2>3, <2>5, <4>1
      <4>6. BackupOf(staged', gc', base', a) = q(s).name
        <5>1. PICK p : p = q(s)
          OBVIOUS
        <5>2. p \in staged' /\ p \notin gc' /\ p.addr = a
          BY <1>1, <1>7, <1>8, <2>4, <4>1, <5>1
        <5>3. BackupOf(staged', gc', base', a) = p.name
          BY <4>4, <4>5, <5>1, <5>2, BackupNewest
        <5>4. QED
          BY <5>1, <5>3
      <4>7. QED
        BY <1>1, <1>7, <2>1, <4>1, <4>3, <4>6 DEF BackupOK, Backup
    <3>2. CASE \A s \in C : slot[s].addr # a
      <4>1. DirtyAt(a)' = DirtyAt(a)
        BY <1>5, <3>2 DEF DirtyAt
      <4>2. (\A s \in Slots : row'[s].addr # a) => \A s \in Slots : row[s].addr # a
        <5>1. ASSUME NEW s \in C PROVE row[s].addr # a
          BY <1>2, <1>4, <3>2, NoneNot DEF NameInv, RowOK
        <5>2. QED
          BY <1>5, <5>1
      <4>3. \A r : r.addr = a => (r \in staged' <=> r \in staged)
        BY <1>7, <1>8, <3>2
      <4>4. BackupOf(staged', gc', base', a) = BackupOf(staged, gc, base, a)
        BY <1>1, <4>3, BackupSame
      <4>5. QED
        BY <1>1, <1>15, <4>1, <4>2, <4>4 DEF RecoverInv, BackupOK, Backup
    <3>3. QED
      BY <3>1, <3>2
  <2>7. ASSUME NEW k \in Clients, NEW s \in cl'[k].batch PROVE local'[slot'[s].addr] = slot'[s].name
    <3>1. s \in cl[k].batch /\ s \in Slots
      BY <1>2, <1>6, <2>7, Kinds DEF ClientType
    <3>2. QED
      BY <1>1, <1>5, <1>15, <3>1 DEF RecoverInv
  <2>8. ASSUME NEW r \in staged', NEW p \in staged', r.addr = p.addr, r.seq = p.seq PROVE r = p
    <3>1. CASE r \in staged /\ p \in staged
      BY <1>15, <2>8, <3>1 DEF RecoverInv
    <3>2. CASE (\E s \in C : r = q(s)) /\ \E s \in C : p = q(s)
      BY <1>7, <2>5, <2>8, <3>2
    <3>3. QED
      BY <1>8, <2>3, <2>8, <3>1, <3>2
  <2>9. ASSUME Announced, NEW r \in staged', r.seq > up.max PROVE r.name = local[r.addr]
    BY <1>7, <1>8, <1>15, <2>1, <2>9 DEF RecoverInv
  <2>10. ASSUME NEW x \in base.del, NEW r \in staged' \cup gc PROVE ~SameId(x[1], r.name)
    <3>1. CASE r \in staged \cup gc
      BY <1>15, <3>1 DEF RecoverInv
    <3>2. CASE \E s \in C : r = q(s)
      BY <1>2, <1>4, <1>7, <2>1, <3>2 DEF NameInv, DeleteOK
    <3>3. QED
      BY <1>8, <3>1, <3>2
  <2>11. Announced' <=> Announced
    BY <1>1 DEF Announced
  <2>12. QED
    BY <1>1, <2>6, <2>7, <2>8, <2>9, <2>10, <2>11 DEF RecoverInv
<1>16. QED
  BY <1>10, <1>11, <1>12, <1>13, <1>14, <1>15 DEF NameInv

-----------------------------------------------------------------------------
(* Truncation and revert make dirty entries clean and tombstone rows.      *)

LEMMA Undirtied ==
  ASSUME StoredInv, BytesInv, NEW T \in SUBSET Addr, Undirty(T)
  PROVE  /\ gc' = gc \cup {r \in staged : r.addr \in T}
         /\ \A s \in Slots :
              /\ slot'[s].name = slot[s].name /\ slot'[s].addr = slot[s].addr
              /\ slot'[s].valid = slot[s].valid
              /\ slot'[s].dirty = (slot[s].dirty /\ slot[s].addr \notin T)
              /\ row'[s].addr = IF slot[s].dirty /\ slot[s].addr \in T THEN None ELSE row[s].addr
<1> DEFINE hit == {s \in Slots : \E a \in T : s \in Named(local[a])}
<1>1. /\ gc' = gc \cup {r \in staged : r.addr \in T}
      /\ \A s \in Slots : slot'[s] = IF s \in hit
                                     THEN [slot[s] EXCEPT !.dirty = FALSE, !.staged = FALSE]
                                     ELSE slot[s]
      /\ \A s \in Slots : row'[s] = IF s \in hit /\ slot[s].dirty THEN CleanRow(slot[s].name) ELSE row[s]
  BY DEF Undirty
<1>2. ASSUME NEW s \in Slots, slot[s].dirty PROVE s \in hit <=> slot[s].addr \in T
  <2>1. slot[s].addr \in Addr /\ slot[s].name # None /\ local[slot[s].addr] = slot[s].name
    BY <1>2, DirtyKinds DEF BytesInv, EntryInv, DirtyUnique
  <2>2. ASSUME slot[s].addr \in T PROVE s \in hit
    BY <2>1, <2>2 DEF Named
  <2>3. ASSUME s \in hit PROVE slot[s].addr \in T
    <3>1. PICK a \in T : slot[s].name = local[a]
      BY <2>3 DEF Named
    <3>2. QED
      BY <1>2, <2>1, <3>1, DirtyOwner, SelfId
  <2>4. QED
    BY <2>2, <2>3
<1> HIDE DEF hit
<1>3. ASSUME NEW s \in Slots
      PROVE  /\ slot'[s].name = slot[s].name /\ slot'[s].addr = slot[s].addr
             /\ slot'[s].valid = slot[s].valid
             /\ slot'[s].dirty = (slot[s].dirty /\ slot[s].addr \notin T)
  <2>1. slot[s] \in EntryType /\ slot[s].dirty \in BOOLEAN
    BY Kinds DEF EntryType
  <2>2. CASE s \in hit
    <3>1. slot'[s] = [slot[s] EXCEPT !.dirty = FALSE, !.staged = FALSE]
      BY <1>1, <2>2
    <3>2. /\ slot'[s].name = slot[s].name /\ slot'[s].addr = slot[s].addr
          /\ slot'[s].valid = slot[s].valid /\ slot'[s].dirty = FALSE
      BY <2>1, <3>1 DEF EntryType
    <3>3. QED
      BY <1>2, <2>1, <2>2, <3>2
  <2>3. CASE s \notin hit
    BY <1>1, <1>2, <2>1, <2>3
  <2>4. QED
    BY <2>2, <2>3
<1>4. ASSUME NEW s \in Slots
      PROVE  row'[s].addr = IF slot[s].dirty /\ slot[s].addr \in T THEN None ELSE row[s].addr
  BY <1>1, <1>2 DEF CleanRow, NoRow
<1>5. QED
  BY <1>1, <1>3, <1>4

LEMMA FewerNames ==
  ASSUME NameInv, UNCHANGED <<base, data>>,
         \A a \in Addr : Names(a)' \subseteq Names(a) \cup {None},
         \A s \in Slots : /\ slot'[s].name = slot[s].name /\ slot'[s].addr = slot[s].addr
                          /\ slot'[s].valid = slot[s].valid
  PROVE  Coherent' /\ \A s \in Slots : EntryNames(s)'
<1>1. \A a \in Addr : \A n \in Names(a)' : n \in Names(a) \/ \A m : ~SameId(m, n) /\ ~SameId(n, m)
  BY DEF SameId
<1>2. Coherent'
  <2>1. ASSUME NEW a \in Addr, NEW b \in Addr, NEW m \in Names(a)', NEW n \in Names(b)', SameId(m, n)
        PROVE  a = b /\ m = n
    BY <1>1, <2>1 DEF NameInv, Coherent
  <2>2. QED
    BY <2>1 DEF Coherent
<1>3. ASSUME NEW s \in Slots PROVE EntryNames(s)'
  <2>1. EntryNames(s)
    BY DEF NameInv
  <2>2. ASSUME NEW a \in Addr, NEW n \in Names(a)', SameId(slot[s].name, n)
        PROVE  slot[s].name = n /\ (slot[s].addr # None => slot[s].addr = a)
    BY <1>1, <2>1, <2>2 DEF EntryNames
  <2>3. QED
    BY <2>1, <2>2 DEF EntryNames
<1>4. QED
  BY <1>2, <1>3

LEMMA UndirtyRows ==
  ASSUME StoredInv, BytesInv, NameInv, NEW T \in SUBSET Addr, Undirty(T), UNCHANGED cl
  PROVE  \A s \in Slots : RowOK(s)'
<1>1. ASSUME NEW s \in Slots PROVE RowOK(s)'
  <2>1. RowOK(s) /\ \A k \in Clients : Writer(k, s)' <=> Writer(k, s)
    BY DEF NameInv, Writer
  <2>2. QED
    BY <2>1, Undirtied DEF RowOK
<1>2. QED
  BY <1>1

LEMMA TruncateRecovers ==
  ASSUME Faultless, Inv, NEW c \in Clients, NEW d \in Dbs, NEW n \in Pos, Truncate(c, d, n)
  PROVE  NameInv'
<1> DEFINE cut == {a \in Addr : a[1] = d /\ a[2] >= n}
           T == Unpublished({d}) \cap cut
<1>1. /\ UNCHANGED <<data, base, staged, gen, up, alloc, eState, pending, cl>> /\ Undirty(T)
      /\ local[<<d, 0>>] # base.blk[<<d, 0>>] /\ 0 < n
  BY DEF Truncate
<1>2. \A a \in Addr : local'[a] = None \/ local'[a] = local[a]
  BY DEF Truncate
<1>3. StoredInv /\ BytesInv /\ NameInv
  BY DEF Inv
<1>4. T \in SUBSET Addr
  OBVIOUS
<1>5. <<d, 0>> \in Addr /\ local'[<<d, 0>>] = local[<<d, 0>>]
  <2>1. <<d, 0>> \in Addr /\ n \in Nat
    BY ConstantsAssumption DEF Addr
  <2>2. <<d, 0>> \notin cut
    BY <1>1, <2>1
  <2>3. QED
    BY <2>1, <2>2 DEF Truncate
<1> HIDE DEF T
<1>6. ~Publishing
  <2>1. SUFFICES ASSUME Publishing PROVE FALSE
    OBVIOUS
  <2>2. d \in up.dbs
    BY <1>3, <1>5, <2>1 DEF BytesInv, UploadCurrent, BlockOK
  <2>3. QED
    BY <2>1, <2>2 DEF Publishing, Truncate, UploadLocks
<1>7. gc \subseteq gc' /\ gc' \subseteq gc \cup staged
  BY <1>1, <1>3, <1>4, Undirtied
<1>8. Coherent' /\ \A s \in Slots : EntryNames(s)'
  <2>1. \A a \in Addr : Names(a)' \subseteq Names(a) \cup {None}
    BY <1>1, <1>2, <1>7 DEF Names
  <2>2. QED
    BY <1>1, <1>3, <1>4, <2>1, Undirtied, FewerNames
<1>9. \A s \in Slots : RowOK(s)'
  BY <1>1, <1>3, <1>4, UndirtyRows
<1>10. PendingOK'
  <2>1. PendingOK /\ ~Announced'
    BY <1>1, <1>3, <1>6 DEF NameInv, Announced, Publishing
  <2>2. \A g \in gc' : \E r \in staged' : r.seq >= g.seq
    <3>1. \A r \in staged : r.seq >= r.seq
      BY <1>3, TableKinds
    <3>2. QED
      BY <1>1, <1>7, <2>1, <3>1 DEF PendingOK
  <2>3. QED
    BY <1>1, <1>5, <2>1, <2>2 DEF PendingOK
<1>11. DeleteOK'
  <2>1. ~Publishing' /\ DeleteOK
    BY <1>1, <1>3, <1>6 DEF NameInv, Publishing
  <2>2. QED
    BY <1>1, <1>2, <2>1 DEF DeleteOK, SameId
<1>12. QED
  BY <1>8, <1>9, <1>10, <1>11 DEF NameInv

(* A revert finds no call and no upload in progress, and leaves no block   *)
(* dirty.                                                                  *)
LEMMA RevertIs ==
  ASSUME Inv, Revert
  PROVE  /\ UNCHANGED <<cl, up, poll, gen, data, base, staged, seq, pending, eState, obj>>
         /\ up.pc = "idle" /\ \A c \in Clients : cl[c].pc \in {"idle", "null"} /\ cl[c].batch = {}
         /\ Unpublished(Dbs) \in SUBSET Addr /\ Undirty(Unpublished(Dbs))
         /\ alloc' = {} /\ \A a \in Addr : local'[a] = base.blk[a]
         /\ \A s \in Slots : ~slot'[s].dirty
         /\ \A a \in Addr : cur'[a] = {ContentOf(base.blk[a])} \ {None}
<1>1. StoredInv /\ BytesInv /\ NameInv
  BY DEF Inv
<1>2. /\ UNCHANGED <<cl, up, poll, gen, data, base, staged, seq, pending, eState, obj>>
      /\ eState = "none" /\ \A c \in Clients : cl[c].pc \in {"idle", "null"}
      /\ Undirty(Unpublished(Dbs)) /\ alloc' = {} /\ local' = base.blk
      /\ cur' = [a \in Addr |-> {ContentOf(base.blk[a])} \ {None}]
  BY DEF Revert, bucket
<1>3. Unpublished(Dbs) \in SUBSET Addr
  BY DEF Unpublished, Addr
<1>4. up.pc = "idle"
  BY <1>1, <1>2 DEF NameInv, PendingOK
<1>5. \A c \in Clients : cl[c].batch = {}
  BY <1>1, <1>2 DEF StoredInv, ClientsOK, ClientOK
<1>6. ASSUME NEW s \in Slots, slot[s].dirty PROVE slot[s].addr \in Unpublished(Dbs)
  <2>1. slot[s].addr \in Addr /\ slot[s].name # None
    BY <1>1, <1>6, DirtyKinds
  <2>2. local[slot[s].addr] = slot[s].name /\ base.blk[slot[s].addr] # slot[s].name
    BY <1>1, <1>6, <2>1, SelfId DEF BytesInv, EntryInv, DirtyUnique
  <2>3. QED
    BY <2>1, <2>2 DEF Unpublished, Addr
<1>7. \A s \in Slots : ~slot'[s].dirty
  BY <1>1, <1>2, <1>3, <1>6, Undirtied
<1>8. QED
  BY <1>2, <1>3, <1>4, <1>5, <1>7

LEMMA RevertBytesInv ==
  ASSUME Inv, Revert
  PROVE  BytesInv'
<1>1. StoredInv /\ BytesInv /\ NameInv /\ ContentInv
  BY DEF Inv
<1>2. PICK T \in SUBSET Addr : Undirty(T)
  BY RevertIs
<1>3. /\ UNCHANGED <<cl, up, poll, gen, data, base, staged, seq, obj>>
      /\ up.pc = "idle" /\ \A c \in Clients : cl[c].pc \in {"idle", "null"}
      /\ \A a \in Addr : local'[a] = base.blk[a] /\ cur'[a] = {ContentOf(base.blk[a])} \ {None}
      /\ \A s \in Slots : ~slot'[s].dirty
  BY RevertIs
<1>4. /\ \A s \in Slots : /\ slot'[s].name = slot[s].name /\ slot'[s].addr = slot[s].addr
                          /\ slot'[s].valid = slot[s].valid
      /\ gc' \subseteq gc \cup staged
  BY <1>1, <1>2, Undirtied
<1>5. \A a \in Addr : base.blk[a] \in Names(a)
  BY DEF Names
<1>6. NamesFresh'
  <2>1. \A a, b \in Addr : SameId(base.blk[a], base.blk[b]) => a = b
    BY <1>1, <1>5 DEF NameInv, Coherent
  <2>2. \A r \in staged \cup gc' : r.name.gen < gen
    BY <1>1, <1>4 DEF BytesInv, NamesFresh
  <2>3. QED
    BY <1>1, <1>3, <1>4, <2>1, <2>2 DEF BytesInv, NamesFresh
<1>7. ASSUME NEW s \in Slots PROVE EntryInv(s)'
  <2>1. ASSUME slot[s].name # None, Filled(s)' PROVE data[s] = slot[s].name.md5
    <3>1. slot[s].valid /\ \E a \in Addr : base.blk[a] = slot[s].name
      BY <1>3, <1>4, <2>1 DEF Filled
    <3>2. QED
      BY <1>1, <3>1 DEF NameInv, EntryNames
  <2>2. slot[s].valid => slot[s].name # None
    BY <1>1 DEF BytesInv, EntryInv, CleanBytes
  <2>3. CleanBytes(s)'
    BY <1>3, <1>4, <2>1, <2>2 DEF CleanBytes
  <2>4. QED
    BY <1>3, <2>3 DEF EntryInv, DirtyUnique, DirtyBytes
<1>8. ASSUME NEW a \in Addr PROVE CleanBacked(a)'
  <2>1. CASE base.blk[a] = None
    <3>1. ContentOf(None) = None
      BY <1>1, NoneNot DEF StoredInv, TypeOK, ContentOf
    <3>2. QED
      BY <1>3, <2>1, <3>1 DEF CleanBacked
  <2>2. CASE base.blk[a] # None
    <3>1. base.blk[a] \in DOMAIN obj
      BY <1>1, <2>2 DEF StoredInv, NamesStored, Stored
    <3>2. obj[base.blk[a]] = base.blk[a].md5 /\ obj[base.blk[a]] # None
      BY <1>1, <3>1, NoneNot DEF ContentInv, Addressed, StoredInv, TypeOK
    <3>3. base.blk[a].md5 \in cur'[a]
      BY <1>3, <3>1, <3>2 DEF ContentOf
    <3>4. \A s \in Slots : SameId(slot'[s].name, base.blk[a]) => slot'[s].name = base.blk[a]
      BY <1>1, <1>4, <1>5 DEF NameInv, EntryNames
    <3>5. ASSUME NEW r \in staged, SameId(r.name, base.blk[a]) PROVE r.name = base.blk[a]
      <4>1. r.addr \in Addr /\ r.name \in Names(r.addr)
        BY <1>1, TableKinds DEF Names
      <4>2. QED
        BY <1>1, <1>5, <3>5, <4>1 DEF NameInv, Coherent
    <3>6. QED
      BY <1>3, <2>2, <3>3, <3>4, <3>5 DEF CleanBacked
  <2>3. QED
    BY <2>1, <2>2
<1>9. ASSUME NEW k \in Clients PROVE ThreadInv(k)'
  <2>1. WriterOK(k)'
    BY <1>1, <1>3 DEF BytesInv, ThreadInv, WriterOK
  <2>2. QED
    BY <1>3, <2>1 DEF ThreadInv, ReaderOK
<1>10. UploadCurrent'
  BY <1>3 DEF UploadCurrent, Publishing
<1>11. /\ poll'.pc = "idle" /\ (up'.pc = "ckpt" => up'.dbs # {})
       /\ \A r \in gc' : r.seq <= seq'
  BY <1>1, <1>3, <1>4 DEF BytesInv, StoredInv, OperationsOK
<1>12. QED
  BY <1>6, <1>7, <1>8, <1>9, <1>10, <1>11 DEF BytesInv

LEMMA RevertRecovers ==
  ASSUME Inv, Revert
  PROVE  NameInv' /\ (RecoverInv => RecoverInv')
<1>1. StoredInv /\ BytesInv /\ NameInv
  BY DEF Inv
<1>2. PICK T \in SUBSET Addr : T = Unpublished(Dbs) /\ Undirty(T)
  BY RevertIs
<1>3. /\ UNCHANGED <<cl, up, gen, data, base, staged, pending, eState>> /\ up.pc = "idle"
      /\ alloc' = {} /\ \A a \in Addr : local'[a] = base.blk[a]
      /\ \A s \in Slots : ~slot'[s].dirty
      /\ \A c \in Clients : cl[c].batch = {}
  BY RevertIs
<1>4. gc' = gc \cup {r \in staged : r.addr \in T}
  BY <1>1, <1>2, Undirtied
<1>5. Coherent' /\ \A s \in Slots : EntryNames(s)'
  <2>1. \A a \in Addr : Names(a)' \subseteq Names(a) \cup {None}
    BY <1>3, <1>4 DEF Names
  <2>2. QED
    BY <1>1, <1>2, <1>3, <2>1, Undirtied, FewerNames
<1>6. \A s \in Slots : RowOK(s)'
  BY <1>1, <1>2, <1>3, UndirtyRows
<1>7. ~Announced' /\ ~Publishing'
  BY <1>3 DEF Announced, Publishing
<1>8. PendingOK'
  <2>1. \A g \in gc' : \E r \in staged' : r.seq >= g.seq
    <3>1. \A r \in staged : r.seq >= r.seq
      BY <1>1, TableKinds
    <3>2. QED
      BY <1>1, <1>3, <1>4, <3>1 DEF NameInv, PendingOK
  <2>2. pending' # None => pending'.blk # base'.blk
    BY <1>1, <1>3 DEF NameInv, PendingOK
  <2>3. QED
    BY <1>3, <1>7, <2>1, <2>2 DEF PendingOK
<1>9. DeleteOK'
  BY <1>1, <1>3, <1>7 DEF NameInv, DeleteOK
<1>10. ASSUME RecoverInv PROVE RecoverInv'
  <2>1. ASSUME NEW a \in Addr PROVE BackupOK(a)'
    <3>1. DirtyAt(a)' = {}
      BY <1>3 DEF DirtyAt
    <3>2. BackupOf(staged, gc', base, a) = base.blk[a]
      <4>1. CASE a \in T
        <5>1. \A r \in Replayed(staged, gc', base) : r.addr # a
          BY <1>4, <4>1 DEF Replayed
        <5>2. QED
          BY <5>1, BackupNone
      <4>2. CASE a \notin T
        <5>1. BackupOf(staged, gc', base, a) = BackupOf(staged, gc, base, a)
          BY <1>4, <4>2, BackupSame
        <5>2. local[a] = None \/ local[a] = base.blk[a]
          BY <1>2, <4>2 DEF Unpublished, Addr
        <5>3. DirtyAt(a) = {}
          <6>1. ASSUME NEW s \in Slots, slot[s].dirty, slot[s].addr = a PROVE FALSE
            BY <1>1, <1>2, <1>3, <4>2, <6>1, Undirtied
          <6>2. QED
            BY <6>1 DEF DirtyAt
        <5>4. BackupOf(staged, gc, base, a) = local[a]
          BY <1>1, <1>10, <5>3, CleanRows DEF RecoverInv, BackupOK, Backup
        <5>5. BackupOf(staged, gc, base, a) = None => base.blk[a] = None
          <6>1. \A r \in Replayed(staged, gc, base) : r.name # None
            BY <1>1, TableKinds, NoneNot DEF Replayed
          <6>2. QED
            BY <6>1, BackupCases
        <5>6. QED
          BY <5>1, <5>2, <5>4, <5>5
      <4>3. QED
        BY <4>1, <4>2
    <3>3. QED
      BY <1>3, <3>1, <3>2 DEF BackupOK, Backup
  <2>2. staged' \cup gc' = staged \cup gc
    BY <1>3, <1>4
  <2>3. QED
    BY <1>3, <1>7, <1>10, <2>1, <2>2 DEF RecoverInv
<1>11. QED
  BY <1>5, <1>6, <1>8, <1>9, <1>10 DEF NameInv

-----------------------------------------------------------------------------
(* The uploader.  Until it installs, only its own state and the marker     *)
(* change.                                                                 *)

LEMMA UploaderRecovers ==
  ASSUME Inv, UNCHANGED <<slot, data, row, local, base, staged, gc, cur, cl>>, PendingOK', DeleteOK',
         Announced' => (Announced /\ up'.max = up.max) \/ \A r \in staged : ~(r.seq > up'.max)
  PROVE  NameInv' /\ (RecoverInv => RecoverInv')
<1>1. Coherent' /\ \A a : Names(a)' = Names(a) /\ Backup(a)' = Backup(a)
  BY NamesKept DEF Inv, NameInv
<1>2. ASSUME NEW s \in Slots PROVE EntryNames(s)' /\ RowOK(s)'
  <2>1. EntryNames(s)'
    BY <1>1 DEF Inv, NameInv, EntryNames
  <2>2. RowOK(s)'
    BY DEF Inv, NameInv, RowOK, Writer
  <2>3. QED
    BY <2>1, <2>2
<1>3. ASSUME RecoverInv PROVE RecoverInv'
  <2>1. ASSUME NEW a \in Addr PROVE BackupOK(a)'
    BY <1>1, <1>3 DEF RecoverInv, BackupOK, DirtyAt
  <2>2. QED
    BY <1>3, <2>1 DEF RecoverInv
<1>4. QED
  BY <1>1, <1>2, <1>3 DEF NameInv

LEMMA UploadEndsRecovers ==
  ASSUME Inv, (\E D \in SUBSET Dbs : UploadBegin(D)) \/ UploadFail
                \/ \E a \in Addr : UploadMissing(a)
  PROVE  NameInv' /\ (RecoverInv => RecoverInv')
<1>1. UNCHANGED <<slot, data, row, local, base, staged, gc, cur, cl, alloc, pending, gen>>
  BY DEF UploadBegin, UploadFail, UploadMissing, durable
<1>2. StoredInv /\ NameInv
  BY DEF Inv
<1>3. /\ up'.pc \in {"ckpt", "idle", "corrupt"}
      /\ up'.pc # "idle" => eState' = "upload" /\ alloc # {}
  <2>1. CASE \E D \in SUBSET Dbs : UploadBegin(D)
    BY <1>2, <2>1, Kinds DEF UploadBegin, UploadType
  <2>2. CASE UploadFail
    BY <2>2 DEF UploadFail, EndUpload, IdleUpload
  <2>3. CASE \E a \in Addr : UploadMissing(a)
    <3>1. up.pc = "blocks" /\ up' = [up EXCEPT !.pc = "corrupt"] /\ eState' = eState
      BY <2>3 DEF UploadMissing
    <3>2. QED
      BY <1>2, <3>1, Kinds DEF NameInv, PendingOK, UploadType
  <2>4. QED
    BY <2>1, <2>2, <2>3
<1>4. ~Announced' /\ ~Publishing'
  BY <1>3 DEF Announced, Publishing
<1>5. PendingOK' /\ DeleteOK'
  BY <1>1, <1>2, <1>3, <1>4 DEF NameInv, PendingOK, DeleteOK
<1>6. QED
  BY <1>1, <1>4, <1>5, UploaderRecovers

LEMMA UploadSnapshotRecovers ==
  ASSUME Inv, UploadSnapshot
  PROVE  NameInv' /\ (RecoverInv => RecoverInv')
<1>1. /\ UNCHANGED <<slot, data, row, local, base, staged, gc, cur, cl, alloc, pending, gen, eState>>
      /\ up.pc = "ckpt"
  BY DEF UploadSnapshot, durable
<1>2. StoredInv /\ NameInv
  BY DEF Inv
<1>3. up'.pc = "blocks" /\ up'.todo = Unpublished(up.dbs) /\ up'.del = base.del
  BY <1>2, Kinds DEF UploadSnapshot, UploadType
<1>4. ~Announced'
  BY <1>3 DEF Announced
<1>5. PendingOK'
  BY <1>1, <1>2, <1>4 DEF NameInv, PendingOK
<1>6. DeleteOK'
  BY <1>1, <1>2, <1>3 DEF NameInv, DeleteOK, Unpublished
<1>7. QED
  BY <1>1, <1>4, <1>5, <1>6, UploaderRecovers

(* The published name of a block that is published again is dead.          *)
LEMMA UploadBlockRecovers ==
  ASSUME Inv, NEW a \in Addr, up.pc = "blocks", a \in up.todo,
         UNCHANGED <<slot, data, row, local, base, staged, gc, cur, cl, alloc, pending, gen, eState>>,
         up'.pc \in {"blocks", "fail"},
         up'.pc = "blocks" => up'.todo = up.todo \ {a} /\ up'.del = DeleteBlockIf(a)
  PROVE  NameInv' /\ (RecoverInv => RecoverInv')
<1>1. StoredInv /\ BytesInv /\ NameInv
  BY DEF Inv
<1>2. Publishing /\ ~Announced'
  BY DEF Announced, Publishing
<1>3. PendingOK'
  BY <1>1, <1>2 DEF NameInv, PendingOK
<1>4. ASSUME base.blk[a] # None, NEW b \in Addr
      PROVE  base.blk[a].gen < gen /\ ~SameId(base.blk[a], local[b])
  <2>1. local[a] # base.blk[a]
    BY <1>1, <1>2 DEF NameInv, DeleteOK
  <2>2. base.blk[a] \in Names(a) /\ local[b] \in Names(b)
    BY DEF Names
  <2>3. QED
    BY <1>1, <1>4, <2>1, <2>2 DEF NameInv, Coherent, BytesInv, NamesFresh
<1>5. ASSUME up'.pc = "blocks", NEW e \in up'.del PROVE e[1].gen < gen /\ \A b \in Addr : ~SameId(e[1], local[b])
  <2>1. e \in up.del \/ (base.blk[a] # None /\ e = <<base.blk[a], up.att>>)
    BY <1>5 DEF DeleteBlockIf
  <2>2. CASE e \in up.del
    BY <1>1, <1>2, <2>2 DEF NameInv, DeleteOK
  <2>3. CASE base.blk[a] # None /\ e = <<base.blk[a], up.att>>
    BY <1>4, <2>3
  <2>4. QED
    BY <2>1, <2>2, <2>3
<1>6. DeleteOK'
  BY <1>1, <1>2, <1>5 DEF NameInv, DeleteOK, Publishing
<1>7. QED
  BY <1>2, <1>3, <1>6, UploaderRecovers

LEMMA UploadBlocksRecover ==
  ASSUME Faultless, Inv, NEW a \in Addr, UploadStaged(a) \/ UploadDirty(a)
  PROVE  NameInv' /\ (RecoverInv => RecoverInv')
<1>1. /\ UNCHANGED <<slot, data, row, local, base, staged, gc, cur, cl, alloc, pending, gen, eState>>
      /\ up.pc = "blocks" /\ a \in up.todo
  BY DEF UploadStaged, UploadDirty, durable
<1>2. StoredInv /\ up \in UploadType
  BY Kinds DEF Inv
<1>3. /\ up'.pc \in {"blocks", "fail"}
      /\ up'.pc = "blocks" => up'.todo = up.todo \ {a} /\ up'.del = DeleteBlockIf(a)
  <2>1. CASE UploadStaged(a)
    BY <1>1, <1>2, <2>1 DEF UploadStaged, UploadType
  <2>2. CASE UploadDirty(a)
    <3>1. \A x : SameBytes(a[1], x) = {}
      BY <1>2, OneDatabase DEF SameBytes
    <3>2. PICK s \in Slots :
            LET new == Renamed(up.blk[a], data[s])
                next == [up EXCEPT !.blk[a] = new, !.todo = @ \ {a}, !.del = DeleteBlockIf(a),
                                   !.recs = @ \cup {[s |-> s, old |-> up.blk[a], new |-> new]}]
            IN  up' = next \/ up' = [next EXCEPT !.pc = "fail"]
      BY <2>2, <3>1 DEF UploadDirty, Named
    <3>3. QED
      BY <1>1, <1>2, <3>2 DEF UploadType
  <2>3. QED
    BY <2>1, <2>2
<1>4. QED
  BY <1>1, <1>3, UploadBlockRecovers

LEMMA StagedMaxIs ==
  ASSUME StoredInv
  PROVE  StagedMax \in Nat /\ \A r \in staged : r.seq <= StagedMax
<1>1. StagedMax \in Nat
  BY StagedMaxType DEF StoredInv
<1>2. ASSUME NEW r \in staged PROVE r.seq <= StagedMax
  <2>1. r.seq \in StagedSeqs /\ StagedSeqs \in SUBSET Nat /\ seq \in Nat
    BY Kinds DEF StagedSeqs, StagedRow
  <2>2. \A k \in StagedSeqs : k <= seq
    BY DEF StagedSeqs, StoredInv, OperationsOK
  <2>3. \E m \in StagedSeqs : \A k \in StagedSeqs : k <= m
    BY <2>1, <2>2, BoundedHasMax
  <2>4. \A k \in StagedSeqs : k <= CHOOSE m \in StagedSeqs : \A j \in StagedSeqs : j <= m
    BY <2>3
  <2>5. QED
    BY <1>2, <2>1, <2>4 DEF StagedMax
<1>3. QED
  BY <1>1, <1>2

(* The manifest to be published differs from the installed one, and lists  *)
(* as deleted no name that a block has.                                    *)
LEMMA UploadPendingRecovers ==
  ASSUME Inv, UploadPending
  PROVE  NameInv' /\ (RecoverInv => RecoverInv')
<1>1. /\ UNCHANGED <<slot, data, row, local, base, staged, gc, cur, cl, alloc, gen, eState>>
      /\ up.pc = "blocks" /\ up.todo = {}
  BY DEF UploadPending
<1>2. StoredInv /\ BytesInv /\ NameInv
  BY DEF Inv
<1>3. /\ up'.pc = "manifest" /\ up'.del = up.del \cup StagedGc /\ up'.max = StagedMax
      /\ up'.dbs = up.dbs /\ up'.blk = up.blk /\ up'.todo = {}
      /\ pending' = [blk |-> NewBlk, del |-> up.del \cup StagedGc, max |-> StagedMax]
  BY <1>1, <1>2, Kinds DEF UploadPending, UploadType
<1>4. Publishing /\ Announced' /\ \A a \in Addr : BlockOK(a)
  BY <1>1, <1>2, <1>3 DEF Publishing, Announced, BytesInv, UploadCurrent
<1>5. NewBlk' = NewBlk /\ \A a \in Addr : NewBlk[a] = up.blk[a]
  BY <1>1, <1>3, <1>4 DEF NewBlk, BlockOK
<1>6. StagedMax \in Nat /\ \A r \in staged : r.seq <= StagedMax /\ r.seq \in Nat
  BY <1>2, StagedMaxIs, TableKinds
<1>7. pending'.blk # base.blk
  <2>1. PICK a \in Addr : local[a] # base.blk[a]
    BY <1>1, <1>2 DEF NameInv, PendingOK
  <2>2. up.blk[a] # base.blk[a]
    <3>1. SUFFICES ASSUME up.blk[a] = base.blk[a] PROVE FALSE
      OBVIOUS
    <3>2. base.blk[a] \in Names(a) /\ local[a] \in Names(a)
      BY DEF Names
    <3>3. QED
      BY <1>2, <1>4, <2>1, <3>1, <3>2 DEF BlockOK, NameInv, Coherent
  <2>3. QED
    BY <1>3, <1>5, <2>2
<1>8. \A g \in gc : g.seq <= StagedMax
  <2>1. ASSUME NEW g \in gc PROVE g.seq <= StagedMax
    <3>1. PICK r \in staged : r.seq >= g.seq
      BY <1>2 DEF NameInv, PendingOK
    <3>2. g.seq \in Nat
      BY <1>2, TableKinds
    <3>3. QED
      BY <1>6, <3>1, <3>2
  <2>2. QED
    BY <2>1
<1>9. PendingOK'
  <2>1. pending' = [blk |-> NewBlk', del |-> up'.del, max |-> up'.max]
    BY <1>3, <1>5
  <2>2. eState' = "upload" /\ alloc' # {} /\ \E a \in Addr : local'[a] # base'.blk[a]
    BY <1>1, <1>2 DEF NameInv, PendingOK
  <2>3. \A g \in gc' : (\E r \in staged' : r.seq >= g.seq) /\ g.seq <= up'.max
    BY <1>1, <1>2, <1>3, <1>8 DEF NameInv, PendingOK
  <2>4. QED
    BY <1>1, <1>7, <2>1, <2>2, <2>3 DEF PendingOK
<1>10. ASSUME NEW e \in StagedGc, NEW a \in Addr PROVE e[1].gen < gen /\ ~SameId(e[1], local[a])
  <2>1. PICK r \in staged \cup gc : e[1] = r.name /\ \A b \in Addr : NewBlk[b] # r.name
    BY <1>10 DEF StagedGc
  <2>2. r.name.gen < gen
    BY <1>2 DEF BytesInv, NamesFresh
  <2>3. ASSUME SameId(r.name, local[a]) PROVE FALSE
    <3>1. r.addr \in Addr /\ r.name \in Names(r.addr) /\ local[a] \in Names(a)
      BY <1>2, TableKinds DEF Names
    <3>2. r.name = local[a]
      BY <1>2, <2>3, <3>1 DEF NameInv, Coherent
    <3>3. DirtyAt(a) # {}
      BY <1>1, <1>4, <1>5, <2>1, <3>2 DEF BlockOK
    <3>4. QED
      BY <1>2, <2>3, <3>3 DEF BytesInv, EntryInv, DirtyUnique, DirtyAt
  <2>4. QED
    BY <2>1, <2>2, <2>3
<1>11. DeleteOK'
  <2>1. \A e \in up'.del : e[1].gen < gen /\ \A a \in Addr : ~SameId(e[1], local[a])
    <3>1. \A e \in StagedGc : \E r \in staged \cup gc : e[1] = r.name
      BY DEF StagedGc
    <3>2. \A e \in StagedGc : e[1].gen < gen
      BY <1>2, <3>1 DEF BytesInv, NamesFresh
    <3>3. QED
      BY <1>2, <1>3, <1>4, <1>10, <3>2 DEF NameInv, DeleteOK
  <2>2. QED
    BY <1>1, <1>2, <1>3, <2>1 DEF NameInv, DeleteOK
<1>12. \A r \in staged : ~(r.seq > up'.max)
  BY <1>3, <1>6
<1>13. QED
  BY <1>1, <1>9, <1>11, <1>12, UploaderRecovers

LEMMA UploadManifestRecovers ==
  ASSUME Inv, UploadManifest
  PROVE  NameInv' /\ (RecoverInv => RecoverInv')
<1>1. /\ UNCHANGED <<slot, data, row, local, base, staged, gc, cur, cl, alloc, gen, eState, pending>>
      /\ up.pc = "manifest"
  BY DEF UploadManifest, durable
<1>2. StoredInv /\ NameInv
  BY DEF Inv
<1>3. /\ up'.pc \in {"install", "fail"} /\ up'.del = up.del /\ up'.max = up.max
      /\ up'.dbs = up.dbs /\ up'.blk = up.blk /\ up'.todo = up.todo
  <2>1. up' = [up EXCEPT !.pc = "install"] \/ up' = [up EXCEPT !.pc = "fail"]
    BY DEF UploadManifest
  <2>2. QED
    BY <1>2, <2>1, Kinds DEF UploadType
<1>4. Publishing /\ Announced /\ NewBlk' = NewBlk
  BY <1>1, <1>3 DEF Publishing, Announced, NewBlk
<1>5. PendingOK'
  BY <1>1, <1>2, <1>3, <1>4 DEF NameInv, PendingOK
<1>6. DeleteOK'
  BY <1>1, <1>2, <1>3, <1>4 DEF NameInv, DeleteOK
<1>7. QED
  BY <1>1, <1>3, <1>4, <1>5, <1>6, UploaderRecovers

(* Another process takes names of its own.                                 *)
LEMMA RemotePublishRecovers ==
  ASSUME Inv, NEW a \in Addr, NEW v \in Contents, RemotePublish(a, v)
  PROVE  NameInv' /\ (RecoverInv => RecoverInv')
<1>1. /\ UNCHANGED <<slot, data, row, local, base, staged, gc, cur, cl, alloc, eState, pending, up>>
      /\ gen' = gen + 1
  BY DEF RemotePublish, durable
<1>2. StoredInv /\ NameInv
  BY DEF Inv
<1>3. PendingOK' /\ (Announced' <=> Announced)
  BY <1>1, <1>2, PendingKept DEF NameInv, Announced
<1>4. \A n \in Name : n.gen < gen => n.gen < gen'
  BY <1>1, <1>2, Kinds DEF Name
<1>5. DeleteOK'
  BY <1>1, <1>2, <1>4, TableKinds DEF NameInv, DeleteOK, Publishing
<1>6. QED
  BY <1>1, <1>3, <1>5, UploaderRecovers

(* An installation retires the rows of the publication and leaves none of  *)
(* the blocks dirty.                                                       *)
LEMMA UploadInstallRecovers ==
  ASSUME Faultless, Inv, UploadInstall
  PROVE  NameInv' /\ (RecoverInv => RecoverInv')
<1>1. /\ UNCHANGED <<cl, gen, cur, data>> /\ up.pc = "install" /\ up'.pc = "idle"
      /\ staged' = StagedAfter(staged, up.max) /\ gc' = StagedAfter(gc, up.max) /\ pending' = None
      /\ base'.del = up.del /\ alloc' = alloc \ up.dbs
  BY DEF UploadInstall, EndUpload, IdleUpload, Retire, Faultless, NewManifest
<1>2. StoredInv /\ BytesInv /\ NameInv /\ BytesInv'
  BY UploadInstallBytesInv DEF Inv
<1>3. Publishing /\ Announced /\ ~Publishing' /\ ~Announced'
  BY <1>1 DEF Publishing, Announced
<1>4. ASSUME NEW a \in Addr
      PROVE  /\ base'.blk[a] = local'[a]
             /\ DirtyAt(a) = {} => local'[a] = local[a]
             /\ \A x : /\ SameId(x, local'[a]) <=> SameId(x, local[a])
                       /\ SameId(local'[a], x) <=> SameId(local[a], x)
  BY <1>2, Installed, SameRandomId
<1>5. ASSUME NEW s \in Slots
      PROVE  /\ ~slot'[s].dirty /\ slot'[s].valid = slot[s].valid /\ slot'[s].addr = slot[s].addr
             /\ ~slot[s].dirty => slot'[s] = slot[s]
             /\ \A x : /\ SameId(x, slot'[s].name) <=> SameId(x, slot[s].name)
                       /\ SameId(slot'[s].name, x) <=> SameId(slot[s].name, x)
             /\ \A a \in Addr : SameId(slot[s].name, local[a]) => slot'[s].name = local'[a]
  BY <1>2, Installed, SameRandomId
<1>6. \A s \in Slots : row'[s].addr = None
  <2>1. row' = Published(RecordedSlots)
    BY <1>1, <1>2, RecordsMatch DEF UploadInstall
  <2>2. \A s \in Slots : s \in RecordedSlots <=> slot[s].dirty
    BY <1>1, <1>2, RecordedName
  <2>3. QED
    BY <1>2, <2>1, <2>2, CleanRow1 DEF Published, CleanRow, NoRow
<1>7. gc' = {} /\ staged' \subseteq staged /\ \A r \in staged' : r.seq > up.max
  <2>1. \A g \in gc : g.seq <= up.max /\ g.seq \in Nat /\ up.max \in Nat
    BY <1>2, <1>3, TableKinds DEF NameInv, PendingOK
  <2>2. QED
    BY <1>1, <2>1 DEF StagedAfter
<1>8. ASSUME NEW a \in Addr, NEW n \in Names(a)'
      PROVE  n = local'[a] \/ (n \in Names(a) /\ \E r \in staged' : r.addr = a /\ r.name = n)
  BY <1>4, <1>7, <1>8 DEF Names
<1>9. ASSUME NEW r \in staged
      PROVE  /\ r.addr \in Addr /\ r.name \in Names(r.addr)
             /\ \A s \in Slots : SameId(slot[s].name, r.name) => ~slot[s].dirty
             /\ \A a \in Addr : SameId(local[a], r.name) => DirtyAt(a) = {}
  <2>1. r.addr \in Addr /\ r.name \in Names(r.addr)
    BY <1>2, TableKinds DEF Names
  <2>2. \A s \in Slots : SameId(slot[s].name, r.name) => ~slot[s].dirty
    BY <1>2, IdEq DEF BytesInv, EntryInv, DirtyUnique
  <2>3. \A s \in Slots : slot[s].dirty => local[slot[s].addr] = slot[s].name
    BY <1>2 DEF BytesInv, EntryInv, DirtyUnique
  <2>4. QED
    BY <2>1, <2>2, <2>3 DEF DirtyAt
<1>10. Coherent'
  <2>1. ASSUME NEW a \in Addr, NEW b \in Addr, NEW n \in Names(b), SameId(local'[a], n),
               \E r \in staged : r.addr = b /\ r.name = n
        PROVE  a = b /\ local'[a] = n
    <3>1. local[a] \in Names(a) /\ SameId(local[a], n)
      BY <1>4, <2>1 DEF Names
    <3>2. a = b /\ local[a] = n
      BY <1>2, <3>1 DEF NameInv, Coherent
    <3>3. QED
      BY <1>4, <1>9, <2>1, <3>1, <3>2
  <2>2. ASSUME NEW a \in Addr, NEW b \in Addr, NEW m \in Names(a)', NEW n \in Names(b)', SameId(m, n)
        PROVE  a = b /\ m = n
    <3>1. CASE m = local'[a] /\ n = local'[b]
      BY <1>2, <2>2, <3>1 DEF BytesInv, NamesFresh
    <3>2. CASE m = local'[a] /\ n \in Names(b) /\ \E r \in staged' : r.addr = b /\ r.name = n
      BY <1>7, <2>1, <2>2, <3>2
    <3>3. CASE n = local'[b] /\ m \in Names(a) /\ \E r \in staged' : r.addr = a /\ r.name = m
      BY <1>7, <2>1, <2>2, <3>3, IdEq
    <3>4. CASE m \in Names(a) /\ n \in Names(b)
      BY <1>2, <2>2, <3>4 DEF NameInv, Coherent
    <3>5. QED
      BY <1>8, <3>1, <3>2, <3>3, <3>4
  <2>3. QED
    BY <2>2 DEF Coherent
<1>11. ASSUME NEW s \in Slots PROVE EntryNames(s)'
  <2>1. \A t \in Slots : SameId(slot'[t].name, slot'[s].name) => t = s
    BY <1>2, <1>5 DEF NameInv, EntryNames
  <2>2. ASSUME NEW a \in Addr, NEW n \in Names(a)', SameId(slot'[s].name, n)
        PROVE  slot'[s].name = n /\ (slot'[s].addr # None => slot'[s].addr = a)
    <3>1. CASE n = local'[a]
      <4>1. SameId(slot[s].name, local[a]) /\ local[a] \in Names(a)
        BY <1>4, <1>5, <2>2, <3>1 DEF Names
      <4>2. QED
        BY <1>2, <1>5, <3>1, <4>1 DEF NameInv, EntryNames
    <3>2. CASE n \in Names(a) /\ \E r \in staged : r.addr = a /\ r.name = n
      <4>1. SameId(slot[s].name, n) /\ slot'[s] = slot[s]
        BY <1>5, <1>9, <2>2, <3>2
      <4>2. QED
        BY <1>2, <3>2, <4>1 DEF NameInv, EntryNames
    <3>3. QED
      BY <1>7, <1>8, <3>1, <3>2
  <2>3. ASSUME NEW a \in Addr, slot'[s].valid, slot'[s].name = base'.blk[a]
        PROVE  data'[s] = slot'[s].name.md5
    <3>1. CleanBytes(s)' /\ local'[a] = slot'[s].name
      BY <1>2, <1>4, <2>3 DEF BytesInv, EntryInv
    <3>2. QED
      BY <1>5, <2>3, <3>1 DEF CleanBytes, Filled
  <2>4. QED
    BY <2>1, <2>2, <2>3 DEF EntryNames
<1>12. \A s \in Slots : RowOK(s)'
  BY <1>5, <1>6 DEF RowOK
<1>13. PendingOK'
  <2>1. ASSUME NEW d \in alloc PROVE d \in up.dbs
    <3>1. <<d, 0>> \in Addr
      BY <1>2, ConstantsAssumption DEF StoredInv, TypeOK, Addr
    <3>2. QED
      BY <1>2, <1>3, <3>1 DEF BytesInv, UploadCurrent, BlockOK
  <2>2. alloc' = {}
    BY <1>1, <2>1
  <2>3. QED
    BY <1>1, <1>3, <1>7, <2>2 DEF PendingOK
<1>14. DeleteOK'
  <2>1. \A e \in up.del : e[1].gen < gen /\ \A a \in Addr : ~SameId(e[1], local[a])
    BY <1>2, <1>3 DEF NameInv, DeleteOK
  <2>2. QED
    BY <1>1, <1>3, <1>4, <2>1 DEF DeleteOK
<1>15. ASSUME RecoverInv PROVE RecoverInv'
  <2>1. ASSUME NEW r \in staged' PROVE r.name = local[r.addr] /\ r.name = base'.blk[r.addr]
    <3>1. r \in staged /\ r.name = local[r.addr] /\ r.addr \in Addr /\ r.name # None
      BY <1>2, <1>3, <1>7, <1>15, TableKinds, NoneNot DEF RecoverInv
    <3>2. QED
      BY <1>4, <1>9, <3>1, SelfId
  <2>2. ASSUME NEW a \in Addr PROVE BackupOK(a)'
    <3>1. DirtyAt(a)' = {}
      BY <1>5 DEF DirtyAt
    <3>2. \A r \in Replayed(staged', gc', base') : r.addr # a
      BY <2>1 DEF Replayed
    <3>3. BackupOf(staged', gc', base', a) = base'.blk[a]
      BY <3>2, BackupNone
    <3>4. QED
      BY <1>4, <3>1, <3>3 DEF BackupOK, Backup
  <2>3. ASSUME NEW c \in Clients, NEW s \in cl'[c].batch PROVE local'[slot'[s].addr] = slot'[s].name
    <3>1. s \in Slots /\ s \in cl[c].batch
      BY <1>1, <1>2, <2>3, Kinds DEF ClientType
    <3>2. slot[s].addr \in Addr /\ slot[s].name # None /\ local[slot[s].addr] = slot[s].name
      BY <1>2, <1>15, <3>1, NoneNot DEF RecoverInv, StoredInv, EntriesOK
    <3>3. QED
      BY <1>5, <3>1, <3>2, SelfId
  <2>4. \A r, q \in staged' : r.addr = q.addr /\ r.seq = q.seq => r = q
    BY <1>7, <1>15 DEF RecoverInv
  <2>5. \A e \in base'.del : \A r \in staged' \cup gc' : ~SameId(e[1], r.name)
    BY <1>1, <1>2, <1>3, <1>7, <1>9, <2>1 DEF NameInv, DeleteOK
  <2>6. QED
    BY <1>3, <2>2, <2>3, <2>4, <2>5 DEF RecoverInv
<1>16. QED
  BY <1>10, <1>11, <1>12, <1>13, <1>14, <1>15 DEF NameInv

-----------------------------------------------------------------------------
(* Restarts.                                                               *)

(* The durable names of a block, and the durable tables from which a       *)
(* restart recovers every block.                                           *)
RestartNames(st, g, bs, a) == {bs.blk[a]} \cup {r.name : r \in {q \in st \cup g : q.addr = a}}

Restartable(st, g, bs, rw) ==
    /\ st \subseteq staged /\ g \subseteq gc
    /\ \A a \in Addr : bs.blk[a] = None \/ (bs.blk[a] \in DOMAIN obj /\ bs.blk[a].gen < gen)
    /\ \A a, b \in Addr : \A m \in RestartNames(st, g, bs, a) : \A n \in RestartNames(st, g, bs, b) :
         SameId(m, n) => a = b /\ m = n
    /\ \A s \in Slots : rw[s].addr # None => slot[s].dirty /\ slot[s].valid /\ slot[s].addr = rw[s].addr
    /\ \A a \in Addr : (\A s \in Slots : rw[s].addr # a) => HasBytes(BackupOf(st, g, bs, a), cur[a])
    /\ \A e \in bs.del : /\ e[1] \in Name /\ e[1].gen < gen
                         /\ \A a \in Addr : \A n \in RestartNames(st, g, bs, a) : ~SameId(e[1], n)
    /\ \A x \in g : \E r \in st : r.seq >= x.seq
    /\ \A r, q \in st : r.addr = q.addr /\ r.seq = q.seq => r = q

Fresh(s) == [gen |-> gen, tag |-> s, md5 |-> None]

(* The bytes of a dirty entry are acknowledged or those of the write in    *)
(* progress.                                                               *)
LEMMA DirtyRecovers ==
  ASSUME StoredInv, BytesInv, NEW s \in Slots, slot[s].dirty, slot[s].valid
  PROVE  data[s] \in cur[slot[s].addr] \cup {cl[c].v : c \in InFlight(slot[s].addr)}
<1>1. DirtyBytes(s)
  BY DEF BytesInv, EntryInv
<1>2. CASE \E c \in Clients : Writer(c, s)
  <2>1. PICK c \in Clients : Writer(c, s)
    BY <1>2
  <2>2. WriterOK(c) /\ cl[c].op = "write" /\ cl[c].s = s /\ cl[c].pc \in {"bytes", "done"}
    BY <2>1 DEF BytesInv, ThreadInv, Writer
  <2>3. cl[c].a = slot[s].addr
    BY <2>2 DEF WriterOK
  <2>4. cl[c].v \in Contents /\ cl[c].v # None
    BY <2>2, ThreadKinds, NoneNot DEF IOPhases
  <2>5. c \in InFlight(slot[s].addr)
    BY <2>2, <2>3, <2>4 DEF InFlight
  <2>6. data[s] \in cur[slot[s].addr] \/ data[s] = cl[c].v
    BY <2>2, <2>3 DEF WriterOK
  <2>7. QED
    BY <2>5, <2>6
<1>3. QED
  BY <1>1, <1>2 DEF DirtyBytes

(* A block has at most one dirty row.                                      *)
LEMMA OneRow ==
  ASSUME StoredInv, BytesInv, NEW rw,
         \A s \in Slots : rw[s].addr # None => slot[s].dirty /\ slot[s].valid /\ slot[s].addr = rw[s].addr,
         NEW s \in Slots, NEW t \in Slots, rw[s].addr # None, rw[t].addr = rw[s].addr
  PROVE  t = s
<1>1. slot[s].dirty /\ slot[t].dirty /\ slot[s].addr = slot[t].addr
  OBVIOUS
<1>2. slot[t].name = local[slot[t].addr] /\ slot[t].name # None
  BY <1>1, DirtyKinds DEF BytesInv, EntryInv, DirtyUnique
<1>3. QED
  BY <1>1, <1>2, OneDirty, SelfId

(* What a restart finds of each block.                                     *)
LEMMA RecoveredOne ==
  ASSUME StoredInv, BytesInv, NEW st, NEW g, NEW bs, NEW rw, Restartable(st, g, bs, rw),
         NEW s \in Slots, rw[s].addr # None
  PROVE  /\ RecoveredName(rw[s].addr, st, g, bs, rw) = Fresh(s)
         /\ RecoveredContent(rw[s].addr, st, g, bs, rw) = data[s]
<1>1. PICK R : R = {t \in Slots : rw[t].addr = rw[s].addr}
  OBVIOUS
<1>2. R = {s}
  BY <1>1, OneRow DEF Restartable
<1>3. (CHOOSE t \in R : TRUE) = s /\ R # {}
  BY <1>2
<1>4. RecoveredName(rw[s].addr, st, g, bs, rw) = Fresh(CHOOSE t \in R : TRUE)
  BY <1>1, <1>3 DEF RecoveredName, Fresh
<1>5. RecoveredContent(rw[s].addr, st, g, bs, rw) = data[CHOOSE t \in R : TRUE]
  BY <1>1, <1>3 DEF RecoveredContent
<1>6. QED
  BY <1>3, <1>4, <1>5

LEMMA RecoveredBackup ==
  ASSUME NEW st, NEW g, NEW bs, NEW rw, NEW a, \A s \in Slots : rw[s].addr # a
  PROVE  /\ RecoveredName(a, st, g, bs, rw) = BackupOf(st, g, bs, a)
         /\ RecoveredContent(a, st, g, bs, rw) = ContentOf(BackupOf(st, g, bs, a))
<1>1. {s \in Slots : rw[s].addr = a} = {}
  OBVIOUS
<1>2. PICK R : R = {r \in Replayed(st, g, bs) : r.addr = a}
  OBVIOUS
<1>3. BackupOf(st, g, bs, a) = IF R # {} THEN (CHOOSE r \in R : TRUE).name ELSE bs.blk[a]
  BY <1>2 DEF BackupOf
<1>4. RecoveredName(a, st, g, bs, rw) = IF R # {} THEN (CHOOSE r \in R : TRUE).name ELSE bs.blk[a]
  BY <1>1, <1>2 DEF RecoveredName
<1>5. QED
  BY <1>1, <1>3, <1>4 DEF RecoveredContent

(* A backup is a durable name, stored under its prefix.                    *)
LEMMA BackupStored ==
  ASSUME StoredInv, ContentInv, BytesInv, NEW st, NEW g, NEW bs, NEW rw, Restartable(st, g, bs, rw),
         NEW a \in Addr
  PROVE  /\ BackupOf(st, g, bs, a) \in RestartNames(st, g, bs, a)
         /\ BackupOf(st, g, bs, a) = bs.blk[a] \/
              \E r \in st \ g : r.addr = a /\ r.name = BackupOf(st, g, bs, a)
         /\ BackupOf(st, g, bs, a) # None =>
              /\ BackupOf(st, g, bs, a).gen < gen
              /\ ContentOf(BackupOf(st, g, bs, a)) = BackupOf(st, g, bs, a).md5
<1>1. PICK n : n = BackupOf(st, g, bs, a)
  OBVIOUS
<1>2. n = bs.blk[a] \/ \E r \in st \ g : r.addr = a /\ r.name = n
  BY <1>1, BackupCases DEF Replayed
<1>3. n \in RestartNames(st, g, bs, a)
  BY <1>2 DEF RestartNames
<1>4. ASSUME n # None PROVE n.gen < gen /\ n \in DOMAIN obj
  <2>1. \A r \in st : r.name \in DOMAIN obj /\ r.name.gen < gen
    BY DEF Restartable, StoredInv, NamesStored, BytesInv, NamesFresh
  <2>2. QED
    BY <1>2, <1>4, <2>1 DEF Restartable
<1>5. n # None => n.gen < gen /\ ContentOf(n) = n.md5
  BY <1>4 DEF ContentInv, Addressed, ContentOf
<1>6. QED
  BY <1>1, <1>2, <1>3, <1>5

(* The state after a restart: every entry is a dirty one under a new name, *)
(* or free; every other block has its backup.                              *)
LEMMA Restarted ==
  ASSUME Inv, NEW st0, NEW g0, NEW bs, NEW pd, NEW rw, NEW st, NEW g,
         st = Unretired(st0, bs, pd), g = Unretired(g0, bs, pd),
         CacheInit(st0, g0, bs, pd, rw, cur), Restartable(st, g, bs, rw)
  PROVE  /\ gen' = gen + 1 /\ UNCHANGED <<data, seq, obj>>
         /\ staged' = st /\ gc' = g /\ base' = bs
         /\ up'.pc = "idle" /\ poll'.pc = "idle"
         /\ \A c \in Clients : cl'[c] = IdleClient
         /\ \A s \in Slots : row'[s].addr = rw[s].addr
         /\ \A s \in Slots : rw[s].addr = None =>
              slot'[s].name = None /\ ~slot'[s].valid /\ ~slot'[s].dirty
         /\ \A s \in Slots : rw[s].addr # None =>
              /\ rw[s].addr \in Addr
              /\ slot'[s].name = Fresh(s) /\ slot'[s].addr = rw[s].addr
              /\ slot'[s].valid /\ slot'[s].dirty
              /\ local'[rw[s].addr] = Fresh(s) /\ cur'[rw[s].addr] = {data[s]}
         /\ \A a \in Addr : (\A s \in Slots : rw[s].addr # a) =>
              /\ local'[a] = BackupOf(st, g, bs, a)
              /\ cur'[a] = IF local'[a] = None THEN {} ELSE {local'[a].md5}
<1>1. StoredInv /\ ContentInv /\ BytesInv
  BY DEF Inv
<1>2. /\ gen' = gen + 1 /\ UNCHANGED <<data, seq, obj>>
      /\ staged' = st /\ gc' = g /\ base' = bs
      /\ up'.pc = "idle" /\ poll'.pc = "idle"
      /\ \A c \in Clients : cl'[c] = IdleClient
  BY DEF CacheInit, bucket, EndUpload, IdleUpload, IdlePoll
<1>3. \A s \in Slots : row'[s].addr = rw[s].addr
  BY DEF CacheInit, NoRow
<1>4. \A s \in Slots : slot'[s] = RecoveredEntry(s, rw)
  BY DEF CacheInit
<1>5. \A a \in Addr : local'[a] = RecoveredName(a, st, g, bs, rw)
  BY DEF CacheInit
<1>6. \A a \in Addr : \A v : v = RecoveredContent(a, st, g, bs, rw) =>
         cur'[a] = IF v \in cur[a] \cup {cl[c].v : c \in InFlight(a)} THEN {v} ELSE cur[a]
  BY DEF CacheInit
<1>7. ASSUME NEW s \in Slots, rw[s].addr = None
      PROVE  slot'[s].name = None /\ ~slot'[s].valid /\ ~slot'[s].dirty
  <2>1. slot'[s] = FreeEntry
    BY <1>4, <1>7 DEF RecoveredEntry
  <2>2. QED
    BY <2>1 DEF FreeEntry
<1>8. ASSUME NEW s \in Slots, rw[s].addr # None
      PROVE  /\ rw[s].addr \in Addr
             /\ slot'[s].name = Fresh(s) /\ slot'[s].addr = rw[s].addr
             /\ slot'[s].valid /\ slot'[s].dirty
             /\ local'[rw[s].addr] = Fresh(s) /\ cur'[rw[s].addr] = {data[s]}
  <2>1. slot[s].dirty /\ slot[s].valid /\ slot[s].addr = rw[s].addr
    BY <1>8 DEF Restartable
  <2>2. rw[s].addr \in Addr
    BY <1>1, <2>1, DirtyKinds
  <2>3. local'[rw[s].addr] = Fresh(s)
    BY <1>1, <1>5, <1>8, <2>2, RecoveredOne
  <2>4. RecoveredContent(rw[s].addr, st, g, bs, rw) = data[s]
    BY <1>1, <1>8, RecoveredOne
  <2>5. data[s] \in cur[rw[s].addr] \cup {cl[c].v : c \in InFlight(rw[s].addr)}
    BY <1>1, <2>1, DirtyRecovers
  <2>6. cur'[rw[s].addr] = {data[s]}
    BY <1>6, <2>2, <2>4, <2>5
  <2>7. slot'[s] = [name |-> Fresh(s), addr |-> rw[s].addr, valid |-> TRUE, dirty |-> TRUE, staged |-> FALSE]
    BY <1>4, <1>8 DEF RecoveredEntry, Fresh
  <2>8. QED
    BY <2>2, <2>3, <2>6, <2>7
<1>9. ASSUME NEW a \in Addr, \A s \in Slots : rw[s].addr # a
      PROVE  /\ local'[a] = BackupOf(st, g, bs, a)
             /\ cur'[a] = IF local'[a] = None THEN {} ELSE {local'[a].md5}
  <2>1. PICK n : n = BackupOf(st, g, bs, a)
    OBVIOUS
  <2>2. local'[a] = n /\ RecoveredContent(a, st, g, bs, rw) = ContentOf(n)
    BY <1>5, <1>9, <2>1, RecoveredBackup
  <2>3. HasBytes(n, cur[a])
    BY <1>9, <2>1 DEF Restartable
  <2>4. CASE n = None
    <3>1. ContentOf(n) = None
      BY <1>1, <2>4, NoneNot DEF StoredInv, TypeOK, ContentOf
    <3>2. cur[a] = {}
      BY <2>3, <2>4 DEF HasBytes
    <3>3. None \notin cur[a] \cup {cl[c].v : c \in InFlight(a)}
      BY <3>2 DEF InFlight
    <3>4. cur'[a] = cur[a]
      BY <1>6, <2>2, <3>1, <3>3
    <3>5. QED
      BY <2>1, <2>2, <2>4, <3>2, <3>4
  <2>5. CASE n # None
    <3>1. ContentOf(n) = n.md5
      BY <1>1, <2>1, <2>5, BackupStored
    <3>2. n.md5 \in cur[a]
      BY <2>3, <2>5 DEF HasBytes
    <3>3. QED
      BY <1>6, <2>1, <2>2, <2>5, <3>1, <3>2
  <2>6. QED
    BY <2>1, <2>2, <2>4, <2>5
<1>10. QED
  BY <1>2, <1>3, <1>7, <1>8, <1>9

LEMMA RestartInv ==
  ASSUME Inv, NEW st0, NEW g0, NEW bs, NEW pd, NEW rw, NEW st, NEW g,
         st = Unretired(st0, bs, pd), g = Unretired(g0, bs, pd),
         CacheInit(st0, g0, bs, pd, rw, cur), Restartable(st, g, bs, rw),
         PendingMatches(pd, bs) \/ pd = None \/ pd.blk # bs.blk
  PROVE  BytesInv' /\ NameInv' /\ RecoverInv'
<1> DEFINE N(a) == RestartNames(st, g, bs, a)
<1>1. StoredInv /\ ContentInv /\ BytesInv
  BY DEF Inv
<1>2. /\ gen' = gen + 1 /\ UNCHANGED <<data, seq, obj>>
      /\ staged' = st /\ gc' = g /\ base' = bs
      /\ up'.pc = "idle" /\ poll'.pc = "idle"
      /\ \A c \in Clients : cl'[c] = IdleClient
      /\ \A s \in Slots : row'[s].addr = rw[s].addr
  BY Restarted
<1>3. \A s \in Slots : rw[s].addr = None => slot'[s].name = None /\ ~slot'[s].valid /\ ~slot'[s].dirty
  BY Restarted
<1>4. ASSUME NEW s \in Slots, rw[s].addr # None
      PROVE  /\ rw[s].addr \in Addr
             /\ slot'[s].name = Fresh(s) /\ slot'[s].addr = rw[s].addr
             /\ slot'[s].valid /\ slot'[s].dirty
             /\ local'[rw[s].addr] = Fresh(s) /\ cur'[rw[s].addr] = {data[s]}
  BY <1>4, Restarted
<1>5. ASSUME NEW a \in Addr, \A s \in Slots : rw[s].addr # a
      PROVE  /\ local'[a] = BackupOf(st, g, bs, a)
             /\ cur'[a] = IF local'[a] = None THEN {} ELSE {local'[a].md5}
             /\ local'[a] \in N(a)
             /\ local'[a] = bs.blk[a] \/ \E r \in st \ g : r.addr = a /\ r.name = local'[a]
  <2> HIDE DEF N
  <2>1. /\ local'[a] = BackupOf(st, g, bs, a)
        /\ cur'[a] = IF local'[a] = None THEN {} ELSE {local'[a].md5}
    <3>1. \A b \in Addr : (\A s \in Slots : rw[s].addr # b) =>
             /\ local'[b] = BackupOf(st, g, bs, b)
             /\ cur'[b] = IF local'[b] = None THEN {} ELSE {local'[b].md5}
      BY Restarted
    <3>2. QED
      BY <1>5, <3>1
  <2> USE DEF N
  <2>2. QED
    BY <1>1, <2>1, BackupStored
<1>6. \A s, t \in Slots : Fresh(s) # None /\ Fresh(s).gen = gen /\ (SameId(Fresh(s), Fresh(t)) => s = t)
  <2>1. \A s \in Slots : Fresh(s) \in Name
    BY <1>1, Kinds DEF Fresh, Name
  <2>2. QED
    BY <2>1, NoneNot DEF Fresh, SameId
<1>7. ASSUME NEW a \in Addr, NEW n \in N(a), n # None
      PROVE  n.gen < gen /\ n.gen \in Nat /\ \A s \in Slots : ~SameId(n, Fresh(s)) /\ ~SameId(Fresh(s), n)
  <2>1. n \in Name /\ n.gen < gen
    <3>1. CASE n = bs.blk[a]
      BY <1>1, <1>7, <3>1 DEF Restartable, StoredInv, TypeOK
    <3>2. CASE \E r \in st \cup g : n = r.name
      BY <1>1, <3>2, TableKinds DEF Restartable, BytesInv, NamesFresh
    <3>3. QED
      BY <3>1, <3>2 DEF RestartNames
  <2>2. n.gen \in Nat /\ gen \in Nat
    BY <1>1, <2>1, Kinds DEF Name
  <2>3. QED
    BY <1>6, <2>1, <2>2 DEF SameId
<1>8. ASSUME NEW a \in Addr, NEW b \in Addr, NEW m \in N(a), NEW n \in N(b), SameId(m, n)
      PROVE  a = b /\ m = n
  BY <1>8 DEF Restartable
<1>9. ASSUME NEW a \in Addr, NEW n \in Names(a)'
      PROVE  n \in N(a) \/ (n = local'[a] /\ \E s \in Slots : rw[s].addr = a /\ n = Fresh(s))
  <2>1. CASE n = local'[a]
    <3>1. CASE \A s \in Slots : rw[s].addr # a
      BY <1>5, <2>1, <3>1
    <3>2. CASE \E s \in Slots : rw[s].addr = a
      BY <1>4, <2>1, <3>2, NoneNot
    <3>3. QED
      BY <3>1, <3>2
  <2>2. CASE n # local'[a]
    BY <1>2, <2>2 DEF Names, RestartNames
  <2>3. QED
    BY <2>1, <2>2
<1>10. \A r \in st \cup g : r.addr \in Addr /\ r.name \in N(r.addr) /\ r.name # None /\ r.seq <= seq
  <2>1. \A r \in st \cup g : r.addr \in Addr /\ r.name # None
    BY <1>1, TableKinds, NoneNot DEF Restartable
  <2>2. \A r \in st \cup g : r.name \in N(r.addr)
    BY DEF RestartNames
  <2>3. \A r \in st \cup g : r.seq <= seq
    BY <1>1 DEF Restartable, StoredInv, OperationsOK, BytesInv
  <2>4. QED
    BY <2>1, <2>2, <2>3
<1>11. \A a \in Addr : bs.blk[a] \in N(a)
  BY DEF RestartNames
<1> HIDE DEF N
<1>12. Coherent'
  <2>1. ASSUME NEW a \in Addr, NEW b \in Addr, NEW m \in Names(a)', NEW n \in Names(b)', SameId(m, n)
        PROVE  a = b /\ m = n
    <3>1. m # None /\ n # None
      BY <2>1 DEF SameId
    <3>2. CASE m \in N(a) /\ n \in N(b)
      BY <1>8, <2>1, <3>2
    <3>3. CASE m \in N(a) /\ \E s \in Slots : rw[s].addr = b /\ n = Fresh(s)
      BY <1>7, <2>1, <3>1, <3>3
    <3>4. CASE n \in N(b) /\ \E s \in Slots : rw[s].addr = a /\ m = Fresh(s)
      BY <1>7, <2>1, <3>1, <3>4
    <3>5. CASE /\ \E s \in Slots : rw[s].addr = a /\ m = Fresh(s)
               /\ \E s \in Slots : rw[s].addr = b /\ n = Fresh(s)
      BY <1>6, <2>1, <3>5
    <3>6. QED
      BY <1>9, <3>2, <3>3, <3>4, <3>5
  <2>2. QED
    BY <2>1 DEF Coherent
<1>13. \A a \in Addr : local'[a] \in Names(a)'
  BY DEF Names
<1>14. NamesFresh'
  <2>1. gen \in Nat /\ \A k \in Nat : k < gen => k < gen + 1
    BY <1>1, Kinds
  <2>2. \A s \in Slots : slot'[s].name # None => slot'[s].name.gen < gen'
    BY <1>2, <1>3, <1>4, <1>6, <2>1
  <2>3. \A a \in Addr : local'[a] # None => local'[a].gen < gen'
    BY <1>2, <1>6, <1>7, <1>9, <1>13, <2>1
  <2>4. \A a \in Addr : base'.blk[a] # None => base'.blk[a].gen < gen'
    BY <1>2, <1>7, <1>11, <2>1
  <2>5. \A r \in staged' \cup gc' : r.name.gen < gen'
    BY <1>2, <1>7, <1>10, <2>1
  <2>6. \A a, b \in Addr : SameId(local'[a], local'[b]) => a = b
    BY <1>12, <1>13 DEF Coherent
  <2>7. QED
    BY <2>2, <2>3, <2>4, <2>5, <2>6 DEF NamesFresh
<1>15. ASSUME NEW s \in Slots PROVE EntryInv(s)' /\ EntryNames(s)' /\ RowOK(s)'
  <2>1. CASE rw[s].addr = None
    <3>1. slot'[s].name = None /\ ~slot'[s].valid /\ ~slot'[s].dirty /\ row'[s].addr = None
      BY <1>2, <1>3, <2>1
    <3>2. QED
      BY <3>1 DEF EntryInv, DirtyUnique, DirtyBytes, CleanBytes, EntryNames, RowOK, SameId
  <2>2. CASE rw[s].addr # None
    <3>1. /\ rw[s].addr \in Addr
          /\ slot'[s].name = Fresh(s) /\ slot'[s].addr = rw[s].addr
          /\ slot'[s].valid /\ slot'[s].dirty
          /\ local'[rw[s].addr] = Fresh(s) /\ cur'[rw[s].addr] = {data[s]}
      BY <1>4, <2>2
    <3>2. \A t \in Slots : SameId(slot'[t].name, Fresh(s)) => t = s
      BY <1>3, <1>4, <1>6 DEF SameId
    <3>3. \A a \in Addr : ~SameId(bs.blk[a], Fresh(s))
      BY <1>7, <1>11 DEF SameId
    <3>4. \A r \in st \cup g : ~SameId(r.name, Fresh(s))
      BY <1>7, <1>10
    <3>5. DirtyUnique(s)'
      BY <1>2, <3>1, <3>2, <3>3, <3>4 DEF DirtyUnique
    <3>6. DirtyBytes(s)' /\ CleanBytes(s)'
      BY <1>2, <1>6, <3>1 DEF DirtyBytes, CleanBytes
    <3>7. ASSUME NEW a \in Addr, NEW n \in Names(a)', SameId(Fresh(s), n)
          PROVE  Fresh(s) = n /\ rw[s].addr = a
      <4>1. n # None
        BY <3>7 DEF SameId
      <4>2. QED
        BY <1>6, <1>7, <1>9, <3>7, <4>1
    <3>8. ASSUME NEW a \in Addr, Fresh(s) = bs.blk[a] PROVE FALSE
      BY <1>6, <3>3, <3>8, SelfId
    <3>9. EntryNames(s)'
      BY <1>2, <3>1, <3>2, <3>7, <3>8 DEF EntryNames
    <3>10. RowOK(s)'
      BY <1>2, <2>2, <3>1 DEF RowOK
    <3>11. QED
      BY <3>5, <3>6, <3>9, <3>10 DEF EntryInv
  <2>3. QED
    BY <2>1, <2>2
<1>16. ASSUME NEW a \in Addr
       PROVE  DirtyAt(a)' = {} <=> \A s \in Slots : rw[s].addr # a
  BY <1>3, <1>4, <1>16, NoneNot DEF DirtyAt
<1>17. ASSUME NEW a \in Addr PROVE CleanBacked(a)'
  <2>1. CASE \A s \in Slots : rw[s].addr # a
    <3>1. \A s \in Slots : ~SameId(slot'[s].name, local'[a])
      <4>1. local'[a] # None => \A s \in Slots : ~SameId(Fresh(s), local'[a])
        BY <1>5, <1>7, <2>1
      <4>2. QED
        BY <1>3, <1>4, <4>1 DEF SameId
    <3>2. ASSUME NEW r \in st, SameId(r.name, local'[a]) PROVE r.name = local'[a]
      <4>1. local'[a] \in N(a) /\ r.addr \in Addr /\ r.name \in N(r.addr)
        BY <1>5, <1>10, <2>1
      <4>2. QED
        BY <1>8, <3>2, <4>1
    <3>3. local'[a] = base'.blk[a] \/ StagedFind(a, local[a])'
      BY <1>2, <1>5, <2>1 DEF StagedFind
    <3>4. cur'[a] = IF local'[a] = None THEN {} ELSE {local'[a].md5}
      BY <1>5, <2>1
    <3>5. CASE local'[a] = None
      BY <3>4, <3>5 DEF CleanBacked
    <3>6. CASE local'[a] # None
      BY <1>2, <3>1, <3>2, <3>3, <3>4, <3>6 DEF CleanBacked
    <3>7. QED
      BY <3>5, <3>6
  <2>2. CASE \E s \in Slots : rw[s].addr = a
    <3>1. local'[a] # None /\ DirtyAt(a)' # {}
      BY <1>4, <1>6, <1>16, <2>2, NoneNot
    <3>2. QED
      BY <3>1 DEF CleanBacked
  <2>3. QED
    BY <2>1, <2>2
<1>18. ASSUME NEW c \in Clients PROVE ThreadInv(c)' /\ cl'[c].batch = {}
  <2>1. cl'[c].pc = "idle" /\ cl'[c].op = "read" /\ cl'[c].batch = {}
    BY <1>2 DEF IdleClient
  <2>2. QED
    BY <2>1 DEF ThreadInv, WriterOK, ReaderOK
<1>19. ~Publishing' /\ ~Announced'
  BY <1>2 DEF Publishing, Announced
<1>20. BytesInv'
  <2>1. UploadCurrent' /\ up'.pc # "ckpt" /\ poll'.pc = "idle"
    BY <1>2, <1>19 DEF UploadCurrent
  <2>2. \A r \in gc' : r.seq <= seq'
    BY <1>2, <1>10
  <2>3. QED
    BY <1>14, <1>15, <1>17, <1>18, <2>1, <2>2 DEF BytesInv
<1>21. PendingOK'
  <2>1. ASSUME alloc' # {} PROVE \E a \in Addr : local'[a] # base'.blk[a]
    <3>1. PICK b \in Addr : \/ \E s \in Slots : rw[s].addr = b
                            \/ \E r \in Replayed(st, g, bs) : r.addr = b
      BY <2>1 DEF CacheInit
    <3>2. CASE \E s \in Slots : rw[s].addr = b
      <4>1. PICK s \in Slots : rw[s].addr = b
        BY <3>2
      <4>2. local'[b] = Fresh(s)
        BY <1>4, <4>1, NoneNot
      <4>3. Fresh(s) # bs.blk[b]
        BY <1>6, <1>7, <1>11, SelfId
      <4>4. QED
        BY <1>2, <4>2, <4>3
    <3>3. CASE (\A s \in Slots : rw[s].addr # b) /\ \E r \in Replayed(st, g, bs) : r.addr = b
      <4>1. PICK r \in Replayed(st, g, bs) : r.addr = b /\ BackupOf(st, g, bs, b) = r.name
        BY <3>3, BackupCases
      <4>2. r.name # bs.blk[b]
        BY <4>1 DEF Replayed
      <4>3. QED
        BY <1>2, <1>5, <3>3, <4>1, <4>2
    <3>4. QED
      BY <3>1, <3>2, <3>3
  <2>2. pending' # None => pending'.blk # base'.blk
    BY <1>2 DEF CacheInit
  <2>3. \A x \in gc' : \E r \in staged' : r.seq >= x.seq
    BY <1>2 DEF Restartable
  <2>4. QED
    BY <1>2, <1>19, <2>1, <2>2, <2>3 DEF PendingOK
<1>22. DeleteOK'
  <2>1. ASSUME NEW e \in bs.del
        PROVE  e[1].gen < gen' /\ \A a \in Addr : ~SameId(e[1], local'[a]) /\ ~SameId(e[1], bs.blk[a])
    <3>1. e[1] \in Name /\ e[1].gen < gen /\ \A a \in Addr : \A n \in N(a) : ~SameId(e[1], n)
      BY DEF Restartable, N
    <3>2. e[1].gen \in Nat /\ gen \in Nat
      BY <1>1, <3>1, Kinds DEF Name
    <3>3. \A s \in Slots : ~SameId(e[1], Fresh(s))
      BY <1>6, <3>1, <3>2 DEF SameId
    <3>4. QED
      BY <1>2, <1>9, <1>11, <1>13, <3>1, <3>2, <3>3
  <2>2. QED
    BY <1>2, <1>19, <2>1 DEF DeleteOK
<1>23. RecoverInv'
  <2>1. ASSUME NEW a \in Addr PROVE BackupOK(a)'
    <3>1. (\A s \in Slots : row'[s].addr # a) => \A s \in Slots : rw[s].addr # a
      BY <1>2
    <3>2. QED
      BY <1>2, <1>5, <1>16, <3>1 DEF BackupOK, Backup
  <2>2. \A r, q \in staged' : r.addr = q.addr /\ r.seq = q.seq => r = q
    BY <1>2 DEF Restartable
  <2>3. \A e \in base'.del : \A r \in staged' \cup gc' : ~SameId(e[1], r.name)
    BY <1>2, <1>10 DEF Restartable, N
  <2>4. QED
    BY <1>18, <1>19, <2>1, <2>2, <2>3 DEF RecoverInv
<1>24. QED
  BY <1>12, <1>15, <1>20, <1>21, <1>22, <1>23 DEF NameInv

(* A block without a dirty entry is named for its bytes.                   *)
LEMMA CleanHasBytes ==
  ASSUME BytesInv, NEW a \in Addr, DirtyAt(a) = {}
  PROVE  HasBytes(local[a], cur[a])
  BY DEF BytesInv, CleanBacked, HasBytes

(* The durable tables suffice at any time.                                 *)
LEMMA TablesRestartable ==
  ASSUME Inv, RecoverInv
  PROVE  /\ ~PendingMatches(pending, base)
         /\ Restartable(staged, gc, base, row)
<1>1. StoredInv /\ BytesInv /\ NameInv
  BY DEF Inv
<1>2. ~PendingMatches(pending, base)
  BY <1>1 DEF NameInv, PendingOK, PendingMatches
<1>3. \A a \in Addr : base.blk[a] = None \/ (base.blk[a] \in DOMAIN obj /\ base.blk[a].gen < gen)
  BY <1>1 DEF StoredInv, NamesStored, Stored, BytesInv, NamesFresh
<1>4. \A a \in Addr : RestartNames(staged, gc, base, a) \subseteq Names(a)
  BY DEF RestartNames, Names
<1>5. \A a, b \in Addr : \A m \in RestartNames(staged, gc, base, a) :
         \A n \in RestartNames(staged, gc, base, b) : SameId(m, n) => a = b /\ m = n
  BY <1>1, <1>4 DEF NameInv, Coherent
<1>6. \A s \in Slots : row[s].addr # None => slot[s].dirty /\ slot[s].valid /\ slot[s].addr = row[s].addr
  BY <1>1 DEF NameInv, RowOK
<1>7. ASSUME NEW a \in Addr, \A s \in Slots : row[s].addr # a
      PROVE  HasBytes(BackupOf(staged, gc, base, a), cur[a])
  BY <1>1, <1>7, CleanHasBytes DEF RecoverInv, BackupOK, Backup
<1>8. ASSUME NEW e \in base.del
      PROVE  /\ e[1] \in Name /\ e[1].gen < gen
             /\ \A a \in Addr : \A n \in RestartNames(staged, gc, base, a) : ~SameId(e[1], n)
  <2>1. e[1] \in Name /\ e[1].gen < gen
    BY <1>1, TableKinds DEF NameInv, DeleteOK
  <2>2. ASSUME NEW a \in Addr, NEW n \in RestartNames(staged, gc, base, a) PROVE ~SameId(e[1], n)
    <3>1. CASE n = base.blk[a]
      BY <1>1, <3>1 DEF NameInv, DeleteOK
    <3>2. CASE \E r \in staged \cup gc : n = r.name
      BY <3>2 DEF RecoverInv
    <3>3. QED
      BY <2>2, <3>1, <3>2 DEF RestartNames
  <2>3. QED
    BY <2>1, <2>2
<1>9. \A x \in gc : \E r \in staged : r.seq >= x.seq
  BY <1>1 DEF NameInv, PendingOK
<1>10. \A r, q \in staged : r.addr = q.addr /\ r.seq = q.seq => r = q
  BY DEF RecoverInv
<1>11. QED
  BY <1>2, <1>3, <1>5, <1>6, <1>7, <1>8, <1>9, <1>10 DEF Restartable

LEMMA CrashRecovers ==
  ASSUME Inv, RecoverInv, Crash
  PROVE  BytesInv' /\ NameInv' /\ RecoverInv'
<1>1. ~PendingMatches(pending, base) /\ Restartable(staged, gc, base, row)
  BY TablesRestartable
<1>2. PICK st, g, bs, pd, rw : st = staged /\ g = gc /\ bs = base /\ pd = pending /\ rw = row
  OBVIOUS
<1>3. st = Unretired(st, bs, pd) /\ g = Unretired(g, bs, pd)
  BY <1>1, <1>2 DEF Unretired
<1>4. CacheInit(st, g, bs, pd, rw, cur)
  BY <1>2 DEF Crash
<1>5. Restartable(st, g, bs, rw)
  BY <1>1, <1>2
<1>6. pd = None \/ pd.blk # bs.blk
  BY <1>2 DEF Inv, NameInv, PendingOK
<1>7. QED
  BY <1>3, <1>4, <1>5, <1>6, RestartInv

(* Between the replacement of the container row and the updates that       *)
(* follow it, the new manifest has the bytes of every block and the dirty  *)
(* rows that are left agree with it.                                       *)
LEMMA InstallingRestartable ==
  ASSUME Faultless, Inv, RecoverInv, up.pc = "install", NEW R \in SUBSET RecordedSlots,
         NEW bs, bs.blk = NewBlk, bs.del = up.del
  PROVE  Restartable(StagedAfter(staged, up.max), StagedAfter(gc, up.max), bs, Published(R))
<1>1. StoredInv /\ BytesInv /\ NameInv
  BY DEF Inv
<1>2. Publishing /\ Announced /\ up.todo = {} /\ UploadCurrent
  BY <1>1 DEF Publishing, Announced, StoredInv, OperationsOK, BytesInv
<1>3. \A a \in Addr : BlockOK(a) /\ a[1] \in up.dbs
  BY <1>2 DEF UploadCurrent, BlockOK
<1>4. ASSUME NEW a \in Addr
      PROVE  /\ bs.blk[a] = up.blk[a]
             /\ bs.blk[a] = None <=> local[a] = None
             /\ DirtyAt(a) = {} => bs.blk[a] = local[a]
             /\ \A x : /\ SameId(x, bs.blk[a]) <=> SameId(x, local[a])
                       /\ SameId(bs.blk[a], x) <=> SameId(local[a], x)
  <2>1. bs.blk[a] = up.blk[a]
    BY <1>3 DEF NewBlk
  <2>2. SameRandom(up.blk[a], local[a]) /\ (DirtyAt(a) = {} => up.blk[a] = local[a])
    BY <1>2, <1>3 DEF BlockOK, SameRandom, SameId
  <2>3. QED
    BY <2>1, <2>2, SameRandomId DEF SameRandom
<1>5. PICK st, g, rw : st = StagedAfter(staged, up.max) /\ g = StagedAfter(gc, up.max) /\ rw = Published(R)
  OBVIOUS
<1>6. g = {} /\ st \subseteq staged /\ \A r \in st : r.seq > up.max
  <2>1. \A x \in gc : x.seq <= up.max /\ x.seq \in Nat /\ up.max \in Nat
    BY <1>1, <1>2, TableKinds DEF NameInv, PendingOK
  <2>2. QED
    BY <1>5, <2>1 DEF StagedAfter
<1>7. ASSUME NEW r \in st
      PROVE  r.addr \in Addr /\ r.name # None /\ r.name = local[r.addr] /\ r.name = bs.blk[r.addr]
  <2>1. r \in staged /\ r.name = local[r.addr]
    BY <1>2, <1>6 DEF RecoverInv
  <2>2. r.addr \in Addr /\ r.name # None
    BY <1>1, <2>1, TableKinds, NoneNot
  <2>3. ASSUME NEW s \in Slots, slot[s].dirty, slot[s].addr = r.addr PROVE FALSE
    <3>1. slot[s].name = r.name
      BY <1>1, <2>1, <2>3 DEF BytesInv, EntryInv, DirtyUnique
    <3>2. QED
      BY <1>1, <2>1, <2>2, <2>3, <3>1, SelfId DEF BytesInv, EntryInv, DirtyUnique
  <2>4. DirtyAt(r.addr) = {}
    BY <2>3 DEF DirtyAt
  <2>5. QED
    BY <1>4, <2>1, <2>2, <2>4
<1>8. ASSUME NEW a \in Addr, NEW n \in RestartNames(st, g, bs, a) PROVE n = bs.blk[a]
  BY <1>6, <1>7, <1>8 DEF RestartNames
<1>9. \A a \in Addr : bs.blk[a] = None \/ (bs.blk[a] \in DOMAIN obj /\ bs.blk[a].gen < gen)
  <2>1. ASSUME NEW a \in Addr, bs.blk[a] # None PROVE bs.blk[a] \in DOMAIN obj /\ bs.blk[a].gen < gen
    <3>1. Stored(up.blk[a])
      BY <1>1, <1>2, <1>3 DEF StoredInv, NamesStored
    <3>2. SameId(up.blk[a], local[a])
      BY <1>3, <1>4, <2>1 DEF BlockOK
    <3>3. local[a].gen < gen
      BY <1>1, <3>2 DEF BytesInv, NamesFresh, SameId
    <3>4. QED
      BY <1>4, <2>1, <3>1, <3>2, <3>3 DEF Stored, SameId
  <2>2. QED
    BY <2>1
<1>10. \A a, b \in Addr : \A m \in RestartNames(st, g, bs, a) : \A n \in RestartNames(st, g, bs, b) :
         SameId(m, n) => a = b /\ m = n
  <2>1. ASSUME NEW a \in Addr, NEW b \in Addr, SameId(bs.blk[a], bs.blk[b]) PROVE a = b
    BY <1>1, <1>4, <2>1 DEF BytesInv, NamesFresh
  <2>2. QED
    BY <1>8, <2>1
<1>11. \A s \in Slots : rw[s].addr # None => slot[s].dirty /\ slot[s].valid /\ slot[s].addr = rw[s].addr
  BY <1>1, <1>5 DEF NameInv, RowOK, Published, CleanRow, NoRow
<1>12. ASSUME NEW a \in Addr PROVE HasBytes(BackupOf(st, g, bs, a), cur[a])
  <2>1. \A r \in Replayed(st, g, bs) : r.addr # a
    BY <1>7 DEF Replayed
  <2>2. BackupOf(st, g, bs, a) = bs.blk[a]
    BY <2>1, BackupNone
  <2>3. CASE DirtyAt(a) = {}
    BY <1>1, <1>4, <2>2, <2>3, CleanHasBytes
  <2>4. CASE DirtyAt(a) # {}
    <3>1. PICK s \in Slots : slot[s].dirty /\ slot[s].addr = a
      BY <2>4 DEF DirtyAt
    <3>2. bs.blk[a] = Renamed(slot[s].name, data[s])
      BY <1>1, <1>4, <3>1, RecordedName
    <3>3. slot[s].name \in Name /\ data[s] \in Contents
      BY <1>1, <3>1, DirtyKinds, Kinds
    <3>4. bs.blk[a].md5 = data[s] /\ bs.blk[a] # None
      BY <3>2, <3>3, RenamedMd5, RenamedRandom DEF Faultless
    <3>5. data[s] \in cur[a]
      BY <1>1, <1>2, <3>1 DEF BytesInv, EntryInv, DirtyBytes, UploadCurrent, Writer
    <3>6. QED
      BY <2>2, <3>4, <3>5 DEF HasBytes
  <2>5. QED
    BY <2>3, <2>4
<1>13. ASSUME NEW e \in bs.del
       PROVE  /\ e[1] \in Name /\ e[1].gen < gen
              /\ \A a \in Addr : \A n \in RestartNames(st, g, bs, a) : ~SameId(e[1], n)
  <2>1. e[1] \in Name /\ e[1].gen < gen /\ \A a \in Addr : ~SameId(e[1], local[a])
    BY <1>1, <1>2, TableKinds DEF NameInv, DeleteOK
  <2>2. QED
    BY <1>4, <1>8, <2>1
<1>14. \A r, q \in st : r.addr = q.addr /\ r.seq = q.seq => r = q
  BY <1>6 DEF RecoverInv
<1>15. Restartable(st, g, bs, rw)
  BY <1>6, <1>9, <1>10, <1>11, <1>12, <1>13, <1>14 DEF Restartable
<1>16. QED
  BY <1>5, <1>15

LEMMA CrashInstallingRecovers ==
  ASSUME Faultless, Inv, RecoverInv, CrashInstalling
  PROVE  BytesInv' /\ NameInv' /\ RecoverInv'
<1>1. PICK bs : bs = [NewManifest EXCEPT !.ver = base.ver + 1]
  OBVIOUS
<1>2. bs.blk = NewBlk /\ bs.del = up.del
  BY <1>1 DEF NewManifest
<1>3. up.pc = "install"
  BY DEF CrashInstalling
<1>4. PICK R \in SUBSET RecordedSlots : CacheInit(staged, gc, bs, pending, Published(R), cur)
  BY <1>1 DEF CrashInstalling
<1>5. PICK st0, g0, pd, rw, st, g :
         /\ st0 = staged /\ g0 = gc /\ pd = pending /\ rw = Published(R)
         /\ st = StagedAfter(staged, up.max) /\ g = StagedAfter(gc, up.max)
  OBVIOUS
<1>6. pd = [blk |-> NewBlk, del |-> up.del, max |-> up.max] /\ pd # None
  <2>1. pending = [blk |-> NewBlk, del |-> up.del, max |-> up.max]
    BY <1>3 DEF Inv, NameInv, PendingOK, Announced
  <2>2. pending \in PendingRow
    <3>1. NewBlk \in Blocks
      BY Kinds, TableKinds DEF Inv, NewBlk, Blocks
    <3>2. QED
      BY <2>1, <3>1, Kinds DEF Inv, UploadType, PendingRow
  <2>3. QED
    BY <1>5, <2>1, <2>2, ConstantsAssumption
<1>7. PendingMatches(pd, bs) /\ pd.max = up.max
  BY <1>2, <1>6 DEF PendingMatches
<1>8. st = Unretired(st0, bs, pd) /\ g = Unretired(g0, bs, pd)
  BY <1>5, <1>7 DEF Unretired
<1>9. CacheInit(st0, g0, bs, pd, rw, cur)
  BY <1>4, <1>5
<1>10. Restartable(st, g, bs, rw)
  BY <1>2, <1>3, <1>5, InstallingRestartable
<1>11. QED
  BY <1>7, <1>8, <1>9, <1>10, RestartInv

-----------------------------------------------------------------------------
(* The invariant holds initially and is kept by every step.                *)

LEMMA InitRecovers ==
  ASSUME Faultless, Init
  PROVE  NameInv /\ RecoverInv
<1>1. /\ slot = [s \in Slots |-> FreeEntry] /\ cl = [c \in Clients |-> IdleClient]
      /\ row = [s \in Slots |-> NoRow] /\ local = base.blk /\ base.del = {} /\ alloc = {}
      /\ staged = {} /\ gc = {} /\ pending = None /\ up = IdleUpload
  BY DEF Init
<1>2. \A s \in Slots : /\ slot[s].name = None /\ ~slot[s].valid /\ ~slot[s].dirty
                       /\ row[s].addr = None
  BY <1>1 DEF FreeEntry, NoRow
<1>3. (\A c \in Clients : cl[c].batch = {}) /\ up.pc = "idle"
  BY <1>1, IdleFields DEF IdleUpload
<1>4. \A a \in Addr : Names(a) = {local[a]}
  BY <1>1 DEF Names
<1>5. NamesFresh
  BY InitBytes DEF BytesInv
<1>6. Coherent
  BY <1>4, <1>5 DEF Coherent, NamesFresh
<1>7. \A s \in Slots : EntryNames(s) /\ RowOK(s)
  BY <1>2 DEF EntryNames, RowOK, SameId
<1>8. PendingOK /\ DeleteOK
  BY <1>1, <1>3 DEF PendingOK, DeleteOK, Announced, Publishing
<1>9. ASSUME NEW a \in Addr PROVE BackupOK(a)
  <2>1. DirtyAt(a) = {}
    BY <1>2 DEF DirtyAt
  <2>2. BackupOf(staged, gc, base, a) = base.blk[a]
    BY <1>1, BackupNone DEF Replayed
  <2>3. QED
    BY <1>1, <2>1, <2>2 DEF BackupOK, Backup
<1>10. RecoverInv
  BY <1>1, <1>3, <1>9 DEF RecoverInv, Announced
<1>11. QED
  BY <1>6, <1>7, <1>8, <1>10 DEF NameInv

LEMMA IORecovers ==
  ASSUME Faultless, Inv, NEW c \in Clients, IOStep(c)
  PROVE  NameInv' /\ (RecoverInv => RecoverInv')
<1>1. ~ClearBlockFails(c) /\ ~FailIO(c)
  BY DEF Faultless, ClearBlockFails, FailIO
<1>2. QED
  BY <1>1, MoveRecovers, CacheMissRecovers, FetchBlockRecovers, MakeBlockWritableRecovers,
     WriteBytesRecovers, FinishIORecovers DEF IOStep

LEMMA StageRecovers ==
  ASSUME Faultless, Inv, NEW c \in Clients, StageStep(c)
  PROVE  NameInv' /\ (RecoverInv => RecoverInv')
  BY MoveRecovers, StageSelectRecovers, StagePersistRecovers DEF StageStep

LEMMA UploadRecovers ==
  ASSUME Faultless, Inv, UploadStep \/ \E D \in SUBSET Dbs : UploadBegin(D)
  PROVE  NameInv' /\ (RecoverInv => RecoverInv')
  BY UploadEndsRecovers, UploadSnapshotRecovers, UploadBlocksRecover, UploadPendingRecovers,
     UploadManifestRecovers, UploadInstallRecovers DEF UploadStep

LEMMA StutterRecovers ==
  ASSUME Inv, UNCHANGED vars
  PROVE  NameInv' /\ (RecoverInv => RecoverInv')
<1>1. UNCHANGED <<slot, data, row, local, alloc, base, staged, gc, pending, gen, eState, up, cur, cl>>
  BY DEF vars, durable
<1>2. QED
  BY <1>1, ThreadStep DEF Writer

(* A restart needs the durable tables to be complete, which truncations    *)
(* alone may break.                                                        *)
Recoverable == "truncate" \in Calls \/ RecoverInv

LEMMA NextRecovers ==
  ASSUME Undisturbed, Inv, Recoverable, [Next]_vars
  PROVE  BytesInv' /\ NameInv' /\ Recoverable'
<1>1. Faultless /\ ~PollBegin /\ StoredInv /\ ContentInv /\ BytesInv
  BY DEF Undisturbed, PollBegin, Inv
<1>2. CASE Crash \/ CrashInstalling
  <2>1. RecoverInv
    BY <1>2 DEF Undisturbed, Crash, CrashInstalling, Recoverable
  <2>2. QED
    BY <1>1, <1>2, <2>1, CrashRecovers, CrashInstallingRecovers DEF Recoverable
<1>3. CASE Revert
  BY <1>3, RevertBytesInv, RevertRecovers DEF Recoverable
<1>4. CASE ~Crash /\ ~CrashInstalling /\ ~Revert
  <2>1. BytesInv'
    BY <1>1, <1>4, NextBytes
  <2>2. CASE UNCHANGED vars
    BY <2>1, <2>2, StutterRecovers DEF Recoverable
  <2>3. CASE \E c \in Clients : \E a \in Addr : Read(c, a) \/ \E v \in Contents : Write(c, a, v)
    BY <2>1, <2>3, CallRecovers DEF Recoverable
  <2>4. CASE \E c \in Clients : \E d \in Dbs : \E n \in Pos : Truncate(c, d, n)
    <3>1. NameInv'
      BY <1>1, <2>4, TruncateRecovers
    <3>2. QED
      BY <2>1, <2>4, <3>1 DEF Truncate, Recoverable
  <2>5. CASE \E c \in Clients : IOStep(c) \/ StageStep(c)
    BY <1>1, <2>1, <2>5, IORecovers, StageRecovers DEF Recoverable
  <2>6. CASE UploadStep \/ \E D \in SUBSET Dbs : UploadBegin(D)
    BY <1>1, <2>1, <2>6, UploadRecovers DEF Recoverable
  <2>7. CASE \E a \in Addr : \E v \in Contents : RemotePublish(a, v)
    BY <2>1, <2>7, RemotePublishRecovers DEF Recoverable
  <2>8. ~PollStep /\ ~CrashReconciling
    BY <1>1 DEF BytesInv, PollStep, PendingTryInstall, PendingInstallFails, ManifestUpdate, PollFail,
                CrashReconciling
  <2>9. QED
    BY <1>1, <1>4, <2>2, <2>3, <2>4, <2>5, <2>6, <2>7, <2>8 DEF Next
<1>5. QED
  BY <1>2, <1>3, <1>4

LEMMA Always == ASSUME Undisturbed PROVE Spec => [](Inv /\ Recoverable)
<1>1. Faultless /\ ContentNames
  BY DEF Undisturbed, Faultless
<1>2. Spec => []ContentInv
  BY <1>1, ContentAlways
<1>3. Init => BytesInv /\ NameInv /\ Recoverable
  BY <1>1, InitBytes, InitRecovers DEF Recoverable
<1>4. StoredInv /\ ContentInv /\ BytesInv /\ NameInv /\ Recoverable /\ [Next]_vars =>
        BytesInv' /\ NameInv' /\ Recoverable'
  BY NextRecovers DEF Inv
<1>5. Spec => [](BytesInv /\ NameInv /\ Recoverable)
  BY <1>2, <1>3, <1>4, StoredInvariant, PTL DEF Spec
<1>6. StoredInv /\ ContentInv /\ BytesInv /\ NameInv => Inv
  BY DEF Inv
<1>7. QED
  BY <1>2, <1>5, <1>6, StoredInvariant, PTL

-----------------------------------------------------------------------------
(* Read-your-writes.  The entry, the staged row or the published object    *)
(* that bcvfsFindBlockForIO would use for a block holds its acknowledged   *)
(* bytes, whatever was evicted, staged, copied, truncated, uploaded,       *)
(* reverted or recovered meanwhile by any number of threads.               *)
THEOREM ReadYourWrites == ASSUME Undisturbed PROVE Spec => []CurrentBytes
<1>1. Inv => CurrentBytes
  BY BytesCurrent DEF Inv
<1>2. QED
  BY <1>1, Always, PTL

(* A bcvfsRead that works without the mutex returns bytes that the block   *)
(* held at some time during the call.                                      *)
THEOREM ReadsCurrent == ASSUME Undisturbed PROVE Spec => []ReadReturnsCurrent
<1>1. Inv => ReadReturnsCurrent
  BY ReadCurrent DEF Inv
<1>2. QED
  BY <1>1, Always, PTL

(* The manifest of bcvfsUpload reads as the acknowledged bytes of every    *)
(* block, staged before or during the upload or not, also after restarts.  *)
THEOREM PublicationCurrent == ASSUME Undisturbed PROVE Spec => PublishesCurrent
<1>1. Inv /\ [Next]_vars =>
        [rman' # rman /\ up.pc = "manifest" /\ gen' = gen =>
           \A a \in Addr :
              PublishedContent(a)' \in
                 IF a[1] \notin up.dbs THEN {PublishedContent(a)}
                 ELSE IF cur[a] = {} THEN {None} ELSE cur[a]]_vars
  <2>1. SUFFICES ASSUME Inv, [Next]_vars, rman' # rman, gen' = gen, NEW a \in Addr
                 PROVE  PublishedContent(a)' \in
                           IF a[1] \notin up.dbs THEN {PublishedContent(a)}
                           ELSE IF cur[a] = {} THEN {None} ELSE cur[a]
    OBVIOUS
  <2>2. ContentNames /\ StoredInv /\ ContentInv /\ BytesInv /\ UploadManifest
    BY <2>1, ManifestChanges DEF Undisturbed, Faultless, Inv
  <2>3. QED
    BY <2>1, <2>2, ManifestCurrent
<1>2. QED
  BY <1>1, Always, PTL DEF Spec, PublishesCurrent

(* The delete list of the installed manifest, which                        *)
(* bcvfsUploadDeleteBlockIf and the retirement of staged rows extend, never*)
(* names a block that the manifest or a current generation needs, so that a*)
(* cleanup may act on it.                                                  *)
THEOREM DeletesSafe == ASSUME Undisturbed PROVE Spec => []DeleteListSafe
<1>1. ASSUME Inv PROVE DeleteListSafe
  <2>1. \A e \in base.del : e[1] # None
    BY <1>1, TableKinds, NoneNot DEF Inv
  <2>2. \A e \in base.del : \A a \in Addr : ~SameId(e[1], local[a]) /\ ~SameId(e[1], base.blk[a])
    BY <1>1 DEF Inv, NameInv, DeleteOK
  <2>3. QED
    BY <2>1, <2>2, SelfId DEF DeleteListSafe
<1>2. QED
  BY <1>1, Always, PTL

(* Crash safety.  At every instant, inside uploads, copies, stagings and   *)
(* evictions too and after any number of restarts, bcvfsCacheInit would    *)
(* give back the acknowledged bytes of every block that is not being       *)
(* written.                                                                *)
THEOREM CrashSafe ==
  ASSUME Undisturbed, "truncate" \notin Calls
  PROVE  Spec => []DurablyRecoverable
<1>1. ASSUME Inv, RecoverInv PROVE DurablyRecoverable
  <2>1. ~PendingMatches(pending, base) /\ Restartable(staged, gc, base, row)
    BY <1>1, TablesRestartable
  <2>2. StoredInv /\ ContentInv /\ BytesInv
    BY <1>1 DEF Inv
  <2>3. Unretired(staged, base, pending) = staged /\ Unretired(gc, base, pending) = gc
    BY <2>1 DEF Unretired
  <2>4. ASSUME NEW a \in Addr, Settled(a) PROVE RecoveredContent(a, staged, gc, base, row) \in cur[a]
    <3>1. cur[a] # {} /\ InFlight(a) = {}
      BY <2>4 DEF Settled
    <3>2. CASE \E s \in Slots : row[s].addr = a
      <4>1. PICK s \in Slots : row[s].addr = a
        BY <3>2
      <4>2. row[s].addr # None /\ slot[s].dirty /\ slot[s].valid /\ slot[s].addr = a
        BY <2>1, <4>1, NoneNot DEF Restartable
      <4>3. data[s] \in cur[a]
        BY <2>2, <3>1, <4>2, DirtyRecovers
      <4>4. QED
        BY <2>1, <2>2, <4>1, <4>2, <4>3, RecoveredOne
    <3>3. CASE \A s \in Slots : row[s].addr # a
      <4>1. PICK n : n = BackupOf(staged, gc, base, a)
        OBVIOUS
      <4>2. HasBytes(n, cur[a])
        BY <2>1, <3>3, <4>1 DEF Restartable
      <4>3. n # None /\ n.md5 \in cur[a]
        BY <3>1, <4>2 DEF HasBytes
      <4>4. RecoveredContent(a, staged, gc, base, row) = ContentOf(n)
        BY <3>3, <4>1, RecoveredBackup
      <4>5. ContentOf(n) = n.md5
        BY <2>1, <2>2, <4>1, <4>3, BackupStored
      <4>6. QED
        BY <4>3, <4>4, <4>5
    <3>4. QED
      BY <3>2, <3>3
  <2>5. QED
    BY <2>3, <2>4 DEF DurablyRecoverable
<1>2. Inv /\ Recoverable => DurablyRecoverable
  BY <1>1 DEF Recoverable
<1>3. QED
  BY <1>2, Always, PTL
=============================================================================
