---------------------- MODULE SessionPublicationProofs ----------------------
(***************************************************************************)
(* Proofs about SessionPublication, for any number of processes, sessions, *)
(* operations, attachments and faults.  TypeInv and BaseInv hold without   *)
(* further assumptions.  The properties of the heads and the refinement of *)
(* OperationLog are proved for callers that ask for the status first, the  *)
(* recoverability of a pending publication when no ordinary upload         *)
(* interferes, and both while no record expires.                           *)
(***************************************************************************)
EXTENDS SessionPublication, TLAPS

-----------------------------------------------------------------------------
(* The local variables of a process after a step.                          *)

SameAttachment(r, n) ==
  n.sess = r.sess /\ n.op = r.op /\ n.att = r.att /\ n.exp = r.exp
SameOverlay(r, n) ==
  n.root = r.root /\ n.base = r.base /\ n.content = r.content /\ n.seq = r.seq

Others(p) == \A x \in Procs : x # p => at'[x] = at[x]
Stepped(p) == at' \in [Procs -> Local] /\ Others(p)

(* How the local variables r of a process become n.                        *)
Moved(r, n, pc) ==
  /\ n.pc = pc /\ SameAttachment(r, n) /\ SameOverlay(r, n)
  /\ n.cp = r.cp /\ n.h = r.h /\ n.q = r.q /\ n.g = r.g
MovedWithHead(r, n, pc, h) ==
  /\ n.pc = pc /\ SameAttachment(r, n) /\ SameOverlay(r, n)
  /\ n.cp = r.cp /\ n.h = h /\ n.q = r.q /\ n.g = r.g
MovedWithPub(r, n, pc, q) ==
  /\ n.pc = pc /\ SameAttachment(r, n) /\ SameOverlay(r, n)
  /\ n.cp = r.cp /\ n.h = r.h /\ n.q = q /\ n.g = r.g
Returned(r, n) ==
  /\ n.pc = "attached" /\ SameAttachment(r, n) /\ SameOverlay(r, n)
  /\ n.cp = None /\ n.h = None /\ n.q = None /\ n.g = None
Checkpointed(r, n, pc) ==
  /\ n.pc = pc /\ SameAttachment(r, n) /\ n.root = r.root /\ n.base = r.base
  /\ n.content = r.content \cup {<<r.op, r.att>>} /\ n.seq = r.seq + 1
  /\ n.h = r.h /\ n.q = r.q /\ n.g = r.g
  /\ n.cp \in Checkpoint /\ n.cp.att = r.att /\ n.cp.op = r.op /\ n.cp.seq = n.seq
  /\ n.cp.base = n.base /\ n.cp.content = n.content
Installed(r, n, base, content, seq, root) ==
  /\ n.pc = "attached" /\ SameAttachment(r, n)
  /\ n.base = base /\ n.content = content /\ n.seq = seq /\ n.root = root
  /\ n.h = None /\ n.cp = r.cp /\ n.q = r.q /\ n.g = r.g
Bound(n, s, o, k, h) ==
  /\ n.pc = "rehydrateHead" /\ n.sess = s /\ n.op = o /\ n.att = k /\ n.exp = h
  /\ n.base = {} /\ n.content = {} /\ n.root = None
  /\ n.cp = None /\ n.h = None /\ n.q = None /\ n.g = None
Branched(r, n, q) ==
  \/ MovedWithPub(r, n, "fencePut", q) /\ q = None
  \/ MovedWithPub(r, n, "visible", q) /\ Matches(q, "committed", r.h.cp)
  \/ MovedWithPub(r, n, "manifest", q) /\ Matches(q, "publishing", r.h.cp)
  \/ MovedWithPub(r, n, "fenceBase", q) /\ q # None /\ q.state = "committed"
  \/ MovedWithPub(r, n, "recoverCandidate", q) /\ q # None /\ q.state = "publishing"
Left(n) ==
  /\ n.pc = "idle" /\ n.base = {} /\ n.content = {} /\ n.root = None /\ n.exp = None
  /\ n.cp = None /\ n.h = None /\ n.q = None /\ n.g = None

LEMMA LocalFields ==
  ASSUME NEW r \in Local
  PROVE  /\ r.sess \in Sessions \cup {None} /\ r.op \in Ops \cup {None} /\ r.att \in Nat
         /\ r.exp \in Head \cup {None} /\ r.root \in Checkpoint \cup {None}
         /\ r.base \in Content /\ r.content \in Content /\ r.seq \in Nat
         /\ r.cp \in Checkpoint \cup {None} /\ r.h \in Head \cup {None}
         /\ r.q \in Publication \cup {None} /\ r.g \in Head \cup {None}
  BY DEF Local

LEMMA Update ==
  ASSUME TypeOK, NEW p \in Procs, NEW n \in Local, at' = [at EXCEPT ![p] = n]
  PROVE  Stepped(p) /\ at'[p] = n
  BY DEF TypeOK, Stepped, Others

LEMMA GotoLocal ==
  ASSUME TypeOK, NEW p \in Procs, NEW pc \in Pcs, Goto(p, pc)
  PROVE  Stepped(p) /\ Moved(at[p], at'[p], pc)
<1> DEFINE n == [at[p] EXCEPT !.pc = pc]
<1>0. at[p] \in Local
  BY DEF TypeOK
<1>1. n \in Local /\ Moved(at[p], n, pc)
  BY <1>0 DEF Local, Moved, SameAttachment, SameOverlay
<1>2. at' = [at EXCEPT ![p] = n]
  BY DEF Goto, TypeOK
<1> HIDE DEF n
<1>3. QED
  BY <1>1, <1>2, Update

LEMMA HeadLocal ==
  ASSUME TypeOK, NEW p \in Procs, NEW pc \in Pcs, NEW h \in Head \cup {None},
         GotoWithHead(p, pc, h)
  PROVE  Stepped(p) /\ MovedWithHead(at[p], at'[p], pc, h)
<1> DEFINE n == [at[p] EXCEPT !.pc = pc, !.h = h]
<1>0. at[p] \in Local
  BY DEF TypeOK
<1>1. n \in Local /\ MovedWithHead(at[p], n, pc, h)
  BY <1>0 DEF Local, MovedWithHead, SameAttachment, SameOverlay
<1>2. at' = [at EXCEPT ![p] = n]
  BY DEF GotoWithHead, TypeOK
<1> HIDE DEF n
<1>3. QED
  BY <1>1, <1>2, Update

LEMMA PubLocal ==
  ASSUME TypeOK, NEW p \in Procs, NEW pc \in Pcs, NEW q \in Publication \cup {None},
         GotoWithPub(p, pc, q)
  PROVE  Stepped(p) /\ MovedWithPub(at[p], at'[p], pc, q)
<1> DEFINE n == [at[p] EXCEPT !.pc = pc, !.q = q]
<1>0. at[p] \in Local
  BY DEF TypeOK
<1>1. n \in Local /\ MovedWithPub(at[p], n, pc, q)
  BY <1>0 DEF Local, MovedWithPub, SameAttachment, SameOverlay
<1>2. at' = [at EXCEPT ![p] = n]
  BY DEF GotoWithPub, TypeOK
<1> HIDE DEF n
<1>3. QED
  BY <1>1, <1>2, Update

LEMMA ReturnLocal ==
  ASSUME TypeOK, NEW p \in Procs, Return(p)
  PROVE  Stepped(p) /\ Returned(at[p], at'[p])
<1> DEFINE n == [at[p] EXCEPT !.pc = "attached", !.cp = None, !.h = None, !.q = None, !.g = None]
<1>0. at[p] \in Local /\ "attached" \in Pcs
  BY DEF TypeOK, Pcs
<1>1. n \in Local /\ Returned(at[p], n)
  BY <1>0 DEF Local, Returned, SameAttachment, SameOverlay
<1>2. at' = [at EXCEPT ![p] = n]
  BY DEF Return, TypeOK
<1> HIDE DEF n
<1>3. QED
  BY <1>1, <1>2, Update

LEMMA LeaveLocal ==
  ASSUME TypeOK, NEW p \in Procs, Leave(p)
  PROVE  Stepped(p) /\ Left(at'[p])
<1>1. Detached \in Local /\ Left(Detached)
  BY DEF Detached, Local, Content, Pcs, Left
<1>2. QED
  BY <1>1, Update DEF Leave

LEMMA GLocal ==
  ASSUME TypeOK, NEW p \in Procs, NEW g \in Head, at' = [at EXCEPT ![p].pc = "finalPut", ![p].g = g]
  PROVE  /\ Stepped(p) /\ at'[p].pc = "finalPut"
         /\ SameAttachment(at[p], at'[p]) /\ SameOverlay(at[p], at'[p])
         /\ at'[p].cp = at[p].cp /\ at'[p].h = at[p].h /\ at'[p].q = at[p].q /\ at'[p].g = g
<1> DEFINE n == [at[p] EXCEPT !.pc = "finalPut", !.g = g]
<1>0. at[p] \in Local /\ "finalPut" \in Pcs
  BY DEF TypeOK, Pcs, Fenced, Completing
<1>1. /\ n \in Local /\ n.pc = "finalPut" /\ SameAttachment(at[p], n) /\ SameOverlay(at[p], n)
      /\ n.cp = at[p].cp /\ n.h = at[p].h /\ n.q = at[p].q /\ n.g = g
  BY <1>0 DEF Local, SameAttachment, SameOverlay
<1>2. at' = [at EXCEPT ![p] = n]
  BY DEF TypeOK
<1> HIDE DEF n
<1>3. QED
  BY <1>1, <1>2, Update

LEMMA PcsIn ==
  /\ {"idle", "rehydrateHead", "rehydrateBase", "attached", "checkpoint", "finalize",
      "finalizeCheckpoint", "publish", "publishCandidate", "claimHead", "claimAgain",
      "accept", "acceptBase", "acceptPut", "acceptAgain", "finalizeCandidate", "finalizePut",
      "finalizeAgain", "fence", "fenceBase", "fencePut", "fenceAgain", "visible"} \subseteq Pcs
  /\ {"recoverCandidate", "recoverRead", "recoverPut", "recoverAgain", "recoverCommit",
      "recoverCommitAgain", "manifest", "putManifest", "putManifestAgain", "confirm",
      "commitPub", "commitPubAgain", "finalRead", "finalPut", "finalAgain"} \subseteq Pcs
  BY DEF Pcs, Accepting, Finalizing, Claiming, Fenced, Recovering, Storing, Completing

LEMMA RecordFields ==
  /\ \A x \in Checkpoint : /\ x.att \in Nat /\ x.op \in Ops /\ x.seq \in Nat
                           /\ x.base \in Content /\ x.content \in Content
  /\ \A h \in Head : /\ h.op \in Ops /\ h.seq \in Nat /\ h.cp \in Checkpoint
                     /\ h.hist \in SUBSET Ops
                     /\ h.state \in {"accepted", "publishing", "committed", "expired"}
  /\ \A q \in Publication : /\ q.op \in Ops /\ q.seq \in Nat /\ q.cp \in Checkpoint
                            /\ q.stamp \in Nat /\ q.state \in {"publishing", "committed"}
  BY DEF Checkpoint, Head, Publication

LEMMA NoneNot == None \notin Head /\ None \notin Publication /\ None \notin Checkpoint
                 /\ None \notin Sessions /\ None \notin Ops
  BY SessionAssumption

LEMMA OpsIn == \A s \in Sessions : \A o \in OpsOf[s] : o \in Ops
  BY DEF Ops

LEMMA CheckpointLocal ==
  ASSUME TypeOK, NEW p \in Procs, NEW pc \in Pcs, at[p].op \in Ops, TakeCheckpoint(p, pc)
  PROVE  Stepped(p) /\ Checkpointed(at[p], at'[p], pc)
<1> DEFINE content == at[p].content \cup {<<at[p].op, at[p].att>>}
<1>0. /\ at[p] \in Local /\ at[p].att \in Nat /\ at[p].content \in Content /\ at[p].base \in Content
      /\ at[p].seq \in Nat
  BY LocalFields DEF TypeOK
<1>1. PICK k \in Nat : k = at[p].seq + 1
  BY <1>0
<1>2. PICK c \in Content : c = content
  <2>1. <<at[p].op, at[p].att>> \in Entry
    BY <1>0 DEF Entry
  <2>2. content \in Content
    BY <1>0, <2>1 DEF Content
  <2>3. QED
    BY <2>2
<1> DEFINE cp == [att |-> at[p].att, op |-> at[p].op, seq |-> k, base |-> at[p].base, content |-> c]
<1>3. /\ cp \in Checkpoint /\ cp.att = at[p].att /\ cp.op = at[p].op /\ cp.seq = k
      /\ cp.base = at[p].base /\ cp.content = c
  BY <1>0 DEF Checkpoint
<1>4. at' = [at EXCEPT ![p].pc = pc, ![p].cp = cp, ![p].seq = cp.seq, ![p].content = content]
  BY <1>1, <1>2 DEF TakeCheckpoint
<1> HIDE DEF cp, content
<1> DEFINE n == [at[p] EXCEPT !.pc = pc, !.cp = cp, !.seq = k, !.content = c]
<1>5. at' = [at EXCEPT ![p] = n]
  BY <1>2, <1>3, <1>4 DEF TypeOK
<1>6. /\ n \in Local /\ n.pc = pc /\ SameAttachment(at[p], n)
      /\ n.root = at[p].root /\ n.base = at[p].base /\ n.content = c /\ n.seq = k
      /\ n.h = at[p].h /\ n.q = at[p].q /\ n.g = at[p].g /\ n.cp = cp
  BY <1>0, <1>3 DEF Local, SameAttachment
<1> HIDE DEF n
<1>7. Checkpointed(at[p], n, pc)
  BY <1>1, <1>2, <1>3, <1>6 DEF Checkpointed, content
<1>8. QED
  BY <1>5, <1>6, <1>7, Update

(* What an attachment has after it was rehydrated.                         *)
Install(p, base, content, seq, root) ==
  at' = [at EXCEPT ![p].pc = "attached", ![p].h = None, ![p].base = base,
                   ![p].content = content, ![p].seq = seq, ![p].root = root]

LEMMA InstallLocal ==
  ASSUME TypeOK, NEW p \in Procs, NEW base \in Content, NEW content \in Content,
         NEW seq \in Nat, NEW root \in Checkpoint \cup {None},
         Install(p, base, content, seq, root)
  PROVE  Stepped(p) /\ Installed(at[p], at'[p], base, content, seq, root)
<1> DEFINE n == [at[p] EXCEPT !.pc = "attached", !.h = None, !.base = base,
                              !.content = content, !.seq = seq, !.root = root]
<1>0. at[p] \in Local /\ "attached" \in Pcs
  BY PcsIn DEF TypeOK
<1>1. n \in Local /\ Installed(at[p], n, base, content, seq, root)
  BY <1>0 DEF Local, Installed, SameAttachment
<1>2. at' = [at EXCEPT ![p] = n]
  BY DEF TypeOK, Install
<1> HIDE DEF n
<1>3. QED
  BY <1>1, <1>2, Update

LEMMA AttachLocal ==
  ASSUME TypeOK, NEW p \in Procs, NEW s \in Sessions, NEW o \in OpsOf[s], Attach(p, s, o)
  PROVE  Stepped(p) /\ Bound(at'[p], s, o, natt + 1, head[s])
<1>0. head[s] \in Head \cup {None} /\ natt \in Nat /\ o \in Ops /\ "rehydrateHead" \in Pcs
  BY PcsIn, OpsIn, SessionAssumption DEF TypeOK
<1>1. PICK k \in Nat : k = natt + 1
  BY <1>0
<1> DEFINE n == [Detached EXCEPT !.pc = "rehydrateHead", !.sess = s, !.op = o,
                                 !.att = k, !.exp = head[s]]
<1>2. n \in Local /\ Bound(n, s, o, k, head[s])
  BY <1>0 DEF Local, Detached, Content, Bound
<1>3. at' = [at EXCEPT ![p] = n]
  BY <1>1 DEF Attach
<1> HIDE DEF n
<1>4. QED
  BY <1>1, <1>2, <1>3, Update

(* The records that are written.                                           *)
LEMMA AcceptedRecord ==
  ASSUME NEW o \in Ops, NEW cp \in Checkpoint, NEW hist \in SUBSET Ops
  PROVE  LET r == [state |-> "accepted", op |-> o, seq |-> cp.seq, cp |-> cp, hist |-> hist]
         IN  /\ r \in Head /\ r.state = "accepted" /\ r.op = o /\ r.seq = cp.seq
             /\ r.cp = cp /\ r.hist = hist
  BY DEF Head, Checkpoint

LEMMA FinalizedRecord ==
  ASSUME TypeOK, NEW p \in Procs, at[p].op \in Ops, at[p].cp # None
  PROVE  LET r == FinalizedHead(p)
         IN  /\ r \in Head /\ r.state = "publishing" /\ r.op = at[p].op
             /\ r.seq = at[p].cp.seq /\ r.cp = at[p].cp
<1>1. at[p].cp \in Checkpoint /\ at[p].h \in Head \cup {None}
  BY LocalFields DEF TypeOK
<1>2. PICK hist \in SUBSET Ops : hist = IF at[p].h = None THEN {} ELSE at[p].h.hist
  BY <1>1, RecordFields
<1>3. FinalizedHead(p) = [state |-> "publishing", op |-> at[p].op, seq |-> at[p].cp.seq,
                          cp |-> at[p].cp, hist |-> hist]
  BY <1>2 DEF FinalizedHead
<1>4. QED
  BY <1>1, <1>3, RecordFields DEF Head

LEMMA ClaimedRecord ==
  ASSUME TypeOK, NEW p \in Procs, at[p].h # None
  PROVE  LET r == ClaimedHead(p)
         IN  /\ r \in Head /\ r.state = "publishing" /\ r.op = at[p].h.op
             /\ r.seq = at[p].h.seq /\ r.cp = at[p].h.cp /\ r.hist = at[p].h.hist
<1>1. at[p].h \in Head
  BY LocalFields DEF TypeOK
<1>2. QED
  BY <1>1 DEF ClaimedHead, Head

LEMMA FinalRecord ==
  ASSUME TypeOK, NEW p \in Procs, at[p].h # None, at[p].g # None
  PROVE  LET r == FinalHead(p)
         IN  /\ r \in Head /\ r.state = "committed" /\ r.op = at[p].g.op
             /\ r.seq = at[p].g.seq /\ r.cp = at[p].h.cp /\ r.hist = at[p].g.hist
<1>1. at[p].g \in Head /\ at[p].h \in Head /\ at[p].h.cp \in Checkpoint
  BY LocalFields, RecordFields DEF TypeOK
<1>2. QED
  BY <1>1 DEF FinalHead, Head

LEMMA PendingRecord ==
  ASSUME TypeOK, NEW p \in Procs, at[p].h # None
  PROVE  LET r == PendingPub(p)
         IN  /\ r \in Publication /\ r.state = "publishing" /\ r.cp = at[p].h.cp
             /\ r.seq \in Nat /\ (at[p].q # None => r.seq = at[p].q.seq + 1)
<1>1. /\ at[p].h \in Head /\ at[p].h.cp \in Checkpoint /\ at[p].h.op \in Ops
      /\ at[p].h.seq \in Nat /\ at[p].att \in Nat
      /\ at[p].q # None => at[p].q.seq \in Nat
  BY LocalFields, RecordFields DEF TypeOK
<1>2. PICK k \in Nat : k = IF at[p].q = None THEN at[p].h.seq ELSE at[p].q.seq + 1
  BY <1>1
<1>3. PendingPub(p) = [state |-> "publishing", op |-> at[p].h.op, cp |-> at[p].h.cp,
                       seq |-> k, stamp |-> at[p].att]
  BY <1>2 DEF PendingPub
<1>4. QED
  BY <1>1, <1>2, <1>3 DEF Publication

LEMMA CommittedRecord ==
  ASSUME NEW q \in Publication
  PROVE  LET r == CommittedPub(q)
         IN  r \in Publication /\ r.state = "committed" /\ r.cp = q.cp /\ r.seq = q.seq + 1
<1>1. q.seq \in Nat
  BY RecordFields
<1>2. PICK k \in Nat : k = q.seq + 1
  BY <1>1
<1>3. CommittedPub(q) = [q EXCEPT !.state = "committed", !.seq = k]
  BY <1>2 DEF CommittedPub, Publication
<1>4. QED
  BY <1>2, <1>3 DEF Publication

-----------------------------------------------------------------------------
(* The outcomes of the conditional PUTs and of the decision at the fence.  *)

AcceptedHead(p) ==
  [state |-> "accepted", op |-> at[p].op, seq |-> at[p].cp.seq, cp |-> at[p].cp,
   hist |-> (IF at[p].h = None THEN {} ELSE at[p].h.hist) \cup {at[p].op}]

Counted == faults' \in 0..MaxFaults

HeadWritten(p, old, new) == HeadOf(p) = old /\ head' = [head EXCEPT ![Sess(p)] = new]
HeadFrame ==
  UNCHANGED <<manifest, pub, cands, natt, nforeign>> /\ expired' \subseteq expired /\ Counted

PubWritten(old, new) == pub = old /\ pub' = new
PubFrame ==
  UNCHANGED <<manifest, head, cands, natt, nforeign, acked>> /\ expired' \subseteq expired /\ Counted

ManifestWritten(old, new) == manifest = old /\ manifest' = new
ManifestFrame == UNCHANGED <<head, pub, cands, expired, natt, nforeign, acked>> /\ Counted

LEMMA FaultCounted == ASSUME TypeOK, Fault \/ UNCHANGED faults PROVE Counted
<1>1. faults \in Nat /\ MaxFaults \in Nat /\ faults <= MaxFaults
  BY SessionAssumption DEF TypeOK
<1>2. QED
  BY <1>1 DEF Fault, CanFault, Counted

LEMMA AcceptPutOutcome ==
  ASSUME TypeOK, NEW p \in Procs, AcceptPut(p)
  PROVE  /\ HeadFrame /\ UNCHANGED acked /\ at[p].pc = "acceptPut"
         /\ HeadWritten(p, at[p].exp, AcceptedHead(p)) \/ UNCHANGED head
         /\ Return(p) \/ Goto(p, "acceptAgain")
<1>1. Counted
  BY FaultCounted DEF AcceptPut, PutHead, CondPut
<1>2. QED
  BY <1>1 DEF AcceptPut, PutHead, CondPut, AcceptedHead, HeadFrame, HeadWritten

LEMMA FinalizePutOutcome ==
  ASSUME TypeOK, NEW p \in Procs, FinalizePut(p)
  PROVE  /\ HeadFrame /\ UNCHANGED acked /\ at[p].pc = "finalizePut"
         /\ \/ HeadWritten(p, at[p].exp, FinalizedHead(p)) /\ Goto(p, "publish")
            \/ /\ HeadWritten(p, at[p].exp, FinalizedHead(p)) \/ UNCHANGED head
               /\ Goto(p, "finalizeAgain")
<1>1. Counted
  BY FaultCounted DEF FinalizePut, PutHead, CondPut
<1>2. QED
  BY <1>1 DEF FinalizePut, PutHead, CondPut, HeadFrame, HeadWritten

LEMMA ClaimHeadOutcome ==
  ASSUME TypeOK, NEW p \in Procs, ClaimHead(p)
  PROVE  /\ HeadFrame /\ UNCHANGED acked /\ at[p].pc = "claimHead"
         /\ \/ HeadWritten(p, at[p].h, ClaimedHead(p)) /\ Goto(p, "fence")
            \/ /\ HeadWritten(p, at[p].h, ClaimedHead(p)) \/ UNCHANGED head
               /\ Goto(p, "claimAgain")
<1>1. Counted
  BY FaultCounted DEF ClaimHead, PutHead, CondPut
<1>2. QED
  BY <1>1 DEF ClaimHead, PutHead, CondPut, HeadFrame, HeadWritten

LEMMA FinalPutOutcome ==
  ASSUME TypeOK, NEW p \in Procs, FinalPut(p)
  PROVE  /\ HeadFrame /\ at[p].pc = "finalPut"
         /\ \/ HeadWritten(p, at[p].g, FinalHead(p)) /\ Succeed(p)
            \/ /\ HeadWritten(p, at[p].g, FinalHead(p)) \/ UNCHANGED head
               /\ Goto(p, "finalAgain") /\ UNCHANGED acked
<1>1. Counted
  BY FaultCounted DEF FinalPut, PutHead, CondPut
<1>2. QED
  BY <1>1 DEF FinalPut, PutHead, CondPut, HeadFrame, HeadWritten

LEMMA FencePutOutcome ==
  ASSUME TypeOK, NEW p \in Procs, FencePut(p)
  PROVE  /\ PubFrame /\ at[p].pc = "fencePut"
         /\ \/ /\ PubWritten(at[p].q, PendingPub(p))
               /\ GotoWithPub(p, "manifest", PendingPub(p))
            \/ /\ PubWritten(at[p].q, PendingPub(p)) \/ UNCHANGED pub
               /\ Goto(p, "fenceAgain")
<1>1. Counted
  BY FaultCounted DEF FencePut, PutPub, CondPut
<1>2. QED
  BY <1>1 DEF FencePut, PutPub, CondPut, PubFrame, PubWritten

LEMMA RecoverCommitOutcome ==
  ASSUME TypeOK, NEW p \in Procs, RecoverCommit(p)
  PROVE  /\ PubFrame /\ at[p].pc = "recoverCommit"
         /\ \/ /\ PubWritten(at[p].q, CommittedPub(at[p].q))
               /\ FenceDecide(p, CommittedPub(at[p].q))
            \/ /\ PubWritten(at[p].q, CommittedPub(at[p].q)) \/ UNCHANGED pub
               /\ Goto(p, "recoverCommitAgain")
<1>1. Counted
  BY FaultCounted DEF RecoverCommit, PutPub, CondPut
<1>2. QED
  BY <1>1 DEF RecoverCommit, PutPub, CondPut, PubFrame, PubWritten

LEMMA CommitPubOutcome ==
  ASSUME TypeOK, NEW p \in Procs, CommitPub(p)
  PROVE  /\ PubFrame /\ at[p].pc = "commitPub"
         /\ PubWritten(at[p].q, CommittedPub(at[p].q)) \/ UNCHANGED pub
         /\ Goto(p, "finalRead") \/ Goto(p, "commitPubAgain")
<1>1. Counted
  BY FaultCounted DEF CommitPub, PutPub, CondPut
<1>2. QED
  BY <1>1 DEF CommitPub, PutPub, CondPut, PubFrame, PubWritten

LEMMA RecoverPutOutcome ==
  ASSUME TypeOK, NEW p \in Procs, RecoverPut(p)
  PROVE  /\ ManifestFrame /\ at[p].pc = "recoverPut"
         /\ \/ ManifestWritten(at[p].q.cp.base, at[p].q.cp.content) /\ Goto(p, "recoverCommit")
            \/ /\ ManifestWritten(at[p].q.cp.base, at[p].q.cp.content) \/ UNCHANGED manifest
               /\ Goto(p, "recoverAgain")
<1>1. Counted
  BY FaultCounted DEF RecoverPut, PutManifest, CondPut
<1>2. QED
  BY <1>1 DEF RecoverPut, PutManifest, CondPut, ManifestFrame, ManifestWritten

LEMMA PublishManifestOutcome ==
  ASSUME TypeOK, NEW p \in Procs, PublishManifest(p)
  PROVE  /\ ManifestFrame /\ at[p].pc = "putManifest"
         /\ \/ ManifestWritten(at[p].h.cp.base, at[p].h.cp.content) /\ Goto(p, "confirm")
            \/ /\ ManifestWritten(at[p].h.cp.base, at[p].h.cp.content) \/ UNCHANGED manifest
               /\ Goto(p, "putManifestAgain")
<1>1. Counted
  BY FaultCounted DEF PublishManifest, PutManifest, CondPut
<1>2. QED
  BY <1>1 DEF PublishManifest, PutManifest, CondPut, ManifestFrame, ManifestWritten

(* The branch taken at the fence, by what the record q says.               *)
LEMMA FenceBranch ==
  ASSUME TypeOK, NEW p \in Procs, at[p].h # None, NEW q \in Publication \cup {None}, FenceDecide(p, q)
  PROVE  Stepped(p) /\ Branched(at[p], at'[p], q)
<1>0. q = None \/ q.state = "publishing" \/ q.state = "committed"
  BY RecordFields
<1>1. PICK pc \in {"fencePut", "visible", "manifest", "fenceBase", "recoverCandidate"} :
        /\ GotoWithPub(p, pc, q)
        /\ pc = IF q = None THEN "fencePut"
                ELSE IF Matches(q, "committed", at[p].h.cp) THEN "visible"
                ELSE IF Matches(q, "publishing", at[p].h.cp) /\ "pub" \notin expired THEN "manifest"
                ELSE IF q.state = "committed" THEN "fenceBase"
                ELSE "recoverCandidate"
  BY DEF FenceDecide
<1>2. pc \in Pcs
  BY PcsIn
<1>3. QED
  BY <1>0, <1>1, <1>2, PubLocal DEF Branched

-----------------------------------------------------------------------------
(* What each action does to the local variables of its process.            *)

LEMMA Typed ==
  ASSUME TypeInv, NEW p \in Procs
  PROVE  /\ TypeOK /\ at[p] \in Local /\ Shape(at[p])
         /\ manifest \in Content /\ pub \in Publication \cup {None}
         /\ at[p].pc # "idle" => /\ at[p].sess \in Sessions /\ at[p].op \in OpsOf[at[p].sess]
                                 /\ at[p].op \in Ops /\ HeadOf(p) \in Head \cup {None}
  BY OpsIn DEF TypeInv, TypeOK, Shape, HeadOf

LEMMA RehydrateHeadEffect ==
  ASSUME TypeInv, NEW p \in Procs, RehydrateHead(p)
  PROVE  /\ Stepped(p) /\ at[p].pc = "rehydrateHead"
         /\ \/ MovedWithHead(at[p], at'[p], "rehydrateBase", HeadOf(p))
            \/ Left(at'[p])
<1>1. TypeOK /\ HeadOf(p) \in Head \cup {None} /\ at[p].pc = "rehydrateHead" /\ "rehydrateBase" \in Pcs
  BY Typed, PcsIn DEF RehydrateHead
<1>2. GotoWithHead(p, "rehydrateBase", HeadOf(p)) \/ Leave(p)
  BY DEF RehydrateHead
<1>3. QED
  BY <1>1, <1>2, HeadLocal, LeaveLocal

LEMMA RehydrateBaseEffect ==
  ASSUME TypeInv, NEW p \in Procs, RehydrateBase(p)
  PROVE  /\ Stepped(p) /\ at[p].pc = "rehydrateBase"
         /\ \/ at[p].h = None /\ Installed(at[p], at'[p], manifest, manifest, 0, None)
            \/ /\ at[p].h # None
               /\ Installed(at[p], at'[p], at[p].h.cp.base, at[p].h.cp.content, at[p].h.seq, at[p].h.cp)
            \/ Left(at'[p])
<1>1. TypeOK /\ at[p].h \in Head \cup {None} /\ at[p].pc = "rehydrateBase" /\ manifest \in Content
  BY Typed, LocalFields DEF RehydrateBase
<1>2. at[p].h # None => /\ at[p].h.cp.base \in Content /\ at[p].h.cp.content \in Content
                        /\ at[p].h.seq \in Nat /\ at[p].h.cp \in Checkpoint
  BY <1>1, RecordFields
<1>3. CASE at[p].h = None
  <2>1. Install(p, manifest, manifest, 0, None)
    BY <1>3 DEF RehydrateBase, Install
  <2>2. QED
    BY <1>1, <1>3, <2>1, InstallLocal
<1>4. CASE at[p].h # None
  <2>1. Install(p, at[p].h.cp.base, at[p].h.cp.content, at[p].h.seq, at[p].h.cp) \/ Leave(p)
    BY <1>4 DEF RehydrateBase, Install
  <2>2. QED
    BY <1>1, <1>2, <1>4, <2>1, InstallLocal, LeaveLocal
<1>5. QED
  BY <1>3, <1>4

LEMMA CallEffects ==
  ASSUME TypeInv, NEW p \in Procs
  PROVE  /\ \A s \in Sessions : \A o \in OpsOf[s] : Attach(p, s, o) =>
               Stepped(p) /\ at[p].pc = "idle" /\ Bound(at'[p], s, o, natt + 1, head[s])
         /\ Detach(p) => Stepped(p) /\ Left(at'[p])
         /\ Fail(p) => Stepped(p) /\ (Left(at'[p]) \/ (InCall(p) /\ ~Attaching(p) /\ Returned(at[p], at'[p])))
         /\ CompleteRequest(p) => /\ Stepped(p) /\ at[p].pc = "attached"
                                  /\ Moved(at[p], at'[p], "checkpoint")
                                  /\ AskStatus => Status(p) = "new"
         /\ Upload(p) => /\ Stepped(p) /\ at[p].pc = "attached"
                         /\ \/ /\ Moved(at[p], at'[p], "finalize")
                               /\ AskStatus => Status(p) = "new"
                            \/ /\ Moved(at[p], at'[p], "publish")
                               /\ AskStatus => Status(p) \in {"accepted", "committed"}
<1>1. TypeOK /\ {"checkpoint", "finalize", "publish"} \subseteq Pcs
  BY Typed, PcsIn
<1>2. ASSUME NEW s \in Sessions, NEW o \in OpsOf[s], Attach(p, s, o)
      PROVE  Stepped(p) /\ at[p].pc = "idle" /\ Bound(at'[p], s, o, natt + 1, head[s])
  BY <1>1, <1>2, AttachLocal DEF Attach
<1>3. ASSUME Detach(p) PROVE Stepped(p) /\ Left(at'[p])
  BY <1>1, <1>3, LeaveLocal DEF Detach
<1>4. ASSUME Fail(p)
      PROVE  Stepped(p) /\ (Left(at'[p]) \/ (InCall(p) /\ ~Attaching(p) /\ Returned(at[p], at'[p])))
  BY <1>1, <1>4, LeaveLocal, ReturnLocal DEF Fail
<1>5. ASSUME CompleteRequest(p)
      PROVE  /\ Stepped(p) /\ at[p].pc = "attached" /\ Moved(at[p], at'[p], "checkpoint")
             /\ AskStatus => Status(p) = "new"
  BY <1>1, <1>5, GotoLocal DEF CompleteRequest
<1>6. ASSUME Upload(p)
      PROVE  /\ Stepped(p) /\ at[p].pc = "attached"
             /\ \/ /\ Moved(at[p], at'[p], "finalize")
                   /\ AskStatus => Status(p) = "new"
                \/ /\ Moved(at[p], at'[p], "publish")
                   /\ AskStatus => Status(p) \in {"accepted", "committed"}
  BY <1>1, <1>6, GotoLocal DEF Upload
<1>7. QED
  BY <1>2, <1>3, <1>4, <1>5, <1>6

LEMMA AcceptEffects ==
  ASSUME TypeInv, NEW p \in Procs
  PROVE  /\ SessionCheckpoint(p) => /\ Stepped(p) /\ at[p].pc = "checkpoint"
                                    /\ Checkpointed(at[p], at'[p], "accept")
         /\ AcceptRead(p) => /\ Stepped(p) /\ at[p].pc = "accept"
                             /\ \/ /\ MovedWithHead(at[p], at'[p], "acceptBase", HeadOf(p))
                                   /\ AcceptFences(p, HeadOf(p))
                                \/ Returned(at[p], at'[p])
         /\ AcceptBase(p) => /\ Stepped(p) /\ at[p].pc = "acceptBase"
                             /\ Moved(at[p], at'[p], "acceptPut") \/ Returned(at[p], at'[p])
         /\ AcceptPut(p) => /\ Stepped(p)
                            /\ Moved(at[p], at'[p], "acceptAgain") \/ Returned(at[p], at'[p])
         /\ AcceptAgain(p) => Stepped(p) /\ at[p].pc = "acceptAgain" /\ Returned(at[p], at'[p])
<1>1. /\ TypeOK /\ {"accept", "acceptBase", "acceptPut", "acceptAgain"} \subseteq Pcs
      /\ at[p].pc # "idle" => at[p].op \in Ops /\ HeadOf(p) \in Head \cup {None}
  BY Typed, PcsIn
<1>2. ASSUME SessionCheckpoint(p)
      PROVE  Stepped(p) /\ at[p].pc = "checkpoint" /\ Checkpointed(at[p], at'[p], "accept")
  BY <1>1, <1>2, CheckpointLocal DEF SessionCheckpoint
<1>3. ASSUME AcceptRead(p)
      PROVE  /\ Stepped(p) /\ at[p].pc = "accept"
             /\ \/ MovedWithHead(at[p], at'[p], "acceptBase", HeadOf(p)) /\ AcceptFences(p, HeadOf(p))
                \/ Returned(at[p], at'[p])
  BY <1>1, <1>3, HeadLocal, ReturnLocal DEF AcceptRead
<1>4. ASSUME AcceptBase(p)
      PROVE  /\ Stepped(p) /\ at[p].pc = "acceptBase"
             /\ Moved(at[p], at'[p], "acceptPut") \/ Returned(at[p], at'[p])
  BY <1>1, <1>4, GotoLocal, ReturnLocal DEF AcceptBase
<1>5. ASSUME AcceptPut(p)
      PROVE  Stepped(p) /\ (Moved(at[p], at'[p], "acceptAgain") \/ Returned(at[p], at'[p]))
  BY <1>1, <1>5, AcceptPutOutcome, GotoLocal, ReturnLocal
<1>6. ASSUME AcceptAgain(p)
      PROVE  Stepped(p) /\ at[p].pc = "acceptAgain" /\ Returned(at[p], at'[p])
  BY <1>1, <1>6, ReturnLocal DEF AcceptAgain
<1>7. QED
  BY <1>2, <1>3, <1>4, <1>5, <1>6

LEMMA FinalizeEffects ==
  ASSUME TypeInv, NEW p \in Procs
  PROVE  /\ FinalizeRead(p) => /\ Stepped(p) /\ at[p].pc = "finalize"
                               /\ \/ /\ MovedWithHead(at[p], at'[p], "finalizeCheckpoint", HeadOf(p))
                                     /\ HeadOf(p) = at[p].exp
                                  \/ /\ Moved(at[p], at'[p], "publish")
                                     /\ HeadOf(p) # None /\ HeadOf(p).op = at[p].op
                                     /\ HeadOf(p) = at[p].exp
                                  \/ Returned(at[p], at'[p])
         /\ FinalizeCheckpoint(p) => /\ Stepped(p) /\ at[p].pc = "finalizeCheckpoint"
                                     /\ Checkpointed(at[p], at'[p], "finalizeCandidate")
         /\ FinalizeCandidate(p) => /\ Stepped(p) /\ at[p].pc = "finalizeCandidate"
                                    /\ Moved(at[p], at'[p], "finalizePut") \/ Returned(at[p], at'[p])
         /\ FinalizePut(p) => /\ Stepped(p)
                              /\ \/ /\ HeadWritten(p, at[p].exp, FinalizedHead(p))
                                    /\ Moved(at[p], at'[p], "publish")
                                 \/ Moved(at[p], at'[p], "finalizeAgain")
         /\ FinalizeAgain(p) => /\ Stepped(p) /\ at[p].pc = "finalizeAgain"
                                /\ \/ /\ Moved(at[p], at'[p], "publish")
                                      /\ HeadOf(p) = FinalizedHead(p)
                                   \/ Returned(at[p], at'[p])
<1>1. /\ TypeOK
      /\ {"finalizeCheckpoint", "publish", "finalizeCandidate", "finalizePut", "finalizeAgain"} \subseteq Pcs
      /\ at[p].pc # "idle" => at[p].op \in Ops /\ HeadOf(p) \in Head \cup {None}
  BY Typed, PcsIn
<1>2. ASSUME FinalizeRead(p)
      PROVE  /\ Stepped(p) /\ at[p].pc = "finalize"
             /\ \/ /\ MovedWithHead(at[p], at'[p], "finalizeCheckpoint", HeadOf(p))
                   /\ HeadOf(p) = at[p].exp
                \/ /\ Moved(at[p], at'[p], "publish")
                   /\ HeadOf(p) # None /\ HeadOf(p).op = at[p].op /\ HeadOf(p) = at[p].exp
                \/ Returned(at[p], at'[p])
  BY <1>1, <1>2, HeadLocal, GotoLocal, ReturnLocal DEF FinalizeRead
<1>3. ASSUME FinalizeCheckpoint(p)
      PROVE  Stepped(p) /\ at[p].pc = "finalizeCheckpoint" /\ Checkpointed(at[p], at'[p], "finalizeCandidate")
  BY <1>1, <1>3, CheckpointLocal DEF FinalizeCheckpoint
<1>4. ASSUME FinalizeCandidate(p)
      PROVE  /\ Stepped(p) /\ at[p].pc = "finalizeCandidate"
             /\ Moved(at[p], at'[p], "finalizePut") \/ Returned(at[p], at'[p])
  BY <1>1, <1>4, GotoLocal, ReturnLocal DEF FinalizeCandidate, PutCandidate
<1>5. ASSUME FinalizePut(p)
      PROVE  /\ Stepped(p)
             /\ \/ HeadWritten(p, at[p].exp, FinalizedHead(p)) /\ Moved(at[p], at'[p], "publish")
                \/ Moved(at[p], at'[p], "finalizeAgain")
  BY <1>1, <1>5, FinalizePutOutcome, GotoLocal
<1>6. ASSUME FinalizeAgain(p)
      PROVE  /\ Stepped(p) /\ at[p].pc = "finalizeAgain"
             /\ \/ Moved(at[p], at'[p], "publish") /\ HeadOf(p) = FinalizedHead(p)
                \/ Returned(at[p], at'[p])
  BY <1>1, <1>6, GotoLocal, ReturnLocal DEF FinalizeAgain
<1>7. QED
  BY <1>2, <1>3, <1>4, <1>5, <1>6

LEMMA PublishEffects ==
  ASSUME TypeInv, NEW p \in Procs
  PROVE  /\ PublishRead(p) => /\ Stepped(p) /\ at[p].pc = "publish"
                              /\ \/ /\ MovedWithHead(at[p], at'[p], "publishCandidate", HeadOf(p))
                                    /\ HeadOf(p) # None
                                 \/ Returned(at[p], at'[p])
         /\ PublishCandidate(p) => /\ Stepped(p) /\ at[p].pc = "publishCandidate"
                                   /\ cands' = cands \cup {at[p].h.cp.content}
                                   /\ \/ /\ Moved(at[p], at'[p], "claimHead")
                                         /\ at[p].h.state = "accepted"
                                      \/ /\ Moved(at[p], at'[p], "fence")
                                         /\ at[p].h.state # "accepted"
                                      \/ Returned(at[p], at'[p])
         /\ ClaimHead(p) => /\ Stepped(p)
                            /\ \/ /\ HeadWritten(p, at[p].h, ClaimedHead(p))
                                  /\ Moved(at[p], at'[p], "fence")
                               \/ Moved(at[p], at'[p], "claimAgain")
         /\ ClaimAgain(p) => /\ Stepped(p) /\ at[p].pc = "claimAgain"
                             /\ \/ /\ MovedWithHead(at[p], at'[p], "fence", HeadOf(p))
                                   /\ \/ HeadOf(p) = ClaimedHead(p)
                                      \/ Matches(HeadOf(p), "committed", at[p].h.cp)
                                \/ Returned(at[p], at'[p])
<1>1. /\ TypeOK /\ {"publishCandidate", "claimHead", "fence", "claimAgain"} \subseteq Pcs
      /\ at[p].pc # "idle" => HeadOf(p) \in Head \cup {None}
  BY Typed, PcsIn
<1>2. ASSUME PublishRead(p)
      PROVE  /\ Stepped(p) /\ at[p].pc = "publish"
             /\ \/ /\ MovedWithHead(at[p], at'[p], "publishCandidate", HeadOf(p))
                   /\ HeadOf(p) # None
                \/ Returned(at[p], at'[p])
  BY <1>1, <1>2, HeadLocal, ReturnLocal DEF PublishRead
<1>3. ASSUME PublishCandidate(p)
      PROVE  /\ Stepped(p) /\ at[p].pc = "publishCandidate"
             /\ cands' = cands \cup {at[p].h.cp.content}
             /\ \/ Moved(at[p], at'[p], "claimHead") /\ at[p].h.state = "accepted"
                \/ Moved(at[p], at'[p], "fence") /\ at[p].h.state # "accepted"
                \/ Returned(at[p], at'[p])
  <2>1. CASE at[p].h.state = "accepted"
    BY <1>1, <1>3, <2>1, GotoLocal, ReturnLocal DEF PublishCandidate, PutCandidate
  <2>2. CASE at[p].h.state # "accepted"
    BY <1>1, <1>3, <2>2, GotoLocal, ReturnLocal DEF PublishCandidate, PutCandidate
  <2>3. QED
    BY <2>1, <2>2
<1>4. ASSUME ClaimHead(p)
      PROVE  /\ Stepped(p)
             /\ \/ HeadWritten(p, at[p].h, ClaimedHead(p)) /\ Moved(at[p], at'[p], "fence")
                \/ Moved(at[p], at'[p], "claimAgain")
  BY <1>1, <1>4, ClaimHeadOutcome, GotoLocal
<1>5. ASSUME ClaimAgain(p)
      PROVE  /\ Stepped(p) /\ at[p].pc = "claimAgain"
             /\ \/ /\ MovedWithHead(at[p], at'[p], "fence", HeadOf(p))
                   /\ HeadOf(p) = ClaimedHead(p) \/ Matches(HeadOf(p), "committed", at[p].h.cp)
                \/ Returned(at[p], at'[p])
  BY <1>1, <1>5, HeadLocal, ReturnLocal DEF ClaimAgain
<1>6. QED
  BY <1>2, <1>3, <1>4, <1>5

LEMMA FenceEffects ==
  ASSUME TypeInv, NEW p \in Procs
  PROVE  /\ Fence(p) => Stepped(p) /\ at[p].pc = "fence" /\ Branched(at[p], at'[p], pub)
         /\ FenceBase(p) => /\ Stepped(p) /\ at[p].pc = "fenceBase"
                            /\ \/ Moved(at[p], at'[p], "fencePut") /\ manifest = at[p].h.cp.base
                               \/ Returned(at[p], at'[p])
         /\ FencePut(p) => /\ Stepped(p)
                           /\ \/ /\ PubWritten(at[p].q, PendingPub(p))
                                 /\ MovedWithPub(at[p], at'[p], "manifest", PendingPub(p))
                              \/ Moved(at[p], at'[p], "fenceAgain")
         /\ FenceAgain(p) => /\ Stepped(p) /\ at[p].pc = "fenceAgain"
                             /\ \/ /\ MovedWithPub(at[p], at'[p], "manifest", pub)
                                   /\ pub = PendingPub(p)
                                \/ /\ MovedWithPub(at[p], at'[p], "visible", pub)
                                   /\ Matches(pub, "committed", at[p].h.cp)
                                \/ Returned(at[p], at'[p])
<1>1. /\ TypeOK /\ {"fencePut", "manifest", "fenceAgain", "visible"} \subseteq Pcs
      /\ pub \in Publication \cup {None}
      /\ at[p].pc \in {"fence", "fencePut", "fenceAgain"} => at[p].h # None
  BY Typed, PcsIn DEF Shape, Fenced
<1>2. ASSUME Fence(p)
      PROVE  Stepped(p) /\ at[p].pc = "fence" /\ Branched(at[p], at'[p], pub)
  BY <1>1, <1>2, FenceBranch DEF Fence
<1>3. ASSUME FenceBase(p)
      PROVE  /\ Stepped(p) /\ at[p].pc = "fenceBase"
             /\ \/ Moved(at[p], at'[p], "fencePut") /\ manifest = at[p].h.cp.base
                \/ Returned(at[p], at'[p])
  BY <1>1, <1>3, GotoLocal, ReturnLocal DEF FenceBase
<1>4. ASSUME FencePut(p)
      PROVE  /\ Stepped(p)
             /\ \/ /\ PubWritten(at[p].q, PendingPub(p))
                   /\ MovedWithPub(at[p], at'[p], "manifest", PendingPub(p))
                \/ Moved(at[p], at'[p], "fenceAgain")
  <2>1. at[p].h # None /\ PendingPub(p) \in Publication
    BY <1>1, <1>4, PendingRecord DEF FencePut
  <2>2. QED
    BY <1>1, <1>4, <2>1, FencePutOutcome, PubLocal, GotoLocal
<1>5. ASSUME FenceAgain(p)
      PROVE  /\ Stepped(p) /\ at[p].pc = "fenceAgain"
             /\ \/ MovedWithPub(at[p], at'[p], "manifest", pub) /\ pub = PendingPub(p)
                \/ /\ MovedWithPub(at[p], at'[p], "visible", pub)
                   /\ Matches(pub, "committed", at[p].h.cp)
                \/ Returned(at[p], at'[p])
  BY <1>1, <1>5, PubLocal, ReturnLocal DEF FenceAgain
<1>6. QED
  BY <1>2, <1>3, <1>4, <1>5

LEMMA RecoverEffects ==
  ASSUME TypeInv, NEW p \in Procs
  PROVE  /\ RecoverCandidate(p) => /\ Stepped(p) /\ at[p].pc = "recoverCandidate"
                                   /\ \/ Moved(at[p], at'[p], "recoverRead")
                                      \/ Returned(at[p], at'[p])
         /\ RecoverRead(p) => /\ Stepped(p) /\ at[p].pc = "recoverRead"
                              /\ \/ /\ Moved(at[p], at'[p], "recoverCommit")
                                    /\ manifest = at[p].q.cp.content
                                 \/ Moved(at[p], at'[p], "recoverPut")
                                 \/ Returned(at[p], at'[p])
         /\ RecoverPut(p) => /\ Stepped(p)
                             /\ \/ /\ ManifestWritten(at[p].q.cp.base, at[p].q.cp.content)
                                   /\ Moved(at[p], at'[p], "recoverCommit")
                                \/ Moved(at[p], at'[p], "recoverAgain")
         /\ RecoverAgain(p) => /\ Stepped(p) /\ at[p].pc = "recoverAgain"
                               /\ \/ /\ Moved(at[p], at'[p], "recoverCommit")
                                     /\ manifest = at[p].q.cp.content
                                  \/ Returned(at[p], at'[p])
         /\ RecoverCommit(p) => /\ Stepped(p)
                                /\ \/ /\ PubWritten(at[p].q, CommittedPub(at[p].q))
                                      /\ Branched(at[p], at'[p], CommittedPub(at[p].q))
                                   \/ Moved(at[p], at'[p], "recoverCommitAgain")
         /\ RecoverCommitAgain(p) => /\ Stepped(p) /\ at[p].pc = "recoverCommitAgain"
                                     /\ \/ /\ Branched(at[p], at'[p], pub)
                                           /\ pub # None /\ pub.state = "committed"
                                        \/ Returned(at[p], at'[p])
<1>1. /\ TypeOK /\ pub \in Publication \cup {None}
      /\ {"recoverRead", "recoverCommit", "recoverPut", "recoverAgain", "recoverCommitAgain"} \subseteq Pcs
      /\ at[p].pc \in Recovering => at[p].q \in Publication /\ at[p].h # None
  BY Typed, PcsIn, LocalFields DEF Shape, Fenced
<1>2. ASSUME RecoverCandidate(p)
      PROVE  /\ Stepped(p) /\ at[p].pc = "recoverCandidate"
             /\ Moved(at[p], at'[p], "recoverRead") \/ Returned(at[p], at'[p])
  BY <1>1, <1>2, GotoLocal, ReturnLocal DEF RecoverCandidate
<1>3. ASSUME RecoverRead(p)
      PROVE  /\ Stepped(p) /\ at[p].pc = "recoverRead"
             /\ \/ Moved(at[p], at'[p], "recoverCommit") /\ manifest = at[p].q.cp.content
                \/ Moved(at[p], at'[p], "recoverPut")
                \/ Returned(at[p], at'[p])
  BY <1>1, <1>3, GotoLocal, ReturnLocal DEF RecoverRead
<1>4. ASSUME RecoverPut(p)
      PROVE  /\ Stepped(p)
             /\ \/ /\ ManifestWritten(at[p].q.cp.base, at[p].q.cp.content)
                   /\ Moved(at[p], at'[p], "recoverCommit")
                \/ Moved(at[p], at'[p], "recoverAgain")
  BY <1>1, <1>4, RecoverPutOutcome, GotoLocal
<1>5. ASSUME RecoverAgain(p)
      PROVE  /\ Stepped(p) /\ at[p].pc = "recoverAgain"
             /\ \/ Moved(at[p], at'[p], "recoverCommit") /\ manifest = at[p].q.cp.content
                \/ Returned(at[p], at'[p])
  BY <1>1, <1>5, GotoLocal, ReturnLocal DEF RecoverAgain
<1>6. ASSUME RecoverCommit(p)
      PROVE  /\ Stepped(p)
             /\ \/ /\ PubWritten(at[p].q, CommittedPub(at[p].q))
                   /\ Branched(at[p], at'[p], CommittedPub(at[p].q))
                \/ Moved(at[p], at'[p], "recoverCommitAgain")
  <2>1. at[p].h # None /\ at[p].q \in Publication
    BY <1>1, <1>6 DEF RecoverCommit, Recovering
  <2>2. CommittedPub(at[p].q) \in Publication
    BY <2>1, CommittedRecord
  <2>3. QED
    BY <1>1, <1>6, <2>1, <2>2, RecoverCommitOutcome, FenceBranch, GotoLocal
<1>7. ASSUME RecoverCommitAgain(p)
      PROVE  /\ Stepped(p) /\ at[p].pc = "recoverCommitAgain"
             /\ \/ Branched(at[p], at'[p], pub) /\ pub # None /\ pub.state = "committed"
                \/ Returned(at[p], at'[p])
  <2>1. at[p].h # None /\ at[p].q \in Publication
    BY <1>1, <1>7 DEF RecoverCommitAgain, Recovering
  <2>2. CommittedPub(at[p].q) \in Publication /\ CommittedPub(at[p].q).state = "committed"
    BY <2>1, CommittedRecord
  <2>3. \/ FenceDecide(p, pub) /\ pub # None /\ pub.state = "committed"
        \/ Return(p)
    BY <1>7, <2>2, NoneNot DEF RecoverCommitAgain, Matches
  <2>4. QED
    BY <1>1, <1>7, <2>1, <2>3, FenceBranch, ReturnLocal DEF RecoverCommitAgain
<1>8. QED
  BY <1>2, <1>3, <1>4, <1>5, <1>6, <1>7

LEMMA StoreEffects ==
  ASSUME TypeInv, NEW p \in Procs
  PROVE  /\ Visible(p) => /\ Stepped(p) /\ at[p].pc = "visible"
                          /\ \/ Moved(at[p], at'[p], "finalRead") /\ manifest = at[p].h.cp.content
                             \/ Returned(at[p], at'[p])
         /\ ReadManifest(p) => /\ Stepped(p) /\ at[p].pc = "manifest"
                               /\ \/ Moved(at[p], at'[p], "commitPub") /\ manifest = at[p].h.cp.content
                                  \/ Moved(at[p], at'[p], "putManifest")
                                  \/ Returned(at[p], at'[p])
         /\ PublishManifest(p) => /\ Stepped(p)
                                  /\ \/ /\ ManifestWritten(at[p].h.cp.base, at[p].h.cp.content)
                                        /\ Moved(at[p], at'[p], "confirm")
                                     \/ Moved(at[p], at'[p], "putManifestAgain")
         /\ PublishManifestAgain(p) =>
              /\ Stepped(p) /\ at[p].pc = "putManifestAgain"
              /\ \/ Moved(at[p], at'[p], "confirm") /\ manifest = at[p].h.cp.content
                 \/ Returned(at[p], at'[p])
         /\ ConfirmManifest(p) => /\ Stepped(p) /\ at[p].pc = "confirm"
                                  /\ Moved(at[p], at'[p], "commitPub") \/ Returned(at[p], at'[p])
         /\ CommitPub(p) => /\ Stepped(p)
                            /\ \/ Moved(at[p], at'[p], "finalRead")
                               \/ Moved(at[p], at'[p], "commitPubAgain")
         /\ CommitPubAgain(p) => /\ Stepped(p) /\ at[p].pc = "commitPubAgain"
                                 /\ Moved(at[p], at'[p], "finalRead") \/ Returned(at[p], at'[p])
<1>1. /\ TypeOK
      /\ {"finalRead", "commitPub", "putManifest", "confirm", "putManifestAgain", "commitPubAgain"} \subseteq Pcs
  BY Typed, PcsIn
<1>2. ASSUME Visible(p)
      PROVE  /\ Stepped(p) /\ at[p].pc = "visible"
             /\ \/ Moved(at[p], at'[p], "finalRead") /\ manifest = at[p].h.cp.content
                \/ Returned(at[p], at'[p])
  BY <1>1, <1>2, GotoLocal, ReturnLocal DEF Visible
<1>3. ASSUME ReadManifest(p)
      PROVE  /\ Stepped(p) /\ at[p].pc = "manifest"
             /\ \/ Moved(at[p], at'[p], "commitPub") /\ manifest = at[p].h.cp.content
                \/ Moved(at[p], at'[p], "putManifest")
                \/ Returned(at[p], at'[p])
  BY <1>1, <1>3, GotoLocal, ReturnLocal DEF ReadManifest
<1>4. ASSUME PublishManifest(p)
      PROVE  /\ Stepped(p)
             /\ \/ /\ ManifestWritten(at[p].h.cp.base, at[p].h.cp.content)
                   /\ Moved(at[p], at'[p], "confirm")
                \/ Moved(at[p], at'[p], "putManifestAgain")
  BY <1>1, <1>4, PublishManifestOutcome, GotoLocal
<1>5. ASSUME PublishManifestAgain(p)
      PROVE  /\ Stepped(p) /\ at[p].pc = "putManifestAgain"
             /\ \/ Moved(at[p], at'[p], "confirm") /\ manifest = at[p].h.cp.content
                \/ Returned(at[p], at'[p])
  BY <1>1, <1>5, GotoLocal, ReturnLocal DEF PublishManifestAgain
<1>6. ASSUME ConfirmManifest(p)
      PROVE  /\ Stepped(p) /\ at[p].pc = "confirm"
             /\ Moved(at[p], at'[p], "commitPub") \/ Returned(at[p], at'[p])
  BY <1>1, <1>6, GotoLocal, ReturnLocal DEF ConfirmManifest
<1>7. ASSUME CommitPub(p)
      PROVE  /\ Stepped(p)
             /\ Moved(at[p], at'[p], "finalRead") \/ Moved(at[p], at'[p], "commitPubAgain")
  BY <1>1, <1>7, CommitPubOutcome, GotoLocal
<1>8. ASSUME CommitPubAgain(p)
      PROVE  /\ Stepped(p) /\ at[p].pc = "commitPubAgain"
             /\ Moved(at[p], at'[p], "finalRead") \/ Returned(at[p], at'[p])
  BY <1>1, <1>8, GotoLocal, ReturnLocal DEF CommitPubAgain
<1>9. QED
  BY <1>2, <1>3, <1>4, <1>5, <1>6, <1>7, <1>8

MovedWithFound(r, n, g) ==
  /\ n.pc = "finalPut" /\ SameAttachment(r, n) /\ SameOverlay(r, n)
  /\ n.cp = r.cp /\ n.h = r.h /\ n.q = r.q /\ n.g = g

Acks(p) == acked' = acked \cup {at[p].op} \/ UNCHANGED acked

LEMMA FinalEffects ==
  ASSUME TypeInv, NEW p \in Procs
  PROVE  /\ FinalRead(p) => /\ Stepped(p) /\ at[p].pc = "finalRead" /\ Acks(p)
                            /\ UNCHANGED <<bucket, natt, nforeign, faults>>
                            /\ \/ /\ MovedWithFound(at[p], at'[p], HeadOf(p))
                                  /\ HeadOf(p) \in Head /\ HeadOf(p).state \in {"publishing", "accepted"}
                               \/ Returned(at[p], at'[p])
         /\ FinalPut(p) => /\ Stepped(p) /\ Acks(p)
                           /\ Moved(at[p], at'[p], "finalAgain") \/ Returned(at[p], at'[p])
         /\ FinalAgain(p) => /\ Stepped(p) /\ at[p].pc = "finalAgain" /\ Acks(p)
                             /\ UNCHANGED <<bucket, natt, nforeign, faults>>
                             /\ Returned(at[p], at'[p])
<1>1. /\ TypeOK /\ "finalAgain" \in Pcs
      /\ at[p].pc # "idle" => HeadOf(p) \in Head \cup {None}
  BY Typed, PcsIn
<1>2. ASSUME FinalRead(p)
      PROVE  /\ Stepped(p) /\ at[p].pc = "finalRead" /\ Acks(p)
             /\ UNCHANGED <<bucket, natt, nforeign, faults>>
             /\ \/ /\ MovedWithFound(at[p], at'[p], HeadOf(p))
                   /\ HeadOf(p) \in Head /\ HeadOf(p).state \in {"publishing", "accepted"}
                \/ Returned(at[p], at'[p])
  <2>1. /\ at[p].pc = "finalRead" /\ Acks(p) /\ UNCHANGED <<bucket, natt, nforeign, faults>>
        /\ \/ Return(p)
           \/ /\ HeadOf(p) # None /\ HeadOf(p).state \in {"publishing", "accepted"}
              /\ at' = [at EXCEPT ![p].pc = "finalPut", ![p].g = HeadOf(p)]
    BY <1>2 DEF FinalRead, Succeed, Acks
  <2>2. CASE Return(p)
    BY <1>1, <2>1, <2>2, ReturnLocal
  <2>3. CASE /\ HeadOf(p) # None /\ HeadOf(p).state \in {"publishing", "accepted"}
             /\ at' = [at EXCEPT ![p].pc = "finalPut", ![p].g = HeadOf(p)]
    <3>1. HeadOf(p) \in Head
      BY <1>1, <2>1, <2>3
    <3>2. Stepped(p) /\ MovedWithFound(at[p], at'[p], HeadOf(p))
      BY <1>1, <2>3, <3>1, GLocal DEF MovedWithFound
    <3>3. QED
      BY <2>1, <2>3, <3>1, <3>2
  <2>4. QED
    BY <2>1, <2>2, <2>3
<1>3. ASSUME FinalPut(p)
      PROVE  /\ Stepped(p) /\ Acks(p)
             /\ Moved(at[p], at'[p], "finalAgain") \/ Returned(at[p], at'[p])
  BY <1>1, <1>3, FinalPutOutcome, GotoLocal, ReturnLocal DEF Succeed, Acks
<1>4. ASSUME FinalAgain(p)
      PROVE  /\ Stepped(p) /\ at[p].pc = "finalAgain" /\ Acks(p)
             /\ UNCHANGED <<bucket, natt, nforeign, faults>> /\ Returned(at[p], at'[p])
  BY <1>1, <1>4, ReturnLocal DEF FinalAgain, Succeed, Acks
<1>5. QED
  BY <1>2, <1>3, <1>4

-----------------------------------------------------------------------------
(* Type correctness.                                                       *)

LEMMA ShapeReturned ==
  ASSUME NEW r, NEW n, Shape(r), r.pc # "idle", Returned(r, n)
  PROVE  Shape(n)
  BY DEF Shape, Returned, SameAttachment, Accepting, Finalizing, Claiming, Fenced, Recovering,
         Storing, Completing

LEMMA ShapeLeft ==
  ASSUME NEW n, Left(n)
  PROVE  Shape(n)
  BY DEF Shape, Left, Accepting, Finalizing, Claiming, Fenced, Recovering, Storing, Completing

LEMMA ShapeBranched ==
  ASSUME NEW r, NEW n, NEW q, Shape(r), r.pc \in Fenced, Branched(r, n, q)
  PROVE  Shape(n)
<1>1. r.pc # "idle" /\ r.h # None
  BY DEF Shape, Fenced, Recovering, Storing, Completing
<1>2. n.h = r.h /\ n.q = q /\ n.sess = r.sess /\ n.op = r.op
  BY DEF Branched, MovedWithPub, SameAttachment
<1>3. \/ n.pc = "fencePut"
      \/ n.pc \in {"visible", "manifest", "fenceBase", "recoverCandidate"} /\ q # None
  BY DEF Branched, MovedWithPub, Matches
<1>4. QED
  BY <1>1, <1>2, <1>3 DEF Shape, Accepting, Finalizing, Claiming, Fenced, Recovering, Storing, Completing

LEMMA ShapeStep ==
  ASSUME TypeInv, NEW p \in Procs, Step(p) \/ Call(p)
  PROVE  Stepped(p) /\ Shape(at'[p])
<1> DEFINE r == at[p]
           n == at'[p]
<1>0. Shape(r) /\ (r.pc # "idle" => r.sess \in Sessions /\ r.op \in OpsOf[r.sess])
  BY Typed
<1> USE DEF Moved, MovedWithHead, MovedWithPub, SameAttachment, Accepting, Finalizing, Claiming, Fenced,
            Recovering, Storing, Completing
<1>1. CASE RehydrateHead(p)
  <2>1. Stepped(p) /\ r.pc = "rehydrateHead"
        /\ (MovedWithHead(r, n, "rehydrateBase", HeadOf(p)) \/ Left(n))
    BY <1>1, RehydrateHeadEffect
  <2>2. QED
    BY <1>0, <2>1, ShapeLeft DEF Shape
<1>2. CASE RehydrateBase(p)
  <2>1. /\ Stepped(p) /\ r.pc = "rehydrateBase"
        /\ \/ /\ n.pc = "attached" /\ SameAttachment(r, n)
              /\ n.cp = r.cp /\ n.q = r.q /\ n.g = r.g
           \/ Left(n)
    BY <1>2, RehydrateBaseEffect DEF Installed
  <2>2. QED
    BY <1>0, <2>1, ShapeLeft DEF Shape
<1>3. CASE \E s \in Sessions : \E o \in OpsOf[s] : Attach(p, s, o)
  <2>1. PICK s \in Sessions : \E o \in OpsOf[s] : Attach(p, s, o)
    BY <1>3
  <2>2. PICK o \in OpsOf[s] : Attach(p, s, o)
    BY <2>1
  <2>3. Stepped(p) /\ Bound(n, s, o, natt + 1, head[s])
    BY <2>2, CallEffects
  <2>4. QED
    BY <2>3 DEF Bound, Shape
<1>4. CASE Detach(p) \/ Fail(p)
  <2>1. Stepped(p) /\ (Left(n) \/ (r.pc # "idle" /\ Returned(r, n)))
    BY <1>4, CallEffects DEF InCall
  <2>2. QED
    BY <1>0, <2>1, ShapeLeft, ShapeReturned
<1>5. CASE CompleteRequest(p) \/ Upload(p)
  <2>1. /\ Stepped(p) /\ r.pc = "attached"
        /\ \E pc \in {"checkpoint", "finalize", "publish"} : Moved(r, n, pc)
    BY <1>5, CallEffects
  <2>2. QED
    BY <1>0, <2>1 DEF Shape
<1>6. CASE SessionCheckpoint(p) \/ FinalizeCheckpoint(p)
  <2>1. /\ Stepped(p) /\ r.pc \in {"checkpoint", "finalizeCheckpoint"}
        /\ \E pc \in {"accept", "finalizeCandidate"} : Checkpointed(r, n, pc)
    BY <1>6, AcceptEffects, FinalizeEffects
  <2>2. QED
    BY <1>0, <2>1, NoneNot DEF Shape, Checkpointed
<1>7. CASE AcceptRead(p) \/ AcceptBase(p) \/ AcceptPut(p) \/ AcceptAgain(p)
  <2>1. /\ Stepped(p) /\ r.pc \in {"accept", "acceptBase", "acceptPut", "acceptAgain"}
        /\ \/ MovedWithHead(r, n, "acceptBase", HeadOf(p))
           \/ \E pc \in {"acceptPut", "acceptAgain"} : Moved(r, n, pc)
           \/ Returned(r, n)
    BY <1>7, AcceptEffects, AcceptPutOutcome, Typed
  <2>2. QED
    BY <1>0, <2>1, ShapeReturned DEF Shape
<1>8. CASE FinalizeRead(p)
  <2>1. /\ Stepped(p) /\ r.pc = "finalize"
        /\ \/ MovedWithHead(r, n, "finalizeCheckpoint", HeadOf(p))
           \/ Moved(r, n, "publish")
           \/ Returned(r, n)
    BY <1>8, FinalizeEffects
  <2>2. QED
    BY <1>0, <2>1, ShapeReturned DEF Shape
<1>9. CASE FinalizeCandidate(p) \/ FinalizePut(p) \/ FinalizeAgain(p)
  <2>1. /\ Stepped(p) /\ r.pc \in {"finalizeCandidate", "finalizePut", "finalizeAgain"}
        /\ \/ \E pc \in {"finalizePut", "finalizeAgain", "publish"} : Moved(r, n, pc)
           \/ Returned(r, n)
    BY <1>9, FinalizeEffects, FinalizePutOutcome, Typed
  <2>2. QED
    BY <1>0, <2>1, ShapeReturned DEF Shape
<1>10. CASE PublishRead(p)
  <2>1. /\ Stepped(p) /\ r.pc = "publish"
        /\ \/ MovedWithHead(r, n, "publishCandidate", HeadOf(p)) /\ HeadOf(p) # None
           \/ Returned(r, n)
    BY <1>10, PublishEffects
  <2>2. QED
    BY <1>0, <2>1, ShapeReturned DEF Shape
<1>11. CASE PublishCandidate(p) \/ ClaimHead(p)
  <2>1. /\ Stepped(p) /\ r.pc \in {"publishCandidate", "claimHead"}
        /\ \/ \E pc \in {"claimHead", "fence", "claimAgain"} : Moved(r, n, pc)
           \/ Returned(r, n)
    BY <1>11, PublishEffects, ClaimHeadOutcome, Typed
  <2>2. QED
    BY <1>0, <2>1, ShapeReturned DEF Shape
<1>12. CASE ClaimAgain(p)
  <2>1. /\ Stepped(p) /\ r.pc = "claimAgain"
        /\ \/ /\ MovedWithHead(r, n, "fence", HeadOf(p))
              /\ HeadOf(p) = ClaimedHead(p) \/ Matches(HeadOf(p), "committed", r.h.cp)
           \/ Returned(r, n)
    BY <1>12, PublishEffects
  <2>2. r.h # None
    BY <1>0, <2>1 DEF Shape
  <2>3. ClaimedHead(p) # None
    BY <2>2, ClaimedRecord, Typed, NoneNot
  <2>4. QED
    BY <1>0, <2>1, <2>3, ShapeReturned DEF Shape, Matches
<1>13. CASE Fence(p) \/ FenceBase(p)
  <2>1. /\ Stepped(p) /\ r.pc \in {"fence", "fenceBase"}
        /\ Branched(r, n, pub) \/ Moved(r, n, "fencePut") \/ Returned(r, n)
    BY <1>13, FenceEffects
  <2>2. QED
    BY <1>0, <2>1, ShapeReturned, ShapeBranched DEF Shape
<1>14. CASE FencePut(p)
  <2>1. /\ Stepped(p) /\ r.pc = "fencePut"
        /\ MovedWithPub(r, n, "manifest", PendingPub(p)) \/ Moved(r, n, "fenceAgain")
    BY <1>14, FenceEffects, FencePutOutcome, Typed
  <2>2. r.h # None
    BY <1>0, <2>1 DEF Shape
  <2>3. PendingPub(p) # None
    BY <2>2, PendingRecord, Typed, NoneNot
  <2>4. QED
    BY <1>0, <2>1, <2>3 DEF Shape
<1>15. CASE FenceAgain(p)
  <2>1. /\ Stepped(p) /\ r.pc = "fenceAgain"
        /\ \/ MovedWithPub(r, n, "manifest", pub) /\ pub = PendingPub(p)
           \/ MovedWithPub(r, n, "visible", pub)
           \/ Returned(r, n)
    BY <1>15, FenceEffects
  <2>2. r.h # None
    BY <1>0, <2>1 DEF Shape
  <2>3. PendingPub(p) # None
    BY <2>2, PendingRecord, Typed, NoneNot
  <2>4. QED
    BY <1>0, <2>1, <2>3, ShapeReturned DEF Shape
<1>16. CASE RecoverCandidate(p) \/ RecoverRead(p) \/ RecoverPut(p) \/ RecoverAgain(p)
  <2>1. /\ Stepped(p) /\ r.pc \in {"recoverCandidate", "recoverRead", "recoverPut", "recoverAgain"}
        /\ \/ \E pc \in {"recoverRead", "recoverCommit", "recoverPut", "recoverAgain"} : Moved(r, n, pc)
           \/ Returned(r, n)
    BY <1>16, RecoverEffects, RecoverPutOutcome, Typed
  <2>2. QED
    BY <1>0, <2>1, ShapeReturned DEF Shape
<1>17. CASE RecoverCommit(p) \/ RecoverCommitAgain(p)
  <2>1. /\ Stepped(p) /\ r.pc \in {"recoverCommit", "recoverCommitAgain"}
        /\ \/ \E q : Branched(r, n, q)
           \/ Moved(r, n, "recoverCommitAgain")
           \/ Returned(r, n)
    BY <1>17, RecoverEffects, RecoverCommitOutcome, Typed
  <2>2. QED
    BY <1>0, <2>1, ShapeReturned, ShapeBranched DEF Shape
<1>18. CASE Visible(p) \/ ReadManifest(p) \/ PublishManifest(p) \/ PublishManifestAgain(p)
            \/ ConfirmManifest(p) \/ CommitPub(p) \/ CommitPubAgain(p)
  <2>1. /\ Stepped(p)
        /\ \/ /\ r.pc = "visible"
              /\ Moved(r, n, "finalRead") \/ Returned(r, n)
           \/ /\ r.pc \in Storing
              /\ \/ \E pc \in Storing \cup {"finalRead"} : Moved(r, n, pc)
                 \/ Returned(r, n)
    BY <1>18, StoreEffects, PublishManifestOutcome, CommitPubOutcome, Typed
  <2>2. QED
    BY <1>0, <2>1, ShapeReturned DEF Shape
<1>19. CASE FinalRead(p) \/ FinalPut(p) \/ FinalAgain(p)
  <2>1. /\ Stepped(p) /\ r.pc \in Completing
        /\ \/ MovedWithFound(r, n, HeadOf(p)) /\ HeadOf(p) \in Head
           \/ r.pc = "finalPut" /\ Moved(r, n, "finalAgain")
           \/ Returned(r, n)
    BY <1>19, FinalEffects, FinalPutOutcome, Typed
  <2>2. QED
    BY <1>0, <2>1, ShapeReturned, NoneNot DEF Shape, MovedWithFound
<1>20. QED
  BY <1>1, <1>2, <1>3, <1>4, <1>5, <1>6, <1>7, <1>8, <1>9, <1>10, <1>11, <1>12, <1>13, <1>14, <1>15,
     <1>16, <1>17, <1>18, <1>19
     DEF Step, Call, Publishing

(* What a step of a process may write to the bucket.                       *)
ReadsOnly == UNCHANGED <<manifest, head, pub, cands>>
StoresCandidate(p) ==
  /\ UNCHANGED <<manifest, head, pub>>
  /\ \/ FinalizeCandidate(p) /\ cands' = cands \cup {at[p].cp.content}
     \/ PublishCandidate(p) /\ cands' = cands \cup {at[p].h.cp.content}
WritesHead(p) ==
  /\ UNCHANGED <<manifest, pub, cands>>
  /\ AcceptPut(p) \/ FinalizePut(p) \/ ClaimHead(p) \/ FinalPut(p)
WritesPub(p) ==
  UNCHANGED <<manifest, head, cands>> /\ (FencePut(p) \/ RecoverCommit(p) \/ CommitPub(p))
WritesManifest(p) ==
  UNCHANGED <<head, pub, cands>> /\ (RecoverPut(p) \/ PublishManifest(p))
Frame ==
  /\ UNCHANGED <<nforeign, gc>> /\ expired' \subseteq expired /\ Counted
  /\ natt' \in 0..MaxAttach

LEMMA StepFrame ==
  ASSUME TypeInv, NEW p \in Procs, Step(p) \/ Call(p)
  PROVE  /\ Frame
         /\ UNCHANGED acked \/ FinalRead(p) \/ FinalPut(p) \/ FinalAgain(p)
         /\ \/ ReadsOnly \/ StoresCandidate(p) \/ WritesHead(p) \/ WritesPub(p) \/ WritesManifest(p)
<1>0. /\ TypeOK /\ UNCHANGED gc /\ natt \in 0..MaxAttach
      /\ UNCHANGED faults => Counted
  BY Typed, FaultCounted DEF Step, Call, TypeOK
<1>1. ASSUME Reads PROVE Frame /\ UNCHANGED acked /\ ReadsOnly
  BY <1>0, <1>1 DEF Reads, bucket, Frame, ReadsOnly
<1>2. CASE \E s \in Sessions : \E o \in OpsOf[s] : Attach(p, s, o)
  <2>1. natt < MaxAttach /\ natt' = natt + 1 /\ UNCHANGED <<bucket, nforeign, faults, acked>>
    BY <1>2 DEF Attach
  <2>2. natt' \in 0..MaxAttach
    BY <1>0, <2>1, SessionAssumption
  <2>3. QED
    BY <1>0, <2>1, <2>2 DEF bucket, Frame, ReadsOnly
<1>3. CASE Fail(p)
  <2>1. Fault /\ UNCHANGED <<bucket, natt, nforeign, acked>>
    BY <1>3 DEF Fail
  <2>2. QED
    BY <1>0, <2>1, FaultCounted DEF bucket, Frame, ReadsOnly
<1>4. CASE FinalizeCandidate(p) \/ PublishCandidate(p)
  <2>1. /\ UNCHANGED faults \/ Fault
        /\ UNCHANGED <<manifest, head, pub, expired, natt, nforeign, acked>>
        /\ \/ FinalizeCandidate(p) /\ cands' = cands \cup {at[p].cp.content}
           \/ PublishCandidate(p) /\ cands' = cands \cup {at[p].h.cp.content}
    BY <1>4 DEF FinalizeCandidate, PublishCandidate, PutCandidate
  <2>2. QED
    BY <1>0, <2>1, FaultCounted DEF Frame, StoresCandidate
<1>5. CASE AcceptPut(p) \/ FinalizePut(p) \/ ClaimHead(p) \/ FinalPut(p)
  <2>1. HeadFrame /\ (UNCHANGED acked \/ FinalPut(p))
    BY <1>0, <1>5, AcceptPutOutcome, FinalizePutOutcome, ClaimHeadOutcome, FinalPutOutcome
  <2>2. QED
    BY <1>0, <1>5, <2>1 DEF HeadFrame, Frame, WritesHead
<1>6. CASE FencePut(p) \/ RecoverCommit(p) \/ CommitPub(p)
  <2>1. PubFrame
    BY <1>0, <1>6, FencePutOutcome, RecoverCommitOutcome, CommitPubOutcome
  <2>2. QED
    BY <1>0, <1>6, <2>1 DEF PubFrame, Frame, WritesPub
<1>7. CASE RecoverPut(p) \/ PublishManifest(p)
  <2>1. ManifestFrame
    BY <1>0, <1>7, RecoverPutOutcome, PublishManifestOutcome
  <2>2. QED
    BY <1>0, <1>7, <2>1 DEF ManifestFrame, Frame, WritesManifest
<1>8. CASE FinalRead(p) \/ FinalAgain(p)
  <2>1. UNCHANGED <<bucket, natt, nforeign, faults>>
    BY <1>8, FinalEffects
  <2>2. QED
    BY <1>0, <1>8, <2>1 DEF bucket, Frame, ReadsOnly
<1>9. CASE \/ RehydrateHead(p) \/ RehydrateBase(p) \/ SessionCheckpoint(p)
           \/ AcceptRead(p) \/ AcceptBase(p) \/ AcceptAgain(p)
           \/ FinalizeRead(p) \/ FinalizeCheckpoint(p) \/ FinalizeAgain(p)
           \/ PublishRead(p) \/ ClaimAgain(p) \/ CompleteRequest(p) \/ Upload(p) \/ Detach(p)
  <2>1. Reads
    BY <1>9 DEF RehydrateHead, RehydrateBase, SessionCheckpoint, AcceptRead, AcceptBase, AcceptAgain,
                FinalizeRead, FinalizeCheckpoint, FinalizeAgain, PublishRead, ClaimAgain,
                CompleteRequest, Upload, Detach
  <2>2. QED
    BY <1>1, <2>1
<1>10. CASE \/ Fence(p) \/ FenceBase(p) \/ FenceAgain(p) \/ RecoverCandidate(p) \/ RecoverRead(p)
            \/ RecoverAgain(p) \/ RecoverCommitAgain(p) \/ Visible(p) \/ ReadManifest(p)
            \/ PublishManifestAgain(p) \/ ConfirmManifest(p) \/ CommitPubAgain(p)
  <2>1. Reads
    BY <1>10 DEF Fence, FenceBase, FenceAgain, RecoverCandidate, RecoverRead, RecoverAgain,
                 RecoverCommitAgain, Visible, ReadManifest, PublishManifestAgain, ConfirmManifest,
                 CommitPubAgain
  <2>2. QED
    BY <1>1, <2>1
<1>11. QED
  BY <1>2, <1>3, <1>4, <1>5, <1>6, <1>7, <1>8, <1>9, <1>10 DEF Step, Call, Publishing

(* The head that a PUT writes, if it is applied.                           *)
PutsHead(p, h) == head' = [head EXCEPT ![at[p].sess] = h] /\ at[p].sess \in Sessions /\ h \in Head

LEMMA HeadPut ==
  ASSUME TypeInv, NEW p \in Procs, WritesHead(p)
  PROVE  \/ UNCHANGED head
         \/ /\ AcceptPut(p) /\ at[p].pc = "acceptPut" /\ HeadOf(p) = at[p].exp
            /\ PutsHead(p, AcceptedHead(p)) /\ at[p].cp \in Checkpoint
         \/ /\ FinalizePut(p) /\ at[p].pc = "finalizePut" /\ HeadOf(p) = at[p].exp
            /\ PutsHead(p, FinalizedHead(p)) /\ at[p].cp \in Checkpoint
         \/ /\ ClaimHead(p) /\ at[p].pc = "claimHead" /\ HeadOf(p) = at[p].h
            /\ PutsHead(p, ClaimedHead(p)) /\ at[p].h \in Head
         \/ /\ FinalPut(p) /\ at[p].pc = "finalPut" /\ HeadOf(p) = at[p].g
            /\ PutsHead(p, FinalHead(p)) /\ at[p].h \in Head /\ at[p].g \in Head
<1>0. TypeOK /\ at[p] \in Local /\ Shape(at[p])
  BY Typed
<1>1. CASE AcceptPut(p)
  <2>1. /\ at[p].pc = "acceptPut"
        /\ UNCHANGED head \/ HeadWritten(p, at[p].exp, AcceptedHead(p))
    BY <1>0, <1>1, AcceptPutOutcome
  <2>2. /\ at[p].cp \in Checkpoint /\ at[p].op \in Ops /\ at[p].sess \in Sessions
        /\ at[p].h \in Head \cup {None}
    BY <1>0, <2>1, Typed, LocalFields DEF Shape, Accepting
  <2>3. AcceptedHead(p) \in Head
    <3>1. (IF at[p].h = None THEN {} ELSE at[p].h.hist) \cup {at[p].op} \in SUBSET Ops
      BY <2>2, RecordFields
    <3>2. QED
      BY <2>2, <3>1, AcceptedRecord DEF AcceptedHead
  <2>4. QED
    BY <1>1, <2>1, <2>2, <2>3 DEF HeadWritten, PutsHead, Sess
<1>2. CASE FinalizePut(p)
  <2>1. /\ at[p].pc = "finalizePut"
        /\ UNCHANGED head \/ HeadWritten(p, at[p].exp, FinalizedHead(p))
    BY <1>0, <1>2, FinalizePutOutcome
  <2>2. at[p].cp \in Checkpoint /\ at[p].op \in Ops /\ at[p].sess \in Sessions /\ at[p].cp # None
    BY <1>0, <2>1, Typed, LocalFields DEF Shape, Finalizing
  <2>3. FinalizedHead(p) \in Head
    BY <1>0, <2>2, FinalizedRecord
  <2>4. QED
    BY <1>2, <2>1, <2>2, <2>3 DEF HeadWritten, PutsHead, Sess
<1>3. CASE ClaimHead(p)
  <2>1. /\ at[p].pc = "claimHead"
        /\ UNCHANGED head \/ HeadWritten(p, at[p].h, ClaimedHead(p))
    BY <1>0, <1>3, ClaimHeadOutcome
  <2>2. at[p].h \in Head /\ at[p].sess \in Sessions /\ at[p].h # None
    BY <1>0, <2>1, Typed, LocalFields DEF Shape, Claiming
  <2>3. ClaimedHead(p) \in Head
    BY <1>0, <2>2, ClaimedRecord
  <2>4. QED
    BY <1>3, <2>1, <2>2, <2>3 DEF HeadWritten, PutsHead, Sess
<1>4. CASE FinalPut(p)
  <2>1. /\ at[p].pc = "finalPut"
        /\ UNCHANGED head \/ HeadWritten(p, at[p].g, FinalHead(p))
    BY <1>0, <1>4, FinalPutOutcome
  <2>2. /\ at[p].h \in Head /\ at[p].sess \in Sessions /\ at[p].h # None
        /\ at[p].g \in Head /\ at[p].g # None
    BY <1>0, <2>1, Typed, LocalFields DEF Shape, Fenced, Completing
  <2>3. FinalHead(p) \in Head
    BY <1>0, <2>2, FinalRecord
  <2>4. QED
    BY <1>4, <2>1, <2>2, <2>3 DEF HeadWritten, PutsHead, Sess
<1>5. QED
  BY <1>1, <1>2, <1>3, <1>4 DEF WritesHead

(* The publication record that a PUT writes, if it is applied.             *)
LEMMA PubPut ==
  ASSUME TypeInv, NEW p \in Procs, WritesPub(p)
  PROVE  \/ UNCHANGED pub
         \/ /\ FencePut(p) /\ at[p].pc = "fencePut" /\ pub = at[p].q /\ pub' = PendingPub(p)
            /\ PendingPub(p) \in Publication /\ at[p].h \in Head
         \/ /\ RecoverCommit(p) \/ CommitPub(p)
            /\ at[p].pc \in {"recoverCommit", "commitPub"} /\ pub = at[p].q
            /\ pub' = CommittedPub(at[p].q) /\ CommittedPub(at[p].q) \in Publication
            /\ at[p].q \in Publication
<1>0. TypeOK /\ at[p] \in Local /\ Shape(at[p])
  BY Typed
<1>1. CASE FencePut(p)
  <2>1. at[p].pc = "fencePut" /\ (UNCHANGED pub \/ PubWritten(at[p].q, PendingPub(p)))
    BY <1>0, <1>1, FencePutOutcome
  <2>2. at[p].h \in Head /\ at[p].h # None
    BY <1>0, <2>1, LocalFields DEF Shape, Fenced
  <2>3. QED
    BY <1>0, <1>1, <2>1, <2>2, PendingRecord DEF PubWritten
<1>2. CASE RecoverCommit(p) \/ CommitPub(p)
  <2>1. /\ at[p].pc \in {"recoverCommit", "commitPub"}
        /\ UNCHANGED pub \/ PubWritten(at[p].q, CommittedPub(at[p].q))
    BY <1>0, <1>2, RecoverCommitOutcome, CommitPubOutcome
  <2>2. at[p].q \in Publication
    BY <1>0, <2>1, LocalFields DEF Shape, Recovering, Storing
  <2>3. QED
    BY <1>2, <2>1, <2>2, CommittedRecord DEF PubWritten
<1>3. QED
  BY <1>1, <1>2 DEF WritesPub

(* The manifest that a PUT writes, if it is applied.                       *)
LEMMA ManifestPut ==
  ASSUME TypeInv, NEW p \in Procs, WritesManifest(p)
  PROVE  \/ UNCHANGED manifest
         \/ /\ RecoverPut(p) /\ at[p].pc = "recoverPut" /\ at[p].q \in Publication
            /\ manifest = at[p].q.cp.base /\ manifest' = at[p].q.cp.content
         \/ /\ PublishManifest(p) /\ at[p].pc = "putManifest" /\ at[p].h \in Head
            /\ manifest = at[p].h.cp.base /\ manifest' = at[p].h.cp.content
<1>0. TypeOK /\ at[p] \in Local /\ Shape(at[p])
  BY Typed
<1>1. CASE RecoverPut(p)
  <2>1. /\ at[p].pc = "recoverPut"
        /\ UNCHANGED manifest \/ ManifestWritten(at[p].q.cp.base, at[p].q.cp.content)
    BY <1>0, <1>1, RecoverPutOutcome
  <2>2. at[p].q \in Publication
    BY <1>0, <2>1, LocalFields DEF Shape, Recovering
  <2>3. QED
    BY <1>1, <2>1, <2>2 DEF ManifestWritten
<1>2. CASE PublishManifest(p)
  <2>1. /\ at[p].pc = "putManifest"
        /\ UNCHANGED manifest \/ ManifestWritten(at[p].h.cp.base, at[p].h.cp.content)
    BY <1>0, <1>2, PublishManifestOutcome
  <2>2. at[p].h \in Head
    BY <1>0, <2>1, LocalFields DEF Shape, Fenced, Storing
  <2>3. QED
    BY <1>2, <2>1, <2>2 DEF ManifestWritten
<1>3. QED
  BY <1>1, <1>2 DEF WritesManifest

(* The records in the bucket stay well formed, and none disappears.        *)
LEMMA BucketTyped ==
  ASSUME TypeInv, NEW p \in Procs, Step(p) \/ Call(p)
  PROVE  /\ manifest' \in Content
         /\ head' \in [Sessions -> Head \cup {None}]
         /\ pub' \in Publication \cup {None}
         /\ \A c \in cands' : c \in Content
         /\ acked' \subseteq Ops
         /\ \A s \in Sessions : head[s] # None => head'[s] # None
         /\ pub # None => pub' # None
<1>0. /\ TypeOK /\ at[p] \in Local /\ Shape(at[p]) /\ manifest \in Content
      /\ pub \in Publication \cup {None} /\ head \in [Sessions -> Head \cup {None}]
      /\ acked \subseteq Ops /\ \A c \in cands : c \in Content
  BY Typed DEF TypeOK
<1>1. acked' \subseteq Ops
  <2>1. UNCHANGED acked \/ (Acks(p) /\ at[p].pc \in Completing)
    <3>1. CASE UNCHANGED acked
      BY <3>1
    <3>2. CASE FinalRead(p) \/ FinalPut(p) \/ FinalAgain(p)
      BY <1>0, <3>2, FinalEffects, FinalPutOutcome DEF Completing
    <3>3. QED
      BY <3>1, <3>2, StepFrame
  <2>2. at[p].pc \in Completing => at[p].op \in Ops
    BY Typed DEF Completing
  <2>3. QED
    BY <1>0, <2>1, <2>2 DEF Acks
<1>2. CASE ReadsOnly
  BY <1>0, <1>1, <1>2 DEF ReadsOnly
<1>3. CASE StoresCandidate(p)
  <2>1. CASE FinalizeCandidate(p) /\ cands' = cands \cup {at[p].cp.content}
    <3>1. at[p].cp \in Checkpoint
      BY <1>0, <2>1, LocalFields DEF FinalizeCandidate, Shape, Finalizing
    <3>2. QED
      BY <1>0, <1>1, <1>3, <2>1, <3>1, RecordFields DEF StoresCandidate
  <2>2. CASE PublishCandidate(p) /\ cands' = cands \cup {at[p].h.cp.content}
    <3>1. at[p].h \in Head
      BY <1>0, <2>2, LocalFields DEF PublishCandidate, Shape
    <3>2. QED
      BY <1>0, <1>1, <1>3, <2>2, <3>1, RecordFields DEF StoresCandidate
  <2>3. QED
    BY <1>3, <2>1, <2>2 DEF StoresCandidate
<1>4. CASE WritesHead(p)
  <2>1. UNCHANGED head \/ \E h \in Head : head' = [head EXCEPT ![at[p].sess] = h] /\ at[p].sess \in Sessions
    BY <1>4, HeadPut DEF PutsHead
  <2>2. /\ head' \in [Sessions -> Head \cup {None}]
        /\ \A s \in Sessions : head[s] # None => head'[s] # None
    BY <1>0, <2>1, NoneNot
  <2>3. QED
    BY <1>0, <1>1, <1>4, <2>2 DEF WritesHead
<1>5. CASE WritesPub(p)
  <2>1. UNCHANGED pub \/ pub' \in Publication
    BY <1>5, PubPut
  <2>2. QED
    BY <1>0, <1>1, <1>5, <2>1, NoneNot DEF WritesPub
<1>6. CASE WritesManifest(p)
  <2>1. manifest' \in Content
    BY <1>0, <1>6, ManifestPut, RecordFields
  <2>2. QED
    BY <1>0, <1>1, <1>6, <2>1 DEF WritesManifest
<1>7. QED
  BY <1>2, <1>3, <1>4, <1>5, <1>6, StepFrame

LEMMA TypeStep ==
  ASSUME TypeInv, NEW p \in Procs, Step(p) \/ Call(p)
  PROVE  TypeInv'
<1>1. Stepped(p) /\ Shape(at'[p])
  BY ShapeStep
<1>2. \A x \in Procs : Shape(at'[x])
  BY <1>1 DEF Stepped, Others, TypeInv
<1>3. Frame
  BY StepFrame
<1>4. TypeOK'
  BY <1>1, <1>3, BucketTyped DEF TypeInv, TypeOK, Stepped, Frame, Counted, gc
<1>5. /\ \A s \in Sessions : s \in expired' => head'[s] # None
      /\ "pub" \in expired' => pub' # None
  BY <1>3, BucketTyped DEF TypeInv, Frame
<1>6. QED
  BY <1>2, <1>4, <1>5 DEF TypeInv

(* The actions of the environment keep the processes as they are.          *)
LEMMA TypeForeignUpload ==
  ASSUME TypeInv, ForeignUpload
  PROVE  TypeInv' /\ manifest \subseteq manifest' /\ UNCHANGED <<head, pub, cands, at, gc, acked>>
<1>1. nforeign \in Nat /\ nforeign < MaxForeign /\ MaxForeign \in Nat /\ manifest \in Content
  BY SessionAssumption DEF TypeInv, TypeOK, ForeignUpload
<1>2. PICK k \in Nat : k = nforeign + 1 /\ k <= MaxForeign
  BY <1>1
<1>3. manifest' = manifest \cup {<<Foreign, k>>} /\ nforeign' = k
  BY <1>2 DEF ForeignUpload
<1>4. <<Foreign, k>> \in Entry
  BY DEF Entry
<1>5. manifest' \in Content /\ nforeign' \in 0..MaxForeign
  BY <1>1, <1>2, <1>3, <1>4 DEF Content
<1>6. TypeOK'
  BY <1>5 DEF TypeInv, TypeOK, ForeignUpload, gc
<1>7. QED
  BY <1>3, <1>6 DEF TypeInv, ForeignUpload

LEMMA TypeExpire ==
  ASSUME TypeInv, NEW x \in Sessions \cup {"pub"}, Expire(x)
  PROVE  TypeInv'
<1>1. nexpiry \in Nat /\ nexpiry < MaxExpiry /\ MaxExpiry \in Nat /\ nexpiry' = nexpiry + 1
  BY SessionAssumption DEF TypeInv, TypeOK, Expire
<1>2. nexpiry' \in 0..MaxExpiry
  BY <1>1
<1>3. TypeOK'
  BY <1>2 DEF TypeInv, TypeOK, Expire, requests
<1>4. /\ \A s \in Sessions : s \in expired' => head'[s] # None
      /\ "pub" \in expired' => pub' # None
  BY SessionAssumption DEF TypeInv, Expire
<1>5. QED
  BY <1>3, <1>4 DEF TypeInv, Expire, requests

LEMMA TypeGcHead ==
  ASSUME TypeInv, NEW s \in Sessions, GcExpireHead(s) \/ GcDeleteHead(s)
  PROVE  /\ TypeInv' /\ UNCHANGED <<manifest, pub, cands, at>>
         /\ \A t \in Sessions : head'[t] # None => head[t] # None /\ head'[t].cp = head[t].cp
<1>0. /\ head \in [Sessions -> Head \cup {None}] /\ head[s] # None /\ head[s] \in Head
      /\ lapsed \subseteq Ops /\ OpsOf[s] \subseteq Ops
  BY OpsIn DEF TypeInv, TypeOK, GcExpireHead, GcDeleteHead
<1>1. CASE GcExpireHead(s)
  <2> DEFINE h == [head[s] EXCEPT !.state = "expired"]
  <2>1. h \in Head /\ h.cp = head[s].cp
    BY <1>0 DEF Head
  <2>2. head' = [head EXCEPT ![s] = h]
    BY <1>0, <1>1 DEF GcExpireHead
  <2> HIDE DEF h
  <2>3. /\ head' \in [Sessions -> Head \cup {None}] /\ \A t \in Sessions : head[t] # None => head'[t] # None
        /\ \A t \in Sessions : head'[t] # None => head[t] # None /\ head'[t].cp = head[t].cp
    BY <1>0, <2>1, <2>2, NoneNot
  <2>4. TypeOK'
    BY <1>1, <2>3 DEF TypeInv, TypeOK, GcExpireHead, requests, gc
  <2>5. QED
    BY <1>1, <2>3, <2>4 DEF TypeInv, GcExpireHead, requests
<1>2. CASE GcDeleteHead(s)
  <2>1. head' = [head EXCEPT ![s] = None] /\ expired' = expired \ {s} /\ lapsed' = lapsed \cup OpsOf[s]
    BY <1>2 DEF GcDeleteHead
  <2>2. head' \in [Sessions -> Head \cup {None}] /\ head'[s] = None
        /\ \A t \in Sessions : t # s => head'[t] = head[t]
    BY <1>0, <2>1
  <2>3. TypeOK'
    BY <1>0, <1>2, <2>1, <2>2 DEF TypeInv, TypeOK, GcDeleteHead, requests
  <2>4. QED
    BY <1>2, <2>1, <2>2, <2>3 DEF TypeInv, GcDeleteHead, requests
<1>3. QED
  BY <1>1, <1>2

LEMMA TypeGcRest ==
  ASSUME TypeInv, GcMark \/ GcDeletePub \/ \E c \in doomed : GcDeleteCandidate(c)
  PROVE  /\ TypeInv' /\ UNCHANGED <<manifest, head, at>> /\ (pub' = pub \/ pub' = None)
<1>1. CASE GcMark
  <2>1. doomed' \subseteq cands
    BY <1>1 DEF GcMark
  <2>2. QED
    BY <1>1, <2>1 DEF TypeInv, TypeOK, GcMark, bucket, requests
<1>2. CASE GcDeletePub
  BY <1>2 DEF TypeInv, TypeOK, GcDeletePub, requests, gc
<1>3. ASSUME NEW c \in doomed, GcDeleteCandidate(c) PROVE TypeInv' /\ UNCHANGED <<manifest, head, pub, at>>
  BY <1>3 DEF TypeInv, TypeOK, GcDeleteCandidate, requests
<1>4. QED
  BY <1>1, <1>2, <1>3 DEF GcMark, GcDeletePub, bucket, requests

LEMMA TypeInit == ASSUME Init PROVE TypeInv
<1>1. Detached \in Local /\ Shape(Detached)
  BY DEF Detached, Local, Content, Pcs, Shape, Accepting, Finalizing, Claiming, Fenced, Recovering,
         Storing, Completing
<1>2. {} \in Content
  BY DEF Content
<1> HIDE DEF Detached
<1>3. TypeOK
  BY <1>1, <1>2, SessionAssumption DEF Init, TypeOK
<1>4. \A p \in Procs : Shape(at[p])
  BY <1>1 DEF Init
<1>5. QED
  BY <1>3, <1>4 DEF TypeInv, Init

LEMMA TypeNext == ASSUME TypeInv, [Next]_vars PROVE TypeInv'
<1>1. CASE UNCHANGED vars
  BY <1>1 DEF TypeInv, TypeOK, vars, bucket, requests, gc
<1>2. CASE Next
  BY <1>2, TypeStep, TypeForeignUpload, TypeExpire, TypeGcHead, TypeGcRest DEF Next, Cleanup
<1>3. QED
  BY <1>1, <1>2

LEMMA TypeAlways == Spec => []TypeInv
<1>1. Init => TypeInv
  BY TypeInit
<1>2. TypeInv /\ [Next]_vars => TypeInv'
  BY TypeNext
<1>3. QED
  BY <1>1, <1>2, PTL DEF Spec

(* Every record that is written to the bucket or held by a call of the     *)
(* session protocol is well formed, whatever fails, expires or is cleaned  *)
(* up.                                                                     *)
THEOREM TypeCorrect == Spec => []TypeOK
<1>1. TypeInv => TypeOK
  BY DEF TypeInv
<1>2. QED
  BY <1>1, TypeAlways, PTL

-----------------------------------------------------------------------------
(* The manifest only grows, and the checkpoints are sound.                 *)

LEMMA HonestGrows ==
  ASSUME NEW r, NEW m, NEW k, Honest(r, m), m \subseteq k
  PROVE  Honest(r, k)
  BY DEF Honest, Sound

LEMMA HonestReturned ==
  ASSUME NEW r, NEW n, NEW m, Honest(r, m), Returned(r, n)
  PROVE  Honest(n, m)
  BY DEF Honest, Returned, SameOverlay, Completing, Recovering, Storing

LEMMA HonestLeft ==
  ASSUME NEW n, NEW m, Left(n)
  PROVE  Honest(n, m)
  BY DEF Honest, Left, Completing, Recovering, Storing

(* The requests before which a call has established nothing more.          *)
Plain == {"checkpoint", "finalize", "finalizeCheckpoint", "acceptBase", "acceptPut", "acceptAgain",
          "finalizePut", "finalizeAgain", "publish", "publishCandidate", "claimHead", "claimAgain",
          "fence", "rehydrateBase"}

LEMMA HonestMoved ==
  ASSUME NEW r, NEW n, NEW m, NEW pc \in Plain, Honest(r, m),
         \/ Moved(r, n, pc)
         \/ \E h : MovedWithHead(r, n, pc, h) /\ (h # None => Sound(h.cp, m))
  PROVE  Honest(n, m)
<1>1. /\ n.pc = pc /\ SameAttachment(r, n) /\ SameOverlay(r, n)
      /\ n.cp = r.cp /\ n.q = r.q
      /\ n.h = r.h \/ (n.h # None => Sound(n.h.cp, m))
  BY DEF Moved, MovedWithHead
<1>2. QED
  BY <1>1 DEF Plain, Honest, SameAttachment, SameOverlay, Completing, Recovering, Storing

LEMMA HonestBranched ==
  ASSUME NEW r, NEW n, NEW q, NEW m, Honest(r, m), Branched(r, n, q), q # None => Sound(q.cp, m)
  PROVE  Honest(n, m)
<1>1. /\ n.h = r.h /\ n.q = q /\ n.cp = r.cp /\ SameAttachment(r, n) /\ SameOverlay(r, n)
      /\ \/ n.pc = "fencePut" /\ q = None
         \/ n.pc = "visible"
         \/ n.pc = "manifest" /\ q.cp = r.h.cp /\ q.state = "publishing"
         \/ n.pc = "fenceBase" /\ q.state = "committed"
         \/ n.pc = "recoverCandidate" /\ q.state = "publishing"
  BY DEF Branched, MovedWithPub, Matches
<1>2. QED
  BY <1>1 DEF Honest, SameAttachment, SameOverlay, Completing, Recovering, Storing

(* Every PUT of the manifest replaces a base by a content that extends it. *)
LEMMA ManifestGrows ==
  ASSUME TypeInv, BaseInv, NEW p \in Procs, Step(p) \/ Call(p)
  PROVE  manifest \subseteq manifest'
<1>1. CASE WritesManifest(p)
  <2>1. /\ Honest(at[p], manifest)
        /\ at[p].q \in Publication => at[p].q # None
        /\ at[p].h \in Head => at[p].h # None
    BY NoneNot DEF BaseInv
  <2>2. QED
    BY <1>1, <2>1, ManifestPut DEF Honest, Sound
<1>2. CASE ~WritesManifest(p)
  BY <1>2, StepFrame DEF ReadsOnly, StoresCandidate, WritesHead, WritesPub
<1>3. QED
  BY <1>1, <1>2

LEMMA HonestStep ==
  ASSUME TypeInv, BaseInv, NEW p \in Procs, Step(p) \/ Call(p)
  PROVE  Honest(at'[p], manifest')
<1> DEFINE r == at[p]
           n == at'[p]
           m == manifest'
<1>0. /\ Shape(r) /\ Honest(r, m) /\ manifest \subseteq m
      /\ r.pc # "idle" /\ HeadOf(p) # None => Sound(HeadOf(p).cp, m)
      /\ pub # None => Sound(pub.cp, m)
  <2>1. Honest(r, m) /\ manifest \subseteq m
    BY ManifestGrows, HonestGrows DEF BaseInv
  <2>2. \A x : Sound(x, manifest) => Sound(x, m)
    BY <2>1 DEF Sound
  <2>3. r.pc # "idle" => r.sess \in Sessions
    BY Typed
  <2>4. QED
    BY <2>1, <2>2, <2>3, Typed DEF BaseInv, HeadOf
<1> USE DEF Moved, MovedWithHead, MovedWithPub, SameAttachment, SameOverlay, Completing, Recovering, Storing
<1>1. CASE RehydrateHead(p)
  <2>1. /\ r.pc = "rehydrateHead"
        /\ MovedWithHead(r, n, "rehydrateBase", HeadOf(p)) \/ Left(n)
    BY <1>1, RehydrateHeadEffect
  <2>2. QED
    BY <1>0, <2>1, HonestLeft, HonestMoved DEF Plain
<1>2. CASE RehydrateBase(p)
  <2>1. /\ r.pc = "rehydrateBase"
        /\ \/ r.h = None /\ Installed(r, n, manifest, manifest, 0, None)
           \/ r.h # None /\ Installed(r, n, r.h.cp.base, r.h.cp.content, r.h.seq, r.h.cp)
           \/ Left(n)
    BY <1>2, RehydrateBaseEffect
  <2>2. r.cp = None
    BY <1>0, <2>1 DEF Shape
  <2>3. QED
    BY <1>0, <2>1, <2>2, HonestLeft DEF Honest, Installed, Sound, Shape
<1>3. CASE \E s \in Sessions : \E o \in OpsOf[s] : Attach(p, s, o)
  <2>1. PICK s \in Sessions : \E o \in OpsOf[s] : Attach(p, s, o)
    BY <1>3
  <2>2. PICK o \in OpsOf[s] : Attach(p, s, o)
    BY <2>1
  <2>3. Bound(n, s, o, natt + 1, head[s])
    BY <2>2, CallEffects
  <2>4. QED
    BY <2>3 DEF Bound, Honest
<1>4. CASE Detach(p) \/ Fail(p)
  <2>1. Left(n) \/ Returned(r, n)
    BY <1>4, CallEffects
  <2>2. QED
    BY <1>0, <2>1, HonestLeft, HonestReturned
<1>5. CASE CompleteRequest(p) \/ Upload(p)
  <2>1. \E pc \in {"checkpoint", "finalize", "publish"} : Moved(r, n, pc)
    BY <1>5, CallEffects
  <2>2. QED
    BY <1>0, <2>1, HonestMoved DEF Plain
<1>6. CASE SessionCheckpoint(p) \/ FinalizeCheckpoint(p)
  <2>1. \E pc \in {"accept", "finalizeCandidate"} : Checkpointed(r, n, pc)
    BY <1>6, AcceptEffects, FinalizeEffects
  <2>2. QED
    BY <1>0, <2>1 DEF Honest, Checkpointed
<1>7. CASE AcceptRead(p) \/ AcceptBase(p) \/ AcceptPut(p) \/ AcceptAgain(p)
  <2>1. \/ MovedWithHead(r, n, "acceptBase", HeadOf(p)) /\ r.pc = "accept"
        \/ \E pc \in {"acceptPut", "acceptAgain"} : Moved(r, n, pc)
        \/ Returned(r, n)
    BY <1>7, AcceptEffects
  <2>2. QED
    BY <1>0, <2>1, HonestReturned, HonestMoved DEF Plain
<1>8. CASE FinalizeRead(p) \/ FinalizeCandidate(p) \/ FinalizePut(p) \/ FinalizeAgain(p)
  <2>1. \/ MovedWithHead(r, n, "finalizeCheckpoint", HeadOf(p)) /\ r.pc = "finalize"
        \/ \E pc \in {"finalizePut", "finalizeAgain", "publish"} : Moved(r, n, pc)
        \/ Returned(r, n)
    BY <1>8, FinalizeEffects
  <2>2. QED
    BY <1>0, <2>1, HonestReturned, HonestMoved DEF Plain
<1>9. CASE PublishRead(p) \/ PublishCandidate(p) \/ ClaimHead(p) \/ ClaimAgain(p)
  <2>1. \/ MovedWithHead(r, n, "publishCandidate", HeadOf(p)) /\ r.pc = "publish"
        \/ \E pc \in {"claimHead", "fence", "claimAgain"} : Moved(r, n, pc)
        \/ MovedWithHead(r, n, "fence", HeadOf(p)) /\ r.pc = "claimAgain"
        \/ Returned(r, n)
    BY <1>9, PublishEffects
  <2>2. QED
    BY <1>0, <2>1, HonestReturned, HonestMoved DEF Plain
<1>10. CASE Fence(p) \/ FenceBase(p)
  <2>1. \/ Branched(r, n, pub)
        \/ r.pc = "fenceBase" /\ Moved(r, n, "fencePut")
        \/ Returned(r, n)
    BY <1>10, FenceEffects
  <2>2. CASE r.pc = "fenceBase" /\ Moved(r, n, "fencePut")
    BY <1>0, <2>2 DEF Honest
  <2>3. QED
    BY <1>0, <2>1, <2>2, HonestReturned, HonestBranched
<1>11. CASE FencePut(p)
  <2>1. /\ r.pc = "fencePut"
        /\ MovedWithPub(r, n, "manifest", PendingPub(p)) \/ Moved(r, n, "fenceAgain")
    BY <1>11, FenceEffects, FencePutOutcome, Typed
  <2>2. r.h # None
    BY <1>0, <2>1 DEF Shape, Fenced
  <2>3. PendingPub(p).state = "publishing" /\ PendingPub(p).cp = r.h.cp
    BY <2>2, PendingRecord, Typed
  <2>4. QED
    BY <1>0, <2>1, <2>2, <2>3 DEF Honest
<1>12. CASE FenceAgain(p)
  <2>1. /\ r.pc = "fenceAgain"
        /\ \/ MovedWithPub(r, n, "manifest", pub) /\ pub = PendingPub(p)
           \/ MovedWithPub(r, n, "visible", pub)
           \/ Returned(r, n)
    BY <1>12, FenceEffects
  <2>2. r.h # None
    BY <1>0, <2>1 DEF Shape, Fenced
  <2>3. PendingPub(p).state = "publishing" /\ PendingPub(p).cp = r.h.cp
    BY <2>2, PendingRecord, Typed
  <2>4. CASE MovedWithPub(r, n, "manifest", pub) /\ pub = PendingPub(p)
    BY <1>0, <2>2, <2>3, <2>4 DEF Honest
  <2>5. CASE MovedWithPub(r, n, "visible", pub)
    BY <1>0, <2>2, <2>5 DEF Honest
  <2>6. QED
    BY <1>0, <2>1, <2>4, <2>5, HonestReturned
<1>13. CASE RecoverCandidate(p) \/ RecoverRead(p) \/ RecoverPut(p) \/ RecoverAgain(p)
  <2>1. /\ r.pc \in Recovering
        /\ \/ \E pc \in {"recoverRead", "recoverPut", "recoverAgain"} : Moved(r, n, pc)
           \/ Moved(r, n, "recoverCommit") /\ r.q.cp.content \subseteq m
           \/ Returned(r, n)
    BY <1>0, <1>13, RecoverEffects, RecoverPutOutcome, Typed DEF ManifestWritten
  <2>2. CASE \E pc \in {"recoverRead", "recoverPut", "recoverAgain"} : Moved(r, n, pc)
    BY <1>0, <2>1, <2>2 DEF Honest
  <2>3. CASE Moved(r, n, "recoverCommit") /\ r.q.cp.content \subseteq m
    BY <1>0, <2>1, <2>3 DEF Honest
  <2>4. QED
    BY <1>0, <2>1, <2>2, <2>3, HonestReturned
<1>14. CASE RecoverCommit(p)
  <2>1. /\ r.pc = "recoverCommit"
        /\ Branched(r, n, CommittedPub(r.q)) \/ Moved(r, n, "recoverCommitAgain")
    BY <1>14, RecoverEffects, RecoverCommitOutcome, Typed
  <2>2. r.q \in Publication /\ r.q # None
    BY <1>0, <2>1, Typed, LocalFields DEF Shape
  <2>3. CommittedPub(r.q).cp = r.q.cp
    BY <2>2, CommittedRecord
  <2>4. Sound(CommittedPub(r.q).cp, m)
    BY <1>0, <2>2, <2>3 DEF Honest
  <2>5. CASE Moved(r, n, "recoverCommitAgain")
    BY <1>0, <2>1, <2>5 DEF Honest
  <2>6. QED
    BY <1>0, <2>1, <2>4, <2>5, HonestBranched
<1>15. CASE RecoverCommitAgain(p)
  <2>1. Branched(r, n, pub) \/ Returned(r, n)
    BY <1>15, RecoverEffects
  <2>2. QED
    BY <1>0, <2>1, HonestReturned, HonestBranched
<1>16. CASE Visible(p) \/ ReadManifest(p) \/ PublishManifest(p) \/ PublishManifestAgain(p)
            \/ ConfirmManifest(p) \/ CommitPub(p) \/ CommitPubAgain(p)
  <2>1. \/ /\ r.pc = "visible"
           /\ Moved(r, n, "finalRead") /\ r.h.cp.content \subseteq m
        \/ /\ r.pc \in Storing
           /\ \E pc \in {"putManifest", "putManifestAgain"} : Moved(r, n, pc)
        \/ /\ r.pc \in Storing /\ r.h.cp.content \subseteq m
           /\ \E pc \in {"confirm", "commitPub", "commitPubAgain", "finalRead"} : Moved(r, n, pc)
        \/ Returned(r, n)
    <3>1. r.pc \in {"confirm", "commitPub", "commitPubAgain"} => r.h.cp.content \subseteq m
      BY <1>0 DEF Honest
    <3>2. QED
      BY <1>0, <1>16, <3>1, StoreEffects, PublishManifestOutcome, CommitPubOutcome, Typed DEF ManifestWritten
  <2>2. CASE r.pc = "visible" /\ Moved(r, n, "finalRead") /\ r.h.cp.content \subseteq m
    BY <1>0, <2>2 DEF Honest
  <2>3. CASE r.pc \in Storing /\ \E pc \in {"putManifest", "putManifestAgain"} : Moved(r, n, pc)
    BY <1>0, <2>3 DEF Honest
  <2>4. CASE /\ r.pc \in Storing /\ r.h.cp.content \subseteq m
             /\ \E pc \in {"confirm", "commitPub", "commitPubAgain", "finalRead"} : Moved(r, n, pc)
    BY <1>0, <2>4 DEF Honest
  <2>5. QED
    BY <1>0, <2>1, <2>2, <2>3, <2>4, HonestReturned
<1>17. CASE FinalRead(p) \/ FinalPut(p) \/ FinalAgain(p)
  <2>1. \/ r.pc = "finalRead" /\ MovedWithFound(r, n, HeadOf(p))
        \/ r.pc = "finalPut" /\ Moved(r, n, "finalAgain")
        \/ Returned(r, n)
    BY <1>17, FinalEffects, FinalPutOutcome, Typed
  <2>2. CASE ~Returned(r, n)
    BY <1>0, <2>1, <2>2 DEF Honest, MovedWithFound
  <2>3. QED
    BY <1>0, <2>2, HonestReturned
<1>18. QED
  BY <1>1, <1>2, <1>3, <1>4, <1>5, <1>6, <1>7, <1>8, <1>9, <1>10, <1>11, <1>12, <1>13, <1>14, <1>15,
     <1>16, <1>17
     DEF Step, Call, Publishing

LEMMA BaseStep ==
  ASSUME TypeInv, BaseInv, NEW p \in Procs, Step(p) \/ Call(p)
  PROVE  BaseInv'
<1>0. /\ at[p] \in Local /\ Shape(at[p]) /\ Honest(at[p], manifest) /\ manifest \subseteq manifest'
      /\ head \in [Sessions -> Head \cup {None}]
  BY Typed, ManifestGrows DEF BaseInv, TypeOK
<1>1. \A x \in Procs : Honest(at'[x], manifest')
  <2>1. Stepped(p) /\ Honest(at'[p], manifest')
    BY ShapeStep, HonestStep
  <2>2. QED
    BY <1>0, <2>1, HonestGrows DEF Stepped, Others, BaseInv
<1>2. \A x : Sound(x, manifest) => Sound(x, manifest')
  BY <1>0 DEF Sound
<1>3. at[p].cp # None => Sound(at[p].cp, manifest)
  BY <1>0 DEF Honest, Sound
<1>4. \A s \in Sessions : head'[s] # None => Sound(head'[s].cp, manifest')
  <2>1. CASE UNCHANGED head
    BY <1>2, <2>1 DEF BaseInv
  <2>2. ASSUME NEW h \in Head, PutsHead(p, h), Sound(h.cp, manifest)
        PROVE  \A s \in Sessions : head'[s] # None => Sound(head'[s].cp, manifest')
    BY <1>0, <1>2, <2>2 DEF BaseInv, PutsHead
  <2>3. CASE WritesHead(p)
    <3>1. CASE at[p].cp \in Checkpoint /\ at[p].pc \in {"acceptPut", "finalizePut"}
               /\ (PutsHead(p, AcceptedHead(p)) \/ PutsHead(p, FinalizedHead(p)))
      <4>1. at[p].op \in Ops /\ at[p].cp # None /\ at[p].h \in Head \cup {None}
        BY <1>0, <3>1, Typed, NoneNot, LocalFields
      <4>2. (IF at[p].h = None THEN {} ELSE at[p].h.hist) \cup {at[p].op} \in SUBSET Ops
        BY <4>1, RecordFields
      <4>3. AcceptedHead(p) \in Head /\ AcceptedHead(p).cp = at[p].cp
        BY <3>1, <4>1, <4>2, AcceptedRecord DEF AcceptedHead
      <4>4. FinalizedHead(p) \in Head /\ FinalizedHead(p).cp = at[p].cp
        BY <4>1, FinalizedRecord, Typed
      <4>5. QED
        BY <1>3, <2>2, <3>1, <4>1, <4>3, <4>4
    <3>2. CASE at[p].h \in Head /\ PutsHead(p, ClaimedHead(p))
      <4>1. ClaimedHead(p) \in Head /\ ClaimedHead(p).cp = at[p].h.cp /\ at[p].h # None
        BY <3>2, ClaimedRecord, Typed, NoneNot
      <4>2. Sound(at[p].h.cp, manifest)
        BY <1>0, <4>1 DEF Honest
      <4>3. QED
        BY <2>2, <3>2, <4>1, <4>2
    <3>3. CASE at[p].h \in Head /\ at[p].g \in Head /\ PutsHead(p, FinalHead(p))
      <4>1. FinalHead(p) \in Head /\ FinalHead(p).cp = at[p].h.cp /\ at[p].h # None
        BY <3>3, FinalRecord, Typed, NoneNot
      <4>2. Sound(at[p].h.cp, manifest)
        BY <1>0, <4>1 DEF Honest
      <4>3. QED
        BY <2>2, <3>3, <4>1, <4>2
    <3>4. QED
      BY <2>1, <2>3, <3>1, <3>2, <3>3, HeadPut
  <2>4. QED
    BY <2>1, <2>3, StepFrame DEF ReadsOnly, StoresCandidate, WritesPub, WritesManifest
<1>5. /\ pub' # None => Sound(pub'.cp, manifest')
      /\ pub' # None /\ pub'.state = "committed" => pub'.cp.content \subseteq manifest'
  <2>1. CASE UNCHANGED pub
    BY <1>0, <1>2, <2>1 DEF BaseInv
  <2>2. CASE WritesPub(p)
    <3>1. CASE at[p].h \in Head /\ pub' = PendingPub(p)
      <4>1. pub'.state = "publishing" /\ pub'.cp = at[p].h.cp /\ at[p].h # None
        BY <3>1, PendingRecord, Typed, NoneNot
      <4>2. QED
        BY <1>0, <1>2, <4>1 DEF Honest
    <3>2. CASE /\ at[p].pc \in {"recoverCommit", "commitPub"} /\ at[p].q \in Publication
               /\ pub' = CommittedPub(at[p].q)
      <4>1. pub'.cp = at[p].q.cp /\ at[p].q # None
        BY <3>2, CommittedRecord, NoneNot
      <4>2. at[p].q.cp.content \subseteq manifest
        BY <1>0, <3>2 DEF Honest, Storing
      <4>3. QED
        BY <1>0, <1>2, <4>1, <4>2 DEF Honest
    <3>3. QED
      BY <2>1, <2>2, <3>1, <3>2, PubPut
  <2>3. QED
    BY <2>1, <2>2, StepFrame DEF ReadsOnly, StoresCandidate, WritesHead, WritesManifest
<1>6. QED
  BY <1>1, <1>4, <1>5 DEF BaseInv

LEMMA BaseInit == ASSUME Init PROVE BaseInv
<1>1. Left(Detached)
  BY DEF Detached, Left
<1>2. \A p \in Procs : Honest(at[p], manifest)
  BY <1>1, HonestLeft DEF Init
<1>3. QED
  BY <1>2 DEF BaseInv, Init

LEMMA BaseNext == ASSUME TypeInv, BaseInv, [Next]_vars PROVE BaseInv' /\ manifest \subseteq manifest'
<1>1. CASE UNCHANGED vars
  BY <1>1 DEF BaseInv, vars, bucket, requests
<1>2. CASE \E p \in Procs : Step(p) \/ Call(p)
  BY <1>2, BaseStep, ManifestGrows
<1>3. CASE ForeignUpload
  <2>1. manifest \subseteq manifest' /\ UNCHANGED <<head, pub, at>>
    BY <1>3, TypeForeignUpload
  <2>2. \A x : Sound(x, manifest) => Sound(x, manifest')
    BY <2>1 DEF Sound
  <2>3. \A p \in Procs : Honest(at'[p], manifest')
    BY <2>1, HonestGrows DEF BaseInv
  <2>4. QED
    BY <2>1, <2>2, <2>3 DEF BaseInv
<1>4. CASE \E x \in Sessions \cup {"pub"} : Expire(x)
  BY <1>4 DEF Expire, BaseInv, requests
<1>5. CASE \E s \in Sessions : GcExpireHead(s) \/ GcDeleteHead(s)
  <2>1. /\ UNCHANGED <<manifest, pub, at>>
        /\ \A t \in Sessions : head'[t] # None => head[t] # None /\ head'[t].cp = head[t].cp
    BY <1>5, TypeGcHead
  <2>2. QED
    BY <2>1 DEF BaseInv
<1>6. CASE GcMark \/ GcDeletePub \/ \E c \in doomed : GcDeleteCandidate(c)
  <2>1. UNCHANGED <<manifest, head, at>> /\ (pub' = pub \/ pub' = None)
    BY <1>6, TypeGcRest
  <2>2. QED
    BY <2>1 DEF BaseInv
<1>7. QED
  BY <1>1, <1>2, <1>3, <1>4, <1>5, <1>6 DEF Next, Cleanup

LEMMA BaseAlways == Spec => []BaseInv
<1>1. Init => BaseInv
  BY BaseInit
<1>2. TypeInv /\ BaseInv /\ [Next]_vars => BaseInv'
  BY BaseNext
<1>3. QED
  BY <1>1, <1>2, TypeAlways, PTL DEF Spec

(* Whatever is retried, recovered by another publisher, deleted by a       *)
(* cleanup or uploaded outside the protocol, no execution ever leaves the  *)
(* published manifest: every conditional PUT extends what it replaces.     *)
THEOREM PublishedForever == Spec => [][manifest \subseteq manifest']_vars
<1>1. TypeInv /\ BaseInv /\ [Next]_vars => [manifest \subseteq manifest']_vars
  BY BaseNext
<1>2. QED
  BY <1>1, TypeAlways, BaseAlways, PTL DEF Spec

(* A publication record that says committed is about executions that the   *)
(* manifest contains: the record is committed only after its candidate has *)
(* been seen as the manifest.                                              *)
CommittedRecordIsPublished ==
  pub # None /\ pub.state = "committed" => pub.cp.content \subseteq manifest

THEOREM CommittedFence == Spec => []CommittedRecordIsPublished
<1>1. BaseInv => CommittedRecordIsPublished
  BY DEF BaseInv, CommittedRecordIsPublished
<1>2. QED
  BY <1>1, BaseAlways, PTL

-----------------------------------------------------------------------------
(* While no record expires, the cleanup has nothing to do.                 *)

LEMMA NothingExpires ==
  ASSUME MaxExpiry = 0, TypeInv, Kept, [Next]_vars
  PROVE  Kept' /\ (UNCHANGED vars \/ ForeignUpload \/ \E p \in Procs : Step(p) \/ Call(p))
<1>1. CASE UNCHANGED vars
  BY <1>1 DEF Kept, vars, bucket, gc
<1>2. CASE \E p \in Procs : Step(p) \/ Call(p)
  <2>1. Frame
    BY <1>2, StepFrame
  <2>2. QED
    BY <1>2, <2>1 DEF Kept, Frame, gc
<1>3. CASE ForeignUpload
  BY <1>3 DEF Kept, ForeignUpload, gc
<1>4. ASSUME NEW x \in Sessions \cup {"pub"}, Expire(x) PROVE FALSE
  BY <1>4 DEF Expire, Kept
<1>5. ASSUME NEW s \in Sessions, GcExpireHead(s) \/ GcDeleteHead(s) PROVE FALSE
  BY <1>5 DEF GcExpireHead, GcDeleteHead, Kept
<1>6. ASSUME GcMark PROVE FALSE
  <2> DEFINE records == {<<s, head[s]>> : s \in {t \in Sessions : head[t] # None}}
                        \cup (IF pub = None THEN {} ELSE {<<"pub", pub>>})
             named(rs) == {r[2].cp.content : r \in rs}
             live == {r \in records : r[1] \notin expired}
  <2>1. doomed' = (named(records \ live) \ named(live)) \cap cands /\ doomed' # {}
    BY <1>6 DEF GcMark
  <2>2. records \ live = {}
    BY DEF Kept
  <2>3. QED
    BY <2>1, <2>2
<1>7. ASSUME GcDeletePub PROVE FALSE
  BY <1>7 DEF GcDeletePub, Kept
<1>8. ASSUME NEW c \in doomed, GcDeleteCandidate(c) PROVE FALSE
  BY <1>8 DEF Kept
<1>9. QED
  BY <1>1, <1>2, <1>3, <1>4, <1>5, <1>6, <1>7, <1>8 DEF Next, Cleanup

-----------------------------------------------------------------------------
(* The publication fence.                                                  *)

(* What a step does to the manifest m, the record f and the candidates c:  *)
(* it starts a publication, or commits one that is visible, or makes the   *)
(* pending candidate the manifest.                                         *)
Fate(m, f, c, mm, ff, cc) ==
  /\ c \subseteq cc
  /\ \/ mm = m /\ ff = f
     \/ /\ mm = m /\ ff # None
        /\ f # None => f.state = "committed" /\ ff.seq = f.seq + 1
     \/ /\ mm = m /\ ff # None
        /\ f # None /\ f.state = "publishing" /\ ff.seq = f.seq + 1 /\ f.cp.content \subseteq m
     \/ /\ ff = f
        /\ f # None /\ f.state = "publishing"
        /\ m = f.cp.base /\ mm = f.cp.content /\ m \subseteq mm

LEMMA AwaitedKept ==
  ASSUME NEW m, NEW f, NEW c, NEW mm, NEW ff, NEW cc, Fate(m, f, c, mm, ff, cc),
         NEW x, Sound(x, m), Awaited(x, m, f)
  PROVE  Awaited(x, mm, ff)
<1>1. CASE mm = m /\ ff = f
  BY <1>1
<1>2. CASE mm = m /\ (f # None => f.state = "committed")
  BY <1>2 DEF Awaited, Matches
<1>3. CASE mm = m /\ f # None /\ f.state = "publishing" /\ f.cp.content \subseteq m
  BY <1>3 DEF Awaited, Matches, Sound
<1>4. CASE f # None /\ f.state = "publishing" /\ m = f.cp.base /\ mm = f.cp.content /\ m \subseteq mm /\ ff = f
  <2>1. CASE mm = x.base
    <3>1. mm = m
      BY <1>4, <2>1 DEF Sound
    <3>2. QED
      BY <1>4, <3>1 DEF Awaited
  <2>2. CASE mm # x.base
    BY <2>2 DEF Awaited
  <2>3. QED
    BY <2>1, <2>2
<1>5. QED
  BY <1>1, <1>2, <1>3, <1>4 DEF Fate

LEMMA FencingKept ==
  ASSUME NEW m, NEW f \in Publication \cup {None}, NEW c, NEW mm, NEW ff \in Publication \cup {None}, NEW cc,
         Fate(m, f, c, mm, ff, cc), NEW r \in Local, Shape(r), Honest(r, m), Fencing(r, m, f, c)
  PROVE  Fencing(r, mm, ff, cc)
<1>0. /\ r.q \in Publication \cup {None} /\ (r.q # None => r.q.seq \in Nat)
      /\ (f # None => f.seq \in Nat) /\ (ff # None => ff.seq \in Nat)
  BY LocalFields, RecordFields
<1>1. r.pc \in Claiming \cup Fenced => r.h.cp.content \in cc
  BY DEF Fencing, Fate
<1>2. ff = f \/ (ff # None /\ (f # None => ff.seq = f.seq + 1))
  BY DEF Fate
<1>3. r.q # None => /\ ff # None /\ r.q.seq <= ff.seq
                    /\ r.q.seq = ff.seq => r.q = ff
  BY <1>0, <1>2 DEF Fencing
<1>4. r.pc = "fencePut" => (ff = r.q => mm = r.h.cp.base)
  <2>1. SUFFICES ASSUME r.pc = "fencePut", ff = r.q PROVE mm = r.h.cp.base
    OBVIOUS
  <2>2. r.q = None \/ r.q.state = "committed"
    BY <2>1 DEF Honest
  <2>3. ff = f
    <3>1. CASE r.q = None
      BY <1>2, <2>1, <3>1
    <3>2. CASE r.q # None
      BY <1>0, <1>2, <2>1, <3>2 DEF Fencing
    <3>3. QED
      BY <3>1, <3>2
  <2>4. m = r.h.cp.base
    BY <2>1, <2>3 DEF Fencing
  <2>5. mm = m
    BY <2>1, <2>2, <2>3 DEF Fate
  <2>6. QED
    BY <2>4, <2>5
<1>5. r.pc \in {"manifest", "putManifest"} => Awaited(r.h.cp, mm, ff)
  <2>1. r.pc \in {"manifest", "putManifest"} => r.h # None
    BY DEF Shape, Fenced, Storing
  <2>2. QED
    BY <2>1, AwaitedKept DEF Honest, Fencing
<1>6. r.pc \in {"recoverCandidate", "recoverRead", "recoverPut"} => Awaited(r.q.cp, mm, ff)
  <2>1. r.pc \in {"recoverCandidate", "recoverRead", "recoverPut"} => r.q # None
    BY DEF Shape, Recovering
  <2>2. QED
    BY <2>1, AwaitedKept DEF Honest, Fencing
<1>7. QED
  BY <1>1, <1>3, <1>4, <1>5, <1>6 DEF Fencing

(* Every step is one of these, and keeps the pending record recoverable.   *)
LEMMA FateStep ==
  ASSUME TypeInv, BaseInv, FenceInv, NEW p \in Procs, Step(p) \/ Call(p)
  PROVE  /\ Fate(manifest, pub, cands, manifest', pub', cands')
         /\ PendingRecoverable'
         /\ pub' = None => manifest' = {}
<1>0. /\ Honest(at[p], manifest) /\ Fencing(at[p], manifest, pub, cands) /\ Shape(at[p]) /\ at[p] \in Local
      /\ PendingRecoverable /\ (pub = None => manifest = {})
  BY Typed DEF BaseInv, FenceInv
<1>1. CASE ReadsOnly \/ StoresCandidate(p) \/ WritesHead(p)
  <2>1. manifest' = manifest /\ pub' = pub /\ cands \subseteq cands'
    BY <1>1 DEF ReadsOnly, StoresCandidate, WritesHead
  <2>2. QED
    BY <1>0, <2>1 DEF Fate, PendingRecoverable
<1>2. CASE WritesPub(p)
  <2>0. manifest' = manifest /\ cands' = cands
    BY <1>2 DEF WritesPub
  <2>1. CASE UNCHANGED pub
    BY <1>0, <2>0, <2>1 DEF Fate, PendingRecoverable
  <2>2. CASE /\ at[p].pc = "fencePut" /\ pub = at[p].q /\ pub' = PendingPub(p)
             /\ PendingPub(p) \in Publication /\ at[p].h \in Head
    <3>1. /\ pub' # None /\ pub'.state = "publishing" /\ pub'.cp = at[p].h.cp
          /\ pub # None => pub'.seq = pub.seq + 1
      BY <2>2, PendingRecord, Typed, NoneNot
    <3>2. pub # None => pub.state = "committed"
      BY <1>0, <2>2 DEF Honest
    <3>3. manifest = at[p].h.cp.base /\ at[p].h.cp.content \in cands
      BY <1>0, <2>2 DEF Fencing, Fenced
    <3>4. QED
      BY <2>0, <3>1, <3>2, <3>3 DEF Fate, PendingRecoverable
  <2>3. CASE /\ at[p].pc \in {"recoverCommit", "commitPub"} /\ pub = at[p].q
             /\ pub' = CommittedPub(at[p].q) /\ CommittedPub(at[p].q) \in Publication
             /\ at[p].q \in Publication
    <3>1. pub # None /\ pub' # None /\ pub'.state = "committed" /\ pub'.seq = pub.seq + 1
      BY <2>3, CommittedRecord, NoneNot
    <3>2. pub.state = "publishing" /\ pub.cp.content \subseteq manifest
      BY <1>0, <2>3 DEF Honest, Storing, Recovering
    <3>3. QED
      BY <2>0, <3>1, <3>2 DEF Fate, PendingRecoverable
  <2>4. QED
    BY <1>2, <2>1, <2>2, <2>3, PubPut
<1>3. CASE WritesManifest(p)
  <2>0. pub' = pub /\ cands' = cands
    BY <1>3 DEF WritesManifest
  <2>1. CASE UNCHANGED manifest
    BY <1>0, <2>0, <2>1 DEF Fate, PendingRecoverable
  <2>2. ASSUME NEW x, manifest = x.base, manifest' = x.content, Sound(x, manifest),
               Awaited(x, manifest, pub), manifest' # manifest
        PROVE  /\ Fate(manifest, pub, cands, manifest', pub', cands')
               /\ PendingRecoverable'
               /\ pub' = None => manifest' = {}
    <3>1. pub # None /\ pub.state = "publishing" /\ pub.cp = x
      BY <2>2 DEF Awaited, Matches
    <3>2. manifest \subseteq manifest'
      BY <2>2 DEF Sound
    <3>3. QED
      BY <1>0, <2>0, <2>2, <3>1, <3>2 DEF Fate, PendingRecoverable
  <2>3. CASE /\ at[p].pc = "recoverPut" /\ at[p].q \in Publication
             /\ manifest = at[p].q.cp.base /\ manifest' = at[p].q.cp.content
    <3>1. Sound(at[p].q.cp, manifest) /\ Awaited(at[p].q.cp, manifest, pub)
      BY <1>0, <2>3, NoneNot DEF Honest, Fencing
    <3>2. QED
      BY <2>1, <2>2, <2>3, <3>1
  <2>4. CASE /\ at[p].pc = "putManifest" /\ at[p].h \in Head
             /\ manifest = at[p].h.cp.base /\ manifest' = at[p].h.cp.content
    <3>1. Sound(at[p].h.cp, manifest) /\ Awaited(at[p].h.cp, manifest, pub)
      BY <1>0, <2>4, NoneNot DEF Honest, Fencing
    <3>2. QED
      BY <2>1, <2>2, <2>4, <3>1
  <2>5. QED
    BY <1>3, <2>1, <2>3, <2>4, ManifestPut
<1>4. QED
  BY <1>1, <1>2, <1>3, StepFrame

LEMMA FencingIdle ==
  ASSUME NEW n, NEW m, NEW f, NEW c, n.q = None, n.pc \notin Claiming \cup Fenced
  PROVE  Fencing(n, m, f, c)
  BY DEF Fencing, Claiming, Fenced, Recovering, Storing

LEMMA FencingReturned ==
  ASSUME NEW n, NEW m, NEW f, NEW c, Left(n) \/ \E r : Returned(r, n)
  PROVE  Fencing(n, m, f, c)
<1>1. n.q = None /\ n.pc \in {"idle", "attached"}
  BY DEF Left, Returned
<1>2. n.pc \notin Claiming \cup Fenced
  BY <1>1 DEF Claiming, Fenced, Recovering, Storing, Completing
<1>3. QED
  BY <1>1, <1>2, FencingIdle

(* The requests before which a publisher knows nothing more of the fence.  *)
LEMMA FencingMoved ==
  ASSUME NEW r, NEW n, NEW m, NEW f, NEW c, NEW pc, Fencing(r, m, f, c),
         n.pc = pc /\ n.q = r.q /\ n.h.cp = r.h.cp,
         r.pc \in Claiming \cup Fenced,
         \/ pc \in {"claimAgain", "fence", "fenceAgain", "recoverAgain", "recoverCommit", "recoverCommitAgain",
                    "visible", "putManifestAgain", "confirm", "commitPub", "commitPubAgain"} \cup Completing
         \/ pc = "recoverRead" /\ r.pc = "recoverCandidate"
         \/ pc = "recoverPut" /\ r.pc = "recoverRead"
         \/ pc = "putManifest" /\ r.pc = "manifest"
         \/ pc = "fencePut" /\ m = r.h.cp.base
  PROVE  Fencing(n, m, f, c)
  BY DEF Fencing, Completing, Awaited

LEMMA FencingBranched ==
  ASSUME NEW r, NEW n, NEW m, NEW f \in Publication \cup {None}, NEW c, Fencing(r, m, f, c),
         r.pc \in Claiming \cup Fenced, Branched(r, n, f), Sound(r.h.cp, m), f = None => m = {}
  PROVE  Fencing(n, m, f, c)
<1>0. f # None => f.seq \in Nat
  BY RecordFields
<1>1. /\ n.h = r.h /\ n.q = f
      /\ \/ n.pc = "fencePut" /\ f = None
         \/ n.pc \in {"visible", "fenceBase"}
         \/ n.pc = "manifest" /\ Matches(f, "publishing", r.h.cp)
         \/ n.pc = "recoverCandidate" /\ f # None /\ f.state = "publishing"
  BY DEF Branched, MovedWithPub
<1>2. n.pc = "fencePut" => m = n.h.cp.base
  BY <1>1 DEF Sound
<1>3. r.h.cp.content \in c
  BY DEF Fencing
<1>4. /\ n.pc \in {"manifest", "putManifest"} => Awaited(n.h.cp, m, f)
      /\ n.pc \in {"recoverCandidate", "recoverRead", "recoverPut"} => Awaited(n.q.cp, m, f)
  BY <1>1 DEF Awaited, Matches
<1>5. QED
  BY <1>0, <1>1, <1>2, <1>3, <1>4 DEF Fencing

LEMMA FencingStep ==
  ASSUME TypeInv, BaseInv, FenceInv, NEW p \in Procs, Step(p) \/ Call(p)
  PROVE  Fencing(at'[p], manifest', pub', cands')
<1> DEFINE r == at[p]
           n == at'[p]
           m == manifest'
           f == pub'
           c == cands'
<1>0. /\ r \in Local /\ Shape(r) /\ Honest(r, m) /\ Fencing(r, m, f, c)
      /\ f \in Publication \cup {None} /\ (f = None => m = {})
  <2>1. TypeInv' /\ Fate(manifest, pub, cands, m, f, c) /\ (f = None => m = {})
    BY FateStep, TypeStep
  <2>2. f \in Publication \cup {None}
    BY <2>1 DEF TypeInv, TypeOK
  <2>3. r \in Local /\ Shape(r) /\ Honest(r, manifest) /\ Fencing(r, manifest, pub, cands)
    BY Typed DEF BaseInv, FenceInv
  <2>4. Honest(r, m)
    BY <2>3, ManifestGrows, HonestGrows
  <2>5. QED
    BY <2>1, <2>2, <2>3, <2>4, FencingKept, Typed
<1>1. CASE RehydrateHead(p) \/ RehydrateBase(p)
  <2>1. Shape(n) /\ n.pc \in {"rehydrateBase", "attached", "idle"}
    BY <1>1, RehydrateHeadEffect, RehydrateBaseEffect, ShapeStep DEF MovedWithHead, Installed, Left
  <2>2. QED
    BY <2>1, FencingIdle DEF Shape, Claiming, Fenced, Recovering, Storing, Completing
<1>2. CASE \E s \in Sessions : \E o \in OpsOf[s] : Attach(p, s, o)
  <2>1. n.pc = "rehydrateHead" /\ n.q = None
    BY <1>2, CallEffects DEF Bound
  <2>2. QED
    BY <2>1, FencingIdle DEF Claiming, Fenced, Recovering, Storing, Completing
<1>3. CASE Detach(p) \/ Fail(p)
  BY <1>3, CallEffects, FencingReturned
<1>4. CASE \/ CompleteRequest(p) \/ Upload(p) \/ SessionCheckpoint(p) \/ FinalizeRead(p) \/ FinalizeCheckpoint(p)
  <2>1. \/ Returned(r, n)
        \/ /\ r.pc \in {"attached", "checkpoint", "finalize", "finalizeCheckpoint"}
           /\ n.pc \in {"checkpoint", "finalize", "publish", "accept", "finalizeCheckpoint", "finalizeCandidate"}
           /\ n.q = r.q
    BY <1>4, CallEffects, AcceptEffects, FinalizeEffects DEF Moved, MovedWithHead, Checkpointed
  <2>2. QED
    BY <1>0, <2>1, FencingReturned, FencingIdle DEF Shape, Claiming, Fenced, Recovering, Storing, Completing
<1>5. CASE \/ AcceptRead(p) \/ AcceptBase(p) \/ AcceptPut(p) \/ AcceptAgain(p)
           \/ FinalizeCandidate(p) \/ FinalizePut(p) \/ FinalizeAgain(p) \/ PublishRead(p)
  <2>1. \/ Returned(r, n)
        \/ /\ n.pc \in Accepting \cup Finalizing \cup {"publish", "publishCandidate"}
           /\ n.q = r.q
    BY <1>5, AcceptEffects, FinalizeEffects, PublishEffects DEF Moved, MovedWithHead, Accepting, Finalizing
  <2>2. CASE Returned(r, n)
    BY <2>2, FencingReturned
  <2>3. CASE /\ n.pc \in Accepting \cup Finalizing \cup {"publish", "publishCandidate"}
             /\ n.q = r.q
    BY <1>0, <2>3 DEF Fencing, Accepting, Finalizing, Claiming, Fenced, Recovering, Storing, Completing
  <2>4. QED
    BY <2>1, <2>2, <2>3
<1>6. CASE PublishCandidate(p)
  <2>1. /\ r.h.cp.content \in c
        /\ \/ n.pc \in {"claimHead", "fence"} /\ n.h = r.h /\ n.q = r.q
           \/ Returned(r, n)
    BY <1>6, PublishEffects DEF Moved
  <2>2. CASE Returned(r, n)
    BY <2>2, FencingReturned
  <2>3. CASE n.pc \in {"claimHead", "fence"} /\ n.h = r.h /\ n.q = r.q
    BY <1>0, <2>1, <2>3 DEF Fencing
  <2>4. QED
    BY <2>1, <2>2, <2>3
<1>7. CASE ClaimHead(p) \/ ClaimAgain(p)
  <2>1. /\ r.pc \in Claiming
        /\ \/ \E pc \in {"fence", "claimAgain"} : Moved(r, n, pc)
           \/ /\ MovedWithHead(r, n, "fence", HeadOf(p))
              /\ HeadOf(p) = ClaimedHead(p) \/ HeadOf(p).cp = r.h.cp
           \/ Returned(r, n)
    BY <1>7, PublishEffects, ClaimHeadOutcome, Typed DEF Matches, Claiming
  <2>2. r.h # None
    BY <1>0, <2>1 DEF Shape
  <2>3. ClaimedHead(p).cp = r.h.cp
    BY <2>2, ClaimedRecord, Typed
  <2>4. \/ n.pc \in {"fence", "claimAgain"} /\ n.q = r.q /\ n.h.cp = r.h.cp
        \/ Returned(r, n)
    BY <2>1, <2>3 DEF Moved, MovedWithHead
  <2>5. QED
    BY <1>0, <2>1, <2>4, FencingReturned, FencingMoved
<1>8. CASE Fence(p) \/ RecoverCommitAgain(p)
  <2>1. /\ r.pc \in {"fence", "recoverCommitAgain"} /\ f = pub
        /\ Branched(r, n, f) \/ Returned(r, n)
    BY <1>8, FenceEffects, RecoverEffects DEF Fence, RecoverCommitAgain, Reads, bucket
  <2>2. r.pc \in Fenced /\ r.h # None
    BY <1>0, <2>1 DEF Shape, Fenced, Recovering
  <2>3. Sound(r.h.cp, m)
    BY <1>0, <2>2 DEF Honest
  <2>4. QED
    BY <1>0, <2>1, <2>2, <2>3, FencingReturned, FencingBranched
<1>9. CASE FenceBase(p)
  <2>1. /\ r.pc = "fenceBase" /\ m = manifest
        /\ (Moved(r, n, "fencePut") /\ manifest = r.h.cp.base) \/ Returned(r, n)
    BY <1>9, FenceEffects DEF FenceBase, Reads, bucket
  <2>2. r.pc \in Fenced
    BY <2>1 DEF Fenced
  <2>3. QED
    BY <1>0, <2>1, <2>2, FencingReturned, FencingMoved DEF Moved
<1>10. CASE FencePut(p)
  <2>1. /\ r.pc = "fencePut"
        /\ \/ /\ PubWritten(r.q, PendingPub(p))
              /\ MovedWithPub(r, n, "manifest", PendingPub(p))
           \/ Moved(r, n, "fenceAgain")
    BY <1>10, FenceEffects, FencePutOutcome, Typed
  <2>2. r.pc \in Fenced /\ r.h # None
    BY <1>0, <2>1 DEF Shape, Fenced
  <2>3. CASE Moved(r, n, "fenceAgain")
    BY <1>0, <2>2, <2>3, FencingMoved DEF Moved
  <2>4. CASE f = PendingPub(p) /\ MovedWithPub(r, n, "manifest", f)
    <3>1. f.state = "publishing" /\ f.cp = r.h.cp /\ f # None
      BY <2>2, <2>4, PendingRecord, Typed, NoneNot
    <3>2. f.seq \in Nat
      BY <1>0, <3>1, RecordFields
    <3>3. n.pc = "manifest" /\ n.h = r.h /\ n.q = f /\ r.h.cp.content \in c
      BY <1>0, <2>2, <2>4 DEF MovedWithPub, Fencing
    <3>4. QED
      BY <3>1, <3>2, <3>3 DEF Fencing, Awaited, Matches
  <2>5. QED
    BY <2>1, <2>3, <2>4 DEF PubWritten
<1>11. CASE FenceAgain(p)
  <2>1. /\ r.pc = "fenceAgain" /\ f = pub
        /\ \/ MovedWithPub(r, n, "manifest", f) /\ f = PendingPub(p)
           \/ MovedWithPub(r, n, "visible", f) /\ Matches(f, "committed", r.h.cp)
           \/ Returned(r, n)
    BY <1>11, FenceEffects DEF FenceAgain, Reads, bucket
  <2>2. r.pc \in Fenced /\ r.h # None
    BY <1>0, <2>1 DEF Shape, Fenced
  <2>3. CASE Returned(r, n)
    BY <2>3, FencingReturned
  <2>4. CASE \/ MovedWithPub(r, n, "manifest", f) /\ f = PendingPub(p)
             \/ MovedWithPub(r, n, "visible", f) /\ Matches(f, "committed", r.h.cp)
    <3>1. f # None /\ f.cp = r.h.cp /\ (f = PendingPub(p) => f.state = "publishing")
      BY <2>2, <2>4, PendingRecord, Typed, NoneNot DEF Matches
    <3>2. f.seq \in Nat
      BY <1>0, <3>1, RecordFields
    <3>3. /\ n.pc = "visible" \/ (n.pc = "manifest" /\ f.state = "publishing")
          /\ n.h = r.h /\ n.q = f /\ r.h.cp.content \in c
      BY <1>0, <2>2, <2>4, <3>1 DEF MovedWithPub, Fencing
    <3>4. QED
      BY <3>1, <3>2, <3>3 DEF Fencing, Awaited, Matches
  <2>5. QED
    BY <2>1, <2>3, <2>4
<1>12. CASE RecoverCandidate(p) \/ RecoverRead(p) \/ RecoverPut(p) \/ RecoverAgain(p)
  <2>1. /\ r.pc \in {"recoverCandidate", "recoverRead", "recoverPut", "recoverAgain"}
        /\ \/ \E pc \in {"recoverAgain", "recoverCommit"} : Moved(r, n, pc)
           \/ Moved(r, n, "recoverRead") /\ r.pc = "recoverCandidate"
           \/ Moved(r, n, "recoverPut") /\ r.pc = "recoverRead"
           \/ Returned(r, n)
    BY <1>12, RecoverEffects, RecoverPutOutcome, Typed
  <2>2. r.pc \in Fenced
    BY <2>1 DEF Fenced, Recovering
  <2>3. QED
    BY <1>0, <2>1, <2>2, FencingReturned, FencingMoved DEF Moved
<1>13. CASE RecoverCommit(p)
  <2>1. /\ r.pc = "recoverCommit"
        /\ \/ PubWritten(r.q, CommittedPub(r.q)) /\ Branched(r, n, CommittedPub(r.q))
           \/ Moved(r, n, "recoverCommitAgain")
    BY <1>13, RecoverEffects, RecoverCommitOutcome, Typed
  <2>2. r.pc \in Fenced /\ r.h # None
    BY <1>0, <2>1 DEF Shape, Fenced, Recovering
  <2>3. Sound(r.h.cp, m)
    BY <1>0, <2>2 DEF Honest
  <2>4. CASE Moved(r, n, "recoverCommitAgain")
    BY <1>0, <2>2, <2>4, FencingMoved DEF Moved
  <2>5. CASE Branched(r, n, f)
    BY <1>0, <2>2, <2>3, <2>5, FencingBranched
  <2>6. QED
    BY <2>1, <2>4, <2>5 DEF PubWritten
<1>14. CASE Visible(p) \/ ReadManifest(p) \/ PublishManifest(p) \/ PublishManifestAgain(p)
            \/ ConfirmManifest(p) \/ CommitPub(p) \/ CommitPubAgain(p)
  <2>1. /\ r.pc \in {"visible"} \cup Storing
        /\ \/ \E pc \in {"finalRead", "putManifestAgain", "confirm", "commitPub", "commitPubAgain"} :
                 Moved(r, n, pc)
           \/ Moved(r, n, "putManifest") /\ r.pc = "manifest"
           \/ Returned(r, n)
    BY <1>14, StoreEffects, PublishManifestOutcome, CommitPubOutcome, Typed DEF Storing
  <2>2. r.pc \in Fenced
    BY <2>1 DEF Fenced
  <2>3. QED
    BY <1>0, <2>1, <2>2, FencingReturned, FencingMoved DEF Moved, Completing
<1>15. CASE FinalRead(p) \/ FinalPut(p) \/ FinalAgain(p)
  <2>1. /\ r.pc \in Completing
        /\ \/ n.pc \in {"finalPut", "finalAgain"} /\ n.h = r.h /\ n.q = r.q
           \/ Returned(r, n)
    BY <1>15, FinalEffects, FinalPutOutcome, Typed DEF MovedWithFound, Moved, Completing
  <2>2. r.pc \in Fenced
    BY <2>1 DEF Fenced
  <2>3. QED
    BY <1>0, <2>1, <2>2, FencingReturned, FencingMoved DEF Completing
<1>16. QED
  BY <1>1, <1>2, <1>3, <1>4, <1>5, <1>6, <1>7, <1>8, <1>9, <1>10, <1>11, <1>12, <1>13, <1>14, <1>15
     DEF Step, Call, Publishing

LEMMA FenceInit == ASSUME Init PROVE FenceInv
<1>1. Left(Detached)
  BY DEF Detached, Left
<1>2. \A p \in Procs : Fencing(at[p], manifest, pub, cands)
  BY <1>1, FencingReturned DEF Init
<1>3. QED
  BY <1>2 DEF FenceInv, Init, Kept, PendingRecoverable

LEMMA FenceNext ==
  ASSUME MaxExpiry = 0, MaxForeign = 0, TypeInv, BaseInv, FenceInv, [Next]_vars
  PROVE  FenceInv'
<1>0. Kept' /\ (UNCHANGED vars \/ ForeignUpload \/ \E p \in Procs : Step(p) \/ Call(p))
  BY NothingExpires DEF FenceInv
<1>1. CASE UNCHANGED vars
  BY <1>0, <1>1 DEF FenceInv, PendingRecoverable, vars, bucket, requests
<1>2. ~ForeignUpload
  BY DEF ForeignUpload, TypeInv, TypeOK
<1>3. ASSUME NEW p \in Procs, Step(p) \/ Call(p) PROVE FenceInv'
  <2>1. /\ Fate(manifest, pub, cands, manifest', pub', cands') /\ PendingRecoverable'
        /\ pub' = None => manifest' = {}
    BY <1>3, FateStep
  <2>2. Stepped(p) /\ Fencing(at'[p], manifest', pub', cands')
    BY <1>3, ShapeStep, FencingStep
  <2>3. pub \in Publication \cup {None} /\ pub' \in Publication \cup {None}
    BY <1>3, TypeStep DEF TypeInv, TypeOK
  <2>4. ASSUME NEW x \in Procs, x # p PROVE Fencing(at'[x], manifest', pub', cands')
    <3>1. /\ at'[x] = at[x] /\ at[x] \in Local /\ Shape(at[x]) /\ Honest(at[x], manifest)
          /\ Fencing(at[x], manifest, pub, cands)
      BY <2>2, <2>4, Typed DEF Stepped, Others, BaseInv, FenceInv
    <3>2. QED
      BY <2>1, <2>3, <3>1, FencingKept
  <2>5. QED
    BY <1>0, <2>1, <2>2, <2>4 DEF FenceInv
<1>4. QED
  BY <1>0, <1>1, <1>2, <1>3

(* While no record expires and every upload goes through the protocol, any *)
(* publisher that meets a pending publication record can finish it: its    *)
(* candidate is stored, and the manifest is the candidate or its base.     *)
THEOREM Recoverable ==
  ASSUME MaxExpiry = 0, MaxForeign = 0
  PROVE  Spec => []PendingRecoverable
<1>1. Init => FenceInv
  BY FenceInit
<1>2. TypeInv /\ BaseInv /\ FenceInv /\ [Next]_vars => FenceInv'
  BY FenceNext
<1>3. FenceInv => PendingRecoverable
  BY DEF FenceInv
<1>4. QED
  BY <1>1, <1>2, <1>3, TypeAlways, BaseAlways, PTL DEF Spec

-----------------------------------------------------------------------------
(* The order of the heads of a session.                                    *)

Checkpoints == Checkpoint \cup {None}
Heads == [Sessions -> Head \cup {None}]

LEMMA CpOfHead ==
  ASSUME NEW h \in Head \cup {None}
  PROVE  /\ CpOf(h) \in Checkpoints
         /\ h = None => CpOf(h) = None
         /\ h # None => CpOf(h) = h.cp /\ h.cp # None /\ h.cp \in Checkpoint
  BY RecordFields, NoneNot DEF CpOf, Checkpoints

LEMMA BelowSelf == ASSUME NEW x \in Checkpoints PROVE Below(x, x)
  BY RecordFields DEF Below, Checkpoints

LEMMA BelowTrans ==
  ASSUME NEW x \in Checkpoints, NEW y \in Checkpoints, NEW z \in Checkpoints, Below(x, y), Below(y, z)
  PROVE  Below(x, z)
<1>1. CASE x = None
  BY <1>1 DEF Below
<1>2. CASE x # None
  <2>1. /\ y # None /\ z # None /\ x.seq \in Nat /\ y.seq \in Nat /\ z.seq \in Nat
        /\ x.seq <= y.seq /\ y.seq <= z.seq
        /\ x.seq = y.seq => x = y
        /\ y.seq = z.seq => y = z
    BY <1>2, RecordFields DEF Below, Checkpoints
  <2>2. x.content \subseteq z.content
    BY <1>2, <2>1 DEF Below
  <2>3. x.seq <= z.seq /\ (x.seq = z.seq => x = z)
    BY <2>1
  <2>4. QED
    BY <2>1, <2>2, <2>3 DEF Below
<1>3. QED
  BY <1>1, <1>2

LEMMA BelowSame ==
  ASSUME NEW x \in Checkpoints, NEW y \in Checkpoints, Below(x, y), Below(y, x)
  PROVE  x = y
  BY RecordFields DEF Below, Checkpoints

(* What a step does to the manifest m and the heads H.                     *)
Advances(m, H, mm, HH) ==
  /\ m \subseteq mm
  /\ \A s \in Sessions : /\ Below(CpOf(H[s]), CpOf(HH[s]))
                         /\ Fixed(H[s]) => Fixed(HH[s]) /\ HH[s].cp = H[s].cp

LEMMA HeadStays ==
  ASSUME NEW m, NEW mm, NEW H \in Heads, NEW HH \in Heads, Advances(m, H, mm, HH),
         NEW s \in Sessions, HH[s] = None
  PROVE  H[s] = None
<1>1. H[s] \in Head \cup {None} /\ CpOf(HH[s]) = None
  BY CpOfHead DEF Heads
<1>2. QED
  BY <1>1, CpOfHead DEF Advances, Below

LEMMA OwnedKept ==
  ASSUME NEW m, NEW mm, NEW H \in Heads, NEW HH \in Heads, Advances(m, H, mm, HH),
         NEW C, Owned(C, H)
  PROVE  Owned(C, HH)
  BY HeadStays DEF Owned

LEMMA TruthfulKept ==
  ASSUME NEW m, NEW mm, NEW H \in Heads, NEW HH \in Heads, Advances(m, H, mm, HH),
         NEW h, NEW s, Truthful(h, s, m, H)
  PROVE  Truthful(h, s, mm, HH)
<1>1. Owned(h.cp.content, HH)
  BY OwnedKept DEF Truthful
<1>2. m \subseteq mm
  BY DEF Advances
<1>3. QED
  BY <1>1, <1>2 DEF Truthful

LEMMA BelowKept ==
  ASSUME NEW m, NEW mm, NEW H \in Heads, NEW HH \in Heads, Advances(m, H, mm, HH),
         NEW s \in Sessions, NEW x \in Checkpoints, Below(x, CpOf(H[s]))
  PROVE  Below(x, CpOf(HH[s]))
<1>1. CpOf(H[s]) \in Checkpoints /\ CpOf(HH[s]) \in Checkpoints /\ Below(CpOf(H[s]), CpOf(HH[s]))
  BY CpOfHead DEF Heads, Advances
<1>2. QED
  BY <1>1, BelowTrans

LEMMA LocalCheckpoints ==
  ASSUME NEW r \in Local
  PROVE  /\ CpOf(r.exp) \in Checkpoints /\ r.root \in Checkpoints /\ CpOf(r.h) \in Checkpoints
         /\ r.h # None => r.h.cp \in Checkpoints /\ r.h.cp \in Checkpoint /\ r.h \in Head
         /\ r.exp # None => r.exp \in Head /\ CpOf(r.exp) = r.exp.cp
  BY LocalFields, CpOfHead DEF Checkpoints

LEMMA CapturedKept ==
  ASSUME NEW m, NEW mm, NEW H \in Heads, NEW HH \in Heads, Advances(m, H, mm, HH),
         NEW r \in Local, r.sess \in Sessions, Captured(r, m, H)
  PROVE  Captured(r, mm, HH)
<1>1. Below(CpOf(r.exp), CpOf(HH[r.sess]))
  BY BelowKept, LocalCheckpoints DEF Captured
<1>2. r.exp # None => Truthful(r.exp, r.sess, mm, HH)
  BY TruthfulKept DEF Captured
<1>3. r.h # None => Truthful(r.h, r.sess, mm, HH) /\ Below(r.h.cp, CpOf(HH[r.sess]))
  BY BelowKept, TruthfulKept, LocalCheckpoints DEF Captured
<1>4. QED
  BY <1>1, <1>2, <1>3 DEF Captured

LEMMA RehydratedKept ==
  ASSUME NEW m, NEW mm, NEW H \in Heads, NEW HH \in Heads, Advances(m, H, mm, HH),
         NEW r \in Local, r.sess \in Sessions, Rehydrated(r, H)
  PROVE  Rehydrated(r, HH)
<1>1. Below(r.root, CpOf(HH[r.sess]))
  BY BelowKept, LocalCheckpoints DEF Rehydrated
<1>2. \A s \in Sessions : HH[s] = None => H[s] = None
  BY HeadStays
<1>3. QED
  BY <1>1, <1>2 DEF Rehydrated

LEMMA PublishesKept ==
  ASSUME NEW m, NEW mm, NEW H \in Heads, NEW HH \in Heads, Advances(m, H, mm, HH),
         NEW r \in Local, Shape(r), Publishes(r, m, H)
  PROVE  Publishes(r, mm, HH)
<1>1. r.pc # "idle" => r.sess \in Sessions
  BY DEF Shape
<1>2. ASSUME r.pc = "publish" PROVE HH[r.sess] # None /\ Contains(HH[r.sess].cp.content, r.op)
  <2>1. r.sess \in Sessions /\ H[r.sess] # None /\ Contains(H[r.sess].cp.content, r.op)
    BY <1>1, <1>2 DEF Publishes
  <2>2. H[r.sess] \in Head \cup {None} /\ HH[r.sess] \in Head \cup {None} /\ HH[r.sess] # None
    BY <2>1, HeadStays DEF Heads
  <2>3. CpOf(H[r.sess]) = H[r.sess].cp /\ H[r.sess].cp # None /\ CpOf(HH[r.sess]) = HH[r.sess].cp
    BY <2>1, <2>2, CpOfHead
  <2>4. H[r.sess].cp.content \subseteq HH[r.sess].cp.content
    BY <2>1, <2>3 DEF Advances, Below
  <2>5. QED
    BY <2>1, <2>2, <2>4 DEF Contains
<1>3. /\ r.pc = "publishCandidate" /\ r.h.state # "accepted" =>
            Fixed(HH[r.sess]) /\ HH[r.sess].cp = r.h.cp
      /\ r.pc \in Fenced => Fixed(HH[r.sess]) /\ HH[r.sess].cp = r.h.cp
  <2>1. r.pc \in Fenced => r.pc # "idle"
    BY DEF Fenced, Recovering, Storing, Completing
  <2>2. QED
    BY <1>1, <2>1 DEF Publishes, Advances
<1>4. r.pc \in {"finalPut", "finalAgain"} =>
          r.g.state = "publishing" /\ r.g.cp = r.h.cp /\ Truthful(r.g, r.sess, mm, HH)
  BY TruthfulKept DEF Publishes
<1>5. QED
  BY <1>2, <1>3, <1>4 DEF Publishes

LEMMA OrderedKept ==
  ASSUME NEW m, NEW mm, NEW H \in Heads, NEW HH \in Heads, Advances(m, H, mm, HH),
         NEW r \in Local, Shape(r), Ordered(r, m, H)
  PROVE  Ordered(r, mm, HH)
<1>1. r.pc # "idle" => r.sess \in Sessions
  BY DEF Shape
<1>2. r.pc # "idle" => Captured(r, mm, HH)
  BY <1>1, CapturedKept DEF Ordered
<1>3. r.pc \in Running => Rehydrated(r, HH)
  BY <1>1, RehydratedKept DEF Ordered, Running
<1>4. r.q # None => Once(r.q.cp.content) /\ Owned(r.q.cp.content, HH)
  BY OwnedKept DEF Ordered
<1>5. Publishes(r, mm, HH)
  BY PublishesKept DEF Ordered
<1>6. QED
  BY <1>2, <1>3, <1>4, <1>5 DEF Ordered

(* A head is replaced by one that extends it, and not once it is fixed.    *)
Replaced(H, HH, s, h) == HH = [H EXCEPT ![s] = h]

LEMMA HeadReplaced ==
  ASSUME NEW m, NEW H \in Heads, NEW s \in Sessions, NEW h \in Head, NEW HH,
         Replaced(H, HH, s, h),
         Below(CpOf(H[s]), h.cp), Fixed(H[s]) => Fixed(h) /\ h.cp = H[s].cp
  PROVE  HH \in Heads /\ HH[s] = h /\ Advances(m, H, m, HH)
<1>1. HH \in Heads /\ HH[s] = h /\ \A t \in Sessions : t # s => HH[t] = H[t]
  BY DEF Heads, Replaced
<1>2. CpOf(h) = h.cp
  BY CpOfHead, NoneNot
<1>3. \A t \in Sessions : CpOf(H[t]) \in Checkpoints
  BY CpOfHead DEF Heads
<1>4. QED
  BY <1>1, <1>2, <1>3, BelowSelf DEF Advances

(* The checkpoint of an attachment that replaces the head it captured.     *)
LEMMA Replacement ==
  ASSUME NEW r \in Local, Shape(r), NEW m, NEW H \in Heads, Honest(r, m), Ordered(r, m, H),
         r.pc \in {"acceptPut", "finalizePut"}, H[r.sess] = r.exp
  PROVE  /\ r.root = CpOf(r.exp) /\ Below(CpOf(r.exp), r.cp) /\ ~Fixed(r.exp)
         /\ r.h = r.exp /\ r.cp \in Checkpoint /\ r.sess \in Sessions /\ r.op \in OpsOf[r.sess]
         /\ r.cp.op = r.op /\ Once(r.cp.content)
         /\ \A t \in Sessions \ {r.sess} : H[t] = None => Of(r.cp.content, t) = {}
         /\ \A e \in Of(r.cp.content, r.sess) :
               e[1] \in (IF r.exp = None THEN {} ELSE r.exp.hist) \cup {r.op}
<1>1. /\ r.sess \in Sessions /\ r.op \in OpsOf[r.sess] /\ r.cp # None /\ r.cp \in Checkpoint
      /\ r.exp \in Head \cup {None}
  BY LocalFields DEF Shape, Accepting, Finalizing
<1>2. Rehydrated(r, H) /\ Captured(r, m, H) /\ Replaces(r)
  BY PcsIn DEF Ordered, Running
<1>3. r.cp.content = r.content /\ r.cp.seq = r.seq /\ r.cp.op = r.op
  BY <1>1 DEF Honest
<1>4. r.root = CpOf(r.exp)
  BY <1>2, BelowSame, LocalCheckpoints DEF Rehydrated
<1>5. r.exp # None => r.exp.state = "accepted"
  BY <1>2 DEF Replaces, Replacing
<1>6. ~Fixed(r.exp)
  BY <1>5 DEF Fixed
<1>7. r.h = r.exp
  BY <1>2 DEF Replaces
<1>8. Below(CpOf(r.exp), r.cp)
  <2>1. CASE r.root = None
    BY <1>4, <2>1 DEF Below
  <2>2. CASE r.root # None
    <3>1. r.root.seq \in Nat /\ r.seq \in Nat /\ r.root.seq < r.seq /\ r.root.content \subseteq r.content
      BY <1>1, <1>2, <2>2, LocalFields, LocalCheckpoints, RecordFields DEF Rehydrated, Checkpoints
    <3>2. r.root.seq <= r.cp.seq /\ r.root.seq # r.cp.seq
      BY <1>3, <3>1
    <3>3. QED
      BY <1>1, <1>3, <1>4, <3>1, <3>2 DEF Below
  <2>3. QED
    BY <2>1, <2>2
<1>9. ASSUME NEW e \in Of(r.cp.content, r.sess)
      PROVE  e[1] \in (IF r.exp = None THEN {} ELSE r.exp.hist) \cup {r.op}
  <2>0. e \in r.content /\ e[1] \in OpsOf[r.sess]
    BY <1>3, <1>9 DEF Of
  <2>1. CASE r.exp = None
    <3>1. r.root = None
      BY <1>4, <2>1 DEF CpOf
    <3>2. e = <<r.op, r.att>>
      BY <1>2, <2>0, <2>1, <3>1 DEF Rehydrated, Of
    <3>3. QED
      BY <2>1, <3>2
  <2>2. CASE r.exp # None
    <3>1. r.root = r.exp.cp /\ r.root # None
      BY <1>1, <1>4, <2>2, CpOfHead
    <3>2. e \in r.exp.cp.content \/ e = <<r.op, r.att>>
      BY <1>2, <2>0, <3>1 DEF Rehydrated
    <3>3. e \in r.exp.cp.content => e[1] \in r.exp.hist
      BY <1>2, <1>5, <2>0, <2>2 DEF Captured, Truthful, Of
    <3>4. QED
      BY <2>2, <3>2, <3>3
  <2>3. QED
    BY <2>1, <2>2
<1>10. Once(r.cp.content) /\ \A t \in Sessions \ {r.sess} : H[t] = None => Of(r.cp.content, t) = {}
  BY <1>2, <1>3 DEF Rehydrated
<1>11. QED
  BY <1>1, <1>3, <1>4, <1>6, <1>7, <1>8, <1>9, <1>10

(* Every step advances the heads, and what they then say is so.            *)
LEMMA HeadsStep ==
  ASSUME TypeInv, BaseInv, LogInv, NEW p \in Procs, Step(p) \/ Call(p)
  PROVE  /\ head \in Heads /\ head' \in Heads
         /\ Advances(manifest, head, manifest', head')
         /\ \A s \in Sessions : head'[s] # None => Truthful(head'[s], s, manifest', head')
<1>0. /\ head \in Heads /\ head' \in Heads /\ manifest \subseteq manifest'
      /\ at[p] \in Local /\ Shape(at[p]) /\ Honest(at[p], manifest) /\ Ordered(at[p], manifest, head)
  BY Typed, BucketTyped, ManifestGrows DEF TypeOK, Heads, BaseInv, LogInv
<1>1. CASE UNCHANGED head
  <2>1. \A s \in Sessions : CpOf(head[s]) \in Checkpoints
    BY <1>0, CpOfHead DEF Heads
  <2>2. Advances(manifest, head, manifest', head')
    BY <1>0, <1>1, <2>1, BelowSelf DEF Advances
  <2>3. QED
    BY <1>0, <1>1, <2>2, TruthfulKept DEF LogInv
<1>2. CASE WritesHead(p) /\ head' # head
  <2> DEFINE r == at[p]
  <2>0. manifest' = manifest
    BY <1>2 DEF WritesHead
  <2>1. ASSUME NEW h \in Head, PutsHead(p, h), Below(CpOf(head[r.sess]), h.cp),
               Fixed(head[r.sess]) => Fixed(h) /\ h.cp = head[r.sess].cp,
               h.state \in Live, h.op = h.cp.op, h.seq = h.cp.seq, h.op \in OpsOf[r.sess],
               Once(h.cp.content),
               \A t \in Sessions \ {r.sess} : head[t] = None => Of(h.cp.content, t) = {},
               h.state = "accepted" => \A e \in Of(h.cp.content, r.sess) : e[1] \in h.hist,
               h.state = "committed" => h.cp.content \subseteq manifest
        PROVE  /\ Advances(manifest, head, manifest', head')
               /\ \A s \in Sessions : head'[s] # None => Truthful(head'[s], s, manifest', head')
    <3>1. r.sess \in Sessions /\ Replaced(head, head', r.sess, h)
      BY <2>1 DEF PutsHead, Replaced
    <3>2. Advances(manifest, head, manifest', head') /\ head'[r.sess] = h
      BY <1>0, <2>0, <2>1, <3>1, HeadReplaced
    <3>3. \A t \in Sessions : t # r.sess => head'[t] = head[t]
      BY <1>0, <3>1 DEF Heads, Replaced
    <3>4. Owned(h.cp.content, head')
      BY <2>1, <3>2, <3>3, NoneNot DEF Owned
    <3>5. Truthful(h, r.sess, manifest', head')
      BY <2>0, <2>1, <3>4 DEF Truthful
    <3>6. ASSUME NEW s \in Sessions, s # r.sess, head'[s] # None
          PROVE  Truthful(head'[s], s, manifest', head')
      BY <1>0, <3>2, <3>3, <3>6, TruthfulKept DEF LogInv
    <3>7. QED
      BY <3>2, <3>5, <3>6
  <2>2. CASE /\ r.pc = "acceptPut" /\ HeadOf(p) = r.exp
             /\ PutsHead(p, AcceptedHead(p)) /\ r.cp \in Checkpoint
    <3>0. head[r.sess] = r.exp
      BY <2>2 DEF HeadOf
    <3>1. /\ Below(CpOf(r.exp), r.cp) /\ ~Fixed(r.exp)
          /\ r.h = r.exp /\ r.sess \in Sessions /\ r.op \in OpsOf[r.sess]
          /\ r.cp.op = r.op /\ Once(r.cp.content)
          /\ \A t \in Sessions \ {r.sess} : head[t] = None => Of(r.cp.content, t) = {}
          /\ \A e \in Of(r.cp.content, r.sess) :
               e[1] \in (IF r.exp = None THEN {} ELSE r.exp.hist) \cup {r.op}
      BY <1>0, <2>2, <3>0, Replacement
    <3>2. PICK hist \in SUBSET Ops : hist = (IF r.exp = None THEN {} ELSE r.exp.hist) \cup {r.op}
      <4>1. r.exp \in Head \cup {None} /\ r.op \in Ops
        BY <1>0, <3>1, LocalFields, OpsIn
      <4>2. (IF r.exp = None THEN {} ELSE r.exp.hist) \cup {r.op} \in SUBSET Ops
        BY <4>1, RecordFields
      <4>3. QED
        BY <4>2
    <3>3. PICK h \in Head : /\ h = AcceptedHead(p) /\ h.state = "accepted" /\ h.op = r.op
                            /\ h.seq = r.cp.seq /\ h.cp = r.cp /\ h.hist = hist
      <4>1. AcceptedHead(p) = [state |-> "accepted", op |-> r.op, seq |-> r.cp.seq, cp |-> r.cp,
                               hist |-> hist]
        BY <3>1, <3>2 DEF AcceptedHead
      <4>2. r.op \in Ops
        BY <3>1, OpsIn
      <4>3. QED
        BY <2>2, <4>1, <4>2, AcceptedRecord
    <3>4. PutsHead(p, h)
      BY <2>2, <3>3
    <3>5. h.state \in Live /\ h.state # "committed"
      BY <3>3 DEF Live
    <3>6. \A e \in Of(h.cp.content, r.sess) : e[1] \in h.hist
      BY <3>1, <3>2, <3>3
    <3>7. QED
      BY <1>0, <2>1, <3>0, <3>1, <3>3, <3>4, <3>5, <3>6
  <2>3. CASE /\ r.pc = "finalizePut" /\ HeadOf(p) = r.exp
             /\ PutsHead(p, FinalizedHead(p)) /\ r.cp \in Checkpoint
    <3>0. head[r.sess] = r.exp
      BY <2>3 DEF HeadOf
    <3>1. /\ Below(CpOf(r.exp), r.cp) /\ ~Fixed(r.exp)
          /\ r.h = r.exp /\ r.sess \in Sessions /\ r.op \in OpsOf[r.sess]
          /\ r.cp.op = r.op /\ Once(r.cp.content)
          /\ \A t \in Sessions \ {r.sess} : head[t] = None => Of(r.cp.content, t) = {}
      BY <1>0, <2>3, <3>0, Replacement
    <3>2. PICK h \in Head : /\ h = FinalizedHead(p) /\ h.state = "publishing" /\ h.op = r.op
                            /\ h.seq = r.cp.seq /\ h.cp = r.cp
      <4>1. r.op \in Ops /\ r.cp # None
        BY <2>3, <3>1, OpsIn, NoneNot
      <4>2. QED
        BY <4>1, FinalizedRecord, Typed
    <3>3. PutsHead(p, h)
      BY <2>3, <3>2
    <3>4. h.state \in Live /\ h.state # "committed" /\ h.state # "accepted"
      BY <3>2 DEF Live
    <3>5. QED
      BY <1>0, <2>1, <3>0, <3>1, <3>2, <3>3, <3>4
  <2>4. CASE /\ r.pc = "claimHead" /\ HeadOf(p) = r.h
             /\ PutsHead(p, ClaimedHead(p)) /\ r.h \in Head
    <3>0. head[r.sess] = r.h /\ r.h # None /\ r.sess \in Sessions
      BY <2>4, NoneNot DEF HeadOf, PutsHead
    <3>1. Truthful(r.h, r.sess, manifest, head) /\ r.h.state = "accepted"
      BY <1>0, <2>4, <3>0 DEF Ordered, Captured, Publishes, Claiming
    <3>2. PICK h \in Head : /\ h = ClaimedHead(p) /\ h.state = "publishing" /\ h.op = r.h.op
                            /\ h.seq = r.h.seq /\ h.cp = r.h.cp
      BY <3>0, ClaimedRecord, Typed
    <3>3. PutsHead(p, h)
      BY <2>4, <3>2
    <3>4. h.state \in Live /\ h.state # "committed" /\ h.state # "accepted" /\ ~Fixed(r.h)
      BY <3>1, <3>2 DEF Live, Fixed
    <3>5. Below(CpOf(r.h), h.cp)
      BY <2>4, <3>0, <3>2, CpOfHead, BelowSelf
    <3>6. /\ h.op = h.cp.op /\ h.seq = h.cp.seq /\ h.op \in OpsOf[r.sess] /\ Once(h.cp.content)
          /\ \A t \in Sessions \ {r.sess} : head[t] = None => Of(h.cp.content, t) = {}
      BY <3>1, <3>2 DEF Truthful, Owned
    <3>7. QED
      BY <1>0, <2>1, <3>0, <3>3, <3>4, <3>5, <3>6
  <2>5. CASE /\ r.pc = "finalPut" /\ HeadOf(p) = r.g
             /\ PutsHead(p, FinalHead(p)) /\ r.h \in Head /\ r.g \in Head
    <3>0. head[r.sess] = r.g /\ r.h # None /\ r.g # None /\ r.sess \in Sessions
      BY <2>5, NoneNot DEF HeadOf, PutsHead
    <3>1. Truthful(r.g, r.sess, manifest, head) /\ r.g.cp = r.h.cp /\ r.h.cp.content \subseteq manifest
      BY <1>0, <2>5, <3>0 DEF Ordered, Publishes, Honest, Completing
    <3>2. PICK h \in Head : /\ h = FinalHead(p) /\ h.state = "committed" /\ h.op = r.g.op
                            /\ h.seq = r.g.seq /\ h.cp = r.h.cp
      BY <3>0, FinalRecord, Typed
    <3>3. PutsHead(p, h)
      BY <2>5, <3>2
    <3>4. h.state \in Live /\ h.state # "accepted" /\ Fixed(h)
      BY <3>2, NoneNot DEF Live, Fixed
    <3>5. Below(CpOf(r.g), h.cp)
      BY <2>5, <3>0, <3>1, <3>2, CpOfHead, BelowSelf
    <3>6. /\ h.op = h.cp.op /\ h.seq = h.cp.seq /\ h.op \in OpsOf[r.sess] /\ Once(h.cp.content)
          /\ \A t \in Sessions \ {r.sess} : head[t] = None => Of(h.cp.content, t) = {}
      BY <3>1, <3>2 DEF Truthful, Owned
    <3>7. QED
      BY <1>0, <2>1, <3>0, <3>1, <3>2, <3>3, <3>4, <3>5, <3>6
  <2>6. QED
    BY <1>0, <1>2, <2>2, <2>3, <2>4, <2>5, HeadPut
<1>3. QED
  BY <1>0, <1>1, <1>2, StepFrame DEF ReadsOnly, StoresCandidate, WritesPub, WritesManifest

-----------------------------------------------------------------------------
(* What an attachment knows after a step.                                  *)

LEMMA CapturedMoved ==
  ASSUME NEW r, NEW n, NEW m, NEW H \in Heads, r.sess \in Sessions, Captured(r, m, H), SameAttachment(r, n),
         H[r.sess] # None => Truthful(H[r.sess], r.sess, m, H),
         n.h \in {r.h, None, H[r.sess]}
  PROVE  Captured(n, m, H)
<1>1. n.sess = r.sess /\ n.exp = r.exp
  BY DEF SameAttachment
<1>2. CASE n.h = H[r.sess]
  <2>1. H[r.sess] \in Head \cup {None}
    BY DEF Heads
  <2>2. H[r.sess] # None => Below(H[r.sess].cp, CpOf(H[r.sess]))
    BY <2>1, CpOfHead, BelowSelf
  <2>3. QED
    BY <1>1, <1>2, <2>2 DEF Captured
<1>3. CASE n.h \in {r.h, None}
  BY <1>1, <1>3 DEF Captured
<1>4. QED
  BY <1>2, <1>3

LEMMA RehydratedMoved ==
  ASSUME NEW r, NEW n, NEW H, Rehydrated(r, H), SameAttachment(r, n), SameOverlay(r, n),
         n.cp \in {r.cp, None}
  PROVE  Rehydrated(n, H)
  BY DEF Rehydrated, SameAttachment, SameOverlay

LEMMA OrderedLeft ==
  ASSUME NEW n, NEW m, NEW H, Left(n)
  PROVE  Ordered(n, m, H)
  BY DEF Left, Ordered, Running, Replaces, Publishes, Starting, Replacing, Claiming, Fenced, Recovering,
         Storing, Completing

(* The calls of an attachment that has been rehydrated.                    *)
LEMMA OrderedMoved ==
  ASSUME NEW r, NEW n, NEW m, NEW H \in Heads, r.sess \in Sessions, Ordered(r, m, H),
         r.pc \in Running, n.pc \in Running, SameAttachment(r, n), SameOverlay(r, n),
         H[r.sess] # None => Truthful(H[r.sess], r.sess, m, H),
         n.cp \in {r.cp, None}, n.h \in {r.h, None, H[r.sess]},
         n.q # r.q /\ n.q # None => Once(n.q.cp.content) /\ Owned(n.q.cp.content, H),
         Replaces(n), Publishes(n, m, H)
  PROVE  Ordered(n, m, H)
<1>1. n.pc # "idle" /\ n.pc # "rehydrateBase" /\ r.pc # "idle"
  BY DEF Running
<1>2. Captured(n, m, H)
  BY <1>1, CapturedMoved DEF Ordered
<1>3. Rehydrated(n, H)
  BY RehydratedMoved DEF Ordered
<1>4. n.q # None => Once(n.q.cp.content) /\ Owned(n.q.cp.content, H)
  BY DEF Ordered
<1>5. QED
  BY <1>1, <1>2, <1>3, <1>4 DEF Ordered

LEMMA PlainPublishes ==
  ASSUME NEW n, NEW m, NEW H, n.pc \notin {"publish", "publishCandidate"} \cup Claiming \cup Fenced
  PROVE  Publishes(n, m, H)
  BY DEF Publishes, Fenced, Completing

LEMMA PlainReplaces ==
  ASSUME NEW n, n.pc \notin Replacing
  PROVE  Replaces(n)
  BY DEF Replaces, Replacing, Starting

LEMMA OrderedReturned ==
  ASSUME NEW r, NEW n, NEW m, NEW H \in Heads, r.sess \in Sessions, Ordered(r, m, H),
         r.pc \in Running, Returned(r, n),
         H[r.sess] # None => Truthful(H[r.sess], r.sess, m, H)
  PROVE  Ordered(n, m, H)
<1>1. /\ n.pc = "attached" /\ SameAttachment(r, n) /\ SameOverlay(r, n)
      /\ n.cp = None /\ n.h = None /\ n.q = None
  BY DEF Returned
<1>2. n.pc \in Running /\ Replaces(n) /\ Publishes(n, m, H)
  BY <1>1, PcsIn, PlainPublishes, PlainReplaces
     DEF Running, Replacing, Starting, Claiming, Fenced, Recovering, Storing, Completing
<1>3. QED
  BY <1>1, <1>2, OrderedMoved

LEMMA FencedPublishes ==
  ASSUME NEW r, NEW n, NEW m, NEW H, Publishes(r, m, H), r.pc \in Fenced, n.pc \in Fenced,
         n.h = r.h /\ n.sess = r.sess /\ n.op = r.op,
         n.pc \in {"finalPut", "finalAgain"} =>
            n.g.state = "publishing" /\ n.g.cp = r.h.cp /\ Truthful(n.g, r.sess, m, H)
  PROVE  Publishes(n, m, H)
<1>1. n.pc # "publish" /\ n.pc # "publishCandidate" /\ n.pc \notin Claiming
  BY DEF Fenced, Recovering, Storing, Completing, Claiming
<1>2. QED
  BY <1>1 DEF Publishes

(* The moves of a call after it has passed the claim of the head.          *)
LEMMA OrderedFenced ==
  ASSUME NEW r, NEW n, NEW m, NEW H \in Heads, r.sess \in Sessions, Ordered(r, m, H),
         r.pc \in Fenced, n.pc \in Fenced, SameAttachment(r, n), SameOverlay(r, n), n.cp = r.cp, n.h = r.h,
         H[r.sess] # None => Truthful(H[r.sess], r.sess, m, H),
         n.q # r.q /\ n.q # None => Once(n.q.cp.content) /\ Owned(n.q.cp.content, H),
         n.pc \in {"finalPut", "finalAgain"} =>
            n.g.state = "publishing" /\ n.g.cp = r.h.cp /\ Truthful(n.g, r.sess, m, H)
  PROVE  Ordered(n, m, H)
<1>1. r.pc \in Running /\ n.pc \in Running
  BY DEF Running, Pcs, Fenced, Recovering, Storing, Completing
<1>2. n.sess = r.sess /\ n.op = r.op /\ Publishes(r, m, H)
  BY DEF SameAttachment, Ordered
<1>3. Publishes(n, m, H)
  BY <1>2, FencedPublishes
<1>4. n.pc \notin Replacing
  BY DEF Replacing, Starting, Fenced, Recovering, Storing, Completing
<1>5. Replaces(n)
  BY <1>4, PlainReplaces
<1>6. QED
  BY <1>1, <1>3, <1>5, OrderedMoved

(* operation_status said "new": the overlay has no execution of the        *)
(* operation, and the head can be replaced.                                *)
LEMMA StatusNew ==
  ASSUME TypeInv, LogInv, NEW p \in Procs, at[p].pc = "attached", Status(p) = "new"
  PROVE  /\ \A e \in at[p].content : e[1] = at[p].op => e = <<at[p].op, at[p].att>>
         /\ at[p].exp # None => /\ at[p].exp.state = "accepted" /\ at[p].exp.op # at[p].op
                                /\ at[p].op \notin at[p].exp.hist
<1> DEFINE r == at[p]
           h == HeadOf(p)
<1>0. /\ r \in Local /\ r.sess \in Sessions /\ r.op \in OpsOf[r.sess] /\ h \in Head \cup {None}
      /\ h = head[r.sess] /\ head \in Heads
  BY Typed DEF HeadOf, TypeOK, Heads
<1>1. Captured(r, manifest, head) /\ Rehydrated(r, head)
  BY PcsIn DEF LogInv, Ordered, Running
<1>2. /\ r.root \in Checkpoints /\ CpOf(r.exp) \in Checkpoints /\ CpOf(h) \in Checkpoints
      /\ Below(CpOf(r.exp), r.root) /\ Below(r.root, CpOf(h))
  BY <1>0, <1>1, LocalCheckpoints, CpOfHead DEF Rehydrated
<1>3. CASE h = None
  <2>1. r.root = None /\ CpOf(r.exp) = None
    BY <1>0, <1>2, <1>3, CpOfHead DEF Below
  <2>2. r.exp = None
    BY <1>0, <2>1, CpOfHead, LocalFields
  <2>3. Of(r.content, r.sess) \subseteq {<<r.op, r.att>>}
    BY <1>0, <1>1, <1>3, <2>1 DEF Rehydrated
  <2>4. \A e \in r.content : e[1] = r.op => e = <<r.op, r.att>>
    BY <1>0, <2>3 DEF Of
  <2>5. QED
    BY <2>2, <2>4
<1>4. CASE h # None
  <2>1. /\ h.op # r.op /\ h.state \notin {"committed", "publishing"} /\ r.exp = h
        /\ r.op \notin h.hist
    <3>1. h.state \in {"accepted", "publishing", "committed", "expired"}
      BY <1>0, <1>4, RecordFields
    <3>2. h.op # r.op
      BY <1>4, <3>1 DEF Status
    <3>3. QED
      BY <1>4, <3>2 DEF Status
  <2>2. Truthful(h, r.sess, manifest, head)
    BY <1>0, <1>4 DEF LogInv
  <2>3. h.state = "accepted"
    BY <2>1, <2>2 DEF Truthful, Live
  <2>4. r.root = h.cp /\ r.root # None
    BY <1>0, <1>2, <1>4, <2>1, BelowSame, CpOfHead
  <2>5. ASSUME NEW e \in r.content, e[1] = r.op PROVE e = <<r.op, r.att>>
    <3>1. e \in h.cp.content \/ e = <<r.op, r.att>>
      BY <1>1, <2>4 DEF Rehydrated
    <3>2. e \in h.cp.content => e[1] \in h.hist
      BY <1>0, <2>2, <2>3, <2>5 DEF Truthful, Of
    <3>3. QED
      BY <2>1, <2>5, <3>1, <3>2
  <2>6. QED
    BY <2>1, <2>3, <2>5
<1>5. QED
  BY <1>3, <1>4

(* It said "accepted" or "committed": the head contains the operation.     *)
LEMMA StatusKnown ==
  ASSUME TypeInv, BaseInv, LogInv, NEW p \in Procs, at[p].pc = "attached",
         Status(p) \in {"accepted", "committed"}
  PROVE  HeadOf(p) # None /\ Contains(HeadOf(p).cp.content, at[p].op)
<1>1. HeadOf(p) # None /\ HeadOf(p).op = at[p].op
  BY DEF Status
<1>2. at[p].sess \in Sessions /\ HeadOf(p) = head[at[p].sess]
  BY Typed DEF HeadOf
<1>3. HeadOf(p).cp.op = HeadOf(p).op /\ <<HeadOf(p).cp.op, HeadOf(p).cp.att>> \in HeadOf(p).cp.content
  BY <1>1, <1>2 DEF LogInv, Truthful, BaseInv, Sound
<1>4. QED
  BY <1>1, <1>3 DEF Contains

(* A checkpoint adds the one execution of its operation.                   *)
LEMMA OrderedCheckpoint ==
  ASSUME NEW r \in Local, NEW n, NEW m, NEW H \in Heads, Shape(r), Ordered(r, m, H),
         \/ r.pc = "checkpoint" /\ Checkpointed(r, n, "accept")
         \/ r.pc = "finalizeCheckpoint" /\ Checkpointed(r, n, "finalizeCandidate"),
         H[r.sess] # None => Truthful(H[r.sess], r.sess, m, H)
  PROVE  Ordered(n, m, H)
<1> DEFINE own == <<r.op, r.att>>
<1>0. /\ r.sess \in Sessions /\ r.op \in OpsOf[r.sess] /\ r.seq \in Nat
      /\ r.pc \in Running /\ r.pc \in Starting /\ r.pc # "idle"
  BY PcsIn, LocalFields DEF Shape, Running, Starting
<1>1. Captured(r, m, H) /\ Rehydrated(r, H) /\ Replaces(r)
  BY <1>0 DEF Ordered
<1>2. /\ SameAttachment(r, n) /\ n.root = r.root /\ n.content = r.content \cup {own} /\ n.seq = r.seq + 1
      /\ n.h = r.h /\ n.q = r.q
      /\ \/ n.pc = "accept"
         \/ n.pc = "finalizeCandidate" /\ r.pc = "finalizeCheckpoint"
  BY DEF Checkpointed
<1>3. n.sess = r.sess /\ n.op = r.op /\ n.att = r.att /\ n.exp = r.exp
  BY <1>2 DEF SameAttachment
<1>4. Captured(n, m, H)
  BY <1>0, <1>1, <1>2, CapturedMoved
<1>5. \A e \in r.content : e[1] = r.op => e = own
  BY <1>0, <1>1 DEF Replaces
<1>6. Once(n.content)
  <2>1. Once(r.content)
    BY <1>1 DEF Rehydrated
  <2>2. own[1] = r.op
    OBVIOUS
  <2>3. QED
    BY <1>2, <1>5, <2>1, <2>2 DEF Once
<1>7. ASSUME NEW s \in Sessions \ {r.sess}, H[s] = None PROVE Of(n.content, s) = {}
  <2>1. r.op \notin OpsOf[s]
    BY <1>0, SessionAssumption
  <2>2. Of(r.content, s) = {}
    BY <1>1, <1>7 DEF Rehydrated
  <2>3. QED
    BY <1>2, <2>1, <2>2 DEF Of
<1>8. r.root # None => /\ r.root.content \subseteq n.content /\ r.root.seq < n.seq /\ r.root.seq <= n.seq
                       /\ \A e \in n.content : e \in r.root.content \/ e = own
  <2>1. r.root # None => r.root.seq \in Nat
    BY LocalCheckpoints, RecordFields DEF Checkpoints
  <2>2. r.root # None => r.root.seq <= r.seq
    BY <1>1 DEF Rehydrated
  <2>3. r.root # None => r.root.seq < n.seq /\ r.root.seq <= n.seq
    BY <1>0, <1>2, <2>1, <2>2
  <2>4. QED
    BY <1>1, <1>2, <2>3 DEF Rehydrated
<1>9. r.root = None /\ H[r.sess] = None => Of(n.content, r.sess) \subseteq {own}
  BY <1>1, <1>2 DEF Rehydrated, Of
<1>10. Below(CpOf(r.exp), r.root) /\ Below(r.root, CpOf(H[r.sess]))
  BY <1>1 DEF Rehydrated
<1>11. Rehydrated(n, H)
  BY <1>2, <1>3, <1>6, <1>7, <1>8, <1>9, <1>10 DEF Rehydrated
<1>12. Replaces(n)
  BY <1>0, <1>1, <1>2, <1>3 DEF Replaces, Starting, Replacing
<1>13. Publishes(n, m, H)
  BY <1>2, PlainPublishes DEF Claiming, Fenced, Recovering, Storing, Completing
<1>14. n.q # None => Once(n.q.cp.content) /\ Owned(n.q.cp.content, H)
  BY <1>2 DEF Ordered
<1>15. QED
  BY <1>2, <1>4, <1>11, <1>12, <1>13, <1>14 DEF Ordered

LEMMA OrderedStep ==
  ASSUME AskStatus, TypeInv, BaseInv, LogInv, NEW p \in Procs, Step(p) \/ Call(p)
  PROVE  Ordered(at'[p], manifest', head')
<1> DEFINE r == at[p]
           n == at'[p]
           m == manifest'
           H == head'
<1>0. /\ r \in Local /\ Shape(r) /\ H \in Heads /\ Honest(r, m) /\ Ordered(r, m, H)
      /\ Advances(manifest, head, m, H) /\ head \in Heads
      /\ \A s \in Sessions : H[s] # None => Truthful(H[s], s, m, H)
      /\ r.pc # "idle" => r.sess \in Sessions /\ r.op \in OpsOf[r.sess]
  <2>1. /\ head \in Heads /\ H \in Heads /\ Advances(manifest, head, m, H)
        /\ \A s \in Sessions : H[s] # None => Truthful(H[s], s, m, H)
    BY HeadsStep
  <2>2. /\ r \in Local /\ Shape(r) /\ Ordered(r, manifest, head) /\ Honest(r, manifest)
        /\ r.pc # "idle" => r.sess \in Sessions /\ r.op \in OpsOf[r.sess]
    BY Typed DEF LogInv, BaseInv
  <2>3. Ordered(r, m, H)
    BY <2>1, <2>2, OrderedKept
  <2>4. Honest(r, m)
    BY <2>2, ManifestGrows, HonestGrows
  <2>5. QED
    BY <2>1, <2>2, <2>3, <2>4
<1>a. ASSUME Returned(r, n), r.pc \in Running PROVE Ordered(n, m, H)
  BY <1>0, <1>a, OrderedReturned DEF Running
<1>b. n.pc \in Pcs
  BY ShapeStep DEF Stepped, Local
<1>1. CASE RehydrateHead(p)
  <2>1. /\ r.pc = "rehydrateHead" /\ H = head
        /\ MovedWithHead(r, n, "rehydrateBase", HeadOf(p)) \/ Left(n)
    BY <1>1, RehydrateHeadEffect DEF RehydrateHead, Reads, bucket
  <2>2. CASE MovedWithHead(r, n, "rehydrateBase", HeadOf(p))
    <3>1. /\ n.pc = "rehydrateBase" /\ SameAttachment(r, n) /\ n.h = H[r.sess] /\ n.q = None
          /\ n.exp = r.exp /\ r.sess \in Sessions
      BY <1>0, <2>1, <2>2 DEF MovedWithHead, HeadOf, SameAttachment, Shape
    <3>2. Captured(r, m, H)
      BY <1>0, <2>1 DEF Ordered
    <3>3. Captured(n, m, H)
      BY <1>0, <3>1, <3>2, CapturedMoved
    <3>4. Below(CpOf(n.exp), CpOf(n.h))
      BY <3>1, <3>2 DEF Captured
    <3>5. n.pc \notin Running /\ Replaces(n) /\ Publishes(n, m, H)
      BY <3>1, PlainPublishes, PlainReplaces
         DEF Running, Replacing, Starting, Claiming, Fenced, Recovering, Storing, Completing
    <3>6. QED
      BY <3>1, <3>3, <3>4, <3>5 DEF Ordered
  <2>3. QED
    BY <2>1, <2>2, OrderedLeft
<1>2. CASE RehydrateBase(p)
  <2>1. /\ r.pc = "rehydrateBase" /\ H = head /\ m = manifest
        /\ \/ r.h = None /\ Installed(r, n, manifest, manifest, 0, None)
           \/ r.h # None /\ Installed(r, n, r.h.cp.base, r.h.cp.content, r.h.seq, r.h.cp)
           \/ Left(n)
    BY <1>2, RehydrateBaseEffect DEF RehydrateBase, Reads, bucket
  <2>2. /\ r.cp = None /\ r.q = None /\ r.sess \in Sessions
        /\ Captured(r, m, H) /\ Below(CpOf(r.exp), CpOf(r.h))
    BY <1>0, <2>1 DEF Shape, Ordered
  <2>3. ASSUME NEW b, NEW c, NEW k, NEW root, Installed(r, n, b, c, k, root), Rehydrated(n, H)
        PROVE  Ordered(n, m, H)
    <3>1. n.pc = "attached" /\ SameAttachment(r, n) /\ n.h = None /\ n.q = None
      BY <2>2, <2>3 DEF Installed
    <3>2. Captured(n, m, H)
      BY <1>0, <2>2, <3>1, CapturedMoved
    <3>3. Replaces(n) /\ Publishes(n, m, H)
      BY <3>1, PlainPublishes, PlainReplaces
         DEF Replacing, Starting, Claiming, Fenced, Recovering, Storing, Completing
    <3>4. QED
      BY <2>3, <3>1, <3>2, <3>3 DEF Ordered
  <2>4. CASE r.h = None /\ Installed(r, n, manifest, manifest, 0, None)
    <3>1. /\ n.root = None /\ n.content = m /\ n.cp = None
          /\ n.exp = r.exp /\ n.sess = r.sess
      BY <2>1, <2>2, <2>4 DEF Installed, SameAttachment
    <3>2. Below(CpOf(n.exp), None) /\ Below(None, CpOf(H[n.sess]))
      BY <2>2, <2>4, <3>1 DEF CpOf, Below
    <3>3. Once(m) /\ \A s \in Sessions : H[s] = None => Of(m, s) = {}
      BY <2>1 DEF LogInv, Owned
    <3>4. Rehydrated(n, H)
      BY <2>2, <3>1, <3>2, <3>3 DEF Rehydrated
    <3>5. QED
      BY <2>3, <2>4, <3>4
  <2>5. CASE r.h # None /\ Installed(r, n, r.h.cp.base, r.h.cp.content, r.h.seq, r.h.cp)
    <3>1. /\ n.root = r.h.cp /\ n.content = r.h.cp.content /\ n.seq = r.h.seq /\ n.cp = None
          /\ n.exp = r.exp /\ n.sess = r.sess
      BY <2>2, <2>5 DEF Installed, SameAttachment
    <3>2. Truthful(r.h, r.sess, m, H) /\ Below(r.h.cp, CpOf(H[r.sess]))
      BY <2>2, <2>5 DEF Captured
    <3>3. /\ r.h.seq = r.h.cp.seq /\ Once(r.h.cp.content)
          /\ \A s \in Sessions : H[s] = None => Of(r.h.cp.content, s) = {}
      BY <3>2 DEF Truthful, Owned
    <3>4. r.h.cp # None /\ CpOf(r.h) = r.h.cp /\ r.h.cp.seq \in Nat
      BY <1>0, <2>5, LocalFields, CpOfHead, RecordFields
    <3>5. Rehydrated(n, H)
      BY <2>2, <3>1, <3>2, <3>3, <3>4 DEF Rehydrated
    <3>6. QED
      BY <2>3, <2>5, <3>5
  <2>6. QED
    BY <2>1, <2>4, <2>5, OrderedLeft
<1>3. CASE \E s \in Sessions : \E o \in OpsOf[s] : Attach(p, s, o)
  <2>1. PICK s \in Sessions : \E o \in OpsOf[s] : Attach(p, s, o)
    BY <1>3
  <2>2. PICK o \in OpsOf[s] : Attach(p, s, o)
    BY <2>1
  <2>3. Bound(n, s, o, natt + 1, head[s]) /\ H = head
    BY <2>2, CallEffects DEF Attach, bucket
  <2>4. n.pc = "rehydrateHead" /\ n.sess = s /\ n.exp = H[s] /\ n.h = None /\ n.q = None
    BY <2>3 DEF Bound
  <2>5. Below(CpOf(H[s]), CpOf(H[s]))
    BY <1>0, CpOfHead, BelowSelf DEF Heads
  <2>6. Captured(n, m, H)
    BY <1>0, <2>4, <2>5 DEF Captured
  <2>7. n.pc \notin Running /\ Replaces(n) /\ Publishes(n, m, H)
    BY <2>4, PlainPublishes, PlainReplaces
       DEF Running, Replacing, Starting, Claiming, Fenced, Recovering, Storing, Completing
  <2>8. QED
    BY <2>4, <2>6, <2>7 DEF Ordered
<1>4. CASE Detach(p) \/ Fail(p)
  <2>1. \/ Left(n)
        \/ Returned(r, n) /\ r.pc \notin {"idle", "rehydrateHead", "rehydrateBase"}
    BY <1>4, CallEffects DEF InCall, Attaching
  <2>2. r.pc \in Pcs
    BY <1>0 DEF Local
  <2>3. QED
    BY <1>a, <2>1, <2>2, OrderedLeft DEF Running
<1>5. CASE \/ CompleteRequest(p)
           \/ Upload(p) /\ Moved(r, n, "finalize") /\ Status(p) = "new"
  <2>1. /\ r.pc = "attached" /\ Status(p) = "new"
        /\ \E pc \in {"checkpoint", "finalize"} : Moved(r, n, pc)
    BY <1>5, CallEffects
  <2>2. /\ \A e \in r.content : e[1] = r.op => e = <<r.op, r.att>>
        /\ r.exp # None => r.exp.state = "accepted" /\ r.exp.op # r.op /\ r.op \notin r.exp.hist
    BY <2>1, StatusNew
  <2>3. /\ n.pc \in {"checkpoint", "finalize"} /\ SameAttachment(r, n) /\ SameOverlay(r, n)
        /\ n.cp = r.cp /\ n.h = r.h /\ n.q = r.q
    BY <2>1 DEF Moved
  <2>4. Replaces(n)
    BY <2>2, <2>3 DEF Replaces, Starting, Replacing, SameAttachment, SameOverlay
  <2>5. Publishes(n, m, H)
    BY <2>3, PlainPublishes DEF Claiming, Fenced, Recovering, Storing, Completing
  <2>6. r.pc \in Running /\ n.pc \in Running /\ r.sess \in Sessions
    BY <1>0, <2>1, <2>3, PcsIn DEF Running
  <2>7. QED
    BY <1>0, <2>3, <2>4, <2>5, <2>6, OrderedMoved
<1>6. CASE Upload(p) /\ Moved(r, n, "publish") /\ Status(p) \in {"accepted", "committed"}
  <2>1. r.pc = "attached" /\ H = head
    BY <1>6 DEF Upload, Reads, bucket
  <2>2. H[r.sess] # None /\ Contains(H[r.sess].cp.content, r.op)
    BY <1>6, <2>1, StatusKnown DEF HeadOf
  <2>3. /\ n.pc = "publish" /\ SameAttachment(r, n) /\ SameOverlay(r, n)
        /\ n.cp = r.cp /\ n.h = r.h /\ n.q = r.q /\ n.sess = r.sess /\ n.op = r.op
    BY <1>6 DEF Moved, SameAttachment
  <2>4. Publishes(n, m, H)
    BY <2>2, <2>3 DEF Publishes, Claiming, Fenced, Recovering, Storing, Completing
  <2>5. Replaces(n)
    BY <2>3, PlainReplaces DEF Replacing, Starting
  <2>6. r.pc \in Running /\ n.pc \in Running /\ r.sess \in Sessions
    BY <1>0, <2>1, <2>3, PcsIn DEF Running
  <2>7. QED
    BY <1>0, <2>3, <2>4, <2>5, <2>6, OrderedMoved
<1>7. CASE SessionCheckpoint(p) \/ FinalizeCheckpoint(p)
  <2>1. \/ r.pc = "checkpoint" /\ Checkpointed(r, n, "accept")
        \/ r.pc = "finalizeCheckpoint" /\ Checkpointed(r, n, "finalizeCandidate")
    BY <1>7, AcceptEffects, FinalizeEffects
  <2>2. r.sess \in Sessions
    BY <1>0, <2>1
  <2>3. QED
    BY <1>0, <2>1, <2>2, OrderedCheckpoint
<1>8. CASE AcceptRead(p) \/ AcceptBase(p) \/ AcceptPut(p) \/ AcceptAgain(p)
  <2>1. \/ /\ MovedWithHead(r, n, "acceptBase", HeadOf(p)) /\ AcceptFences(p, HeadOf(p))
           /\ r.pc = "accept" /\ H = head
        \/ Moved(r, n, "acceptPut") /\ r.pc = "acceptBase"
        \/ Moved(r, n, "acceptAgain") /\ r.pc = "acceptPut"
        \/ Returned(r, n) /\ r.pc \in Accepting
    <3>1. AcceptRead(p) => H = head
      BY DEF AcceptRead, Reads, bucket
    <3>2. AcceptPut(p) => r.pc = "acceptPut"
      BY DEF AcceptPut
    <3>3. QED
      BY <1>8, <3>1, <3>2, AcceptEffects DEF Accepting
  <2>2. r.pc \in Accepting => r.pc \in Running /\ r.sess \in Sessions
    BY <1>0, PcsIn DEF Accepting, Running
  <2>3. CASE Returned(r, n) /\ r.pc \in Accepting
    BY <1>a, <2>2, <2>3
  <2>4. CASE /\ r.pc \in {"accept", "acceptBase", "acceptPut"} /\ n.pc \in {"acceptBase", "acceptPut", "acceptAgain"}
             /\ SameAttachment(r, n) /\ SameOverlay(r, n) /\ n.cp = r.cp /\ n.h \in {r.h, H[r.sess]}
             /\ n.q = r.q /\ Replaces(n)
    <3>1. Publishes(n, m, H)
      BY <2>4, PlainPublishes DEF Claiming, Fenced, Recovering, Storing, Completing
    <3>2. n.pc \in Running /\ r.pc \in Running /\ r.sess \in Sessions
      BY <2>2, <2>4, PcsIn DEF Running, Accepting
    <3>3. QED
      BY <1>0, <2>4, <3>1, <3>2, OrderedMoved
  <2>5. CASE /\ MovedWithHead(r, n, "acceptBase", HeadOf(p)) /\ AcceptFences(p, HeadOf(p))
             /\ r.pc = "accept" /\ H = head
    <3>1. /\ n.pc = "acceptBase" /\ SameAttachment(r, n) /\ SameOverlay(r, n) /\ n.cp = r.cp
          /\ n.h = H[r.sess] /\ n.q = r.q /\ n.exp = r.exp /\ n.op = r.op /\ n.root = r.root
      BY <2>5 DEF MovedWithHead, HeadOf, SameAttachment, SameOverlay
    <3>2. n.h = n.exp /\ n.root = CpOf(n.exp)
      BY <2>5, <3>1 DEF AcceptFences, HeadOf, CpOf
    <3>3. Replaces(r)
      BY <1>0 DEF Ordered
    <3>4. Replaces(n)
      BY <2>5, <3>1, <3>2, <3>3 DEF Replaces, Starting, Replacing
    <3>5. QED
      BY <2>4, <2>5, <3>1, <3>4
  <2>6. CASE \/ Moved(r, n, "acceptPut") /\ r.pc = "acceptBase"
             \/ Moved(r, n, "acceptAgain") /\ r.pc = "acceptPut"
    <3>1. /\ SameAttachment(r, n) /\ SameOverlay(r, n) /\ n.cp = r.cp
          /\ n.h = r.h /\ n.q = r.q /\ n.exp = r.exp /\ n.op = r.op /\ n.root = r.root
          /\ (n.pc = "acceptPut" /\ r.pc = "acceptBase") \/ (n.pc = "acceptAgain" /\ r.pc = "acceptPut")
      BY <2>6 DEF Moved, SameAttachment, SameOverlay
    <3>2. Replaces(r)
      BY <1>0 DEF Ordered
    <3>3. Replaces(n)
      BY <3>1, <3>2 DEF Replaces, Starting, Replacing
    <3>4. QED
      BY <2>4, <3>1, <3>3
  <2>7. QED
    BY <2>1, <2>3, <2>5, <2>6
<1>9. CASE FinalizeRead(p)
  <2>1. /\ r.pc = "finalize" /\ H = head
        /\ \/ MovedWithHead(r, n, "finalizeCheckpoint", HeadOf(p)) /\ HeadOf(p) = r.exp
           \/ HeadOf(p) # None /\ HeadOf(p).op = r.op /\ HeadOf(p) = r.exp
           \/ Returned(r, n)
    BY <1>9, FinalizeEffects DEF FinalizeRead, Reads, bucket
  <2>2. r.pc \in Running /\ r.sess \in Sessions /\ Replaces(r)
    BY <1>0, <2>1, PcsIn DEF Running, Ordered
  <2>3. CASE MovedWithHead(r, n, "finalizeCheckpoint", HeadOf(p)) /\ HeadOf(p) = r.exp
    <3>1. /\ n.pc = "finalizeCheckpoint" /\ SameAttachment(r, n) /\ SameOverlay(r, n) /\ n.cp = r.cp
          /\ n.h = H[r.sess] /\ n.h = n.exp /\ n.q = r.q /\ n.exp = r.exp /\ n.op = r.op
          /\ n.att = r.att /\ n.content = r.content
      BY <2>1, <2>3 DEF MovedWithHead, HeadOf, SameAttachment, SameOverlay
    <3>2. Replaces(n)
      BY <2>1, <2>2, <3>1 DEF Replaces, Starting, Replacing
    <3>3. Publishes(n, m, H)
      BY <3>1, PlainPublishes DEF Claiming, Fenced, Recovering, Storing, Completing
    <3>4. n.pc \in Running
      BY <3>1, PcsIn DEF Running
    <3>5. QED
      BY <1>0, <2>2, <3>1, <3>2, <3>3, <3>4, OrderedMoved
  <2>4. ~(HeadOf(p) # None /\ HeadOf(p).op = r.op /\ HeadOf(p) = r.exp)
    BY <2>1, <2>2 DEF Replaces, Replacing, Starting
  <2>5. QED
    BY <1>a, <2>1, <2>2, <2>3, <2>4
<1>10. CASE FinalizeCandidate(p) \/ FinalizePut(p) \/ FinalizeAgain(p)
  <2>1. \/ Moved(r, n, "finalizePut") /\ r.pc = "finalizeCandidate"
        \/ Moved(r, n, "finalizeAgain") /\ r.pc = "finalizePut"
        \/ /\ Moved(r, n, "publish") /\ r.pc \in {"finalizePut", "finalizeAgain"}
           /\ HeadWritten(p, r.exp, FinalizedHead(p)) \/ (H = head /\ HeadOf(p) = FinalizedHead(p))
        \/ Returned(r, n) /\ r.pc \in Finalizing
    <3>1. FinalizePut(p) => r.pc = "finalizePut"
      BY DEF FinalizePut
    <3>2. FinalizeAgain(p) => H = head
      BY DEF FinalizeAgain, Reads, bucket
    <3>3. QED
      BY <1>10, <3>1, <3>2, FinalizeEffects DEF Finalizing
  <2>2. r.pc \in Finalizing => r.pc \in Running /\ r.sess \in Sessions /\ r.op \in OpsOf[r.sess] /\ r.cp # None
    BY <1>0, PcsIn DEF Finalizing, Running, Shape
  <2>3. CASE Returned(r, n) /\ r.pc \in Finalizing
    BY <1>a, <2>2, <2>3
  <2>4. CASE \/ Moved(r, n, "finalizePut") /\ r.pc = "finalizeCandidate"
             \/ Moved(r, n, "finalizeAgain") /\ r.pc = "finalizePut"
    <3>1. /\ SameAttachment(r, n) /\ SameOverlay(r, n) /\ n.cp = r.cp
          /\ n.h = r.h /\ n.q = r.q /\ n.exp = r.exp /\ n.op = r.op
          /\ \/ n.pc = "finalizePut" /\ r.pc = "finalizeCandidate"
             \/ n.pc = "finalizeAgain" /\ r.pc = "finalizePut"
      BY <2>4 DEF Moved, SameAttachment
    <3>2. Replaces(r) /\ r.pc \in Running /\ r.sess \in Sessions /\ n.pc \in Running
      BY <1>0, <2>2, <3>1, PcsIn DEF Ordered, Finalizing, Running
    <3>3. Replaces(n)
      BY <3>1, <3>2 DEF Replaces, Starting, Replacing
    <3>4. Publishes(n, m, H)
      BY <3>1, PlainPublishes DEF Claiming, Fenced, Recovering, Storing, Completing
    <3>5. QED
      BY <1>0, <3>1, <3>2, <3>3, <3>4, OrderedMoved
  <2>5. CASE /\ Moved(r, n, "publish") /\ r.pc \in {"finalizePut", "finalizeAgain"}
             /\ HeadWritten(p, r.exp, FinalizedHead(p)) \/ (H = head /\ HeadOf(p) = FinalizedHead(p))
    <3>1. r.pc \in Running /\ r.sess \in Sessions /\ r.op \in Ops /\ r.cp # None
      BY <2>2, <2>5, OpsIn DEF Finalizing
    <3>2. H[r.sess] = FinalizedHead(p)
      BY <1>0, <2>5, <3>1 DEF HeadWritten, Sess, HeadOf, Heads
    <3>3. H[r.sess] # None /\ H[r.sess].cp = r.cp
      BY <3>1, <3>2, FinalizedRecord, Typed, NoneNot
    <3>4. <<r.op, r.att>> \in r.cp.content
      BY <1>0, <3>1 DEF Honest
    <3>5. Contains(H[r.sess].cp.content, r.op)
      BY <3>3, <3>4 DEF Contains
    <3>6. /\ n.pc = "publish" /\ SameAttachment(r, n) /\ SameOverlay(r, n)
          /\ n.cp = r.cp /\ n.h = r.h /\ n.q = r.q /\ n.sess = r.sess /\ n.op = r.op
      BY <2>5 DEF Moved, SameAttachment
    <3>7. Publishes(n, m, H)
      BY <3>3, <3>5, <3>6 DEF Publishes, Claiming, Fenced, Recovering, Storing, Completing
    <3>8. Replaces(n) /\ n.pc \in Running
      BY <3>6, PlainReplaces, PcsIn DEF Replacing, Starting, Running
    <3>9. QED
      BY <1>0, <3>1, <3>6, <3>7, <3>8, OrderedMoved
  <2>6. QED
    BY <2>1, <2>3, <2>4, <2>5
<1>11. CASE PublishRead(p)
  <2>1. /\ r.pc = "publish" /\ H = head
        /\ \/ MovedWithHead(r, n, "publishCandidate", HeadOf(p)) /\ HeadOf(p) # None
           \/ Returned(r, n)
    BY <1>11, PublishEffects DEF PublishRead, Reads, bucket
  <2>2. r.pc \in Running /\ r.sess \in Sessions /\ Publishes(r, m, H)
    BY <1>0, <2>1, PcsIn DEF Running, Ordered
  <2>3. CASE MovedWithHead(r, n, "publishCandidate", HeadOf(p)) /\ HeadOf(p) # None
    <3>1. /\ n.pc = "publishCandidate" /\ SameAttachment(r, n) /\ SameOverlay(r, n) /\ n.cp = r.cp
          /\ n.h = H[r.sess] /\ n.h # None /\ n.q = r.q /\ n.op = r.op /\ n.sess = r.sess
      BY <2>1, <2>3 DEF MovedWithHead, HeadOf, SameAttachment
    <3>2. Contains(n.h.cp.content, n.op)
      BY <2>1, <2>2, <3>1 DEF Publishes
    <3>3. n.h.state \in Live
      BY <1>0, <2>2, <3>1 DEF Truthful
    <3>4. n.h.state # "accepted" => Fixed(H[n.sess]) /\ H[n.sess].cp = n.h.cp
      BY <3>1, <3>3 DEF Fixed, Live
    <3>5. Publishes(n, m, H)
      BY <3>1, <3>2, <3>4 DEF Publishes, Claiming, Fenced, Recovering, Storing, Completing
    <3>6. Replaces(n) /\ n.pc \in Running
      BY <3>1, PlainReplaces, PcsIn DEF Replacing, Starting, Running
    <3>7. QED
      BY <1>0, <2>2, <3>1, <3>5, <3>6, OrderedMoved
  <2>4. QED
    BY <1>a, <2>1, <2>2, <2>3
<1>12. CASE PublishCandidate(p)
  <2>1. /\ r.pc = "publishCandidate"
        /\ \/ Moved(r, n, "claimHead") /\ r.h.state = "accepted"
           \/ Moved(r, n, "fence") /\ r.h.state # "accepted"
           \/ Returned(r, n)
    BY <1>12, PublishEffects
  <2>2. r.pc \in Running /\ r.sess \in Sessions /\ Publishes(r, m, H)
    BY <1>0, <2>1, PcsIn DEF Running, Ordered
  <2>3. CASE \/ Moved(r, n, "claimHead") /\ r.h.state = "accepted"
             \/ Moved(r, n, "fence") /\ r.h.state # "accepted"
    <3>1. /\ SameAttachment(r, n) /\ SameOverlay(r, n) /\ n.cp = r.cp
          /\ n.h = r.h /\ n.q = r.q /\ n.op = r.op /\ n.sess = r.sess
          /\ \/ n.pc = "claimHead" /\ r.h.state = "accepted"
             \/ n.pc = "fence" /\ r.h.state # "accepted"
      BY <2>3 DEF Moved, SameAttachment
    <3>2. Publishes(n, m, H)
      BY <2>1, <2>2, <3>1 DEF Publishes, Claiming, Fenced, Recovering, Storing, Completing
    <3>3. Replaces(n) /\ n.pc \in Running
      BY <3>1, PlainReplaces, PcsIn DEF Replacing, Starting, Running
    <3>4. QED
      BY <1>0, <2>2, <3>1, <3>2, <3>3, OrderedMoved
  <2>4. QED
    BY <1>a, <2>1, <2>2, <2>3
<1>13. CASE ClaimHead(p)
  <2>1. /\ r.pc = "claimHead"
        /\ \/ HeadWritten(p, r.h, ClaimedHead(p)) /\ Moved(r, n, "fence")
           \/ Moved(r, n, "claimAgain")
    BY <1>13, PublishEffects DEF ClaimHead
  <2>2. r.pc \in Running /\ r.sess \in Sessions /\ Publishes(r, m, H) /\ r.h # None
    BY <1>0, <2>1, PcsIn DEF Running, Ordered, Shape, Claiming
  <2>3. /\ SameAttachment(r, n) /\ SameOverlay(r, n) /\ n.cp = r.cp
        /\ n.h = r.h /\ n.q = r.q /\ n.op = r.op /\ n.sess = r.sess
        /\ n.pc \in {"fence", "claimAgain"}
        /\ n.pc = "fence" => HeadWritten(p, r.h, ClaimedHead(p))
    BY <2>1 DEF Moved, SameAttachment
  <2>4. n.pc = "fence" => Fixed(H[r.sess]) /\ H[r.sess].cp = r.h.cp
    <3>1. ClaimedHead(p) # None /\ ClaimedHead(p).state = "publishing" /\ ClaimedHead(p).cp = r.h.cp
      BY <2>2, ClaimedRecord, Typed, NoneNot
    <3>2. n.pc = "fence" => H[r.sess] = ClaimedHead(p)
      BY <1>0, <2>2, <2>3 DEF HeadWritten, Sess, Heads
    <3>3. QED
      BY <3>1, <3>2 DEF Fixed
  <2>5. Publishes(n, m, H)
    BY <2>1, <2>2, <2>3, <2>4 DEF Publishes, Claiming, Fenced, Recovering, Storing, Completing
  <2>6. Replaces(n) /\ n.pc \in Running
    BY <2>3, PlainReplaces, PcsIn DEF Replacing, Starting, Running
  <2>7. QED
    BY <1>0, <2>2, <2>3, <2>5, <2>6, OrderedMoved
<1>14. CASE ClaimAgain(p)
  <2>1. /\ r.pc = "claimAgain" /\ H = head
        /\ \/ /\ MovedWithHead(r, n, "fence", HeadOf(p))
              /\ HeadOf(p) = ClaimedHead(p) \/ Matches(HeadOf(p), "committed", r.h.cp)
           \/ Returned(r, n)
    BY <1>14, PublishEffects DEF ClaimAgain, Reads, bucket
  <2>2. r.pc \in Running /\ r.sess \in Sessions /\ Publishes(r, m, H) /\ r.h # None
    BY <1>0, <2>1, PcsIn DEF Running, Ordered, Shape, Claiming
  <2>3. CASE /\ MovedWithHead(r, n, "fence", HeadOf(p))
             /\ HeadOf(p) = ClaimedHead(p) \/ Matches(HeadOf(p), "committed", r.h.cp)
    <3>1. /\ n.pc = "fence" /\ SameAttachment(r, n) /\ SameOverlay(r, n) /\ n.cp = r.cp
          /\ n.h = H[r.sess] /\ n.q = r.q /\ n.op = r.op /\ n.sess = r.sess
      BY <2>1, <2>3 DEF MovedWithHead, HeadOf, SameAttachment
    <3>2. Fixed(n.h) /\ n.h.cp = r.h.cp
      <4>1. ClaimedHead(p) # None /\ ClaimedHead(p).state = "publishing" /\ ClaimedHead(p).cp = r.h.cp
        BY <2>2, ClaimedRecord, Typed, NoneNot
      <4>2. QED
        BY <2>1, <2>3, <3>1, <4>1 DEF Fixed, Matches, HeadOf
    <3>3. Publishes(n, m, H)
      BY <2>1, <2>2, <3>1, <3>2 DEF Publishes, Claiming, Fenced, Recovering, Storing, Completing
    <3>4. Replaces(n) /\ n.pc \in Running
      BY <3>1, PlainReplaces, PcsIn DEF Replacing, Starting, Running
    <3>5. QED
      BY <1>0, <2>2, <3>1, <3>3, <3>4, OrderedMoved
  <2>4. QED
    BY <1>a, <2>1, <2>2, <2>3
<1>c. ASSUME r.pc \in Fenced
      PROVE  r.pc \in Running /\ r.sess \in Sessions /\ r.h # None /\ Truthful(r.h, r.sess, m, H)
  <2>1. r.pc \in Running /\ r.pc # "idle" /\ r.h # None
    BY <1>0, <1>c DEF Running, Pcs, Shape, Fenced, Recovering, Storing, Completing
  <2>2. QED
    BY <1>0, <2>1 DEF Ordered, Captured
<1>d. ASSUME r.pc \in Fenced, n.pc \in Fenced \ {"finalPut", "finalAgain"}, SameAttachment(r, n),
             SameOverlay(r, n), n.cp = r.cp, n.h = r.h,
             n.q # r.q /\ n.q # None => Once(n.q.cp.content) /\ Owned(n.q.cp.content, H)
      PROVE  Ordered(n, m, H)
  BY <1>0, <1>c, <1>d, OrderedFenced
<1>15. CASE Fence(p) \/ RecoverCommitAgain(p)
  <2>1. /\ r.pc \in {"fence", "recoverCommitAgain"} /\ H = head
        /\ Branched(r, n, pub) \/ Returned(r, n)
    BY <1>15, FenceEffects, RecoverEffects DEF Fence, RecoverCommitAgain, Reads, bucket
  <2>2. r.pc \in Fenced
    BY <2>1 DEF Fenced, Recovering
  <2>3. CASE Branched(r, n, pub)
    <3>1. /\ n.pc \in {"fencePut", "visible", "manifest", "fenceBase", "recoverCandidate"} /\ n.q = pub
          /\ SameAttachment(r, n) /\ SameOverlay(r, n) /\ n.cp = r.cp /\ n.h = r.h
      BY <2>3 DEF Branched, MovedWithPub
    <3>2. n.pc \in Fenced \ {"finalPut", "finalAgain"}
      BY <3>1 DEF Fenced, Recovering, Storing
    <3>3. pub # None => Once(pub.cp.content) /\ Owned(pub.cp.content, H)
      BY <2>1 DEF LogInv
    <3>4. QED
      BY <1>d, <2>2, <3>1, <3>2, <3>3
  <2>4. QED
    BY <1>a, <1>c, <2>1, <2>2, <2>3
<1>16. CASE FenceBase(p)
  <2>1. r.pc = "fenceBase" /\ (Moved(r, n, "fencePut") \/ Returned(r, n))
    BY <1>16, FenceEffects
  <2>2. r.pc \in Fenced /\ "fencePut" \in Fenced
    BY <2>1 DEF Fenced
  <2>3. CASE Moved(r, n, "fencePut")
    BY <1>d, <2>2, <2>3 DEF Moved
  <2>4. QED
    BY <1>a, <1>c, <2>1, <2>2, <2>3
<1>17. CASE FencePut(p) \/ FenceAgain(p)
  <2>1. /\ r.pc \in {"fencePut", "fenceAgain"}
        /\ \/ MovedWithPub(r, n, "manifest", PendingPub(p))
           \/ MovedWithPub(r, n, "visible", pub) /\ H = head
           \/ Moved(r, n, "fenceAgain")
           \/ Returned(r, n)
    <3>1. FencePut(p) => r.pc = "fencePut"
      BY DEF FencePut
    <3>2. FenceAgain(p) => H = head
      BY DEF FenceAgain, Reads, bucket
    <3>3. QED
      BY <1>17, <3>1, <3>2, FenceEffects
  <2>2. r.pc \in Fenced /\ {"manifest", "visible", "fenceAgain"} \subseteq Fenced
    BY <2>1 DEF Fenced, Storing
  <2>3. CASE Moved(r, n, "fenceAgain")
    BY <1>d, <2>2, <2>3 DEF Moved
  <2>4. CASE MovedWithPub(r, n, "manifest", PendingPub(p))
    <3>1. PendingPub(p).cp = r.h.cp
      BY <1>c, <2>2, PendingRecord, Typed
    <3>2. Once(r.h.cp.content) /\ Owned(r.h.cp.content, H)
      BY <1>c, <2>2 DEF Truthful
    <3>3. QED
      BY <1>d, <2>2, <2>4, <3>1, <3>2 DEF MovedWithPub
  <2>5. CASE MovedWithPub(r, n, "visible", pub) /\ H = head
    <3>1. pub # None => Once(pub.cp.content) /\ Owned(pub.cp.content, H)
      BY <2>5 DEF LogInv
    <3>2. QED
      BY <1>d, <2>2, <2>5, <3>1 DEF MovedWithPub
  <2>6. QED
    BY <1>a, <1>c, <2>1, <2>2, <2>3, <2>4, <2>5
<1>18. CASE RecoverCandidate(p) \/ RecoverRead(p) \/ RecoverPut(p) \/ RecoverAgain(p)
  <2>1. /\ r.pc \in {"recoverCandidate", "recoverRead", "recoverPut", "recoverAgain"}
        /\ \/ \E pc \in {"recoverRead", "recoverCommit", "recoverPut", "recoverAgain"} : Moved(r, n, pc)
           \/ Returned(r, n)
    BY <1>18, RecoverEffects, RecoverPutOutcome, Typed
  <2>2. r.pc \in Fenced /\ {"recoverRead", "recoverCommit", "recoverPut", "recoverAgain"} \subseteq Fenced
    BY <2>1 DEF Fenced, Recovering
  <2>3. CASE \E pc \in {"recoverRead", "recoverCommit", "recoverPut", "recoverAgain"} : Moved(r, n, pc)
    BY <1>d, <2>2, <2>3 DEF Moved
  <2>4. QED
    BY <1>a, <1>c, <2>1, <2>2, <2>3
<1>19. CASE RecoverCommit(p)
  <2>1. /\ r.pc = "recoverCommit"
        /\ Branched(r, n, CommittedPub(r.q)) \/ Moved(r, n, "recoverCommitAgain")
    BY <1>19, RecoverEffects DEF RecoverCommit
  <2>2. r.pc \in Fenced /\ "recoverCommitAgain" \in Fenced /\ r.q \in Publication /\ r.q # None
    BY <1>0, <2>1, LocalFields DEF Fenced, Recovering, Shape
  <2>3. CASE Moved(r, n, "recoverCommitAgain")
    BY <1>d, <2>2, <2>3 DEF Moved
  <2>4. CASE Branched(r, n, CommittedPub(r.q))
    <3>1. /\ n.pc \in {"fencePut", "visible", "manifest", "fenceBase", "recoverCandidate"}
          /\ n.q = CommittedPub(r.q)
          /\ SameAttachment(r, n) /\ SameOverlay(r, n) /\ n.cp = r.cp /\ n.h = r.h
      BY <2>4 DEF Branched, MovedWithPub
    <3>2. n.pc \in Fenced \ {"finalPut", "finalAgain"}
      BY <3>1 DEF Fenced, Recovering, Storing
    <3>3. n.q.cp = r.q.cp
      BY <2>2, <3>1, CommittedRecord
    <3>4. Once(n.q.cp.content) /\ Owned(n.q.cp.content, H)
      BY <1>0, <2>2, <3>3 DEF Ordered
    <3>5. QED
      BY <1>d, <2>2, <3>1, <3>2, <3>4
  <2>5. QED
    BY <2>1, <2>3, <2>4
<1>20. CASE Visible(p) \/ ReadManifest(p) \/ PublishManifest(p) \/ PublishManifestAgain(p)
            \/ ConfirmManifest(p) \/ CommitPub(p) \/ CommitPubAgain(p)
  <2>1. /\ r.pc \in {"visible"} \cup Storing
        /\ \/ \E pc \in Storing \cup {"finalRead"} : Moved(r, n, pc)
           \/ Returned(r, n)
    BY <1>20, StoreEffects, PublishManifestOutcome, CommitPubOutcome, Typed DEF Storing
  <2>2. r.pc \in Fenced /\ Storing \cup {"finalRead"} \subseteq Fenced \ {"finalPut", "finalAgain"}
    BY <2>1 DEF Fenced, Storing, Completing
  <2>3. CASE \E pc \in Storing \cup {"finalRead"} : Moved(r, n, pc)
    BY <1>d, <2>2, <2>3 DEF Moved
  <2>4. QED
    BY <1>a, <1>c, <2>1, <2>2, <2>3
<1>21. CASE FinalRead(p) \/ FinalPut(p) \/ FinalAgain(p)
  <2>1. /\ r.pc \in Completing
        /\ \/ /\ MovedWithFound(r, n, HeadOf(p)) /\ H = head /\ r.pc = "finalRead"
              /\ HeadOf(p) \in Head /\ HeadOf(p).state \in {"publishing", "accepted"}
           \/ r.pc = "finalPut" /\ Moved(r, n, "finalAgain")
           \/ Returned(r, n)
    <3>1. FinalPut(p) => r.pc = "finalPut"
      BY DEF FinalPut
    <3>2. FinalRead(p) => H = head
      BY DEF FinalRead, bucket
    <3>3. QED
      BY <1>21, <3>1, <3>2, FinalEffects DEF Completing
  <2>2. r.pc \in Fenced /\ {"finalPut", "finalAgain"} \subseteq Fenced
    BY <2>1 DEF Fenced, Completing
  <2>3. Publishes(r, m, H) /\ Fixed(H[r.sess]) /\ H[r.sess].cp = r.h.cp
    BY <1>0, <2>2 DEF Ordered, Publishes
  <2>4. CASE /\ MovedWithFound(r, n, HeadOf(p)) /\ H = head
             /\ HeadOf(p) \in Head /\ HeadOf(p).state \in {"publishing", "accepted"}
    <3>1. /\ n.pc = "finalPut" /\ SameAttachment(r, n) /\ SameOverlay(r, n) /\ n.cp = r.cp
          /\ n.h = r.h /\ n.q = r.q /\ n.g = H[r.sess]
      BY <2>4 DEF MovedWithFound, HeadOf
    <3>2. n.g.state = "publishing" /\ n.g.cp = r.h.cp
      BY <2>3, <2>4, <3>1 DEF Fixed, HeadOf
    <3>3. Truthful(n.g, r.sess, m, H)
      BY <1>0, <1>c, <2>2, <2>3, <3>1 DEF Fixed
    <3>4. QED
      BY <1>0, <1>c, <2>2, <3>1, <3>2, <3>3, OrderedFenced
  <2>5. CASE r.pc = "finalPut" /\ Moved(r, n, "finalAgain")
    <3>1. /\ n.pc = "finalAgain" /\ SameAttachment(r, n) /\ SameOverlay(r, n) /\ n.cp = r.cp
          /\ n.h = r.h /\ n.q = r.q /\ n.g = r.g
      BY <2>5 DEF Moved
    <3>2. r.g.state = "publishing" /\ r.g.cp = r.h.cp /\ Truthful(r.g, r.sess, m, H)
      BY <2>3, <2>5 DEF Publishes
    <3>3. QED
      BY <1>0, <1>c, <2>2, <3>1, <3>2, OrderedFenced
  <2>6. QED
    BY <1>a, <1>c, <2>1, <2>2, <2>4, <2>5
<1>22. Upload(p) => (Moved(r, n, "finalize") /\ Status(p) = "new")
                    \/ (Moved(r, n, "publish") /\ Status(p) \in {"accepted", "committed"})
  BY CallEffects
<1>23. QED
  BY <1>1, <1>2, <1>3, <1>4, <1>5, <1>6, <1>7, <1>8, <1>9, <1>10, <1>11, <1>12, <1>13, <1>14, <1>15,
     <1>16, <1>17, <1>18, <1>19, <1>20, <1>21, <1>22
     DEF Step, Call, Publishing

-----------------------------------------------------------------------------
(* The log.                                                                *)

LEMMA LogInit == ASSUME Init PROVE LogInv
<1>1. Left(Detached)
  BY DEF Detached, Left
<1>2. \A p \in Procs : Ordered(at[p], manifest, head)
  BY <1>1, OrderedLeft DEF Init
<1>3. Once(manifest) /\ Owned(manifest, head)
  BY DEF Init, Once, Owned, Of
<1>4. QED
  BY <1>2, <1>3 DEF LogInv, Init, Kept

(* The manifest and the publication record after a step.                   *)
LEMMA ContentStep ==
  ASSUME TypeInv, BaseInv, LogInv, NEW p \in Procs, Step(p) \/ Call(p)
  PROVE  /\ Once(manifest') /\ Owned(manifest', head')
         /\ pub' # None => Once(pub'.cp.content) /\ Owned(pub'.cp.content, head')
<1> DEFINE r == at[p]
<1>1. /\ head \in Heads /\ head' \in Heads /\ Advances(manifest, head, manifest', head')
  BY HeadsStep
<1>2. r \in Local /\ Shape(r) /\ Ordered(r, manifest, head) /\ TypeOK
  BY Typed DEF LogInv
<1>3. \A C : Owned(C, head) => Owned(C, head')
  BY <1>1, OwnedKept
<1>4. r.q # None => Once(r.q.cp.content) /\ Owned(r.q.cp.content, head)
  BY <1>2 DEF Ordered
<1>5. r.h # None /\ r.pc # "idle" => Once(r.h.cp.content) /\ Owned(r.h.cp.content, head)
  BY <1>2 DEF Ordered, Captured, Truthful
<1>6. Once(manifest) /\ Owned(manifest, head)
  BY DEF LogInv
<1>7. pub # None => Once(pub.cp.content) /\ Owned(pub.cp.content, head)
  BY DEF LogInv
<1>8. Once(manifest') /\ Owned(manifest', head')
  <2>1. CASE UNCHANGED manifest
    BY <1>3, <1>6, <2>1
  <2>2. CASE r.q \in Publication /\ manifest' = r.q.cp.content
    BY <1>3, <1>4, <2>2, NoneNot
  <2>3. CASE r.pc = "putManifest" /\ r.h \in Head /\ manifest' = r.h.cp.content
    BY <1>3, <1>5, <2>3, NoneNot
  <2>4. QED
    BY <2>1, <2>2, <2>3, StepFrame, ManifestPut DEF ReadsOnly, StoresCandidate, WritesHead, WritesPub
<1>9. pub' # None => Once(pub'.cp.content) /\ Owned(pub'.cp.content, head')
  <2>1. CASE UNCHANGED pub
    BY <1>3, <1>7, <2>1
  <2>2. CASE r.pc = "fencePut" /\ r.h \in Head /\ pub' = PendingPub(p)
    <3>1. pub'.cp = r.h.cp /\ r.h # None
      BY <1>2, <2>2, PendingRecord, NoneNot
    <3>2. QED
      BY <1>3, <1>5, <2>2, <3>1
  <2>3. CASE r.q \in Publication /\ pub' = CommittedPub(r.q)
    <3>1. pub'.cp = r.q.cp /\ r.q # None
      BY <2>3, CommittedRecord, NoneNot
    <3>2. QED
      BY <1>3, <1>4, <3>1
  <2>4. QED
    BY <2>1, <2>2, <2>3, StepFrame, PubPut DEF ReadsOnly, StoresCandidate, WritesHead, WritesManifest
<1>10. QED
  BY <1>8, <1>9

LEMMA LogStep ==
  ASSUME AskStatus, TypeInv, BaseInv, LogInv, Kept', NEW p \in Procs, Step(p) \/ Call(p)
  PROVE  LogInv' /\ Advances(manifest, head, manifest', head')
<1>1. /\ head \in Heads /\ head' \in Heads /\ Advances(manifest, head, manifest', head')
      /\ \A s \in Sessions : head'[s] # None => Truthful(head'[s], s, manifest', head')
  BY HeadsStep
<1>2. /\ Once(manifest') /\ Owned(manifest', head')
      /\ pub' # None => Once(pub'.cp.content) /\ Owned(pub'.cp.content, head')
  BY ContentStep
<1>3. ASSUME NEW x \in Procs PROVE Ordered(at'[x], manifest', head')
  <2>1. CASE x = p
    BY <2>1, OrderedStep
  <2>2. CASE x # p
    <3>1. at'[x] = at[x] /\ at[x] \in Local /\ Shape(at[x]) /\ Ordered(at[x], manifest, head)
      BY <2>2, ShapeStep, Typed DEF Stepped, Others, LogInv
    <3>2. QED
      BY <1>1, <3>1, OrderedKept
  <2>3. QED
    BY <2>1, <2>2
<1>4. QED
  BY <1>1, <1>2, <1>3 DEF LogInv

(* An upload outside the protocol adds an execution of no session.         *)
LEMMA LogForeignUpload ==
  ASSUME TypeInv, LogInv, Kept', ForeignUpload
  PROVE  LogInv' /\ Advances(manifest, head, manifest', head')
<1>1. /\ manifest \subseteq manifest' /\ UNCHANGED <<head, pub, at>> /\ head \in Heads
      /\ manifest \in Content
  BY TypeForeignUpload DEF TypeInv, TypeOK, Heads
<1>2. \A e \in manifest' \ manifest : e[1] = Foreign
  BY DEF ForeignUpload
<1>3. Foreign \notin Ops /\ \A s \in Sessions : Foreign \notin OpsOf[s]
  BY SessionAssumption, OpsIn
<1>4. Once(manifest')
  <2>1. Once(manifest)
    BY DEF LogInv
  <2>2. ASSUME NEW e \in manifest', NEW f \in manifest', e[1] \in Ops, e[1] = f[1] PROVE e = f
    <3>1. e \in manifest /\ f \in manifest
      BY <1>2, <1>3, <2>2
    <3>2. QED
      BY <2>1, <2>2, <3>1 DEF Once
  <2>3. QED
    BY <2>2 DEF Once
<1>5. Owned(manifest', head)
  <2>1. Owned(manifest, head)
    BY DEF LogInv
  <2>2. \A s \in Sessions : Of(manifest', s) \subseteq Of(manifest, s)
    BY <1>2, <1>3 DEF Of
  <2>3. QED
    BY <2>1, <2>2 DEF Owned
<1>6. Advances(manifest, head, manifest', head)
  <2>1. \A s \in Sessions : CpOf(head[s]) \in Checkpoints
    BY <1>1, CpOfHead DEF Heads
  <2>2. QED
    BY <1>1, <2>1, BelowSelf DEF Advances
<1>7. \A s \in Sessions : head[s] # None => Truthful(head[s], s, manifest', head)
  BY <1>1, <1>6, TruthfulKept DEF LogInv
<1>8. \A x \in Procs : Ordered(at[x], manifest', head)
  BY <1>1, <1>6, OrderedKept, Typed DEF LogInv
<1>9. QED
  BY <1>1, <1>4, <1>5, <1>6, <1>7, <1>8 DEF LogInv

LEMMA LogNext ==
  ASSUME AskStatus, MaxExpiry = 0, TypeInv, BaseInv, LogInv, [Next]_vars
  PROVE  LogInv' /\ Advances(manifest, head, manifest', head')
<1>1. Kept' /\ (UNCHANGED vars \/ ForeignUpload \/ \E p \in Procs : Step(p) \/ Call(p))
  BY NothingExpires DEF LogInv
<1>2. CASE UNCHANGED vars
  <2>1. UNCHANGED <<manifest, head, pub, at>> /\ head \in Heads
    BY <1>2 DEF vars, bucket, requests, TypeInv, TypeOK, Heads
  <2>2. \A s \in Sessions : CpOf(head[s]) \in Checkpoints
    BY <2>1, CpOfHead DEF Heads
  <2>3. Advances(manifest, head, manifest', head')
    BY <2>1, <2>2, BelowSelf DEF Advances
  <2>4. QED
    BY <1>1, <2>1, <2>3 DEF LogInv
<1>3. QED
  BY <1>1, <1>2, LogStep, LogForeignUpload

LEMMA LogAlways == ASSUME AskStatus, MaxExpiry = 0 PROVE Spec => []LogInv
<1>1. Init => LogInv
  BY LogInit
<1>2. TypeInv /\ BaseInv /\ LogInv /\ [Next]_vars => LogInv'
  BY LogNext
<1>3. QED
  BY <1>1, <1>2, TypeAlways, BaseAlways, PTL DEF Spec

(* While no record expires and callers ask for the status first, a head    *)
(* that operation_status reports as committed names a checkpoint and an    *)
(* operation that the published manifest contains, whoever published them. *)
THEOREM CommittedHead ==
  ASSUME AskStatus, MaxExpiry = 0
  PROVE  Spec => []CommittedIsPublished
<1>1. TypeInv /\ BaseInv /\ LogInv => CommittedIsPublished
  <2>1. SUFFICES ASSUME BaseInv, LogInv, NEW s \in Sessions,
                        head[s] # None, head[s].state = "committed"
                 PROVE  /\ head[s].cp.content \subseteq manifest
                        /\ \E e \in manifest : e[1] = head[s].op
    BY DEF CommittedIsPublished
  <2>2. head[s].cp.content \subseteq manifest /\ head[s].op = head[s].cp.op
    BY <2>1 DEF LogInv, Truthful
  <2>3. <<head[s].cp.op, head[s].cp.att>> \in head[s].cp.content
    BY <2>1 DEF BaseInv, Sound
  <2>4. QED
    BY <2>2, <2>3
<1>2. QED
  BY <1>1, TypeAlways, BaseAlways, LogAlways, PTL

(* While no record expires and callers ask for the status first, whatever  *)
(* replaces the head of a session extends it: an accepted operation is not *)
(* lost when the session goes on or is published.                          *)
THEOREM HeadsExtend ==
  ASSUME AskStatus, MaxExpiry = 0
  PROVE  Spec => HeadExtends
<1>1. TypeInv /\ BaseInv /\ LogInv /\ TypeInv' /\ [Next]_vars =>
        [\A s \in Sessions : (head[s] # None /\ head'[s] # None) =>
             head[s].cp.content \subseteq head'[s].cp.content]_vars
  <2>1. SUFFICES ASSUME TypeInv, BaseInv, LogInv, TypeInv', [Next]_vars, NEW s \in Sessions,
                        head[s] # None, head'[s] # None
                 PROVE  head[s].cp.content \subseteq head'[s].cp.content
    OBVIOUS
  <2>2. head[s] \in Head /\ head'[s] \in Head
    BY <2>1 DEF TypeInv, TypeOK
  <2>3. CpOf(head[s]) = head[s].cp /\ head[s].cp # None /\ CpOf(head'[s]) = head'[s].cp
    BY <2>1, <2>2, CpOfHead
  <2>4. Below(CpOf(head[s]), CpOf(head'[s]))
    BY <2>1, LogNext DEF Advances
  <2>5. QED
    BY <2>3, <2>4 DEF Below
<1>2. QED
  BY <1>1, TypeAlways, BaseAlways, LogAlways, PTL DEF Spec, HeadExtends

-----------------------------------------------------------------------------
(* The refinement of OperationLog.                                         *)

(* A call that ends a publication finds its operation in the manifest.     *)
LEMMA CompletionLogged ==
  ASSUME TypeInv, BaseInv, LogInv, NEW p \in Procs, at[p].pc \in Completing
  PROVE  at[p].op \in Ops /\ Log!Logged(at[p].op)
<1>1. at[p] \in Local /\ Shape(at[p]) /\ Honest(at[p], manifest) /\ Ordered(at[p], manifest, head)
  BY Typed DEF BaseInv, LogInv
<1>2. at[p].pc \in Fenced /\ at[p].pc # "idle"
  BY DEF Fenced, Completing
<1>3. at[p].op \in Ops
  BY <1>1, <1>2, OpsIn DEF Shape
<1>4. at[p].h.cp.content \subseteq manifest
  BY <1>1 DEF Honest
<1>5. Contains(at[p].h.cp.content, at[p].op)
  BY <1>1, <1>2 DEF Ordered, Publishes
<1>6. QED
  BY <1>3, <1>4, <1>5 DEF Contains, Log!Logged, Log!OpOf

LEMMA PublishLogged ==
  ASSUME Once(manifest'), manifest \subseteq manifest', UNCHANGED <<acked, lapsed>>
  PROVE  Log!Publish
<1>1. ASSUME NEW e \in manifest' \ manifest, e[1] \in Ops \ lapsed
      PROVE  /\ ~\E f \in manifest : f[1] = e[1]
             /\ \A f \in manifest' \ manifest : f[1] = e[1] => f = e
  BY <1>1 DEF Once
<1>2. QED
  BY <1>1 DEF Log!Publish, Log!Logged, Log!OpOf

(* While no record expires and callers ask for the status first, the       *)
(* session protocol implements the operation log: the manifest only grows, *)
(* an operation enters it at most once however often its upload is         *)
(* retried, recovered or answered with an error, and an upload returns     *)
(* SQLITE_OK only for an operation that is in it.                          *)
THEOREM LogImplemented ==
  ASSUME AskStatus, MaxExpiry = 0
  PROVE  Spec => ImplementsLog
<1>1. Init => Log!Init
  BY DEF Init, Log!Init
<1>2. TypeInv /\ BaseInv /\ LogInv /\ [Next]_vars => [Log!Next]_(Log!vars)
  <2>1. SUFFICES ASSUME TypeInv, BaseInv, LogInv, [Next]_vars, Kept', LogInv',
                        manifest \subseteq manifest'
                 PROVE  Log!Next \/ UNCHANGED Log!vars
    BY LogNext, BaseNext DEF LogInv
  <2>2. UNCHANGED lapsed /\ Once(manifest')
    BY <2>1 DEF LogInv, Kept
  <2>3. CASE UNCHANGED acked
    BY <2>1, <2>2, <2>3, PublishLogged DEF Log!Next
  <2>4. ASSUME NEW p \in Procs, FinalRead(p) \/ FinalPut(p) \/ FinalAgain(p)
        PROVE  Log!Next \/ UNCHANGED Log!vars
    <3>1. at[p].pc \in Completing /\ UNCHANGED manifest
      <4>1. CASE FinalPut(p)
        BY <2>1, <4>1, FinalPutOutcome, Typed DEF HeadFrame, Completing
      <4>2. CASE FinalRead(p) \/ FinalAgain(p)
        BY <2>1, <4>2, FinalEffects DEF bucket, Completing
      <4>3. QED
        BY <2>4, <4>1, <4>2
    <3>2. at[p].op \in Ops /\ Log!Logged(at[p].op)
      BY <2>1, <3>1, CompletionLogged
    <3>3. CASE acked' = acked \cup {at[p].op}
      BY <2>2, <3>1, <3>2, <3>3 DEF Log!Next, Log!Complete
    <3>4. QED
      BY <2>1, <2>3, <2>4, <3>3, FinalEffects DEF Acks
  <2>5. QED
    <3>1. CASE UNCHANGED vars
      BY <2>3, <3>1 DEF vars, requests
    <3>2. CASE ForeignUpload
      BY <2>1, <2>3, <3>2, TypeForeignUpload
    <3>3. CASE \E p \in Procs : Step(p) \/ Call(p)
      BY <2>1, <2>3, <2>4, <3>3, StepFrame
    <3>4. QED
      BY <2>1, <3>1, <3>2, <3>3, NothingExpires DEF LogInv
<1>3. QED
  BY <1>1, <1>2, TypeAlways, BaseAlways, LogAlways, PTL DEF Spec, ImplementsLog, Log!Spec

=============================================================================
