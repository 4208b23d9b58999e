------------------------- MODULE SessionPublication -------------------------
(***************************************************************************)
(* The session protocol of blockcachevfs.c as RemoteServer drives it.  A   *)
(* server invocation attaches to a session with one operation, rehydrates  *)
(* the accepted head, runs the operation, writes an immutable checkpoint,  *)
(* and then either accepts it (complete_request) or publishes the manifest *)
(* (upload).  Every record lives in the bucket: a head per session, one    *)
(* publication record per container (the fence), the candidate manifests,  *)
(* and manifest.bcv.                                                       *)
(*                                                                         *)
(* A step is one request to the bucket: invocations of several processes   *)
(* interleave between requests, may die at any of them, and a PUT may be   *)
(* applied although its answer is an error.                                *)
(*                                                                         *)
(* A manifest is abstracted to the set of executions it contains, one      *)
(* entry <<operation, attachment>> per execution.  A record or a manifest  *)
(* is its own ETag: every record embeds its predecessor's hash or a fresh  *)
(* time stamp, and every manifest fresh block names, so that none repeats. *)
(***************************************************************************)
EXTENDS Naturals, FiniteSets

CONSTANTS
    Procs,         \* server processes
    Sessions,      \* session UUIDs
    OpsOf,         \* operation IDs of each session
    Foreign,       \* operation ID of an upload outside the protocol
    None,          \* no object, no checkpoint
    AskStatus,     \* callers ask operation_status first, as RemoteServer does
    MaxAttach,     \* bound: attachments
    MaxSeq,        \* bound: checkpoint sequence numbers
    MaxForeign,    \* bound: uploads outside the protocol
    MaxExpiry,     \* bound: records whose TTL passes
    MaxFaults      \* bound: failed or unanswered requests

Ops == UNION {OpsOf[s] : s \in Sessions}
Entry == (Ops \cup {Foreign}) \X Nat
Content == SUBSET Entry

Checkpoint == [att : Nat, op : Ops, seq : Nat, base : Content, content : Content]
Head == [state : {"accepted", "publishing", "committed", "expired"},
         op : Ops, seq : Nat, cp : Checkpoint, hist : SUBSET Ops]
Publication == [state : {"publishing", "committed"},
                op : Ops, seq : Nat, cp : Checkpoint, stamp : Nat]

ASSUME SessionAssumption ==
    /\ AskStatus \in BOOLEAN
    /\ MaxAttach \in Nat /\ MaxSeq \in Nat /\ MaxForeign \in Nat
    /\ MaxExpiry \in Nat /\ MaxFaults \in Nat
    /\ Foreign \notin Ops /\ "pub" \notin Sessions
    /\ \A s, t \in Sessions : s # t => OpsOf[s] \cap OpsOf[t] = {}
    /\ None \notin Head \cup Publication \cup Checkpoint \cup Ops \cup Sessions

VARIABLES
    manifest,   \* bucket: manifest.bcv
    head,       \* bucket: the head of each session
    pub,        \* bucket: the publication record of the container
    cands,      \* bucket: candidate objects
    expired,    \* records whose iExpires has passed: sessions and "pub"
    at,         \* each process: where it is and its local variables
    natt,       \* attachments so far
    nforeign,   \* uploads outside the protocol so far
    nexpiry,    \* TTLs that have passed so far
    faults,     \* failed or unanswered requests so far
    acked,      \* history: operations whose upload returned SQLITE_OK
    lapsed,     \* history: operations whose session head a cleanup deleted
    doomed      \* candidates that a running cleanup has marked

bucket == <<manifest, head, pub, cands, expired>>
requests == <<at, natt, nforeign, faults, acked>>
gc == <<nexpiry, lapsed, doomed>>
vars == <<bucket, requests, gc>>

(* A process with no attachment.                                           *)
Detached == [pc |-> "idle", sess |-> None, op |-> None, att |-> 0,
             exp |-> None, root |-> None, base |-> {}, content |-> {},
             seq |-> 0, cp |-> None, h |-> None, q |-> None, g |-> None]

Init ==
    /\ manifest = {}
    /\ head = [s \in Sessions |-> None]
    /\ pub = None
    /\ cands = {}
    /\ expired = {}
    /\ at = [p \in Procs |-> Detached]
    /\ natt = 0 /\ nforeign = 0 /\ nexpiry = 0 /\ faults = 0
    /\ acked = {} /\ lapsed = {} /\ doomed = {}

-----------------------------------------------------------------------------
(* Steps of a process.                                                     *)

Sess(p) == at[p].sess
HeadOf(p) == head[at[p].sess]

Goto(p, pc) == at' = [at EXCEPT ![p].pc = pc]
GotoWithHead(p, pc, h) == at' = [at EXCEPT ![p].pc = pc, ![p].h = h]
GotoWithPub(p, pc, q) == at' = [at EXCEPT ![p].pc = pc, ![p].q = q]

(* A call returns: its local variables are gone, the attachment stays.     *)
Return(p) == at' = [at EXCEPT ![p].pc = "attached", ![p].cp = None, ![p].h = None,
                              ![p].q = None, ![p].g = None]
Leave(p) == at' = [at EXCEPT ![p] = Detached]

InCall(p) == at[p].pc \notin {"idle", "attached"}
Attaching(p) == at[p].pc \in {"rehydrateHead", "rehydrateBase"}

CanFault == faults < MaxFaults
Fault == CanFault /\ faults' = faults + 1

(* A step that only reads.                                                 *)
Reads == UNCHANGED <<bucket, natt, nforeign, faults, acked>>

(* bcvfsSessionHeadMatches and bcvfsSessionPublicationMatches: the same    *)
(* checkpoint, hence the same candidate and base ETag.                     *)
Matches(r, state, cp) == r # None /\ r.state = state /\ r.cp = cp

(* A conditional PUT.  It is applied and answered, or applied and          *)
(* unanswered, or it fails; the caller then reads the object again.        *)
CondPut(holds, Write, Skip, Ok, Again) ==
    \/ holds /\ Write /\ Ok /\ UNCHANGED faults
    \/ holds /\ Write /\ Again /\ Fault
    \/ holds /\ Skip /\ Again /\ Fault
    \/ ~holds /\ Skip /\ Again /\ UNCHANGED faults

PutHead(p, old, new, Ok, Again) ==
    /\ CondPut(HeadOf(p) = old, head' = [head EXCEPT ![Sess(p)] = new],
               UNCHANGED head, Ok, Again)
    /\ expired' = IF head' = head \/ (old # None /\ old.seq = new.seq) THEN expired
                  ELSE expired \ {Sess(p)}
    /\ UNCHANGED <<manifest, pub, cands, natt, nforeign>>

PutPub(old, new, Ok, Again) ==
    /\ CondPut(pub = old, pub' = new, UNCHANGED pub, Ok, Again)
    /\ expired' = IF pub' = pub \/ (old # None /\ old.cp = new.cp) THEN expired
                  ELSE expired \ {"pub"}
    /\ UNCHANGED <<manifest, head, cands, natt, nforeign, acked>>

(* Mutant of PutManifest: without If-Match.                                *)
PutManifestAlways(old, new, Ok, Again) ==
    /\ CondPut(TRUE, manifest' = new, UNCHANGED manifest, Ok, Again)
    /\ UNCHANGED <<head, pub, cands, expired, natt, nforeign, acked>>

PutManifest(old, new, Ok, Again) ==
    /\ CondPut(manifest = old, manifest' = new, UNCHANGED manifest, Ok, Again)
    /\ UNCHANGED <<head, pub, cands, expired, natt, nforeign, acked>>

-----------------------------------------------------------------------------
(* sqlite3_bcvfs_attach_session_scoped.                                    *)

Live == {"accepted", "publishing", "committed"}

(* bcvfsSessionAcceptedTip and bcvfsSessionBind: what the later CAS of the *)
(* head will expect.                                                       *)
Attach(p, s, o) ==
    /\ at[p].pc = "idle" /\ natt < MaxAttach
    /\ head[s] # None => head[s].state \in Live
    /\ natt' = natt + 1
    /\ at' = [at EXCEPT ![p] =
                [Detached EXCEPT !.pc = "rehydrateHead", !.sess = s, !.op = o,
                                 !.att = natt + 1, !.exp = head[s]]]
    /\ UNCHANGED <<bucket, nforeign, faults, acked>>

(* sqlite3_bcvfs_session_rehydrate reads the head once more ...            *)
RehydrateHead(p) ==
    /\ at[p].pc = "rehydrateHead"
    /\ LET h == HeadOf(p) IN
       IF h = None \/ (h.state \in Live /\ Sess(p) \notin expired /\ h.cp.op = h.op)
       THEN GotoWithHead(p, "rehydrateBase", h)
       ELSE Leave(p)
    /\ Reads

(* Mutant of RehydrateBase: starts from the published manifest although    *)
(* the session has an accepted head.                                       *)
RehydrateBaseOnly(p) ==
    /\ at[p].pc = "rehydrateBase"
    /\ at' = [at EXCEPT ![p].pc = "attached", ![p].h = None,
                        ![p].base = manifest, ![p].content = manifest,
                        ![p].seq = IF at[p].h = None THEN 0 ELSE at[p].h.seq,
                        ![p].root = IF at[p].h = None THEN None ELSE at[p].h.cp]
    /\ Reads

(* ... and then the published manifest, which the head must still fit.     *)
RehydrateBase(p) ==
    /\ at[p].pc = "rehydrateBase"
    /\ LET h == at[p].h
           visible == manifest = h.cp.content
           fits == CASE h.state = "accepted" -> manifest = h.cp.base
                     [] h.state = "publishing" -> manifest = h.cp.base \/ visible
                     [] h.state = "committed" -> visible
           install(base, content, seq, root) ==
               at' = [at EXCEPT ![p].pc = "attached", ![p].h = None,
                                ![p].base = base, ![p].content = content,
                                ![p].seq = seq, ![p].root = root]
       IN IF h = None THEN install(manifest, manifest, 0, None)
          ELSE IF fits THEN install(h.cp.base, h.cp.content, h.seq, h.cp)
          ELSE Leave(p)
    /\ Reads

(* sqlite3_bcvfs_detach_session, and the death of the process: nothing but *)
(* the bucket survives.                                                    *)
Detach(p) ==
    /\ at[p].pc # "idle"
    /\ Leave(p)
    /\ Reads

(* A request of a call fails before it changes anything.                   *)
Fail(p) ==
    /\ InCall(p) /\ Fault
    /\ IF Attaching(p) THEN Leave(p) ELSE Return(p)
    /\ UNCHANGED <<bucket, natt, nforeign, acked>>

-----------------------------------------------------------------------------
(* sqlite3_bcvfs_session_operation_status.                                 *)

(* Mutant of Status: an operation that is accepted already counts as new.  *)
StatusForgetful(p) ==
    IF HeadOf(p) # None /\ HeadOf(p).state = "committed" THEN "committed" ELSE "new"

Status(p) ==
    LET h == HeadOf(p) IN
    IF h = None THEN "new"
    ELSE IF h.op # at[p].op
    THEN IF h.state \in {"committed", "publishing"} \/ at[p].exp # h
            \/ at[p].op \in h.hist
         THEN "conflict" ELSE "new"
    ELSE CASE h.state = "committed" -> "committed"
           [] h.state \in {"accepted", "publishing"} -> "accepted"
           [] h.state = "expired" -> "failed"

-----------------------------------------------------------------------------
(* bcvfsSessionCheckpointForFile: stage every dirty block, then PUT the    *)
(* immutable checkpoint record.  An operation's writes are in the overlay  *)
(* from its first checkpoint on.                                           *)
TakeCheckpoint(p, pc) ==
    LET content == at[p].content \cup {<<at[p].op, at[p].att>>}
        cp == [att |-> at[p].att, op |-> at[p].op, seq |-> at[p].seq + 1,
               base |-> at[p].base, content |-> content]
    IN at' = [at EXCEPT ![p].pc = pc, ![p].cp = cp, ![p].seq = cp.seq,
                     ![p].content = content]

(* RemoteServer::complete_request: nothing to do once the operation is     *)
(* accepted, an error on a conflict, otherwise checkpoint and accept.      *)
CompleteRequest(p) ==
    /\ at[p].pc = "attached"
    /\ (AskStatus => Status(p) = "new") /\ at[p].seq < MaxSeq
    /\ Goto(p, "checkpoint")
    /\ Reads

SessionCheckpoint(p) ==
    /\ at[p].pc = "checkpoint"
    /\ TakeCheckpoint(p, "accept")
    /\ Reads

(* sqlite3_bcvfs_session_accept reads the head ...                         *)
AcceptMatches(p, h) ==
    /\ h # None /\ h.state \in {"accepted", "committed"}
    /\ h.op = at[p].op /\ h.seq = at[p].cp.seq /\ h.cp = at[p].cp

AcceptFences(p, h) ==
    /\ at[p].root = IF at[p].exp = None THEN None ELSE at[p].exp.cp
    /\ h = at[p].exp
    /\ (h # None /\ h.op # at[p].op) =>
          (h.state = "accepted" /\ at[p].op \notin h.hist)

AcceptRead(p) ==
    /\ at[p].pc = "accept"
    /\ LET h == HeadOf(p) IN
       IF (AcceptMatches(p, h) /\ Sess(p) \notin expired) \/ ~AcceptFences(p, h)
       THEN Return(p)
       ELSE GotoWithHead(p, "acceptBase", h)
    /\ Reads

(* ... requires that the manifest is still the base of the checkpoint ...  *)
AcceptBase(p) ==
    /\ at[p].pc = "acceptBase"
    /\ IF manifest = at[p].cp.base THEN Goto(p, "acceptPut") ELSE Return(p)
    /\ Reads

(* ... and replaces the head that the attachment captured.                 *)
AcceptPut(p) ==
    /\ at[p].pc = "acceptPut"
    /\ LET h == at[p].h
           new == [state |-> "accepted", op |-> at[p].op, seq |-> at[p].cp.seq,
                   cp |-> at[p].cp,
                   hist |-> (IF h = None THEN {} ELSE h.hist) \cup {at[p].op}]
       IN PutHead(p, at[p].exp, new, Return(p), Goto(p, "acceptAgain"))
    /\ UNCHANGED acked

(* Either way the call returns; AcceptMatches only decides what it says.   *)
AcceptAgain(p) ==
    /\ at[p].pc = "acceptAgain"
    /\ Return(p)
    /\ Reads

-----------------------------------------------------------------------------
(* RemoteServer::upload: an operation that is still new is finalized, an   *)
(* accepted one published.                                                 *)
Upload(p) ==
    /\ at[p].pc = "attached"
    /\ \/ /\ AskStatus => Status(p) = "new"
          /\ at[p].seq < MaxSeq
          /\ Goto(p, "finalize")
       \/ /\ AskStatus => Status(p) \in {"accepted", "committed"}
          /\ Goto(p, "publish")
    /\ Reads

(* bcvfsSessionCandidatePut: content addressed, so an existing object will *)
(* do; an unanswered PUT ends the call.                                    *)
PutCandidate(p, content, pc) ==
    /\ cands' = cands \cup {content}
    /\ \/ Goto(p, pc) /\ UNCHANGED faults
       \/ Return(p) /\ Fault
    /\ UNCHANGED <<manifest, head, pub, expired, natt, nforeign, acked>>

-----------------------------------------------------------------------------
(* bcvfsSessionFinalizeNew: from the captured head straight to PUBLISHING. *)

FinalizeRead(p) ==
    /\ at[p].pc = "finalize"
    /\ LET h == HeadOf(p) IN
       IF h # at[p].exp THEN Return(p)
       ELSE IF h = None \/ (h.op # at[p].op /\ h.state \in {"accepted", "committed"})
       THEN GotoWithHead(p, "finalizeCheckpoint", h)
       ELSE IF h.op = at[p].op /\ h.state \in Live THEN Goto(p, "publish")
       ELSE Return(p)
    /\ Reads

FinalizeCheckpoint(p) ==
    /\ at[p].pc = "finalizeCheckpoint"
    /\ TakeCheckpoint(p, "finalizeCandidate")
    /\ Reads

FinalizeCandidate(p) ==
    /\ at[p].pc = "finalizeCandidate"
    /\ PutCandidate(p, at[p].cp.content, "finalizePut")

(* Mutant of FinalizedHead: the synthesized OPEN predecessor is written.   *)
FinalizedHeadOpen(p) ==
    [state |-> "open", op |-> at[p].op, seq |-> at[p].cp.seq, cp |-> at[p].cp, hist |-> {}]

(* The operation history of the predecessor is carried over as it is.      *)
FinalizedHead(p) ==
    [state |-> "publishing", op |-> at[p].op, seq |-> at[p].cp.seq,
     cp |-> at[p].cp, hist |-> IF at[p].h = None THEN {} ELSE at[p].h.hist]

FinalizePut(p) ==
    /\ at[p].pc = "finalizePut"
    /\ PutHead(p, at[p].exp, FinalizedHead(p),
               Goto(p, "publish"), Goto(p, "finalizeAgain"))
    /\ UNCHANGED acked

FinalizeAgain(p) ==
    /\ at[p].pc = "finalizeAgain"
    /\ IF HeadOf(p) = FinalizedHead(p) THEN Goto(p, "publish") ELSE Return(p)
    /\ Reads

-----------------------------------------------------------------------------
(* bcvfsSessionPublish: the head, then its candidate object, then the claim *)
(* of the head.                                                            *)

PublishRead(p) ==
    /\ at[p].pc = "publish"
    /\ LET h == HeadOf(p) IN
       IF h # None /\ h.state \in Live /\ Sess(p) \notin expired
       THEN GotoWithHead(p, "publishCandidate", h)
       ELSE Return(p)
    /\ Reads

(* Mutant of PublishCandidate: the candidate object is not written.        *)
PublishCandidateSkipped(p) ==
    /\ at[p].pc = "publishCandidate"
    /\ Goto(p, IF at[p].h.state = "accepted" THEN "claimHead" ELSE "fence")
    /\ Reads

PublishCandidate(p) ==
    /\ at[p].pc = "publishCandidate"
    /\ PutCandidate(p, at[p].h.cp.content,
                    IF at[p].h.state = "accepted" THEN "claimHead" ELSE "fence")

ClaimedHead(p) == [at[p].h EXCEPT !.state = "publishing"]

ClaimHead(p) ==
    /\ at[p].pc = "claimHead"
    /\ PutHead(p, at[p].h, ClaimedHead(p), Goto(p, "fence"), Goto(p, "claimAgain"))
    /\ UNCHANGED acked

ClaimAgain(p) ==
    /\ at[p].pc = "claimAgain"
    /\ LET g == HeadOf(p) IN
       IF g = ClaimedHead(p) \/ Matches(g, "committed", at[p].h.cp)
       THEN GotoWithHead(p, "fence", g)
       ELSE Return(p)
    /\ Reads

(* The publication fence.  q is the record as fetched, or as this call has *)
(* just written it.                                                        *)
FenceDecide(p, q) ==
    LET cp == at[p].h.cp IN
    GotoWithPub(p,
        IF q = None THEN "fencePut"
        ELSE IF Matches(q, "committed", cp) THEN "visible"
        ELSE IF Matches(q, "publishing", cp) /\ "pub" \notin expired THEN "manifest"
        ELSE IF q.state = "committed" THEN "fenceBase"
        ELSE "recoverCandidate", q)

(* Mutant of Fence: another publisher's pending candidate is not recovered. *)
FenceGivesUp(p) ==
    /\ at[p].pc = "fence"
    /\ IF pub # None /\ pub.state = "publishing" /\ pub.cp # at[p].h.cp
       THEN Return(p) ELSE FenceDecide(p, pub)
    /\ Reads

Fence(p) ==
    /\ at[p].pc = "fence"
    /\ FenceDecide(p, pub)
    /\ Reads

(* A committed record is history: it gives way if the manifest is still    *)
(* the base of this checkpoint.                                            *)
FenceBase(p) ==
    /\ at[p].pc = "fenceBase"
    /\ IF manifest = at[p].h.cp.base THEN Goto(p, "fencePut") ELSE Return(p)
    /\ Reads

PendingPub(p) ==
    [state |-> "publishing", op |-> at[p].h.op, cp |-> at[p].h.cp,
     seq |-> IF at[p].q = None THEN at[p].h.seq ELSE at[p].q.seq + 1,
     stamp |-> at[p].att]

(* Mutant of FencePut: the record is committed before the manifest is PUT. *)
FencePutCommits(p) ==
    /\ at[p].pc = "fencePut"
    /\ PutPub(at[p].q, PendingPub(p),
              GotoWithPub(p, "commitPub", PendingPub(p)), Goto(p, "fenceAgain"))

FencePut(p) ==
    /\ at[p].pc = "fencePut"
    /\ PutPub(at[p].q, PendingPub(p),
              GotoWithPub(p, "manifest", PendingPub(p)), Goto(p, "fenceAgain"))

FenceAgain(p) ==
    /\ at[p].pc = "fenceAgain"
    /\ IF pub = PendingPub(p) THEN GotoWithPub(p, "manifest", pub)
       ELSE IF Matches(pub, "committed", at[p].h.cp) THEN GotoWithPub(p, "visible", pub)
       ELSE Return(p)
    /\ Reads

-----------------------------------------------------------------------------
(* Recovery of another publisher's pending candidate, from its immutable   *)
(* object; then the fence is decided again.                                *)

CommittedPub(q) == [q EXCEPT !.state = "committed", !.seq = @ + 1]

RecoverCandidate(p) ==
    /\ at[p].pc = "recoverCandidate"
    /\ IF at[p].q.cp.content \in cands THEN Goto(p, "recoverRead") ELSE Return(p)
    /\ Reads

RecoverRead(p) ==
    /\ at[p].pc = "recoverRead"
    /\ IF manifest = at[p].q.cp.content THEN Goto(p, "recoverCommit")
       ELSE IF manifest = at[p].q.cp.base THEN Goto(p, "recoverPut")
       ELSE Return(p)
    /\ Reads

RecoverPut(p) ==
    /\ at[p].pc = "recoverPut"
    /\ PutManifest(at[p].q.cp.base, at[p].q.cp.content,
                   Goto(p, "recoverCommit"), Goto(p, "recoverAgain"))

RecoverAgain(p) ==
    /\ at[p].pc = "recoverAgain"
    /\ IF manifest = at[p].q.cp.content THEN Goto(p, "recoverCommit") ELSE Return(p)
    /\ Reads

RecoverCommit(p) ==
    /\ at[p].pc = "recoverCommit"
    /\ PutPub(at[p].q, CommittedPub(at[p].q),
              FenceDecide(p, CommittedPub(at[p].q)), Goto(p, "recoverCommitAgain"))

RecoverCommitAgain(p) ==
    /\ at[p].pc = "recoverCommitAgain"
    /\ IF pub = CommittedPub(at[p].q) \/ Matches(pub, "committed", at[p].q.cp)
       THEN FenceDecide(p, pub)
       ELSE Return(p)
    /\ Reads

-----------------------------------------------------------------------------
(* The manifest, and the commit of the publication record.                 *)

(* The record says committed already: its manifest must be the visible one. *)
Visible(p) ==
    /\ at[p].pc = "visible"
    /\ IF manifest = at[p].h.cp.content THEN Goto(p, "finalRead") ELSE Return(p)
    /\ Reads

ReadManifest(p) ==
    /\ at[p].pc = "manifest"
    /\ IF manifest = at[p].h.cp.content THEN Goto(p, "commitPub")
       ELSE IF manifest = at[p].h.cp.base THEN Goto(p, "putManifest")
       ELSE Return(p)
    /\ Reads

PublishManifest(p) ==
    /\ at[p].pc = "putManifest"
    /\ PutManifest(at[p].h.cp.base, at[p].h.cp.content,
                   Goto(p, "confirm"), Goto(p, "putManifestAgain"))

PublishManifestAgain(p) ==
    /\ at[p].pc = "putManifestAgain"
    /\ IF manifest = at[p].h.cp.content THEN Goto(p, "confirm") ELSE Return(p)
    /\ Reads

ConfirmManifest(p) ==
    /\ at[p].pc = "confirm"
    /\ IF manifest = at[p].h.cp.content THEN Goto(p, "commitPub") ELSE Return(p)
    /\ Reads

CommitPub(p) ==
    /\ at[p].pc = "commitPub"
    /\ PutPub(at[p].q, CommittedPub(at[p].q), Goto(p, "finalRead"), Goto(p, "commitPubAgain"))

CommitPubAgain(p) ==
    /\ at[p].pc = "commitPubAgain"
    /\ IF pub = CommittedPub(at[p].q) \/ Matches(pub, "committed", at[p].h.cp)
       THEN Goto(p, "finalRead")
       ELSE Return(p)
    /\ Reads

-----------------------------------------------------------------------------
(* The last two requests: read the head again and mark it committed.       *)

(* The call returns SQLITE_OK.                                             *)
Succeed(p) == Return(p) /\ acked' = acked \cup {at[p].op}

FinalRead(p) ==
    /\ at[p].pc = "finalRead"
    /\ LET g == HeadOf(p) IN
       \/ /\ Matches(g, "committed", at[p].h.cp)
          /\ Succeed(p)
       \/ /\ g # None /\ g.state \in {"publishing", "accepted"}
          /\ at' = [at EXCEPT ![p].pc = "finalPut", ![p].g = g]
          /\ UNCHANGED acked
       \/ /\ IF g = None THEN TRUE
             ELSE g.state = "expired" \/ (g.state = "committed" /\ g.cp # at[p].h.cp)
          /\ Return(p)
          /\ UNCHANGED acked
    /\ UNCHANGED <<bucket, natt, nforeign, faults>>

(* The record just read, with the state and the checkpoint replaced.       *)
FinalHead(p) == [at[p].g EXCEPT !.state = "committed", !.cp = at[p].h.cp]

FinalPut(p) ==
    /\ at[p].pc = "finalPut"
    /\ PutHead(p, at[p].g, FinalHead(p), Succeed(p),
               Goto(p, "finalAgain") /\ UNCHANGED acked)

FinalAgain(p) ==
    /\ at[p].pc = "finalAgain"
    /\ IF HeadOf(p) = FinalHead(p) \/ Matches(HeadOf(p), "committed", at[p].h.cp)
       THEN Succeed(p)
       ELSE Return(p) /\ UNCHANGED acked
    /\ UNCHANGED <<bucket, natt, nforeign, faults>>

-----------------------------------------------------------------------------
(* What else happens to the bucket.                                        *)

(* An upload outside the protocol (sqlite3_bcvfs_upload of a plain handle) *)
(* replaces the manifest it has read without looking at the fence.         *)
ForeignUpload ==
    /\ nforeign < MaxForeign
    /\ nforeign' = nforeign + 1
    /\ manifest' = manifest \cup {<<Foreign, nforeign + 1>>}
    /\ UNCHANGED <<head, pub, cands, expired, at, natt, faults, acked, gc>>

(* The TTL of a record passes.                                             *)
Expire(x) ==
    /\ nexpiry < MaxExpiry /\ x \notin expired
    /\ IF x = "pub" THEN pub # None ELSE head[x] # None
    /\ expired' = expired \cup {x} /\ nexpiry' = nexpiry + 1
    /\ UNCHANGED <<manifest, head, pub, cands, requests, lapsed, doomed>>

(* bcvSessionGcExpireHead: a CAS to EXPIRED, whatever the state was.       *)
GcExpireHead(s) ==
    /\ s \in expired /\ head[s].state # "expired"
    /\ head' = [head EXCEPT ![s].state = "expired"]
    /\ UNCHANGED <<manifest, pub, cands, expired, requests, gc>>

(* bcvSessionGcMark: the candidates that an expired record names and no    *)
(* live one.                                                               *)
GcMark ==
    /\ doomed = {}
    /\ LET records == {<<s, head[s]>> : s \in {t \in Sessions : head[t] # None}}
                      \cup (IF pub = None THEN {} ELSE {<<"pub", pub>>})
           named(rs) == {r[2].cp.content : r \in rs}
           live == {r \in records : r[1] \notin expired}
       IN doomed' = (named(records \ live) \ named(live)) \cap cands
    /\ doomed' # {}
    /\ UNCHANGED <<bucket, requests, nexpiry, lapsed>>

(* bcvSessionGcDeleteExpired: the marked candidates, then the expired      *)
(* records, each if it has not been replaced; or the cleanup ends early.   *)
GcDeleteCandidate(c) ==
    /\ c \in doomed
    /\ cands' = cands \ {c} /\ doomed' = doomed \ {c}
    /\ UNCHANGED <<manifest, head, pub, expired, requests, nexpiry, lapsed>>

GcDeletePub ==
    /\ "pub" \in expired /\ doomed = {}
    /\ pub' = None
    /\ expired' = expired \ {"pub"}
    /\ UNCHANGED <<manifest, head, cands, requests, gc>>

GcDeleteHead(s) ==
    /\ s \in expired /\ head[s].state = "expired" /\ doomed = {}
    /\ head' = [head EXCEPT ![s] = None]
    /\ expired' = expired \ {s}
    /\ lapsed' = lapsed \cup OpsOf[s]
    /\ UNCHANGED <<manifest, pub, cands, requests, nexpiry, doomed>>

-----------------------------------------------------------------------------

Publishing(p) ==
    \/ PublishRead(p) \/ PublishCandidate(p) \/ ClaimHead(p) \/ ClaimAgain(p)
    \/ Fence(p) \/ FenceBase(p) \/ FencePut(p) \/ FenceAgain(p)
    \/ RecoverCandidate(p) \/ RecoverRead(p) \/ RecoverPut(p) \/ RecoverAgain(p)
    \/ RecoverCommit(p) \/ RecoverCommitAgain(p)
    \/ Visible(p) \/ ReadManifest(p) \/ PublishManifest(p) \/ PublishManifestAgain(p)
    \/ ConfirmManifest(p) \/ CommitPub(p) \/ CommitPubAgain(p)
    \/ FinalRead(p) \/ FinalPut(p) \/ FinalAgain(p)

(* The next request of the call that a process is in.                      *)
Step(p) ==
    /\ \/ RehydrateHead(p) \/ RehydrateBase(p)
       \/ SessionCheckpoint(p)
       \/ AcceptRead(p) \/ AcceptBase(p) \/ AcceptPut(p) \/ AcceptAgain(p)
       \/ FinalizeRead(p) \/ FinalizeCheckpoint(p) \/ FinalizeCandidate(p)
       \/ FinalizePut(p) \/ FinalizeAgain(p)
       \/ Publishing(p)
    /\ UNCHANGED gc

Call(p) ==
    /\ \/ \E s \in Sessions : \E o \in OpsOf[s] : Attach(p, s, o)
       \/ CompleteRequest(p) \/ Upload(p)
       \/ Detach(p) \/ Fail(p)
    /\ UNCHANGED gc

Cleanup ==
    \/ \E s \in Sessions : GcExpireHead(s) \/ GcDeleteHead(s)
    \/ GcMark \/ GcDeletePub
    \/ \E c \in doomed : GcDeleteCandidate(c)

Next ==
    \/ \E p \in Procs : Step(p) \/ Call(p)
    \/ ForeignUpload
    \/ \E x \in Sessions \cup {"pub"} : Expire(x)
    \/ Cleanup

Spec == Init /\ [][Next]_vars

(* A process that is not killed takes the next step of its call.           *)
FairSpec == Spec /\ \A p \in Procs : WF_vars(Step(p))

-----------------------------------------------------------------------------
(* Properties.                                                             *)

(* The requests of the calls.                                              *)
Accepting == {"accept", "acceptBase", "acceptPut", "acceptAgain"}
Finalizing == {"finalizeCandidate", "finalizePut", "finalizeAgain"}
Recovering == {"recoverCandidate", "recoverRead", "recoverPut", "recoverAgain",
               "recoverCommit", "recoverCommitAgain"}
Storing == {"manifest", "putManifest", "putManifestAgain", "confirm",
            "commitPub", "commitPubAgain"}
Completing == {"finalRead", "finalPut", "finalAgain"}
Fenced == {"fence", "fenceBase", "fencePut", "fenceAgain", "visible"}
          \cup Recovering \cup Storing \cup Completing
Claiming == {"claimHead", "claimAgain"}
Pcs == {"idle", "rehydrateHead", "rehydrateBase", "attached", "checkpoint", "finalize",
        "finalizeCheckpoint", "publish", "publishCandidate"}
       \cup Accepting \cup Finalizing \cup Claiming \cup Fenced

Local == [pc : Pcs, sess : Sessions \cup {None}, op : Ops \cup {None},
          att : Nat, exp : Head \cup {None}, root : Checkpoint \cup {None},
          base : Content, content : Content, seq : Nat,
          cp : Checkpoint \cup {None}, h : Head \cup {None},
          q : Publication \cup {None}, g : Head \cup {None}]

(* Every record in the bucket and in a process is well formed.             *)
TypeOK ==
    /\ manifest \in Content
    /\ head \in [Sessions -> Head \cup {None}]
    /\ pub \in Publication \cup {None}
    /\ \A c \in cands \cup doomed : c \in Content
    /\ expired \subseteq Sessions \cup {"pub"}
    /\ at \in [Procs -> Local]
    /\ natt \in 0..MaxAttach /\ nforeign \in 0..MaxForeign
    /\ nexpiry \in 0..MaxExpiry /\ faults \in 0..MaxFaults
    /\ acked \subseteq Ops /\ lapsed \subseteq Ops

(* The published manifest is a log of operations: it only grows, contains  *)
(* an operation once however often an upload is retried, recovered by      *)
(* another publisher or answered with an error, and an upload returns      *)
(* SQLITE_OK only when its operation is in it.                             *)
Log == INSTANCE OperationLog WITH log <- manifest, done <- acked
ImplementsLog == Log!Spec

(* A head that operation_status reports as committed names an operation    *)
(* and a checkpoint that the published manifest contains.                  *)
CommittedIsPublished ==
    \A s \in Sessions :
        (head[s] # None /\ head[s].state = "committed") =>
            /\ head[s].cp.content \subseteq manifest
            /\ \E e \in manifest : e[1] = head[s].op

(* A pending publication record can always be recovered by another         *)
(* publisher: its candidate object exists, and the manifest is the         *)
(* candidate or still its base.                                            *)
PendingRecoverable ==
    (pub # None /\ pub.state = "publishing") =>
        /\ pub.cp.content \in cands
        /\ manifest \in {pub.cp.base, pub.cp.content}

(* An accepted operation never drops out of its session: whatever replaces *)
(* a head extends it.                                                      *)
HeadExtends ==
    [][\A s \in Sessions :
          (head[s] # None /\ head'[s] # None) =>
              head[s].cp.content \subseteq head'[s].cp.content]_vars

(* A call that reaches the fence while a publication is pending does not   *)
(* leave it pending, unless the process dies.                              *)
Pending == pub # None /\ pub.state = "publishing"
PendingResolved ==
    \A p \in Procs :
        (at[p].pc = "fence" /\ Pending) ~> (~Pending \/ at[p].pc = "idle")

(* A pending fence is resolved, never deleted.                             *)
PendingFenceKept == [][Pending => pub' # None]_vars

-----------------------------------------------------------------------------
(* The inductive invariants of SessionPublicationProofs.                   *)

(* The local variables that are set at each request.                       *)
Shape(r) ==
    /\ r.pc # "idle" => r.sess \in Sessions /\ r.op \in OpsOf[r.sess]
    /\ r.pc \in Accepting \cup Finalizing => r.cp # None
    /\ r.pc \in {"idle", "rehydrateHead", "rehydrateBase", "attached", "checkpoint", "finalize",
                 "finalizeCheckpoint"} => r.cp = None /\ r.q = None /\ r.g = None
    /\ r.pc \in {"publishCandidate"} \cup Claiming \cup Fenced => r.h # None
    /\ r.pc \in {"fenceBase"} \cup Recovering \cup Storing => r.q # None
    /\ r.pc \in {"finalPut", "finalAgain"} => r.g # None

TypeInv ==
    /\ TypeOK
    /\ \A p \in Procs : Shape(at[p])
    /\ \A s \in Sessions : s \in expired => head[s] # None
    /\ "pub" \in expired => pub # None

(* A checkpoint extends the published manifest it was rehydrated from by   *)
(* its own execution; m is the manifest now.                               *)
Sound(x, m) ==
    /\ x.base \subseteq x.content /\ <<x.op, x.att>> \in x.content
    /\ x.base \subseteq m

(* What a call has established about the checkpoints it works on.          *)
Honest(r, m) ==
    /\ r.base \subseteq r.content /\ r.base \subseteq m
    /\ r.cp # None => /\ r.cp.base = r.base /\ r.cp.content = r.content /\ r.cp.seq = r.seq
                      /\ r.cp.op = r.op /\ r.cp.att = r.att /\ <<r.op, r.att>> \in r.content
    /\ r.h # None => Sound(r.h.cp, m)
    /\ r.q # None => Sound(r.q.cp, m)
    /\ r.pc \in {"confirm", "commitPub", "commitPubAgain"} \cup Completing =>
          r.h.cp.content \subseteq m
    /\ r.pc \in {"recoverCommit", "recoverCommitAgain"} => r.q.cp.content \subseteq m
    /\ r.pc \in Storing => r.q.cp = r.h.cp /\ r.q.state = "publishing"
    /\ r.pc \in Recovering => r.q.state = "publishing"
    /\ r.pc = "fenceBase" => r.q.state = "committed"
    /\ r.pc \in {"fencePut", "fenceAgain"} => r.q = None \/ r.q.state = "committed"

(* Whoever publishes, the manifest has only grown since any checkpoint's   *)
(* base was read, and a committed record is about what it contains.        *)
BaseInv ==
    /\ \A s \in Sessions : head[s] # None => Sound(head[s].cp, manifest)
    /\ pub # None => Sound(pub.cp, manifest)
    /\ pub # None /\ pub.state = "committed" => pub.cp.content \subseteq manifest
    /\ \A p \in Procs : Honest(at[p], manifest)

(* Nothing lapses: for instances with MaxExpiry = 0.                       *)
Kept == expired = {} /\ doomed = {} /\ lapsed = {} /\ nexpiry = 0

(* Only the pending candidate can still be put over its base; m is the     *)
(* manifest and f the publication record.                                  *)
Awaited(x, m, f) ==
    m = x.base /\ x.base # x.content => Matches(f, "publishing", x)

(* What a publisher knows of the fence f and the candidates c.             *)
Fencing(r, m, f, c) ==
    /\ r.pc \in Claiming \cup Fenced => r.h.cp.content \in c
    /\ r.q # None => /\ f # None /\ r.q.seq <= f.seq
                     /\ r.q.seq = f.seq => r.q = f
    /\ r.pc = "fencePut" => (f = r.q => m = r.h.cp.base)
    /\ r.pc \in {"manifest", "putManifest"} => Awaited(r.h.cp, m, f)
    /\ r.pc \in {"recoverCandidate", "recoverRead", "recoverPut"} => Awaited(r.q.cp, m, f)

(* With no ordinary uploads: for instances with MaxForeign = 0.            *)
FenceInv ==
    /\ Kept
    /\ pub = None => manifest = {}
    /\ PendingRecoverable
    /\ \A p \in Procs : Fencing(at[p], manifest, pub, cands)

(* The executions of operations of session s, and at most one of each.     *)
Of(C, s) == {e \in C : e[1] \in OpsOf[s]}
Once(C) == \A e, f \in C : e[1] \in Ops /\ e[1] = f[1] => e = f
Contains(C, o) == \E e \in C : e[1] = o

(* Only a session that has a head (among the heads H) has executions.      *)
Owned(C, H) == \A s \in Sessions : H[s] = None => Of(C, s) = {}

CpOf(h) == IF h = None THEN None ELSE h.cp

(* Checkpoints of one session in the order they were accepted in.          *)
Below(x, y) ==
    x # None => /\ y # None /\ x.seq <= y.seq /\ x.content \subseteq y.content
                /\ x.seq = y.seq => x = y

(* What a head of session s says is so, given the manifest and the heads.  *)
Truthful(h, s, m, H) ==
    /\ h.state \in Live /\ h.op = h.cp.op /\ h.seq = h.cp.seq /\ h.op \in OpsOf[s]
    /\ Once(h.cp.content) /\ Owned(h.cp.content, H)
    /\ h.state = "accepted" => \A e \in Of(h.cp.content, s) : e[1] \in h.hist
    /\ h.state = "committed" => h.cp.content \subseteq m

(* A head that is being published keeps its checkpoint.                    *)
Fixed(h) == h # None /\ h.state \in {"publishing", "committed"}

Running == Pcs \ {"idle", "rehydrateHead", "rehydrateBase"}
Starting == {"checkpoint", "finalize", "finalizeCheckpoint"}
Replacing == Starting \cup {"accept", "acceptBase", "acceptPut", "finalizeCandidate", "finalizePut"}

(* How the overlay of an attachment relates to the head it captured, the   *)
(* head it was rehydrated from and the head there is.                      *)
Rehydrated(r, H) ==
    /\ Below(CpOf(r.exp), r.root) /\ Below(r.root, CpOf(H[r.sess]))
    /\ Once(r.content)
    /\ \A s \in Sessions \ {r.sess} : H[s] = None => Of(r.content, s) = {}
    /\ r.root # None => /\ r.root.content \subseteq r.content /\ r.root.seq <= r.seq
                        /\ r.cp # None => r.root.seq < r.seq
                        /\ \A e \in r.content : e \in r.root.content \/ e = <<r.op, r.att>>
    /\ r.root = None /\ H[r.sess] = None => Of(r.content, r.sess) \subseteq {<<r.op, r.att>>}

(* The parts of an attachment's and a call's local variables that matter   *)
(* to the heads and the log.                                               *)
Captured(r, m, H) ==
    /\ Below(CpOf(r.exp), CpOf(H[r.sess]))
    /\ r.exp # None => Truthful(r.exp, r.sess, m, H)
    /\ r.h # None => Truthful(r.h, r.sess, m, H) /\ Below(r.h.cp, CpOf(H[r.sess]))

Replaces(r) ==
    /\ r.pc \in Starting => \A e \in r.content : e[1] = r.op => e = <<r.op, r.att>>
    /\ r.pc \in Replacing /\ r.exp # None =>
          r.exp.state = "accepted" /\ r.exp.op # r.op /\ r.op \notin r.exp.hist
    /\ r.pc \in {"acceptBase", "acceptPut"} => r.root = CpOf(r.exp) /\ r.h = r.exp
    /\ r.pc \in {"finalizeCheckpoint", "finalizeCandidate", "finalizePut"} => r.h = r.exp

Publishes(r, m, H) ==
    /\ r.pc = "publish" => H[r.sess] # None /\ Contains(H[r.sess].cp.content, r.op)
    /\ r.pc \in {"publishCandidate"} \cup Claiming \cup Fenced => Contains(r.h.cp.content, r.op)
    /\ r.pc = "publishCandidate" /\ r.h.state # "accepted" =>
          Fixed(H[r.sess]) /\ H[r.sess].cp = r.h.cp
    /\ r.pc \in Claiming => r.h.state = "accepted"
    /\ r.pc \in Fenced => Fixed(H[r.sess]) /\ H[r.sess].cp = r.h.cp
    /\ r.pc \in {"finalPut", "finalAgain"} =>
          r.g.state = "publishing" /\ r.g.cp = r.h.cp /\ Truthful(r.g, r.sess, m, H)

Ordered(r, m, H) ==
    /\ r.pc # "idle" => Captured(r, m, H)
    /\ r.pc = "rehydrateBase" => Below(CpOf(r.exp), CpOf(r.h))
    /\ r.q # None => Once(r.q.cp.content) /\ Owned(r.q.cp.content, H)
    /\ r.pc \in Running => Rehydrated(r, H)
    /\ Replaces(r)
    /\ Publishes(r, m, H)

(* With callers that ask for the status first, as RemoteServer does.       *)
LogInv ==
    /\ Kept
    /\ Once(manifest) /\ Owned(manifest, head)
    /\ pub # None => Once(pub.cp.content) /\ Owned(pub.cp.content, head)
    /\ \A s \in Sessions : head[s] # None => Truthful(head[s], s, manifest, head)
    /\ \A p \in Procs : Ordered(at[p], manifest, head)

=============================================================================
