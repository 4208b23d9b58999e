----------------------------- MODULE RemotePush -----------------------------
(* The HTTP push protocol: doltlitePushAs on the client over the HttpRemote *)
(* transport, and the handlers of doltlite_remotesrv.c on the server's      *)
(* chunk store, with a garbage collection of that store in between. A chunk *)
(* is its hash, a refs blob is its value, and a step is one request with    *)
(* its handler, which runs under the handle's mutex.                        *)
EXTENDS Integers, Sequences, FiniteSets, SequencesExt

CONSTANTS
    Clients,        \* processes that push
    Chunks,         \* chunk hashes
    Commits,        \* the chunks that are commits
    Children,       \* chunk -> the chunks it names: parents and catalog
    Branches,       \* branch names
    Default,        \* the remote's default branch
    InitRefs,       \* the remote's refs at the start
    Pushes,         \* bound: what callers of doltlitePushAs ask for
    MaxAttempts,    \* attempts of one push (64 in the code)
    MaxPushes,      \* bound: pushes of all clients together
    MaxGc,          \* bound: garbage collections
    None            \* no commit

Refs == [Branches -> Commits \cup {None}]

ASSUME ConstantsAssumption ==
    /\ IsFiniteSet(Chunks) /\ Commits \subseteq Chunks /\ None \notin Chunks
    /\ Children \in [Chunks -> SUBSET Chunks]
    /\ Default \in Branches
    /\ InitRefs \in Refs /\ InitRefs[Default] # None
    /\ Pushes \subseteq [branch : Branches, commit : Commits \cup {None}, force : BOOLEAN]
    /\ MaxAttempts \in Nat \ {0} /\ MaxPushes \in Nat /\ MaxGc \in Nat

VARIABLES
    chunks,         \* chunks in the remote's store
    blobs,          \* refs blobs in the remote's store
    refs,           \* the remote's refs
    client,         \* client -> its push
    late,           \* refs-if requests whose client no longer waits
    pushes,         \* pushes started
    gcs             \* garbage collections run

vars == <<chunks, blobs, refs, client, late, pushes, gcs>>

(***************************************************************************)
(* The graph of chunks.                                                     *)
(***************************************************************************)

(* The least set that holds roots and, with every member in through, what  *)
(* next names below it: every walk of the code over a queue and a set of    *)
(* hashes already seen.                                                     *)
Closure(roots, through, next) ==
    {y \in Chunks : \A S \in SUBSET Chunks :
        (roots \subseteq S /\ \A x \in S \cap through : next[x] \subseteq S) => y \in S}

Reach == [x \in Chunks |-> Closure({x}, Chunks, Children)]

Parents == [x \in Chunks |-> IF x \in Commits THEN Children[x] \cap Commits ELSE {}]
Ancestors == [x \in Chunks |-> Closure({x}, Chunks, Parents)]

(* The trees below a commit without its history.                            *)
Trees == [x \in Commits |-> {x} \cup UNION {Reach[y] : y \in Children[x] \ Commits}]

Tips(r) == {r[b] : b \in Branches} \ {None}

(* What a walk of the history of new sees: commits held, and the first ones *)
(* that are not. It stops at old, or at the first commit that is not held;  *)
(* which comes first depends on the order of parents.                       *)
History(new) == Closure({new}, chunks, Parents)
IsAncestor(old, new) ==
    {res \in {"ok", "missing", "refused"} :
        \/ res = "ok" /\ old \in History(new)
        \/ res = "missing" /\ ~ (History(new) \subseteq chunks)
        \/ res = "refused" /\ old \notin History(new) /\ History(new) \subseteq chunks}

(***************************************************************************)
(* The server: PUT /refs-if.                                                *)
(***************************************************************************)

(* new: the tip that the request writes, None for a deletion. exp: the refs *)
(* it was computed from. orig: the tip that the push first saw, for the     *)
(* properties only.                                                         *)
Requests == [branch : Branches, new : Commits \cup {None}, delete : BOOLEAN,
             force : BOOLEAN, exp : Refs, orig : Commits \cup {None}]

Incoming(r) == [r.exp EXCEPT ![r.branch] = r.new]

(* remoteValidateScopedRefsUpdate of next over basis.                       *)
Validate(r, basis, next) ==
    LET old == basis[r.branch]
        new == next[r.branch]
    IN  IF \/ r.delete /\ r.branch = Default
           \/ \E b \in Branches \ {r.branch} : next[b] # basis[b]
        THEN {"refused"}
        ELSE IF r.force \/ old = None \/ new \in {None, old}
        THEN {"ok"}
        ELSE IsAncestor(old, new)

(* Chunks that the validation takes for held, and skips: the trees of the   *)
(* tips the store has for the branch and for the default branch, or none    *)
(* when an inner chunk of them cannot be read.                              *)
Trusted(b) ==
    LET anchors == {refs[b], refs[Default]} \ {None}
        T == UNION {Trees[x] : x \in anchors}
    IN  IF \A x \in T : x \in anchors \/ Children[x] # {} => x \in chunks THEN T ELSE {}

(* Mutant: a commit that is held is taken for a complete one.               *)
GraphMissingRoot(b, commit) == commit \notin chunks \cup Trusted(b)

GraphMissing(b, commit) ==
    LET T == Trusted(b)
    IN  ~ (Closure({commit}, Chunks \ T, Children) \ T \subseteq chunks)

(* Mutant: only a branch that was deleted is found to have moved.           *)
BranchMovedDeleted(r) == refs[r.branch] = None /\ r.exp[r.branch] # None

(* The merge of an update into refs that moved: the branch itself must not  *)
(* have moved since the request's base.                                     *)
BranchMoved(r) == refs[r.branch] # r.exp[r.branch]

(* csMergeSavedRefsOntoDisk: what the request changed, over the rest.       *)
MergeRefs(r) ==
    [b \in Branches |-> IF Incoming(r)[b] # r.exp[b] THEN Incoming(r)[b] ELSE refs[b]]

Target(r) == IF refs = r.exp THEN Incoming(r) ELSE MergeRefs(r)

(* remoteSrvApplyRefsLocked.                                                *)
ApplyRefsLocked(r) ==
    LET graph == IF Target(r) # refs /\ ~ r.delete /\ GraphMissing(r.branch, Target(r)[r.branch])
                 THEN {"missing"} ELSE {"ok"}
    IN  UNION {IF v = "ok" THEN graph ELSE {v} : v \in Validate(r, refs, Target(r))}

(* remoteSrvApplyRefsIf: the possible answers to the request.               *)
ApplyRefsIf(r) ==
    IF refs = r.exp THEN ApplyRefsLocked(r)
    ELSE IF r.exp \notin blobs THEN {"conflict"}
    ELSE UNION {IF v # "ok" THEN {v}
                ELSE IF BranchMoved(r) THEN {"conflict"}
                ELSE ApplyRefsLocked(r) : v \in Validate(r, r.exp, Incoming(r))}

(* Mutant: the refs are switched to a blob that was not stored.             *)
InstallUnstored(r, answer) ==
    /\ refs' = IF answer = "ok" THEN Target(r) ELSE refs
    /\ UNCHANGED <<chunks, blobs>>

Install(r, answer) ==
    /\ refs' = IF answer = "ok" THEN Target(r) ELSE refs
    /\ blobs' = blobs \cup {refs'}
    /\ UNCHANGED chunks

(***************************************************************************)
(* The client: doltlitePushAs.                                              *)
(***************************************************************************)

(* front, seen, buf: the queue, the hashes seen and the upload buffer of a  *)
(* scan. resume: bResumeScan. again: bForceResumeScan. whole: a resumed     *)
(* scan of this attempt, with no collection since, for the properties only. *)
ClientState ==
    [pc : {"idle", "refs", "first", "scan", "put", "commit"}, branch : Branches,
     commit : Commits \cup {None}, force : BOOLEAN, attempt : 0..(MaxAttempts - 1),
     orig : Commits \cup {None}, exp : Refs, front : SUBSET Chunks, seen : SUBSET Chunks,
     buf : Seq(Chunks), resume : BOOLEAN, again : BOOLEAN, whole : BOOLEAN]
Idle == [pc |-> "idle", branch |-> Default, commit |-> None, force |-> FALSE,
         attempt |-> 0, orig |-> None, exp |-> InitRefs, front |-> {}, seen |-> {},
         buf |-> <<>>, resume |-> FALSE, again |-> FALSE, whole |-> FALSE]

Init ==
    /\ refs = InitRefs
    /\ chunks = UNION {Reach[x] : x \in Tips(InitRefs)}
    /\ blobs = {InitRefs}
    /\ client = [c \in Clients |-> Idle]
    /\ late = {} /\ pushes = 0 /\ gcs = 0

Server == <<chunks, blobs, refs, late, gcs>>

Return(c) == client' = [client EXCEPT ![c] = Idle]

Start(c) ==
    /\ client[c].pc = "idle" /\ pushes < MaxPushes
    /\ pushes' = pushes + 1
    /\ \E p \in Pushes :
          client' = [client EXCEPT ![c] = [Idle EXCEPT !.pc = "refs", !.branch = p.branch,
                                              !.commit = p.commit, !.force = p.force]]
    /\ UNCHANGED Server

(* The push gives up on what it reads: a retry finds another tip; the       *)
(* branch to delete is not there or is the default; the tip is no ancestor. *)
Moved(k) == k.attempt > 0 /\ refs[k.branch] # k.orig
Hopeless(k) ==
    LET tip == refs[k.branch]
    IN  \/ Moved(k)
        \/ k.commit = None /\ (tip = None \/ k.branch = Default)
        \/ /\ k.attempt = 0 /\ ~ k.force /\ k.commit # None
           /\ tip \notin {None, k.commit} /\ tip \notin Ancestors[k.commit]

(* GET /refs. A deletion and a push of the tip itself need no scan.         *)
GetRefs(c) ==
    LET k == client[c]
        tip == refs[k.branch]
        read == [k EXCEPT !.orig = tip, !.exp = refs]
    IN  /\ k.pc = "refs"
        /\ client' = [client EXCEPT ![c] =
              IF Hopeless(k) THEN Idle
              ELSE IF k.commit \in {None, tip} THEN [read EXCEPT !.pc = "put"]
              ELSE [read EXCEPT !.pc = "first", !.front = {k.commit}, !.seen = {k.commit}]]
        /\ UNCHANGED <<Server, pushes>>

(* Mutant: only the first batch goes below chunks that the remote has.      *)
ResumeScanOnce(k) ==
    k.pc = "first" /\ (k.again \/ (k.front \subseteq chunks /\ ~ (k.front \subseteq Tips(k.exp))))

(* A batch of the scan: POST /has-chunks, then the chunks to read and queue *)
(* from the local store. The first batch decides whether the scan goes      *)
(* below chunks that the remote has.                                        *)
ResumeScan(k) ==
    IF k.pc # "first" THEN k.resume
    ELSE k.again \/ (k.front \subseteq chunks /\ ~ (k.front \subseteq Tips(k.exp)))
Fetched(k) == IF ResumeScan(k) THEN k.front ELSE k.front \ chunks

HasChunks(c) ==
    LET k == client[c]
        next == (UNION {Children[x] : x \in Fetched(k)}) \ k.seen
    IN  /\ k.pc \in {"first", "scan"}
        /\ client' = [client EXCEPT ![c] = [k EXCEPT
              !.pc = IF next = {} THEN "put" ELSE "scan",
              !.front = next, !.seen = @ \cup next,
              !.buf = @ \o SetToSeq(k.front \ chunks),
              !.resume = ResumeScan(k), !.again = FALSE,
              !.whole = IF k.pc = "first" THEN ResumeScan(k) ELSE @]]
        /\ UNCHANGED <<Server, pushes>>

(* POST /chunks stores a batch in the order of the scan. Where a batch ends *)
(* depends on the sizes of the chunks. A repeated request stores the same.  *)
FlushUploadBatch(c) ==
    LET k == client[c]
    IN  /\ k.pc \in {"scan", "put"}
        /\ \E n \in 1..Len(k.buf) :
              /\ chunks' = chunks \cup ToSet(SubSeq(k.buf, 1, n))
              /\ client' = [client EXCEPT ![c].buf = SubSeq(@, n + 1, Len(@))]
        /\ UNCHANGED <<blobs, refs, late, pushes, gcs>>

Request(k) == [branch |-> k.branch, new |-> k.commit, delete |-> k.commit = None,
               force |-> k.force, exp |-> k.exp, orig |-> k.orig]
Sends(k) == k.pc = "put" /\ k.buf = <<>>

(* The next attempt keeps what was asked and the tip first seen.            *)
Retry(k, answer) ==
    IF k.attempt + 1 < MaxAttempts
    THEN [Idle EXCEPT !.pc = "refs", !.branch = k.branch, !.commit = k.commit,
              !.force = k.force, !.attempt = k.attempt + 1, !.orig = k.orig,
              !.again = k.again \/ answer = "missing"]
    ELSE Idle

(* PUT /refs-if and its answer.                                             *)
PutRefsIf(c) ==
    LET k == client[c]
    IN  /\ Sends(k)
        /\ \E answer \in ApplyRefsIf(Request(k)) :
              /\ Install(Request(k), answer)
              /\ client' = [client EXCEPT ![c] =
                    CASE answer = "ok" -> [k EXCEPT !.pc = "commit"]
                      [] answer \in {"conflict", "missing"} -> Retry(k, answer)
                      [] answer = "refused" -> Idle]
        /\ UNCHANGED <<late, pushes, gcs>>

(* POST /commit writes the refs that the store has once more.               *)
Commit(c) ==
    /\ client[c].pc = "commit"
    /\ Return(c)
    /\ UNCHANGED <<Server, pushes>>

(* A request fails in transport, the push is interrupted by its progress    *)
(* callback, or its process dies. A refs-if request is not sent again, and  *)
(* the server may still be about to handle it.                              *)
Fail(c) ==
    /\ client[c].pc # "idle"
    /\ Return(c)
    /\ UNCHANGED <<Server, pushes>>

Abandon(c) ==
    /\ Sends(client[c])
    /\ late' = late \cup {Request(client[c])}
    /\ Return(c)
    /\ UNCHANGED <<chunks, blobs, refs, pushes, gcs>>

HandleLate(r) ==
    /\ \E answer \in ApplyRefsIf(r) : Install(r, answer)
    /\ late' = late \ {r}
    /\ UNCHANGED <<client, pushes, gcs>>

(* dolt_gc of a connection of the server's side, under the graph lock.      *)
Gc ==
    /\ gcs < MaxGc
    /\ gcs' = gcs + 1
    /\ chunks' = chunks \cap UNION {Reach[x] : x \in Tips(refs)}
    /\ blobs' = {refs}
    /\ client' = [c \in Clients |-> [client[c] EXCEPT !.whole = FALSE]]
    /\ UNCHANGED <<refs, late, pushes>>

Next ==
    \/ \E c \in Clients : \/ Start(c) \/ GetRefs(c) \/ HasChunks(c)
                          \/ FlushUploadBatch(c) \/ PutRefsIf(c) \/ Commit(c)
                          \/ Fail(c) \/ Abandon(c)
    \/ \E r \in late : HandleLate(r)
    \/ Gc

Spec == Init /\ [][Next]_vars

(***************************************************************************)
(* Properties.                                                              *)
(***************************************************************************)

(* The variables hold what the code's fields can hold; the refs are a blob  *)
(* of the store, and a push makes at most MaxAttempts attempts.             *)
TypeOK ==
    /\ chunks \subseteq Chunks /\ blobs \subseteq Refs /\ refs \in blobs
    /\ late \subseteq Requests
    /\ pushes \in 0..MaxPushes /\ gcs \in 0..MaxGc
    /\ client \in [Clients -> ClientState]

(* Whatever uploads broke off, whatever a collection removed between a scan *)
(* and its refs-if, and whatever the validation skipped as trusted: every   *)
(* commit a branch of the remote names has its whole history and all its    *)
(* trees in the store.                                                      *)
RefsComplete == \A x \in Tips(refs) : Reach[x] \subseteq chunks

(* A branch of the remote only moves by a request for it, whose push saw at *)
(* its first attempt the very tip that is replaced, however many attempts,  *)
(* merges and other pushes there were since; and it moves forward in        *)
(* history unless the push forces or deletes. No other branch moves with it.*)
ReplacesWhatItSaw ==
    [][refs' # refs =>
          \E r \in late \cup {Request(client[c]) : c \in {d \in Clients : Sends(client[d])}} :
             /\ refs' = [refs EXCEPT ![r.branch] = r.new]
             /\ refs[r.branch] = r.orig
             /\ r.force \/ r.delete \/ r.orig = None \/ r.orig \in Ancestors[r.new]]_vars

(* The answer missing_chunks makes the next attempt scan below what the     *)
(* remote has. A scan that did so, with no collection since it began, ends  *)
(* with everything uploaded: it is never told again that chunks are missing.*)
ResumedIsWhole ==
    \A c \in Clients : Sends(client[c]) /\ client[c].whole
        => "missing" \notin ApplyRefsIf(Request(client[c]))

(***************************************************************************)
(* The inductive invariants of RemotePushProofs.                            *)
(***************************************************************************)

(* A request to be handled carries the tip its push saw, and deletes when   *)
(* it names no commit.                                                      *)
Stated(r) == r.exp[r.branch] = r.orig /\ (r.delete <=> r.new = None)

PushInv ==
    /\ TypeOK
    /\ \A c \in Clients : client[c].pc \in {"first", "scan", "put"}
                           => client[c].exp[client[c].branch] = client[c].orig
    /\ \A r \in late : Stated(r)

(* A scan that goes below what the remote has: what it has seen and does    *)
(* not queue has its children seen, and is stored or about to be.           *)
ScansAll(k) ==
    /\ k.resume /\ k.commit \in k.seen
    /\ k.pc = "put" => k.front = {}
    /\ \A x \in k.seen \ k.front : Children[x] \subseteq k.seen
    /\ k.seen \subseteq chunks \cup ToSet(k.buf) \cup k.front

ScanOK(k) ==
    /\ k.pc = "first" => /\ k.front = {k.commit} /\ k.seen = {k.commit}
                         /\ k.commit \in Chunks
    /\ k.whole => /\ k.pc \in {"scan", "put", "commit"}
                  /\ k.pc # "commit" => ScansAll(k)

ScanInv == \A c \in Clients : ScanOK(client[c])
=============================================================================
