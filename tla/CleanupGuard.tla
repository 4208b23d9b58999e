---------------------------- MODULE CleanupGuard ----------------------------
(***************************************************************************)
(* sqlite3_bcv_cleanup against the writers that stage blocks meanwhile.    *)
(*                                                                         *)
(* Cleanup deletes block objects by name, so it must never meet a block    *)
(* that a writer has PUT and not yet named in the manifest.  The bucket    *)
(* holds a guard object for that.  Cleanup replaces it by a SWEEP record   *)
(* before it lists anything and by an IDLE record with a new owner when it *)
(* is done.  A session writer may not touch the guard: it reads it, PUTs a *)
(* marker that names the block, reads the guard again, and PUTs the block  *)
(* only if both reads saw the same IDLE record.  An ordinary writer        *)
(* replaces IDLE by IDLE with its own owner and relies on cleanup's        *)
(* minimum age for the blocks it has not published yet.                    *)
(*                                                                         *)
(* A step is one request to the bucket.  A staged batch is one block.  A   *)
(* marker stands for every session object that names a block (attempts,    *)
(* checkpoints, candidates and heads are roots of the same mark phase).    *)
(* A guard record is its own ETag, as in stores with content ETags; the    *)
(* manifest's ETag is its version.  sqlite3_randomness is a counter.       *)
(***************************************************************************)
EXTENDS Naturals, FiniteSets

CONSTANTS
    SessionWriters,    \* attachments with a session ID
    OrdinaryWriters,   \* attachments without
    Sweepers,          \* processes that call sqlite3_bcv_cleanup
    SessionBlock,      \* names the sessions stage: content names, may repeat
    OrdinaryBlock,     \* names of ordinary writers: each is used once
    Prompt,            \* names whose delete-list entries may age at once
    None,              \* no object, no block
    MaxOwner,          \* bound: owner tokens drawn
    MaxVer,            \* bound: manifests written
    MaxFaults          \* bound: cleanups that die holding the guard

Writers == SessionWriters \cup OrdinaryWriters
Block == SessionBlock \cup OrdinaryBlock
Marker == SessionWriters \X SessionBlock

Idle(o) == [mode |-> "idle", owner |-> o]
Sweep(o) == [mode |-> "sweep", owner |-> o]
Guard == [mode : {"idle", "sweep"}, owner : Nat]

Manifest == [refs : [Writers -> Block \cup {None}], del : SUBSET Block, ver : Nat]

WriterState ==
    [pc : {"idle", "marker", "after", "before", "refetch", "register", "put", "staged"},
     blk : Block \cup {None}, seen : Guard \cup {None}]

CleanupState ==
    [pc : {"idle", "fetch", "acquire", "list", "append", "delete", "expire", "release"},
     man : Manifest, owner : Nat, seen : Guard \cup {None}, keep : SUBSET Block,
     orphans : SUBSET Block, todo : SUBSET Block, gone : SUBSET Block, old : SUBSET Marker]

ASSUME CleanupAssumption ==
    /\ SessionWriters \cap OrdinaryWriters = {}
    /\ SessionBlock \cap OrdinaryBlock = {} /\ Prompt \subseteq Block
    /\ None \notin Block \cup Guard
    /\ MaxOwner \in Nat /\ MaxVer \in Nat /\ MaxFaults \in Nat

VARIABLES
    guard,     \* bucket: bcv-session/v1/guard.bcv
    objs,      \* bucket: block objects
    markers,   \* bucket: attempt markers before their iExpires
    lapsed,    \* bucket: attempt markers past it
    man,       \* bucket: manifest.bcv
    aged,      \* delete-list entries past the minimum age (nSecond)
    used,      \* names ordinary writers have drawn
    wr,        \* each writer: where its staging is, its block, the guard it saw
    sw,        \* each cleanup: where it is and its local variables
    owners,    \* owner tokens drawn so far
    faults     \* cleanups that died holding the guard

vars == <<guard, objs, markers, lapsed, man, aged, used, wr, sw, owners, faults>>
bucket == <<guard, objs, markers, lapsed, man, aged>>

Quiet == [pc |-> "idle", blk |-> None, seen |-> None]
NoMan == [refs |-> [w \in Writers |-> None], del |-> {}, ver |-> 0]
Rest == [pc |-> "idle", man |-> NoMan, owner |-> 0, seen |-> None, keep |-> {},
         orphans |-> {}, todo |-> {}, gone |-> {}, old |-> {}]

Init ==
    /\ guard = None /\ objs = {} /\ markers = {} /\ lapsed = {}
    /\ man = NoMan /\ aged = {} /\ used = {}
    /\ wr = [w \in Writers |-> Quiet]
    /\ sw = [s \in Sweepers |-> Rest]
    /\ owners = 0 /\ faults = 0

\* Some cleanup owns the guard, or died owning it.
Sweeping == IF guard = None THEN FALSE ELSE guard.mode = "sweep"

Refs(m) == {m.refs[w] : w \in Writers} \ {None}

-----------------------------------------------------------------------------
(* Session writers: bcvfsSessionProtectBlockFenced and the block PUT. *)

To(w, pc) == wr' = [wr EXCEPT ![w].pc = pc]

\* Staging begins: the first read of the guard.  BUSY while a sweep owns it
\* (the caller sleeps and reads again, or gives up).
ReadBefore(w) ==
    /\ wr[w].pc = "idle"
    /\ ~Sweeping
    /\ \E b \in SessionBlock :
          wr' = [wr EXCEPT ![w] = [pc |-> "marker", blk |-> b, seen |-> guard]]
    /\ UNCHANGED <<bucket, used, sw, owners, faults>>

\* bcvfsSessionProtectBlock: an unconditional PUT under a fresh attempt name.
PutMarker(w) ==
    /\ wr[w].pc = "marker"
    /\ markers' = markers \cup {<<w, wr[w].blk>>}
    /\ To(w, "after")
    /\ UNCHANGED <<guard, objs, lapsed, man, aged, used, sw, owners, faults>>

\* Mutant: the guard is not read again after the marker PUT.
UndisturbedAssumed(w) == TRUE

\* The second read: both absent, or the same IDLE record twice.
Undisturbed(w) == guard = wr[w].seen

ReadAfter(w) ==
    /\ wr[w].pc = "after"
    /\ IF Undisturbed(w)
       THEN To(w, "put")
       ELSE \* BUSY, or another IDLE record: the loop's next read of the guard
            wr' = [wr EXCEPT ![w].pc = "before", ![w].seen = None]
    /\ UNCHANGED <<bucket, used, sw, owners, faults>>

ReadAgain(w) ==
    /\ wr[w].pc = "before"
    /\ ~Sweeping
    /\ wr' = [wr EXCEPT ![w].pc = "marker", ![w].seen = guard]
    /\ UNCHANGED <<bucket, used, sw, owners, faults>>

-----------------------------------------------------------------------------
(* Ordinary writers: bcvSessionGuardAcquireWithCause(WRITER). *)

FetchGuard(w) ==
    /\ wr[w].pc \in {"idle", "refetch"}
    /\ \E b \in IF wr[w].pc = "idle" THEN OrdinaryBlock \ used ELSE {wr[w].blk} :
          /\ used' = used \cup {b}
          /\ wr' = [wr EXCEPT ![w] =
                IF Sweeping
                THEN Quiet     \* SQLITE_BUSY: no PUT of this batch is queued
                ELSE [pc |-> "register", blk |-> b, seen |-> guard]]
    /\ UNCHANGED <<bucket, sw, owners, faults>>

\* The conditional PUT of the guard.  An absent one is created as IDLE
\* without an owner and read again; a conflict is read again.
Register(w) ==
    /\ wr[w].pc = "register"
    /\ IF guard # wr[w].seen
       THEN To(w, "refetch") /\ UNCHANGED <<guard, owners>>
       ELSE IF guard = None
       THEN guard' = Idle(0) /\ To(w, "refetch") /\ UNCHANGED owners
       ELSE /\ owners < MaxOwner
            /\ owners' = owners + 1
            /\ guard' = Idle(owners + 1)
            /\ To(w, "put")
    /\ UNCHANGED <<objs, markers, lapsed, man, aged, used, sw, faults>>

-----------------------------------------------------------------------------
(* Both: the block PUT, and the publication that names the block. *)

\* Session: If-None-Match "*", an existing object with the same bytes is
\* accepted.  Ordinary: unconditional.
PutBlock(w) ==
    /\ wr[w].pc = "put"
    /\ objs' = objs \cup {wr[w].blk}
    /\ To(w, "staged")
    /\ UNCHANGED <<guard, markers, lapsed, man, aged, used, sw, owners, faults>>

\* Mutant: the new manifest starts a new delete list.
PublishForgets(w) ==
    /\ wr[w].pc = "staged"
    /\ man.ver < MaxVer
    /\ LET m == [man EXCEPT !.refs[w] = wr[w].blk, !.ver = @ + 1]
       IN  man' = [m EXCEPT !.del = Refs(man) \ Refs(m)]
    /\ wr' = [wr EXCEPT ![w] = Quiet]
    /\ UNCHANGED <<guard, objs, markers, lapsed, aged, used, sw, owners, faults>>

\* The conditional PUT of the manifest that succeeds (one that conflicts
\* merges the manifest it finds and tries again).  The block it replaces goes
\* to the delete list, unless the new manifest still names it.
Publish(w) ==
    /\ wr[w].pc = "staged"
    /\ man.ver < MaxVer
    /\ LET m == [man EXCEPT !.refs[w] = wr[w].blk, !.ver = @ + 1]
       IN  man' = [m EXCEPT !.del = @ \cup (Refs(man) \ Refs(m))]
    /\ wr' = [wr EXCEPT ![w] = Quiet]
    /\ UNCHANGED <<guard, objs, markers, lapsed, aged, used, sw, owners, faults>>

\* Any request of a staging fails for good, or the writer dies.
GiveUp(w) ==
    /\ wr[w].pc # "idle"
    /\ wr' = [wr EXCEPT ![w] = Quiet]
    /\ UNCHANGED <<bucket, used, sw, owners, faults>>

-----------------------------------------------------------------------------
(* sqlite3_bcv_cleanup. *)

Step(s, pc) == sw' = [sw EXCEPT ![s].pc = pc]

\* The manifest is downloaded before the guard is acquired.
FetchManifest(s) ==
    /\ sw[s].pc = "idle"
    /\ sw' = [sw EXCEPT ![s] = [Rest EXCEPT !.pc = "fetch", !.man = man]]
    /\ UNCHANGED <<bucket, used, wr, owners, faults>>

\* Mutant: a sweep of another cleanup is taken over.
AcquireFetchTakeover(s) ==
    /\ sw[s].pc = "fetch"
    /\ sw' = [sw EXCEPT ![s] = [@ EXCEPT !.pc = "acquire", !.seen = guard]]
    /\ UNCHANGED <<bucket, used, wr, owners, faults>>

\* bcvSessionGuardAcquireWithCause(SWEEP): another sweep is never taken over,
\* the whole pass is skipped.
AcquireFetch(s) ==
    /\ sw[s].pc = "fetch"
    /\ sw' = [sw EXCEPT ![s] = IF Sweeping
                               THEN Rest
                               ELSE [@ EXCEPT !.pc = "acquire", !.seen = guard]]
    /\ UNCHANGED <<bucket, used, wr, owners, faults>>

AcquirePut(s) ==
    /\ sw[s].pc = "acquire"
    /\ IF guard = sw[s].seen
       THEN /\ owners < MaxOwner
            /\ owners' = owners + 1
            /\ guard' = Sweep(owners + 1)
            /\ sw' = [sw EXCEPT ![s] = [@ EXCEPT !.pc = "list", !.seen = None,
                                                 !.owner = owners + 1]]
       ELSE /\ sw' = [sw EXCEPT ![s] = [@ EXCEPT !.pc = "fetch", !.seen = None]]
            /\ UNCHANGED <<guard, owners>>
    /\ UNCHANGED <<objs, markers, lapsed, man, aged, used, wr, faults>>

\* Mutant: delete-list entries go whether the manifest still names them or not.
EligibleListed(del, keep) == del \cap aged

\* bcvfsDeleteOneBlock: entries past the minimum age that nothing keeps.
Eligible(del, keep) == (del \cap aged) \ keep

\* What is left of the pass is the release of the guard.
Done(s) == sw' = [sw EXCEPT ![s] = [Rest EXCEPT !.pc = "release", !.owner = sw[s].owner]]

\* List, bcvSessionGcMark, bcvSessionGcInspectUnreferenced and the filter.
\* keep: what the fetched manifest and the unexpired markers name.  orphans:
\* with bFindOrphans every object the fetched manifest does not know,
\* otherwise the blocks of lapsed markers it does not know.  One unexpired
\* marker (bLive) and no block is deleted at all.
List(s) ==
    /\ sw[s].pc = "list"
    /\ \E find \in BOOLEAN :
       LET m == sw[s].man
           known == Refs(m) \cup m.del
           keep == Refs(m) \cup {mk[2] : mk \in markers}
           orphans == ((IF find THEN objs ELSE {mk[2] : mk \in lapsed}) \ known) \ keep
           here == [sw[s] EXCEPT !.old = lapsed]
       IN  sw' = [sw EXCEPT ![s] =
                IF markers # {} THEN [here EXCEPT !.pc = "expire"]
                ELSE IF orphans # {}
                THEN [here EXCEPT !.pc = "append", !.orphans = orphans, !.keep = keep]
                ELSE [here EXCEPT !.pc = "delete", !.todo = Eligible(m.del, keep)]]
    /\ UNCHANGED <<bucket, used, wr, owners, faults>>

\* Mutant: the manifest is uploaded without If-Match.
UnmodifiedAssumed(s) == man.ver < MaxVer

\* The If-Match of bcvManifestUploadParsed: the fetched manifest is still the
\* current one.  (At the bound MaxVer the PUT fails.)
Unmodified(s) == man.ver = sw[s].man.ver /\ man.ver < MaxVer

\* Orphans join the delete list: their age starts now, and is reached now when
\* the minimum age is zero.  A conditional PUT; a conflict ends the pass.
Append(s) ==
    /\ sw[s].pc = "append"
    /\ IF Unmodified(s)
       THEN /\ man' = [sw[s].man EXCEPT !.del = @ \cup sw[s].orphans, !.ver = man.ver + 1]
            /\ \E now \in {{}, sw[s].orphans \cap Prompt} :
                  aged' = aged \cup now
            /\ sw' = [sw EXCEPT ![s] = [@ EXCEPT !.pc = "delete", !.man = man',
                          !.todo = (man'.del \cap aged') \ sw[s].keep,
                          !.orphans = {}, !.keep = {}]]
       ELSE Done(s) /\ UNCHANGED <<man, aged>>
    /\ UNCHANGED <<guard, objs, markers, lapsed, used, wr, owners, faults>>

\* The deletes run in any order; an object that is gone already is no error.
Delete(s) ==
    /\ sw[s].pc = "delete"
    /\ \E b \in sw[s].todo :
          /\ objs' = objs \ {b}
          /\ sw' = [sw EXCEPT ![s].todo = @ \ {b}, ![s].gone = @ \cup {b}]
    /\ UNCHANGED <<guard, markers, lapsed, man, aged, used, wr, owners, faults>>

\* All deletes answered: the manifest without the deleted entries.
Trim(s) ==
    /\ sw[s].pc = "delete" /\ sw[s].todo = {}
    /\ IF sw[s].gone = {}
       THEN Step(s, "expire") /\ UNCHANGED <<man, aged>>
       ELSE IF Unmodified(s)
       THEN /\ man' = [sw[s].man EXCEPT !.del = @ \ sw[s].gone, !.ver = man.ver + 1]
            /\ aged' = aged \ sw[s].gone
            /\ Step(s, "expire")
       ELSE Done(s) /\ UNCHANGED <<man, aged>>
    /\ UNCHANGED <<guard, objs, markers, lapsed, used, wr, owners, faults>>

\* bcvSessionGcDeleteExpired: the lapsed markers this pass has listed.
DeleteExpired(s) ==
    /\ sw[s].pc = "expire"
    /\ lapsed' = lapsed \ sw[s].old
    /\ Done(s)
    /\ UNCHANGED <<guard, objs, markers, man, aged, used, wr, owners, faults>>

\* bcvSessionGuardRelease: IDLE carries the sweep's owner, so that no IDLE
\* record is ever written twice.
Released(o) == Idle(o)

Release(s) ==
    /\ sw[s].pc = "release"
    /\ guard' = IF guard = Sweep(sw[s].owner) THEN Released(sw[s].owner) ELSE guard
    /\ sw' = [sw EXCEPT ![s] = Rest]
    /\ UNCHANGED <<objs, markers, lapsed, man, aged, used, wr, owners, faults>>

\* Mutant: the error paths return without releasing the guard.
FailedHolding(s) ==
    /\ sw[s].pc \in {"list", "append", "delete", "expire"}
    /\ sw' = [sw EXCEPT ![s] = Rest]
    /\ UNCHANGED <<bucket, used, wr, owners, faults>>

\* A request fails, or the progress callback aborts: the rest is skipped, the
\* guard is released.
Failed(s) ==
    /\ sw[s].pc \in {"list", "append", "delete", "expire"}
    /\ Done(s)
    /\ UNCHANGED <<bucket, used, wr, owners, faults>>

\* The process dies, or the PUT of the guard is applied although its answer is
\* an error, or the release is lost: the guard stays SWEEP.
Die(s) ==
    /\ sw[s].pc \in {"list", "append", "delete", "expire", "release"}
    /\ faults < MaxFaults
    /\ faults' = faults + 1
    /\ sw' = [sw EXCEPT ![s] = Rest]
    /\ UNCHANGED <<bucket, used, wr, owners>>

-----------------------------------------------------------------------------
(* Time. *)

\* The two assumptions on time.  A marker's TTL (30 days), and for names not in
\* Prompt the minimum age the operator passes to cleanup, are longer than a
\* staging up to its publication and the cleanup that overlaps it: when they
\* end, nobody is about to publish b, and no running cleanup has fetched a
\* manifest from before b's publication.
Settled(b) ==
    /\ \A w \in Writers : wr[w].blk # b
    /\ \A s \in Sweepers : sw[s].pc # "idle" =>
          (b \in Refs(man) => b \in Refs(sw[s].man))

\* A delete-list entry reaches the minimum age.  With Prompt = SessionBlock the
\* minimum age of session names is arbitrary: markers, not time, protect them.
Age(b) ==
    /\ b \in man.del \ aged
    /\ b \notin Prompt => Settled(b)
    /\ aged' = aged \cup {b}
    /\ UNCHANGED <<guard, objs, markers, lapsed, man, used, wr, sw, owners, faults>>

\* A marker reaches its iExpires.
Lapse(mk) ==
    /\ mk \in markers
    /\ Settled(mk[2])
    /\ markers' = markers \ {mk}
    /\ lapsed' = lapsed \cup {mk}
    /\ UNCHANGED <<guard, objs, man, aged, used, wr, sw, owners, faults>>

-----------------------------------------------------------------------------
Stage(w) ==
    \/ w \in SessionWriters
         /\ (ReadBefore(w) \/ PutMarker(w) \/ ReadAfter(w) \/ ReadAgain(w))
    \/ w \in OrdinaryWriters /\ (FetchGuard(w) \/ Register(w))
    \/ PutBlock(w) \/ Publish(w) \/ GiveUp(w)

Cleanup(s) ==
    \/ FetchManifest(s) \/ AcquireFetch(s) \/ AcquirePut(s)
    \/ List(s) \/ Append(s) \/ Delete(s) \/ Trim(s) \/ DeleteExpired(s)
    \/ Release(s) \/ Failed(s) \/ Die(s)

Next ==
    \/ \E w \in Writers : Stage(w)
    \/ \E s \in Sweepers : Cleanup(s)
    \/ \E b \in Block : Age(b)
    \/ \E mk \in Marker : Lapse(mk)

Spec == Init /\ [][Next]_vars

-----------------------------------------------------------------------------
(* Type invariant: where each writer and each cleanup can be, and what it *)
(* has in hand there.                                                     *)
TypeOK ==
    /\ guard \in Guard \cup {None}
    /\ objs \subseteq Block /\ aged \subseteq man.del /\ used \subseteq OrdinaryBlock
    /\ markers \subseteq Marker /\ lapsed \subseteq Marker
    /\ man \in Manifest
    /\ wr \in [Writers -> WriterState]
    /\ sw \in [Sweepers -> CleanupState]
    /\ owners \in Nat /\ faults \in Nat

Holds(s) == sw[s].pc \in {"list", "append", "delete", "expire", "release"}

\* A cleanup that believes it holds the guard does: its own SWEEP record is in
\* the bucket, so two passes never overlap and no writer replaced it, whatever
\* the order of the conditional PUTs of the guard.
SweepExclusive == \A s \in Sweepers : Holds(s) => guard = Sweep(sw[s].owner)

\* bcvfsSessionProtectBlockFenced: a block that a session writer was allowed to
\* PUT stays in the bucket until its publication, whichever cleanups start,
\* run, fail or end around the marker, and with a minimum age of zero.
ProtectedKept ==
    \A w \in SessionWriters : wr[w].pc = "staged" => wr[w].blk \in objs

\* The published manifest names no deleted block.  Cleanup decides from a
\* manifest it fetched before it took the guard; what was published since is
\* protected by its marker or its age, and by the conditional PUTs.
PublishedKept == Refs(man) \subseteq objs

\* Only a publication changes which blocks the databases consist of, and only
\* its own writer's: cleanup uploads a manifest it fetched before it took the
\* guard, and must not bring an older mapping back with it.
OnlyPublicationMaps ==
    [][ man'.refs # man.refs =>
          \E w \in Writers : /\ wr[w].pc = "staged"
                             /\ man'.refs = [man.refs EXCEPT ![w] = wr[w].blk] ]_vars

\* Every error path of a cleanup gives the guard back: SWEEP, which stops all
\* staging, outlives its owner only when a cleanup died.
SweepOwned == Sweeping /\ faults = 0 => \E s \in Sweepers : Holds(s)

-----------------------------------------------------------------------------
(* The inductive invariants of CleanupGuardProofs. *)

Running(s) == sw[s].pc \in {"fetch", "acquire", "list", "append", "delete", "expire"}

\* What a writer has in hand; an ordinary name is drawn once.
Named(w) ==
    /\ wr[w].pc = "idle" <=> wr[w].blk = None
    /\ w \in SessionWriters =>
          /\ wr[w].pc \in {"idle", "marker", "after", "before", "put", "staged"}
          /\ wr[w].blk \in SessionBlock \cup {None}
    /\ w \in OrdinaryWriters =>
          /\ wr[w].pc \in {"idle", "refetch", "register", "put", "staged"}
          /\ wr[w].blk \in used \cup {None}

\* No writer and no cleanup proceeds from a SWEEP record it has read.
SeenIdle ==
    /\ \A w \in Writers : wr[w].seen # None => wr[w].seen.mode = "idle"
    /\ \A s \in Sweepers : sw[s].seen # None => sw[s].seen.mode = "idle"

\* A fetched manifest of the current version is the current one.
Fetched ==
    \A s \in Sweepers : Running(s) =>
        /\ sw[s].man.ver <= man.ver
        /\ sw[s].man.ver = man.ver => sw[s].man = man

\* So a conditional PUT of the guard never replaces SWEEP, one cleanup at a time
\* holds it, and a conditional PUT of the manifest replaces the one it is made of.
GuardInv ==
    /\ TypeOK
    /\ \A w \in Writers : Named(w)
    /\ SeenIdle
    /\ SweepExclusive
    /\ \A s, t \in Sweepers : Holds(s) /\ Holds(t) => s = t
    /\ Fetched

\* From its marker PUT on a session writer's block is named by an unexpired
\* marker.  A cleanup that deletes has listed none, so no session writer had
\* passed its second read, and none passes it while the guard is SWEEP.
MarkerInv ==
    /\ \A w \in SessionWriters :
          wr[w].pc \in {"after", "put", "staged"} => <<w, wr[w].blk>> \in markers
    /\ \A s \in Sweepers : sw[s].pc \in {"append", "delete"} =>
          \A w \in SessionWriters : wr[w].pc \notin {"put", "staged"}
    /\ ProtectedKept

\* An ordinary name that was never drawn is nowhere.
Known(b) == b \in OrdinaryBlock => b \in used

\* An ordinary block on the delete list is old only when its writer is done, and
\* then a cleanup's manifest names it if the published one does.
AgedSettled ==
    \A b \in aged \cap OrdinaryBlock :
        /\ \A w \in Writers : wr[w].blk # b
        /\ \A s \in Sweepers :
              sw[s].pc \in {"fetch", "acquire", "list", "append"} /\ b \in Refs(man)
                  => b \in Refs(sw[s].man)

\* A session block that was published after a cleanup fetched its manifest still
\* has its marker when the cleanup lists; a cleanup past its listing with
\* markers absent knows every published session block.
SessionSeen ==
    \A s \in Sweepers : \A b \in (SessionBlock \cap Refs(man)) \ Refs(sw[s].man) :
        /\ sw[s].pc \in {"fetch", "acquire", "list"} => \E mk \in markers : mk[2] = b
        /\ sw[s].pc # "append"

\* A block about to be deleted is neither published nor about to be.
TodoSafe ==
    \A s \in Sweepers : sw[s].pc = "delete" =>
        \A b \in sw[s].todo :
            /\ b \notin Refs(man) /\ Known(b)
            /\ b \in OrdinaryBlock => \A w \in Writers : wr[w].blk # b

PublishedInv ==
    /\ \A b \in objs \cup Refs(man) \cup man.del : Known(b)
    /\ \A s \in Sweepers : sw[s].pc = "append" =>
          /\ \A b \in sw[s].orphans : Known(b)
          /\ sw[s].keep = Refs(sw[s].man)
    /\ AgedSettled
    /\ SessionSeen
    /\ TodoSafe
    /\ \A w \in OrdinaryWriters : wr[w].pc = "staged" => wr[w].blk \in objs
    /\ PublishedKept

=============================================================================
