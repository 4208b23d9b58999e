------------------------- MODULE CleanupGuardProofs -------------------------
(***************************************************************************)
(* Theorems about CleanupGuard, for every set of writers, cleanups and     *)
(* block names and every value of the bounds.  GuardInv, MarkerInv and     *)
(* PublishedInv are proved inductive one above the other, one step per     *)
(* action.                                                                 *)
(***************************************************************************)
EXTENDS CleanupGuard, TLAPS

-----------------------------------------------------------------------------
(* Types of the constant records, and of the records the actions build.    *)

(* The initial manifest, a writer at rest and a cleanup at rest are well   *)
(* typed.                                                                  *)
LEMMA RestTypes ==
  /\ NoMan \in Manifest
  /\ Quiet \in WriterState
  /\ Rest \in CleanupState
  /\ \A o \in Nat : Idle(o) \in Guard /\ Sweep(o) \in Guard
<1>1. NoMan \in Manifest
  BY DEF NoMan, Manifest
<1>2. QED
  BY <1>1 DEF Quiet, WriterState, Rest, CleanupState, Guard, Idle, Sweep

(* A manifest names blocks only.                                           *)
LEMMA RefsBlocks == \A m \in Manifest : Refs(m) \subseteq Block
  BY CleanupAssumption DEF Refs, Manifest

(* A cleanup that gives up, and one that begins.                           *)
LEMMA DonePc ==
  ASSUME TypeOK, NEW s \in Sweepers
  PROVE  /\ Done(s) => sw'[s].pc = "release"
         /\ FetchManifest(s) => sw'[s].pc = "fetch"
<1>1. Rest \in CleanupState /\ sw \in [Sweepers -> CleanupState]
  BY RestTypes DEF TypeOK
<1>2. Done(s) => sw'[s].pc = "release"
  BY <1>1 DEF Done, CleanupState
<1>3. FetchManifest(s) => sw'[s].pc = "fetch"
  BY <1>1 DEF FetchManifest, CleanupState
<1>4. QED
  BY <1>2, <1>3

-----------------------------------------------------------------------------
(* GuardInv: the writers' steps.                                           *)

(* A writer's step that leaves the guard and the manifest alone preserves  *)
(* GuardInv when the record it has seen is not SWEEP.                      *)
LEMMA WriterStep ==
  ASSUME GuardInv, NEW w \in Writers, NEW r \in WriterState,
         wr' = [wr EXCEPT ![w] = r],
         Named(w)',
         r.seen # None => r.seen.mode = "idle",
         objs' \subseteq Block, used' \subseteq OrdinaryBlock, used \subseteq used',
         markers' \subseteq Marker,
         UNCHANGED <<guard, lapsed, man, aged, sw, owners, faults>>
  PROVE  GuardInv'
<1>0. /\ wr' \in [Writers -> WriterState] /\ wr'[w] = r
      /\ \A v \in Writers : v # w => wr'[v] = wr[v]
  BY DEF GuardInv, TypeOK
<1>1. TypeOK'
  BY <1>0 DEF GuardInv, TypeOK
<1>2. SeenIdle'
  BY <1>0 DEF GuardInv, SeenIdle
<1>3. SweepExclusive' /\ Fetched'
  BY DEF GuardInv, SweepExclusive, Fetched, Running, Holds
<1>4. (\A v \in Writers : Named(v))'
  BY <1>0 DEF GuardInv, Named
<1>5. QED
  BY <1>1, <1>2, <1>3, <1>4 DEF GuardInv, Holds

(* The record of a writer whose staging moves on.                          *)
LEMMA ToRecord ==
  ASSUME TypeOK, NEW w \in Writers, NEW pc, To(w, pc),
         pc \in {"after", "refetch", "put", "staged"}
  PROVE  LET r == [wr[w] EXCEPT !.pc = pc]
         IN  r \in WriterState /\ wr' = [wr EXCEPT ![w] = r]
  BY DEF TypeOK, WriterState, To

(* The steps of a session writer up to its second read of the guard.       *)
LEMMA SessionGuard ==
  ASSUME GuardInv, NEW w \in SessionWriters,
         ReadBefore(w) \/ PutMarker(w) \/ ReadAfter(w) \/ ReadAgain(w)
  PROVE  GuardInv'
<1>w. w \in Writers /\ w \notin OrdinaryWriters
  BY CleanupAssumption DEF Writers
<1> USE <1>w DEF bucket
<1>0. /\ wr[w] \in WriterState /\ guard \in Guard \cup {None} /\ Named(w)
      /\ wr \in [Writers -> WriterState] /\ TypeOK
      /\ wr[w].seen # None => wr[w].seen.mode = "idle"
  BY DEF GuardInv, TypeOK, SeenIdle
<1>i. ~Sweeping => (guard # None => guard.mode = "idle")
  BY <1>0 DEF Sweeping, Guard
<1>1. CASE ReadBefore(w)
  <2>1. PICK b \in SessionBlock :
          wr' = [wr EXCEPT ![w] = [pc |-> "marker", blk |-> b, seen |-> guard]]
    BY <1>1 DEF ReadBefore
  <2> DEFINE r == [pc |-> "marker", blk |-> b, seen |-> guard]
  <2>2. r \in WriterState /\ wr'[w] = r /\ b # None
    BY <1>0, <2>1, CleanupAssumption DEF WriterState, Block
  <2>3. Named(w)'
    BY <2>2 DEF Named
  <2>6. QED
    BY <1>1, <1>i, <2>1, <2>2, <2>3, WriterStep DEF ReadBefore, GuardInv, TypeOK
<1>2. CASE PutMarker(w)
  <2> DEFINE r == [wr[w] EXCEPT !.pc = "after"]
  <2>1. r \in WriterState /\ wr' = [wr EXCEPT ![w] = r]
    BY <1>0, <1>2, ToRecord DEF PutMarker
  <2>2. wr'[w] = r /\ r.pc = "after" /\ r.blk = wr[w].blk /\ r.seen = wr[w].seen
    BY <1>0, <2>1 DEF WriterState
  <2>3. Named(w)'
    BY <1>0, <1>2, <2>2 DEF Named, PutMarker
  <2>4. markers' \subseteq Marker
    BY <1>0, <1>2 DEF TypeOK, PutMarker, Named, Marker
  <2>5. QED
    BY <1>0, <1>2, <2>1, <2>2, <2>3, <2>4, WriterStep DEF PutMarker, TypeOK
<1>3. CASE ReadAfter(w)
  <2>1. CASE Undisturbed(w)
    <3> DEFINE r == [wr[w] EXCEPT !.pc = "put"]
    <3>1. r \in WriterState /\ wr' = [wr EXCEPT ![w] = r]
      BY <1>0, <1>3, <2>1, ToRecord DEF ReadAfter
    <3>2. wr'[w] = r /\ r.pc = "put" /\ r.blk = wr[w].blk /\ r.seen = wr[w].seen
      BY <1>0, <3>1 DEF WriterState
    <3>3. Named(w)'
      BY <1>0, <1>3, <3>2 DEF Named, ReadAfter
    <3>4. QED
      BY <1>0, <1>3, <3>1, <3>2, <3>3, WriterStep DEF ReadAfter, TypeOK
  <2>2. CASE ~Undisturbed(w)
    <3> DEFINE r == [wr[w] EXCEPT !.pc = "before", !.seen = None]
    <3>1. r \in WriterState /\ wr' = [wr EXCEPT ![w] = r]
      BY <1>0, <1>3, <2>2 DEF ReadAfter, WriterState
    <3>2. wr'[w] = r /\ r.pc = "before" /\ r.blk = wr[w].blk /\ r.seen = None
      BY <1>0, <3>1 DEF WriterState
    <3>3. Named(w)'
      BY <1>0, <1>3, <3>2 DEF Named, ReadAfter
    <3>4. QED
      BY <1>0, <1>3, <3>1, <3>2, <3>3, WriterStep DEF ReadAfter, TypeOK
  <2>3. QED
    BY <2>1, <2>2
<1>4. CASE ReadAgain(w)
  <2> DEFINE r == [wr[w] EXCEPT !.pc = "marker", !.seen = guard]
  <2>1. r \in WriterState /\ wr' = [wr EXCEPT ![w] = r]
    BY <1>0, <1>4 DEF ReadAgain, WriterState
  <2>2. wr'[w] = r /\ r.pc = "marker" /\ r.blk = wr[w].blk /\ r.seen = guard
    BY <1>0, <2>1 DEF WriterState
  <2>3. Named(w)'
    BY <1>0, <1>4, <2>2 DEF Named, ReadAgain
  <2>4. QED
    BY <1>0, <1>i, <1>4, <2>1, <2>2, <2>3, WriterStep DEF ReadAgain, TypeOK
<1>5. QED
  BY <1>1, <1>2, <1>3, <1>4

(* When a read of the guard returned no SWEEP record and the guard is the  *)
(* same now, no cleanup holds it.                                          *)
LEMMA NobodyHolds ==
  ASSUME GuardInv, guard # None => guard.mode = "idle"
  PROVE  \A s \in Sweepers : ~Holds(s)
<1> SUFFICES ASSUME NEW s \in Sweepers, Holds(s) PROVE FALSE
  OBVIOUS
<1>1. guard = Sweep(sw[s].owner) /\ sw[s].owner \in Nat
  BY DEF GuardInv, SweepExclusive, TypeOK, CleanupState
<1>2. guard \in Guard /\ guard.mode = "sweep"
  BY <1>1, RestTypes DEF Sweep
<1>3. QED
  BY <1>2, CleanupAssumption

(* The steps of an ordinary writer up to its registration in the guard.    *)
LEMMA OrdinaryGuard ==
  ASSUME GuardInv, NEW w \in OrdinaryWriters, FetchGuard(w) \/ Register(w)
  PROVE  GuardInv'
<1>w. w \in Writers /\ w \notin SessionWriters
  BY CleanupAssumption DEF Writers
<1> USE <1>w DEF bucket
<1>0. /\ wr[w] \in WriterState /\ guard \in Guard \cup {None} /\ Named(w)
      /\ wr \in [Writers -> WriterState] /\ TypeOK
      /\ wr[w].seen # None => wr[w].seen.mode = "idle"
  BY DEF GuardInv, TypeOK, SeenIdle
<1>i. ~Sweeping => (guard # None => guard.mode = "idle")
  BY <1>0 DEF Sweeping, Guard
<1>1. CASE FetchGuard(w)
  <2>1. PICK b \in IF wr[w].pc = "idle" THEN OrdinaryBlock \ used ELSE {wr[w].blk} :
          /\ used' = used \cup {b}
          /\ wr' = [wr EXCEPT ![w] =
                IF Sweeping THEN Quiet
                ELSE [pc |-> "register", blk |-> b, seen |-> guard]]
    BY <1>1 DEF FetchGuard
  <2>2. b \in OrdinaryBlock /\ b # None /\ b \in Block
    BY <1>0, <1>1, <2>1, CleanupAssumption DEF FetchGuard, Named, TypeOK, Block
  <2> DEFINE r == IF Sweeping THEN Quiet
                  ELSE [pc |-> "register", blk |-> b, seen |-> guard]
  <2>3. r \in WriterState /\ wr'[w] = r
    BY <1>0, <2>1, <2>2, RestTypes DEF WriterState
  <2>4. r.seen # None => r.seen.mode = "idle"
    BY <1>i DEF Quiet
  <2>5. Named(w)'
    BY <2>1, <2>2, <2>3 DEF Named, Quiet
  <2>6. used' \subseteq OrdinaryBlock /\ used \subseteq used'
    BY <1>0, <2>1, <2>2 DEF TypeOK
  <2> HIDE DEF r
  <2>7. wr' = [wr EXCEPT ![w] = r]
    BY <2>1 DEF r
  <2>8. QED
    BY <1>0, <1>1, <2>3, <2>4, <2>5, <2>6, <2>7, WriterStep DEF FetchGuard, TypeOK
<1>2. CASE Register(w)
  <2>1. CASE UNCHANGED <<guard, owners>>
    <3> DEFINE r == [wr[w] EXCEPT !.pc = "refetch"]
    <3>a. To(w, "refetch")
      BY <1>0, <1>2, <2>1, RestTypes, CleanupAssumption DEF Register, TypeOK
    <3>1. r \in WriterState /\ wr' = [wr EXCEPT ![w] = r]
      BY <1>0, <3>a, ToRecord
    <3>2. wr'[w] = r /\ r.pc = "refetch" /\ r.blk = wr[w].blk /\ r.seen = wr[w].seen
      BY <1>0, <3>1 DEF WriterState
    <3>3. Named(w)'
      BY <1>0, <1>2, <3>2 DEF Named, Register
    <3>4. QED
      BY <1>0, <1>2, <2>1, <3>1, <3>2, <3>3, WriterStep DEF Register, TypeOK
  <2>2. CASE ~UNCHANGED <<guard, owners>>
    <3>1. PICK pc \in {"refetch", "put"} : To(w, pc)
      BY <1>2, <2>2 DEF Register
    <3> DEFINE r == [wr[w] EXCEPT !.pc = pc]
    <3>2. r \in WriterState /\ wr' = [wr EXCEPT ![w] = r]
      BY <1>0, <3>1, ToRecord
    <3>3. wr'[w] = r /\ r.pc = pc /\ r.blk = wr[w].blk /\ r.seen = wr[w].seen
      BY <1>0, <3>2 DEF WriterState
    <3>4. /\ wr' \in [Writers -> WriterState]
          /\ \A v \in Writers : v # w => wr'[v] = wr[v]
      BY <1>0, <3>2
    <3>5. (\A v \in Writers : Named(v))'
      BY <1>2, <3>3, <3>4 DEF Named, GuardInv, Register
    <3>6. owners' \in Nat /\ guard' \in Guard
      BY <1>0, <1>2, <2>2, RestTypes DEF Register, TypeOK
    <3>7. TypeOK'
      BY <1>0, <1>2, <3>4, <3>6 DEF Register, TypeOK
    <3>8. SeenIdle'
      BY <1>0, <1>2, <3>3, <3>4 DEF GuardInv, SeenIdle, Register
    <3>9. \A s \in Sweepers : ~Holds(s)
      BY <1>0, <1>2, <2>2, NobodyHolds DEF Register
    <3>10. SweepExclusive' /\ (\A s, t \in Sweepers : Holds(s) /\ Holds(t) => s = t)'
      BY <1>2, <3>9 DEF SweepExclusive, Register, Holds
    <3>11. Fetched'
      BY <1>2 DEF GuardInv, Fetched, Running, Register
    <3>12. QED
      BY <3>5, <3>7, <3>8, <3>10, <3>11 DEF GuardInv
  <2>3. QED
    BY <2>1, <2>2
<1>3. QED
  BY <1>1, <1>2

(* The block PUT.                                                          *)
LEMMA PutBlockGuard ==
  ASSUME GuardInv, NEW w \in Writers, PutBlock(w)
  PROVE  GuardInv'
<1>0. /\ wr[w] \in WriterState /\ Named(w) /\ TypeOK
      /\ wr \in [Writers -> WriterState]
      /\ wr[w].seen # None => wr[w].seen.mode = "idle"
  BY DEF GuardInv, TypeOK, SeenIdle
<1> DEFINE r == [wr[w] EXCEPT !.pc = "staged"]
<1>1. r \in WriterState /\ wr' = [wr EXCEPT ![w] = r]
  BY <1>0, ToRecord DEF PutBlock
<1>2. wr'[w] = r /\ r.pc = "staged" /\ r.blk = wr[w].blk /\ r.seen = wr[w].seen
  BY <1>0, <1>1 DEF WriterState
<1>3. Named(w)'
  BY <1>0, <1>2 DEF Named, PutBlock
<1>4. objs' \subseteq Block
  BY <1>0 DEF PutBlock, TypeOK, Named, WriterState
<1>5. QED
  BY <1>0, <1>1, <1>2, <1>3, <1>4, WriterStep DEF PutBlock, TypeOK

(* A staging is abandoned.                                                 *)
LEMMA GiveUpGuard ==
  ASSUME GuardInv, NEW w \in Writers, GiveUp(w)
  PROVE  GuardInv'
<1>1. wr'[w] = Quiet /\ wr' = [wr EXCEPT ![w] = Quiet]
  BY DEF GuardInv, TypeOK, GiveUp
<1>2. Named(w)'
  BY <1>1 DEF Named, Quiet
<1>3. Quiet.seen = None
  BY DEF Quiet
<1>4. QED
  BY <1>1, <1>2, <1>3, RestTypes, WriterStep DEF GiveUp, GuardInv, TypeOK, bucket

(* The manifest a publication writes.                                      *)
LEMMA PublishMan ==
  ASSUME TypeOK, NEW w \in Writers, Publish(w), Named(w)
  PROVE  /\ man' \in Manifest
         /\ man'.ver = man.ver + 1
         /\ man'.refs = [man.refs EXCEPT ![w] = wr[w].blk]
         /\ man.del \subseteq man'.del
         /\ man'.del \subseteq man.del \cup Refs(man)
<1> DEFINE m == [man EXCEPT !.refs[w] = wr[w].blk, !.ver = @ + 1]
<1>0. man \in Manifest /\ wr[w].blk \in Block \cup {None}
  BY DEF TypeOK, WriterState
<1> DEFINE f == [man.refs EXCEPT ![w] = wr[w].blk]
<1>a. f \in [Writers -> Block \cup {None}]
  BY <1>0 DEF Manifest
<1>v. PICK v \in Nat : v = man.ver + 1
  BY <1>0 DEF Manifest
<1>b. m = [man EXCEPT !.refs = f, !.ver = v]
  BY <1>0, <1>v DEF Manifest
<1>c. man' = [m EXCEPT !.del = @ \cup (Refs(man) \ Refs(m))]
  BY DEF Publish
<1> HIDE DEF f, m
<1>1. m \in Manifest /\ m.ver = v /\ m.del = man.del /\ m.refs = f
  BY <1>0, <1>a, <1>b DEF Manifest
<1>2. Refs(man) \subseteq Block
  BY <1>0, RefsBlocks
<1>3. man' \in Manifest /\ man'.ver = m.ver /\ man'.refs = m.refs
      /\ man'.del = m.del \cup (Refs(man) \ Refs(m))
  BY <1>1, <1>2, <1>c DEF Manifest
<1>4. QED
  BY <1>v, <1>1, <1>3 DEF f

(* The publication: every fetched manifest is now of an older version.     *)
LEMMA PublishGuard ==
  ASSUME GuardInv, NEW w \in Writers, Publish(w)
  PROVE  GuardInv'
<1>0. TypeOK /\ Named(w) /\ wr \in [Writers -> WriterState]
  BY DEF GuardInv, TypeOK
<1>1. wr' = [wr EXCEPT ![w] = Quiet]
  BY DEF Publish
<1>2. TypeOK'
  BY <1>0, <1>1, PublishMan, RestTypes DEF Publish, TypeOK
<1>3. (\A v \in Writers : Named(v))'
  BY <1>0, <1>1 DEF Publish, Named, GuardInv, Quiet
<1>4. SeenIdle'
  BY <1>0, <1>1 DEF Publish, SeenIdle, GuardInv, Quiet
<1>5. SweepExclusive' /\ (\A s, t \in Sweepers : Holds(s) /\ Holds(t) => s = t)'
  BY DEF Publish, SweepExclusive, GuardInv, Holds
<1>6. ASSUME NEW s \in Sweepers, Running(s)'
      PROVE  sw'[s].man.ver < man'.ver
  <2>1. sw[s].man.ver <= man.ver /\ sw[s].man.ver \in Nat /\ man.ver \in Nat
    BY <1>6, <1>0 DEF GuardInv, Fetched, Running, Publish, TypeOK, CleanupState, Manifest
  <2>2. sw'[s] = sw[s]
    BY DEF Publish
  <2>3. man'.ver = man.ver + 1
    BY <1>0, PublishMan
  <2>4. QED
    BY <2>1, <2>2, <2>3
<1>7. Fetched'
  <2>1. man'.ver \in Nat /\ \A s \in Sweepers : sw'[s].man.ver \in Nat
    BY <1>2 DEF TypeOK, CleanupState, Manifest
  <2>2. QED
    BY <1>6, <2>1 DEF Fetched
<1>8. QED
  BY <1>2, <1>3, <1>4, <1>5, <1>7 DEF GuardInv

-----------------------------------------------------------------------------
(* GuardInv: the cleanups' steps.                                          *)

(* A cleanup's step that leaves the guard, the manifest and its owner      *)
(* alone, and takes no hold of the guard, preserves GuardInv.              *)
LEMMA CleanupStep ==
  ASSUME GuardInv, NEW s \in Sweepers, NEW r \in CleanupState,
         sw' = [sw EXCEPT ![s] = r],
         r.seen # None => r.seen.mode = "idle",
         r.pc \in {"list", "append", "delete", "expire", "release"}
             => Holds(s) /\ r.owner = sw[s].owner,
         r.pc \in {"fetch", "acquire", "list", "append", "delete", "expire"}
             => r.man = man \/ (Running(s) /\ r.man = sw[s].man),
         objs' \subseteq Block, lapsed' \subseteq Marker,
         UNCHANGED <<guard, markers, man, aged, used, wr, owners>>, faults' \in Nat
  PROVE  GuardInv'
<1>0. /\ sw' \in [Sweepers -> CleanupState] /\ sw'[s] = r
      /\ \A t \in Sweepers : t # s => sw'[t] = sw[t]
  BY DEF GuardInv, TypeOK
<1>1. TypeOK'
  BY <1>0 DEF GuardInv, TypeOK
<1>2. (\A v \in Writers : Named(v))'
  BY DEF GuardInv, Named
<1>3. SeenIdle'
  BY <1>0 DEF GuardInv, SeenIdle
<1>4. \A t \in Sweepers : Holds(t)' => Holds(t) /\ sw'[t].owner = sw[t].owner
  BY <1>0 DEF Holds
<1>5. SweepExclusive' /\ (\A t, u \in Sweepers : Holds(t) /\ Holds(u) => t = u)'
  BY <1>4 DEF GuardInv, SweepExclusive
<1>6. Fetched'
  <2>1. man.ver \in Nat
    BY DEF GuardInv, TypeOK, Manifest
  <2>2. QED
    BY <1>0, <2>1 DEF GuardInv, Fetched, Running
<1>7. QED
  BY <1>1, <1>2, <1>3, <1>5, <1>6 DEF GuardInv

(* The steps before the guard is taken.                                    *)
LEMMA FetchGuardInv ==
  ASSUME GuardInv, NEW s \in Sweepers, FetchManifest(s) \/ AcquireFetch(s)
  PROVE  GuardInv'
<1> USE DEF bucket
<1>0. sw[s] \in CleanupState /\ guard \in Guard \cup {None} /\ man \in Manifest /\ TypeOK
  BY DEF GuardInv, TypeOK
<1>1. CASE FetchManifest(s)
  <2> DEFINE r == [Rest EXCEPT !.pc = "fetch", !.man = man]
  <2>1. r \in CleanupState /\ r.seen = None /\ r.pc = "fetch" /\ r.man = man
    BY <1>0, RestTypes DEF CleanupState, Rest
  <2>2. sw' = [sw EXCEPT ![s] = r]
    BY <1>1 DEF FetchManifest
  <2> HIDE DEF r
  <2>3. QED
    BY <1>0, <1>1, <2>1, <2>2, CleanupStep DEF FetchManifest, TypeOK
<1>2. CASE AcquireFetch(s)
  <2> DEFINE r == IF Sweeping THEN Rest ELSE [sw[s] EXCEPT !.pc = "acquire", !.seen = guard]
  <2>1. r \in CleanupState
    BY <1>0, RestTypes DEF CleanupState
  <2>2. r.seen # None => r.seen.mode = "idle"
    BY <1>0 DEF Sweeping, Guard, CleanupState, Rest
  <2>3. r.pc \in {"idle", "acquire"} /\ (r.pc = "acquire" => r.man = sw[s].man)
    BY <1>0 DEF CleanupState, Rest
  <2>4. sw' = [sw EXCEPT ![s] = r] /\ Running(s)
    BY <1>2 DEF AcquireFetch, Running
  <2> HIDE DEF r
  <2>5. QED
    BY <1>0, <1>2, <2>1, <2>2, <2>3, <2>4, CleanupStep DEF AcquireFetch, TypeOK
<1>3. QED
  BY <1>1, <1>2

(* The conditional PUT that takes the guard: nobody held it.               *)
LEMMA AcquirePutGuard ==
  ASSUME GuardInv, NEW s \in Sweepers, AcquirePut(s)
  PROVE  GuardInv'
<1>0. /\ sw[s] \in CleanupState /\ sw \in [Sweepers -> CleanupState] /\ TypeOK
      /\ sw[s].seen # None => sw[s].seen.mode = "idle"
  BY DEF GuardInv, TypeOK, SeenIdle
<1>1. CASE guard # sw[s].seen
  <2> DEFINE r == [sw[s] EXCEPT !.pc = "fetch", !.seen = None]
  <2>1. r \in CleanupState /\ r.seen = None /\ r.pc = "fetch" /\ r.man = sw[s].man
    BY <1>0 DEF CleanupState
  <2>2. sw' = [sw EXCEPT ![s] = r] /\ Running(s)
    BY <1>1 DEF AcquirePut, Running
  <2> HIDE DEF r
  <2>3. QED
    BY <1>0, <1>1, <2>1, <2>2, CleanupStep DEF AcquirePut, TypeOK
<1>2. CASE guard = sw[s].seen
  <2>0. PICK o \in Nat : o = owners + 1
    BY <1>0 DEF TypeOK
  <2> DEFINE r == [sw[s] EXCEPT !.pc = "list", !.seen = None, !.owner = o]
  <2>1. /\ r \in CleanupState /\ r.seen = None /\ r.pc = "list" /\ r.man = sw[s].man
        /\ r.owner = o
    BY <1>0 DEF CleanupState
  <2>2. sw' = [sw EXCEPT ![s] = r] /\ guard' = Sweep(o) /\ Running(s)
    BY <1>2, <2>0 DEF AcquirePut, Running
  <2> HIDE DEF r
  <2>3. /\ sw' \in [Sweepers -> CleanupState] /\ sw'[s] = r
        /\ \A t \in Sweepers : t # s => sw'[t] = sw[t]
    BY <1>0, <2>1, <2>2
  <2>4. TypeOK'
    BY <1>0, <1>2, <2>0, <2>2, <2>3, RestTypes DEF AcquirePut, TypeOK
  <2>5. (\A v \in Writers : Named(v))'
    BY DEF GuardInv, Named, AcquirePut
  <2>6. SeenIdle'
    BY <2>1, <2>3 DEF GuardInv, SeenIdle, AcquirePut
  <2>7. \A t \in Sweepers : ~Holds(t)
    BY <1>0, <1>2, NobodyHolds
  <2>8. \A t \in Sweepers : Holds(t)' => t = s
    BY <2>3, <2>7 DEF Holds
  <2>9. SweepExclusive' /\ (\A t, u \in Sweepers : Holds(t) /\ Holds(u) => t = u)'
    BY <2>1, <2>2, <2>3, <2>8 DEF SweepExclusive
  <2>10. Fetched'
    BY <2>1, <2>2, <2>3 DEF GuardInv, Fetched, Running, AcquirePut
  <2>11. QED
    BY <2>4, <2>5, <2>6, <2>9, <2>10 DEF GuardInv
<1>3. QED
  BY <1>1, <1>2

(* The end of a pass, orderly or not, up to the release of the guard.      *)
LEMMA DoneGuard ==
  ASSUME GuardInv, NEW s \in Sweepers, Holds(s), Done(s),
         lapsed' \subseteq Marker,
         UNCHANGED <<guard, objs, markers, man, aged, used, wr, owners, faults>>
  PROVE  GuardInv'
<1>0. sw[s] \in CleanupState /\ TypeOK
  BY DEF GuardInv, TypeOK
<1> DEFINE r == [Rest EXCEPT !.pc = "release", !.owner = sw[s].owner]
<1>1. /\ r \in CleanupState /\ r.seen = None /\ r.pc = "release"
      /\ r.owner = sw[s].owner
  BY <1>0, RestTypes DEF CleanupState, Rest
<1>2. sw' = [sw EXCEPT ![s] = r]
  BY DEF Done
<1> HIDE DEF r
<1>3. QED
  BY <1>0, <1>1, <1>2, CleanupStep DEF TypeOK

(* The listing: what is kept, found and deleted are blocks.                *)
LEMMA ListRecord ==
  ASSUME GuardInv, NEW s \in Sweepers, List(s)
  PROVE  \E r \in CleanupState :
           /\ sw' = [sw EXCEPT ![s] = r]
           /\ r.pc \in {"expire", "append", "delete"}
           /\ r.man = sw[s].man /\ r.owner = sw[s].owner /\ r.seen = sw[s].seen
           /\ r.pc \in {"append", "delete"} => markers = {}
           /\ r.pc = "append" =>
                /\ r.keep = Refs(sw[s].man)
                /\ r.orphans \subseteq objs \cup {mk[2] : mk \in lapsed}
                /\ r.orphans \cap Refs(sw[s].man) = {}
           /\ r.pc = "delete" => r.todo = (sw[s].man.del \cap aged) \ Refs(sw[s].man)
<1>0. /\ sw[s] \in CleanupState /\ sw[s].man \in Manifest /\ lapsed \subseteq Marker
      /\ markers \subseteq Marker /\ objs \subseteq Block /\ sw[s].man.del \subseteq Block
  BY DEF GuardInv, TypeOK, CleanupState, Manifest
<1> DEFINE m == sw[s].man
           known == Refs(m) \cup m.del
           keep == Refs(m) \cup {mk[2] : mk \in markers}
           orphans(find) == ((IF find THEN objs ELSE {mk[2] : mk \in lapsed}) \ known) \ keep
           here == [sw[s] EXCEPT !.old = lapsed]
           rec(find) == IF markers # {} THEN [here EXCEPT !.pc = "expire"]
                ELSE IF orphans(find) # {}
                THEN [here EXCEPT !.pc = "append", !.orphans = orphans(find), !.keep = keep]
                ELSE [here EXCEPT !.pc = "delete", !.todo = Eligible(m.del, keep)]
<1>1. PICK find \in BOOLEAN : sw' = [sw EXCEPT ![s] = rec(find)]
  BY DEF List
<1>2. keep \subseteq Block /\ orphans(find) \subseteq Block /\ Eligible(m.del, keep) \subseteq Block
  BY <1>0, RefsBlocks DEF Marker, Block, Eligible
<1>3. /\ here \in CleanupState /\ here.man = m /\ here.owner = sw[s].owner
      /\ here.seen = sw[s].seen
  BY <1>0 DEF CleanupState
<1>4. markers = {} => keep = Refs(m)
  OBVIOUS
<1>5. orphans(find) \subseteq objs \cup {mk[2] : mk \in lapsed} /\ orphans(find) \cap Refs(m) = {}
  OBVIOUS
<1>6. Eligible(m.del, keep) = (m.del \cap aged) \ keep
  BY DEF Eligible
<1> HIDE DEF m, known, keep, orphans, here
<1>7. rec(find) \in CleanupState
  BY <1>2, <1>3 DEF CleanupState
<1>8. WITNESS rec(find) \in CleanupState
<1>9. QED
  BY <1>1, <1>3, <1>4, <1>5, <1>6 DEF CleanupState, m

(* The listing.                                                            *)
LEMMA ListGuard ==
  ASSUME GuardInv, NEW s \in Sweepers, List(s)
  PROVE  GuardInv'
<1>0. /\ TypeOK /\ (sw[s].seen # None => sw[s].seen.mode = "idle")
      /\ Holds(s) /\ Running(s)
  BY DEF GuardInv, SeenIdle, List, Holds, Running
<1>1. PICK r \in CleanupState :
        /\ sw' = [sw EXCEPT ![s] = r]
        /\ r.man = sw[s].man /\ r.owner = sw[s].owner /\ r.seen = sw[s].seen
  BY ListRecord
<1>2. QED
  BY <1>0, <1>1, CleanupStep DEF List, TypeOK, bucket

(* A manifest that cleanup uploads replaces the one it is made of.         *)
LEMMA CleanupManifest ==
  ASSUME GuardInv, NEW s \in Sweepers, Running(s), Unmodified(s),
         NEW D \in SUBSET Block,
         man' = [sw[s].man EXCEPT !.del = D, !.ver = man.ver + 1]
  PROVE  /\ sw[s].man = man
         /\ man' \in Manifest /\ man'.refs = man.refs /\ man'.del = D
         /\ man'.ver = man.ver + 1
<1>1. sw[s].man = man /\ man \in Manifest
  BY DEF GuardInv, TypeOK, Fetched, Unmodified
<1>2. PICK v \in Nat : v = man.ver + 1
  BY <1>1 DEF Manifest
<1>3. man' = [man EXCEPT !.del = D, !.ver = v]
  BY <1>1, <1>2
<1>4. QED
  BY <1>1, <1>2, <1>3 DEF Manifest

(* GuardInv after a cleanup has uploaded a manifest: it knows the one it   *)
(* wrote, every other cleanup has an older one.                            *)
LEMMA UploadGuard ==
  ASSUME GuardInv, NEW s \in Sweepers, Holds(s), NEW r \in CleanupState,
         sw' = [sw EXCEPT ![s] = r],
         r.seen # None => r.seen.mode = "idle",
         r.owner = sw[s].owner,
         r.pc \in {"delete", "expire"}, r.man = man' \/ r.man = man,
         man' \in Manifest, man'.ver = man.ver + 1, aged' \subseteq man'.del,
         UNCHANGED <<guard, objs, markers, lapsed, used, wr, owners, faults>>
  PROVE  GuardInv'
<1>0. /\ sw' \in [Sweepers -> CleanupState] /\ sw'[s] = r
      /\ \A t \in Sweepers : t # s => sw'[t] = sw[t]
  BY DEF GuardInv, TypeOK
<1>1. TypeOK'
  BY <1>0 DEF GuardInv, TypeOK
<1>2. (\A v \in Writers : Named(v))'
  BY DEF GuardInv, Named
<1>3. SeenIdle'
  BY <1>0 DEF GuardInv, SeenIdle
<1>4. \A t \in Sweepers : Holds(t)' => Holds(t) /\ sw'[t].owner = sw[t].owner
  BY <1>0 DEF Holds
<1>5. SweepExclusive' /\ (\A t, u \in Sweepers : Holds(t) /\ Holds(u) => t = u)'
  BY <1>4 DEF GuardInv, SweepExclusive
<1>6. ASSUME NEW t \in Sweepers, t # s, Running(t)'
      PROVE  sw'[t].man.ver < man'.ver
  <2>1. sw[t].man.ver <= man.ver /\ sw[t].man.ver \in Nat /\ man.ver \in Nat
    BY <1>0, <1>6 DEF GuardInv, Fetched, Running, TypeOK, CleanupState, Manifest
  <2>2. sw'[t] = sw[t]
    BY <1>0, <1>6
  <2>3. QED
    BY <2>1, <2>2
<1>7. Fetched'
  <2>1. man'.ver \in Nat /\ man.ver \in Nat /\ \A t \in Sweepers : sw'[t].man.ver \in Nat
    BY <1>1 DEF GuardInv, TypeOK, CleanupState, Manifest
  <2>2. QED
    BY <1>0, <1>6, <2>1 DEF Fetched
<1>8. QED
  BY <1>1, <1>2, <1>3, <1>5, <1>7 DEF GuardInv

(* Orphans join the delete list.                                           *)
LEMMA AppendGuard ==
  ASSUME GuardInv, NEW s \in Sweepers, Append(s)
  PROVE  GuardInv'
<1>0. /\ TypeOK /\ sw[s] \in CleanupState /\ Holds(s) /\ Running(s)
      /\ sw[s].seen # None => sw[s].seen.mode = "idle"
  BY DEF GuardInv, SeenIdle, TypeOK, Append, Holds, Running
<1>1. CASE ~Unmodified(s)
  BY <1>0, <1>1, DoneGuard DEF Append, TypeOK
<1>2. CASE Unmodified(s)
  <2> DEFINE D == sw[s].man.del \cup sw[s].orphans
  <2>0. D \in SUBSET Block /\ man' = [sw[s].man EXCEPT !.del = D, !.ver = man.ver + 1]
    BY <1>0, <1>2 DEF Append, CleanupState, Manifest
  <2> HIDE DEF D
  <2>1. /\ sw[s].man = man /\ man' \in Manifest /\ man'.del = D
        /\ man'.ver = man.ver + 1
    BY <1>0, <1>2, <2>0, CleanupManifest
  <2>2. aged' \subseteq aged \cup sw[s].orphans
    BY <1>2 DEF Append
  <2>3. aged' \subseteq man'.del
    BY <1>0, <2>1, <2>2 DEF TypeOK, D
  <2> DEFINE r == [sw[s] EXCEPT !.pc = "delete", !.man = man',
                          !.todo = (man'.del \cap aged') \ sw[s].keep,
                          !.orphans = {}, !.keep = {}]
  <2>4. (man'.del \cap aged') \ sw[s].keep \in SUBSET Block
    BY <2>0, <2>1
  <2>5. /\ r \in CleanupState /\ r.pc = "delete" /\ r.man = man' /\ r.seen = sw[s].seen
        /\ r.owner = sw[s].owner
    BY <1>0, <2>1, <2>4 DEF CleanupState
  <2>6. sw' = [sw EXCEPT ![s] = r]
    BY <1>2 DEF Append
  <2> HIDE DEF r
  <2>7. QED
    BY <1>0, <2>1, <2>3, <2>5, <2>6, UploadGuard DEF Append
<1>3. QED
  BY <1>1, <1>2

(* A block is deleted.                                                     *)
LEMMA DeleteGuard ==
  ASSUME GuardInv, NEW s \in Sweepers, Delete(s)
  PROVE  GuardInv'
<1>0. /\ TypeOK /\ sw[s] \in CleanupState /\ Holds(s) /\ Running(s)
      /\ sw[s].seen # None => sw[s].seen.mode = "idle"
      /\ sw \in [Sweepers -> CleanupState]
  BY DEF GuardInv, SeenIdle, TypeOK, Delete, Holds, Running
<1>1. PICK b \in sw[s].todo :
        /\ objs' = objs \ {b}
        /\ sw' = [sw EXCEPT ![s].todo = @ \ {b}, ![s].gone = @ \cup {b}]
  BY DEF Delete
<1> DEFINE r == [sw[s] EXCEPT !.todo = sw[s].todo \ {b}, !.gone = sw[s].gone \cup {b}]
<1>2. sw' = [sw EXCEPT ![s] = r]
  BY <1>0, <1>1 DEF CleanupState
<1>3. /\ r \in CleanupState /\ r.pc = sw[s].pc /\ r.man = sw[s].man
      /\ r.seen = sw[s].seen /\ r.owner = sw[s].owner
  BY <1>0 DEF CleanupState
<1> HIDE DEF r
<1>4. objs' \subseteq Block
  BY <1>0, <1>1 DEF TypeOK
<1>5. QED
  BY <1>0, <1>2, <1>3, <1>4, CleanupStep DEF Delete, TypeOK

(* The deleted entries leave the delete list.                              *)
LEMMA TrimGuard ==
  ASSUME GuardInv, NEW s \in Sweepers, Trim(s)
  PROVE  GuardInv'
<1>0. /\ TypeOK /\ sw[s] \in CleanupState /\ Holds(s) /\ Running(s)
      /\ sw[s].seen # None => sw[s].seen.mode = "idle"
      /\ sw \in [Sweepers -> CleanupState]
  BY DEF GuardInv, SeenIdle, TypeOK, Trim, Holds, Running
<1> DEFINE r == [sw[s] EXCEPT !.pc = "expire"]
<1>1. /\ r \in CleanupState /\ r.pc = "expire" /\ r.man = sw[s].man
      /\ r.seen = sw[s].seen /\ r.owner = sw[s].owner
  BY <1>0 DEF CleanupState
<1>2. Step(s, "expire") => sw' = [sw EXCEPT ![s] = r]
  BY <1>0 DEF Step
<1> HIDE DEF r
<1>3. CASE sw[s].gone = {}
  BY <1>0, <1>1, <1>2, <1>3, CleanupStep DEF Trim, TypeOK
<1>4. CASE sw[s].gone # {} /\ ~Unmodified(s)
  BY <1>0, <1>4, DoneGuard DEF Trim, TypeOK
<1>5. CASE sw[s].gone # {} /\ Unmodified(s)
  <2> DEFINE D == sw[s].man.del \ sw[s].gone
  <2>0. D \in SUBSET Block /\ man' = [sw[s].man EXCEPT !.del = D, !.ver = man.ver + 1]
    BY <1>0, <1>5 DEF Trim, CleanupState, Manifest
  <2> HIDE DEF D
  <2>1. /\ sw[s].man = man /\ man' \in Manifest /\ man'.del = D
        /\ man'.ver = man.ver + 1
    BY <1>0, <1>5, <2>0, CleanupManifest
  <2>2. aged' = aged \ sw[s].gone /\ Step(s, "expire")
    BY <1>5 DEF Trim
  <2>3. aged' \subseteq man'.del
    BY <1>0, <2>1, <2>2 DEF TypeOK, D
  <2>4. QED
    BY <1>0, <1>1, <1>2, <2>1, <2>2, <2>3, UploadGuard DEF Trim
<1>6. QED
  BY <1>3, <1>4, <1>5

(* The pass ends: its expired markers are deleted, or a request failed.    *)
LEMMA EndGuard ==
  ASSUME GuardInv, NEW s \in Sweepers, DeleteExpired(s) \/ Failed(s)
  PROVE  GuardInv'
<1>1. Holds(s) /\ Done(s)
  BY DEF DeleteExpired, Failed, Holds
<1>2. lapsed' \subseteq Marker
  BY DEF DeleteExpired, Failed, GuardInv, TypeOK, bucket
<1>3. QED
  BY <1>1, <1>2, DoneGuard DEF DeleteExpired, Failed, bucket

(* The release: IDLE replaces the cleanup's own SWEEP.                     *)
LEMMA ReleaseGuard ==
  ASSUME GuardInv, NEW s \in Sweepers, Release(s)
  PROVE  GuardInv'
<1>0. /\ TypeOK /\ Holds(s) /\ sw[s].owner \in Nat /\ sw \in [Sweepers -> CleanupState]
      /\ sw' = [sw EXCEPT ![s] = Rest]
  BY DEF GuardInv, TypeOK, Release, Holds, CleanupState
<1>1. /\ sw' \in [Sweepers -> CleanupState] /\ sw'[s] = Rest
      /\ \A t \in Sweepers : t # s => sw'[t] = sw[t]
  BY <1>0, RestTypes
<1>2. TypeOK'
  BY <1>0, <1>1, RestTypes DEF TypeOK, Release, Released
<1>3. (\A v \in Writers : Named(v))'
  BY DEF GuardInv, Named, Release
<1>4. SeenIdle'
  BY <1>1 DEF GuardInv, SeenIdle, Release, Rest
<1>5. \A t \in Sweepers : ~Holds(t)'
  BY <1>0, <1>1 DEF GuardInv, Holds, Rest
<1>6. SweepExclusive' /\ (\A t, u \in Sweepers : Holds(t) /\ Holds(u) => t = u)'
  BY <1>5 DEF SweepExclusive
<1>7. Fetched'
  BY <1>1 DEF GuardInv, Fetched, Running, Release, Rest
<1>8. QED
  BY <1>2, <1>3, <1>4, <1>6, <1>7 DEF GuardInv

(* A cleanup dies.                                                         *)
LEMMA DieGuard ==
  ASSUME GuardInv, NEW s \in Sweepers, Die(s)
  PROVE  GuardInv'
<1>1. Rest \in CleanupState /\ Rest.seen = None /\ Rest.pc = "idle"
  BY RestTypes DEF Rest
<1>2. TypeOK /\ faults' \in Nat
  BY DEF GuardInv, TypeOK, Die
<1>3. QED
  BY <1>1, <1>2, CleanupStep DEF Die, TypeOK, bucket

(* Time passes: no record of a writer, a cleanup or the guard changes.     *)
LEMMA TimeGuard ==
  ASSUME GuardInv, (\E b \in Block : Age(b)) \/ (\E mk \in Marker : Lapse(mk))
  PROVE  GuardInv'
<1>1. UNCHANGED <<guard, man, wr, sw, used, owners, faults, objs>>
  BY DEF Age, Lapse
<1>2. markers' \subseteq Marker /\ lapsed' \subseteq Marker /\ aged' \subseteq man.del
  BY DEF Age, Lapse, GuardInv, TypeOK
<1>3. TypeOK'
  BY <1>1, <1>2 DEF GuardInv, TypeOK
<1>4. (\A w \in Writers : Named(w))' /\ SeenIdle'
  BY <1>1 DEF GuardInv, Named, SeenIdle
<1>5. QED
  BY <1>1, <1>3, <1>4 DEF GuardInv, SweepExclusive, Fetched, Holds, Running

(* GuardInv holds initially.                                               *)
LEMMA InitGuard == Init => GuardInv
<1> SUFFICES ASSUME Init PROVE GuardInv
  OBVIOUS
<1>1. wr \in [Writers -> WriterState] /\ \A w \in Writers : wr[w] = Quiet
  BY RestTypes DEF Init
<1>2. sw \in [Sweepers -> CleanupState] /\ \A s \in Sweepers : sw[s] = Rest
  BY RestTypes DEF Init
<1>3. TypeOK
  BY <1>1, <1>2, RestTypes DEF Init, TypeOK
<1>4. (\A w \in Writers : Named(w)) /\ SeenIdle
  BY <1>1, <1>2 DEF Named, SeenIdle, Quiet, Rest
<1>5. \A s \in Sweepers : ~Holds(s) /\ ~Running(s)
  BY <1>2 DEF Holds, Running, Rest
<1>6. QED
  BY <1>3, <1>4, <1>5 DEF GuardInv, SweepExclusive, Fetched

(* Every step preserves GuardInv.                                          *)
LEMMA NextGuard == GuardInv /\ [Next]_vars => GuardInv'
<1> SUFFICES ASSUME GuardInv, [Next]_vars PROVE GuardInv'
  OBVIOUS
<1>1. ASSUME NEW w \in Writers, Stage(w) PROVE GuardInv'
  BY <1>1, SessionGuard, OrdinaryGuard, PutBlockGuard, PublishGuard, GiveUpGuard DEF Stage
<1>2. ASSUME NEW s \in Sweepers, Cleanup(s) PROVE GuardInv'
  BY <1>2, FetchGuardInv, AcquirePutGuard, ListGuard, AppendGuard, DeleteGuard,
     TrimGuard, EndGuard, ReleaseGuard, DieGuard DEF Cleanup
<1>3. CASE UNCHANGED vars
  BY <1>3 DEF vars, GuardInv, TypeOK, Named, SeenIdle, SweepExclusive, Fetched, Holds, Running
<1>4. QED
  BY <1>1, <1>2, <1>3, TimeGuard DEF Next

(* GuardInv is an invariant of the specification.                          *)
THEOREM GuardInvariant == Spec => []GuardInv
<1>1. QED
  BY InitGuard, NextGuard, PTL DEF Spec

(* bcvSessionGuardAcquireWithCause, bcvSessionGuardRelease: the types of   *)
(* the bucket, of every writer and of every cleanup.                       *)
THEOREM TypeCorrect == Spec => []TypeOK
<1>1. GuardInv => TypeOK
  BY DEF GuardInv
<1>2. QED
  BY <1>1, GuardInvariant, PTL

(* A cleanup that believes it holds the guard does, whatever the order of  *)
(* the conditional PUTs of any number of writers and cleanups.             *)
THEOREM SweepExclusion == Spec => []SweepExclusive
<1>1. GuardInv => SweepExclusive
  BY DEF GuardInv
<1>2. QED
  BY <1>1, GuardInvariant, PTL

-----------------------------------------------------------------------------
(* The guard is given back; only publications change the mapping.          *)

(* SWEEP appears with an owner, and disappears with it unless it dies.     *)
LEMMA NextOwned == GuardInv /\ SweepOwned /\ [Next]_vars => SweepOwned'
<1> SUFFICES ASSUME GuardInv, SweepOwned, [Next]_vars, Sweeping', faults' = 0
             PROVE  \E s \in Sweepers : Holds(s)'
  BY DEF SweepOwned
<1>0. TypeOK /\ sw \in [Sweepers -> CleanupState]
  BY DEF GuardInv, TypeOK
<1>1. ASSUME UNCHANGED sw, guard' = guard \/ (\E o \in Nat : guard' = Idle(o)), faults' = faults
      PROVE  \E s \in Sweepers : Holds(s)'
  BY <1>1 DEF SweepOwned, Sweeping, Holds, Idle
<1>2. ASSUME NEW w \in Writers, Stage(w) PROVE \E s \in Sweepers : Holds(s)'
  <2>1. UNCHANGED sw /\ faults' = faults
    BY <1>2 DEF Stage, ReadBefore, PutMarker, ReadAfter, ReadAgain, FetchGuard, Register,
                PutBlock, Publish, GiveUp
  <2>2. guard' = guard \/ (\E o \in Nat : guard' = Idle(o))
    BY <1>0, <1>2 DEF TypeOK, Stage, ReadBefore, PutMarker, ReadAfter, ReadAgain, FetchGuard,
                Register, PutBlock, Publish, GiveUp, bucket
  <2>3. QED
    BY <1>1, <2>1, <2>2
<1>3. ASSUME NEW s \in Sweepers, guard' = guard, faults' = faults,
             \A t \in Sweepers : t # s => sw'[t] = sw[t],
             Holds(s) => Holds(s)'
      PROVE  \E t \in Sweepers : Holds(t)'
  <2>1. PICK t \in Sweepers : Holds(t)
    BY <1>3 DEF SweepOwned, Sweeping
  <2>2. QED
    BY <1>3, <2>1 DEF Holds
<1>4. ASSUME NEW s \in Sweepers, Cleanup(s) PROVE \E t \in Sweepers : Holds(t)'
  <2>1. \A t \in Sweepers : t # s => sw'[t] = sw[t]
    BY <1>0, <1>4 DEF Cleanup, FetchManifest, AcquireFetch, AcquirePut, List, Append,
                Delete, Trim, DeleteExpired, Release, Failed, Die, Done, Step
  <2>2. CASE FetchManifest(s) \/ AcquireFetch(s)
    BY <1>3, <2>1, <2>2 DEF FetchManifest, AcquireFetch, Holds, bucket
  <2>3. CASE AcquirePut(s)
    <3>1. CASE guard = sw[s].seen
      BY <1>0, <2>3, <3>1 DEF AcquirePut, Holds, CleanupState
    <3>2. CASE guard # sw[s].seen
      BY <1>3, <2>1, <2>3, <3>2 DEF AcquirePut, Holds
    <3>3. QED
      BY <3>1, <3>2
  <2>4. CASE List(s)
    <3>1. PICK r \in CleanupState :
            sw' = [sw EXCEPT ![s] = r] /\ r.pc \in {"expire", "append", "delete"}
      BY <2>4, ListRecord
    <3>2. Holds(s)'
      BY <1>0, <3>1 DEF Holds
    <3>3. QED
      BY <1>3, <2>1, <2>4, <3>2 DEF List, bucket
  <2>5. CASE Append(s)
    <3>1. Holds(s)'
      BY <1>0, <2>5 DEF Append, Done, Holds, CleanupState, Rest
    <3>2. QED
      BY <1>3, <2>1, <2>5, <3>1 DEF Append
  <2>6. CASE Delete(s)
    <3>1. Holds(s)'
      BY <1>0, <2>6 DEF Delete, Holds, CleanupState
    <3>2. QED
      BY <1>3, <2>1, <2>6, <3>1 DEF Delete
  <2>7. CASE Trim(s)
    <3>1. Holds(s)'
      BY <1>0, <2>7 DEF Trim, Step, Done, Holds, CleanupState, Rest
    <3>2. QED
      BY <1>3, <2>1, <2>7, <3>1 DEF Trim
  <2>8. CASE DeleteExpired(s) \/ Failed(s)
    <3>1. Holds(s)'
      BY <1>0, <2>8 DEF DeleteExpired, Failed, Done, Holds, CleanupState, Rest
    <3>2. QED
      BY <1>3, <2>1, <2>8, <3>1 DEF DeleteExpired, Failed, bucket
  <2>9. CASE Release(s)
    <3>1. guard = Sweep(sw[s].owner)
      BY <2>9 DEF GuardInv, SweepExclusive, Release, Holds
    <3>2. ~Sweeping'
      BY <2>9, <3>1 DEF Release, Released, Idle, Sweeping
    <3>3. QED
      BY <3>2
  <2>10. CASE Die(s)
    <3>1. faults' # 0
      BY <1>0, <2>10 DEF TypeOK, Die
    <3>2. QED
      BY <3>1
  <2>11. QED
    BY <1>4, <2>2, <2>3, <2>4, <2>5, <2>6, <2>7, <2>8, <2>9, <2>10 DEF Cleanup
<1>5. CASE (\E b \in Block : Age(b)) \/ (\E mk \in Marker : Lapse(mk)) \/ UNCHANGED vars
  <2>1. UNCHANGED <<guard, sw, faults>>
    BY <1>5 DEF Age, Lapse, vars
  <2>2. QED
    BY <1>1, <2>1
<1>6. QED
  BY <1>2, <1>4, <1>5 DEF Next

(* Every error path of sqlite3_bcv_cleanup gives the guard back: SWEEP,    *)
(* which stops all staging, outlives its owner only when a cleanup died.   *)
THEOREM SweepOwnership == Spec => []SweepOwned
<1>1. Init => SweepOwned
  BY DEF Init, SweepOwned, Sweeping
<1>2. QED
  BY <1>1, NextOwned, GuardInvariant, PTL DEF Spec

(* A cleanup's upload leaves the mapping of the manifest it replaces.      *)
LEMMA CleanupMaps ==
  ASSUME GuardInv, NEW s \in Sweepers, Append(s) \/ Trim(s)
  PROVE  man'.refs = man.refs
<1>0. sw[s] \in CleanupState /\ Running(s)
  BY DEF GuardInv, TypeOK, Append, Trim, Running
<1>1. ASSUME Append(s), Unmodified(s) PROVE man'.refs = man.refs
  <2> DEFINE D == sw[s].man.del \cup sw[s].orphans
  <2>0. D \in SUBSET Block /\ man' = [sw[s].man EXCEPT !.del = D, !.ver = man.ver + 1]
    BY <1>0, <1>1 DEF Append, CleanupState, Manifest
  <2> HIDE DEF D
  <2>1. QED
    BY <1>0, <1>1, <2>0, CleanupManifest
<1>2. ASSUME Trim(s), Unmodified(s), sw[s].gone # {} PROVE man'.refs = man.refs
  <2> DEFINE D == sw[s].man.del \ sw[s].gone
  <2>0. D \in SUBSET Block /\ man' = [sw[s].man EXCEPT !.del = D, !.ver = man.ver + 1]
    BY <1>0, <1>2 DEF Trim, CleanupState, Manifest
  <2> HIDE DEF D
  <2>1. QED
    BY <1>0, <1>2, <2>0, CleanupManifest
<1>3. QED
  BY <1>1, <1>2 DEF Append, Trim

(* A step that changes the mapping is a publication.                       *)
LEMMA MapsStep ==
  ASSUME GuardInv, [Next]_vars, man'.refs # man.refs
  PROVE  \E w \in Writers : /\ wr[w].pc = "staged"
                            /\ man'.refs = [man.refs EXCEPT ![w] = wr[w].blk]
<1>1. ASSUME NEW s \in Sweepers, Cleanup(s) PROVE FALSE
  BY <1>1, CleanupMaps DEF Cleanup, FetchManifest, AcquireFetch, AcquirePut, List,
     Delete, DeleteExpired, Release, Failed, Die, bucket
<1>2. PICK w \in Writers : Publish(w)
  BY <1>1 DEF Next, Stage, ReadBefore, PutMarker, ReadAfter, ReadAgain, FetchGuard,
     Register, PutBlock, GiveUp, Age, Lapse, vars, bucket
<1>3. TypeOK /\ Named(w)
  BY DEF GuardInv
<1>4. QED
  BY <1>2, <1>3, PublishMan DEF Publish

(* Only a publication changes which blocks the databases consist of: the   *)
(* conditional PUTs of cleanup bring no older mapping back.                *)
THEOREM MappingPublished == Spec => OnlyPublicationMaps
<1>1. GuardInv /\ [Next]_vars =>
        [man'.refs # man.refs =>
          \E w \in Writers : /\ wr[w].pc = "staged"
                             /\ man'.refs = [man.refs EXCEPT ![w] = wr[w].blk]]_vars
  BY MapsStep
<1>2. QED
  BY <1>1, GuardInvariant, PTL DEF Spec, OnlyPublicationMaps

-----------------------------------------------------------------------------
(* MarkerInv: what markers and the second read of the guard protect.       *)

(* A step of the writer w that takes nothing away.                         *)
LEMMA WriterMarker ==
  ASSUME MarkerInv, NEW w \in Writers,
         \A v \in Writers : v # w => wr'[v] = wr[v],
         markers \subseteq markers', objs \subseteq objs', UNCHANGED sw,
         w \in SessionWriters =>
           /\ wr'[w].pc \in {"after", "put", "staged"} => <<w, wr'[w].blk>> \in markers'
           /\ wr'[w].pc \in {"put", "staged"} =>
                \A s \in Sweepers : sw[s].pc \notin {"append", "delete"}
           /\ wr'[w].pc = "staged" => wr'[w].blk \in objs'
  PROVE  MarkerInv'
  BY DEF MarkerInv, ProtectedKept, Writers

(* A step of the cleanups that deletes nothing and starts no deletion.     *)
LEMMA CleanupMarker ==
  ASSUME MarkerInv, UNCHANGED <<markers, objs, wr>>,
         \A t \in Sweepers : sw'[t].pc \in {"append", "delete"}
                                => sw[t].pc \in {"append", "delete"}
  PROVE  MarkerInv'
  BY DEF MarkerInv, ProtectedKept

(* Every step preserves MarkerInv.                                         *)
LEMMA NextMarker == GuardInv /\ MarkerInv /\ [Next]_vars => MarkerInv'
<1> SUFFICES ASSUME GuardInv, MarkerInv, [Next]_vars PROVE MarkerInv'
  OBVIOUS
<1> USE DEF bucket
<1>0. /\ wr \in [Writers -> WriterState] /\ sw \in [Sweepers -> CleanupState]
      /\ \A w \in Writers : Named(w)
  BY DEF GuardInv, TypeOK
<1>1. ASSUME NEW w \in SessionWriters, ReadBefore(w) \/ ReadAgain(w) PROVE MarkerInv'
  <2>1. w \in Writers /\ \A v \in Writers : v # w => wr'[v] = wr[v]
    BY <1>0, <1>1 DEF ReadBefore, ReadAgain, Writers
  <2>2. wr'[w].pc = "marker"
    BY <1>0, <1>1, <2>1 DEF ReadBefore, ReadAgain, WriterState
  <2>3. QED
    BY <1>1, <2>1, <2>2, WriterMarker DEF ReadBefore, ReadAgain
<1>2. ASSUME NEW w \in SessionWriters, PutMarker(w) PROVE MarkerInv'
  BY <1>0, <1>2, WriterMarker DEF PutMarker, To, WriterState, Writers
<1>3. ASSUME NEW w \in SessionWriters, ReadAfter(w) PROVE MarkerInv'
  <2>0. w \in Writers /\ \A v \in Writers : v # w => wr'[v] = wr[v]
    BY <1>0, <1>3 DEF ReadAfter, To, Writers
  <2>1. CASE Undisturbed(w)
    <3>1. \A s \in Sweepers : sw[s].pc \notin {"append", "delete"}
      BY <2>0, <2>1, NobodyHolds DEF Undisturbed, GuardInv, SeenIdle, Holds
    <3>2. wr'[w].pc = "put" /\ wr'[w].blk = wr[w].blk
      BY <1>0, <1>3, <2>0, <2>1 DEF ReadAfter, To, WriterState
    <3>3. <<w, wr[w].blk>> \in markers
      BY <1>3 DEF MarkerInv, ReadAfter
    <3>4. QED
      BY <1>3, <2>0, <3>1, <3>2, <3>3, WriterMarker DEF ReadAfter
  <2>2. CASE ~Undisturbed(w)
    <3>1. wr'[w].pc = "before"
      BY <1>0, <1>3, <2>0, <2>2 DEF ReadAfter, WriterState
    <3>2. QED
      BY <1>3, <2>0, <3>1, WriterMarker DEF ReadAfter
  <2>3. QED
    BY <2>1, <2>2
<1>4. ASSUME NEW w \in OrdinaryWriters, FetchGuard(w) \/ Register(w) PROVE MarkerInv'
  <2>1. w \in Writers /\ w \notin SessionWriters
    BY CleanupAssumption DEF Writers
  <2>2. /\ \A v \in Writers : v # w => wr'[v] = wr[v]
        /\ UNCHANGED <<sw, markers, objs>>
    BY <1>0, <1>4 DEF FetchGuard, Register, To
  <2>3. QED
    BY <2>1, <2>2, WriterMarker
<1>5. ASSUME NEW w \in Writers, PutBlock(w) PROVE MarkerInv'
  <2>1. /\ \A v \in Writers : v # w => wr'[v] = wr[v]
        /\ wr'[w].pc = "staged" /\ wr'[w].blk = wr[w].blk /\ wr[w].pc = "put"
        /\ objs' = objs \cup {wr[w].blk} /\ UNCHANGED <<sw, markers>>
    BY <1>0, <1>5 DEF PutBlock, To, WriterState
  <2>2. w \in SessionWriters => /\ <<w, wr[w].blk>> \in markers
                                /\ \A s \in Sweepers : sw[s].pc \notin {"append", "delete"}
    BY <2>1 DEF MarkerInv
  <2>3. QED
    BY <2>1, <2>2, WriterMarker
<1>6. ASSUME NEW w \in Writers, Publish(w) \/ GiveUp(w) PROVE MarkerInv'
  <2>1. /\ \A v \in Writers : v # w => wr'[v] = wr[v]
        /\ wr'[w].pc = "idle" /\ UNCHANGED <<sw, markers, objs>>
    BY <1>0, <1>6 DEF Publish, GiveUp, Quiet
  <2>2. QED
    BY <2>1, WriterMarker
<1>7. ASSUME NEW s \in Sweepers,
             FetchManifest(s) \/ AcquireFetch(s) \/ AcquirePut(s) \/ Append(s) \/ Trim(s)
               \/ DeleteExpired(s) \/ Release(s) \/ Failed(s) \/ Die(s)
      PROVE  MarkerInv'
  <2>1. UNCHANGED <<markers, objs, wr>>
    BY <1>7 DEF FetchManifest, AcquireFetch, AcquirePut, Append, Trim, DeleteExpired,
                Release, Failed, Die
  <2>2. \A t \in Sweepers : t # s => sw'[t] = sw[t]
    BY <1>0, <1>7 DEF FetchManifest, AcquireFetch, AcquirePut, Append, Trim, DeleteExpired,
                Release, Failed, Die, Done, Step
  <2>3. sw'[s].pc \in {"append", "delete"} => sw[s].pc \in {"append", "delete"}
    <3>1. CASE AcquirePut(s)
      <4> DEFINE took == [sw[s] EXCEPT !.pc = "list", !.seen = None, !.owner = owners + 1]
                 lost == [sw[s] EXCEPT !.pc = "fetch", !.seen = None]
      <4>1. sw[s] \in CleanupState
        BY <1>0
      <4>2. took.pc = "list" /\ lost.pc = "fetch"
        BY <4>1 DEF CleanupState
      <4>3. sw' = [sw EXCEPT ![s] = took] \/ sw' = [sw EXCEPT ![s] = lost]
        BY <3>1 DEF AcquirePut
      <4> HIDE DEF took, lost
      <4>4. sw'[s] = took \/ sw'[s] = lost
        BY <1>0, <4>3
      <4>5. QED
        BY <4>2, <4>4
    <3>2. CASE FetchManifest(s)
      BY <1>0, <3>2, DonePc DEF GuardInv
    <3>a. CASE AcquireFetch(s)
      BY <1>0, <3>a DEF AcquireFetch, Rest, CleanupState
    <3>3. CASE Append(s) \/ Trim(s)
      BY <3>3 DEF Append, Trim
    <3>4. CASE DeleteExpired(s) \/ Failed(s)
      BY <1>0, <3>4, DonePc DEF DeleteExpired, Failed, GuardInv
    <3>5. CASE Release(s) \/ Die(s)
      BY <1>0, <3>5 DEF Release, Die, Rest
    <3>6. QED
      BY <1>7, <3>1, <3>2, <3>a, <3>3, <3>4, <3>5
  <2>4. QED
    BY <2>1, <2>2, <2>3, CleanupMarker
<1>8. ASSUME NEW s \in Sweepers, List(s) PROVE MarkerInv'
  <2>1. PICK r \in CleanupState :
          /\ sw' = [sw EXCEPT ![s] = r]
          /\ r.pc \in {"append", "delete"} => markers = {}
    BY <1>8, ListRecord
  <2>2. sw'[s] = r /\ \A t \in Sweepers : t # s => sw'[t] = sw[t]
    BY <1>0, <2>1
  <2>3. markers = {} => \A w \in SessionWriters : wr[w].pc \notin {"put", "staged"}
    BY DEF MarkerInv
  <2>4. UNCHANGED <<markers, objs, wr>>
    BY <1>8 DEF List
  <2>5. QED
    BY <2>1, <2>2, <2>3, <2>4 DEF MarkerInv, ProtectedKept
<1>9. ASSUME NEW s \in Sweepers, Delete(s) PROVE MarkerInv'
  <2>1. \A w \in SessionWriters : wr[w].pc \notin {"put", "staged"}
    BY <1>9 DEF Delete, MarkerInv
  <2>2. UNCHANGED <<markers, wr>>
    BY <1>9 DEF Delete
  <2>3. QED
    BY <2>1, <2>2 DEF MarkerInv, ProtectedKept
<1>10. ASSUME NEW mk \in Marker, Lapse(mk) PROVE MarkerInv'
  <2>1. \A w \in SessionWriters : mk # <<w, wr[w].blk>>
    BY <1>10 DEF Lapse, Settled, Writers
  <2>2. UNCHANGED <<sw, wr, objs>> /\ markers' = markers \ {mk}
    BY <1>10 DEF Lapse
  <2>3. QED
    BY <2>1, <2>2 DEF MarkerInv, ProtectedKept
<1>11. CASE (\E b \in Block : Age(b)) \/ UNCHANGED vars
  BY <1>11, CleanupMarker DEF Age, vars
<1>12. QED
  BY <1>1, <1>2, <1>3, <1>4, <1>5, <1>6, <1>7, <1>8, <1>9, <1>10, <1>11
     DEF Next, Stage, Cleanup

(* MarkerInv is an invariant of the specification.                         *)
THEOREM MarkerInvariant == Spec => []MarkerInv
<1>1. Init => MarkerInv
  BY DEF Init, MarkerInv, ProtectedKept, Quiet, Rest, Writers
<1>2. QED
  BY <1>1, NextMarker, GuardInvariant, PTL DEF Spec

(* bcvfsSessionProtectBlockFenced: a block that a session writer was       *)
(* allowed to PUT stays in the bucket until its publication, for any       *)
(* number of writers and cleanups and whatever the minimum age.            *)
THEOREM ProtectedBlocks == Spec => []ProtectedKept
<1>1. MarkerInv => ProtectedKept
  BY DEF MarkerInv
<1>2. QED
  BY <1>1, MarkerInvariant, PTL

-----------------------------------------------------------------------------
(* PublishedInv: what the minimum age and the fetched manifest protect.    *)

(* A step of the writer w that publishes nothing: a block it takes up is a *)
(* session name, the one it has, or an ordinary name nobody has drawn.     *)
LEMMA WriterPublished ==
  ASSUME GuardInv, PublishedInv, NEW w \in Writers,
         \A v \in Writers : v # w => wr'[v] = wr[v],
         UNCHANGED <<man, aged, sw>>, markers \subseteq markers', objs \subseteq objs',
         used \subseteq used', \A b \in objs' : Known(b)',
         \/ wr'[w].blk \in SessionBlock \cup {None}
         \/ wr'[w].blk = wr[w].blk
         \/ wr'[w].blk \notin used,
         w \in OrdinaryWriters /\ wr'[w].pc = "staged" => wr'[w].blk \in objs'
  PROVE  PublishedInv'
<1>k. \A b : Known(b) => Known(b)'
  BY DEF Known
<1>n. None \notin OrdinaryBlock /\ SessionBlock \cap OrdinaryBlock = {}
  BY CleanupAssumption DEF Block
<1>1. (\A b \in objs \cup Refs(man) \cup man.del : Known(b))'
  BY <1>k DEF PublishedInv
<1>2. (\A s \in Sweepers : sw[s].pc = "append" =>
          /\ \A b \in sw[s].orphans : Known(b)
          /\ sw[s].keep = Refs(sw[s].man))'
  BY <1>k DEF PublishedInv
<1>3. \A b \in OrdinaryBlock : Known(b) /\ (\A v \in Writers : wr[v].blk # b)
                                  => \A v \in Writers : wr'[v].blk # b
  BY <1>n DEF Known
<1>4. AgedSettled'
  <2>1. \A b \in aged : Known(b)
    BY DEF PublishedInv, GuardInv, TypeOK
  <2>2. QED
    BY <1>3, <2>1 DEF PublishedInv, AgedSettled
<1>5. SessionSeen'
  BY DEF PublishedInv, SessionSeen
<1>6. TodoSafe'
  BY <1>k, <1>3 DEF PublishedInv, TodoSafe
<1>7. (\A v \in OrdinaryWriters : wr[v].pc = "staged" => wr[v].blk \in objs)'
  BY DEF PublishedInv, Writers
<1>8. PublishedKept'
  BY DEF PublishedInv, PublishedKept
<1>9. QED
  BY <1>1, <1>2, <1>4, <1>5, <1>6, <1>7, <1>8 DEF PublishedInv

(* A step of the cleanup s that leaves the mapping alone and deletes no    *)
(* block.                                                                  *)
LEMMA CleanupPublished ==
  ASSUME PublishedInv, NEW s \in Sweepers,
         \A t \in Sweepers : t # s => sw'[t] = sw[t],
         UNCHANGED <<objs, markers, used, wr>>,
         man'.refs = man.refs, \A b \in man'.del : Known(b),
         aged' \cap OrdinaryBlock \subseteq aged,
         sw'[s].pc = "append" => /\ \A b \in sw'[s].orphans : Known(b)
                                 /\ sw'[s].keep = Refs(sw'[s].man),
         sw'[s].pc \in {"fetch", "acquire", "list", "append"} =>
           \/ sw'[s].man = man
           \/ /\ sw'[s].man = sw[s].man
              /\ sw[s].pc \in {"fetch", "acquire", "list"}
              /\ sw'[s].pc = "append" => markers = {} /\ sw[s].pc = "list",
         sw'[s].pc = "delete" =>
           \A b \in sw'[s].todo :
             /\ b \notin Refs(man) /\ Known(b)
             /\ b \in OrdinaryBlock => \A w \in Writers : wr[w].blk # b
  PROVE  PublishedInv'
<1>k. /\ \A b : Known(b)' <=> Known(b)
      /\ Refs(man') = Refs(man)
  BY DEF Known, Refs
<1>1. (\A b \in objs \cup Refs(man) \cup man.del : Known(b))'
  BY <1>k DEF PublishedInv
<1>2. (\A t \in Sweepers : sw[t].pc = "append" =>
          /\ \A b \in sw[t].orphans : Known(b)
          /\ sw[t].keep = Refs(sw[t].man))'
  BY <1>k DEF PublishedInv
<1>3. AgedSettled'
  BY <1>k DEF PublishedInv, AgedSettled
<1>4. SessionSeen'
  <2> SUFFICES ASSUME NEW t \in Sweepers,
                      NEW b \in (SessionBlock \cap Refs(man)) \ Refs(sw'[t].man)
               PROVE  /\ sw'[t].pc \in {"fetch", "acquire", "list"}
                            => \E mk \in markers : mk[2] = b
                      /\ sw'[t].pc # "append"
    BY <1>k DEF SessionSeen
  <2>1. CASE t # s
    BY <2>1 DEF PublishedInv, SessionSeen
  <2>2. CASE t = s
    BY <2>2 DEF PublishedInv, SessionSeen
  <2>3. QED
    BY <2>1, <2>2
<1>5. TodoSafe'
  BY <1>k DEF PublishedInv, TodoSafe
<1>6. PublishedKept'
  BY <1>k DEF PublishedInv, PublishedKept
<1>7. QED
  BY <1>1, <1>2, <1>3, <1>4, <1>5, <1>6 DEF PublishedInv

(* The publication of a block that is stored and protected.                *)
LEMMA PublishPublished ==
  ASSUME GuardInv, MarkerInv, PublishedInv, NEW w \in Writers, Publish(w)
  PROVE  PublishedInv'
<1> DEFINE x == wr[w].blk
<1>0. /\ wr \in [Writers -> WriterState] /\ TypeOK /\ Named(w) /\ wr[w].pc = "staged"
      /\ man \in Manifest
      /\ UNCHANGED <<guard, objs, markers, lapsed, aged, used, sw, owners, faults>>
  BY DEF GuardInv, TypeOK, Publish
<1>n. None \notin OrdinaryBlock /\ SessionBlock \cap OrdinaryBlock = {} /\ None \notin SessionBlock
  BY CleanupAssumption DEF Block
<1>1. /\ wr'[w] = Quiet /\ \A v \in Writers : v # w => wr'[v] = wr[v]
  BY <1>0 DEF Publish
<1>2. man'.refs = [man.refs EXCEPT ![w] = x] /\ man'.del \subseteq man.del \cup Refs(man)
  BY <1>0, PublishMan
<1>3. Refs(man') \subseteq Refs(man) \cup {x}
  BY <1>0, <1>2 DEF Refs, Manifest
<1>4. x \in objs
  BY <1>0 DEF MarkerInv, ProtectedKept, PublishedInv, Writers
<1>5. \/ w \in SessionWriters /\ x \in SessionBlock /\ <<w, x>> \in markers
         /\ \A s \in Sweepers : sw[s].pc \notin {"append", "delete"}
      \/ w \in OrdinaryWriters /\ x \in OrdinaryBlock /\ x \in used
  BY <1>0 DEF Named, MarkerInv, Writers, TypeOK
<1> HIDE DEF x
<1>6. \A b : Known(b)' <=> Known(b)
  BY <1>0 DEF Known
<1>7. (\A b \in objs \cup Refs(man) \cup man.del : Known(b))'
  BY <1>0, <1>2, <1>3, <1>4, <1>6 DEF PublishedInv
<1>8. (\A s \in Sweepers : sw[s].pc = "append" =>
          /\ \A b \in sw[s].orphans : Known(b)
          /\ sw[s].keep = Refs(sw[s].man))'
  BY <1>0, <1>6 DEF PublishedInv
<1>9. \A b \in OrdinaryBlock : (\A v \in Writers : wr[v].blk # b)
                                  => b # x /\ \A v \in Writers : wr'[v].blk # b
  BY <1>1, <1>n DEF Quiet, x
<1>10. AgedSettled'
  BY <1>0, <1>3, <1>9 DEF PublishedInv, AgedSettled
<1>11. SessionSeen'
  <2> SUFFICES ASSUME NEW s \in Sweepers,
                      NEW b \in (SessionBlock \cap Refs(man')) \ Refs(sw[s].man)
               PROVE  /\ sw[s].pc \in {"fetch", "acquire", "list"}
                            => \E mk \in markers : mk[2] = b
                      /\ sw[s].pc # "append"
    BY <1>0 DEF SessionSeen
  <2>1. CASE b \in Refs(man)
    BY <2>1 DEF PublishedInv, SessionSeen
  <2>2. CASE b = x
    BY <1>5, <1>n, <2>2
  <2>3. QED
    BY <1>3, <2>1, <2>2
<1>12. TodoSafe'
  BY <1>0, <1>3, <1>5, <1>6, <1>9, <1>n DEF PublishedInv, TodoSafe
<1>13. (\A v \in OrdinaryWriters : wr[v].pc = "staged" => wr[v].blk \in objs)'
  BY <1>0, <1>1 DEF PublishedInv, Writers, Quiet
<1>14. PublishedKept'
  BY <1>0, <1>3, <1>4 DEF PublishedInv, PublishedKept
<1>15. QED
  BY <1>7, <1>8, <1>10, <1>11, <1>12, <1>13, <1>14 DEF PublishedInv

(* The other steps of a writer.                                            *)
LEMMA StagePublished ==
  ASSUME GuardInv, MarkerInv, PublishedInv, NEW w \in Writers, Stage(w)
  PROVE  PublishedInv'
<1> USE DEF bucket
<1>0. /\ wr \in [Writers -> WriterState] /\ \A v \in Writers : Named(v)
      /\ \A b \in objs : Known(b)
  BY DEF GuardInv, TypeOK, PublishedInv
<1>1. ASSUME w \in SessionWriters,
             ReadBefore(w) \/ PutMarker(w) \/ ReadAfter(w) \/ ReadAgain(w)
      PROVE  PublishedInv'
  <2>1. \A v \in Writers : v # w => wr'[v] = wr[v]
    BY <1>0, <1>1 DEF ReadBefore, PutMarker, ReadAfter, ReadAgain, To
  <2>2. wr'[w].blk \in SessionBlock \/ wr'[w].blk = wr[w].blk
    BY <1>0, <1>1 DEF ReadBefore, PutMarker, ReadAfter, ReadAgain, To, WriterState
  <2>3. w \notin OrdinaryWriters
    BY <1>1, CleanupAssumption
  <2>4. markers \subseteq markers' /\ UNCHANGED <<man, aged, sw, objs, used>>
    BY <1>1 DEF ReadBefore, PutMarker, ReadAfter, ReadAgain
  <2>5. \A b \in objs' : Known(b)'
    BY <1>0, <2>4 DEF Known
  <2>6. QED
    BY <2>1, <2>2, <2>3, <2>4, <2>5, WriterPublished
<1>2. ASSUME w \in OrdinaryWriters, FetchGuard(w) PROVE PublishedInv'
  <2>1. PICK b \in IF wr[w].pc = "idle" THEN OrdinaryBlock \ used ELSE {wr[w].blk} :
          /\ used' = used \cup {b}
          /\ wr' = [wr EXCEPT ![w] =
                IF Sweeping THEN Quiet
                ELSE [pc |-> "register", blk |-> b, seen |-> guard]]
    BY <1>2 DEF FetchGuard
  <2>2. /\ \A v \in Writers : v # w => wr'[v] = wr[v]
        /\ wr'[w].pc # "staged"
        /\ wr'[w].blk = None \/ wr'[w].blk = b
    BY <1>0, <2>1 DEF Quiet
  <2>3. b = wr[w].blk \/ b \notin used
    BY <2>1
  <2>4. UNCHANGED <<man, aged, sw, objs, markers>> /\ used \subseteq used'
    BY <1>2, <2>1 DEF FetchGuard
  <2>5. \A c \in objs' : Known(c)'
    BY <1>0, <2>4 DEF Known
  <2>6. QED
    BY <2>2, <2>3, <2>4, <2>5, WriterPublished
<1>3. ASSUME w \in OrdinaryWriters, Register(w) PROVE PublishedInv'
  <2>1. \A v \in Writers : v # w => wr'[v] = wr[v]
    BY <1>0, <1>3 DEF Register, To
  <2>2. wr'[w].blk = wr[w].blk /\ wr'[w].pc # "staged"
    BY <1>0, <1>3 DEF Register, To, WriterState
  <2>3. UNCHANGED <<man, aged, sw, objs, markers, used>>
    BY <1>3 DEF Register
  <2>4. \A b \in objs' : Known(b)'
    BY <1>0, <2>3 DEF Known
  <2>5. QED
    BY <2>1, <2>2, <2>3, <2>4, WriterPublished
<1>4. ASSUME PutBlock(w) PROVE PublishedInv'
  <2>1. /\ \A v \in Writers : v # w => wr'[v] = wr[v]
        /\ wr'[w].blk = wr[w].blk /\ objs' = objs \cup {wr[w].blk}
        /\ UNCHANGED <<man, aged, sw, markers, used>>
    BY <1>0, <1>4 DEF PutBlock, To, WriterState
  <2>2. Named(w) /\ wr[w].pc = "put"
    BY <1>0, <1>4 DEF PutBlock
  <2>3. Known(wr[w].blk)
    BY <2>2, CleanupAssumption DEF Known, Named, Writers
  <2>4. \A b \in objs' : Known(b)'
    BY <1>0, <2>1, <2>3 DEF Known
  <2>5. QED
    BY <2>1, <2>4, WriterPublished
<1>5. ASSUME GiveUp(w) PROVE PublishedInv'
  <2>1. /\ \A v \in Writers : v # w => wr'[v] = wr[v]
        /\ wr'[w].blk = None /\ wr'[w].pc = "idle"
        /\ UNCHANGED <<man, aged, sw, markers, used, objs>>
    BY <1>0, <1>5 DEF GiveUp, Quiet
  <2>2. \A b \in objs' : Known(b)'
    BY <1>0, <2>1 DEF Known
  <2>3. QED
    BY <2>1, <2>2, WriterPublished
<1>6. QED
  BY <1>1, <1>2, <1>3, <1>4, <1>5, PublishPublished DEF Stage

(* A cleanup's step after which it neither fetches, lists nor deletes.     *)
LEMMA PassivePublished ==
  ASSUME GuardInv, PublishedInv, NEW s \in Sweepers,
         \A t \in Sweepers : t # s => sw'[t] = sw[t],
         sw'[s].pc \in {"idle", "expire", "release"},
         UNCHANGED <<objs, markers, used, wr>>,
         man'.refs = man.refs, man'.del \subseteq man.del, aged' \subseteq aged
  PROVE  PublishedInv'
<1>1. \A b \in man'.del : Known(b)
  BY DEF PublishedInv
<1>2. QED
  BY <1>1, CleanupPublished

(* The listing decides what to delete.                                     *)
LEMMA ListPublished ==
  ASSUME GuardInv, PublishedInv, NEW s \in Sweepers, List(s)
  PROVE  PublishedInv'
<1>0. /\ sw \in [Sweepers -> CleanupState] /\ sw[s].pc = "list" /\ TypeOK
      /\ UNCHANGED <<objs, markers, used, wr, man, aged, lapsed>>
  BY DEF GuardInv, TypeOK, List, bucket
<1>1. PICK r \in CleanupState :
        /\ sw' = [sw EXCEPT ![s] = r]
        /\ r.pc \in {"expire", "append", "delete"}
        /\ r.man = sw[s].man
        /\ r.pc \in {"append", "delete"} => markers = {}
        /\ r.pc = "append" =>
             /\ r.keep = Refs(sw[s].man)
             /\ r.orphans \subseteq objs \cup {mk[2] : mk \in lapsed}
        /\ r.pc = "delete" => r.todo = (sw[s].man.del \cap aged) \ Refs(sw[s].man)
  BY ListRecord
<1>2. sw'[s] = r /\ \A t \in Sweepers : t # s => sw'[t] = sw[t]
  BY <1>0, <1>1
<1>3. \A b \in objs \cup {mk[2] : mk \in lapsed} : Known(b)
  BY <1>0, CleanupAssumption DEF PublishedInv, TypeOK, Marker, Known
<1>4. ASSUME r.pc = "delete", NEW b \in r.todo
      PROVE  /\ b \notin Refs(man) /\ Known(b)
             /\ b \in OrdinaryBlock => \A w \in Writers : wr[w].blk # b
  <2>1. b \in aged /\ b \notin Refs(sw[s].man) /\ markers = {}
    BY <1>1, <1>4
  <2>2. Known(b) /\ b \in Block
    BY <1>0, <2>1 DEF PublishedInv, TypeOK, Manifest
  <2>3. CASE b \in OrdinaryBlock
    BY <1>0, <2>1, <2>2, <2>3 DEF PublishedInv, AgedSettled
  <2>4. CASE b \in SessionBlock
    <3>1. b \notin Refs(man)
      BY <1>0, <2>1, <2>4 DEF PublishedInv, SessionSeen
    <3>2. QED
      BY <2>2, <2>4, <3>1, CleanupAssumption
  <2>5. QED
    BY <2>2, <2>3, <2>4 DEF Block
<1>5. \A b \in man'.del : Known(b)
  BY <1>0 DEF PublishedInv
<1>6. QED
  BY <1>0, <1>1, <1>2, <1>3, <1>4, <1>5, CleanupPublished

(* Orphans join the delete list; ordinary ones are not old yet.            *)
LEMMA AppendPublished ==
  ASSUME Prompt \subseteq SessionBlock,
         GuardInv, PublishedInv, NEW s \in Sweepers, Append(s), Unmodified(s)
  PROVE  PublishedInv'
<1>0. /\ sw \in [Sweepers -> CleanupState] /\ sw[s] \in CleanupState /\ TypeOK /\ Running(s)
      /\ UNCHANGED <<objs, markers, used, wr, lapsed>> /\ sw[s].pc = "append"
  BY DEF GuardInv, TypeOK, Append, Running
<1> DEFINE D == sw[s].man.del \cup sw[s].orphans
<1>1. D \in SUBSET Block /\ man' = [sw[s].man EXCEPT !.del = D, !.ver = man.ver + 1]
  BY <1>0 DEF Append, CleanupState, Manifest
<1>2. sw[s].man = man /\ man'.del = D /\ man'.refs = man.refs
  <2> HIDE DEF D
  <2>1. QED
    BY <1>0, <1>1, CleanupManifest
<1>3. aged' \subseteq aged \cup (sw[s].orphans \cap Prompt)
  BY DEF Append
<1>4. aged' \cap OrdinaryBlock \subseteq aged
  BY <1>3, CleanupAssumption
<1>5. /\ sw'[s].pc = "delete"
      /\ sw'[s].todo = (man'.del \cap aged') \ sw[s].keep
      /\ \A t \in Sweepers : t # s => sw'[t] = sw[t]
  <2> DEFINE T == (man'.del \cap aged') \ sw[s].keep
             r == [sw[s] EXCEPT !.pc = "delete", !.man = man', !.todo = T,
                                !.orphans = {}, !.keep = {}]
  <2>1. sw' = [sw EXCEPT ![s] = r]
    BY DEF Append
  <2>2. r.pc = "delete" /\ r.todo = T
    BY <1>0 DEF CleanupState
  <2> HIDE DEF r, T
  <2>3. sw'[s] = r /\ \A t \in Sweepers : t # s => sw'[t] = sw[t]
    BY <1>0, <2>1
  <2>4. QED
    BY <2>2, <2>3 DEF T
<1>6. \A b \in man'.del : Known(b)
  BY <1>0, <1>2 DEF PublishedInv
<1>7. sw[s].keep = Refs(man)
  BY <1>0, <1>2 DEF PublishedInv
<1>8. \A b \in sw'[s].todo :
        /\ b \notin Refs(man) /\ Known(b)
        /\ b \in OrdinaryBlock => \A w \in Writers : wr[w].blk # b
  BY <1>4, <1>5, <1>6, <1>7 DEF PublishedInv, AgedSettled
<1> HIDE DEF D
<1>9. QED
  BY <1>0, <1>2, <1>4, <1>5, <1>6, <1>8, CleanupPublished

(* A block is deleted that no manifest names and no writer has.            *)
LEMMA DeletePublished ==
  ASSUME GuardInv, MarkerInv, PublishedInv, NEW s \in Sweepers, Delete(s)
  PROVE  PublishedInv'
<1>0. /\ sw \in [Sweepers -> CleanupState] /\ sw[s].pc = "delete"
      /\ UNCHANGED <<markers, used, wr, man, aged>>
      /\ \A w \in Writers : Named(w)
  BY DEF GuardInv, TypeOK, Delete
<1>1. PICK b \in sw[s].todo :
        /\ objs' = objs \ {b}
        /\ sw' = [sw EXCEPT ![s].todo = @ \ {b}, ![s].gone = @ \cup {b}]
  BY DEF Delete
<1>2. /\ b \notin Refs(man)
      /\ b \in OrdinaryBlock => \A w \in Writers : wr[w].blk # b
  BY <1>0 DEF PublishedInv, TodoSafe
<1>3. /\ \A t \in Sweepers : t # s => sw'[t] = sw[t]
      /\ sw'[s].pc = "delete" /\ sw'[s].todo \subseteq sw[s].todo /\ sw'[s].man = sw[s].man
  BY <1>0, <1>1 DEF CleanupState
<1>4. \A c : Known(c)' <=> Known(c)
  BY <1>0 DEF Known
<1>5. AgedSettled' /\ SessionSeen'
  BY <1>0, <1>3 DEF PublishedInv, AgedSettled, SessionSeen
<1>6. TodoSafe'
  BY <1>0, <1>3, <1>4 DEF PublishedInv, TodoSafe
<1>7. (\A w \in OrdinaryWriters : wr[w].pc = "staged" => wr[w].blk \in objs)'
  <2> SUFFICES ASSUME NEW w \in OrdinaryWriters, wr[w].pc = "staged"
               PROVE  wr[w].blk \in objs'
    BY <1>0
  <2>1. wr[w].blk \in objs /\ w \in Writers /\ wr[w].blk \in OrdinaryBlock
    BY <1>0 DEF PublishedInv, Named, Writers, GuardInv, TypeOK
  <2>2. QED
    BY <1>1, <1>2, <2>1
<1>8. PublishedKept'
  BY <1>0, <1>1, <1>2 DEF PublishedInv, PublishedKept
<1>9. (\A t \in Sweepers : sw[t].pc = "append" =>
          /\ \A c \in sw[t].orphans : Known(c)
          /\ sw[t].keep = Refs(sw[t].man))'
  BY <1>3, <1>4 DEF PublishedInv
<1>10. (\A c \in objs \cup Refs(man) \cup man.del : Known(c))'
  BY <1>0, <1>1, <1>4 DEF PublishedInv
<1>11. QED
  BY <1>5, <1>6, <1>7, <1>8, <1>9, <1>10 DEF PublishedInv

(* The other steps of a cleanup.                                           *)
LEMMA SweepPublished ==
  ASSUME Prompt \subseteq SessionBlock,
         GuardInv, MarkerInv, PublishedInv, NEW s \in Sweepers, Cleanup(s)
  PROVE  PublishedInv'
<1> USE DEF bucket
<1>0. /\ sw \in [Sweepers -> CleanupState] /\ sw[s] \in CleanupState /\ TypeOK
      /\ \A b \in man.del : Known(b)
  BY DEF GuardInv, TypeOK, PublishedInv
<1>1. ASSUME FetchManifest(s) PROVE PublishedInv'
  <2> DEFINE r == [Rest EXCEPT !.pc = "fetch", !.man = man]
  <2>1. r.pc = "fetch" /\ r.man = man
    BY RestTypes DEF CleanupState
  <2>2. sw' = [sw EXCEPT ![s] = r]
    BY <1>1 DEF FetchManifest
  <2> HIDE DEF r
  <2>3. sw'[s] = r /\ \A t \in Sweepers : t # s => sw'[t] = sw[t]
    BY <1>0, <2>2
  <2>4. QED
    BY <1>0, <1>1, <2>1, <2>3, CleanupPublished DEF FetchManifest
<1>2. ASSUME AcquireFetch(s) PROVE PublishedInv'
  <2>1. \A t \in Sweepers : t # s => sw'[t] = sw[t]
    BY <1>0, <1>2 DEF AcquireFetch
  <2>2. sw'[s].pc = "idle" \/ (sw'[s].pc = "acquire" /\ sw'[s].man = sw[s].man)
    BY <1>0, <1>2 DEF AcquireFetch, CleanupState, Rest
  <2>3. QED
    BY <1>0, <1>2, <2>1, <2>2, CleanupPublished DEF AcquireFetch
<1>3. ASSUME AcquirePut(s) PROVE PublishedInv'
  <2>1. \A t \in Sweepers : t # s => sw'[t] = sw[t]
    BY <1>0, <1>3 DEF AcquirePut
  <2>2. CASE guard = sw[s].seen
    <3>1. PICK o : sw' = [sw EXCEPT ![s] = [sw[s] EXCEPT !.pc = "list", !.seen = None,
                                                         !.owner = o]]
      BY <1>3, <2>2 DEF AcquirePut
    <3>2. sw'[s].pc = "list" /\ sw'[s].man = sw[s].man
      BY <1>0, <3>1 DEF CleanupState
    <3>3. QED
      BY <1>0, <1>3, <2>1, <3>2, CleanupPublished DEF AcquirePut
  <2>3. CASE guard # sw[s].seen
    <3>1. sw'[s].pc = "fetch" /\ sw'[s].man = sw[s].man
      BY <1>0, <1>3, <2>3 DEF AcquirePut, CleanupState
    <3>2. QED
      BY <1>0, <1>3, <2>1, <3>1, CleanupPublished DEF AcquirePut
  <2>4. QED
    BY <2>2, <2>3
<1>4. ASSUME Done(s), UNCHANGED <<objs, markers, used, wr, man, aged>> PROVE PublishedInv'
  <2>1. \A t \in Sweepers : t # s => sw'[t] = sw[t]
    BY <1>0, <1>4 DEF Done
  <2>2. sw'[s].pc = "release"
    BY <1>0, <1>4, DonePc
  <2>3. QED
    BY <1>4, <2>1, <2>2, PassivePublished
<1>5. ASSUME Append(s) PROVE PublishedInv'
  BY <1>4, <1>5, AppendPublished DEF Append
<1>6. ASSUME Trim(s) PROVE PublishedInv'
  <2>1. CASE Step(s, "expire")
    <3>1. \A t \in Sweepers : t # s => sw'[t] = sw[t]
      BY <1>0, <2>1 DEF Step
    <3>2. sw'[s].pc = "expire"
      BY <1>0, <2>1 DEF Step, CleanupState
    <3>3. man'.refs = man.refs
      BY <1>6, CleanupMaps
    <3>4. man'.del \subseteq man.del /\ aged' \subseteq aged
      <4>1. CASE sw[s].gone = {}
        BY <1>6, <4>1 DEF Trim
      <4>2. CASE Unmodified(s) /\ sw[s].gone # {}
        <5> DEFINE D == sw[s].man.del \ sw[s].gone
        <5>0. D \in SUBSET Block /\ man' = [sw[s].man EXCEPT !.del = D, !.ver = man.ver + 1]
          BY <1>0, <1>6, <4>2 DEF Trim, CleanupState, Manifest
        <5>1. Running(s) /\ aged' \subseteq aged
          BY <1>6, <4>2 DEF Running, Trim
        <5>2. sw[s].man = man /\ man'.del = D
          <6> HIDE DEF D
          <6>1. QED
            BY <4>2, <5>0, <5>1, CleanupManifest
        <5>3. QED
          BY <5>1, <5>2
      <4>3. QED
        BY <1>6, <4>1, <4>2 DEF Trim
    <3>5. QED
      BY <1>6, <3>1, <3>2, <3>3, <3>4, PassivePublished DEF Trim
  <2>2. CASE ~Step(s, "expire")
    BY <1>4, <1>6, <2>2 DEF Trim
  <2>3. QED
    BY <2>1, <2>2
<1>7. ASSUME DeleteExpired(s) \/ Failed(s) PROVE PublishedInv'
  BY <1>4, <1>7 DEF DeleteExpired, Failed
<1>8. ASSUME Release(s) \/ Die(s) PROVE PublishedInv'
  <2>1. \A t \in Sweepers : t # s => sw'[t] = sw[t]
    BY <1>0, <1>8 DEF Release, Die
  <2>2. sw'[s].pc = "idle"
    BY <1>0, <1>8 DEF Release, Die, Rest
  <2>3. QED
    BY <1>8, <2>1, <2>2, PassivePublished DEF Release, Die
<1>9. QED
  BY <1>1, <1>2, <1>3, <1>5, <1>6, <1>7, <1>8, ListPublished, DeletePublished DEF Cleanup

(* Time passes: an ordinary entry ages, and a marker lapses, when it is    *)
(* settled.                                                                *)
LEMMA TimePublished ==
  ASSUME Prompt \subseteq SessionBlock, GuardInv, PublishedInv,
         (\E b \in Block : Age(b)) \/ (\E mk \in Marker : Lapse(mk))
  PROVE  PublishedInv'
<1>1. ASSUME NEW b \in Block, Age(b) PROVE PublishedInv'
  <2>1. /\ UNCHANGED <<objs, markers, man, used, wr, sw>> /\ aged' = aged \cup {b}
        /\ b \in OrdinaryBlock => Settled(b)
    BY <1>1, CleanupAssumption DEF Age
  <2>2. AgedSettled'
    BY <2>1 DEF PublishedInv, AgedSettled, Settled
  <2>3. QED
    BY <2>1, <2>2 DEF PublishedInv, SessionSeen, TodoSafe, PublishedKept, Known
<1>2. ASSUME NEW mk \in Marker, Lapse(mk) PROVE PublishedInv'
  <2>1. /\ UNCHANGED <<objs, man, aged, used, wr, sw>> /\ markers' = markers \ {mk}
        /\ Settled(mk[2])
    BY <1>2 DEF Lapse
  <2>2. SessionSeen'
    <3> SUFFICES ASSUME NEW s \in Sweepers,
                        NEW b \in (SessionBlock \cap Refs(man)) \ Refs(sw[s].man)
                 PROVE  /\ sw[s].pc \in {"fetch", "acquire", "list"}
                              => \E k \in markers' : k[2] = b
                        /\ sw[s].pc # "append"
      BY <2>1 DEF SessionSeen
    <3>1. sw[s].pc # "idle" => b # mk[2]
      BY <2>1 DEF Settled
    <3>2. QED
      BY <2>1, <3>1 DEF PublishedInv, SessionSeen
  <2>3. QED
    BY <2>1, <2>2 DEF PublishedInv, AgedSettled, TodoSafe, PublishedKept, Known
<1>3. QED
  BY <1>1, <1>2

(* Every step preserves PublishedInv.                                      *)
LEMMA NextPublished ==
  ASSUME Prompt \subseteq SessionBlock
  PROVE  GuardInv /\ MarkerInv /\ PublishedInv /\ [Next]_vars => PublishedInv'
<1> SUFFICES ASSUME GuardInv, MarkerInv, PublishedInv, [Next]_vars PROVE PublishedInv'
  OBVIOUS
<1>1. CASE UNCHANGED vars
  BY <1>1 DEF vars, PublishedInv, AgedSettled, SessionSeen, TodoSafe, PublishedKept, Known
<1>2. QED
  BY <1>1, StagePublished, SweepPublished, TimePublished DEF Next

(* PublishedInv holds initially.                                           *)
LEMMA InitPublished == Init => PublishedInv
<1> SUFFICES ASSUME Init PROVE PublishedInv
  OBVIOUS
<1>1. Refs(man) = {} /\ man.del = {}
  BY DEF Init, Refs, NoMan
<1>2. \A s \in Sweepers : sw[s] = Rest
  BY DEF Init
<1>3. \A w \in Writers : wr[w] = Quiet
  BY DEF Init
<1>4. QED
  BY <1>1, <1>2, <1>3 DEF Init, PublishedInv, AgedSettled, SessionSeen, TodoSafe, PublishedKept,
     Rest, Quiet, Writers

(* The published manifest names no deleted block, for any number of        *)
(* writers and cleanups, when the minimum age covers the staging of the    *)
(* ordinary writers; that of session names may be zero.                    *)
THEOREM PublishedBlocks ==
  ASSUME Prompt \subseteq SessionBlock
  PROVE  Spec => []PublishedKept
<1>1. PublishedInv => PublishedKept
  BY DEF PublishedInv
<1>2. GuardInv /\ MarkerInv /\ PublishedInv /\ [Next]_vars => PublishedInv'
  BY NextPublished
<1>3. QED
  BY <1>1, <1>2, InitPublished, GuardInvariant, MarkerInvariant, PTL DEF Spec

=============================================================================
