-------------------------- MODULE RemotePushProofs --------------------------
(***************************************************************************)
(* Theorems about RemotePush, for every finite graph of chunks, every set  *)
(* of clients, branches and pushes and every value of the bounds: the      *)
(* types, that the refs of the remote are complete, what a refs-if request *)
(* may replace, and that a resumed scan is whole.                          *)
(***************************************************************************)
EXTENDS RemotePush, FiniteSetTheorems, TLAPS

-----------------------------------------------------------------------------
(* The walks over the graph.                                               *)

(* A walk returns a closed set of chunks that holds its roots.             *)
LEMMA ClosureClosed ==
  ASSUME NEW roots \in SUBSET Chunks, NEW through, NEW next \in [Chunks -> SUBSET Chunks]
  PROVE  LET C == Closure(roots, through, next)
         IN  /\ C \in SUBSET Chunks /\ roots \subseteq C
             /\ \A x \in C \cap through : next[x] \subseteq C
<1> DEFINE C == Closure(roots, through, next)
<1>1. C \in SUBSET Chunks /\ roots \subseteq C
  BY DEF Closure
<1>2. ASSUME NEW x \in C \cap through, NEW y \in next[x] PROVE y \in C
  <2>1. x \in Chunks /\ y \in Chunks
    BY <1>1, <1>2
  <2> SUFFICES ASSUME NEW S \in SUBSET Chunks, roots \subseteq S,
                      \A z \in S \cap through : next[z] \subseteq S
               PROVE  y \in S
    BY <2>1 DEF Closure
  <2>2. x \in S
    BY <1>2 DEF Closure
  <2>3. QED
    BY <1>2, <2>2
<1>3. QED
  BY <1>1, <1>2

(* It returns the least such set.                                          *)
LEMMA ClosureLeast ==
  ASSUME NEW roots, NEW through, NEW next, NEW S \in SUBSET Chunks, roots \subseteq S,
         \A x \in S \cap through : next[x] \subseteq S
  PROVE  Closure(roots, through, next) \subseteq S
  BY DEF Closure

(* What a commit reaches: a closed set that holds it, the least one.       *)
LEMMA ReachClosed ==
  ASSUME NEW x \in Chunks
  PROVE  /\ Reach[x] \in SUBSET Chunks /\ x \in Reach[x]
         /\ \A y \in Reach[x] : Children[y] \subseteq Reach[x]
<1>1. Reach[x] = Closure({x}, Chunks, Children)
  BY DEF Reach
<1>2. {x} \in SUBSET Chunks /\ Children \in [Chunks -> SUBSET Chunks]
  BY ConstantsAssumption
<1>3. /\ Closure({x}, Chunks, Children) \in SUBSET Chunks
      /\ {x} \subseteq Closure({x}, Chunks, Children)
      /\ \A y \in Closure({x}, Chunks, Children) \cap Chunks :
            Children[y] \subseteq Closure({x}, Chunks, Children)
  BY <1>2, ClosureClosed
<1>4. QED
  BY <1>1, <1>3

(* It is the least one.                                                    *)
LEMMA ReachLeast ==
  ASSUME NEW S \in SUBSET Chunks, NEW x \in S, \A y \in S : Children[y] \subseteq S
  PROVE  Reach[x] \subseteq S
<1>1. Reach[x] = Closure({x}, Chunks, Children)
  BY DEF Reach
<1>2. QED
  BY <1>1, ClosureLeast

(* The trees of a commit are part of what it reaches.                      *)
LEMMA TreesReached ==
  ASSUME NEW x \in Commits
  PROVE  Trees[x] \subseteq Reach[x]
<1>0. x \in Chunks /\ Children[x] \subseteq Chunks /\ Children \in [Chunks -> SUBSET Chunks]
  BY ConstantsAssumption
<1>1. ASSUME NEW y \in Children[x] PROVE Reach[y] \subseteq Reach[x]
  BY <1>0, <1>1, ReachClosed, ReachLeast
<1>2. QED
  BY <1>0, <1>1, ReachClosed DEF Trees

(* Parents are children.                                                   *)
LEMMA ParentsType ==
  /\ Parents \in [Chunks -> SUBSET Chunks]
  /\ \A x \in Chunks : Parents[x] \subseteq Children[x]
  BY ConstantsAssumption DEF Parents

(* The history that a walk sees is part of the ancestors, and of what the  *)
(* commit reaches.                                                         *)
LEMMA HistoryAncestors ==
  ASSUME NEW x \in Chunks
  PROVE  History(x) \subseteq Ancestors[x] /\ History(x) \subseteq Reach[x]
<1>1. Ancestors[x] = Closure({x}, Chunks, Parents) /\ {x} \in SUBSET Chunks
  BY DEF Ancestors
<1>a. /\ Closure({x}, Chunks, Parents) \in SUBSET Chunks
      /\ {x} \subseteq Closure({x}, Chunks, Parents)
      /\ \A y \in Closure({x}, Chunks, Parents) \cap Chunks :
            Parents[y] \subseteq Closure({x}, Chunks, Parents)
  BY <1>1, ParentsType, ClosureClosed
<1>2. /\ Ancestors[x] \in SUBSET Chunks /\ {x} \subseteq Ancestors[x]
      /\ \A y \in Ancestors[x] : Parents[y] \subseteq Ancestors[x]
  BY <1>1, <1>a
<1>3. History(x) \subseteq Ancestors[x]
  BY <1>2, ClosureLeast DEF History
<1>4. \A y \in Reach[x] : Parents[y] \subseteq Reach[x]
  BY ReachClosed, ParentsType
<1>5. History(x) \subseteq Reach[x]
  BY <1>4, ReachClosed, ClosureLeast DEF History
<1>6. QED
  BY <1>3, <1>5

(* A validation that skips trusted trees looks at no more than the graph.  *)
LEMMA SkippingReached ==
  ASSUME NEW x \in Chunks, NEW T
  PROVE  Closure({x}, Chunks \ T, Children) \subseteq Reach[x]
<1>1. Reach[x] \in SUBSET Chunks /\ {x} \subseteq Reach[x]
  BY ReachClosed
<1>2. \A y \in Reach[x] \cap (Chunks \ T) : Children[y] \subseteq Reach[x]
  BY ReachClosed
<1>3. QED
  BY <1>1, <1>2, ClosureLeast

(* What it skips is complete: when everything else is held, so is the      *)
(* whole graph.                                                            *)
LEMMA SkippingComplete ==
  ASSUME NEW x \in Chunks, NEW T, NEW H \in SUBSET Chunks, NEW Done \in SUBSET H,
         T \subseteq Done, \A y \in Done : Children[y] \subseteq Done,
         Closure({x}, Chunks \ T, Children) \ T \subseteq H
  PROVE  Reach[x] \subseteq H
<1> DEFINE C == Closure({x}, Chunks \ T, Children)
<1>1. /\ C \in SUBSET Chunks /\ x \in C
      /\ \A y \in C \cap (Chunks \ T) : Children[y] \subseteq C
  <2>1. {x} \in SUBSET Chunks /\ Children \in [Chunks -> SUBSET Chunks]
    BY ConstantsAssumption
  <2>2. QED
    BY <2>1, ClosureClosed
<1> DEFINE S == C \cup Done
<1>2. S \in SUBSET Chunks /\ x \in S /\ S \subseteq H
  BY <1>1
<1>3. \A y \in S : Children[y] \subseteq S
  BY <1>1
<1> HIDE DEF S
<1>4. QED
  BY <1>2, <1>3, ReachLeast

-----------------------------------------------------------------------------
(* Sets and sequences.                                                     *)

(* SetToSeq enumerates a set of chunks.                                    *)
LEMMA SetToSeqEnumerates ==
  ASSUME NEW S \in SUBSET Chunks
  PROVE  SetToSeq(S) \in Seq(Chunks) /\ S \subseteq ToSet(SetToSeq(S))
<1>1. IsFiniteSet(S) /\ Cardinality(S) \in Nat /\ ExistsBijection(1..Cardinality(S), S)
  BY ConstantsAssumption, FS_Subset, FS_CardinalityType
<1> DEFINE n == Cardinality(S)
<1>2. \E f \in [1..n -> S] : IsInjective(f)
  BY <1>1 DEF ExistsBijection, Bijection, Injection, IsInjective
<1>3. SetToSeq(S) \in [1..n -> S] /\ IsInjective(SetToSeq(S))
  BY <1>2 DEF SetToSeq
<1>4. SetToSeq(S) \in Injection(1..n, S)
  BY <1>3 DEF Injection
<1>5. Cardinality(1..n) = n
  BY <1>1, FS_Interval
<1>6. SetToSeq(S) \in Surjection(1..n, S)
  BY <1>1, <1>4, <1>5, FS_Injection
<1>7. S \subseteq ToSet(SetToSeq(S))
  BY <1>6, <1>3 DEF Surjection, ToSet
<1> HIDE DEF n
<1>8. SetToSeq(S) \in Seq(Chunks)
  BY <1>1, <1>3 DEF n
<1>9. QED
  BY <1>7, <1>8

(* A concatenation has the elements of both parts.                         *)
LEMMA ConcatElements ==
  ASSUME NEW s \in Seq(Chunks), NEW t \in Seq(Chunks)
  PROVE  s \o t \in Seq(Chunks) /\ ToSet(s) \cup ToSet(t) \subseteq ToSet(s \o t)
<1>1. s \o t \in Seq(Chunks) /\ Len(s \o t) = Len(s) + Len(t)
  OBVIOUS
<1>2. \A i \in 1..Len(s) : (s \o t)[i] = s[i] /\ i \in 1..Len(s \o t)
  BY <1>1
<1>3. \A i \in 1..Len(t) : (s \o t)[Len(s) + i] = t[i] /\ Len(s) + i \in 1..Len(s \o t)
  BY <1>1
<1> DEFINE u == s \o t
<1>4. DOMAIN s = 1..Len(s) /\ DOMAIN t = 1..Len(t) /\ DOMAIN u = 1..Len(u)
  BY <1>1
<1> HIDE DEF u
<1>5. \A i \in DOMAIN s : s[i] \in ToSet(u)
  <2> SUFFICES ASSUME NEW i \in DOMAIN s PROVE s[i] \in ToSet(u)
    OBVIOUS
  <2>1. i \in DOMAIN u /\ u[i] = s[i]
    BY <1>2, <1>4 DEF u
  <2>2. QED
    BY <2>1 DEF ToSet
<1>6. \A i \in DOMAIN t : t[i] \in ToSet(u)
  <2> SUFFICES ASSUME NEW i \in DOMAIN t PROVE t[i] \in ToSet(u)
    OBVIOUS
  <2>1. Len(s) + i \in DOMAIN u /\ u[Len(s) + i] = t[i]
    BY <1>3, <1>4 DEF u
  <2>2. QED
    BY <2>1 DEF ToSet
<1>7. ToSet(s) \cup ToSet(t) \subseteq ToSet(u)
  BY <1>5, <1>6, Zenon DEF ToSet
<1>8. QED
  BY <1>1, <1>7 DEF u

(* What is left of a buffer after a batch, and what the batch stored.      *)
LEMMA BatchElements ==
  ASSUME NEW s \in Seq(Chunks), NEW n \in 1..Len(s)
  PROVE  LET first == SubSeq(s, 1, n)
             rest == SubSeq(s, n + 1, Len(s))
         IN  /\ first \in Seq(Chunks) /\ rest \in Seq(Chunks)
             /\ ToSet(first) \subseteq Chunks
             /\ ToSet(s) \subseteq ToSet(first) \cup ToSet(rest)
<1> DEFINE first == SubSeq(s, 1, n)
           rest == SubSeq(s, n + 1, Len(s))
<1>1. first \in Seq(Chunks) /\ Len(first) = n /\ \A i \in 1..n : first[i] = s[i]
  OBVIOUS
<1>2. /\ rest \in Seq(Chunks) /\ Len(rest) = Len(s) - n
      /\ \A i \in 1..(Len(s) - n) : rest[i] = s[n + i]
  OBVIOUS
<1>3. ToSet(first) \subseteq Chunks
  BY <1>1 DEF ToSet
<1>4. ASSUME NEW i \in 1..Len(s) PROVE s[i] \in ToSet(first) \cup ToSet(rest)
  <2> HIDE DEF first, rest
  <2>1. CASE i <= n
    BY <1>1, <2>1 DEF ToSet
  <2>2. CASE i > n
    <3>1. i - n \in 1..(Len(s) - n) /\ n + (i - n) = i
      BY <2>2
    <3>2. rest[i - n] = s[i] /\ i - n \in DOMAIN rest
      BY <1>2, <3>1
    <3>3. QED
      BY <3>2 DEF ToSet
  <2>3. QED
    BY <2>1, <2>2
<1>5. ToSet(s) \subseteq ToSet(first) \cup ToSet(rest)
  <2> HIDE DEF first, rest
  <2>1. DOMAIN s = 1..Len(s)
    OBVIOUS
  <2>2. ASSUME NEW x \in ToSet(s) PROVE x \in ToSet(first) \cup ToSet(rest)
    <3>1. PICK i \in 1..Len(s) : x = s[i]
      BY <2>1, <2>2 DEF ToSet
    <3>2. QED
      BY <1>4, <3>1
  <2>3. QED
    BY <2>2
<1>6. QED
  BY <1>1, <1>2, <1>3, <1>5

-----------------------------------------------------------------------------
(* The answers of PUT /refs-if.                                            *)

(* What an answer of the locked part comes from.                           *)
LEMMA LockedAnswers ==
  ASSUME NEW r
  PROVE  LET V == Validate(r, refs, Target(r))
             unread == /\ Target(r) # refs /\ ~ r.delete
                       /\ GraphMissing(r.branch, Target(r)[r.branch])
         IN  \A a \in ApplyRefsLocked(r) :
               \/ a = "ok" /\ "ok" \in V /\ ~ unread
               \/ a = "missing" /\ "ok" \in V /\ unread
               \/ a # "ok" /\ a \in V
  BY DEF ApplyRefsLocked

(* What an answer of the whole handler comes from.                         *)
LEMMA HandlerAnswers ==
  ASSUME NEW r
  PROVE  \A a \in ApplyRefsIf(r) :
           \/ refs = r.exp /\ a \in ApplyRefsLocked(r)
           \/ refs # r.exp /\ a = "conflict"
           \/ refs # r.exp /\ a # "ok" /\ a \in Validate(r, r.exp, Incoming(r))
           \/ /\ refs # r.exp /\ ~ BranchMoved(r) /\ "ok" \in Validate(r, r.exp, Incoming(r))
              /\ a \in ApplyRefsLocked(r)
  BY DEF ApplyRefsIf

(* What a validation can say.                                              *)
LEMMA ValidAnswers ==
  ASSUME NEW r, NEW basis, NEW next
  PROVE  /\ Validate(r, basis, next) \subseteq {"ok", "missing", "refused"}
         /\ "ok" \in Validate(r, basis, next) =>
              /\ \A b \in Branches \ {r.branch} : next[b] = basis[b]
              /\ \/ r.force \/ basis[r.branch] = None
                 \/ next[r.branch] \in {None, basis[r.branch]}
                 \/ basis[r.branch] \in History(next[r.branch])
         /\ "missing" \in Validate(r, basis, next) =>
              next[r.branch] # None /\ ~ (History(next[r.branch]) \subseteq chunks)
  BY DEF Validate, IsAncestor

(* The handler answers with one of four words.                             *)
LEMMA AnswerWords ==
  ASSUME NEW r
  PROVE  ApplyRefsIf(r) \subseteq {"ok", "missing", "refused", "conflict"}
  BY LockedAnswers, HandlerAnswers, ValidAnswers

(* The refs with one branch replaced.                                      *)
LEMMA RefsUpdate ==
  ASSUME NEW f \in Refs, NEW b \in Branches, NEW x \in Commits \cup {None}
  PROVE  /\ [f EXCEPT ![b] = x] \in Refs
         /\ [f EXCEPT ![b] = x][b] = x
         /\ \A a \in Branches \ {b} : [f EXCEPT ![b] = x][a] = f[a]
  BY DEF Refs

(* A request that is accepted replaces its own branch's tip, which has not *)
(* moved, and the graph of the new tip was found.                          *)
LEMMA AcceptedTarget ==
  ASSUME TypeOK, NEW r \in Requests, "ok" \in ApplyRefsIf(r)
  PROVE  /\ Target(r) = [refs EXCEPT ![r.branch] = r.new]
         /\ refs[r.branch] = r.exp[r.branch]
         /\ Target(r) \in Refs /\ Target(r)[r.branch] = r.new
         /\ \/ r.force \/ refs[r.branch] = None \/ r.new \in {None, refs[r.branch]}
            \/ refs[r.branch] \in History(r.new)
         /\ Target(r) # refs /\ ~ r.delete => ~ GraphMissing(r.branch, r.new)
<1> DEFINE b == r.branch
<1>0. /\ b \in Branches /\ r.new \in Commits \cup {None} /\ r.exp \in Refs /\ refs \in Refs
      /\ r.delete \in BOOLEAN
  BY DEF TypeOK, Requests
<1>1. "ok" \in ApplyRefsLocked(r) /\ (refs = r.exp \/ refs[b] = r.exp[b])
  BY HandlerAnswers DEF BranchMoved
<1>2. "ok" \in Validate(r, refs, Target(r))
  BY <1>1, LockedAnswers
<1>3. refs[b] = r.exp[b]
  BY <1>1
<1>4. /\ Incoming(r) \in Refs /\ Incoming(r)[b] = r.new
      /\ \A a \in Branches \ {b} : Incoming(r)[a] = r.exp[a]
  BY <1>0, RefsUpdate DEF Incoming
<1>5. Target(r) \in Refs /\ Target(r)[b] = r.new
  BY <1>0, <1>3, <1>4 DEF Target, MergeRefs, Refs
<1>6. \A a \in Branches \ {b} : Target(r)[a] = refs[a]
  BY <1>2, ValidAnswers
<1>7. Target(r) = [refs EXCEPT ![b] = r.new]
  BY <1>0, <1>5, <1>6 DEF Refs
<1>8. \/ r.force \/ refs[b] = None \/ r.new \in {None, refs[b]} \/ refs[b] \in History(r.new)
  BY <1>2, <1>5, ValidAnswers
<1>9. Target(r) # refs /\ ~ r.delete => ~ GraphMissing(b, r.new)
  BY <1>0, <1>1, <1>5, LockedAnswers
<1>10. QED
  BY <1>3, <1>5, <1>7, <1>8, <1>9

(* When everything below the new tip is held, no chunk is found missing.   *)
LEMMA HeldNotMissing ==
  ASSUME TypeOK, NEW r \in Requests, r.new \in Chunks, Reach[r.new] \subseteq chunks
  PROVE  "missing" \notin ApplyRefsIf(r)
<1> DEFINE b == r.branch
<1>0. /\ b \in Branches /\ r.new \in Commits \cup {None} /\ r.exp \in Refs /\ refs \in Refs
  BY DEF TypeOK, Requests
<1>1. History(r.new) \subseteq chunks
  BY HistoryAncestors
<1>2. ~ GraphMissing(b, r.new)
  BY SkippingReached DEF GraphMissing
<1>3. /\ Incoming(r) \in Refs /\ Incoming(r)[b] = r.new
  BY <1>0, RefsUpdate DEF Incoming
<1>4. refs = r.exp \/ ~ BranchMoved(r) => Target(r)[b] = r.new
  BY <1>0, <1>3 DEF Target, MergeRefs, Refs, BranchMoved
<1>5. "missing" \notin Validate(r, r.exp, Incoming(r))
  BY <1>1, <1>3, ValidAnswers
<1>6. refs = r.exp \/ ~ BranchMoved(r) => "missing" \notin ApplyRefsLocked(r)
  BY <1>1, <1>2, <1>4, LockedAnswers, ValidAnswers
<1>7. QED
  BY <1>5, <1>6, HandlerAnswers

-----------------------------------------------------------------------------
(* PushInv: types, and what a request states.                              *)

(* A client between pushes is well typed.                                  *)
LEMMA IdleType == Idle \in ClientState
<1>1. 0 \in 0..(MaxAttempts - 1) /\ <<>> \in Seq(Chunks)
  BY ConstantsAssumption
<1>2. QED
  BY <1>1, ConstantsAssumption DEF Idle, ClientState

(* A step of the client c, with its effect on the server.                  *)
LEMMA ClientStep ==
  ASSUME PushInv, NEW c \in Clients, NEW k \in ClientState,
         client' = [client EXCEPT ![c] = k],
         k.pc \in {"first", "scan", "put"} => k.exp[k.branch] = k.orig,
         chunks' \subseteq Chunks, blobs' \subseteq Refs, refs' \in blobs',
         late' \subseteq Requests, \A r \in late' : Stated(r),
         pushes' \in 0..MaxPushes, gcs' = gcs
  PROVE  PushInv'
<1>1. /\ client' \in [Clients -> ClientState] /\ client'[c] = k
      /\ \A d \in Clients : d # c => client'[d] = client[d]
  BY DEF PushInv, TypeOK
<1>2. TypeOK'
  BY <1>1 DEF PushInv, TypeOK
<1>3. (\A r \in late : Stated(r))'
  BY DEF Stated
<1>4. QED
  BY <1>1, <1>2, <1>3 DEF PushInv

(* A step of the client alone.                                             *)
LEMMA ClientOnly ==
  ASSUME PushInv, NEW c \in Clients, NEW k \in ClientState,
         client' = [client EXCEPT ![c] = k],
         k.pc \in {"first", "scan", "put"} => k.exp[k.branch] = k.orig,
         pushes' \in 0..MaxPushes, UNCHANGED <<chunks, blobs, refs, late, gcs>>
  PROVE  PushInv'
  BY ClientStep DEF PushInv, TypeOK

(* What a client sends is a request that states what it saw.               *)
LEMMA RequestStated ==
  ASSUME PushInv, NEW c \in Clients, Sends(client[c])
  PROVE  Request(client[c]) \in Requests /\ Stated(Request(client[c]))
<1>1. client[c] \in ClientState /\ client[c].exp[client[c].branch] = client[c].orig
  BY DEF PushInv, TypeOK, Sends
<1>2. QED
  BY <1>1 DEF Request, Requests, Stated, ClientState

(* The refs that a handled request leaves are well typed.                  *)
LEMMA InstallTypes ==
  ASSUME TypeOK, NEW r \in Requests, NEW answer \in ApplyRefsIf(r), Install(r, answer)
  PROVE  chunks' = chunks /\ blobs' \subseteq Refs /\ refs' \in blobs' /\ refs' \in Refs
<1>1. refs' \in Refs
  BY AcceptedTarget DEF Install, TypeOK
<1>2. QED
  BY <1>1 DEF Install, TypeOK

(* The start of a push, its end, and its failures.                         *)
LEMMA StartPush ==
  ASSUME PushInv, NEW c \in Clients, Start(c) \/ Commit(c) \/ Fail(c)
  PROVE  PushInv'
<1>1. CASE Start(c)
  <2>1. PICK p \in Pushes :
          client' = [client EXCEPT ![c] = [Idle EXCEPT !.pc = "refs", !.branch = p.branch,
                                              !.commit = p.commit, !.force = p.force]]
    BY <1>1 DEF Start
  <2> DEFINE k == [Idle EXCEPT !.pc = "refs", !.branch = p.branch,
                               !.commit = p.commit, !.force = p.force]
  <2>2. /\ p.branch \in Branches /\ p.commit \in Commits \cup {None}
        /\ p.force \in BOOLEAN
    BY ConstantsAssumption
  <2>3. k \in ClientState /\ k.pc = "refs"
    BY <2>2, IdleType DEF ClientState
  <2>4. pushes' \in 0..MaxPushes
    <3>1. pushes \in 0..MaxPushes /\ pushes < MaxPushes /\ pushes' = pushes + 1
      BY <1>1 DEF Start, PushInv, TypeOK
    <3>2. QED
      BY <3>1, ConstantsAssumption
  <2> HIDE DEF k
  <2>5. client' = [client EXCEPT ![c] = k]
    BY <2>1 DEF k
  <2>6. QED
    BY <1>1, <2>3, <2>4, <2>5, ClientOnly DEF Start, Server
<1>2. CASE Commit(c) \/ Fail(c)
  <2>1. client' = [client EXCEPT ![c] = Idle] /\ Idle.pc = "idle"
    BY <1>2 DEF Commit, Fail, Return, Idle
  <2>2. QED
    BY <1>2, <2>1, IdleType, ClientOnly DEF Commit, Fail, Server, PushInv, TypeOK
<1>3. QED
  BY <1>1, <1>2

(* GET /refs: the tip that is seen is that of the refs that are read.      *)
LEMMA GetRefsPush ==
  ASSUME PushInv, NEW c \in Clients, GetRefs(c)
  PROVE  PushInv'
<1> DEFINE k == client[c]
           tip == refs[k.branch]
           read == [k EXCEPT !.orig = tip, !.exp = refs]
           n == IF Hopeless(k) THEN Idle
                ELSE IF k.commit \in {None, tip} THEN [read EXCEPT !.pc = "put"]
                ELSE [read EXCEPT !.pc = "first", !.front = {k.commit}, !.seen = {k.commit}]
<1>0. k \in ClientState /\ refs \in Refs /\ tip \in Commits \cup {None}
  BY DEF PushInv, TypeOK, ClientState, Refs
<1>1. client' = [client EXCEPT ![c] = n]
  BY DEF GetRefs
<1>2. read \in ClientState /\ read.branch = k.branch /\ read.orig = tip /\ read.exp = refs
  BY <1>0 DEF ClientState
<1>3. k.commit \notin {None, tip} => {k.commit} \subseteq Chunks
  BY <1>0, ConstantsAssumption DEF ClientState
<1> HIDE DEF read
<1>4. n \in ClientState
  <2>1. [read EXCEPT !.pc = "put"] \in ClientState
    BY <1>2 DEF ClientState
  <2>2. k.commit \notin {None, tip} =>
          [read EXCEPT !.pc = "first", !.front = {k.commit}, !.seen = {k.commit}] \in ClientState
    BY <1>2, <1>3 DEF ClientState
  <2>3. QED
    BY <2>1, <2>2, IdleType
<1>5. n.pc \in {"first", "scan", "put"} => n.exp[n.branch] = n.orig
  <2>1. CASE Hopeless(k)
    BY <2>1 DEF Idle
  <2>2. CASE ~ Hopeless(k)
    BY <1>2, <2>2 DEF ClientState
  <2>3. QED
    BY <2>1, <2>2
<1> HIDE DEF n
<1>6. QED
  BY <1>1, <1>4, <1>5, ClientOnly DEF GetRefs, Server, PushInv, TypeOK

(* The record of a client after a batch of its scan.                       *)
LEMMA ScanRecord ==
  ASSUME PushInv, NEW c \in Clients, HasChunks(c)
  PROVE  LET k == client[c]
             next == (UNION {Children[x] : x \in Fetched(k)}) \ k.seen
             n == client'[c]
         IN  /\ n \in ClientState /\ client' = [client EXCEPT ![c] = n]
             /\ next \subseteq Chunks
             /\ n.pc = IF next = {} THEN "put" ELSE "scan"
             /\ n.front = next /\ n.seen = k.seen \cup next
             /\ n.buf = k.buf \o SetToSeq(k.front \ chunks)
             /\ n.resume = ResumeScan(k)
             /\ n.whole = IF k.pc = "first" THEN ResumeScan(k) ELSE k.whole
             /\ n.branch = k.branch /\ n.commit = k.commit /\ n.exp = k.exp /\ n.orig = k.orig
<1> DEFINE k == client[c]
           next == (UNION {Children[x] : x \in Fetched(k)}) \ k.seen
           p == IF next = {} THEN "put" ELSE "scan"
           buf == k.buf \o SetToSeq(k.front \ chunks)
           res == ResumeScan(k)
           who == IF k.pc = "first" THEN ResumeScan(k) ELSE k.whole
           n == [k EXCEPT !.pc = p, !.front = next, !.seen = k.seen \cup next, !.buf = buf,
                          !.resume = res, !.again = FALSE, !.whole = who]
<1>0. k \in ClientState /\ k.front \subseteq Chunks /\ k.buf \in Seq(Chunks)
  BY DEF PushInv, TypeOK, ClientState
<1>1. next \subseteq Chunks /\ k.seen \cup next \subseteq Chunks
  BY <1>0, ConstantsAssumption DEF Fetched, ClientState
<1>2. buf \in Seq(Chunks)
  BY <1>0, SetToSeqEnumerates, ConcatElements
<1>3. res \in BOOLEAN /\ who \in BOOLEAN /\ p \in {"put", "scan"}
  BY <1>0 DEF ResumeScan, ClientState
<1>4. client' = [client EXCEPT ![c] = n]
  <2>1. n = [k EXCEPT
              !.pc = IF next = {} THEN "put" ELSE "scan",
              !.front = next, !.seen = @ \cup next,
              !.buf = @ \o SetToSeq(k.front \ chunks),
              !.resume = ResumeScan(k), !.again = FALSE,
              !.whole = IF k.pc = "first" THEN ResumeScan(k) ELSE @]
    BY <1>0 DEF ClientState
  <2>2. QED
    BY <2>1 DEF HasChunks
<1> HIDE DEF next, p, buf, res, who
<1>5. n \in ClientState
  BY <1>0, <1>1, <1>2, <1>3 DEF ClientState
<1>6. /\ n.pc = p /\ n.front = next /\ n.seen = k.seen \cup next /\ n.buf = buf
      /\ n.resume = res /\ n.whole = who
      /\ n.branch = k.branch /\ n.commit = k.commit /\ n.exp = k.exp /\ n.orig = k.orig
  BY <1>0 DEF ClientState
<1> HIDE DEF n
<1>7. client'[c] = n
  BY <1>4 DEF PushInv, TypeOK
<1>8. QED
  BY <1>1, <1>4, <1>5, <1>6, <1>7 DEF next, p, buf, res, who

(* A batch of the scan.                                                    *)
LEMMA HasChunksPush ==
  ASSUME PushInv, NEW c \in Clients, HasChunks(c)
  PROVE  PushInv'
<1> DEFINE n == client'[c]
<1>1. /\ n \in ClientState /\ client' = [client EXCEPT ![c] = n]
      /\ n.branch = client[c].branch /\ n.exp = client[c].exp /\ n.orig = client[c].orig
  BY ScanRecord
<1>2. client[c].exp[client[c].branch] = client[c].orig
  BY DEF HasChunks, PushInv
<1> HIDE DEF n
<1>3. QED
  BY <1>1, <1>2, ClientOnly DEF HasChunks, Server, PushInv, TypeOK

(* The record of a client and the store after POST /chunks.                *)
LEMMA FlushRecord ==
  ASSUME PushInv, NEW c \in Clients, FlushUploadBatch(c)
  PROVE  LET k == client[c]
             n == client'[c]
         IN  /\ n \in ClientState /\ client' = [client EXCEPT ![c] = n]
             /\ chunks \subseteq chunks' /\ chunks' \subseteq Chunks
             /\ ToSet(k.buf) \subseteq chunks' \cup ToSet(n.buf)
             /\ n.pc = k.pc /\ n.front = k.front /\ n.seen = k.seen /\ n.resume = k.resume
             /\ n.whole = k.whole /\ n.branch = k.branch /\ n.commit = k.commit
             /\ n.exp = k.exp /\ n.orig = k.orig
<1> DEFINE k == client[c]
<1>0. k \in ClientState /\ k.buf \in Seq(Chunks) /\ client \in [Clients -> ClientState]
      /\ chunks \subseteq Chunks
  BY DEF PushInv, TypeOK, ClientState
<1>1. PICK i \in 1..Len(k.buf) :
        /\ chunks' = chunks \cup ToSet(SubSeq(k.buf, 1, i))
        /\ client' = [client EXCEPT ![c].buf = SubSeq(@, i + 1, Len(@))]
  BY DEF FlushUploadBatch
<1> DEFINE first == SubSeq(k.buf, 1, i)
           rest == SubSeq(k.buf, i + 1, Len(k.buf))
           n == [k EXCEPT !.buf = rest]
<1>2. /\ rest \in Seq(Chunks) /\ ToSet(first) \subseteq Chunks
      /\ ToSet(k.buf) \subseteq ToSet(first) \cup ToSet(rest)
  BY <1>0, BatchElements
<1>3. client' = [client EXCEPT ![c] = n]
  BY <1>0, <1>1
<1>4. chunks' = chunks \cup ToSet(first)
  BY <1>1
<1> HIDE DEF first, rest
<1>5. /\ n \in ClientState /\ n.buf = rest
      /\ n.pc = k.pc /\ n.front = k.front /\ n.seen = k.seen /\ n.resume = k.resume
      /\ n.whole = k.whole /\ n.branch = k.branch /\ n.commit = k.commit
      /\ n.exp = k.exp /\ n.orig = k.orig
  BY <1>0, <1>2 DEF ClientState
<1> HIDE DEF n
<1>6. client'[c] = n
  BY <1>0, <1>3
<1>7. QED
  BY <1>0, <1>2, <1>3, <1>4, <1>5, <1>6

(* POST /chunks.                                                           *)
LEMMA FlushPush ==
  ASSUME PushInv, NEW c \in Clients, FlushUploadBatch(c)
  PROVE  PushInv'
<1> DEFINE n == client'[c]
<1>1. /\ n \in ClientState /\ client' = [client EXCEPT ![c] = n] /\ chunks' \subseteq Chunks
      /\ n.pc = client[c].pc /\ n.branch = client[c].branch
      /\ n.exp = client[c].exp /\ n.orig = client[c].orig
  BY FlushRecord
<1>2. client[c].pc \in {"first", "scan", "put"} => client[c].exp[client[c].branch] = client[c].orig
  BY DEF PushInv
<1> HIDE DEF n
<1>3. QED
  BY <1>1, <1>2, ClientStep DEF FlushUploadBatch, PushInv, TypeOK

(* The next attempt of a push.                                             *)
LEMMA RetryType ==
  ASSUME NEW k \in ClientState, NEW answer
  PROVE  /\ Retry(k, answer) \in ClientState
         /\ Retry(k, answer).pc \in {"refs", "idle"} /\ Retry(k, answer).whole = FALSE
<1>1. CASE k.attempt + 1 < MaxAttempts
  <2>1. k.attempt + 1 \in 0..(MaxAttempts - 1)
    BY <1>1, ConstantsAssumption DEF ClientState
  <2>2. PICK a \in 0..(MaxAttempts - 1) : a = k.attempt + 1
    BY <2>1
  <2>3. PICK again \in BOOLEAN : again = (k.again \/ answer = "missing")
    OBVIOUS
  <2> DEFINE n == [Idle EXCEPT !.pc = "refs", !.branch = k.branch, !.commit = k.commit,
                     !.force = k.force, !.attempt = a, !.orig = k.orig, !.again = again]
  <2>4. Retry(k, answer) = n
    BY <1>1, <2>2, <2>3 DEF Retry
  <2>5. n \in ClientState /\ n.pc = "refs" /\ n.whole = Idle.whole
    BY IdleType DEF ClientState
  <2>6. Idle.whole = FALSE
    BY DEF Idle
  <2>7. QED
    BY <2>4, <2>5, <2>6
<1>2. CASE ~ (k.attempt + 1 < MaxAttempts)
  BY <1>2, IdleType DEF Retry, Idle
<1>3. QED
  BY <1>1, <1>2

(* The record of a client after the answer to its refs-if request.         *)
LEMMA AnsweredRecord ==
  ASSUME PushInv, NEW c \in Clients, PutRefsIf(c)
  PROVE  /\ client' = [client EXCEPT ![c] = client'[c]]
         /\ client'[c] \in ClientState /\ client'[c].pc \in {"commit", "refs", "idle"}
         /\ client'[c].whole => client'[c].pc = "commit"
         /\ \E answer \in ApplyRefsIf(Request(client[c])) : Install(Request(client[c]), answer)
<1> DEFINE k == client[c]
<1>0. k \in ClientState /\ client \in [Clients -> ClientState]
  BY DEF PushInv, TypeOK
<1>1. PICK answer \in ApplyRefsIf(Request(k)) :
        /\ Install(Request(k), answer)
        /\ client' = [client EXCEPT ![c] =
             CASE answer = "ok" -> [k EXCEPT !.pc = "commit"]
               [] answer \in {"conflict", "missing"} -> Retry(k, answer)
               [] answer = "refused" -> Idle]
  BY DEF PutRefsIf
<1>2. answer \in {"ok", "missing", "refused", "conflict"}
  BY AnswerWords
<1>3. PICK n \in ClientState : /\ client' = [client EXCEPT ![c] = n]
                               /\ n.pc \in {"commit", "refs", "idle"}
                               /\ n.whole => n.pc = "commit"
  <2>1. CASE answer = "ok"
    <3>1. [k EXCEPT !.pc = "commit"] \in ClientState /\ [k EXCEPT !.pc = "commit"].pc = "commit"
      BY <1>0 DEF ClientState
    <3>2. client' = [client EXCEPT ![c] = [k EXCEPT !.pc = "commit"]]
      BY <1>1, <2>1
    <3>3. QED
      BY <3>1, <3>2
  <2>2. CASE answer \in {"conflict", "missing"}
    <3>1. client' = [client EXCEPT ![c] = Retry(k, answer)]
      BY <1>1, <2>2
    <3>2. QED
      BY <1>0, <3>1, RetryType
  <2>3. CASE answer = "refused"
    <3>1. client' = [client EXCEPT ![c] = Idle]
      BY <1>1, <2>3
    <3>2. Idle.pc = "idle" /\ Idle.whole = FALSE
      BY DEF Idle
    <3>3. QED
      BY <3>1, <3>2, IdleType
  <2>4. QED
    BY <1>2, <2>1, <2>2, <2>3
<1>4. client'[c] = n
  BY <1>0, <1>3
<1>5. QED
  BY <1>1, <1>3, <1>4

(* PUT /refs-if.                                                           *)
LEMMA PutRefsIfPush ==
  ASSUME PushInv, NEW c \in Clients, PutRefsIf(c)
  PROVE  PushInv'
<1> DEFINE n == client'[c]
<1>0. Sends(client[c]) /\ UNCHANGED <<late, pushes, gcs>>
  BY DEF PutRefsIf
<1>1. /\ n \in ClientState /\ client' = [client EXCEPT ![c] = n]
      /\ n.pc \in {"commit", "refs", "idle"}
      /\ \E answer \in ApplyRefsIf(Request(client[c])) : Install(Request(client[c]), answer)
  BY AnsweredRecord
<1>2. chunks' = chunks /\ blobs' \subseteq Refs /\ refs' \in blobs'
  BY <1>0, <1>1, RequestStated, InstallTypes DEF PushInv
<1> HIDE DEF n
<1>3. QED
  BY <1>0, <1>1, <1>2, ClientStep DEF PushInv, TypeOK

(* A request whose client no longer waits, and its handling.               *)
LEMMA LatePush ==
  ASSUME PushInv, (\E c \in Clients : Abandon(c)) \/ (\E r \in late : HandleLate(r))
  PROVE  PushInv'
<1>1. ASSUME NEW c \in Clients, Abandon(c) PROVE PushInv'
  <2>1. client' = [client EXCEPT ![c] = Idle] /\ Idle.pc = "idle"
    BY <1>1 DEF Abandon, Return, Idle
  <2>2. Request(client[c]) \in Requests /\ Stated(Request(client[c]))
    BY <1>1, RequestStated DEF Abandon
  <2>3. QED
    BY <1>1, <2>1, <2>2, IdleType, ClientStep DEF Abandon, PushInv, TypeOK
<1>2. ASSUME NEW r \in late, HandleLate(r) PROVE PushInv'
  <2>1. r \in Requests /\ TypeOK
    BY DEF PushInv, TypeOK
  <2>2. chunks' = chunks /\ blobs' \subseteq Refs /\ refs' \in blobs'
    BY <1>2, <2>1, InstallTypes DEF HandleLate
  <2>3. TypeOK'
    BY <1>2, <2>1, <2>2 DEF HandleLate, TypeOK
  <2>4. QED
    BY <1>2, <2>3 DEF HandleLate, PushInv, Stated
<1>3. QED
  BY <1>1, <1>2

(* A garbage collection.                                                   *)
LEMMA GcPush ==
  ASSUME PushInv, Gc
  PROVE  /\ PushInv'
         /\ \A c \in Clients : /\ client'[c].whole = FALSE /\ client'[c].pc = client[c].pc
                               /\ client'[c].front = client[c].front
                               /\ client'[c].seen = client[c].seen
                               /\ client'[c].commit = client[c].commit
<1>0. client \in [Clients -> ClientState] /\ TypeOK
  BY DEF PushInv, TypeOK
<1>1. \A c \in Clients : /\ [client[c] EXCEPT !.whole = FALSE] \in ClientState
                         /\ [client[c] EXCEPT !.whole = FALSE].pc = client[c].pc
                         /\ [client[c] EXCEPT !.whole = FALSE].front = client[c].front
                         /\ [client[c] EXCEPT !.whole = FALSE].seen = client[c].seen
                         /\ [client[c] EXCEPT !.whole = FALSE].commit = client[c].commit
                         /\ [client[c] EXCEPT !.whole = FALSE].exp = client[c].exp
                         /\ [client[c] EXCEPT !.whole = FALSE].orig = client[c].orig
                         /\ [client[c] EXCEPT !.whole = FALSE].branch = client[c].branch
                         /\ [client[c] EXCEPT !.whole = FALSE].whole = FALSE
  BY <1>0 DEF ClientState
<1>2. /\ client' \in [Clients -> ClientState]
      /\ \A c \in Clients : client'[c] = [client[c] EXCEPT !.whole = FALSE]
  BY <1>1 DEF Gc
<1>a. \A c \in Clients :
        /\ client'[c].pc = client[c].pc /\ client'[c].exp = client[c].exp
        /\ client'[c].orig = client[c].orig /\ client'[c].branch = client[c].branch
  BY <1>1, <1>2
<1>3. gcs' \in 0..MaxGc
  <2>1. gcs \in 0..MaxGc /\ gcs < MaxGc /\ gcs' = gcs + 1
    BY <1>0 DEF TypeOK, Gc
  <2>2. QED
    BY <2>1, ConstantsAssumption
<1>4. TypeOK'
  BY <1>0, <1>2, <1>3 DEF Gc, TypeOK
<1>5. (\A c \in Clients : client[c].pc \in {"first", "scan", "put"}
                           => client[c].exp[client[c].branch] = client[c].orig)'
  BY <1>a DEF PushInv
<1>6. QED
  BY <1>1, <1>2, <1>4, <1>5 DEF PushInv, Gc, Stated

(* PushInv holds initially.                                                *)
LEMMA InitPush == Init => PushInv
<1> SUFFICES ASSUME Init PROVE PushInv
  OBVIOUS
<1>1. chunks \subseteq Chunks
  <2>1. \A x \in Tips(InitRefs) : x \in Chunks
    BY ConstantsAssumption DEF Tips, Refs
  <2>2. QED
    BY <2>1, ReachClosed DEF Init
<1>2. client \in [Clients -> ClientState] /\ \A c \in Clients : client[c] = Idle
  BY IdleType DEF Init
<1>3. pushes \in 0..MaxPushes /\ gcs \in 0..MaxGc
  BY ConstantsAssumption DEF Init
<1>4. TypeOK
  BY <1>1, <1>2, <1>3, ConstantsAssumption DEF Init, TypeOK
<1>5. QED
  BY <1>2, <1>4 DEF Init, PushInv, Idle

(* Every step preserves PushInv.                                           *)
LEMMA NextPush == PushInv /\ [Next]_vars => PushInv'
<1> SUFFICES ASSUME PushInv, [Next]_vars PROVE PushInv'
  OBVIOUS
<1>1. CASE UNCHANGED vars
  BY <1>1 DEF vars, PushInv, TypeOK, Stated
<1>2. CASE Next
  BY <1>2, StartPush, GetRefsPush, HasChunksPush, FlushPush, PutRefsIfPush, LatePush, GcPush
     DEF Next
<1>3. QED
  BY <1>1, <1>2

(* PushInv is an invariant of the specification.                           *)
THEOREM PushInvariant == Spec => []PushInv
<1>1. QED
  BY InitPush, NextPush, PTL DEF Spec

(* doltlitePushAs and remoteSrvApplyRefsIf: the types; the refs of the     *)
(* remote are always a blob of its store, and no push exceeds its budget   *)
(* of attempts.                                                            *)
THEOREM TypeCorrect == Spec => []TypeOK
<1>1. PushInv => TypeOK
  BY DEF PushInv
<1>2. QED
  BY <1>1, PushInvariant, PTL

-----------------------------------------------------------------------------
(* The refs of the remote are complete.                                    *)

(* Tips are chunks.                                                        *)
LEMMA TipsChunks == \A f \in Refs : Tips(f) \subseteq Commits /\ Tips(f) \subseteq Chunks
  BY ConstantsAssumption DEF Refs, Tips

(* A handled request leaves complete refs: what the validation skipped     *)
(* belongs to tips whose graphs are held, the rest it has found.           *)
LEMMA InstallComplete ==
  ASSUME TypeOK, RefsComplete, NEW r \in Requests, Stated(r),
         NEW answer \in ApplyRefsIf(r), Install(r, answer)
  PROVE  RefsComplete'
<1>0. /\ refs \in Refs /\ chunks \subseteq Chunks /\ chunks' = chunks
      /\ r.branch \in Branches /\ r.new \in Commits \cup {None}
  BY DEF TypeOK, Requests, Install
<1>1. CASE refs' = refs
  BY <1>0, <1>1 DEF RefsComplete
<1>2. CASE refs' # refs
  <2>0. "ok" \in ApplyRefsIf(r) /\ refs' = Target(r)
    BY <1>2 DEF Install
  <2>1. refs' = [refs EXCEPT ![r.branch] = r.new]
    BY <2>0, AcceptedTarget
  <2>2. Tips(refs') \subseteq Tips(refs) \cup ({r.new} \ {None})
    BY <1>0, <2>1 DEF Tips, Refs
  <2>3. ASSUME r.new # None PROVE Reach[r.new] \subseteq chunks
    <3> DEFINE T == Trusted(r.branch)
               Done == UNION {Reach[x] : x \in Tips(refs)}
    <3>1. ~ GraphMissing(r.branch, r.new)
      BY <1>2, <2>0, <2>3, AcceptedTarget DEF Stated
    <3>2. Closure({r.new}, Chunks \ T, Children) \ T \subseteq chunks
      BY <3>1 DEF GraphMissing
    <3>3. {refs[r.branch], refs[Default]} \ {None} \subseteq Tips(refs)
      BY <1>0, ConstantsAssumption DEF Tips
    <3>4. \A x \in Tips(refs) : Trees[x] \subseteq Reach[x]
      BY <1>0, TipsChunks, TreesReached
    <3>5. T \subseteq Done
      BY <3>3, <3>4 DEF Trusted
    <3>6. Done \subseteq chunks
      BY DEF RefsComplete
    <3>7. \A y \in Done : Children[y] \subseteq Done
      BY <1>0, TipsChunks, ReachClosed
    <3> HIDE DEF T, Done
    <3>8. r.new \in Chunks
      BY <1>0, <2>3, ConstantsAssumption
    <3>9. QED
      BY <1>0, <3>2, <3>5, <3>6, <3>7, <3>8, SkippingComplete
  <2>4. QED
    BY <1>0, <2>2, <2>3 DEF RefsComplete
<1>3. QED
  BY <1>1, <1>2

(* Every step preserves RefsComplete.                                      *)
LEMMA NextComplete == PushInv /\ RefsComplete /\ [Next]_vars => RefsComplete'
<1> SUFFICES ASSUME PushInv, RefsComplete, [Next]_vars PROVE RefsComplete'
  OBVIOUS
<1>0. TypeOK
  BY DEF PushInv
<1>1. ASSUME refs' = refs, chunks \subseteq chunks' PROVE RefsComplete'
  BY <1>1 DEF RefsComplete
<1>2. ASSUME NEW c \in Clients, PutRefsIf(c) PROVE RefsComplete'
  <2>1. Sends(client[c])
    BY <1>2 DEF PutRefsIf
  <2>2. QED
    BY <1>0, <1>2, <2>1, RequestStated, AnsweredRecord, InstallComplete
<1>3. ASSUME NEW r \in late, HandleLate(r) PROVE RefsComplete'
  BY <1>0, <1>3, InstallComplete DEF HandleLate, PushInv, TypeOK
<1>4. CASE Gc
  BY <1>4 DEF Gc, RefsComplete
<1>5. ASSUME NEW c \in Clients, FlushUploadBatch(c) PROVE RefsComplete'
  BY <1>1, <1>5 DEF FlushUploadBatch
<1>6. ASSUME NEW c \in Clients,
             Start(c) \/ GetRefs(c) \/ HasChunks(c) \/ Commit(c) \/ Fail(c) \/ Abandon(c)
      PROVE  RefsComplete'
  BY <1>1, <1>6 DEF Start, GetRefs, HasChunks, Commit, Fail, Abandon, Server
<1>7. CASE UNCHANGED vars
  BY <1>1, <1>7 DEF vars
<1>8. QED
  BY <1>2, <1>3, <1>4, <1>5, <1>6, <1>7 DEF Next

(* Every commit that a branch of the remote names has its whole history    *)
(* and all its trees in the store, for every graph of chunks: whatever     *)
(* uploads broke off, whatever a collection removed between a scan and its *)
(* refs-if, and whatever remoteSrvApplyRefsLocked skipped as trusted.      *)
THEOREM RefsCompleteness == Spec => []RefsComplete
<1>1. Init => RefsComplete
  BY DEF Init, RefsComplete
<1>2. QED
  BY <1>1, NextComplete, PushInvariant, PTL DEF Spec

-----------------------------------------------------------------------------
(* What a request replaces.                                                *)

(* A handled request moves its own branch, from the tip its push saw, and  *)
(* forward unless it forces or deletes.                                    *)
LEMMA InstallReplaces ==
  ASSUME TypeOK, NEW r \in Requests, Stated(r), NEW answer \in ApplyRefsIf(r),
         Install(r, answer), refs' # refs
  PROVE  /\ refs' = [refs EXCEPT ![r.branch] = r.new]
         /\ refs[r.branch] = r.orig
         /\ r.force \/ r.delete \/ r.orig = None \/ r.orig \in Ancestors[r.new]
<1>0. "ok" \in ApplyRefsIf(r) /\ refs' = Target(r)
  BY DEF Install
<1>1. refs \in Refs /\ r.branch \in Branches /\ r.new \in Commits \cup {None}
  BY DEF TypeOK, Requests
<1>2. /\ refs' = [refs EXCEPT ![r.branch] = r.new] /\ refs[r.branch] = r.orig
      /\ \/ r.force \/ refs[r.branch] = None \/ r.new \in {None, refs[r.branch]}
         \/ refs[r.branch] \in History(r.new)
  BY <1>0, AcceptedTarget DEF Stated
<1>3. r.new # refs[r.branch]
  BY <1>1, <1>2 DEF Refs
<1>4. r.new # None => r.new \in Chunks
  BY <1>1, ConstantsAssumption
<1>5. QED
  BY <1>2, <1>3, <1>4, HistoryAncestors DEF Stated

(* A step that changes the refs handles a request.                         *)
LEMMA ReplacesStep ==
  ASSUME PushInv, [Next]_vars, refs' # refs
  PROVE  \E r \in late \cup {Request(client[c]) : c \in {d \in Clients : Sends(client[d])}} :
             /\ refs' = [refs EXCEPT ![r.branch] = r.new]
             /\ refs[r.branch] = r.orig
             /\ r.force \/ r.delete \/ r.orig = None \/ r.orig \in Ancestors[r.new]
<1>0. TypeOK
  BY DEF PushInv
<1>1. (\E c \in Clients : PutRefsIf(c)) \/ (\E r \in late : HandleLate(r))
  BY DEF Next, Start, GetRefs, HasChunks, FlushUploadBatch, Commit, Fail, Abandon, Server, Gc, vars
<1>2. ASSUME NEW c \in Clients, PutRefsIf(c)
      PROVE  \E r \in {Request(client[e]) : e \in {d \in Clients : Sends(client[d])}} :
               r \in Requests /\ Stated(r) /\ \E answer \in ApplyRefsIf(r) : Install(r, answer)
  <2>1. Sends(client[c])
    BY <1>2 DEF PutRefsIf
  <2>2. QED
    BY <1>2, <2>1, RequestStated, AnsweredRecord
<1>3. ASSUME NEW r \in late, HandleLate(r)
      PROVE  r \in Requests /\ Stated(r) /\ \E answer \in ApplyRefsIf(r) : Install(r, answer)
  BY <1>3 DEF HandleLate, PushInv, TypeOK
<1>4. PICK r \in late \cup {Request(client[c]) : c \in {d \in Clients : Sends(client[d])}} :
        r \in Requests /\ Stated(r) /\ \E answer \in ApplyRefsIf(r) : Install(r, answer)
  BY <1>1, <1>2, <1>3
<1>5. QED
  BY <1>0, <1>4, InstallReplaces

(* A branch of the remote only moves by a request for it, whose push saw   *)
(* at its first attempt the very tip that is replaced, for any number of   *)
(* attempts, merges and other pushes; forward unless it forces or deletes. *)
THEOREM Replacement == Spec => ReplacesWhatItSaw
<1>1. PushInv /\ [Next]_vars =>
        [refs' # refs =>
          \E r \in late \cup {Request(client[c]) : c \in {d \in Clients : Sends(client[d])}} :
             /\ refs' = [refs EXCEPT ![r.branch] = r.new]
             /\ refs[r.branch] = r.orig
             /\ r.force \/ r.delete \/ r.orig = None \/ r.orig \in Ancestors[r.new]]_vars
  BY ReplacesStep
<1>2. QED
  BY <1>1, PushInvariant, PTL DEF Spec, ReplacesWhatItSaw

-----------------------------------------------------------------------------
(* A resumed scan uploads everything.                                      *)

(* A step of the client c that takes nothing from the store.               *)
LEMMA ClientScan ==
  ASSUME ScanInv, NEW c \in Clients,
         \A d \in Clients : d # c => client'[d] = client[d],
         chunks \subseteq chunks', ScanOK(client[c])'
  PROVE  ScanInv'
<1> SUFFICES ASSUME NEW d \in Clients, d # c PROVE ScanOK(client[d])'
  BY DEF ScanInv
<1>1. ScanOK(client[d]) /\ client'[d] = client[d]
  BY DEF ScanInv
<1>2. QED
  BY <1>1 DEF ScanOK, ScansAll

(* A batch of a scan that goes below what the remote has: what was queued  *)
(* is stored or buffered, and its children are queued or were seen.        *)
LEMMA HasChunksScan ==
  ASSUME PushInv, ScanInv, NEW c \in Clients, HasChunks(c)
  PROVE  ScanInv'
<1> DEFINE k == client[c]
           next == (UNION {Children[x] : x \in Fetched(k)}) \ k.seen
           n == client'[c]
<1>0. /\ k \in ClientState /\ client \in [Clients -> ClientState] /\ k.pc \in {"first", "scan"}
      /\ chunks' = chunks /\ k.front \subseteq Chunks /\ k.buf \in Seq(Chunks) /\ ScanOK(k)
      /\ k.seen \subseteq Chunks
  BY DEF PushInv, TypeOK, HasChunks, Server, ClientState, ScanInv
<1>1. /\ n \in ClientState /\ client' = [client EXCEPT ![c] = n]
      /\ n.pc = IF next = {} THEN "put" ELSE "scan"
      /\ n.front = next /\ n.seen = k.seen \cup next
      /\ n.buf = k.buf \o SetToSeq(k.front \ chunks)
      /\ n.resume = ResumeScan(k)
      /\ n.whole = IF k.pc = "first" THEN ResumeScan(k) ELSE k.whole
      /\ n.commit = k.commit
  BY ScanRecord
<1>2. n.pc # "first" /\ n.pc \in {"scan", "put", "commit"}
  BY <1>1
<1>3. ASSUME n.whole PROVE ScansAll(client[c])'
  <2>1. ResumeScan(k) /\ Fetched(k) = k.front
    BY <1>0, <1>1, <1>3 DEF ScanOK, ScansAll, ResumeScan, Fetched
  <2>2. k.commit \in k.seen /\ (\A x \in k.seen \ k.front : Children[x] \subseteq k.seen)
        /\ k.seen \subseteq chunks \cup ToSet(k.buf) \cup k.front
    BY <1>0, <1>1, <1>3 DEF ScanOK, ScansAll
  <2>3. \A x \in n.seen \ n.front : Children[x] \subseteq n.seen
    <3> SUFFICES ASSUME NEW x \in n.seen \ n.front PROVE Children[x] \subseteq n.seen
      OBVIOUS
    <3>1. x \in k.seen /\ n.seen = k.seen \cup next
      BY <1>1
    <3>2. CASE x \in k.front
      <4>0. x \in Fetched(k)
        BY <2>1, <3>2
      <4>1. ASSUME NEW y \in Children[x] PROVE y \in next \cup k.seen
        BY <4>0, <4>1
      <4> HIDE DEF next
      <4>2. QED
        BY <3>1, <4>1
    <3>3. CASE x \notin k.front
      BY <2>2, <3>1, <3>3
    <3>4. QED
      BY <3>2, <3>3
  <2>4. ToSet(k.buf) \cup (k.front \ chunks) \subseteq ToSet(n.buf)
    <3> DEFINE t == SetToSeq(k.front \ chunks)
    <3>1. t \in Seq(Chunks) /\ k.front \ chunks \subseteq ToSet(t)
      BY <1>0, SetToSeqEnumerates
    <3>2. n.buf = k.buf \o t
      BY <1>1
    <3> HIDE DEF t
    <3>3. QED
      BY <1>0, <3>1, <3>2, ConcatElements
  <2>5. n.seen \subseteq chunks' \cup ToSet(n.buf) \cup n.front
    BY <1>0, <1>1, <2>2, <2>4
  <2>6. (n.pc = "put" => n.front = {}) /\ n.resume /\ n.commit \in n.seen
    BY <1>1, <2>1, <2>2
  <2>7. QED
    BY <2>3, <2>5, <2>6 DEF ScansAll
<1>4. ScanOK(client[c])'
  BY <1>2, <1>3 DEF ScanOK
<1>5. \A d \in Clients : d # c => client'[d] = client[d]
  BY <1>0, <1>1
<1>6. QED
  BY <1>0, <1>4, <1>5, ClientScan

(* A batch is stored.                                                      *)
LEMMA FlushScan ==
  ASSUME PushInv, ScanInv, NEW c \in Clients, FlushUploadBatch(c)
  PROVE  ScanInv'
<1> DEFINE k == client[c]
           n == client'[c]
<1>1. /\ client' = [client EXCEPT ![c] = n]
      /\ chunks \subseteq chunks'
      /\ ToSet(k.buf) \subseteq chunks' \cup ToSet(n.buf)
      /\ n.pc = k.pc /\ n.front = k.front /\ n.seen = k.seen /\ n.resume = k.resume
      /\ n.whole = k.whole /\ n.commit = k.commit
  BY FlushRecord
<1>2. ScanOK(k) /\ client \in [Clients -> ClientState]
  BY DEF ScanInv, PushInv, TypeOK
<1>3. \A d \in Clients : d # c => client'[d] = client[d]
  BY <1>1, <1>2
<1>4. ScanOK(client[c])'
  BY <1>1, <1>2 DEF ScanOK, ScansAll
<1>5. QED
  BY <1>1, <1>3, <1>4, ClientScan

(* Every step preserves ScanInv.                                           *)
LEMMA NextScan == PushInv /\ ScanInv /\ [Next]_vars => ScanInv'
<1> SUFFICES ASSUME PushInv, ScanInv, [Next]_vars PROVE ScanInv'
  OBVIOUS
<1>0. client \in [Clients -> ClientState] /\ TypeOK
  BY DEF PushInv, TypeOK
<1>1. ASSUME NEW c \in Clients, Start(c) PROVE ScanInv'
  <2>1. PICK p \in Pushes :
          client' = [client EXCEPT ![c] = [Idle EXCEPT !.pc = "refs", !.branch = p.branch,
                                              !.commit = p.commit, !.force = p.force]]
    BY <1>1 DEF Start
  <2> DEFINE n == [Idle EXCEPT !.pc = "refs", !.branch = p.branch,
                               !.commit = p.commit, !.force = p.force]
  <2>2. n.pc = "refs" /\ n.whole = Idle.whole /\ Idle.whole = FALSE
    BY IdleType DEF ClientState, Idle
  <2>3. client' = [client EXCEPT ![c] = n]
    BY <2>1
  <2> HIDE DEF n
  <2>4. client'[c] = n /\ \A d \in Clients : d # c => client'[d] = client[d]
    BY <1>0, <2>3
  <2>5. ScanOK(client[c])'
    BY <2>2, <2>4 DEF ScanOK
  <2>6. QED
    BY <1>1, <2>4, <2>5, ClientScan DEF Start, Server
<1>2. ASSUME NEW c \in Clients, Commit(c) \/ Fail(c) \/ Abandon(c) PROVE ScanInv'
  <2>1. client'[c] = Idle /\ \A d \in Clients : d # c => client'[d] = client[d]
    BY <1>0, <1>2 DEF Commit, Fail, Abandon, Return
  <2>2. ScanOK(client[c])'
    BY <2>1 DEF ScanOK, Idle
  <2>3. QED
    BY <1>2, <2>1, <2>2, ClientScan DEF Commit, Fail, Abandon, Server
<1>3. ASSUME NEW c \in Clients, GetRefs(c) PROVE ScanInv'
  <2> DEFINE k == client[c]
             tip == refs[k.branch]
             read == [k EXCEPT !.orig = tip, !.exp = refs]
             n == IF Hopeless(k) THEN Idle
                  ELSE IF k.commit \in {None, tip} THEN [read EXCEPT !.pc = "put"]
                  ELSE [read EXCEPT !.pc = "first", !.front = {k.commit}, !.seen = {k.commit}]
  <2>1. client' = [client EXCEPT ![c] = n] /\ k.pc = "refs" /\ chunks' = chunks
    BY <1>3 DEF GetRefs, Server
  <2>2. k \in ClientState /\ ~ k.whole
    BY <1>0, <2>1 DEF ScanInv, ScanOK, ClientState
  <2>3. \/ n = Idle
        \/ n.pc = "put" /\ n.whole = k.whole
        \/ /\ n.pc = "first" /\ n.front = {k.commit} /\ n.seen = {k.commit}
           /\ n.commit = k.commit /\ n.whole = k.whole /\ k.commit # None
    BY <2>2 DEF ClientState
  <2>4. k.commit # None => k.commit \in Chunks
    BY <2>2, ConstantsAssumption DEF ClientState
  <2> HIDE DEF n
  <2>5. client'[c] = n /\ \A d \in Clients : d # c => client'[d] = client[d]
    BY <1>0, <2>1
  <2>6. CASE n = Idle
    <3>1. ScanOK(client[c])'
      BY <2>5, <2>6 DEF ScanOK, Idle
    <3>2. QED
      BY <2>1, <2>5, <3>1, ClientScan
  <2>7. CASE n # Idle
    <3>1. ScanOK(client[c])'
      BY <2>2, <2>3, <2>4, <2>5, <2>7 DEF ScanOK
    <3>2. QED
      BY <2>1, <2>5, <3>1, ClientScan
  <2>8. QED
    BY <2>6, <2>7
<1>4. ASSUME NEW c \in Clients, PutRefsIf(c) PROVE ScanInv'
  <2>1. /\ client' = [client EXCEPT ![c] = client'[c]]
        /\ client'[c].pc \in {"commit", "refs", "idle"}
        /\ client'[c].whole => client'[c].pc = "commit"
    BY <1>4, AnsweredRecord
  <2>2. chunks' = chunks
    BY <1>4, AnsweredRecord DEF Install
  <2>3. \A d \in Clients : d # c => client'[d] = client[d]
    BY <1>0, <2>1
  <2>4. ScanOK(client[c])'
    BY <2>1 DEF ScanOK
  <2>5. QED
    BY <2>2, <2>3, <2>4, ClientScan
<1>5. ASSUME NEW r \in late, HandleLate(r) PROVE ScanInv'
  BY <1>5 DEF HandleLate, Install, ScanInv, ScanOK, ScansAll
<1>6. CASE Gc
  BY <1>6, GcPush DEF ScanInv, ScanOK
<1>7. CASE UNCHANGED vars
  BY <1>7 DEF vars, ScanInv, ScanOK, ScansAll
<1>8. QED
  BY <1>1, <1>2, <1>3, <1>4, <1>5, <1>6, <1>7, HasChunksScan, FlushScan DEF Next

(* A whole scan that is over has stored everything below its commit.       *)
LEMMA WholeHeld ==
  ASSUME PushInv, ScanInv, NEW c \in Clients, Sends(client[c]), client[c].whole
  PROVE  "missing" \notin ApplyRefsIf(Request(client[c]))
<1> DEFINE k == client[c]
<1>0. k \in ClientState /\ k.pc = "put" /\ k.buf = <<>> /\ k.seen \subseteq Chunks
  BY DEF PushInv, TypeOK, Sends, ClientState
<1>1. /\ k.commit \in k.seen /\ k.front = {}
      /\ \A x \in k.seen \ k.front : Children[x] \subseteq k.seen
      /\ k.seen \subseteq chunks \cup ToSet(k.buf) \cup k.front
  BY <1>0 DEF ScanInv, ScanOK, ScansAll
<1>2. ToSet(k.buf) = {}
  BY <1>0 DEF ToSet
<1>3. Reach[k.commit] \subseteq k.seen
  BY <1>0, <1>1, ReachLeast
<1>4. Request(k) \in Requests /\ Request(k).new = k.commit
  BY RequestStated DEF Request
<1>5. k.commit \in Chunks /\ Reach[k.commit] \subseteq chunks
  BY <1>0, <1>1, <1>2, <1>3
<1>6. QED
  BY <1>4, <1>5, HeldNotMissing DEF PushInv

(* The answer missing_chunks makes the next attempt scan below what the    *)
(* remote has; a scan that did so, with no collection since, is never told *)
(* again that chunks are missing, for every graph of chunks.               *)
THEOREM ResumeSuffices == Spec => []ResumedIsWhole
<1>1. Init => ScanInv
  BY DEF Init, ScanInv, ScanOK, Idle
<1>2. PushInv /\ ScanInv => ResumedIsWhole
  BY WholeHeld DEF ResumedIsWhole
<1>3. QED
  BY <1>1, <1>2, NextScan, PushInvariant, PTL DEF Spec

=============================================================================
