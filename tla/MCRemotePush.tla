---------------------------- MODULE MCRemotePush ----------------------------
(* An instance of RemotePush for TLC: a, then b after a, then c after b, and *)
(* e, which also follows a. The trees t and u share the leaf l.              *)
EXTENDS RemotePush, TLC

CONSTANTS c1, c2, a, b, c, e, t, u, l, main, dev

MCCommits == {a, b, c, e}
MCChunks == MCCommits \cup {t, u, l}
MCChildren == (a :> {}) @@ (b :> {a, t}) @@ (c :> {b, u}) @@ (e :> {a, u})
                @@ (t :> {l}) @@ (u :> {l}) @@ (l :> {})
MCInitRefs == (main :> a) @@ (dev :> None)
Ask(br, co, fo) == [branch |-> br, commit |-> co, force |-> fo]
MCPushes == {Ask(main, b, FALSE), Ask(main, e, TRUE),
             Ask(dev, c, FALSE), Ask(dev, None, FALSE)}

Symmetry == Permutations(Clients)
=============================================================================
