------------------------ MODULE MCSessionPublication ------------------------
(* Instances of SessionPublication for TLC.                                *)
EXTENDS SessionPublication, TLC

CONSTANTS s1, s2, o1, o2, o3

\* Two operations of one session compete, a second session interferes.
TwoSessions == (s1 :> {o1, o2}) @@ (s2 :> {o3})
OneSession == s1 :> {o1, o2}
OneOperation == s1 :> {o1}
OnePerSession == (s1 :> {o1}) @@ (s2 :> {o3})

Symmetric == Permutations(Procs)
=============================================================================
