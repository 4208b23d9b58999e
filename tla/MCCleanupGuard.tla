--------------------------- MODULE MCCleanupGuard ---------------------------
(* Small instances of CleanupGuard. *)
EXTENDS CleanupGuard, TLC

Symmetric == Permutations(Sweepers)
=============================================================================
