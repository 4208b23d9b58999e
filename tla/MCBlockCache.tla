---------------------------- MODULE MCBlockCache ----------------------------
(* Instances of BlockCache for TLC.                                        *)
EXTENDS BlockCache, TLC

\* Every database starts with its header block published.
HeaderPublished == Dbs \X {0}

Symmetric == Permutations(Slots) \cup Permutations(Clients)
=============================================================================
