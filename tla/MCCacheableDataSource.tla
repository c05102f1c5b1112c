------------------------ MODULE MCCacheableDataSource -------------------------
(* Model-checking instance of CacheableDataSource. *)
EXTENDS CacheableDataSource

CONSTANTS p1, p2, k, f0, f1, f2

MCProcesses == {p1, p2}
MCOwners == {p1}
MCKeys == {k}
MCFields == {f0, f1, f2}
=============================================================================
