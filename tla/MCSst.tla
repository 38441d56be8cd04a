-------------------------------- MODULE MCSst --------------------------------
(* Instances of Sst for TLC: objects and values are interchangeable.        *)
EXTENDS Sst, TLC

CONSTANTS o1, o2, o3, v1, v2   \* objects and values

SstSymmetry == Permutations(Obj) \cup Permutations(Val)

\* The builds: no fault without rollback protection.
BuildsSound == {<<TRUE, 1>>, <<FALSE, 0>>}

\* Rollback protection, and a flash device that works.
BuildsRollback == {<<TRUE, 0>>}
==============================================================================
