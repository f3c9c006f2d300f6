---------------------------- MODULE MCSyncEngine -----------------------------
(* SyncEngine for TLC: the symmetry of its workers.                          *)
EXTENDS SyncEngine, TLC

Symmetry == Permutations(Workers)
=============================================================================
