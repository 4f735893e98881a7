---------------------------- MODULE MCBulkCache ----------------------------
(***************************************************************************)
(* Small instances of BulkCache for TLC.                                   *)
(***************************************************************************)
EXTENDS BulkCache, TLC

Symmetry == Permutations(Requests) \cup Permutations(Syncs)

=============================================================================
