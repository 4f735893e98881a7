-------------------------- MODULE MCResponseCache --------------------------
(***************************************************************************)
(* Small instances of ResponseCache for TLC.                               *)
(***************************************************************************)
EXTENDS ResponseCache, TLC

Symmetry == Permutations(Keys) \cup Permutations(Requests)

=============================================================================
