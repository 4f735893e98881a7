--------------------------- MODULE MCStarHistory ---------------------------
(***************************************************************************)
(* A small instance of StarHistory for TLC, with its liveness.             *)
(***************************************************************************)
EXTENDS StarHistory

=============================================================================
