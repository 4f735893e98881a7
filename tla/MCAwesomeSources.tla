-------------------------- MODULE MCAwesomeSources --------------------------
(***************************************************************************)
(* Small instances of AwesomeSources for TLC.                              *)
(***************************************************************************)
EXTENDS AwesomeSources, TLC

CONSTANTS empty, listed

\* One README lists nothing, as far as an instance has it; every other one
\* lists the same repositories.
ListingOfKind == [m \in Readmes |-> IF m = empty THEN {} ELSE listed]

=============================================================================
