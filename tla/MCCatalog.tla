----------------------------- MODULE MCCatalog -----------------------------
(***************************************************************************)
(* Small instances of Catalog for TLC.                                     *)
(***************************************************************************)
EXTENDS Catalog, SearchPlan, FiniteSetsExt, TLC

\* The searches of one synchronisation share its candidate budget exactly,
\* whatever size is configured: evaluated for every size up to beyond the cap,
\* as a sum over the plans (CatalogProofs has it for all, seed by seed).
ASSUME PlansSpendTheBudget ==
    \A configured \in 0..1700 :
        LET plan == Plan(configured)
        IN  MapThenSumSet(LAMBDA p : plan[p], Seeds \X Strategies)
            = TargetSize(configured)

Symmetry == Permutations(Repos) \cup Permutations(Syncs)

=============================================================================
