---------------------------- MODULE MCStarSeries ----------------------------
(***************************************************************************)
(* A small instance of StarSeries for TLC: six days, weeks of two days,   *)
(* months of three.                                                        *)
(***************************************************************************)
EXTENDS StarSeries

BackOf == [r \in Ranges |-> CASE r = "3m" -> 2
                               [] r = "1y" -> 3
                               [] r = "all" -> LastDay + 1]

BucketOf == [r \in Ranges |-> [d \in Days |-> CASE r = "3m" -> d
                                                [] r = "1y" -> (d + 1) \div 2
                                                [] r = "all" -> d \div 3]]

=============================================================================
