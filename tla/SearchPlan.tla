----------------------------- MODULE SearchPlan -----------------------------
(***************************************************************************)
(* How a synchronisation spreads its candidate budget over the searches it *)
(* sends to GitHub: buildSearchPlans of internal/ingest/service.go. Slots  *)
(* and strategies are numbered from 0 as in the code; the wording of the   *)
(* queries is left out.                                                    *)
(***************************************************************************)
EXTENDS Integers

Seeds == 0..7
Strategies == 0..2   \* head, active and emerging
Page == 100          \* what SearchRepositories can ask for at once

\* FEED_TARGET_SIZE, with its default and its cap.
TargetSize(configured) ==
    IF configured <= 0 THEN 500
    ELSE IF configured > 1600 THEN 1600
    ELSE configured

DistributeEvenly(total, slots) ==
    [i \in 0..(slots - 1) |->
        total \div slots + (IF i < total % slots THEN 1 ELSE 0)]

Share(total) == << (total * 5) \div 10, (total * 3) \div 10, (total * 2) \div 10 >>

Remaining(total) == total - (Share(total)[1] + Share(total)[2] + Share(total)[3])

\* What rounding left over goes round the strategies one by one: strategy i
\* gets as many as there are j in 0..Remaining(total)-1 with j % 3 = i.
CandidateStrategyLimits(total) ==
    [i \in Strategies |-> Share(total)[i + 1] + (Remaining(total) + 2 - i) \div 3]

Plan(configured) ==
    [p \in Seeds \X Strategies |->
        CandidateStrategyLimits(DistributeEvenly(TargetSize(configured), 8)[p[1]])[p[2]]]

=============================================================================
