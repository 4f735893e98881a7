------------------------- MODULE StarSeriesProofs -------------------------
(***************************************************************************)
(* Theorems about StarSeries, for any number of days, events and points,   *)
(* any ranges and buckets and any limit from two points on.                *)
(***************************************************************************)
EXTENDS StarSeries, FiniteSetTheorems, WellFoundedInduction, TLAPS

-----------------------------------------------------------------------------
(* Sets of days *)

LEMMA DaysFinite ==
    ASSUME NEW S, S \subseteq Days
    PROVE  /\ IsFiniteSet(S)
           /\ Cardinality(S) \in Nat
           /\ \A d \in S : d \in Nat /\ d <= LastDay
  <1>1. IsFiniteSet(Days)
    BY FS_Interval, SeriesAssumption DEF Days
  <1>2. IsFiniteSet(S)
    BY <1>1, FS_Subset
  <1>3. QED
    BY <1>2, FS_CardinalityType, SeriesAssumption DEF Days

\* Of the subsets of a finite set that share a defect, one is smallest.
LEMMA SmallestSubset ==
    ASSUME NEW S, IsFiniteSet(S), NEW bad, bad \subseteq SUBSET S, bad # {}
    PROVE  \E u \in bad : \A v \in bad : v \subseteq u => v = u
  <1> DEFINE R == StrictSubsetOrdering(S)
  <1>1. IsWellFoundedOn(R, FiniteSubsetsOf(S))
    BY FS_StrictSubsetOrderingWellFounded
  <1>2. FiniteSubsetsOf(S) = SUBSET S
    BY FS_FiniteSubsetsOfFinite
  <1>3. \E u \in bad : \A v \in bad : ~(<<v, u>> \in R)
    <2> HIDE DEF R
    <2> QED BY <1>1, <1>2, WFMin
  <1>4. QED
    BY <1>3 DEF StrictSubsetOrdering

\* One is largest, too.
LEMMA LargestSubset ==
    ASSUME NEW S, IsFiniteSet(S), NEW bad, bad \subseteq SUBSET S, bad # {}
    PROVE  \E u \in bad : \A v \in bad : u \subseteq v => v = u
  <1> DEFINE rest == {S \ v : v \in bad}
  <1>1. rest \subseteq SUBSET S /\ rest # {}
    <2>1. \A v \in bad : S \ v \in SUBSET S
      OBVIOUS
    <2>2. QED
      BY <2>1, Zenon
  <1>2. PICK w \in rest : \A v \in rest : v \subseteq w => v = w
    <2> HIDE DEF rest
    <2> QED BY <1>1, SmallestSubset
  <1>3. PICK u \in bad : w = S \ u
    BY <1>2
  <1>4. ASSUME NEW v \in bad, u \subseteq v PROVE v = u
    <2>1. S \ v \in rest /\ S \ v \subseteq w
      BY <1>3, <1>4
    <2>2. S \ v = S \ u
      BY <1>2, <1>3, <2>1
    <2>3. u \subseteq S /\ v \subseteq S
      OBVIOUS
    <2>4. QED
      BY <2>2, <2>3
  <1>5. QED
    BY <1>3, <1>4

\* A set of days has a first one.
LEMMA FirstDay ==
    ASSUME NEW S, S \subseteq Days, S # {}
    PROVE  Min(S) \in S /\ \A d \in S : Min(S) <= d
  <1> DEFINE before(d) == {e \in S : e < d}
             bad == {before(d) : d \in S}
  <1>1. bad \subseteq SUBSET S /\ bad # {}
    <2>1. \A d \in S : before(d) \subseteq S
      OBVIOUS
    <2> HIDE DEF before
    <2>2. QED
      BY <2>1
  <1>2. PICK u \in bad : \A v \in bad : v \subseteq u => v = u
    <2> HIDE DEF bad
    <2> QED BY <1>1, DaysFinite, SmallestSubset
  <1>3. PICK d \in S : u = before(d)
    BY <1>2
  <1>4. ASSUME NEW e \in S PROVE d <= e
    <2>0. d \in Nat /\ e \in Nat
      BY DaysFinite
    <2> SUFFICES ASSUME e < d PROVE FALSE
      BY <2>0
    <2>1. before(e) \in bad /\ before(e) \subseteq u
      <3>1. \A x \in S : x \in Nat
        BY DaysFinite
      <3>2. \A x \in before(e) : x \in before(d)
        BY <2>0, <3>1
      <3>3. QED
        BY <1>3, <3>2
    <2>2. e \in u /\ e \notin before(e)
      BY <1>3, <2>0
    <2>3. QED
      BY <1>2, <2>1, <2>2
  <1>5. QED
    BY <1>4 DEF Min

\* And a last one.
LEMMA LastOfDays ==
    ASSUME NEW S, S \subseteq Days, S # {}
    PROVE  Max(S) \in S /\ \A d \in S : d <= Max(S)
  <1> DEFINE after(d) == {e \in S : e > d}
             bad == {after(d) : d \in S}
  <1>1. bad \subseteq SUBSET S /\ bad # {}
    <2>1. \A d \in S : after(d) \subseteq S
      OBVIOUS
    <2> HIDE DEF after
    <2>2. QED
      BY <2>1
  <1>2. PICK u \in bad : \A v \in bad : v \subseteq u => v = u
    <2> HIDE DEF bad
    <2> QED BY <1>1, DaysFinite, SmallestSubset
  <1>3. PICK d \in S : u = after(d)
    BY <1>2
  <1>4. ASSUME NEW e \in S PROVE d >= e
    <2>0. d \in Nat /\ e \in Nat
      BY DaysFinite
    <2> SUFFICES ASSUME e > d PROVE FALSE
      BY <2>0
    <2>1. after(e) \in bad /\ after(e) \subseteq u
      <3>1. \A x \in S : x \in Nat
        BY DaysFinite
      <3>2. \A x \in after(e) : x \in after(d)
        BY <2>0, <3>1
      <3>3. QED
        BY <1>3, <3>2
    <2>2. e \in u /\ e \notin after(e)
      BY <1>3, <2>0
    <2>3. QED
      BY <1>2, <2>1, <2>2
  <1>5. Max(S) \in S /\ \A e \in S : Max(S) >= e
    BY <1>4 DEF Max
  <1>6. QED
    BY <1>5, DaysFinite

\* The first and the last day of a set are determined by their bounds.
LEMMA FirstIs ==
    ASSUME NEW S, S \subseteq Days, NEW d \in S, \A e \in S : d <= e
    PROVE  Min(S) = d
  BY FirstDay, DaysFinite

LEMMA LastIs ==
    ASSUME NEW S, S \subseteq Days, NEW d \in S, \A e \in S : e <= d
    PROVE  Max(S) = d
  BY LastOfDays, DaysFinite

-----------------------------------------------------------------------------
(* Filling up to the limit *)

\* One round of the loop that spreads points.
Filled(days, limit, s) == s \cup {NextFree(days, s, limit)}

\* It always finds a day that was free.
LEMMA NextFreeIsFree ==
    ASSUME NEW days, days \subseteq Days, NEW limit,
           NEW s \in SUBSET days, s # days
    PROVE  NextFree(days, s, limit) \in days \ s
  <1> DEFINE target == (2 * Cardinality(s) * (Cardinality(days) - 1) + limit - 1)
                           \div (2 * (limit - 1))
             free == days \ s
             above == {d \in free : Cardinality({e \in days : e < d}) >= target}
  <1>1. free \subseteq Days /\ free # {} /\ above \subseteq free
    OBVIOUS
  <1>2. NextFree(days, s, limit) = IF above # {} THEN Min(above) ELSE Max(free)
    BY DEF NextFree
  <1>3. CASE above # {}
    <2> HIDE DEF above, free
    <2>1. above \subseteq Days
      BY <1>1
    <2>2. Min(above) \in free
      BY <1>1, <1>3, <2>1, FirstDay
    <2>3. QED
      BY <1>2, <1>3, <2>2 DEF free
  <1>4. CASE above = {}
    <2>1. Max(free) \in free
      <3> HIDE DEF free
      <3> QED BY <1>1, LastOfDays
    <2>2. QED
      BY <1>2, <1>4, <2>1
  <1>5. QED
    BY <1>3, <1>4

\* f is the loop on the sets of days that contain from.
From(days, from) == {s \in SUBSET days : from \subseteq s}
IsLoop(days, limit, from, f) ==
    f = [s \in From(days, from) |->
            IF Cardinality(s) >= limit THEN s ELSE f[Filled(days, limit, s)]]
LoopOf(days, limit, from) == CHOOSE f : IsLoop(days, limit, from, f)

LEMMA LoopStep ==
    ASSUME NEW days, NEW limit, NEW from, NEW f, IsLoop(days, limit, from, f),
           NEW s \in From(days, from)
    PROVE  f[s] = IF Cardinality(s) >= limit THEN s ELSE f[Filled(days, limit, s)]
  BY DEF IsLoop

\* The loop goes on with a larger set.
LEMMA FilledGrows ==
    ASSUME NEW days, days \subseteq Days, NEW limit \in Nat, limit <= Cardinality(days),
           NEW from, NEW s \in From(days, from), ~(Cardinality(s) >= limit)
    PROVE  /\ Filled(days, limit, s) \in From(days, from)
           /\ s \subseteq Filled(days, limit, s)
           /\ Filled(days, limit, s) # s
           /\ Cardinality(Filled(days, limit, s)) = Cardinality(s) + 1
  <1>1. s \in SUBSET days /\ from \subseteq s
    BY DEF From
  <1>2. s # days
    OBVIOUS
  <1>3. NextFree(days, s, limit) \in days \ s
    BY <1>1, <1>2, NextFreeIsFree
  <1>4. IsFiniteSet(s)
    BY <1>1, DaysFinite
  <1>5. Cardinality(Filled(days, limit, s)) = Cardinality(s) + 1
    BY <1>3, <1>4, FS_AddElement DEF Filled
  <1>6. QED
    BY <1>1, <1>3, <1>5 DEF Filled, From

\* Two loops agree where both are defined.
LEMMA LoopsAgree ==
    ASSUME NEW days, days \subseteq Days, NEW limit \in Nat, limit <= Cardinality(days),
           NEW from, NEW f, IsLoop(days, limit, from, f),
           NEW since, NEW g, IsLoop(days, limit, since, g),
           NEW s \in From(days, from), s \in From(days, since)
    PROVE  f[s] = g[s]
  <1> DEFINE both == From(days, from) \cap From(days, since)
             bad == {t \in both : f[t] # g[t]}
  <1> SUFFICES ASSUME bad # {} PROVE FALSE
    OBVIOUS
  <1>1. bad \subseteq SUBSET days
    BY DEF From
  <1>2. PICK u \in bad : \A v \in bad : u \subseteq v => v = u
    <2> HIDE DEF bad
    <2> QED BY <1>1, DaysFinite, LargestSubset
  <1>3. /\ f[u] = IF Cardinality(u) >= limit THEN u ELSE f[Filled(days, limit, u)]
        /\ g[u] = IF Cardinality(u) >= limit THEN u ELSE g[Filled(days, limit, u)]
    BY <1>2, LoopStep
  <1>4. ~(Cardinality(u) >= limit)
    BY <1>2, <1>3
  <1>5. /\ Filled(days, limit, u) \in both
        /\ u \subseteq Filled(days, limit, u)
        /\ Filled(days, limit, u) # u
    BY <1>2, <1>4, FilledGrows
  <1>6. Filled(days, limit, u) \notin bad
    BY <1>2, <1>5
  <1>7. QED
    BY <1>2, <1>3, <1>4, <1>5, <1>6

\* The loop is defined on the sets that contain any set of days.
LEMMA LoopExists ==
    ASSUME NEW days, days \subseteq Days, NEW limit \in Nat, limit <= Cardinality(days)
    PROVE  \A from \in SUBSET days :
               IsLoop(days, limit, from, LoopOf(days, limit, from))
  <1> DEFINE bad == {t \in SUBSET days : ~IsLoop(days, limit, t, LoopOf(days, limit, t))}
  <1> SUFFICES ASSUME bad # {} PROVE FALSE
    OBVIOUS
  <1>1. PICK u \in bad : \A v \in bad : u \subseteq v => v = u
    <2>1. bad \subseteq SUBSET days
      OBVIOUS
    <2> HIDE DEF bad
    <2> QED BY <2>1, DaysFinite, LargestSubset
  <1> DEFINE run(t) == LoopOf(days, limit, t)
             more(s) == Filled(days, limit, s)
             G == [s \in From(days, u) |->
                      IF Cardinality(s) >= limit THEN s ELSE run(more(s))[more(s)]]
  <1>2. ASSUME NEW t \in From(days, u), t # u
        PROVE  IsLoop(days, limit, t, run(t)) /\ t \in From(days, t)
    BY <1>1, <1>2 DEF From
  <1>3. ASSUME NEW s \in From(days, u), ~(Cardinality(s) >= limit)
        PROVE  run(more(s))[more(s)] = G[more(s)]
    <2>1. /\ more(s) \in From(days, u)
          /\ s \subseteq more(s)
          /\ more(s) # s
      BY <1>3, FilledGrows
    <2>2. more(s) # u
      BY <2>1 DEF From
    <2> DEFINE t == more(s)
    <2>3. IsLoop(days, limit, t, run(t)) /\ t \in From(days, t)
      BY <1>2, <2>1, <2>2
    <2>4. run(t)[t] = IF Cardinality(t) >= limit THEN t ELSE run(t)[more(t)]
      <3> HIDE DEF t, run
      <3>1. run(t)[t] = IF Cardinality(t) >= limit THEN t ELSE run(t)[Filled(days, limit, t)]
        BY <2>3, LoopStep
      <3>2. QED
        BY <3>1
    <2>5. CASE Cardinality(t) >= limit
      BY <2>1, <2>4, <2>5
    <2>6. CASE ~(Cardinality(t) >= limit)
      <3>1. /\ more(t) \in From(days, t)
            /\ more(t) \in From(days, u)
            /\ t \subseteq more(t)
            /\ more(t) # t
        <4> HIDE DEF t
        <4>1. t \in From(days, u)
          BY <2>1 DEF t
        <4>2. QED
          BY <2>3, <2>6, <4>1, FilledGrows
      <3>2. more(t) # u
        BY <2>1, <3>1 DEF From
      <3>3. IsLoop(days, limit, more(t), run(more(t))) /\ more(t) \in From(days, more(t))
        BY <1>2, <3>1, <3>2
      <3>4. run(t)[more(t)] = run(more(t))[more(t)]
        <4> HIDE DEF t, run, more
        <4> QED BY <2>3, <3>1, <3>3, LoopsAgree
      <3>5. G[t] = run(more(t))[more(t)]
        BY <2>1, <2>6
      <3>6. QED
        BY <2>4, <2>6, <3>4, <3>5
    <2>7. QED
      BY <2>5, <2>6
  <1>4. IsLoop(days, limit, u, G)
    <2>1. \A s \in From(days, u) :
              G[s] = IF Cardinality(s) >= limit THEN s ELSE G[more(s)]
      BY <1>3
    <2>2. G = [s \in From(days, u) |->
                  IF Cardinality(s) >= limit THEN s ELSE G[Filled(days, limit, s)]]
      <3>1. G = [s \in From(days, u) |-> G[s]]
        OBVIOUS
      <3> HIDE DEF G
      <3>2. QED
        BY <2>1, <3>1
    <2>3. QED
      <3> HIDE DEF G
      <3> QED BY <2>2 DEF IsLoop
  <1>5. IsLoop(days, limit, u, LoopOf(days, limit, u))
    <2> HIDE DEF G
    <2> QED BY <1>4 DEF LoopOf
  <1>6. QED
    BY <1>1, <1>5

\* From a set that fits, the loop ends with a set that contains it and has
\* exactly the points that are permitted.
LEMMA LoopFills ==
    ASSUME NEW days, days \subseteq Days, NEW limit \in Nat, limit <= Cardinality(days),
           NEW s \in SUBSET days, Cardinality(s) <= limit
    PROVE  LET f == LoopOf(days, limit, {})
           IN  /\ f[s] \in SUBSET days
               /\ s \subseteq f[s]
               /\ Cardinality(f[s]) = limit
  <1> DEFINE f == LoopOf(days, limit, {})
             Good(t) == f[t] \in SUBSET days /\ t \subseteq f[t] /\ Cardinality(f[t]) = limit
             bad == {t \in SUBSET days : Cardinality(t) <= limit /\ ~Good(t)}
  <1>0. IsLoop(days, limit, {}, f)
    BY LoopExists
  <1> SUFFICES ASSUME bad # {} PROVE FALSE
    OBVIOUS
  <1>1. PICK u \in bad : \A v \in bad : u \subseteq v => v = u
    <2>1. bad \subseteq SUBSET days
      OBVIOUS
    <2> HIDE DEF bad
    <2> QED BY <2>1, DaysFinite, LargestSubset
  <1>2. u \in SUBSET days /\ Cardinality(u) <= limit /\ ~Good(u) /\ u \in From(days, {})
    BY <1>1 DEF From
  <1>3. f[u] = IF Cardinality(u) >= limit THEN u ELSE f[Filled(days, limit, u)]
    <2> HIDE DEF f
    <2> QED BY <1>0, <1>2, LoopStep
  <1>4. Cardinality(u) \in Nat
    BY <1>2, DaysFinite
  <1>5. ~(Cardinality(u) >= limit)
    BY <1>2, <1>3, <1>4
  <1>6. /\ Filled(days, limit, u) \in SUBSET days
        /\ u \subseteq Filled(days, limit, u)
        /\ Filled(days, limit, u) # u
        /\ Cardinality(Filled(days, limit, u)) = Cardinality(u) + 1
    BY <1>2, <1>5, FilledGrows DEF From
  <1>7. Filled(days, limit, u) \notin bad
    BY <1>1, <1>6
  <1>8. Good(Filled(days, limit, u))
    BY <1>4, <1>5, <1>6, <1>7
  <1>9. QED
    BY <1>2, <1>3, <1>5, <1>6, <1>8

\* The loop as CapHistoryPoints defines it.
FillOf(days, limit) ==
    CHOOSE fill : fill = [selected \in SUBSET days |->
        IF Cardinality(selected) >= limit THEN selected
        ELSE fill[selected \cup {NextFree(days, selected, limit)}]]

LEMMA FillIsLoop ==
    ASSUME NEW days, days \subseteq Days, NEW limit \in Nat, limit <= Cardinality(days),
           NEW s \in SUBSET days
    PROVE  FillOf(days, limit)[s] = LoopOf(days, limit, {})[s]
  <1>1. From(days, {}) = SUBSET days
    BY DEF From
  <1>2. IsLoop(days, limit, {}, LoopOf(days, limit, {}))
    BY LoopExists
  <1>3. \E fill : fill = [selected \in SUBSET days |->
            IF Cardinality(selected) >= limit THEN selected
            ELSE fill[selected \cup {NextFree(days, selected, limit)}]]
    BY <1>1, <1>2 DEF IsLoop, Filled
  <1>4. FillOf(days, limit) = [selected \in SUBSET days |->
            IF Cardinality(selected) >= limit THEN selected
            ELSE FillOf(days, limit)[selected \cup {NextFree(days, selected, limit)}]]
    BY <1>3 DEF FillOf
  <1>5. IsLoop(days, limit, {}, FillOf(days, limit))
    BY <1>1, <1>4 DEF IsLoop, Filled
  <1>6. QED
    BY <1>1, <1>2, <1>5, LoopsAgree

\* What is always wanted of a set of days: its ends and its changes of kind.
Wanted(ps, days) == {Min(days), Max(days)} \cup Switches(ps, days)

LEMMA CapUnfold ==
    ASSUME NEW ps, NEW days, NEW limit
    PROVE  CapHistoryPoints(ps, days, limit) =
               IF Cardinality(days) <= limit THEN days
               ELSE FillOf(days, limit)[IF Cardinality(Wanted(ps, days)) > limit
                                        THEN {Min(days), Max(days)} ELSE Wanted(ps, days)]
  BY DEF CapHistoryPoints, FillOf, Wanted

\* Capping keeps the ends, keeps the changes of kind if they fit, and leaves no
\* permitted point out.
LEMMA CapKeeps ==
    ASSUME NEW ps, NEW days, days \subseteq Days, NEW limit \in Nat, limit >= 2
    PROVE  LET kept == CapHistoryPoints(ps, days, limit)
           IN  /\ kept \subseteq days
               /\ days # {} => {Min(days), Max(days)} \subseteq kept
               /\ Cardinality(kept) = IF Cardinality(days) <= limit
                                      THEN Cardinality(days) ELSE limit
               /\ days # {} /\ Cardinality(Wanted(ps, days)) <= limit =>
                      Wanted(ps, days) \subseteq kept
  <1> DEFINE kept == CapHistoryPoints(ps, days, limit)
             ends == {Min(days), Max(days)}
             wanted == Wanted(ps, days)
             start == IF Cardinality(wanted) > limit THEN ends ELSE wanted
  <1>1. days # {} => ends \subseteq wanted /\ wanted \subseteq days
    BY FirstDay, LastOfDays DEF Wanted, Switches
  <1>2. Cardinality(days) \in Nat
    BY DaysFinite
  <1>3. CASE Cardinality(days) <= limit
    <2>1. kept = days
      BY <1>3, CapUnfold
    <2>2. QED
      BY <1>1, <1>3, <2>1
  <1>4. CASE ~(Cardinality(days) <= limit)
    <2>1. days # {}
      BY <1>2, <1>4, FS_EmptySet
    <2>2. kept = FillOf(days, limit)[start]
      BY <1>4, CapUnfold
    <2>3. Cardinality(ends) <= 2
      <3>1. IsFiniteSet({Min(days)}) /\ Cardinality({Min(days)}) = 1
        BY FS_Singleton
      <3>2. ends = {Min(days)} \cup {Max(days)}
        OBVIOUS
      <3>3. QED
        BY <3>1, <3>2, FS_AddElement
    <2>4. /\ Cardinality(ends) \in Nat /\ Cardinality(wanted) \in Nat
          /\ start \in SUBSET days /\ ends \subseteq start
      <3>1. ends \subseteq days /\ wanted \subseteq days /\ ends \subseteq wanted
        BY <1>1, <2>1
      <3> HIDE DEF ends, wanted
      <3>2. Cardinality(ends) \in Nat /\ Cardinality(wanted) \in Nat
        BY <3>1, DaysFinite
      <3>3. QED
        BY <3>1, <3>2
    <2>5. Cardinality(start) <= limit
      <3> HIDE DEF ends, wanted
      <3> QED BY <2>3, <2>4
    <2>6. limit <= Cardinality(days)
      BY <1>2, <1>4
    <2>7. /\ kept \in SUBSET days
          /\ start \subseteq kept
          /\ Cardinality(kept) = limit
      <3> HIDE DEF start, kept
      <3>1. kept = LoopOf(days, limit, {})[start]
        BY <2>2, <2>4, <2>6, FillIsLoop
      <3>2. QED
        BY <2>4, <2>5, <2>6, <3>1, LoopFills
    <2>8. Cardinality(wanted) <= limit => wanted \subseteq kept
      <3> HIDE DEF kept, wanted, ends
      <3> QED BY <2>4, <2>7
    <2>9. QED
      <3> HIDE DEF kept, wanted, ends, start
      <3>1. ends \subseteq kept
        BY <2>4, <2>7
      <3>2. QED
        BY <1>4, <2>7, <2>8, <3>1 DEF kept, wanted, ends
  <1>5. QED
    BY <1>3, <1>4

-----------------------------------------------------------------------------
(* The shape of a reduced series *)

\* SeriesKeepsShape, part by part, for any points and any query.
InOf(ps, q) == {d \in DOMAIN ps : d >= q.today - Back[q.range]}
LastsOf(ps, q) ==
    {d \in InOf(ps, q) : ~\E e \in InOf(ps, q) :
        /\ e > d /\ ps[e].kind = ps[d].kind
        /\ Bucket[q.range][e] = Bucket[q.range][d]}
AllOf(ps, q) ==
    LastsOf(ps, q) \cup {d \in InOf(ps, q) : \A e \in InOf(ps, q) : d <= e}
NextOf(days, d) == Min({e \in days : e > d})
SidesOf(ps, days) ==
    {d \in days : d = Min(days) \/ d = Max(days)}
    \cup UNION {{d, NextOf(days, d)} : d \in
            {f \in days : f # Max(days) /\ ps[NextOf(days, f)].kind # ps[f].kind}}

IsQuery(q) == q.range \in Ranges /\ q.today \in Nat /\ q.limit \in Nat /\ q.limit >= 2

\* The points the code reduces to are those the reference definition asks for.
LEMMA SelectedPoints ==
    ASSUME NEW ps, DOMAIN ps \subseteq Days, NEW q, IsQuery(q)
    PROVE  /\ InRange(ps, q) = InOf(ps, q)
           /\ WithFirst(ps, q) = AllOf(ps, q)
           /\ InOf(ps, q) \subseteq Days
           /\ AllOf(ps, q) \subseteq InOf(ps, q)
  <1>1. Back[q.range] \in Nat
    BY SeriesAssumption DEF IsQuery
  <1>2. \A d \in DOMAIN ps : d \in Nat
    BY DaysFinite
  <1>3. InRange(ps, q) = InOf(ps, q)
    BY <1>1, <1>2 DEF InRange, InOf, IsQuery
  <1>4. InOf(ps, q) \subseteq Days /\ \A d \in InOf(ps, q) : d \in Nat
    BY <1>2 DEF InOf
  <1>5. Grouped(ps, q) = LastsOf(ps, q)
    <2>1. PICK in : in = InOf(ps, q)
      OBVIOUS
    <2>2. \A d \in in : d \in Nat
      BY <1>4, <2>1
    <2>3. Grouped(ps, q) =
              {d \in in : \A e \in in :
                  Bucket[q.range][d] = Bucket[q.range][e] /\ ps[d].kind = ps[e].kind => e <= d}
      BY <1>3, <2>1 DEF Grouped
    <2>4. LastsOf(ps, q) =
              {d \in in : ~\E e \in in : e > d /\ ps[e].kind = ps[d].kind
                                         /\ Bucket[q.range][e] = Bucket[q.range][d]}
      BY <2>1 DEF LastsOf
    <2>5. \A d, e \in in : e <= d <=> ~(e > d)
      BY <2>2
    <2>6. QED
      BY <2>3, <2>4, <2>5
  <1>6. {d \in InOf(ps, q) : \A e \in InOf(ps, q) : d <= e} =
            IF InOf(ps, q) = {} THEN {} ELSE {Min(InOf(ps, q))}
    <2>1. PICK in : in = InOf(ps, q)
      OBVIOUS
    <2>2. CASE in # {}
      <3>1. Min(in) \in in /\ \A e \in in : Min(in) <= e
        BY <1>4, <2>1, <2>2, FirstDay
      <3>2. \A d \in in : (\A e \in in : d <= e) => d = Min(in)
        BY <1>4, <2>1, FirstIs
      <3>3. QED
        BY <2>1, <2>2, <3>1, <3>2
    <2>3. QED
      BY <2>1, <2>2
  <1>7. WithFirst(ps, q) = AllOf(ps, q)
    BY <1>3, <1>5, <1>6 DEF WithFirst, AllOf
  <1>8. AllOf(ps, q) \subseteq InOf(ps, q)
    BY DEF AllOf, LastsOf
  <1>9. QED
    BY <1>3, <1>4, <1>7, <1>8

\* The reduced points begin and end where the range does.
LEMMA SelectedEnds ==
    ASSUME NEW ps, DOMAIN ps \subseteq Days, NEW q, IsQuery(q), InOf(ps, q) # {}
    PROVE  /\ AllOf(ps, q) # {}
           /\ Min(AllOf(ps, q)) = Min(InOf(ps, q))
           /\ Max(AllOf(ps, q)) = Max(InOf(ps, q))
  <1>1. PICK in, all : in = InOf(ps, q) /\ all = AllOf(ps, q)
    OBVIOUS
  <1>2. in \subseteq Days /\ in # {} /\ all \subseteq in /\ all \subseteq Days
    BY <1>1, SelectedPoints
  <1>3. Min(in) \in in /\ \A e \in in : Min(in) <= e
    BY <1>2, FirstDay
  <1>4. Max(in) \in in /\ \A e \in in : e <= Max(in)
    BY <1>2, LastOfDays
  <1>5. Min(in) \in all
    BY <1>1, <1>3 DEF AllOf
  <1>6. Max(in) \in all
    <2>1. \A e \in in : ~(e > Max(in))
      BY <1>2, <1>4, DaysFinite
    <2>2. QED
      BY <1>1, <1>4, <2>1 DEF AllOf, LastsOf
  <1>7. Min(all) = Min(in)
    BY <1>2, <1>3, <1>5, FirstIs
  <1>8. Max(all) = Max(in)
    BY <1>2, <1>4, <1>6, LastIs
  <1>9. QED
    BY <1>1, <1>5, <1>7, <1>8

\* Between a day that is not the last and the next one there is no other.
LEMMA NextDay ==
    ASSUME NEW days, days \subseteq Days, NEW d \in days, d # Max(days)
    PROVE  /\ NextOf(days, d) \in days /\ NextOf(days, d) > d
           /\ \A e \in days : e > d => NextOf(days, d) <= e
  <1> DEFINE after == {e \in days : e > d}
  <1>1. Max(days) \in days /\ \A e \in days : e <= Max(days)
    BY LastOfDays
  <1>2. \A e \in days : e \in Nat
    BY DaysFinite
  <1>3. after \subseteq Days /\ after # {}
    BY <1>1, <1>2
  <1>4. Min(after) \in after /\ \A e \in after : Min(after) <= e
    <2> HIDE DEF after
    <2> QED BY <1>3, FirstDay
  <1>5. QED
    BY <1>4 DEF NextOf

\* Both say which points a change of kind is seen by.
LEMMA SidesAreWanted ==
    ASSUME NEW ps, NEW days, days \subseteq Days, days # {}
    PROVE  SidesOf(ps, days) = Wanted(ps, days)
  <1>0. /\ Min(days) \in days /\ Max(days) \in days
        /\ \A e \in days : e \in Nat /\ e <= Max(days)
    BY FirstDay, LastOfDays, DaysFinite
  <1> DEFINE turns == {f \in days : f # Max(days) /\ ps[NextOf(days, f)].kind # ps[f].kind}
             pairs == UNION {{d, NextOf(days, d)} : d \in turns}
  <1>1. {d \in days : d = Min(days) \/ d = Max(days)} = {Min(days), Max(days)}
    BY <1>0
  <1>2. pairs \subseteq Switches(ps, days)
    <2> SUFFICES ASSUME NEW f \in turns
                 PROVE  f \in Switches(ps, days) /\ NextOf(days, f) \in Switches(ps, days)
      OBVIOUS
    <2>1. PICK n \in days : /\ n = NextOf(days, f) /\ n > f
                            /\ \A e \in days : e > f => n <= e
      BY NextDay
    <2>2. f \in days /\ ps[n].kind # ps[f].kind
      BY <2>1
    <2>3. \A e \in days : ~(f < e /\ e < n) /\ ~(n < e /\ e < f)
      BY <1>0, <2>1, <2>2
    <2>4. QED
      BY <2>1, <2>2, <2>3 DEF Switches
  <1>3. Switches(ps, days) \subseteq pairs
    <2> SUFFICES ASSUME NEW d \in days, NEW e \in days, ps[d].kind # ps[e].kind,
                        ~\E f \in days : (d < f /\ f < e) \/ (e < f /\ f < d)
                 PROVE  d \in pairs
      BY DEF Switches
    <2>1. d \in Nat /\ e \in Nat /\ d # e
      BY <1>0
    <2>2. CASE d < e
      <3>1. d # Max(days)
        BY <1>0, <2>1, <2>2
      <3>2. NextOf(days, d) = e
        <4>1. PICK n : n = NextOf(days, d)
          OBVIOUS
        <4>2. n \in days /\ n > d /\ n <= e
          BY <2>2, <3>1, <4>1, <1>0, NextDay
        <4>3. QED
          BY <1>0, <2>1, <2>2, <4>1, <4>2
      <3>3. d \in turns
        BY <3>1, <3>2
      <3>4. QED
        BY <3>3
    <2>3. CASE e < d
      <3>1. e # Max(days)
        BY <1>0, <2>1, <2>3
      <3>2. NextOf(days, e) = d
        <4>1. PICK n : n = NextOf(days, e)
          OBVIOUS
        <4>2. n \in days /\ n > e /\ n <= d
          BY <2>3, <3>1, <4>1, <1>0, NextDay
        <4>3. QED
          BY <1>0, <2>1, <2>3, <4>1, <4>2
      <3>3. e \in turns
        BY <3>1, <3>2
      <3>4. QED
        BY <3>2, <3>3
    <2>4. QED
      BY <2>1, <2>2, <2>3
  <1>4. QED
    BY <1>1, <1>2, <1>3 DEF SidesOf, Wanted

\* The shape SeriesKeepsShape asks for.
Shape(ps, q, ser) ==
    LET all == AllOf(ps, q)
    IN  /\ \A d \in DOMAIN ser : d \in all /\ ser[d] = ps[d]
        /\ InOf(ps, q) # {} => {Min(InOf(ps, q)), Max(InOf(ps, q))} \subseteq DOMAIN ser
        /\ Cardinality(DOMAIN ser) = Min({q.limit, Cardinality(all)})
        /\ Cardinality(SidesOf(ps, all)) <= q.limit => SidesOf(ps, all) \subseteq DOMAIN ser

LEMMA ShapeUnfold == SeriesKeepsShape <=> (stage = "series" => Shape(points, query, series))
  BY DEF SeriesKeepsShape, Shape, SidesOf, NextOf, AllOf, LastsOf, InOf

LEMMA DownsampleShape ==
    ASSUME NEW ps, DOMAIN ps \subseteq Days, NEW q, IsQuery(q)
    PROVE  Shape(ps, q, DownsampleHistory(ps, q))
  <1>1. PICK in, all, limit, kept :
            /\ in = InOf(ps, q) /\ all = AllOf(ps, q) /\ limit = q.limit
            /\ kept = CapHistoryPoints(ps, all, limit)
    OBVIOUS
  <1>2. limit \in Nat /\ limit >= 2 /\ in \subseteq Days /\ all \subseteq in /\ all \subseteq Days
    BY <1>1, SelectedPoints DEF IsQuery
  <1>3. DownsampleHistory(ps, q) = [d \in kept |-> ps[d]]
    BY <1>1, SelectedPoints DEF DownsampleHistory
  <1>4. /\ kept \subseteq all
        /\ all # {} => {Min(all), Max(all)} \subseteq kept
        /\ Cardinality(kept) = IF Cardinality(all) <= limit THEN Cardinality(all) ELSE limit
        /\ all # {} /\ Cardinality(Wanted(ps, all)) <= limit => Wanted(ps, all) \subseteq kept
    BY <1>1, <1>2, CapKeeps
  <1>5. in # {} => {Min(in), Max(in)} \subseteq kept
    BY <1>1, <1>4, SelectedEnds
  <1>6. Cardinality(kept) = Min({limit, Cardinality(all)})
    <2>1. Cardinality(all) \in Nat
      BY <1>2, DaysFinite
    <2>2. PICK n : n = Cardinality(all)
      OBVIOUS
    <2>3. Min({limit, n}) = IF n <= limit THEN n ELSE limit
      BY <1>2, <2>1, <2>2 DEF Min
    <2>4. QED
      BY <1>4, <2>2, <2>3
  <1>7. Cardinality(SidesOf(ps, all)) <= limit => SidesOf(ps, all) \subseteq kept
    <2>1. CASE all = {}
      BY <2>1 DEF SidesOf
    <2>2. CASE all # {}
      BY <1>2, <1>4, <2>2, SidesAreWanted
    <2>3. QED
      BY <2>1, <2>2
  <1>8. DOMAIN DownsampleHistory(ps, q) = kept
        /\ \A d \in kept : DownsampleHistory(ps, q)[d] = ps[d]
    BY <1>3
  <1>9. QED
    BY <1>1, <1>4, <1>5, <1>6, <1>7, <1>8 DEF Shape

-----------------------------------------------------------------------------
(* Sums *)
(* A fold over a finite set. Its laws are proved by taking, among the       *)
(* subsets that break one, a smallest.                                      *)

Total(h, S) == SumFunctionOnSet(h, S)

Chosen(s) == CHOOSE x \in s : TRUE
Rest(s) == s \ {Chosen(s)}

LEMMA ChosenRest ==
    \A s : s # {} => Chosen(s) \in s /\ Rest(s) \subseteq s /\ Rest(s) # s
  BY DEF Chosen, Rest

\* f holds the sums of the subsets of S.
IsSums(h, S, f) ==
    f = [s \in SUBSET S |-> IF s = {} THEN 0 ELSE h[Chosen(s)] + f[Rest(s)]]
SumsOf(h, S) == CHOOSE f : IsSums(h, S, f)

LEMMA TotalOfSums == \A h, S : Total(h, S) = SumsOf(h, S)[S]
  BY DEF Total, SumFunctionOnSet, FoldFunctionOnSet, MapThenFoldSet, SumsOf, IsSums, Chosen, Rest

LEMMA SumsStep ==
    ASSUME NEW h, NEW S, NEW f, IsSums(h, S, f), NEW s \in SUBSET S
    PROVE  f[s] = IF s = {} THEN 0 ELSE h[Chosen(s)] + f[Rest(s)]
  BY DEF IsSums

\* Two tables of sums agree wherever both are defined.
LEMMA SumsUnique ==
    ASSUME NEW h, NEW S, IsFiniteSet(S), NEW T \in SUBSET S,
           NEW f, IsSums(h, S, f), NEW g, IsSums(h, T, g)
    PROVE  f[T] = g[T]
  <1> DEFINE bad == {u \in SUBSET T : f[u] # g[u]}
  <1>1. IsFiniteSet(T)
    BY FS_Subset
  <1>2. bad = {}
    <2> SUFFICES ASSUME bad # {} PROVE FALSE
      OBVIOUS
    <2>0. bad \subseteq SUBSET T /\ bad # {}
      OBVIOUS
    <2>1. PICK u \in bad : \A v \in bad : v \subseteq u => v = u
      <3> HIDE DEF bad
      <3> QED BY <1>1, <2>0, SmallestSubset
    <2>2. f[u] = IF u = {} THEN 0 ELSE h[Chosen(u)] + f[Rest(u)]
      BY <2>1, SumsStep
    <2>3. g[u] = IF u = {} THEN 0 ELSE h[Chosen(u)] + g[Rest(u)]
      BY <2>1, SumsStep
    <2>4. u # {}
      BY <2>1, <2>2, <2>3
    <2>5. Rest(u) \in SUBSET T /\ Rest(u) \notin bad
      BY <2>1, <2>4, ChosenRest
    <2>6. f[Rest(u)] = g[Rest(u)]
      BY <2>5
    <2>7. QED
      BY <2>1, <2>2, <2>3, <2>6
  <1>3. QED
    BY <1>2

\* A finite set has a table of sums.
LEMMA SumsExist ==
    ASSUME NEW h, NEW S, IsFiniteSet(S)
    PROVE  \A T \in SUBSET S : IsSums(h, T, SumsOf(h, T))
  <1> DEFINE bad == {u \in SUBSET S : ~IsSums(h, u, SumsOf(h, u))}
  <1> SUFFICES ASSUME bad # {} PROVE FALSE
    OBVIOUS
  <1>0. bad \subseteq SUBSET S /\ bad # {}
    OBVIOUS
  <1>1. PICK u \in bad : \A v \in bad : v \subseteq u => v = u
    <2> HIDE DEF bad
    <2> QED BY <1>0, SmallestSubset
  <1>2. \A v \in SUBSET u : v # u => IsSums(h, v, SumsOf(h, v))
    BY <1>1
  <1> DEFINE total(v) == SumsOf(h, v)[v]
             G == [s \in SUBSET u |->
                      IF s = {} THEN 0 ELSE h[Chosen(s)] + total(Rest(s))]
  <1>3. ASSUME NEW v \in SUBSET u, v # u
        PROVE  total(v) = G[v]
    <2>1. IsSums(h, v, SumsOf(h, v)) /\ v \in SUBSET v
      BY <1>2, <1>3
    <2>2. total(v) = IF v = {} THEN 0 ELSE h[Chosen(v)] + SumsOf(h, v)[Rest(v)]
      BY <2>1, SumsStep
    <2>3. ASSUME v # {} PROVE SumsOf(h, v)[Rest(v)] = total(Rest(v))
      <3>1. Rest(v) \in SUBSET v /\ Rest(v) \in SUBSET u /\ Rest(v) # u
        BY <1>3, <2>3, ChosenRest
      <3>2. IsSums(h, Rest(v), SumsOf(h, Rest(v)))
        BY <1>2, <3>1
      <3>3. IsFiniteSet(v)
        BY <1>1, <1>3, FS_Subset
      <3>4. QED
        BY <2>1, <3>1, <3>2, <3>3, SumsUnique
    <2>4. G[v] = IF v = {} THEN 0 ELSE h[Chosen(v)] + total(Rest(v))
      OBVIOUS
    <2>5. QED
      BY <2>2, <2>3, <2>4
  <1>4. ASSUME NEW s \in SUBSET u, s # {} PROVE total(Rest(s)) = G[Rest(s)]
    <2>1. Rest(s) \in SUBSET u /\ Rest(s) # u
      BY <1>4, ChosenRest
    <2>2. QED
      BY <1>3, <2>1
  <1>5. G = [s \in SUBSET u |-> IF s = {} THEN 0 ELSE h[Chosen(s)] + G[Rest(s)]]
    BY <1>4
  <1>6. IsSums(h, u, G)
    BY <1>5 DEF IsSums
  <1>7. IsSums(h, u, SumsOf(h, u))
    <2> HIDE DEF G
    <2> QED BY <1>6 DEF SumsOf
  <1>8. QED
    BY <1>1, <1>7

\* The sum of a set unfolds at its chosen element.
LEMMA TotalUnfold ==
    ASSUME NEW h, NEW S, IsFiniteSet(S)
    PROVE  Total(h, S) = IF S = {} THEN 0 ELSE h[Chosen(S)] + Total(h, Rest(S))
  <1>1. IsSums(h, S, SumsOf(h, S)) /\ S \in SUBSET S
    BY SumsExist
  <1>2. SumsOf(h, S)[S] = IF S = {} THEN 0 ELSE h[Chosen(S)] + SumsOf(h, S)[Rest(S)]
    BY <1>1, SumsStep
  <1>3. ASSUME S # {} PROVE SumsOf(h, S)[Rest(S)] = SumsOf(h, Rest(S))[Rest(S)]
    <2>1. Rest(S) \in SUBSET S
      BY <1>3, ChosenRest
    <2>2. IsSums(h, Rest(S), SumsOf(h, Rest(S)))
      BY <2>1, SumsExist
    <2>3. QED
      BY <1>1, <2>1, <2>2, SumsUnique
  <1>4. QED
    BY <1>2, <1>3, TotalOfSums

LEMMA TotalEmpty == \A h : Total(h, {}) = 0
  BY TotalUnfold, FS_EmptySet

\* The sum of natural numbers is a natural number.
LEMMA TotalNat ==
    ASSUME NEW h, NEW S, IsFiniteSet(S), \A k \in S : h[k] \in Nat
    PROVE  Total(h, S) \in Nat
  <1> DEFINE bad == {u \in SUBSET S : Total(h, u) \notin Nat}
  <1> SUFFICES ASSUME bad # {} PROVE FALSE
    OBVIOUS
  <1>0. bad \subseteq SUBSET S /\ bad # {}
    OBVIOUS
  <1>1. PICK u \in bad : \A v \in bad : v \subseteq u => v = u
    <2> HIDE DEF bad
    <2> QED BY <1>0, SmallestSubset
  <1>2. Total(h, u) = IF u = {} THEN 0 ELSE h[Chosen(u)] + Total(h, Rest(u))
    BY <1>1, TotalUnfold, FS_Subset
  <1>3. u # {}
    BY <1>1, <1>2
  <1>4. Chosen(u) \in u /\ Rest(u) \in SUBSET S /\ Rest(u) \notin bad
    BY <1>1, <1>3, ChosenRest
  <1>5. QED
    BY <1>1, <1>2, <1>4

\* Any element may be taken out first.
LEMMA TotalRemove ==
    ASSUME NEW h, NEW S, IsFiniteSet(S), \A k \in S : h[k] \in Nat
    PROVE  \A x \in S : Total(h, S) = h[x] + Total(h, S \ {x})
  <1> DEFINE bad == {u \in SUBSET S : \E x \in u : Total(h, u) # h[x] + Total(h, u \ {x})}
  <1> SUFFICES ASSUME bad # {} PROVE FALSE
    OBVIOUS
  <1>0. bad \subseteq SUBSET S /\ bad # {}
    OBVIOUS
  <1>1. PICK u \in bad : \A v \in bad : v \subseteq u => v = u
    <2> HIDE DEF bad
    <2> QED BY <1>0, SmallestSubset
  <1>2. PICK x \in u : Total(h, u) # h[x] + Total(h, u \ {x})
    BY <1>1
  <1>3. PICK p : p = Chosen(u)
    OBVIOUS
  <1>4. p \in u /\ u \in SUBSET S /\ IsFiniteSet(u)
    BY <1>1, <1>2, <1>3, ChosenRest, FS_Subset
  <1>5. Total(h, u) = h[p] + Total(h, u \ {p})
    BY <1>2, <1>3, <1>4, TotalUnfold DEF Rest
  <1>6. p # x
    BY <1>2, <1>5
  <1>7. u \ {p} \in SUBSET S /\ u \ {p} \notin bad /\ u \ {x} \in SUBSET S /\ u \ {x} \notin bad
    BY <1>1, <1>2, <1>4
  <1>8. Total(h, u \ {p}) = h[x] + Total(h, (u \ {p}) \ {x})
    BY <1>2, <1>6, <1>7
  <1>9. Total(h, u \ {x}) = h[p] + Total(h, (u \ {x}) \ {p})
    BY <1>4, <1>6, <1>7
  <1>10. (u \ {p}) \ {x} = (u \ {x}) \ {p} /\ IsFiniteSet((u \ {x}) \ {p})
    BY <1>4, FS_Subset
  <1>11. Total(h, (u \ {x}) \ {p}) \in Nat
    BY <1>4, <1>10, TotalNat
  <1>12. h[x] \in Nat /\ h[p] \in Nat
    BY <1>2, <1>4
  <1>13. PICK m \in Nat : m = Total(h, (u \ {x}) \ {p})
    BY <1>11
  <1>14. PICK a \in Nat, b \in Nat : a = h[x] /\ b = h[p]
    BY <1>12
  <1>15. Total(h, u) = b + (a + m) /\ h[x] + Total(h, u \ {x}) = a + (b + m)
    BY <1>5, <1>8, <1>9, <1>10, <1>13, <1>14
  <1>16. QED
    BY <1>2, <1>15

\* The sum of a set is the sum of its parts.
LEMMA TotalSplit ==
    ASSUME NEW h, NEW S, IsFiniteSet(S), \A k \in S : h[k] \in Nat, NEW T \in SUBSET S
    PROVE  Total(h, S) = Total(h, T) + Total(h, S \ T)
  <1> DEFINE bad == {u \in SUBSET S : Total(h, S) # Total(h, u) + Total(h, S \ u)}
  <1> SUFFICES ASSUME bad # {} PROVE FALSE
    OBVIOUS
  <1>0. bad \subseteq SUBSET S /\ bad # {}
    OBVIOUS
  <1>1. PICK u \in bad : \A v \in bad : v \subseteq u => v = u
    <2> HIDE DEF bad
    <2> QED BY <1>0, SmallestSubset
  <1>2. \A v \in SUBSET S : IsFiniteSet(v) /\ Total(h, v) \in Nat
    BY FS_Subset, TotalNat
  <1>3. u # {}
    <2> SUFFICES ASSUME u = {} PROVE FALSE
      OBVIOUS
    <2>1. Total(h, u) = 0 /\ S \ u = S
      BY TotalEmpty
    <2>2. Total(h, S) \in Nat
      BY <1>2
    <2>3. QED
      BY <1>1, <2>1, <2>2
  <1>4. PICK x \in u : TRUE
    BY <1>3
  <1>5. u \ {x} \in SUBSET S /\ u \ {x} \notin bad
    BY <1>1, <1>4
  <1>6. Total(h, S) = Total(h, u \ {x}) + Total(h, S \ (u \ {x}))
    BY <1>5
  <1>7. Total(h, u) = h[x] + Total(h, u \ {x})
    BY <1>1, <1>2, <1>4, TotalRemove
  <1>8. (S \ (u \ {x})) \ {x} = S \ u /\ x \in S \ (u \ {x}) /\ S \ (u \ {x}) \in SUBSET S
    BY <1>1, <1>4
  <1>9. Total(h, S \ (u \ {x})) = h[x] + Total(h, S \ u)
    <2>1. \A k \in S \ (u \ {x}) : h[k] \in Nat
      OBVIOUS
    <2>2. Total(h, S \ (u \ {x})) = h[x] + Total(h, (S \ (u \ {x})) \ {x})
      BY <1>2, <1>8, <2>1, TotalRemove
    <2>3. QED
      BY <1>8, <2>2
  <1>10. h[x] \in Nat /\ Total(h, u \ {x}) \in Nat /\ Total(h, S \ u) \in Nat
    BY <1>1, <1>2, <1>4
  <1>11. PICK a \in Nat, b \in Nat, c \in Nat :
            a = h[x] /\ b = Total(h, u \ {x}) /\ c = Total(h, S \ u)
    BY <1>10
  <1>12. Total(h, S) = b + (a + c) /\ Total(h, u) + Total(h, S \ u) = (a + b) + c
    BY <1>6, <1>7, <1>9, <1>11
  <1>13. Total(h, S) # Total(h, u) + Total(h, S \ u)
    BY <1>1
  <1>14. QED
    BY <1>12, <1>13

\* A part of a set adds up to no more than the set.
LEMMA TotalPart ==
    ASSUME NEW h, NEW S, IsFiniteSet(S), \A k \in S : h[k] \in Nat, NEW T \in SUBSET S
    PROVE  Total(h, T) <= Total(h, S)
  <1>1. IsFiniteSet(T) /\ IsFiniteSet(S \ T)
    BY FS_Subset
  <1>2. PICK a \in Nat, b \in Nat : a = Total(h, T) /\ b = Total(h, S \ T)
    BY <1>1, TotalNat
  <1>3. Total(h, S) = a + b
    BY <1>2, TotalSplit
  <1>4. QED
    BY <1>2, <1>3

-----------------------------------------------------------------------------
(* The events of a build *)

\* What a build is given.
IsEvents(es) == \E n \in Nat : es \in [1..n -> Events]

CountsOf(es) == [i \in DOMAIN es |-> es[i].count]
CountSum(es, S) == MapThenSumSet(LAMBDA i : es[i].count, S)

LEMMA EventFields ==
    ASSUME NEW es, IsEvents(es)
    PROVE  /\ IsFiniteSet(DOMAIN es)
           /\ \A i \in DOMAIN es : /\ es[i].day \in Days /\ es[i].day \in Nat
                                   /\ es[i].count \in Nat /\ CountsOf(es)[i] = es[i].count
                                   /\ CountsOf(es)[i] \in Nat
  <1>1. PICK n \in Nat : es \in [1..n -> Events]
    BY DEF IsEvents
  <1>2. IsFiniteSet(DOMAIN es)
    BY <1>1, FS_Interval
  <1>3. \A i \in DOMAIN es : es[i].day \in Days /\ es[i].count \in 0..MaxCount
    BY <1>1 DEF Events
  <1>4. QED
    BY <1>2, <1>3, SeriesAssumption DEF CountsOf, Days

\* Adding up the counts of events is adding up a function of their positions.
IsCounts(es, S, f) ==
    f = [s \in SUBSET S |-> IF s = {} THEN 0 ELSE es[Chosen(s)].count + f[Rest(s)]]
CountTable(es, S) == CHOOSE f : IsCounts(es, S, f)

LEMMA CountSumTable == \A es, S : CountSum(es, S) = CountTable(es, S)[S]
  BY DEF CountSum, MapThenSumSet, MapThenFoldSet, CountTable, IsCounts, Chosen, Rest

LEMMA CountSumTotal ==
    ASSUME NEW es, IsEvents(es), NEW S \in SUBSET DOMAIN es
    PROVE  CountSum(es, S) = Total(CountsOf(es), S)
  <1> DEFINE h == CountsOf(es)
  <1>1. IsFiniteSet(S)
    BY EventFields, FS_Subset
  <1>2. \A s \in SUBSET S : s # {} => es[Chosen(s)].count = h[Chosen(s)]
    BY ChosenRest, EventFields
  <1>3. ASSUME NEW f PROVE IsCounts(es, S, f) <=> IsSums(h, S, f)
    <2>1. [s \in SUBSET S |-> IF s = {} THEN 0 ELSE es[Chosen(s)].count + f[Rest(s)]]
          = [s \in SUBSET S |-> IF s = {} THEN 0 ELSE h[Chosen(s)] + f[Rest(s)]]
      <3> HIDE DEF h
      <3> QED BY <1>2
    <2>2. QED
      BY <2>1 DEF IsCounts, IsSums
  <1> HIDE DEF h
  <1>4. IsSums(h, S, SumsOf(h, S))
    BY <1>1, SumsExist
  <1>5. IsCounts(es, S, CountTable(es, S))
    BY <1>3, <1>4 DEF CountTable
  <1>6. IsSums(h, S, CountTable(es, S))
    BY <1>3, <1>5
  <1>7. CountTable(es, S)[S] = SumsOf(h, S)[S]
    BY <1>1, <1>4, <1>6, SumsUnique
  <1>8. QED
    BY <1>7, CountSumTable, TotalOfSums DEF h

\* The events of some days.
EventsOn(es, E) == {i \in DOMAIN es : es[i].day \in E}

\* Adding up events by day and then the days adds up the events.
LEMMA DailyTotal ==
    ASSUME NEW es, IsEvents(es), NEW E \in SUBSET DOMAIN Aggregated(es)
    PROVE  /\ IsFiniteSet(E)
           /\ \A d \in E : Aggregated(es)[d] \in Nat
           /\ Total(Aggregated(es), E) = Total(CountsOf(es), EventsOn(es, E))
  <1> DEFINE daily == Aggregated(es)
             h == CountsOf(es)
             D == DOMAIN daily
  <1>1. D = {es[i].day : i \in DOMAIN es} /\ D \subseteq Days
    BY EventFields DEF Aggregated
  <1>2. IsFiniteSet(D) /\ IsFiniteSet(E)
    BY <1>1, DaysFinite
  <1>3. \A S \in SUBSET DOMAIN es : IsFiniteSet(S) /\ \A i \in S : h[i] \in Nat
    BY EventFields, FS_Subset
  <1>4. ASSUME NEW d \in D
        PROVE  daily[d] = Total(h, EventsOn(es, {d})) /\ daily[d] \in Nat
    <2>1. EventsOn(es, {d}) = {i \in DOMAIN es : es[i].day = d}
      BY DEF EventsOn
    <2>2. daily[d] = CountSum(es, {i \in DOMAIN es : es[i].day = d})
      BY <1>1 DEF Aggregated, CountSum
    <2>3. EventsOn(es, {d}) \in SUBSET DOMAIN es
      BY DEF EventsOn
    <2>4. daily[d] = Total(h, EventsOn(es, {d}))
      BY <2>1, <2>2, <2>3, CountSumTotal
    <2>5. QED
      <3> HIDE DEF h, daily
      <3> QED BY <1>3, <2>3, <2>4, TotalNat
  <1> DEFINE bad == {u \in SUBSET D : Total(daily, u) # Total(h, EventsOn(es, u))}
  <1>5. bad = {}
    <2> SUFFICES ASSUME bad # {} PROVE FALSE
      OBVIOUS
    <2>1. PICK u \in bad : \A v \in bad : v \subseteq u => v = u
      <3>1. bad \subseteq SUBSET D
        OBVIOUS
      <3> HIDE DEF bad, D
      <3> QED BY <1>2, <3>1, SmallestSubset
    <2> HIDE DEF D, daily, h
    <2>2. u \in SUBSET D /\ Total(daily, u) # Total(h, EventsOn(es, u))
      BY <2>1
    <2>3. u # {}
      <3>1. EventsOn(es, {}) = {}
        BY DEF EventsOn
      <3>2. QED
        BY <2>2, <3>1, TotalEmpty
    <2>4. PICK d \in u : TRUE
      BY <2>3
    <2>5. u \ {d} \in SUBSET D /\ u \ {d} \notin bad
      BY <2>1, <2>2, <2>4
    <2>6. Total(daily, u) = daily[d] + Total(daily, u \ {d})
      <3>1. IsFiniteSet(u) /\ \A x \in u : daily[x] \in Nat
        BY <1>2, <1>4, <2>2, FS_Subset
      <3>2. QED
        BY <2>4, <3>1, TotalRemove
    <2>7. Total(h, EventsOn(es, u)) =
              Total(h, EventsOn(es, {d})) + Total(h, EventsOn(es, u \ {d}))
      <3>1. /\ EventsOn(es, u) \in SUBSET DOMAIN es
            /\ EventsOn(es, {d}) \in SUBSET EventsOn(es, u)
            /\ EventsOn(es, u) \ EventsOn(es, {d}) = EventsOn(es, u \ {d})
        BY <2>4 DEF EventsOn
      <3>2. IsFiniteSet(EventsOn(es, u)) /\ \A i \in EventsOn(es, u) : h[i] \in Nat
        BY <1>3, <3>1
      <3>3. PICK S, T : S = EventsOn(es, u) /\ T = EventsOn(es, {d})
        OBVIOUS
      <3>4. Total(h, S) = Total(h, T) + Total(h, S \ T)
        <4>1. IsFiniteSet(S) /\ \A k \in S : h[k] \in Nat
          BY <3>2, <3>3
        <4>2. T \in SUBSET S
          BY <3>1, <3>3
        <4>3. QED
          BY <4>1, <4>2, TotalSplit
      <3>5. QED
        BY <3>1, <3>3, <3>4
    <2>8. Total(daily, u \ {d}) = Total(h, EventsOn(es, u \ {d}))
      BY <2>5
    <2>9. daily[d] = Total(h, EventsOn(es, {d}))
      BY <1>4, <2>2, <2>4
    <2>10. QED
      BY <2>2, <2>6, <2>7, <2>8, <2>9
  <1>6. QED
    <2>1. E \notin bad
      BY <1>5
    <2>2. QED
      BY <1>2, <1>4, <2>1

\* The events up to a day, as the curve and as its reference count them.
LEMMA UntilTotal ==
    ASSUME NEW es, IsEvents(es), NEW d
    PROVE  Until(Aggregated(es), d) = CountSum(es, {i \in DOMAIN es : es[i].day <= d})
  <1> DEFINE daily == Aggregated(es)
             E == {e \in DOMAIN daily : e <= d}
             S == {i \in DOMAIN es : es[i].day <= d}
  <1>1. DOMAIN daily = {es[i].day : i \in DOMAIN es}
    BY DEF Aggregated
  <1>2. EventsOn(es, E) = S
    BY <1>1 DEF EventsOn
  <1>3. Until(daily, d) = Total(daily, E)
    BY DEF Until, Total
  <1>4. Total(daily, E) = Total(CountsOf(es), EventsOn(es, E))
    <2>1. E \in SUBSET DOMAIN daily
      OBVIOUS
    <2> HIDE DEF E
    <2>2. QED
      BY <2>1, DailyTotal
  <1>5. CountSum(es, S) = Total(CountsOf(es), S)
    <2>1. S \in SUBSET DOMAIN es
      OBVIOUS
    <2> HIDE DEF S
    <2>2. QED
      BY <2>1, CountSumTotal
  <1>6. QED
    BY <1>2, <1>3, <1>4, <1>5

-----------------------------------------------------------------------------
(* Rounding a share *)

LEMMA DivBounds ==
    ASSUME NEW a \in Nat, NEW b \in Nat \ {0}
    PROVE  a \div b \in Nat /\ b * (a \div b) <= a /\ a < b * (a \div b) + b
  OBVIOUS

\* A quotient grows with its dividend.
LEMMA DivGrows ==
    ASSUME NEW a \in Nat, NEW c \in Nat, a <= c, NEW b \in Nat \ {0}
    PROVE  a \div b <= c \div b
  <1>1. PICK p \in Nat : p = a \div b /\ b * p <= a
    BY DivBounds
  <1>2. PICK q \in Nat : q = c \div b /\ c < b * q + b
    BY DivBounds
  <1> SUFFICES ASSUME p > q PROVE FALSE
    BY <1>1, <1>2
  <1>3. b * (q + 1) <= b * p
    BY <1>1, <1>2
  <1>4. b * (q + 1) = b * q + b
    BY <1>2
  <1>5. b * p \in Nat /\ b * q \in Nat
    BY <1>1, <1>2
  <1>6. QED
    BY <1>1, <1>2, <1>3, <1>4, <1>5

\* A part n of total, as a share of current stars: within half a star of it,
\* no more than the stars, and growing with the part.
LEMMA RoundedShare ==
    ASSUME NEW current \in Nat, NEW total \in Nat \ {0}, NEW n \in 0..total
    PROVE  LET share == Rounded(current * n, total)
           IN  /\ share \in Nat
               /\ 2 * total * share <= 2 * current * n + total
               /\ 2 * total * share >= 2 * current * n - total
               /\ share <= current
  <1>1. PICK c \in Nat : c = current * n
    OBVIOUS
  <1>2. PICK b \in Nat \ {0} : b = 2 * total
    OBVIOUS
  <1>3. PICK a \in Nat : a = 2 * c + total
    BY <1>1
  <1>4. PICK s \in Nat : s = Rounded(current * n, total) /\ b * s <= a /\ a < b * s + b
    <2>1. Rounded(current * n, total) = a \div b
      BY <1>1, <1>2, <1>3 DEF Rounded
    <2>2. QED
      BY <1>2, <1>3, <2>1, DivBounds
  <1>5. PICK x \in Nat : x = b * s
    BY <1>2, <1>4
  <1>6. 2 * current * n = 2 * c /\ 2 * total * s = x
    BY <1>1, <1>2, <1>4, <1>5
  <1>7. x <= 2 * c + total /\ x >= 2 * c - total
    BY <1>1, <1>2, <1>3, <1>4, <1>5
  <1>8. s <= current
    <2> SUFFICES ASSUME s > current PROVE FALSE
      BY <1>4
    <2>1. PICK m \in Nat : m = current * total
      OBVIOUS
    <2>2. c <= m
      <3>1. n \in Nat /\ n <= total
        OBVIOUS
      <3>2. current * n <= current * total
        BY <3>1
      <3>3. QED
        BY <1>1, <2>1, <3>2
    <2>3. b * (current + 1) <= b * s
      BY <1>2, <1>4
    <2>4. b * (current + 1) = 2 * m + b
      BY <1>2, <2>1
    <2>5. QED
      BY <1>2, <1>5, <1>7, <2>2, <2>3, <2>4
  <1>9. QED
    BY <1>4, <1>6, <1>7, <1>8

LEMMA RoundedGrows ==
    ASSUME NEW current \in Nat, NEW total \in Nat \ {0}, NEW n \in Nat, NEW m \in Nat, n <= m
    PROVE  Rounded(current * n, total) <= Rounded(current * m, total)
  <1>1. PICK c \in Nat, e \in Nat : c = current * n /\ e = current * m
    OBVIOUS
  <1>2. c <= e
    BY <1>1
  <1>3. 2 * c + total <= 2 * e + total
    BY <1>1, <1>2
  <1>4. 2 * c + total \in Nat /\ 2 * e + total \in Nat /\ 2 * total \in Nat \ {0}
    OBVIOUS
  <1>5. (2 * c + total) \div (2 * total) <= (2 * e + total) \div (2 * total)
    BY <1>3, <1>4, DivGrows
  <1>6. QED
    BY <1>1, <1>5 DEF Rounded

-----------------------------------------------------------------------------
(* The estimated curve *)

\* The shares of a list of days, before the last one is set to the stars.
ShareOf(daily, current, total, d) == Rounded(current * Until(daily, d), total)
IsShare(daily, current, total, f) ==
    f = [d \in DOMAIN daily |->
            LET raw == Rounded(current * Until(daily, d), total)
                before == {f[e] : e \in {e \in DOMAIN daily : e < d}}
            IN  Min({current, Max({raw} \cup before)})]
ShareTable(daily, current, total) == CHOOSE f : IsShare(daily, current, total, f)

LEMMA CurveUnfold ==
    ASSUME NEW es, NEW current
    PROVE  LET daily == Aggregated(es)
               total == SumFunction(daily)
           IN  NormalizeWatchEvents(es, current) =
                   IF total = 0 THEN NoPoints
                   ELSE [d \in DOMAIN daily |->
                            Point("estimated",
                                  IF d = Max(DOMAIN daily) THEN current
                                  ELSE ShareTable(daily, current, total)[d])]
  BY DEF NormalizeWatchEvents, ShareTable, IsShare

\* The clamps never move a share: shares grow with the day and stay below the
\* current stars by themselves. So the loop computes the shares.
LEMMA ClampIdle ==
    ASSUME NEW current \in Nat, NEW raw \in Nat, raw <= current,
           NEW before, \A b \in before : b \in Nat /\ b <= raw
    PROVE  Min({current, Max({raw} \cup before)}) = raw
  <1>1. PICK S : S = {raw} \cup before
    OBVIOUS
  <1>2. raw \in S /\ \A x \in S : x \in Nat /\ raw >= x
    BY <1>1
  <1>3. Max(S) \in S /\ \A x \in S : Max(S) >= x
    BY <1>2 DEF Max
  <1>4. Max(S) = raw
    <2>1. Max(S) \in Nat /\ raw >= Max(S) /\ Max(S) >= raw
      BY <1>2, <1>3
    <2>2. QED
      BY <2>1
  <1>5. Min({current, raw}) = raw
    BY DEF Min
  <1>6. QED
    BY <1>1, <1>4, <1>5

LEMMA SharesComputed ==
    ASSUME NEW daily, DOMAIN daily \subseteq Days, NEW current, NEW total,
           \A d \in DOMAIN daily :
               /\ ShareOf(daily, current, total, d) \in Nat
               /\ ShareOf(daily, current, total, d) <= current
               /\ \A e \in DOMAIN daily : e <= d =>
                      ShareOf(daily, current, total, e) <= ShareOf(daily, current, total, d),
           current \in Nat
    PROVE  \A d \in DOMAIN daily :
               ShareTable(daily, current, total)[d] = ShareOf(daily, current, total, d)
  <1> DEFINE share(d) == ShareOf(daily, current, total, d)
             D == DOMAIN daily
             G == [d \in D |-> share(d)]
             f == ShareTable(daily, current, total)
             clamped(g, d) == Min({current, Max({share(d)} \cup {g[e] : e \in {e \in D : e < d}})})
  <1>0. \A d \in D : d \in Nat
    BY DaysFinite
  <1>1. ASSUME NEW d \in D, NEW g, \A e \in D : e < d => g[e] = share(e)
        PROVE  clamped(g, d) = share(d)
    <2> DEFINE before == {g[e] : e \in {e \in D : e < d}}
    <2>1. \A b \in before : b \in Nat /\ b <= share(d)
      <3> SUFFICES ASSUME NEW e \in D, e < d PROVE g[e] \in Nat /\ g[e] <= share(d)
        OBVIOUS
      <3>1. e <= d
        BY <1>0
      <3>2. share(e) \in Nat /\ share(e) <= share(d)
        BY <3>1
      <3>3. QED
        BY <1>1, <3>2
    <2>2. share(d) \in Nat /\ share(d) <= current
      OBVIOUS
    <2> HIDE DEF before, share
    <2>3. Min({current, Max({share(d)} \cup before)}) = share(d)
      BY <2>1, <2>2, ClampIdle
    <2>4. QED
      BY <2>3 DEF before
  <1>2. IsShare(daily, current, total, G)
    <2>1. \A d \in D : G[d] = clamped(G, d)
      <3> SUFFICES ASSUME NEW d \in D PROVE G[d] = clamped(G, d)
        OBVIOUS
      <3>1. \A e \in D : e < d => G[e] = share(e)
        OBVIOUS
      <3>2. G[d] = share(d)
        OBVIOUS
      <3> HIDE DEF G, share, clamped
      <3>3. clamped(G, d) = share(d)
        BY <1>1, <3>1
      <3>4. QED
        BY <3>2, <3>3
    <2>2. G = [d \in D |-> clamped(G, d)]
      <3>1. G = [d \in D |-> G[d]]
        OBVIOUS
      <3> HIDE DEF G, clamped
      <3>2. QED
        BY <2>1, <3>1
    <2> HIDE DEF G
    <2>3. QED
      BY <2>2 DEF IsShare, ShareOf
  <1>3. IsShare(daily, current, total, f)
    <2> HIDE DEF G
    <2> QED BY <1>2 DEF ShareTable
  <1>4. \A d \in D : f[d] = clamped(f, d)
    <2> HIDE DEF f
    <2> QED BY <1>3 DEF IsShare, ShareOf
  <1> DEFINE bad == {d \in D : f[d] # share(d)}
  <1>5. bad = {}
    <2> SUFFICES ASSUME bad # {} PROVE FALSE
      OBVIOUS
    <2> HIDE DEF f, share, clamped
    <2>1. Min(bad) \in bad /\ \A e \in bad : Min(bad) <= e
      <3>1. bad \subseteq Days
        OBVIOUS
      <3> HIDE DEF bad
      <3> QED BY <3>1, FirstDay
    <2>2. PICK d \in D : d \in bad /\ \A e \in bad : d <= e
      BY <2>1
    <2>3. \A e \in D : e < d => f[e] = share(e)
      BY <1>0, <2>2
    <2>4. clamped(f, d) = share(d)
      BY <1>1, <2>3
    <2>5. QED
      BY <1>4, <2>2, <2>4
  <1>6. QED
    <2> HIDE DEF f, share
    <2> QED BY <1>5 DEF f, share

\* The requirement CurveFitsEvents makes of a curve.
Fits(es, current, cv) ==
    LET total == CountSum(es, {i \in DOMAIN es : es[i].day <= LastDay})
        sum(d) == CountSum(es, {i \in DOMAIN es : es[i].day <= d})
    IN  /\ DOMAIN cv = IF total = 0 THEN {} ELSE {es[i].day : i \in DOMAIN es}
        /\ \A d \in DOMAIN cv :
               /\ 2 * total * cv[d].count <= 2 * current * sum(d) + total
               /\ 2 * total * cv[d].count >= 2 * current * sum(d) - total
               /\ \A e \in DOMAIN cv : d <= e => cv[d].count <= cv[e].count
        /\ cv # NoPoints => cv[Max(DOMAIN cv)].count = current

LEMMA FitsUnfold == CurveFitsEvents <=> (stage = "curve" => Fits(events, stars, curve))
  BY DEF CurveFitsEvents, Fits, CountSum

LEMMA NormalizeFits ==
    ASSUME NEW es, IsEvents(es), NEW current \in Nat
    PROVE  Fits(es, current, NormalizeWatchEvents(es, current))
  <1>1. PICK daily, total, D, cv :
            /\ daily = Aggregated(es) /\ total = SumFunction(daily) /\ D = DOMAIN daily
            /\ cv = NormalizeWatchEvents(es, current)
    OBVIOUS
  <1> DEFINE sum(d) == CountSum(es, {i \in DOMAIN es : es[i].day <= d})
  <1>2. D = {es[i].day : i \in DOMAIN es} /\ D \subseteq Days /\ IsFiniteSet(D)
        /\ \A d \in D : d \in Nat /\ d <= LastDay
    <2>1. D = {es[i].day : i \in DOMAIN es} /\ D \subseteq Days
      BY <1>1, EventFields DEF Aggregated
    <2>2. QED
      BY <2>1, DaysFinite
  <1>3. \A d \in D : daily[d] \in Nat
    <2>1. D \in SUBSET DOMAIN Aggregated(es)
      BY <1>1
    <2>2. QED
      BY <1>1, <2>1, DailyTotal
  <1>4. total = Total(daily, D) /\ total \in Nat
    <2>1. total = Total(daily, D)
      BY <1>1 DEF SumFunction, Total
    <2>2. QED
      BY <1>2, <1>3, <2>1, TotalNat
  <1>5. \A d : Until(daily, d) = sum(d)
    BY <1>1, UntilTotal
  <1>6. \A d : Until(daily, d) \in Nat /\ Until(daily, d) <= total
    <2> TAKE d
    <2>1. PICK E : E = {e \in D : e <= d}
      OBVIOUS
    <2>2. E \in SUBSET D /\ IsFiniteSet(E)
      BY <1>2, <2>1, FS_Subset
    <2>3. Until(daily, d) = Total(daily, E)
      BY <1>1, <2>1 DEF Until, Total
    <2>4. QED
      BY <1>2, <1>3, <1>4, <2>2, <2>3, TotalNat, TotalPart
  <1>7. \A d, e \in D : d <= e => Until(daily, d) <= Until(daily, e)
    <2> SUFFICES ASSUME NEW d \in D, NEW e \in D, d <= e
                 PROVE  Until(daily, d) <= Until(daily, e)
      OBVIOUS
    <2>1. PICK E, F : E = {x \in D : x <= d} /\ F = {x \in D : x <= e}
      OBVIOUS
    <2>2. E \in SUBSET F /\ F \in SUBSET D /\ IsFiniteSet(F)
      <3>1. d \in Nat /\ e \in Nat /\ \A x \in D : x \in Nat
        BY <1>2
      <3>2. \A x \in D : x <= d => x <= e
        BY ONLY <3>1, d <= e
      <3>3. QED
        BY <1>2, <2>1, <3>2, FS_Subset
    <2>3. Until(daily, d) = Total(daily, E) /\ Until(daily, e) = Total(daily, F)
      BY <1>1, <2>1 DEF Until, Total
    <2>4. \A k \in F : daily[k] \in Nat
      BY <1>3, <2>2
    <2>5. QED
      BY <2>2, <2>3, <2>4, TotalPart
  <1>8. sum(LastDay) = total
    <2>1. {e \in D : e <= LastDay} = D
      BY <1>2
    <2>2. Until(daily, LastDay) = Total(daily, D)
      BY <1>1, <2>1 DEF Until, Total
    <2>3. QED
      BY <1>4, <1>5, <2>2
  <1>9. CASE total = 0
    <2>1. cv = NoPoints
      BY <1>1, <1>9, CurveUnfold
    <2>0. DOMAIN cv = {}
      BY <2>1 DEF NoPoints
    <2>2. QED
      BY <1>1, <1>8, <1>9, <2>0, <2>1 DEF Fits
  <1>10. CASE total # 0
    <2>1. total \in Nat \ {0}
      BY <1>4, <1>10
    <2> DEFINE share(d) == ShareOf(daily, current, total, d)
    <2>2. ASSUME NEW d \in D
          PROVE  /\ share(d) \in Nat /\ share(d) <= current
                 /\ 2 * total * share(d) <= 2 * current * sum(d) + total
                 /\ 2 * total * share(d) >= 2 * current * sum(d) - total
                 /\ \A e \in D : d <= e => share(d) <= share(e)
      <3>1. PICK n \in 0..total : n = Until(daily, d) /\ n = sum(d)
        BY <1>4, <1>5, <1>6
      <3>2. share(d) = Rounded(current * n, total)
        BY <3>1 DEF ShareOf
      <3>3. ASSUME NEW e \in D, d <= e PROVE share(d) <= share(e)
        <4>1. PICK m \in Nat : m = Until(daily, e) /\ n <= m
          BY <1>6, <1>7, <3>1, <3>3
        <4>2. share(e) = Rounded(current * m, total)
          BY <4>1 DEF ShareOf
        <4>3. n \in Nat
          OBVIOUS
        <4>4. QED
          BY <2>1, <3>2, <4>1, <4>2, <4>3, RoundedGrows
      <3> HIDE DEF share, sum
      <3>4. /\ share(d) \in Nat /\ share(d) <= current
            /\ 2 * total * share(d) <= 2 * current * n + total
            /\ 2 * total * share(d) >= 2 * current * n - total
        BY <2>1, <3>2, RoundedShare
      <3>5. QED
        BY <3>1, <3>3, <3>4
    <2>3. \A d \in D : ShareTable(daily, current, total)[d] = share(d)
      <3>1. \A d \in D : /\ share(d) \in Nat /\ share(d) <= current
                         /\ \A e \in D : e <= d => share(e) <= share(d)
        BY <2>2
      <3>2. QED
        BY <1>1, <1>2, <3>1, SharesComputed
    <2>4. cv = [d \in D |-> Point("estimated", IF d = Max(D) THEN current
                                               ELSE ShareTable(daily, current, total)[d])]
      BY <1>1, <1>10, CurveUnfold
    <2>5. DOMAIN cv = D /\ \A d \in D : cv[d].count = IF d = Max(D) THEN current ELSE share(d)
      BY <2>3, <2>4 DEF Point
    <2>6. D # {} /\ Max(D) \in D /\ \A d \in D : d <= Max(D)
      <3>1. D # {}
        BY <1>4, <1>10, TotalEmpty
      <3>2. QED
        BY <1>2, <3>1, LastOfDays
    <2>7. sum(Max(D)) = total
      <3>1. {e \in D : e <= Max(D)} = D
        BY <2>6
      <3>2. Until(daily, Max(D)) = Total(daily, D)
        BY <1>1, <3>1 DEF Until, Total
      <3>3. QED
        BY <1>4, <1>5, <3>2
    <2>8. ASSUME NEW d \in D
          PROVE  /\ 2 * total * cv[d].count <= 2 * current * sum(d) + total
                 /\ 2 * total * cv[d].count >= 2 * current * sum(d) - total
                 /\ \A e \in D : d <= e => cv[d].count <= cv[e].count
      <3>1. CASE d = Max(D)
        <4>1. cv[d].count = current /\ sum(d) = total
          BY <2>5, <2>7, <3>1
        <4>2. PICK c \in Nat : c = 2 * current * total /\ c = 2 * total * current
          <5>1. 2 * current * total \in Nat /\ 2 * current * total = 2 * total * current
            BY <2>1
          <5>2. QED
            BY <5>1
        <4>3. ASSUME NEW e \in D, d <= e PROVE e = d
          BY <1>2, <2>6, <3>1, <4>3
        <4>4. \A e \in D : d <= e => cv[d].count <= cv[e].count
          BY <4>1, <4>3
        <4>5. c <= c + total /\ c >= c - total
          BY <2>1, <4>2
        <4> HIDE DEF sum
        <4>6. QED
          BY <4>1, <4>2, <4>4, <4>5
      <3>2. CASE d # Max(D)
        <4>1. cv[d].count = share(d)
          BY <2>5, <3>2
        <4> HIDE DEF sum, share
        <4>2. \A e \in D : d <= e => cv[d].count <= cv[e].count
          BY <2>2, <2>5, <4>1
        <4>3. QED
          BY <2>2, <4>1, <4>2
      <3>3. QED
        BY <3>1, <3>2
    <2>9. Fits(es, current, cv)
      <3>1. cv[Max(D)].count = current
        BY <2>5, <2>6
      <3>2. D = {es[i].day : i \in DOMAIN es} /\ total # 0
        BY <1>2, <1>10
      <3>3. QED
        BY <1>8, <2>5, <2>8, <3>1, <3>2 DEF Fits
    <2>10. QED
      BY <1>1, <2>9
  <1>11. QED
    BY <1>9, <1>10

-----------------------------------------------------------------------------
(* The invariants *)

\* A build is given events, and its curve is an estimate about known days.
KnownDays ==
    /\ stage = "events" => IsEvents(events) /\ stars \in Nat
    /\ stage = "curve" => /\ DOMAIN curve \subseteq Days
                          /\ \A d \in DOMAIN curve : curve[d].kind = "estimated"

\* What is stored and what is known exactly belong together until the answer.
IsMerged(ps, snapshots) ==
    /\ DOMAIN snapshots \subseteq DOMAIN ps /\ DOMAIN ps \subseteq Days
    /\ \A d \in DOMAIN snapshots : ps[d] = snapshots[d] /\ ps[d].kind = "snapshot"
    /\ \A d \in DOMAIN ps \ DOMAIN snapshots : ps[d].kind = "estimated"

SnapshotsStored == stage \in {"merged", "series"} => IsMerged(points, exact)

SeriesInv == KnownDays /\ SnapshotsStored /\ CurveFitsEvents

\* A curve is about days of the events.
LEMMA CurveDays ==
    ASSUME NEW es, NEW current, \A i \in DOMAIN es : es[i].day \in Days
    PROVE  DOMAIN NormalizeWatchEvents(es, current) \subseteq Days
  <1>1. DOMAIN Aggregated(es) \subseteq Days
    BY DEF Aggregated
  <1>2. DOMAIN NoPoints = {}
    BY DEF NoPoints
  <1>3. DOMAIN NormalizeWatchEvents(es, current) \in {{}, DOMAIN Aggregated(es)}
    BY <1>2 DEF NormalizeWatchEvents
  <1>4. QED
    BY <1>1, <1>3

\* And an estimate.
LEMMA CurveKind ==
    ASSUME NEW es, NEW current
    PROVE  \A d \in DOMAIN NormalizeWatchEvents(es, current) :
               NormalizeWatchEvents(es, current)[d].kind = "estimated"
  <1>1. PICK daily, total, table, cv :
            /\ daily = Aggregated(es) /\ total = SumFunction(daily)
            /\ table = ShareTable(daily, current, total)
            /\ cv = NormalizeWatchEvents(es, current)
    OBVIOUS
  <1>2. cv = IF total = 0 THEN NoPoints
             ELSE [d \in DOMAIN daily |->
                      Point("estimated", IF d = Max(DOMAIN daily) THEN current ELSE table[d])]
    BY <1>1, CurveUnfold
  <1>3. DOMAIN NoPoints = {}
    BY DEF NoPoints
  <1>4. \A d \in DOMAIN cv : cv[d].kind = "estimated"
    BY <1>2, <1>3 DEF Point
  <1>5. QED
    BY <1>1, <1>4

LEMMA SeriesInit == Init => SeriesInv
  BY DEF Init, SeriesInv, KnownDays, SnapshotsStored, CurveFitsEvents

LEMMA SeriesNext == SeriesInv /\ [Next]_vars => SeriesInv'
  <1> SUFFICES ASSUME SeriesInv, [Next]_vars PROVE SeriesInv'
    OBVIOUS
  <1>1. ASSUME Receive PROVE SeriesInv'
    <2>1. PICK n \in 0..MaxEvents : events' \in [1..n -> Events]
      BY <1>1 DEF Receive
    <2>2. IsEvents(events') /\ stars' \in Nat
      <3>1. n \in Nat /\ \A m \in 0..MaxStars : m \in Nat
        BY SeriesAssumption
      <3>2. IsEvents(events')
        BY <2>1, <3>1 DEF IsEvents
      <3>3. QED
        BY <1>1, <3>1, <3>2 DEF Receive
    <2>3. stage' = "events"
      BY <1>1 DEF Receive
    <2>4. QED
      BY <2>2, <2>3 DEF SeriesInv, KnownDays, SnapshotsStored, CurveFitsEvents
  <1>2. ASSUME Normalize PROVE SeriesInv'
    <2>1. IsEvents(events) /\ stars \in Nat
      BY <1>2 DEF Normalize, SeriesInv, KnownDays
    <2>2. /\ stage' = "curve" /\ events' = events /\ stars' = stars
          /\ curve' = NormalizeWatchEvents(events, stars)
      BY <1>2 DEF Normalize
    <2>3. DOMAIN curve' \subseteq Days /\ \A d \in DOMAIN curve' : curve'[d].kind = "estimated"
      BY <2>1, <2>2, CurveDays, CurveKind, EventFields
    <2>4. CurveFitsEvents'
      <3>1. Fits(events, stars, curve')
        BY <2>1, <2>2, NormalizeFits
      <3>2. Fits(events, stars, curve)'
        BY <2>2, <3>1
      <3>3. CurveFitsEvents' <=> (stage = "curve" => Fits(events, stars, curve))'
        BY FitsUnfold, PTL
      <3>4. QED
        BY <3>2, <3>3
    <2>5. QED
      BY <2>2, <2>3, <2>4 DEF SeriesInv, KnownDays, SnapshotsStored
  <1>3. ASSUME Merge PROVE SeriesInv'
    <2>1. PICK days \in UNION {kSubset(n, Days) : n \in 0..MaxExact} :
              \E counts \in [days -> {0, MaxStars}] :
                  exact' = [d \in days |-> Point("snapshot", counts[d])]
      BY <1>3 DEF Merge
    <2>2. DOMAIN exact' \subseteq Days /\ \A d \in DOMAIN exact' : exact'[d].kind = "snapshot"
      <3>1. days \subseteq Days
        BY DEF kSubset
      <3>2. QED
        BY <2>1, <3>1 DEF Point
    <2>3. /\ DOMAIN curve \subseteq Days
          /\ \A d \in DOMAIN curve : curve[d].kind = "estimated"
          /\ curve' = curve /\ stage' = "merged"
      BY <1>3 DEF Merge, SeriesInv, KnownDays
    <2>4. points' = MergeExactSnapshots(curve, exact')
      BY <1>3 DEF Merge
    <2>5. /\ DOMAIN points' = DOMAIN curve \cup DOMAIN exact'
          /\ \A d \in DOMAIN exact' : points'[d] = exact'[d]
          /\ \A d \in DOMAIN curve \ DOMAIN exact' : points'[d] = curve[d]
      BY <2>4 DEF MergeExactSnapshots
    <2>6. IsMerged(points', exact')
      BY <2>2, <2>3, <2>5 DEF IsMerged
    <2>7. QED
      BY <2>3, <2>6 DEF SeriesInv, KnownDays, SnapshotsStored, CurveFitsEvents
  <1>4. ASSUME Lookup PROVE SeriesInv'
    <2>1. stage = "merged" /\ stage' = "series" /\ points' = points /\ exact' = exact
      BY <1>4 DEF Lookup
    <2>2. IsMerged(points', exact')
      BY <2>1 DEF SeriesInv, SnapshotsStored
    <2>3. QED
      BY <2>1, <2>2 DEF SeriesInv, KnownDays, SnapshotsStored, CurveFitsEvents
  <1>5. ASSUME UNCHANGED vars PROVE SeriesInv'
    <2>1. KnownDays' /\ SnapshotsStored'
      BY <1>5 DEF vars, SeriesInv, KnownDays, SnapshotsStored, IsMerged
    <2>2. CurveFitsEvents'
      <3>1. CurveFitsEvents' <=> (stage = "curve" => Fits(events, stars, curve))'
        BY FitsUnfold, PTL
      <3>2. QED
        BY <1>5, <3>1, FitsUnfold DEF vars, SeriesInv
    <2>3. QED
      BY <2>1, <2>2 DEF SeriesInv
  <1>6. QED
    BY <1>1, <1>2, <1>3, <1>4, <1>5 DEF Next

\* Whatever events a build is given, its estimated curve is about their days,
\* each within half a star of its share of the current stars, never falls and
\* ends at the current stars (normalize.go:11).
THEOREM CurveCorrect == Spec => []CurveFitsEvents
  <1>1. SeriesInv => CurveFitsEvents
    BY DEF SeriesInv
  <1>2. QED
    BY SeriesInit, SeriesNext, <1>1, PTL DEF Spec

\* Whatever points are stored and whatever range is asked for, the reduced
\* series keeps their shape (downsample.go:20), as long as two points or more
\* are permitted: with one, the code answers with both ends.
THEOREM ShapeCorrect ==
    ASSUME \A m \in Maximums : m >= 2
    PROVE  Spec => []SeriesKeepsShape
  <1>1. Init => SeriesKeepsShape
    BY DEF Init, SeriesKeepsShape
  <1>2. SeriesInv /\ SeriesKeepsShape /\ [Next]_vars => SeriesKeepsShape'
    <2> SUFFICES ASSUME SeriesInv, SeriesKeepsShape, [Next]_vars, stage' = "series"
                 PROVE  Shape(points, query, series)'
      <3>1. SeriesKeepsShape' <=> (stage = "series" => Shape(points, query, series))'
        BY ShapeUnfold, PTL
      <3>2. QED
        BY <3>1
    <2>1. CASE Lookup
      <3>1. PICK range \in Ranges, today \in {LastDay, LastDay + 1}, limit \in Maximums :
                query' = [range |-> range, today |-> today, limit |-> limit]
        BY <2>1 DEF Lookup
      <3>2. IsQuery(query')
        BY <3>1, SeriesAssumption DEF IsQuery
      <3>3. DOMAIN points \subseteq Days
        BY <2>1 DEF Lookup, SeriesInv, SnapshotsStored, IsMerged
      <3>4. Shape(points, query', DownsampleHistory(points, query'))
        BY <3>2, <3>3, DownsampleShape
      <3>5. points' = points /\ series' = DownsampleHistory(points, query')
        BY <2>1 DEF Lookup
      <3>6. QED
        BY <3>4, <3>5
    <2>2. CASE UNCHANGED vars
      <3>1. Shape(points, query, series)
        BY <2>2, ShapeUnfold DEF vars
      <3>2. QED
        BY <2>2, <3>1 DEF vars
    <2>3. QED
      BY <2>1, <2>2 DEF Next, Receive, Normalize, Merge
  <1>3. QED
    BY SeriesInit, SeriesNext, <1>1, <1>2, PTL DEF Spec

\* What is asked for is a range and a limit the reduction is proved for.
KnownQuery == stage = "series" => IsQuery(query)

\* A shape is enough for what is known exactly to be seen.
LEMMA ShapeShowsSnapshots ==
    ASSUME SnapshotsStored, KnownQuery, SeriesKeepsShape
    PROVE  SnapshotsReachReaders
  <1> SUFFICES ASSUME stage = "series" PROVE SnapshotsReachReaders
    BY DEF SnapshotsReachReaders
  <1>1. PICK in, all, shown, limit, range :
            /\ in = InOf(points, query) /\ all = AllOf(points, query)
            /\ shown = DOMAIN series /\ limit = query.limit /\ range = query.range
    OBVIOUS
  <1>2. IsMerged(points, exact) /\ IsQuery(query)
    BY DEF SnapshotsStored, KnownQuery
  <1>3. /\ in \subseteq Days /\ all \subseteq in /\ in \subseteq DOMAIN points
        /\ \A d \in in : d \in Nat
    <2>1. in \subseteq Days /\ all \subseteq in
      BY <1>1, <1>2, SelectedPoints DEF IsMerged
    <2>2. QED
      BY <1>1, <2>1, DaysFinite DEF InOf
  <1>4. /\ \A d \in shown : d \in all /\ series[d] = points[d]
        /\ in # {} => {Min(in), Max(in)} \subseteq shown
        /\ Cardinality(shown) = Min({limit, Cardinality(all)})
    BY <1>1, ShapeUnfold DEF Shape
  <1>5. PICK asked : asked = {d \in DOMAIN exact : d >= query.today - Back[range]}
    OBVIOUS
  <1>6. asked \subseteq in
    BY <1>1, <1>2, <1>5 DEF InOf, IsMerged
  <1>7. \A d \in shown : IF d \in DOMAIN exact THEN series[d] = exact[d]
                                              ELSE series[d].kind = "estimated"
    BY <1>2, <1>3, <1>4 DEF IsMerged
  <1>8. \A d \in asked : \E e, f \in shown : e <= d /\ d <= f
    <2> SUFFICES ASSUME NEW d \in asked PROVE \E e, f \in shown : e <= d /\ d <= f
      OBVIOUS
    <2>1. in # {} /\ d \in in
      BY <1>6
    <2>2. Min(in) <= d /\ d <= Max(in)
      BY <1>3, <2>1, FirstDay, LastOfDays
    <2>3. QED
      BY <1>4, <2>1, <2>2
  <1>9. ASSUME Cardinality(shown) < limit, NEW d \in asked
        PROVE  \E e \in shown \cap DOMAIN exact :
                   e >= d /\ Bucket[range][e] = Bucket[range][d]
    <2>1. shown = all
      <3>1. /\ shown \subseteq all /\ all \subseteq Days /\ IsFiniteSet(all)
            /\ Cardinality(all) \in Nat
        BY <1>3, <1>4, DaysFinite
      <3>2. limit \in Nat
        BY <1>1, <1>2 DEF IsQuery
      <3>3. PICK n : n = Cardinality(all)
        OBVIOUS
      <3>4. Min({limit, n}) = IF n <= limit THEN n ELSE limit
        BY <3>1, <3>2, <3>3 DEF Min
      <3>5. Cardinality(shown) = Cardinality(all)
        BY <1>4, <1>9, <3>1, <3>2, <3>3, <3>4
      <3>6. QED
        BY <3>1, <3>5, FS_Subset
    <2>2. PICK same : same = {e \in in : /\ points[e].kind = points[d].kind
                                         /\ Bucket[range][e] = Bucket[range][d]}
      OBVIOUS
    <2>3. d \in in /\ d \in same /\ same \subseteq Days
      BY <1>3, <1>6, <2>2
    <2>4. PICK m \in same : \A e \in same : e <= m
      BY <2>3, LastOfDays
    <2>5. m \in in /\ d <= m /\ m \in Nat /\ d \in Nat
      BY <1>3, <2>2, <2>3, <2>4
    <2>6. \A e \in in : ~(e > m /\ points[e].kind = points[m].kind
                                /\ Bucket[range][e] = Bucket[range][m])
      BY <1>3, <2>2, <2>4, <2>5
    <2>7. m \in all
      BY <1>1, <2>5, <2>6 DEF AllOf, LastsOf
    <2>8. points[m].kind = "snapshot"
      BY <1>2, <1>5, <2>2 DEF IsMerged
    <2>9. m \in DOMAIN exact
      BY <1>2, <1>3, <2>5, <2>8 DEF IsMerged
    <2>10. QED
      BY <2>1, <2>2, <2>5, <2>7, <2>9
  <1>10. QED
    BY <1>1, <1>5, <1>7, <1>8, <1>9 DEF SnapshotsReachReaders

\* Whatever curve and snapshots are merged and whatever range is asked for, the
\* answer shows the exact count of a day and never an estimate for it, reaches
\* from before the first to behind the last exact snapshot of the range, and
\* hides none while there is room but behind a later one of its bucket
\* (normalize.go:74, downsample.go:20), as long as two points are permitted.
THEOREM SnapshotsShown ==
    ASSUME \A m \in Maximums : m >= 2
    PROVE  Spec => []SnapshotsReachReaders
  <1>1. Init => KnownQuery
    BY DEF Init, KnownQuery
  <1>2. KnownQuery /\ [Next]_vars => KnownQuery'
    <2> SUFFICES ASSUME KnownQuery, [Next]_vars, stage' = "series" PROVE IsQuery(query')
      BY DEF KnownQuery
    <2>1. CASE Lookup
      <3>1. PICK range \in Ranges, today \in {LastDay, LastDay + 1}, limit \in Maximums :
                query' = [range |-> range, today |-> today, limit |-> limit]
        BY <2>1 DEF Lookup
      <3>2. QED
        BY <3>1, SeriesAssumption DEF IsQuery
    <2>2. CASE UNCHANGED vars
      BY <2>2 DEF vars, KnownQuery
    <2>3. QED
      BY <2>1, <2>2 DEF Next, Receive, Normalize, Merge
  <1>3. Spec => []SeriesKeepsShape
    BY ShapeCorrect
  <1>4. SeriesInv => SnapshotsStored
    BY DEF SeriesInv
  <1>5. SnapshotsStored /\ KnownQuery /\ SeriesKeepsShape => SnapshotsReachReaders
    BY ShapeShowsSnapshots
  <1>6. QED
    BY SeriesInit, SeriesNext, <1>1, <1>2, <1>3, <1>4, <1>5, PTL DEF Spec

=============================================================================
