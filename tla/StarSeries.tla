----------------------------- MODULE StarSeries -----------------------------
(***************************************************************************)
(* What becomes of the numbers of a star history: a build turns the daily  *)
(* WatchEvents into an estimated curve and merges the exact snapshots into *)
(* it (internal/starhistory/normalize.go); a lookup reduces the stored     *)
(* points to the range it was asked for (downsample.go).                   *)
(*                                                                         *)
(* A day is its distance from the first one. A list of points sorted by    *)
(* day, one for a day, is a function from days to points. Source and       *)
(* precision go together, so one kind stands for both. Validation errors   *)
(* are left out: the inputs are what the provider and the store return.    *)
(***************************************************************************)
EXTENDS Integers, Sequences, FiniteSets, FiniteSetsExt, Functions

CONSTANTS
    LastDay,    \* bound: days
    MaxEvents,  \* bound: events of one build
    MaxCount,   \* bound: count of one event
    MaxStars,   \* bound: current stars and exact counts
    MaxExact,   \* bound: exact snapshots of one repository
    Ranges,
    Back,       \* days a range goes back from today
    Bucket,     \* the day, week or month of a day, by range
    Maximums    \* STAR_HISTORY_MAX_POINTS (500)

Days == 0..LastDay

ASSUME SeriesAssumption ==
    /\ LastDay \in Nat
    /\ MaxEvents \in Nat /\ MaxCount \in Nat
    /\ MaxStars \in Nat /\ MaxExact \in Nat
    /\ Back \in [Ranges -> Nat]
    /\ Bucket \in [Ranges -> [Days -> Nat]]
    /\ Maximums \subseteq Nat \ {0}

VARIABLES
    stage,   \* how far the build and the lookup after it are
    events,  \* of the provider
    stars,   \* current_stars of the request
    curve,   \* estimated points
    exact,   \* exact snapshots of the store
    points,  \* star_history_cache.points
    query,   \* range, today and limit of a lookup
    series   \* its answer

vars == <<stage, events, stars, curve, exact, points, query, series>>

Events == [day : Days, count : 0..MaxCount]
NoPoints == <<>>
NoQuery == [range |-> "none", today |-> 0, limit |-> 0]

Point(kind, count) == [kind |-> kind, count |-> count]

Init ==
    /\ stage = "idle"
    /\ events = <<>>
    /\ stars = 0
    /\ curve = NoPoints
    /\ exact = NoPoints
    /\ points = NoPoints
    /\ query = NoQuery
    /\ series = NoPoints

-----------------------------------------------------------------------------
(* Normalising and merging. *)

\* Mutant of Aggregated: the last event of a day counts.
AggregatedLast(es) ==
    [d \in {es[i].day : i \in DOMAIN es} |->
        es[Max({i \in DOMAIN es : es[i].day = d})].count]

\* Events of one day are added up, whatever order they come in.
Aggregated(es) ==
    [d \in {es[i].day : i \in DOMAIN es} |->
        MapThenSumSet(LAMBDA i : es[i].count, {i \in DOMAIN es : es[i].day = d})]

Until(f, d) == SumFunctionOnSet(f, {e \in DOMAIN f : e <= d})

\* n / total rounded to the nearest integer.
Rounded(n, total) == (2 * n + total) \div (2 * total)

\* The clamps to the point before and to the current stars, and the last count
\* set to the current stars, are part of the loop of the code.
NormalizeWatchEvents(es, current) ==
    LET daily == Aggregated(es)
        total == SumFunction(daily)
        share[d \in DOMAIN daily] ==
            LET raw == Rounded(current * Until(daily, d), total)
                before == {share[e] : e \in {e \in DOMAIN daily : e < d}}
            IN  Min({current, Max({raw} \cup before)})
    IN  IF total = 0 THEN NoPoints
        ELSE [d \in DOMAIN daily |->
                 Point("estimated", IF d = Max(DOMAIN daily) THEN current ELSE share[d])]

\* Mutant of MergeExactSnapshots: the estimate of a day stays.
MergeEstimatesFirst(estimated, snapshots) ==
    [d \in DOMAIN estimated \cup DOMAIN snapshots |->
        IF d \in DOMAIN estimated THEN estimated[d] ELSE snapshots[d]]

MergeExactSnapshots(estimated, snapshots) ==
    [d \in DOMAIN estimated \cup DOMAIN snapshots |->
        IF d \in DOMAIN snapshots THEN snapshots[d] ELSE estimated[d]]

-----------------------------------------------------------------------------
(* Reducing to a range: the days that are left of a set of points.          *)

InRange(ps, q) == {d \in DOMAIN ps : d + Back[q.range] >= q.today}

\* The last point of each bucket and kind.
Grouped(ps, q) ==
    LET same(d, e) == /\ Bucket[q.range][d] = Bucket[q.range][e]
                      /\ ps[d].kind = ps[e].kind
    IN  {d \in InRange(ps, q) : \A e \in InRange(ps, q) : same(d, e) => e <= d}

\* Mutant of WithFirst: no point is put back.
WithoutFirst(ps, q) == Grouped(ps, q)

WithFirst(ps, q) ==
    Grouped(ps, q) \cup
    (IF InRange(ps, q) = {} THEN {} ELSE {Min(InRange(ps, q))})

\* Both sides of every change of kind from one day to the next of a set.
Switches(ps, days) ==
    {d \in days : \E e \in days :
        /\ ps[d].kind # ps[e].kind
        /\ ~\E f \in days : (d < f /\ f < e) \/ (e < f /\ f < d)}

\* The next day of an even spread that is still free: from the target position
\* up, and from the end down when there is none. The position of a point is the
\* number of points before it.
NextFree(days, selected, limit) ==
    LET target == (2 * Cardinality(selected) * (Cardinality(days) - 1) + limit - 1)
                      \div (2 * (limit - 1))
        free == days \ selected
        above == {d \in free : Cardinality({e \in days : e < d}) >= target}
    IN  IF above # {} THEN Min(above) ELSE Max(free)

\* The switches are dropped when they do not fit.
CapHistoryPoints(ps, days, limit) ==
    LET ends == {Min(days), Max(days)}
        wanted == ends \cup Switches(ps, days)
        fill[selected \in SUBSET days] ==
            IF Cardinality(selected) >= limit THEN selected
            ELSE fill[selected \cup {NextFree(days, selected, limit)}]
    IN  IF Cardinality(days) <= limit THEN days
        ELSE fill[IF Cardinality(wanted) > limit THEN ends ELSE wanted]

DownsampleHistory(ps, q) ==
    [d \in CapHistoryPoints(ps, WithFirst(ps, q), q.limit) |-> ps[d]]

-----------------------------------------------------------------------------
(* A build and a lookup after it. What nothing later looks at is dropped.    *)

Receive ==
    /\ stage = "idle"
    /\ stage' = "events"
    /\ events' \in UNION {[1..n -> Events] : n \in 0..MaxEvents}
    /\ stars' \in 0..MaxStars
    /\ UNCHANGED <<curve, exact, points, query, series>>

Normalize ==
    /\ stage = "events"
    /\ stage' = "curve"
    /\ curve' = NormalizeWatchEvents(events, stars)
    /\ UNCHANGED <<events, stars, exact, points, query, series>>

Merge ==
    /\ stage = "curve"
    /\ stage' = "merged"
    /\ \E days \in UNION {kSubset(n, Days) : n \in 0..MaxExact} :
       \E counts \in [days -> {0, MaxStars}] :
           exact' = [d \in days |-> Point("snapshot", counts[d])]
    /\ points' = MergeExactSnapshots(curve, exact')
    /\ events' = <<>>
    /\ stars' = 0
    /\ UNCHANGED <<curve, query, series>>

Lookup ==
    /\ stage = "merged"
    /\ stage' = "series"
    /\ \E range \in Ranges, today \in {LastDay, LastDay + 1}, limit \in Maximums :
           query' = [range |-> range, today |-> today, limit |-> limit]
    /\ series' = DownsampleHistory(points, query')
    /\ curve' = NoPoints
    /\ UNCHANGED <<events, stars, exact, points>>

Next == Receive \/ Normalize \/ Merge \/ Lookup

Spec == Init /\ [][Next]_vars

-----------------------------------------------------------------------------
(* Properties. *)

\* The estimated curve has the days of the events, each within half a star of
\* its share of the current stars, never falls and ends at the current stars;
\* without events there is no curve (normalize.go:11).
CurveFitsEvents ==
    stage = "curve" =>
        LET sum(d) == MapThenSumSet(LAMBDA i : events[i].count,
                                    {i \in DOMAIN events : events[i].day <= d})
            total == sum(LastDay)
        IN  /\ DOMAIN curve = IF total = 0 THEN {}
                              ELSE {events[i].day : i \in DOMAIN events}
            /\ \A d \in DOMAIN curve :
                   /\ 2 * total * curve[d].count <= 2 * stars * sum(d) + total
                   /\ 2 * total * curve[d].count >= 2 * stars * sum(d) - total
                   /\ \A e \in DOMAIN curve : d <= e => curve[d].count <= curve[e].count
            /\ curve # NoPoints => curve[Max(DOMAIN curve)].count = stars

\* What the store knows exactly survives the merge and the reduction: a shown
\* day that has an exact snapshot shows its count and not the estimate, no
\* estimate is shown as exact, no exact snapshot of the range lies outside the
\* ends of the series, and while there is room each is shown or stands behind
\* a later one of its bucket, never behind an estimate (normalize.go:74,
\* downsample.go:20).
SnapshotsReachReaders ==
    stage = "series" =>
        LET shown == DOMAIN series
            asked == {d \in DOMAIN exact : d >= query.today - Back[query.range]}
        IN  /\ \A d \in shown : IF d \in DOMAIN exact THEN series[d] = exact[d]
                                ELSE series[d].kind = "estimated"
            /\ \A d \in asked : \E e, f \in shown : e <= d /\ d <= f
            /\ Cardinality(shown) < query.limit =>
                   \A d \in asked : \E e \in shown \cap DOMAIN exact :
                       /\ e >= d
                       /\ Bucket[query.range][e] = Bucket[query.range][d]

\* A reduced series keeps points as they are and inside the range, begins and
\* ends where the range does, does not exceed the limit, and only points of a
\* bucket that has a later one of their kind are missing when it fits; when it
\* does not, no room is left, and changes of kind stay visible if they fit
\* (downsample.go:20).
SeriesKeepsShape ==
    stage = "series" =>
        LET in == {d \in DOMAIN points : d >= query.today - Back[query.range]}
            last == {d \in in : ~\E e \in in :
                        /\ e > d /\ points[e].kind = points[d].kind
                        /\ Bucket[query.range][e] = Bucket[query.range][d]}
            all == last \cup {d \in in : \A e \in in : d <= e}
            next(d) == Min({e \in all : e > d})
            sides == {d \in all : d = Min(all) \/ d = Max(all)}
                     \cup UNION {{d, next(d)} : d \in
                         {f \in all : f # Max(all) /\ points[next(f)].kind # points[f].kind}}
        IN  /\ \A d \in DOMAIN series : d \in all /\ series[d] = points[d]
            /\ in # {} => {Min(in), Max(in)} \subseteq DOMAIN series
            /\ Cardinality(DOMAIN series) = Min({query.limit, Cardinality(all)})
            /\ Cardinality(sides) <= query.limit => sides \subseteq DOMAIN series

=============================================================================
