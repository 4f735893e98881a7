------------------------ MODULE ResponseCacheProofs ------------------------
(***************************************************************************)
(* Theorems about ResponseCache, for every set of keys and requests and    *)
(* every capacity, lifetime and number of commits.                         *)
(***************************************************************************)
EXTENDS ResponseCache, FiniteSetTheorems, WellFoundedInduction, TLAPS

USE CacheAssumption DEF Versions

LEMMA RequestFields ==
    ASSUME CoreTypes, NEW r \in Requests
    PROVE  /\ request[r].pc \in {"idle", "build", "encode", "wait"}
           /\ request[r].pc # "idle" => request[r].key \in Keys /\ request[r].floor \in Versions
           /\ Building(r) => request[r].gen \in Nat
           /\ request[r].pc = "encode" => request[r].version \in Versions /\ request[r].size \in Sizes
           /\ request[r].pc = "wait" => request[r].leader \in Requests
  BY DEF CoreTypes, RequestState, Building

LEMMA AbsentEntry == Absent \in Entry /\ Absent.size = 0
  BY DEF Absent, Entry

LEMMA CacheInit == Init => CacheInv
  <1> SUFFICES ASSUME Init PROVE CacheInv
    OBVIOUS
  <1> USE DEF Init
  <1>1. now \in 0..MaxTime /\ db \in [Keys -> Versions] /\ owed \in [Keys -> Nat]
    OBVIOUS
  <1>2. generation \in [Keys -> Nat] /\ inflight \in [Keys -> SUBSET Requests]
        /\ invalidated \in [Keys -> Versions]
    OBVIOUS
  <1>3. entry \in [Keys -> Entry]
    BY AbsentEntry
  <1>4. request \in [Requests -> RequestState]
    BY DEF RequestState, Idle
  <1>5. NoAnswer \in AnswerState
    BY DEF NoAnswer, AnswerState
  <1>6. answer \in [Requests -> AnswerState]
    BY <1>5
  <1>7. CoreTypes
    BY <1>1, <1>2, <1>3, <1>4, <1>6 DEF CoreTypes
  <1>8. BuildFresh
    BY DEF BuildFresh, Building, Idle
  <1>9. CacheFresh
    BY AbsentEntry DEF CacheFresh, Cached
  <1>10. QED
    BY <1>7, <1>8, <1>9 DEF CacheInv

LEMMA CacheCommit ==
    ASSUME CacheInv, NEW k \in Keys, Commit(k)
    PROVE  CacheInv'
  <1> USE DEF CacheInv, Commit, storage
  <1>1. db[k] \in Nat /\ owed[k] \in Nat
    BY DEF CoreTypes
  <1>2. db' \in [Keys -> Versions] /\ owed' \in [Keys -> Nat]
    BY <1>1 DEF CoreTypes
  <1>3. CoreTypes'
    BY <1>2 DEF CoreTypes
  <1>4. /\ owed'[k] # 0
        /\ \A x \in Keys : x # k => owed'[x] = owed[x] /\ db'[x] = db[x]
        /\ db'[k] = db[k] + 1
    BY <1>1 DEF CoreTypes
  <1>5. \A x \in Keys : invalidated'[x] <= db'[x]
    BY <1>1, <1>4 DEF CoreTypes
  <1>6. \A x \in Keys : owed'[x] = 0 => invalidated'[x] = db'[x]
    BY <1>4
  <1>7. BuildFresh'
    BY <1>4, RequestFields DEF BuildFresh, Building
  <1>8. CacheFresh'
    BY <1>4 DEF CacheFresh, Cached
  <1>9. QED
    BY <1>3, <1>5, <1>6, <1>7, <1>8

LEMMA CacheInvalidate ==
    ASSUME CacheInv, NEW k \in Keys, Invalidate(k)
    PROVE  CacheInv'
  <1> USE DEF CacheInv, Invalidate, RemoveLocked
  <1>1. owed' \in [Keys -> Nat] /\ generation' \in [Keys -> Nat]
    BY DEF CoreTypes
  <1>2. entry' \in [Keys -> Entry] /\ invalidated' \in [Keys -> Versions]
    BY AbsentEntry DEF CoreTypes
  <1>3. CoreTypes'
    BY <1>1, <1>2 DEF CoreTypes
  <1>4. /\ \A x \in Keys : x # k => /\ owed'[x] = owed[x] /\ generation'[x] = generation[x]
                                    /\ invalidated'[x] = invalidated[x] /\ entry'[x] = entry[x]
        /\ invalidated'[k] = db[k] /\ entry'[k] = Absent
        /\ generation'[k] = generation[k] + 1 /\ generation[k] \in Nat
    BY DEF CoreTypes
  <1>5. \A x \in Keys : invalidated'[x] <= db'[x]
    BY <1>4 DEF CoreTypes
  <1>6. \A x \in Keys : owed'[x] = 0 => invalidated'[x] = db'[x]
    BY <1>4
  <1>7. BuildFresh'
    <2> SUFFICES ASSUME NEW r \in Requests, Building(r)
                 PROVE  LET x == request[r].key IN
                        /\ request[r].gen <= generation'[x]
                        /\ request[r].pc = "encode" /\ request[r].gen = generation'[x] =>
                              /\ invalidated'[x] <= request[r].version
                              /\ owed'[x] = 0 => request[r].version = db[x]
      BY DEF BuildFresh, Building
    <2>1. request[r].key \in Keys /\ request[r].gen \in Nat
      BY RequestFields DEF Building
    <2>2. request[r].gen <= generation[request[r].key]
      BY DEF BuildFresh
    <2>3. CASE request[r].key = k
      BY <1>4, <2>1, <2>2, <2>3
    <2>4. CASE request[r].key # k
      BY <1>4, <2>1, <2>4 DEF BuildFresh
    <2>5. QED
      BY <2>3, <2>4
  <1>8. CacheFresh'
    BY <1>4, AbsentEntry DEF CacheFresh, Cached
  <1>9. QED
    BY <1>3, <1>5, <1>6, <1>7, <1>8

\* A step that leaves the data and the generations alone, removes nothing but
\* whole entries and starts no build keeps the invariant.
LEMMA CacheShrinks ==
    ASSUME CacheInv, CoreTypes', UNCHANGED <<source, generation>>,
           \A k \in Keys : entry'[k] \in {entry[k], Absent},
           \A r \in Requests : Building(r)' => request'[r] = request[r]
    PROVE  CacheInv'
  <1> USE DEF CacheInv, source
  <1>1. BuildFresh'
    BY DEF BuildFresh, Building
  <1>2. CacheFresh'
    BY AbsentEntry DEF CacheFresh, Cached
  <1>3. QED
    BY <1>1, <1>2

LEMMA CacheHit ==
    ASSUME CacheInv, NEW r \in Requests, NEW k \in Keys, Hit(r, k)
    PROVE  CacheInv'
  <1> USE DEF CacheInv
  <1>1. [version |-> entry[k].version, floor |-> invalidated[k], joined |-> FALSE] \in AnswerState
    BY DEF CoreTypes, Entry, AnswerState
  <1>2. answer' \in [Requests -> AnswerState]
    BY <1>1 DEF Hit, CoreTypes
  <1>3. CoreTypes'
    BY <1>2 DEF CoreTypes, Hit, source
  <1>4. QED
    BY <1>3, CacheShrinks DEF Hit, Building

LEMMA CacheJoin ==
    ASSUME CacheInv, NEW r \in Requests, NEW k \in Keys, Join(r, k)
    PROVE  CacheInv'
  <1> USE DEF CacheInv
  <1>1. PICK l \in inflight[k] :
          request' = [request EXCEPT ![r] = [pc |-> "wait", key |-> k,
                                             floor |-> invalidated[k], leader |-> l]]
    BY DEF Join
  <1>2. [pc |-> "wait", key |-> k, floor |-> invalidated[k], leader |-> l] \in RequestState
    BY DEF CoreTypes, RequestState
  <1>3. request' \in [Requests -> RequestState] /\ entry' \in [Keys -> Entry]
    BY <1>1, <1>2, AbsentEntry DEF CoreTypes, Join, RemoveLocked
  <1>4. CoreTypes'
    BY <1>3 DEF CoreTypes, Join, source
  <1>5. \A x \in Requests : Building(x)' => request'[x] = request[x]
    BY <1>1 DEF Building, CoreTypes
  <1>6. \A x \in Keys : entry'[x] \in {entry[x], Absent}
    BY DEF Join, RemoveLocked, CoreTypes
  <1>7. QED
    BY <1>4, <1>5, <1>6, CacheShrinks DEF Join

LEMMA CacheLead ==
    ASSUME CacheInv, NEW r \in Requests, NEW k \in Keys, Lead(r, k)
    PROVE  CacheInv'
  <1> USE DEF CacheInv
  <1> DEFINE s == [pc |-> "build", key |-> k, floor |-> invalidated[k], gen |-> generation[k]]
  <1>1. s \in RequestState
    BY DEF CoreTypes, RequestState
  <1>2. request' \in [Requests -> RequestState] /\ entry' \in [Keys -> Entry]
        /\ inflight' \in [Keys -> SUBSET Requests]
    BY <1>1, AbsentEntry DEF CoreTypes, Lead, RemoveLocked
  <1>3. CoreTypes'
    BY <1>2 DEF CoreTypes, Lead, source
  <1>4. \A x \in Requests : x # r => request'[x] = request[x]
    BY DEF Lead, CoreTypes
  <1>5. request'[r] = s
    BY DEF Lead, CoreTypes
  <1>6. BuildFresh'
    <2> SUFFICES ASSUME NEW x \in Requests, Building(x)'
                 PROVE  LET y == request'[x].key IN
                        /\ request'[x].gen <= generation[y]
                        /\ request'[x].pc = "encode" /\ request'[x].gen = generation[y] =>
                              /\ invalidated[y] <= request'[x].version
                              /\ owed[y] = 0 => request'[x].version = db[y]
      BY DEF BuildFresh, Lead, source
    <2>1. CASE x = r
      BY <1>5, <2>1 DEF CoreTypes
    <2>2. CASE x # r
      BY <1>4, <2>2 DEF BuildFresh, Building
    <2>3. QED
      BY <2>1, <2>2
  <1>7. CacheFresh'
    BY AbsentEntry DEF Lead, RemoveLocked, source, CacheFresh, Cached, CoreTypes
  <1>8. QED
    BY <1>3, <1>6, <1>7 DEF Lead, source

LEMMA CacheReadStore ==
    ASSUME CacheInv, NEW r \in Requests, ReadStore(r)
    PROVE  CacheInv'
  <1> USE DEF CacheInv
  <1>1. PICK n \in Sizes :
          request' = [request EXCEPT ![r] =
                        [pc |-> "encode", key |-> request[r].key,
                         floor |-> request[r].floor, gen |-> request[r].gen,
                         version |-> db[request[r].key], size |-> n]]
    BY DEF ReadStore
  <1> DEFINE s == [pc |-> "encode", key |-> request[r].key,
                   floor |-> request[r].floor, gen |-> request[r].gen,
                   version |-> db[request[r].key], size |-> n]
  <1>2. /\ request[r].key \in Keys /\ request[r].floor \in Versions /\ request[r].gen \in Nat
        /\ db[request[r].key] \in Versions
    BY RequestFields DEF ReadStore, Building, CoreTypes
  <1>3. s \in RequestState
    BY <1>2 DEF RequestState
  <1>4. CoreTypes'
    BY <1>1, <1>3 DEF CoreTypes, ReadStore, source, storage
  <1>5. request'[r] = s /\ \A x \in Requests : x # r => request'[x] = request[x]
    BY <1>1 DEF CoreTypes
  <1>6. BuildFresh'
    <2> SUFFICES ASSUME NEW x \in Requests, Building(x)'
                 PROVE  LET y == request'[x].key IN
                        /\ request'[x].gen <= generation[y]
                        /\ request'[x].pc = "encode" /\ request'[x].gen = generation[y] =>
                              /\ invalidated[y] <= request'[x].version
                              /\ owed[y] = 0 => request'[x].version = db[y]
      BY DEF BuildFresh, ReadStore, source
    <2>1. CASE x = r
      <3>1. request[r].gen <= generation[request[r].key]
        BY DEF BuildFresh, Building, ReadStore
      <3>2. invalidated[request[r].key] <= db[request[r].key]
        BY <1>2
      <3>3. QED
        BY <1>5, <2>1, <3>1, <3>2
    <2>2. CASE x # r
      BY <1>5, <2>2 DEF BuildFresh, Building
    <2>3. QED
      BY <2>1, <2>2
  <1>7. QED
    BY <1>4, <1>6 DEF ReadStore, source, storage, CacheFresh, Cached

\* Release answers only with versions and makes nobody build.
LEMMA ReleaseTypes ==
    ASSUME CoreTypes, NEW r \in Requests, NEW b \in BOOLEAN, Building(r), Release(r, b),
           b => request[r].pc = "encode"
    PROVE  /\ inflight' \in [Keys -> SUBSET Requests]
           /\ request' \in [Requests -> RequestState]
           /\ answer' \in [Requests -> AnswerState]
           /\ \A x \in Requests : Building(x)' => request'[x] = request[x]
  <1>1. Idle \in RequestState
    BY DEF Idle, RequestState
  <1>2. inflight' \in [Keys -> SUBSET Requests] /\ request' \in [Requests -> RequestState]
    BY <1>1 DEF Release, CoreTypes
  <1>3. ASSUME NEW x \in Requests PROVE answer'[x] \in AnswerState
    <2>1. CASE b /\ (x = r \/ (request[x].pc = "wait" /\ request[x].leader = r))
      <3>1. request[r].version \in Versions /\ request[x].floor \in Versions
        BY <2>1, RequestFields DEF Building
      <3>2. answer'[x] = [version |-> request[r].version, floor |-> request[x].floor,
                          joined |-> x # r]
        BY <2>1 DEF Release
      <3>3. QED
        BY <3>1, <3>2 DEF AnswerState
    <2>2. CASE ~(b /\ (x = r \/ (request[x].pc = "wait" /\ request[x].leader = r)))
      <3>1. answer'[x] = answer[x]
        BY <2>2 DEF Release
      <3>2. QED
        BY <3>1 DEF CoreTypes
    <2>3. QED
      BY <2>1, <2>2
  <1>4. answer' \in [Requests -> AnswerState]
    BY <1>3 DEF Release
  <1>5. \A x \in Requests : Building(x)' => request'[x] = request[x]
    BY DEF Release, Building, Idle
  <1>6. QED
    BY <1>2, <1>4, <1>5

LEMMA CacheBuildFails ==
    ASSUME CacheInv, NEW r \in Requests, BuildFails(r)
    PROVE  CacheInv'
  <1>1. /\ inflight' \in [Keys -> SUBSET Requests]
        /\ request' \in [Requests -> RequestState]
        /\ answer' \in [Requests -> AnswerState]
        /\ \A x \in Requests : Building(x)' => request'[x] = request[x]
    BY ReleaseTypes DEF BuildFails, Building, CacheInv
  <1>2. CoreTypes'
    BY <1>1 DEF CacheInv, CoreTypes, BuildFails, source, storage
  <1>3. QED
    BY <1>1, <1>2, CacheShrinks DEF BuildFails, storage

\* Whatever the eviction removes, an entry is what it was, absent, or the
\* response that was just built.
LEMMA StoreEntry ==
    ASSUME CoreTypes, NEW r \in Requests, request[r].pc = "encode", Store(r)
    PROVE  /\ entry' \in [Keys -> Entry]
           /\ \A k \in Keys : \/ entry'[k] \in {entry[k], Absent}
                              \/ /\ k = request[r].key
                                 /\ entry'[k].version = request[r].version
  <1> DEFINE new == [version |-> request[r].version, size |-> request[r].size,
                     expiresAt |-> now + TTL]
             k0 == request[r].key
  <1>1. k0 \in Keys /\ new \in Entry /\ new.version = request[r].version
    <2>1. request[r].key \in Keys /\ request[r].version \in Versions /\ request[r].size \in Sizes
      BY RequestFields
    <2>2. request[r].size \in Nat /\ now + TTL \in Nat
      <3>1. now \in 0..MaxTime
        BY DEF CoreTypes
      <3>2. now + TTL \in Nat
        BY <3>1, CacheAssumption
      <3>3. request[r].size \in Nat
        BY <2>1, CacheAssumption
      <3>4. QED
        BY <3>2, <3>3
    <2>3. QED
      BY <2>1, <2>2 DEF Entry
  <1>2. EntryWith(r) = [entry EXCEPT ![k0] = new]
    BY DEF EntryWith
  <1>3. PICK evicted : entry' = [x \in Keys |-> IF x \in evicted THEN Absent ELSE EntryWith(r)[x]]
    BY DEF Store
  <1> HIDE DEF new, k0
  <1>4. \A k \in Keys : entry'[k] \in {entry[k], Absent} \/ (k = k0 /\ entry'[k] = new)
    BY <1>1, <1>2, <1>3 DEF CoreTypes
  <1>5. \A k \in Keys : entry'[k] \in Entry
    BY <1>1, <1>4, AbsentEntry DEF CoreTypes
  <1>6. entry' \in [Keys -> Entry]
    BY <1>3, <1>5
  <1>7. QED
    BY <1>1, <1>4, <1>6 DEF k0

LEMMA CacheFinish ==
    ASSUME CacheInv, NEW r \in Requests, Finish(r)
    PROVE  CacheInv'
  <1>1. /\ inflight' \in [Keys -> SUBSET Requests]
        /\ request' \in [Requests -> RequestState]
        /\ answer' \in [Requests -> AnswerState]
        /\ \A x \in Requests : Building(x)' => request'[x] = request[x]
    BY ReleaseTypes DEF Finish, Building, CacheInv
  <1>2. CASE UNCHANGED storage
    <2>1. CoreTypes'
      BY <1>1, <1>2 DEF CacheInv, CoreTypes, Finish, source, storage
    <2>2. QED
      BY <1>1, <1>2, <2>1, CacheShrinks DEF Finish, storage
  <1>3. CASE generation[request[r].key] = request[r].gen /\ Store(r)
    <2>1. /\ entry' \in [Keys -> Entry]
          /\ \A k \in Keys : \/ entry'[k] \in {entry[k], Absent}
                             \/ /\ k = request[r].key
                                /\ entry'[k].version = request[r].version
      <3>1. CoreTypes /\ request[r].pc = "encode"
        BY DEF Finish, CacheInv
      <3>2. QED
        BY <1>3, <3>1, StoreEntry
    <2>2. CoreTypes'
      BY <1>1, <2>1 DEF CacheInv, CoreTypes, Finish, source
    <2>3. BuildFresh'
      BY <1>1 DEF CacheInv, BuildFresh, Building, Finish, source
    <2>4. request[r].key \in Keys
      BY RequestFields DEF Finish, CacheInv
    <2>5. /\ invalidated[request[r].key] <= request[r].version
          /\ owed[request[r].key] = 0 => request[r].version = db[request[r].key]
      BY <1>3, <2>4 DEF CacheInv, BuildFresh, Building, Finish
    <2>6. CacheFresh'
      BY <2>1, <2>4, <2>5, AbsentEntry DEF CacheInv, CacheFresh, Cached, Finish, source
    <2>7. QED
      BY <2>2, <2>3, <2>6 DEF CacheInv, Finish, source
  <1>4. QED
    BY <1>2, <1>3 DEF Finish

LEMMA CacheNext == CacheInv /\ [Next]_vars => CacheInv'
  <1> SUFFICES ASSUME CacheInv, [Next]_vars PROVE CacheInv'
    OBVIOUS
  <1>1. CASE \E k \in Keys : Commit(k) \/ Invalidate(k)
    BY <1>1, CacheCommit, CacheInvalidate
  <1>2. CASE \E r \in Requests, k \in Keys : Hit(r, k) \/ Join(r, k) \/ Lead(r, k)
    BY <1>2, CacheHit, CacheJoin, CacheLead
  <1>3. CASE \E r \in Requests : BuildStep(r)
    BY <1>3, CacheReadStore, CacheFinish, CacheBuildFails DEF BuildStep
  <1>4. ASSUME NEW r \in Requests, GiveUp(r) PROVE CacheInv'
    <2>1. request' \in [Requests -> RequestState]
      BY <1>4 DEF GiveUp, CacheInv, CoreTypes, RequestState, Idle
    <2>2. CoreTypes'
      BY <1>4, <2>1 DEF GiveUp, CacheInv, CoreTypes, source, storage
    <2>3. \A x \in Requests : Building(x)' => request'[x] = request[x]
      BY <1>4 DEF GiveUp, Building, Idle, CacheInv, CoreTypes
    <2>4. QED
      BY <1>4, <2>2, <2>3, CacheShrinks DEF GiveUp, storage
  <1>5. CASE Tick
    <2>1. CoreTypes'
      BY <1>5 DEF Tick, CacheInv, CoreTypes, source, storage
    <2>2. QED
      BY <1>5, <2>1, CacheShrinks DEF Tick, storage
  <1>6. CASE UNCHANGED vars
    <2>1. CoreTypes'
      BY <1>6 DEF vars, CacheInv, CoreTypes, source, storage
    <2>2. QED
      BY <1>6, <2>1, CacheShrinks DEF vars, source, storage
  <1>7. QED
    BY <1>1, <1>2, <1>3, <1>4, <1>5, <1>6 DEF Next

\* No interleaving of writers, builds, evictions and expiry leaves a response
\* in the cache that is older than the last invalidation of its key.
THEOREM CacheFreshness == Spec => []CacheFresh
  <1>1. CacheInv => CacheFresh
    BY DEF CacheInv
  <1>2. QED
    BY <1>1, CacheInit, CacheNext, PTL DEF Spec

-----------------------------------------------------------------------------
(* One build per key, and somebody builds what others wait for *)

\* What is registered in inflight is a build of that key that has not ended.
InflightBuilds ==
    \A k \in Keys : \A l \in inflight[k] :
        l \in Requests /\ Building(l) /\ request[l].key = k

FlightInv == SingleBuild /\ InflightBuilds /\ WaitersHaveBuilder

LEMMA FlightInit == Init => FlightInv
  BY DEF Init, FlightInv, SingleBuild, InflightBuilds, WaitersHaveBuilder, Building,
         Idle, Absent, Cached

\* A step that touches neither requests nor inflight and caches nothing new.
LEMMA FlightKeeps ==
    ASSUME FlightInv, UNCHANGED <<request, inflight>>,
           \A k \in Keys : Cached(k)' => Cached(k)
    PROVE  FlightInv'
  BY DEF FlightInv, SingleBuild, InflightBuilds, WaitersHaveBuilder, Building

\* A request that neither builds nor stops building.
LEMMA FlightBystander ==
    ASSUME CoreTypes, FlightInv, NEW r \in Requests, ~Building(r),
           \A x \in Requests : x # r => request'[x] = request[x],
           request'[r].pc \in {"idle", "wait"},
           request'[r].pc = "wait" => /\ request'[r].key \in Keys
                                      /\ request'[r].leader \in inflight[request'[r].key],
           inflight' = inflight,
           \A k \in Keys : Cached(k)' => Cached(k)
    PROVE  FlightInv'
  <1> USE DEF FlightInv
  <1>3. \A x \in Requests : Building(x)' <=> Building(x)
    BY DEF Building
  <1>4. \A x \in Requests : Building(x) => request'[x] = request[x]
    OBVIOUS
  <1>5. SingleBuild'
    BY <1>3, <1>4 DEF SingleBuild
  <1>6. InflightBuilds'
    BY <1>3, <1>4 DEF InflightBuilds
  <1>7. ASSUME NEW x \in Requests, request'[x].pc = "wait"
        PROVE  (Building(request[x].leader) /\ request[request[x].leader].key = request[x].key)'
    <2>1. CASE x = r
      BY <1>3, <1>4, <1>7, <2>1 DEF InflightBuilds
    <2>2. CASE x # r
      <3>1. request'[x] = request[x] /\ request[x].leader \in Requests
        BY <1>7, <2>2, RequestFields
      <3>2. QED
        BY <1>3, <1>4, <1>7, <3>1 DEF WaitersHaveBuilder
    <2>3. QED
      BY <2>1, <2>2
  <1>8. QED
    BY <1>5, <1>6, <1>7 DEF WaitersHaveBuilder

LEMMA FlightLead ==
    ASSUME CoreTypes, FlightInv, NEW r \in Requests, NEW k \in Keys, Lead(r, k)
    PROVE  FlightInv'
  <1> USE DEF FlightInv, Lead, RemoveLocked
  <1>1. /\ \A x \in Requests : x # r => request'[x] = request[x]
        /\ request'[r].pc = "build" /\ request'[r].key = k
        /\ \A x \in Keys : x # k => inflight'[x] = inflight[x] /\ entry'[x] = entry[x]
        /\ inflight'[k] = {r} /\ entry'[k] = Absent
    BY DEF CoreTypes
  <1>2. \A x \in Requests : Building(x)' <=> Building(x) \/ x = r
    BY <1>1 DEF Building
  <1>3. ~Building(r) /\ \A x \in Requests : Building(x) => request[x].key # k
    BY DEF Building, SingleBuild
  <1>4. ASSUME NEW x \in Requests, Building(x)'
        PROVE  inflight'[request'[x].key] = {x}
    <2>1. CASE x = r
      BY <1>1, <2>1
    <2>2. CASE x # r
      BY <1>1, <1>2, <1>3, <1>4, <2>2, RequestFields DEF SingleBuild
    <2>3. QED
      BY <2>1, <2>2
  <1>5. \A x \in Keys : inflight'[x] # {} => ~Cached(x)'
    BY <1>1, AbsentEntry DEF SingleBuild, Cached
  <1>6. SingleBuild'
    BY <1>4, <1>5 DEF SingleBuild
  <1>7. InflightBuilds'
    BY <1>1, <1>2, <1>3 DEF InflightBuilds
  <1>8. ASSUME NEW x \in Requests, request'[x].pc = "wait"
        PROVE  (Building(request[x].leader) /\ request[request[x].leader].key = request[x].key)'
    <2>1. x # r /\ request'[x] = request[x] /\ request[x].leader \in Requests
      BY <1>1, <1>8, RequestFields
    <2>2. Building(request[x].leader) /\ request[request[x].leader].key = request[x].key
      BY <1>8, <2>1 DEF WaitersHaveBuilder
    <2>3. QED
      BY <1>1, <1>2, <1>3, <2>1, <2>2
  <1>9. QED
    BY <1>6, <1>7, <1>8 DEF WaitersHaveBuilder

LEMMA FlightReadStore ==
    ASSUME CoreTypes, FlightInv, NEW r \in Requests, ReadStore(r)
    PROVE  FlightInv'
  <1> USE DEF FlightInv, ReadStore, storage
  <1>1. /\ \A x \in Requests : x # r => request'[x] = request[x]
        /\ request[r].pc = "build"
        /\ request'[r].pc = "encode" /\ request'[r].key = request[r].key
    BY DEF CoreTypes
  <1>2. \A x \in Requests : Building(x)' <=> Building(x)
    BY <1>1 DEF Building
  <1>3. \A x \in Requests : Building(x) => request'[x].key = request[x].key
    BY <1>1
  <1>4. SingleBuild'
    BY <1>2, <1>3 DEF SingleBuild, Cached
  <1>5. InflightBuilds'
    BY <1>2, <1>3 DEF InflightBuilds
  <1>6. ASSUME NEW x \in Requests, request'[x].pc = "wait"
        PROVE  (Building(request[x].leader) /\ request[request[x].leader].key = request[x].key)'
    <2>1. request'[x] = request[x] /\ request[x].leader \in Requests
      BY <1>1, <1>6, RequestFields
    <2>2. QED
      BY <1>2, <1>3, <1>6, <2>1 DEF WaitersHaveBuilder
  <1>7. QED
    BY <1>4, <1>5, <1>6 DEF WaitersHaveBuilder

\* The end of a build: it leaves inflight together with everyone who waits for
\* it, and only now may its key be cached.
LEMMA FlightRelease ==
    ASSUME CoreTypes, FlightInv, NEW r \in Requests, Building(r), NEW b, Release(r, b),
           \A k \in Keys : Cached(k)' => Cached(k) \/ k = request[r].key
    PROVE  FlightInv'
  <1> USE DEF FlightInv, Release
  <1> DEFINE gone == {x \in Requests : request[x].pc = "wait" /\ request[x].leader = r} \cup {r}
             k0 == request[r].key
  <1>1. /\ \A x \in Requests : x \notin gone => request'[x] = request[x]
        /\ \A x \in gone : request'[x] = Idle
        /\ r \in gone
    OBVIOUS
  <1>2. /\ k0 \in Keys
        /\ inflight'[k0] = {} /\ \A x \in Keys : x # k0 => inflight'[x] = inflight[x]
    BY RequestFields DEF CoreTypes, Building
  <1>3. \A x \in Requests : Building(x)' <=> Building(x) /\ x # r
    BY <1>1 DEF Building, Idle
  <1>4. \A x \in Requests : Building(x) /\ x # r =>
            x \notin gone /\ request'[x] = request[x] /\ request[x].key # k0
    BY <1>1 DEF Building, SingleBuild
  <1>5. SingleBuild'
    <2>1. ASSUME NEW x \in Requests, Building(x)'
          PROVE  inflight'[request'[x].key] = {x}
      BY <1>2, <1>3, <1>4, <2>1, RequestFields DEF SingleBuild, Building
    <2>2. \A k \in Keys : inflight'[k] # {} => ~Cached(k)'
      BY <1>2 DEF SingleBuild
    <2>3. QED
      BY <2>1, <2>2 DEF SingleBuild
  <1>6. InflightBuilds'
    <2>1. ASSUME NEW k \in Keys, NEW l \in inflight'[k]
          PROVE  l \in Requests /\ Building(l)' /\ request'[l].key = k
      <3>1. k # k0 /\ l \in inflight[k]
        BY <1>2, <2>1
      <3>2. l \in Requests /\ Building(l) /\ request[l].key = k
        BY <3>1 DEF InflightBuilds
      <3>3. l # r
        BY <3>1, <3>2
      <3>4. QED
        BY <1>3, <1>4, <3>2, <3>3
    <2>2. QED
      BY <2>1 DEF InflightBuilds
  <1>7. ASSUME NEW x \in Requests, request'[x].pc = "wait"
        PROVE  (Building(request[x].leader) /\ request[request[x].leader].key = request[x].key)'
    <2>1. x \notin gone
      BY <1>1, <1>7 DEF Idle
    <2>2. request'[x] = request[x] /\ request[x].leader \in Requests /\ request[x].leader # r
      BY <1>1, <1>7, <2>1, RequestFields
    <2>3. Building(request[x].leader) /\ request[request[x].leader].key = request[x].key
      BY <1>7, <2>2 DEF WaitersHaveBuilder
    <2>4. QED
      BY <1>3, <1>4, <2>2, <2>3
  <1>8. QED
    BY <1>5, <1>6, <1>7 DEF WaitersHaveBuilder

LEMMA FlightFinish ==
    ASSUME CacheInv, FlightInv, NEW r \in Requests, Finish(r)
    PROVE  FlightInv'
  <1>1. CoreTypes /\ request[r].pc = "encode" /\ Building(r) /\ Release(r, TRUE)
    BY DEF CacheInv, Finish, Building
  <1>2. \A k \in Keys : Cached(k)' => Cached(k) \/ k = request[r].key
    <2>1. CASE UNCHANGED storage
      BY <2>1 DEF Cached, storage
    <2>2. CASE Store(r)
      <3>1. \A k \in Keys : entry'[k] \in {entry[k], Absent} \/ k = request[r].key
        BY <1>1, <2>2, StoreEntry
      <3>2. QED
        BY <3>1, AbsentEntry DEF Cached
    <2>3. QED
      BY <2>1, <2>2 DEF Finish
  <1>3. QED
    BY <1>1, <1>2, FlightRelease

LEMMA FlightNext == CacheInv /\ FlightInv /\ [Next]_vars => FlightInv'
  <1> SUFFICES ASSUME CacheInv, FlightInv, [Next]_vars PROVE FlightInv'
    OBVIOUS
  <1>0. CoreTypes
    BY DEF CacheInv
  <1>1. ASSUME NEW k \in Keys, Commit(k) PROVE FlightInv'
    BY <1>1, FlightKeeps DEF Commit, storage, Cached
  <1>2. ASSUME NEW k \in Keys, Invalidate(k) PROVE FlightInv'
    <2>1. \A x \in Keys : Cached(x)' => Cached(x)
      BY <1>0, <1>2, AbsentEntry DEF Invalidate, RemoveLocked, Cached, CoreTypes
    <2>2. QED
      BY <1>2, <2>1, FlightKeeps DEF Invalidate
  <1>3. ASSUME NEW r \in Requests, NEW k \in Keys, Hit(r, k) PROVE FlightInv'
    BY <1>3, FlightKeeps DEF Hit, Cached
  <1>4. ASSUME NEW r \in Requests, NEW k \in Keys, Join(r, k) PROVE FlightInv'
    <2>1. \A x \in Keys : Cached(x)' => Cached(x)
      BY <1>0, <1>4, AbsentEntry DEF Join, RemoveLocked, Cached, CoreTypes
    <2>2. PICK l \in inflight[k] :
            request' = [request EXCEPT ![r] = [pc |-> "wait", key |-> k,
                                               floor |-> invalidated[k], leader |-> l]]
      BY <1>4 DEF Join
    <2>3. /\ request'[r].pc = "wait" /\ request'[r].key = k /\ request'[r].leader = l
          /\ \A x \in Requests : x # r => request'[x] = request[x]
      BY <1>0, <2>2 DEF CoreTypes
    <2>4. ~Building(r) /\ inflight' = inflight
      BY <1>4 DEF Join, Building
    <2>5. QED
      BY <1>0, <2>1, <2>3, <2>4, FlightBystander
  <1>5. ASSUME NEW r \in Requests, NEW k \in Keys, Lead(r, k) PROVE FlightInv'
    BY <1>0, <1>5, FlightLead
  <1>6. ASSUME NEW r \in Requests, ReadStore(r) PROVE FlightInv'
    BY <1>0, <1>6, FlightReadStore
  <1>7. ASSUME NEW r \in Requests, Finish(r) PROVE FlightInv'
    BY <1>7, FlightFinish
  <1>8. ASSUME NEW r \in Requests, BuildFails(r) PROVE FlightInv'
    BY <1>0, <1>8, FlightRelease DEF BuildFails, storage, Cached
  <1>9. ASSUME NEW r \in Requests, GiveUp(r) PROVE FlightInv'
    <2>1. ~Building(r) /\ inflight' = inflight
      BY <1>9 DEF GiveUp, Building
    <2>2. \A x \in Keys : Cached(x)' => Cached(x)
      BY <1>9 DEF GiveUp, storage, Cached
    <2>3. /\ request'[r].pc = "idle"
          /\ \A x \in Requests : x # r => request'[x] = request[x]
      BY <1>0, <1>9 DEF GiveUp, Idle, CoreTypes
    <2>4. QED
      BY <1>0, <2>1, <2>2, <2>3, FlightBystander
  <1>10. CASE Tick
    BY <1>10, FlightKeeps DEF Tick, storage, Cached
  <1>11. CASE UNCHANGED vars
    BY <1>11, FlightKeeps DEF vars, Cached
  <1>12. QED
    BY <1>1, <1>2, <1>3, <1>4, <1>5, <1>6, <1>7, <1>8, <1>9, <1>10, <1>11 DEF Next, BuildStep

\* getOrBuild never runs two builds of one key, and the entry of a key that is
\* being built stays empty until that build ends.
THEOREM OneBuildPerKey == Spec => []SingleBuild
  <1>1. FlightInv => SingleBuild
    BY DEF FlightInv
  <1>2. QED
    BY <1>1, CacheInit, CacheNext, FlightInit, FlightNext, PTL DEF Spec

\* A request that waits on done waits for a build that is still running and that
\* will close it.
THEOREM WaitersAreBuiltFor == Spec => []WaitersHaveBuilder
  <1>1. FlightInv => WaitersHaveBuilder
    BY DEF FlightInv
  <1>2. QED
    BY <1>1, CacheInit, CacheNext, FlightInit, FlightNext, PTL DEF Spec

-----------------------------------------------------------------------------
(* What a request is answered with *)

\* The floor a building request arrived with is still below what it is going to
\* read, or below what it has read.
FloorKept ==
    \A r \in Requests :
        /\ request[r].pc = "build" => request[r].floor <= invalidated[request[r].key]
        /\ request[r].pc = "encode" => request[r].floor <= request[r].version

AnswerInv == FloorKept /\ DirectAnswersFresh

LEMMA AnswerInit == Init => AnswerInv
  BY DEF Init, AnswerInv, FloorKept, DirectAnswersFresh, Idle, NoAnswer

\* A step that gives no answer, moves no build on and lowers no floor.
LEMMA AnswerKept ==
    ASSUME CacheInv, CoreTypes', AnswerInv, UNCHANGED answer,
           \A k \in Keys : invalidated[k] <= invalidated'[k],
           \A r \in Requests : Building(r)' => request'[r] = request[r]
    PROVE  AnswerInv'
  <1>1. ASSUME NEW r \in Requests, request'[r].pc = "build"
        PROVE  request'[r].floor <= invalidated'[request'[r].key]
    <2>1. request'[r] = request[r] /\ request[r].key \in Keys /\ request[r].floor \in Nat
      BY <1>1, RequestFields DEF Building, CacheInv
    <2>2. request[r].floor <= invalidated[request[r].key]
      BY <1>1, <2>1 DEF AnswerInv, FloorKept
    <2>3. invalidated[request[r].key] \in Nat /\ invalidated'[request[r].key] \in Nat
      BY <2>1 DEF CacheInv, CoreTypes
    <2>4. QED
      BY <2>1, <2>2, <2>3
  <1>2. \A r \in Requests : request'[r].pc = "encode" => request'[r].floor <= request'[r].version
    BY DEF Building, AnswerInv, FloorKept
  <1>3. DirectAnswersFresh'
    BY DEF AnswerInv, DirectAnswersFresh
  <1>4. QED
    BY <1>1, <1>2, <1>3 DEF AnswerInv, FloorKept

LEMMA AnswerHit ==
    ASSUME CacheInv, AnswerInv, NEW r \in Requests, NEW k \in Keys, Hit(r, k)
    PROVE  AnswerInv'
  <1>1. FloorKept'
    BY DEF AnswerInv, FloorKept, Hit, source
  <1>2. invalidated[k] <= entry[k].version
    BY DEF Hit, Fresh, CacheInv, CacheFresh
  <1>3. invalidated[k] \in Nat /\ entry[k].version \in Nat
    BY DEF CacheInv, CoreTypes, Entry
  <1>4. /\ answer'[r].version >= answer'[r].floor
        /\ \A x \in Requests : x # r => answer'[x] = answer[x]
    BY <1>2, <1>3 DEF Hit, CacheInv, CoreTypes
  <1>5. QED
    BY <1>1, <1>4 DEF AnswerInv, DirectAnswersFresh

LEMMA AnswerLead ==
    ASSUME CacheInv, AnswerInv, NEW r \in Requests, NEW k \in Keys, Lead(r, k)
    PROVE  AnswerInv'
  <1>1. /\ \A x \in Requests : x # r => request'[x] = request[x]
        /\ request'[r].pc = "build" /\ request'[r].key = k /\ request'[r].floor = invalidated[k]
        /\ invalidated[k] \in Nat
        /\ UNCHANGED <<invalidated, answer>>
    BY DEF Lead, CacheInv, CoreTypes, source
  <1>2. FloorKept'
    BY <1>1 DEF AnswerInv, FloorKept
  <1>3. QED
    BY <1>1, <1>2 DEF AnswerInv, DirectAnswersFresh

LEMMA AnswerReadStore ==
    ASSUME CacheInv, AnswerInv, NEW r \in Requests, ReadStore(r)
    PROVE  AnswerInv'
  <1>1. request[r].key \in Keys /\ request[r].floor \in Nat /\ request[r].pc = "build"
    BY RequestFields DEF ReadStore, CacheInv
  <1>2. /\ \A x \in Requests : x # r => request'[x] = request[x]
        /\ request'[r].pc = "encode" /\ request'[r].floor = request[r].floor
        /\ request'[r].version = db[request[r].key]
        /\ UNCHANGED <<invalidated, answer>>
    BY DEF ReadStore, CacheInv, CoreTypes, source
  <1>3. request[r].floor <= invalidated[request[r].key]
    BY <1>1 DEF AnswerInv, FloorKept
  <1>4. /\ invalidated[request[r].key] <= db[request[r].key]
        /\ invalidated[request[r].key] \in Nat /\ db[request[r].key] \in Nat
    BY <1>1 DEF CacheInv, CoreTypes
  <1>5. request'[r].floor <= request'[r].version
    BY <1>1, <1>2, <1>3, <1>4
  <1>6. FloorKept'
    BY <1>2, <1>5 DEF AnswerInv, FloorKept
  <1>7. QED
    BY <1>2, <1>6 DEF AnswerInv, DirectAnswersFresh

\* Only the builder itself is answered as not having joined.
LEMMA AnswerRelease ==
    ASSUME CacheInv, AnswerInv, NEW r \in Requests, NEW b \in BOOLEAN, Release(r, b),
           Building(r), b => request[r].pc = "encode", UNCHANGED invalidated
    PROVE  AnswerInv'
  <1>1. \A x \in Requests : Building(x)' => request'[x] = request[x]
    BY DEF Release, Building, Idle
  <1>2. FloorKept'
    BY <1>1 DEF AnswerInv, FloorKept, Building
  <1>3. ASSUME NEW x \in Requests, ~answer'[x].joined
        PROVE  answer'[x].version >= answer'[x].floor
    <2>1. CASE answer'[x] = answer[x]
      BY <1>3, <2>1 DEF AnswerInv, DirectAnswersFresh
    <2>2. CASE answer'[x] # answer[x]
      <3>1. /\ b /\ answer'[x] = [version |-> request[r].version, floor |-> request[x].floor,
                                  joined |-> x # r]
        BY <2>2 DEF Release
      <3>2. x = r /\ request[r].pc = "encode"
        <4>1. ASSUME x # r PROVE answer'[x].joined = TRUE
          <5>1. (x # r) = TRUE
            BY <4>1
          <5>2. answer'[x] = [version |-> request[r].version, floor |-> request[x].floor,
                              joined |-> TRUE]
            BY <3>1, <5>1
          <5>3. QED
            BY <5>2
        <4>2. x = r
          BY <1>3, <4>1
        <4>3. QED
          BY <3>1, <4>2
      <3>3. request[r].floor <= request[r].version
        BY <3>2 DEF AnswerInv, FloorKept
      <3>4. QED
        BY <3>1, <3>2, <3>3, RequestFields DEF CacheInv
    <2>3. QED
      BY <2>1, <2>2
  <1>4. QED
    BY <1>2, <1>3 DEF AnswerInv, DirectAnswersFresh

LEMMA AnswerNext == CacheInv /\ CacheInv' /\ AnswerInv /\ [Next]_vars => AnswerInv'
  <1> SUFFICES ASSUME CacheInv, CacheInv', AnswerInv, [Next]_vars PROVE AnswerInv'
    OBVIOUS
  <1>0. CoreTypes /\ CoreTypes' /\ \A k \in Keys : invalidated[k] \in Nat
    BY DEF CacheInv, CoreTypes
  <1>1. ASSUME NEW k \in Keys, Commit(k) PROVE AnswerInv'
    BY <1>0, <1>1, AnswerKept DEF Commit, Building
  <1>2. ASSUME NEW k \in Keys, Invalidate(k) PROVE AnswerInv'
    <2>1. \A x \in Keys : invalidated[x] <= invalidated'[x]
      <3>1. invalidated[k] <= db[k] /\ db[k] \in Nat
        BY DEF CacheInv, CoreTypes
      <3>2. QED
        BY <1>0, <1>2, <3>1 DEF Invalidate, CoreTypes
    <2>2. QED
      BY <1>0, <1>2, <2>1, AnswerKept DEF Invalidate, Building
  <1>3. ASSUME NEW r \in Requests, NEW k \in Keys, Hit(r, k) PROVE AnswerInv'
    BY <1>3, AnswerHit
  <1>4. ASSUME NEW r \in Requests, NEW k \in Keys, Join(r, k) PROVE AnswerInv'
    <2>1. \A x \in Requests : Building(x)' => request'[x] = request[x]
      BY <1>0, <1>4 DEF Join, Building, CoreTypes
    <2>2. QED
      BY <1>0, <1>4, <2>1, AnswerKept DEF Join, source
  <1>5. ASSUME NEW r \in Requests, NEW k \in Keys, Lead(r, k) PROVE AnswerInv'
    BY <1>5, AnswerLead
  <1>6. ASSUME NEW r \in Requests, ReadStore(r) PROVE AnswerInv'
    BY <1>6, AnswerReadStore
  <1>7. ASSUME NEW r \in Requests, Finish(r) PROVE AnswerInv'
    BY <1>7, AnswerRelease DEF Finish, Building, source
  <1>8. ASSUME NEW r \in Requests, BuildFails(r) PROVE AnswerInv'
    BY <1>8, AnswerRelease DEF BuildFails, source
  <1>9. ASSUME NEW r \in Requests, GiveUp(r) PROVE AnswerInv'
    <2>1. \A x \in Requests : Building(x)' => request'[x] = request[x]
      BY <1>0, <1>9 DEF GiveUp, Building, Idle, CoreTypes
    <2>2. QED
      BY <1>0, <1>9, <2>1, AnswerKept DEF GiveUp, source
  <1>10. CASE Tick
    BY <1>0, <1>10, AnswerKept DEF Tick, source, Building
  <1>11. CASE UNCHANGED vars
    BY <1>0, <1>11, AnswerKept DEF vars, Building
  <1>12. QED
    BY <1>1, <1>2, <1>3, <1>4, <1>5, <1>6, <1>7, <1>8, <1>9, <1>10, <1>11 DEF Next, BuildStep

\* A request that hits the cache or builds itself is never answered with data
\* older than the last invalidation before it arrived; only one that joins a
\* build under way can be.
THEOREM DirectAnswersAreFresh == Spec => []DirectAnswersFresh
  <1>1. AnswerInv => DirectAnswersFresh
    BY DEF AnswerInv
  <1>2. QED
    BY <1>1, CacheInit, CacheNext, AnswerInit, AnswerNext, PTL DEF Spec

-----------------------------------------------------------------------------
(* Sums of sizes *)
(* BytesOf is a fold over a finite set. Its laws are proved by taking, among *)
(* the subsets that break one, a smallest.                                   *)

Chosen(s) == CHOOSE x \in s : TRUE
Rest(s) == s \ {Chosen(s)}

LEMMA ChosenRest ==
    \A s : s # {} => Chosen(s) \in s /\ Rest(s) \subseteq s /\ Rest(s) # s
  BY DEF Chosen, Rest

\* Among the subsets of a finite set with some property one is smallest.
LEMMA SmallestSubset ==
    ASSUME NEW S, IsFiniteSet(S), NEW bad, bad \subseteq SUBSET S, bad # {}
    PROVE  \E u \in bad : \A v \in bad : v \subseteq u => v = u
  <1> DEFINE R == StrictSubsetOrdering(S)
  <1>1. IsWellFoundedOn(R, FiniteSubsetsOf(S))
    BY FS_StrictSubsetOrderingWellFounded
  <1>2. FiniteSubsetsOf(S) = SUBSET S
    BY FS_FiniteSubsetsOfFinite
  <1>3. \E u \in bad : \A v \in bad : ~(<<v, u>> \in R)
    <2> HIDE DEF R
    <2> QED BY <1>1, <1>2, WFMin
  <1>4. QED
    BY <1>3 DEF StrictSubsetOrdering

\* f holds the sums of the subsets of S.
IsSums(e, S, f) ==
    f = [s \in SUBSET S |-> IF s = {} THEN 0 ELSE e[Chosen(s)].size + f[Rest(s)]]
SumsOf(e, S) == CHOOSE f : IsSums(e, S, f)

LEMMA BytesOfSums == \A e, S : BytesOf(e, S) = SumsOf(e, S)[S]
  BY DEF BytesOf, MapThenSumSet, MapThenFoldSet, SumsOf, IsSums, Chosen, Rest

LEMMA SumsStep ==
    ASSUME NEW e, NEW S, NEW f, IsSums(e, S, f), NEW s \in SUBSET S
    PROVE  f[s] = IF s = {} THEN 0 ELSE e[Chosen(s)].size + f[Rest(s)]
  BY DEF IsSums

\* Two tables of sums agree wherever both are defined.
LEMMA SumsUnique ==
    ASSUME NEW e, NEW S, IsFiniteSet(S), NEW T \in SUBSET S,
           NEW f, IsSums(e, S, f), NEW g, IsSums(e, T, g)
    PROVE  f[T] = g[T]
  <1> DEFINE bad == {u \in SUBSET T : f[u] # g[u]}
  <1>1. IsFiniteSet(T)
    BY FS_Subset
  <1>2. bad = {}
    <2> SUFFICES ASSUME bad # {} PROVE FALSE
      OBVIOUS
    <2>0. bad \subseteq SUBSET T /\ bad # {}
      OBVIOUS
    <2>1. PICK u \in bad : \A v \in bad : v \subseteq u => v = u
      <3> HIDE DEF bad
      <3> QED BY <1>1, <2>0, SmallestSubset
    <2>2. f[u] = IF u = {} THEN 0 ELSE e[Chosen(u)].size + f[Rest(u)]
      BY <2>1, SumsStep
    <2>3. g[u] = IF u = {} THEN 0 ELSE e[Chosen(u)].size + g[Rest(u)]
      BY <2>1, SumsStep
    <2>4. u # {}
      BY <2>1, <2>2, <2>3
    <2>5. Rest(u) \in SUBSET T /\ Rest(u) \notin bad
      BY <2>1, <2>4, ChosenRest
    <2>6. f[Rest(u)] = g[Rest(u)]
      BY <2>5
    <2>7. QED
      BY <2>1, <2>2, <2>3, <2>6
  <1>3. QED
    BY <1>2

\* A finite set has a table of sums.
LEMMA SumsExist ==
    ASSUME NEW e, NEW S, IsFiniteSet(S)
    PROVE  \A T \in SUBSET S : IsSums(e, T, SumsOf(e, T))
  <1> DEFINE bad == {u \in SUBSET S : ~IsSums(e, u, SumsOf(e, u))}
  <1> SUFFICES ASSUME bad # {} PROVE FALSE
    OBVIOUS
  <1>0. bad \subseteq SUBSET S /\ bad # {}
    OBVIOUS
  <1>1. PICK u \in bad : \A v \in bad : v \subseteq u => v = u
    <2> HIDE DEF bad
    <2> QED BY <1>0, SmallestSubset
  <1>2. \A v \in SUBSET u : v # u => IsSums(e, v, SumsOf(e, v))
    BY <1>1
  <1> DEFINE total(v) == SumsOf(e, v)[v]
             G == [s \in SUBSET u |->
                      IF s = {} THEN 0 ELSE e[Chosen(s)].size + total(Rest(s))]
  <1>3. ASSUME NEW v \in SUBSET u, v # u
        PROVE  total(v) = G[v]
    <2>1. IsSums(e, v, SumsOf(e, v)) /\ v \in SUBSET v
      BY <1>2, <1>3
    <2>2. total(v) = IF v = {} THEN 0 ELSE e[Chosen(v)].size + SumsOf(e, v)[Rest(v)]
      BY <2>1, SumsStep
    <2>3. ASSUME v # {} PROVE SumsOf(e, v)[Rest(v)] = total(Rest(v))
      <3>1. Rest(v) \in SUBSET v /\ Rest(v) \in SUBSET u /\ Rest(v) # u
        BY <1>3, <2>3, ChosenRest
      <3>2. IsSums(e, Rest(v), SumsOf(e, Rest(v)))
        BY <1>2, <3>1
      <3>3. IsFiniteSet(v)
        BY <1>1, <1>3, FS_Subset
      <3>4. QED
        BY <2>1, <3>1, <3>2, <3>3, SumsUnique
    <2>4. G[v] = IF v = {} THEN 0 ELSE e[Chosen(v)].size + total(Rest(v))
      OBVIOUS
    <2>5. QED
      BY <2>2, <2>3, <2>4
  <1>4. ASSUME NEW s \in SUBSET u, s # {} PROVE total(Rest(s)) = G[Rest(s)]
    <2>1. Rest(s) \in SUBSET u /\ Rest(s) # u
      BY <1>4, ChosenRest
    <2>2. QED
      BY <1>3, <2>1
  <1>5. G = [s \in SUBSET u |-> IF s = {} THEN 0 ELSE e[Chosen(s)].size + G[Rest(s)]]
    BY <1>4
  <1>6. IsSums(e, u, G)
    BY <1>5 DEF IsSums
  <1>7. IsSums(e, u, SumsOf(e, u))
    <2> HIDE DEF G
    <2> QED BY <1>6 DEF SumsOf
  <1>8. QED
    BY <1>1, <1>7

\* The sum of a set unfolds at its chosen element.
LEMMA BytesUnfold ==
    ASSUME NEW e, NEW S, IsFiniteSet(S)
    PROVE  BytesOf(e, S) = IF S = {} THEN 0 ELSE e[Chosen(S)].size + BytesOf(e, Rest(S))
  <1>1. IsSums(e, S, SumsOf(e, S)) /\ S \in SUBSET S
    BY SumsExist
  <1>2. SumsOf(e, S)[S] = IF S = {} THEN 0 ELSE e[Chosen(S)].size + SumsOf(e, S)[Rest(S)]
    BY <1>1, SumsStep
  <1>3. ASSUME S # {} PROVE SumsOf(e, S)[Rest(S)] = SumsOf(e, Rest(S))[Rest(S)]
    <2>1. Rest(S) \in SUBSET S
      BY <1>3, ChosenRest
    <2>2. IsSums(e, Rest(S), SumsOf(e, Rest(S)))
      BY <2>1, SumsExist
    <2>3. QED
      BY <1>1, <2>1, <2>2, SumsUnique
  <1>4. QED
    BY <1>2, <1>3, BytesOfSums

LEMMA BytesEmpty == \A e : BytesOf(e, {}) = 0
  BY BytesUnfold, FS_EmptySet

\* The sum of natural sizes is a natural number.
LEMMA BytesNat ==
    ASSUME NEW e, NEW S, IsFiniteSet(S), \A k \in S : e[k].size \in Nat
    PROVE  BytesOf(e, S) \in Nat
  <1> DEFINE bad == {u \in SUBSET S : BytesOf(e, u) \notin Nat}
  <1> SUFFICES ASSUME bad # {} PROVE FALSE
    OBVIOUS
  <1>0. bad \subseteq SUBSET S /\ bad # {}
    OBVIOUS
  <1>1. PICK u \in bad : \A v \in bad : v \subseteq u => v = u
    <2> HIDE DEF bad
    <2> QED BY <1>0, SmallestSubset
  <1>2. BytesOf(e, u) = IF u = {} THEN 0 ELSE e[Chosen(u)].size + BytesOf(e, Rest(u))
    BY <1>1, BytesUnfold, FS_Subset
  <1>3. u # {}
    BY <1>1, <1>2
  <1>4. Chosen(u) \in u /\ Rest(u) \in SUBSET S /\ Rest(u) \notin bad
    BY <1>1, <1>3, ChosenRest
  <1>5. QED
    BY <1>1, <1>2, <1>4

\* Any element may be taken out first.
LEMMA BytesRemove ==
    ASSUME NEW e, NEW S, IsFiniteSet(S), \A k \in S : e[k].size \in Nat
    PROVE  \A x \in S : BytesOf(e, S) = e[x].size + BytesOf(e, S \ {x})
  <1> DEFINE bad == {u \in SUBSET S : \E x \in u : BytesOf(e, u) # e[x].size + BytesOf(e, u \ {x})}
  <1> SUFFICES ASSUME bad # {} PROVE FALSE
    OBVIOUS
  <1>0. bad \subseteq SUBSET S /\ bad # {}
    OBVIOUS
  <1>1. PICK u \in bad : \A v \in bad : v \subseteq u => v = u
    <2> HIDE DEF bad
    <2> QED BY <1>0, SmallestSubset
  <1>2. PICK x \in u : BytesOf(e, u) # e[x].size + BytesOf(e, u \ {x})
    BY <1>1
  <1>3. PICK p : p = Chosen(u)
    OBVIOUS
  <1>4. p \in u /\ u \in SUBSET S /\ IsFiniteSet(u)
    BY <1>1, <1>2, <1>3, ChosenRest, FS_Subset
  <1>5. BytesOf(e, u) = e[p].size + BytesOf(e, u \ {p})
    BY <1>2, <1>3, <1>4, BytesUnfold DEF Rest
  <1>6. p # x
    BY <1>2, <1>5
  <1>7. u \ {p} \in SUBSET S /\ u \ {p} \notin bad /\ u \ {x} \in SUBSET S /\ u \ {x} \notin bad
    BY <1>1, <1>2, <1>4
  <1>8. BytesOf(e, u \ {p}) = e[x].size + BytesOf(e, (u \ {p}) \ {x})
    BY <1>2, <1>6, <1>7
  <1>9. BytesOf(e, u \ {x}) = e[p].size + BytesOf(e, (u \ {x}) \ {p})
    BY <1>4, <1>6, <1>7
  <1>10. (u \ {p}) \ {x} = (u \ {x}) \ {p} /\ IsFiniteSet((u \ {x}) \ {p})
    BY <1>4, FS_Subset
  <1>11. BytesOf(e, (u \ {x}) \ {p}) \in Nat
    BY <1>4, <1>10, BytesNat
  <1>12. e[x].size \in Nat /\ e[p].size \in Nat
    BY <1>2, <1>4
  <1>13. PICK m \in Nat : m = BytesOf(e, (u \ {x}) \ {p})
    BY <1>11
  <1>14. PICK a \in Nat, b \in Nat : a = e[x].size /\ b = e[p].size
    BY <1>12
  <1>15. BytesOf(e, u) = b + (a + m) /\ e[x].size + BytesOf(e, u \ {x}) = a + (b + m)
    BY <1>5, <1>8, <1>9, <1>10, <1>13, <1>14
  <1>16. QED
    BY <1>2, <1>15

\* Only the sizes of the set's own elements matter.
LEMMA BytesSame ==
    ASSUME NEW e, NEW f, NEW S, IsFiniteSet(S), \A k \in S : e[k].size = f[k].size
    PROVE  BytesOf(e, S) = BytesOf(f, S)
  <1> DEFINE bad == {u \in SUBSET S : BytesOf(e, u) # BytesOf(f, u)}
  <1> SUFFICES ASSUME bad # {} PROVE FALSE
    OBVIOUS
  <1>0. bad \subseteq SUBSET S /\ bad # {}
    OBVIOUS
  <1>1. PICK u \in bad : \A v \in bad : v \subseteq u => v = u
    <2> HIDE DEF bad
    <2> QED BY <1>0, SmallestSubset
  <1>2. IsFiniteSet(u)
    BY <1>1, FS_Subset
  <1>3. /\ BytesOf(e, u) = IF u = {} THEN 0 ELSE e[Chosen(u)].size + BytesOf(e, Rest(u))
        /\ BytesOf(f, u) = IF u = {} THEN 0 ELSE f[Chosen(u)].size + BytesOf(f, Rest(u))
    BY <1>2, BytesUnfold
  <1>4. u # {}
    BY <1>1, <1>3
  <1>5. Chosen(u) \in S /\ Rest(u) \in SUBSET S /\ Rest(u) \notin bad
    BY <1>1, <1>4, ChosenRest
  <1>6. QED
    BY <1>1, <1>3, <1>4, <1>5

\* The sum of a set is the sum of its parts.
LEMMA BytesSplit ==
    ASSUME NEW e, NEW S, IsFiniteSet(S), \A k \in S : e[k].size \in Nat, NEW T \in SUBSET S
    PROVE  BytesOf(e, S) = BytesOf(e, T) + BytesOf(e, S \ T)
  <1> DEFINE bad == {u \in SUBSET S : BytesOf(e, S) # BytesOf(e, u) + BytesOf(e, S \ u)}
  <1> SUFFICES ASSUME bad # {} PROVE FALSE
    OBVIOUS
  <1>0. bad \subseteq SUBSET S /\ bad # {}
    OBVIOUS
  <1>1. PICK u \in bad : \A v \in bad : v \subseteq u => v = u
    <2> HIDE DEF bad
    <2> QED BY <1>0, SmallestSubset
  <1>2. \A v \in SUBSET S : IsFiniteSet(v) /\ BytesOf(e, v) \in Nat
    BY FS_Subset, BytesNat
  <1>3. u # {}
    <2> SUFFICES ASSUME u = {} PROVE FALSE
      OBVIOUS
    <2>1. BytesOf(e, u) = 0 /\ S \ u = S
      BY BytesEmpty
    <2>2. BytesOf(e, S) \in Nat
      BY <1>2
    <2>3. QED
      BY <1>1, <2>1, <2>2
  <1>4. PICK x \in u : TRUE
    BY <1>3
  <1>5. u \ {x} \in SUBSET S /\ u \ {x} \notin bad
    BY <1>1, <1>4
  <1>6. BytesOf(e, S) = BytesOf(e, u \ {x}) + BytesOf(e, S \ (u \ {x}))
    BY <1>5
  <1>7. BytesOf(e, u) = e[x].size + BytesOf(e, u \ {x})
    BY <1>1, <1>2, <1>4, BytesRemove
  <1>8. (S \ (u \ {x})) \ {x} = S \ u /\ x \in S \ (u \ {x}) /\ S \ (u \ {x}) \in SUBSET S
    BY <1>1, <1>4
  <1>9. BytesOf(e, S \ (u \ {x})) = e[x].size + BytesOf(e, S \ u)
    <2>1. \A k \in S \ (u \ {x}) : e[k].size \in Nat
      OBVIOUS
    <2>2. BytesOf(e, S \ (u \ {x})) = e[x].size + BytesOf(e, (S \ (u \ {x})) \ {x})
      BY <1>2, <1>8, <2>1, BytesRemove
    <2>3. QED
      BY <1>8, <2>2
  <1>10. e[x].size \in Nat /\ BytesOf(e, u \ {x}) \in Nat /\ BytesOf(e, S \ u) \in Nat
    BY <1>1, <1>2, <1>4
  <1>11. PICK a \in Nat, b \in Nat, c \in Nat :
            a = e[x].size /\ b = BytesOf(e, u \ {x}) /\ c = BytesOf(e, S \ u)
    BY <1>10
  <1>12. BytesOf(e, S) = b + (a + c) /\ BytesOf(e, u) + BytesOf(e, S \ u) = (a + b) + c
    BY <1>6, <1>7, <1>9, <1>11
  <1>13. BytesOf(e, S) # BytesOf(e, u) + BytesOf(e, S \ u)
    BY <1>1
  <1>14. QED
    BY <1>12, <1>13

\* A nonempty set of numbers up to L has a greatest one.
LEMMA GreatestExists ==
    ASSUME NEW L \in Nat, NEW N, N \subseteq 0..L, N # {}
    PROVE  Max(N) \in N /\ \A n \in N : n <= Max(N)
  <1> DEFINE above(n) == (n + 1)..L
             bad == {above(n) : n \in N}
  <1>0. IsFiniteSet(0..L)
    BY FS_Interval
  <1>1. bad \subseteq SUBSET (0..L) /\ bad # {}
    <2>1. \A n \in N : above(n) \subseteq 0..L
      OBVIOUS
    <2> HIDE DEF above
    <2>2. QED
      BY <2>1
  <1>2. PICK u \in bad : \A v \in bad : v \subseteq u => v = u
    <2>1. PICK S : S = 0..L
      OBVIOUS
    <2> HIDE DEF bad
    <2>2. IsFiniteSet(S) /\ bad \subseteq SUBSET S /\ bad # {}
      BY <1>0, <1>1, <2>1
    <2> QED BY <2>2, SmallestSubset
  <1>3. PICK m \in N : u = above(m)
    BY <1>2
  <1>4. ASSUME NEW n \in N PROVE m >= n
    <2> SUFFICES ASSUME n > m PROVE FALSE
      OBVIOUS
    <2>1. above(n) \in bad /\ above(n) \subseteq u
      BY <1>3
    <2>2. m + 1 \in u /\ m + 1 \notin above(n)
      BY <1>3
    <2>3. QED
      BY <1>2, <2>1, <2>2
  <1>5. Max(N) \in N /\ \A n \in N : Max(N) >= n
    BY <1>4 DEF Max
  <1>6. QED
    BY <1>5

-----------------------------------------------------------------------------
(* The list, the map and the byte counter *)

Elems(s) == Positions(s, DOMAIN s)
Distinct(s) == \A i, j \in DOMAIN s : s[i] = s[j] => i = j

LEMMA ElemsOf == \A s \in Seq(Keys) : Elems(s) = {s[j] : j \in 1..Len(s)}
  BY DEF Elems, Positions

LEMMA PositionsFinite ==
    ASSUME NEW s \in Seq(Keys), NEW I \in SUBSET DOMAIN s
    PROVE  IsFiniteSet(Positions(s, I))
  <1>1. IsFiniteSet(I)
    <2>1. DOMAIN s = 1..Len(s) /\ Len(s) \in Nat
      OBVIOUS
    <2>2. IsFiniteSet(DOMAIN s)
      BY <2>1, FS_Interval
    <2>3. QED
      BY <2>2, FS_Subset
  <1> DEFINE f == [i \in I |-> s[i]]
  <1>2. f \in Surjection(I, Positions(s, I))
    BY DEF Surjection, Positions
  <1>3. QED
    <2> HIDE DEF f
    <2> QED BY <1>1, <1>2, FS_Surjection

\* list.Remove: one element leaves, the others keep their order.
LEMMA RemovedFromList ==
    ASSUME NEW s \in Seq(Keys), Distinct(s), NEW k
    PROVE  /\ RemoveFirst(s, k) \in Seq(Keys)
           /\ Distinct(RemoveFirst(s, k))
           /\ Elems(RemoveFirst(s, k)) = Elems(s) \ {k}
           /\ Len(RemoveFirst(s, k)) <= Len(s)
           /\ k \in Elems(s) => Len(RemoveFirst(s, k)) + 1 = Len(s)
  <1>1. CASE k \notin Elems(s)
    <2>1. RemoveFirst(s, k) = s
      BY <1>1 DEF RemoveFirst, Elems, Positions
    <2>2. QED
      BY <1>1, <2>1
  <1>2. CASE k \in Elems(s)
    <2>1. PICK i \in 1..Len(s) : s[i] = k
      BY <1>2 DEF Elems, Positions
    <2>2. {j \in 1..Len(s) : s[j] = k} = {i}
      BY <2>1 DEF Distinct
    <2>3. Min({i}) = i
      BY <2>1 DEF Min
    <2>4. SelectInSeq(s, LAMBDA v : v = k) = i
      BY <2>2, <2>3 DEF SelectInSeq
    <2>5. RemoveFirst(s, k) = SubSeq(s, 1, i - 1) \o SubSeq(s, i + 1, Len(s))
      BY <2>1, <2>4 DEF RemoveFirst, RemoveAt
    <2>6. PICK t : t = SubSeq(s, 1, i - 1) \o SubSeq(s, i + 1, Len(s))
      OBVIOUS
    <2>7. /\ t \in Seq(Keys) /\ Len(t) = Len(s) - 1
          /\ \A j \in 1..(Len(s) - 1) : t[j] = IF j < i THEN s[j] ELSE s[j + 1]
      <3>1. PICK a, b : a = SubSeq(s, 1, i - 1) /\ b = SubSeq(s, i + 1, Len(s))
        OBVIOUS
      <3>2. a \in Seq(Keys) /\ Len(a) = i - 1 /\ \A j \in 1..(i - 1) : a[j] = s[j]
        BY <2>1, <3>1
      <3>3. /\ b \in Seq(Keys) /\ Len(b) = Len(s) - i
            /\ \A j \in 1..(Len(s) - i) : b[j] = s[j + i]
        BY <2>1, <3>1
      <3>4. t = a \o b
        BY <2>6, <3>1
      <3>5. t \in Seq(Keys) /\ Len(t) = Len(s) - 1
        BY <2>1, <3>2, <3>3, <3>4
      <3>6. ASSUME NEW j \in 1..(Len(s) - 1)
            PROVE  t[j] = IF j < i THEN s[j] ELSE s[j + 1]
        <4>1. CASE j < i
          BY <2>1, <3>2, <3>3, <3>4, <4>1, SMTT(20)
        <4>2. CASE ~(j < i)
          <5>1. j - (i - 1) \in 1..(Len(s) - i) /\ t[j] = b[j - (i - 1)]
            BY <2>1, <3>2, <3>3, <3>4, <4>2
          <5>2. b[j - (i - 1)] = s[(j - (i - 1)) + i] /\ (j - (i - 1)) + i = j + 1
            BY <2>1, <3>3, <5>1
          <5>3. QED
            BY <4>2, <5>1, <5>2
        <4>3. QED
          BY <4>1, <4>2
      <3>7. QED
        BY <3>5, <3>6
    <2>8. Distinct(t)
      <3> SUFFICES ASSUME NEW a \in 1..Len(t), NEW b \in 1..Len(t), t[a] = t[b] PROVE a = b
        BY <2>7 DEF Distinct
      <3> DEFINE x == IF a < i THEN a ELSE a + 1
                 y == IF b < i THEN b ELSE b + 1
      <3>1. x \in 1..Len(s) /\ y \in 1..Len(s) /\ s[x] = s[y]
        BY <2>1, <2>7
      <3>2. x = y
        BY <3>1 DEF Distinct
      <3>3. QED
        BY <2>1, <2>7, <3>2
    <2>9. Elems(t) = Elems(s) \ {k}
      <3>1. ASSUME NEW j \in 1..Len(t) PROVE t[j] \in Elems(s) \ {k}
        <4> DEFINE x == IF j < i THEN j ELSE j + 1
        <4>1. x \in 1..Len(s) /\ x # i /\ t[j] = s[x]
          BY <2>1, <2>7
        <4>2. QED
          BY <2>1, <4>1 DEF Distinct, Elems, Positions
      <3>2. ASSUME NEW x \in 1..Len(s), s[x] # k PROVE \E j \in 1..Len(t) : t[j] = s[x]
        <4>1. CASE x < i
          BY <2>1, <2>7, <4>1
        <4>2. CASE x > i
          <5>1. x - 1 \in 1..Len(t) /\ t[x - 1] = s[x]
            BY <2>1, <2>7, <4>2
          <5>2. QED
            BY <5>1
        <4>3. QED
          BY <2>1, <3>2, <4>1, <4>2
      <3>3. Elems(t) \subseteq Elems(s) \ {k}
        BY <2>7, <3>1, ElemsOf
      <3>4. ASSUME NEW v \in Elems(s) \ {k} PROVE v \in Elems(t)
        <4>1. PICK x \in 1..Len(s) : v = s[x]
          BY ElemsOf
        <4>2. PICK j \in 1..Len(t) : t[j] = s[x]
          BY <3>2, <4>1
        <4>3. QED
          BY <2>7, <4>1, <4>2, ElemsOf
      <3>5. QED
        BY <3>3, <3>4
    <2>10. RemoveFirst(s, k) = t
      BY <2>5, <2>6
    <2>11. Len(t) <= Len(s) /\ Len(t) + 1 = Len(s)
      BY <2>7
    <2>12. QED
      BY <2>7, <2>8, <2>9, <2>10, <2>11
  <1>3. QED
    BY <1>1, <1>2

\* list.PushFront of a key that is not in the list.
LEMMA PushedToFront ==
    ASSUME NEW s \in Seq(Keys), Distinct(s), NEW k \in Keys, k \notin Elems(s)
    PROVE  /\ <<k>> \o s \in Seq(Keys)
           /\ Distinct(<<k>> \o s)
           /\ Elems(<<k>> \o s) = Elems(s) \cup {k}
           /\ Len(<<k>> \o s) = Len(s) + 1
  <1>1. PICK t : t = <<k>> \o s
    OBVIOUS
  <1>2. /\ t \in Seq(Keys) /\ Len(t) = Len(s) + 1 /\ t[1] = k
        /\ \A j \in 1..Len(s) : t[j + 1] = s[j]
    BY <1>1
  <1>3. ASSUME NEW j \in 1..Len(t) PROVE j = 1 \/ (j - 1 \in 1..Len(s) /\ t[j] = s[j - 1])
    <2>1. CASE j # 1
      <3>1. j - 1 \in 1..Len(s) /\ (j - 1) + 1 = j
        BY <1>2, <2>1
      <3>2. QED
        BY <1>2, <3>1
    <2>2. QED
      BY <2>1
  <1>4. Elems(t) = Elems(s) \cup {k}
    <2>1. ASSUME NEW j \in 1..Len(t) PROVE t[j] \in Elems(s) \cup {k}
      <3>1. CASE j = 1
        BY <1>2, <3>1
      <3>2. CASE j - 1 \in 1..Len(s) /\ t[j] = s[j - 1]
        BY <3>2, ElemsOf
      <3>3. QED
        BY <1>3, <3>1, <3>2
    <2>2. Elems(t) \subseteq Elems(s) \cup {k}
      BY <1>2, <2>1, ElemsOf
    <2>3. ASSUME NEW j \in 1..Len(s) PROVE s[j] \in Elems(t)
      <3>1. j + 1 \in 1..Len(t) /\ t[j + 1] = s[j]
        BY <1>2
      <3>2. QED
        BY <1>2, <3>1, ElemsOf
    <2>4. k \in Elems(t)
      <3>1. 1 \in 1..Len(t)
        BY <1>2
      <3>2. QED
        BY <1>2, <3>1, ElemsOf
    <2>5. Elems(s) \subseteq Elems(t)
      BY <2>3, ElemsOf
    <2>6. QED
      BY <2>2, <2>4, <2>5
  <1>5. Distinct(t)
    <2> SUFFICES ASSUME NEW a \in 1..Len(t), NEW b \in 1..Len(t), t[a] = t[b] PROVE a = b
      BY <1>2 DEF Distinct
    <2>1. \A j \in 1..Len(s) : s[j] # k
      BY DEF Elems, Positions
    <2>2. CASE a = 1 \/ b = 1
      BY <1>2, <1>3, <2>1, <2>2
    <2>3. CASE a # 1 /\ b # 1
      <3>1. a - 1 = b - 1
        BY <1>3, <2>3 DEF Distinct
      <3>2. QED
        BY <3>1
    <2>4. QED
      BY <2>2, <2>3
  <1>6. QED
    BY <1>1, <1>2, <1>4, <1>5

\* Taking elements off the back until n are left.
LEMMA KeptPrefix ==
    ASSUME NEW s \in Seq(Keys), Distinct(s), NEW n \in 0..Len(s)
    PROVE  /\ SubSeq(s, 1, n) \in Seq(Keys)
           /\ Distinct(SubSeq(s, 1, n))
           /\ Elems(SubSeq(s, 1, n)) = Positions(s, 1..n)
           /\ Len(SubSeq(s, 1, n)) = n
           /\ Positions(s, (n + 1)..Len(s)) = Elems(s) \ Positions(s, 1..n)
  <1>1. PICK t : t = SubSeq(s, 1, n)
    OBVIOUS
  <1>2. t \in Seq(Keys) /\ Len(t) = n /\ \A j \in 1..n : t[j] = s[j] /\ j \in 1..Len(s)
    BY <1>1
  <1>3. Distinct(t)
    BY <1>2 DEF Distinct
  <1>4. Elems(t) = Positions(s, 1..n)
    BY <1>2 DEF Elems, Positions
  <1>5. Positions(s, (n + 1)..Len(s)) = Elems(s) \ Positions(s, 1..n)
    <2>1. \A j \in 1..Len(s) : (j \in 1..n \/ j \in (n + 1)..Len(s)) /\ ~(j \in 1..n /\ j \in (n + 1)..Len(s))
      OBVIOUS
    <2>2. 1..n \subseteq 1..Len(s) /\ (n + 1)..Len(s) \subseteq 1..Len(s) /\ DOMAIN s = 1..Len(s)
      OBVIOUS
    <2> DEFINE A == 1..n
               B == (n + 1)..Len(s)
    <2> HIDE DEF A, B
    <2>3. Positions(s, B) = Positions(s, DOMAIN s) \ Positions(s, A)
      BY <2>1, <2>2 DEF Positions, Distinct, A, B
    <2>4. QED
      BY <2>3 DEF A, B, Elems
  <1>6. QED
    BY <1>1, <1>2, <1>3, <1>4, <1>5

LEMMA KeptLengthFits ==
    ASSUME NEW s \in Seq(Keys), NEW e
    PROVE  /\ KeptLength(s, e) \in 0..Len(s)
           /\ KeptLength(s, e) <= MaxEntries
           /\ BytesOf(e, Positions(s, 1..KeptLength(s, e))) <= MaxBytes
  <1> DEFINE N == {n \in 0..Len(s) : n <= MaxEntries /\ BytesOf(e, Positions(s, 1..n)) <= MaxBytes}
  <1>1. Positions(s, 1..0) = {}
    BY DEF Positions
  <1>2. 0 \in N
    BY <1>1, BytesEmpty, SMTT(20)
  <1>3. KeptLength(s, e) = Max(N)
    BY DEF KeptLength
  <1>4. N \subseteq 0..Len(s) /\ Len(s) \in Nat
    OBVIOUS
  <1>5. Max(N) \in N
    <2> HIDE DEF N
    <2> QED BY <1>2, <1>4, GreatestExists
  <1>6. QED
    BY <1>3, <1>5

StorageInv ==
    /\ lru \in Seq(Keys)
    /\ Distinct(lru)
    /\ {k \in Keys : Cached(k)} = Elems(lru)
    /\ usedBytes \in Nat
    /\ usedBytes = BytesOf(entry, Elems(lru))
    /\ usedBytes <= MaxBytes
    /\ Len(lru) <= MaxEntries

LEMMA ElemsFinite == \A s \in Seq(Keys) : IsFiniteSet(Elems(s)) /\ Elems(s) \subseteq Keys
  BY PositionsFinite, ElemsOf DEF Elems

LEMMA StorageInit == Init => StorageInv
  <1> SUFFICES ASSUME Init PROVE StorageInv
    OBVIOUS
  <1>1. lru \in Seq(Keys) /\ Distinct(lru) /\ Len(lru) = 0 /\ Elems(lru) = {}
    BY DEF Init, Distinct, Elems, Positions
  <1>2. {k \in Keys : Cached(k)} = {}
    BY AbsentEntry DEF Init, Cached
  <1>3. usedBytes = 0
    BY DEF Init
  <1>4. QED
    BY <1>1, <1>2, <1>3, BytesEmpty DEF StorageInv

\* The size of a key's entry is counted exactly when the key is in the list.
LEMMA SizeOut ==
    ASSUME CoreTypes, StorageInv, NEW k \in Keys
    PROVE  /\ usedBytes - entry[k].size = BytesOf(entry, Elems(lru) \ {k})
           /\ usedBytes - entry[k].size \in Nat
           /\ usedBytes - entry[k].size <= usedBytes
           /\ \A x \in Keys : entry[x].size \in Nat
  <1>1. \A x \in Keys : entry[x].size \in Nat
    BY DEF CoreTypes, Entry
  <1>2. IsFiniteSet(Elems(lru)) /\ Elems(lru) \subseteq Keys
    BY ElemsFinite DEF StorageInv
  <1>3. IsFiniteSet(Elems(lru) \ {k})
    BY <1>2, FS_Subset
  <1>4. BytesOf(entry, Elems(lru) \ {k}) \in Nat
    BY <1>1, <1>2, <1>3, BytesNat
  <1>5. usedBytes = entry[k].size + BytesOf(entry, Elems(lru) \ {k})
    <2>1. CASE k \in Elems(lru)
      <3>1. \A x \in Elems(lru) : entry[x].size \in Nat
        BY <1>1, <1>2
      <3>2. BytesOf(entry, Elems(lru)) = entry[k].size + BytesOf(entry, Elems(lru) \ {k})
        BY <1>2, <2>1, <3>1, BytesRemove
      <3>3. usedBytes = BytesOf(entry, Elems(lru))
        BY DEF StorageInv
      <3>4. QED
        BY <3>2, <3>3, Zenon
    <2>2. CASE k \notin Elems(lru)
      <3>1. entry[k].size = 0
        BY <1>1, <2>2 DEF StorageInv, Cached
      <3>2. Elems(lru) \ {k} = Elems(lru)
        BY <2>2
      <3>3. usedBytes = BytesOf(entry, Elems(lru) \ {k})
        BY <3>2 DEF StorageInv
      <3>4. QED
        BY <1>4, <3>1, <3>3
    <2>3. QED
      BY <2>1, <2>2
  <1>6. PICK a \in Nat, b \in Nat : a = entry[k].size /\ b = BytesOf(entry, Elems(lru) \ {k})
    BY <1>1, <1>4
  <1>7. usedBytes = a + b
    BY <1>5, <1>6
  <1>8. usedBytes - a = b /\ b <= usedBytes
    BY <1>7
  <1>9. QED
    BY <1>1, <1>6, <1>8

LEMMA StorageRemove ==
    ASSUME CoreTypes, StorageInv, NEW k \in Keys, RemoveLocked(k)
    PROVE  StorageInv'
  <1>1. /\ usedBytes - entry[k].size = BytesOf(entry, Elems(lru) \ {k})
        /\ usedBytes' \in Nat /\ usedBytes' <= usedBytes
        /\ usedBytes' = usedBytes - entry[k].size
    BY SizeOut DEF RemoveLocked
  <1>2. /\ lru' \in Seq(Keys) /\ Distinct(lru') /\ Elems(lru') = Elems(lru) \ {k}
        /\ Len(lru') <= Len(lru)
    BY RemovedFromList DEF RemoveLocked, StorageInv
  <1>3. entry'[k] = Absent /\ \A x \in Keys : x # k => entry'[x] = entry[x]
    BY DEF RemoveLocked, CoreTypes
  <1>4. {x \in Keys : Cached(x)'} = Elems(lru')
    BY <1>2, <1>3, AbsentEntry DEF StorageInv, Cached
  <1>5. BytesOf(entry', Elems(lru')) = BytesOf(entry, Elems(lru'))
    <2>1. IsFiniteSet(Elems(lru')) /\ \A x \in Elems(lru') : entry'[x].size = entry[x].size
      BY <1>2, <1>3, ElemsFinite
    <2>2. QED
      BY <2>1, BytesSame
  <1>6. usedBytes' <= MaxBytes /\ Len(lru') <= MaxEntries
    <2>1. usedBytes \in Nat /\ Len(lru) \in Nat /\ Len(lru') \in Nat
      BY <1>2 DEF StorageInv
    <2>2. QED
      BY <1>1, <1>2, <2>1 DEF StorageInv
  <1>7. usedBytes' = BytesOf(entry', Elems(lru'))
    BY <1>1, <1>2, <1>5
  <1>8. QED
    BY <1>1, <1>2, <1>4, <1>6, <1>7 DEF StorageInv

\* setLocked: the new response is counted, and the eviction stops within both
\* limits with the counter still equal to the sum.
LEMMA StorageStore ==
    ASSUME CoreTypes, StorageInv, NEW r \in Requests, request[r].pc = "encode", Store(r)
    PROVE  StorageInv'
  <1>1. PICK k, s, e, n, size :
          /\ k = request[r].key /\ s = Pushed(k) /\ e = EntryWith(r)
          /\ n = KeptLength(s, e) /\ size = request[r].size
    OBVIOUS
  <1>2. PICK evicted : evicted = Positions(s, (n + 1)..Len(s))
    OBVIOUS
  <1>3. /\ lru' = SubSeq(s, 1, n)
        /\ entry' = [x \in Keys |-> IF x \in evicted THEN Absent ELSE e[x]]
        /\ usedBytes' = usedBytes - entry[k].size + size - BytesOf(e, evicted)
    BY <1>1, <1>2 DEF Store
  <1>4. k \in Keys /\ size \in Nat /\ size > 0
    <2>1. k \in Keys /\ size \in Sizes
      BY <1>1, RequestFields
    <2>2. Sizes \subseteq Nat \ {0}
      BY ONLY CacheAssumption
    <2>3. size \in Nat \ {0}
      BY ONLY <2>1, <2>2
    <2>4. \A m \in Nat \ {0} : m > 0
      OBVIOUS
    <2>5. QED
      BY <2>1, <2>3, <2>4
  <1>5. /\ e[k].size = size
        /\ \A x \in Keys : x # k => e[x] = entry[x]
    BY <1>1, <1>4 DEF EntryWith, CoreTypes
  <1>6. /\ s \in Seq(Keys) /\ Distinct(s) /\ Elems(s) = Elems(lru) \cup {k}
    <2>1. PICK t : t = RemoveFirst(lru, k)
      OBVIOUS
    <2>2. t \in Seq(Keys) /\ Distinct(t) /\ Elems(t) = Elems(lru) \ {k}
      BY <2>1, RemovedFromList DEF StorageInv
    <2>3. s = <<k>> \o t
      BY <1>1, <2>1 DEF Pushed
    <2>4. s \in Seq(Keys) /\ Distinct(s) /\ Elems(s) = Elems(t) \cup {k}
      BY <1>4, <2>2, <2>3, PushedToFront
    <2>5. QED
      BY <2>2, <2>4
  <1>7. /\ n \in 0..Len(s) /\ n <= MaxEntries
        /\ BytesOf(e, Positions(s, 1..n)) <= MaxBytes
    BY <1>1, <1>6, KeptLengthFits
  <1>8. /\ lru' \in Seq(Keys) /\ Distinct(lru') /\ Elems(lru') = Positions(s, 1..n)
        /\ Len(lru') = n /\ evicted = Elems(s) \ Elems(lru')
    BY <1>2, <1>3, <1>6, <1>7, KeptPrefix
  <1>9. /\ IsFiniteSet(Elems(s)) /\ Elems(s) \subseteq Keys
        /\ \A x \in Keys : e[x].size \in Nat
        /\ Elems(lru') \subseteq Elems(s) /\ Elems(s) \ {k} = Elems(lru) \ {k} /\ k \in Elems(s)
    <2>1. Elems(lru') \subseteq Elems(s)
      <3>1. 1..n \subseteq DOMAIN s
        BY <1>6, <1>7
      <3>2. Positions(s, 1..n) \subseteq Positions(s, DOMAIN s)
        BY <3>1 DEF Positions
      <3>3. QED
        BY <1>8, <3>2 DEF Elems
    <2>2. \A x \in Keys : e[x].size \in Nat
      BY <1>4, <1>5, SizeOut
    <2>3. QED
      BY <1>6, <2>1, <2>2, ElemsFinite
  <1>10. IsFiniteSet(Elems(s) \ {k}) /\ IsFiniteSet(Elems(lru')) /\ IsFiniteSet(evicted)
    BY <1>8, <1>9, FS_Subset
  <1>11. usedBytes - entry[k].size = BytesOf(e, Elems(s) \ {k})
    <2>1. BytesOf(entry, Elems(s) \ {k}) = BytesOf(e, Elems(s) \ {k})
      <3>1. \A x \in Elems(s) \ {k} : entry[x].size = e[x].size
        BY <1>5, <1>9
      <3>2. QED
        BY <1>10, <3>1, BytesSame
    <2>2. QED
      BY <1>4, <1>9, <2>1, SizeOut
  <1>12. BytesOf(e, Elems(s)) = size + BytesOf(e, Elems(s) \ {k})
    BY <1>5, <1>9, BytesRemove
  <1>13. BytesOf(e, Elems(s)) = BytesOf(e, Elems(lru')) + BytesOf(e, evicted)
    <2>1. \A x \in Elems(s) : e[x].size \in Nat
      BY <1>9
    <2>2. QED
      BY <1>8, <1>9, <2>1, BytesSplit
  <1>14. /\ BytesOf(e, Elems(s) \ {k}) \in Nat
         /\ BytesOf(e, Elems(lru')) \in Nat
         /\ BytesOf(e, evicted) \in Nat
    BY <1>8, <1>9, <1>10, BytesNat
  <1>15. usedBytes' = BytesOf(e, Elems(lru'))
    <2>1. PICK a \in Nat, b \in Nat, c \in Nat :
            a = BytesOf(e, Elems(s) \ {k}) /\ b = BytesOf(e, Elems(lru')) /\ c = BytesOf(e, evicted)
      BY <1>14
    <2>2. usedBytes' = a + size - c
      BY <1>3, <1>11, <2>1
    <2>3. size + a = b + c
      BY <1>12, <1>13, <2>1
    <2>4. usedBytes' = b
      BY <1>4, <2>2, <2>3
    <2>5. QED
      BY <2>1, <2>4
  <1>16. \A x \in Elems(lru') : entry'[x] = e[x]
    BY <1>3, <1>8, <1>9
  <1>17. BytesOf(entry', Elems(lru')) = BytesOf(e, Elems(lru'))
    BY <1>10, <1>16, BytesSame
  <1>18. {x \in Keys : Cached(x)'} = Elems(lru')
    <2>1. \A x \in Keys : e[x].size > 0 <=> x \in Elems(s)
      BY <1>4, <1>5, <1>6, <1>9 DEF StorageInv, Cached
    <2>2. \A x \in Keys : entry'[x].size > 0 <=> x \in Elems(s) /\ x \notin evicted
      BY <1>3, <2>1, AbsentEntry
    <2>3. QED
      BY <1>8, <1>9, <2>2 DEF Cached
  <1>19. usedBytes' <= MaxBytes /\ Len(lru') <= MaxEntries
    BY <1>7, <1>8, <1>15
  <1>20. usedBytes' \in Nat /\ usedBytes' = BytesOf(entry', Elems(lru'))
    BY <1>14, <1>15, <1>17
  <1>21. QED
    BY <1>8, <1>18, <1>19, <1>20 DEF StorageInv

LEMMA StorageHit ==
    ASSUME CoreTypes, StorageInv, NEW r \in Requests, NEW k \in Keys, Hit(r, k)
    PROVE  StorageInv'
  <1>1. PICK t : t = RemoveFirst(lru, k)
    OBVIOUS
  <1>2. /\ t \in Seq(Keys) /\ Distinct(t) /\ Elems(t) = Elems(lru) \ {k}
        /\ Len(t) + 1 = Len(lru) /\ k \in Elems(lru)
    <2>1. k \in Elems(lru)
      BY DEF StorageInv, Hit, Fresh
    <2>2. QED
      BY <1>1, <2>1, RemovedFromList DEF StorageInv
  <1>3. lru' = <<k>> \o t /\ UNCHANGED <<entry, usedBytes>>
    BY <1>1 DEF Hit
  <1>4. /\ lru' \in Seq(Keys) /\ Distinct(lru') /\ Elems(lru') = Elems(lru)
        /\ Len(lru') = Len(t) + 1
    <2>1. PICK u : u = <<k>> \o t
      OBVIOUS
    <2>2. /\ u \in Seq(Keys) /\ Distinct(u) /\ Elems(u) = Elems(t) \cup {k}
          /\ Len(u) = Len(t) + 1
      BY <1>2, <2>1, PushedToFront
    <2>3. lru' = u /\ Elems(t) \cup {k} = Elems(lru)
      BY <1>2, <1>3, <2>1
    <2>4. QED
      BY <2>2, <2>3
  <1>5. Len(lru') <= MaxEntries
    BY <1>2, <1>4 DEF StorageInv
  <1>6. {x \in Keys : Cached(x)'} = Elems(lru')
    BY <1>3, <1>4 DEF StorageInv, Cached
  <1>7. QED
    BY <1>3, <1>4, <1>5, <1>6 DEF StorageInv

LEMMA StorageNext == CoreTypes /\ StorageInv /\ [Next]_vars => StorageInv'
  <1> SUFFICES ASSUME CoreTypes, StorageInv, [Next]_vars PROVE StorageInv'
    OBVIOUS
  <1>0. ASSUME UNCHANGED storage PROVE StorageInv'
    BY <1>0 DEF storage, StorageInv, Cached
  <1>1. ASSUME NEW k \in Keys, Commit(k) \/ Invalidate(k) PROVE StorageInv'
    BY <1>0, <1>1, StorageRemove DEF Commit, Invalidate
  <1>2. ASSUME NEW r \in Requests, NEW k \in Keys, Hit(r, k) \/ Join(r, k) \/ Lead(r, k)
        PROVE  StorageInv'
    BY <1>2, StorageHit, StorageRemove DEF Join, Lead
  <1>3. ASSUME NEW r \in Requests, BuildStep(r) PROVE StorageInv'
    BY <1>0, <1>3, StorageStore DEF BuildStep, ReadStore, Finish, BuildFails
  <1>4. CASE (\E r \in Requests : GiveUp(r)) \/ Tick \/ UNCHANGED vars
    BY <1>0, <1>4 DEF GiveUp, Tick, vars, storage
  <1>5. QED
    BY <1>1, <1>2, <1>3, <1>4 DEF Next

LEMMA StorageAlways == Spec => [](CoreTypes /\ StorageInv)
  <1>1. CacheInv => CoreTypes
    BY DEF CacheInv
  <1>2. QED
    BY <1>1, CacheInit, CacheNext, StorageInit, StorageNext, PTL DEF Spec

\* Type correctness of the cache and of the data behind it.
THEOREM TypeCorrect == Spec => []TypeOK
  <1>1. CoreTypes /\ StorageInv => TypeOK
    BY DEF StorageInv, TypeOK
  <1>2. QED
    BY <1>1, StorageAlways, PTL

\* Whatever is hit, replaced, expired, invalidated and evicted: the list holds
\* each cached key once, the byte counter is the sum of the cached responses and
\* neither limit is ever exceeded.
THEOREM CacheAccounting == Spec => []Accounting
  <1>1. CoreTypes /\ StorageInv => Accounting
    BY DEF StorageInv, Accounting, Distinct, Elems
  <1>2. QED
    BY <1>1, StorageAlways, PTL

=============================================================================
