-------------------------- MODULE BulkCacheProofs --------------------------
(***************************************************************************)
(* BulkCache: what a cached snapshot shows, for any number of requests and *)
(* synchronisations and any lifetime. The invariant adds to                *)
(* FreshUnlessCrossed what a build under way has read so far.              *)
(***************************************************************************)
EXTENDS BulkCache, TLAPS

USE BulkAssumption DEF Versions, Times

\* A build that no invalidation has crossed has read nothing older than the
\* last invalidation, and its second read is not older than its first.
BuildInv ==
    \A r \in Requests :
        /\ request[r].pc \in {"summary", "set"} =>
              /\ request[r].repos <= db
              /\ ~request[r].crossed => invalidated <= request[r].repos
        /\ request[r].pc = "set" =>
              request[r].repos <= request[r].summary /\ request[r].summary <= db

Inv == TypeOK /\ invalidated <= db /\ BuildInv /\ FreshUnlessCrossed

LEMMA RequestFields ==
    ASSUME TypeOK, NEW r \in Requests
    PROVE  /\ request[r] \in RequestState
           /\ request[r].pc \in {"idle", "repos", "summary", "set"}
           /\ request[r].pc # "idle" =>
                request[r].floor \in Versions /\ request[r].crossed \in BOOLEAN
           /\ request[r].pc \in {"summary", "set"} => request[r].repos \in Versions
           /\ request[r].pc = "set" => request[r].summary \in Versions
  BY DEF TypeOK, RequestState

LEMMA EntryFields ==
    ASSUME TypeOK
    PROVE  /\ entry.built \in BOOLEAN
           /\ entry.built => entry.repos \in Versions /\ entry.summary \in Versions
  <1>1. CASE entry \in Entry
    BY <1>1 DEF Entry
  <1>2. CASE entry = NoEntry
    BY <1>2 DEF NoEntry
  <1>3. QED
    BY <1>1, <1>2 DEF TypeOK

LEMMA InvInit == Init => Inv
  <1> SUFFICES ASSUME Init PROVE Inv
    OBVIOUS
  <1> USE DEF Init
  <1>1. NoAnswer \in [repos : Versions, floor : Versions]
    BY DEF NoAnswer
  <1>2. Idle \in RequestState
    BY DEF Idle, RequestState
  <1>3. TypeOK
    BY <1>1, <1>2 DEF TypeOK
  <1>4. BuildInv
    BY DEF BuildInv, Idle
  <1>5. FreshUnlessCrossed
    BY DEF FreshUnlessCrossed, NoEntry
  <1>6. QED
    BY <1>3, <1>4, <1>5 DEF Inv

\* The steps of a synchronisation that touch neither the cache nor a build.
LEMMA SyncStep ==
    ASSUME Inv, NEW s \in Syncs, BeginSync(s) \/ SyncFails(s) \/ SyncSucceeds(s)
    PROVE  Inv'
  BY DEF Inv, TypeOK, BuildInv, FreshUnlessCrossed, BeginSync, SyncFails, SyncSucceeds

LEMMA CommitStep ==
    ASSUME Inv, NEW s \in Syncs, Commit(s)
    PROVE  Inv'
  <1> USE DEF Inv, Commit
  <1>1. TypeOK'
    BY DEF TypeOK
  <1>2. db \in Nat /\ invalidated \in Nat /\ db' = db + 1
    BY DEF TypeOK
  <1>3. BuildInv'
    BY <1>2, RequestFields DEF BuildInv
  <1>4. FreshUnlessCrossed'
    BY <1>2, EntryFields DEF FreshUnlessCrossed
  <1>5. QED
    BY <1>1, <1>2, <1>3, <1>4

LEMMA InvalidateStep ==
    ASSUME Inv, NEW s \in Syncs, Invalidate(s)
    PROVE  Inv'
  <1> USE DEF Inv, Invalidate
  <1>1. ASSUME NEW r \in Requests
        PROVE  /\ request[r].pc = "idle" => request'[r] = request[r]
               /\ request[r].pc # "idle" => request'[r] = [request[r] EXCEPT !.crossed = TRUE]
    OBVIOUS
  <1>2. ASSUME NEW r \in Requests
        PROVE  request'[r] \in RequestState
    <2>1. CASE request[r].pc = "idle"
      BY <1>1, <2>1, RequestFields
    <2>2. CASE request[r].pc = "repos"
      BY <1>1, <2>2, RequestFields DEF RequestState
    <2>3. CASE request[r].pc = "summary"
      BY <1>1, <2>3, RequestFields DEF RequestState
    <2>4. CASE request[r].pc = "set"
      BY <1>1, <2>4, RequestFields, ZenonT(40) DEF RequestState
    <2>5. QED
      BY <2>1, <2>2, <2>3, <2>4, RequestFields
  <1>3. request' \in [Requests -> RequestState]
    BY <1>2
  <1>4. TypeOK'
    BY <1>3 DEF TypeOK, NoEntry
  <1>5. ASSUME NEW r \in Requests, request'[r].pc \in {"summary", "set"}
        PROVE  /\ request'[r].pc = request[r].pc /\ request'[r].crossed
               /\ request'[r].repos = request[r].repos
               /\ request'[r].pc = "set" => request'[r].summary = request[r].summary
    BY <1>1, <1>5, RequestFields DEF RequestState
  <1>6. BuildInv'
    BY <1>5 DEF BuildInv
  <1>7. FreshUnlessCrossed'
    BY DEF FreshUnlessCrossed, NoEntry
  <1>8. invalidated' <= db'
    BY DEF TypeOK
  <1>9. QED
    BY <1>4, <1>6, <1>7, <1>8

LEMMA HitStep ==
    ASSUME Inv, NEW r \in Requests, Hit(r)
    PROVE  Inv'
  <1> USE DEF Inv, Hit
  <1>1. [repos |-> entry.repos, floor |-> invalidated] \in [repos : Versions, floor : Versions]
    BY EntryFields DEF TypeOK, Valid
  <1>2. TypeOK'
    BY <1>1 DEF TypeOK
  <1>3. QED
    BY <1>2 DEF BuildInv, FreshUnlessCrossed

LEMMA MissStep ==
    ASSUME Inv, NEW r \in Requests, Miss(r)
    PROVE  Inv'
  <1> USE DEF Inv, Miss
  <1>1. [pc |-> "repos", floor |-> invalidated, crossed |-> FALSE] \in RequestState
    BY DEF TypeOK, RequestState
  <1>2. TypeOK'
    BY <1>1 DEF TypeOK
  <1>3. BuildInv'
    BY DEF BuildInv, TypeOK
  <1>4. QED
    BY <1>2, <1>3 DEF FreshUnlessCrossed

LEMMA ReadReposStep ==
    ASSUME Inv, NEW r \in Requests, ReadRepos(r)
    PROVE  Inv'
  <1> USE DEF Inv, ReadRepos
  <1>1. [pc |-> "summary", floor |-> request[r].floor, crossed |-> request[r].crossed,
         repos |-> db] \in RequestState
    BY RequestFields DEF TypeOK, RequestState
  <1>2. TypeOK'
    BY <1>1 DEF TypeOK
  <1>3. BuildInv'
    BY DEF BuildInv, TypeOK
  <1>4. QED
    BY <1>2, <1>3 DEF FreshUnlessCrossed

LEMMA ReadSummaryStep ==
    ASSUME Inv, NEW r \in Requests, ReadSummary(r)
    PROVE  Inv'
  <1> USE DEF Inv, ReadSummary
  <1>1. [pc |-> "set", floor |-> request[r].floor, crossed |-> request[r].crossed,
         repos |-> request[r].repos, summary |-> db] \in RequestState
    BY RequestFields DEF TypeOK, RequestState
  <1>2. TypeOK'
    BY <1>1 DEF TypeOK
  <1>3. BuildInv'
    BY DEF BuildInv, TypeOK
  <1>4. QED
    BY <1>2, <1>3 DEF FreshUnlessCrossed

LEMMA ReadFailsStep ==
    ASSUME Inv, NEW r \in Requests, ReadFails(r)
    PROVE  Inv'
  <1> USE DEF Inv, ReadFails, Idle
  <1>1. TypeOK'
    <2>1. [pc |-> "idle"] \in RequestState
      BY DEF RequestState
    <2>2. request' \in [Requests -> RequestState]
      BY <2>1 DEF TypeOK
    <2>3. QED
      BY <2>2 DEF TypeOK
  <1>2. BuildInv'
    BY DEF BuildInv, TypeOK
  <1>3. QED
    BY <1>1, <1>2 DEF FreshUnlessCrossed

\* Set is where BuildInv pays: whatever is stored is what the build has read.
LEMMA SetStep ==
    ASSUME Inv, NEW r \in Requests, Set(r)
    PROVE  Inv'
  <1> USE DEF Inv, Set, Idle
  <1>1. /\ request[r].crossed \in BOOLEAN /\ request[r].floor \in Versions
        /\ request[r].repos \in Versions /\ request[r].summary \in Versions
    BY RequestFields
  <1>2. entry' \in Entry
    BY <1>1 DEF Entry, TypeOK
  <1>3. answer' \in [Requests -> [repos : Versions, floor : Versions]]
    BY <1>1 DEF TypeOK
  <1>4. request' \in [Requests -> RequestState]
    BY DEF TypeOK, RequestState
  <1>5. TypeOK'
    BY <1>2, <1>3, <1>4 DEF TypeOK
  <1>6. BuildInv'
    BY DEF BuildInv, TypeOK
  <1>7. FreshUnlessCrossed'
    BY DEF FreshUnlessCrossed, BuildInv
  <1>8. QED
    BY <1>5, <1>6, <1>7

LEMMA TickStep ==
    ASSUME Inv, Tick
    PROVE  Inv'
  BY DEF Inv, Tick, TypeOK, BuildInv, FreshUnlessCrossed

LEMMA InvNext == Inv /\ [Next]_vars => Inv'
  <1> SUFFICES ASSUME Inv, [Next]_vars PROVE Inv'
    OBVIOUS
  <1>1. CASE UNCHANGED vars
    BY <1>1 DEF Inv, TypeOK, BuildInv, FreshUnlessCrossed, vars
  <1>2. ASSUME NEW s \in Syncs,
               BeginSync(s) \/ Commit(s) \/ SyncFails(s) \/ SyncSucceeds(s) \/ Invalidate(s)
        PROVE  Inv'
    BY <1>2, SyncStep, CommitStep, InvalidateStep
  <1>3. ASSUME NEW r \in Requests,
               Hit(r) \/ Miss(r) \/ ReadRepos(r) \/ ReadSummary(r) \/ ReadFails(r) \/ Set(r)
        PROVE  Inv'
    BY <1>3, HitStep, MissStep, ReadReposStep, ReadSummaryStep, ReadFailsStep, SetStep
  <1>4. CASE Tick
    BY <1>4, TickStep
  <1>5. QED
    BY <1>1, <1>2, <1>3, <1>4 DEF Next

\* The entry, the requests and the history variables keep their types: a build
\* carries what it has read, and only that is stored.
THEOREM TypeCorrect == Spec => []TypeOK
  <1>1. Inv => TypeOK
    BY DEF Inv
  <1>2. QED
    BY InvInit, InvNext, <1>1, PTL DEF Spec

\* A cached snapshot shows all that was committed before the last successful
\* synchronisation cleared the cache, unless its build had begun before that;
\* its summary is never older than its repository list (HandleBulk, Set).
THEOREM BulkFreshness == Spec => []FreshUnlessCrossed
  <1>1. Inv => FreshUnlessCrossed
    BY DEF Inv
  <1>2. QED
    BY InvInit, InvNext, <1>1, PTL DEF Spec

=============================================================================
