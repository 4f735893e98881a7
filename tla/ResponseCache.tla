--------------------------- MODULE ResponseCache ---------------------------
(***************************************************************************)
(* AwesomeResponseCache (internal/handler/awesome_cache.go): a bounded LRU *)
(* of encoded public responses with one build per key at a time and a      *)
(* generation per key, next to the SQLite data the responses are built     *)
(* from. One critical section of c.mu is one step; a build runs outside    *)
(* the mutex and so does everything the writers do to SQLite.              *)
(***************************************************************************)
EXTENDS Naturals, Sequences, FiniteSets, SequencesExt

CONSTANTS
    Keys,        \* "catalog" and one "entries:<id>" per source
    Requests,    \* HTTP requests that can be in getOrBuild at once
    Sizes,       \* sizes an encoded response can have (payload plus gzip)
    MaxEntries,  \* c.maxEntries
    MaxBytes,    \* c.maxBytes
    TTL,         \* c.ttl
    MaxTime,     \* bound: last clock value explored
    MaxCommits,  \* bound: committed changes per key
    MaxInvalidations \* bound: invalidations per key

ASSUME CacheAssumption ==
    /\ Sizes \subseteq Nat \ {0}
    /\ MaxEntries \in Nat \ {0}
    /\ MaxBytes \in Nat \ {0}
    /\ TTL \in Nat \ {0}
    /\ MaxTime \in Nat
    /\ MaxCommits \in Nat
    /\ MaxInvalidations \in Nat

VARIABLES
    now,         \* c.now()
    db,          \* version of what SQLite holds for each key
    owed,        \* committed changes whose writer has still to invalidate
    entry,       \* c.items
    lru,         \* c.lru, most recently used first
    usedBytes,   \* c.usedBytes
    generation,  \* c.generation
    inflight,    \* c.inflight: the request that builds the key
    request,     \* where each HTTP request is
    answer,      \* history: what each request was last answered with
    invalidated  \* history: version in SQLite at the last invalidation

vars == <<now, db, owed, entry, lru, usedBytes, generation, inflight, request,
          answer, invalidated>>
storage == <<entry, lru, usedBytes>>
source  == <<db, owed, invalidated>>

-----------------------------------------------------------------------------
(* Data *)

Versions == 0..MaxCommits

\* awesomeCacheItem; encoded responses are never empty, so size 0 is "absent".
Entry == [version : Versions, size : Nat, expiresAt : Nat]
Absent == [version |-> 0, size |-> 0, expiresAt |-> 0]

NoRequest == [pc |-> "none"]
Idle == [pc |-> "idle"]

\* floor: the version an answer must not be older than, namely what SQLite held
\* when the key was last invalidated before the request arrived.
RequestState ==
    [pc : {"idle"}]
    \cup [pc : {"build"}, key : Keys, floor : Versions, gen : Nat]
    \cup [pc : {"encode"}, key : Keys, floor : Versions, gen : Nat,
          version : Versions, size : Sizes]
    \cup [pc : {"wait"}, key : Keys, floor : Versions, leader : Requests]

NoAnswer == [version |-> 0, floor |-> 0, joined |-> FALSE]
AnswerState == [version : Versions, floor : Versions, joined : BOOLEAN]

Cached(k) == entry[k].size > 0
Fresh(k) == Cached(k) /\ now < entry[k].expiresAt

Building(r) == request[r].pc \in {"build", "encode"}

\* Bytes held by the entries of a set of keys.
BytesOf(e, S) == MapThenSumSet(LAMBDA k : e[k].size, S)

Positions(s, I) == {s[i] : i \in I}

-----------------------------------------------------------------------------
Init ==
    /\ now = 0
    /\ db = [k \in Keys |-> 0]
    /\ owed = [k \in Keys |-> 0]
    /\ entry = [k \in Keys |-> Absent]
    /\ lru = <<>>
    /\ usedBytes = 0
    /\ generation = [k \in Keys |-> 0]
    /\ inflight = [k \in Keys |-> {}]
    /\ request = [r \in Requests |-> Idle]
    /\ answer = [r \in Requests |-> NoAnswer]
    /\ invalidated = [k \in Keys |-> 0]

-----------------------------------------------------------------------------
(* Writers: the Awesome service commits to SQLite and invalidates afterwards *)

Commit(k) ==
    /\ db[k] < MaxCommits
    /\ db' = [db EXCEPT ![k] = @ + 1]
    /\ owed' = [owed EXCEPT ![k] = @ + 1]
    /\ UNCHANGED <<now, storage, generation, inflight, request, answer, invalidated>>

\* removeLocked(items[key]); nothing happens when the key is not cached.
RemoveLocked(k) ==
    /\ entry' = [entry EXCEPT ![k] = Absent]
    /\ lru' = RemoveFirst(lru, k)
    /\ usedBytes' = usedBytes - entry[k].size

\* Mutant of Invalidate: the generation stays.
InvalidateKeepsGeneration(k) ==
    /\ generation[k] < MaxInvalidations
    /\ \E n \in 0..1 : n <= owed[k] /\ owed' = [owed EXCEPT ![k] = @ - n]
    /\ RemoveLocked(k)
    /\ invalidated' = [invalidated EXCEPT ![k] = db[k]]
    /\ UNCHANGED <<now, db, generation, inflight, request, answer>>

\* Mutant of Invalidate: the build in flight is forgotten along with the entry.
InvalidateDropsBuild(k) ==
    /\ generation[k] < MaxInvalidations
    /\ \E n \in 0..1 : n <= owed[k] /\ owed' = [owed EXCEPT ![k] = @ - n]
    /\ generation' = [generation EXCEPT ![k] = @ + 1]
    /\ RemoveLocked(k)
    /\ invalidated' = [invalidated EXCEPT ![k] = db[k]]
    /\ inflight' = [inflight EXCEPT ![k] = {}]
    /\ UNCHANGED <<now, db, request, answer>>

\* invalidate: a new generation, and the entry goes. A writer that changed
\* nothing (a synchronisation that failed or found the same README) does it too.
Invalidate(k) ==
    /\ generation[k] < MaxInvalidations
    /\ \E n \in 0..1 : n <= owed[k] /\ owed' = [owed EXCEPT ![k] = @ - n]
    /\ generation' = [generation EXCEPT ![k] = @ + 1]
    /\ RemoveLocked(k)
    /\ invalidated' = [invalidated EXCEPT ![k] = db[k]]
    /\ UNCHANGED <<now, db, inflight, request, answer>>

-----------------------------------------------------------------------------
(* getOrBuild *)

\* getLocked finds a live entry: it moves to the front and is the answer.
Hit(r, k) ==
    /\ request[r].pc = "idle"
    /\ Fresh(k)
    /\ lru' = <<k>> \o RemoveFirst(lru, k)
    /\ answer' = [answer EXCEPT ![r] = [version |-> entry[k].version,
                                        floor |-> invalidated[k], joined |-> FALSE]]
    /\ UNCHANGED <<now, source, entry, usedBytes, generation, inflight, request>>

\* No live entry (an expired one is removed) and a build is in flight: wait.
Join(r, k) ==
    /\ request[r].pc = "idle"
    /\ ~Fresh(k)
    /\ RemoveLocked(k)
    /\ \E l \in inflight[k] :
         request' = [request EXCEPT ![r] = [pc |-> "wait", key |-> k,
                                            floor |-> invalidated[k], leader |-> l]]
    /\ UNCHANGED <<now, source, generation, inflight, answer>>

\* No live entry and nobody builds: this request does, remembering the generation.
Lead(r, k) ==
    /\ request[r].pc = "idle"
    /\ ~Fresh(k)
    /\ inflight[k] = {}
    /\ RemoveLocked(k)
    /\ inflight' = [inflight EXCEPT ![k] = {r}]
    /\ request' = [request EXCEPT ![r] = [pc |-> "build", key |-> k,
                                          floor |-> invalidated[k], gen |-> generation[k]]]
    /\ UNCHANGED <<now, source, generation, answer>>

\* build(ctx) reads SQLite; encoding, gzip and hashing follow.
ReadStore(r) ==
    /\ request[r].pc = "build"
    /\ \E n \in Sizes :
         request' = [request EXCEPT ![r] =
                       [pc |-> "encode", key |-> request[r].key,
                        floor |-> request[r].floor, gen |-> request[r].gen,
                        version |-> db[request[r].key], size |-> n]]
    /\ UNCHANGED <<now, source, storage, generation, inflight, answer>>

\* The order and the contents after PushFront of key k, before the eviction.
Pushed(k) == <<k>> \o RemoveFirst(lru, k)
EntryWith(r) ==
    [entry EXCEPT ![request[r].key] =
        [version |-> request[r].version, size |-> request[r].size, expiresAt |-> now + TTL]]

\* Mutant of KeptLength: the entry limit is off by one.
KeptLengthPlusOne(s, e) ==
    Max({n \in 0..Len(s) : n <= MaxEntries + 1 /\ BytesOf(e, Positions(s, 1..n)) <= MaxBytes})

\* The eviction loop takes entries off the back until both limits are met: it
\* stops at the longest prefix of the list that satisfies them.
KeptLength(s, e) ==
    Max({n \in 0..Len(s) : n <= MaxEntries /\ BytesOf(e, Positions(s, 1..n)) <= MaxBytes})

\* Mutant of Store: the new response is not counted.
StoreUncounted(r) ==
    LET k == request[r].key
        s == Pushed(k)
        e == EntryWith(r)
        n == KeptLength(s, e)
        evicted == Positions(s, (n + 1)..Len(s))
    IN  /\ request[r].size <= MaxBytes
        /\ lru' = SubSeq(s, 1, n)
        /\ entry' = [x \in Keys |-> IF x \in evicted THEN Absent ELSE e[x]]
        /\ usedBytes' = usedBytes - entry[k].size - BytesOf(e, evicted)

\* setLocked: a response larger than the whole cache is not stored.
Store(r) ==
    LET k == request[r].key
        s == Pushed(k)
        e == EntryWith(r)
        n == KeptLength(s, e)
        evicted == Positions(s, (n + 1)..Len(s))
    IN  /\ request[r].size <= MaxBytes
        /\ lru' = SubSeq(s, 1, n)
        /\ entry' = [x \in Keys |-> IF x \in evicted THEN Absent ELSE e[x]]
        /\ usedBytes' = usedBytes - entry[k].size + request[r].size - BytesOf(e, evicted)

\* Mutant of Release: the build is unregistered but nobody is woken.
ReleaseBuilderOnly(r, answers) ==
    /\ inflight' = [inflight EXCEPT ![request[r].key] = {}]
    /\ request' = [request EXCEPT ![r] = Idle]
    /\ answer' = IF answers
                 THEN [answer EXCEPT ![r] = [version |-> request[r].version,
                                             floor |-> request[r].floor, joined |-> FALSE]]
                 ELSE answer

\* close(pending.done): the builder and everyone who waits for it get the result.
Release(r, answers) ==
    LET waiters == {x \in Requests : request[x].pc = "wait" /\ request[x].leader = r}
    IN  /\ inflight' = [inflight EXCEPT ![request[r].key] = {}]
        /\ request' = [x \in Requests |-> IF x \in waiters \cup {r} THEN Idle ELSE request[x]]
        /\ answer' = [x \in Requests |->
                        IF answers /\ x \in waiters \cup {r}
                        THEN [version |-> request[r].version, floor |-> request[x].floor,
                              joined |-> x # r]
                        ELSE answer[x]]

\* Mutant of Finish: the generation is not compared.
FinishAnyGeneration(r) ==
    /\ request[r].pc = "encode"
    /\ Store(r) \/ (request[r].size > MaxBytes /\ UNCHANGED storage)
    /\ Release(r, TRUE)
    /\ UNCHANGED <<now, source, generation>>

\* The build succeeded; it is stored only if no invalidation came in between.
Finish(r) ==
    /\ request[r].pc = "encode"
    /\ \/ generation[request[r].key] = request[r].gen /\ Store(r)
       \/ /\ generation[request[r].key] # request[r].gen \/ request[r].size > MaxBytes
          /\ UNCHANGED storage
    /\ Release(r, TRUE)
    /\ UNCHANGED <<now, source, generation>>

\* Mutant of BuildFails: the error path forgets to close the done channel.
BuildFailsSilently(r) ==
    /\ Building(r)
    /\ inflight' = [inflight EXCEPT ![request[r].key] = {}]
    /\ request' = [request EXCEPT ![r] = Idle]
    /\ UNCHANGED <<now, source, storage, generation, answer>>

\* The build failed: a store or encoding error, or the context of the leading
\* request ended. Everyone who waits gets the same error.
BuildFails(r) ==
    /\ Building(r)
    /\ Release(r, FALSE)
    /\ UNCHANGED <<now, source, storage, generation>>

\* A waiting request gives up because its own context ended.
GiveUp(r) ==
    /\ request[r].pc = "wait"
    /\ request' = [request EXCEPT ![r] = Idle]
    /\ UNCHANGED <<now, source, storage, generation, inflight, answer>>

Tick ==
    /\ now < MaxTime
    /\ now' = now + 1
    /\ UNCHANGED <<source, storage, generation, inflight, request, answer>>

-----------------------------------------------------------------------------
BuildStep(r) == ReadStore(r) \/ Finish(r) \/ BuildFails(r)

Next ==
    \/ \E k \in Keys : Commit(k) \/ Invalidate(k)
    \/ \E r \in Requests : \/ \E k \in Keys : Hit(r, k) \/ Join(r, k) \/ Lead(r, k)
                           \/ BuildStep(r)
                           \/ GiveUp(r)
    \/ Tick

Spec == Init /\ [][Next]_vars

\* A build that has begun ends, with a result or an error; nothing else is owed.
FairSpec == Spec /\ \A r \in Requests : WF_vars(BuildStep(r))

-----------------------------------------------------------------------------
(* What the cache is for *)

CoreTypes ==
    /\ now \in 0..MaxTime
    /\ db \in [Keys -> Versions]
    /\ owed \in [Keys -> Nat]
    /\ entry \in [Keys -> Entry]
    /\ generation \in [Keys -> Nat]
    /\ inflight \in [Keys -> SUBSET Requests]
    /\ request \in [Requests -> RequestState]
    /\ answer \in [Requests -> AnswerState]
    /\ invalidated \in [Keys -> Versions]

TypeOK == CoreTypes /\ lru \in Seq(Keys) /\ usedBytes \in Nat

\* A cached response is never older than what SQLite held when its key was last
\* invalidated; once every writer has invalidated it is what SQLite holds.
CacheFresh ==
    \A k \in Keys : Cached(k) =>
        /\ invalidated[k] <= entry[k].version
        /\ owed[k] = 0 => entry[k].version = db[k]

\* The byte counter is the sum of what is cached, the list and the map agree,
\* and both limits hold.
Accounting ==
    /\ \A i, j \in DOMAIN lru : lru[i] = lru[j] => i = j
    /\ {k \in Keys : Cached(k)} = Positions(lru, DOMAIN lru)
    /\ usedBytes = BytesOf(entry, {k \in Keys : Cached(k)})
    /\ usedBytes <= MaxBytes
    /\ Len(lru) <= MaxEntries

\* At most one request builds a key, it is the one registered in inflight, and
\* while it builds the key is not cached (setLocked never replaces an entry).
SingleBuild ==
    /\ \A r \in Requests : Building(r) => inflight[request[r].key] = {r}
    /\ \A k \in Keys : inflight[k] # {} => ~Cached(k)

\* What a build may store if its generation is still current when it ends.
BuildFresh ==
    \A r \in Requests : Building(r) =>
        LET k == request[r].key IN
        /\ request[r].gen <= generation[k]
        /\ request[r].pc = "encode" /\ request[r].gen = generation[k] =>
              /\ invalidated[k] <= request[r].version
              /\ owed[k] = 0 => request[r].version = db[k]

\* The inductive form of CacheFresh.
CacheInv ==
    /\ CoreTypes
    /\ \A k \in Keys : invalidated[k] <= db[k]
    /\ \A k \in Keys : owed[k] = 0 => invalidated[k] = db[k]
    /\ BuildFresh
    /\ CacheFresh

\* Nobody waits for a build that has already ended.
WaitersHaveBuilder ==
    \A r \in Requests : request[r].pc = "wait" =>
        /\ Building(request[r].leader)
        /\ request[request[r].leader].key = request[r].key

\* A hit or an own build answers with data no older than the last invalidation
\* before the request arrived.
DirectAnswersFresh ==
    \A r \in Requests : ~answer[r].joined => answer[r].version >= answer[r].floor

\* The same for every request, those that join a build under way included
\* (InvalidateAwesomeCatalog: the next request rebuilds from SQLite).
NextRequestRebuilds ==
    \A r \in Requests : answer[r].version >= answer[r].floor

\* A request that waits for another one's build is answered or gives up.
WaitersServed ==
    \A r \in Requests : request[r].pc = "wait" ~> request[r].pc # "wait"

=============================================================================
