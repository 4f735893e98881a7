----------------------------- MODULE BulkCache -----------------------------
(***************************************************************************)
(* The single-entry cache of /api/v1/discovery/bulk                        *)
(* (internal/handler/bulk_cache.go), the handler that fills it             *)
(* (HandleBulk, internal/handler/discovery.go) and the synchronisations    *)
(* that invalidate it (internal/scheduler/cron.go, internal/handler/       *)
(* admin.go). A synchronisation is reduced to the commits it makes and to  *)
(* whether it succeeds; the catalog is reduced to a version.               *)
(***************************************************************************)
EXTENDS Naturals, FiniteSets

CONSTANTS
    Requests,   \* HTTP requests that can be in HandleBulk at once
    Syncs,      \* callers of Sync: the two cron entries and admin requests
    TTL,        \* CACHE_TTL_SECONDS
    MaxTime,    \* bound: last clock value explored
    MaxCommits  \* bound: committed changes of the catalog

ASSUME BulkAssumption ==
    /\ TTL \in Nat \ {0}
    /\ MaxTime \in Nat
    /\ MaxCommits \in Nat

VARIABLES
    now,         \* time.Now()
    db,          \* version of the catalog committed in SQLite
    sync,        \* where each synchronisation is
    entry,       \* c.entry
    request,     \* where each HTTP request is
    answer,      \* history: what each request was last answered with
    invalidated  \* history: catalog version at the last Invalidate

vars == <<now, db, sync, entry, request, answer, invalidated>>

Versions == 0..MaxCommits
Times == 0..MaxTime

\* The payload is abstracted to the catalog versions that its repository list
\* and its summary were read from. crossed: an Invalidate came in between the
\* start of the build and its Set.
NoEntry == [built |-> FALSE]
Entry == [built : {TRUE}, repos : Versions, summary : Versions,
          builtAt : Times, crossed : BOOLEAN]

Idle == [pc |-> "idle"]
RequestState ==
    [pc : {"idle"}]
    \cup [pc : {"repos"}, floor : Versions, crossed : BOOLEAN]
    \cup [pc : {"summary"}, floor : Versions, crossed : BOOLEAN, repos : Versions]
    \cup [pc : {"set"}, floor : Versions, crossed : BOOLEAN, repos : Versions,
          summary : Versions]

NoAnswer == [repos |-> 0, floor |-> 0]

Init ==
    /\ now = 0
    /\ db = 0
    /\ sync = [s \in Syncs |-> "idle"]
    /\ entry = NoEntry
    /\ request = [r \in Requests |-> Idle]
    /\ answer = [r \in Requests |-> NoAnswer]
    /\ invalidated = 0

-----------------------------------------------------------------------------
(* Synchronisations; nothing keeps two of them apart *)

BeginSync(s) ==
    /\ sync[s] = "idle"
    /\ sync' = [sync EXCEPT ![s] = "running"]
    /\ UNCHANGED <<now, db, entry, request, answer, invalidated>>

\* One of the many separate commits of Sync.
Commit(s) ==
    /\ sync[s] = "running"
    /\ db < MaxCommits
    /\ db' = db + 1
    /\ UNCHANGED <<now, sync, entry, request, answer, invalidated>>

\* Sync returns an error: what it has committed stays, nothing is invalidated.
SyncFails(s) ==
    /\ sync[s] = "running"
    /\ sync' = [sync EXCEPT ![s] = "idle"]
    /\ UNCHANGED <<now, db, entry, request, answer, invalidated>>

SyncSucceeds(s) ==
    /\ sync[s] = "running"
    /\ sync' = [sync EXCEPT ![s] = "succeeded"]
    /\ UNCHANGED <<now, db, entry, request, answer, invalidated>>

\* Mutant of Invalidate: the entry stays.
InvalidateNothing(s) ==
    /\ sync[s] = "succeeded"
    /\ sync' = [sync EXCEPT ![s] = "idle"]
    /\ invalidated' = db
    /\ request' = [r \in Requests |->
                     IF request[r].pc = "idle" THEN request[r]
                     ELSE [request[r] EXCEPT !.crossed = TRUE]]
    /\ UNCHANGED <<now, db, entry, answer>>

\* The caller of a successful Sync clears the entry.
Invalidate(s) ==
    /\ sync[s] = "succeeded"
    /\ sync' = [sync EXCEPT ![s] = "idle"]
    /\ entry' = NoEntry
    /\ invalidated' = db
    /\ request' = [r \in Requests |->
                     IF request[r].pc = "idle" THEN request[r]
                     ELSE [request[r] EXCEPT !.crossed = TRUE]]
    /\ UNCHANGED <<now, db, answer>>

-----------------------------------------------------------------------------
(* HandleBulk *)

\* Get: an entry older than the TTL does not count.
Valid == entry.built /\ now - entry.builtAt <= TTL

Hit(r) ==
    /\ request[r].pc = "idle"
    /\ Valid
    /\ answer' = [answer EXCEPT ![r] = [repos |-> entry.repos, floor |-> invalidated]]
    /\ UNCHANGED <<now, db, sync, entry, request, invalidated>>

Miss(r) ==
    /\ request[r].pc = "idle"
    /\ ~Valid
    /\ request' = [request EXCEPT ![r] =
                     [pc |-> "repos", floor |-> invalidated, crossed |-> FALSE]]
    /\ UNCHANGED <<now, db, sync, entry, answer, invalidated>>

\* ListAllRepos and DiscoverySummary are statements of their own.
ReadRepos(r) ==
    /\ request[r].pc = "repos"
    /\ request' = [request EXCEPT ![r] =
                     [pc |-> "summary", floor |-> request[r].floor,
                      crossed |-> request[r].crossed, repos |-> db]]
    /\ UNCHANGED <<now, db, sync, entry, answer, invalidated>>

ReadSummary(r) ==
    /\ request[r].pc = "summary"
    /\ request' = [request EXCEPT ![r] =
                     [pc |-> "set", floor |-> request[r].floor,
                      crossed |-> request[r].crossed, repos |-> request[r].repos,
                      summary |-> db]]
    /\ UNCHANGED <<now, db, sync, entry, answer, invalidated>>

\* A read fails, also because the client went away, or json.Marshal does.
ReadFails(r) ==
    /\ request[r].pc \in {"repos", "summary", "set"}
    /\ request' = [request EXCEPT ![r] = Idle]
    /\ UNCHANGED <<now, db, sync, entry, answer, invalidated>>

\* Mutant of Set: the entry is dated with its expiry.
SetExpiry(r) ==
    /\ request[r].pc = "set"
    /\ entry' = [built |-> TRUE, repos |-> request[r].repos, summary |-> request[r].summary,
                 builtAt |-> now + TTL, crossed |-> request[r].crossed]
    /\ answer' = [answer EXCEPT ![r] = [repos |-> request[r].repos, floor |-> request[r].floor]]
    /\ request' = [request EXCEPT ![r] = Idle]
    /\ UNCHANGED <<now, db, sync, invalidated>>

\* Set stores whatever was built, whatever happened in between.
Set(r) ==
    /\ request[r].pc = "set"
    /\ entry' = [built |-> TRUE, repos |-> request[r].repos, summary |-> request[r].summary,
                 builtAt |-> now, crossed |-> request[r].crossed]
    /\ answer' = [answer EXCEPT ![r] = [repos |-> request[r].repos, floor |-> request[r].floor]]
    /\ request' = [request EXCEPT ![r] = Idle]
    /\ UNCHANGED <<now, db, sync, invalidated>>

Tick ==
    /\ now < MaxTime
    /\ now' = now + 1
    /\ UNCHANGED <<db, sync, entry, request, answer, invalidated>>

Next ==
    \/ \E s \in Syncs : BeginSync(s) \/ Commit(s) \/ SyncFails(s) \/ SyncSucceeds(s) \/ Invalidate(s)
    \/ \E r \in Requests : Hit(r) \/ Miss(r) \/ ReadRepos(r) \/ ReadSummary(r) \/ ReadFails(r) \/ Set(r)
    \/ Tick

Spec == Init /\ [][Next]_vars

-----------------------------------------------------------------------------
(* What the cache is for *)

TypeOK ==
    /\ now \in Times
    /\ db \in Versions
    /\ sync \in [Syncs -> {"idle", "running", "succeeded"}]
    /\ entry \in Entry \cup {NoEntry}
    /\ request \in [Requests -> RequestState]
    /\ answer \in [Requests -> [repos : Versions, floor : Versions]]
    /\ invalidated \in Versions

\* A cached snapshot shows every change committed before the last successful
\* synchronisation cleared the cache, unless a build that was already under way
\* put it there afterwards; and its summary, read by the second statement, is
\* never older than its repository list.
FreshUnlessCrossed ==
    entry.built =>
        /\ entry.repos <= entry.summary /\ entry.summary <= db
        /\ ~entry.crossed => invalidated <= entry.repos

\* A request that arrives after a successful synchronisation has invalidated
\* the cache is answered with what that synchronisation committed (README: each
\* successful sync invalidates the cache, so the next request rebuilds).
NextBulkRebuilds ==
    \A r \in Requests : answer[r].repos >= answer[r].floor

=============================================================================
