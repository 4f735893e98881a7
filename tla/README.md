# starcat-discovery-api: specifications, checks and proofs

This directory specifies the stateful parts of the discovery backend (Go, one
process, SQLite, a few in-memory caches) in TLA+, checks them with TLC on small
instances and proves the most important facts with TLAPS for all instances.
File and line references are to the repository; `PROJECT.json` maps every
definition of a module to the lines it models.

    tlc -workers 2 -config StarHistory.cfg MCStarHistory     one of the runs listed below
    tlapm StarHistoryProofs.tla                              the proofs about a module

## 1. The system

| Component | State it keeps | Operations | Talks to |
|---|---|---|---|
| **Star-history service** `internal/starhistory/service.go`, `internal/store/star_history.go`, `internal/handler/star_history.go` | tables `repo_star_history_cache`, `star_history_daily_budgets`; the bounded queue, the workers, the service context | `Lookup`, `Enqueue` (claim, send, undo), `worker`/`build` (reserve, query, merge, save), `Close` | handler calls it; SQLite; BigQuery provider |
| **Awesome response cache** `internal/handler/awesome_cache.go` | map of entries, LRU list, byte counter, generation per key, in-flight builds | `getOrBuild` (hit, join, lead), `set`, `invalidate` | built from the Awesome service; invalidated by its writers |
| **Bulk cache** `internal/handler/bulk_cache.go`, `HandleBulk` | one entry with a build instant | `Get`, `Set`, `Invalidate` | filled by requests from SQLite; invalidated by callers of `Sync` |
| **Discovery ingest** `internal/ingest/service.go`, `internal/store/sqlite.go` | tables `repos`, `discovery_catalog_repos`, `category_rankings`, `sync_runs` | `Sync` in two modes: candidates, details, upserts, prune, rankings, run record | GitHub client, SQLite |
| **Discovery cron** `internal/scheduler/cron.go` | two cron entries | start, stop, run one mode | ingest, Awesome service, bulk cache |
| **Awesome source service** `internal/awesome/service.go`, `internal/store/awesome.go` | tables `awesome_sources`, `awesome_entries`, `awesome_sync_runs`, `awesome_source_languages` | create, update (optimistic revision), sync, publish, archive | GitHub client, SQLite, response cache |
| **Linux.do pipeline** `internal/linuxdo/`, `internal/store/linuxdo.go`, `internal/scheduler/linuxdo.go`, `internal/handler/linuxdo.go` | feed state, topics, candidates, decisions, a public revision | collect, verify, decide, revoke, serve | forum feed, GitHub client, its response cache |
| **GitHub client** `internal/github/client.go` | the shared token pool | request with retries, rate-limit floors, waiting for a reset | everything that reads GitHub |
| **Server lifecycle** `server/server.go` | the parts above | assemble, `Close` in order | all |
| **Pure algorithms** `starhistory/normalize.go`, `starhistory/downsample.go`, `ingest/service.go` (search plans), `ingest/scoring.go` | none | normalise events, merge exact snapshots, downsample, spread the candidate budget, score | star history, ingest |
| **Plain I/O and text** parsers, classifiers, BigQuery transport, migrations, configuration, authentication, read-only endpoints | none | | |

How they interact: HTTP handlers, cron goroutines, star-history workers and
admin requests run concurrently in one process. They share SQLite (each statement
or transaction atomic, nothing held between two of them) and the in-memory caches
(a mutex each, never held while SQLite or the network is used). Callbacks are
limited to the two invalidation interfaces; there are no messages between
processes, but the tables of the star-history service outlive the process and
its daily budget is shared by every process of one UTC day.

What is hard, per component, and what makes it correct:

* **Star history.** A lease in SQLite, a queue in memory and a build that runs
  somewhere else in time: leases that expire under a queued job, a full queue
  after a successful claim, a crash between the claim and the answer, money that
  was reserved but not spent, Close racing with Enqueue. Correct means: the daily
  budget is never exceeded, one build per lease, a valid answer is kept for its TTL
  unless a build that outlived its lease answers late, nobody sees `building`
  without a build, Close terminates.
* **Response cache.** Builds run outside the mutex while writers commit and
  invalidate. Correct means: nothing older than the last invalidation is cached,
  one build per key, waiters are released on every path, limits and counters agree.
* **Bulk cache.** The same race without a generation check. Correct means: a
  snapshot is not older than the synchronisation that cleared the cache.
* **Ingest.** Overlapping runs of two modes, each many transactions. Correct
  means: membership, rankings and repository facts agree at the end of a run,
  a failed candidate does not delete what it failed to see, runs are closed.
* **Awesome sources.** State read before seconds of network work and used after
  it; a run that is never closed; a read-back that fails after its commit. Correct
  means: a shown source stays bound to its repository and has a list, the SHA that
  lets a synchronisation skip its work names that list, one synchronisation works
  on a source, and every change readers may have cached is invalidated.
* **Linux.do.** Many commits before one invalidation, names and repositories that
  are not one to one, rules that change between processes, a queue limited to the
  first hundred. Correct means: nothing is public without a candidate that stands
  for it, what became private is withdrawn everywhere, a complete round leaves
  nothing undecided, every change it makes to what is public has a new revision and
  becomes visible.
* **GitHub client.** Retries, token floors and waiting compete with the caller's
  deadline and with each other. Correct means: bounded attempts and an end for
  every call.
* **Pure algorithms.** Rounding, clamping and caps at their boundaries. Correct
  means: a curve that fits its events, exact points kept, the candidate budget
  spent exactly.
* **Lifecycle.** Order of shutdown against handlers that still run.

The full list of hazards, each at its line with the properties that cover it, is
in `PROJECT.json`.

## 2. What is modelled

### StarHistory (`StarHistory.tla`, `StarHistoryProofs.tla`)

| Variable | Code |
|---|---|
| `cache` | rows of `repo_star_history_cache`; the points of a row are reduced to `through`, the instant the query asked up to |
| `reserved` | `star_history_daily_budgets.reserved_bytes` per UTC day |
| `queue`, `closed` | the channel `s.queue`; `s.ctx` cancelled |
| `handler`, `worker` | the position of every request and of every worker goroutine between two statements |
| `now` | `s.now()` in the seconds the rows store |
| `queried` | history: queries started per day |
| `overrun` | history: repositories whose row a task has written that outlived its lease, until the row is claimed while nobody works for it |
| `faults` | bound on restarts and lost writes |

Actions follow the code statement by statement: `LookupMiss`, `BeginEnqueue`,
`Claim`/`ClaimRefused`, `Send`, `UndoClaim`/`UndoLost` are `Lookup` and
`Enqueue`; `Dequeue`, `WorkerExit`, `Reserve`/`ReserveRefused`, `StartQuery`,
`QuerySucceeds`/`QueryFails`, `SaveReady`/`SaveFailed`/`SaveLost` are `worker`
and `build`; `Close` and `Restart` end the service and the process. Details kept
on purpose: `saveFailed` in Enqueue is dated with the `now` read *before* the
claim; the budget day is the UTC day of the build's start, so a query may run
after midnight on the previous day's money; the claim leaves the old points in
the row; final saves are unconditional upserts under `context.Background()` whose
errors are discarded; `select` may keep taking jobs after Close. Nothing assumes that
a build ends inside its lease: the lease runs from the claim, the build's timeout
from the dequeue, and the final write has no deadline. `Late` says when a task has
outlived its lease, and `LeaseHolds`, `ReadyEndsLate` and `StepsBackLate` say that
its write, and nothing else, disturbs the newer claim, the ready row and the series.

Left out: rows whose stored full name differs from the request (they are only
read, and end the request); a claim that commits although its caller sees a
context error (it behaves as a claim followed by a crash of the request, whose
building row its lease ends); the content of the series.

### ResponseCache (`ResponseCache.tla`, `ResponseCacheProofs.tla`)

`entry`, `lru`, `usedBytes`, `generation`, `inflight` are the fields of
`AwesomeResponseCache`; `request` is the position of each HTTP request in
`getOrBuild`; `db` and `owed` stand for the writers: the version SQLite holds per
key and the commits whose writer has still to invalidate. One critical section
of `c.mu` is one action; the build (`ReadStore`) and the commits are not in it.
`Hit`, `Join`, `Lead`, `Finish` (with `setLocked` and the eviction loop in
`Store`), `BuildFails`, `GiveUp`, `Invalidate`, `Commit` are the operations. The
eviction loop is stated by what it computes: the longest prefix of the recency
list within both limits. Writers also invalidate without a change, as a failed
synchronisation does. An entries response is read as one version although it is
two statements in the code. ETag and `If-None-Match` are left out: they choose
between two encodings of the same answer.

### BulkCache (`BulkCache.tla`, `BulkCacheProofs.tla`)

`entry` is the single entry, reduced to the catalog versions its repository list
and its summary were read from (two statements in the code, two actions here);
`sync` are the callers of `Sync`: two cron entries and admin requests, which
nothing keeps apart. A synchronisation commits several times, and invalidates
only when it succeeds. `crossed` records that an invalidation came in during the
build. `Set` reads its clock just before it takes the lock; the two are one step.

### Catalog (`Catalog.tla`, `CatalogProofs.tla`)

| Variable | Code |
|---|---|
| `fact` | rows of `repos`, reduced to the language and to whether the row meets the conditions of the category |
| `member`, `rank` | `discovery_catalog_repos`; `category_rankings` and `topic_rankings` by bucket |
| `awesome`, `linuxdo` | repositories that active Awesome entries and Linux.do topics refer to |
| `runs` | the status of each row of `sync_runs` |
| `sync` | where each call of `Sync` is: its candidates, the buckets still to refresh, the entries it has read, whether its context is alive |
| `foreignKeys` | whether the driver enforces foreign keys |
| `overlapped`, `touched`, `writes` | history: a running synchronisation was joined by another, Awesome or Linux.do wrote meanwhile; bound |

The store has one SQLite connection, so a statement or a transaction is one
step, and between two of them anything may run. `StartSync`, `Candidate`,
`SearchDone`, `ReplaceMembership`, `Prune` (full mode only), `ReadRanking`,
`WriteRanking`, `NextPhase` and `Finish` are `Sync` in its order; `StepFails` is
an error at any of its calls and `ContextEnds` the end of the 30 minutes of a
scheduled run or of an admin request. Kept on purpose: a candidate is noted before
its details are fetched and stays one when that fails; the facts a ranking is
computed from may be changed by Awesome or Linux.do before it is written;
`FinishSyncRun` uses the context that may just have ended, so a row can stay
`running`. `foreignKeys` is chosen once: the DSN asks for them in a form the
SQLite driver need not understand, and a migration, when it runs, turns them on.

One category, one Awesome source, and one fixed bucket (for the topic and
platform buckets, rebuilt whatever the catalog holds) stand for all of their kind.
The order inside a bucket and its limit of 500, releases, snapshots and exposures
are left out. `Served` is what `categoryPage` answers.

### AwesomeSources (`AwesomeSources.tla`, `PublicSource.tla`, `AwesomeSourcesProofs.tla`)

| Variable | Code |
|---|---|
| `source` | rows of `awesome_sources`: status, repository, revision, README SHA |
| `snapshot` | the active `awesome_entries` of a source, reduced to the repository and the README they came from and the repositories they list |
| `active` | the queued or running row of `awesome_sync_runs`; `Orphan` once the call that made it is gone |
| `call` | where each admin request and each synchronisation is, with what it read and the cache keys it still has to invalidate |
| `stale`, `skipped` | the keys whose row, list or card may be cached out of date; history: those whose writer left without invalidating |
| `drifted` | the published lists that show a repository whose row in the shared `repos` table was written again since they were last dropped from the cache |

`CreateSource`, `BeginUpdate`/`CommitUpdate`, `BeginPublish`/`CommitPublish` and
`ArchiveSource` are the edits: what the service reads before its statement and
what the statement itself asks for are separate steps. `ReadBackFails` is the
SELECT after the commit that fails, `Invalidate` one call of the response cache.
`BeginSync`, `StartRun`/`RunInProgress`, `StoreFacts`, `FetchReadme`, `FastPath`,
`ReplaceSnapshot` and `SyncFails`/`FinishLost` are `SyncSource` and
`buildSnapshot`; `Crash` ends every call and leaves active rows behind. Kept on
purpose: the row a synchronisation works from is the one it read first, and
`ReplaceSnapshot` compares neither repository nor revision; publishing asks for
the status it read; the revision of an update comes from the client; a snapshot
holds those of the listed repositories GitHub still knows, and none of them is a
failure unless the README lists none.

What readers can have cached is kept in two parts, because the code treats them
differently. The row of a source, its list of repositories and its card are dropped
by whoever changed them, unless the row cannot be read back: `StaleIsOwedOrSkipped`
and `ChangesBecomeVisible` are about these (`stale`). What a list shows *of* a
repository is joined from `repos`, which `StoreFacts` and `ReplaceSnapshot` write for
every source at once (`EntriesStored`), while only the source itself is dropped, and
not even that when the synchronisation fails: `NoListBehindItsFacts` says it would
be, and fails (`drifted`, finding 3). Discovery and Linux.do write the same table;
their writes are not in this module.

`PublicSource` is the abstract specification: a source is absent, hidden or
shown, bound to a repository of its own, and has a list or none. `Promise` in
`AwesomeSources` instantiates it with the mapping `stage` (no row, published,
anything else), `home` (the repository of the row) and `list` (the snapshot);
`ImplementsPublicSource` is checked by TLC and proved. What the refinement says
beyond the invariants: a repository is never bound to two sources, nothing is
shown before it has a list, and while a source is shown its repository does not
change, although an update decides that on a row it read earlier.

### LinuxDo (`LinuxDo.tla`, `LinuxDoProofs.tla`)

| Variable | Code |
|---|---|
| `topic` | `linuxdo_topics`, by the content hash stored last |
| `cand` | `linuxdo_candidates` by topic and name: evidence, classification, rule, state, repository id |
| `facts` | the rows of the shared `repos` table, reduced to what GitHub said last |
| `link`, `revision`, `feedRule` | `linuxdo_repo_topics`; the revision and the rule version of `linuxdo_state` |
| `rule` | the rule version compiled into the running process |
| `sync` | where the synchronisation under `Service.mu` is, with the topics it judges again and the queue it read |
| `cached`, `reader` | the bulk response in the current cache object; the requests that build one |
| `private` | history: repositories GitHub called private when last asked |

`FetchUnchanged` and `ObserveLinuxDo` are the two outcomes of a fetch,
`ReadStale`/`Reclassify` the rows an older rule judged, `Select` the queue,
`SkipUnpromoted`, `Publish`, `RevokePrivateLinuxDoRepository` with `SkipPrivate`,
and `Unavailable` the verdicts, each with the transaction it leads to; `SyncFails`
is an error anywhere and `Finish` the deferred part with the invalidation.
`Restart` may bring the next rule version. The feed and GitHub answer differently
whenever they are asked, so neither is a variable. A content stands for a post:
its title, the names in it and, per rule, those the classifier accepts. Its
address needs no variable: the parser makes it from the topic id
(`linuxdo/parser.go:124`), so it is the same for every post of the topic.

`Public` is what only a synchronisation writes of the published snapshot, relations
and titles; `Shown` adds the facts of the repositories, which `Publish` writes and
which Discovery and Awesome rewrite at any time (`StoreFacts`). The response cache
and `RevisionMoves` are about `Public`. That the revision also follows the facts, as
`model/linuxdo.go:49` says, is `RevisionCoversFacts`, which fails (finding 6).

### GitHubClient (`GitHubClient.tla`, `GitHubClientProofs.tla`)

`call` is where each call of `get` is and how many attempts it has made; `cool`
is how long each token of the pool stays disabled. The pool is a library, so
`PickBest` answers with any token that is not disabled. Each class of HTTP answer
is an action with what the loop does with it: success, rate limit, answers worth
another attempt, answers that are final, no answer. `WaitForAvailableToken` waits
for the earliest token unless that is further away than the limit of 90 seconds;
the wait does not count as an attempt and another call may take the token first.
Times are kept as what is left of them, so time never runs out.

### StarSeries and SearchPlan (`StarSeries.tla`, `SearchPlan.tla`, `StarSeriesProofs.tla`, `CatalogProofs.tla`)

Algorithms as operators. `StarSeries` normalises events into an estimated curve,
merges exact snapshots and reduces a series to a range and a number of points; its
actions only feed the result of one into the next (`build`, then `Lookup`), and the
invariants compare what comes out with what went in: the curve with the events, the
answer of a lookup with the points it is reduced from (by a reference definition
without loops) and with the exact snapshots of the store (`SnapshotsReachReaders`,
over the merge and the reduction together).
Points are kept by day, so the code's indexes are counts of the days before one,
and its float target is rounded in integers. `SearchPlan` splits the candidate
budget into eight seeds and three strategies. `MCCatalog` evaluates with TLC that
the plans of every configured size from 0 to 1700 (the cap is 1600) add up to the
target; `CatalogProofs` proves it for every size.

`MC*.tla` hold the symmetry sets and the restricted instances; the constants are
given in the `.cfg` files.

## 3. Runs

| Run | Instance | Question and answer |
|---|---|---|
| `star_history` | 1 repository, 2 requests, 2 workers, queue 1, budget for 1 query, 2 days, 1 crash or lost write | `BudgetSafe`, `NoFalseBuilding`, `LeaseHolds`, `ReadyEndsLate`, `StepsBackLate`, and under fairness `BuildsResolve` and `CloseReturns` hold over every interleaving |
| `response_cache` | 1 key, 3 requests, 1 commit, 2 invalidations | `CacheFresh`, `SingleBuild`, `WaitersHaveBuilder`, `DirectAnswersFresh`, and under fairness `WaitersServed` |
| `response_cache_lru` | 3 keys, 2 requests, sizes 1, 2 and 4 (larger than the cache), 2 entries, 3 bytes | `Accounting`: list, map and byte counter agree and both limits hold |
| `bulk_cache` | 2 requests, 2 synchronisations, 2 commits | `FreshUnlessCrossed` |
| `catalog` | 2 repositories, 1 language, 2 callers, 2 runs, 1 transaction of Awesome or Linux.do | `MembersHaveFacts`, `ReferencedHaveFacts`, `CatalogKept`, `RankedAtSuccess` hold |
| `awesome_sources` | 1 source, 2 repositories, a README with entries and one without, 2 calls, 3 revisions, 1 crash or lost write | `ShaNamesSnapshot`, `RunsHoldTheirSource`, `StaleIsOwedOrSkipped`, the refinement `ImplementsPublicSource`, and under fairness `ChangesBecomeVisible` and `RunsEnd` hold |
| `awesome_rebind` | 1 source, 2 repositories, 1 README, 2 calls, 3 revisions | `SyncedKeepsRepo` fails (finding 1) |
| `awesome_facts` | 2 sources, 2 repositories, 1 README that lists one of them, 1 call, 2 revisions, no fault | `NoListBehindItsFacts` fails (finding 3) |
| `linuxdo` | 2 topics, 2 names, 2 repositories, 2 contents, 2 answers of GitHub per repository, 1 reader, 2 rules, queue 2, 3 revisions | `LinksHaveCandidates`, `PrivateIsWithdrawn`, `QuietCacheIsCurrent`, `DecidedAtSuccess` and `RevisionMoves` hold |
| `linuxdo_alias` | 1 topic, 2 names, 2 repositories, 1 content, 1 reader | `PublishedIsLinked` fails (finding 2) |
| `github_client` | 2 tokens, 3 calls, resets up to 2 ticks away, waits up to 1 | bounded attempts and waits (`TypeOK`); under fairness `CallsEnd` |
| `star_series` | 6 days, up to 3 events of count 0 to 2, up to 2 stars and 2 exact snapshots, limits 2 to 4, 3 ranges | `CurveFitsEvents`, `SnapshotsReachReaders`, `SeriesKeepsShape` |

**Bounds.** Each is a constant. In every run `MaxTime` lets each TTL and timeout
expire and the row or entry be taken again, and the first run has two budget
days. One repository is enough there: rows of different repositories meet only in
the queue and the budget, two requests claim in turn and fill the queue of one, and
`NoFalseBuilding` asks for the very task a row was claimed for, so a second task of
the same repository does not hide a lost one. Two workers let a late build save
beside the one that took its place. Two invalidations of
one key let a build be crossed twice. Three keys
against two entries evict by count, size 2 next to 2 evicts by bytes, and size 4 is
never stored. `MaxFaults` counts restarts and lost writes together; a second one
only repeats the first from another reachable state of the tables. In the catalog,
two runs are the smallest number in which one meets what the other left or does
meanwhile, and one foreign transaction is enough to make a fact referenced, or
change it, between any two steps of a synchronisation; the second repository is
the one that stays when the first is pruned.

Awesome sources meet only in the uniqueness of repositories and in the catalog
key; one source, two calls and two repositories are enough for an update to cross
a synchronisation or another update, and several sources are covered by the
proofs. Three revisions are create and two of rebind, publish and archive; the
counter stops there. The failing run has two sources because a list is shared only
between sources. In the Linux.do run two topics let a withdrawal cross topics, two names let
two candidates stand for one repository, the edited post has another title and
another classification under each rule, and a queue of two is shorter than four
candidates; three revisions bound how often the publication changes between the
initial state and the end of a behaviour. Readers meet only in the cache, so one
builds across every commit; any number is covered by the proofs. Two tokens and
three calls leave one call without a token whenever two are out; a reset of 2 exceeds
the longest wait of 1. Six days with weeks of two and months of three give buckets of every length
and points of both kinds in one bucket; three events put two on one day. Symmetry
is used where no liveness property is checked.

**Fairness.** Weak fairness of each request's, worker's, builder's and Awesome
call's own steps: they are goroutines the Go scheduler runs, every network call
they make is bound to a context with a deadline (`BuildTimeout`, the client's 20
seconds, the request), and each error path returns. In the GitHub client the clock
is fair and so is each call, but not the end of its caller's context: a call ends
even if nobody cancels it. Nothing else is fair: requests, commits, invalidations
by writers that may not come, Close, restarts, lost writes and, elsewhere, the
passing of time may never happen. The properties of LinuxDo, Catalog and StarSeries
need no fairness. Deadlock checking is off where the system may stop: a closed
star-history service at its last clock value, bounds on runs, writes or revisions
that are used up, calls that have all ended, an algorithm that has answered.

## 4. Findings

Places where a comment, a document or a test promises more than the code does;
the quotes are in `PROJECT.json`. The first three have a run of their own. The
others were met while modelling; where a property states the promise it is
defined in the module, and TLC refutes it with the instance named here.

1. `SyncedKeepsRepo` (run `awesome_rebind`): an update that read a draft may commit
   after a synchronisation has made the source ready, and so change the repository
   of a synchronised source.
2. `PublishedIsLinked` (run `linuxdo_alias`): two names of one topic that stand for
   one repository share its relation; a verdict on one removes it under the other,
   which stays published and is not verified again.
3. `NoListBehindItsFacts` (run `awesome_facts`): a synchronisation stores facts that
   published lists show, and ends without dropping those lists from the cache. The
   run finds a failed one and the list of the source itself; with `SyncFails` and
   `FinishLost` taken out of `CallStep`, a successful one leaves the list of the
   other source behind.
4. `SnapshotOfItsRepo` (AwesomeSources): a draft gets another repository while it is
   being synchronised, and the snapshot and the SHA of the old one land in its row.
   The instance of `awesome_sources`, as an invariant.
5. `PublishedWithEntries` (AwesomeSources): publishing checks the counts it read; an
   empty snapshot may replace the list before the status is set. The instance of
   `awesome_sources`, as a property.
6. `RevisionCoversFacts` (LinuxDo): other subsystems rewrite the facts of a published
   repository, and the revision stays. 1 topic, 1 name, 1 repository, 2 facts.
7. `NoLeaseAfterClose` (StarHistory): Enqueue checks for a closed service once and
   claims afterwards. `Spec`, 1 repository, request and worker, `BuildTimeout` 2,
   `MaxTime` 3, 1 fault.
8. `ReadyKeptForTTL` (StarHistory): a job that waited in the queue past its lease is
   built twice, and the late outcome, even a failure, replaces a ready row inside
   its TTL. `Spec`, 1 repository, 2 requests, 2 workers, queue 1, `CacheTTL` 2, the
   other timeouts 1, `MaxTime` 3, no fault.
9. `NextRequestRebuilds` (ResponseCache): after an invalidation the next request may
   still be answered from a build that read SQLite before it. 1 key, 2 requests, 1
   commit, 2 invalidations.
10. `NextBulkRebuilds` (BulkCache): a build that began before a synchronisation ended
    stores its snapshot after the invalidation. 2 requests, 2 synchronisations, TTL 1,
    1 commit.
11. `ServedLanguage` (Catalog): when the last repository of a language changes its
    language, the old language's bucket is never rebuilt, and the page of that
    language lists the repository as long as it is a member. 2 repositories, 2
    languages, 1 caller, 2 runs.
12. `EveryRunCounted` (Catalog): a successful synchronisation is stored as `success`
    and counted as `succeeded`. 2 repositories, 1 language, 1 caller, 2 runs.
13. Awesome edits that cannot read their row back return before they invalidate:
    `ChangesBecomeVisible` and `StaleIsOwedOrSkipped` excuse exactly those keys.
14. A README without GitHub repositories makes a draft ready, although documents ask
    for at least one.
15. `SeriesKeepsShape` with `Maximums = {1}`: two points are answered where one was
    configured.
16. The wait for a token is bounded, the sum of a call's waits is not: `CallsEnd`
    holds because the calls of an instance are finitely many.

Not a finding, since nothing promises otherwise, but visible in the model: two
overlapping synchronisations may leave the catalog empty (a full one prunes the
members the other has just inserted), which is why `CatalogKept` and
`RankedAtSuccess` speak of a synchronisation that ran alone; a run whose context
ended, or whose process did, stays `running` in `sync_runs`; and an Awesome run
whose last statement was lost keeps its source from being synchronised: nothing in
the code ends it (`Orphan`).

## 5. Proofs

Assumptions are those on the constants only (`ConfigAssumption`,
`CacheAssumption`, `BulkAssumption`, `CatalogAssumption`, `SourcesAssumption`,
`LinuxDoAssumption`, `ClientAssumption`, `SeriesAssumption`): the
positive limits `NewService` and the constructors insist on, a finite set of
workers and of tokens, buckets that are distinct, markers that are no values, and natural bounds.
Sets of repositories, languages, topics, names, readers, requests, keys, sources and
calls are arbitrary. Two theorems have a hypothesis of their own: `ShapeCorrect` and
`SnapshotsShown` are about limits of two points or more, because with one the code
answers with both ends (finding 15). No theorem assumes anything about time.

| Theorem | Argument |
|---|---|
| `TypeCorrect` (star history) | inductive; the pc of a request or worker determines the fields it carries |
| `BudgetCorrect`: `Spec => []BudgetSafe` | `BudgetSafe` is not inductive: a worker that has reserved may still send its query. `BudgetInv` counts the queries started plus the workers that have reserved and not yet asked (`Asking(d)`); reserving adds one to the set and the price to the row, asking moves one from the set to the count, failing and restarting only shrink the set |
| `BuildingIsInFlight`: `Spec => []NoFalseBuilding` | `BuildingInv`: without faults each `building` row, even one whose lease is over, has the very task it was claimed for with a request that still has to send or to undo, in the queue or with a worker. The hard steps hand a task over: a send moves it from the request to the queue, a refused one to the undo that takes the row back, a dequeue to the worker; a row is only claimed by the request that then holds it |
| `OneBuildPerLease`: `Spec => []LeaseHolds`; `ReadyRowsEndLate`, `SeriesStepsBackLate`: `Spec =>` the action properties | `LeaseInv`: unless a late task has written its row since (`overrun`), a repository has at most one holder of a task inside its lease (request, worker or queue slot), and the row carries the lease that task was claimed with; `DatesInv` orders the instants a task and a row carry. A claim needs a row that is missing or whose lease, TTL or retry time is over, so the task it finds under way, if any, is late (`ClaimableIsFree`); a claim that finds none puts the repository back under the protocol. A write then comes either from a late task, which is what the properties excuse, or from the one holder, whose row is `building` (`RowChanges`). No bound on builds, waits or writes is assumed |
| `CacheFreshness`: `Spec => []CacheFresh` | `CacheInv` adds `BuildFresh`: a build whose generation is still current has read nothing older than the last invalidation. `Finish` compares generations, so what it stores satisfies `CacheFresh`; the eviction only removes entries (`StoreEntry`), so neither the sizes nor the LRU order matter |
| `OneBuildPerKey`, `WaitersAreBuiltFor` | `FlightInv`: the registered builder of a key is the only one, a registered key is not cached, and waiters point at a builder of their key |
| `DirectAnswersAreFresh` | `AnswerInv`: the floor a request came with is below what its build is going to read, or has read (`FloorKept`); a hit is above it by `CacheFresh` |
| `TypeCorrect`, `CacheAccounting`: `Spec => [](TypeOK /\ Accounting)` (response cache) | `StorageInv`: the list has no key twice, its keys are exactly the cached ones, the counter is the sum of their sizes and both limits hold. Needs that the counter, moved by one size at a time, is the sum of a fold over a set: `SumsUnique`, `SumsExist`, `BytesSplit`; that the kept prefix exists and is a prefix: `GreatestExists`, `KeptPrefix` |
| `TypeCorrect`, `BulkFreshness`: `Spec => []FreshUnlessCrossed` | `BuildInv`: an uncrossed build has read nothing older than the last invalidation, and its summary after its list |
| `MembersAreStored`, `ReferencesHaveFacts` | inductive with `TypeOK`: the membership is joined with the stored facts in the transaction that replaces it, `Prune` keeps the referenced facts and cuts the members to the candidates, each in one transaction, so no order of the steps matters |
| `RankingsRebuilt`: `Spec => []RankedAtSuccess` | `RankInv`: while one synchronisation runs alone, what it has read for the bucket at hand still matches the tables, and each bucket due by its phase (`Due`) is still on its list or ranks what matches it; pruning changes the languages before the list of languages is drawn up |
| `CatalogIsKept`: `Spec => CatalogKept` | `KeptInv`: without an overlap at most one synchronisation is active (`Alone`), and one that is about to prune has candidates among the members (`PruneCovered`), which its own membership step put there |
| `ShaCorrect`, `RunsCorrect`, `StaleCorrect` (Awesome) | each inductive with `TypeOK`: the SHA and the snapshot change in one transaction, an update can only forget the SHA; a call holds the active row from `StartRun` to the statement that ends it; a step that makes a key stale (its row, list or card) puts it on its call's list, and the facts inside other lists are kept apart in `drifted`, about which nothing is proved because nothing holds; and only `Invalidate` and `ReadBackFails` shorten that list |
| `ServiceImplementsPromise`: `Spec => ImplementsPublicSource` | step simulation. The hard step is `CommitUpdate`, which binds to a repository on the strength of an old read; `CallInv` says that an update which would rebind a source that is shown by now carries a revision the row no longer has, because publishing raises it |
| `LinksCorrect`, `WithdrawnCorrect` (LinuxDo) | inductive with `QueueOk`: an item's row still has the repository that was read and a row has one item, so a verdict removes exactly the relations its row stood for; observing and rejudging keep the repository and only take a verdict back to pending |
| `RoundsDecide` (LinuxDo) | `StageOk` says what a round without a cut list has still to do at each stage (topics to rejudge, an item for each pending row), `CandOk` that a published row was accepted by its rule |
| `QuietCorrect` (LinuxDo) | `ReadersOk`: while no round runs, a reader of the current cache object has read exactly the relations and titles of the tables; `Finish` and `Restart` detach every reader |
| `RevisionsMove` (LinuxDo) | each transaction that changes a relation or the title of a public topic raises the revision; no other step, those that rewrite facts included, changes either |
| `TypeCorrect` (GitHub client) | `ClientInv` adds that a request in flight was counted and has a token of the pool, and that only a waiting call has time left. The timer is the least of the pool's times, which exists because the pool is finite and not empty (`EarliestExists`) |
| `StrategiesSpendTheirSlot`, `SlotsDifferByOne`, `PlansFitOnePage`, `PlansSpendTheBudget` (search plans) | arithmetic, for every configured size; eight slots of quotient and remainder are the total again (`SlotsSpendTheTotal`) |
| `CurveCorrect`: `Spec => []CurveFitsEvents` | the daily counts summed up to a day are the counts of the events up to it (`CountSumTotal`, `DailyTotal`, `UntilTotal`). The loop over the days carries the previous point and clamps to it and to the current stars; `SharesComputed` shows that neither clamp is ever taken: the rounded share grows with the sum (`RoundedGrows`) and is the current stars at the last one, so the curve is the rounded share, which is within half a star |
| `SnapshotsShown`: `Spec => []SnapshotsReachReaders` for limits of two or more | `SnapshotsStored` ties the stored points to the snapshots from the merge to the answer, and tells estimates from exact points by their kind (`CurveKind`); `ShapeShowsSnapshots` follows a snapshot into the answer: its bucket's last point of its kind is exact, and is kept because a series with room left has all points grouping leaves |
| `ShapeCorrect`: `Spec => []SeriesKeepsShape` for limits of two or more | the loop of `capHistoryPoints` is defined on the sets it runs through and adds one free day each time, so it ends with exactly the limit and with all it began with (`LoopExists`, `LoopFills`, `CapKeeps`); the points it has to keep are the two ends and both sides of each change (`SidesAreWanted`), and grouping keeps the last day (`SelectedPoints`, `DownsampleShape`) |

**Sums and minima.** The library's induction theorems take an operator as a
parameter, which the provers cannot instantiate. Where a proof needs induction over
a finite set it argues by a smallest counterexample instead (`SmallestSubset`):
strict inclusion is well-founded on the subsets of a finite set, so among the
subsets for which a claim fails there is one all of whose proper subsets satisfy it.
A loop that adds to a set until it is full is argued about from the other end: among
the sets for which the claim fails there is a largest one, and the loop goes on from
it to a larger one. That such a recursive function exists at all is proved the same
way before its value is used. A sum that the code keeps by adding is compared with a
fold over a set by its equation alone: two functions that satisfy it are equal.

Every invariant and every safety action property of the passing runs is proved.
Only model-checked are the liveness properties `BuildsResolve`, `CloseReturns`,
`WaitersServed`, `ChangesBecomeVisible`, `RunsEnd` and `CallsEnd`: they rest on
fairness, and ENABLED is outside the prover.

## 6. Not modelled, and what is left

Not modelled, because a model would restate text rules or numbers and nothing in
them depends on time: parsers, classifiers, scoring weights, configuration,
authentication, read-only endpoints, DDL and migrations (what the schema guarantees
is modelled where it is used), the transports of BigQuery and of the feed.

Left out of modelled components: the timers of the schedulers and the order of
`Close` in `server.go`; the cool-down of the collector after a 429; the library
client behind `GetRepository`; display fields and scores of repositories, and of their
facts everything but that they were rewritten; releases, daily snapshots and feed
exposures.

What would come next:

1. **Lifecycle**: schedulers, workers and handlers against the order of `Close`.
2. **Abstract specification of the star-history row** (none, building, ready,
   failed) with the late write as a step of its own; `LeaseInv` is the invariant it needs.
3. **AwesomeSources with ResponseCache** in one composition, so that `owed` there is
   paid by the calls here.
