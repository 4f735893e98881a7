--------------------------- MODULE AwesomeSources ---------------------------
(***************************************************************************)
(* Managed Awesome sources: the admin requests that create, update,        *)
(* publish and archive a source, the synchronisations that replace its     *)
(* snapshot (internal/awesome/service.go), the SQLite statements they are  *)
(* made of (internal/store/awesome.go), and the response-cache keys they   *)
(* owe an invalidation.                                                    *)
(*                                                                         *)
(* SQLite has one connection, so a statement or a transaction is one step; *)
(* the GitHub calls between two of them may take any time and may fail. A  *)
(* README is known by its SHA; Listing says what the parser makes of it.   *)
(* A snapshot is the repository and the README it came from, and the       *)
(* repositories of its entries: their facts are in the repos table, which  *)
(* every source shares.                                                    *)
(***************************************************************************)
EXTENDS Naturals, FiniteSets

CONSTANTS
    Sources,
    Repos,        \* public repositories that validateSourceRepository accepts
    Readmes,      \* README contents, by SHA
    Unsupported,  \* the READMEs among them that the parser rejects
    Listing,      \* the repositories a README lists
    Calls,        \* admin requests and the synchronisations of the light cron
    NoSource, NoSha, NoRepo, NoSnapshot,
    NoRun, Orphan,
    Catalog,      \* the response-cache key of the source catalog
    MaxRevision,  \* bound: revisions of one source
    MaxFaults     \* bound: crashes and lost writes

ASSUME SourcesAssumption ==
    /\ Unsupported \subseteq Readmes
    /\ Listing \in [Readmes -> SUBSET Repos]
    /\ NoSha \notin Readmes
    /\ NoRepo \notin Repos
    /\ {NoRun, Orphan} \cap Calls = {}
    /\ NoRun # Orphan
    /\ Catalog \notin Sources
    /\ NoSource \notin
           [status : {"draft", "ready", "published", "archived"}, repo : Repos,
            revision : 1..MaxRevision, sha : Readmes \cup {NoSha}]
    /\ NoSnapshot \notin [repo : Repos, readme : Readmes, entries : SUBSET Repos]
    /\ MaxRevision \in Nat \ {0}
    /\ MaxFaults \in Nat

VARIABLES
    source,     \* awesome_sources
    snapshot,   \* active awesome_entries of each source
    active,     \* the queued or running row of awesome_sync_runs, by source
    call,       \* where each request or synchronisation is
    stale,      \* cache keys whose rows, lists or cards SQLite has changed
    drifted,    \* published lists with a repository rewritten since
    skipped,    \* history: keys whose writer returned without invalidating
    faults      \* history: crashes and lost writes so far

database == <<source, snapshot, active>>
readers == <<stale, drifted, skipped>>
vars == <<database, call, readers, faults>>

Status == {"draft", "ready", "published", "archived"}
Row == [status : Status, repo : Repos, revision : 1..MaxRevision,
        sha : Readmes \cup {NoSha}]
Snapshot == [repo : Repos, readme : Readmes, entries : SUBSET Repos]
Keys == Sources \cup {Catalog}

Idle == [pc |-> "idle", src |-> NoSource, repo |-> NoRepo, revision |-> 0,
         sha |-> NoSha, got |-> NoSha, owe |-> {}]
Syncing == {"run", "facts", "fetched"}
CallState ==
    [pc : {"idle", "update", "publish", "read", "committed", "owing"} \cup Syncing,
     src : Sources \cup {NoSource}, repo : Repos \cup {NoRepo},
     revision : 0..MaxRevision, sha : Readmes \cup {NoSha},
     got : Readmes \cup {NoSha}, owe : SUBSET Keys]

Exists(s) == source[s] # NoSource
Published(s) == Exists(s) /\ source[s].status = "published"
Taken(s, r) == \E o \in Sources \ {s} : Exists(o) /\ source[o].repo = r

\* github_repo_count of the row is not zero.
Entries(s) == snapshot[s] # NoSnapshot /\ snapshot[s].entries # {}

\* Published sources whose list shows one of these repositories.
Listed(repos) ==
    {p \in Sources : Published(p) /\ snapshot[p] # NoSnapshot
                                 /\ snapshot[p].entries \cap repos # {}}

\* The keys a reader can have cached of a source, if it is or was published.
Public(s) == IF Published(s) THEN {Catalog, s} ELSE {}

\* What a call still has to do once its commit is made: an edit reads the row
\* back before it invalidates, a synchronisation does not.
Committed(keys) == [Idle EXCEPT !.pc = "committed", !.owe = keys]
Owing(keys) == [Idle EXCEPT !.pc = "owing", !.owe = keys]

Init ==
    /\ source = [s \in Sources |-> NoSource]
    /\ snapshot = [s \in Sources |-> NoSnapshot]
    /\ active = [s \in Sources |-> NoRun]
    /\ call = [c \in Calls |-> Idle]
    /\ stale = {}
    /\ drifted = {}
    /\ skipped = {}
    /\ faults = 0

-----------------------------------------------------------------------------
(* Editing a source. *)

\* Mutant of CreateSource: the revision keeps Go's zero value.
CreateSourceUnrevised(c, s, r) ==
    /\ call[c].pc = "idle"
    /\ ~Exists(s)
    /\ ~Taken(s, r)
    /\ source' = [source EXCEPT ![s] = [status |-> "draft", repo |-> r,
                                        revision |-> 0, sha |-> NoSha]]
    /\ call' = [call EXCEPT ![c] = Committed({Catalog})]
    /\ UNCHANGED <<snapshot, active, readers, faults>>

\* Validation reads no table: the insert is the first step that matters.
CreateSource(c, s, r) ==
    /\ call[c].pc = "idle"
    /\ ~Exists(s)
    /\ ~Taken(s, r)
    /\ source' = [source EXCEPT ![s] = [status |-> "draft", repo |-> r,
                                        revision |-> 1, sha |-> NoSha]]
    /\ call' = [call EXCEPT ![c] = Committed({Catalog})]
    /\ UNCHANGED <<snapshot, active, readers, faults>>

\* UpdateSource reads the row, and only a draft may get another repository.
\* The revision comes from a form filled from an earlier answer.
BeginUpdate(c, s, r, n) ==
    /\ call[c].pc = "idle"
    /\ Exists(s)
    /\ n \in 1..source[s].revision
    /\ r # source[s].repo => source[s].status = "draft"
    /\ call' = [call EXCEPT ![c] = [Idle EXCEPT !.pc = "update", !.src = s,
                                                !.repo = r, !.revision = n]]
    /\ UNCHANGED <<database, readers, faults>>

\* UPDATE ... WHERE id AND revision. Another repository or parser profile
\* forgets the SHA; the status is not looked at again.
CommitUpdate(c) ==
    LET s == call[c].src
        r == call[c].repo
    IN  /\ call[c].pc = "update"
        /\ call[c].revision = source[s].revision
        /\ source[s].revision < MaxRevision
        /\ ~Taken(s, r)
        /\ \E sha \in {NoSha, source[s].sha} :
               /\ r # source[s].repo => sha = NoSha
               /\ source' = [source EXCEPT ![s] =
                      [source[s] EXCEPT !.repo = r, !.revision = @ + 1, !.sha = sha]]
        /\ stale' = stale \cup Public(s)
        /\ call' = [call EXCEPT ![c] = Committed({Catalog, s})]
        /\ UNCHANGED <<snapshot, active, drifted, skipped, faults>>

\* A lost revision, a repository another source has, a failed validation or
\* a failed statement: the request ends with an error.
EditRejected(c) ==
    /\ call[c].pc \in {"update", "publish"}
    /\ call' = [call EXCEPT ![c] = Idle]
    /\ UNCHANGED <<database, readers, faults>>

\* Mutant of SetAwesomeSourceStatus: the revision stays.
SetStatusSameRevision(s, status) ==
    /\ source[s].revision < MaxRevision
    /\ source' = [source EXCEPT ![s].status = status]
    /\ stale' = stale \cup Public(s)
                      \cup (IF status = "published" THEN {Catalog, s} ELSE {})

SetAwesomeSourceStatus(s, status) ==
    /\ source[s].revision < MaxRevision
    /\ source' = [source EXCEPT ![s] = [source[s] EXCEPT !.status = status,
                                                         !.revision = @ + 1]]
    /\ stale' = stale \cup Public(s)
                      \cup (IF status = "published" THEN {Catalog, s} ELSE {})

BeginPublish(c, s) ==
    /\ call[c].pc = "idle"
    /\ Exists(s)
    /\ source[s].sha # NoSha
    /\ Entries(s)
    /\ source[s].status # "draft"
    /\ call' = [call EXCEPT ![c] = [Idle EXCEPT !.pc = "publish", !.src = s]]
    /\ UNCHANGED <<database, readers, faults>>

CommitPublish(c) ==
    LET s == call[c].src
    IN  /\ call[c].pc = "publish"
        /\ SetAwesomeSourceStatus(s, "published")
        /\ call' = [call EXCEPT ![c] = Committed({Catalog, s})]
        /\ UNCHANGED <<snapshot, active, drifted, skipped, faults>>

ArchiveSource(c, s) ==
    /\ call[c].pc = "idle"
    /\ Exists(s)
    /\ SetAwesomeSourceStatus(s, "archived")
    /\ call' = [call EXCEPT ![c] = Committed({Catalog, s})]
    /\ UNCHANGED <<snapshot, active, drifted, skipped, faults>>

\* The store reads the row back after its commit; when that fails (the client
\* is gone) the service returns before it invalidates anything.
ReadBackFails(c) ==
    /\ call[c].pc = "committed"
    /\ call' = [call EXCEPT ![c] = Idle]
    /\ skipped' = skipped \cup (call[c].owe \cap stale)
    /\ UNCHANGED <<database, stale, drifted, faults>>

\* Mutant of Invalidate: only the catalog.
InvalidateCatalogOnly(c) ==
    /\ call[c].pc \in {"committed", "owing"}
    /\ stale' = stale \ {Catalog}
    /\ skipped' = skipped \ {Catalog}
    /\ call' = [call EXCEPT ![c] = Idle]
    /\ UNCHANGED <<database, drifted, faults>>

Invalidate(c) ==
    /\ call[c].pc \in {"committed", "owing"}
    /\ \E k \in call[c].owe :
           /\ Catalog \in call[c].owe => k = Catalog
           /\ stale' = stale \ {k}
           /\ drifted' = drifted \ {k}
           /\ skipped' = skipped \ {k}
           /\ call' = [call EXCEPT ![c] = IF call[c].owe = {k}
                                          THEN Idle
                                          ELSE Owing(call[c].owe \ {k})]
    /\ UNCHANGED <<database, faults>>

-----------------------------------------------------------------------------
(* Synchronising a source: SyncSource and buildSnapshot. *)

\* The row is read before the run is inserted, and not again. The cron comes
\* here once for every source that was published when its turn began.
BeginSync(c, s) ==
    /\ call[c].pc = "idle"
    /\ Exists(s)
    /\ call' = [call EXCEPT ![c] = [Idle EXCEPT !.pc = "read", !.src = s,
                                    !.repo = source[s].repo, !.sha = source[s].sha]]
    /\ UNCHANGED <<database, readers, faults>>

\* Mutant of StartRun: no unique index over the active rows.
StartRunAlways(c) ==
    LET s == call[c].src
    IN  /\ call[c].pc = "read"
        /\ active' = [active EXCEPT ![s] = c]
        /\ call' = [call EXCEPT ![c].pc = "run"]
        /\ UNCHANGED <<source, snapshot, readers, faults>>

\* The unique index over active rows lets one run of a source in.
StartRun(c) ==
    LET s == call[c].src
    IN  /\ call[c].pc = "read"
        /\ active[s] = NoRun
        /\ active' = [active EXCEPT ![s] = c]
        /\ call' = [call EXCEPT ![c].pc = "run"]
        /\ UNCHANGED <<source, snapshot, readers, faults>>

\* The active run is answered instead, or not found when it has just ended.
RunInProgress(c) ==
    /\ call[c].pc = "read"
    /\ active[call[c].src] # NoRun
    /\ call' = [call EXCEPT ![c] = Idle]
    /\ UNCHANGED <<database, readers, faults>>

\* The source's own repository is stored in the shared table, then its
\* languages. That changes the card of the source and of whichever names this
\* repository, and what every published list with this repository shows.
StoreFacts(c) ==
    /\ call[c].pc = "run"
    /\ stale' = IF \E p \in Sources :
                       Published(p) /\ (p = call[c].src \/ source[p].repo = call[c].repo)
                THEN stale \cup {Catalog}
                ELSE stale
    /\ drifted' = drifted \cup Listed({call[c].repo})
    /\ call' = [call EXCEPT ![c].pc = "facts"]
    /\ UNCHANGED <<database, skipped, faults>>

\* The README may have changed any number of times since the last fetch.
FetchReadme(c) ==
    /\ call[c].pc = "facts"
    /\ \E m \in Readmes :
           call' = [call EXCEPT ![c].pc = "fetched", ![c].got = m]
    /\ UNCHANGED <<database, readers, faults>>

\* Mutant of FastPath: the run is not finished.
FastPathUnfinished(c) ==
    /\ call[c].pc = "fetched"
    /\ call[c].got = call[c].sha
    /\ Listing[call[c].sha] # {}
    /\ Entries(call[c].src)
    /\ call' = [call EXCEPT ![c] = Owing({Catalog, call[c].src})]
    /\ UNCHANGED <<database, readers, faults>>

\* The SHA is the one the row had, and its entries still have their facts: the
\* run succeeds and nothing is replaced. Facts may also be found incomplete,
\* which leaves ReplaceSnapshot.
FastPath(c) ==
    LET s == call[c].src
    IN  /\ call[c].pc = "fetched"
        /\ call[c].got = call[c].sha
        /\ Listing[call[c].sha] # {}
        /\ Entries(s)
        /\ active' = [active EXCEPT ![s] = NoRun]
        /\ call' = [call EXCEPT ![c] = Owing({Catalog, s})]
        /\ UNCHANGED <<source, snapshot, readers, faults>>

\* Cards and other lists that show the repositories a synchronisation of s has
\* stored with its snapshot.
EntriesStored(s, repos) ==
    /\ stale' = stale \cup Public(s)
                      \cup {k \in {Catalog} : \E p \in Sources :
                                Published(p) /\ source[p].repo \in repos}
    /\ drifted' = drifted \cup (Listed(repos) \ {s})

\* Mutant of ReplaceSnapshot: an empty list leaves the old entries in place.
ReplaceSnapshotUnlessEmpty(c) ==
    LET s == call[c].src
        r == call[c].repo
        sha == call[c].got
    IN  /\ call[c].pc = "fetched"
        /\ sha \notin Unsupported
        /\ \E found \in SUBSET Listing[sha] :
               /\ found = {} => Listing[sha] = {}
               /\ snapshot' = IF found = {} /\ snapshot[s] # NoSnapshot
                              THEN snapshot
                              ELSE [snapshot EXCEPT ![s] =
                                        [repo |-> r, readme |-> sha, entries |-> found]]
               /\ EntriesStored(s, found)
        /\ source' = [source EXCEPT ![s] =
               [source[s] EXCEPT !.status = IF @ = "draft" THEN "ready" ELSE @,
                                 !.sha = sha]]
        /\ active' = [active EXCEPT ![s] = NoRun]
        /\ call' = [call EXCEPT ![c] = Owing({Catalog, s})]
        /\ UNCHANGED <<skipped, faults>>

\* One transaction: the repositories GitHub still knows, entries, status of a
\* draft, SHA and counts, and the run. Neither the repository nor the revision
\* of the row is compared. An empty list is a snapshot too; a list none of
\* whose repositories exists is not.
ReplaceSnapshot(c) ==
    LET s == call[c].src
        r == call[c].repo
        sha == call[c].got
    IN  /\ call[c].pc = "fetched"
        /\ sha \notin Unsupported
        /\ \E found \in SUBSET Listing[sha] :
               /\ found = {} => Listing[sha] = {}
               /\ snapshot' = [snapshot EXCEPT ![s] =
                                  [repo |-> r, readme |-> sha, entries |-> found]]
               /\ EntriesStored(s, found)
        /\ source' = [source EXCEPT ![s] =
               [source[s] EXCEPT !.status = IF @ = "draft" THEN "ready" ELSE @,
                                 !.sha = sha]]
        /\ active' = [active EXCEPT ![s] = NoRun]
        /\ call' = [call EXCEPT ![c] = Owing({Catalog, s})]
        /\ UNCHANGED <<skipped, faults>>

\* Mutant of SyncFails: a failed run is taken to have changed nothing.
SyncFailsSilently(c) ==
    /\ call[c].pc \in Syncing
    /\ active' = [active EXCEPT ![call[c].src] = NoRun]
    /\ call' = [call EXCEPT ![c] = Idle]
    /\ UNCHANGED <<source, snapshot, readers, faults>>

\* Any error of buildSnapshot, an unsupported README among them. The row is
\* finished under context.Background(), and the catalog invalidated because
\* the facts may have changed.
SyncFails(c) ==
    /\ call[c].pc \in Syncing
    /\ active' = [active EXCEPT ![call[c].src] = NoRun]
    /\ call' = [call EXCEPT ![c] = Owing({Catalog})]
    /\ UNCHANGED <<source, snapshot, readers, faults>>

\* The error of that last statement is dropped: the row stays active.
FinishLost(c) ==
    /\ call[c].pc \in Syncing
    /\ faults < MaxFaults
    /\ active' = [active EXCEPT ![call[c].src] = Orphan]
    /\ call' = [call EXCEPT ![c] = Owing({Catalog})]
    /\ faults' = faults + 1
    /\ UNCHANGED <<source, snapshot, readers>>

-----------------------------------------------------------------------------
(* The world around it. *)

\* A crash empties the caches and ends every call; nothing at start-up looks
\* at the rows that were active.
Crash ==
    /\ faults < MaxFaults
    /\ active' = [s \in Sources |-> IF active[s] = NoRun THEN NoRun ELSE Orphan]
    /\ call' = [c \in Calls |-> Idle]
    /\ stale' = {}
    /\ drifted' = {}
    /\ skipped' = {}
    /\ faults' = faults + 1
    /\ UNCHANGED <<source, snapshot>>

Request(c) ==
    \E s \in Sources :
        \/ \E r \in Repos : CreateSource(c, s, r)
        \/ \E r \in Repos, n \in 1..MaxRevision : BeginUpdate(c, s, r, n)
        \/ BeginPublish(c, s)
        \/ ArchiveSource(c, s)
        \/ BeginSync(c, s)

CallStep(c) ==
    \/ CommitUpdate(c)
    \/ EditRejected(c)
    \/ CommitPublish(c)
    \/ ReadBackFails(c)
    \/ Invalidate(c)
    \/ StartRun(c)
    \/ RunInProgress(c)
    \/ StoreFacts(c)
    \/ FetchReadme(c)
    \/ FastPath(c)
    \/ ReplaceSnapshot(c)
    \/ SyncFails(c)
    \/ FinishLost(c)

Next ==
    \/ \E c \in Calls : Request(c) \/ CallStep(c)
    \/ Crash

Spec == Init /\ [][Next]_vars

\* A call that has begun goes on: its GitHub requests have deadlines and each
\* error path returns.
FairSpec == Spec /\ \A c \in Calls : WF_vars(CallStep(c))

-----------------------------------------------------------------------------
(* Properties. *)

TypeOK ==
    /\ source \in [Sources -> Row \cup {NoSource}]
    /\ snapshot \in [Sources -> Snapshot \cup {NoSnapshot}]
    /\ active \in [Sources -> Calls \cup {NoRun, Orphan}]
    /\ call \in [Calls -> CallState]
    /\ stale \subseteq Keys
    /\ drifted \subseteq Sources
    /\ skipped \subseteq Keys
    /\ faults \in 0..MaxFaults

\* The SHA that lets a synchronisation skip the work names the README the
\* snapshot was made from, through every update, empty list and failure
\* (service.go:271, store/awesome.go:237).
ShaNamesSnapshot ==
    \A s \in Sources : Exists(s) /\ source[s].sha # NoSha
        => snapshot[s] # NoSnapshot /\ snapshot[s].readme = source[s].sha

\* A running synchronisation holds the active row of its source, so no two
\* replace one snapshot, and a row stays active only for a running one or one
\* whose end was lost (migrations.go:277).
RunsHoldTheirSource ==
    /\ \A c \in Calls : call[c].pc \in Syncing => active[call[c].src] = c
    /\ \A s \in Sources : active[s] \in Calls =>
           call[active[s]].pc \in Syncing /\ call[active[s]].src = s

\* The keys a call will drop, unless it fails to read its row back.
Owed(c) == call[c].owe \cup {k \in {Catalog} : call[c].pc \in Syncing}

\* The rows, lists and cards that readers may have cached are out of date only
\* while the writer still owes their invalidation, or left without it because
\* it could not read its row back (service.go:147-150, :226,
\* store/awesome.go:80). What a list shows of each repository is not among
\* them: see NoListBehindItsFacts.
StaleIsOwedOrSkipped ==
    \A k \in stale : k \in skipped \/ \E c \in Calls : k \in Owed(c)

\* Once every call is over, no cached list shows a repository as it was before
\* a synchronisation stored it again, unless a writer could not read its row
\* back: what docs/api.md:199 says of the keys a
\* synchronisation invalidates. The facts of a repository are joined to every
\* list that has it (store/awesome.go:351-364), but only the catalog and the
\* list of the synchronised source are dropped (service.go:226-230).
NoListBehindItsFacts ==
    (\A c \in Calls : call[c].pc = "idle") => drifted \subseteq skipped

\* A list that a SHA vouches for came from the repository the source is bound
\* to: what makes UpdateAwesomeSource forget the SHA of another one
\* (store/awesome.go:58-60).
SnapshotOfItsRepo ==
    \A s \in Sources : Exists(s) /\ source[s].sha # NoSha
        => snapshot[s] # NoSnapshot /\ snapshot[s].repo = source[s].repo

\* A source is published only while it has a GitHub repository to show
\* (docs/api.md:248).
PublishedWithEntries ==
    [][\A s \in Sources : ~Published(s) /\ Published(s)' => Entries(s)]_vars

\* A source whose status says it was synchronised keeps its repository: what
\* UpdateSource answers otherwise (service.go:131).
SyncedKeepsRepo ==
    [][\A s \in Sources :
           Exists(s) /\ source[s].status # "draft" => source'[s].repo = source[s].repo]_vars

\* A row, list or card that readers could have cached before it changed is
\* dropped in the end, unless its writer skipped that.
ChangesBecomeVisible ==
    \A k \in Keys : (k \in stale) ~> (k \notin stale \/ k \in skipped)

\* Every run that starts is finished, or its end was lost.
RunsEnd == \A s \in Sources : (active[s] \in Calls) ~> (active[s] \notin Calls)

\* The promise to readers and editors: see PublicSource.
Promise == INSTANCE PublicSource WITH
    Lists <- Snapshot,
    NoList <- NoSnapshot,
    stage <- [s \in Sources |-> IF ~Exists(s) THEN "absent"
                                ELSE IF Published(s) THEN "shown" ELSE "hidden"],
    home <- [s \in Sources |-> IF Exists(s) THEN source[s].repo ELSE NoRepo],
    list <- snapshot

ImplementsPublicSource == Promise!Spec

=============================================================================
