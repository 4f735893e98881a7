------------------------------ MODULE Catalog ------------------------------
(***************************************************************************)
(* The Discovery catalog: the synchronisation that fetches candidates,     *)
(* replaces the membership, prunes the repository facts and rebuilds the   *)
(* rankings (internal/ingest/service.go), the SQLite transactions it is    *)
(* made of (internal/store/sqlite.go), and what shares its tables: Awesome *)
(* snapshots, Linux.do decisions, the ranked pages and the run statistics. *)
(*                                                                         *)
(* SQLite has one connection, so a statement or a transaction is one step. *)
(* A fact is abstracted to what ranking depends on: its language, and      *)
(* whether it meets the conditions of the category. One category and one   *)
(* topic bucket stand for all; their order inside a bucket is left out.    *)
(***************************************************************************)
EXTENDS Naturals, Sequences, FiniteSets

CONSTANTS
    Repos,         \* GitHub repository ids
    Languages,     \* languages a repository can have
    AllBucket,     \* model.AllBucket of a category
    TopicBucket,   \* the buckets that are refreshed whatever the catalog holds
    NoBucket,
    Syncs,         \* callers of Sync: the two cron entries and admin requests
    MaxRuns,       \* bound: runs started
    MaxWrites      \* bound: snapshots and publications of Awesome and Linux.do

ASSUME CatalogAssumption ==
    /\ AllBucket \notin Languages
    /\ TopicBucket \notin Languages
    /\ AllBucket # TopicBucket
    /\ NoBucket \notin Languages \cup {AllBucket, TopicBucket}
    /\ MaxRuns \in Nat
    /\ MaxWrites \in Nat

VARIABLES
    foreignKeys,  \* whether the driver honours _foreign_keys=ON
    fact,         \* repos
    member,       \* discovery_catalog_repos
    rank,         \* category_rankings and topic_rankings, by bucket
    awesome,      \* active github_repo rows of awesome_entries
    linuxdo,      \* linuxdo_repo_topics
    runs,         \* sync_runs: status of each row
    sync,         \* where each synchronisation is
    writes,       \* history: snapshots and publications so far
    overlapped,   \* history: a running synchronisation was joined by another
    touched       \* history: Awesome or Linux.do wrote since it began

tables == <<fact, member, rank, awesome, linuxdo>>
vars == <<foreignKeys, tables, runs, sync, writes, overlapped, touched>>

Buckets == Languages \cup {AllBucket, TopicBucket}

NoFact == [stored |-> FALSE]
Fact == [stored : {TRUE}, language : Languages, eligible : BOOLEAN]

Stored == {r \in Repos : fact[r] # NoFact}
Referenced == awesome \cup linuxdo

\* The members TopRankingEntries selects for a bucket.
Matching(b) ==
    {r \in member \cap Stored :
        fact[r].eligible /\ (b \in Languages => fact[r].language = b)}

\* What categoryPage answers: the ranking if it lists anything, else a query.
Served(b) ==
    LET listed == rank[b] \cap member \cap Stored
    IN  IF listed # {} THEN listed ELSE Matching(b)

Refreshing == {"all", "languages", "topics"}
Idle == [pc |-> "idle", run |-> 0, full |-> FALSE, alive |-> FALSE,
         cand |-> {}, todo |-> {}, at |-> NoBucket, entries |-> {}]
SyncState ==
    [pc : {"idle", "search", "member", "prune", "done", "failed"} \cup Refreshing,
     run : 0..MaxRuns, full : BOOLEAN, alive : BOOLEAN, cand : SUBSET Repos,
     todo : SUBSET Buckets, at : Buckets \cup {NoBucket}, entries : SUBSET Repos]

Active == {s \in Syncs : sync[s].pc # "idle"}

\* The error path of Sync: all that is left to do is FinishSyncRun.
Failed(s) == [Idle EXCEPT !.pc = "failed", !.run = sync[s].run,
                          !.alive = sync[s].alive]

\* refreshRankings begins; the candidates are not used any more.
Refresh(s) == [Idle EXCEPT !.pc = "all", !.run = sync[s].run,
                           !.alive = TRUE, !.todo = {AllBucket}]

Init ==
    /\ foreignKeys \in BOOLEAN
    /\ fact = [r \in Repos |-> NoFact]
    /\ member = {}
    /\ rank = [b \in Buckets |-> {}]
    /\ awesome = {}
    /\ linuxdo = {}
    /\ runs = <<>>
    /\ sync = [s \in Syncs |-> Idle]
    /\ writes = 0
    /\ overlapped = FALSE
    /\ touched = FALSE

-----------------------------------------------------------------------------
(* One synchronisation. Nothing keeps two of them apart. *)

\* Mutant of StartSync: the id of the row before the one inserted.
StartSyncOldRow(s, full) ==
    /\ sync[s].pc = "idle"
    /\ Len(runs) < MaxRuns
    /\ runs' = Append(runs, "running")
    /\ sync' = [sync EXCEPT ![s] = [Idle EXCEPT !.pc = "search",
                    !.run = Len(runs), !.full = full, !.alive = TRUE]]
    /\ overlapped' = (Active # {})
    /\ touched' = (touched /\ Active # {})
    /\ UNCHANGED <<foreignKeys, tables, writes>>

StartSync(s, full) ==
    /\ sync[s].pc = "idle"
    /\ Len(runs) < MaxRuns
    /\ runs' = Append(runs, "running")
    /\ sync' = [sync EXCEPT ![s] = [Idle EXCEPT !.pc = "search",
                    !.run = Len(runs) + 1, !.full = full, !.alive = TRUE]]
    /\ overlapped' = (Active # {})
    /\ touched' = (touched /\ Active # {})
    /\ UNCHANGED <<foreignKeys, tables, writes>>

\* The row and its codes are replaced in one transaction. Awesome and Linux.do
\* leave the scores and the codes alone, but stars, language and archived may
\* move a repository in and out of every ranking as well.
UpsertRepo(r) == \E f \in Fact : fact' = [fact EXCEPT ![r] = f]
upsertAwesomeRepo(r) == \E f \in Fact : fact' = [fact EXCEPT ![r] = f]

\* A search result becomes a candidate before its details are fetched; that
\* they could not be fetched or stored is only logged.
Candidate(s, r) ==
    /\ sync[s].pc = "search"
    /\ r \notin sync[s].cand
    /\ sync' = [sync EXCEPT ![s].cand = @ \cup {r}]
    /\ UpsertRepo(r) \/ UNCHANGED fact
    /\ UNCHANGED <<foreignKeys, member, rank, awesome, linuxdo, runs, writes,
                   overlapped, touched>>

SearchDone(s) ==
    /\ sync[s].pc = "search"
    /\ sync' = [sync EXCEPT ![s] =
           IF sync[s].cand = {} THEN Failed(s) ELSE [@ EXCEPT !.pc = "member"]]
    /\ UNCHANGED <<foreignKeys, tables, runs, writes, overlapped, touched>>

\* Mutant of ReplaceMembership: the candidates are not joined with repos.
ReplaceMembershipUnjoined(s) ==
    /\ sync[s].pc = "member"
    /\ member' = sync[s].cand
    /\ sync' = [sync EXCEPT ![s] = IF sync[s].full THEN [@ EXCEPT !.pc = "prune"]
                                                   ELSE Refresh(s)]
    /\ UNCHANGED <<foreignKeys, fact, rank, awesome, linuxdo, runs, writes,
                   overlapped, touched>>

\* Mutant of ReplaceMembership: no row inserted is not an error.
ReplaceMembershipByNothing(s) ==
    /\ sync[s].pc = "member"
    /\ member' = sync[s].cand \cap Stored
    /\ sync' = [sync EXCEPT ![s] = IF sync[s].full THEN [@ EXCEPT !.pc = "prune"]
                                                   ELSE Refresh(s)]
    /\ UNCHANGED <<foreignKeys, fact, rank, awesome, linuxdo, runs, writes,
                   overlapped, touched>>

\* Candidates without a stored fact are ignored; without any, the transaction
\* is rolled back.
ReplaceMembership(s) ==
    /\ sync[s].pc = "member"
    /\ LET found == sync[s].cand \cap Stored
       IN  IF found = {}
           THEN /\ sync' = [sync EXCEPT ![s] = Failed(s)]
                /\ UNCHANGED member
           ELSE /\ member' = found
                /\ sync' = [sync EXCEPT ![s] =
                       IF sync[s].full THEN [@ EXCEPT !.pc = "prune"]
                                       ELSE Refresh(s)]
    /\ UNCHANGED <<foreignKeys, fact, rank, awesome, linuxdo, runs, writes,
                   overlapped, touched>>

\* Mutant of Kept: only the candidates are kept.
KeptCandidates(s) == Stored \cap sync[s].cand

\* A full synchronisation deletes every fact that is neither a candidate nor
\* referenced by an Awesome snapshot or a Linux.do topic.
Kept(s) == Stored \cap (sync[s].cand \cup Referenced)

Prune(s) ==
    /\ sync[s].pc = "prune"
    /\ member' = member \cap sync[s].cand
    /\ fact' = [r \in Repos |-> IF r \in Kept(s) THEN fact[r] ELSE NoFact]
    /\ rank' = IF foreignKeys THEN [b \in Buckets |-> rank[b] \cap Kept(s)]
                              ELSE rank
    /\ sync' = [sync EXCEPT ![s] = Refresh(s)]
    /\ UNCHANGED <<foreignKeys, awesome, linuxdo, runs, writes, overlapped,
                   touched>>

\* TopRankingEntries, then the Replace...Ranking transaction.
ReadRanking(s, b) ==
    /\ sync[s].pc \in Refreshing
    /\ sync[s].at = NoBucket
    /\ b \in sync[s].todo
    /\ sync' = [sync EXCEPT ![s].at = b, ![s].entries = Matching(b)]
    /\ UNCHANGED <<foreignKeys, tables, runs, writes, overlapped, touched>>

WriteRanking(s) ==
    /\ sync[s].pc \in Refreshing
    /\ sync[s].at # NoBucket
    /\ foreignKeys => sync[s].entries \subseteq Stored
    /\ rank' = [rank EXCEPT ![sync[s].at] = sync[s].entries]
    /\ sync' = [sync EXCEPT ![s].todo = @ \ {sync[s].at},
                            ![s].at = NoBucket, ![s].entries = {}]
    /\ UNCHANGED <<foreignKeys, fact, member, awesome, linuxdo, runs, writes,
                   overlapped, touched>>

\* Mutant of NextPhase: the language buckets are forgotten.
NextPhaseWithoutLanguages(s) ==
    /\ sync[s].at = NoBucket
    /\ sync[s].todo = {}
    /\ \/ /\ sync[s].pc = "all"
          /\ sync' = [sync EXCEPT ![s].pc = "topics", ![s].todo = {TopicBucket}]
       \/ /\ sync[s].pc = "topics"
          /\ sync' = [sync EXCEPT ![s].pc = "done"]
    /\ UNCHANGED <<foreignKeys, tables, runs, writes, overlapped, touched>>

\* refreshRankings: all, the languages the catalog has now, the topics.
NextPhase(s) ==
    /\ sync[s].at = NoBucket
    /\ sync[s].todo = {}
    /\ \/ /\ sync[s].pc = "all"
          /\ sync' = [sync EXCEPT ![s].pc = "languages",
                 ![s].todo = {fact[r].language : r \in member \cap Stored}]
       \/ /\ sync[s].pc = "languages"
          /\ sync' = [sync EXCEPT ![s].pc = "topics", ![s].todo = {TopicBucket}]
       \/ /\ sync[s].pc = "topics"
          /\ sync' = [sync EXCEPT ![s].pc = "done"]
    /\ UNCHANGED <<foreignKeys, tables, runs, writes, overlapped, touched>>

\* A search error, a SQLite error or a missing foreign key.
StepFails(s) ==
    /\ sync[s].pc \in {"search", "member", "prune"} \cup Refreshing
    /\ sync' = [sync EXCEPT ![s] = Failed(s)]
    /\ UNCHANGED <<foreignKeys, tables, runs, writes, overlapped, touched>>

\* The 30 minutes of a scheduled run are over, or the admin client went away:
\* the next call with this context fails.
ContextEnds(s) ==
    /\ sync[s].pc # "idle"
    /\ sync[s].alive
    /\ sync' = [sync EXCEPT ![s] =
           IF sync[s].pc = "done" THEN [@ EXCEPT !.alive = FALSE]
                                  ELSE [Failed(s) EXCEPT !.alive = FALSE]]
    /\ UNCHANGED <<foreignKeys, tables, runs, writes, overlapped, touched>>

\* FinishSyncRun uses the same context: once it is done, the row stays as it is.
Finish(s) ==
    /\ sync[s].pc \in {"done", "failed"}
    /\ runs' = IF sync[s].alive
               THEN [runs EXCEPT ![sync[s].run] =
                        IF sync[s].pc = "done" THEN "success" ELSE "failed"]
               ELSE runs
    /\ sync' = [sync EXCEPT ![s] = Idle]
    /\ UNCHANGED <<foreignKeys, tables, writes, overlapped, touched>>

-----------------------------------------------------------------------------
(* What else happens to the tables *)

Write ==
    /\ writes < MaxWrites
    /\ writes' = writes + 1
    /\ touched' = TRUE
    /\ UNCHANGED <<foreignKeys, member, rank, runs, sync, overlapped>>

\* ReplaceAwesomeSnapshot of a source: facts and entries in one transaction.
AwesomeSnapshot(repos) ==
    /\ Write
    /\ \E f \in [repos -> Fact] :
          fact' = [r \in Repos |-> IF r \in repos THEN f[r] ELSE fact[r]]
    /\ awesome' = repos
    /\ UNCHANGED linuxdo

\* UpsertAwesomeRepositories: the source's own repository.
AwesomeSource(r) ==
    /\ Write
    /\ upsertAwesomeRepo(r)
    /\ UNCHANGED <<awesome, linuxdo>>

\* ApplyLinuxDoDecision with state published.
LinuxDoPublish(r) ==
    /\ Write
    /\ upsertAwesomeRepo(r)
    /\ linuxdo' = linuxdo \cup {r}
    /\ UNCHANGED awesome

\* A skipped decision or a repository that became private; it undoes a
\* publication, so it needs no bound of its own.
LinuxDoRevoke(r) ==
    /\ r \in linuxdo
    /\ linuxdo' = linuxdo \ {r}
    /\ touched' = TRUE
    /\ UNCHANGED <<foreignKeys, fact, member, rank, awesome, runs, sync, writes,
                   overlapped>>

\* The process ends and starts again: only the tables survive.
Restart ==
    /\ Active # {}
    /\ sync' = [s \in Syncs |-> Idle]
    /\ UNCHANGED <<foreignKeys, tables, runs, writes, overlapped, touched>>

SyncStep(s) ==
    \/ \E full \in BOOLEAN : StartSync(s, full)
    \/ \E r \in Repos : Candidate(s, r)
    \/ SearchDone(s)
    \/ ReplaceMembership(s)
    \/ Prune(s)
    \/ \E b \in Buckets : ReadRanking(s, b)
    \/ WriteRanking(s)
    \/ NextPhase(s)
    \/ StepFails(s)
    \/ ContextEnds(s)
    \/ Finish(s)

Next ==
    \/ \E s \in Syncs : SyncStep(s)
    \/ \E repos \in SUBSET Repos : AwesomeSnapshot(repos)
    \/ \E r \in Repos : \/ AwesomeSource(r)
                        \/ LinuxDoPublish(r)
                        \/ LinuxDoRevoke(r)
    \/ Restart

Spec == Init /\ [][Next]_vars

-----------------------------------------------------------------------------
(* Properties *)

\* Every variable has its type, and a running synchronisation has its row.
TypeOK ==
    /\ foreignKeys \in BOOLEAN
    /\ fact \in [Repos -> Fact \cup {NoFact}]
    /\ member \subseteq Repos
    /\ rank \in [Buckets -> SUBSET Repos]
    /\ awesome \subseteq Repos
    /\ linuxdo \subseteq Repos
    /\ runs \in Seq({"running", "success", "failed"})
    /\ Len(runs) <= MaxRuns
    /\ sync \in [Syncs -> SyncState]
    /\ \A s \in Active : sync[s].run \in DOMAIN runs
    /\ writes \in 0..MaxWrites
    /\ overlapped \in BOOLEAN
    /\ touched \in BOOLEAN

\* The catalog never lists a repository whose fact is gone, however the
\* membership replacement of one synchronisation, the prune of another and the
\* transactions of Awesome and Linux.do interleave, and even if the driver
\* ignores the foreign keys (ReplaceDiscoveryCatalogMembership,
\* PruneReposNotIn).
MembersHaveFacts == member \subseteq Stored

\* A full synchronisation never deletes a fact that an Awesome entry or a
\* Linux.do topic refers to: their public queries join repos and would lose
\* the row without a word (PruneReposNotIn).
ReferencedHaveFacts == Referenced \subseteq Stored

\* A synchronisation that ran alone never empties a catalog that held
\* something: not by an empty search, not by failed details, not by pruning
\* (Sync, ReplaceDiscoveryCatalogMembership, PruneReposNotIn).
CatalogKept ==
    [][member # {} /\ ~overlapped => member' # {}]_vars

\* When a synchronisation that ran alone is about to report success, every
\* ranking it is to rebuild lists the members that match it, from the tables
\* as they are then (refreshRankings after ReplaceDiscoveryCatalogMembership
\* and PruneReposNotIn).
RankedAtSuccess ==
    \A s \in Syncs :
        sync[s].pc = "done" /\ ~overlapped /\ ~touched =>
            \A b \in {AllBucket, TopicBucket}
                     \cup {fact[r].language : r \in member} :
                rank[b] = Matching(b)

\* docs/api.md: /discovery/popular supports the language parameter. A page
\* asked for one language lists repositories of that language, at the latest
\* when a synchronisation that ran alone reports success (categoryPage).
ServedLanguage ==
    \A s \in Syncs :
        sync[s].pc = "done" /\ ~overlapped /\ ~touched =>
            \A b \in Languages : Served(b) \subseteq Matching(b)

\* The statistics of sync_runs count each run as running, succeeded or failed
\* (OperationalStats.Sync).
CountedAs(status) == Cardinality({i \in DOMAIN runs : runs[i] = status})
EveryRunCounted ==
    CountedAs("running") + CountedAs("succeeded") + CountedAs("failed") = Len(runs)

=============================================================================
