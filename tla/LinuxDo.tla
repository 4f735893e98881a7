------------------------------- MODULE LinuxDo -------------------------------
(***************************************************************************)
(* The Linux.do pipeline: one synchronisation at a time observes the feed, *)
(* judges again what an older rule judged, verifies candidates at GitHub   *)
(* and publishes, skips or withdraws them (internal/linuxdo/service.go);   *)
(* the transactions of internal/store/linuxdo.go; and the response cache   *)
(* that a synchronisation replaces when it ends (internal/handler/         *)
(* linuxdo.go).                                                            *)
(*                                                                         *)
(* The feed and GitHub may answer differently each time they are asked, so *)
(* neither is a variable. A content stands for a post: its title, the      *)
(* repository names it mentions and those a rule takes for promoted; its   *)
(* address is made from the topic id (parser.go:124) and cannot change.    *)
(* The facts of a repository are rows of the shared repos table, which     *)
(* Discovery and Awesome write too. Nothing but the synchronisation writes *)
(* candidates, so a GitHub answer and the transaction it leads to are one  *)
(* step.                                                                   *)
(***************************************************************************)
EXTENDS Naturals, FiniteSets

CONSTANTS
    Topics,
    Names,         \* owner/name as posts write them
    Repos,         \* GitHub repository ids
    NoRepo,        \* gh_repo_id = 0
    Facts,         \* what GitHub may say of a repository
    Contents,      \* contents of a first post, by content hash
    NoContent,     \* the topic is not stored
    Title,         \* title and publication date of a content
    Mentioned,     \* the names ParseFeed finds in it
    Promoted,      \* those classifyCandidates accepts, by rule version
    NoCandidate,
    Readers,       \* requests to the public endpoints
    NoSnapshot,
    QueueLimit,    \* LIMIT of the queue and of the topics judged again (100)
    MaxRule,       \* bound: rule versions deployed
    MaxRevision    \* bound: revisions of the publication

Rules == 1..MaxRule

Candidate == [hash : Contents, promoted : BOOLEAN, rule : Rules,
              state : {"pending", "published", "skipped"},
              repo : Repos \cup {NoRepo}]

ASSUME LinuxDoAssumption ==
    /\ NoContent \notin Contents
    /\ NoRepo \notin Repos
    /\ NoCandidate \notin Candidate
    /\ Mentioned \in [Contents -> SUBSET Names]
    /\ Promoted \in [Rules \X Contents -> SUBSET Names]
    /\ QueueLimit \in Nat \ {0}
    /\ MaxRule \in Nat \ {0}
    /\ MaxRevision \in Nat

VARIABLES
    topic,      \* linuxdo_topics: the content hash stored last
    cand,       \* linuxdo_candidates, by topic and name
    link,       \* linuxdo_repo_topics: what is public
    revision,   \* linuxdo_state.revision
    facts,      \* repos, shared with the other subsystems
    feedRule,   \* linuxdo_state.rule_version, 0 before the first ETag
    rule,       \* model.LinuxDoRuleVersion of the running process
    sync,       \* where the synchronisation that holds Service.mu is
    cached,     \* the bulk response in the current response cache
    reader,     \* where each request is
    private     \* history: repositories last verified as private

tables == <<topic, cand, link, revision, facts, feedRule>>
vars == <<tables, rule, sync, cached, reader, private>>

Slots == Topics \X Names
CandAt(k) == cand[k[1]][k[2]]

\* What LinuxDoSnapshot reads in one transaction: relations and titles, which
\* only a synchronisation writes, ...
Public == [link |-> link,
           title |-> [t \in {l[2] : l \in link} |-> Title[topic[t]]]]

\* ... and the facts of the repositories they name.
Shown == [public |-> Public, facts |-> [x \in {l[1] : l \in link} |-> facts[x]]]

Idle == [pc |-> "idle", todo |-> {}, queue |-> {}, ok |-> FALSE, cut |-> FALSE]
Working == {"fetch", "stale", "reclassify", "decide", "skip"}

\* The rows whose evidence is the stored post.
Current == {k \in Slots : CandAt(k) # NoCandidate
                          /\ CandAt(k).hash = topic[k[1]]}

\* LinuxDoStaleObservations: topics with a row an older rule judged.
StaleTopics == {k[1] : k \in {c \in Current : CandAt(c).rule < rule}}

Pending == {k \in Current : CandAt(k).rule = rule /\ CandAt(k).state = "pending"}

\* Published rows whose relation exists are verified again once it is a day
\* old, as long as the feed showed the topic within a week.
Recheckable == {k \in Current : /\ CandAt(k).rule = rule
                                /\ CandAt(k).state = "published"
                                /\ <<CandAt(k).repo, k[1]>> \in link}

NoReader == [pc |-> "idle", current |-> FALSE, got |-> NoSnapshot]

Init ==
    /\ topic = [t \in Topics |-> NoContent]
    /\ cand = [t \in Topics |-> [n \in Names |-> NoCandidate]]
    /\ link = {}
    /\ revision = 0
    /\ facts \in [Repos -> Facts]
    /\ feedRule = 0
    /\ rule = 1
    /\ sync = Idle
    /\ cached = NoSnapshot
    /\ reader = [r \in Readers |-> NoReader]
    /\ private = {}

-----------------------------------------------------------------------------
(* One synchronisation. TryLock turns a second caller away at once. *)

Bump == revision < MaxRevision /\ revision' = revision + 1

BeginSync ==
    /\ sync.pc = "idle"
    /\ sync' = [Idle EXCEPT !.pc = "fetch"]
    /\ UNCHANGED <<tables, rule, cached, reader, private>>

\* 304 only answers a conditional request, and the request is conditional only
\* if the stored validators belong to this rule.
FetchUnchanged ==
    /\ sync.pc = "fetch"
    /\ feedRule = rule
    /\ sync' = [sync EXCEPT !.pc = "stale"]
    /\ UNCHANGED <<tables, rule, cached, reader, private>>

\* Mutant of Observed: the repository the name stood for is forgotten.
ObservedAfresh(c, content, name) ==
    LET promoted == name \in Promoted[rule, content]
    IN  IF c # NoCandidate /\ c.hash = content /\ c.rule = rule
        THEN c
        ELSE [hash |-> content, promoted |-> promoted, rule |-> rule,
              state |-> "pending", repo |-> NoRepo]

\* The upsert of ObserveLinuxDo: the verdict is taken back when the post, the
\* rule or the classification is another than the stored one.
Observed(c, content, name) ==
    LET promoted == name \in Promoted[rule, content]
        fresh == [hash |-> content, promoted |-> promoted, rule |-> rule,
                  state |-> "pending", repo |-> NoRepo]
    IN  IF c = NoCandidate THEN fresh
        ELSE IF c.hash # content \/ c.rule # rule \/ c.promoted # promoted
             THEN [fresh EXCEPT !.repo = c.repo]
             ELSE c

\* Mutant of ObserveLinuxDo: a new title of a published topic is not counted.
ObserveWithoutRevision(seen, post) ==
    /\ sync.pc = "fetch"
    /\ topic' = [t \in Topics |-> IF t \in seen THEN post[t] ELSE topic[t]]
    /\ cand' = [t \in Topics |-> [n \in Names |->
           IF t \in seen /\ n \in Mentioned[post[t]]
           THEN Observed(cand[t][n], post[t], n) ELSE cand[t][n]]]
    /\ feedRule' = rule
    /\ sync' = [sync EXCEPT !.pc = "stale"]
    /\ UNCHANGED <<link, facts, revision, rule, cached, reader, private>>

\* One transaction: the posts of the page, their candidates and the ETag.
\* Topics and names that are not on the page keep their rows and relations; a
\* page may show only posts outside the instance.
ObserveLinuxDo(seen, post) ==
    /\ sync.pc = "fetch"
    /\ topic' = [t \in Topics |-> IF t \in seen THEN post[t] ELSE topic[t]]
    /\ cand' = [t \in Topics |-> [n \in Names |->
           IF t \in seen /\ n \in Mentioned[post[t]]
           THEN Observed(cand[t][n], post[t], n) ELSE cand[t][n]]]
    /\ feedRule' = rule
    /\ IF \E l \in link : l[2] \in seen /\ Title[topic[l[2]]] # Title[post[l[2]]]
       THEN Bump
       ELSE UNCHANGED revision
    /\ sync' = [sync EXCEPT !.pc = "stale"]
    /\ UNCHANGED <<link, facts, rule, cached, reader, private>>

\* At most QueueLimit of a set, all of it if it fits.
Cut(set, chosen) ==
    /\ chosen \subseteq set
    /\ IF Cardinality(set) <= QueueLimit THEN chosen = set
       ELSE Cardinality(chosen) = QueueLimit

ReadStale ==
    /\ sync.pc = "stale"
    /\ \E chosen \in SUBSET StaleTopics :
           /\ Cut(StaleTopics, chosen)
           /\ sync' = [sync EXCEPT !.pc = "reclassify", !.todo = chosen,
                                   !.cut = chosen # StaleTopics]
    /\ UNCHANGED <<tables, rule, cached, reader, private>>

\* One transaction per topic. Nothing public changes before the decision.
Reclassify(t) ==
    /\ sync.pc = "reclassify"
    /\ t \in sync.todo
    /\ cand' = [cand EXCEPT ![t] = [n \in Names |->
           IF <<t, n>> \in Current /\ cand[t][n].rule < rule
           THEN [cand[t][n] EXCEPT !.promoted = n \in Promoted[rule, topic[t]],
                                   !.rule = rule, !.state = "pending"]
           ELSE cand[t][n]]]
    /\ sync' = [sync EXCEPT !.todo = @ \ {t}]
    /\ UNCHANGED <<topic, link, revision, facts, feedRule, rule, cached, reader, private>>

\* LinuxDoVerificationQueue: pending rows before rechecks. Rows are kept as
\* they were read.
Select ==
    /\ sync.pc = "reclassify"
    /\ sync.todo = {}
    /\ \E due \in SUBSET Recheckable :
       \E chosen \in SUBSET (Pending \cup due) :
           /\ Cut(Pending \cup due, chosen)
           /\ chosen \subseteq Pending \/ Pending \subseteq chosen
           /\ sync' = [sync EXCEPT !.pc = "decide", !.ok = TRUE,
                  !.queue = {[at |-> k, row |-> CandAt(k), now |-> FALSE] : k \in chosen},
                  !.cut = @ \/ chosen # Pending \cup due]
    /\ UNCHANGED <<tables, rule, cached, reader, private>>


\* Pending rows come before rechecks.
First(item) ==
    /\ sync.pc = "decide"
    /\ item \in sync.queue
    /\ item.row.state = "published" =>
           \A other \in sync.queue : other.row.state = "published"

Unchanged(item) ==
    LET k == item.at
    IN  /\ CandAt(k).hash = item.row.hash
        /\ topic[k[1]] = item.row.hash
        /\ CandAt(k).state = item.row.state
        /\ CandAt(k).rule = item.row.rule

\* The loop goes on without item.
Done(item) == sync' = [sync EXCEPT !.pc = "decide", !.queue = @ \ {item}]

\* ApplyLinuxDoDecision "skipped": the relation of the row's repository to the
\* topic goes, whichever candidate of the topic it came from.
ApplySkipped(item) ==
    LET k == item.at
        l == <<CandAt(k).repo, k[1]>>
    IN  /\ Unchanged(item)
        /\ link' = link \ {l}
        /\ cand' = [cand EXCEPT ![k[1]][k[2]].state = "skipped"]
        /\ IF l \in link THEN Bump ELSE UNCHANGED revision
        /\ Done(item)
        /\ UNCHANGED <<topic, facts, feedRule, rule, cached, reader, private>>

\* The rule did not accept it: no question to GitHub.
SkipUnpromoted(item) ==
    /\ First(item)
    /\ ~item.row.promoted
    /\ ApplySkipped(item)

\* Mutant of Publish: the relation is made with the id the row had.
PublishStoredId(item, x, f) ==
    /\ First(item)
    /\ item.row.promoted
    /\ Unchanged(item)
    /\ link' = link \cup {<<CandAt(item.at).repo, item.at[1]>>}
    /\ cand' = [cand EXCEPT ![item.at[1]][item.at[2]] =
                   [@ EXCEPT !.state = "published", !.repo = x]]
    /\ Bump
    /\ facts' = [facts EXCEPT ![x] = f]
    /\ private' = private \ {x}
    /\ Done(item)
    /\ UNCHANGED <<topic, feedRule, rule, cached, reader>>

\* GitHub answers with a public repository: the facts, the relation and the
\* state in one transaction; the relation of another repository that the name
\* stood for goes.
Publish(item, x, f) ==
    LET k == item.at
        old == CandAt(k).repo
    IN  /\ First(item)
        /\ item.row.promoted
        /\ Unchanged(item)
        /\ link' = (IF old = x THEN link ELSE link \ {<<old, k[1]>>})
                   \cup {<<x, k[1]>>}
        /\ cand' = [cand EXCEPT ![k[1]][k[2]] =
                       [@ EXCEPT !.state = "published", !.repo = x]]
        /\ Bump
        /\ facts' = [facts EXCEPT ![x] = f]
        /\ private' = private \ {x}
        /\ Done(item)
        /\ UNCHANGED <<topic, feedRule, rule, cached, reader>>

\* Mutant of RevokePrivateLinuxDoRepository: only the topic at hand.
RevokeHere(item, x) ==
    LET gone == {l \in link : l = <<x, item.at[1]>>}
    IN  /\ First(item)
        /\ item.row.promoted
        /\ link' = link \ gone
        /\ cand' = [cand EXCEPT ![item.at[1]] = [n \in Names |->
               IF @[n] # NoCandidate /\ @[n].repo = x
               THEN [@[n] EXCEPT !.state = "skipped"] ELSE @[n]]]
        /\ IF gone = {} THEN UNCHANGED revision ELSE Bump
        /\ private' = private \cup {x}
        /\ IF item.row.repo = x THEN Done(item)
           ELSE sync' = [sync EXCEPT !.pc = "skip", !.queue =
                            {IF i = item THEN [i EXCEPT !.now = TRUE] ELSE i : i \in @}]
        /\ UNCHANGED <<topic, facts, feedRule, rule, cached, reader>>

\* GitHub answers with a private repository: every relation of it goes, in one
\* transaction. A candidate that stood for another repository is skipped in a
\* second one.
RevokePrivateLinuxDoRepository(item, x) ==
    LET gone == {l \in link : l[1] = x}
    IN  /\ First(item)
        /\ item.row.promoted
        /\ link' = link \ gone
        /\ cand' = [t \in Topics |-> [n \in Names |->
               IF cand[t][n] # NoCandidate /\ cand[t][n].repo = x
               THEN [cand[t][n] EXCEPT !.state = "skipped"] ELSE cand[t][n]]]
        /\ IF gone = {} THEN UNCHANGED revision ELSE Bump
        /\ private' = private \cup {x}
        /\ IF item.row.repo = x THEN Done(item)
           ELSE sync' = [sync EXCEPT !.pc = "skip", !.queue =
                            {IF i = item THEN [i EXCEPT !.now = TRUE] ELSE i : i \in @}]
        /\ UNCHANGED <<topic, facts, feedRule, rule, cached, reader>>

SkipPrivate(item) ==
    /\ sync.pc = "skip"
    /\ item \in sync.queue
    /\ item.now
    /\ ApplySkipped(item)

\* Mutant of Unavailable: the round counts as complete.
UnavailableIgnored(item) ==
    /\ First(item)
    /\ item.row.promoted
    /\ Done(item)
    /\ UNCHANGED <<tables, rule, cached, reader, private>>

\* No answer, 404 or an answer without a repository decides nothing: the row
\* keeps its state and the round counts as incomplete.
Unavailable(item) ==
    /\ First(item)
    /\ item.row.promoted
    /\ sync' = [sync EXCEPT !.queue = @ \ {item}, !.ok = FALSE]
    /\ UNCHANGED <<tables, rule, cached, reader, private>>

\* An error of any step, the five minutes, a row that changed since the queue
\* was read (ErrLinuxDoConflict) or a stopped scheduler: the deferred part runs.
SyncFails ==
    /\ sync.pc \in Working
    /\ sync' = [Idle EXCEPT !.pc = "finish"]
    /\ UNCHANGED <<tables, rule, cached, reader, private>>

QueueDone ==
    /\ sync.pc = "decide"
    /\ sync.queue = {}
    /\ sync' = [sync EXCEPT !.pc = "finish"]
    /\ UNCHANGED <<tables, rule, cached, reader, private>>

\* FinishSyncRun, then Invalidate: a new cache object. A response that is being
\* built goes to its readers and to the object nobody will ask again.
Finish ==
    /\ sync.pc = "finish"
    /\ sync' = Idle
    /\ cached' = NoSnapshot
    /\ reader' = [r \in Readers |-> [reader[r] EXCEPT !.current = FALSE]]
    /\ UNCHANGED <<tables, rule, private>>

-----------------------------------------------------------------------------
(* Requests to the public endpoints. A hit changes nothing. Which object a   *)
(* request has and what it reads are one step: only the order of the read    *)
(* and the next Invalidate matters.                                          *)

BeginBuild(r) ==
    /\ reader[r].pc = "idle"
    /\ cached = NoSnapshot
    /\ \A o \in Readers : ~reader[o].current
    /\ reader' = [reader EXCEPT ![r] = [pc |-> "build", current |-> TRUE,
                                        got |-> Public]]
    /\ UNCHANGED <<tables, rule, sync, cached, private>>

\* Mutant of EndBuild: one cache object for ever.
EndBuildAlways(r) ==
    /\ reader[r].pc = "build"
    /\ cached' = reader[r].got
    /\ reader' = [reader EXCEPT ![r] = NoReader]
    /\ UNCHANGED <<tables, rule, sync, private>>

EndBuild(r) ==
    /\ reader[r].pc = "build"
    /\ cached' = IF reader[r].current THEN reader[r].got ELSE cached
    /\ reader' = [reader EXCEPT ![r] = NoReader]
    /\ UNCHANGED <<tables, rule, sync, private>>

Expire ==
    /\ cached # NoSnapshot
    /\ cached' = NoSnapshot
    /\ UNCHANGED <<tables, rule, sync, reader, private>>

-----------------------------------------------------------------------------
(* Discovery and Awesome store what GitHub says of a repository, whether it  *)
(* is public here or not (store/awesome.go:448, store/sqlite.go:71).         *)

StoreFacts ==
    /\ \E x \in Repos, f \in Facts :
           /\ facts[x] # f
           /\ facts' = [facts EXCEPT ![x] = f]
    /\ UNCHANGED <<topic, cand, link, revision, feedRule>>
    /\ UNCHANGED <<rule, sync, cached, reader, private>>

-----------------------------------------------------------------------------
(* The process ends between any two commits; the next one may bring the next *)
(* rule version.                                                             *)

Restart ==
    /\ rule' \in {r \in Rules : r \in {rule, rule + 1}}
    /\ sync' = Idle
    /\ cached' = NoSnapshot
    /\ reader' = [r \in Readers |-> NoReader]
    /\ UNCHANGED <<tables, private>>

SyncStep ==
    \/ FetchUnchanged
    \/ \E seen \in SUBSET Topics : \E post \in [seen -> Contents] :
           ObserveLinuxDo(seen, post)
    \/ ReadStale
    \/ \E t \in Topics : Reclassify(t)
    \/ Select
    \/ \E item \in sync.queue :
           \/ SkipUnpromoted(item)
           \/ \E x \in Repos, f \in Facts : Publish(item, x, f)
           \/ \E x \in Repos : RevokePrivateLinuxDoRepository(item, x)
           \/ SkipPrivate(item)
           \/ Unavailable(item)
    \/ SyncFails
    \/ QueueDone
    \/ Finish

Next ==
    \/ BeginSync
    \/ SyncStep
    \/ \E r \in Readers : BeginBuild(r) \/ EndBuild(r)
    \/ Expire
    \/ StoreFacts
    \/ Restart

Spec == Init /\ [][Next]_vars

-----------------------------------------------------------------------------
(* Properties. *)

Item == [at : Slots, row : Candidate, now : BOOLEAN]

TypeOK ==
    /\ topic \in [Topics -> Contents \cup {NoContent}]
    /\ cand \in [Topics -> [Names -> Candidate \cup {NoCandidate}]]
    /\ link \subseteq Repos \X Topics
    /\ revision \in 0..MaxRevision
    /\ facts \in [Repos -> Facts]
    /\ feedRule \in 0..MaxRule
    /\ rule \in Rules
    /\ sync.pc \in {"idle", "finish"} \cup Working
    /\ sync.todo \subseteq Topics
    /\ sync.queue \subseteq Item
    /\ sync.ok \in BOOLEAN /\ sync.cut \in BOOLEAN
    /\ private \subseteq Repos

\* A repository is public through a topic only while a candidate of that topic
\* stands for it and is not skipped: renames, edits, verdicts taken back and
\* withdrawals leave no relation behind (store/linuxdo.go:200).
LinksHaveCandidates ==
    \A l \in link : \E n \in Names :
        /\ cand[l[2]][n] # NoCandidate
        /\ cand[l[2]][n].repo = l[1]
        /\ cand[l[2]][n].state # "skipped"

\* A repository GitHub last called private is public through no topic and no
\* name, until GitHub calls it public again (store/linuxdo.go:227).
PrivateIsWithdrawn ==
    \A x \in private :
        /\ \A l \in link : l[1] # x
        /\ \A k \in Slots : CandAt(k) # NoCandidate /\ CandAt(k).repo = x
               => CandAt(k).state # "published"

\* Between two synchronisations readers get what the tables say, although the
\* synchronisation committed many times before it replaced the cache and
\* requests were reading meanwhile (handler/linuxdo.go:18).
QuietCacheIsCurrent == sync.pc = "idle" => cached \in {NoSnapshot, Public}

\* A synchronisation that succeeds, with no list cut at its limit, leaves every
\* stored post judged by the rule of this process: nothing is undecided, and
\* nothing stays published that this rule does not accept (service.go:86-141).
DecidedAtSuccess ==
    sync.pc = "finish" /\ sync.ok /\ ~sync.cut =>
        \A k \in Current :
            /\ CandAt(k).state # "pending"
            /\ CandAt(k).rule = rule
            /\ CandAt(k).state = "published" => k[2] \in Promoted[rule, topic[k[1]]]

\* Every transaction that changes the relations or the titles readers are shown
\* counts a revision: observations, decisions and withdrawals of any name and
\* topic (store/linuxdo.go:41, :199-209 and :246). The facts of a repository
\* are not among them: see RevisionCoversFacts.
RevisionMoves == [][Public' # Public => revision' > revision]_vars

\* The revision rises whenever public facts change, as model/linuxdo.go:49 says
\* of it. The facts are those of the shared table (store/linuxdo.go:265), which
\* Discovery and Awesome rewrite without touching linuxdo_state.
RevisionCoversFacts == [][Shown' # Shown => revision' > revision]_vars

\* What "repeated observations deduplicate by topic/repository identity"
\* (README.md:262) asks of two names of one repository: a published candidate
\* of the stored post has its relation.
PublishedIsLinked ==
    \A k \in Current : CandAt(k).state = "published"
        => <<CandAt(k).repo, k[1]>> \in link

=============================================================================
